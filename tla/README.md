# Verification of the LAN-play clients

This directory holds TLA+ models of the programs in the repository, TLC
configurations that check them on small instances, and theorems that TLAPS
proves for every value of the constants. `PROJECT.json` lists the components,
the runs, the source lines each definition models, the hazards and the theorems.
Source paths are relative to `src/`.

## 1. The system

Two clients join a console's LAN with other LANs through a relay server.

* The **desktop client** (`client-switch-lan-play/`, C and C++, one libuv loop)
  captures frames of the virtual subnet 10.13.0.0/16, plays the hosts that are
  on the other side of the relay, and is a gateway to the internet.
* The **Android app** (`app/`, Kotlin) reads the console's packets from a TUN
  device, forwards UDP payloads to a server and writes the answers back.

| part | source | state | operations |
|---|---|---|---|
| ARP cache | `arp.c` | `arp_list` | `arp_set`, `arp_has_ip`, `arp_get_mac_by_ip`, `arp_for_each` |
| packet handling | `packet.c`, `arp.c`, `ipv4/*` | `packet_ctx` | `process_ether`, `process_arp`, `process_ipv4`, `process_icmp`, `send_*` |
| capture loop | `pcaploop.cpp` | interfaces, `map`, capture threads | `uv_pcap_callback`, `uv_pcap_sendpacket`, `uv_pcap_close` |
| LAN client | `lan-client.c` | `frags`, `frag_id`, `local_id`, `next_real_broadcast` | `lan_client_on_recv`, `lan_client_process`, `lan_client_process_frag`, `lan_client_send`, timers |
| life cycle | `lan-play.c`, `main.c` | handles, options | `lan_play_init`, `lan_play_close`, signals |
| gateway | `gateway.cpp`, `uv_lwip/uv_lwip.hpp` | `TcpConnection.closing`, `connSet`, `closingCount` | `onData`, `onWrite`, `kill`, `onConnect`, `release`, `processUdp` |
| proxies | `proxy_*.{hpp,cpp}` | UDP sessions, SOCKS5 state | `getUdp`, expiry timer, handshake |
| lwIP binding | `uv_lwip/*` | write queue, receive buffer | `uvl_write`, `uvl_read_start`, `uvl_close`, lwIP callbacks |
| TCP of lwIP | `lwip/src/core/tcp*.c` | queues, windows and timers of a pcb | `tcp_write`, `tcp_output`, `tcp_receive`, `tcp_recved`, `tcp_close`, timers |
| RPC | `rpc/*` | status, sessions, buffers | `start`, `stop`, `onMessage`, web-socket frames |
| Android relay | `UdpRelayServer.kt`, `ServerRedirector.kt` | `sockets`, `ManagedSocket`, sockets of the redirector | `processFromTun`, `processFromServer`, `cleanupIdleSockets`, `stop` |
| VPN service | `LanPlayVpnService.kt` | `running`, TUN device | `startVpn`, TUN thread, `onDestroy` |
| scanner, view model, user interface | other Kotlin files | a thread, the log | `start`, `stop`, `log` |

The repository vendors lwIP. Of it the client uses TCP over IPv4; the rest of the
stack is built in and does nothing here.

**How they interact.** A captured frame goes through the capture loop to packet
handling, which stores its sender in the ARP cache and then answers it, sends it
to a local host, hands it to the LAN client (and so to the relay) or to the
gateway. A message of the relay goes through reassembly, if it is a fragment,
to `lan_client_process`, which asks the cache for the MAC and sends a frame. The
gateway gives TCP segments to lwIP; the binding `uv_lwip` moves bytes between
lwIP's pcb and the libuv loop, and a `TcpConnection` moves them between the
binding and the socket of a proxy, one buffer at a time in each direction. UDP
packets go past lwIP to the proxy, which keeps a socket for each console. In
the app the TUN thread, the redirector's thread, the watchdog and the main
thread share the map of sockets.

**What is hard.** Expiry of cache entries while a handler runs and addresses in
several slots; fragments that are lost, repeated and reordered, with slots that
are reused without being cleared and counters that wrap; restarts that reuse
ids; several interfaces; four threads on fields without locks; stopping a
service whose threads still run; segments that are lost, cut and reordered under
a receive buffer that the program does not empty, and a send buffer that fills up
in the middle of a request; a bridge that is killed from both sides while events
of the other side are on their way; UDP sessions that expire while they are being
set up, used or collected.

**What should hold.** A frame reaches the host that was heard last; the client
never plays a host that is on the LAN; a broadcast reaches all known hosts of the
segment that it can reach; the relay path hands on only what was sent; the app's
sockets neither leak nor vanish while in use, and idle ones are closed; checksums are accepted; a
connection through the gateway is a byte stream in both directions, every write
is answered, nothing waits for ever, and what one side ends the other side sees
ended; a UDP session lives as long as it is used and not much longer.

## 2. Modules

| module | models | run modules |
|---|---|---|
| `Arp` | the cache, with the clock | through `LanPlay` |
| `LanPlay` (extends `Arp`) | the packet path: capture, ARP, IPv4, relay, gateway, interfaces | `MCLanPlay` |
| `LanClientFrag` | sending in fragments, transport, reassembly | `MCLanClientFrag` |
| `DatagramChannel` | what the relay path promises (abstract) | through `LanClientFrag` |
| `UdpRelay` | the app's relay, redirector and service threads | `MCUdpRelay` |
| `Checksum` | the checksum functions of both clients | itself |
| `TcpOut` | lwIP's sender: operators over a pcb | through `UvlWrite` |
| `UvlWrite` (extends `TcpOut`) | the binding's write queue, lwIP's sender, network and console | `MCUvlWrite` |
| `ByteStream` | what writing promises (abstract) | through `UvlWrite` |
| `TcpIn` | lwIP's receiver: operators over a pcb | through `UvlRead` |
| `UvlRead` (extends `TcpIn`) | the binding's receive buffer, lwIP's receiver, network and console | itself |
| `Gateway` | bridged connections, the fake server, `UvLwipBase` | itself |
| `UdpSessions` | UDP through the proxies: sessions, SOCKS5 association, expiry | itself |
| `LanPlayProofs` (also on `Arp`), `LanClientFragProofs`, `GatewayProofs`, `UdpRelayProofs`, `UdpSessionsProofs`, `UvlReadProofs`, `UvlWriteProofs` (also on `TcpOut`), `ChecksumProofs` | theorems | |

### Arp

`arp_list` is the array, `now` is `time(NULL)`. Each operation of `arp.c` is an
operator over a list and a time, so that `LanPlay` can call it at the times a
handler reads the clock; `arp_set` is the action. `heard` is a history variable:
the MAC last given to `arp_set` for an address, when, and whether there was
room. The clock does not go back.

### LanPlay

One action for each event of the loop: a captured frame
(`lan_play_pcap_handler`, with filter, interface map, `process_ether` and all it
calls), a broadcast or a unicast packet of the relay, a packet of the gateway,
and the timer of real broadcasts. `out` is the set of things the step sends:
frames with the interfaces they leave on, packets to the relay, frames handed to
the gateway. `heard_on` is history: the segment of the interface that heard an
address last. Nothing is assumed of where frames travel: a frame for the MAC of
one interface may be captured on another, as `uv_pcap_callback` notes. Every call
into the cache reads the clock, which may have moved on within the handler
(`Clock`). When an entry expires between `arp_has_ip` and
`arp_get_mac_by_ip` in `process_ipv4`, the frame is sent with an uninitialised
MAC: any MAC (`ForwardLocal`). A MAC has a `Prefix`, because `CMP_MAC` compares
four bytes. Payloads, the IP identification and traffic counters are left out.

### LanClientFrag and DatagramChannel

Several senders and one receiver. `net` only grows and any message in it may be
received at any time, which covers loss, repetition and reordering; a send may
fail at any part; senders and receiver may restart (`lan_client_init`). The four
ways through `lan_client_process_frag` are four actions. A payload stands for
the packet it was cut from, so `Store` shows which packet each part of a buffer
came from. Assigning a slot leaves `buffer` and `total_len` as they were, as the
code does. `local_id` is an int of which a slot keeps 16 bits (`LocalMod`).

### UdpRelay

An action is an operation on the `ConcurrentHashMap` or an access to a field of
a `ManagedSocket`. `running` is the step `onDestroy` has reached, `tun`, `watch`
and `recv` the program counters and locals of the three threads. `lastActivity`
is modelled by its order (`order`) and by who is past the timeout (`idle`).
`asked` is the set of ports whose packets reached the server, which may answer
any of them. `socket?.receive` on a null socket leaves the previous packet in
the buffer, and a closed socket has no local port; both are in the model.

### Checksum

The state is a buffer that grows byte by byte; the operators are the sums of
`calc_checksum`, `calc_payload_checksum` and `calculateUdpChecksum`, compared with
what a receiver computes. The parts given to `calc_payload_checksum` are those of
`send_udp_ex`: headers of even length and a payload of any length. A byte has `Base` values, a word `Base^2`.

### TcpOut, UvlWrite and ByteStream

`TcpOut` translates `tcp_write`, `tcp_output`, the retransmissions, the zero
window probe and the ACK part of `tcp_receive` to functions from pcb to pcb. Bytes
are known by their sequence number, segments by where they start, how long they
are and how many pbufs they have. `rtime` and `persist` say whether a timer runs,
not how far; `tcp_slowtmr` may find a running timer expired at any time.
`UvlWrite` adds the requests of `uvl_write` (`queue` with `sent`, `pending` and
`total_sent`), the `uv_async_t` as a flag, the lwIP callbacks and closing, and
below them a network that loses and reorders segments and loses and repeats
acknowledgements, and a console that reads when it likes. Two lines of data are
kept as history: `stream`, what `tcp_write` copied, and `answer`, what the
callbacks were told. A segment of the console may carry data of its own with the
acknowledgement (`data`, `acknow`), and its sequence number lies before, at or
after the one that the window is from (`order`, on which `UpdateWindow` depends).
Acknowledgements are lost, repeated and overtake each other. A console that sends
none of its own data again sends numbers, acknowledgements and windows in order
(`MayCome`); one that does (`Resends`) sends an old number with a new
acknowledgement. lwIP then moves `lastack` and keeps the old `snd_wnd`, and may send
beyond the window. `WithinWindow` says how far, and is proved for both; the run
`uvl_resend` shows what else comes of it: `SenderConsistent` fails, and therefore
`uvl_write` sets `Resends` to `FALSE`.
`ByteStream` says what the binding's user relies on: bytes arrive in order, and a
request that was answered with success is with the console.

### TcpIn and UvlRead

`TcpIn` translates the data part of `tcp_receive` (trimming, the queue of
out-of-sequence segments), the delayed ACK and the window that is announced.
`UvlRead` adds `uvl_client_recv_func`, `uvl_async_tcp_read_cb`, start and stop of
reading, FIN, RST and closing. The console may have cut its stream into segments
in any way within the window it knows, and any of them may arrive at any time and
any number of times, so the network needs no variable. After `tcp_close` the pcb
goes through `FIN_WAIT_1`, `FIN_WAIT_2`, `CLOSING`, `LAST_ACK` and `TIME_WAIT` as the
FINs of both sides are acknowledged. Data that comes then makes lwIP abort: with a
RST (`RESET`), or without one when the FIN that came with it has led to `TIME_WAIT`,
because `tcp_abandon` only frees the pcb there. `GONE` stands for a pcb that was
freed without a word, so too by `tcp_slowtmr` (`PcbRemoved`); the console is reset
when it sends again (`InputWithoutPcb`). `CountsFin` says whether
the console's FIN has to fit the window. lwIP relies on it: a FIN just beyond the
window, taken from the out-of-sequence queue, fails the assertion at
`tcp_in.c:1516` (a stream as long as the window is enough); the run sets it to
`TRUE`.

### Gateway

One record per connection holds `IConnection`, `TcpConnection`, the fields of
`uvl_tcp_t` that they depend on and the proxy's socket; streams are counted in
bytes. Each callback is an action: those of the binding (`uvl_client_recv_func`,
`uvl_client_freed`, `uvl_async_tcp_read_cb`, `uvl_client_sent_func`,
`uvl_async_tcp_write_cb`), the close callbacks and the events of the proxy. The
binding behaves as `UvlRead` and `UvlWrite` show: bytes in order, and success
only when the console has them. `mode` is the proxy in use, or the fake server.
`crashed` stands for a failed `RT_ASSERT` or a null handle.

### UdpSessions

`cacheTable` is the table of `ProxyBase`, one session or none for each address and
port of a console. A session of the direct proxy is ready at once; one of the
SOCKS5 proxy passes the phases of its handshake, one action for each
(`ConnectEvent`, `associate`, `udpReadyCallback`), or fails in one of them.
Datagrams are numbered, so `waiting` (`waitingData`) and `out` show which of them
wait and were sent. `now` is `time(NULL)`; it may move on between the test of
`isExpire` and the visit at the end of a handler, and between the sessions that
the timer looks at. The loop is assumed to run the timer in the second in which
it is due. `used` and `kept` are history. `Freed` is the destructor, which
comes at some time after `gateway_close`, or never.


## 3. What TLC checks

| run | bounds | shows |
|---|---|---|
| `lan_play` | 3 interfaces on 2 segments, 2 slots, 2 addresses, ttl 2, 4 seconds | `LookupCorrect` (`FreshMac`, `Remembered` and `Forgotten`), `RelayedOnlyIfUnknown`, `UnicastToHeardMac`, `BroadcastReachesAll` |
| `frag` | 2 senders, 2 slots, 2 parts, 3 packets, ids modulo 2, 5 slots given out modulo 4 | `SlotsSound` (`OneSlotPerPacket` and `NothingLeftComplete`), `EvictsOldest`, `WedgedStays`; `ChannelSpec`: the detailed specification implements `DatagramChannel` while ids are not used twice, so that what is handed on was sent |
| `relay` | 2 consoles on 2 ports, 3 socket objects | `MapMatchesSockets` (`NoLostSocket` and `EntryUsable`), `RemovesWhatItClosed`, `ReplyWithinPort`, `AtMostOneLeaked` |
| `relay_idle` | 1 port, 2 objects, fair | `UnusedPortFreed` |
| `checksum` | buffers of up to 6 bytes, bytes 0..3 | `AcceptedUnlessOdd`, `UdpVerifies` (both clients), `PayloadLeftOut` |
| `uvl_write` | segments of 2 bytes, send buffer and window of 4, requests of 3 and 2 bytes, 1 retransmission, fair | `SenderConsistent` (`QueuesContiguous`, `PendingIsHeld` and `CopiedInOrder`), `WithinWindow`, `UnderATimer`, `EventuallyAnswered`, `ClosedGracefully`; `StreamSpec`: the binding over lwIP implements `ByteStream`, so that every request is answered once and in order |
| `uvl_read` | segments of 2 bytes, window and receive buffer of 8, 9 bytes and a FIN, fair | `ReceiverConsistent` (`InOrder` and `OoseqSound`), `WindowIsRoom`, `NoSilentLoss`, `WindowNeverShrinks`, `EverythingRead` |
| `gateway` | 2 connections, receive buffer of 1 byte, 2 bytes in each direction, fair | `FaultsOnlyInRelease` (`CrashesOnlyInRelease` and `RequestLostOnlyInRelease`), `StreamsAccounted` (`OneInFlight`, `NoByteLost` and `NothingLostOnEnd`), `ConsoleGoneIsNoticed`, `FreedOnce`, `EndsTogether`, `ReleaseCompletes` |
| `udp_sessions` | 2 consoles of 3 datagrams each, ttl 3, timer every 2 seconds, 9 seconds | `DatagramsKept`, `GoneInTime`, `SessionKept` |

The runs `relay`, `uvl_write` and `uvl_read` also check the type invariant of their
modules; those of `LanPlay`, `LanClientFrag`, `Gateway` and `UdpSessions` are proved
(section 4).

**Why the bounds are enough for the cases that matter.** Two slots with two
addresses let an address sit in both slots and one take the slot of an expired
other; four seconds with a ttl of two let an entry expire and be renewed. A table
that is full for a third address is too much for TLC together with three
interfaces; `CacheCorrect` covers it, for every size. Two reassembly slots and three
packets fill the slots, evict and wedge; ids modulo 2 and `LocalMod` 4 wrap. Three
objects are enough for two ports: one in the map for each port and one that the
watchdog or the redirector still refers to; `create_socket` was never short of an
object. Base 4 has every carry that base 256 has: out of a word, by more than one,
and to a sum of all ones. In `uvl_write` five bytes do not fit a send buffer of
four, so a request is given to lwIP in two pieces, and segments are joined, sent
again and acknowledged in part; `CwndMod` and `DupMod` are small enough to reach
the overflow tests of `cwnd` and `dupacks`. The pbuf queue is not full before the
send buffer in it; an instance in which `tcp_write` returns `ERR_MEM` (segments of 3
bytes, a send buffer of 8, a queue of 4, requests of 1, 6 and 1 bytes) passes the
safety properties too, but has three million states. In `uvl_read` nine bytes do not fit
the window, so it closes, opens and is probed. In `gateway` a buffer of one byte is
full with the first byte, and two connections are enough for `closingCount` to
count. In `udp_sessions` nine seconds are enough for a session to be used, to
expire, and to be collected or replaced and expire again, and three datagrams for
one that is replaced, one that waits and one that is sent at once.

`MaxNow`, `MaxSent`, `MaxLocal`, `MaxLen`, `Lens`, `MaxAcks`, `Total`, `MaxUp` and
`MaxDown` are bounds of the models, not of the code; sequence numbers do not wrap.
The models of the app, of the buffers and of connections may stop (the service
ends, the buffer is full, the connection is closed), so those runs do not check for
deadlock; the others do. Symmetry is used in `frag` for the senders and in the relay
runs of safety properties for the socket objects, which no property tells apart
(the refinement of the channel is a safety property too), and in no run with
fairness.

**Fairness.** Four runs need it.

* `relay_idle`: the scheduler runs the TUN thread and the watchdog whenever they
  can run (weak fairness), and the minute after the last use passes while the
  watchdog sleeps, again and again (strong fairness, because a scan interrupts
  the sleep and compares with the time at which it started). Nothing is assumed of
  the consoles, the server, the redirector's thread or the user.
* `uvl_write`: libuv runs an async callback that was sent, and lwIP's timers
  (`uvl_timer` runs for ever); a running timer expires; the console reads; and
  what is sent again and again arrives at last, in both directions (strong
  fairness of delivery). Without the last assumption lwIP gives up.
* `uvl_read`: the callback runs, a program that stopped reading starts again (as
  the bridge does when its write is done), and delivery is as above.
* `gateway`: callbacks that are due run, connections are made or fail, and servers
  and consoles take what is sent to them. Nothing is assumed of what a console or
  a server sends, or of when they end.

Fairness is written as the condition that is waited for (`[]<>~P`, or
`<>[]P => []<><<A>>_vars`), so that TLC need not compute `ENABLED`.

### Where the code and its documentation disagree

Three runs end in a violation, each of one property that a comment or the design
document states; two more disagreements are stated exactly by properties that
pass (`findings` in `PROJECT.json` quotes the lines).

* `uvl_resend`: the console sends data of its own again, with a new
  acknowledgement and window 0. lwIP moves `lastack`, keeps the old `snd_wnd`
  (`tcp_in.c:1053`) and sends a short segment and a full one behind it. Three
  duplicate acknowledgements make `tcp_rexmit_fast` take the short one back to
  `unsent`, where the window holds it, and the next `tcp_write` appends its bytes to
  it, as if it were the end of the stream: they get sequence numbers that the full
  segment has already (`NumberedOnce`).
* `relay_port`: an answer of the server is sent from the port that was used
  last, because `processFromServer` is called with port 0.
* `relay_torn`: address and port of a console are written and read one by one
  without a lock, so an answer can go to the address of one console and the port
  of another that share a gateway port.
* `checksum`: the UDP checksum of the app is computed before the payload is copied,
  although a comment says "UDP Header + Payload". `PayloadLeftOut`: a receiver
  accepts such a packet exactly when the payload adds up to zero.
* `uvl_read`: data after the program has closed is answered with "abort (send RST)
  to notify the remote host", but not when its FIN has led to `TIME_WAIT`. The
  second part of `NoSilentLoss` says what the console knows then: not that its FIN
  has arrived.

Several passing properties state limits of the code that a reader should know.
`WedgedStays`: when all slots hold unfinished packets that are not old enough,
new fragmented packets are ignored and nothing ages, so the state lasts until one of
these packets completes or the client restarts. `AcceptedUnlessOdd`: an echo
reply of odd length is rejected unless its last byte is 0. `AtMostOneLeaked`: a
socket that the TUN thread creates while the service stops is never closed, and
there is at most one such socket. `FaultsOnlyInRelease`: closing the gateway while
a SOCKS5 handshake is under way uses a null pointer, and data that arrives from a
server while it closes leaves a write request without an answer. `ReleaseCompletes`: a gateway
that is closed without connections never frees its `UvLwipBase`.
`ConsoleGoneIsNoticed` names the connections that are forgotten. `NoSilentLoss`: when the console ends its stream
before the program has read all of it, the rest is lost, and the console gets a
RST. `BroadcastReachesAll`: with interfaces on several segments a broadcast of the
relay leaves only on the one on which the client was addressed last by the MAC it
uses. `CMP_MAC` compares four of the six bytes of a MAC, so a frame for a host whose
MAC begins like the client's is handed to the gateway too. `DatagramsKept`: until a SOCKS5 association is there only the last datagram is
kept, and a session whose handshake failed sends nothing; `SessionKept`: such a
session stays as long as the console keeps sending.

## 4. What TLAPS proves

Theorems hold for all values of the constants that satisfy the assumptions named
in the modules (`ArpAssumption`, `LanPlayAssumption`, `FrameAssumption`,
`FragAssumption`, `NilAssumption`, `GatewayAssumption`, `UdpRelayAssumption`,
`UdpSessionsAssumption`, `TcpInAssumption`, `UvlReadAssumption`,
`TcpOutAssumption`, `UvlWriteAssumption`, `ChecksumAssumption`): sizes and times are naturals, positive where the code
needs it, at most eight parts as the bit mask has, and special addresses, MACs and
null values are distinct where the code relies on it. The set of connections is
finite.

* **Arp** (`LanPlayProofs`): `ArpTypeCorrect`, `LookupFresh`, `LookupRemembers`,
  `LookupForgets`, and together `CacheCorrect`. `FreshMac` is not inductive: an address may sit in several
  slots, with an old MAC in a slot behind the newest. The invariant `ArpInv`
  says what each slot of an address may hold relative to its last hearing, and
  that the slot found first is the one written last as long as it is valid.
* **LanPlay** (`LanPlayProofs`): `LanPlayTypeCorrect`, `NoTakeover`,
  `UnicastCorrect`, `BroadcastComplete`. A step of the client
  changes the cache only by `arp_set` or by time, so `ArpInv` is kept by the
  lemmas about `Arp`; `BaseInv` adds the types and the map of interfaces, and
  `OutOK` says of each output that it was right when it was sent.
* **LanClientFrag** (`LanClientFragProofs`): `FragTypeCorrect`,
  `ReassemblyIntegrity`, `OneSlot`, `CompleteIsHandedOn` (together
  `SlotsAreSound`), `EvictionOrder`, `FullBufferStays` and `FragImplementsChannel`. The invariant `FragInv` adds
  to the properties that every message is a part of a packet that was sent, that
  the parts a slot has marked hold data of the packet with the slot's source and
  id, that the length is that packet's once its last part is marked, and that the
  slots' `local_id` are older than the counter. Unmarked parts may hold anything.
  For the refinement, initial states map to initial states, and each step to a
  send, a delivery or a quiet step of the channel while ids are not used twice.

* **Gateway** (`GatewayProofs`): `GatewayTypeCorrect`, `NoCrashInService`,
  `FlowControl`, `BytesAccountedFor`, `EndKeepsData`, `ConsoleEndNoticed`,
  `BaseFreedOnce` and `RequestsAnswered`, some of them put together in
  `BridgeStreams` and `FaultFreeInService`: all safety properties of the run. The
  invariant is `GatewayInv`. `ConnInv` relates, for one connection, the reader, the
  write of the proxy, the request and the counters: a connected socket has a
  reader, a write or a request that will start it again, and so `read()` never
  finds a reader. `BaseInv` says that `closingCount` is never positive after
  `release()`, so that `onSelfClose` is called once at most for the connections,
  although `kill` counts them a second time, and once for lwIP, and frees the
  object at the second call. An open connection is in `connSet`, and
  there is none once `release()` has begun. Every action replaces one record, so
  that its proof is a lemma about that record.
* **UdpRelay** (`UdpRelayProofs`): `SocketsInSight` and `EntriesUsable` (together
  `MapIsAccurate`), `RemovalSafe`, `LeakBound`, `RelayTypes` and
  `RepliesWithinPort`: all safety properties of the run. The invariant `RelayInv` says what each thread knows of the
  object in its local variables at each of its steps (`Locals`); that until `stop`
  closes the sockets an open one is in the map, or about to be put there, and an
  entry is open but for the one the watchdog has just closed (`Active`); and that
  afterwards at most one socket is open, and none while the TUN thread could still
  create one (`Stopped`).
* **UdpSessions** (`UdpSessionsProofs`): `UdpTypeCorrect`, `WaitingKept`,
  `Collected` and `PortKept`, for any number of consoles, ttl and period. The
  invariant `UdpInv` adds to the properties that a session expires `TTL` seconds
  after its last use, and that the timer is due within `GC` seconds and no later
  than `GC` seconds after a session expires: `GoneInTime` alone says nothing of
  the timer, and would not survive its next second.
* **UvlRead** (`UvlReadProofs`): `ReadTypes`, `ReceivesInOrder`,
  `RecvBufNeverFull`, `LossIsReset` and `AnnouncedForGood`, for every segment
  size, window and length of the stream: all safety properties of the run. They
  have one hypothesis, `CountsFin`: the console's FIN fits the window that it
  knows. Without it the assertion at `tcp_in.c:1516` can fail (section 2). The
  invariant is `ReadInv`. `PcbInv` says of lwIP's pcb that `ooseq` holds pieces of
  the stream, in order, disjoint, within the window and with a FIN at most at its
  end (`QueueOK`), and that no more is announced than `rcv_wnd`; `StreamInv` says
  of the bytes that `handed` and `recv_buf` are the stream up to `rcv_nxt`, and what
  is left of that once the client is closed; `PeerInv` says that neither the console
  nor an ACK under way knows more than lwIP has announced. `InOrder` alone is not
  inductive: what `tcp_receive` takes from `ooseq` is right only because the queue
  is. Every operator of `TcpIn` has a lemma that says what it makes of the queue
  (`TrimFrontOK`, `OosInsertOK`, `QueuedOK`) or of the pcb (`TakeOK`, `DequeueOK`,
  `ReceiveOK`); `InputOK` puts them together for `tcp_input`, and every other step
  has a lemma of its own.

* **UvlWrite** (`UvlWriteProofs`): `WithinWindowAlways` and `UnderATimerAlways`,
  for every segment size, send buffer, window and sequence of requests, and for
  consoles that send data again or not. The invariant `WindowInv` says that the pcb
  is well formed, that neither an acknowledgement under way nor
  `snd_wl2 + snd_wnd` offers more than the edge that the console has announced, that
  this edge is at most `PeerWnd` past what the console has, and that the timers run.
  `WithinWindow` alone says nothing of `snd_wnd` or of what acknowledgements offer,
  and the next `tcp_output` would break it. Each operator of `TcpOut` has a lemma
  that says what it makes of a pcb (`WriteWindow`, `OutputWindow`, `ReceiveWindow`,
  `ExpiredWindow`, ...) and each action of `UvlWrite` one that puts them together and
  says which segments it sends. `UnderATimerAlways` has the condition
  `snd_wnd <= cwnd` for what is unsent: it is the console's window that holds the
  data back (`OutputGoesOn`). When `cwnd` is the smaller one the first segment always
  fits, because `cwnd` is at least a segment and `unsent` starts at `lastack` when
  nothing is under way; this rests on `QueuesContiguous` and is model-checked only.
* **Checksum** (`ChecksumProofs`): `AcceptedUnlessOddAlways`, `UdpVerifiesAlways`
  and `PayloadLeftOutAlways`, for buffers of every length and bytes of every base.
  The two loops that bring a sum down to a word are shown to compute one function,
  `Residue` (`ReduceResidue`, `FoldResidue`): it solves the equations of both, and
  the least sum for which one of them had another value would be no least one.
  `LastByte` says what a byte without a partner changes, and `WordSumSplit` that
  a sum may be cut at a word.

**Loops.** The loops of lwIP over a queue (the segments of `ooseq` that are in
sequence now) are recursive functions over the number of turns. The induction
theorems of the library take a predicate as a parameter and cannot be used with
the provers at hand, but induction over the members of a set can: the least
element of a set of naturals exists because `<` is well founded (`LeastNat`), and
so a set that holds 0 and with `n` also `n + 1` holds every natural number
(`SetInduction`). With it `AfterDef` shows that the recursive function exists, and
`DequeueAllOK` that every turn keeps the loop's invariant and the last turn leaves
nothing in sequence.

**Only model-checked.** `UvlWrite`'s `TypeOK` and `SenderConsistent`, which are
about sums over queues that are cut, appended to and sent again, and `StreamSpec`,
which rests on them. Out of
TLAPS's reach, because liveness under fairness and `ENABLED` are not supported:
`UnusedPortFreed`, `EventuallyAnswered`, `ClosedGracefully`, `EverythingRead`,
`EndsTogether` and `ReleaseCompletes`.

## 5. What is not modelled

* **Life cycle and RPC**: `lan_play_close`, restarts through RPC, signals, options,
  line protocol and web-socket frames. The hazards are listed in `PROJECT.json`.
* **Capture threads** of builds without a pollable descriptor, and opening devices.
* **LAN client**: keepalive, ping, authentication and close.
* **Proxies**: the bytes of the SOCKS5 messages; the handshake of a TCP connection
  is one step in `Gateway`.
* **lwIP** beyond TCP of an established connection: handshake, how long `TIME_WAIT`
  lasts, options, window scaling, IP, and the protocols the client does not use. lwIP is
  vendored and by far the largest part of the source tree (the client's own code
  is about 7,500 of 115,000 lines), so the share of all lines that the map covers
  is small whatever is modelled of the client.
* **Failures of memory** and of the network interface, but for `SendFails`.
* **Android**: scanner, user interface, set-up of the VPN interface.
* SHA-1, base64, address parsing, header formatting and logging are pure functions
  or output.
* A clock that is set back, and two captured interfaces that hear each other's ARP
  answers.

## 6. Plan

1. `CaptureThread`: the handshake between capture thread and loop, and closing
   while a packet waits (`pcaploop.cpp:345-408`).
2. `LifeCycle`: `lan_play_init`, `lan_play_close`, RPC `start` and `stop`, and
   the timers that stay open; `LineReader` and web-socket frames over a buffer
   list against a reference definition.
3. A refinement from the pair `UvlRead`, `UvlWrite` to the connection that
   `Gateway` assumes.

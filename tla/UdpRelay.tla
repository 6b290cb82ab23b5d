------------------------------ MODULE UdpRelay ------------------------------
(***************************************************************************)
(* The UDP relay of the Android app (UdpRelayServer.kt, with the threads   *)
(* of ServerRedirector.kt and LanPlayVpnService.kt that call it).          *)
(*                                                                         *)
(* Four threads share the map sockets of ManagedSocket objects, one for    *)
(* each port the consoles send to: tun reads packets of the consoles and   *)
(* forwards them to the lan-play server, recv brings the server's packets  *)
(* back, watch closes sockets that are idle, and main stops the service.   *)
(* The map is a ConcurrentHashMap, the objects' fields are not guarded:    *)
(* an action is a map operation or an access to one field.                 *)
(*                                                                         *)
(* lastActivity is modelled by its order: order lists the objects, most    *)
(* recent last, and idle holds those whose lastActivity is more than       *)
(* IDLE_TIMEOUT_MS ago.  Two objects are not used in the same millisecond. *)
(***************************************************************************)
EXTENDS Integers, Sequences, FiniteSets

CONSTANTS
  Port,     \* gateway ports the consoles send to
  Ip,       \* addresses of the consoles
  SrcPort,  \* ports of the consoles
  Flow,     \* what the consoles send: <<ip, port, gateway port>>
  Obj,      \* ManagedSocket objects
  Null

ASSUME UdpRelayAssumption ==
  /\ Flow \subseteq Ip \X SrcPort \X Port
  /\ Null \notin Obj \cup Port \cup Ip \cup SrcPort

VARIABLES
  running,   \* LanPlayVpnService.running, and what onDestroy does next
  sockets,   \* the map: port -> object
  heap,      \* the fields of the objects
  order,     \* the objects by lastActivity
  idle,      \* the objects that are idle
  tun,       \* the thread that reads the TUN device
  watch,     \* the watchdog
  recv,      \* the thread of ServerRedirector
  rsock,     \* ServerRedirector.socket: "none" or "open"
  asked,     \* ports the server has packets of
  reply      \* the packet this step writes to the TUN device

vars == <<running, sockets, heap, order, idle, tun, watch, recv, rsock, asked, reply>>

\* class ManagedSocket; open: its DatagramSocket is bound to port.
ManagedSocket ==
  [port : Port \cup {Null}, lastSourceIp : Ip \cup {Null},
   lastSourcePort : SrcPort \cup {Null}, open : BOOLEAN]

Idling == [pc |-> "loop", port |-> Null, ip |-> Null, src |-> Null, managed |-> Null]

\* The objects some variable refers to, or whose socket is open.
InUse ==
  {o \in Obj : \/ heap[o].open
               \/ \E p \in Port : sockets[p] = o
               \/ o \in {tun.managed, watch.managed, recv.managed}}

\* ServerRedirector.running, as long as its thread looks at it.
redirector_running == running \notin {"device", "destroyed"}

PortFree(p) == \A o \in Obj : heap[o].open => heap[o].port # p

----------------------------------------------------------------------------
\* startVpn has created the relay and the redirector and started the threads.
Init ==
  /\ running = "running"
  /\ sockets = [p \in Port |-> Null]
  /\ heap = [o \in Obj |-> [port |-> Null, lastSourceIp |-> Null,
                            lastSourcePort |-> Null, open |-> FALSE]]
  /\ order = <<>>
  /\ idle = {}
  /\ tun = Idling
  /\ watch = [pc |-> "sleep", left |-> {}, port |-> Null, managed |-> Null]
  /\ recv = [pc |-> "init", buffer |-> Null, managed |-> Null, src |-> Null, ip |-> Null]
  /\ rsock = "none"
  /\ asked = {}
  /\ reply = Null

\* order without o, which is in it at most once.
Without(o) ==
  IF \E i \in 1 .. Len(order) : order[i] = o
  THEN LET k == CHOOSE i \in 1 .. Len(order) : order[i] = o
       IN  [i \in 1 .. Len(order) - 1 |-> IF i < k THEN order[i] ELSE order[i + 1]]
  ELSE order

----------------------------------------------------------------------------
(* The TUN thread *)

\* Mutant of tun_loop: running is not looked at.
tun_loop_always ==
  /\ tun.pc = "loop"
  /\ tun' = [tun EXCEPT !.pc = "read"]
  /\ reply' = Null
  /\ UNCHANGED <<running, sockets, heap, order, idle, watch, recv, rsock, asked>>

\* while (running), and input.read; it fails once the device is closed.
tun_loop ==
  /\ tun.pc = "loop"
  /\ tun' = [tun EXCEPT !.pc = IF running = "running" THEN "read" ELSE "done"]
  /\ reply' = Null
  /\ UNCHANGED <<running, sockets, heap, order, idle, watch, recv, rsock, asked>>

tun_read_fails ==
  /\ tun.pc = "read"
  /\ running = "destroyed"
  /\ tun' = [tun EXCEPT !.pc = "done"]
  /\ reply' = Null
  /\ UNCHANGED <<running, sockets, heap, order, idle, watch, recv, rsock, asked>>

\* processFromTun refuses a packet: not UDP over IPv4, for another address, or
\* without a payload.  Or read returns nothing.
processFromTun_refuses ==
  /\ tun.pc = "read"
  /\ running # "destroyed"
  /\ tun' = [tun EXCEPT !.pc = "loop"]
  /\ reply' = Null
  /\ UNCHANGED <<running, sockets, heap, order, idle, watch, recv, rsock, asked>>

\* processFromTun accepts a packet, and handleInterceptedPacket looks for the
\* socket of its destination port.
processFromTun(f) ==
  /\ tun.pc = "read"
  /\ running # "destroyed"
  /\ tun' = [pc |-> IF sockets[f[3]] = Null THEN "create" ELSE "ip",
             ip |-> f[1], src |-> f[2], port |-> f[3], managed |-> sockets[f[3]]]
  /\ reply' = Null
  /\ UNCHANGED <<running, sockets, heap, order, idle, watch, recv, rsock, asked>>

\* DatagramSocket(dstPort) and ManagedSocket(...).
create_socket ==
  /\ tun.pc = "create"
  /\ PortFree(tun.port)
  /\ \E o \in Obj \ InUse :
       /\ heap' = [heap EXCEPT ![o] = [port |-> tun.port, lastSourceIp |-> tun.ip,
                                       lastSourcePort |-> tun.src, open |-> TRUE]]
       /\ order' = Append(Without(o), o)
       /\ idle' = idle \ {o}
       /\ tun' = [tun EXCEPT !.pc = "put", !.managed = o]
  /\ reply' = Null
  /\ UNCHANGED <<running, sockets, watch, recv, rsock, asked>>

\* The port is taken, by this app or by another one: the packet is dropped.
bind_fails ==
  /\ tun.pc = "create"
  /\ tun' = Idling
  /\ reply' = Null
  /\ UNCHANGED <<running, sockets, heap, order, idle, watch, recv, rsock, asked>>

\* Mutant of put_socket: managed is still null after the put.
put_socket_unset ==
  /\ tun.pc = "put"
  /\ sockets' = [sockets EXCEPT ![tun.port] = tun.managed]
  /\ tun' = [tun EXCEPT !.pc = "ip", !.managed = Null]
  /\ reply' = Null
  /\ UNCHANGED <<running, heap, order, idle, watch, recv, rsock, asked>>

\* putIfAbsent, and the new socket is closed if the port has one already.
put_socket ==
  LET existing == sockets[tun.port]
      managed == IF existing = Null THEN tun.managed ELSE existing
  IN  /\ tun.pc = "put"
      /\ sockets' = [sockets EXCEPT ![tun.port] = managed]
      /\ heap' = [heap EXCEPT ![tun.managed].open = existing = Null]
      /\ tun' = [tun EXCEPT !.pc = "ip", !.managed = managed]
      /\ reply' = Null
      /\ UNCHANGED <<running, order, idle, watch, recv, rsock, asked>>

set_source_ip ==
  /\ tun.pc = "ip"
  /\ heap' = [heap EXCEPT ![tun.managed].lastSourceIp = tun.ip]
  /\ tun' = [tun EXCEPT !.pc = "port"]
  /\ reply' = Null
  /\ UNCHANGED <<running, sockets, order, idle, watch, recv, rsock, asked>>

set_source_port ==
  /\ tun.pc = "port"
  /\ heap' = [heap EXCEPT ![tun.managed].lastSourcePort = tun.src]
  /\ tun' = [tun EXCEPT !.pc = "forward"]
  /\ reply' = Null
  /\ UNCHANGED <<running, sockets, order, idle, watch, recv, rsock, asked>>

\* lastActivity is set, and ServerRedirector.forwardToServer sends the payload
\* if its socket is there.
forwardToServer ==
  /\ tun.pc = "forward"
  /\ order' = Append(Without(tun.managed), tun.managed)
  /\ idle' = idle \ {tun.managed}
  /\ asked' = IF rsock = "open" THEN asked \cup {tun.port} ELSE asked
  /\ tun' = Idling
  /\ reply' = Null
  /\ UNCHANGED <<running, sockets, heap, watch, recv, rsock>>

----------------------------------------------------------------------------
(* The watchdog *)

\* A minute passes since the use of the object that was used first.  A scan
\* compares with the time at which it started: none becomes idle during one.
Age ==
  /\ watch.pc = "sleep"
  /\ \E i \in 1 .. Len(order) :
       /\ order[i] \notin idle
       /\ \A j \in 1 .. i - 1 : order[j] \in idle
       /\ idle' = idle \cup {order[i]}
  /\ reply' = Null
  /\ UNCHANGED <<running, sockets, heap, order, tun, watch, recv, rsock, asked>>

\* cleanupIdleSockets starts its iteration, every five seconds; stop() may
\* come when the thread is awake already.
cleanupIdleSockets ==
  /\ watch.pc = "sleep"
  /\ {p \in Port : sockets[p] # Null} # {}
  /\ watch' = [watch EXCEPT !.pc = "scan", !.left = {p \in Port : sockets[p] # Null}]
  /\ reply' = Null
  /\ UNCHANGED <<running, sockets, heap, order, idle, tun, recv, rsock, asked>>

\* Mutant of cleanup_next: no entry is idle long enough.
cleanup_next_never(p) ==
  /\ watch.pc = "scan"
  /\ p \in watch.left
  /\ watch' = [watch EXCEPT !.left = @ \ {p}]
  /\ reply' = Null
  /\ UNCHANGED <<running, sockets, heap, order, idle, tun, recv, rsock, asked>>

\* The next entry is looked at.
cleanup_next(p) ==
  /\ watch.pc = "scan"
  /\ p \in watch.left
  /\ watch' = IF sockets[p] # Null /\ sockets[p] \in idle
              THEN [pc |-> "close", left |-> watch.left \ {p}, port |-> p,
                    managed |-> sockets[p]]
              ELSE [watch EXCEPT !.left = @ \ {p}]
  /\ reply' = Null
  /\ UNCHANGED <<running, sockets, heap, order, idle, tun, recv, rsock, asked>>

\* Mutant of cleanup_close: the entry is removed here as well as in
\* cleanup_remove.
cleanup_close_twice ==
  /\ watch.pc = "close"
  /\ heap' = [heap EXCEPT ![watch.managed].open = FALSE]
  /\ sockets' = [sockets EXCEPT ![watch.port] = Null]
  /\ watch' = [watch EXCEPT !.pc = "remove"]
  /\ reply' = Null
  /\ UNCHANGED <<running, order, idle, tun, recv, rsock, asked>>

cleanup_close ==
  /\ watch.pc = "close"
  /\ heap' = [heap EXCEPT ![watch.managed].open = FALSE]
  /\ watch' = [watch EXCEPT !.pc = "remove"]
  /\ reply' = Null
  /\ UNCHANGED <<running, sockets, order, idle, tun, recv, rsock, asked>>

\* Mutant of cleanup_remove: the entry stays.
cleanup_remove_not ==
  /\ watch.pc = "remove"
  /\ watch' = [watch EXCEPT !.pc = "scan", !.port = Null, !.managed = Null]
  /\ reply' = Null
  /\ UNCHANGED <<running, sockets, heap, order, idle, tun, recv, rsock, asked>>

\* iterator.remove() removes the key, whatever its value is by now.
cleanup_remove ==
  /\ watch.pc = "remove"
  /\ sockets' = [sockets EXCEPT ![watch.port] = Null]
  /\ watch' = [watch EXCEPT !.pc = "scan", !.port = Null, !.managed = Null]
  /\ reply' = Null
  /\ UNCHANGED <<running, heap, order, idle, tun, recv, rsock, asked>>

\* The scan is over; the thread ends once stop() was called.
cleanup_end ==
  /\ \/ watch.pc = "scan" /\ watch.left = {}
     \/ watch.pc = "sleep" /\ running # "running"
  /\ watch' = [watch EXCEPT !.pc = IF running = "running" THEN "sleep" ELSE "done"]
  /\ reply' = Null
  /\ UNCHANGED <<running, sockets, heap, order, idle, tun, recv, rsock, asked>>

----------------------------------------------------------------------------
(* The thread of ServerRedirector *)

\* The server's name is resolved and the socket created, be it after stop().
redirector_start ==
  /\ recv.pc = "init"
  /\ rsock' = "open"
  /\ recv' = [recv EXCEPT !.pc = "loop"]
  /\ reply' = Null
  /\ UNCHANGED <<running, sockets, heap, order, idle, tun, watch, asked>>

\* while (running); stop() in the finally block does nothing when the
\* redirector is not running.
redirector_loop ==
  /\ recv.pc = "loop"
  /\ recv' = [recv EXCEPT !.pc = IF redirector_running THEN "receive" ELSE "done"]
  /\ reply' = Null
  /\ UNCHANGED <<running, sockets, heap, order, idle, tun, watch, rsock, asked>>

\* The name cannot be resolved, or receive throws: finally { stop() }.
redirector_fails ==
  /\ recv.pc \in {"init", "receive"}
  /\ rsock' = "none"
  /\ recv' = [recv EXCEPT !.pc = "done"]
  /\ reply' = Null
  /\ UNCHANGED <<running, sockets, heap, order, idle, tun, watch, asked>>

\* A packet without the header, or socket?.receive when the socket is null and
\* the buffer holds no packet yet.
receive_nothing ==
  /\ recv.pc = "receive"
  /\ rsock = "none" => recv.buffer = Null
  /\ recv' = [recv EXCEPT !.pc = "loop"]
  /\ reply' = Null
  /\ UNCHANGED <<running, sockets, heap, order, idle, tun, watch, rsock, asked>>

\* sockets.values.maxByOrNull { it.lastActivity }
mostRecent ==
  LET present == {i \in 1 .. Len(order) : \E q \in Port : sockets[q] = order[i]}
  IN  IF present = {} THEN Null
      ELSE order[CHOOSE i \in present : \A j \in present : j <= i]

\* A packet of the server for gateway port p, or the previous one again when
\* the socket is null by now.  handleServerPacket calls
\* processFromServer(payload, 0), which takes the object used last.
processFromServer(p) ==
  /\ recv.pc = "receive"
  /\ IF rsock = "open" THEN p \in asked ELSE p = recv.buffer
  /\ recv' = [recv EXCEPT !.pc = IF mostRecent = Null THEN "loop" ELSE "ip",
                          !.buffer = p, !.managed = mostRecent]
  /\ reply' = Null
  /\ UNCHANGED <<running, sockets, heap, order, idle, tun, watch, rsock, asked>>

\* Mutant of read_source_ip: the object used last is looked for once more.
read_source_ip_again ==
  /\ recv.pc = "ip"
  /\ mostRecent # Null
  /\ LET m == heap[recv.managed]
     IN  recv' = [recv EXCEPT !.pc = "write", !.src = IF m.open THEN m.port ELSE Null,
                              !.ip = heap[mostRecent].lastSourceIp]
  /\ reply' = Null
  /\ UNCHANGED <<running, sockets, heap, order, idle, tun, watch, rsock, asked>>

\* managed.socket.localPort, which is -1 when the socket is closed, and then
\* managed.lastSourceIp.
read_source_ip ==
  /\ recv.pc = "ip"
  /\ LET m == heap[recv.managed]
     IN  recv' = [recv EXCEPT !.pc = "write", !.src = IF m.open THEN m.port ELSE Null,
                              !.ip = m.lastSourceIp]
  /\ reply' = Null
  /\ UNCHANGED <<running, sockets, heap, order, idle, tun, watch, rsock, asked>>

\* managed.lastSourcePort, and onTunWrite.
write_to_tun ==
  /\ recv.pc = "write"
  /\ reply' = IF running = "destroyed" THEN Null
              ELSE [for |-> recv.buffer, src |-> recv.src, ip |-> recv.ip,
                    dst |-> heap[recv.managed].lastSourcePort]
  /\ recv' = [recv EXCEPT !.pc = "loop", !.managed = Null, !.src = Null, !.ip = Null]
  /\ UNCHANGED <<running, sockets, heap, order, idle, tun, watch, rsock, asked>>

----------------------------------------------------------------------------
(* The main thread: onDestroy *)

\* running = false, and stop() of the relay stops the watchdog ...
onDestroy ==
  /\ running = "running"
  /\ running' = "close"
  /\ reply' = Null
  /\ UNCHANGED <<sockets, heap, order, idle, tun, watch, recv, rsock, asked>>

\* ... closes the sockets of the map, in one step: an entry put during the
\* iteration is like one put before it or after it ...
stop_close ==
  /\ running = "close"
  /\ running' = "clear"
  /\ heap' = [o \in Obj |-> [heap[o] EXCEPT !.open = @ /\ \A p \in Port : sockets[p] # o]]
  /\ reply' = Null
  /\ UNCHANGED <<sockets, order, idle, tun, watch, recv, rsock, asked>>

\* ... and clears the map.
stop_clear ==
  /\ running = "clear"
  /\ running' = "redirector"
  /\ sockets' = [p \in Port |-> Null]
  /\ reply' = Null
  /\ UNCHANGED <<heap, order, idle, tun, watch, recv, rsock, asked>>

\* redirector.stop()
redirector_stop ==
  /\ running = "redirector"
  /\ running' = "device"
  /\ rsock' = "none"
  /\ reply' = Null
  /\ UNCHANGED <<sockets, heap, order, idle, tun, watch, recv, asked>>

\* vpnInterface.close()
device_close ==
  /\ running = "device"
  /\ running' = "destroyed"
  /\ reply' = Null
  /\ UNCHANGED <<sockets, heap, order, idle, tun, watch, recv, rsock, asked>>

----------------------------------------------------------------------------
TunStep == tun_loop \/ tun_read_fails \/ create_socket \/ bind_fails \/ put_socket
           \/ set_source_ip \/ set_source_port \/ forwardToServer

Watchdog == cleanupIdleSockets \/ (\E p \in Port : cleanup_next(p)) \/ cleanup_close
            \/ cleanup_remove \/ cleanup_end

Redirector == redirector_start \/ redirector_loop \/ redirector_fails \/ receive_nothing
              \/ (\E p \in Port : processFromServer(p)) \/ read_source_ip \/ write_to_tun

Main == onDestroy \/ stop_close \/ stop_clear \/ redirector_stop \/ device_close

Consoles == processFromTun_refuses \/ \E f \in Flow : processFromTun(f)

Next == TunStep \/ Consoles \/ Age \/ Watchdog \/ Redirector \/ Main

Spec == Init /\ [][Next]_vars

\* The scheduler runs the TUN thread and the watchdog, and the minute passes
\* while the watchdog sleeps, again and again.
FairSpec == Spec /\ WF_vars(TunStep) /\ WF_vars(Watchdog) /\ SF_vars(Age)

----------------------------------------------------------------------------
(* Properties *)

\* The variables have their types; running, tun.pc, watch.pc and recv.pc name
\* the step that comes next in onDestroy and in the three threads.
TypeOK ==
  /\ running \in {"running", "close", "clear", "redirector", "device", "destroyed"}
  /\ sockets \in [Port -> Obj \cup {Null}]
  /\ heap \in [Obj -> ManagedSocket]
  /\ order \in Seq(Obj)
  /\ \A i, j \in 1 .. Len(order) : order[i] = order[j] => i = j
  /\ idle \subseteq Obj
  /\ tun \in [pc : {"loop", "read", "create", "put", "ip", "port", "forward", "done"},
              port : Port \cup {Null}, ip : Ip \cup {Null}, src : SrcPort \cup {Null},
              managed : Obj \cup {Null}]
  /\ tun.pc \in {"put", "ip", "port", "forward"} => tun.managed \in Obj
  /\ watch \in [pc : {"sleep", "scan", "close", "remove", "done"}, left : SUBSET Port,
                port : Port \cup {Null}, managed : Obj \cup {Null}]
  /\ recv \in [pc : {"init", "loop", "receive", "ip", "write", "done"},
               buffer : Port \cup {Null}, managed : Obj \cup {Null},
               src : Port \cup {Null}, ip : Ip \cup {Null}]
  /\ rsock \in {"none", "open"}
  /\ asked \subseteq Port

\* As long as the service runs, a socket that is open is in the map, or is the
\* one the TUN thread is about to put there: the watchdog can reach all of
\* them, and no port stays bound that the relay has lost sight of.
NoLostSocket ==
  running = "running" =>
    \A o \in Obj : heap[o].open =>
      \/ sockets[heap[o].port] = o
      \/ tun.pc = "put" /\ tun.managed = o

\* As long as the service runs, an entry of the map has an open socket on its
\* port, except between the close and the remove of cleanupIdleSockets.
EntryUsable ==
  running = "running" =>
    \A p \in Port : sockets[p] # Null =>
      /\ heap[sockets[p]].port = p
      /\ heap[sockets[p]].open \/ (watch.pc = "remove" /\ watch.managed = sockets[p])

\* Map and sockets agree while the service runs, whatever the watchdog closes
\* and the TUN thread creates: no open socket is out of sight, and no entry is
\* dead.
MapMatchesSockets == NoLostSocket /\ EntryUsable

\* iterator.remove() removes a key: as long as the service runs, the key still
\* has the object whose socket the watchdog closes, never a newer one that a
\* console is using.
RemovesWhatItClosed ==
  running = "running" /\ watch.pc \in {"close", "remove"} =>
    sockets[watch.port] = watch.managed

\* A packet of the server that leaves from gateway port src goes to an address
\* and to a port of consoles that use src, whatever the watchdog and the TUN
\* thread do while processFromServer reads the object's fields.
ReplyWithinPort ==
  reply # Null /\ reply.src # Null =>
    /\ \E f \in Flow : f[1] = reply.ip /\ f[3] = reply.src
    /\ \E f \in Flow : f[2] = reply.dst /\ f[3] = reply.src

\* stop() runs beside the TUN thread, which may create a socket, or put one
\* into the map, when stop() has gone through it already; nothing closes that
\* socket.  It is the only one: the thread handles no second packet, and every
\* other socket is closed in the end.
AtMostOneLeaked ==
  running \notin {"running", "close"} => Cardinality({o \in Obj : heap[o].open}) <= 1

\* As long as the service runs, a port to which no console sends any more is
\* free in the end: the idle timeout closes its socket.
UnusedPortFreed ==
  \A p \in Port :
    [](running = "running") /\ <>[][\A f \in Flow : f[3] = p => ~processFromTun(f)]_vars
      => <>[]PortFree(p)

\* "Responses from the server are routed back to the correct Switch IP/Port":
\* a packet the server sends for a gateway port leaves from that port.
ReplyForItsPort ==
  reply # Null /\ reply.src # Null => reply.src = reply.for

\* The same, for two consoles that use one gateway port: a packet goes to the
\* address and the port of one console, not to a mixture of two.
ReplyToOneConsole ==
  reply # Null /\ reply.src # Null => <<reply.ip, reply.dst, reply.src>> \in Flow

=============================================================================

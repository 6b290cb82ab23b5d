------------------------------ MODULE Gateway -------------------------------
(***************************************************************************)
(* The gateway's TCP side (client-switch-lan-play/gateway.cpp with         *)
(* uv_lwip/uv_lwip.hpp and the proxies): every connection that a console   *)
(* opens is bridged to a socket (TcpConnection over DirectProxyTcp or      *)
(* Socks5ProxyTcp), or answered by the fake server                         *)
(* (SwitchFakeTcpConnection), until one side ends or release() closes all. *)
(*                                                                         *)
(* The lwIP binding appears here with what UvlRead and UvlWrite show of    *)
(* it: bytes arrive in order in the receive buffer, and a write request is *)
(* acknowledged when the console has its bytes.  Streams are counted in    *)
(* bytes.  libuv and uvw are external: a handle that is closed raises no   *)
(* more events, a stopped one no DataEvent and no EndEvent, and close      *)
(* callbacks run later in the loop.                                        *)
(***************************************************************************)
EXTENDS Integers, FiniteSets, FiniteSetsExt

CONSTANTS
  Conn,      \* connections the consoles may open
  RecvBuf,   \* UVL_TCP_RECV_BUF_LEN
  MaxUp,     \* bound: bytes sent by the consoles
  MaxDown    \* bound: bytes sent by the servers

ASSUME GatewayAssumption ==
  /\ IsFiniteSet(Conn)
  /\ RecvBuf \in Nat \ {0} /\ MaxUp \in Nat /\ MaxDown \in Nat

VARIABLES
  mode,     \* the proxy, or "fake": the fake server
  conn,     \* the connections
  connSet,  \* UvLwipBase.connSet
  base,     \* the other fields of UvLwipBase
  crashed   \* an assertion failed or a null pointer was used

vars == <<mode, conn, connSet, base, crashed>>

\* A connection: IConnection.closing and the close callback (st),
\* TcpConnection.closing (killed), fields of uvl_tcp_t (closed, read_cb,
\* read_req, recv, req), the proxy's socket (proxy, reading, pwrite: bytes of
\* the write under way), and the streams: bytes from the console that arrived
\* (up) and that the server has (upgot), bytes the server sent (down), that
\* the proxy has read (downread) and that the console has (downgot).  fin: the
\* server has sent all; ended: EndEvent led to kill() and the console was still
\* there; lost: a write request that nobody answers.
Connection ==
  [st : {"none", "open", "closing", "gone"}, killed : BOOLEAN, closed : BOOLEAN,
   read_cb : BOOLEAN, read_req : BOOLEAN, recv : 0..RecvBuf,
   req : {"none", "queued", "sent", "acked"}, wlen : Nat,
   proxy : {"connecting", "failed", "ready", "closed"}, reading : BOOLEAN,
   pwrite : 0..RecvBuf, up : Nat, upgot : Nat, down : Nat, downread : Nat,
   downgot : Nat, fin : BOOLEAN, ended : BOOLEAN, lost : BOOLEAN]

\* uvlClosed: the callback of uvl_close has run; selfClose: calls of onSelfClose.
UvLwipBase ==
  [closing : BOOLEAN, closingCount : Int, lwipClosed : BOOLEAN,
   uvlClosed : BOOLEAN, freed : BOOLEAN, selfClose : Nat]

Fresh ==
  [st |-> "none", killed |-> FALSE, closed |-> FALSE, read_cb |-> FALSE,
   read_req |-> FALSE, recv |-> 0, req |-> "none", wlen |-> 0,
   proxy |-> "connecting", reading |-> FALSE, pwrite |-> 0,
   up |-> 0, upgot |-> 0, down |-> 0, downread |-> 0, downgot |-> 0,
   fin |-> FALSE, ended |-> FALSE, lost |-> FALSE]

Init ==
  /\ mode \in {"direct", "socks5", "fake"}
  /\ conn = [c \in Conn |-> Fresh]
  /\ connSet = {}
  /\ base = [closing |-> FALSE, closingCount |-> 0, lwipClosed |-> FALSE,
             uvlClosed |-> FALSE, freed |-> FALSE, selfClose |-> 0]
  /\ crashed = FALSE

-----------------------------------------------------------------------------
(* UvLwipBase *)

\* UvLwipBase::onSelfClose: the second call frees the object.
onSelfClose(b) ==
  [b EXCEPT !.selfClose = @ + 1, !.lwipClosed = TRUE, !.freed = @ \/ b.lwipClosed]

\* Mutant: less than zero counts as zero.
UncountLow(b) ==
  LET d == [b EXCEPT !.closingCount = @ - 1]
  IN IF d.closingCount <= 0 THEN onSelfClose(d) ELSE d

\* UvLwipBase::removeConnection while closing.
Uncount(b) ==
  LET d == [b EXCEPT !.closingCount = @ - 1]
  IN IF d.closingCount = 0 THEN onSelfClose(d) ELSE d

\* IConnection::close(): removeConnection through a weak pointer.
removeConnection(c) ==
  IF base.freed THEN UNCHANGED <<connSet, base>>
  ELSE IF base.closing THEN base' = Uncount(base) /\ UNCHANGED connSet
  ELSE connSet' = connSet \ {c} /\ UNCHANGED base

\* IConnection::close(), uvl_tcp_close: write requests are canceled; read_cb
\* is told, but readCallback does nothing any more.
close(k) ==
  IF k.st = "open"
  THEN [k EXCEPT !.st = "closing", !.closed = TRUE, !.read_cb = FALSE, !.read_req = FALSE,
                 !.req = "none", !.wlen = 0]
  ELSE k

\* Mutant: a connected socket is stopped, but not closed.
killed_unclosed(k, end) ==
  [close(k) EXCEPT !.killed = TRUE, !.reading = FALSE, !.read_cb = FALSE,
                   !.proxy = IF k.proxy = "ready" THEN "ready" ELSE "closed",
                   !.pwrite = 0, !.ended = end]

\* The connection of TcpConnection::kill().
killed(k, end) ==
  [close(k) EXCEPT !.killed = TRUE, !.reading = FALSE, !.read_cb = FALSE,
                   !.proxy = "closed", !.pwrite = 0, !.ended = end]

\* TcpConnection::kill() for a connection whose fields are k by now.  Before
\* the handshake is done Socks5ProxyTcp has no socket to stop.
kill(c, k, end) ==
  /\ UNCHANGED mode
  /\ IF k.killed
     THEN conn' = [conn EXCEPT ![c] = k] /\ UNCHANGED <<connSet, base, crashed>>
     ELSE /\ conn' = [conn EXCEPT ![c] = killed(k, end)]
          /\ removeConnection(c)
          /\ crashed' = (mode = "socks5" /\ k.proxy # "ready")

\* A step that changes only connection c.
Becomes(c, k) ==
  /\ conn' = [conn EXCEPT ![c] = k]
  /\ UNCHANGED <<mode, connSet, base, crashed>>

\* Mutant: a closed connection does not tell its reader.
read_silent(c, k) ==
  IF k.read_cb THEN crashed' = TRUE /\ UNCHANGED <<mode, conn, connSet, base>>
  ELSE IF ~k.closed THEN Becomes(c, [k EXCEPT !.read_cb = TRUE, !.read_req = TRUE])
  ELSE Becomes(c, k)

\* IConnection::read() for a connection whose fields are k by now: the end, if
\* the console is gone (unless IConnection.closing); an assertion fails if
\* read_cb is set.
read(c, k) ==
  IF k.read_cb THEN crashed' = TRUE /\ UNCHANGED <<mode, conn, connSet, base>>
  ELSE IF ~k.closed THEN Becomes(c, [k EXCEPT !.read_cb = TRUE, !.read_req = TRUE])
  ELSE IF k.st = "open" THEN kill(c, k, FALSE)
  ELSE Becomes(c, k)

\* UvLwipBase::onConnect: the connection is accepted, onConnection runs, and
\* then it is in connSet, also when connect() failed at once and kill() ran.
onConnect(c) ==
  LET k == [Fresh EXCEPT !.st = "open"]
  IN /\ conn[c].st = "none" /\ ~base.closing
     /\ \/ mode = "fake" /\ conn' = [conn EXCEPT ![c] = [k EXCEPT !.req = "queued", !.wlen = 1,
                                                                    !.down = 1, !.downread = 1]]
        \/ mode # "fake" /\ conn' = [conn EXCEPT ![c] = k]
        \/ mode = "direct" /\ conn' = [conn EXCEPT ![c] = killed(k, FALSE)]
     /\ connSet' = connSet \cup {c}
     /\ UNCHANGED <<mode, base, crashed>>

\* Mutant: the connections are not counted.
release_uncounted ==
  /\ ~base.closing
  /\ conn' = [c \in Conn |-> IF c \in connSet THEN close(conn[c]) ELSE conn[c]]
  /\ base' = [base EXCEPT !.closing = TRUE, !.closingCount = 0 - Cardinality(connSet)]
  /\ UNCHANGED <<mode, connSet, crashed>>

\* gateway::~gateway, UvLwipBase::release: uvl_close and close() for all of
\* connSet.
release ==
  LET b == [base EXCEPT !.closing = TRUE, !.closingCount = Cardinality(connSet)]
  IN /\ ~base.closing
     /\ conn' = [c \in Conn |-> IF c \in connSet THEN close(conn[c]) ELSE conn[c]]
     /\ base' = IF connSet = {} THEN b
                ELSE onSelfClose([b EXCEPT !.closingCount = 0])
     /\ UNCHANGED <<mode, connSet, crashed>>

\* uvl_timer_close_cb, the callback of uvl_close.
uvl_timer_close_cb ==
  /\ base.closing /\ ~base.uvlClosed
  /\ base' = onSelfClose([base EXCEPT !.uvlClosed = TRUE])
  /\ UNCHANGED <<mode, conn, connSet, crashed>>

-----------------------------------------------------------------------------
(* The lwIP side of a connection *)

\* uvl_client_recv_func: a byte of the console.
uvl_client_recv_func(c) ==
  LET k == conn[c]
  IN /\ k.st = "open" /\ ~k.closed /\ k.recv < RecvBuf
     /\ MapThenSumSet(LAMBDA d : conn[d].up, Conn) < MaxUp
     /\ Becomes(c, [k EXCEPT !.up = @ + 1, !.recv = @ + 1, !.read_req = TRUE])

\* uvl_client_freed: the console's FIN or RST, or lwIP gives up.  readCallback
\* is told the end if the connection is being read.
uvl_client_freed(c) ==
  LET k == [conn[c] EXCEPT !.closed = TRUE, !.read_cb = FALSE]
  IN /\ conn[c].st = "open" /\ ~conn[c].closed
     /\ IF conn[c].read_cb THEN kill(c, k, FALSE) ELSE Becomes(c, k)

\* Mutant: onData does not stop reading.
uvl_async_tcp_read_cb_goes_on(c) ==
  LET k == [conn[c] EXCEPT !.read_req = FALSE]
  IN /\ k.st = "open" /\ conn[c].read_req
     /\ IF k.read_cb /\ k.recv > 0
        THEN Becomes(c, [k EXCEPT !.pwrite = k.recv, !.recv = 0])
        ELSE Becomes(c, k)

\* uvl_async_tcp_read_cb and onData: reading stops, the proxy writes.
uvl_async_tcp_read_cb(c) ==
  LET k == [conn[c] EXCEPT !.read_req = FALSE]
  IN /\ k.st = "open" /\ conn[c].read_req
     /\ IF k.read_cb /\ k.recv > 0
        THEN Becomes(c, [k EXCEPT !.read_cb = FALSE, !.pwrite = k.recv, !.recv = 0])
        ELSE Becomes(c, k)

\* uvl_client_sent_func: the console has all of the request.
uvl_client_sent_func(c) ==
  LET k == conn[c]
  IN /\ k.st = "open" /\ ~k.closed /\ k.req = "sent"
     /\ Becomes(c, [k EXCEPT !.req = "acked", !.downgot = @ + k.wlen])

\* uvl_async_tcp_write_cb: a request is given to lwIP, or canceled when the
\* console is gone; or it is done: writeCallback and onWrite.
uvl_async_tcp_write_cb(c) ==
  LET k == conn[c]
  IN /\ k.st = "open"
     /\ \/ /\ k.req = "queued"
           /\ Becomes(c, [k EXCEPT !.req = IF k.closed THEN "none" ELSE "sent"])
        \/ /\ k.req = "acked" /\ mode # "fake"
           /\ Becomes(c, [k EXCEPT !.req = "none", !.reading = TRUE])
        \/ /\ k.req = "acked" /\ mode = "fake"
           /\ conn' = [conn EXCEPT ![c] = close(k)]
           /\ removeConnection(c)
           /\ UNCHANGED <<mode, crashed>>

\* IConnection::closeCallback.  The connection is freed; what is left of its
\* fields is history.
closeCallback(c) ==
  LET k == [conn[c] EXCEPT !.st = "gone", !.recv = 0, !.upgot = 0, !.downread = 0]
  IN /\ conn[c].st = "closing"
     /\ IF mode = "fake" THEN Becomes(c, k) ELSE kill(c, k, FALSE)

-----------------------------------------------------------------------------
(* The proxy's side of a connection *)

\* ConnectEvent, or the end of the SOCKS5 handshake.
ConnectEvent(c) ==
  LET k == conn[c]
  IN /\ mode # "fake" /\ k.st \in {"open", "closing"} /\ k.proxy = "connecting"
     /\ read(c, [k EXCEPT !.proxy = "ready", !.reading = TRUE])

\* Mutant: a failed handshake kills the connection.
ConnectFails_kills(c) ==
  /\ mode # "fake" /\ conn[c].st \in {"open", "closing"} /\ conn[c].proxy = "connecting"
  /\ kill(c, conn[c], FALSE)

\* The connection fails.  Of a failed handshake the connection is not told.
ConnectFails(c) ==
  LET k == conn[c]
  IN /\ mode # "fake" /\ k.st \in {"open", "closing"} /\ k.proxy = "connecting"
     /\ IF mode = "direct" THEN kill(c, k, FALSE)
        ELSE Becomes(c, [k EXCEPT !.proxy = "failed"])

\* DataEvent: reading stops, and the data is written to the console.  The
\* handles of a connection that release() has closed are closing: the request
\* stays where it is.
DataEvent(c) ==
  LET k == conn[c]
      n == k.down - k.downread
  IN /\ k.proxy = "ready" /\ k.reading /\ n > 0
     /\ Becomes(c, IF k.st = "open"
                   THEN [k EXCEPT !.reading = FALSE, !.downread = k.down, !.req = "queued",
                                  !.wlen = n]
                   ELSE [k EXCEPT !.reading = FALSE, !.downread = k.down, !.lost = TRUE])

\* The server has ended and everything it sent is read.
EndEvent(c) ==
  LET k == conn[c]
  IN /\ k.proxy = "ready" /\ k.reading /\ k.fin /\ k.down = k.downread
     /\ kill(c, k, ~k.closed)

\* The socket fails while it is read or written.
ErrorEvent(c) ==
  LET k == conn[c]
  IN /\ k.proxy = "ready" /\ (k.reading \/ k.pwrite > 0)
     /\ kill(c, k, FALSE)

\* WriteEvent: the server has the bytes, and the console is read again.
WriteEvent(c) ==
  LET k == conn[c]
  IN /\ k.proxy = "ready" /\ k.pwrite > 0
     /\ read(c, [k EXCEPT !.upgot = @ + k.pwrite, !.pwrite = 0])

\* The server: external.
ServerSends(c) ==
  LET k == conn[c]
  IN /\ k.proxy = "ready" /\ ~k.fin
     /\ MapThenSumSet(LAMBDA d : conn[d].down, Conn) < MaxDown
     /\ Becomes(c, [k EXCEPT !.down = @ + 1])

ServerEnds(c) ==
  /\ conn[c].proxy = "ready" /\ ~conn[c].fin
  /\ Becomes(c, [conn[c] EXCEPT !.fin = TRUE])

-----------------------------------------------------------------------------
Lwip(c) ==
  \/ onConnect(c) \/ uvl_client_recv_func(c) \/ uvl_client_freed(c)
  \/ uvl_async_tcp_read_cb(c) \/ uvl_client_sent_func(c) \/ uvl_async_tcp_write_cb(c)
  \/ closeCallback(c)

Proxy(c) ==
  \/ ConnectEvent(c) \/ ConnectFails(c) \/ DataEvent(c) \/ EndEvent(c)
  \/ ErrorEvent(c) \/ WriteEvent(c) \/ ServerSends(c) \/ ServerEnds(c)

Next ==
  /\ ~crashed
  /\ (\E c \in Conn : Lwip(c) \/ Proxy(c)) \/ release \/ uvl_timer_close_cb

Spec == Init /\ [][Next]_vars

\* The events that something waits for.  Each is enabled exactly while it is
\* waited for, and ends the wait.
Event == {"timer_close", "close", "read", "write", "sent", "connect", "data", "end", "wrote"}

Awaited(c) ==
  LET k == conn[c]
  IN [timer_close |-> base.closing /\ ~base.uvlClosed,
      close |-> k.st = "closing",
      read |-> k.st = "open" /\ k.read_req,
      write |-> k.st = "open" /\ k.req \in {"queued", "acked"},
      sent |-> k.st = "open" /\ ~k.closed /\ k.req = "sent",
      connect |-> mode # "fake" /\ k.st \in {"open", "closing"} /\ k.proxy = "connecting",
      data |-> k.proxy = "ready" /\ k.reading /\ k.down > k.downread,
      end |-> k.proxy = "ready" /\ k.reading /\ k.down = k.downread /\ k.fin,
      wrote |-> k.proxy = "ready" /\ k.pwrite > 0]

\* Weak fairness of these events: the loop runs callbacks that wait,
\* connections are made or fail, and servers and consoles take what is sent to
\* them.
FairSpec ==
  /\ Spec
  /\ \A c \in Conn, e \in Event : []<>(crashed \/ ~Awaited(c)[e])

-----------------------------------------------------------------------------
\* The types of the variables: the fields of UvLwipBase and of a connection.
TypeOK ==
  /\ mode \in {"direct", "socks5", "fake"}
  /\ conn \in [Conn -> Connection]
  /\ connSet \subseteq Conn
  /\ base \in UvLwipBase
  /\ crashed \in BOOLEAN

\* read() never finds read_cb set, which would fail RT_ASSERT of
\* uv_lwip.hpp:105, whoever calls it.  The only way to crash is release() of a
\* connection whose SOCKS5 handshake is not done: kill() stops a socket that
\* Socks5ProxyTcp does not have yet (proxy_socks5.cpp:407).
CrashesOnlyInRelease == crashed => mode = "socks5" /\ base.closing

\* A bridged connection holds at most one buffer in each direction: the server
\* is not read while a request is in the queue, and the console is not read
\* while the proxy writes.
OneInFlight ==
  mode # "fake" =>
    \A c \in Conn :
      /\ conn[c].req # "none" => ~conn[c].reading
      /\ conn[c].pwrite > 0 => ~conn[c].read_cb

\* No byte is lost as long as both sides are there: what arrived from the
\* console is in the receive buffer, in the proxy's write or with the server;
\* what was read from the server is in the request or with the console.
NoByteLost ==
  mode # "fake" =>
    \A c \in Conn :
      LET k == conn[c]
      IN k.st = "open" /\ ~k.closed =>
           /\ k.up = k.recv + k.pwrite + k.upgot
           /\ k.downread = k.downgot + (IF k.req \in {"queued", "sent"} THEN k.wlen ELSE 0)

\* A server that ends the connection after its last byte does not cut off its
\* data: the console has all of it before EndEvent is raised and kill() resets
\* the console's connection.
NothingLostOnEnd == \A c \in Conn : conn[c].ended => conn[c].downgot = conn[c].down

\* uvl_client_freed tells a connection only while it is read.  If the console
\* goes at another time, the connection is still told: something is under way
\* that ends in read().  What can stay in connSet without a console are the
\* entries of connections whose connect() failed at once (uv_lwip.hpp:152),
\* handshakes that failed, and connections of the fake server.
ConsoleGoneIsNoticed ==
  \A c \in connSet :
    conn[c].closed /\ ~base.closing =>
      \/ conn[c].killed \/ conn[c].pwrite > 0
      \/ conn[c].proxy \in {"connecting", "failed"} \/ mode = "fake"

\* onSelfClose is called at most twice, although kill() takes connections that
\* release() has closed off closingCount a second time, and the object is freed
\* only when lwIP's timer and all of its connections are closed or closing.
FreedOnce ==
  /\ base.selfClose <= 2
  /\ base.freed => base.uvlClosed /\ \A c \in Conn : conn[c].st # "open"

\* A write request is left without an answer only if data arrives between
\* release() and the connection's close callback.
RequestLostOnlyInRelease == \A c \in Conn : conn[c].lost => base.closing

\* What a bridge moves is held back and accounted for at every step of the two
\* sides' callbacks: one buffer at most is under way in each direction, and no
\* byte is lost, neither on the way nor when the server ends.
StreamsAccounted == OneInFlight /\ NoByteLost /\ NothingLostOnEnd

\* Until release() is called no order of callbacks makes the gateway fail an
\* assertion, use a null socket or forget a request.
FaultsOnlyInRelease == CrashesOnlyInRelease /\ RequestLostOnlyInRelease

\* What one side of a bridge ends, the other side sees ended: when the console
\* is gone the proxy's socket is closed at last, and when the server has ended
\* the connection the console's is closed at last.
EndsTogether ==
  \A c \in Conn :
    /\ conn[c].closed /\ (mode = "direct" \/ conn[c].proxy = "ready")
         ~> conn[c].proxy = "closed" \/ crashed
    /\ conn[c].fin ~> conn[c].st = "gone" \/ crashed

\* release() closes every connection, and frees the object, unless there was
\* no connection at the time: then onSelfClose is called once only.
ReleaseCompletes ==
  base.closing ~> \/ crashed
                  \/ /\ \A c \in Conn : conn[c].st \in {"none", "gone"}
                     /\ base.freed \/ connSet = {}

=============================================================================

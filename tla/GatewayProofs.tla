---------------------------- MODULE GatewayProofs ----------------------------
(***************************************************************************)
(* The safety properties of Gateway for any set of connections, any size   *)
(* of the receive buffer and streams of any length.                        *)
(***************************************************************************)
EXTENDS Gateway, FiniteSetTheorems, TLAPS

Mode == {"direct", "socks5", "fake"}

\* What a connection k satisfies, in mode m, before (~cl) or after release().
\* The parts build on each other: only a socket that is connected is read or
\* written; a connected socket has either a reader for the console's bytes or
\* a write under way, never both; a connection that is closing without having
\* been killed was closed by release() or by the fake server.
ConnSafe(k, m, cl) ==
  /\ k.st = "none" => k = Fresh
  /\ k.st \in {"closing", "gone"} => k.closed
  /\ k.killed => k.proxy = "closed" /\ k.st \in {"closing", "gone"}
  /\ k.proxy = "closed" => k.killed
  /\ m = "fake" => k.proxy = "connecting"
  /\ k.reading \/ k.read_cb \/ k.pwrite > 0 => k.proxy = "ready"
  /\ k.read_cb => k.st = "open" /\ ~k.closed
  /\ k.st = "closing" /\ ~k.killed => cl \/ m = "fake"
  /\ k.st = "gone" => k.killed \/ m = "fake"
  /\ m # "fake" => /\ k.req # "none" => ~k.reading /\ k.proxy = "ready" /\ k.st = "open"
                   /\ k.pwrite > 0 => ~k.read_cb
  /\ m # "fake" /\ k.st = "open" /\ ~k.closed =>
       /\ k.up = k.recv + k.pwrite + k.upgot
       /\ k.downread = k.downgot + (IF k.req \in {"queued", "sent"} THEN k.wlen ELSE 0)
  /\ k.ended => k.killed /\ k.downgot = k.down
  /\ k.lost => cl

\* Something is under way that will notice the end of the console.
Watched(k, m, cl) ==
  /\ k.st = "open" /\ k.proxy = "ready" /\ ~k.closed => k.read_cb \/ k.pwrite > 0
  /\ k.closed /\ ~cl => \/ k.killed \/ k.pwrite > 0
                        \/ k.proxy \in {"connecting", "failed"} \/ m = "fake"

ConnInv(k, m, cl) == ConnSafe(k, m, cl) /\ Watched(k, m, cl)

\* What UvLwipBase satisfies: after release() closingCount is never positive,
\* so that onSelfClose is called once for the connections and once for lwIP.
BaseInv(b) ==
  /\ ~b.closing => b.selfClose = 0 /\ ~b.lwipClosed /\ ~b.uvlClosed /\ ~b.freed
  /\ b.closing => b.closingCount <= 0
  /\ b.selfClose <= IF b.uvlClosed THEN 2 ELSE 1
  /\ b.selfClose = 0 => ~b.lwipClosed
  /\ b.selfClose < 2 => ~b.freed

\* The inductive invariant.
GatewayInv ==
  /\ TypeOK
  /\ \A c \in Conn : ConnInv(conn[c], mode, base.closing)
  /\ BaseInv(base)
  /\ \A c \in Conn : conn[c].st = "open" => ~base.closing /\ c \in connSet
  /\ crashed => mode = "socks5" /\ base.closing

-----------------------------------------------------------------------------
\* What close() changes: it leaves the proxy's side and the streams alone.
LEMMA CloseFields ==
  ASSUME NEW k \in Connection
  PROVE  /\ close(k) \in Connection
         /\ k.st # "open" => close(k) = k
         /\ k.st = "open" => /\ close(k).st = "closing" /\ close(k).closed
                             /\ ~close(k).read_cb /\ close(k).req = "none"
         /\ close(k).killed = k.killed /\ close(k).proxy = k.proxy
         /\ close(k).reading = k.reading /\ close(k).pwrite = k.pwrite
         /\ close(k).ended = k.ended /\ close(k).lost = k.lost
         /\ close(k).downgot = k.downgot /\ close(k).down = k.down
<1>1. CASE k.st # "open"
  BY <1>1 DEF close
<1>2. CASE k.st = "open"
  <2> DEFINE d == [k EXCEPT !.st = "closing", !.closed = TRUE, !.read_cb = FALSE,
                            !.read_req = FALSE, !.req = "none", !.wlen = 0]
  <2>1. close(k) = d
    BY <1>2 DEF close
  <2>2. /\ d \in Connection
        /\ d.st = "closing" /\ d.closed /\ ~d.read_cb /\ d.req = "none"
        /\ d.killed = k.killed /\ d.proxy = k.proxy /\ d.reading = k.reading
        /\ d.pwrite = k.pwrite /\ d.ended = k.ended /\ d.downgot = k.downgot
        /\ d.down = k.down /\ d.lost = k.lost
    BY DEF Connection
  <2> QED  BY <1>2, <2>1, <2>2
<1> QED  BY <1>1, <1>2

\* A connection after close().
LEMMA CloseConn ==
  ASSUME NEW k \in Connection, NEW m \in Mode, NEW cl \in BOOLEAN,
         ConnInv(k, m, cl)
  PROVE  /\ close(k) \in Connection
         /\ ConnInv(close(k), m, TRUE)
         /\ m = "fake" => ConnInv(close(k), m, cl)
         /\ close(k).st # "open"
<1> DEFINE d == close(k)
<1>1. /\ d \in Connection
      /\ k.st # "open" => d = k
      /\ k.st = "open" => d.st = "closing" /\ d.closed /\ ~d.read_cb /\ d.req = "none"
      /\ d.killed = k.killed /\ d.proxy = k.proxy /\ d.reading = k.reading
      /\ d.pwrite = k.pwrite /\ d.ended = k.ended /\ d.downgot = k.downgot
      /\ d.down = k.down /\ d.lost = k.lost
  BY CloseFields
<1> HIDE DEF d
<1>2. ConnInv(d, m, TRUE) /\ (m = "fake" => ConnInv(d, m, cl))
  BY <1>1 DEF ConnInv, ConnSafe, Watched, Connection
<1> QED  BY <1>1, <1>2 DEF d

\* A connection after TcpConnection::kill().
LEMMA KilledConn ==
  ASSUME NEW k \in Connection, NEW m \in {"direct", "socks5"}, NEW cl \in BOOLEAN,
         NEW end \in BOOLEAN, k.st # "none", k.st # "open" => k.closed /\ k.req = "none",
         k.lost => cl, end => k.downgot = k.down
  PROVE  /\ killed(k, end) \in Connection
         /\ ConnInv(killed(k, end), m, cl)
         /\ killed(k, end).st # "open"
<1> DEFINE e == close(k)
           d == [e EXCEPT !.killed = TRUE, !.reading = FALSE, !.read_cb = FALSE,
                          !.proxy = "closed", !.pwrite = 0, !.ended = end]
<1>1. killed(k, end) = d
  BY DEF killed
<1>2. /\ e \in Connection
      /\ e.st \in {"closing", "gone"} /\ e.closed /\ e.req = "none"
      /\ e.downgot = k.downgot /\ e.down = k.down /\ e.lost = k.lost
  BY CloseFields DEF Connection
<1> HIDE DEF e
<1>3. 0 \in 0..RecvBuf
  BY GatewayAssumption
<1>4. d \in Connection
  BY <1>2, <1>3 DEF Connection
<1>5. /\ d.st = e.st /\ d.closed = e.closed /\ d.killed /\ ~d.reading /\ ~d.read_cb
      /\ d.proxy = "closed" /\ d.pwrite = 0 /\ d.req = e.req
      /\ d.downgot = e.downgot /\ d.down = e.down /\ d.lost = e.lost
  BY <1>2 DEF Connection
<1>6. d.ended = end
  BY <1>2 DEF Connection
<1> HIDE DEF d
<1>7. ConnInv(d, m, cl)
  BY <1>2, <1>4, <1>5, <1>6 DEF ConnInv, ConnSafe, Watched, Connection
<1> QED  BY <1>1, <1>2, <1>4, <1>5, <1>7

-----------------------------------------------------------------------------
\* What onSelfClose changes.
LEMMA SelfCloseFields ==
  ASSUME NEW b \in UvLwipBase
  PROVE  /\ onSelfClose(b) \in UvLwipBase
         /\ onSelfClose(b).closing = b.closing
         /\ onSelfClose(b).closingCount = b.closingCount
         /\ onSelfClose(b).uvlClosed = b.uvlClosed
         /\ onSelfClose(b).selfClose = b.selfClose + 1 /\ onSelfClose(b).lwipClosed
         /\ onSelfClose(b).freed => b.freed \/ b.lwipClosed
<1> DEFINE f == b.freed \/ b.lwipClosed
           d == [b EXCEPT !.selfClose = @ + 1, !.lwipClosed = TRUE, !.freed = f]
<1>1. onSelfClose(b) = d
  BY DEF onSelfClose
<1>2. (f = TRUE \/ f = FALSE) /\ b.selfClose + 1 \in Nat
  BY DEF UvLwipBase
<1>3. d \in UvLwipBase
  <2>1. CASE f = TRUE
    BY <1>2, <2>1 DEF UvLwipBase
  <2>2. CASE f = FALSE
    BY <1>2, <2>2 DEF UvLwipBase
  <2> QED  BY <1>2, <2>1, <2>2
<1>4. /\ d.closing = b.closing /\ d.closingCount = b.closingCount
      /\ d.uvlClosed = b.uvlClosed /\ d.selfClose = b.selfClose + 1 /\ d.lwipClosed
  BY DEF UvLwipBase
<1>5. d.freed = f
  BY <1>2 DEF UvLwipBase
<1> HIDE DEF d
<1> QED  BY <1>1, <1>3, <1>4, <1>5 DEF f

\* The fields that release() sets.
LEMMA ReleaseType ==
  ASSUME NEW b \in UvLwipBase
  PROVE  [b EXCEPT !.closing = TRUE, !.closingCount = 0] \in UvLwipBase
<1>1. ASSUME NEW n \in Int
      PROVE  [b EXCEPT !.closing = TRUE, !.closingCount = n] \in UvLwipBase
  BY DEF UvLwipBase
<1>2. 0 \in Int
  OBVIOUS
<1> QED  BY <1>1, <1>2, Zenon

\* Once release() has run, removeConnection only counts further down.
LEMMA RemoveBase ==
  ASSUME base \in UvLwipBase, BaseInv(base), NEW c \in Conn, removeConnection(c)
  PROVE  /\ base' \in UvLwipBase /\ BaseInv(base') /\ base'.closing = base.closing
         /\ connSet' \subseteq connSet /\ connSet \ {c} \subseteq connSet'
<1>1. CASE base.freed
  BY <1>1 DEF removeConnection
<1>2. CASE ~base.freed /\ base.closing
  <2> DEFINE d == [base EXCEPT !.closingCount = @ - 1]
  <2>1. /\ d \in UvLwipBase
        /\ d.closingCount < 0 /\ d.closing /\ d.selfClose = base.selfClose
        /\ d.lwipClosed = base.lwipClosed /\ d.uvlClosed = base.uvlClosed
        /\ d.freed = base.freed
    BY <1>2 DEF UvLwipBase, BaseInv
  <2>2. base' = d /\ connSet' = connSet
    BY <1>2, <2>1 DEF removeConnection, Uncount, UvLwipBase
  <2> HIDE DEF d
  <2>3. BaseInv(d)
    BY <1>2, <2>1 DEF BaseInv, UvLwipBase
  <2> QED  BY <1>2, <2>1, <2>2, <2>3
<1>3. CASE ~base.freed /\ ~base.closing
  BY <1>3 DEF removeConnection
<1> QED  BY <1>1, <1>2, <1>3

\* A step of one connection that leaves UvLwipBase alone.
LEMMA BecomesInv ==
  ASSUME GatewayInv, NEW c \in Conn, NEW k \in Connection, Becomes(c, k),
         ConnInv(k, mode, base.closing), k.st = "open" => ~base.closing /\ c \in connSet
  PROVE  GatewayInv'
<1>1. conn' \in [Conn -> Connection]
  BY DEF GatewayInv, TypeOK, Becomes
<1>2. conn'[c] = k /\ \A d \in Conn \ {c} : conn'[d] = conn[d]
  BY DEF GatewayInv, TypeOK, Becomes
<1> QED  BY <1>1, <1>2 DEF GatewayInv, TypeOK, Becomes

\* A step that ends in kill().
LEMMA KillInv ==
  ASSUME GatewayInv, NEW c \in Conn, NEW k \in Connection, NEW end \in BOOLEAN,
         kill(c, k, end), mode # "fake", k.st # "none",
         k.st # "open" => k.closed /\ k.req = "none", k.lost => base.closing, end => k.downgot = k.down,
         k.killed => ConnInv(k, mode, base.closing),
         ~k.killed /\ k.proxy # "ready" /\ mode = "socks5" => base.closing
  PROVE  GatewayInv'
<1>1. CASE k.killed
  <2>1. Becomes(c, k)
    BY <1>1 DEF kill, Becomes
  <2>2. k.st # "open"
    BY <1>1 DEF ConnInv, ConnSafe
  <2> QED  BY <1>1, <2>1, <2>2, BecomesInv
<1>2. CASE ~k.killed
  <2> DEFINE d == killed(k, end)
  <2>1. d \in Connection /\ ConnInv(d, mode, base.closing) /\ d.st # "open"
    BY KilledConn DEF GatewayInv, TypeOK, UvLwipBase
  <2>2. /\ conn' = [conn EXCEPT ![c] = d] /\ removeConnection(c) /\ mode' = mode
        /\ crashed' = (mode = "socks5" /\ k.proxy # "ready")
    BY <1>2 DEF kill
  <2> HIDE DEF d
  <2>3. /\ base' \in UvLwipBase /\ BaseInv(base') /\ base'.closing = base.closing
        /\ connSet' \subseteq connSet /\ connSet \ {c} \subseteq connSet'
    BY <2>2, RemoveBase DEF GatewayInv, TypeOK
  <2>4. conn' \in [Conn -> Connection]
    BY <2>1, <2>2 DEF GatewayInv, TypeOK
  <2>5. conn'[c] = d /\ \A e \in Conn \ {c} : conn'[e] = conn[e]
    BY <2>2 DEF GatewayInv, TypeOK
  <2>6. TypeOK'
    BY <2>2, <2>3, <2>4 DEF GatewayInv, TypeOK
  <2>7. crashed' => mode' = "socks5" /\ base'.closing
    BY <1>2, <2>2, <2>3
  <2> QED  BY <2>1, <2>2, <2>3, <2>5, <2>6, <2>7 DEF GatewayInv
<1> QED  BY <1>1, <1>2

\* A step that ends in read(): the callers have connected the socket or
\* finished a write, so that read_cb is not set.
LEMMA ReadInv ==
  ASSUME GatewayInv, NEW c \in Conn, NEW k \in Connection, read(c, k),
         mode # "fake", ConnSafe(k, mode, base.closing),
         k.st \in {"open", "closing"}, k.st = "open" => ~base.closing /\ c \in connSet,
         ~k.read_cb, k.proxy = "ready", k.pwrite = 0
  PROVE  GatewayInv'
<1>1. CASE ~k.closed
  <2> DEFINE d == [k EXCEPT !.read_cb = TRUE, !.read_req = TRUE]
  <2>1. Becomes(c, d)
    BY <1>1 DEF read
  <2>2. /\ d \in Connection
        /\ d.read_cb /\ d.st = k.st /\ d.killed = k.killed /\ d.closed = k.closed
        /\ d.recv = k.recv /\ d.req = k.req /\ d.wlen = k.wlen /\ d.proxy = k.proxy
        /\ d.reading = k.reading /\ d.pwrite = k.pwrite /\ d.up = k.up
        /\ d.upgot = k.upgot /\ d.down = k.down /\ d.downread = k.downread
        /\ d.downgot = k.downgot /\ d.ended = k.ended /\ d.lost = k.lost
    BY DEF Connection
  <2> HIDE DEF d
  <2>3. ConnInv(d, mode, base.closing)
    BY <1>1, <2>2 DEF ConnInv, ConnSafe, Watched, Connection
  <2> QED  BY <2>1, <2>2, <2>3, BecomesInv
<1>2. CASE k.closed /\ k.st = "open"
  <2>1. kill(c, k, FALSE)
    BY <1>2 DEF read
  <2>2. ~k.killed /\ (k.lost => base.closing)
    BY <1>2 DEF ConnSafe
  <2> QED  BY <1>2, <2>1, <2>2, KillInv
<1>3. CASE k.closed /\ k.st = "closing"
  <2>1. Becomes(c, k)
    BY <1>3 DEF read
  <2>2. ConnInv(k, mode, base.closing)
    BY <1>3 DEF ConnInv, ConnSafe, Watched
  <2> QED  BY <1>3, <2>1, <2>2, BecomesInv
<1> QED  BY <1>1, <1>2, <1>3

-----------------------------------------------------------------------------
(* The steps of lwIP *)

\* A new connection (UvLwipBase::onConnect) keeps the invariant.
LEMMA StepConnect ==
  ASSUME GatewayInv, NEW c \in Conn, onConnect(c)
  PROVE  GatewayInv'
<1> DEFINE k == [Fresh EXCEPT !.st = "open"]
           f == [k EXCEPT !.req = "queued", !.wlen = 1, !.down = 1, !.downread = 1]
<1>0. 0 \in 0..RecvBuf
  BY GatewayAssumption
<1>1. k \in Connection /\ f \in Connection
  BY <1>0 DEF Fresh, Connection
<1>2. mode # "fake" => ConnInv(k, mode, base.closing)
  BY DEF Fresh, ConnInv, ConnSafe, Watched
<1>3. mode = "fake" => ConnInv(f, mode, base.closing)
  BY DEF Fresh, ConnInv, ConnSafe, Watched
<1>4. k.st = "open" /\ ~k.lost
  BY DEF Fresh
<1> DEFINE d == killed(k, FALSE)
<1> HIDE DEF k, f
<1>5. mode = "direct" => d \in Connection /\ ConnInv(d, mode, base.closing)
  BY <1>1, <1>4, KilledConn DEF GatewayInv, TypeOK, UvLwipBase
<1> HIDE DEF d
<1>6. PICK e \in Connection : conn' = [conn EXCEPT ![c] = e] /\ ConnInv(e, mode, base.closing)
  BY <1>1, <1>2, <1>3, <1>5 DEF onConnect, k, f, d
<1>7. /\ conn' \in [Conn -> Connection] /\ conn'[c] = e
      /\ \A b \in Conn \ {c} : conn'[b] = conn[b]
  BY <1>6 DEF GatewayInv, TypeOK
<1>8. /\ ~base.closing /\ connSet' = connSet \cup {c}
      /\ mode' = mode /\ base' = base /\ crashed' = crashed
  BY DEF onConnect
<1> QED  BY <1>6, <1>7, <1>8 DEF GatewayInv, TypeOK

\* So does release(): no connection stays open.
LEMMA StepRelease ==
  ASSUME GatewayInv, release
  PROVE  GatewayInv'
<1>1. \A c \in Conn : conn[c] \in Connection /\ ConnInv(conn[c], mode, base.closing)
                      /\ mode \in Mode /\ base.closing \in BOOLEAN
  BY DEF GatewayInv, TypeOK, UvLwipBase, Mode
<1>2. \A c \in Conn : /\ conn'[c] \in Connection /\ ConnInv(conn'[c], mode, TRUE)
                      /\ conn'[c].st # "open"
  <2> TAKE c \in Conn
  <2>1. CASE c \in connSet
    BY <1>1, <2>1, CloseConn DEF release
  <2>2. CASE c \notin connSet
    <3>1. conn'[c] = conn[c] /\ conn[c].st # "open"
      BY <2>2 DEF release, GatewayInv
    <3>2. ConnInv(conn[c], mode, TRUE)
      BY <1>1, <3>1 DEF ConnInv, ConnSafe, Watched
    <3> QED  BY <1>1, <3>1, <3>2
  <2> QED  BY <2>1, <2>2
<1>3. conn' \in [Conn -> Connection]
  BY <1>2 DEF release
<1>4. base' \in UvLwipBase /\ BaseInv(base') /\ base'.closing
  <2>1. connSet = {} => Cardinality(connSet) = 0
    BY FS_EmptySet
  <2> DEFINE b == [base EXCEPT !.closing = TRUE, !.closingCount = 0]
  <2>2. /\ b \in UvLwipBase /\ b.closing /\ b.closingCount = 0
        /\ b.selfClose = 0 /\ ~b.lwipClosed /\ ~b.uvlClosed /\ ~b.freed
    <3>1. base \in UvLwipBase
      BY DEF GatewayInv, TypeOK
    <3>2. base.selfClose = 0 /\ ~base.lwipClosed /\ ~base.uvlClosed /\ ~base.freed
      BY DEF release, GatewayInv, BaseInv
    <3>3. b \in UvLwipBase
      BY <3>1, ReleaseType
    <3>4. b.closing /\ b.closingCount = 0 /\ b.selfClose = base.selfClose
      BY <3>1 DEF UvLwipBase
    <3>5. /\ b.lwipClosed = base.lwipClosed /\ b.uvlClosed = base.uvlClosed
          /\ b.freed = base.freed
      BY <3>1 DEF UvLwipBase
    <3> QED  BY <3>2, <3>3, <3>4, <3>5
  <2>3. base' = IF connSet = {} THEN b ELSE onSelfClose(b)
    BY <2>1 DEF release, GatewayInv, TypeOK, UvLwipBase
  <2> HIDE DEF b
  <2>4. CASE connSet = {}
    BY <2>2, <2>3, <2>4 DEF BaseInv
  <2>5. CASE connSet # {}
    BY <2>2, <2>3, <2>5, SelfCloseFields DEF BaseInv
  <2> QED  BY <2>4, <2>5
<1> QED  BY <1>2, <1>3, <1>4 DEF release, GatewayInv, TypeOK

\* So does the close callback of lwIP's timer.
LEMMA StepTimerClose ==
  ASSUME GatewayInv, uvl_timer_close_cb
  PROVE  GatewayInv'
<1> DEFINE b == [base EXCEPT !.uvlClosed = TRUE]
<1>1. /\ b \in UvLwipBase /\ b.closing /\ b.closingCount = base.closingCount /\ b.uvlClosed
      /\ b.selfClose = base.selfClose /\ b.lwipClosed = base.lwipClosed
      /\ b.freed = base.freed
  BY DEF uvl_timer_close_cb, GatewayInv, TypeOK, UvLwipBase
<1>2. base' = onSelfClose(b) /\ base.closing /\ ~base.uvlClosed
  BY DEF uvl_timer_close_cb
<1> DEFINE d == onSelfClose(b)
<1> HIDE DEF b
<1>3. base \in UvLwipBase /\ BaseInv(base)
  BY DEF GatewayInv, TypeOK
<1>4. /\ d \in UvLwipBase /\ d.closing = b.closing /\ d.closingCount = b.closingCount
      /\ d.uvlClosed = b.uvlClosed /\ d.selfClose = b.selfClose + 1 /\ d.lwipClosed
      /\ d.freed => b.freed \/ b.lwipClosed
  BY <1>1, SelfCloseFields
<1> HIDE DEF d
<1>5. BaseInv(d)
  BY <1>1, <1>2, <1>3, <1>4 DEF BaseInv, UvLwipBase
<1> QED  BY <1>1, <1>2, <1>4, <1>5 DEF uvl_timer_close_cb, GatewayInv, TypeOK, d

\* What the steps below use of the connection they change.
LEMMA ConnFacts ==
  ASSUME GatewayInv, NEW c \in Conn
  PROVE  /\ conn[c] \in Connection
         /\ ConnInv(conn[c], mode, base.closing)
         /\ conn[c].st = "open" => ~base.closing /\ c \in connSet
         /\ mode \in Mode /\ base.closing \in BOOLEAN
BY DEF GatewayInv, TypeOK, UvLwipBase, Mode

\* So does a byte of the console (uvl_client_recv_func).
LEMMA StepRecv ==
  ASSUME GatewayInv, NEW c \in Conn, uvl_client_recv_func(c)
  PROVE  GatewayInv'
<1> DEFINE k == conn[c]
           d == [k EXCEPT !.up = @ + 1, !.recv = @ + 1, !.read_req = TRUE]
<1>1. /\ k \in Connection /\ ConnInv(k, mode, base.closing)
      /\ k.st = "open" /\ ~base.closing /\ c \in connSet
  BY ConnFacts DEF uvl_client_recv_func
<1>2. ~k.closed /\ k.recv < RecvBuf /\ Becomes(c, d)
  BY DEF uvl_client_recv_func
<1> HIDE DEF k
<1>3. k.recv + 1 \in 0..RecvBuf /\ k.up + 1 \in Nat
  BY <1>1, <1>2, GatewayAssumption DEF Connection
<1>4. d \in Connection
  BY <1>1, <1>3 DEF Connection
<1>5. /\ d.st = k.st /\ d.killed = k.killed /\ d.closed = k.closed /\ d.read_cb = k.read_cb
      /\ d.recv = k.recv + 1 /\ d.req = k.req /\ d.wlen = k.wlen /\ d.proxy = k.proxy
      /\ d.reading = k.reading /\ d.pwrite = k.pwrite /\ d.up = k.up + 1
      /\ d.upgot = k.upgot /\ d.down = k.down /\ d.downread = k.downread
      /\ d.downgot = k.downgot /\ d.ended = k.ended /\ d.lost = k.lost
  BY <1>1 DEF Connection
<1> HIDE DEF d
<1>6. ConnInv(d, mode, base.closing)
  BY <1>1, <1>2, <1>5 DEF ConnInv, ConnSafe, Watched, Connection
<1> QED  BY <1>1, <1>2, <1>4, <1>6, BecomesInv

\* So does the end of the console (uvl_client_freed), noticed or not.
LEMMA StepFreed ==
  ASSUME GatewayInv, NEW c \in Conn, uvl_client_freed(c)
  PROVE  GatewayInv'
<1> DEFINE k == conn[c]
           d == [k EXCEPT !.closed = TRUE, !.read_cb = FALSE]
<1>1. /\ k \in Connection /\ ConnInv(k, mode, base.closing)
      /\ k.st = "open" /\ ~base.closing /\ c \in connSet /\ ~k.closed
  BY ConnFacts DEF uvl_client_freed
<1>2. /\ k.read_cb => kill(c, d, FALSE)
      /\ ~k.read_cb => Becomes(c, d)
  BY DEF uvl_client_freed
<1> HIDE DEF k
<1>3. /\ d \in Connection
      /\ d.st = k.st /\ d.killed = k.killed /\ d.closed /\ ~d.read_cb
      /\ d.req = k.req /\ d.proxy = k.proxy /\ d.reading = k.reading /\ d.pwrite = k.pwrite
      /\ d.down = k.down /\ d.downgot = k.downgot /\ d.ended = k.ended /\ d.lost = k.lost
  BY <1>1 DEF Connection
<1> HIDE DEF d
<1>4. CASE k.read_cb
  <2>1. mode # "fake" /\ ~k.killed /\ k.proxy = "ready" /\ ~k.lost
    BY <1>1, <1>4 DEF ConnInv, ConnSafe
  <2> QED  BY <1>1, <1>2, <1>3, <1>4, <2>1, KillInv
<1>5. CASE ~k.read_cb
  <2>1. ConnInv(d, mode, base.closing)
    BY <1>1, <1>3, <1>5 DEF ConnInv, ConnSafe, Watched, Connection
  <2> QED  BY <1>1, <1>2, <1>3, <1>5, <2>1, BecomesInv
<1> QED  BY <1>4, <1>5

\* So does handing the receive buffer to the proxy (uvl_async_tcp_read_cb).
LEMMA StepReadCb ==
  ASSUME GatewayInv, NEW c \in Conn, uvl_async_tcp_read_cb(c)
  PROVE  GatewayInv'
<1> DEFINE k == conn[c]
           d == [k EXCEPT !.read_req = FALSE]
           e == [d EXCEPT !.read_cb = FALSE, !.pwrite = d.recv, !.recv = 0]
<1>1. /\ k \in Connection /\ ConnInv(k, mode, base.closing)
      /\ k.st = "open" /\ ~base.closing /\ c \in connSet
  <2>1. d.st = "open" => k.st = "open"
    BY ConnFacts DEF Connection
  <2> QED  BY <2>1, ConnFacts DEF uvl_async_tcp_read_cb
<1>2. Becomes(c, IF d.read_cb /\ d.recv > 0 THEN e ELSE d)
  BY DEF uvl_async_tcp_read_cb
<1> HIDE DEF k
<1>3. /\ d \in Connection
      /\ d.st = k.st /\ d.killed = k.killed /\ d.closed = k.closed /\ d.read_cb = k.read_cb
      /\ d.recv = k.recv /\ d.req = k.req /\ d.wlen = k.wlen /\ d.proxy = k.proxy
      /\ d.reading = k.reading /\ d.pwrite = k.pwrite /\ d.up = k.up
      /\ d.upgot = k.upgot /\ d.down = k.down /\ d.downread = k.downread
      /\ d.downgot = k.downgot /\ d.ended = k.ended /\ d.lost = k.lost
  BY <1>1 DEF Connection
<1> HIDE DEF d
<1>4. ConnInv(d, mode, base.closing)
  BY <1>1, <1>3 DEF ConnInv, ConnSafe, Watched, Connection
<1>5. CASE d.read_cb /\ d.recv > 0
  <2>1. 0 \in 0..RecvBuf
    BY GatewayAssumption
  <2>2. e \in Connection
    BY <1>3, <2>1 DEF Connection
  <2>3. /\ e.st = d.st /\ e.killed = d.killed /\ e.closed = d.closed /\ ~e.read_cb
        /\ e.recv = 0 /\ e.req = d.req /\ e.wlen = d.wlen /\ e.proxy = d.proxy
        /\ e.reading = d.reading /\ e.pwrite = d.recv /\ e.up = d.up
        /\ e.upgot = d.upgot /\ e.down = d.down /\ e.downread = d.downread
        /\ e.downgot = d.downgot /\ e.ended = d.ended /\ e.lost = d.lost
    BY <1>3 DEF Connection
  <2> HIDE DEF e
  <2>4. ConnInv(e, mode, base.closing)
    BY <1>1, <1>3, <1>4, <1>5, <2>3 DEF ConnInv, ConnSafe, Watched, Connection
  <2> QED  BY <1>1, <1>2, <1>3, <1>5, <2>2, <2>3, <2>4, BecomesInv
<1>6. CASE ~(d.read_cb /\ d.recv > 0)
  BY <1>1, <1>2, <1>3, <1>4, <1>6, BecomesInv
<1> QED  BY <1>5, <1>6

\* So does the acknowledgement of a request (uvl_client_sent_func).
LEMMA StepSent ==
  ASSUME GatewayInv, NEW c \in Conn, uvl_client_sent_func(c)
  PROVE  GatewayInv'
<1> DEFINE k == conn[c]
           d == [k EXCEPT !.req = "acked", !.downgot = @ + k.wlen]
<1>1. /\ k \in Connection /\ ConnInv(k, mode, base.closing)
      /\ k.st = "open" /\ ~base.closing /\ c \in connSet
  BY ConnFacts DEF uvl_client_sent_func
<1>2. ~k.closed /\ k.req = "sent" /\ Becomes(c, d)
  BY DEF uvl_client_sent_func
<1> HIDE DEF k
<1>3. k.downgot + k.wlen \in Nat
  BY <1>1 DEF Connection
<1>4. d \in Connection
  BY <1>1, <1>3 DEF Connection
<1>5. /\ d.st = k.st /\ d.killed = k.killed /\ d.closed = k.closed /\ d.read_cb = k.read_cb
      /\ d.recv = k.recv /\ d.req = "acked" /\ d.proxy = k.proxy
      /\ d.reading = k.reading /\ d.pwrite = k.pwrite /\ d.up = k.up
      /\ d.upgot = k.upgot /\ d.down = k.down /\ d.downread = k.downread
      /\ d.downgot = k.downgot + k.wlen /\ d.ended = k.ended /\ d.lost = k.lost
  BY <1>1 DEF Connection
<1> HIDE DEF d
<1>6. ConnInv(d, mode, base.closing)
  BY <1>1, <1>2, <1>5 DEF ConnInv, ConnSafe, Watched, Connection
<1> QED  BY <1>1, <1>2, <1>4, <1>5, <1>6, BecomesInv

\* So does uvl_async_tcp_write_cb: a request is given to lwIP or is done.
LEMMA StepWriteCb ==
  ASSUME GatewayInv, NEW c \in Conn, uvl_async_tcp_write_cb(c)
  PROVE  GatewayInv'
<1> DEFINE k == conn[c]
<1>1. /\ k \in Connection /\ ConnInv(k, mode, base.closing)
      /\ k.st = "open" /\ ~base.closing /\ c \in connSet
      /\ mode \in Mode /\ base.closing \in BOOLEAN
  BY ConnFacts DEF uvl_async_tcp_write_cb
<1>2. CASE /\ k.req = "queued"
           /\ Becomes(c, [k EXCEPT !.req = IF k.closed THEN "none" ELSE "sent"])
  <2> DEFINE r == IF k.closed THEN "none" ELSE "sent"
             d == [k EXCEPT !.req = r]
  <2> HIDE DEF k
  <2>1. r \in {"none", "sent"} /\ (~k.closed => r = "sent")
    OBVIOUS
  <2>2. Becomes(c, d)
    BY <1>2
  <2> HIDE DEF r
  <2>3. /\ d \in Connection
        /\ d.st = k.st /\ d.killed = k.killed /\ d.closed = k.closed /\ d.read_cb = k.read_cb
        /\ d.recv = k.recv /\ d.req = r /\ d.wlen = k.wlen /\ d.proxy = k.proxy
        /\ d.reading = k.reading /\ d.pwrite = k.pwrite /\ d.up = k.up
        /\ d.upgot = k.upgot /\ d.down = k.down /\ d.downread = k.downread
        /\ d.downgot = k.downgot /\ d.ended = k.ended /\ d.lost = k.lost
    BY <1>1, <2>1 DEF Connection
  <2> HIDE DEF d
  <2>4. ConnInv(d, mode, base.closing)
    BY <1>1, <1>2, <2>1, <2>3 DEF ConnInv, ConnSafe, Watched, Connection
  <2> QED  BY <1>1, <2>2, <2>3, <2>4, BecomesInv
<1>3. CASE /\ k.req = "acked" /\ mode # "fake"
           /\ Becomes(c, [k EXCEPT !.req = "none", !.reading = TRUE])
  <2> DEFINE d == [k EXCEPT !.req = "none", !.reading = TRUE]
  <2> HIDE DEF k
  <2>1. /\ d \in Connection
        /\ d.st = k.st /\ d.killed = k.killed /\ d.closed = k.closed /\ d.read_cb = k.read_cb
        /\ d.recv = k.recv /\ d.req = "none" /\ d.proxy = k.proxy
        /\ d.reading /\ d.pwrite = k.pwrite /\ d.up = k.up
        /\ d.upgot = k.upgot /\ d.down = k.down /\ d.downread = k.downread
        /\ d.downgot = k.downgot /\ d.ended = k.ended /\ d.lost = k.lost
    BY <1>1 DEF Connection
  <2> HIDE DEF d
  <2>2. ConnInv(d, mode, base.closing)
    BY <1>1, <1>3, <2>1 DEF ConnInv, ConnSafe, Watched, Connection
  <2> QED  BY <1>1, <1>3, <2>1, <2>2, BecomesInv DEF d
<1>4. CASE /\ mode = "fake" /\ conn' = [conn EXCEPT ![c] = close(k)]
           /\ removeConnection(c) /\ UNCHANGED <<mode, crashed>>
  <2> DEFINE d == close(k)
  <2>1. d \in Connection /\ ConnInv(d, mode, base.closing) /\ d.st # "open"
    BY <1>1, <1>4, CloseConn
  <2>2. conn' = [conn EXCEPT ![c] = d] /\ removeConnection(c)
        /\ mode' = mode /\ crashed' = crashed
    BY <1>4
  <2> HIDE DEF d
  <2>3. /\ base' \in UvLwipBase /\ BaseInv(base') /\ base'.closing = base.closing
        /\ connSet' \subseteq connSet /\ connSet \ {c} \subseteq connSet'
    BY <2>2, RemoveBase DEF GatewayInv, TypeOK
  <2>4. /\ conn' \in [Conn -> Connection] /\ conn'[c] = d
        /\ \A e \in Conn \ {c} : conn'[e] = conn[e]
    BY <2>1, <2>2 DEF GatewayInv, TypeOK
  <2>5. TypeOK'
    BY <2>2, <2>3, <2>4 DEF GatewayInv, TypeOK
  <2> QED  BY <2>1, <2>2, <2>3, <2>4, <2>5 DEF GatewayInv
<1> QED  BY <1>2, <1>3, <1>4 DEF uvl_async_tcp_write_cb

\* So does IConnection::closeCallback; a connection that release() has closed
\* is killed here.
LEMMA StepCloseCallback ==
  ASSUME GatewayInv, NEW c \in Conn, closeCallback(c)
  PROVE  GatewayInv'
<1> DEFINE k == conn[c]
           d == [k EXCEPT !.st = "gone", !.recv = 0, !.upgot = 0, !.downread = 0]
<1>1. /\ k \in Connection /\ ConnInv(k, mode, base.closing)
      /\ k.st = "closing" /\ mode \in Mode
  BY ConnFacts DEF closeCallback
<1>2. IF mode = "fake" THEN Becomes(c, d) ELSE kill(c, d, FALSE)
  BY DEF closeCallback
<1> HIDE DEF k
<1>3. 0 \in 0..RecvBuf
  BY GatewayAssumption
<1>4. d \in Connection
  BY <1>1, <1>3 DEF Connection
<1>5. /\ d.st = "gone" /\ d.killed = k.killed /\ d.closed = k.closed /\ d.read_cb = k.read_cb
      /\ d.req = k.req /\ d.proxy = k.proxy /\ d.reading = k.reading /\ d.pwrite = k.pwrite
      /\ d.down = k.down /\ d.downgot = k.downgot /\ d.ended = k.ended /\ d.lost = k.lost
  BY <1>1 DEF Connection
<1> HIDE DEF d
<1>6. CASE mode = "fake" \/ k.killed
  <2>1. ConnInv(d, mode, base.closing)
    BY <1>1, <1>5, <1>6 DEF ConnInv, ConnSafe, Watched
  <2>2. Becomes(c, d)
    BY <1>2, <1>5, <1>6 DEF kill, Becomes
  <2> QED  BY <1>4, <1>5, <2>1, <2>2, BecomesInv
<1>7. CASE mode # "fake" /\ ~k.killed
  <2>1. k.closed /\ base.closing /\ k.req = "none"
    BY <1>1, <1>7 DEF ConnInv, ConnSafe
  <2> QED  BY <1>2, <1>4, <1>5, <1>7, <2>1, KillInv
<1> QED  BY <1>6, <1>7

-----------------------------------------------------------------------------
(* The steps of the proxy *)

\* ConnectEvent keeps the invariant: read_cb is not set before.
LEMMA StepConnectEvent ==
  ASSUME GatewayInv, NEW c \in Conn, ConnectEvent(c)
  PROVE  GatewayInv'
<1> DEFINE k == conn[c]
           d == [k EXCEPT !.proxy = "ready", !.reading = TRUE]
<1>1. /\ k \in Connection /\ ConnInv(k, mode, base.closing)
      /\ k.st = "open" => ~base.closing /\ c \in connSet
  BY ConnFacts
<1>2. /\ mode # "fake" /\ k.st \in {"open", "closing"} /\ k.proxy = "connecting"
      /\ read(c, d)
  BY DEF ConnectEvent
<1> HIDE DEF k
<1>3. /\ d \in Connection
      /\ d.st = k.st /\ d.killed = k.killed /\ d.closed = k.closed /\ d.read_cb = k.read_cb
      /\ d.recv = k.recv /\ d.req = k.req /\ d.wlen = k.wlen /\ d.proxy = "ready"
      /\ d.reading /\ d.pwrite = k.pwrite /\ d.up = k.up
      /\ d.upgot = k.upgot /\ d.down = k.down /\ d.downread = k.downread
      /\ d.downgot = k.downgot /\ d.ended = k.ended /\ d.lost = k.lost
  BY <1>1 DEF Connection
<1> HIDE DEF d
<1>4. ConnSafe(d, mode, base.closing) /\ ~d.read_cb /\ d.pwrite = 0
  BY <1>1, <1>2, <1>3, GatewayAssumption DEF ConnInv, ConnSafe, Connection
<1> QED  BY <1>1, <1>2, <1>3, <1>4, ReadInv

\* So does a connection attempt that fails; only the direct proxy reports it.
LEMMA StepConnectFails ==
  ASSUME GatewayInv, NEW c \in Conn, ConnectFails(c)
  PROVE  GatewayInv'
<1> DEFINE k == conn[c]
           d == [k EXCEPT !.proxy = "failed"]
<1>1. /\ k \in Connection /\ ConnInv(k, mode, base.closing)
      /\ k.st = "open" => ~base.closing /\ c \in connSet
  BY ConnFacts
<1>2. /\ mode # "fake" /\ k.st \in {"open", "closing"} /\ k.proxy = "connecting"
      /\ mode = "direct" => kill(c, k, FALSE)
      /\ mode # "direct" => Becomes(c, d)
  BY DEF ConnectFails
<1> HIDE DEF k
<1>3. /\ d \in Connection
      /\ d.st = k.st /\ d.killed = k.killed /\ d.closed = k.closed /\ d.read_cb = k.read_cb
      /\ d.recv = k.recv /\ d.req = k.req /\ d.wlen = k.wlen /\ d.proxy = "failed"
      /\ d.reading = k.reading /\ d.pwrite = k.pwrite /\ d.up = k.up
      /\ d.upgot = k.upgot /\ d.down = k.down /\ d.downread = k.downread
      /\ d.downgot = k.downgot /\ d.ended = k.ended /\ d.lost = k.lost
  BY <1>1 DEF Connection
<1> HIDE DEF d
<1>4. CASE mode = "direct"
  <2>1. /\ k.st # "open" => k.closed /\ k.req = "none"
        /\ k.lost => base.closing
        /\ ~k.killed
    BY <1>1, <1>2 DEF ConnInv, ConnSafe
  <2> QED  BY <1>1, <1>2, <1>4, <2>1, KillInv
<1>5. CASE mode # "direct"
  <2>1. ConnInv(d, mode, base.closing)
    BY <1>1, <1>2, <1>3 DEF ConnInv, ConnSafe, Watched, Connection
  <2> QED  BY <1>1, <1>2, <1>3, <1>5, <2>1, BecomesInv
<1> QED  BY <1>4, <1>5

\* So does DataEvent: the server's bytes become a write request.
LEMMA StepDataEvent ==
  ASSUME GatewayInv, NEW c \in Conn, DataEvent(c)
  PROVE  GatewayInv'
<1> DEFINE k == conn[c]
           n == k.down - k.downread
           d == [k EXCEPT !.reading = FALSE, !.downread = k.down, !.req = "queued", !.wlen = n]
           e == [k EXCEPT !.reading = FALSE, !.downread = k.down, !.lost = TRUE]
<1>1. /\ k \in Connection /\ ConnInv(k, mode, base.closing)
      /\ k.st = "open" => ~base.closing /\ c \in connSet
  BY ConnFacts
<1>2. /\ k.proxy = "ready" /\ k.reading /\ n > 0
      /\ Becomes(c, IF k.st = "open" THEN d ELSE e)
  BY DEF DataEvent
<1> HIDE DEF k
<1>3. n \in Nat /\ k.down = k.downread + n
  BY <1>1, <1>2 DEF Connection
<1> HIDE DEF n
<1>4. CASE k.st = "open"
  <2>1. d \in Connection
    BY <1>1, <1>3 DEF Connection
  <2>2. /\ d.st = k.st /\ d.killed = k.killed /\ d.closed = k.closed /\ d.read_cb = k.read_cb
        /\ d.recv = k.recv /\ d.req = "queued" /\ d.wlen = n /\ d.proxy = k.proxy
        /\ ~d.reading /\ d.pwrite = k.pwrite /\ d.up = k.up
        /\ d.upgot = k.upgot /\ d.down = k.down /\ d.downread = k.down
        /\ d.downgot = k.downgot /\ d.ended = k.ended /\ d.lost = k.lost
    BY <1>1 DEF Connection
  <2> HIDE DEF d
  <2>3. ConnInv(d, mode, base.closing)
    BY <1>1, <1>2, <1>3, <1>4, <2>1, <2>2 DEF ConnInv, ConnSafe, Watched, Connection
  <2> QED  BY <1>1, <1>2, <1>4, <2>1, <2>2, <2>3, BecomesInv
<1>5. CASE k.st # "open"
  <2>1. e \in Connection
    BY <1>1 DEF Connection
  <2>2. /\ e.st = k.st /\ e.killed = k.killed /\ e.closed = k.closed /\ e.read_cb = k.read_cb
        /\ e.req = k.req /\ e.proxy = k.proxy /\ ~e.reading /\ e.pwrite = k.pwrite
        /\ e.down = k.down /\ e.downgot = k.downgot /\ e.ended = k.ended /\ e.lost
    BY <1>1 DEF Connection
  <2>3. k.st # "none" /\ mode # "fake" /\ ~k.killed
    BY <1>1, <1>2 DEF ConnInv, ConnSafe, Fresh
  <2>4. base.closing
    BY <1>1, <1>5, <2>3 DEF ConnInv, ConnSafe, Connection
  <2> HIDE DEF e
  <2>5. ConnInv(e, mode, base.closing)
    BY <1>1, <1>5, <2>1, <2>2, <2>3, <2>4 DEF ConnInv, ConnSafe, Watched, Connection
  <2> QED  BY <1>1, <1>2, <1>5, <2>1, <2>2, <2>5, BecomesInv
<1> QED  BY <1>4, <1>5

\* So do EndEvent and ErrorEvent.  At EndEvent the console has all the bytes:
\* the server is read only when no request is in the queue.
LEMMA StepEndOrError ==
  ASSUME GatewayInv, NEW c \in Conn, EndEvent(c) \/ ErrorEvent(c)
  PROVE  GatewayInv'
<1> DEFINE k == conn[c]
<1>1. /\ k \in Connection /\ ConnInv(k, mode, base.closing)
  BY ConnFacts
<1>2. k.proxy = "ready"
  BY DEF EndEvent, ErrorEvent
<1>3. /\ mode # "fake" /\ k.st # "none" /\ ~k.killed
      /\ k.st # "open" => k.closed /\ k.req = "none"
      /\ k.lost => base.closing
  <2> HIDE DEF k
  <2> QED  BY <1>1, <1>2 DEF ConnInv, ConnSafe, Fresh, Connection
<1>4. CASE EndEvent(c)
  <2> DEFINE end == ~k.closed
  <2>1. kill(c, k, end) /\ k.reading /\ k.down = k.downread
    BY <1>4 DEF EndEvent
  <2> HIDE DEF k
  <2>2. end \in BOOLEAN
    BY <1>1 DEF Connection
  <2>3. end => k.downgot = k.down
    BY <1>1, <1>3, <2>1 DEF ConnInv, ConnSafe, Connection
  <2> HIDE DEF end
  <2> QED  BY <1>1, <1>2, <1>3, <2>1, <2>2, <2>3, KillInv
<1>5. CASE ErrorEvent(c)
  <2>1. kill(c, k, FALSE)
    BY <1>5 DEF ErrorEvent
  <2> HIDE DEF k
  <2> QED  BY <1>1, <1>2, <1>3, <2>1, KillInv
<1> QED  BY <1>4, <1>5

\* So does WriteEvent: read_cb is not set while the proxy writes.
LEMMA StepWriteEvent ==
  ASSUME GatewayInv, NEW c \in Conn, WriteEvent(c)
  PROVE  GatewayInv'
<1> DEFINE k == conn[c]
           d == [k EXCEPT !.upgot = @ + k.pwrite, !.pwrite = 0]
<1>1. /\ k \in Connection /\ ConnInv(k, mode, base.closing)
      /\ k.st = "open" => ~base.closing /\ c \in connSet
  BY ConnFacts
<1>2. k.proxy = "ready" /\ k.pwrite > 0 /\ read(c, d)
  BY DEF WriteEvent
<1> HIDE DEF k
<1>3. k.upgot + k.pwrite \in Nat /\ 0 \in 0..RecvBuf
  BY <1>1, GatewayAssumption DEF Connection
<1>4. d \in Connection
  BY <1>1, <1>3 DEF Connection
<1>5. /\ d.st = k.st /\ d.killed = k.killed /\ d.closed = k.closed /\ d.read_cb = k.read_cb
      /\ d.recv = k.recv /\ d.req = k.req /\ d.wlen = k.wlen /\ d.proxy = k.proxy
      /\ d.reading = k.reading /\ d.pwrite = 0 /\ d.up = k.up
      /\ d.upgot = k.upgot + k.pwrite /\ d.down = k.down /\ d.downread = k.downread
      /\ d.downgot = k.downgot /\ d.ended = k.ended /\ d.lost = k.lost
  BY <1>1 DEF Connection
<1> HIDE DEF d
<1>6. mode # "fake" /\ k.st \in {"open", "closing"} /\ ~k.read_cb
  BY <1>1, <1>2 DEF ConnInv, ConnSafe, Fresh, Connection
<1>7. ConnSafe(d, mode, base.closing)
  BY <1>1, <1>2, <1>5, <1>6 DEF ConnInv, ConnSafe, Connection
<1> QED  BY <1>1, <1>2, <1>4, <1>5, <1>6, <1>7, ReadInv

\* So do the server's own steps.
LEMMA StepServer ==
  ASSUME GatewayInv, NEW c \in Conn, ServerSends(c) \/ ServerEnds(c)
  PROVE  GatewayInv'
<1> DEFINE k == conn[c]
           d == [k EXCEPT !.down = @ + 1]
           e == [k EXCEPT !.fin = TRUE]
<1>1. /\ k \in Connection /\ ConnInv(k, mode, base.closing)
      /\ k.st = "open" => ~base.closing /\ c \in connSet
  BY ConnFacts
<1>2. k.proxy = "ready" /\ (Becomes(c, d) \/ Becomes(c, e))
  BY DEF ServerSends, ServerEnds
<1> HIDE DEF k
<1>3. /\ d \in Connection
      /\ d.st = k.st /\ d.killed = k.killed /\ d.closed = k.closed /\ d.read_cb = k.read_cb
      /\ d.recv = k.recv /\ d.req = k.req /\ d.wlen = k.wlen /\ d.proxy = k.proxy
      /\ d.reading = k.reading /\ d.pwrite = k.pwrite /\ d.up = k.up
      /\ d.upgot = k.upgot /\ d.downread = k.downread
      /\ d.downgot = k.downgot /\ d.ended = k.ended /\ d.lost = k.lost
  BY <1>1 DEF Connection
<1>4. /\ e \in Connection
      /\ e.st = k.st /\ e.killed = k.killed /\ e.closed = k.closed /\ e.read_cb = k.read_cb
      /\ e.recv = k.recv /\ e.req = k.req /\ e.wlen = k.wlen /\ e.proxy = k.proxy
      /\ e.reading = k.reading /\ e.pwrite = k.pwrite /\ e.up = k.up
      /\ e.upgot = k.upgot /\ e.down = k.down /\ e.downread = k.downread
      /\ e.downgot = k.downgot /\ e.ended = k.ended /\ e.lost = k.lost
  BY <1>1 DEF Connection
<1>5. k.st # "none" /\ ~k.killed /\ ~k.ended
  BY <1>1, <1>2 DEF ConnInv, ConnSafe, Fresh
<1> HIDE DEF d, e
<1>6. ConnInv(d, mode, base.closing)
  BY <1>1, <1>3, <1>5 DEF ConnInv, ConnSafe, Watched, Connection
<1>7. ConnInv(e, mode, base.closing)
  BY <1>1, <1>4, <1>5 DEF ConnInv, ConnSafe, Watched, Connection
<1> QED  BY <1>1, <1>2, <1>3, <1>4, <1>6, <1>7, BecomesInv

-----------------------------------------------------------------------------
(* The theorems *)

\* GatewayInv holds at the start, and every step keeps it.
LEMMA GatewayInvariant == Spec => []GatewayInv
<1>1. Init => GatewayInv
  <2> SUFFICES ASSUME Init PROVE GatewayInv
    OBVIOUS
  <2>1. 0 \in 0..RecvBuf
    BY GatewayAssumption
  <2>2. Fresh \in Connection
    BY <2>1 DEF Fresh, Connection
  <2>3. ConnInv(Fresh, mode, FALSE)
    BY DEF ConnInv, ConnSafe, Watched, Fresh
  <2>4. Fresh.st = "none"
    BY DEF Fresh
  <2>5. base \in UvLwipBase /\ BaseInv(base) /\ base.closing = FALSE
    BY DEF Init, UvLwipBase, BaseInv
  <2> QED  BY <2>2, <2>3, <2>4, <2>5 DEF Init, GatewayInv, TypeOK
<1>2. GatewayInv /\ [Next]_vars => GatewayInv'
  <2> SUFFICES ASSUME GatewayInv, [Next]_vars PROVE GatewayInv'
    OBVIOUS
  <2>1. CASE UNCHANGED vars
    BY <2>1 DEF vars, GatewayInv, TypeOK
  <2>2. ASSUME NEW c \in Conn, Lwip(c) PROVE GatewayInv'
    BY <2>2, StepConnect, StepRecv, StepFreed, StepReadCb, StepSent, StepWriteCb,
       StepCloseCallback DEF Lwip
  <2>3. ASSUME NEW c \in Conn, Proxy(c) PROVE GatewayInv'
    BY <2>3, StepConnectEvent, StepConnectFails, StepDataEvent, StepEndOrError,
       StepWriteEvent, StepServer DEF Proxy
  <2> QED  BY <2>1, <2>2, <2>3, StepRelease, StepTimerClose DEF Next
<1> QED  BY <1>1, <1>2, PTL DEF Spec

\* The fields of UvLwipBase and of every connection keep their types; the
\* receive buffer and the proxy's write never exceed UVL_TCP_RECV_BUF_LEN.
THEOREM GatewayTypeCorrect == Spec => []TypeOK
<1>1. GatewayInv => TypeOK
  BY DEF GatewayInv
<1> QED  BY <1>1, GatewayInvariant, PTL

\* No assertion of read() fails and no null socket is used before release().
THEOREM NoCrashInService == Spec => []CrashesOnlyInRelease
<1>1. GatewayInv => CrashesOnlyInRelease
  BY DEF GatewayInv, CrashesOnlyInRelease
<1> QED  BY <1>1, GatewayInvariant, PTL

\* onData and onWrite on both sides keep one buffer in flight per direction.
THEOREM FlowControl == Spec => []OneInFlight
<1>1. GatewayInv => OneInFlight
  BY DEF GatewayInv, ConnInv, ConnSafe, OneInFlight
<1> QED  BY <1>1, GatewayInvariant, PTL

\* Every byte of either side is accounted for while both sides are there.
THEOREM BytesAccountedFor == Spec => []NoByteLost
<1>1. GatewayInv => NoByteLost
  BY DEF GatewayInv, ConnInv, ConnSafe, NoByteLost
<1> QED  BY <1>1, GatewayInvariant, PTL

\* kill() after the server's end cuts nothing off.
THEOREM EndKeepsData == Spec => []NothingLostOnEnd
<1>1. GatewayInv => NothingLostOnEnd
  BY DEF GatewayInv, ConnInv, ConnSafe, NothingLostOnEnd
<1> QED  BY <1>1, GatewayInvariant, PTL

\* A console that goes while it is not read is noticed by a later read().
THEOREM ConsoleEndNoticed == Spec => []ConsoleGoneIsNoticed
<1>1. GatewayInv => ConsoleGoneIsNoticed
  BY DEF GatewayInv, TypeOK, ConnInv, Watched, ConsoleGoneIsNoticed
<1> QED  BY <1>1, GatewayInvariant, PTL

\* onSelfClose runs at most twice, although kill() counts a second time.
THEOREM BaseFreedOnce == Spec => []FreedOnce
<1>1. GatewayInv => FreedOnce
  BY DEF GatewayInv, TypeOK, UvLwipBase, BaseInv, FreedOnce
<1> QED  BY <1>1, GatewayInvariant, PTL

\* Write requests are lost only after release().
THEOREM RequestsAnswered == Spec => []RequestLostOnlyInRelease
<1>1. GatewayInv => RequestLostOnlyInRelease
  BY DEF GatewayInv, ConnInv, ConnSafe, RequestLostOnlyInRelease
<1> QED  BY <1>1, GatewayInvariant, PTL

\* One buffer per direction, and no byte lost, also when the server ends.
THEOREM BridgeStreams == Spec => []StreamsAccounted
BY FlowControl, BytesAccountedFor, EndKeepsData, PTL DEF StreamsAccounted

\* Before release() nothing fails and no request is forgotten.
THEOREM FaultFreeInService == Spec => []FaultsOnlyInRelease
BY NoCrashInService, RequestsAnswered, PTL DEF FaultsOnlyInRelease
=============================================================================

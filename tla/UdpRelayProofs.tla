--------------------------- MODULE UdpRelayProofs ---------------------------
(***************************************************************************)
(* What UdpRelay guarantees of the sockets and of the packets it writes    *)
(* back, for any number of ports, consoles and objects.  The invariant of  *)
(* the sockets (RelayInv) speaks of the map, the objects, the TUN thread   *)
(* and the watchdog only; the one of the packets (SourceInv) adds the      *)
(* redirector's thread and where each address comes from.                  *)
(***************************************************************************)
EXTENDS UdpRelay, FiniteSetTheorems, WellFoundedInduction, TLAPS

TunThread ==
  [pc : {"loop", "read", "create", "put", "ip", "port", "forward", "done"},
   port : Port \cup {Null}, ip : Ip \cup {Null}, src : SrcPort \cup {Null},
   managed : Obj \cup {Null}]

WatchThread ==
  [pc : {"sleep", "scan", "close", "remove", "done"}, left : SUBSET Port,
   port : Port \cup {Null}, managed : Obj \cup {Null}]

Types ==
  /\ running \in {"running", "close", "clear", "redirector", "device", "destroyed"}
  /\ sockets \in [Port -> Obj \cup {Null}]
  /\ heap \in [Obj -> ManagedSocket]
  /\ tun \in TunThread
  /\ watch \in WatchThread

\* What the threads hold: only the TUN thread puts objects into the map, so the
\* port it creates a socket for has no entry, and nobody else knows its object.
Locals ==
  /\ tun.pc \in {"create", "put", "ip", "port", "forward"} => tun.port \in Port
  /\ tun.pc \in {"put", "ip", "port", "forward"} => tun.managed \in Obj
  /\ tun.pc \in {"create", "put"} => sockets[tun.port] = Null
  /\ tun.pc = "put" =>
       /\ heap[tun.managed].open /\ heap[tun.managed].port = tun.port
       /\ \A p \in Port : sockets[p] # tun.managed
       /\ watch.managed # tun.managed
  /\ watch.pc \in {"close", "remove"} => watch.port \in Port /\ watch.managed \in Obj

\* Until stop() closes the sockets: every open socket is in the map or about to
\* be, every entry has an open socket on its port unless the watchdog has just
\* closed it, and the watchdog's object keeps its entry until it is removed.
Active ==
  /\ \A o \in Obj : heap[o].open =>
       \/ heap[o].port \in Port /\ sockets[heap[o].port] = o
       \/ tun.pc = "put" /\ tun.managed = o
  /\ \A p \in Port : sockets[p] # Null =>
       /\ heap[sockets[p]].port = p
       /\ heap[sockets[p]].open \/ (watch.pc = "remove" /\ watch.managed = sockets[p])
  /\ watch.pc \in {"close", "remove"} => sockets[watch.port] = watch.managed
  /\ watch.pc = "remove" => ~heap[watch.managed].open

\* Afterwards: at most one socket is open, and none while the TUN thread could
\* still create one.
Stopped ==
  /\ \A o, q \in Obj : heap[o].open /\ heap[q].open => o = q
  /\ tun.pc \in {"read", "create"} => \A o \in Obj : ~heap[o].open

RelayInv ==
  /\ Types
  /\ Locals
  /\ running \in {"running", "close"} => Active
  /\ running \notin {"running", "close"} => Stopped

-----------------------------------------------------------------------------
\* RelayInv holds when startVpn has started the threads.
LEMMA RelayInit == Init => RelayInv
BY UdpRelayAssumption
   DEF Init, Idling, RelayInv, Types, Locals, Active, ManagedSocket, TunThread, WatchThread

\* Steps that leave the map, the objects and the watchdog alone and only move
\* the TUN thread's program counter keep RelayInv.
LEMMA StepTunLoop ==
  ASSUME RelayInv, tun_loop \/ tun_read_fails \/ processFromTun_refuses \/ bind_fails
  PROVE  RelayInv'
<1>1. CASE tun_loop
  BY <1>1 DEF tun_loop, RelayInv, Types, Locals, Active, Stopped, TunThread
<1>2. CASE tun_read_fails
  BY <1>2 DEF tun_read_fails, RelayInv, Types, Locals, Active, Stopped, TunThread
<1>3. CASE processFromTun_refuses
  BY <1>3 DEF processFromTun_refuses, RelayInv, Types, Locals, Active, Stopped, TunThread
<1>4. CASE bind_fails
  BY <1>4 DEF bind_fails, Idling, RelayInv, Types, Locals, Active, Stopped, TunThread
<1> QED  BY <1>1, <1>2, <1>3, <1>4

\* processFromTun finds the entry of the packet's port, or none.
LEMMA StepProcessFromTun ==
  ASSUME RelayInv, NEW f \in Flow, processFromTun(f)
  PROVE  RelayInv'
<1>1. f[1] \in Ip /\ f[2] \in SrcPort /\ f[3] \in Port
  BY UdpRelayAssumption
<1> QED  BY <1>1 DEF processFromTun, RelayInv, Types, Locals, Active, Stopped, TunThread

\* create_socket takes an object that nothing refers to.
LEMMA StepCreate ==
  ASSUME RelayInv, create_socket
  PROVE  RelayInv'
<1>1. PICK o \in Obj \ InUse :
        /\ heap' = [heap EXCEPT ![o] = [port |-> tun.port, lastSourceIp |-> tun.ip,
                                        lastSourcePort |-> tun.src, open |-> TRUE]]
        /\ tun' = [tun EXCEPT !.pc = "put", !.managed = o]
  BY DEF create_socket
<1>2. /\ tun.pc = "create" /\ running' = running /\ sockets' = sockets /\ watch' = watch
      /\ tun.port \in Port /\ sockets[tun.port] = Null
  BY DEF create_socket, RelayInv, Locals
<1>3. ~heap[o].open /\ watch.managed # o /\ \A p \in Port : sockets[p] # o
  BY <1>1 DEF InUse
<1>4. /\ heap'[o].open /\ heap'[o].port = tun.port
      /\ \A q \in Obj \ {o} : heap'[q] = heap[q]
      /\ heap' \in [Obj -> ManagedSocket]
  BY <1>1, <1>2 DEF RelayInv, Types, TunThread, ManagedSocket
<1>5. /\ tun' \in TunThread /\ tun'.pc = "put" /\ tun'.managed = o /\ tun'.port = tun.port
  BY <1>1 DEF RelayInv, Types, TunThread
<1>6. Types' /\ Locals'
  BY <1>2, <1>3, <1>4, <1>5 DEF RelayInv, Types, Locals, WatchThread
<1>7. Active => Active'
  BY <1>2, <1>3, <1>4, <1>5, UdpRelayAssumption DEF RelayInv, Types, Locals, Active
<1>8. Stopped => Stopped'
  BY <1>2, <1>4, <1>5 DEF Stopped
<1> QED  BY <1>2, <1>6, <1>7, <1>8 DEF RelayInv

\* putIfAbsent finds no entry: only this thread puts entries.
LEMMA StepPut ==
  ASSUME RelayInv, put_socket
  PROVE  RelayInv'
<1>1. /\ tun.pc = "put" /\ running' = running /\ watch' = watch
      /\ tun.port \in Port /\ tun.managed \in Obj /\ sockets[tun.port] = Null
      /\ heap[tun.managed].open /\ heap[tun.managed].port = tun.port
  BY DEF put_socket, RelayInv, Locals
<1>2. sockets' = [sockets EXCEPT ![tun.port] = tun.managed]
  BY <1>1 DEF put_socket
<1>3. heap' = [heap EXCEPT ![tun.managed].open = TRUE]
  BY <1>1 DEF put_socket
<1>4. /\ heap' \in [Obj -> ManagedSocket]
      /\ \A o \in Obj : /\ heap'[o].open <=> heap[o].open
                        /\ heap'[o].port = heap[o].port
  <2>1. heap \in [Obj -> ManagedSocket]
    BY DEF RelayInv, Types
  <2> DEFINE m == tun.managed
  <2>2. m \in Obj /\ heap[m] \in ManagedSocket
    BY <1>1, <2>1
  <2>3. heap' = [heap EXCEPT ![m] = [heap[m] EXCEPT !.open = TRUE]]
    BY <1>3
  <2>4. [heap[m] EXCEPT !.open = TRUE] \in ManagedSocket
    BY <2>2 DEF ManagedSocket
  <2>5. heap' \in [Obj -> ManagedSocket] /\ \A o \in Obj \ {m} : heap'[o] = heap[o]
    BY <2>1, <2>2, <2>3, <2>4
  <2>6. heap'[m].open /\ heap'[m].port = heap[m].port
    BY <2>1, <2>2, <2>3 DEF ManagedSocket
  <2> QED  BY <1>1, <2>5, <2>6
<1>5. tun' = [tun EXCEPT !.pc = "ip", !.managed = tun.managed]
  BY <1>1 DEF put_socket
<1>6. tun' \in TunThread /\ tun'.pc = "ip" /\ tun'.managed = tun.managed /\ tun'.port = tun.port
  BY <1>5 DEF RelayInv, Types, TunThread
<1>7. /\ sockets' \in [Port -> Obj \cup {Null}] /\ sockets'[tun.port] = tun.managed
      /\ \A p \in Port \ {tun.port} : sockets'[p] = sockets[p]
  BY <1>1, <1>2 DEF RelayInv, Types
<1>8. Types' /\ Locals'
  BY <1>1, <1>4, <1>6, <1>7 DEF RelayInv, Types, Locals
<1>9. Active => Active'
  BY <1>1, <1>4, <1>6, <1>7, UdpRelayAssumption DEF RelayInv, Types, Locals, Active
<1>10. Stopped => Stopped'
  BY <1>4, <1>6 DEF Stopped
<1> QED  BY <1>1, <1>8, <1>9, <1>10 DEF RelayInv

\* The rest of handleInterceptedPacket touches no socket and no entry.
LEMMA StepForward ==
  ASSUME RelayInv, set_source_ip \/ set_source_port \/ forwardToServer
  PROVE  RelayInv'
<1>1. /\ heap' \in [Obj -> ManagedSocket]
      /\ \A o \in Obj : heap'[o].open = heap[o].open /\ heap'[o].port = heap[o].port
  <2>1. CASE set_source_ip
    BY <2>1 DEF set_source_ip, RelayInv, Types, Locals, ManagedSocket, TunThread
  <2>2. CASE set_source_port
    BY <2>2 DEF set_source_port, RelayInv, Types, Locals, ManagedSocket, TunThread
  <2>3. CASE forwardToServer
    BY <2>3 DEF forwardToServer, RelayInv, Types
  <2> QED  BY <2>1, <2>2, <2>3
<1>2. /\ running' = running /\ sockets' = sockets /\ watch' = watch /\ tun' \in TunThread
      /\ tun.pc \in {"ip", "port", "forward"}
      /\ \/ tun'.pc = "loop"
         \/ tun'.pc \in {"port", "forward"} /\ tun'.port = tun.port /\ tun'.managed = tun.managed
  BY DEF set_source_ip, set_source_port, forwardToServer, Idling, RelayInv, Types, TunThread
<1>3. Types' /\ Locals'
  BY <1>1, <1>2 DEF RelayInv, Types, Locals
<1>4. Active => Active'
  BY <1>1, <1>2 DEF RelayInv, Types, Locals, Active
<1>5. Stopped => Stopped'
  BY <1>1, <1>2 DEF Stopped
<1> QED  BY <1>2, <1>3, <1>4, <1>5 DEF RelayInv

-----------------------------------------------------------------------------
\* A scan starts, looks at an entry, or ends.
LEMMA StepScan ==
  ASSUME RelayInv, cleanupIdleSockets \/ (\E p \in Port : cleanup_next(p)) \/ cleanup_end
  PROVE  RelayInv'
<1>1. CASE cleanupIdleSockets
  BY <1>1 DEF cleanupIdleSockets, RelayInv, Types, Locals, Active, Stopped, WatchThread
<1>2. ASSUME NEW p \in Port, cleanup_next(p) PROVE RelayInv'
  <2>1. CASE sockets[p] # Null /\ sockets[p] \in idle
    BY <1>2, <2>1 DEF cleanup_next, RelayInv, Types, Locals, Active, Stopped, WatchThread
  <2>2. CASE ~(sockets[p] # Null /\ sockets[p] \in idle)
    BY <1>2, <2>2 DEF cleanup_next, RelayInv, Types, Locals, Active, Stopped, WatchThread
  <2> QED  BY <2>1, <2>2
<1>3. CASE cleanup_end
  BY <1>3 DEF cleanup_end, RelayInv, Types, Locals, Active, Stopped, WatchThread
<1> QED  BY <1>1, <1>2, <1>3

\* The watchdog closes the socket of its object.
LEMMA StepCleanupClose ==
  ASSUME RelayInv, cleanup_close
  PROVE  RelayInv'
<1>1. /\ watch.pc = "close" /\ watch.managed \in Obj /\ watch.port \in Port
      /\ running' = running /\ sockets' = sockets /\ tun' = tun
  BY DEF cleanup_close, RelayInv, Locals
<1>2. /\ heap' \in [Obj -> ManagedSocket] /\ ~heap'[watch.managed].open
      /\ \A o \in Obj : heap'[o].port = heap[o].port
      /\ \A o \in Obj \ {watch.managed} : heap'[o].open = heap[o].open
  BY <1>1 DEF cleanup_close, RelayInv, Types, ManagedSocket
<1>3. /\ watch' \in WatchThread /\ watch'.pc = "remove" /\ watch'.port = watch.port
      /\ watch'.managed = watch.managed
  BY DEF cleanup_close, RelayInv, Types, WatchThread
<1>4. Types' /\ Locals'
  BY <1>1, <1>2, <1>3 DEF RelayInv, Types, Locals
<1>5. Active => Active'
  BY <1>1, <1>2, <1>3 DEF RelayInv, Types, Locals, Active
<1>6. Stopped => Stopped'
  BY <1>1, <1>2 DEF Stopped
<1> QED  BY <1>1, <1>4, <1>5, <1>6 DEF RelayInv

\* The watchdog removes the entry, which still is that of its object.
LEMMA StepCleanupRemove ==
  ASSUME RelayInv, cleanup_remove
  PROVE  RelayInv'
<1>1. /\ watch.pc = "remove" /\ watch.managed \in Obj /\ watch.port \in Port
      /\ running' = running /\ heap' = heap /\ tun' = tun
  BY DEF cleanup_remove, RelayInv, Locals
<1>2. /\ sockets' \in [Port -> Obj \cup {Null}] /\ sockets'[watch.port] = Null
      /\ \A p \in Port \ {watch.port} : sockets'[p] = sockets[p]
  BY <1>1 DEF cleanup_remove, RelayInv, Types
<1>3. watch' \in WatchThread /\ watch'.pc = "scan" /\ watch'.managed = Null
  BY DEF cleanup_remove, RelayInv, Types, WatchThread
<1>4. Types' /\ Locals'
  BY <1>1, <1>2, <1>3, UdpRelayAssumption DEF RelayInv, Types, Locals, TunThread
<1>5. Active => Active'
  BY <1>1, <1>2, <1>3, UdpRelayAssumption DEF RelayInv, Types, Locals, Active
<1>6. Stopped => Stopped'
  BY <1>1 DEF Stopped
<1> QED  BY <1>1, <1>4, <1>5, <1>6 DEF RelayInv

-----------------------------------------------------------------------------
\* stop() closes the sockets of the map: what is left is the TUN thread's.
LEMMA StepStopClose ==
  ASSUME RelayInv, stop_close
  PROVE  RelayInv'
<1>1. /\ running = "close" /\ running' = "clear" /\ Active
      /\ sockets' = sockets /\ tun' = tun /\ watch' = watch
  BY DEF stop_close, RelayInv
<1>2. \A o \in Obj : /\ heap'[o] = [heap[o] EXCEPT !.open = heap[o].open /\ \A p \in Port : sockets[p] # o]
                     /\ heap[o] \in ManagedSocket
  BY DEF stop_close, RelayInv, Types
<1>3. \A o \in Obj : /\ heap'[o] \in ManagedSocket
                     /\ heap'[o].open <=> heap[o].open /\ \A p \in Port : sockets[p] # o
                     /\ heap'[o].port = heap[o].port
  <2> TAKE o \in Obj
  <2> DEFINE b == heap[o].open /\ \A p \in Port : sockets[p] # o
  <2>1. b = TRUE \/ b = FALSE
    OBVIOUS
  <2>2. CASE b = TRUE
    <3>1. heap'[o] = [heap[o] EXCEPT !.open = TRUE]
      BY <1>2, <2>2
    <3> QED  BY <1>2, <2>2, <3>1, ZenonT(30) DEF ManagedSocket
  <2>3. CASE b = FALSE
    <3>1. heap'[o] = [heap[o] EXCEPT !.open = FALSE]
      BY <1>2, <2>3
    <3> QED  BY <1>2, <2>3, <3>1 DEF ManagedSocket
  <2> QED  BY <2>1, <2>2, <2>3
<1>4. heap' \in [Obj -> ManagedSocket]
  BY <1>3 DEF stop_close
<1>5. Types' /\ Locals'
  BY <1>1, <1>3, <1>4 DEF RelayInv, Types, Locals
<1>6. Stopped'
  BY <1>1, <1>3 DEF Active, Stopped
<1> QED  BY <1>1, <1>5, <1>6 DEF RelayInv

\* The other steps of onDestroy.
LEMMA StepMain ==
  ASSUME RelayInv, onDestroy \/ stop_clear \/ redirector_stop \/ device_close
  PROVE  RelayInv'
<1>1. CASE onDestroy
  BY <1>1 DEF onDestroy, RelayInv, Types, Locals, Active
<1>2. CASE stop_clear
  BY <1>2, UdpRelayAssumption DEF stop_clear, RelayInv, Types, Locals, Stopped
<1>3. CASE redirector_stop \/ device_close
  BY <1>3 DEF redirector_stop, device_close, RelayInv, Types, Locals, Stopped
<1> QED  BY <1>1, <1>2, <1>3

\* RelayInv is an invariant.  The redirector's thread and the passing of time
\* change none of the variables it speaks of.
LEMMA RelayInvariant == Spec => []RelayInv
<1>1. RelayInv /\ [Next]_vars => RelayInv'
  <2> SUFFICES ASSUME RelayInv, [Next]_vars PROVE RelayInv'
    OBVIOUS
  <2>1. CASE UNCHANGED <<running, sockets, heap, tun, watch>>
    BY <2>1 DEF RelayInv, Types, Locals, Active, Stopped
  <2>2. CASE TunStep
    BY <2>2, StepTunLoop, StepCreate, StepPut, StepForward DEF TunStep
  <2>3. CASE Consoles
    BY <2>3, StepTunLoop, StepProcessFromTun DEF Consoles
  <2>4. CASE Watchdog
    BY <2>4, StepScan, StepCleanupClose, StepCleanupRemove DEF Watchdog
  <2>5. CASE Main
    BY <2>5, StepStopClose, StepMain DEF Main
  <2>6. CASE Age \/ Redirector
    BY <2>1, <2>6 DEF Age, Redirector, redirector_start, redirector_loop, redirector_fails,
       receive_nothing, processFromServer, read_source_ip, write_to_tun
  <2> QED  BY <2>1, <2>2, <2>3, <2>4, <2>5, <2>6 DEF Next, vars
<1> QED  BY <1>1, RelayInit, PTL DEF Spec

\* No open socket is out of the watchdog's sight while the service runs.
THEOREM SocketsInSight == Spec => []NoLostSocket
<1>1. RelayInv => NoLostSocket
  BY DEF RelayInv, Active, NoLostSocket
<1> QED  BY <1>1, RelayInvariant, PTL

\* Every entry of the map can be used while the service runs.
THEOREM EntriesUsable == Spec => []EntryUsable
<1>1. RelayInv => EntryUsable
  BY DEF RelayInv, Active, EntryUsable
<1> QED  BY <1>1, RelayInvariant, PTL

\* Map and sockets agree while the service runs.
THEOREM MapIsAccurate == Spec => []MapMatchesSockets
BY SocketsInSight, EntriesUsable, PTL DEF MapMatchesSockets

\* iterator.remove() never removes a newer object's entry.
THEOREM RemovalSafe == Spec => []RemovesWhatItClosed
<1>1. RelayInv => RemovesWhatItClosed
  BY DEF RelayInv, Active, RemovesWhatItClosed
<1> QED  BY <1>1, RelayInvariant, PTL

\* When stop() has closed the sockets, at most one is open or will be.
THEOREM LeakBound == Spec => []AtMostOneLeaked
<1>1. RelayInv => AtMostOneLeaked
  <2> SUFFICES ASSUME RelayInv, running \notin {"running", "close"}
               PROVE  Cardinality({o \in Obj : heap[o].open}) <= 1
    BY DEF AtMostOneLeaked
  <2> DEFINE S == {o \in Obj : heap[o].open}
  <2>1. CASE S = {}
    BY <2>1, FS_EmptySet
  <2>2. CASE S # {}
    <3>1. PICK o \in S : TRUE
      BY <2>2
    <3>2. S = {o}
      BY <3>1 DEF RelayInv, Stopped
    <3>3. Cardinality({o}) = 1
      BY FS_Singleton
    <3> HIDE DEF S
    <3>4. Cardinality(S) <= 1
      BY <3>2, <3>3
    <3> QED  BY <3>4 DEF S
  <2> QED  BY <2>1, <2>2
<1> QED  BY <1>1, RelayInvariant, PTL
-----------------------------------------------------------------------------
(* Where the addresses of a packet come from *)

RecvThread ==
  [pc : {"init", "loop", "receive", "ip", "write", "done"},
   buffer : Port \cup {Null}, managed : Obj \cup {Null},
   src : Port \cup {Null}, ip : Ip \cup {Null}]

OrderOK ==
  /\ order \in Seq(Obj)
  /\ \A i, j \in 1 .. Len(order) : order[i] = order[j] => i = j

OtherTypes ==
  /\ OrderOK /\ idle \subseteq Obj
  /\ recv \in RecvThread
  /\ rsock \in {"none", "open"} /\ asked \subseteq Port

\* Consoles that send to port p have address ip; they have port src.
UsesIp(ip, p) == \E f \in Flow : f[1] = ip /\ f[3] = p
UsesPort(src, p) == \E f \in Flow : f[2] = src /\ f[3] = p

\* An object never changes its port while somebody refers to it, and its
\* lastSourceIp and lastSourcePort are of consoles that send to this port, even
\* if they are of two consoles.  So are the values the threads carry.
Sources ==
  /\ \A o \in Obj : heap[o].port # Null =>
       UsesIp(heap[o].lastSourceIp, heap[o].port) /\ UsesPort(heap[o].lastSourcePort, heap[o].port)
  /\ \A p \in Port : sockets[p] # Null => heap[sockets[p]].port = p
  /\ tun.pc \in {"create", "put", "ip", "port", "forward"} =>
       UsesIp(tun.ip, tun.port) /\ UsesPort(tun.src, tun.port)
  /\ tun.pc \in {"put", "ip", "port", "forward"} => heap[tun.managed].port = tun.port
  /\ recv.pc \in {"ip", "write"} => recv.managed \in Obj
  /\ recv.pc = "write" /\ recv.src # Null =>
       recv.src = heap[recv.managed].port /\ UsesIp(recv.ip, recv.src)

SourceInv == RelayInv /\ OtherTypes /\ Sources

\* Every set of natural numbers has a least element.
LEMMA LeastNat ==
  ASSUME NEW S \in SUBSET Nat, S # {}
  PROVE  \E m \in S : \A k \in S : m <= k
<1> DEFINE R == OpToRel(<, Nat)
<1>1. IsWellFoundedOn(R, Nat)
  BY NatLessThanWellFounded
<1>2. \A x, y \in Nat : x < y => <<x, y>> \in R
  BY DEF OpToRel
<1> HIDE DEF R
<1>3. PICK m \in S : \A y \in S : ~ (<<y, m>> \in R)
  BY <1>1, WFMin
<1>4. \A y \in S : ~ (y < m)
  BY <1>2, <1>3
<1> QED  BY <1>4

\* A bounded set of them has a greatest.
LEMMA BoundedMax ==
  ASSUME NEW n \in Nat, NEW S \in SUBSET (0..n), S # {}
  PROVE  \E m \in S : \A k \in S : k <= m
<1> DEFINE T == {n - k : k \in S}
<1>1. T \in SUBSET Nat /\ T # {}
  <2>1. \A k \in S : n - k \in Nat
    OBVIOUS
  <2>2. \A t \in T : t \in Nat
    BY <2>1
  <2>3. T # {}
    BY Zenon
  <2> QED  BY <2>2, <2>3
<1>2. PICK t \in T : \A u \in T : t <= u
  BY <1>1, LeastNat
<1>3. PICK m \in S : t = n - m
  BY <1>2
<1>4. \A k \in S : t <= n - k
  BY <1>2
<1> QED  BY <1>3, <1>4

\* The object used last is one of the map, if there is one.
LEMMA MostRecentInMap ==
  ASSUME SourceInv
  PROVE  mostRecent = Null \/ (mostRecent \in Obj /\ \E q \in Port : sockets[q] = mostRecent)
<1> DEFINE present == {i \in 1 .. Len(order) : \E q \in Port : sockets[q] = order[i]}
<1>1. CASE present = {}
  BY <1>1 DEF mostRecent
<1>2. CASE present # {}
  <2>1. order \in Seq(Obj) /\ Len(order) \in Nat
    BY DEF SourceInv, OtherTypes, OrderOK
  <2>2. present \in SUBSET (0 .. Len(order))
    BY <2>1
  <2> DEFINE m == CHOOSE i \in present : \A j \in present : j <= i
  <2>3. mostRecent = order[m]
    BY <1>2 DEF mostRecent
  <2>4. m \in present
    <3> HIDE DEF present
    <3>1. \E i \in present : \A j \in present : j <= i
      BY <1>2, <2>1, <2>2, BoundedMax
    <3> QED  BY <3>1
  <2> HIDE DEF m
  <2>5. m \in 1 .. Len(order) /\ \E q \in Port : sockets[q] = order[m]
    BY <2>4
  <2> QED  BY <2>1, <2>3, <2>5
<1> QED  BY <1>1, <1>2

\* Using an object moves it to the end of order.
LEMMA UsedLast ==
  ASSUME OrderOK, NEW o \in Obj, order' = Append(Without(o), o)
  PROVE  OrderOK'
<1> DEFINE n == Len(order)
<1>1. order \in Seq(Obj) /\ n \in Nat /\ \A i \in 1 .. n : order[i] \in Obj
  BY DEF OrderOK
<1>2. PICK s \in Seq(Obj) : /\ s = Without(o)
                            /\ \A i, j \in 1 .. Len(s) : s[i] = s[j] => i = j
                            /\ \A i \in 1 .. Len(s) : s[i] # o
  <2>1. CASE \E i \in 1 .. n : order[i] = o
    <3> DEFINE k == CHOOSE i \in 1 .. n : order[i] = o
               s == [i \in 1 .. n - 1 |-> IF i < k THEN order[i] ELSE order[i + 1]]
    <3>1. k \in 1 .. n /\ order[k] = o
      BY <2>1
    <3>2. s = Without(o)
      BY <2>1 DEF Without
    <3> HIDE DEF k
    <3>3. n - 1 \in Nat
      BY <1>1, <3>1
    <3>4. \A i \in 1 .. n - 1 : s[i] \in Obj
      BY <1>1, <3>1
    <3>5. s \in Seq(Obj) /\ Len(s) = n - 1
      BY <3>3, <3>4
    <3>6. \A i, j \in 1 .. n : order[i] = order[j] => i = j
      BY DEF OrderOK
    <3>7. \A i \in 1 .. n - 1 : s[i] # o
      BY <1>1, <3>1, <3>6
    <3>8. \A i, j \in 1 .. n - 1 : s[i] = s[j] => i = j
      BY <1>1, <3>1, <3>6
    <3> HIDE DEF s
    <3> QED  BY <3>2, <3>5, <3>7, <3>8
  <2>2. CASE ~ \E i \in 1 .. n : order[i] = o
    BY <2>2, <1>1 DEF Without, OrderOK
  <2> QED  BY <2>1, <2>2
<1>3. order' = Append(s, o) /\ order' \in Seq(Obj) /\ Len(order') = Len(s) + 1
  BY <1>2
<1>4. \A i \in 1 .. Len(s) : order'[i] = s[i]
  BY <1>2, <1>3
<1>5. order'[Len(s) + 1] = o
  BY <1>2, <1>3
<1>6. \A i \in 1 .. Len(order') : i \in 1 .. Len(s) \/ i = Len(s) + 1
  BY <1>2, <1>3
<1> QED  BY <1>2, <1>3, <1>4, <1>5, <1>6 DEF OrderOK

\* SourceInv holds at first: nobody has sent anything.
LEMMA SourceInit == Init => SourceInv
<1> SUFFICES ASSUME Init PROVE SourceInv
  OBVIOUS
<1>1. OtherTypes
  BY DEF Init, OtherTypes, OrderOK, RecvThread
<1>2. Sources
  BY UdpRelayAssumption DEF Init, Idling, Sources
<1> QED  BY <1>1, <1>2, RelayInit DEF SourceInv

\* Steps that change no object and no entry.
LEMMA SourceTun ==
  ASSUME SourceInv, tun_loop \/ tun_read_fails \/ processFromTun_refuses \/ bind_fails
  PROVE  OtherTypes' /\ Sources'
<1>1. /\ UNCHANGED <<heap, sockets, order, idle, recv, rsock, asked>>
      /\ tun'.pc \in {"loop", "read", "done"}
  BY DEF tun_loop, tun_read_fails, processFromTun_refuses, bind_fails, Idling, SourceInv,
     RelayInv, Types, TunThread
<1> QED  BY <1>1 DEF SourceInv, OtherTypes, OrderOK, Sources

\* A packet of a console brings its address and port.
LEMMA SourceProcessFromTun ==
  ASSUME SourceInv, NEW f \in Flow, processFromTun(f)
  PROVE  OtherTypes' /\ Sources'
<1>1. UNCHANGED <<heap, sockets, order, idle, recv, rsock, asked>>
  BY DEF processFromTun
<1>2. /\ tun'.ip = f[1] /\ tun'.src = f[2] /\ tun'.port = f[3] /\ tun'.managed = sockets[f[3]]
      /\ tun'.pc = "create" \/ (tun'.pc = "ip" /\ sockets[f[3]] # Null)
  BY DEF processFromTun
<1>3. f[3] \in Port
  BY UdpRelayAssumption
<1>4. UsesIp(f[1], f[3]) /\ UsesPort(f[2], f[3])
  BY DEF UsesIp, UsesPort
<1>5. OtherTypes'
  BY <1>1 DEF SourceInv, OtherTypes, OrderOK
<1>6. Sources'
  BY <1>1, <1>2, <1>3, <1>4 DEF SourceInv, Sources
<1> QED  BY <1>5, <1>6

\* A new object starts with the address and port of the packet; neither the
\* redirector's thread nor the map refers to it.
LEMMA SourceCreate ==
  ASSUME SourceInv, create_socket
  PROVE  OtherTypes' /\ Sources'
<1>1. PICK o \in Obj \ InUse :
        /\ heap' = [heap EXCEPT ![o] = [port |-> tun.port, lastSourceIp |-> tun.ip,
                                        lastSourcePort |-> tun.src, open |-> TRUE]]
        /\ order' = Append(Without(o), o)
        /\ idle' = idle \ {o}
        /\ tun' = [tun EXCEPT !.pc = "put", !.managed = o]
  BY DEF create_socket
<1>2. tun.pc = "create" /\ UNCHANGED <<sockets, recv, rsock, asked>>
  BY DEF create_socket
<1>3. recv.managed # o /\ \A p \in Port : sockets[p] # o
  BY <1>1 DEF InUse
<1>4. /\ heap'[o].port = tun.port /\ heap'[o].lastSourceIp = tun.ip
      /\ heap'[o].lastSourcePort = tun.src
      /\ \A q \in Obj \ {o} : heap'[q] = heap[q]
  BY <1>1 DEF SourceInv, RelayInv, Types
<1>5. /\ tun'.pc = "put" /\ tun'.managed = o /\ tun'.port = tun.port
      /\ tun'.ip = tun.ip /\ tun'.src = tun.src
  BY <1>1 DEF SourceInv, RelayInv, Types, TunThread
<1>6. OtherTypes'
  BY <1>1, <1>2, UsedLast DEF SourceInv, OtherTypes
<1>7. \A p \in Port : sockets[p] # Null => sockets[p] \in Obj
  BY DEF SourceInv, RelayInv, Types
<1>8. Sources'
  BY <1>1, <1>2, <1>3, <1>4, <1>5, <1>7 DEF SourceInv, Sources
<1> QED  BY <1>6, <1>8

\* putIfAbsent finds no entry; the new one has the object of its port.
LEMMA SourcePut ==
  ASSUME SourceInv, put_socket
  PROVE  OtherTypes' /\ Sources'
<1>1. /\ tun.pc = "put" /\ UNCHANGED <<order, idle, recv, rsock, asked>>
      /\ tun.port \in Port /\ tun.managed \in Obj /\ sockets[tun.port] = Null
      /\ heap[tun.managed].port = tun.port
  BY DEF put_socket, SourceInv, RelayInv, Locals
<1>2. /\ sockets' = [sockets EXCEPT ![tun.port] = tun.managed]
      /\ heap' = [heap EXCEPT ![tun.managed].open = TRUE]
      /\ tun' = [tun EXCEPT !.pc = "ip", !.managed = tun.managed]
  BY <1>1 DEF put_socket
<1>3. \A o \in Obj : /\ heap'[o].port = heap[o].port
                     /\ heap'[o].lastSourceIp = heap[o].lastSourceIp
                     /\ heap'[o].lastSourcePort = heap[o].lastSourcePort
  BY <1>2 DEF SourceInv, RelayInv, Types, ManagedSocket
<1>4. /\ sockets'[tun.port] = tun.managed
      /\ \A p \in Port \ {tun.port} : sockets'[p] = sockets[p]
  BY <1>1, <1>2 DEF SourceInv, RelayInv, Types
<1>5. /\ tun'.pc = "ip" /\ tun'.managed = tun.managed /\ tun'.port = tun.port
      /\ tun'.ip = tun.ip /\ tun'.src = tun.src
  BY <1>2 DEF SourceInv, RelayInv, Types, TunThread
<1>6. \A p \in Port : sockets[p] # Null => sockets[p] \in Obj
  BY DEF SourceInv, RelayInv, Types
<1>7. OtherTypes'
  BY <1>1 DEF SourceInv, OtherTypes, OrderOK
<1>8. Sources'
  BY <1>1, <1>3, <1>4, <1>5, <1>6 DEF SourceInv, Sources
<1> QED  BY <1>7, <1>8

\* The packet's address is stored into the object of its port.
LEMMA SourceSetIp ==
  ASSUME SourceInv, set_source_ip
  PROVE  OtherTypes' /\ Sources'
<1>1. /\ tun.pc = "ip" /\ UNCHANGED <<sockets, order, idle, recv, rsock, asked>>
      /\ tun.port \in Port /\ tun.managed \in Obj
      /\ heap' = [heap EXCEPT ![tun.managed].lastSourceIp = tun.ip]
      /\ tun' = [tun EXCEPT !.pc = "port"]
  BY DEF set_source_ip, SourceInv, RelayInv, Locals
<1>2. /\ \A o \in Obj : /\ heap'[o].port = heap[o].port
                        /\ heap'[o].lastSourcePort = heap[o].lastSourcePort
                        /\ heap'[o].lastSourceIp = IF o = tun.managed THEN tun.ip
                                                   ELSE heap[o].lastSourceIp
  BY <1>1 DEF SourceInv, RelayInv, Types, ManagedSocket
<1>3. /\ tun'.pc = "port" /\ tun'.managed = tun.managed /\ tun'.port = tun.port
      /\ tun'.ip = tun.ip /\ tun'.src = tun.src
  BY <1>1 DEF SourceInv, RelayInv, Types, TunThread
<1>4. \A p \in Port : sockets[p] # Null => sockets[p] \in Obj
  BY DEF SourceInv, RelayInv, Types
<1>5. OtherTypes'
  BY <1>1 DEF SourceInv, OtherTypes, OrderOK
<1>6. Sources'
  BY <1>1, <1>2, <1>3, <1>4 DEF SourceInv, Sources
<1> QED  BY <1>5, <1>6

\* So is its port.
LEMMA SourceSetPort ==
  ASSUME SourceInv, set_source_port
  PROVE  OtherTypes' /\ Sources'
<1>1. /\ tun.pc = "port" /\ UNCHANGED <<sockets, order, idle, recv, rsock, asked>>
      /\ tun.port \in Port /\ tun.managed \in Obj
      /\ heap' = [heap EXCEPT ![tun.managed].lastSourcePort = tun.src]
      /\ tun' = [tun EXCEPT !.pc = "forward"]
  BY DEF set_source_port, SourceInv, RelayInv, Locals
<1>2. /\ \A o \in Obj : /\ heap'[o].port = heap[o].port
                        /\ heap'[o].lastSourceIp = heap[o].lastSourceIp
                        /\ heap'[o].lastSourcePort = IF o = tun.managed THEN tun.src
                                                     ELSE heap[o].lastSourcePort
  BY <1>1 DEF SourceInv, RelayInv, Types, ManagedSocket
<1>3. /\ tun'.pc = "forward" /\ tun'.managed = tun.managed /\ tun'.port = tun.port
      /\ tun'.ip = tun.ip /\ tun'.src = tun.src
  BY <1>1 DEF SourceInv, RelayInv, Types, TunThread
<1>4. \A p \in Port : sockets[p] # Null => sockets[p] \in Obj
  BY DEF SourceInv, RelayInv, Types
<1>5. OtherTypes'
  BY <1>1 DEF SourceInv, OtherTypes, OrderOK
<1>6. Sources'
  BY <1>1, <1>2, <1>3, <1>4 DEF SourceInv, Sources
<1> QED  BY <1>5, <1>6

\* The server may have packets of the port from now on.
LEMMA SourceForward ==
  ASSUME SourceInv, forwardToServer
  PROVE  OtherTypes' /\ Sources'
<1>1. /\ UNCHANGED <<heap, sockets, recv, rsock>> /\ tun'.pc = "loop"
      /\ order' = Append(Without(tun.managed), tun.managed)
      /\ idle' = idle \ {tun.managed}
      /\ asked' \subseteq asked \cup {tun.port}
      /\ tun.port \in Port /\ tun.managed \in Obj
  BY DEF forwardToServer, Idling, SourceInv, RelayInv, Locals
<1>2. OtherTypes'
  BY <1>1, UsedLast DEF SourceInv, OtherTypes
<1>3. Sources'
  BY <1>1 DEF SourceInv, Sources
<1> QED  BY <1>2, <1>3

\* The watchdog and stop() close sockets and remove entries; they change no
\* address and no port.
LEMMA SourceClose ==
  ASSUME SourceInv, Watchdog \/ Main
  PROVE  OtherTypes' /\ Sources'
<1>1. /\ UNCHANGED <<order, idle, tun, recv, asked>> /\ rsock' \in {rsock, "none"}
  BY DEF Watchdog, Main, cleanupIdleSockets, cleanup_next, cleanup_close, cleanup_remove,
     cleanup_end, onDestroy, stop_close, stop_clear, redirector_stop, device_close
<1>2. \A o \in Obj : /\ heap'[o].port = heap[o].port
                     /\ heap'[o].lastSourceIp = heap[o].lastSourceIp
                     /\ heap'[o].lastSourcePort = heap[o].lastSourcePort
  <2>1. CASE cleanup_close
    BY <2>1 DEF cleanup_close, SourceInv, RelayInv, Types, ManagedSocket
  <2>2. CASE stop_close
    <3>1. \A o \in Obj : heap[o] \in ManagedSocket
      BY DEF SourceInv, RelayInv, Types
    <3> TAKE o \in Obj
    <3> DEFINE b == heap[o].open /\ \A p \in Port : sockets[p] # o
    <3>2. heap'[o] = [heap[o] EXCEPT !.open = b]
      BY <2>2 DEF stop_close
    <3> HIDE DEF b
    <3> QED  BY <3>1, <3>2 DEF ManagedSocket
  <2>3. CASE ~cleanup_close /\ ~stop_close
    BY <2>3 DEF Watchdog, Main, cleanupIdleSockets, cleanup_next, cleanup_remove,
       cleanup_end, onDestroy, stop_clear, redirector_stop, device_close
  <2> QED  BY <2>1, <2>2, <2>3
<1>3. \A p \in Port : sockets'[p] = sockets[p] \/ sockets'[p] = Null
  BY DEF Watchdog, Main, cleanupIdleSockets, cleanup_next, cleanup_close, cleanup_remove,
     cleanup_end, onDestroy, stop_close, stop_clear, redirector_stop, device_close,
     SourceInv, RelayInv, Types
<1>4. \A p \in Port : sockets[p] # Null => sockets[p] \in Obj
  BY DEF SourceInv, RelayInv, Types
<1>5. tun.pc \in {"put", "ip", "port", "forward"} => tun.managed \in Obj
  BY DEF SourceInv, RelayInv, Locals
<1>6. OtherTypes'
  BY <1>1 DEF SourceInv, OtherTypes, OrderOK
<1>7. Sources'
  BY <1>1, <1>2, <1>3, <1>4, <1>5 DEF SourceInv, Sources
<1> QED  BY <1>6, <1>7

\* Time passes.
LEMMA SourceAge ==
  ASSUME SourceInv, Age
  PROVE  OtherTypes' /\ Sources'
<1>1. UNCHANGED <<heap, sockets, order, tun, recv, rsock, asked>>
  BY DEF Age
<1>2. idle' \subseteq Obj
  BY DEF Age, SourceInv, OtherTypes, OrderOK
<1> QED  BY <1>1, <1>2 DEF SourceInv, OtherTypes, OrderOK, Sources

\* The redirector's thread reads an object that stays in use until the packet
\* is written.
LEMMA SourceRedirector ==
  ASSUME SourceInv, Redirector
  PROVE  OtherTypes' /\ Sources'
<1>1. UNCHANGED <<heap, sockets, order, idle, tun, asked>>
  BY DEF Redirector, redirector_start, redirector_loop, redirector_fails, receive_nothing,
     processFromServer, read_source_ip, write_to_tun
<1>2. rsock' \in {"none", "open"}
  BY DEF Redirector, redirector_start, redirector_loop, redirector_fails, receive_nothing,
     processFromServer, read_source_ip, write_to_tun, SourceInv, OtherTypes
<1>3. recv' \in RecvThread /\ (recv'.pc \in {"ip", "write"} => recv'.managed \in Obj)
      /\ (recv'.pc = "write" /\ recv'.src # Null =>
            recv'.src = heap[recv'.managed].port /\ UsesIp(recv'.ip, recv'.src))
  <2> USE DEF SourceInv, OtherTypes, RecvThread
  <2>1. CASE redirector_start \/ redirector_loop \/ redirector_fails \/ receive_nothing
    BY <2>1 DEF redirector_start, redirector_loop, redirector_fails, receive_nothing
  <2>2. ASSUME NEW p \in Port, processFromServer(p)
        PROVE  /\ recv' \in RecvThread /\ recv'.pc # "write"
               /\ recv'.pc \in {"ip", "write"} => recv'.managed \in Obj
    <3>1. mostRecent = Null \/ mostRecent \in Obj
      BY MostRecentInMap
    <3> QED  BY <2>2, <3>1 DEF processFromServer
  <2>3. CASE read_source_ip
    <3>1. recv.pc = "ip" /\ recv.managed \in Obj
      BY <2>3 DEF read_source_ip, Sources
    <3> DEFINE m == heap[recv.managed]
    <3>2. m \in ManagedSocket
      BY <3>1 DEF RelayInv, Types
    <3>3. recv' = [recv EXCEPT !.pc = "write", !.src = IF m.open THEN m.port ELSE Null,
                               !.ip = m.lastSourceIp]
      BY <2>3 DEF read_source_ip
    <3>4. m.port # Null => UsesIp(m.lastSourceIp, m.port)
      BY <3>1 DEF Sources
    <3> HIDE DEF m
    <3>5. /\ recv' \in RecvThread /\ recv'.managed = recv.managed
          /\ recv'.src = Null \/ recv'.src = m.port
          /\ recv'.ip = m.lastSourceIp
      BY <3>2, <3>3 DEF ManagedSocket
    <3> QED  BY <3>1, <3>4, <3>5 DEF m
  <2>4. CASE write_to_tun
    BY <2>4 DEF write_to_tun
  <2> QED  BY <2>1, <2>2, <2>3, <2>4 DEF Redirector
<1>4. OtherTypes'
  BY <1>1, <1>2, <1>3 DEF SourceInv, OtherTypes, OrderOK
<1>5. Sources'
  BY <1>1, <1>3 DEF SourceInv, Sources
<1> QED  BY <1>4, <1>5

\* SourceInv is an invariant.
LEMMA SourceInvariant == Spec => []SourceInv
<1>1. SourceInv /\ [Next]_vars => (OtherTypes /\ Sources)'
  <2> SUFFICES ASSUME SourceInv, [Next]_vars PROVE OtherTypes' /\ Sources'
    OBVIOUS
  <2>1. CASE UNCHANGED vars
    BY <2>1 DEF SourceInv, OtherTypes, OrderOK, Sources, vars
  <2>2. CASE TunStep
    BY <2>2, SourceTun, SourceCreate, SourcePut, SourceSetIp, SourceSetPort, SourceForward
       DEF TunStep
  <2>3. CASE Consoles
    BY <2>3, SourceTun, SourceProcessFromTun DEF Consoles
  <2>4. CASE Watchdog \/ Main
    BY <2>4, SourceClose
  <2>5. CASE Age \/ Redirector
    BY <2>5, SourceAge, SourceRedirector
  <2> QED  BY <2>1, <2>2, <2>3, <2>4, <2>5 DEF Next
<1> QED  BY <1>1, SourceInit, RelayInvariant, PTL DEF Spec, SourceInv

\* The variables of UdpRelayServer.kt and of its threads have their types, and
\* an object is at one place of the order in which objects were used.
THEOREM RelayTypes == Spec => []TypeOK
<1>1. SourceInv => TypeOK
  BY DEF SourceInv, RelayInv, Types, Locals, TunThread, WatchThread, OtherTypes, OrderOK,
     RecvThread, TypeOK
<1> QED  BY <1>1, SourceInvariant, PTL

\* A packet of the server that leaves from a gateway port goes to an address
\* and to a port of consoles that use this gateway port.
THEOREM RepliesWithinPort == Spec => []ReplyWithinPort
<1>1. Init => ReplyWithinPort
  BY DEF Init, ReplyWithinPort
<1>2. SourceInv /\ ReplyWithinPort /\ [Next]_vars => ReplyWithinPort'
  <2> SUFFICES ASSUME SourceInv, ReplyWithinPort, [Next]_vars PROVE ReplyWithinPort'
    OBVIOUS
  <2>1. CASE write_to_tun
    <3>1. CASE reply' = Null
      BY <3>1 DEF ReplyWithinPort
    <3>2. CASE reply' # Null
      <4>1. /\ reply'.src = recv.src /\ reply'.ip = recv.ip
            /\ reply'.dst = heap[recv.managed].lastSourcePort /\ recv.pc = "write"
        BY <2>1, <3>2 DEF write_to_tun
      <4>2. recv.src # Null => UsesIp(recv.ip, recv.src)
                               /\ UsesPort(heap[recv.managed].lastSourcePort, recv.src)
        BY <4>1 DEF SourceInv, Sources
      <4> QED  BY <4>1, <4>2 DEF ReplyWithinPort, UsesIp, UsesPort
    <3> QED  BY <3>1, <3>2
  <2>2. CASE UNCHANGED vars
    BY <2>2 DEF ReplyWithinPort, vars
  <2>3. CASE reply' = Null
    BY <2>3 DEF ReplyWithinPort
  <2>4. Next /\ ~write_to_tun => reply' = Null
    BY DEF Next, TunStep, Consoles, Age, Watchdog, Redirector, Main, tun_loop, tun_read_fails,
       create_socket, bind_fails, put_socket, set_source_ip, set_source_port, forwardToServer,
       processFromTun_refuses, processFromTun, cleanupIdleSockets, cleanup_next,
       cleanup_close, cleanup_remove, cleanup_end, redirector_start, redirector_loop,
       redirector_fails, receive_nothing, processFromServer, read_source_ip, onDestroy,
       stop_close, stop_clear, redirector_stop, device_close
  <2> QED  BY <2>1, <2>2, <2>3, <2>4
<1> QED  BY <1>1, <1>2, SourceInvariant, PTL DEF Spec
=============================================================================

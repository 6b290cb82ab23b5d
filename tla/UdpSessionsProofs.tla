------------------------- MODULE UdpSessionsProofs --------------------------
(***************************************************************************)
(* Proofs about UdpSessions, for any number of consoles, ttl and period.    *)
(*                                                                         *)
(* GoneInTime is not inductive: it needs to know that a session expires     *)
(* TTL seconds after its last use, and that the timer is due no later than  *)
(* GC seconds after the session expires (SessionInv): a session that the    *)
(* timer leaves alone has not expired, and one that is used after the       *)
(* timer ran is younger than the timer.                                     *)
(***************************************************************************)
EXTENDS UdpSessions, TLAPS

\* What holds of the session s of a console whose last datagram is n, which
\* was used at time u, at time t, when the timer is due at time g.
SessionInv(s, n, u, t, g) ==
  /\ n >= 1 /\ s.kept <= n
  /\ u <= t /\ s.expire_at = u + TTL /\ g <= u + TTL + GC
  /\ IF s.phase = "ready" THEN s.waiting = 0 /\ s.out = s.kept .. n
                          ELSE s.waiting = n /\ s.out = {}

\* The inductive invariant.
UdpInv ==
  /\ TypeOK
  /\ proxy # "freed" => now <= gcAt /\ gcAt <= now + GC
  /\ proxy = "freed" => \A k \in Key : cacheTable[k] = None
  /\ \A k \in Key : cacheTable[k] # None =>
       SessionInv(cacheTable[k], sent[k], used[k], now, gcAt)

LEMMA UdpInit == Init => UdpInv
BY UdpSessionsAssumption DEF Init, UdpInv, TypeOK

LEMMA LaterSum ==
  ASSUME NEW a \in Nat, NEW b \in Nat, NEW c \in Nat, NEW d \in Nat, a <= b + d, b <= c
  PROVE  a <= c + d
OBVIOUS

LEMMA LongerSum ==
  ASSUME NEW a \in Nat, NEW b \in Nat, NEW c \in Nat, NEW d \in Nat, a <= b + d
  PROVE  a <= b + c + d
OBVIOUS

LEMMA NextPeriod ==
  ASSUME NEW a \in Nat, NEW b \in {a, a + 1}, NEW d \in Nat \ {0}
  PROVE  b <= a + d /\ a + d <= b + d
OBVIOUS

\* What a session has to satisfy when it was used just now.
LEMMA UsedNow ==
  ASSUME NEW s, NEW n \in Nat, NEW t \in Nat, NEW g \in Nat,
         n >= 1, s.kept <= n, s.expire_at = t + TTL, g <= t + GC,
         s.phase = "ready" => s.waiting = 0 /\ s.out = s.kept .. n,
         s.phase # "ready" => s.waiting = n /\ s.out = {}
  PROVE  SessionInv(s, n, t, t, g)
<1>1. TTL \in Nat /\ GC \in Nat
  BY UdpSessionsAssumption
<1>2. g <= t + TTL + GC
  BY <1>1, LongerSum
<1>3. t <= t
  OBVIOUS
<1> QED  BY <1>2, <1>3, Zenon DEF SessionInv

\* visit changes expire_at only.
LEMMA VisitFields ==
  ASSUME NEW s \in Session, NEW t \in Nat
  PROVE  /\ visit(s, t) \in Session /\ visit(s, t).expire_at = t + TTL
         /\ visit(s, t).id = s.id /\ visit(s, t).phase = s.phase /\ visit(s, t).waiting = s.waiting
         /\ visit(s, t).kept = s.kept /\ visit(s, t).out = s.out
BY UdpSessionsAssumption DEF visit, Session

\* send adds the datagram to what is sent, or lets it wait.
LEMMA SendFields ==
  ASSUME NEW s \in Session, NEW n \in Nat, NEW t \in Nat
  PROVE  /\ send(s, n, t) \in Session /\ send(s, n, t).expire_at = t + TTL
         /\ send(s, n, t).id = s.id /\ send(s, n, t).phase = s.phase /\ send(s, n, t).kept = s.kept
         /\ send(s, n, t).waiting = IF s.phase = "ready" THEN s.waiting ELSE n
         /\ send(s, n, t).out = IF s.phase = "ready" THEN s.out \cup {n} ELSE s.out
<1> DEFINE d == IF s.phase = "ready" THEN [s EXCEPT !.out = @ \cup {n}]
                                     ELSE [s EXCEPT !.waiting = n]
<1>1. /\ d \in Session /\ d.id = s.id /\ d.phase = s.phase /\ d.kept = s.kept
      /\ d.waiting = IF s.phase = "ready" THEN s.waiting ELSE n
      /\ d.out = IF s.phase = "ready" THEN s.out \cup {n} ELSE s.out
  BY DEF Session
<1>2. send(s, n, t) = visit(d, t)
  BY DEF send
<1> HIDE DEF d
<1> QED  BY <1>1, <1>2, VisitFields

\* The session that udpReadyCallback makes of s.
ReadySession(s, out, n, t) ==
  visit([s EXCEPT !.phase = "ready", !.out = out, !.waiting = 0, !.kept = n], t)

LEMMA ReadyFields ==
  ASSUME NEW s \in Session, NEW out \in SUBSET Nat, NEW n \in Nat, NEW t \in Nat
  PROVE  /\ ReadySession(s, out, n, t) \in Session /\ ReadySession(s, out, n, t).expire_at = t + TTL /\ ReadySession(s, out, n, t).id = s.id
         /\ ReadySession(s, out, n, t).phase = "ready" /\ ReadySession(s, out, n, t).out = out /\ ReadySession(s, out, n, t).waiting = 0 /\ ReadySession(s, out, n, t).kept = n
<1> DEFINE d == [s EXCEPT !.phase = "ready", !.out = out, !.waiting = 0, !.kept = n]
           e == [s EXCEPT !.phase = "ready", !.out = out]
<1>1. /\ e \in Session /\ e.id = s.id /\ e.phase = "ready" /\ e.out = out
  BY DEF Session, Phase
<1>2. /\ d \in Session /\ d.id = s.id /\ d.phase = "ready" /\ d.out = out
      /\ d.waiting = 0 /\ d.kept = n
  <2>1. d = [e EXCEPT !.waiting = 0, !.kept = n]
    OBVIOUS
  <2> HIDE DEF d, e
  <2> QED  BY <1>1, <2>1 DEF Session
<1> HIDE DEF d
<1>3. ReadySession(s, out, n, t) = visit(d, t)
  BY DEF d, ReadySession
<1>4. /\ visit(d, t) \in Session /\ visit(d, t).expire_at = t + TTL
      /\ visit(d, t).id = d.id /\ visit(d, t).phase = d.phase
      /\ visit(d, t).waiting = d.waiting
      /\ visit(d, t).kept = d.kept /\ visit(d, t).out = d.out
  BY <1>2, VisitFields
<1> QED  BY <1>2, <1>3, <1>4, Zenon

\* getUdp and send yield a session that satisfies SessionInv.
LEMMA SendInv ==
  ASSUME UdpInv, NEW k \in Key, NEW t \in Clock, proxy = "open"
  PROVE  /\ getUdp(k, sent[k] + 1) \in Session
         /\ send(getUdp(k, sent[k] + 1), sent[k] + 1, t) \in Session
         /\ SessionInv(send(getUdp(k, sent[k] + 1), sent[k] + 1, t), sent[k] + 1, t, t, gcAt)
<1> DEFINE n == sent[k] + 1
           g == getUdp(k, n)
           v == send(g, n, t)
<1>1. /\ n \in Nat /\ n >= 1 /\ t \in Nat /\ now <= t /\ gcAt <= t + GC /\ gcAt \in Nat
      /\ sent[k] \in Nat
  BY UdpSessionsAssumption DEF UdpInv, TypeOK, Clock
<1>2. /\ g \in Session /\ g.kept <= n
      /\ IF g.phase = "ready" THEN g.waiting = 0 /\ g.out = g.kept .. sent[k]
                              ELSE g.out = {}
  <2>1. CASE cacheTable[k] = None \/ isExpire(cacheTable[k], now)
    <3>1. g = newUdp(n)
      BY <2>1 DEF getUdp
    <3>2. n .. sent[k] = {}
      BY <1>1
    <3>3. g \in Session /\ g.kept = n /\ g.waiting = 0 /\ g.out = {}
      BY <1>1, <3>1 DEF newUdp, Session, Phase
    <3>4. n <= n
      BY <1>1
    <3> HIDE DEF n, g
    <3> QED  BY <3>2, <3>3, <3>4, Zenon
  <2>2. CASE ~(cacheTable[k] = None \/ isExpire(cacheTable[k], now))
    <3>1. g = cacheTable[k] /\ g \in Session /\ SessionInv(g, sent[k], used[k], now, gcAt)
      BY <2>2 DEF getUdp, UdpInv, TypeOK
    <3> QED  BY <1>1, <3>1 DEF SessionInv, Session
  <2> QED  BY <2>1, <2>2
<1>3. /\ v \in Session /\ v.expire_at = t + TTL /\ v.phase = g.phase /\ v.kept = g.kept
      /\ v.waiting = IF g.phase = "ready" THEN g.waiting ELSE n
      /\ v.out = IF g.phase = "ready" THEN g.out \cup {n} ELSE g.out
  <2>1. g \in Session /\ n \in Nat /\ t \in Nat
    BY <1>1, <1>2
  <2> HIDE DEF n, g
  <2> QED  BY <2>1, SendFields
<1>4. g.phase = "ready" => g.kept .. sent[k] \cup {n} = g.kept .. n
  <2>1. g.kept \in Nat /\ g.kept <= n
    BY <1>2 DEF Session
  <2> HIDE DEF g
  <2> QED  BY <1>1, <2>1
<1>5. SessionInv(v, n, t, t, gcAt)
  <2> HIDE DEF n, g, v
  <2>1. v.kept <= n
    BY <1>2, <1>3, Zenon
  <2>2. v.phase = "ready" => v.waiting = 0 /\ v.out = v.kept .. n
    BY <1>2, <1>3, <1>4, Zenon
  <2>3. v.phase # "ready" => v.waiting = n /\ v.out = {}
    BY <1>2, <1>3, Zenon
  <2> QED  BY <1>1, <1>3, <2>1, <2>2, <2>3, UsedNow
<1> QED  BY <1>2, <1>3, <1>5

\* A handler that leaves the session of k well formed keeps the invariant.
LEMMA VisitedInv ==
  ASSUME UdpInv, NEW k \in Key, NEW t \in Clock, NEW s \in Session, Visited(k, s, t),
         proxy # "freed", sent' \in [Key -> Nat],
         \A j \in Key \ {k} : sent'[j] = sent[j],
         SessionInv(s, sent'[k], t, t, gcAt)
  PROVE  UdpInv'
<1>1. t \in Nat /\ now <= t /\ t <= gcAt /\ gcAt <= t + GC
  BY UdpSessionsAssumption DEF UdpInv, TypeOK, Clock
<1>2. TypeOK'
  BY <1>1 DEF UdpInv, TypeOK, Visited
<1>3. ASSUME NEW j \in Key, cacheTable'[j] # None
      PROVE  SessionInv(cacheTable'[j], sent'[j], used'[j], t, gcAt)
  <2>1. CASE j = k
    BY <2>1 DEF UdpInv, TypeOK, Visited
  <2>2. CASE j # k
    <3>1. /\ cacheTable'[j] = cacheTable[j] /\ used'[j] = used[j] /\ sent'[j] = sent[j]
          /\ used[j] \in Nat /\ now \in Nat
      BY <2>2 DEF UdpInv, TypeOK, Visited
    <3>2. SessionInv(cacheTable[j], sent[j], used[j], now, gcAt)
      BY <1>3, <3>1 DEF UdpInv
    <3> QED  BY <1>1, <3>1, <3>2 DEF SessionInv
  <2> QED  BY <2>1, <2>2
<1> QED  BY <1>1, <1>2, <1>3 DEF UdpInv, Visited

\* Steps of the handshake that only move the phase.
LEMMA MovesInv ==
  ASSUME UdpInv, NEW k \in Key, NEW p \in Phase \ {"ready"}, NEW q \in Phase \ {"ready"},
         Moves(k, p, q)
  PROVE  UdpInv'
<1>1. cacheTable[k] \in Session
  BY DEF UdpInv, TypeOK, Moves
<1>2. [cacheTable[k] EXCEPT !.phase = q] \in Session
  BY <1>1 DEF Session
<1>3. cacheTable' = [cacheTable EXCEPT ![k] = [cacheTable[k] EXCEPT !.phase = q]]
  BY DEF Moves
<1>4. TypeOK'
  BY <1>2, <1>3 DEF UdpInv, TypeOK, Moves
<1>5. ASSUME NEW j \in Key, cacheTable'[j] # None
      PROVE  SessionInv(cacheTable'[j], sent[j], used[j], now, gcAt)
  <2>1. CASE j = k
    BY <1>1, <1>3, <2>1 DEF UdpInv, TypeOK, Moves, SessionInv, Session
  <2>2. CASE j # k
    BY <1>3, <1>5, <2>2 DEF UdpInv, TypeOK
  <2> QED  BY <2>1, <2>2
<1> QED  BY <1>1, <1>3, <1>4, <1>5, UdpSessionsAssumption DEF UdpInv, Moves

\* udpReadyCallback sends the datagram that is waiting.
LEMMA ReadyInv ==
  ASSUME UdpInv, NEW k \in Key, udpReadyCallback(k)
  PROVE  UdpInv'
<1> DEFINE s == cacheTable[k]
           out == IF s.waiting = 0 THEN s.out ELSE s.out \cup {s.waiting}
           r(t) == ReadySession(s, out, sent[k], t)
<1>1. PICK t \in Clock : Visited(k, r(t), t)
  BY DEF udpReadyCallback, ReadySession
<1>2. s # None /\ s.phase = "associate" /\ s \in Session /\ sent' = sent /\ sent[k] \in Nat
  BY DEF udpReadyCallback, UdpInv, TypeOK
<1>3. SessionInv(s, sent[k], used[k], now, gcAt)
  BY <1>2 DEF UdpInv
<1>4. t \in Nat /\ now <= t /\ gcAt <= t + GC
  BY <1>2, UdpSessionsAssumption DEF UdpInv, TypeOK, Clock
<1>5. out = {sent[k]} /\ {sent[k]} = sent[k] .. sent[k]
  BY <1>2, <1>3 DEF SessionInv
<1> HIDE DEF out
<1>6. /\ r(t) \in Session /\ r(t).expire_at = t + TTL /\ r(t).phase = "ready"
      /\ r(t).out = out /\ r(t).waiting = 0 /\ r(t).kept = sent[k]
  <2>1. out \in SUBSET Nat
    BY <1>2, <1>5
  <2> QED  BY <1>2, <1>4, <2>1, ReadyFields
<1> HIDE DEF r
<1>7. SessionInv(r(t), sent'[k], t, t, gcAt)
  <2>1. gcAt \in Nat /\ sent[k] >= 1 /\ sent[k] <= sent[k]
    BY <1>2, <1>3 DEF UdpInv, TypeOK, SessionInv
  <2> QED  BY <1>2, <1>4, <1>5, <1>6, <2>1, UsedNow
<1>8. proxy # "freed"
  BY <1>2 DEF UdpInv
<1> QED  BY <1>1, <1>2, <1>6, <1>7, <1>8, VisitedInv DEF UdpInv, TypeOK

\* An answer renews the session.
LEMMA DataInv ==
  ASSUME UdpInv, NEW k \in Key, UDPDataEvent(k)
  PROVE  UdpInv'
<1> DEFINE s == cacheTable[k]
<1>1. PICK t \in Clock : Visited(k, visit(s, t), t)
  BY DEF UDPDataEvent
<1>2. s # None /\ s \in Session /\ sent' = sent /\ SessionInv(s, sent[k], used[k], now, gcAt)
  BY DEF UDPDataEvent, UdpInv, TypeOK
<1>3. t \in Nat /\ now <= t /\ gcAt <= t + GC /\ proxy # "freed"
  BY <1>2, UdpSessionsAssumption DEF UdpInv, TypeOK, Clock
<1>4. visit(s, t) \in Session
  BY <1>2, <1>3, UdpSessionsAssumption DEF visit, Session
<1>5. SessionInv(visit(s, t), sent'[k], t, t, gcAt)
  <2>1. sent[k] \in Nat /\ gcAt \in Nat
    BY DEF UdpInv, TypeOK
  <2>2. /\ visit(s, t).expire_at = t + TTL /\ visit(s, t).phase = s.phase
        /\ visit(s, t).waiting = s.waiting
        /\ visit(s, t).kept = s.kept /\ visit(s, t).out = s.out
    BY <1>2, <1>3, VisitFields
  <2>3. /\ sent[k] >= 1 /\ s.kept <= sent[k]
        /\ s.phase = "ready" => s.waiting = 0 /\ s.out = s.kept .. sent[k]
        /\ s.phase # "ready" => s.waiting = sent[k] /\ s.out = {}
    BY <1>2, Zenon DEF SessionInv
  <2> QED  BY <1>2, <1>3, <2>1, <2>2, <2>3, UsedNow
<1> QED  BY <1>1, <1>2, <1>3, <1>4, <1>5, VisitedInv DEF UdpInv, TypeOK

\* The timer leaves only sessions that have not expired.
LEMMA TimerInv ==
  ASSUME UdpInv, TimerEvent
  PROVE  UdpInv'
<1>1. PICK gone \in SUBSET Expired(now') :
        /\ Expired(now) \subseteq gone
        /\ cacheTable' = [k \in Key |-> IF k \in gone THEN None ELSE cacheTable[k]]
  BY DEF TimerEvent
<1>2. now' \in {now, now + 1} /\ gcAt' = now + GC /\ now \in Nat /\ proxy # "freed"
      /\ sent' = sent /\ used' = used /\ proxy' = proxy
  BY DEF TimerEvent, UdpInv, TypeOK
<1>3. TypeOK'
  BY <1>1, <1>2, UdpSessionsAssumption DEF UdpInv, TypeOK, TimerEvent
<1>4. ASSUME NEW k \in Key, cacheTable'[k] # None
      PROVE  SessionInv(cacheTable'[k], sent[k], used[k], now', gcAt')
  <2>1. k \notin gone /\ cacheTable'[k] = cacheTable[k] /\ cacheTable[k] \in Session
    BY <1>1, <1>4 DEF UdpInv, TypeOK
  <2>2. ~(cacheTable[k].expire_at < now)
    BY <1>1, <1>4, <2>1 DEF Expired, isExpire
  <2>3. SessionInv(cacheTable[k], sent[k], used[k], now, gcAt) /\ used[k] \in Nat
    BY <1>4, <2>1 DEF UdpInv, TypeOK
  <2> QED  BY <1>2, <2>1, <2>2, <2>3, UdpSessionsAssumption DEF SessionInv
<1>5. now' <= gcAt' /\ gcAt' <= now' + GC
  <2>1. GC \in Nat \ {0}
    BY UdpSessionsAssumption
  <2> QED  BY <1>2, <2>1, NextPeriod
<1> QED  BY <1>2, <1>3, <1>4, <1>5 DEF UdpInv

\* Time passes, but not beyond the timer.
LEMMA TickInv ==
  ASSUME UdpInv, Tick
  PROVE  UdpInv'
<1>1. now' \in Nat /\ now <= now' /\ (proxy # "freed" => now' <= gcAt)
  BY DEF UdpInv, TypeOK, Tick, Clock
<1>2. TypeOK' /\ UNCHANGED <<proxy, gcAt, cacheTable, sent, used>>
  BY <1>1 DEF UdpInv, TypeOK, Tick
<1>3. ASSUME NEW k \in Key, cacheTable[k] # None
      PROVE  SessionInv(cacheTable[k], sent[k], used[k], now', gcAt)
  BY <1>1, <1>3 DEF UdpInv, TypeOK, SessionInv
<1>4. ASSUME proxy # "freed" PROVE gcAt <= now' + GC
  <2>1. gcAt \in Nat /\ now \in Nat /\ gcAt <= now + GC
    BY <1>4 DEF UdpInv, TypeOK
  <2>2. GC \in Nat
    BY UdpSessionsAssumption
  <2>3. now' \in Nat /\ now <= now'
    BY <1>1
  <2> QED  BY <2>1, <2>2, <2>3, LaterSum
<1> QED  BY <1>1, <1>2, <1>3, <1>4 DEF UdpInv

LEMMA UdpStep == UdpInv /\ [Next]_vars => UdpInv'
<1> SUFFICES ASSUME UdpInv, [Next]_vars PROVE UdpInv'
  OBVIOUS
<1>1. ASSUME NEW k \in Key, processUdp(k) PROVE UdpInv'
  <2> DEFINE n == sent[k] + 1
  <2>1. PICK t \in Clock : Visited(k, send(getUdp(k, n), n, t), t)
    BY <1>1 DEF processUdp, udpSend
  <2>2. proxy = "open" /\ sent' = [sent EXCEPT ![k] = n] /\ sent \in [Key -> Nat]
    BY <1>1 DEF processUdp, udpSend, UdpInv, TypeOK
  <2>3. /\ send(getUdp(k, n), n, t) \in Session
        /\ SessionInv(send(getUdp(k, n), n, t), n, t, t, gcAt)
    BY <2>2, SendInv
  <2>4. sent'[k] = n /\ sent' \in [Key -> Nat] /\ \A j \in Key \ {k} : sent'[j] = sent[j]
    BY <2>2
  <2> QED  BY <2>1, <2>2, <2>3, <2>4, VisitedInv
<1>2. ASSUME NEW k \in Key, ConnectEvent(k) \/ associate(k) \/ Fails(k) PROVE UdpInv'
  BY <1>2, MovesInv DEF ConnectEvent, associate, Fails, Phase
<1>3. CASE gateway_close
  BY <1>3 DEF gateway_close, UdpInv, TypeOK
<1>4. CASE Freed
  BY <1>4 DEF Freed, UdpInv, TypeOK
<1>5. CASE UNCHANGED vars
  BY <1>5 DEF vars, UdpInv, TypeOK
<1> QED  BY <1>1, <1>2, <1>3, <1>4, <1>5, ReadyInv, DataInv, TimerInv, TickInv DEF Next

-----------------------------------------------------------------------------
\* The inductive invariant holds in every reachable state.
THEOREM UdpInvariant == Spec => []UdpInv
BY UdpInit, UdpStep, PTL DEF Spec

\* The table of the proxies stays well typed.
THEOREM UdpTypeCorrect == Spec => []TypeOK
<1>1. UdpInv => TypeOK
  BY DEF UdpInv
<1> QED  BY <1>1, UdpInvariant, PTL

\* send() and udpReadyCallback lose only what they replaced while waiting.
THEOREM WaitingKept == Spec => []DatagramsKept
<1>1. UdpInv => DatagramsKept
  BY DEF UdpInv, SessionInv, DatagramsKept
<1> QED  BY <1>1, UdpInvariant, PTL

\* The timer of ProxyBase closes what is not used within TTL + GC seconds.
THEOREM Collected == Spec => []GoneInTime
<1>1. UdpInv => GoneInTime
  <2> SUFFICES ASSUME UdpInv, NEW k \in Key, cacheTable[k] # None
               PROVE  now <= used[k] + TTL + GC
    BY DEF GoneInTime
  <2>1. SessionInv(cacheTable[k], sent[k], used[k], now, gcAt) /\ proxy # "freed"
    BY DEF UdpInv
  <2> QED  BY <2>1, UdpSessionsAssumption DEF UdpInv, TypeOK, SessionInv
<1> QED  BY <1>1, UdpInvariant, PTL

\* getUdp and the timer give up only sessions that were not used for TTL
\* seconds.
THEOREM PortKept == Spec => SessionKept
<1> DEFINE Kept(k) == cacheTable'[k] # None /\ cacheTable'[k].id = cacheTable[k].id
           P == \A k \in Key : cacheTable[k] # None /\ proxy' # "freed" =>
                  Kept(k) \/ used[k] + TTL < now'
<1>1. UdpInv /\ [Next]_vars => [P]_vars
  <2> SUFFICES ASSUME UdpInv, Next, NEW k \in Key, cacheTable[k] # None, proxy' # "freed",
                      ~(used[k] + TTL < now')
               PROVE  Kept(k)
    OBVIOUS
  <2>0. /\ cacheTable[k] \in Session /\ cacheTable \in [Key -> Session \cup {None}]
        /\ cacheTable[k].expire_at = used[k] + TTL /\ now \in Nat /\ used[k] \in Nat
    BY DEF UdpInv, TypeOK, SessionInv
  <2>1. ASSUME NEW s \in Session, NEW t, NEW j \in Key, Visited(j, s, t),
               j = k => s.id = cacheTable[k].id
        PROVE  Kept(k)
    BY <2>0, <2>1, UdpSessionsAssumption DEF Visited
  <2>2. ASSUME NEW j \in Key, processUdp(j) PROVE Kept(k)
    <3> DEFINE n == sent[j] + 1
    <3>1. PICK t \in Clock : Visited(j, send(getUdp(j, n), n, t), t)
      BY <2>2 DEF processUdp, udpSend
    <3>2. send(getUdp(j, n), n, t) \in Session
      BY <2>2, SendInv DEF processUdp, udpSend
    <3>3. ASSUME j = k PROVE send(getUdp(j, n), n, t).id = cacheTable[k].id
      <4>1. now' = t /\ now <= t /\ t \in Nat
        BY <2>0, <3>1 DEF Visited, Clock
      <4>2. getUdp(j, n) = cacheTable[k]
        BY <2>0, <3>3, <4>1, UdpSessionsAssumption DEF getUdp, isExpire
      <4>3. n \in Nat
        BY DEF UdpInv, TypeOK
      <4>4. send(cacheTable[k], n, t).id = cacheTable[k].id
        <5>1. cacheTable[k] \in Session /\ n \in Nat /\ t \in Nat
          BY <2>0, <4>1, <4>3
        <5> HIDE DEF n
        <5> QED  BY <5>1, SendFields
      <4> QED  BY <4>2, <4>4
    <3> QED  BY <2>1, <3>1, <3>2, <3>3
  <2>3. ASSUME NEW j \in Key, NEW p, NEW q \in Phase, Moves(j, p, q) PROVE Kept(k)
    <3>1. cacheTable' = [cacheTable EXCEPT ![j].phase = q]
      BY <2>3 DEF Moves
    <3>2. CASE j = k
      <4>1. cacheTable'[k] = [cacheTable[k] EXCEPT !.phase = q]
        BY <2>0, <3>1, <3>2
      <4>2. [cacheTable[k] EXCEPT !.phase = q] \in Session
        BY <2>0 DEF Session
      <4> QED  BY <2>0, <4>1, <4>2, UdpSessionsAssumption DEF Session
    <3>3. CASE j # k
      BY <2>0, <3>1, <3>3
    <3> QED  BY <3>2, <3>3
  <2>4. ASSUME NEW j \in Key, ConnectEvent(j) \/ associate(j) \/ Fails(j) PROVE Kept(k)
    BY <2>3, <2>4 DEF ConnectEvent, associate, Fails, Phase
  <2>5. ASSUME NEW j \in Key, udpReadyCallback(j) \/ UDPDataEvent(j) PROVE Kept(k)
    <3>1. UdpInv' /\ cacheTable'[j] # None
          /\ cacheTable'[j].id = cacheTable[j].id
          /\ \A i \in Key \ {j} : cacheTable'[i] = cacheTable[i]
      <4>0. cacheTable[j] \in Session
        BY <2>0, <2>5 DEF udpReadyCallback, UDPDataEvent
      <4>1. PICK s : /\ cacheTable' = [cacheTable EXCEPT ![j] = s]
                     /\ s.id = cacheTable[j].id /\ s \in Session
        <5>1. CASE UDPDataEvent(j)
          <6>1. PICK t \in Clock : Visited(j, visit(cacheTable[j], t), t)
            BY <5>1 DEF UDPDataEvent
          <6>2. t \in Nat
            BY <2>0 DEF Clock
          <6> QED  BY <4>0, <6>1, <6>2, VisitFields DEF Visited
        <5>2. CASE udpReadyCallback(j)
          <6> DEFINE s == cacheTable[j]
                     out == IF s.waiting = 0 THEN s.out ELSE s.out \cup {s.waiting}
                     r(t) == ReadySession(s, out, sent[j], t)
          <6>1. PICK t \in Clock : Visited(j, r(t), t)
            BY <5>2 DEF udpReadyCallback, ReadySession
          <6>2. t \in Nat /\ sent[j] \in Nat /\ out \in SUBSET Nat
            BY <2>0, <4>0 DEF Clock, Session, UdpInv, TypeOK
          <6> HIDE DEF out
          <6>3. r(t) \in Session /\ r(t).id = s.id
            BY <4>0, <6>2, ReadyFields
          <6> HIDE DEF r
          <6> QED  BY <6>1, <6>3 DEF Visited
        <5> QED  BY <2>5, <5>1, <5>2
      <4> QED  BY <2>0, <2>5, <4>1, ReadyInv, DataInv, UdpSessionsAssumption
    <3> QED  BY <3>1
  <2>6. CASE TimerEvent
    <3>1. PICK gone \in SUBSET Expired(now') :
            cacheTable' = [i \in Key |-> IF i \in gone THEN None ELSE cacheTable[i]]
      BY <2>6 DEF TimerEvent
    <3>2. k \notin Expired(now')
      BY <2>0 DEF Expired, isExpire
    <3> QED  BY <3>1, <3>2
  <2>7. CASE gateway_close \/ Tick
    BY <2>7 DEF gateway_close, Tick
  <2>8. CASE Freed
    BY <2>8 DEF Freed
  <2> QED  BY <2>2, <2>4, <2>5, <2>6, <2>7, <2>8 DEF Next
<1>2. [P]_vars => [\A k \in Key :
                     cacheTable[k] # None /\ proxy' # "freed" =>
                       \/ cacheTable'[k] # None /\ cacheTable'[k].id = cacheTable[k].id
                       \/ used[k] + TTL < now']_vars
  OBVIOUS
<1> HIDE DEF P
<1> QED  BY <1>1, <1>2, UdpInvariant, PTL DEF Spec, SessionKept
=============================================================================

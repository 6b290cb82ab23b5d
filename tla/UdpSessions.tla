---------------------------- MODULE UdpSessions -----------------------------
(***************************************************************************)
(* UDP through the gateway: gateway::processUdp gives the datagrams of a    *)
(* console to a proxy (proxy_common.hpp), which keeps a session, that is a  *)
(* socket, for each address and port of a console.  A session of the        *)
(* direct proxy (proxy_direct.cpp) sends at once; one of the SOCKS5 proxy   *)
(* (proxy_socks5.cpp) first has to get an association.  Sessions that are   *)
(* not used expire; a timer collects them.                                  *)
(*                                                                         *)
(* The datagrams of a console are numbered.  All handlers run on the loop;  *)
(* the clock is time(NULL), and may move on while a handler runs.           *)
(***************************************************************************)
EXTENDS Integers

CONSTANTS
  Key,      \* UdpCacheKey: address and port of a console
  None,     \* no session
  TTL,      \* PROXY_UDP_TABLE_TTL, in seconds
  GC,       \* period of the timer, in seconds
  MaxNow,   \* bound: last second
  MaxSent   \* bound: datagrams of a console

VARIABLES
  mode,        \* the proxy in use
  proxy,       \* "released": gateway_close was called; "freed": so is the proxy
  now,         \* time(NULL)
  gcAt,        \* when the timer gc is due
  cacheTable,  \* session of each console
  sent,        \* history: number of the console's last datagram
  used         \* history: when the console's session last sent, received or got ready

vars == <<mode, proxy, now, gcAt, cacheTable, sent, used>>

Phase == {"connect", "auth", "associate", "ready", "failed"}

\* waiting is waitingData, 0 if there is none; out is what was given to the
\* session's socket.  History: id, the first datagram of the session, and kept,
\* the last one when the session got ready.
Session == [id : Nat, phase : Phase, waiting : Nat, kept : Nat,
            out : SUBSET Nat, expire_at : Nat]

ASSUME UdpSessionsAssumption ==
  /\ TTL \in Nat /\ GC \in Nat \ {0} /\ MaxNow \in Nat /\ MaxSent \in Nat
  /\ None \notin Session

Init ==
  /\ mode \in {"direct", "socks5"}
  /\ proxy = "open"
  /\ now = 1 /\ gcAt = 1
  /\ cacheTable = [k \in Key |-> None]
  /\ sent = [k \in Key |-> 0]
  /\ used = [k \in Key |-> 0]

-----------------------------------------------------------------------------
(* A session *)

\* Mutant: a session lives one second more.
isExpire_late(s, t) == s.expire_at + 1 < t

isExpire(s, t) == s.expire_at < t

visit(s, t) == [s EXCEPT !.expire_at = t + TTL]

\* newUdp and init for a session whose first datagram is n.  Socks5ProxyUdp
\* does not set expire_at; send does, before anybody looks at it.
newUdp(n) ==
  [id |-> n, phase |-> IF mode = "direct" THEN "ready" ELSE "connect",
   waiting |-> 0, kept |-> n, out |-> {}, expire_at |-> 0]

\* Mutant: what is waiting is kept.
send_first(s, n, t) ==
  visit(IF s.phase = "ready" THEN [s EXCEPT !.out = @ \cup {n}]
        ELSE IF s.waiting = 0 THEN [s EXCEPT !.waiting = n] ELSE s, t)

\* What is waiting is replaced.
send(s, n, t) ==
  visit(IF s.phase = "ready" THEN [s EXCEPT !.out = @ \cup {n}]
                             ELSE [s EXCEPT !.waiting = n], t)

-----------------------------------------------------------------------------
(* Events of the loop *)

\* The clock at the end of a handler.  The loop runs the timer in the second
\* in which it is due.
Clock == {t \in {now, now + 1} : t <= MaxNow /\ (t <= gcAt \/ proxy = "freed")}

\* The session of k is s by now, and was used at time t.
Visited(k, s, t) ==
  /\ cacheTable' = [cacheTable EXCEPT ![k] = s]
  /\ used' = [used EXCEPT ![k] = t]
  /\ now' = t
  /\ UNCHANGED <<mode, proxy, gcAt>>

\* An expired session is replaced; its destructor closes its handles.
getUdp(k, n) ==
  IF cacheTable[k] = None \/ isExpire(cacheTable[k], now) THEN newUdp(n) ELSE cacheTable[k]

udpSend(k, n) == \E t \in Clock : Visited(k, send(getUdp(k, n), n, t), t)

\* The gateway gets the next datagram of k.
processUdp(k) ==
  LET n == sent[k] + 1
  IN /\ proxy = "open" /\ n <= MaxSent
     /\ sent' = [sent EXCEPT ![k] = n]
     /\ udpSend(k, n)

\* Only the phase of k's session changes, from p to q.
Moves(k, p, q) ==
  /\ cacheTable[k] # None /\ cacheTable[k].phase = p
  /\ cacheTable' = [cacheTable EXCEPT ![k].phase = q]
  /\ UNCHANGED <<mode, proxy, now, gcAt, sent, used>>

\* Socks5Protocol::auth: the connection is there, the method is proposed.
ConnectEvent(k) == Moves(k, "connect", "auth")

\* The method is accepted; associate asks for an association.
associate(k) == Moves(k, "auth", "associate")

\* The connection fails, or RASSERT closes it: errorCallback logs, and nobody
\* tries again.
Fails(k) == \E p \in {"connect", "auth", "associate"} : Moves(k, p, "failed")

\* The association is there: the socket receives, and sends what is waiting.
udpReadyCallback(k) ==
  LET s == cacheTable[k]
      out == IF s.waiting = 0 THEN s.out ELSE s.out \cup {s.waiting}
  IN /\ s # None /\ s.phase = "associate"
     /\ UNCHANGED sent
     /\ \E t \in Clock :
          Visited(k, visit([s EXCEPT !.phase = "ready", !.out = out, !.waiting = 0,
                                     !.kept = sent[k]], t), t)

\* Mutant: an answer does not renew the session.
UDPDataEvent_silent(k) ==
  /\ cacheTable[k] # None /\ cacheTable[k].phase = "ready"
  /\ UNCHANGED sent
  /\ \E t \in Clock : Visited(k, cacheTable[k], t)

\* A datagram of a server: send_udp_ex gives it to the console.  (One with
\* another type of address than IPv4 is dropped, and changes nothing.)
UDPDataEvent(k) ==
  /\ cacheTable[k] # None /\ cacheTable[k].phase = "ready"
  /\ UNCHANGED sent
  /\ \E t \in Clock : Visited(k, visit(cacheTable[k], t), t)

Expired(t) == {k \in Key : cacheTable[k] # None /\ isExpire(cacheTable[k], t)}

\* The timer looks at one session after the other, each with its own clock.
TimerEvent ==
  /\ proxy # "freed" /\ now = gcAt
  /\ now' \in {t \in {now, now + 1} : t <= MaxNow}
  /\ gcAt' = now + GC
  /\ \E gone \in SUBSET Expired(now') :
       /\ Expired(now) \subseteq gone
       /\ cacheTable' = [k \in Key |-> IF k \in gone THEN None ELSE cacheTable[k]]
  /\ UNCHANGED <<mode, proxy, sent, used>>

\* gateway_close: no more datagrams come from the consoles.
gateway_close ==
  /\ proxy = "open"
  /\ proxy' = "released"
  /\ UNCHANGED <<mode, now, gcAt, cacheTable, sent, used>>

\* The last reference to the proxy goes with UvLwipBase: the timer is closed,
\* and the sessions are destroyed.
Freed ==
  /\ proxy = "released"
  /\ proxy' = "freed"
  /\ cacheTable' = [k \in Key |-> None]
  /\ UNCHANGED <<mode, now, gcAt, sent, used>>

Tick ==
  /\ now' \in Clock \ {now}
  /\ UNCHANGED <<mode, proxy, gcAt, cacheTable, sent, used>>

Next ==
  \/ \E k \in Key : processUdp(k) \/ ConnectEvent(k) \/ associate(k) \/ Fails(k)
                      \/ udpReadyCallback(k) \/ UDPDataEvent(k)
  \/ TimerEvent \/ gateway_close \/ Freed \/ Tick

Spec == Init /\ [][Next]_vars

-----------------------------------------------------------------------------
(* Properties *)

TypeOK ==
  /\ mode \in {"direct", "socks5"}
  /\ proxy \in {"open", "released", "freed"}
  /\ now \in Nat /\ gcAt \in Nat
  /\ cacheTable \in [Key -> Session \cup {None}]
  /\ sent \in [Key -> Nat]
  /\ used \in [Key -> Nat]

\* Until the association is there nothing is sent and the last datagram waits;
\* that one is sent then, once, and afterwards every datagram is.  So all
\* that a session loses are the datagrams that a later one replaced in send()
\* before the session was ready, and everything if it never is.
DatagramsKept ==
  \A k \in Key :
    LET s == cacheTable[k]
    IN s # None =>
         IF s.phase = "ready" THEN s.waiting = 0 /\ s.out = s.kept .. sent[k]
                              ELSE s.waiting = sent[k] /\ s.out = {}

\* A console keeps its session, and so the port that servers know it by, as
\* long as one of them sends at least every TTL seconds, although getUdp and
\* the timer both look for expired sessions.  (Neither does a session that
\* failed to get ready go away, as long as the console sends.)
SessionKept ==
  [][\A k \in Key :
       cacheTable[k] # None /\ proxy' # "freed" =>
         \/ cacheTable'[k] # None /\ cacheTable'[k].id = cacheTable[k].id
         \/ used[k] + TTL < now']_vars

\* A session that is not used any more is gone TTL + GC seconds later, also
\* when the gateway is closed and the proxy is never freed.
GoneInTime ==
  \A k \in Key : cacheTable[k] # None => now <= used[k] + TTL + GC

=============================================================================

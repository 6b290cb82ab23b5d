--------------------------- MODULE LanPlayProofs ---------------------------
(***************************************************************************)
(* The ARP cache, for every cache length, every ttl and every set of       *)
(* addresses: it is type correct, a lookup returns the MAC heard last, and *)
(* a stored address is known for exactly arp_ttl seconds.                  *)
(*                                                                         *)
(* FreshMac is not inductive: it says nothing of the second item of an     *)
(* address that fills several slots, which would answer once the first     *)
(* one is gone.  The strengthening speaks of every item that has not       *)
(* expired: if it holds an old MAC, an earlier slot holds the same address *)
(* and lasts at least as long (Shadowed).  That earlier slot can only be   *)
(* given away once it has expired, and by then the old item has too.       *)
(*                                                                         *)
(* And the client, for every set of hosts, interfaces, segments and        *)
(* frames: what it sends agrees with what it has heard.                    *)
(*                                                                         *)
(* A handler looks addresses up at a time t that lies up to one second     *)
(* before the end of its step, in the cache it leaves behind.  ArpInv at   *)
(* the end of the step speaks of every item that expires at now' or later, *)
(* and an item that is valid at t does: so the answers at t agree with     *)
(* heard' (LookupDuringStep).  Refused is the one addition to ArpInv: it   *)
(* is needed for an item that expires between arp_has_ip and               *)
(* arp_get_mac_by_ip.                                                      *)
(***************************************************************************)
EXTENDS LanPlay, WellFoundedInduction, TLAPS

----------------------------------------------------------------------------
(* The cache *)

\* No item outlives an item written now.
Bounded == \A i \in Slots : arp_list[i].expire_at <= now + arp_ttl

\* An unexpired item with an old MAC is behind a longer-lived item of the
\* same address.
Shadowed ==
  \A i \in Slots :
    LET item == arp_list[i]
    IN  (/\ item.ip # NONE_IP
         /\ item.expire_at >= now
         /\ item.mac # heard[item.ip].mac)
        => \E k \in Slots : /\ k < i
                            /\ arp_list[k].ip = item.ip
                            /\ arp_list[k].expire_at >= item.expire_at

\* The last stored hearing of an address is in the array until it expires.
Kept ==
  \A ip \in IP \ {NONE_IP} :
    (heard[ip].stored /\ heard[ip].at + arp_ttl >= now)
      => \E i \in Slots : /\ arp_list[i].ip = ip
                          /\ arp_list[i].expire_at = heard[ip].at + arp_ttl

\* Every item comes from a hearing, and not from one after the last.
Heard ==
  \A i \in Slots :
    arp_list[i].ip # NONE_IP
      => arp_list[i].expire_at <= heard[arp_list[i].ip].at + arp_ttl

\* The clock is not behind any hearing.
NotAhead == \A ip \in IP : heard[ip].at <= now

ArpInv ==
  /\ ArpTypeOK
  /\ Bounded
  /\ Shadowed
  /\ Kept
  /\ Heard
  /\ NotAhead

----------------------------------------------------------------------------
\* A nonempty set of slots has a first one: what the loops of arp.c stop at.
LEMMA FirstSlotExists ==
  ASSUME NEW S \in SUBSET Slots, S # {}
  PROVE  /\ FirstSlot(S) \in S
         /\ \A j \in S : FirstSlot(S) <= j
<1>1. S \subseteq Nat
  BY ArpAssumption DEF Slots
<1>2. PICK m \in S : \A j \in S : ~(<<j, m>> \in OpToRel(<, Nat))
  BY <1>1, NatLessThanWellFounded, WFMin, Zenon
<1>3. \A j \in S : m <= j
  <2>1. SUFFICES ASSUME NEW j \in S PROVE m <= j
    OBVIOUS
  <2>2. ~(j < m)
    BY <1>1, <1>2 DEF OpToRel
  <2>. QED  BY <1>1, <2>2
<1>. QED  BY <1>3 DEF FirstSlot

\* What arp_set leaves in the array: the first reusable slot s gets the new
\* item, every other slot is as it was, and the address has no slot before s.
LEMMA ArpSetWrites ==
  ASSUME ArpTypeOK, NEW hw \in MAC, NEW ip \in IP,
         arp_set(hw, ip), arp_set_ok(arp_list, now, ip)
  PROVE  \E s \in ReusableSlots(arp_list, now, ip) :
           /\ arp_list' = [arp_list EXCEPT ![s] =
                             [ip |-> ip, mac |-> hw,
                              expire_at |-> now + arp_ttl]]
           /\ \A j \in ReusableSlots(arp_list, now, ip) : s <= j
<1>1. /\ ReusableSlots(arp_list, now, ip) \in SUBSET Slots
      /\ ReusableSlots(arp_list, now, ip) # {}
  BY DEF ReusableSlots, arp_set_ok
<1>2. /\ FirstSlot(ReusableSlots(arp_list, now, ip))
           \in ReusableSlots(arp_list, now, ip)
      /\ \A j \in ReusableSlots(arp_list, now, ip) :
           FirstSlot(ReusableSlots(arp_list, now, ip)) <= j
  BY <1>1, FirstSlotExists
<1>. QED  BY <1>2 DEF arp_set, arp_set_list

\* The clock never goes back.
LEMMA ElapseForward ==
  ASSUME ArpTypeOK, Elapse
  PROVE  now' \in Nat \ {0} /\ now <= now'
BY ArpAssumption DEF Elapse, ArpTypeOK

LEMMA ArpInitInv == ArpInit => ArpInv
<1>. SUFFICES ASSUME ArpInit PROVE ArpInv
  OBVIOUS
<1>1. ArpTypeOK
  BY ArpAssumption DEF ArpInit, ArpTypeOK, ArpItem, Hearing
<1>2. Bounded
  BY ArpAssumption DEF ArpInit, Bounded
<1>. QED
  BY <1>1, <1>2, ArpAssumption
     DEF ArpInit, ArpInv, Shadowed, Kept, Heard, NotAhead

\* A successful arp_set preserves the invariant.
LEMMA ArpSetStoredInv ==
  ASSUME ArpInv, NEW hw \in MAC, NEW ip \in IP,
         arp_set(hw, ip), arp_set_ok(arp_list, now, ip)
  PROVE  ArpInv'
<1>. DEFINE item == [ip |-> ip, mac |-> hw, expire_at |-> now + arp_ttl]
<1>0. ArpTypeOK
  BY DEF ArpInv
<1>1. PICK s \in ReusableSlots(arp_list, now, ip) :
        /\ arp_list' = [arp_list EXCEPT ![s] = item]
        /\ \A j \in ReusableSlots(arp_list, now, ip) : s <= j
  BY <1>0, ArpSetWrites
<1>2. now' \in Nat \ {0} /\ now <= now'
  BY <1>0, ElapseForward DEF arp_set
<1>3. heard' = [heard EXCEPT ![ip] =
                  [mac |-> hw, at |-> now, stored |-> TRUE]]
  BY DEF arp_set
<1>4. /\ s \in Slots
      /\ \/ arp_list[s].ip = NONE_IP
         \/ arp_list[s].ip = ip
         \/ arp_list[s].expire_at < now
  BY <1>1 DEF ReusableSlots
<1>5. \A j \in Slots : arp_list[j].ip = ip => s <= j
  BY <1>1 DEF ReusableSlots
<1>6. now + arp_ttl \in Nat
  BY <1>0, ArpAssumption DEF ArpTypeOK
<1>7. item \in ArpItem
  BY <1>6 DEF ArpItem
<1>8. ArpTypeOK'
  <2>1. arp_list' \in [Slots -> ArpItem]
    BY <1>0, <1>1, <1>7 DEF ArpTypeOK
  <2>2. heard' \in [IP -> Hearing]
    BY <1>0, <1>3 DEF ArpTypeOK, Hearing
  <2>. QED  BY <2>1, <2>2, <1>2 DEF ArpTypeOK
<1>9. \A j \in Slots : arp_list'[j] = IF j = s THEN item ELSE arp_list[j]
  BY <1>0, <1>1 DEF ArpTypeOK
<1>10. \A a \in IP : heard'[a] = IF a = ip THEN [mac |-> hw, at |-> now,
                                               stored |-> TRUE] ELSE heard[a]
  BY <1>0, <1>3 DEF ArpTypeOK
<1>11. \A j \in Slots : /\ arp_list[j].ip \in IP
                        /\ arp_list[j].mac \in MAC
                        /\ arp_list[j].expire_at \in Nat
  BY <1>0 DEF ArpTypeOK, ArpItem
<1>12. \A a \in IP : heard[a].at \in Nat /\ heard[a].stored \in BOOLEAN
  BY <1>0 DEF ArpTypeOK, Hearing
<1>13. now \in Nat /\ arp_ttl \in Nat
  BY <1>0, ArpAssumption DEF ArpTypeOK
<1>14. Bounded'
  BY <1>2, <1>9, <1>11, <1>13 DEF ArpInv, Bounded
<1>15. Shadowed'
  <2>. SUFFICES ASSUME NEW i \in Slots,
                       arp_list'[i].ip # NONE_IP,
                       arp_list'[i].expire_at >= now',
                       arp_list'[i].mac # heard'[arp_list'[i].ip].mac
                PROVE  \E k \in Slots :
                         /\ k < i
                         /\ arp_list'[k].ip = arp_list'[i].ip
                         /\ arp_list'[k].expire_at >= arp_list'[i].expire_at
    BY DEF Shadowed
  <2>1. i # s
    BY <1>9, <1>10
  <2>2. arp_list'[i] = arp_list[i]
    BY <1>9, <2>1
  <2>3. arp_list[i].expire_at >= now
    BY <1>2, <1>11, <1>13, <2>2
  <2>4. CASE arp_list[i].ip = ip
    <3>1. s < i
      BY <1>4, <1>5, <2>1, <2>4, ArpAssumption DEF Slots
    <3>2. arp_list[i].expire_at <= now + arp_ttl
      BY DEF ArpInv, Bounded
    <3>. QED  BY <1>4, <1>9, <1>11, <1>6, <2>2, <2>4, <3>1, <3>2
  <2>5. CASE arp_list[i].ip # ip
    <3>1. arp_list[i].mac # heard[arp_list[i].ip].mac
      BY <1>10, <1>11, <2>2, <2>5
    <3>2. PICK k \in Slots :
            /\ k < i
            /\ arp_list[k].ip = arp_list[i].ip
            /\ arp_list[k].expire_at >= arp_list[i].expire_at
      BY <2>2, <2>3, <3>1 DEF ArpInv, Shadowed
    <3>3. k # s
      BY <1>4, <1>11, <1>13, <2>2, <2>3, <2>5, <3>2
    <3>. QED  BY <1>9, <2>2, <3>2, <3>3
  <2>. QED  BY <2>4, <2>5
<1>16. Kept'
  <2>. SUFFICES ASSUME NEW a \in IP \ {NONE_IP},
                       heard'[a].stored,
                       heard'[a].at + arp_ttl >= now'
                PROVE  \E i \in Slots :
                         /\ arp_list'[i].ip = a
                         /\ arp_list'[i].expire_at = heard'[a].at + arp_ttl
    BY DEF Kept
  <2>1. CASE a = ip
    BY <1>4, <1>9, <1>10, <2>1
  <2>2. CASE a # ip
    <3>1. heard'[a] = heard[a]
      BY <1>10, <2>2
    <3>2. heard[a].stored /\ heard[a].at + arp_ttl >= now
      BY <1>2, <1>12, <1>13, <3>1
    <3>3. PICK i \in Slots : /\ arp_list[i].ip = a
                             /\ arp_list[i].expire_at = heard[a].at + arp_ttl
      BY <3>2 DEF ArpInv, Kept
    <3>4. i # s
      BY <1>4, <1>11, <1>12, <1>13, <2>2, <3>2, <3>3
    <3>. QED  BY <1>9, <3>1, <3>3, <3>4
  <2>. QED  BY <2>1, <2>2
<1>17. Heard'
  <2>. SUFFICES ASSUME NEW i \in Slots, arp_list'[i].ip # NONE_IP
                PROVE  arp_list'[i].expire_at
                         <= heard'[arp_list'[i].ip].at + arp_ttl
    BY DEF Heard
  <2>1. CASE i = s
    BY <1>9, <1>10, <1>6, <2>1
  <2>2. CASE i # s
    <3>1. arp_list'[i] = arp_list[i]
      BY <1>9, <2>2
    <3>2. arp_list[i].expire_at <= heard[arp_list[i].ip].at + arp_ttl
      BY <3>1 DEF ArpInv, Heard
    <3>3. arp_list[i].expire_at <= now + arp_ttl
      BY DEF ArpInv, Bounded
    <3>. QED  BY <1>10, <1>11, <3>1, <3>2, <3>3
  <2>. QED  BY <2>1, <2>2
<1>18. NotAhead'
  BY <1>2, <1>10, <1>12, <1>13 DEF ArpInv, NotAhead
<1>. QED  BY <1>8, <1>14, <1>15, <1>16, <1>17, <1>18 DEF ArpInv

\* A refused arp_set ("set not found") preserves the invariant: no slot holds
\* the address, so the old items say nothing of it.
LEMMA ArpSetRefusedInv ==
  ASSUME ArpInv, NEW hw \in MAC, NEW ip \in IP,
         arp_set(hw, ip), ~arp_set_ok(arp_list, now, ip)
  PROVE  ArpInv'
<1>0. ArpTypeOK
  BY DEF ArpInv
<1>1. arp_list' = arp_list
  BY DEF arp_set, arp_set_list
<1>2. now' \in Nat \ {0} /\ now <= now'
  BY <1>0, ElapseForward DEF arp_set
<1>3. heard' = [heard EXCEPT ![ip] =
                  [mac |-> hw, at |-> now, stored |-> FALSE]]
  <2>1. arp_set_ok(arp_list, now, ip) = FALSE
    BY DEF arp_set_ok
  <2>. QED  BY <2>1 DEF arp_set
<1>4. \A j \in Slots : arp_list[j].ip # ip
  BY DEF arp_set_ok, ReusableSlots
<1>5. \A a \in IP : heard'[a] = IF a = ip THEN [mac |-> hw, at |-> now,
                                              stored |-> FALSE] ELSE heard[a]
  BY <1>0, <1>3 DEF ArpTypeOK
<1>6. \A j \in Slots : /\ arp_list[j].ip \in IP
                       /\ arp_list[j].expire_at \in Nat
  BY <1>0 DEF ArpTypeOK, ArpItem
<1>7. \A a \in IP : heard[a].at \in Nat
  BY <1>0 DEF ArpTypeOK, Hearing
<1>8. now \in Nat /\ arp_ttl \in Nat
  BY <1>0, ArpAssumption DEF ArpTypeOK
<1>9. ArpTypeOK'
  BY <1>0, <1>1, <1>2, <1>3 DEF ArpTypeOK, Hearing
<1>10. Bounded'
  BY <1>1, <1>2, <1>6, <1>8 DEF ArpInv, Bounded
<1>11. Shadowed'
  <2>1. \A j \in Slots : heard'[arp_list[j].ip] = heard[arp_list[j].ip]
    BY <1>4, <1>5, <1>6
  <2>. QED  BY <1>1, <1>2, <1>6, <1>8, <2>1 DEF ArpInv, Shadowed
<1>12. Kept'
  BY <1>1, <1>2, <1>5, <1>7, <1>8 DEF ArpInv, Kept
<1>13. Heard'
  BY <1>1, <1>4, <1>5, <1>6 DEF ArpInv, Heard
<1>14. NotAhead'
  BY <1>2, <1>5, <1>7, <1>8 DEF ArpInv, NotAhead
<1>. QED  BY <1>9, <1>10, <1>11, <1>12, <1>13, <1>14 DEF ArpInv

\* Time passing preserves the invariant.
LEMMA ArpIdleInv ==
  ASSUME ArpInv, UNCHANGED <<arp_list, heard>>, now' \in Nat, now <= now'
  PROVE  ArpInv'
<1>0. ArpTypeOK
  BY DEF ArpInv
<1>1. \A j \in Slots : /\ arp_list[j].ip \in IP
                       /\ arp_list[j].expire_at \in Nat
  BY <1>0 DEF ArpTypeOK, ArpItem
<1>2. \A a \in IP : heard[a].at \in Nat
  BY <1>0 DEF ArpTypeOK, Hearing
<1>3. now \in Nat \ {0} /\ arp_ttl \in Nat
  BY <1>0, ArpAssumption DEF ArpTypeOK
<1>4. ArpTypeOK' /\ Bounded' /\ Heard' /\ NotAhead'
  BY <1>1, <1>2, <1>3 DEF ArpInv, ArpTypeOK, Bounded, Heard, NotAhead
<1>5. Shadowed'
  BY <1>1, <1>3 DEF ArpInv, Shadowed
<1>6. Kept'
  BY <1>2, <1>3 DEF ArpInv, Kept
<1>. QED  BY <1>4, <1>5, <1>6 DEF ArpInv

LEMMA ArpStepInv == ArpInv /\ [ArpNext]_arpVars => ArpInv'
<1>. SUFFICES ASSUME ArpInv, [ArpNext]_arpVars PROVE ArpInv'
  OBVIOUS
<1>1. ASSUME NEW hw \in MAC, NEW ip \in IP, arp_set(hw, ip)
      PROVE  ArpInv'
  BY <1>1, ArpSetStoredInv, ArpSetRefusedInv
<1>2. now \in Nat
  BY DEF ArpInv, ArpTypeOK
<1>3. CASE Tick
  BY <1>2, <1>3, ArpIdleInv DEF Tick
<1>4. CASE UNCHANGED arpVars
  BY <1>2, <1>4, ArpIdleInv DEF arpVars
<1>. QED  BY <1>1, <1>3, <1>4 DEF ArpNext

----------------------------------------------------------------------------
\* The invariant says what the lookups return.
LEMMA ArpInvFresh == ArpInv => FreshMac
<1>. SUFFICES ASSUME ArpInv, NEW ip \in IP \ {NONE_IP},
                     arp_has_ip(arp_list, now, ip),
                     arp_get_mac_by_ip(arp_list, now, ip) # heard[ip].mac
              PROVE  FALSE
  BY DEF FreshMac
<1>. DEFINE H == HitSlots(arp_list, now, ip)
<1>1. FirstSlot(H) \in H /\ \A j \in H : FirstSlot(H) <= j
  <2>1. H \in SUBSET Slots /\ H # {}
    BY DEF HitSlots, arp_has_ip
  <2>. QED  BY <2>1, FirstSlotExists
<1>2. PICK i \in Slots : i = FirstSlot(H)
  BY <1>1 DEF HitSlots
<1>3. arp_list[i].ip = ip /\ arp_list[i].expire_at > now
  BY <1>1, <1>2 DEF HitSlots
<1>4. arp_list[i].mac # heard[ip].mac
  BY <1>2 DEF arp_get_mac_by_ip
<1>5. \A j \in Slots : arp_list[j].expire_at \in Nat
  BY DEF ArpInv, ArpTypeOK, ArpItem
<1>6. now \in Nat
  BY DEF ArpInv, ArpTypeOK
<1>7. PICK k \in Slots : /\ k < i
                         /\ arp_list[k].ip = ip
                         /\ arp_list[k].expire_at >= arp_list[i].expire_at
  BY <1>3, <1>4, <1>5, <1>6 DEF ArpInv, Shadowed
<1>8. k \in H
  BY <1>3, <1>5, <1>6, <1>7 DEF HitSlots
<1>. QED  BY <1>1, <1>2, <1>7, <1>8, ArpAssumption DEF Slots

LEMMA ArpInvRemembered == ArpInv => Remembered
<1>. SUFFICES ASSUME ArpInv, NEW ip \in IP \ {NONE_IP},
                     heard[ip].stored, heard[ip].at + arp_ttl > now
              PROVE  arp_has_ip(arp_list, now, ip)
  BY DEF Remembered
<1>1. now \in Nat /\ heard[ip].at \in Nat /\ arp_ttl \in Nat
  BY ArpAssumption DEF ArpInv, ArpTypeOK, Hearing
<1>2. PICK i \in Slots : /\ arp_list[i].ip = ip
                         /\ arp_list[i].expire_at = heard[ip].at + arp_ttl
  BY <1>1 DEF ArpInv, Kept
<1>. QED  BY <1>2 DEF arp_has_ip, HitSlots

LEMMA ArpInvForgotten == ArpInv => Forgotten
<1>. SUFFICES ASSUME ArpInv, NEW ip \in IP \ {NONE_IP},
                     heard[ip].at + arp_ttl <= now,
                     NEW i \in HitSlots(arp_list, now, ip)
              PROVE  FALSE
  BY DEF Forgotten, arp_has_ip
<1>1. now \in Nat /\ heard[ip].at \in Nat /\ arp_ttl \in Nat
  BY ArpAssumption DEF ArpInv, ArpTypeOK, Hearing
<1>2. i \in Slots /\ arp_list[i].ip = ip /\ arp_list[i].expire_at > now
  BY DEF HitSlots
<1>3. arp_list[i].expire_at \in Nat
  BY <1>2 DEF ArpInv, ArpTypeOK, ArpItem
<1>. QED  BY <1>1, <1>2, <1>3 DEF ArpInv, Heard

\* The strengthened invariant holds in every state of the cache.
THEOREM ArpInvariant == ArpSpec => []ArpInv
BY ArpInitInv, ArpStepInv, PTL DEF ArpSpec

\* Type correctness of the ARP cache (struct arp_item and packet_ctx.now).
THEOREM ArpTypeCorrect == ArpSpec => []ArpTypeOK
<1>1. ArpInv => ArpTypeOK
  BY DEF ArpInv
<1>. QED  BY ArpInvariant, <1>1, PTL

\* arp_get_mac_by_ip returns the MAC heard last, for every cache length, ttl
\* and number of hosts.
THEOREM LookupFresh == ArpSpec => []FreshMac
BY ArpInvariant, ArpInvFresh, PTL

\* A stored address is known for arp_ttl seconds.
THEOREM LookupRemembers == ArpSpec => []Remembered
BY ArpInvariant, ArpInvRemembered, PTL

\* And not longer.
THEOREM LookupForgets == ArpSpec => []Forgotten
BY ArpInvariant, ArpInvForgotten, PTL

\* The three together: what the callers of the lookups of arp.c rely on.
THEOREM CacheCorrect == ArpSpec => []LookupCorrect
BY LookupFresh, LookupRemembers, LookupForgets, PTL DEF LookupCorrect

----------------------------------------------------------------------------
(* The client *)

\* An address whose last arp_set failed has no item, not even an old one.
Refused ==
  \A ip \in IP \ {NONE_IP} :
    ~heard[ip].stored => \A i \in Slots : arp_list[i].ip # ip

\* An address that was heard was heard on the segment of an interface.
HeardOnOK ==
  /\ heard_on \in [IP -> {Segment[i] : i \in Interface} \cup {NoIf}]
  /\ \A ip \in IP : heard[ip].stored => \E i \in Interface : heard_on[ip] = Segment[i]

RoutedOK(o) ==
  (o.kind = "arp_reply" \/ (o.kind = "relay" /\ o.ip # BroadcastIp)) => ~Known(o.ip)

UnicastOK(o) ==
  (o.kind = "ipv4" /\ o.ip \notin {BroadcastIp, NONE_IP})
    => o.dst = heard[o.ip].mac \/ heard[o.ip].at + arp_ttl <= now

OutOK(o) == o \in Output /\ RoutedOK(o) /\ UnicastOK(o)

\* The part of the invariant that what a step sends depends on.
BaseInv ==
  /\ ArpInv
  /\ Refused
  /\ mac \in Interface \cup {NoIf}
  /\ map \in [Interface -> Interface \cup {NoIf}]
  /\ next_real_broadcast \in BOOLEAN
  /\ HeardOnOK

LanPlayInv == BaseInv /\ \A o \in out : OutOK(o)

\* The clock of a step: it advances by at most one second.
ClockStep == now \in Nat /\ now' \in Nat /\ now <= now' /\ now' <= now + 1

----------------------------------------------------------------------------
\* A lookup in the middle of a step finds every address that is known at its
\* end, and finds the MAC heard last.
LEMMA LookupDuringStep ==
  ASSUME ArpInv', ClockStep, NEW t \in Clock, NEW ip \in IP \ {NONE_IP}
  PROVE  /\ Known(ip)' => arp_has_ip(arp_list', t, ip)
         /\ arp_has_ip(arp_list', t, ip)
              => arp_get_mac_by_ip(arp_list', t, ip) = heard'[ip].mac
<1>1. /\ arp_list' \in [Slots -> ArpItem] /\ heard' \in [IP -> Hearing]
      /\ t \in Nat /\ t <= now' /\ now' <= t + 1
  BY DEF ArpInv, ArpTypeOK, ClockStep, Clock
<1>2. \A i \in Slots : arp_list'[i].expire_at \in Nat
  BY <1>1 DEF ArpItem
<1>3. ASSUME Known(ip)' PROVE arp_has_ip(arp_list', t, ip)
  <2>1. heard'[ip].at \in Nat /\ arp_ttl \in Nat /\ now' \in Nat
    BY <1>1, ArpAssumption DEF Hearing, ClockStep
  <2>2. heard'[ip].stored /\ heard'[ip].at + arp_ttl > now'
    BY <1>3 DEF Known
  <2>3. PICK i \in Slots : /\ arp_list'[i].ip = ip
                           /\ arp_list'[i].expire_at = heard'[ip].at + arp_ttl
    BY <2>1, <2>2 DEF ArpInv, Kept
  <2>4. arp_list'[i].expire_at > t
    BY <1>1, <2>1, <2>2, <2>3
  <2>. QED  BY <2>3, <2>4 DEF arp_has_ip, HitSlots
<1>4. ASSUME arp_has_ip(arp_list', t, ip)
      PROVE  arp_get_mac_by_ip(arp_list', t, ip) = heard'[ip].mac
  <2> DEFINE S == HitSlots(arp_list', t, ip)
             i == FirstSlot(S)
  <2>1. S \in SUBSET Slots /\ S # {}
    BY <1>4 DEF HitSlots, arp_has_ip
  <2>2. i \in S /\ \A j \in S : i <= j
    BY <2>1, FirstSlotExists
  <2>3. i \in Slots /\ arp_list'[i].ip = ip /\ arp_list'[i].expire_at > t
    BY <2>2 DEF HitSlots
  <2>4. ASSUME arp_list'[i].mac # heard'[ip].mac PROVE FALSE
    <3>1. arp_list'[i].expire_at >= now'
      BY <1>1, <1>2, <2>3 DEF ClockStep
    <3>2. PICK k \in Slots : /\ k < i
                             /\ arp_list'[k].ip = ip
                             /\ arp_list'[k].expire_at >= arp_list'[i].expire_at
      BY <2>3, <2>4, <3>1 DEF ArpInv, Shadowed
    <3>3. k \in S
      BY <1>1, <1>2, <2>3, <3>2 DEF HitSlots
    <3>4. k \in Int /\ i \in Int
      BY <2>3, ArpAssumption DEF Slots
    <3>. QED  BY <2>2, <3>2, <3>3, <3>4
  <2>. QED  BY <2>4 DEF arp_get_mac_by_ip
<1>. QED  BY <1>3, <1>4

\* If an address is found at t and no longer at u, its last hearing has run
\* out by the end of the step.
LEMMA LostDuringStep ==
  ASSUME ArpInv', Refused', ClockStep, NEW t \in Clock, NEW u \in Clock,
         NEW ip \in IP \ {NONE_IP}, arp_has_ip(arp_list', t, ip),
         ~arp_has_ip(arp_list', u, ip)
  PROVE  heard'[ip].at + arp_ttl <= now'
<1>1. heard' \in [IP -> Hearing]
  BY DEF ArpInv, ArpTypeOK
<1>2. heard'[ip].at \in Nat /\ heard'[ip].stored \in BOOLEAN
      /\ arp_ttl \in Nat /\ now' \in Nat
  BY <1>1, ArpAssumption DEF Hearing, ClockStep
<1>3. heard'[ip].stored
  BY <1>2 DEF Refused, arp_has_ip, HitSlots
<1>4. ~Known(ip)'
  BY LookupDuringStep
<1>5. ~(heard'[ip].at + arp_ttl > now')
  BY <1>3, <1>4 DEF Known
<1>. QED  BY <1>2, <1>5

----------------------------------------------------------------------------
\* What send_ether sends.
LEMMA SendEtherOut ==
  ASSUME BaseInv', NEW kind \in {"ipv4", "arp_request", "arp_reply"},
         NEW dst \in MAC, NEW ip \in IP, NEW o \in send_ether(kind, dst, ip)
  PROVE  /\ o \in Output
         /\ o.kind = kind /\ o.dst = dst /\ o.ip = ip
<1> DEFINE via == uv_pcap_sendpacket(mac', map')
<1>1. o = [kind |-> kind, via |-> via, dst |-> dst, ip |-> ip]
  BY DEF send_ether
<1>2. mac' \in Interface \cup {NoIf} /\ map' \in [Interface -> Interface \cup {NoIf}]
  BY DEF BaseInv
<1>3. via \subseteq Interface
  BY <1>2 DEF uv_pcap_sendpacket
<1> HIDE DEF via
<1>5. o \in Output
  BY <1>1, <1>3 DEF Output
<1>. QED  BY <1>1, <1>5

\* A frame found by one lookup, or the question for the address.
LEMMA SendToOK ==
  ASSUME BaseInv', ClockStep, NEW t \in Clock, NEW ip \in IP, NEW o \in SendTo(t, ip)
  PROVE  OutOK(o)'
<1>1. CASE arp_has_ip(arp_list', t, ip)
  <2> DEFINE m == arp_get_mac_by_ip(arp_list', t, ip)
  <2>1. m \in MAC
    <3>1. FirstSlot(HitSlots(arp_list', t, ip)) \in Slots
      BY <1>1, FirstSlotExists DEF arp_has_ip, HitSlots
    <3>. QED  BY <3>1 DEF arp_get_mac_by_ip, BaseInv, ArpInv, ArpTypeOK, ArpItem
  <2>2. ip # NONE_IP => m = heard'[ip].mac
    BY <1>1, LookupDuringStep DEF BaseInv
  <2>3. o \in send_ether("ipv4", m, ip)
    BY <1>1 DEF SendTo
  <2> HIDE DEF m
  <2>4. o \in Output /\ o.kind = "ipv4" /\ o.dst = m /\ o.ip = ip
    BY <2>1, <2>3, SendEtherOut
  <2>. QED  BY <2>2, <2>4 DEF OutOK, RoutedOK, UnicastOK
<1>2. CASE ~arp_has_ip(arp_list', t, ip)
  <2>1. o \in send_ether("arp_request", BROADCAST_MAC, ip)
    BY <1>2 DEF SendTo, send_arp_request
  <2>2. o \in Output /\ o.kind = "arp_request"
    BY <2>1, SendEtherOut, LanPlayAssumption
  <2>. QED  BY <2>2 DEF OutOK, RoutedOK, UnicastOK
<1>. QED  BY <1>1, <1>2

----------------------------------------------------------------------------
\* What each part of the handlers sends, in a step that preserves BaseInv.

LEMMA ProcessArpOut ==
  ASSUME BaseInv', ClockStep, NEW f \in ArpFrame, process_arp(f), NEW o \in out'
  PROVE  OutOK(o)'
<1>1. PICK t \in Clock : /\ f.target_ip \in Subnet
                         /\ ~arp_has_ip(arp_list', t, f.target_ip)
                         /\ o \in send_ether("arp_reply", f.sender_mac, f.target_ip)
  BY DEF process_arp
<1>2. f.target_ip \in IP \ {NONE_IP} /\ f.sender_mac \in MAC
  BY <1>1, LanPlayAssumption DEF ArpFrame
<1>3. ~Known(f.target_ip)'
  BY <1>1, <1>2, LookupDuringStep DEF BaseInv
<1>4. o \in Output /\ o.kind = "arp_reply" /\ o.ip = f.target_ip
  BY <1>1, <1>2, SendEtherOut
<1>. QED  BY <1>3, <1>4 DEF OutOK, RoutedOK, UnicastOK, Known

LEMMA ForwardLocalOut ==
  ASSUME BaseInv', ClockStep, NEW ip \in Subnet, ForwardLocal(ip), NEW o \in out'
  PROVE  OutOK(o)'
<1>1. ip \in IP \ {NONE_IP}
  BY LanPlayAssumption
<1>2. PICK t \in Clock, u \in Clock :
        /\ arp_has_ip(arp_list', t, ip)
        /\ IF arp_has_ip(arp_list', u, ip)
           THEN out' = send_ether("ipv4", arp_get_mac_by_ip(arp_list', u, ip), ip)
           ELSE \E junk \in MAC :
                  out' = send_arp_request(ip) \cup send_ether("ipv4", junk, ip)
  BY DEF ForwardLocal
<1>3. CASE arp_has_ip(arp_list', u, ip)
  <2>1. o \in SendTo(u, ip)
    BY <1>2, <1>3 DEF SendTo
  <2>. QED  BY <1>1, <2>1, SendToOK
<1>4. CASE ~arp_has_ip(arp_list', u, ip)
  <2>1. PICK junk \in MAC :
          o \in send_arp_request(ip) \/ o \in send_ether("ipv4", junk, ip)
    BY <1>2, <1>4
  <2>2. CASE o \in send_arp_request(ip)
    <3>1. o \in SendTo(u, ip)
      BY <1>4, <2>2 DEF SendTo
    <3>. QED  BY <1>1, <3>1, SendToOK
  <2>3. CASE o \in send_ether("ipv4", junk, ip)
    <3>1. o \in Output /\ o.kind = "ipv4" /\ o.ip = ip
      BY <1>1, <2>3, SendEtherOut
    <3>2. heard'[ip].at + arp_ttl <= now'
      BY <1>1, <1>2, <1>4, LostDuringStep DEF BaseInv
    <3>. QED  BY <3>1, <3>2 DEF OutOK, RoutedOK, UnicastOK
  <2>. QED  BY <2>1, <2>2, <2>3
<1>. QED  BY <1>3, <1>4

LEMMA ProcessIpv4Out ==
  ASSUME BaseInv', ClockStep, NEW f \in Ipv4Frame, process_ipv4(f), NEW o \in out'
  PROVE  OutOK(o)'
<1>1. f.src \in MAC /\ f.dst \in MAC /\ f.ip_src \in IP /\ f.ip_dst \in IP
  BY DEF Ipv4Frame
<1>2. ASSUME NEW t \in Clock, o \in SendTo(t, f.ip_src) PROVE OutOK(o)'
  BY <1>1, <1>2, SendToOK
<1>3. ASSUME f.ip_dst = BroadcastIp, o \in lan_client_send_ipv4(f.ip_dst)
      PROVE  OutOK(o)'
  BY <1>1, <1>3 DEF lan_client_send_ipv4, OutOK, Output, RoutedOK, UnicastOK
<1>4. ASSUME f.ip_dst = BroadcastIp, o \in send_ether("ipv4", f.src, f.ip_dst)
      PROVE  OutOK(o)'
  <2>1. o \in Output /\ o.kind = "ipv4" /\ o.ip = BroadcastIp
    BY <1>1, <1>4, SendEtherOut
  <2>. QED  BY <2>1 DEF OutOK, RoutedOK, UnicastOK
<1>5. ASSUME f.ip_dst \in Subnet, ForwardLocal(f.ip_dst) PROVE OutOK(o)'
  BY <1>5, ForwardLocalOut
<1>6. ASSUME f.ip_dst \in Subnet, NEW t \in Clock,
             ~arp_has_ip(arp_list', t, f.ip_dst),
             o \in lan_client_send_ipv4(f.ip_dst)
      PROVE  OutOK(o)'
  <2>1. ~Known(f.ip_dst)'
    BY <1>1, <1>6, LookupDuringStep, LanPlayAssumption DEF BaseInv
  <2>2. o = [kind |-> "relay", ip |-> f.ip_dst]
    BY <1>6 DEF lan_client_send_ipv4
  <2>. QED
    BY <1>1, <2>1, <2>2 DEF OutOK, Output, RoutedOK, UnicastOK, Known
<1>7. ASSUME o = [kind |-> "gateway", dst |-> f.dst] PROVE OutOK(o)'
  BY <1>1, <1>7 DEF OutOK, Output, RoutedOK, UnicastOK
<1>. QED
  BY <1>2, <1>3, <1>4, <1>5, <1>6, <1>7 DEF process_ipv4, process_icmp

----------------------------------------------------------------------------
\* arp_set preserves Refused: it fails only if no slot holds the address.
LEMMA ArpSetRefused ==
  ASSUME ArpInv, Refused, NEW m \in MAC, NEW ip \in IP, arp_set(m, ip)
  PROVE  Refused'
<1>1. ArpTypeOK /\ arp_list \in [Slots -> ArpItem] /\ heard \in [IP -> Hearing]
  BY DEF ArpInv, ArpTypeOK
<1>2. \A x \in IP : heard'[x] = IF x = ip
                       THEN [mac |-> m, at |-> now, stored |-> arp_set_ok(arp_list, now, ip)]
                       ELSE heard[x]
  BY <1>1 DEF arp_set
<1>3. CASE arp_set_ok(arp_list, now, ip)
  <2>0. arp_set_ok(arp_list, now, ip) = TRUE
    BY <1>3 DEF arp_set_ok
  <2>1. heard'[ip].stored
    BY <1>2, <2>0
  <2>2. PICK s \in ReusableSlots(arp_list, now, ip) :
          arp_list' = [arp_list EXCEPT ![s] = [ip |-> ip, mac |-> m,
                                               expire_at |-> now + arp_ttl]]
    BY <1>1, <1>3, ArpSetWrites
  <2>3. \A i \in Slots : arp_list'[i].ip = ip \/ arp_list'[i] = arp_list[i]
    BY <1>1, <2>2 DEF ReusableSlots
  <2>. QED  BY <1>2, <2>1, <2>3 DEF Refused
<1>4. CASE ~arp_set_ok(arp_list, now, ip)
  <2>1. arp_list' = arp_list
    BY <1>4 DEF arp_set, arp_set_list
  <2>2. \A i \in Slots : arp_list[i].ip # ip
    BY <1>4 DEF arp_set_ok, ReusableSlots
  <2>. QED  BY <1>2, <2>1, <2>2 DEF Refused
<1>. QED  BY <1>3, <1>4

\* A handler without arp_set leaves the cache alone.
LEMMA ElapseBase ==
  ASSUME ArpInv, Refused, Elapse, UNCHANGED <<arp_list, heard>>
  PROVE  ArpInv' /\ Refused' /\ ClockStep
<1>1. ClockStep
  BY DEF Elapse, ClockStep, ArpInv, ArpTypeOK
<1>2. [ArpNext]_arpVars
  BY <1>1, ArpAssumption DEF Elapse, ArpNext, Tick, arpVars, ClockStep
<1>. QED  BY <1>1, <1>2, ArpStepInv DEF Refused

LEMMA ArpSetBase ==
  ASSUME ArpInv, Refused, NEW m \in MAC, NEW ip \in IP, arp_set(m, ip)
  PROVE  ArpInv' /\ Refused' /\ ClockStep
<1>1. ClockStep
  BY DEF arp_set, Elapse, ClockStep, ArpInv, ArpTypeOK
<1>2. [ArpNext]_arpVars
  BY DEF ArpNext
<1>. QED  BY <1>1, <1>2, ArpStepInv, ArpSetRefused

\* The sender of a captured frame is heard on the segment of its interface.
LEMMA HearBase ==
  ASSUME BaseInv, NEW f, f.on \in Interface, NEW m \in MAC, NEW ip \in IP, Hear(f, m, ip)
  PROVE  ArpInv' /\ Refused' /\ ClockStep /\ HeardOnOK'
<1>1. ArpInv /\ Refused /\ HeardOnOK /\ arp_set(m, ip)
  BY DEF BaseInv, Hear
<1>2. heard \in [IP -> Hearing]
  BY <1>1 DEF ArpInv, ArpTypeOK
<1>3. heard_on' = [heard_on EXCEPT ![ip] = Segment[f.on]]
  BY DEF Hear
<1>4. \A x \in IP : x # ip => heard'[x] = heard[x]
  BY <1>1, <1>2 DEF arp_set
<1>5. HeardOnOK'
  BY <1>1, <1>3, <1>4 DEF HeardOnOK
<1>. QED  BY <1>1, <1>5, ArpSetBase

LEMMA UnchangedBase ==
  ASSUME ArpInv, Refused, UNCHANGED arpVars
  PROVE  ArpInv' /\ Refused' /\ ClockStep
<1>1. ArpInv'
  BY ArpStepInv
<1>. QED  BY <1>1 DEF arpVars, Refused, ClockStep, ArpInv, ArpTypeOK

LEMMA PcapHandlerInv ==
  ASSUME LanPlayInv, NEW f \in Frame, lan_play_pcap_handler(f)
  PROVE  LanPlayInv'
<1>1. BaseInv /\ ArpInv /\ Refused
  BY DEF LanPlayInv, BaseInv
<1>2. f \in ArpFrame \/ f \in Ipv4Frame
  BY FrameAssumption
<1>3. f.on \in Interface
  BY <1>2 DEF ArpFrame, Ipv4Frame
<1>4. /\ mac' \in Interface \cup {NoIf}
      /\ map' \in [Interface -> Interface \cup {NoIf}]
      /\ next_real_broadcast' \in BOOLEAN
  BY <1>1, <1>3 DEF BaseInv, lan_play_pcap_handler, uv_pcap_callback
<1>5. \/ out' = {} /\ UNCHANGED <<arpVars, heard_on>>
      \/ process_arp(f)
      \/ process_ipv4(f)
  BY DEF lan_play_pcap_handler, process_ether
<1>6. CASE out' = {} /\ UNCHANGED <<arpVars, heard_on>>
  <2>1. ArpInv' /\ Refused'
    BY <1>1, <1>6, UnchangedBase
  <2>2. HeardOnOK'
    BY <1>1, <1>6 DEF BaseInv, HeardOnOK, arpVars
  <2>. QED  BY <1>4, <1>6, <2>1, <2>2 DEF LanPlayInv, BaseInv
<1>7. CASE process_arp(f)
  <2>1. f \in ArpFrame
    BY <1>2, <1>7 DEF process_arp, Ipv4Frame
  <2>2. ArpInv' /\ Refused' /\ ClockStep /\ HeardOnOK'
    <3>1. CASE UNCHANGED <<arpVars, heard_on>>
      <4>1. HeardOnOK'
        BY <1>1, <3>1 DEF BaseInv, HeardOnOK, arpVars
      <4>. QED  BY <1>1, <3>1, <4>1, UnchangedBase
    <3>2. CASE Hear(f, f.sender_mac, f.sender_ip)
      <4>1. f.sender_mac \in MAC /\ f.sender_ip \in IP
        BY <2>1 DEF ArpFrame
      <4>. QED  BY <1>1, <1>3, <3>2, <4>1, HearBase
    <3>. QED  BY <1>7, <3>1, <3>2 DEF process_arp
  <2>3. BaseInv'
    BY <1>4, <2>2 DEF BaseInv
  <2>4. ASSUME NEW o \in out' PROVE OutOK(o)'
    BY <1>7, <2>1, <2>2, <2>3, ProcessArpOut
  <2>. QED  BY <2>3, <2>4 DEF LanPlayInv
<1>8. CASE process_ipv4(f)
  <2>1. f \in Ipv4Frame
    BY <1>2, <1>8 DEF process_ipv4, ArpFrame
  <2>2. f.src \in MAC /\ f.ip_src \in IP /\ Hear(f, f.src, f.ip_src)
    BY <1>8, <2>1 DEF process_ipv4, Ipv4Frame
  <2>3. ArpInv' /\ Refused' /\ ClockStep /\ HeardOnOK'
    BY <1>1, <1>3, <2>2, HearBase
  <2>4. BaseInv'
    BY <1>4, <2>3 DEF BaseInv
  <2>5. ASSUME NEW o \in out' PROVE OutOK(o)'
    BY <1>8, <2>1, <2>3, <2>4, ProcessIpv4Out
  <2>. QED  BY <2>4, <2>5 DEF LanPlayInv
<1>. QED  BY <1>5, <1>6, <1>7, <1>8

LEMMA OnBroadcastInv ==
  ASSUME LanPlayInv, lan_client_on_broadcast
  PROVE  LanPlayInv'
<1>1. ArpInv' /\ Refused' /\ ClockStep
  BY ElapseBase DEF LanPlayInv, BaseInv, lan_client_on_broadcast
<1>2. BaseInv'
  BY <1>1 DEF LanPlayInv, BaseInv, lan_client_on_broadcast, HeardOnOK
<1>3. ASSUME NEW m \in MAC, NEW o \in send_ether("ipv4", m, BroadcastIp)
      PROVE  OutOK(o)'
  <2>1. o \in Output /\ o.kind = "ipv4" /\ o.ip = BroadcastIp
    BY <1>2, <1>3, SendEtherOut, LanPlayAssumption
  <2>. QED  BY <2>1 DEF OutOK, RoutedOK, UnicastOK
<1>4. \A t : arp_for_each(arp_list, t) \subseteq MAC
  BY DEF LanPlayInv, BaseInv, ArpInv, ArpTypeOK, ArpItem, arp_for_each
<1>5. ASSUME NEW o \in out' PROVE OutOK(o)'
  <2>1. \E m \in MAC : o \in send_ether("ipv4", m, BroadcastIp)
    BY <1>4, LanPlayAssumption DEF lan_client_on_broadcast
  <2>. QED  BY <1>3, <2>1
<1>. QED  BY <1>2, <1>5 DEF LanPlayInv

LEMMA SendHostInv ==
  ASSUME LanPlayInv, NEW ip \in IP, SendHost(ip)
  PROVE  LanPlayInv'
<1>1. ArpInv' /\ Refused' /\ ClockStep
  BY ElapseBase DEF LanPlayInv, BaseInv, SendHost
<1>2. BaseInv'
  BY <1>1 DEF LanPlayInv, BaseInv, SendHost, HeardOnOK
<1>3. ASSUME NEW o \in out' PROVE OutOK(o)'
  BY <1>1, <1>2, SendToOK DEF SendHost
<1>. QED  BY <1>2, <1>3 DEF LanPlayInv

\* The steps that send nothing.
LEMMA QuietInv ==
  ASSUME LanPlayInv, lan_client_real_broadcast_timer \/ Idle
  PROVE  LanPlayInv'
<1>0. now \in Nat /\ next_real_broadcast \in BOOLEAN
  BY DEF LanPlayInv, BaseInv, ArpInv, ArpTypeOK
<1>1. Elapse /\ UNCHANGED <<arp_list, heard, heard_on, mac, map>> /\ out' = {}
      /\ next_real_broadcast' \in BOOLEAN
  <2>1. CASE lan_client_real_broadcast_timer
    BY <2>1 DEF lan_client_real_broadcast_timer, Elapse
  <2>2. CASE Idle
    <3>1. now < MaxNow /\ now' = now + 1
      BY <2>2 DEF Idle, Tick
    <3>2. Elapse
      BY <1>0, <3>1, ArpAssumption DEF Elapse
    <3>. QED  BY <1>0, <2>2, <3>2 DEF Idle, Tick
  <2>. QED  BY <2>1, <2>2
<1>2. ArpInv' /\ Refused'
  BY <1>1, ElapseBase DEF LanPlayInv, BaseInv
<1>. QED  BY <1>1, <1>2 DEF LanPlayInv, BaseInv, HeardOnOK

LEMMA LanPlayStepInv == LanPlayInv /\ [Next]_vars => LanPlayInv'
<1>. SUFFICES ASSUME LanPlayInv, [Next]_vars PROVE LanPlayInv'
  OBVIOUS
<1>1. CASE UNCHANGED vars
  <2>1. ArpInv' /\ Refused'
    BY <1>1, UnchangedBase DEF LanPlayInv, BaseInv, vars, arpVars
  <2>2. BaseInv'
    BY <1>1, <2>1 DEF LanPlayInv, BaseInv, vars, HeardOnOK
  <2>3. ASSUME NEW o \in out' PROVE OutOK(o)'
    BY <1>1 DEF LanPlayInv, vars, OutOK, RoutedOK, UnicastOK, Known
  <2>. QED  BY <2>2, <2>3 DEF LanPlayInv
<1>. QED
  BY <1>1, PcapHandlerInv, OnBroadcastInv, SendHostInv, QuietInv
  DEF Next, lan_client_process, lan_play_gateway_send_packet

LEMMA LanPlayInitInv == Init => LanPlayInv
<1>. SUFFICES ASSUME Init PROVE LanPlayInv
  OBVIOUS
<1>1. ArpInv
  BY ArpInitInv DEF Init, packet_init
<1>. QED
  BY <1>1 DEF Init, packet_init, uv_pcap_init, lan_client_init, ArpInit, LanPlayInv,
              BaseInv, HeardOnOK, Refused

----------------------------------------------------------------------------
\* The inductive invariant holds in every reachable state.
THEOREM LanPlayInvariant == Spec => []LanPlayInv
BY LanPlayInitInv, LanPlayStepInv, PTL DEF Spec

\* The packet path is type correct.
THEOREM LanPlayTypeCorrect == Spec => []TypeOK
<1>1. LanPlayInv => TypeOK
  BY DEF LanPlayInv, BaseInv, ArpInv, OutOK, HeardOnOK, TypeOK
<1>. QED  BY <1>1, LanPlayInvariant, PTL

\* arp_request and process_ipv4 take over no address of a host that the
\* client knows.
THEOREM NoTakeover == Spec => []RelayedOnlyIfUnknown
<1>1. LanPlayInv => RelayedOnlyIfUnknown
  BY DEF LanPlayInv, OutOK, RoutedOK, RelayedOnlyIfUnknown
<1>. QED  BY <1>1, LanPlayInvariant, PTL

\* Unicast frames go to the MAC heard last.
THEOREM UnicastCorrect == Spec => []UnicastToHeardMac
<1>1. LanPlayInv => UnicastToHeardMac
  BY DEF LanPlayInv, OutOK, UnicastOK, UnicastToHeardMac
<1>. QED  BY <1>1, LanPlayInvariant, PTL

\* lan_client_on_broadcast reaches every host that is known, but for those on
\* another segment than the one that the map has for the client's MAC.
THEOREM BroadcastComplete == Spec => BroadcastReachesAll
<1> DEFINE For(o, ip) == /\ o.ip = BroadcastIp
                         /\ o.dst \in {BROADCAST_MAC, heard[ip].mac}
                         /\ \E i \in o.via : Segment[i] = heard_on[ip]
           A == lan_client_on_broadcast =>
                  \A ip \in IP \ {NONE_IP} :
                    (Known(ip)' /\ Reaches(heard_on[ip])) => \E o \in out' : For(o, ip)
<1>1. LanPlayInv /\ LanPlayInv' /\ [Next]_vars => [A]_vars
  <2>1. SUFFICES ASSUME LanPlayInv, LanPlayInv', lan_client_on_broadcast,
                        NEW ip \in IP \ {NONE_IP}, Known(ip)', Reaches(heard_on[ip])
                 PROVE  \E o \in out' : For(o, ip)
    OBVIOUS
  <2>2. ArpInv' /\ ClockStep /\ arp_list' = arp_list /\ heard' = heard
    BY <2>1, ElapseBase DEF LanPlayInv, BaseInv, lan_client_on_broadcast
  <2> DEFINE via == uv_pcap_sendpacket(mac', map')
  <2>3. \E i \in via : Segment[i] = heard_on[ip]
    <3>1. PICK i \in Interface : heard_on[ip] = Segment[i]
      BY <2>1, <2>2 DEF LanPlayInv, BaseInv, HeardOnOK, Known
    <3>2. mac' = mac /\ map' = map
      BY <2>1 DEF lan_client_on_broadcast
    <3>. QED  BY <2>1, <3>1, <3>2 DEF Reaches, uv_pcap_sendpacket
  <2> HIDE DEF via
  <2>4. ASSUME NEW m \in {BROADCAST_MAC, heard[ip].mac},
               send_ether("ipv4", m, BroadcastIp) \subseteq out'
        PROVE  \E o \in out' : For(o, ip)
    <3> DEFINE o == [kind |-> "ipv4", via |-> via, dst |-> m, ip |-> BroadcastIp]
    <3>1. o \in out'
      BY <2>4 DEF send_ether, via
    <3>2. o.via = via /\ o.dst = m /\ o.ip = BroadcastIp
      OBVIOUS
    <3> HIDE DEF o
    <3>. QED  BY <2>3, <2>4, <3>1, <3>2
  <2>5. CASE next_real_broadcast
    BY <2>1, <2>4, <2>5 DEF lan_client_on_broadcast
  <2>6. CASE ~next_real_broadcast
    <3>1. PICK t \in Clock :
            out' = UNION {send_ether("ipv4", m, BroadcastIp) :
                            m \in arp_for_each(arp_list, t)}
      BY <2>1, <2>6 DEF lan_client_on_broadcast
    <3>2. /\ arp_has_ip(arp_list', t, ip)
          /\ arp_get_mac_by_ip(arp_list', t, ip) = heard'[ip].mac
      BY <2>1, <2>2, LookupDuringStep
    <3>3. FirstSlot(HitSlots(arp_list, t, ip)) \in HitSlots(arp_list, t, ip)
      BY <2>2, <3>2, FirstSlotExists DEF arp_has_ip, HitSlots
    <3>4. heard[ip].mac \in arp_for_each(arp_list, t)
      BY <2>2, <3>2, <3>3 DEF arp_get_mac_by_ip, HitSlots, arp_for_each
    <3>5. send_ether("ipv4", heard[ip].mac, BroadcastIp) \subseteq out'
      BY <3>1, <3>4
    <3>. QED  BY <2>4, <3>5
  <2>. QED  BY <2>5, <2>6
<1>. QED  BY <1>1, LanPlayInvariant, PTL DEF Spec, BroadcastReachesAll

=============================================================================

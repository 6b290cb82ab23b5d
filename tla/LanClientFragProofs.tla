------------------------ MODULE LanClientFragProofs ------------------------
(***************************************************************************)
(* For every number of clients, slots, parts and messages: reassembly      *)
(* never hands on anything but a packet that was sent, and the relay path  *)
(* implements DatagramChannel, as long as no fragment id is used twice.    *)
(*                                                                         *)
(* Integrity is about the step that completes a packet.  The strengthening *)
(* says what every slot in use holds before that: each part it has counted *)
(* comes from a packet with the slot's src and id (SlotOK), and total_len  *)
(* is the length of that packet once its last part is there (LenOK).  What *)
(* earlier packets left in the buffer is outside the parts counted.        *)
(***************************************************************************)
EXTENDS LanClientFrag, FiniteSetTheorems, WellFoundedInduction, TLAPS

\* A message carries a packet that was sent, and its header describes it.
MessageOK(m, S) ==
  /\ m.data \in S
  /\ m.type = "frag" => /\ m.src = m.data.src
                        /\ m.id = m.data.id
                        /\ m.total_part = m.data.total_part
                        /\ m.part < m.total_part

\* The parts a slot has counted belong to packets with its src and id.
SlotOK(f, S) ==
  f.used =>
    \A p \in f.part : /\ f.buffer[p] \in S
                      /\ f.buffer[p].src = f.src
                      /\ f.buffer[p].id = f.id
                      /\ f.buffer[p].total_part > 1

\* total_len is the length of the packet whose last part is there.
LenOK(f) ==
  f.used =>
    \A p \in f.part :
      p = f.buffer[p].total_part - 1 => f.total_len = f.buffer[p]

\* A slot in use misses a part of every packet of S it may belong to.
Misses(f, S) ==
  \A d \in S :
    (f.used /\ d.total_part > 1 /\ f.src = d.src /\ f.id = d.id)
      => f.part # 0 .. d.total_part - 1

\* The positions of the packets sent are in use.
SentOK ==
  /\ IsFiniteSet(sent)
  /\ \A d \in sent : d.seq <= Cardinality(sent)

NetOK == \A m \in net : MessageOK(m, sent)

SlotsOK == \A i \in Slots : SlotOK(frags[i], sent)

Started == \A i \in Slots : frags[i].used => frags[i].part # {}

LensOK == IdsUnique => \A i \in Slots : LenOK(frags[i])

\* Until the counter exceeds 16 bits, local_id says when a slot was given out.
LocalOK ==
  local_id <= LocalMod =>
    \A i \in Slots : frags[i].used => frags[i].local_id < local_id

FragInv ==
  /\ TypeOK
  /\ SentOK
  /\ NetOK
  /\ SlotsOK
  /\ Started
  /\ OneSlotPerPacket
  /\ LensOK
  /\ NothingLeftComplete
  /\ LocalOK
  /\ Integrity

----------------------------------------------------------------------------
\* A nonempty set of naturals has a least element.
LEMMA LeastExists ==
  ASSUME NEW S \in SUBSET Nat, S # {}
  PROVE  \E m \in S : \A j \in S : m <= j
<1>1. PICK m \in S : \A j \in S : ~(<<j, m>> \in OpToRel(<, Nat))
  BY NatLessThanWellFounded, WFMin, Zenon
<1>2. ASSUME NEW j \in S PROVE m <= j
  <2>1. ~(j < m)
    BY <1>1 DEF OpToRel
  <2>. QED  BY <2>1
<1>. QED  BY <1>2

\* A nonempty set of slots has a first one: where the loops stop.
LEMMA FirstSlotExists ==
  ASSUME NEW S \in SUBSET Slots, S # {}
  PROVE  FirstSlot(S) \in S
<1>1. S \in SUBSET Nat
  BY FragAssumption DEF Slots
<1>. QED  BY <1>1, LeastExists DEF FirstSlot

\* The eviction loop finds a slot of the greatest age.
LEMMA OldestExists ==
  ASSUME TypeOK, TooOld # {}
  PROVE  /\ Oldest \in TooOld
         /\ \A j \in TooOld : Dif(j) <= Dif(Oldest)
<1> DEFINE B == LocalMod + MaxLocal
           Youth == {B - Dif(i) : i \in TooOld}
<1>1. \A i \in Slots : Dif(i) \in Nat /\ Dif(i) <= B
  <2>1. SUFFICES ASSUME NEW i \in Slots PROVE Dif(i) \in Nat /\ Dif(i) <= B
    OBVIOUS
  <2>2. frags[i].local_id \in 0 .. LocalMod - 1 /\ local_id \in 0 .. MaxLocal
    BY DEF TypeOK, Fragment
  <2>. QED  BY <2>2, FragAssumption DEF Dif
<1>2. Youth \in SUBSET Nat /\ Youth # {}
  BY <1>1, FragAssumption DEF TooOld
<1>3. PICK y \in Youth : \A z \in Youth : y <= z
  <2> HIDE DEF Youth
  <2>. QED  BY <1>2, LeastExists
<1>4. PICK i \in TooOld : y = B - Dif(i)
  BY DEF Youth
<1>5. \A j \in TooOld : Dif(j) <= Dif(i)
  <2>1. SUFFICES ASSUME NEW j \in TooOld PROVE Dif(j) <= Dif(i)
    OBVIOUS
  <2>2. y <= B - Dif(j)
    BY <1>3
  <2>. QED  BY <1>1, <1>4, <2>2, FragAssumption DEF TooOld
<1> DEFINE M == {k \in TooOld : \A j \in TooOld : Dif(j) <= Dif(k)}
<1>6. M \in SUBSET Slots /\ M # {}
  BY <1>5 DEF TooOld
<1>7. FirstSlot(M) \in M
  BY <1>6, FirstSlotExists
<1>. QED  BY <1>7 DEF Oldest

\* The fields of a fragment message.
LEMMA MessageFields ==
  ASSUME NEW m \in Message, m.type = "frag"
  PROVE  /\ m.src \in Src
         /\ m.id \in 0 .. IdMod - 1
         /\ m.part \in Parts
         /\ m.total_part \in 2 .. MaxParts
         /\ m.data \in Datagram
BY DEF Message

\* What copying a fragment into a slot changes.
LEMMA StoreFields ==
  ASSUME NEW f \in Fragment, NEW m \in Message, m.type = "frag"
  PROVE  /\ Store(f, m) \in Fragment
         /\ Store(f, m).used = f.used
         /\ Store(f, m).src = f.src
         /\ Store(f, m).id = f.id
         /\ Store(f, m).local_id = f.local_id
         /\ Store(f, m).part = f.part \cup {m.part}
         /\ Store(f, m).buffer = [f.buffer EXCEPT ![m.part] = m.data]
         /\ Store(f, m).total_len =
              IF m.part = m.total_part - 1 THEN m.data ELSE f.total_len
<1>1. m.part \in Parts /\ m.data \in Datagram
  BY MessageFields
<1>2. [f.buffer EXCEPT ![m.part] = m.data] \in [Parts -> Datagram \cup {Nil}]
  BY <1>1 DEF Fragment
<1>. QED  BY <1>1, <1>2 DEF Store, Fragment

\* A part that is copied keeps the slot consistent.
LEMMA StoreOK ==
  ASSUME TypeOK, NEW m \in net, MessageOK(m, sent), m.type = "frag",
         NEW f \in Fragment, f.used, f.src = m.src, f.id = m.id, SlotOK(f, sent)
  PROVE  /\ SlotOK(Store(f, m), sent)
         /\ (IdsUnique /\ LenOK(f)) => LenOK(Store(f, m))
         /\ (IdsUnique /\ ~Complete(Store(f, m), m)) => Misses(Store(f, m), sent)
<1> DEFINE g == Store(f, m)
<1>1. m \in Message
  BY DEF TypeOK
<1>2. /\ g.used = f.used
      /\ g.src = f.src
      /\ g.id = f.id
      /\ g.part = f.part \cup {m.part}
      /\ g.buffer = [f.buffer EXCEPT ![m.part] = m.data]
      /\ g.total_len = IF m.part = m.total_part - 1 THEN m.data ELSE f.total_len
  BY <1>1, StoreFields
<1>3. m.part \in Parts /\ f.part \subseteq Parts /\ f.buffer \in [Parts -> Datagram \cup {Nil}]
  BY <1>1, MessageFields DEF Fragment
<1>4. \A p \in g.part : g.buffer[p] = IF p = m.part THEN m.data ELSE f.buffer[p]
  BY <1>2, <1>3
<1>5. m.data \in sent /\ m.data.src = f.src /\ m.data.id = f.id
      /\ m.data.total_part = m.total_part /\ m.data.total_part > 1
  BY <1>1, MessageFields, FragAssumption DEF MessageOK
<1> HIDE DEF g
<1>6. SlotOK(g, sent)
  BY <1>2, <1>4, <1>5 DEF SlotOK
<1>7. ASSUME IdsUnique, NEW p \in g.part
      PROVE  g.buffer[p] = m.data
  BY <1>2, <1>5, <1>6, <1>7 DEF SlotOK, IdsUnique
<1>8. ASSUME IdsUnique, LenOK(f) PROVE LenOK(g)
  <2>1. SUFFICES ASSUME NEW p \in g.part, p = g.buffer[p].total_part - 1
                 PROVE  g.total_len = g.buffer[p]
    BY DEF LenOK
  <2>2. g.buffer[p] = m.data
    BY <1>7, <1>8
  <2>3. CASE p = m.part
    BY <1>2, <1>5, <2>1, <2>2, <2>3
  <2>4. CASE p # m.part
    <3>1. p \in f.part /\ f.buffer[p] = m.data
      BY <1>2, <1>4, <2>2, <2>4
    <3>2. f.total_len = m.data
      BY <1>8, <2>1, <2>2, <3>1 DEF LenOK
    <3>. QED  BY <1>2, <2>2, <3>2
  <2>. QED  BY <2>3, <2>4
<1>9. ASSUME IdsUnique, ~Complete(g, m) PROVE Misses(g, sent)
  BY <1>2, <1>5, <1>9 DEF Misses, Complete, IdsUnique
<1>. QED  BY <1>6, <1>8, <1>9 DEF g

\* A finished slot yields the packet its parts were cut from.
LEMMA FinishedWhole ==
  ASSUME TypeOK, IdsUnique, NEW m \in net, MessageOK(m, sent), m.type = "frag",
         NEW f \in Fragment, f.used, f.src = m.src, f.id = m.id,
         SlotOK(f, sent), LenOK(f), Complete(f, m)
  PROVE  /\ m.data \in sent
         /\ Finished(f) = [len |-> m.data, data |-> Whole(m.data)]
<1>1. m.total_part \in 2 .. MaxParts /\ m.data \in Datagram
  BY MessageFields DEF TypeOK
<1>2. m.data \in sent /\ m.data.src = f.src /\ m.data.id = f.id
      /\ m.data.total_part = m.total_part /\ m.data.total_part > 1
  BY <1>1, FragAssumption DEF MessageOK
<1>3. f.part = 0 .. m.total_part - 1
  BY DEF Complete
<1>4. \A p \in f.part : f.buffer[p] = m.data
  BY <1>2 DEF SlotOK, IdsUnique
<1>5. f.total_len = m.data
  <2>1. m.total_part - 1 \in f.part
    BY <1>1, <1>3, FragAssumption
  <2>. QED  BY <1>2, <1>4, <2>1 DEF LenOK
<1>6. f.total_len # Nil
  BY <1>1, <1>5, NilAssumption
<1>7. \A p \in Parts : p < m.data.total_part => f.buffer[p] = m.data
  BY <1>1, <1>2, <1>3, <1>4, FragAssumption DEF Parts
<1>. QED  BY <1>2, <1>5, <1>6, <1>7 DEF Finished, Whole

----------------------------------------------------------------------------
\* The end of lan_client_process_frag preserves the invariant, whichever way
\* the slot was found.
LEMMA PutIntoInv ==
  ASSUME FragInv, NEW m \in net, m.type = "frag",
         NEW i \in Slots, NEW base \in Fragment,
         base.used, base.src = m.src, base.id = m.id,
         SlotOK(base, sent), IdsUnique => LenOK(base),
         \A j \in Matching(m) : j = i,
         PutInto(i, base, m), UNCHANGED <<frag_id, net, sent>>,
         local_id' \in 0 .. MaxLocal, local_id <= local_id',
         local_id' <= LocalMod => base.local_id < local_id'
  PROVE  FragInv'
<1> DEFINE f == Store(base, m)
           g == IF Complete(f, m) THEN [f EXCEPT !.used = FALSE] ELSE f
<1>1. /\ TypeOK /\ SentOK /\ NetOK /\ SlotsOK /\ Started /\ OneSlotPerPacket
      /\ LensOK /\ NothingLeftComplete /\ LocalOK
  BY DEF FragInv
<1>2. m \in Message /\ MessageOK(m, sent)
  BY <1>1 DEF TypeOK, NetOK
<1>3. /\ f \in Fragment
      /\ f.used /\ f.src = m.src /\ f.id = m.id
      /\ f.local_id = base.local_id
      /\ m.part \in f.part
  BY <1>2, StoreFields
<1>4. /\ SlotOK(f, sent)
      /\ IdsUnique => LenOK(f)
      /\ (IdsUnique /\ ~Complete(f, m)) => Misses(f, sent)
  BY <1>1, <1>2, StoreOK
<1> HIDE DEF f
<1>5. /\ g \in Fragment
      /\ g.src = m.src /\ g.id = m.id
      /\ g.local_id = base.local_id
      /\ g.part # {}
      /\ g.used => g = f /\ ~Complete(f, m)
  BY <1>3 DEF Fragment
<1>6. frags' = [frags EXCEPT ![i] = g]
  BY DEF PutInto, f
<1>7. out' = IF Complete(f, m) THEN Finished(f) ELSE Nil
  BY DEF PutInto, f
<1> HIDE DEF g
<1>8. \A j \in Slots : frags'[j] = IF j = i THEN g ELSE frags[j]
  BY <1>1, <1>6 DEF TypeOK
<1>9. frag_id' = frag_id /\ net' = net /\ sent' = sent /\ (IdsUnique' <=> IdsUnique)
  BY DEF IdsUnique
<1>10. Finished(f) \in Packet \cup {Nil}
  <2>1. CASE f.total_len = Nil
    BY <2>1 DEF Finished
  <2>2. CASE f.total_len # Nil
    <3>1. f.total_len \in Datagram /\ f.buffer \in [Parts -> Datagram \cup {Nil}]
      BY <1>3, <2>2 DEF Fragment
    <3>2. [p \in Parts |-> IF p < f.total_len.total_part THEN f.buffer[p] ELSE Nil]
            \in [Parts -> Datagram \cup {Nil}]
      BY <3>1
    <3>. QED  BY <2>2, <3>1, <3>2 DEF Finished, Packet
  <2>. QED  BY <2>1, <2>2
<1>11. TypeOK'
  <2>1. frags' \in [Slots -> Fragment]
    BY <1>1, <1>5, <1>6 DEF TypeOK
  <2>2. out' \in Packet \cup {Nil}
    BY <1>7, <1>10
  <2>. QED  BY <1>1, <1>9, <2>1, <2>2 DEF TypeOK
<1>12. SentOK' /\ NetOK'
  BY <1>1, <1>9 DEF SentOK, NetOK, MessageOK
<1>13. SlotsOK'
  <2>1. SlotOK(g, sent)
    BY <1>4, <1>5 DEF SlotOK
  <2>. QED  BY <1>1, <1>8, <1>9, <2>1 DEF SlotsOK, SlotOK
<1>14. Started'
  BY <1>1, <1>5, <1>8 DEF Started
<1>15. OneSlotPerPacket'
  BY <1>1, <1>5, <1>8 DEF OneSlotPerPacket, Matching
<1>16. LensOK'
  <2>1. IdsUnique => LenOK(g)
    BY <1>4, <1>5 DEF LenOK
  <2>. QED  BY <1>1, <1>8, <1>9, <2>1 DEF LensOK, LenOK
<1>17. NothingLeftComplete'
  <2>1. IdsUnique => Misses(g, sent)
    BY <1>4, <1>5 DEF Misses
  <2>. QED  BY <1>1, <1>8, <1>9, <2>1 DEF NothingLeftComplete, Misses
<1>18. LocalOK'
  <2>1. SUFFICES ASSUME local_id' <= LocalMod, NEW j \in Slots, frags'[j].used
                 PROVE  frags'[j].local_id < local_id'
    BY DEF LocalOK
  <2>2. CASE j = i
    BY <1>5, <1>8, <2>1, <2>2
  <2>3. CASE j # i
    <3>1. local_id \in Int /\ local_id' \in Int /\ LocalMod \in Int
          /\ frags[j].local_id \in Int
      BY <1>1, FragAssumption DEF TypeOK, Fragment
    <3>2. frags'[j] = frags[j]
      BY <1>8, <2>3
    <3>3. frags[j].local_id < local_id
      BY <1>1, <2>1, <3>1, <3>2 DEF LocalOK
    <3>. QED  BY <3>1, <3>2, <3>3
  <2>. QED  BY <2>2, <2>3
<1>19. Integrity'
  <2>1. SUFFICES ASSUME IdsUnique, out' # Nil
                 PROVE  out'.len \in sent /\ out'.data = Whole(out'.len)
    BY <1>9 DEF Integrity, Whole
  <2>2. Complete(f, m) /\ out' = Finished(f)
    BY <1>7, <2>1
  <2>3. m.data \in sent /\ Finished(f) = [len |-> m.data, data |-> Whole(m.data)]
    BY <1>1, <1>2, <1>3, <1>4, <2>1, <2>2, FinishedWhole
  <2>. QED  BY <2>2, <2>3
<1>. QED
  BY <1>11, <1>12, <1>13, <1>14, <1>15, <1>16, <1>17, <1>18, <1>19 DEF FragInv

\* A slot that is given to the packet of a message.
LEMMA AssignFields ==
  ASSUME TypeOK, NEW i \in Slots, NEW m \in Message, m.type = "frag"
  PROVE  /\ Assign(i, m) \in Fragment
         /\ Assign(i, m).used
         /\ Assign(i, m).src = m.src
         /\ Assign(i, m).id = m.id
         /\ Assign(i, m).part = {}
         /\ Assign(i, m).local_id = local_id % LocalMod
<1>1. frags[i] \in Fragment /\ local_id % LocalMod \in 0 .. LocalMod - 1
  BY FragAssumption DEF TypeOK
<1>. QED  BY <1>1, MessageFields DEF Assign, Fragment

\* A fragment that gets a new slot, free or evicted.
LEMMA NewSlotInv ==
  ASSUME FragInv, NEW m \in net, m.type = "frag", Matching(m) = {},
         NEW i \in Slots, PutInto(i, Assign(i, m), m), local_id < MaxLocal,
         local_id' = local_id + 1, UNCHANGED <<frag_id, net, sent>>
  PROVE  FragInv'
<1> DEFINE base == Assign(i, m)
<1>1. TypeOK /\ m \in Message
  BY DEF FragInv, TypeOK
<1>2. /\ base \in Fragment
      /\ base.used /\ base.src = m.src /\ base.id = m.id
      /\ base.part = {}
      /\ base.local_id = local_id % LocalMod
  BY <1>1, AssignFields
<1>3. SlotOK(base, sent) /\ LenOK(base)
  BY <1>2 DEF SlotOK, LenOK
<1>4. /\ local_id' \in 0 .. MaxLocal
      /\ local_id <= local_id'
      /\ local_id' <= LocalMod => base.local_id < local_id'
  BY <1>1, <1>2, FragAssumption DEF TypeOK
<1> HIDE DEF base
<1>5. PutInto(i, base, m)
  BY DEF base
<1>. QED  BY <1>2, <1>3, <1>4, <1>5, PutIntoInv

LEMMA ProcessFragInv ==
  ASSUME FragInv, NEW m \in net, lan_client_process_frag(m)
  PROVE  FragInv'
<1>1. /\ m.type = "frag" /\ local_id < MaxLocal
      /\ UNCHANGED <<frag_id, net, sent>>
      /\ TypeOK
  BY DEF FragInv, lan_client_process_frag
<1>2. CASE frag_matching(m)
  <2> DEFINE i == FirstSlot(Matching(m))
  <2>1. i \in Matching(m)
    BY <1>2, FirstSlotExists DEF frag_matching, Matching
  <2>2. i \in Slots /\ frags[i].used /\ frags[i].src = m.src /\ frags[i].id = m.id
    BY <2>1 DEF Matching
  <2>3. \A j \in Matching(m) : j = i
    BY <2>2 DEF Matching, FragInv, OneSlotPerPacket
  <2>4. PutInto(i, frags[i], m) /\ local_id' = local_id
    BY <1>2 DEF frag_matching
  <2>5. frags[i] \in Fragment /\ SlotOK(frags[i], sent) /\ (IdsUnique => LenOK(frags[i]))
    BY <2>2 DEF FragInv, TypeOK, SlotsOK, LensOK
  <2>6. /\ local_id' \in 0 .. MaxLocal
        /\ local_id <= local_id'
        /\ local_id' <= LocalMod => frags[i].local_id < local_id'
    BY <1>1, <2>2, <2>4, FragAssumption DEF FragInv, TypeOK, LocalOK
  <2> HIDE DEF i
  <2>. QED  BY <1>1, <2>2, <2>3, <2>4, <2>5, <2>6, PutIntoInv
<1>3. CASE frag_unused(m)
  <2>1. FirstSlot(Unused) \in Slots
    BY <1>3, FirstSlotExists DEF frag_unused, Unused
  <2>. QED  BY <1>1, <1>3, <2>1, NewSlotInv DEF frag_unused
<1>4. CASE frag_evict(m)
  <2>1. Oldest \in Slots
    BY <1>1, <1>4, OldestExists DEF frag_evict, TooOld
  <2>. QED  BY <1>1, <1>4, <2>1, NewSlotInv DEF frag_evict
<1>5. CASE frag_ignore(m)
  <2>1. frags' = frags /\ local_id' = local_id /\ out' = Nil
    BY <1>5 DEF frag_ignore
  <2>. QED
    BY <1>1, <2>1
       DEF FragInv, TypeOK, SentOK, NetOK, MessageOK, SlotsOK, SlotOK, Started,
           OneSlotPerPacket, LensOK, LenOK, NothingLeftComplete, LocalOK,
           IdsUnique, Integrity
<1>. QED  BY <1>2, <1>3, <1>4, <1>5 DEF lan_client_process_frag

\* A packet that is sent is a new one, and no slot holds a part of it yet.
LEMMA SendInv ==
  ASSUME FragInv, NEW d \in Datagram, d.seq = Cardinality(sent) + 1,
         sent' = sent \cup {d}, out' = Nil, UNCHANGED <<frags, local_id>>,
         frag_id' \in [Src -> Nat], net' \subseteq Message, net \subseteq net',
         \A m \in net' \ net : MessageOK(m, {d})
  PROVE  FragInv' /\ d \notin sent
<1>1. TypeOK /\ SentOK
  BY DEF FragInv
<1>2. d \notin sent
  <2>1. Cardinality(sent) \in Nat
    BY <1>1, FS_CardinalityType DEF SentOK
  <2>. QED  BY <1>1, <2>1 DEF SentOK
<1>3. TypeOK'
  BY <1>1 DEF TypeOK
<1>4. SentOK'
  <2>1. IsFiniteSet(sent') /\ Cardinality(sent') = Cardinality(sent) + 1
        /\ Cardinality(sent) \in Nat
    BY <1>1, <1>2, FS_AddElement, FS_CardinalityType DEF SentOK
  <2>2. \A e \in sent : e.seq \in Nat
    BY <1>1 DEF TypeOK, Datagram
  <2>. QED  BY <1>1, <2>1, <2>2 DEF SentOK
<1>5. NetOK'
  BY DEF FragInv, NetOK, MessageOK
<1>6. SlotsOK' /\ Started' /\ OneSlotPerPacket' /\ LocalOK' /\ Integrity'
  BY DEF FragInv, SlotsOK, SlotOK, Started, OneSlotPerPacket, LocalOK, Integrity
<1>7. IdsUnique' => IdsUnique
  BY DEF IdsUnique
<1>8. LensOK'
  BY <1>7 DEF FragInv, LensOK, LenOK
<1>9. NothingLeftComplete'
  <2>1. SUFFICES ASSUME IdsUnique', NEW i \in Slots, NEW e \in sent',
                        frags[i].used, e.total_part > 1,
                        frags[i].src = e.src, frags[i].id = e.id
                 PROVE  frags[i].part # 0 .. e.total_part - 1
    BY DEF NothingLeftComplete
  <2>2. CASE e \in sent
    BY <1>7, <2>1, <2>2 DEF FragInv, NothingLeftComplete
  <2>3. CASE e = d
    <3>1. PICK p \in frags[i].part : TRUE
      BY <2>1 DEF FragInv, Started
    <3>2. /\ frags[i].buffer[p] \in sent
          /\ frags[i].buffer[p].src = d.src
          /\ frags[i].buffer[p].id = d.id
          /\ frags[i].buffer[p].total_part > 1
      BY <2>1, <2>3, <3>1 DEF FragInv, SlotsOK, SlotOK
    <3>3. frags[i].buffer[p] = d
      BY <2>1, <2>3, <3>2 DEF IdsUnique
    <3>. QED  BY <1>2, <3>2, <3>3
  <2>. QED  BY <2>1, <2>2, <2>3
<1>. QED
  BY <1>2, <1>3, <1>4, <1>5, <1>6, <1>8, <1>9 DEF FragInv

LEMMA SenderInv ==
  ASSUME FragInv, Sender
  PROVE  FragInv' /\ (sent' = sent \/ \E d \in Datagram : d \notin sent /\ sent' = sent \cup {d})
<1>1. TypeOK /\ SentOK /\ NetOK
  BY DEF FragInv
<1>2. Cardinality(sent) \in Nat
  BY <1>1, FS_CardinalityType DEF SentOK
<1>3. PICK s \in Src :
        \/ \E n \in 2 .. MaxParts : \E k \in 0 .. n : lan_client_send_frag(s, n, k)
        \/ lan_client_send_whole(s)
        \/ lan_client_init_sender(s)
  BY DEF Sender
<1>4. ASSUME NEW n \in 2 .. MaxParts, NEW k \in 0 .. n, lan_client_send_frag(s, n, k)
      PROVE  FragInv' /\ \E d \in Datagram : d \notin sent /\ sent' = sent \cup {d}
  <2> DEFINE d == [src |-> s, id |-> frag_id[s] % IdMod, total_part |-> n,
                   seq |-> Cardinality(sent) + 1]
  <2>1. frag_id[s] \in Nat /\ frag_id[s] % IdMod \in 0 .. IdMod - 1
    BY <1>1, FragAssumption DEF TypeOK
  <2>2. Cardinality(sent) + 1 \in 1 .. MaxSent
    BY <1>2, <1>4, FragAssumption DEF lan_client_send_frag
  <2>3. d \in Datagram
    BY <2>1, <2>2, FragAssumption DEF Datagram
  <2>4. /\ frag_id' \in [Src -> Nat]
        /\ net' = net \cup FragmentsOf(d, k)
        /\ sent' = sent \cup {d} /\ out' = Nil
        /\ UNCHANGED <<frags, local_id>>
    BY <1>1, <1>4, <2>1 DEF lan_client_send_frag, TypeOK
  <2>5. \A m \in FragmentsOf(d, k) : m \in Message /\ MessageOK(m, {d})
    <3>1. SUFFICES ASSUME NEW p \in 0 .. k - 1
          PROVE LET m == [type |-> "frag", src |-> d.src, id |-> d.id, part |-> p,
                          total_part |-> d.total_part, data |-> d]
                IN  m \in Message /\ MessageOK(m, {d})
      BY DEF FragmentsOf
    <3>2. p \in Parts /\ p < n
      BY FragAssumption DEF Parts
    <3>. QED  BY <2>1, <2>3, <3>2 DEF Message, MessageOK
  <2>6. net' \subseteq Message
    BY <1>1, <2>4, <2>5 DEF TypeOK
  <2>7. d.seq = Cardinality(sent) + 1
    OBVIOUS
  <2> HIDE DEF d
  <2>8. FragInv' /\ d \notin sent
    BY <2>3, <2>4, <2>5, <2>6, <2>7, SendInv
  <2>. QED  BY <2>3, <2>4, <2>8
<1>5. ASSUME lan_client_send_whole(s)
      PROVE  FragInv' /\ \E d \in Datagram : d \notin sent /\ sent' = sent \cup {d}
  <2> DEFINE d == [src |-> s, id |-> 0, total_part |-> 1,
                   seq |-> Cardinality(sent) + 1]
             m == [type |-> "ipv4", data |-> d]
  <2>1. Cardinality(sent) + 1 \in 1 .. MaxSent
    BY <1>2, <1>5, FragAssumption DEF lan_client_send_whole
  <2>2. d \in Datagram
    BY <2>1, FragAssumption DEF Datagram
  <2>3. /\ frag_id' \in [Src -> Nat]
        /\ net' = net \cup {m}
        /\ sent' = sent \cup {d} /\ out' = Nil
        /\ UNCHANGED <<frags, local_id>>
    BY <1>1, <1>5 DEF lan_client_send_whole, TypeOK
  <2>4. m \in Message /\ MessageOK(m, {d})
    BY <2>2 DEF Message, MessageOK
  <2>5. net' \subseteq Message
    BY <1>1, <2>3, <2>4 DEF TypeOK
  <2>6. d.seq = Cardinality(sent) + 1
    OBVIOUS
  <2> HIDE DEF d, m
  <2>7. FragInv' /\ d \notin sent
    BY <2>2, <2>3, <2>4, <2>5, <2>6, SendInv
  <2>. QED  BY <2>2, <2>3, <2>7
<1>6. ASSUME lan_client_init_sender(s)
      PROVE  FragInv' /\ sent' = sent
  <2>1. frag_id' \in [Src -> Nat]
    BY <1>1, <1>6 DEF lan_client_init_sender, TypeOK
  <2>2. out' = Nil /\ net' = net /\ frags' = frags /\ local_id' = local_id /\ sent' = sent
    BY <1>6 DEF lan_client_init_sender
  <2>. QED
    BY <2>1, <2>2
       DEF FragInv, TypeOK, SentOK, NetOK, MessageOK, SlotsOK, SlotOK, Started,
           OneSlotPerPacket, LensOK, LenOK, NothingLeftComplete, LocalOK,
           IdsUnique, Integrity
<1>. QED  BY <1>3, <1>4, <1>5, <1>6

LEMMA ReceiverInv ==
  ASSUME FragInv, Receiver
  PROVE  FragInv' /\ sent' = sent
<1>1. ASSUME NEW m \in net, on_recv_ipv4(m) PROVE FragInv' /\ sent' = sent
  <2>1. m.data \in sent /\ m.data \in Datagram
    BY DEF FragInv, NetOK, MessageOK, TypeOK
  <2>2. Whole(m.data) \in [Parts -> Datagram \cup {Nil}]
    BY <2>1 DEF Whole
  <2>3. /\ frag_id' = frag_id /\ net' = net /\ frags' = frags
        /\ local_id' = local_id /\ sent' = sent
        /\ out' = [len |-> m.data, data |-> Whole(m.data)]
    BY <1>1 DEF on_recv_ipv4
  <2>4. TypeOK' /\ Integrity'
    BY <2>1, <2>2, <2>3 DEF FragInv, TypeOK, Packet, Integrity, Whole
  <2>. QED
    BY <2>3, <2>4
       DEF FragInv, SentOK, NetOK, MessageOK, SlotsOK, SlotOK, Started,
           OneSlotPerPacket, LensOK, LenOK, NothingLeftComplete, LocalOK, IdsUnique
<1>2. ASSUME NEW m \in net, lan_client_process_frag(m) PROVE FragInv' /\ sent' = sent
  BY <1>2, ProcessFragInv DEF lan_client_process_frag
<1>3. ASSUME lan_client_init_receiver PROVE FragInv' /\ sent' = sent
  <2>1. /\ frag_id' = frag_id /\ net' = net /\ local_id' = 0 /\ sent' = sent
        /\ out' = Nil /\ frags' = [i \in Slots |-> EmptyFragment]
    BY <1>3 DEF lan_client_init_receiver
  <2>2. EmptyFragment \in Fragment /\ ~EmptyFragment.used
    BY FragAssumption DEF EmptyFragment, Fragment
  <2>3. TypeOK'
    BY <2>1, <2>2, FragAssumption DEF FragInv, TypeOK
  <2>. QED
    BY <2>1, <2>2, <2>3
       DEF FragInv, SentOK, NetOK, MessageOK, SlotsOK, SlotOK, Started,
           OneSlotPerPacket, LensOK, LenOK, NothingLeftComplete, LocalOK,
           IdsUnique, Integrity
<1>. QED  BY <1>1, <1>2, <1>3 DEF Receiver

LEMMA InitInv == Init => FragInv
<1>. SUFFICES ASSUME Init PROVE FragInv
  OBVIOUS
<1>1. EmptyFragment \in Fragment /\ ~EmptyFragment.used
  BY FragAssumption DEF EmptyFragment, Fragment
<1>2. TypeOK
  BY <1>1, FragAssumption DEF Init, TypeOK
<1>3. SentOK
  BY FS_EmptySet DEF Init, SentOK
<1>. QED
  BY <1>1, <1>2, <1>3
     DEF Init, FragInv, NetOK, SlotsOK, SlotOK, Started, OneSlotPerPacket,
         LensOK, LenOK, NothingLeftComplete, LocalOK, Integrity

LEMMA StepInv == FragInv /\ [Next]_vars => FragInv'
<1>. SUFFICES ASSUME FragInv, [Next]_vars PROVE FragInv'
  OBVIOUS
<1>1. CASE Sender
  BY <1>1, SenderInv
<1>2. CASE Receiver
  BY <1>2, ReceiverInv
<1>3. CASE UNCHANGED vars
  BY <1>3
     DEF vars, FragInv, TypeOK, SentOK, NetOK, MessageOK, SlotsOK, SlotOK, Started,
         OneSlotPerPacket, LensOK, LenOK, NothingLeftComplete, LocalOK,
         IdsUnique, Integrity
<1>. QED  BY <1>1, <1>2, <1>3 DEF Next

----------------------------------------------------------------------------
\* The inductive invariant holds in every reachable state.
THEOREM FragInvariant == Spec => []FragInv
BY InitInv, StepInv, PTL DEF Spec

\* The sender, the relay and the reassembly of lan-client.c are type correct.
THEOREM FragTypeCorrect == Spec => []TypeOK
<1>1. FragInv => TypeOK
  BY DEF FragInv
<1>. QED  BY <1>1, FragInvariant, PTL

\* lan_client_process gets nothing but packets that were sent, while no
\* fragment id is used twice.
THEOREM ReassemblyIntegrity == Spec => []Integrity
<1>1. FragInv => Integrity
  BY DEF FragInv
<1>. QED  BY <1>1, FragInvariant, PTL

\* The first loop of lan_client_process_frag finds the only slot of a packet.
THEOREM OneSlot == Spec => []OneSlotPerPacket
<1>1. FragInv => OneSlotPerPacket
  BY DEF FragInv
<1>. QED  BY <1>1, FragInvariant, PTL

\* No complete packet stays in the buffer, while no fragment id is used twice.
THEOREM CompleteIsHandedOn == Spec => []NothingLeftComplete
<1>1. FragInv => NothingLeftComplete
  BY DEF FragInv
<1>. QED  BY <1>1, FragInvariant, PTL

\* A packet has one slot at most, and a slot in use misses a part.
THEOREM SlotsAreSound == Spec => []SlotsSound
BY OneSlot, CompleteIsHandedOn, PTL DEF SlotsSound

----------------------------------------------------------------------------
\* Only frag_evict takes a slot from an unfinished packet.
LEMMA OnlyEvictEvicts ==
  ASSUME FragInv, [Next]_vars, NEW i \in Slots, Evicted(i)
  PROVE  Unused = {} /\ TooOld # {} /\ i = Oldest
<1>0. TypeOK /\ frags \in [Slots -> Fragment]
  BY DEF FragInv, TypeOK
<1>1. frags' # frags
  BY DEF Evicted
<1>2. ASSUME NEW j \in Slots, NEW b, NEW m, PutInto(j, b, m), i # j
      PROVE  FALSE
  <2>1. frags'[i] = frags[i]
    BY <1>0, <1>2 DEF PutInto
  <2>. QED  BY <2>1 DEF Evicted
<1>3. CASE Sender
  BY <1>1, <1>3 DEF Sender, lan_client_send_frag, lan_client_send_whole, lan_client_init_sender
<1>4. CASE lan_client_init_receiver
  BY <1>4 DEF lan_client_init_receiver, EmptyFragment, Evicted
<1>5. CASE UNCHANGED vars
  BY <1>1, <1>5 DEF vars
<1>6. ASSUME NEW m \in net, on_recv_ipv4(m) PROVE FALSE
  BY <1>1, <1>6 DEF on_recv_ipv4
<1>7. ASSUME NEW m \in net, lan_client_process_frag(m)
      PROVE  Unused = {} /\ TooOld # {} /\ i = Oldest
  <2>1. m \in Message /\ m.type = "frag"
    BY <1>0, <1>7 DEF TypeOK, lan_client_process_frag
  <2>2. CASE frag_matching(m)
    <3> DEFINE j == FirstSlot(Matching(m))
    <3>1. j \in Slots
      BY <2>2, FirstSlotExists DEF frag_matching, Matching
    <3>2. PutInto(j, frags[j], m)
      BY <2>2 DEF frag_matching
    <3>3. i = j
      BY <1>2, <3>1, <3>2
    <3> DEFINE f == Store(frags[i], m)
    <3>4. f \in Fragment /\ f.src = frags[i].src /\ f.id = frags[i].id
      BY <1>0, <2>1, StoreFields
    <3>5. PutInto(i, frags[i], m)
      BY <3>2, <3>3
    <3>6. frags'[i] = f \/ frags'[i] = [f EXCEPT !.used = FALSE]
      BY <1>0, <3>5 DEF PutInto
    <3> HIDE DEF f
    <3>7. frags'[i].src = frags[i].src /\ frags'[i].id = frags[i].id
      BY <3>4, <3>6 DEF Fragment
    <3>. QED  BY <3>7 DEF Evicted
  <2>3. CASE frag_unused(m)
    <3>1. FirstSlot(Unused) \in Unused
      BY <2>3, FirstSlotExists DEF frag_unused, Unused
    <3>2. i = FirstSlot(Unused)
      BY <1>2, <2>3, <3>1 DEF frag_unused, Unused
    <3>. QED  BY <3>1, <3>2 DEF Unused, Evicted
  <2>4. CASE frag_evict(m)
    <3>1. Oldest \in Slots
      BY <1>0, <2>4, OldestExists DEF frag_evict, TooOld
    <3>. QED  BY <1>2, <2>4, <3>1 DEF frag_evict
  <2>5. CASE frag_ignore(m)
    BY <1>1, <2>5 DEF frag_ignore
  <2>. QED  BY <1>7, <2>2, <2>3, <2>4, <2>5 DEF lan_client_process_frag
<1>. QED  BY <1>3, <1>4, <1>5, <1>6, <1>7 DEF Next, Receiver

\* lan_client_process_frag gives up the packet that was begun first, and not
\* before LC_FRAG_COUNT slots were given out after it.
THEOREM EvictionOrder == Spec => EvictsOldest
<1>1. FragInv /\ [Next]_vars =>
        [\A i \in Slots :
           (Evicted(i) /\ local_id <= LocalMod)
             => /\ \A j \in Slots : frags[i].local_id <= frags[j].local_id
                /\ local_id - frags[i].local_id > LC_FRAG_COUNT]_vars
  <2>1. SUFFICES ASSUME FragInv, [Next]_vars, NEW i \in Slots, Evicted(i),
                        local_id <= LocalMod
                 PROVE  /\ \A j \in Slots : frags[i].local_id <= frags[j].local_id
                        /\ local_id - frags[i].local_id > LC_FRAG_COUNT
    OBVIOUS
  <2>2. Unused = {} /\ TooOld # {} /\ i = Oldest /\ TypeOK
    BY <2>1, OnlyEvictEvicts DEF FragInv
  <2>3. \A j \in Slots : /\ frags[j].local_id \in Nat
                          /\ frags[j].local_id < local_id
                          /\ Dif(j) = local_id - frags[j].local_id
    <3>1. SUFFICES ASSUME NEW j \in Slots
                   PROVE  /\ frags[j].local_id \in Nat
                          /\ frags[j].local_id < local_id
                          /\ Dif(j) = local_id - frags[j].local_id
      OBVIOUS
    <3>2. frags[j].local_id \in Nat /\ local_id \in Nat
      BY <2>2, FragAssumption DEF TypeOK, Fragment
    <3>3. frags[j].local_id < local_id
      BY <2>1, <2>2 DEF Unused, FragInv, LocalOK
    <3>. QED  BY <3>2, <3>3 DEF Dif
  <2>4. i \in TooOld /\ \A j \in TooOld : Dif(j) <= Dif(i)
    BY <2>2, OldestExists
  <2>5. local_id - frags[i].local_id > LC_FRAG_COUNT
    BY <2>3, <2>4 DEF TooOld
  <2>6. ASSUME NEW j \in Slots PROVE frags[i].local_id <= frags[j].local_id
    <3>1. local_id \in Nat /\ LC_FRAG_COUNT \in Nat
      BY <2>2, FragAssumption DEF TypeOK
    <3>2. CASE j \in TooOld
      BY <2>3, <2>4, <3>1, <3>2
    <3>3. CASE j \notin TooOld
      <4>1. ~(local_id - frags[j].local_id > LC_FRAG_COUNT)
        BY <2>2, <2>3, <3>3 DEF TooOld, Unused
      <4>. QED  BY <2>3, <2>5, <3>1, <4>1
    <3>. QED  BY <3>2, <3>3
  <2>. QED  BY <2>5, <2>6
<1>. QED  BY <1>1, FragInvariant, PTL DEF Spec, EvictsOldest

\* A full buffer of young packets stays full until one of them is completed.
THEOREM FullBufferStays == Spec => WedgedStays
<1>1. FragInv /\ [Next]_vars =>
        [Wedged => Wedged' \/ \E i \in Slots : ~frags'[i].used]_vars
  <2>1. SUFFICES ASSUME FragInv, [Next]_vars, Wedged,
                        \A i \in Slots : frags'[i].used
                 PROVE  Wedged'
    OBVIOUS
  <2>2. TypeOK /\ Unused = {} /\ TooOld = {}
    BY <2>1 DEF FragInv, Wedged
  <2>3. SUFFICES /\ local_id' = local_id
                 /\ \A i \in Slots : frags'[i].local_id = frags[i].local_id
    BY <2>1, <2>2 DEF Wedged, Unused, TooOld, Dif
  <2>4. CASE Sender
    BY <2>4 DEF Sender, lan_client_send_frag, lan_client_send_whole, lan_client_init_sender
  <2>5. CASE lan_client_init_receiver
    <3>1. 0 \in Slots
      BY FragAssumption DEF Slots
    <3>2. ~frags'[0].used
      BY <2>5, <3>1 DEF lan_client_init_receiver, EmptyFragment
    <3>. QED  BY <2>1, <3>1, <3>2
  <2>6. CASE UNCHANGED vars
    BY <2>6 DEF vars
  <2>7. ASSUME NEW m \in net, on_recv_ipv4(m)
        PROVE  UNCHANGED <<frags, local_id>>
    BY <2>7 DEF on_recv_ipv4
  <2>8. ASSUME NEW m \in net, lan_client_process_frag(m)
        PROVE  /\ local_id' = local_id
               /\ \A i \in Slots : frags'[i].local_id = frags[i].local_id
    <3>1. CASE frag_ignore(m)
      BY <3>1 DEF frag_ignore
    <3>2. CASE frag_matching(m)
      <4> DEFINE j == FirstSlot(Matching(m))
                 f == Store(frags[j], m)
      <4>1. j \in Slots
        BY <3>2, FirstSlotExists DEF frag_matching, Matching
      <4>2. PutInto(j, frags[j], m) /\ local_id' = local_id
        BY <3>2 DEF frag_matching
      <4>3. m \in Message /\ m.type = "frag" /\ frags[j] \in Fragment
        BY <2>2, <2>8, <4>1 DEF TypeOK, lan_client_process_frag
      <4>4. f \in Fragment /\ f.local_id = frags[j].local_id
        BY <4>3, StoreFields
      <4>5. \/ frags' = [frags EXCEPT ![j] = f]
            \/ frags' = [frags EXCEPT ![j] = [f EXCEPT !.used = FALSE]]
        BY <4>2 DEF PutInto
      <4> HIDE DEF f, j
      <4>. QED  BY <2>2, <4>1, <4>2, <4>4, <4>5 DEF TypeOK, Fragment
    <3>3. ~frag_unused(m) /\ ~frag_evict(m)
      BY <2>2 DEF frag_unused, frag_evict
    <3>. QED  BY <2>8, <3>1, <3>2, <3>3 DEF lan_client_process_frag
  <2>. QED  BY <2>1, <2>4, <2>5, <2>6, <2>7, <2>8 DEF Next, Receiver
<1>. QED  BY <1>1, FragInvariant, PTL DEF Spec, WedgedStays

----------------------------------------------------------------------------
\* Fragmenting, relaying and reassembling packets implements DatagramChannel
\* as long as no fragment id is used twice: loss, duplication and reordering,
\* and nothing else, is what the rest of the client has to expect.
THEOREM FragImplementsChannel == Spec => ChannelSpec
<1> DEFINE o == IF out = Nil \/ ~IdsUnique THEN Nil
                ELSE IF out.data = Whole(out.len) THEN out.len ELSE Garbled
<1>1. Init => Channel!Init
  BY DEF Init, Channel!Init
<1>2. FragInv /\ FragInv' /\ [Next]_vars => [Channel!Next]_<<sent, o>>
  <2>1. SUFFICES ASSUME FragInv, FragInv', [Next]_vars
                 PROVE  [Channel!Next]_<<sent, o>>
    OBVIOUS
  <2>2. ASSUME out' = Nil \/ ~IdsUnique' PROVE o' = Nil
    BY <2>2
  <2>3. ASSUME out' # Nil, IdsUnique', sent' = sent
        PROVE  o' \in sent /\ o' \in Datagram
    <3>1. out'.len \in sent /\ out'.data = Whole(out'.len)
      BY <2>1, <2>3 DEF FragInv, Integrity, Whole
    <3>2. o' = out'.len
      BY <2>3, <3>1 DEF Whole
    <3>. QED  BY <2>1, <3>1, <3>2 DEF FragInv, TypeOK
  <2>4. CASE UNCHANGED vars
    BY <2>4 DEF vars, Whole, IdsUnique
  <2>5. CASE Sender
    <3>1. out' = Nil
      BY <2>5 DEF Sender, lan_client_send_frag, lan_client_send_whole, lan_client_init_sender
    <3>2. \/ sent' = sent
          \/ \E d \in Datagram : d \notin sent /\ sent' = sent \cup {d}
      BY <2>1, <2>5, SenderInv
    <3>. QED
      BY <2>2, <3>1, <3>2 DEF Channel!Next, Channel!Send, Channel!Quiet
  <2>6. CASE Receiver
    <3>1. sent' = sent
      BY <2>1, <2>6, ReceiverInv
    <3>2. o' = Nil \/ (o' \in sent /\ o' \in Datagram)
      BY <2>2, <2>3, <3>1
    <3>. QED
      BY <3>1, <3>2 DEF Channel!Next, Channel!Deliver, Channel!Quiet
  <2>. QED  BY <2>1, <2>4, <2>5, <2>6 DEF Next
<1>. QED
  BY <1>1, <1>2, FragInvariant, PTL DEF Spec, ChannelSpec, Channel!Spec

=============================================================================

--------------------------- MODULE LanClientFrag ---------------------------
(***************************************************************************)
(* IPv4 packets over the relay (client-switch-lan-play/lan-client.c).      *)
(*                                                                         *)
(* Clients send the packets of their consoles to the relay, whole or, when *)
(* --pmtu is set and the packet is longer, cut into numbered fragments.    *)
(* One client is followed as the receiver: it puts the fragments together  *)
(* in LC_FRAG_COUNT slots and hands every finished packet to               *)
(* lan_client_process.  UDP and the relay (external) lose, duplicate and   *)
(* reorder messages: net only grows, and any message of it may be received *)
(* at any time, any number of times or never.                              *)
(*                                                                         *)
(* A payload is represented by the datagram it was cut from, a length by   *)
(* the datagram it is the length of, and offset pmtu * part of the buffer  *)
(* by part.  Each client serves one console, whose address is src.         *)
(***************************************************************************)
EXTENDS Integers, FiniteSets

CONSTANTS
  Src,            \* the addresses of the sending consoles
  LC_FRAG_COUNT,  \* reassembly slots
  MaxParts,       \* most parts of a packet (ETHER_MTU / MIN_FRAG_PAYLOAD_LEN)
  IdMod,          \* 2^16: the id field of the fragment header
  LocalMod,       \* 2^16: lan_client_fragment.local_id
  MaxSent,        \* bound: packets sent
  MaxLocal,       \* bound: slots given out
  Nil

ASSUME FragAssumption ==
  /\ LC_FRAG_COUNT \in Nat \ {0}
  /\ MaxParts \in 1 .. 8
  /\ IdMod \in Nat \ {0}
  /\ LocalMod \in Nat \ {0}
  /\ MaxSent \in Nat
  /\ MaxLocal \in Nat

\* seq, the position of the packet among all packets, stands for its content.
\* A packet that is sent whole has no id; it gets 0 here.
Datagram ==
  [src : Src, id : 0 .. IdMod - 1, total_part : 1 .. MaxParts, seq : 1 .. MaxSent]

ASSUME NilAssumption == Nil \notin Datagram

VARIABLES
  frag_id,   \* each client's counter of fragmented packets
  net,       \* messages on their way through the relay
  frags,     \* the receiver's slots
  local_id,  \* the receiver's counter of slots given out
  sent,      \* history: the packets sent
  out        \* what this step hands to lan_client_process, or Nil

vars == <<frag_id, net, frags, local_id, sent, out>>

Slots == 0 .. LC_FRAG_COUNT - 1
Parts == 0 .. MaxParts - 1

\* LAN_CLIENT_TYPE_IPV4 and LAN_CLIENT_TYPE_IPV4_FRAG messages; data is the
\* packet the payload belongs to.
Message ==
  [type : {"ipv4"}, data : Datagram]
    \cup
  [type : {"frag"}, src : Src, id : 0 .. IdMod - 1, part : Parts,
   total_part : 2 .. MaxParts, data : Datagram]

\* struct lan_client_fragment.  part is the bit mask of the parts received.
Fragment ==
  [used : BOOLEAN, src : Src \cup {Nil}, id : 0 .. IdMod - 1,
   local_id : 0 .. LocalMod - 1, part : SUBSET Parts,
   total_len : Datagram \cup {Nil}, buffer : [Parts -> Datagram \cup {Nil}]]

\* A packet as lan_client_process gets it: a length and the buffer.
Packet ==
  [len : Datagram, data : [Parts -> Datagram \cup {Nil}]]

Whole(d) == [p \in Parts |-> IF p < d.total_part THEN d ELSE Nil]

----------------------------------------------------------------------------
EmptyFragment ==
  [used |-> FALSE, src |-> Nil, id |-> 0, local_id |-> 0, part |-> {},
   total_len |-> Nil, buffer |-> [p \in Parts |-> Nil]]

\* lan_client_init zeroes frags, frag_id and local_id.
Init ==
  /\ frag_id = [s \in Src |-> 0]
  /\ net = {}
  /\ frags = [i \in Slots |-> EmptyFragment]
  /\ local_id = 0
  /\ sent = {}
  /\ out = Nil

----------------------------------------------------------------------------
\* The messages of the first k parts of d.
FragmentsOf(d, k) ==
  {[type |-> "frag", src |-> d.src, id |-> d.id, part |-> p,
    total_part |-> d.total_part, data |-> d] : p \in 0 .. k - 1}

\* lan_client_send of a packet that needs n > 1 parts.  uv_udp_send may fail
\* at part k: the parts before it are on their way and frag_id is used up.
lan_client_send_frag(s, n, k) ==
  LET d == [src |-> s, id |-> frag_id[s] % IdMod, total_part |-> n,
            seq |-> Cardinality(sent) + 1]
  IN  /\ Cardinality(sent) < MaxSent
      /\ frag_id' = [frag_id EXCEPT ![s] = @ + 1]
      /\ net' = net \cup FragmentsOf(d, k)
      /\ sent' = sent \cup {d}
      /\ out' = Nil
      /\ UNCHANGED <<frags, local_id>>

\* lan_client_send of a packet that fits, or without --pmtu.
lan_client_send_whole(s) ==
  LET d == [src |-> s, id |-> 0, total_part |-> 1,
            seq |-> Cardinality(sent) + 1]
  IN  /\ Cardinality(sent) < MaxSent
      /\ net' = net \cup {[type |-> "ipv4", data |-> d]}
      /\ sent' = sent \cup {d}
      /\ out' = Nil
      /\ UNCHANGED <<frag_id, frags, local_id>>

\* A sending client is restarted: lan_client_init sets frag_id to 0 again.
lan_client_init_sender(s) ==
  /\ frag_id' = [frag_id EXCEPT ![s] = 0]
  /\ out' = Nil
  /\ UNCHANGED <<net, frags, local_id, sent>>

\* The receiving client is restarted.
lan_client_init_receiver ==
  /\ frags' = [i \in Slots |-> EmptyFragment]
  /\ local_id' = 0
  /\ out' = Nil
  /\ UNCHANGED <<frag_id, net, sent>>

----------------------------------------------------------------------------
\* lan_client_on_recv, LAN_CLIENT_TYPE_IPV4.
on_recv_ipv4(m) ==
  /\ m.type = "ipv4"
  /\ out' = [len |-> m.data, data |-> Whole(m.data)]
  /\ UNCHANGED <<frag_id, net, frags, local_id, sent>>

FirstSlot(S) == CHOOSE i \in S : \A j \in S : i <= j

Matching(m) ==
  {i \in Slots : frags[i].used /\ frags[i].id = m.id /\ frags[i].src = m.src}

Unused == {i \in Slots : ~frags[i].used}

\* The age of a slot; local_id is an int, the slot keeps 16 bits of it.
Dif(i) ==
  LET d == frags[i].local_id - local_id IN IF d < 0 THEN -d ELSE d

\* Mutant: any slot is old enough.
TooOldAny == {i \in Slots : frags[i].used /\ Dif(i) > 0}

\* The slots older than LC_FRAG_COUNT, and the first of the oldest ones.
TooOld == {i \in Slots : frags[i].used /\ Dif(i) > LC_FRAG_COUNT}
Oldest == FirstSlot({i \in TooOld : \A j \in TooOld : Dif(j) <= Dif(i)})

\* The slot is given to the message's packet.  total_len and buffer keep what
\* the last packet left there.
Assign(i, m) ==
  [frags[i] EXCEPT !.used = TRUE, !.src = m.src, !.id = m.id,
                   !.local_id = local_id % LocalMod, !.part = {}]

\* Mutant: a length that is there is kept.
StoreFirstLen(f, m) ==
  [f EXCEPT !.part = @ \cup {m.part},
            !.buffer[m.part] = m.data,
            !.total_len =
              IF m.part = m.total_part - 1 /\ @ = Nil THEN m.data ELSE @]

\* The message's payload is copied into slot f.
Store(f, m) ==
  [f EXCEPT !.part = @ \cup {m.part},
            !.buffer[m.part] = m.data,
            !.total_len = IF m.part = m.total_part - 1 THEN m.data ELSE @]

\* Mutant: the mask is looked at when the last part arrives.
CompleteAtLast(f, m) ==
  m.part = m.total_part - 1 /\ f.part = 0 .. m.total_part - 1

Complete(f, m) == f.part = 0 .. m.total_part - 1

\* What lan_client_process gets: len bytes of the buffer.  A length of zero
\* is ignored there.
Finished(f) ==
  IF f.total_len = Nil
  THEN Nil
  ELSE [len |-> f.total_len,
        data |-> [p \in Parts |->
                    IF p < f.total_len.total_part THEN f.buffer[p] ELSE Nil]]

\* The end of lan_client_process_frag, with the slot found.
PutInto(i, base, m) ==
  LET f == Store(base, m)
  IN  IF Complete(f, m)
      THEN /\ frags' = [frags EXCEPT ![i] = [f EXCEPT !.used = FALSE]]
           /\ out' = Finished(f)
      ELSE /\ frags' = [frags EXCEPT ![i] = f]
           /\ out' = Nil

frag_matching(m) ==
  /\ Matching(m) # {}
  /\ LET i == FirstSlot(Matching(m)) IN PutInto(i, frags[i], m)
  /\ UNCHANGED local_id

frag_unused(m) ==
  /\ Matching(m) = {}
  /\ Unused # {}
  /\ LET i == FirstSlot(Unused) IN PutInto(i, Assign(i, m), m)
  /\ local_id' = local_id + 1

frag_evict(m) ==
  /\ Matching(m) = {}
  /\ Unused = {}
  /\ TooOld # {}
  /\ PutInto(Oldest, Assign(Oldest, m), m)
  /\ local_id' = local_id + 1

\* Mutant: a fragment that is ignored still makes the others older.
frag_ignore_ages(m) ==
  /\ Matching(m) = {}
  /\ Unused = {}
  /\ TooOld = {}
  /\ out' = Nil
  /\ local_id' = local_id + 1
  /\ UNCHANGED frags

\* "fragment buffer is full, ignore it"
frag_ignore(m) ==
  /\ Matching(m) = {}
  /\ Unused = {}
  /\ TooOld = {}
  /\ out' = Nil
  /\ UNCHANGED <<frags, local_id>>

lan_client_process_frag(m) ==
  /\ m.type = "frag"
  /\ local_id < MaxLocal
  /\ frag_matching(m) \/ frag_unused(m) \/ frag_evict(m) \/ frag_ignore(m)
  /\ UNCHANGED <<frag_id, net, sent>>

----------------------------------------------------------------------------
Sender ==
  \E s \in Src :
    \/ \E n \in 2 .. MaxParts : \E k \in 0 .. n : lan_client_send_frag(s, n, k)
    \/ lan_client_send_whole(s)
    \/ lan_client_init_sender(s)

Receiver ==
  \/ \E m \in net : on_recv_ipv4(m) \/ lan_client_process_frag(m)
  \/ lan_client_init_receiver

Next == Sender \/ Receiver

Spec == Init /\ [][Next]_vars

----------------------------------------------------------------------------
\* Every variable has its type.
TypeOK ==
  /\ frag_id \in [Src -> Nat]
  /\ net \subseteq Message
  /\ frags \in [Slots -> Fragment]
  /\ local_id \in 0 .. MaxLocal
  /\ sent \subseteq Datagram
  /\ out \in Packet \cup {Nil}

\* No client has used an id twice: it was not restarted after it sent
\* fragments, and its 16-bit ids did not wrap.
IdsUnique ==
  \A d, e \in sent :
    (d.total_part > 1 /\ e.total_part > 1 /\ d.src = e.src /\ d.id = e.id) => d = e

\* As long as ids are not used twice, what lan_client_process gets is exactly
\* a packet that was sent, for every loss, duplication and reordering of the
\* fragments and although slots are reused without clearing them.
Integrity ==
  (IdsUnique /\ out # Nil) => (out.len \in sent /\ out.data = Whole(out.len))

\* A packet never fills two slots: its parts would never come together.
OneSlotPerPacket ==
  \A i, j \in Slots :
    (frags[i].used /\ frags[j].used /\ frags[i].src = frags[j].src
       /\ frags[i].id = frags[j].id) => i = j

\* As long as ids are not used twice, a slot in use still misses a part: the
\* message that brings the last part always hands the packet on.
NothingLeftComplete ==
  IdsUnique =>
    \A i \in Slots, d \in sent :
      (frags[i].used /\ d.total_part > 1 /\ frags[i].src = d.src /\ frags[i].id = d.id)
        => frags[i].part # 0 .. d.total_part - 1

\* What the two loops of lan_client_process_frag rely on: a packet has one slot
\* at most, and a slot is in use only as long as parts of its packet are
\* missing.
SlotsSound == OneSlotPerPacket /\ NothingLeftComplete

\* Slot i is taken from one packet and given to another.
Evicted(i) ==
  frags[i].used /\ frags'[i].used
    /\ <<frags[i].src, frags[i].id>> # <<frags'[i].src, frags'[i].id>>

\* Until local_id exceeds 16 bits, the slot that is taken from an unfinished
\* packet is the one that was given out first, and more than LC_FRAG_COUNT
\* slots were given out since.
EvictsOldest ==
  [][\A i \in Slots :
       (Evicted(i) /\ local_id <= LocalMod)
         => /\ \A j \in Slots : frags[i].local_id <= frags[j].local_id
            /\ local_id - frags[i].local_id > LC_FRAG_COUNT]_vars

\* All slots hold unfinished packets and none of them is old enough to be
\* evicted: "fragment buffer is full, ignore it".
Wedged == Unused = {} /\ TooOld = {}

\* Nothing but the completion of one of these very packets, or a restart,
\* ends that state: time does not, and neither does any number of messages of
\* other packets, because local_id stands still.
WedgedStays ==
  [][Wedged => Wedged' \/ \E i \in Slots : ~frags'[i].used]_vars

----------------------------------------------------------------------------
\* What the relay path promises for every loss, duplication, reordering and
\* restart as long as ids are not used twice.  A packet that lan_client_process
\* gets other than whole maps to no datagram.  Nothing is promised of packets
\* handed on after an id was used twice: they are hidden from the channel.
Garbled == <<"garbled">>

Channel == INSTANCE DatagramChannel WITH
  out <- IF out = Nil \/ ~IdsUnique THEN Nil
         ELSE IF out.data = Whole(out.len) THEN out.len ELSE Garbled

ChannelSpec == Channel!Spec

=============================================================================

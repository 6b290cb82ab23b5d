------------------------------ MODULE Checksum ------------------------------
(***************************************************************************)
(* The internet checksums of the two clients: calc_checksum of the desktop *)
(* client (ipv4/ipv4.c), which makes the IPv4 header and the echo replies  *)
(* of ipv4/icmp.c, calc_payload_checksum of its UDP packets, and           *)
(* calculateUdpChecksum of the Android app, with the place where           *)
(* buildRawUdpPacket calls it.                                             *)
(*                                                                         *)
(* A byte is a digit in base Base (256 in the code) and a word two of      *)
(* them; the state is one buffer, built byte by byte.                      *)
(***************************************************************************)
EXTENDS Integers, Sequences

CONSTANTS
  Base,     \* values of a byte
  MaxLen    \* length of the longest buffer

ASSUME ChecksumAssumption == Base \in Nat \ {0, 1} /\ MaxLen \in Nat

VARIABLE buffer

Byte == 0 .. Base - 1

\* The greatest word, 0xffff in the code.
Ones == Base * Base - 1

Init == buffer = <<>>

Next == Len(buffer) < MaxLen /\ \E b \in Byte : buffer' = Append(buffer, b)

Spec == Init /\ [][Next]_buffer

----------------------------------------------------------------------------
(* The code *)

IsOdd(n) == n % 2 = 1

SumSeq(seq) ==
  LET sum[i \in 0 .. Len(seq)] == IF i = 0 THEN 0 ELSE sum[i - 1] + seq[i]
  IN  sum[Len(seq)]

\* What the i-th of n bytes counts in the sum of the words, high byte first;
\* last is what the last byte counts when it has no partner.
Weight(i, n, last) == IF ~IsOdd(i) THEN 1 ELSE IF i = n THEN last ELSE Base

WordSum(buf, last) ==
  SumSeq([i \in 1 .. Len(buf) |-> buf[i] * Weight(i, Len(buf), last)])

\* while (sum > 0xffff) sum -= 0xffff;
Reduce[sum \in Nat] == IF sum > Ones THEN Reduce[sum - Ones] ELSE sum

\* Mutant of calc_checksum: the carries are dropped.
calc_checksum_truncated(buf) == Ones - (WordSum(buf, 1) % (Ones + 1))

\* The last byte of a buffer of odd length is added as a low byte.
calc_checksum(buf) == Ones - Reduce[WordSum(buf, 1)]

\* Mutant of calc_payload_checksum: every part ends like a buffer of
\* calc_checksum.
calc_payload_checksum_low(parts) ==
  Ones - Reduce[SumSeq([i \in 1 .. Len(parts) |-> WordSum(parts[i], 1)])]

\* The sum runs through the parts of a packet.  The callers' parts are of even
\* length except for the last: the pseudo-header, the UDP header and the payload.
calc_payload_checksum(parts) ==
  Ones - Reduce[SumSeq([i \in 1 .. Len(parts) |-> WordSum(parts[i], Base)])]

\* send_udp_ex: the headers (here the first h bytes, without the checksum) and
\* the payload are two parts.
send_udp_ex(h, buf) ==
  calc_payload_checksum(<<SubSeq(buf, 1, h), SubSeq(buf, h + 1, Len(buf))>>)

\* while (sum shr 16 != 0) sum = (sum and 0xFFFF) + (sum shr 16)
Fold[sum \in Nat] ==
  IF sum \div (Ones + 1) # 0
  THEN Fold[(sum % (Ones + 1)) + (sum \div (Ones + 1))]
  ELSE sum

\* Of the pseudo-header, the UDP header and what follows; 0 means that there
\* is no checksum, so Ones is sent in its place.
calculateUdpChecksum(buf) ==
  LET result == Ones - Fold[WordSum(buf, Base)]
  IN  IF result = 0 THEN Ones ELSE result

\* Mutant of buildRawUdpPacket: the checksum is computed before the header is
\* in the packet.
buildRawUdpPacket_checksum_early(buf) ==
  calculateUdpChecksum([i \in DOMAIN buf |-> 0])

\* buildRawUdpPacket: the checksum is computed when the header (here the first
\* word) is in the packet and the payload is not.
buildRawUdpPacket_checksum(buf) ==
  calculateUdpChecksum([i \in DOMAIN buf |-> IF i <= 2 THEN buf[i] ELSE 0])

----------------------------------------------------------------------------
(* Properties *)

\* What a receiver does: the words and the checksum, added with end-around
\* carry, are all ones, that is 0 modulo Ones and not 0 itself.
Verifies(buf, checksum) ==
  LET sum == WordSum(buf, Base) + checksum
  IN  sum # 0 /\ sum % Ones = 0

\* A receiver accepts what calc_checksum yields for every buffer of even
\* length, as the IPv4 header is, and for an echo reply of odd length exactly
\* when its last byte is 0: that byte is added at the wrong end of its word.
AcceptedUnlessOdd ==
  Verifies(buffer, calc_checksum(buffer))
    <=> ~IsOdd(Len(buffer)) \/ buffer[Len(buffer)] = 0

\* A receiver accepts the UDP checksums of both clients, for payloads of even
\* and of odd length: what calculateUdpChecksum yields for a complete packet,
\* and what the gateway's send_udp_ex yields wherever the payload begins.  (A
\* checksum of 0, which calc_payload_checksum does not avoid, means that there
\* is none.)
UdpVerifies ==
  /\ Verifies(buffer, calculateUdpChecksum(buffer))
  /\ \A h \in 0 .. Len(buffer) :
       ~IsOdd(h) => Verifies(buffer, send_udp_ex(h, buffer))

\* The checksum that buildRawUdpPacket puts into a packet is the one of its
\* header, and not of "UDP Header + Payload": a receiver accepts the packet
\* exactly when the words of the payload happen to add up to 0 modulo Ones, as
\* those of an empty payload do.
PayloadLeftOut ==
  Verifies(buffer, buildRawUdpPacket_checksum(buffer))
    <=> WordSum(SubSeq(buffer, 3, Len(buffer)), Base) % Ones = 0

=============================================================================

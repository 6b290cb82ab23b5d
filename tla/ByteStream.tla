----------------------------- MODULE ByteStream -----------------------------
(***************************************************************************)
(* What uvl_write promises for the data of one connection.  A request is   *)
(* written once and answered once, in order; it is answered with success   *)
(* only when the console has all of its bytes; the console gets the bytes  *)
(* in order, each of them once, as far as they were written.               *)
(***************************************************************************)
EXTENDS Integers, Sequences

VARIABLES
  lens,      \* the lengths of the requests that were written
  received,  \* bytes the console has
  answer     \* what write_cb said, request by request

streamVars == <<lens, received, answer>>

\* Bytes of the first k requests.
Total[k \in 0..Len(lens)] == IF k = 0 THEN 0 ELSE Total[k - 1] + lens[k]

StreamInit == lens = <<>> /\ received = 0 /\ answer = <<>>

StreamWrite ==
  /\ Len(lens') = Len(lens) + 1
  /\ lens'[Len(lens')] \in Nat
  /\ SubSeq(lens', 1, Len(lens)) = lens
  /\ UNCHANGED <<received, answer>>

StreamReceive ==
  /\ received < received'
  /\ received' <= Total[Len(lens)]
  /\ UNCHANGED <<lens, answer>>

\* One or several requests are answered.
StreamAnswer ==
  /\ Len(answer) < Len(answer')
  /\ Len(answer') <= Len(lens)
  /\ SubSeq(answer', 1, Len(answer)) = answer
  /\ \A i \in Len(answer) + 1..Len(answer') :
       \/ answer'[i] = "ok" /\ Total[i] <= received
       \/ answer'[i] = "canceled"
  /\ UNCHANGED <<lens, received>>

StreamNext == StreamWrite \/ StreamReceive \/ StreamAnswer

StreamSpec == StreamInit /\ [][StreamNext]_streamVars

=============================================================================

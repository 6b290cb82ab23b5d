-------------------------- MODULE DatagramChannel --------------------------
(***************************************************************************)
(* What the relay path promises for IPv4 packets: a datagram that arrives  *)
(* was sent, whole and unchanged.  It may arrive late, out of order, more  *)
(* than once or not at all.                                                *)
(***************************************************************************)
CONSTANTS Datagram, Nil

VARIABLES
  sent,  \* the datagrams sent so far
  out    \* the datagram handed on by this step, or Nil

Init == sent = {} /\ out = Nil

Send(d) ==
  /\ d \notin sent
  /\ sent' = sent \cup {d}
  /\ out' = Nil

Deliver(d) ==
  /\ d \in sent
  /\ out' = d
  /\ UNCHANGED sent

\* A message that brings no datagram, or a datagram that is lost.
Quiet ==
  /\ out' = Nil
  /\ UNCHANGED sent

Next ==
  \/ \E d \in Datagram : Send(d) \/ Deliver(d)
  \/ Quiet

Spec == Init /\ [][Next]_<<sent, out>>
=============================================================================

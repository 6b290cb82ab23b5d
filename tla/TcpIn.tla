------------------------------- MODULE TcpIn --------------------------------
(***************************************************************************)
(* The receiving half of lwIP's TCP (tcp_receive in                        *)
(* lwip/src/core/tcp_in.c, the window in tcp.c) for one connection, as     *)
(* operators over a pcb.  UvlRead puts the client's receive buffer on top  *)
(* of it and the console below it.                                         *)
(*                                                                         *)
(* A segment carries a sequence of bytes; trimming it cuts the sequence    *)
(* and, in front, moves seqno.  Sequence numbers do not wrap.  LWIP_ASSERT *)
(* aborts the program in this build: rcv_wnd goes below 0 where it would.  *)
(* recv_data and got_fin are what tcp_receive leaves for tcp_input; out is *)
(* the last ACK that a step sends.                                         *)
(***************************************************************************)
EXTENDS Integers, Sequences, FiniteSetsExt

CONSTANTS
  TCP_MSS,  \* payload of a segment
  TCP_WND   \* receive window

ASSUME TcpInAssumption ==
  /\ TCP_MSS \in Nat \ {0}
  /\ TCP_WND \in Nat /\ TCP_WND >= 2 * TCP_MSS

NoAck == [ackno |-> 0, edge |-> 0]

MinOf(a, b) == IF a < b THEN a ELSE b
TCP_WND_UPDATE_THRESHOLD == MinOf(TCP_WND \div 4, TCP_MSS * 4)

TCP_TCPLEN(seg) == Len(seg.data) + (IF seg.fin THEN 1 ELSE 0)
DataEnd(seg) == seg.seqno + Len(seg.data)
Cut(seg, len) == [seg EXCEPT !.data = SubSeq(@, 1, len)]
TCP_SEQ_BETWEEN(a, b, c) == b <= a /\ a <= c

\* The pcb of a connection that was just accepted; the SYN-ACK has announced
\* the whole window.
tcp_alloc ==
  [state |-> "ESTABLISHED", rcv_nxt |-> 1, rcv_wnd |-> TCP_WND, rcv_ann_wnd |-> TCP_WND,
   rcv_ann_right_edge |-> 1 + TCP_WND, ooseq |-> <<>>, delay |-> FALSE, now |-> FALSE,
   rxclosed |-> FALSE, refused_data |-> <<>>,
   recv_data |-> <<>>, got_fin |-> FALSE, out |-> NoAck]

-----------------------------------------------------------------------------
(* Acknowledgements *)

\* tcp_send_empty_ack; a data segment carries the same acknowledgement.
tcp_send_empty_ack(p) ==
  LET edge == p.rcv_nxt + p.rcv_ann_wnd
  IN [p EXCEPT !.rcv_ann_right_edge = edge, !.delay = FALSE, !.now = FALSE,
               !.out = [ackno |-> p.rcv_nxt, edge |-> edge]]

tcp_ack(p) == IF p.delay THEN [p EXCEPT !.delay = FALSE, !.now = TRUE]
              ELSE [p EXCEPT !.delay = TRUE]

\* tcp_output, as far as it sends an acknowledgement.
tcp_output(p) == IF p.now THEN tcp_send_empty_ack(p) ELSE p

\* tcp_update_rcv_ann_wnd: the window to announce, and by how much it would
\* move the right edge.
MayAnnounce(p) ==
  p.rcv_nxt + p.rcv_wnd >= p.rcv_ann_right_edge + MinOf(TCP_WND \div 2, TCP_MSS)

wnd_inflation(p) ==
  IF MayAnnounce(p) THEN p.rcv_nxt + p.rcv_wnd - p.rcv_ann_right_edge ELSE 0

\* Mutant: without the test for a right edge that was passed.
tcp_update_rcv_ann_wnd_untested(p) ==
  [p EXCEPT !.rcv_ann_wnd = IF MayAnnounce(p) THEN p.rcv_wnd
                            ELSE p.rcv_ann_right_edge - p.rcv_nxt]

tcp_update_rcv_ann_wnd(p) ==
  [p EXCEPT !.rcv_ann_wnd = IF MayAnnounce(p) THEN p.rcv_wnd
                            ELSE IF p.rcv_nxt > p.rcv_ann_right_edge THEN 0
                            ELSE p.rcv_ann_right_edge - p.rcv_nxt]

\* tcp_recved: the program has taken len bytes.
tcp_recved(p, len) ==
  LET q == [p EXCEPT !.rcv_wnd = MinOf(@ + len, TCP_WND)]
      r == tcp_update_rcv_ann_wnd(q)
  IN IF wnd_inflation(q) >= TCP_WND_UPDATE_THRESHOLD
     THEN tcp_output([r EXCEPT !.now = TRUE]) ELSE r

-----------------------------------------------------------------------------
(* tcp_receive: the data *)

\* Mutants: the window is not reduced; the window to announce is not updated.
TakeFree(p, seg) ==
  tcp_update_rcv_ann_wnd(
    [p EXCEPT !.rcv_nxt = @ + TCP_TCPLEN(seg),
              !.recv_data = @ \o seg.data, !.got_fin = @ \/ seg.fin])
TakeQuietly(p, seg) ==
  [p EXCEPT !.rcv_nxt = @ + TCP_TCPLEN(seg), !.rcv_wnd = @ - TCP_TCPLEN(seg),
            !.recv_data = @ \o seg.data, !.got_fin = @ \/ seg.fin]

\* A segment is taken into the stream at rcv_nxt.
Take(p, seg) ==
  tcp_update_rcv_ann_wnd(
    [p EXCEPT !.rcv_nxt = @ + TCP_TCPLEN(seg), !.rcv_wnd = @ - TCP_TCPLEN(seg),
              !.recv_data = @ \o seg.data, !.got_fin = @ \/ seg.fin])

\* How many segments at the front of a queue seg covers.
Covered(seg, queue) ==
  Max({k \in 0..Len(queue) : \A i \in 1..k : DataEnd(seg) >= DataEnd(queue[i])})

\* seg without what the queue holds behind it, with the FIN of what it covers.
BeforeQueue(seg, queue) ==
  LET k == Covered(seg, queue)
      fin == seg.fin \/ \E i \in 1..k : queue[i].fin
  IN IF k < Len(queue) /\ DataEnd(seg) > queue[k + 1].seqno
     THEN [Cut(seg, queue[k + 1].seqno - seg.seqno) EXCEPT !.fin = fin]
     ELSE [seg EXCEPT !.fin = fin]

Behind(seg, queue) ==
  IF seg.fin THEN <<>> ELSE SubSeq(queue, Covered(seg, queue) + 1, Len(queue))

\* A segment that does not fit the window loses what is beyond, and the FIN.
TrimToWindow(p, seg) ==
  IF seg.seqno + TCP_TCPLEN(seg) > p.rcv_nxt + p.rcv_wnd
  THEN [Cut(seg, p.rcv_nxt + p.rcv_wnd - seg.seqno) EXCEPT !.fin = FALSE]
  ELSE seg

\* One turn of the loop over the segments of ooseq that are in sequence now,
\* and as many turns as it can take.
Dequeue(p) ==
  IF p.ooseq # <<>> /\ Head(p.ooseq).seqno = p.rcv_nxt
  THEN Take([p EXCEPT !.ooseq = Tail(@)], Head(p.ooseq)) ELSE p

DequeueAll(p) ==
  LET after[n \in 0..Len(p.ooseq)] == IF n = 0 THEN p ELSE Dequeue(after[n - 1])
  IN after[Len(p.ooseq)]

\* The next segment in sequence, and those of ooseq that follow it.
InSequence(p, inseg) ==
  LET seg == TrimToWindow(p, inseg)
      q == Take([p EXCEPT !.ooseq = Behind(seg, @)],
                IF seg.fin THEN seg ELSE BeforeQueue(seg, p.ooseq))
  IN tcp_ack(DequeueAll(q))

\* tcp_oos_insert_segment
tcp_oos_insert_segment(cseg, next) ==
  <<IF cseg.fin THEN cseg ELSE BeforeQueue(cseg, next)>> \o Behind(cseg, next)

\* How many segments of a queue begin before seqno.
Place(queue, seqno) ==
  Max({k \in 0..Len(queue) : \A i \in 1..k : queue[i].seqno < seqno})

\* The first i segments of a queue, the last of them cut at seqno.
Front(queue, i, seqno) ==
  IF i = 0 THEN <<>>
  ELSE SubSeq(queue, 1, i - 1) \o
       <<IF DataEnd(queue[i]) > seqno THEN Cut(queue[i], seqno - queue[i].seqno)
         ELSE queue[i]>>

\* A segment out of sequence: into ooseq at its place.
Queued(p, seg) ==
  LET q == p.ooseq
      n == Len(q)
      i == Place(q, seg.seqno)
      next == SubSeq(q, i + 1, n)
  IN IF n = 0 THEN <<seg>>
     ELSE IF i < n /\ q[i + 1].seqno = seg.seqno
     THEN IF Len(seg.data) > Len(q[i + 1].data)
          THEN SubSeq(q, 1, i) \o tcp_oos_insert_segment(seg, next)
          ELSE q
     ELSE IF i < n THEN Front(q, i, seg.seqno) \o tcp_oos_insert_segment(seg, next)
     ELSE IF q[n].fin THEN q
     ELSE Append(Front(q, n, seg.seqno), TrimToWindow(p, seg))

\* Mutant: one byte too few is cut.
TrimFrontShort(p, seg) ==
  IF TCP_SEQ_BETWEEN(p.rcv_nxt, seg.seqno + 1, seg.seqno + TCP_TCPLEN(seg) - 1)
  THEN [seg EXCEPT !.seqno = p.rcv_nxt,
                   !.data = SubSeq(@, p.rcv_nxt - seg.seqno, Len(@))]
  ELSE seg

\* The first edge is trimmed when rcv_nxt lies within the segment.
TrimFront(p, seg) ==
  IF TCP_SEQ_BETWEEN(p.rcv_nxt, seg.seqno + 1, seg.seqno + TCP_TCPLEN(seg) - 1)
  THEN [seg EXCEPT !.seqno = p.rcv_nxt,
                   !.data = SubSeq(@, p.rcv_nxt - seg.seqno + 1, Len(@))]
  ELSE seg

\* tcp_receive for data: old segments are acknowledged at once, and so is what
\* is outside the window.
tcp_receive(p, inseg) ==
  LET seg == TrimFront(p, inseg)
      inside == TCP_SEQ_BETWEEN(seg.seqno, p.rcv_nxt, p.rcv_nxt + p.rcv_wnd - 1)
  IN IF TCP_TCPLEN(inseg) = 0 THEN [p EXCEPT !.now = @ \/ ~inside]
     ELSE IF ~inside THEN tcp_send_empty_ack(p)
     ELSE IF seg.seqno = p.rcv_nxt THEN InSequence(p, seg)
     ELSE [tcp_send_empty_ack(p) EXCEPT !.ooseq = Queued(p, seg)]

=============================================================================

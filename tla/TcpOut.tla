------------------------------- MODULE TcpOut -------------------------------
(***************************************************************************)
(* The sending half of lwIP's TCP (lwip/src/core/tcp_out.c, the ACK part   *)
(* of tcp_receive in tcp_in.c and the timers of tcp.c) for one established *)
(* connection to a console, as operators over a pcb.  UvlWrite puts the    *)
(* client's write queue on top of it and the network below it.             *)
(*                                                                         *)
(* A segment is known by its place in the stream: byte i of the stream has *)
(* sequence number i, and numbers do not wrap (the code compares them with *)
(* TCP_SEQ_LT, which is right while the queues hold less than 2^31 bytes). *)
(* n is the number of pbufs of a segment.  Whether a timer has run long    *)
(* enough is left open: rtime tells whether the retransmission timer runs, *)
(* persist whether the persist timer does.  out collects the segments that *)
(* a step hands to the network.                                            *)
(***************************************************************************)
EXTENDS Integers, Sequences, FiniteSets, FiniteSetsExt, Functions

CONSTANTS
  TCP_MSS,           \* payload of a segment
  TCP_SND_BUF,       \* bytes the queues may hold
  TCP_SND_QUEUELEN,  \* pbufs the queues may hold
  TCP_MAXRTX,        \* retransmissions before the connection is given up
  CwndMod,           \* values of a tcpwnd_size_t: 2^16
  DupMod             \* values of dupacks: 2^8

\* What lwIP's init.c demands of the options.
ASSUME TcpOutAssumption ==
  /\ TCP_MSS \in Nat \ {0}
  /\ TCP_SND_BUF \in Nat /\ TCP_SND_BUF >= 2 * TCP_MSS
  /\ TCP_SND_QUEUELEN \in Nat
  /\ TCP_SND_QUEUELEN >= 2 * (TCP_SND_BUF \div TCP_MSS)
  /\ TCP_MAXRTX \in Nat \ {0}
  /\ DupMod \in Nat /\ DupMod > 4
  /\ CwndMod \in Nat /\ CwndMod > 5 * TCP_MSS

MinOf(a, b) == IF a < b THEN a ELSE b
MaxOf(a, b) == IF a < b THEN b ELSE a

TCP_TCPLEN(seg) == seg.len + (IF seg.fin THEN 1 ELSE 0)
EndOf(seg) == seg.seqno + TCP_TCPLEN(seg)

\* The pcb of a connection that was just accepted; the console offers wnd.
tcp_alloc(wnd) ==
  [state |-> "ESTABLISHED", unsent |-> <<>>, unacked |-> <<>>, unsent_oversize |-> 0,
   lastack |-> 1, snd_nxt |-> 1, snd_lbb |-> 1,
   snd_buf |-> TCP_SND_BUF, snd_queuelen |-> 0,
   snd_wnd |-> wnd, snd_wl2 |-> 1,
   cwnd |-> 4 * TCP_MSS, ssthresh |-> TCP_SND_BUF, dupacks |-> 0, nrtx |-> 0,
   rtime |-> FALSE, persist |-> (wnd = 0), infr |-> FALSE, memerr |-> FALSE, fin |-> FALSE,
   out |-> {}]

-----------------------------------------------------------------------------
(* tcp_out.c *)

\* tcp_write: append len bytes.  They first fill the pbuf that was allocated
\* too large for the last unsent segment, then a pbuf chained to that segment,
\* then new segments.  On ERR_MEM only the flag changes.
tcp_write(p, len) ==
  LET none == p.unsent = <<>>
      last_unsent == p.unsent[Len(p.unsent)]
      space == IF none THEN 0 ELSE TCP_MSS - last_unsent.len
      used == MinOf(space, MinOf(p.unsent_oversize, len))
      cat == IF ~none /\ last_unsent.len > 0 THEN MinOf(space, len) - used ELSE 0
      pos == used + cat
      k == (len - pos + TCP_MSS - 1) \div TCP_MSS
      new == [i \in 1..k |->
                [seqno |-> p.snd_lbb + pos + (i - 1) * TCP_MSS,
                 len |-> MinOf(TCP_MSS, len - pos - (i - 1) * TCP_MSS),
                 fin |-> FALSE, n |-> 1]]
      queuelen == p.snd_queuelen + k + (IF cat > 0 THEN 1 ELSE 0)
      old == IF none THEN <<>>
             ELSE [p.unsent EXCEPT ![Len(p.unsent)].len = @ + pos,
                                   ![Len(p.unsent)].n = @ + (IF cat > 0 THEN 1 ELSE 0)]
      oversize == IF k > 0
                  THEN IF none /\ p.unacked = <<>> /\ k = 1 THEN 0
                       ELSE TCP_MSS - new[k].len
                  ELSE IF cat > 0 THEN space - pos
                  ELSE p.unsent_oversize - used
  IN IF \/ len > p.snd_buf
        \/ p.snd_queuelen >= TCP_SND_QUEUELEN
        \/ (k > 0 /\ queuelen > TCP_SND_QUEUELEN)
     THEN [ok |-> FALSE, pcb |-> [p EXCEPT !.memerr = TRUE]]
     ELSE [ok |-> TRUE,
           pcb |-> [p EXCEPT !.unsent = old \o new, !.unsent_oversize = oversize,
                             !.snd_lbb = @ + len, !.snd_buf = @ - len,
                             !.snd_queuelen = queuelen]]

\* tcp_do_output_nagle with the exceptions of tcp_output, for the i-th segment
\* of unsent after those before it were sent.
MaySend(p, i) ==
  \/ (i = 1 /\ p.unacked = <<>>)
  \/ p.infr \/ p.memerr \/ p.fin
  \/ i < Len(p.unsent) \/ p.unsent[i].len >= TCP_MSS
  \/ p.snd_buf = 0 \/ p.snd_queuelen >= TCP_SND_QUEUELEN

\* Mutant: the length of the segment is left out.
FitsStart(p, seg) == seg.seqno - p.lastack <= MinOf(p.snd_wnd, p.cwnd)

\* The segment lies within the window; a FIN does not count.
Fits(p, seg) == seg.seqno - p.lastack + seg.len <= MinOf(p.snd_wnd, p.cwnd)

\* A segment is put on a queue behind those with smaller sequence numbers.
Place(queue, seqno) ==
  Max({k \in 0..Len(queue) : \A i \in 1..k : queue[i].seqno < seqno})

Placed(queue, seg) ==
  LET k == Place(queue, seg.seqno)
  IN SubSeq(queue, 1, k) \o <<seg>> \o SubSeq(queue, k + 1, Len(queue))

\* The loop of tcp_output that moves the segments of sent to a queue.
PlacedAll(queue, sent) ==
  LET after[i \in 0..Len(sent)] ==
        IF i = 0 THEN queue ELSE Placed(after[i - 1], sent[i])
  IN after[Len(sent)]

\* Mutant: a window that is open but too small does not start the persist timer.
tcp_output_no_persist(p, acknow) ==
  LET none == p.unsent = <<>>
      k == Max({j \in 0..Len(p.unsent) :
                  \A i \in 1..j : Fits(p, p.unsent[i]) /\ MaySend(p, i)})
      sent == SubSeq(p.unsent, 1, k)
      rest == SubSeq(p.unsent, k + 1, Len(p.unsent))
  IN IF acknow /\ (none \/ ~Fits(p, p.unsent[1])) THEN p
     ELSE [p EXCEPT !.unsent = rest,
                    !.unacked = PlacedAll(@, sent),
                    !.unsent_oversize = IF rest = <<>> THEN 0 ELSE @,
                    !.snd_nxt = IF k > 0 THEN MaxOf(@, EndOf(sent[k])) ELSE @,
                    !.rtime = @ \/ k > 0,
                    !.memerr = FALSE,
                    !.out = @ \cup {[seqno |-> s.seqno, len |-> s.len, fin |-> s.fin] :
                                      s \in Range(sent)}]

\* tcp_output and tcp_output_segment.  acknow: TF_ACK_NOW is set.
tcp_output(p, acknow) ==
  LET wnd == MinOf(p.snd_wnd, p.cwnd)
      none == p.unsent = <<>>
      k == Max({j \in 0..Len(p.unsent) :
                  \A i \in 1..j : Fits(p, p.unsent[i]) /\ MaySend(p, i)})
      sent == SubSeq(p.unsent, 1, k)
      rest == SubSeq(p.unsent, k + 1, Len(p.unsent))
  IN IF acknow /\ (none \/ ~Fits(p, p.unsent[1]))
     THEN p                                              \* tcp_send_empty_ack
     ELSE IF ~none /\ ~Fits(p, p.unsent[1]) /\ wnd > 0 /\ wnd = p.snd_wnd /\ p.unacked = <<>>
     THEN [p EXCEPT !.persist = TRUE, !.memerr = FALSE]
     ELSE [p EXCEPT !.unsent = rest,
                    !.unacked = PlacedAll(@, sent),
                    !.unsent_oversize = IF rest = <<>> THEN 0 ELSE @,
                    !.snd_nxt = IF k > 0 THEN MaxOf(@, EndOf(sent[k])) ELSE @,
                    !.rtime = @ \/ k > 0,
                    !.memerr = FALSE,
                    !.out = @ \cup {[seqno |-> s.seqno, len |-> s.len, fin |-> s.fin] :
                                      s \in Range(sent)}]

\* Mutant: an unsent segment does not get the flag.
tcp_send_fin_unset(p) ==
  IF p.unsent # <<>>
  THEN [p EXCEPT !.fin = TRUE]
  ELSE [p EXCEPT !.unsent = <<[seqno |-> p.snd_lbb, len |-> 0, fin |-> TRUE, n |-> 1]>>,
                 !.unsent_oversize = 0, !.snd_lbb = @ + 1,
                 !.snd_queuelen = @ + 1, !.fin = TRUE]

\* tcp_send_fin: on the last unsent segment, or on one of its own
\* (tcp_enqueue_flags).
tcp_send_fin(p) ==
  IF p.unsent # <<>>
  THEN [p EXCEPT !.unsent[Len(p.unsent)].fin = TRUE, !.fin = TRUE]
  ELSE [p EXCEPT !.unsent = <<[seqno |-> p.snd_lbb, len |-> 0, fin |-> TRUE, n |-> 1]>>,
                 !.unsent_oversize = 0, !.snd_lbb = @ + 1,
                 !.snd_queuelen = @ + 1, !.fin = TRUE]

\* tcp_rexmit_rto: everything that is not acknowledged is unsent again.
tcp_rexmit_rto(p) ==
  tcp_output([p EXCEPT !.unsent = p.unacked \o @, !.unacked = <<>>, !.nrtx = @ + 1], FALSE)

\* tcp_rexmit: the first segment is.
tcp_rexmit(p) ==
  LET seg == Head(p.unacked)
  IN [p EXCEPT !.unacked = Tail(@),
               !.unsent = Placed(@, seg),
               !.unsent_oversize = IF Place(p.unsent, seg.seqno) = Len(p.unsent) THEN 0 ELSE @,
               !.nrtx = @ + 1]

\* tcp_rexmit_fast
tcp_rexmit_fast(p) ==
  LET half == MaxOf(MinOf(p.cwnd, p.snd_wnd) \div 2, 2 * TCP_MSS)
  IN IF p.unacked = <<>> \/ p.infr THEN p
     ELSE [tcp_rexmit(p) EXCEPT !.ssthresh = half, !.cwnd = half + 3 * TCP_MSS,
                                !.infr = TRUE, !.rtime = TRUE]

\* tcp_zero_window_probe: one byte (or the FIN) of the first segment.
tcp_zero_window_probe(p) ==
  LET seg == Head(p.unacked \o p.unsent)
      is_fin == seg.fin /\ seg.len = 0
  IN IF p.unacked \o p.unsent = <<>> THEN p
     ELSE [p EXCEPT !.snd_nxt = MaxOf(@, seg.seqno + 1),
                    !.out = @ \cup {[seqno |-> seg.seqno, len |-> IF is_fin THEN 0 ELSE 1,
                                     fin |-> is_fin]}]

-----------------------------------------------------------------------------
(* tcp_in.c *)

\* The window update of tcp_receive.  order: where seqno lies with respect to
\* snd_wl1, the sequence number of the segment that the window is from.  Data
\* that the console sends again comes with an old one and a new ackno: then
\* lastack moves and the window stays as it was.
UpdateWindow(p, ackno, wnd, order) ==
  IF \/ order = "after"
     \/ order = "same" /\ p.snd_wl2 < ackno
     \/ p.snd_wl2 = ackno /\ wnd > p.snd_wnd
  THEN [p EXCEPT !.snd_wnd = wnd, !.snd_wl2 = ackno, !.persist = (wnd = 0)]
  ELSE p

\* Mutant: the sum is not tested for an overflow.
InflateWraps(cwnd) == (cwnd + TCP_MSS) % CwndMod

\* cwnd grows by a segment for a duplicate acknowledgement, unless that
\* overflows.
Inflate(cwnd) == MaxOf(cwnd, (cwnd + TCP_MSS) % CwndMod)

\* An ACK of nothing new; q is p with the new window.  data: the segment carries
\* data (tcplen).
DuplicateAck(p, q, ackno, data) ==
  LET dupacks == IF (q.dupacks + 1) % DupMod > q.dupacks THEN q.dupacks + 1 ELSE q.dupacks
      counted == [q EXCEPT !.dupacks = dupacks]
  IN IF ~ /\ ~data
          /\ q.snd_wl2 + q.snd_wnd = p.snd_wl2 + p.snd_wnd
          /\ q.rtime /\ q.lastack = ackno
     THEN [q EXCEPT !.dupacks = 0]
     ELSE IF dupacks > 3
     THEN [counted EXCEPT !.cwnd = Inflate(@)]
     ELSE IF dupacks = 3 THEN tcp_rexmit_fast(counted)
     ELSE counted

\* cwnd after an ACK: slow start or congestion avoidance.
OpenCwnd(cwnd, ssthresh) ==
  LET more == IF cwnd < ssthresh THEN (cwnd + TCP_MSS) % CwndMod
              ELSE (cwnd + (TCP_MSS * TCP_MSS) \div cwnd) % CwndMod
  IN MaxOf(cwnd, more)

\* The segments of a queue that remain after an ACK of ackno.
Acked(queue, ackno) ==
  Max({k \in 0..Len(queue) : \A i \in 1..k : EndOf(queue[i]) <= ackno})
Unacked(queue, ackno) == SubSeq(queue, Acked(queue, ackno) + 1, Len(queue))

NewAck(q, ackno) ==
  LET cwnd == IF q.infr THEN q.ssthresh ELSE q.cwnd
      unacked == Unacked(q.unacked, ackno)
  IN [q EXCEPT !.infr = FALSE, !.nrtx = 0, !.dupacks = 0, !.lastack = ackno,
               !.cwnd = OpenCwnd(cwnd, q.ssthresh), !.unacked = unacked,
               !.rtime = (unacked # <<>>)]

SumSeq(seq) ==
  LET sum[i \in 0..Len(seq)] == IF i = 0 THEN 0 ELSE sum[i - 1] + seq[i]
  IN sum[Len(seq)]
SumOf(queue, Op(_)) == SumSeq([i \in 1..Len(queue) |-> Op(queue[i])])
LenOf(seg) == seg.len
PbufsOf(seg) == seg.n

\* The ACK part of tcp_receive.
tcp_receive_ack(p, ackno, wnd, data, order) ==
  LET q == UpdateWindow(p, ackno, wnd, order)
      r == IF ackno <= p.lastack THEN DuplicateAck(p, q, ackno, data) ELSE NewAck(q, ackno)
      unsent == IF ackno <= r.snd_nxt THEN Unacked(r.unsent, ackno) ELSE r.unsent
      before == q.unacked \o q.unsent
      after == r.unacked \o unsent
      recv_acked == SumOf(before, LenOf) - SumOf(after, LenOf)
  IN [r EXCEPT !.unsent = unsent,
               !.unsent_oversize = IF unsent = <<>> THEN 0 ELSE @,
               !.snd_queuelen = @ - (SumOf(before, PbufsOf) - SumOf(after, PbufsOf)),
               !.snd_buf = @ + recv_acked]

=============================================================================

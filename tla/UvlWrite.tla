------------------------------ MODULE UvlWrite ------------------------------
(***************************************************************************)
(* Writing to a console through the lwIP binding (uv_lwip/uv_lwip.c): the  *)
(* queue of uvl_write requests, what uvl_async_tcp_write_cb gives to lwIP  *)
(* (TcpOut), the acknowledgements that uvl_client_sent_func takes off the  *)
(* requests, and closing.  Below is a network that loses and reorders      *)
(* segments and loses and repeats acknowledgements, and a console.         *)
(*                                                                         *)
(* The user of the binding writes and closes whenever it likes; Gateway    *)
(* models the user the program has.  A request has one buffer, as all of   *)
(* the program's requests have.  uv_async_send is the flag write_req: the  *)
(* loop runs the callback once, however often it was sent.  Nothing of the *)
(* console's own data waits in the receive buffer, so that tcp_close sends *)
(* a FIN and not a RST; UvlRead and Gateway have that side.  malloc and    *)
(* the network interface do not fail, with one exception: SendFails.       *)
(***************************************************************************)
EXTENDS TcpOut

CONSTANTS
  PeerWnd,    \* receive buffer of the console
  FirstWnd,   \* what it may offer of it at first
  Resends,    \* whether it sends data of its own again
  Lens,       \* bound: the lengths of the requests the user may write, in order
  MaxAcks     \* bound: acknowledgements under way

ASSUME UvlWriteAssumption ==
  /\ PeerWnd \in Nat /\ PeerWnd >= 2 * TCP_MSS  \* tcp_write cuts segments at TCP_MSS
  /\ FirstWnd \subseteq 0..PeerWnd
  /\ Resends \in BOOLEAN
  /\ Lens \in Seq(Nat \ {0}) /\ MaxAcks \in Nat \ {0}

VARIABLES
  pcb,      \* lwIP's pcb
  client,   \* uvl_tcp_t: queue (cur_write ... tail_write), closed, closing, write_req
  net,      \* segments on the way to the console
  acks,     \* acknowledgements on the way back
  console,  \* nxt: the byte it expects; edge: the end of the window it offered
  stream,   \* the bytes that tcp_write copied, by their place in what was written
  lens,     \* lengths of the requests
  answer    \* what write_cb said, request by request

vars == <<pcb, client, net, acks, console, stream, lens, answer>>

\* Bytes written so far; a request starts at the byte after them.
Written == SumSeq(lens)
MaxBytes == SumSeq(Lens)

\* The connection may have carried data before that the console did not read.
Init ==
  /\ \E wnd \in FirstWnd : /\ pcb = tcp_alloc(wnd)
                           /\ console = [nxt |-> 1, edge |-> 1 + wnd]
  /\ client = [queue |-> <<>>, closed |-> FALSE, closing |-> FALSE, write_req |-> FALSE]
  /\ net = {} /\ acks = {}
  /\ stream = <<>> /\ lens = <<>> /\ answer = <<>>

\* A step ends with pcb p: the network has what p sent.
Commit(p) ==
  /\ pcb' = [p EXCEPT !.out = {}]
  /\ net' = net \cup p.out

-----------------------------------------------------------------------------
(* Operators over the state of the loop: c is the client, p the pcb. *)

\* The next n bytes of a request, as tcp_write copies them.
Copied(req, n) == [j \in 1..n |-> req.first + req.sent + j - 1]

\* uvl_imp_write_buf_to_tcp for the i-th request of w.c.queue.  One tcp_write
\* is enough: it takes the rest of the request or fills the send buffer.
\* more: the loop of uvl_imp_write_to_tcp goes on with the next request.
uvl_imp_write_buf_to_tcp(w, i) ==
  LET req == w.c.queue[i]
      to_write == MinOf(req.len - req.sent, w.p.snd_buf)
      res == tcp_write(w.p, to_write)
      done == [req EXCEPT !.sent = @ + to_write, !.pending = @ + to_write,
                          !.total_sent = @ + to_write]
      v == IF to_write = 0 THEN w
           ELSE [w EXCEPT !.p = res.pcb, !.c.queue[i] = done,
                          !.stream = @ \o Copied(req, to_write)]
  IN IF to_write > 0 /\ ~res.ok THEN [w EXCEPT !.p = res.pcb, !.more = FALSE]
     ELSE IF v.p.snd_buf = 0 THEN [v EXCEPT !.more = FALSE]
     ELSE [v EXCEPT !.c.queue[i].sent = 0, !.c.queue[i].sent_bufs = @ + 1]

\* The loops of uvl_imp_write_to_tcp: requests with a buffer left, in order.
GiveOne(w, i) ==
  IF ~w.more \/ w.c.queue[i].sent_bufs = 1 THEN w ELSE uvl_imp_write_buf_to_tcp(w, i)

GiveToTcp(c, p) ==
  LET after[i \in 0..Len(c.queue)] ==
        IF i = 0 THEN [c |-> c, p |-> p, stream |-> stream, more |-> TRUE]
        ELSE GiveOne(after[i - 1], i)
  IN after[Len(c.queue)]

\* tcp_close of an established connection: tcp_close_shutdown_fin.
tcp_close(p) == tcp_output([tcp_send_fin(p) EXCEPT !.state = "FIN_WAIT_1"], FALSE)

\* Mutant: write_cb is told that the request succeeded.
CanceledOk(c) == [i \in 1..Len(c.queue) |-> "ok"]

\* uvl_cancel_reqs: every request in the queue is answered.
Canceled(c) == [i \in 1..Len(c.queue) |-> "canceled"]

uvl_cancel_reqs(c) == [c EXCEPT !.queue = <<>>]

\* Mutant: len is taken off every request.
uvl_client_sent_func_each(c, len) ==
  LET Taken(i) == MinOf(c.queue[i].pending, len)
  IN [c EXCEPT !.queue = [i \in 1..Len(c.queue) |->
                            [c.queue[i] EXCEPT !.pending = @ - Taken(i)]],
               !.write_req = TRUE]

\* Mutant: the loop is not told to go on.
uvl_client_sent_func_quiet(c, len) ==
  LET Before(i) == SumOf(SubSeq(c.queue, 1, i - 1), LAMBDA req : req.pending)
      Taken(i) == MinOf(c.queue[i].pending, MaxOf(0, len - Before(i)))
  IN [c EXCEPT !.queue = [i \in 1..Len(c.queue) |->
                            [c.queue[i] EXCEPT !.pending = @ - Taken(i)]]]

\* uvl_client_sent_func: len acknowledged bytes are taken off the requests.
uvl_client_sent_func(c, len) ==
  LET Before(i) == SumOf(SubSeq(c.queue, 1, i - 1), LAMBDA req : req.pending)
      Taken(i) == MinOf(c.queue[i].pending, MaxOf(0, len - Before(i)))
  IN [c EXCEPT !.queue = [i \in 1..Len(c.queue) |->
                            [c.queue[i] EXCEPT !.pending = @ - Taken(i)]],
               !.write_req = TRUE]

-----------------------------------------------------------------------------
(* The user and the loop *)

uvl_write(n) ==
  /\ ~client.closing
  /\ client' = [client EXCEPT
       !.queue = Append(@, [first |-> Written + 1, len |-> n, sent |-> 0, sent_bufs |-> 0,
                            pending |-> 0, total_sent |-> 0]),
       !.write_req = TRUE]
  /\ lens' = Append(lens, n)
  /\ UNCHANGED <<pcb, net, acks, console, stream, answer>>

\* The first part of uvl_async_tcp_write_cb: requests whose bytes were all
\* given to lwIP and acknowledged leave the queue.
Finished(c) ==
  Max({k \in 0..Len(c.queue) :
         \A i \in 1..k : c.queue[i].total_sent = c.queue[i].len /\ c.queue[i].pending = 0})

Popped(c) ==
  [c EXCEPT !.queue = SubSeq(@, Finished(c) + 1, Len(@)), !.write_req = FALSE]

Answered(c) == answer \o [i \in 1..Finished(c) |-> "ok"]

uvl_async_tcp_write_cb ==
  LET c == Popped(client)
      w == GiveToTcp(c, pcb)
  IN /\ client.write_req /\ ~client.closing
     /\ UNCHANGED <<acks, console, lens>>
     /\ \/ /\ client.closed
           /\ answer' = Answered(client) \o Canceled(c)
           /\ client' = uvl_cancel_reqs(c)
           /\ UNCHANGED <<pcb, net, stream>>
        \/ /\ ~client.closed
           /\ answer' = Answered(client)
           /\ IF c.queue = <<>>
              THEN client' = c /\ UNCHANGED <<pcb, net, stream>>
              ELSE /\ client' = w.c /\ stream' = w.stream
                   /\ Commit(tcp_output(w.p, FALSE))

\* The same, when the interface refuses the first segment of tcp_output:
\* uvl_client_close_func.  The client stays closed until its user closes it.
SendFails ==
  LET c == Popped(client)
      w == GiveToTcp(c, pcb)
  IN /\ client.write_req /\ ~client.closing /\ ~client.closed /\ c.queue # <<>>
     /\ tcp_output(w.p, FALSE).out # {}
     /\ answer' = Answered(client)
     /\ client' = [w.c EXCEPT !.closed = TRUE]
     /\ stream' = w.stream
     /\ Commit(tcp_close([w.p EXCEPT !.memerr = TRUE]))
     /\ UNCHANGED <<acks, console, lens>>

\* uvl_tcp_close
uvl_tcp_close ==
  /\ ~client.closing
  /\ answer' = answer \o Canceled(client)
  /\ client' = [uvl_cancel_reqs(client) EXCEPT !.closed = TRUE, !.closing = TRUE,
                                               !.write_req = FALSE]
  /\ IF client.closed THEN UNCHANGED <<pcb, net>> ELSE Commit(tcp_close(pcb))
  /\ UNCHANGED <<acks, console, stream, lens>>

-----------------------------------------------------------------------------
(* lwIP's input and timers *)

\* tcp_input of an acknowledgement: tcp_receive, the sent callback (none once
\* the client is closed), tcp_output.  It may come with data, which may be
\* acknowledged at once (acknow).
tcp_input(ack, data, order, acknow) ==
  LET p == tcp_receive_ack(pcb, ack.ackno, ack.wnd, data, order)
      recv_acked == p.snd_buf - pcb.snd_buf
  IN /\ pcb.state # "CLOSED"
     /\ UNCHANGED <<console, stream, lens, answer>>
     /\ client' = IF recv_acked > 0 /\ ~client.closed
                  THEN uvl_client_sent_func(client, recv_acked) ELSE client
     /\ Commit(tcp_output(p, acknow))

\* How the sequence number of a segment with ack lies to that of the segment
\* which pcb's window is from.  A console that sends nothing again sends its
\* sequence numbers, acknowledgements and windows in order: either ack was sent
\* later, and none of them is smaller, or earlier, and none is greater.  Data
\* that is sent again has its old sequence number and a new acknowledgement.
MayCome(ack, order) ==
  LET edge == ack.ackno + ack.wnd
      known == pcb.snd_wl2 + pcb.snd_wnd
  IN \/ Resends
     \/ order # "before" /\ ack.ackno >= pcb.snd_wl2 /\ edge >= known
     \/ order # "after" /\ ack.ackno <= pcb.snd_wl2 /\ edge <= known

\* An acknowledgement may arrive again later (keep).  The console sends data
\* only while the client is open; UvlRead has what follows if it goes on.
AckArrives ==
  \E ack \in acks, order \in {"before", "same", "after"}, keep, data, acknow \in BOOLEAN :
    /\ acknow => data
    /\ data => ~client.closed
    /\ MayCome(ack, order)
    /\ acks' = IF keep THEN acks ELSE acks \ {ack}
    /\ tcp_input(ack, data, order, acknow)

\* tcp_slowtmr: give up after TCP_MAXRTX retransmissions; else the persist or
\* the retransmission timer may have expired; then tcp_output.
GiveUp ==
  /\ pcb.state # "CLOSED" /\ pcb.nrtx >= TCP_MAXRTX
  /\ pcb' = [pcb EXCEPT !.state = "CLOSED", !.unsent = <<>>, !.unacked = <<>>]
  /\ client' = [client EXCEPT !.closed = TRUE]           \* uvl_client_err_func
  /\ UNCHANGED <<net, acks, console, stream, lens, answer>>

TimerExpired(p) ==
  IF p.persist THEN tcp_zero_window_probe(p)
  ELSE tcp_rexmit_rto([p EXCEPT
         !.ssthresh = MaxOf(MinOf(p.cwnd, p.snd_wnd) \div 2, 2 * TCP_MSS),
         !.cwnd = TCP_MSS])

TimerRuns == pcb.state # "CLOSED" /\ (pcb.persist \/ (pcb.rtime /\ pcb.unacked # <<>>))

tcp_slowtmr(expired) ==
  /\ pcb.state # "CLOSED" /\ pcb.nrtx < TCP_MAXRTX
  /\ expired => TimerRuns
  /\ UNCHANGED <<client, acks, console, stream, lens, answer>>
  /\ Commit(tcp_output(IF expired THEN TimerExpired(pcb) ELSE pcb, FALSE))

-----------------------------------------------------------------------------
(* The network and the console's TCP: external *)

\* The console takes what continues its stream and fits its buffer, and
\* acknowledges every segment.
Receive(seg) ==
  LET data == MaxOf(console.nxt, MinOf(seg.seqno + seg.len, console.edge))
      fin == seg.fin /\ data = seg.seqno + seg.len
      nxt == IF seg.seqno > console.nxt \/ EndOf(seg) <= console.nxt THEN console.nxt
             ELSE data + (IF fin THEN 1 ELSE 0)
  IN /\ net' = net \ {seg}
     /\ UNCHANGED <<pcb, client, stream, lens, answer>>
     /\ console' = [console EXCEPT !.nxt = nxt, !.edge = MaxOf(@, nxt)]
     /\ acks' = acks \cup {[ackno |-> nxt, wnd |-> console'.edge - nxt]}
     /\ Cardinality(acks') <= MaxAcks

SegmentArrives == \E seg \in net : Receive(seg)

\* The console's program reads: the window opens, by a segment at least, as
\* TCP demands of receivers (silly window syndrome).
CanOpen == console.edge + TCP_MSS <= console.nxt + PeerWnd

ConsoleReads ==
  /\ \E edge \in console.edge + TCP_MSS .. console.nxt + PeerWnd :
       console' = [console EXCEPT !.edge = edge]
  /\ acks' = acks \cup {[ackno |-> console.nxt, wnd |-> console'.edge - console.nxt]}
  /\ Cardinality(acks') <= MaxAcks
  /\ UNCHANGED <<pcb, client, net, stream, lens, answer>>

Lose ==
  /\ \/ \E seg \in net : net' = net \ {seg} /\ UNCHANGED acks
     \/ \E ack \in acks : acks' = acks \ {ack} /\ UNCHANGED net
  /\ UNCHANGED <<pcb, client, console, stream, lens, answer>>

Next ==
  \/ Len(lens) < Len(Lens) /\ uvl_write(Lens[Len(lens) + 1])
  \/ uvl_async_tcp_write_cb
  \/ SendFails
  \/ uvl_tcp_close
  \/ AckArrives
  \/ GiveUp
  \/ tcp_slowtmr(TRUE)
  \/ tcp_slowtmr(FALSE)
  \/ SegmentArrives
  \/ ConsoleReads
  \/ Lose

Spec == Init /\ [][Next]_vars

\* The poll of tcp_slowtmr would change something.
HasOutput == pcb.state # "CLOSED" /\ tcp_output(pcb, FALSE) # pcb

\* The loop runs its callbacks and timers, the console reads all it has again
\* and again, and what is sent again and again arrives at last.  A step that
\* ends the condition P that it waits for is weakly fair iff P does not hold
\* for ever; the other actions have the conditions under which they are enabled
\* written out.
FairSpec ==
  /\ Spec
  /\ []<>~(client.write_req /\ ~client.closing)              \* uvl_async_tcp_write_cb
  /\ []<>~(pcb.state # "CLOSED" /\ pcb.nrtx >= TCP_MAXRTX)   \* GiveUp
  /\ []<>~(HasOutput /\ pcb.nrtx < TCP_MAXRTX)               \* tcp_slowtmr(FALSE)
  /\ []<>~CanOpen                                           \* ConsoleReads
  /\ <>[](TimerRuns /\ pcb.nrtx < TCP_MAXRTX) => []<><<tcp_slowtmr(TRUE)>>_vars
  /\ []<>(net # {} /\ acks = {}) => []<><<SegmentArrives>>_vars
  /\ []<>(acks # {} /\ pcb.state # "CLOSED") => []<><<AckArrives>>_vars

-----------------------------------------------------------------------------
Seqno == 1 .. MaxBytes + 2
Segment == [seqno : Seqno, len : 0..TCP_MSS, fin : BOOLEAN, n : 1..TCP_SND_QUEUELEN]

\* The types of the variables: the fields of the pcb, of the client and of
\* its requests (struct tcp_pcb, uvl_tcp_t, uvl_write_t).
TypeOK ==
  /\ pcb \in [state : {"ESTABLISHED", "FIN_WAIT_1", "CLOSED"},
              unsent : Seq(Segment), unacked : Seq(Segment), unsent_oversize : 0..TCP_MSS,
              lastack : Seqno, snd_nxt : Seqno, snd_lbb : Seqno, snd_buf : 0..TCP_SND_BUF,
              snd_queuelen : 0..TCP_SND_QUEUELEN + 2, snd_wnd : 0..PeerWnd, snd_wl2 : Seqno,
              cwnd : TCP_MSS..CwndMod - 1, ssthresh : 2 * TCP_MSS..CwndMod - 1,
              dupacks : 0..DupMod - 1, nrtx : 0..TCP_MAXRTX + 1, rtime : BOOLEAN,
              persist : BOOLEAN, infr : BOOLEAN, memerr : BOOLEAN, fin : BOOLEAN, out : {{}}]
  /\ client.queue \in Seq([first : Seqno, len : 1..MaxBytes, sent : 0..MaxBytes,
                           sent_bufs : 0..1, pending : 0..MaxBytes, total_sent : 0..MaxBytes])
  /\ {client.closed, client.closing, client.write_req} \subseteq BOOLEAN
  /\ console \in [nxt : Seqno, edge : 1..MaxBytes + PeerWnd + 2]
  /\ Range(answer) \subseteq {"ok", "canceled"}

\* lwIP's queues, as its assertions want them (tcp_out.c:340, 455, 473, 698;
\* tcp_in.c:1197): unacked and unsent together hold, in order and without a
\* gap, what is not acknowledged, however segments were sent again, appended
\* to and acknowledged in part; snd_buf and snd_queuelen account for them.
QueuesContiguous ==
  pcb.state # "CLOSED" =>
    LET all == pcb.unacked \o pcb.unsent
        n == Len(all)
    IN /\ \A i \in 1..n - 1 : all[i + 1].seqno = EndOf(all[i])
       /\ n > 0 => /\ all[1].seqno <= pcb.lastack /\ pcb.lastack < EndOf(all[1])
                   /\ pcb.snd_lbb = all[n].seqno + MaxOf(1, all[n].len)
       /\ n = 0 => pcb.lastack >= pcb.snd_lbb
       /\ pcb.snd_buf + SumOf(all, LenOf) = TCP_SND_BUF
       /\ pcb.snd_queuelen = SumOf(all, PbufsOf)
       /\ pcb.unsent = <<>> => pcb.unsent_oversize = 0
       /\ pcb.unsent # <<>> => pcb.unsent_oversize <= TCP_MSS - all[n].len

\* The bytes that lwIP holds are those that requests wait for: so the loop of
\* uvl_client_sent_func (uv_lwip.c:324), which follows req->next without a
\* test, never runs off the queue.
PendingIsHeld ==
  ~client.closed =>
    SumOf(client.queue, LAMBDA req : req.pending) = TCP_SND_BUF - pcb.snd_buf

\* uvl_imp_write_buf_to_tcp copies the bytes in the order in which they were
\* written and leaves none out, across full send buffers and ERR_MEM.
CopiedInOrder == stream = [i \in 1..Len(stream) |-> i]

\* The requests of uvl_write and lwIP's queues agree on what was written, what
\* was copied and what is not acknowledged.
SenderConsistent == QueuesContiguous /\ PendingIsHeld /\ CopiedInOrder

\* "Sequence number of next byte to be buffered" (lwip/tcp.h:269, of snd_lbb):
\* tcp_write gives every byte in the queues a sequence number of its own.
NumberedOnce ==
  LET all == Range(pcb.unacked \o pcb.unsent)
  IN \A s, t \in all : s.seqno < t.seqno => s.seqno + s.len <= t.seqno

SendsWithin ==
  \A seg \in net' \ net :
    \/ pcb.persist /\ tcp_slowtmr(TRUE) /\ seg \in tcp_zero_window_probe(pcb).out
    \/ /\ seg.seqno + seg.len <= console.nxt + PeerWnd
       /\ pcb'.snd_wl2 = pcb'.lastack => seg.seqno + seg.len <= console.edge

\* lwIP sends nothing beyond the window that the console offered, except the
\* byte of a zero window probe, also when it sends again and after a window that
\* opened in part.  When the newest acknowledgement came on data that the console
\* sent again, the window is an older one (tcp_in.c:1053) and lwIP may go beyond
\* it: but never beyond the room that the console has in all.
WithinWindow == [][SendsWithin]_vars

UnackedTimed ==
  pcb.state # "CLOSED" /\ pcb.unacked # <<>> => pcb.rtime \/ pcb.persist

\* What is not acknowledged is under a timer, so that no lost acknowledgement
\* leaves the connection waiting for ever: data on the unacked queue; and unsent
\* data, which else the next poll of tcp_slowtmr sends or, when the window is
\* too small for it (tcp_out.c:1080), puts under the persist timer.
UnderATimer ==
  /\ UnackedTimed
  /\ pcb.state # "CLOSED" /\ pcb.unsent # <<>> =>
       \/ TimerRuns
       \/ tcp_output(pcb, FALSE).persist
       \/ tcp_output(pcb, FALSE).unacked # <<>>

\* The binding implements ByteStream: success means that the console has the
\* bytes (not just lwIP), in order.
Stream == INSTANCE ByteStream WITH received <- MinOf(console.nxt - 1, Len(stream))
StreamSpec == Stream!StreamSpec

\* Each request is answered at last, or the connection is found closed.
EventuallyAnswered == client.queue # <<>> ~> (client.queue = <<>> \/ client.closed)

\* What lwIP took before the client was closed still reaches the console,
\* with the FIN after it (tcp_close), unless lwIP gives up.
ClosedGracefully ==
  pcb.fin ~> (pcb.state = "CLOSED" \/ console.nxt = Len(stream) + 2)

=============================================================================

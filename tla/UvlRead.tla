------------------------------ MODULE UvlRead -------------------------------
(***************************************************************************)
(* Reading from a console through the lwIP binding (uv_lwip/uv_lwip.c):    *)
(* the receive buffer between uvl_client_recv_func and                     *)
(* uvl_async_tcp_read_cb, reading that is started and stopped, the FIN,    *)
(* the RST and closing, on top of lwIP's receiving half (TcpIn).  Below is *)
(* a network that loses, repeats and reorders, and a console that sends    *)
(* Total bytes and a FIN, cut into segments as it likes.                   *)
(*                                                                         *)
(* Every segment that the console was ever allowed to send may arrive at   *)
(* any time, so the network needs no state in that direction.  ack is the  *)
(* ACK that is on its way to the console; a later one replaces it, and     *)
(* what the console learns from it never takes back what it knew.  After   *)
(* the client is closed only what lwIP tells the console is of interest.   *)
(***************************************************************************)
EXTENDS TcpIn

CONSTANTS
  Total,      \* bound: bytes the console has to send
  CountsFin   \* whether the console's FIN has to fit the window, too

ASSUME UvlReadAssumption == Total \in Nat \ {0} /\ CountsFin \in BOOLEAN

VARIABLES
  pcb,      \* lwIP's pcb
  client,   \* uvl_tcp_t: recv_buf, read_req, read_cb (whether it is set), closed, closing
  console,  \* una: the first byte it must keep; edge: the end of the window it knows
  ack,      \* the acknowledgement under way
  handed    \* the bytes that read_cb was given

vars == <<pcb, client, console, ack, handed>>

UVL_TCP_RECV_BUF_LEN == TCP_WND

Init ==
  /\ pcb = tcp_alloc
  /\ client = [recv_buf |-> <<>>, read_req |-> FALSE, read_cb |-> FALSE,
               closed |-> FALSE, closing |-> FALSE]
  /\ console = [una |-> 1, edge |-> 1 + TCP_WND]
  /\ ack = NoAck /\ handed = <<>>

\* A step ends with pcb p: what it acknowledged is under way.
Commit(p) ==
  /\ pcb' = [p EXCEPT !.out = NoAck, !.recv_data = <<>>, !.got_fin = FALSE]
  /\ ack' = IF p.out = NoAck THEN ack ELSE p.out

-----------------------------------------------------------------------------
(* Closing: operators over the pcb and the client *)

\* Mutant: always a FIN.
tcp_close_fin(p) ==
  [p EXCEPT !.rxclosed = TRUE,
            !.state = IF @ = "CLOSE_WAIT" THEN "LAST_ACK" ELSE "FIN_WAIT_1"]

\* tcp_close: a RST when the program has not taken all data, else a FIN.
tcp_close(p) ==
  IF p.rcv_wnd # TCP_WND \/ p.refused_data # <<>>
  THEN [p EXCEPT !.rxclosed = TRUE, !.state = "RESET", !.ooseq = <<>>]
  ELSE [p EXCEPT !.rxclosed = TRUE,
                 !.state = IF @ = "CLOSE_WAIT" THEN "LAST_ACK" ELSE "FIN_WAIT_1"]

\* uvl_client_freed: read_cb, if set, is told the end and forgotten.  What is
\* in recv_buf stays there for ever.
uvl_client_freed(c) == [c EXCEPT !.closed = TRUE, !.read_cb = FALSE]

-----------------------------------------------------------------------------
(* lwIP's input *)

\* uvl_client_recv_func with data: into recv_buf, or refused.
uvl_client_recv_func(c, data) ==
  [c EXCEPT !.recv_buf = @ \o data, !.read_req = TRUE]

HasRoom(c, data) == Len(data) <= UVL_TCP_RECV_BUF_LEN - Len(c.recv_buf)

\* tcp_process of a data segment.
tcp_process(p, seg) ==
  LET q == tcp_receive(p, seg)
  IN IF q.got_fin THEN [q EXCEPT !.now = TRUE, !.state = "CLOSE_WAIT"] ELSE q

\* The FIN's place in the window is given back (tcp_in.c:486).
FinTaken(p) == [p EXCEPT !.rcv_wnd = MinOf(@ + 1, TCP_WND)]

\* tcp_input for a client that is open: tcp_process, the recv callback with
\* the data and then, for a FIN, without, tcp_output.
tcp_input(seg) ==
  LET p == tcp_process(pcb, seg)
      refused == p.recv_data # <<>> /\ ~HasRoom(client, p.recv_data)
      q == IF refused THEN [p EXCEPT !.refused_data = p.recv_data] ELSE p
      c == IF p.recv_data = <<>> \/ refused THEN client
           ELSE uvl_client_recv_func(client, p.recv_data)
      fin == p.got_fin /\ ~refused
  IN /\ ~client.closed
     /\ IF fin
        THEN /\ Commit(tcp_output(tcp_close(FinTaken(q))))
             /\ client' = uvl_client_freed(c)
        ELSE /\ Commit(tcp_output(q))
             /\ client' = c
     /\ UNCHANGED <<console, handed>>

\* A pcb that is freed; state says whether the console is told (RESET) or not.
Freed(p, state) == [p EXCEPT !.state = state, !.ooseq = <<>>]

\* tcp_process after tcp_close without a RST.  acked: the segment acknowledges
\* the FIN of tcp_close.
tcp_process_closed(p, seg, acked) ==
  LET q == tcp_receive(p, seg)
      fin_acked == acked \/ p.state = "FIN_WAIT_2"
  IN IF ~q.got_fin THEN [q EXCEPT !.state = IF fin_acked THEN "FIN_WAIT_2" ELSE @]
     ELSE IF ~fin_acked THEN [q EXCEPT !.now = TRUE, !.state = "CLOSING"]
     ELSE [q EXCEPT !.now = TRUE, !.state = "TIME_WAIT", !.ooseq = <<>>]

\* tcp_input then: new data makes lwIP abort, which tells the console unless the
\* FIN that came with it has led to TIME_WAIT (tcp_abandon).
InputAfterClose(seg, acked) ==
  LET p == tcp_process_closed(pcb, seg, acked)
  IN /\ client.closed /\ pcb.state \in {"FIN_WAIT_1", "FIN_WAIT_2"}
     /\ IF p.recv_data = <<>> THEN Commit(tcp_output(IF p.got_fin THEN FinTaken(p) ELSE p))
        ELSE IF p.state # "TIME_WAIT" THEN Commit(Freed(p, "RESET"))
        ELSE pcb' = Freed(pcb, "GONE") /\ UNCHANGED ack
     /\ UNCHANGED <<client, console, handed>>

\* tcp_input without a pcb for the segment: a RST.
InputWithoutPcb ==
  /\ pcb.state = "GONE"
  /\ pcb' = Freed(pcb, "RESET")
  /\ UNCHANGED <<client, console, ack, handed>>

\* tcp_input of a RST: only one that is exactly in sequence counts.
ResetArrives(seqno) ==
  /\ ~client.closed
  /\ IF seqno = pcb.rcv_nxt
     THEN /\ pcb' = [pcb EXCEPT !.state = "RESET", !.ooseq = <<>>]
          /\ client' = uvl_client_freed(client)         \* uvl_client_err_func
          /\ UNCHANGED ack
     ELSE /\ Commit(tcp_output([pcb EXCEPT
               !.now = @ \/ TCP_SEQ_BETWEEN(seqno, pcb.rcv_nxt, pcb.rcv_nxt + pcb.rcv_wnd)]))
          /\ UNCHANGED client
  /\ UNCHANGED <<console, handed>>

-----------------------------------------------------------------------------
(* lwIP's timers and output *)

\* tcp_fasttmr: delayed acknowledgements.
tcp_fasttmr ==
  /\ ~client.closed /\ pcb.delay
  /\ Commit(tcp_send_empty_ack(pcb))
  /\ UNCHANGED <<client, console, handed>>

\* tcp_slowtmr: out-of-sequence data that waited too long is dropped.
DropOoseq ==
  /\ ~client.closed /\ pcb.ooseq # <<>>
  /\ pcb' = [pcb EXCEPT !.ooseq = <<>>]
  /\ UNCHANGED <<client, console, ack, handed>>

\* tcp_slowtmr removes the pcb: too many retransmissions, too long in FIN_WAIT_2,
\* or all is over.  uvl_client_err_func frees a client that is still open.
PcbRemoved ==
  /\ pcb.state \notin {"RESET", "GONE"}
  /\ pcb' = Freed(pcb, "GONE")
  /\ client' = uvl_client_freed(client)
  /\ UNCHANGED <<console, ack, handed>>

\* tcp_output_segment: data for the console leaves and acknowledges.
tcp_output_segment ==
  /\ ~client.closed
  /\ Commit(tcp_send_empty_ack(pcb))
  /\ UNCHANGED <<client, console, handed>>

-----------------------------------------------------------------------------
(* The binding *)

\* uvl_async_tcp_read_cb: read_cb gets all of recv_buf.  It may call
\* uvl_read_stop, which the program does nowhere else but before closing.
uvl_async_tcp_read_cb ==
  /\ client.read_req /\ ~client.closing
  /\ IF client.read_cb /\ client.recv_buf # <<>>
     THEN \E goes_on \in BOOLEAN :
            /\ Commit(tcp_recved(pcb, Len(client.recv_buf)))
            /\ handed' = handed \o client.recv_buf
            /\ client' = [client EXCEPT !.recv_buf = <<>>, !.read_req = FALSE,
                                        !.read_cb = goes_on]
     ELSE /\ client' = [client EXCEPT !.read_req = FALSE]
          /\ UNCHANGED <<pcb, ack, handed>>
  /\ UNCHANGED console

\* Mutant: no uv_async_send.
uvl_read_start_quiet ==
  /\ ~client.read_cb /\ ~client.closed /\ ~client.closing
  /\ client' = [client EXCEPT !.read_cb = TRUE]
  /\ UNCHANGED <<pcb, console, ack, handed>>

\* uvl_read_start; of a closed client the caller is told the end at once.
uvl_read_start ==
  /\ ~client.read_cb /\ ~client.closed /\ ~client.closing
  /\ client' = [client EXCEPT !.read_cb = TRUE, !.read_req = TRUE]
  /\ UNCHANGED <<pcb, console, ack, handed>>

uvl_tcp_close ==
  /\ ~client.closing
  /\ client' = [uvl_client_freed(client) EXCEPT !.closing = TRUE, !.read_req = FALSE]
  /\ IF client.closed THEN UNCHANGED <<pcb, ack>> ELSE Commit(tcp_close(pcb))
  /\ UNCHANGED <<console, handed>>

-----------------------------------------------------------------------------
(* The console's TCP and the network: external *)

Segment(seqno, len, fin) ==
  [seqno |-> seqno, data |-> [i \in 1..len |-> seqno + i - 1], fin |-> fin]

\* What the console may have sent: data and FIN within the window it knows,
\* and one byte as a probe of a closed window.
Sent(seqno, len, fin) ==
  /\ len <= TCP_MSS /\ seqno + len <= Total + 1
  /\ fin => seqno + len = Total + 1
  /\ \/ seqno + len + (IF fin /\ CountsFin THEN 1 ELSE 0) <= console.edge
     \/ seqno = console.una /\ len = 1 /\ ~fin

Arrives(seqno, len, fin) ==
  /\ Sent(seqno, len, fin)
  /\ \/ tcp_input(Segment(seqno, len, fin))
     \/ \E acked \in BOOLEAN : InputAfterClose(Segment(seqno, len, fin), acked)
     \/ InputWithoutPcb

SegmentArrives ==
  \E seqno \in 1..Total + 1, len \in 0..TCP_MSS, fin \in BOOLEAN : Arrives(seqno, len, fin)

\* The console learns of an acknowledgement.
AckArrives ==
  /\ ack # NoAck
  /\ console' = [una |-> IF ack.ackno > console.una THEN ack.ackno ELSE console.una,
                 edge |-> IF ack.edge > console.edge THEN ack.edge ELSE console.edge]
  /\ ack' = NoAck
  /\ UNCHANGED <<pcb, client, handed>>

AckLost == ack # NoAck /\ ack' = NoAck /\ UNCHANGED <<pcb, client, console, handed>>

Next ==
  \/ SegmentArrives
  \/ \E seqno \in 1..Total + 1 : ResetArrives(seqno)
  \/ tcp_fasttmr
  \/ DropOoseq
  \/ PcbRemoved
  \/ tcp_output_segment
  \/ uvl_async_tcp_read_cb
  \/ uvl_read_start
  \/ uvl_tcp_close
  \/ AckArrives
  \/ AckLost

Spec == Init /\ [][Next]_vars

\* The console's first segment that is not acknowledged, or its probe.
FirstSegment ==
  \E len \in 1..TCP_MSS, fin \in BOOLEAN : Arrives(console.una, len, fin)

\* The loop runs the callback, the user reads on when it has stopped, and what
\* is sent again and again arrives at last, in both directions.
FairSpec ==
  /\ Spec
  /\ <>[](client.read_req /\ ~client.closing) => []<><<uvl_async_tcp_read_cb>>_vars
  /\ <>[](~client.read_cb /\ ~client.closed) => []<><<uvl_read_start>>_vars
  /\ []<>(~client.closed /\ console.una <= Total /\ ack = NoAck) => []<><<FirstSegment>>_vars
  /\ []<>(ack # NoAck) => []<><<AckArrives>>_vars

-----------------------------------------------------------------------------
Bytes == 1..Total
Ack == [ackno : 0..Total + 2, edge : 0..Total + TCP_WND + 2]

\* The types of the variables: the fields of the pcb and of the client
\* (struct tcp_pcb, uvl_tcp_t).
TypeOK ==
  /\ pcb.state \in {"ESTABLISHED", "CLOSE_WAIT", "LAST_ACK", "FIN_WAIT_1", "FIN_WAIT_2",
                    "CLOSING", "TIME_WAIT", "RESET", "GONE"}
  /\ pcb.rcv_nxt \in 1..Total + 2 /\ pcb.rcv_wnd \in 0..TCP_WND
  /\ pcb.rcv_ann_wnd \in 0..TCP_WND
  /\ pcb.rcv_ann_right_edge \in 1..Total + TCP_WND + 2
  /\ pcb.ooseq \in Seq([seqno : 1..Total + 1, data : Seq(Bytes), fin : BOOLEAN])
  /\ pcb.refused_data \in Seq(Bytes)
  /\ {pcb.delay, pcb.now, pcb.rxclosed} \subseteq BOOLEAN
  /\ client \in [recv_buf : Seq(Bytes), read_req : BOOLEAN, read_cb : BOOLEAN,
                 closed : BOOLEAN, closing : BOOLEAN]
  /\ console \in [una : 1..Total + 2, edge : 1..Total + TCP_WND + 2]
  /\ ack \in Ack
  /\ handed \in Seq(Bytes)

\* The program gets the console's bytes in order, each of them once, and what
\* lwIP has acknowledged is either handed over or in recv_buf, however
\* segments overlap, are repeated and come out of order.
InOrder ==
  LET got == handed \o client.recv_buf
  IN /\ got = [i \in 1..Len(got) |-> i]
     /\ ~client.closed => pcb.rcv_nxt = Len(got) + 1

\* The window is the room in recv_buf: so uvl_client_recv_func never finds
\* "no buffer for data !?!" (uv_lwip.c:282) and lwIP never keeps refused data.
WindowIsRoom ==
  /\ ~client.closed => pcb.rcv_wnd + Len(client.recv_buf) = UVL_TCP_RECV_BUF_LEN
  /\ pcb.refused_data = <<>>

\* ooseq, as tcp_receive relies on it when it takes segments from its front:
\* in order and disjoint, behind rcv_nxt, with a FIN at most at its end, and
\* within the window that is left, as LWIP_ASSERT of tcp_in.c:1516 wants it
\* (it aborts the program).
OoseqSound ==
  LET q == pcb.ooseq
  IN \A i \in 1..Len(q) :
       /\ q[i].seqno > pcb.rcv_nxt
       /\ TCP_TCPLEN(q[i]) > 0
       /\ q[i].data = [j \in 1..Len(q[i].data) |-> q[i].seqno + j - 1]
       /\ q[i].seqno + TCP_TCPLEN(q[i]) <= pcb.rcv_nxt + pcb.rcv_wnd
       /\ i < Len(q) => ~q[i].fin /\ DataEnd(q[i]) <= q[i + 1].seqno

\* What was handed over, what is in recv_buf and what waits in ooseq are the
\* console's bytes at their places.
ReceiverConsistent == InOrder /\ OoseqSound

\* lwIP never takes back a window that it has announced, and never announces
\* more than it has.
WindowNeverShrinks ==
  [][ /\ pcb'.rcv_ann_right_edge >= pcb.rcv_ann_right_edge
      /\ ~client'.closed => pcb'.rcv_ann_right_edge <= pcb'.rcv_nxt + pcb'.rcv_wnd ]_vars

\* A console that sees the connection end in good order knows that the program
\* got every byte.  When bytes are left in recv_buf because the FIN overtakes
\* read_cb (uv_lwip.c:273), or arrive after the program has closed, it gets a
\* RST (tcp.c:268, tcp_in.c:435); or lwIP forgets the connection, but then the
\* console's FIN was not acknowledged, and a RST answers it when it comes again.
NoSilentLoss ==
  /\ pcb.state \in {"LAST_ACK", "CLOSING", "TIME_WAIT"} => handed = [i \in 1..Total |-> i]
  /\ pcb.state = "GONE" => \/ handed = [i \in 1..Total |-> i]
                           \/ console.una <= Total + 1 /\ ack.ackno <= Total + 1
  /\ client.closed /\ client.recv_buf # <<>> => pcb.state \in {"RESET", "GONE"}

\* As long as the program reads, all of the console's bytes come through, or
\* the connection ends: no window update that is lost stops it for ever.
EverythingRead == <>(Len(handed) = Total \/ client.closed)

=============================================================================

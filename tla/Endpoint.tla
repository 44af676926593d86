------------------------------ MODULE Endpoint ------------------------------
(***************************************************************************)
(* One arq_t: the public functions of arq.h as operators on its state.     *)
(*                                                                         *)
(* Frames are handled whole: COBS coding, header packing and checksums are *)
(* not in this module, nor is the accumulation of received bytes, so that  *)
(* recv_frame is empty or holds a frame that is present in full.           *)
(***************************************************************************)
EXTENDS SendWnd, RecvWnd, Conn

EndpointType ==
    [send_wnd : SendWndType, send_wnd_ptr : SendWndPtrType,
     send_frame : [state : {"FREE", "HELD", "RELEASED"}, frame : FrameBufType],
     recv_wnd : RecvWndType, recv_frame : FrameBufType,
     need_poll : BOOLEAN, conn : ConnType]

(* arq_init after arq__check_cfg and arq__alloc *)
ArqInit ==
    [send_wnd |-> SendWndRst([j \in SendBufIdx |-> 0]),
     send_wnd_ptr |-> SendWndPtrRst,
     send_frame |-> [state |-> "FREE", frame |-> <<>>],
     recv_wnd |-> RecvWndRst([j \in RecvBufIdx |-> 0]),
     recv_frame |-> <<>>,
     need_poll |-> FALSE,
     conn |-> ConnInit]

(* arq_reset *)
ArqReset(arq) ==
    [send_wnd |-> SendWndRst(arq.send_wnd.buf),
     send_wnd_ptr |-> SendWndPtrRst,
     send_frame |-> [state |-> "FREE", frame |-> <<>>],
     recv_wnd |-> RecvWndRst(arq.recv_wnd.buf),
     recv_frame |-> <<>>,
     need_poll |-> FALSE,
     conn |-> ConnRst(arq.conn)]

(* arq_connect, when it does not return an error *)
ArqConnect(arq) == [arq EXCEPT !.conn = ConnConnect(@)]

(* arq_send and arq_recv return ARQ_ERR_POLL_REQUIRED while need_poll is set. *)
ArqSend(arq, data) == [arq EXCEPT !.send_wnd = SendWndSend(@, data)]

ArqRecv(arq, max) == [arq EXCEPT !.recv_wnd = RecvWndRecv(@, max)]

ArqFlush(arq) == [arq EXCEPT !.send_wnd = SendWndFlush(@)]

(* arq__wnd_seg for the send window: min of unsigned values, so that a
   segment past the end of its message counts as a whole one. *)
WndSegLen(sw, seq, seg) ==
    LET rest == sw.msg[seq % SendCap].len - SegLen * seg
    IN IF rest \in 0..SegLen THEN rest ELSE SegLen

WndSeg(sw, seq, seg) ==
    [k \in 1..WndSegLen(sw, seq, seg) |->
        sw.buf[MsgLen * (seq % SendCap) + SegLen * seg + k - 1]]

(* arq__frame_write *)
FrameWrite(sh, data) == [hdr |-> sh, data |-> data, ok |-> TRUE]

SendFrameFree(arq) == arq.send_frame.frame = <<>> /\ arq.send_frame.state # "HELD"

(* The end of arq_backend_poll: r, s and c are what arq__recv_poll,
   arq__send_poll and arq__conn_poll returned. *)
PollResult(arq, psh, r, s, c) ==
    LET emit == psh /\ (r.sh.ack \/ s.sh.seg \/ c.emit)
        data == IF c.sh.seg THEN WndSeg(s.sw, c.sh.seq_num, c.sh.seg_id) ELSE <<>>
    IN [arq |-> [arq EXCEPT
                   !.recv_wnd = r.rw, !.recv_frame = <<>>,
                   !.send_wnd = s.sw, !.send_wnd_ptr = s.sp,
                   !.conn = c.conn,
                   !.send_frame = IF emit THEN [state |-> "FREE",
                                                frame |-> <<FrameWrite(c.sh, data)>>]
                                  ELSE @,
                   !.need_poll = FALSE],
        event |-> c.event]

PollConn(arq, psh, r, s, dt) ==
    PollResult(arq, psh, r, s, ConnPoll(arq.conn, psh, s.sh, r.rh, dt))

PollSend(arq, psh, r, dt) ==
    PollConn(arq, psh, r,
             SendPoll(arq.send_wnd, arq.send_wnd_ptr, psh, r.sh, r.rh, dt), dt)

(* arq_backend_poll.  The header rh that arq__recv_poll fills in goes on to
   arq__send_poll and arq__conn_poll whether or not its checksum was right. *)
BackendPoll(arq, dt) ==
    LET psh == SendFrameFree(arq)
    IN PollSend(arq, psh,
                RecvPoll(arq.recv_wnd, arq.recv_frame, psh, FrameHdrInit, dt), dt)

(* Defect: the inter-segment timer is forgotten. *)
NextPollNoInterSeg(arq) ==
    LET sw == arq.send_wnd
        rtx == {sw.rtx[(sw.seq + i) % SendCap] : i \in 0..(sw.size - 1)}
        tiny == IF sw.tiny_on THEN {sw.tiny} ELSE {}
        conn == IF UseConnections THEN {ConnNextPoll(arq.conn)} ELSE {}
    IN Min(((rtx \cup tiny) \ {0}) \cup conn \cup {TimeInfinity})

(* arq__next_poll: what arq_backend_poll returns as *out_next_poll. *)
NextPoll(arq) ==
    LET sw == arq.send_wnd
        rw == arq.recv_wnd
        rtx == {sw.rtx[(sw.seq + i) % SendCap] : i \in 0..(sw.size - 1)}
        tiny == IF sw.tiny_on THEN {sw.tiny} ELSE {}
        inter == IF rw.inter_seg_ack_on THEN {rw.inter_seg_ack} ELSE {}
        conn == IF UseConnections THEN {ConnNextPoll(arq.conn)} ELSE {}
    IN Min(((rtx \cup tiny \cup inter) \ {0}) \cup conn \cup {TimeInfinity})

RecvReady(arq) == RecvWndPending(arq.recv_wnd)

(* arq_backend_send_ptr_get *)
SendPtrGet(arq) ==
    [arq EXCEPT !.send_frame.state = IF arq.send_frame.frame # <<>> THEN "HELD" ELSE "FREE"]

(* Defect: the pointer stays held. *)
SendPtrReleaseHeld(arq) == [arq EXCEPT !.send_frame.frame = <<>>, !.need_poll = TRUE]

(* Defect: no poll is required. *)
SendPtrReleaseNoPoll(arq) ==
    [arq EXCEPT !.send_frame = [state |-> "RELEASED", frame |-> <<>>]]

(* arq_backend_send_ptr_release, when the pointer is held *)
SendPtrRelease(arq) ==
    [arq EXCEPT !.send_frame = [state |-> "RELEASED", frame |-> <<>>],
                !.need_poll = TRUE]

(* arq_backend_recv_fill with the bytes of one whole frame *)
RecvFill(arq, frame) ==
    [arq EXCEPT !.recv_frame = <<frame>>, !.need_poll = TRUE]
=============================================================================

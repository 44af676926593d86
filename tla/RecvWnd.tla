------------------------------ MODULE RecvWnd ------------------------------
(***************************************************************************)
(* The receive window of arq.h: arq__recv_wnd_t and the functions on it,   *)
(* up to arq__recv_poll.                                                   *)
(*                                                                         *)
(* A frame is a record of its header hdr, the bytes of its segment, data,  *)
(* and ok, whether arq__frame_read finds its checksum right.  A frame      *)
(* buffer holds at most one frame and is a sequence of length 0 or 1.      *)
(***************************************************************************)
EXTENDS ArqBase

CONSTANTS RecvCap,   \* cfg.recv_window_size_in_messages
          InterSeg   \* cfg.inter_segment_timeout

ASSUME RecvCapAssumption == RecvCap \in Nat \ {0}
ASSUME InterSegAssumption == InterSeg \in Nat

RecvIdx == 0..(RecvCap - 1)
RecvBufIdx == 0..(RecvCap * MsgLen - 1)

RecvWndRst(buf) ==
    [seq |-> 0, size |-> 0, buf |-> buf,
     msg |-> [i \in RecvIdx |-> EmptyMsg],
     ack |-> [i \in RecvIdx |-> FALSE],
     inter_seg_ack |-> TimeInfinity, inter_seg_ack_seq |-> 0, inter_seg_ack_on |-> FALSE,
     copy_seq |-> 0, copy_ofs |-> 0, slide |-> 0]

RecvWndType ==
    [seq : 0..(SeqMod - 1), size : 0..RecvCap, buf : [RecvBufIdx -> Nat],
     msg : [RecvIdx -> MsgType], ack : [RecvIdx -> BOOLEAN],
     inter_seg_ack : Nat, inter_seg_ack_seq : 0..(SeqMod - 1), inter_seg_ack_on : BOOLEAN,
     copy_seq : 0..(SeqMod - 1), copy_ofs : Nat, slide : Nat]

(* A message is no longer than the segments of it that have arrived: this, and not
   a test in arq__recv_wnd_frame, is why another segment fits into its slot. *)
MsgFits(m) ==
    m.cur_ack_vec \subseteq FullAckVec /\ m.len <= SegLen * Cardinality(m.cur_ack_vec)

----------------------------------------------------------------------------
(* arq__recv_wnd_frame *)

NewSize(rw, seq) == (seq - rw.seq + 1) % SeqMod

(* Defect: the bound is off by one. *)
InReachOneMore(rw, seq) ==
    \/ NewSize(rw, seq) <= RecvCap
    \/ NewSize(rw, seq) - rw.slide \in 0..(RecvCap + 1)

(* The unsigned test new_size - slide > cap also rejects new_size < slide. *)
InReach(rw, seq) ==
    \/ NewSize(rw, seq) <= RecvCap
    \/ NewSize(rw, seq) - rw.slide \in 0..RecvCap

(* Defect: what has been slid over is not forgotten. *)
SlideTwice(rw, seq) ==
    IF NewSize(rw, seq) > RecvCap
    THEN [rw EXCEPT !.size = NewSize(rw, seq) - rw.slide,
                    !.seq = (@ + rw.slide) % SeqMod]
    ELSE [rw EXCEPT !.size = Max2(@, NewSize(rw, seq))]

(* Only a message beyond the window makes it slide over what was copied out. *)
Slide(rw, seq) ==
    IF NewSize(rw, seq) > RecvCap
    THEN [rw EXCEPT !.size = NewSize(rw, seq) - rw.slide,
                    !.seq = (@ + rw.slide) % SeqMod,
                    !.slide = 0]
    ELSE [rw EXCEPT !.size = Max2(@, NewSize(rw, seq))]

(* The last segment of a message is acknowledged at once, others after a while.
   There is one timer for the whole window. *)
NoteSeg(rw, seq, final) ==
    IF final THEN [rw EXCEPT !.ack[seq % RecvCap] = TRUE, !.inter_seg_ack_on = FALSE]
    ELSE [rw EXCEPT !.inter_seg_ack = InterSeg, !.inter_seg_ack_seq = seq,
                    !.inter_seg_ack_on = TRUE]

StoreSeg(rw, seq, seg, seg_cnt, data) ==
    LET idx == seq % RecvCap
        dst == MsgLen * idx + SegLen * seg
        new == [rw EXCEPT
                  !.buf = [j \in RecvBufIdx |->
                             IF j \in dst..(dst + Len(data) - 1)
                             THEN data[j - dst + 1] ELSE @[j]],
                  !.msg[idx] = [len |-> @.len + Len(data),
                                cur_ack_vec |-> @.cur_ack_vec \cup {seg},
                                full_ack_vec |-> AckVec(seg_cnt)]]
    IN NoteSeg(new, seq, seg = seg_cnt - 1)

(* Defect: a segment that is here already is stored again. *)
RecvWndFrameNoDupCheck(rw, seq, seg, seg_cnt, data) ==
    IF InReach(rw, seq) THEN StoreSeg(Slide(rw, seq), seq, seg, seg_cnt, data) ELSE rw

RecvWndFrame(rw, seq, seg, seg_cnt, data) ==
    LET w == Slide(rw, seq)
    IN IF ~InReach(rw, seq) THEN rw
       ELSE IF seg \in w.msg[seq % RecvCap].cur_ack_vec
       THEN [w EXCEPT !.ack[seq % RecvCap] = TRUE]
       ELSE StoreSeg(w, seq, seg, seg_cnt, data)

----------------------------------------------------------------------------
(* Defect: one segment is enough. *)
CompleteAnySeg(m) == m.cur_ack_vec # {}

Complete(m) == m.cur_ack_vec = m.full_ack_vec

(* arq__recv_wnd_pending: looks at the start of the window, not at copy_seq. *)
RecvWndPending(rw) == rw.size > 0 /\ Complete(rw.msg[rw.seq % RecvCap])

----------------------------------------------------------------------------
(* arq__recv_wnd_recv.  The loop visits at most size slots from copy_seq and
   stops at the first that is empty or incomplete: what it can copy is the
   concatenation of those messages, from copy_ofs on. *)

CopySlot(rw, i) == (rw.copy_seq + i) % RecvCap

Deliverable(rw) ==
    Min({rw.size} \cup
        {i \in 0..(rw.size - 1) :
            LET m == rw.msg[CopySlot(rw, i)]
            IN m.len = 0 \/ ~Complete(m)})

(* Bytes in the first i deliverable messages. *)
BytesBefore(rw, i) ==
    LET before[k \in Nat] ==
            IF k = 0 THEN 0 ELSE before[k - 1] + rw.msg[CopySlot(rw, k - 1)].len
    IN before[i]

RecvCount(rw, max) ==
    IF Deliverable(rw) = 0 THEN 0
    ELSE Min2(max, BytesBefore(rw, Deliverable(rw)) - rw.copy_ofs)

(* Byte b of that concatenation. *)
CopyByte(rw, b) ==
    LET i == Max({k \in 0..(Deliverable(rw) - 1) : BytesBefore(rw, k) <= b})
    IN rw.buf[CopySlot(rw, i) * MsgLen + b - BytesBefore(rw, i)]

RecvData(rw, max) ==
    [k \in 1..RecvCount(rw, max) |-> CopyByte(rw, rw.copy_ofs + k - 1)]

RecvWndRecv(rw, max) ==
    LET end   == rw.copy_ofs + RecvCount(rw, max)
        done  == Max({k \in 0..Deliverable(rw) : BytesBefore(rw, k) <= end})
        freed == {CopySlot(rw, i) : i \in 0..(done - 1)}
    IN [rw EXCEPT
          !.msg = [i \in RecvIdx |-> IF i \in freed THEN EmptyMsg ELSE @[i]],
          !.copy_ofs = end - BytesBefore(rw, done),
          !.copy_seq = (@ + done) % SeqMod,
          !.slide = @ + done]

----------------------------------------------------------------------------
(* arq__recv_wnd_ack *)
AcksDue(rw) == {i \in 0..(rw.size - 1) : rw.ack[(rw.seq + i) % RecvCap]}

(* The inter-segment timer: once it has gone off, the message it was started
   for is acknowledged. *)
RecvTimer(rw, dt) ==
    LET left == SubSat(rw.inter_seg_ack, dt)
    IN IF ~rw.inter_seg_ack_on THEN rw
       ELSE [rw EXCEPT !.inter_seg_ack = left,
                       !.inter_seg_ack_on = left > 0,
                       !.ack[rw.inter_seg_ack_seq % RecvCap] = @ \/ left = 0]

(* Defect: the message is numbered from the copy cursor. *)
RecvAckPollFromCopy(rw, psh, sh, rh) ==
    LET first == Min(AcksDue(rw))
        idx   == (rw.seq + first) % RecvCap
    IN IF ~psh \/ AcksDue(rw) = {}
       THEN [rw |-> rw, sh |-> sh, rh |-> rh]
       ELSE [rw |-> [rw EXCEPT !.ack[idx] = FALSE],
             sh |-> [sh EXCEPT !.ack = TRUE,
                               !.ack_num = (rw.copy_seq + first) % SeqMod,
                               !.cur_ack_vec = rw.msg[idx].cur_ack_vec],
             rh |-> rh]

(* Puts the first acknowledgement that is due into the header being built. *)
RecvAckPoll(rw, psh, sh, rh) ==
    LET first == rw.seq + Min(AcksDue(rw))
        idx   == first % RecvCap
    IN IF ~psh \/ AcksDue(rw) = {}
       THEN [rw |-> rw, sh |-> sh, rh |-> rh]
       ELSE [rw |-> [rw EXCEPT !.ack[idx] = FALSE],
             sh |-> [sh EXCEPT !.ack = TRUE,
                               !.ack_num = first % SeqMod,
                               !.cur_ack_vec = rw.msg[idx].cur_ack_vec],
             rh |-> rh]

(* arq__recv_poll; psh is FALSE where the code passes a null header.  Returns
   the window, the header being built and the header that was received. *)
RecvPoll(rw, rf, psh, sh, dt) ==
    LET rh    == IF rf = <<>> THEN FrameHdrInit ELSE Head(rf).hdr
        taken == IF rh.seg /\ Head(rf).ok
                 THEN RecvWndFrame(rw, rh.seq_num, rh.seg_id, rh.msg_len, Head(rf).data)
                 ELSE rw
    IN RecvAckPoll(RecvTimer(taken, dt), psh, sh, rh)
=============================================================================

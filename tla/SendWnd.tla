------------------------------ MODULE SendWnd ------------------------------
(***************************************************************************)
(* The send window of arq.h: arq__send_wnd_t, arq__send_wnd_ptr_t and the  *)
(* functions on them, up to arq__send_poll.                                *)
(*                                                                         *)
(* A byte of data is its position in the stream the application sends; 0   *)
(* stands for whatever the buffer held before.                             *)
(***************************************************************************)
EXTENDS ArqBase

CONSTANTS SendCap,  \* cfg.send_window_size_in_messages
          Tiny,     \* cfg.tinygram_send_delay
          Rtx       \* cfg.retransmission_timeout

ASSUME SendCapAssumption == SendCap \in Nat \ {0}
ASSUME SendTimeAssumption == Tiny \in Nat /\ Rtx \in Nat

SendIdx == 0..(SendCap - 1)
SendBytes == SendCap * MsgLen
SendBufIdx == 0..(SendBytes - 1)

(* A window whose memory holds buf.  Neither arq_init nor arq_reset clears it. *)
SendWndRst(buf) ==
    [seq |-> 0, size |-> 0, buf |-> buf,
     msg |-> [i \in SendIdx |-> EmptyMsg],
     rtx |-> [i \in SendIdx |-> 0],
     tiny |-> 0, tiny_on |-> FALSE]

SendWndPtrRst == [valid |-> FALSE, seq |-> 0, seg |-> 0]

SendWndType ==
    [seq : 0..(SeqMod - 1),
     size : 0..SendCap,
     buf : [SendBufIdx -> Nat],
     msg : [SendIdx -> MsgType],
     rtx : [SendIdx -> Nat],
     tiny : Nat,
     tiny_on : BOOLEAN]

(* A pointer that is valid is at a segment that a message can have. *)
SendWndPtrType ==
    {p \in [valid : BOOLEAN, seq : 0..(SeqMod - 1), seg : Nat] : p.valid => p.seg < MsgSegs}

----------------------------------------------------------------------------
(* arq__send_wnd_send *)

(* The message new bytes are appended to (not reduced modulo SeqMod). *)
TailSeq(sw) == sw.seq + SubSat(sw.size, 1)

TailLen(sw) == sw.msg[TailSeq(sw) % SendCap].len

WndSizeInBytes(sw) == SubSat(sw.size, 1) * MsgLen + TailLen(sw)

(* Defect: the bound is off by one. *)
AcceptedOneMore(sw, n) == Min2(n, SendBytes - WndSizeInBytes(sw) + 1)

(* How many of n bytes arq_send takes. *)
Accepted(sw, n) == Min2(n, SendBytes - WndSizeInBytes(sw))

(* Defect: the second memcpy starts where the first one did. *)
CopyInNoWrap(buf, at, data, len) ==
    LET pre == Min2(len, SendBytes - at)
    IN [j \in SendBufIdx |->
            IF j \in at..(at + pre - 1) THEN data[j - at + 1] ELSE buf[j]]

(* The two memcpys: up to the end of the buffer, then from its start. *)
CopyIn(buf, at, data, len) ==
    LET pre == Min2(len, SendBytes - at)
    IN [j \in SendBufIdx |->
            IF j < len - pre THEN data[pre + j + 1]
            ELSE IF j \in at..(at + pre - 1) THEN data[j - at + 1]
            ELSE buf[j]]

SendWndSend(sw, data) ==
    LET seq      == TailSeq(sw)
        last     == TailLen(sw)
        len      == Accepted(sw, Len(data))
        full_cnt == (last + len) \div MsgLen
        rem      == (last + len) - full_cnt * MsgLen
        size     == (WndSizeInBytes(sw) + len + MsgLen - 1) \div MsgLen
        tail     == (sw.seq + size - 1) % SendCap
        filled   == {(seq + i) % SendCap : i \in 0..(full_cnt - 1)}
        fresh    == rem > 0 /\ size > sw.size
    IN IF Len(data) = 0 THEN sw
       ELSE [sw EXCEPT
               !.buf = CopyIn(@, (seq % SendCap) * MsgLen + last, data, len),
               !.size = size,
               !.msg = [i \in SendIdx |->
                          IF rem > 0 /\ i = tail THEN [@[i] EXCEPT !.len = rem]
                          ELSE IF i \in filled THEN [@[i] EXCEPT !.len = MsgLen]
                          ELSE @[i]],
               !.rtx = [i \in SendIdx |->
                          IF fresh /\ i = tail THEN Tiny
                          ELSE IF i \in filled THEN 0
                          ELSE @[i]],
               !.tiny = IF fresh THEN Tiny ELSE @,
               !.tiny_on = rem > 0]

----------------------------------------------------------------------------
(* arq__send_wnd_ack: note that sw.seq > seq does not wrap. *)

(* Defect: the end of the window is not checked. *)
AckInWndNoEnd(sw, seq) == sw.size # 0 /\ sw.seq <= seq

AckInWnd(sw, seq) ==
    /\ sw.size # 0
    /\ sw.seq <= seq
    /\ seq <= sw.seq + sw.size - 1

(* Defect: counts past the first incomplete message. *)
AckedPrefixNoBreak(sw, msg) ==
    Cardinality({i \in 0..(sw.size - 1) :
                    LET m == msg[(sw.seq + i) % SendCap]
                    IN m.cur_ack_vec = m.full_ack_vec})

(* Defect: the loop over the window ends one message early. *)
AckedPrefixSkipsLast(sw, msg) ==
    Min({sw.size - 1} \cup
        {i \in 0..(sw.size - 1) :
            LET m == msg[(sw.seq + i) % SendCap]
            IN m.cur_ack_vec # m.full_ack_vec})

(* Messages at the front of the window that are complete in msg. *)
AckedPrefix(sw, msg) ==
    Min({sw.size} \cup
        {i \in 0..(sw.size - 1) :
            LET m == msg[(sw.seq + i) % SendCap]
            IN m.cur_ack_vec # m.full_ack_vec})

(* Defect: a complete message is freed wherever it is in the window. *)
SendWndAckFreesAny(sw, seq, vec) ==
    LET idx == seq % SendCap
    IN IF ~AckInWnd(sw, seq) THEN sw
       ELSE IF vec = sw.msg[idx].full_ack_vec
       THEN [sw EXCEPT !.msg[idx] = EmptyMsg, !.size = @ - 1, !.seq = (@ + 1) % SeqMod]
       ELSE [sw EXCEPT !.msg[idx].cur_ack_vec = vec, !.rtx[idx] = 0]

SendWndAck(sw, seq, vec) ==
    LET idx   == seq % SendCap
        msg   == [sw.msg EXCEPT ![idx].cur_ack_vec = vec]
        n     == AckedPrefix(sw, msg)
        freed == {(sw.seq + i) % SendCap : i \in 0..(n - 1)}
    IN IF ~AckInWnd(sw, seq) THEN sw
       ELSE [sw EXCEPT
               !.msg = [i \in SendIdx |-> IF i \in freed THEN EmptyMsg ELSE msg[i]],
               !.rtx[idx] = IF vec # msg[idx].full_ack_vec THEN 0 ELSE @,
               !.size = @ - n,
               !.seq = (@ + n) % SeqMod]

----------------------------------------------------------------------------
(* arq__send_wnd_flush *)
SendWndFlush(sw) ==
    LET idx == (sw.seq + sw.size - 1) % SendCap
        len == sw.msg[idx].len
    IN IF sw.size = 0 \/ len = 0 THEN sw
       ELSE [sw EXCEPT !.msg[idx].full_ack_vec = AckVec(SegCount(len)),
                       !.rtx[idx] = 0]

(* Defect: the last message's timer stands still. *)
SendWndStepSkipsLast(sw, dt) ==
    LET inWnd == {(sw.seq + i) % SendCap : i \in 0..(sw.size - 2)}
    IN [sw EXCEPT !.rtx = [i \in SendIdx |->
                             IF i \in inWnd THEN SubSat(@[i], dt) ELSE @[i]],
                  !.tiny = IF sw.tiny_on THEN SubSat(@, dt) ELSE @]

(* arq__send_wnd_step *)
SendWndStep(sw, dt) ==
    LET inWnd == {(sw.seq + i) % SendCap : i \in 0..(sw.size - 1)}
    IN [sw EXCEPT !.rtx = [i \in SendIdx |->
                             IF i \in inWnd THEN SubSat(@[i], dt) ELSE @[i]],
                  !.tiny = IF sw.tiny_on THEN SubSat(@, dt) ELSE @]

----------------------------------------------------------------------------
(* arq__send_wnd_ptr_next *)

(* Messages, by distance from the window's start, the pointer may move to. *)
Sendable(p, sw) ==
    {i \in 0..(sw.size - 1) :
        LET seq == (i + sw.seq) % SeqMod
            idx == seq % SendCap
            m   == sw.msg[idx]
        IN /\ ~(p.valid /\ p.seq = seq)
           /\ sw.rtx[idx] = 0
           /\ m.len > 0
           /\ m.cur_ack_vec \subseteq m.full_ack_vec
           /\ m.cur_ack_vec # m.full_ack_vec}

(* The next segment of the message the pointer is in. *)
NextSegInMsg(p, sw) ==
    FirstUnacked(sw.msg[p.seq % SendCap].cur_ack_vec, p.seg + 1)

StaysInMsg(p, sw) ==
    p.valid /\ NextSegInMsg(p, sw) \in sw.msg[p.seq % SendCap].full_ack_vec

SendWndPtrNext(p, sw) ==
    LET seq == (Min(Sendable(p, sw)) + sw.seq) % SeqMod
    IN IF StaysInMsg(p, sw)
       THEN [p EXCEPT !.seg = NextSegInMsg(p, sw)]
       ELSE IF Sendable(p, sw) # {}
       THEN [valid |-> TRUE, seq |-> seq,
             seg |-> FirstUnacked(sw.msg[seq % SendCap].cur_ack_vec, 0)]
       ELSE [valid |-> FALSE, seq |-> p.seq,
             seg |-> IF p.valid THEN NextSegInMsg(p, sw) ELSE p.seg]

(* Defect: the retransmission timer is never armed. *)
CompletesMsgNever(p, sw) == FALSE

(* ARQ__SEND_WND_PTR_NEXT_COMPLETED_MSG *)
CompletesMsg(p, sw) == p.valid /\ ~StaysInMsg(p, sw)

----------------------------------------------------------------------------
(* arq__send_poll; psh is FALSE where the code passes a null header. *)
SendPollTimers(sw, rh, dt) ==
    LET acked   == IF rh.ack THEN SendWndAck(sw, rh.ack_num, rh.cur_ack_vec)
                   ELSE sw
        stepped == SendWndStep(acked, dt)
    IN IF stepped.tiny_on /\ stepped.tiny = 0
       THEN [SendWndFlush(stepped) EXCEPT !.tiny_on = FALSE]
       ELSE stepped

SendPoll(sw, sp, psh, sh, rh, dt) ==
    LET w == SendPollTimers(sw, rh, dt)
        p == SendWndPtrNext(sp, w)
    IN IF ~psh THEN [sw |-> w, sp |-> sp, sh |-> sh]
       ELSE [sw |-> IF CompletesMsg(sp, w)
                    THEN [w EXCEPT !.rtx[sp.seq % SendCap] = Rtx]
                    ELSE w,
             sp |-> p,
             sh |-> IF ~p.valid THEN sh
                    ELSE [sh EXCEPT
                            !.seg = TRUE,
                            !.seq_num = p.seq,
                            !.seg_id = p.seg,
                            !.msg_len = SegCount(w.msg[p.seq % SendCap].len)]]
=============================================================================

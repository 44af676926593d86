----------------------------- MODULE SendWindow -----------------------------
(***************************************************************************)
(* The send half of one endpoint on its own: the application calls         *)
(* arq_send, arq_flush and arq_reset, the backend calls arq__send_poll     *)
(* with any elapsed time, with or without a free send frame, and with any  *)
(* acknowledgement at all.  Any acknowledgement, because arq_backend_poll  *)
(* hands the header of a received frame to arq__send_poll even when the    *)
(* frame's checksum is wrong.                                              *)
(***************************************************************************)
EXTENDS SendWnd

CONSTANTS SendLens,  \* lengths the application passes to arq_send
          Dts,       \* elapsed times the backend passes to arq_backend_poll
          MaxSent    \* bound on the bytes accepted in one behaviour

ASSUME SendLensAssumption == SendLens \subseteq Nat
ASSUME DtsAssumption == Dts \subseteq Nat
ASSUME MaxSentAssumption == MaxSent \in Nat

(* Slot (seq + i) % cap must not depend on whether seq + i was reduced modulo
   SeqMod first; arq__check_cfg does not ask for this. *)
ASSUME WholeRoundsAssumption == SeqMod % SendCap = 0

VARIABLES sw,    \* arq_t.send_wnd
          sp,    \* arq_t.send_wnd_ptr
          sent   \* bytes arq_send has accepted so far

vars == <<sw, sp, sent>>

AckHdr(ack) == [FrameHdrInit EXCEPT !.ack = TRUE, !.ack_num = ack[1], !.cur_ack_vec = ack[2]]

(* The received headers arq__send_poll can see, as far as it reads them. *)
Acks == {FrameHdrInit} \cup {AckHdr(ack) : ack \in (0..(SeqMod - 1)) \X Vecs}

(* The bytes of the stream after the first n. *)
StreamFrom(n, len) == [k \in 1..len |-> n + k]

Init ==
    /\ sw = SendWndRst([j \in SendBufIdx |-> 0])
    /\ sp = SendWndPtrRst
    /\ sent = 0

Send(n) ==
    /\ sent + n <= MaxSent
    /\ sw' = SendWndSend(sw, StreamFrom(sent, n))
    /\ sent' = sent + (IF n = 0 THEN 0 ELSE Accepted(sw, n))
    /\ UNCHANGED sp

Flush ==
    /\ sw' = SendWndFlush(sw)
    /\ UNCHANGED <<sp, sent>>

Poll(psh, rh, dt) ==
    /\ LET r == SendPoll(sw, sp, psh, FrameHdrInit, rh, dt)
       IN sw' = r.sw /\ sp' = r.sp
    /\ UNCHANGED sent

Reset ==
    /\ sw' = SendWndRst(sw.buf)
    /\ sp' = SendWndPtrRst
    /\ UNCHANGED sent

Next ==
    \/ \E n \in SendLens : Send(n)
    \/ Flush
    \/ \E psh \in BOOLEAN, rh \in Acks, dt \in Dts : Poll(psh, rh, dt)
    \/ Reset

Spec == Init /\ [][Next]_vars

----------------------------------------------------------------------------
(* Every field keeps its type; the window never holds more messages than it
   has slots, whatever is sent and acknowledged (arq__send_wnd_send computes
   the size from byte counts, arq__send_wnd_ack subtracts from it). *)
TypeOK ==
    /\ sw \in SendWndType
    /\ sp \in SendWndPtrType
    /\ sent \in Nat

(* Slot of the i-th message of the window. *)
Slot(i) == (sw.seq + i) % SendCap

FullBeforeTail == \A i \in 0..(sw.size - 2) : sw.msg[Slot(i)].len = MsgLen

TailNotEmpty == sw.size > 0 => sw.msg[Slot(sw.size - 1)].len > 0

CleanOutside == \A i \in sw.size..(SendCap - 1) : sw.msg[Slot(i)] = EmptyMsg

(* The window is a run of full messages and a last one that may be partial,
   and a slot outside it looks as arq__wnd_rst left it: arq__send_wnd_send
   appends to the slot it finds after the window without clearing it. *)
WindowShape == FullBeforeTail /\ TailNotEmpty /\ CleanOutside

(* The bytes in the window are the last ones arq_send accepted, in order and
   without a gap, however the two memcpys of arq__send_wnd_send wrapped. *)
ContentContiguous ==
    LET n == WndSizeInBytes(sw)
    IN \A j \in 0..(n - 1) :
          sw.buf[((sw.seq % SendCap) * MsgLen + j) % SendBytes] = sent - n + j + 1

(* The n messages at the front are gone; what stays keeps its slot, and its length
   but for the last message, which may grow. *)
FrontLeaves ==
    LET n == (sw'.seq - sw.seq) % SeqMod
    IN /\ n <= sw.size
       /\ sw'.size >= sw.size - n
       /\ \A i \in n..(sw.size - 1) : sw'.msg[Slot(i)].len >= sw.msg[Slot(i)].len

(* A step that is not a reset only removes messages from the front.  No
   acknowledgement can truncate or drop a message out of order. *)
OnlyFrontLeaves == [][sw' = SendWndRst(sw.buf) \/ FrontLeaves]_vars

=============================================================================

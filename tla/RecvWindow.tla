----------------------------- MODULE RecvWindow -----------------------------
(***************************************************************************)
(* The receive half of one endpoint on its own: the application calls      *)
(* arq_recv, the backend polls with or without a frame, with or without a  *)
(* free send frame, and with any elapsed time.                             *)
(*                                                                         *)
(* The frames come from a sender whose window is no larger than the        *)
(* receiver's.  The messages of its window arrive in any order and a       *)
(* segment may arrive again.  Env says what else happens; arq.h takes all  *)
(* of it, and each property names the part of it that it survives:         *)
(*   any_order    the segments of one message arrive in any order, as they *)
(*                do when an earlier one is lost and sent again            *)
(*   eager_recv   arq_recv is called while an acknowledgement is due       *)
(*   late_repeat  a segment arrives again when arq_recv has taken all of   *)
(*                its message                                              *)
(***************************************************************************)
EXTENDS RecvWnd

CONSTANTS PeerCap,   \* the sender's window size in messages
          Lens,      \* lengths of its messages
          RecvMaxs,  \* buffer sizes the application passes to arq_recv
          Dts,       \* elapsed times
          MaxMsgs,   \* bound on the messages of one behaviour
          MaxRcvd,   \* bound on the bytes arq_recv returns in one behaviour
          Env        \* what may happen besides

ASSUME PeerCapAssumption == PeerCap \in 1..RecvCap
ASSUME LensAssumption == Lens \subseteq 1..MsgLen
ASSUME RecvTimeAssumption == RecvMaxs \subseteq Nat /\ Dts \subseteq Nat
ASSUME MaxMsgsAssumption == MaxMsgs \in Nat /\ MaxRcvd \in Nat
ASSUME EnvAssumption == Env \subseteq {"any_order", "eager_recv", "late_repeat"}

(* A number that has been reduced modulo SeqMod tells a message from all others
   that can be under way, and its slot; arq__check_cfg does not ask for this. *)
ASSUME SeqSpaceAssumption == RecvCap + PeerCap < SeqMod /\ SeqMod % RecvCap = 0

VARIABLES rw,     \* arq_t.recv_wnd
          len,    \* len[n]: length of the sender's message n, n not reduced modulo SeqMod
          got,    \* got[n]: the segments of message n that have arrived
          rcvd,   \* the bytes arq_recv has returned
          acked   \* the header the last step added its acknowledgement to

vars == <<rw, len, got, rcvd, acked>>

Msgs == 0..(MaxMsgs - 1)

(* Byte k of message n, the first being byte 1: no two are the same. *)
Byte(n, k) == MsgLen * n + k

Init ==
    /\ rw = RecvWndRst([j \in RecvBufIdx |-> 0])
    /\ len \in [Msgs -> Lens]
    /\ got = [n \in Msgs |-> {}]
    /\ rcvd = <<>>
    /\ acked = FrameHdrInit

(* The messages up to and including n, one after the other. *)
StreamUpTo(n) ==
    LET upTo[k \in -1..(MaxMsgs - 1)] ==
            IF k < 0 THEN <<>> ELSE upTo[k - 1] \o [j \in 1..len[k] |-> Byte(k, j)]
    IN upTo[n]

Segs(n) == AckVec(SegCount(len[n]))

(* The sender's window starts at the first message not received in full. *)
PeerSeq == Min({n \in Msgs : got[n] # Segs(n)} \cup {MaxMsgs})

(* Whether arq_recv has taken all of message n. *)
Taken(n) == Len(rcvd) >= Len(StreamUpTo(n))

SegData(n, seg) ==
    [k \in 1..Min2(SegLen, len[n] - SegLen * seg) |-> Byte(n, SegLen * seg + k)]

DataFrame(n, seg) ==
    [hdr |-> [FrameHdrInit EXCEPT !.seg = TRUE, !.seq_num = n % SeqMod, !.seg_id = seg,
                                  !.msg_len = SegCount(len[n])],
     data |-> SegData(n, seg), ok |-> TRUE]

PollWith(rf, psh, dt) ==
    LET r == RecvPoll(rw, rf, psh, FrameHdrInit, dt)
    IN rw' = r.rw /\ acked' = r.sh

Poll(psh, dt) ==
    /\ PollWith(<<>>, psh, dt)
    /\ UNCHANGED <<len, got, rcvd>>

(* A frame the window drops because it is full of unread messages has not
   arrived: the sender will send it again. *)
NewSegment(n, seg, psh, dt) ==
    /\ seg \in Segs(n) \ got[n]
    /\ n < PeerSeq + PeerCap
    /\ "any_order" \in Env \/ AckVec(seg) \subseteq got[n]
    /\ PollWith(<<DataFrame(n, seg)>>, psh, dt)
    /\ got' = IF InReach(rw, n % SeqMod) THEN [got EXCEPT ![n] = @ \cup {seg}] ELSE got
    /\ UNCHANGED <<len, rcvd>>

OldSegment(n, seg, psh, dt) ==
    /\ seg \in got[n]
    /\ "late_repeat" \in Env \/ ~Taken(n)
    /\ PollWith(<<DataFrame(n, seg)>>, psh, dt)
    /\ UNCHANGED <<len, got, rcvd>>

Recv(max) ==
    /\ "eager_recv" \in Env \/ AcksDue(rw) = {}
    /\ Len(rcvd) + RecvCount(rw, max) <= MaxRcvd
    /\ rcvd' = rcvd \o RecvData(rw, max)
    /\ rw' = RecvWndRecv(rw, max)
    /\ acked' = FrameHdrInit
    /\ UNCHANGED <<len, got>>

Next ==
    \/ \E psh \in BOOLEAN, dt \in Dts :
          \/ Poll(psh, dt)
          \/ \E n \in Msgs, seg \in 0..(MsgSegs - 1) :
                NewSegment(n, seg, psh, dt) \/ OldSegment(n, seg, psh, dt)
    \/ \E max \in RecvMaxs : Recv(max)

Spec == Init /\ [][Next]_vars
----------------------------------------------------------------------------
(* Every field keeps its type and its bound, whatever Env allows: what arrives
   never makes a message longer than its segments, or than its slot, or the
   window larger than its number of slots. *)
TypeOK ==
    /\ rw \in RecvWndType
    /\ \A i \in RecvIdx : MsgFits(rw.msg[i])
    /\ got \in [Msgs -> SUBSET (0..(MsgSegs - 1))]

(* arq_recv returns the messages of the stream in order, each once and whole,
   whatever the order their segments arrive in, how often, and however it is
   cut up by the sizes of the buffers it is given.  A late_repeat makes this
   false: its slot has been cleared, and it is taken for a new message. *)
StreamInOrder ==
    LET all == StreamUpTo(MaxMsgs - 1)
    IN /\ Len(rcvd) <= Len(all)
       /\ rcvd = SubSeq(all, 1, Len(rcvd))

(* The two cursors of the window agree: what has been copied out but not slid
   over lies between them, it is no more than the window, and a partial copy
   ends inside a complete message.  False with late_repeat. *)
CursorsAgree ==
    /\ rw.copy_seq = (rw.seq + rw.slide) % SeqMod
    /\ rw.slide <= rw.size
    /\ rw.copy_ofs > 0 =>
          LET m == rw.msg[CopySlot(rw, 0)] IN Complete(m) /\ rw.copy_ofs < m.len

(* An acknowledgement lists exactly what has arrived of its message, also when it
   is written some polls later and the slots have moved on: one segment too many
   and the sender gives up bytes that nobody has, one too few and it repeats what is
   here.  Only of a message that arq_recv has taken meanwhile it lists nothing, as
   the slot has been cleared.  False with late_repeat, whose segment is counted for
   another message. *)
AckTellsTruth ==
    acked.ack =>
       \E n \in Msgs : /\ n % SeqMod = acked.ack_num
                       /\ acked.cur_ack_vec = IF Taken(n) THEN {} ELSE got[n]
=============================================================================

------------------------------ MODULE ArqBase ------------------------------
(***************************************************************************)
(* Parameters and small helpers shared by the windows of arq.h.            *)
(*                                                                         *)
(* An acknowledgement vector (a bit mask in the code) is the SET of the    *)
(* segment numbers whose bit is one.  Every full_ack_vec of the code is    *)
(* (1 << n) - 1, here 0..n-1, so that the code's comparison                *)
(* cur_ack_vec < full_ack_vec is "proper subset".                          *)
(***************************************************************************)
EXTENDS Integers, Sequences, FiniteSetsExt

CONSTANTS SeqMod,       \* ARQ__FRAME_MAX_SEQ_NUM + 1 (4096 in the code)
          SegLen,       \* cfg.segment_length_in_bytes
          MsgSegs,      \* cfg.message_length_in_segments
          VecBits,      \* bits of the cur_ack_vec field of a frame (12 in the code)
          TimeInfinity  \* ARQ_TIME_INFINITY

ASSUME SeqModAssumption  == SeqMod \in Nat \ {0}
ASSUME SegLenAssumption  == SegLen \in Nat \ {0}
ASSUME MsgSegsAssumption == MsgSegs \in Nat \ {0}
ASSUME VecBitsAssumption == VecBits \in Nat /\ MsgSegs <= VecBits
ASSUME TimeAssumption    == TimeInfinity \in Nat

MsgLen == MsgSegs * SegLen

(* (1 << n) - 1 *)
AckVec(n) == 0..(n - 1)

FullAckVec == AckVec(MsgSegs)

Vecs == SUBSET (0..(VecBits - 1))

Min2(x, y) == IF x < y THEN x ELSE y

Max2(x, y) == IF x > y THEN x ELSE y

SubSat(x, y) == IF x > y THEN x - y ELSE 0

(* Defect: what is acknowledged already is not skipped. *)
FirstUnackedIgnoresVec(v, k) == k

(* k + ctz(~(v >> k)): the first segment from k on that v lacks. *)
FirstUnacked(v, k) == Min({s \in k..(k + VecBits) : s \notin v})

(* Defect: one more when len bytes fill their segments. *)
SegCountOneMore(len) == len \div SegLen + 1

(* Number of segments that len bytes take. *)
SegCount(len) == (len + SegLen - 1) \div SegLen

(* arq__msg_t as arq__wnd_rst leaves it. *)
EmptyMsg == [len |-> 0, cur_ack_vec |-> {}, full_ack_vec |-> FullAckVec]

MsgType == [len : 0..MsgLen,
            cur_ack_vec : Vecs,
            full_ack_vec : {AckVec(n) : n \in 0..MsgSegs}]

(***************************************************************************)
(* The fields of arq__frame_hdr_t that the protocol reads.  version is     *)
(* constant; win_size and fin are never set or read; seg_len is the length *)
(* of the data a frame carries.                                            *)
(***************************************************************************)
FrameHdrInit ==
    [ack |-> FALSE, ack_num |-> 0, cur_ack_vec |-> {},
     seg |-> FALSE, seq_num |-> 0, seg_id |-> 0, msg_len |-> 0,
     rst |-> FALSE]

FrameHdrType ==
    [ack : BOOLEAN, ack_num : 0..(SeqMod - 1), cur_ack_vec : Vecs,
     seg : BOOLEAN, seq_num : 0..(SeqMod - 1), seg_id : 0..(MsgSegs - 1),
     msg_len : 0..MsgSegs, rst : BOOLEAN]

FrameType ==
    {f \in [hdr : FrameHdrType, data : Seq(Nat), ok : BOOLEAN] : Len(f.data) <= SegLen}

(* A frame buffer with or without a frame in it. *)
FrameBufType == {b \in Seq(FrameType) : Len(b) <= 1}
=============================================================================

--------------------------- MODULE SendWndLemmas ---------------------------
(***************************************************************************)
(* What the functions of the send window return, for every window, message *)
(* and segment size; at the end, what the window holds of its              *)
(* application's stream when a message is one segment.                     *)
(***************************************************************************)
EXTENDS SendWnd, NumberLemmas

----------------------------------------------------------------------------
(* The sizes of messages and windows *)

LEMMA MsgLenType == MsgLen \in Nat \ {0}
  <1>1. 1 * SegLen <= MsgSegs * SegLen
    BY TimesMonotone, SegLenAssumption, MsgSegsAssumption
  <1> QED
    BY <1>1, SegLenAssumption, MsgSegsAssumption DEF MsgLen

LEMMA SendBytesType == SendBytes \in Nat
  BY MsgLenType, SendCapAssumption DEF SendBytes

LEMMA SlotType ==
    ASSUME NEW n \in Nat
    PROVE  n % SendCap \in SendIdx
  BY DivModFacts, SendCapAssumption DEF SendIdx

LEMMA SegCountType ==
    ASSUME NEW len \in 0..MsgLen
    PROVE  SegCount(len) \in 0..MsgSegs
  BY RoundUpBounded, SegLenAssumption, MsgSegsAssumption DEF MsgLen, SegCount

(* A buffer of messages is at least as long as some whole messages and a part
   of another. *)
LEMMA FitsInBuffer ==
    ASSUME NEW i \in SendIdx, NEW len \in 0..MsgLen
    PROVE  i * MsgLen + len \in 0..SendBytes
  <1>1. i \in Nat /\ i + 1 <= SendCap /\ MsgLen \in Nat /\ SendCap \in Nat
    BY SendCapAssumption, MsgLenType DEF SendIdx
  <1>2. (i + 1) * MsgLen <= SendCap * MsgLen
    BY <1>1, TimesMonotone
  <1>3. (i + 1) * MsgLen = i * MsgLen + MsgLen /\ i * MsgLen \in Nat
    BY <1>1
  <1> QED
    BY <1>1, <1>2, <1>3 DEF SendBytes

LEMMA TailType ==
    ASSUME NEW w \in SendWndType
    PROVE  /\ TailSeq(w) \in Nat
           /\ TailSeq(w) % SendCap \in SendIdx
           /\ TailLen(w) \in 0..MsgLen
           /\ WndSizeInBytes(w) \in 0..SendBytes
           /\ (TailSeq(w) % SendCap) * MsgLen + TailLen(w) \in 0..SendBytes
  <1>1. TailSeq(w) \in Nat
    BY SeqModAssumption, SendCapAssumption DEF SendWndType, TailSeq, SubSat
  <1>2. TailSeq(w) % SendCap \in SendIdx
    BY <1>1, SlotType
  <1>3. TailLen(w) \in 0..MsgLen
    BY <1>2 DEF SendWndType, MsgType, TailLen
  <1>4. SubSat(w.size, 1) \in SendIdx
    BY SendCapAssumption DEF SendWndType, SubSat, SendIdx
  <1> QED
    BY <1>1, <1>2, <1>3, <1>4, FitsInBuffer DEF WndSizeInBytes

(* arq_send takes no more than there is room for, and the window it leaves has
   no more messages than slots. *)
LEMMA AcceptedType ==
    ASSUME NEW w \in SendWndType, NEW n \in Nat
    PROVE  /\ Accepted(w, n) \in 0..n
           /\ WndSizeInBytes(w) + Accepted(w, n) \in 0..SendBytes
           /\ (WndSizeInBytes(w) + Accepted(w, n) + MsgLen - 1) \div MsgLen \in 0..SendCap
  <1>1. Accepted(w, n) \in 0..n /\ WndSizeInBytes(w) + Accepted(w, n) \in 0..SendBytes
    BY TailType, SendBytesType DEF Accepted, Min2
  <1> QED
    BY <1>1, RoundUpBounded, MsgLenType, SendCapAssumption DEF SendBytes

----------------------------------------------------------------------------
(* The functions of the send window keep its type *)

LEMMA SubSatType ==
    ASSUME NEW x \in Nat, NEW y \in Nat
    PROVE  SubSat(x, y) \in Nat
  BY DEF SubSat

LEMMA EmptyMsgType == EmptyMsg \in MsgType
  <1>1. MsgSegs \in 0..VecBits
    BY MsgSegsAssumption, VecBitsAssumption
  <1> QED
    BY <1>1, MsgLenType DEF EmptyMsg, MsgType, FullAckVec, Vecs

(* The two copies of arq__send_wnd_send stay inside the buffer and inside the
   caller's data. *)
LEMMA CopyInType ==
    ASSUME NEW buf \in [SendBufIdx -> Nat], NEW at \in 0..SendBytes,
           NEW data \in Seq(Nat), NEW len \in 0..Len(data)
    PROVE  CopyIn(buf, at, data, len) \in [SendBufIdx -> Nat]
  <1> DEFINE pre == Min2(len, SendBytes - at)
  <1>1. pre \in 0..len /\ SendBytes \in Nat /\ SendBufIdx \subseteq Nat
    BY SendBytesType DEF Min2, SendBufIdx
  <1>2. ASSUME NEW j \in SendBufIdx
        PROVE  (IF j < len - pre THEN data[pre + j + 1]
                ELSE IF j \in at..(at + pre - 1) THEN data[j - at + 1]
                ELSE buf[j]) \in Nat
    <2>1. CASE j < len - pre
      <3>1. pre + j + 1 \in 1..Len(data)
        BY <1>1, <2>1
      <3> QED
        BY <2>1, <3>1
    <2>2. CASE ~(j < len - pre) /\ j \in at..(at + pre - 1)
      <3>1. j - at + 1 \in 1..Len(data)
        BY <1>1, <2>2
      <3> QED
        BY <2>2, <3>1
    <2>3. CASE ~(j < len - pre) /\ j \notin at..(at + pre - 1)
      BY <2>3
    <2> QED
      BY <2>1, <2>2, <2>3
  <1> QED
    BY <1>2 DEF CopyIn

LEMMA MsgLenField ==
    ASSUME NEW m \in MsgType, NEW len \in 0..MsgLen
    PROVE  [m EXCEPT !.len = len] \in MsgType
  BY DEF MsgType

LEMMA SendType ==
    ASSUME NEW w \in SendWndType, NEW data \in Seq(Nat)
    PROVE  SendWndSend(w, data) \in SendWndType
  <1> DEFINE seq      == TailSeq(w)
             last     == TailLen(w)
             len      == Accepted(w, Len(data))
             full_cnt == (last + len) \div MsgLen
             rem      == (last + len) - full_cnt * MsgLen
             size     == (WndSizeInBytes(w) + len + MsgLen - 1) \div MsgLen
             tail     == (w.seq + size - 1) % SendCap
             filled   == {(seq + i) % SendCap : i \in 0..(full_cnt - 1)}
             fresh    == rem > 0 /\ size > w.size
             at       == (seq % SendCap) * MsgLen + last
             buf2     == CopyIn(w.buf, at, data, len)
             msg2     == [i \in SendIdx |->
                            IF rem > 0 /\ i = tail THEN [w.msg[i] EXCEPT !.len = rem]
                            ELSE IF i \in filled THEN [w.msg[i] EXCEPT !.len = MsgLen]
                            ELSE w.msg[i]]
             rtx2     == [i \in SendIdx |->
                            IF fresh /\ i = tail THEN Tiny
                            ELSE IF i \in filled THEN 0
                            ELSE w.rtx[i]]
             tiny2    == IF fresh THEN Tiny ELSE w.tiny
             on2      == rem > 0
  <1>1. SendWndSend(w, data) =
          IF Len(data) = 0 THEN w
          ELSE [w EXCEPT !.buf = buf2, !.size = size, !.msg = msg2,
                         !.rtx = rtx2, !.tiny = tiny2, !.tiny_on = on2]
    BY DEF SendWndSend
  <1>2. Len(data) \in Nat
    OBVIOUS
  <1>3. len \in 0..Len(data) /\ size \in 0..SendCap
    BY <1>2, AcceptedType
  <1>4. last \in 0..MsgLen /\ at \in 0..SendBytes
    BY TailType
  <1>5. last + len \in Nat
    <2> HIDE DEF last, len
    <2> QED
      BY <1>2, <1>3, <1>4, MsgLenType
  <1>6. rem \in 0..MsgLen
    <2> DEFINE n == last + len
    <2>1. n \in Nat
      BY <1>5
    <2> HIDE DEF n
    <2>2. n - (n \div MsgLen) * MsgLen \in 0..MsgLen
      BY <2>1, MsgLenType, RestType
    <2> QED
      BY <2>2 DEF n
  <1> HIDE DEF seq, last, len, full_cnt, rem, size, tail, filled, at
  <1>7. buf2 \in [SendBufIdx -> Nat]
    <2>1. w.buf \in [SendBufIdx -> Nat]
      BY DEF SendWndType
    <2> QED
      BY <2>1, <1>3, <1>4, CopyInType
  <1>8. msg2 \in [SendIdx -> MsgType]
    <2>1. MsgLen \in 0..MsgLen
      BY MsgLenType
    <2>2. ASSUME NEW i \in SendIdx PROVE w.msg[i] \in MsgType
      BY DEF SendWndType
    <2>3. ASSUME NEW i \in SendIdx
          PROVE  /\ [w.msg[i] EXCEPT !.len = rem] \in MsgType
                 /\ [w.msg[i] EXCEPT !.len = MsgLen] \in MsgType
      BY <2>1, <2>2, <1>6, MsgLenField
    <2> QED
      BY <2>2, <2>3
  <1>9. rtx2 \in [SendIdx -> Nat] /\ tiny2 \in Nat /\ on2 \in BOOLEAN
    <2>1. w.rtx \in [SendIdx -> Nat] /\ w.tiny \in Nat
      BY DEF SendWndType
    <2> QED
      BY <2>1, SendTimeAssumption
  <1> HIDE DEF buf2, msg2, rtx2, tiny2, on2
  <1> QED
    BY <1>1, <1>3, <1>7, <1>8, <1>9 DEF SendWndType

LEMMA AckedPrefixType ==
    ASSUME NEW w \in SendWndType, NEW msg
    PROVE  AckedPrefix(w, msg) \in 0..w.size
  <1> DEFINE Open == {i \in 0..(w.size - 1) :
                        LET m == msg[(w.seq + i) % SendCap]
                        IN m.cur_ack_vec # m.full_ack_vec}
             S    == {w.size} \cup Open
  <1>1. w.size \in Nat
    BY SendCapAssumption DEF SendWndType
  <1>2. Open \subseteq 0..(w.size - 1)
    OBVIOUS
  <1> HIDE DEF Open
  <1>3. S \subseteq 0..w.size /\ S \subseteq Nat /\ S # {}
    <2>1. ASSUME NEW x \in S PROVE x \in 0..w.size /\ x \in Nat
      <3>1. x = w.size \/ x \in 0..(w.size - 1)
        BY <1>2
      <3> QED
        BY <1>1, <3>1
    <2> QED
      BY <2>1
  <1>4. Min(S) \in S
    BY <1>3, MinOfNats
  <1>5. AckedPrefix(w, msg) = Min(S)
    BY DEF AckedPrefix, Open
  <1> QED
    BY <1>3, <1>4, <1>5

(* Any acknowledgement, also one that names a message outside the window, or
   segments the message does not have. *)
LEMMA AckType ==
    ASSUME NEW w \in SendWndType, NEW seq \in 0..(SeqMod - 1), NEW vec \in Vecs
    PROVE  SendWndAck(w, seq, vec) \in SendWndType
  <1> DEFINE idx   == seq % SendCap
             msg   == [w.msg EXCEPT ![idx].cur_ack_vec = vec]
             n     == AckedPrefix(w, msg)
             freed == {(w.seq + i) % SendCap : i \in 0..(n - 1)}
             msg2  == [i \in SendIdx |-> IF i \in freed THEN EmptyMsg ELSE msg[i]]
             rtx2  == [w.rtx EXCEPT ![idx] = IF vec # msg[idx].full_ack_vec THEN 0 ELSE @]
             size2 == w.size - n
             seq2  == (w.seq + n) % SeqMod
  <1>1. SendWndAck(w, seq, vec) =
          IF ~AckInWnd(w, seq) THEN w
          ELSE [w EXCEPT !.msg = msg2, !.rtx = rtx2, !.size = size2, !.seq = seq2]
    BY DEF SendWndAck
  <1>2. n \in 0..w.size
    BY AckedPrefixType
  <1>3. /\ w.size \in 0..SendCap /\ w.seq \in 0..(SeqMod - 1)
        /\ w.msg \in [SendIdx -> MsgType] /\ w.rtx \in [SendIdx -> Nat]
    BY DEF SendWndType
  <1>4. idx \in SendIdx
    BY SlotType, SeqModAssumption
  <1>5. msg \in [SendIdx -> MsgType]
    <2>1. [w.msg[idx] EXCEPT !.cur_ack_vec = vec] \in MsgType
      BY <1>3, <1>4 DEF MsgType
    <2> QED
      BY <2>1, <1>3, <1>4
  <1> HIDE DEF idx, msg, n, freed
  <1>6. msg2 \in [SendIdx -> MsgType]
    BY <1>5, EmptyMsgType
  <1>7. rtx2 \in [SendIdx -> Nat]
    BY <1>3, <1>4
  <1>8. size2 \in 0..SendCap
    BY <1>2, <1>3, SendCapAssumption
  <1>9. seq2 \in 0..(SeqMod - 1)
    <2>1. w.seq + n \in Nat
      BY <1>2, <1>3, SendCapAssumption, SeqModAssumption
    <2> QED
      BY <2>1, DivModFacts, SeqModAssumption
  <1> HIDE DEF msg2, rtx2, size2, seq2
  <1> QED
    BY <1>1, <1>6, <1>7, <1>8, <1>9 DEF SendWndType

LEMMA FlushType ==
    ASSUME NEW w \in SendWndType
    PROVE  SendWndFlush(w) \in SendWndType
  <1> DEFINE idx == (w.seq + w.size - 1) % SendCap
             len == w.msg[idx].len
             vec == AckVec(SegCount(len))
             msg2 == [w.msg EXCEPT ![idx].full_ack_vec = vec]
             rtx2 == [w.rtx EXCEPT ![idx] = 0]
  <1>1. SendWndFlush(w) =
          IF w.size = 0 \/ len = 0 THEN w
          ELSE [w EXCEPT !.msg = msg2, !.rtx = rtx2]
    BY DEF SendWndFlush
  <1>2. /\ w.size \in 0..SendCap /\ w.seq \in 0..(SeqMod - 1)
        /\ w.msg \in [SendIdx -> MsgType] /\ w.rtx \in [SendIdx -> Nat]
    BY DEF SendWndType
  <1>3. CASE w.size = 0
    BY <1>1, <1>3
  <1>4. CASE w.size # 0
    <2>1. w.seq + w.size - 1 \in Nat
      BY <1>2, <1>4, SendCapAssumption, SeqModAssumption
    <2>2. idx \in SendIdx
      BY <2>1, SlotType
    <2> HIDE DEF idx
    <2>3. len \in 0..MsgLen
      BY <1>2, <2>2 DEF MsgType
    <2> HIDE DEF len
    <2>4. SegCount(len) \in 0..MsgSegs
      BY <2>3, SegCountType
    <2>5. vec \in {AckVec(k) : k \in 0..MsgSegs}
      BY <2>4
    <2> HIDE DEF vec
    <2>6. [w.msg[idx] EXCEPT !.full_ack_vec = vec] \in MsgType
      BY <1>2, <2>2, <2>5 DEF MsgType
    <2>7. msg2 \in [SendIdx -> MsgType] /\ rtx2 \in [SendIdx -> Nat]
      BY <1>2, <2>2, <2>6
    <2> HIDE DEF msg2, rtx2
    <2> QED
      BY <1>1, <2>7 DEF SendWndType
  <1> QED
    BY <1>3, <1>4

LEMMA StepType ==
    ASSUME NEW w \in SendWndType, NEW dt \in Nat
    PROVE  SendWndStep(w, dt) \in SendWndType
  <1> DEFINE inWnd == {(w.seq + i) % SendCap : i \in 0..(w.size - 1)}
             rtx2  == [i \in SendIdx |->
                         IF i \in inWnd THEN SubSat(w.rtx[i], dt) ELSE w.rtx[i]]
             tiny2 == IF w.tiny_on THEN SubSat(w.tiny, dt) ELSE w.tiny
  <1>1. SendWndStep(w, dt) = [w EXCEPT !.rtx = rtx2, !.tiny = tiny2]
    BY DEF SendWndStep
  <1>2. w.rtx \in [SendIdx -> Nat] /\ w.tiny \in Nat
    BY DEF SendWndType
  <1> HIDE DEF inWnd
  <1>3. rtx2 \in [SendIdx -> Nat] /\ tiny2 \in Nat
    BY <1>2, SubSatType
  <1> HIDE DEF rtx2, tiny2
  <1> QED
    BY <1>1, <1>3 DEF SendWndType

(* What arq__send_poll may find in a received header, right or damaged. *)
CanAck(rh) == rh.ack => rh.ack_num \in 0..(SeqMod - 1) /\ rh.cur_ack_vec \in Vecs

LEMMA SendPollTimersType ==
    ASSUME NEW w \in SendWndType, NEW rh, CanAck(rh), NEW dt \in Nat
    PROVE  SendPollTimers(w, rh, dt) \in SendWndType
  <1> DEFINE acked   == IF rh.ack THEN SendWndAck(w, rh.ack_num, rh.cur_ack_vec) ELSE w
             stepped == SendWndStep(acked, dt)
             flushed == SendWndFlush(stepped)
  <1>1. SendPollTimers(w, rh, dt) =
          IF stepped.tiny_on /\ stepped.tiny = 0
          THEN [flushed EXCEPT !.tiny_on = FALSE]
          ELSE stepped
    BY DEF SendPollTimers
  <1>2. acked \in SendWndType
    <2>1. CASE rh.ack
      <3>1. rh.ack_num \in 0..(SeqMod - 1) /\ rh.cur_ack_vec \in Vecs
        BY <2>1 DEF CanAck
      <3> QED
        BY <2>1, <3>1, AckType
    <2>2. CASE ~rh.ack
      BY <2>2
    <2> QED
      BY <2>1, <2>2
  <1> HIDE DEF acked
  <1>3. stepped \in SendWndType
    BY <1>2, StepType
  <1> HIDE DEF stepped
  <1>4. flushed \in SendWndType
    BY <1>3, FlushType
  <1> HIDE DEF flushed
  <1>5. [flushed EXCEPT !.tiny_on = FALSE] \in SendWndType
    BY <1>4 DEF SendWndType
  <1> QED
    BY <1>1, <1>3, <1>5

----------------------------------------------------------------------------
(* The send pointer *)

LEMMA FirstUnackedType ==
    ASSUME NEW v \in Vecs, NEW k \in Nat
    PROVE  /\ FirstUnacked(v, k) \in Nat
           /\ FirstUnacked(v, k) \notin v
           /\ k <= FirstUnacked(v, k)
  <1> DEFINE S == {s \in k..(k + VecBits) : s \notin v}
  <1>1. k + VecBits \in S
    BY VecBitsAssumption DEF Vecs
  <1>2. S \subseteq Nat /\ S # {}
    BY <1>1, VecBitsAssumption
  <1>3. Min(S) \in S
    BY <1>2, MinOfNats
  <1> QED
    BY <1>3, VecBitsAssumption DEF FirstUnacked

LEMMA PtrNextFields ==
    ASSUME NEW p \in SendWndPtrType, NEW w \in SendWndType
    PROVE  SendWndPtrNext(p, w) \in [valid : BOOLEAN, seq : 0..(SeqMod - 1), seg : Nat]
  <1> DEFINE n   == Min(Sendable(p, w))
             seq == (n + w.seq) % SeqMod
  <1>1. ASSUME NEW s \in 0..(SeqMod - 1) PROVE w.msg[s % SendCap].cur_ack_vec \in Vecs
    <2>1. s % SendCap \in SendIdx
      BY SlotType, SeqModAssumption
    <2> QED
      BY <2>1 DEF SendWndType, MsgType
  <1>2. NextSegInMsg(p, w) \in Nat
    <2>1. p.seq \in 0..(SeqMod - 1) /\ p.seg + 1 \in Nat
      BY DEF SendWndPtrType
    <2> QED
      BY <1>1, <2>1, FirstUnackedType DEF NextSegInMsg
  <1>3. CASE StaysInMsg(p, w)
    BY <1>2, <1>3 DEF SendWndPtrNext, SendWndPtrType
  <1>4. CASE ~StaysInMsg(p, w) /\ Sendable(p, w) # {}
    <2>1. Sendable(p, w) \subseteq Nat
      BY DEF Sendable
    <2>2. n \in Nat
      BY <1>4, <2>1, MinOfNats
    <2> HIDE DEF n
    <2>3. w.seq \in Nat /\ n + w.seq \in Nat
      BY <2>2, SeqModAssumption DEF SendWndType
    <2>4. seq \in 0..(SeqMod - 1)
      BY <2>3, DivModFacts, SeqModAssumption
    <2>5. FirstUnacked(w.msg[seq % SendCap].cur_ack_vec, 0) \in Nat
      BY <2>4, <1>1, FirstUnackedType
    <2>6. SendWndPtrNext(p, w) =
            [valid |-> TRUE, seq |-> seq,
             seg |-> FirstUnacked(w.msg[seq % SendCap].cur_ack_vec, 0)]
      BY <1>4 DEF SendWndPtrNext, n
    <2> HIDE DEF seq
    <2> QED
      BY <2>4, <2>5, <2>6 DEF SendWndPtrType
  <1>5. CASE ~StaysInMsg(p, w) /\ Sendable(p, w) = {}
    BY <1>2, <1>5 DEF SendWndPtrNext, SendWndPtrType
  <1> QED
    BY <1>3, <1>4, <1>5

(* The pointer names a segment that its message has. *)
LEMMA PtrNextSeg ==
    ASSUME NEW p \in SendWndPtrType, NEW w \in SendWndType, SendWndPtrNext(p, w).valid
    PROVE  SendWndPtrNext(p, w).seg \in 0..(MsgSegs - 1)
  <1> DEFINE n   == Min(Sendable(p, w))
             seq == (n + w.seq) % SeqMod
  <1>1. ASSUME NEW s \in 0..(SeqMod - 1) PROVE w.msg[s % SendCap] \in MsgType
    <2>1. s % SendCap \in SendIdx
      BY SlotType, SeqModAssumption
    <2> QED
      BY <2>1 DEF SendWndType
  <1>2. ASSUME NEW m \in MsgType PROVE m.full_ack_vec \subseteq 0..(MsgSegs - 1)
    <2>1. PICK k \in 0..MsgSegs : m.full_ack_vec = AckVec(k)
      BY DEF MsgType
    <2> QED
      BY <2>1, MsgSegsAssumption DEF AckVec
  <1>3. CASE StaysInMsg(p, w)
    <2>1. SendWndPtrNext(p, w).seg = NextSegInMsg(p, w)
      BY <1>3 DEF SendWndPtrNext, SendWndPtrType
    <2>2. w.msg[p.seq % SendCap] \in MsgType
      BY <1>1 DEF SendWndPtrType
    <2> QED
      BY <1>2, <1>3, <2>1, <2>2 DEF StaysInMsg
  <1>4. CASE ~StaysInMsg(p, w) /\ Sendable(p, w) # {}
    <2>1. n \in Sendable(p, w) /\ n \in Nat
      <3>1. Sendable(p, w) \subseteq Nat
        BY DEF Sendable
      <3> QED
        BY <1>4, <3>1, MinOfNats
    <2> HIDE DEF n
    <2>2. seq \in 0..(SeqMod - 1)
      <3>1. n + w.seq \in Nat
        BY <2>1, SeqModAssumption DEF SendWndType
      <3> QED
        BY <3>1, DivModFacts, SeqModAssumption
    <2> DEFINE m == w.msg[seq % SendCap]
    <2>3. m \in MsgType
      BY <1>1, <2>2
    <2>4. m.cur_ack_vec \subseteq m.full_ack_vec /\ m.cur_ack_vec # m.full_ack_vec
      BY <2>1 DEF Sendable
    <2>5. SendWndPtrNext(p, w).seg = FirstUnacked(m.cur_ack_vec, 0)
      BY <1>4 DEF SendWndPtrNext, n
    <2> HIDE DEF m
    <2>6. PICK s \in m.full_ack_vec : s \notin m.cur_ack_vec
      BY <2>4
    <2>7. s \in 0..(MsgSegs - 1) /\ s \in 0..VecBits
      BY <1>2, <2>3, <2>6, MsgSegsAssumption, VecBitsAssumption
    <2> DEFINE S == {x \in 0..(0 + VecBits) : x \notin m.cur_ack_vec}
    <2>8. S \subseteq Nat /\ s \in S
      BY <2>6, <2>7, VecBitsAssumption
    <2>9. FirstUnacked(m.cur_ack_vec, 0) = Min(S)
      BY DEF FirstUnacked
    <2> HIDE DEF S
    <2>10. Min(S) \in Nat /\ Min(S) <= s
      BY <2>8, MinOfNats
    <2> QED
      BY <2>5, <2>7, <2>9, <2>10, MsgSegsAssumption
  <1>5. CASE ~StaysInMsg(p, w) /\ Sendable(p, w) = {}
    BY <1>5 DEF SendWndPtrNext
  <1> QED
    BY <1>3, <1>4, <1>5

LEMMA PtrNextType ==
    ASSUME NEW p \in SendWndPtrType, NEW w \in SendWndType
    PROVE  SendWndPtrNext(p, w) \in SendWndPtrType
  <1> DEFINE q == SendWndPtrNext(p, w)
  <1>1. q \in [valid : BOOLEAN, seq : 0..(SeqMod - 1), seg : Nat]
    BY PtrNextFields
  <1>2. q.valid => q.seg \in 0..(MsgSegs - 1)
    BY PtrNextSeg
  <1> HIDE DEF q
  <1>3. q.valid => q.seg < MsgSegs
    BY <1>1, <1>2, MsgSegsAssumption
  <1> QED
    BY <1>1, <1>3 DEF SendWndPtrType, q

LEMMA SendPollType ==
    ASSUME NEW w \in SendWndType, NEW p \in SendWndPtrType, NEW psh \in BOOLEAN,
           NEW sh, NEW rh, CanAck(rh), NEW dt \in Nat
    PROVE  /\ SendPoll(w, p, psh, sh, rh, dt).sw \in SendWndType
           /\ SendPoll(w, p, psh, sh, rh, dt).sp \in SendWndPtrType
  <1> DEFINE w2 == SendPollTimers(w, rh, dt)
             p2 == SendWndPtrNext(p, w2)
  <1>1. w2 \in SendWndType
    BY SendPollTimersType
  <1>2. SendPoll(w, p, psh, sh, rh, dt).sp = IF psh THEN p2 ELSE p
    BY DEF SendPoll
  <1>3. SendPoll(w, p, psh, sh, rh, dt).sw =
          IF psh /\ CompletesMsg(p, w2) THEN [w2 EXCEPT !.rtx[p.seq % SendCap] = Rtx]
          ELSE w2
    BY DEF SendPoll
  <1> HIDE DEF w2
  <1>4. p2 \in SendWndPtrType
    BY <1>1, PtrNextType
  <1> HIDE DEF p2
  <1>5. [w2 EXCEPT !.rtx[p.seq % SendCap] = Rtx] \in SendWndType
    <2>1. p.seq \in Nat
      BY SeqModAssumption DEF SendWndPtrType
    <2>2. p.seq % SendCap \in SendIdx
      BY <2>1, SlotType
    <2>3. [w2.rtx EXCEPT ![p.seq % SendCap] = Rtx] \in [SendIdx -> Nat]
      BY <1>1, <2>2, SendTimeAssumption DEF SendWndType
    <2> QED
      BY <1>1, <2>3 DEF SendWndType
  <1> QED
    BY <1>1, <1>2, <1>3, <1>4, <1>5

----------------------------------------------------------------------------
LEMMA RstType ==
    ASSUME NEW buf \in [SendBufIdx -> Nat]
    PROVE  /\ SendWndRst(buf) \in SendWndType
           /\ SendWndPtrRst \in SendWndPtrType
  BY EmptyMsgType, SeqModAssumption, SendCapAssumption
     DEF SendWndRst, SendWndPtrRst, SendWndType, SendWndPtrType

----------------------------------------------------------------------------
(* Nothing to send until a timer runs out.  The tinygram timer does not stand at zero:
   arq__send_poll flushes when it gets there. *)
Settled(p, w) ==
    ~p.valid /\ Sendable(p, w) = {} /\ (w.tiny_on => w.tiny > 0)

LEMMA WndSlotType ==
    ASSUME NEW w \in SendWndType, NEW i \in 0..(w.size - 1)
    PROVE  ((i + w.seq) % SeqMod) % SendCap \in SendIdx
  <1> DEFINE n == i + w.seq
             s == n % SeqMod
  <1>1. n \in Nat
    BY SendCapAssumption, SeqModAssumption DEF SendWndType
  <1> HIDE DEF n
  <1>2. n \in Int /\ SeqMod \in Nat \ {0}
    BY <1>1, SeqModAssumption
  <1>3. s \in 0..(SeqMod - 1)
    BY <1>2, ModType
  <1> HIDE DEF s
  <1>4. s \in Nat
    BY <1>2, <1>3
  <1>5. s % SendCap \in SendIdx
    BY <1>4, SlotType
  <1> QED
    BY <1>5 DEF s, n

LEMMA TimersLeaveTiny ==
    ASSUME NEW w \in SendWndType, NEW rh, CanAck(rh), NEW dt \in Nat
    PROVE  LET w2 == SendPollTimers(w, rh, dt) IN w2.tiny_on => w2.tiny > 0
  <1> DEFINE acked   == IF rh.ack THEN SendWndAck(w, rh.ack_num, rh.cur_ack_vec) ELSE w
             stepped == SendWndStep(acked, dt)
             flushed == SendWndFlush(stepped)
             w2      == SendPollTimers(w, rh, dt)
  <1>1. w2 = IF stepped.tiny_on /\ stepped.tiny = 0
             THEN [flushed EXCEPT !.tiny_on = FALSE]
             ELSE stepped
    BY DEF SendPollTimers
  <1>2. w2 \in SendWndType
    BY SendPollTimersType
  <1> HIDE DEF stepped, flushed, w2
  <1>3. w2.tiny \in Nat
    BY <1>2 DEF SendWndType
  <1>4. CASE stepped.tiny_on /\ stepped.tiny = 0
    <2>1. w2 = [flushed EXCEPT !.tiny_on = FALSE]
      BY <1>1, <1>4
    <2>2. "tiny_on" \in DOMAIN w2
      BY <1>2 DEF SendWndType
    <2>3. ~w2.tiny_on
      BY <2>1, <2>2
    <2> QED
      BY <2>3 DEF w2
  <1>5. CASE ~(stepped.tiny_on /\ stepped.tiny = 0)
    <2>1. w2 = stepped
      BY <1>1, <1>5
    <2>2. w2.tiny_on => w2.tiny > 0
      BY <1>3, <1>5, <2>1
    <2> QED
      BY <2>2 DEF w2
  <1> QED
    BY <1>4, <1>5

(* A poll that may send and does not find a segment leaves the window settled: the
   message it has just completed has its timer armed. *)
LEMMA SendSettles ==
    ASSUME NEW w \in SendWndType, NEW p \in SendWndPtrType, NEW sh, ~sh.seg,
           NEW rh, CanAck(rh), NEW dt \in Nat, Rtx > 0,
           NEW s, s = SendPoll(w, p, TRUE, sh, rh, dt), ~s.sh.seg, "seg" \in DOMAIN sh
    PROVE  Settled(s.sp, s.sw)
  <1> DEFINE w2 == SendPollTimers(w, rh, dt)
             p2 == SendWndPtrNext(p, w2)
             k  == p.seq % SendCap
             w3 == [w2 EXCEPT !.rtx[k] = Rtx]
             n  == SegCount(w2.msg[p2.seq % SendCap].len)
  <1>1. w2 \in SendWndType /\ (w2.tiny_on => w2.tiny > 0)
    BY SendPollTimersType, TimersLeaveTiny
  <1>2. /\ s.sw = IF CompletesMsg(p, w2) THEN w3 ELSE w2
        /\ s.sp = p2
        /\ s.sh = IF ~p2.valid THEN sh
                  ELSE [sh EXCEPT !.seg = TRUE, !.seq_num = p2.seq, !.seg_id = p2.seg, !.msg_len = n]
    BY DEF SendPoll
  <1> HIDE DEF w2, n
  <1>3. ~p2.valid
    <2> SUFFICES ASSUME p2.valid PROVE FALSE
      OBVIOUS
    <2>1. s.sh = [sh EXCEPT !.seg = TRUE, !.seq_num = p2.seq, !.seg_id = p2.seg, !.msg_len = n]
      BY <1>2
    <2> HIDE DEF p2
    <2> QED
      BY <2>1
  <1>4. ~StaysInMsg(p, w2) /\ Sendable(p, w2) = {}
    <2>1. CASE StaysInMsg(p, w2)
      <3>1. p2 = [p EXCEPT !.seg = NextSegInMsg(p, w2)]
        BY <2>1 DEF SendWndPtrNext
      <3>2. p.valid
        BY <2>1 DEF StaysInMsg
      <3> HIDE DEF p2
      <3>3. p2.valid
        BY <3>1, <3>2 DEF SendWndPtrType
      <3> QED
        BY <1>3, <3>3 DEF p2
    <2>2. CASE ~StaysInMsg(p, w2) /\ Sendable(p, w2) # {}
      <3>1. p2.valid = TRUE
        BY <2>2 DEF SendWndPtrNext
      <3> QED
        BY <1>3, <3>1
    <2> QED
      BY <2>1, <2>2
  <1> HIDE DEF p2
  <1>5. k \in SendIdx /\ w2.rtx \in [SendIdx -> Nat]
    <2>1. p.seq \in Nat
      BY SeqModAssumption DEF SendWndPtrType
    <2> QED
      BY <1>1, <2>1, SlotType DEF SendWndType
  <1> HIDE DEF k
  <1>6. /\ w3.msg = w2.msg /\ w3.seq = w2.seq /\ w3.size = w2.size
        /\ w3.tiny_on = w2.tiny_on /\ w3.tiny = w2.tiny
        /\ w3.rtx = [w2.rtx EXCEPT ![k] = Rtx]
    BY <1>1 DEF SendWndType
  <1> HIDE DEF w3
  <1>7. ASSUME NEW v \in {w2, w3}, p.valid => v = w3, NEW i \in Sendable(p2, v)
        PROVE  FALSE
    <2> DEFINE seq == (i + w2.seq) % SeqMod
               idx == seq % SendCap
    <2>1. v.msg = w2.msg /\ v.seq = w2.seq /\ v.size = w2.size
      BY <1>6, <1>7
    <2>2. /\ i \in 0..(w2.size - 1) /\ v.rtx[idx] = 0 /\ w2.msg[idx].len > 0
          /\ w2.msg[idx].cur_ack_vec \subseteq w2.msg[idx].full_ack_vec
          /\ w2.msg[idx].cur_ack_vec # w2.msg[idx].full_ack_vec
      BY <1>7, <2>1 DEF Sendable
    <2>3. idx \in SendIdx
      BY <1>1, <2>2, WndSlotType
    <2>4. w2.rtx[idx] = 0 /\ ~(p.valid /\ p.seq = seq)
      <3>1. CASE p.valid
        <4>1. v.rtx = [w2.rtx EXCEPT ![k] = Rtx]
          BY <1>6, <1>7, <3>1
        <4> HIDE DEF idx
        <4>2. idx # k /\ w2.rtx[idx] = 0
          BY <1>5, <2>2, <2>3, <4>1, SendTimeAssumption
        <4> QED
          BY <4>2 DEF idx, k
      <3>2. CASE ~p.valid
        <4>1. v.rtx[idx] = w2.rtx[idx] \/ idx = k
          BY <1>5, <1>6, <2>3
        <4>2. v = w3 => v.rtx[k] = Rtx
          BY <1>5, <1>6
        <4>3. v = w2 \/ idx # k
          BY SMTT(30), <2>2, <4>2, SendTimeAssumption
        <4> QED
          BY <2>2, <3>2, <4>1, <4>3
      <3> QED
        BY <3>1, <3>2
    <2>5. i \in Sendable(p, w2)
      BY <2>2, <2>4 DEF Sendable
    <2> QED
      BY <1>4, <2>5
  <1>8. s.sw \in {w2, w3} /\ (p.valid => s.sw = w3)
    BY <1>2, <1>4 DEF CompletesMsg
  <1>9. Sendable(p2, s.sw) = {}
    BY <1>7, <1>8
  <1>10. s.sw.tiny_on => s.sw.tiny > 0
    BY <1>1, <1>6, <1>8
  <1> QED
    BY <1>2, <1>3, <1>9, <1>10 DEF Settled

(* Before any timer that is running runs out, a poll that hears nothing sends nothing. *)
LEMMA StaysSettled ==
    ASSUME NEW w \in SendWndType, NEW p \in SendWndPtrType, Settled(p, w), NEW sh, ~sh.seg,
           NEW rh, ~rh.ack, NEW dt \in Nat,
           \A i \in 0..(w.size - 1) :
              LET t == w.rtx[(w.seq + i) % SendCap] IN t # 0 => dt < t,
           w.tiny_on => dt < w.tiny
    PROVE  ~SendPoll(w, p, TRUE, sh, rh, dt).sh.seg
  <1> DEFINE inWnd == {(w.seq + i) % SendCap : i \in 0..(w.size - 1)}
             rtx2  == [i \in SendIdx |->
                         IF i \in inWnd THEN SubSat(w.rtx[i], dt) ELSE w.rtx[i]]
             tiny2 == IF w.tiny_on THEN SubSat(w.tiny, dt) ELSE w.tiny
             w2    == SendWndStep(w, dt)
             p2    == SendWndPtrNext(p, w2)
  <1>1. w2 = [w EXCEPT !.rtx = rtx2, !.tiny = tiny2]
    BY DEF SendWndStep
  <1>2. w.rtx \in [SendIdx -> Nat] /\ w.tiny \in Nat
    BY DEF SendWndType
  <1>3. ASSUME NEW i \in inWnd PROVE w.rtx[i] # 0 => dt < w.rtx[i]
    OBVIOUS
  <1> HIDE DEF inWnd, w2
  <1>4. \A i \in SendIdx : rtx2[i] = 0 => w.rtx[i] = 0
    <2> SUFFICES ASSUME NEW i \in SendIdx, rtx2[i] = 0 PROVE w.rtx[i] = 0
      OBVIOUS
    <2>1. CASE i \in inWnd
      <3>1. SubSat(w.rtx[i], dt) = 0
        BY <2>1
      <3>2. w.rtx[i] \in Nat
        BY <1>2
      <3> QED
        BY <1>3, <2>1, <3>1, <3>2 DEF SubSat
    <2>2. CASE i \notin inWnd
      BY <2>2
    <2> QED
      BY <2>1, <2>2
  <1>5. w.tiny_on => tiny2 # 0
    BY <1>2 DEF SubSat
  <1> HIDE DEF rtx2, tiny2
  <1>6. /\ w2.msg = w.msg /\ w2.seq = w.seq /\ w2.size = w.size
        /\ w2.tiny_on = w.tiny_on /\ w2.tiny = tiny2 /\ w2.rtx = rtx2
    BY <1>1 DEF SendWndType
  <1>7. SendPollTimers(w, rh, dt) = w2
    BY <1>5, <1>6 DEF SendPollTimers, w2
  <1>8. Sendable(p, w2) = {}
    <2> SUFFICES ASSUME NEW i \in Sendable(p, w2) PROVE FALSE
      OBVIOUS
    <2> DEFINE seq == (i + w.seq) % SeqMod
               idx == seq % SendCap
    <2>1. /\ i \in 0..(w.size - 1) /\ rtx2[idx] = 0 /\ w.msg[idx].len > 0
          /\ w.msg[idx].cur_ack_vec \subseteq w.msg[idx].full_ack_vec
          /\ w.msg[idx].cur_ack_vec # w.msg[idx].full_ack_vec
          /\ ~(p.valid /\ p.seq = seq)
      BY <1>6 DEF Sendable
    <2>2. idx \in SendIdx
      BY <2>1, WndSlotType
    <2>3. w.rtx[idx] = 0
      BY SMTT(30), <1>4, <2>1, <2>2
    <2>4. i \in Sendable(p, w)
      BY <2>1, <2>3 DEF Sendable
    <2> QED
      BY <2>4 DEF Settled
  <1>9. ~p2.valid
    <2>1. ~p.valid /\ ~StaysInMsg(p, w2)
      BY DEF Settled, StaysInMsg
    <2> QED
      BY <1>8, <2>1 DEF SendWndPtrNext
  <1> HIDE DEF p2
  <1>10. SendPoll(w, p, TRUE, sh, rh, dt).sh = sh
    BY <1>7, <1>9 DEF SendPoll, p2
  <1> QED
    BY <1>10

----------------------------------------------------------------------------
(* The shape as a predicate of a window, slot by slot *)

SlotOf(w, i) == (w.seq + i) % SendCap

ShapeAt(w, i) ==
    LET m == w.msg[SlotOf(w, i)]
    IN /\ i < w.size - 1 => m.len = MsgLen
       /\ i = w.size - 1 => m.len > 0
       /\ i >= w.size    => m = EmptyMsg

Shape(w) == \A i \in SendIdx : ShapeAt(w, i)

(* Only the messages, the start and the size of a window make its shape. *)
LEMMA SameShape ==
    ASSUME NEW w, NEW w2, Shape(w), w2.seq = w.seq, w2.size = w.size, w2.msg = w.msg
    PROVE  Shape(w2)
  BY DEF Shape, ShapeAt, SlotOf

LEMMA SlotsDiffer ==
    ASSUME NEW w \in SendWndType, NEW i \in SendIdx, NEW j \in SendIdx,
           SlotOf(w, i) = SlotOf(w, j)
    PROVE  i = j
  <1>1. w.seq \in Nat
    BY SeqModAssumption DEF SendWndType
  <1> QED
    BY <1>1, SlotInjective, SendCapAssumption DEF SlotOf, SendIdx

LEMMA SlotOfType ==
    ASSUME NEW w \in SendWndType, NEW i \in Nat
    PROVE  SlotOf(w, i) \in SendIdx
  <1>1. w.seq + i \in Nat
    BY SeqModAssumption DEF SendWndType
  <1> QED
    BY <1>1, SlotType DEF SlotOf

----------------------------------------------------------------------------
(* arq__send_wnd_flush, arq__send_wnd_step and arq__wnd_rst *)

LEMMA FlushShape ==
    ASSUME NEW w \in SendWndType, Shape(w)
    PROVE  Shape(SendWndFlush(w))
  <1> DEFINE idx == (w.seq + w.size - 1) % SendCap
             vec == AckVec(SegCount(w.msg[idx].len))
             w2  == SendWndFlush(w)
  <1>1. /\ w.size \in 0..SendCap /\ w.seq \in Nat
        /\ w.msg \in [SendIdx -> MsgType] /\ SendCap \in Nat \ {0}
    BY SendCapAssumption, SeqModAssumption DEF SendWndType
  <1>2. CASE w2 = w
    BY <1>2
  <1>3. CASE w2 # w
    <2>1. w.size # 0
      BY <1>3 DEF SendWndFlush
    <2>2. w2.seq = w.seq /\ w2.size = w.size /\ w2.msg = [w.msg EXCEPT ![idx].full_ack_vec = vec]
      BY <1>3 DEF SendWndFlush, SendWndType
    <2>3. w.size - 1 \in SendIdx /\ idx = SlotOf(w, w.size - 1)
      <3>1. w.seq + w.size - 1 = w.seq + (w.size - 1)
        BY <1>1
      <3> QED
        BY <1>1, <2>1, <3>1 DEF SlotOf, SendIdx
    <2> HIDE DEF idx, vec, w2
    <2>4. ASSUME NEW i \in SendIdx PROVE ShapeAt(w2, i)
      <3>1. SlotOf(w, i) \in SendIdx /\ SlotOf(w2, i) = SlotOf(w, i) /\ ShapeAt(w, i)
        BY <2>2, SlotOfType DEF SlotOf, Shape, SendIdx
      <3>2. CASE i = w.size - 1
        <4>1. w2.msg[SlotOf(w, i)].len = w.msg[SlotOf(w, i)].len
          BY <1>1, <2>2, <2>3, <3>1, <3>2 DEF MsgType
        <4> QED
          BY <1>1, <2>2, <3>1, <3>2, <4>1 DEF ShapeAt
      <3>3. CASE i # w.size - 1
        <4>1. SlotOf(w, i) # idx
          BY <2>3, <3>3, SlotsDiffer
        <4>2. w2.msg[SlotOf(w, i)] = w.msg[SlotOf(w, i)]
          BY <1>1, <2>2, <3>1, <4>1
        <4> QED
          BY <2>2, <3>1, <4>2 DEF ShapeAt
      <3> QED
        BY <3>2, <3>3
    <2> QED
      BY <2>4 DEF Shape, w2
  <1> QED
    BY <1>2, <1>3

LEMMA StepShape ==
    ASSUME NEW w \in SendWndType, Shape(w), NEW dt
    PROVE  Shape(SendWndStep(w, dt))
  <1>1. /\ SendWndStep(w, dt).seq = w.seq /\ SendWndStep(w, dt).size = w.size
        /\ SendWndStep(w, dt).msg = w.msg
    BY DEF SendWndStep, SendWndType
  <1> QED
    BY <1>1, SameShape

LEMMA RstShape ==
    ASSUME NEW buf
    PROVE  Shape(SendWndRst(buf))
  <1>1. ASSUME NEW i \in SendIdx PROVE (0 + i) % SendCap \in SendIdx
    <2>1. 0 + i \in Nat
      BY DEF SendIdx
    <2> QED
      BY <2>1, SlotType
  <1>2. ASSUME NEW i \in SendIdx PROVE i \in Nat
    BY DEF SendIdx
  <1> QED
    BY <1>1, <1>2 DEF Shape, ShapeAt, SlotOf, SendWndRst

----------------------------------------------------------------------------
(* arq__send_wnd_ack *)

(* Reducing the sequence number of the window's new start does not change the slots.
   It holds when the sequence number space is a whole number of rounds of the
   window, and as long as sequence numbers have not wrapped around. *)
KeepsSlots(w) ==
    \A n \in 0..w.size, i \in Nat :
        (((w.seq + n) % SeqMod) + i) % SendCap = (w.seq + n + i) % SendCap

LEMMA AckShape ==
    ASSUME NEW w \in SendWndType, Shape(w), KeepsSlots(w), NEW seq \in 0..(SeqMod - 1), NEW vec \in Vecs
    PROVE  Shape(SendWndAck(w, seq, vec))
  <1> DEFINE idx   == seq % SendCap
             msg   == [w.msg EXCEPT ![idx].cur_ack_vec = vec]
             n     == AckedPrefix(w, msg)
             freed == {(w.seq + i) % SendCap : i \in 0..(n - 1)}
             w2    == SendWndAck(w, seq, vec)
  <1>1. /\ w.size \in 0..SendCap /\ w.seq \in Nat
        /\ w.msg \in [SendIdx -> MsgType] /\ SendCap \in Nat \ {0}
    BY SendCapAssumption, SeqModAssumption DEF SendWndType
  <1>2. CASE ~AckInWnd(w, seq)
    BY <1>2 DEF SendWndAck
  <1>3. CASE AckInWnd(w, seq)
    <2>1. /\ w2.seq = (w.seq + n) % SeqMod
          /\ w2.size = w.size - n
          /\ w2.msg = [i \in SendIdx |-> IF i \in freed THEN EmptyMsg ELSE msg[i]]
      BY <1>3 DEF SendWndAck, SendWndType
    <2>2. n \in 0..w.size
      BY AckedPrefixType
    <2>3. PICK a \in 0..(w.size - 1) : idx = SlotOf(w, a)
      <3>1. seq - w.seq \in 0..(w.size - 1) /\ w.seq + (seq - w.seq) = seq
        BY <1>1, <1>3, SeqModAssumption DEF AckInWnd
      <3> QED
        BY <3>1 DEF SlotOf
    <2> HIDE DEF idx, n, w2
    <2>4. \A i \in SendIdx : SlotOf(w, i) \in SendIdx /\ ShapeAt(w, i)
      BY SlotOfType DEF Shape, SendIdx
    (* What is left of the window has the lengths it had; outside, nothing. *)
    <2>5. ASSUME NEW i \in SendIdx
          PROVE  /\ msg[SlotOf(w, i)].len = w.msg[SlotOf(w, i)].len
                 /\ i >= w.size => msg[SlotOf(w, i)] = EmptyMsg
      <3>1. a \in SendIdx /\ a < w.size
        BY <1>1, <2>3 DEF SendIdx
      <3>2. msg[SlotOf(w, i)].len = w.msg[SlotOf(w, i)].len
        BY <1>1, <2>4 DEF MsgType
      <3>3. ASSUME i >= w.size PROVE msg[SlotOf(w, i)] = EmptyMsg
        <4>1. i # a
          BY <1>1, <3>1, <3>3 DEF SendIdx
        <4>2. SlotOf(w, i) # idx
          BY <2>3, <3>1, <4>1, SlotsDiffer
        <4>3. msg[SlotOf(w, i)] = w.msg[SlotOf(w, i)]
          BY <1>1, <2>4, <4>2
        <4> QED
          BY <2>4, <3>3, <4>3 DEF ShapeAt
      <3> QED
        BY <3>2, <3>3
    <2>6. ASSUME NEW i \in SendIdx PROVE SlotOf(w, i) \in freed <=> i < n
      <3>1. ASSUME i < n PROVE SlotOf(w, i) \in freed
        <4>1. i \in 0..(n - 1)
          BY <1>1, <2>2, <3>1 DEF SendIdx
        <4> QED
          BY <4>1 DEF SlotOf
      <3>2. ASSUME SlotOf(w, i) \in freed PROVE i < n
        <4>1. PICK k \in 0..(n - 1) : SlotOf(w, i) = SlotOf(w, k)
          BY <3>2 DEF SlotOf
        <4>2. k \in SendIdx /\ k < n
          BY <1>1, <2>2, <4>1 DEF SendIdx
        <4>3. i = k
          BY <4>1, <4>2, SlotsDiffer
        <4> QED
          BY <4>2, <4>3
      <3> QED
        BY <3>1, <3>2
    <2> HIDE DEF msg, freed
    <2>7. ASSUME NEW j \in SendIdx PROVE ShapeAt(w2, j)
      <3>1. j \in Nat /\ j < SendCap /\ n \in Nat /\ n <= w.size
        BY <1>1, <2>2 DEF SendIdx
      <3>2. SlotOf(w2, j) = (w.seq + n + j) % SendCap
        <4>1. w.seq + n \in Nat
          BY <1>1, <3>1
        <4> QED
          BY <2>1, <3>1, <4>1, KeepsSlots(w) DEF KeepsSlots, SlotOf
      <3>3. CASE n + j < SendCap
        <4> DEFINE i == n + j
        <4>1. i \in SendIdx /\ ~(i < n)
          BY <1>1, <3>1, <3>3 DEF SendIdx
        <4>2. SlotOf(w2, j) = SlotOf(w, i)
          <5>1. w.seq + n + j = w.seq + i
            BY <1>1, <3>1
          <5> QED
            BY <3>2, <5>1 DEF SlotOf
        <4>3. /\ j < w2.size - 1 => i < w.size - 1
              /\ j = w2.size - 1 => i = w.size - 1
              /\ j >= w2.size => i >= w.size
          BY <1>1, <2>1, <3>1
        <4> HIDE DEF i
        <4>4. w2.msg[SlotOf(w2, j)] = msg[SlotOf(w, i)]
          BY <2>1, <2>4, <2>6, <4>1, <4>2
        <4>5. ShapeAt(w, i) /\ msg[SlotOf(w, i)].len = w.msg[SlotOf(w, i)].len
          BY <2>4, <2>5, <4>1
        <4>6. i >= w.size => msg[SlotOf(w, i)] = EmptyMsg
          BY <2>5, <4>1
        <4> QED
          BY <4>3, <4>4, <4>5, <4>6 DEF ShapeAt
      <3>4. CASE n + j >= SendCap
        <4> DEFINE i == n + j - SendCap
        <4>1. i \in SendIdx /\ i < n
          BY <1>1, <3>1, <3>4 DEF SendIdx
        <4>2. SlotOf(w2, j) = SlotOf(w, i)
          <5> DEFINE x == w.seq + i
          <5>1. x \in Nat /\ w.seq + n + j = SendCap * 1 + x
            BY <1>1, <3>1, <3>4
          <5> HIDE DEF x
          <5>2. (SendCap * 1 + x) % SendCap = x % SendCap
            BY <1>1, <5>1, ModAddMultiple
          <5> QED
            BY <3>2, <5>1, <5>2 DEF SlotOf, x
        <4>3. j >= w2.size
          BY <1>1, <2>1, <3>1, <3>4
        <4>4. w2.size \in Int
          BY <1>1, <2>1, <3>1
        <4> HIDE DEF i
        <4>5. w2.msg[SlotOf(w2, j)] = EmptyMsg
          BY <2>1, <2>4, <2>6, <4>1, <4>2
        <4> QED
          BY <3>1, <4>3, <4>4, <4>5 DEF ShapeAt
      <3> QED
        BY <1>1, <3>1, <3>3, <3>4
    <2> QED
      BY <2>7 DEF Shape, w2
  <1> QED
    BY <1>2, <1>3

----------------------------------------------------------------------------
(* arq__send_wnd_send *)

(* The size that arq__send_wnd_send computes from bytes: k messages before the
   last, and what t bytes from the start of the last one on take. *)
LEMMA SizeFromBytes ==
    ASSUME NEW m \in Nat \ {0}, NEW k \in Nat, NEW t \in Nat
    PROVE  (k * m + t + m - 1) \div m =
              k + (t \div m) + (IF t - (t \div m) * m > 0 THEN 1 ELSE 0)
  <1> DEFINE q == t \div m
             r == t % m
  <1>1. q \in Nat /\ r \in 0..(m - 1) /\ t = m * q + r
    BY DivModFacts
  <1> HIDE DEF q, r
  <1>2. t - q * m = r /\ k + q \in Nat /\ m * (k + q) = k * m + m * q
    BY <1>1
  <1>3. CASE r > 0
    <2>1. r - 1 \in 0..(m - 1) /\ k + q + 1 \in Nat
      BY <1>1, <1>3
    <2>2. m * (k + q + 1) = k * m + m * q + m
      BY <1>1
    <2>3. k * m + t + m - 1 = m * (k + q + 1) + (r - 1)
      BY <1>1, <2>2
    <2>4. (m * (k + q + 1) + (r - 1)) \div m = k + q + 1
      BY <2>1, DivUnique
    <2> QED
      BY <1>2, <1>3, <2>3, <2>4 DEF q
  <1>4. CASE r = 0
    <2>1. m - 1 \in 0..(m - 1)
      OBVIOUS
    <2>2. k * m + t + m - 1 = m * (k + q) + (m - 1)
      BY <1>1, <1>2, <1>4
    <2>3. (m * (k + q) + (m - 1)) \div m = k + q
      BY <1>2, <2>1, DivUnique
    <2>4. (IF t - q * m > 0 THEN 1 ELSE 0) = 0
      BY <1>2, <1>4
    <2>5. k + q = k + q + 0
      BY <1>2
    <2> QED
      BY <2>2, <2>3, <2>4, <2>5 DEF q
  <1> QED
    BY <1>1, <1>3, <1>4

(* What arq__send_wnd_send finds at the end of the window: k messages that are
   full, then one with last bytes, which is empty if the window is. *)
LEMMA TailFacts ==
    ASSUME NEW w \in SendWndType, Shape(w)
    PROVE  /\ SubSat(w.size, 1) \in Nat
           /\ w.size = 0 => SubSat(w.size, 1) = 0 /\ TailLen(w) = 0
           /\ w.size > 0 => w.size = SubSat(w.size, 1) + 1 /\ TailLen(w) > 0
  <1>1. w.size \in 0..SendCap /\ SendCap \in Nat \ {0}
    BY SendCapAssumption DEF SendWndType
  <1>2. CASE w.size = 0
    <2>1. 0 \in SendIdx /\ ShapeAt(w, 0) /\ SubSat(w.size, 1) = 0
      BY <1>1, <1>2 DEF Shape, SendIdx, SubSat
    <2>2. TailLen(w) = w.msg[SlotOf(w, 0)].len
      BY <2>1 DEF TailLen, TailSeq, SlotOf
    <2> QED
      BY <1>2, <2>1, <2>2 DEF ShapeAt, EmptyMsg
  <1>3. CASE w.size > 0
    <2>1. /\ w.size - 1 \in SendIdx /\ ShapeAt(w, w.size - 1)
          /\ SubSat(w.size, 1) = w.size - 1
      BY <1>1, <1>3 DEF Shape, SendIdx, SubSat
    <2>2. TailLen(w) = w.msg[SlotOf(w, w.size - 1)].len
      BY <2>1 DEF TailLen, TailSeq, SlotOf
    <2> QED
      BY <1>1, <1>3, <2>1, <2>2 DEF ShapeAt
  <1> QED
    BY <1>1, <1>2, <1>3

(* The whole messages and the rest that len bytes give behind the last bytes of
   the window's last message, and the size arq__send_wnd_send computes. *)
LEMMA SendCounts ==
    ASSUME NEW k \in Nat, NEW last \in Nat, NEW len \in Nat
    PROVE  LET full == (last + len) \div MsgLen
               rem  == (last + len) - full * MsgLen
           IN /\ full \in Nat /\ rem \in Nat
              /\ (k * MsgLen + last + len + MsgLen - 1) \div MsgLen =
                    k + full + (IF rem > 0 THEN 1 ELSE 0)
              /\ full = 0 /\ rem = 0 => last = 0
  <1> DEFINE t == last + len
             q == t \div MsgLen
             r == t % MsgLen
  <1>1. t \in Nat /\ t >= last /\ MsgLen \in Nat \ {0}
    BY MsgLenType
  <1>2. k * MsgLen + last + len = k * MsgLen + t
    <2>1. k * MsgLen \in Nat
      BY <1>1
    <2> QED
      BY <2>1
  <1> HIDE DEF t
  <1>3. q \in Nat /\ r \in 0..(MsgLen - 1) /\ t = MsgLen * q + r
    BY <1>1, DivModFacts
  <1>4. (k * MsgLen + t + MsgLen - 1) \div MsgLen =
           k + (t \div MsgLen) + (IF t - (t \div MsgLen) * MsgLen > 0 THEN 1 ELSE 0)
    BY <1>1, SizeFromBytes
  <1> HIDE DEF q, r
  <1>5. t - q * MsgLen = r /\ (q = 0 /\ r = 0 => t = 0)
    BY <1>1, <1>3
  <1>6. (k * MsgLen + t + MsgLen - 1) \div MsgLen = k + q + (IF r > 0 THEN 1 ELSE 0)
    BY <1>4, <1>5 DEF q
  <1>7. /\ q \in Nat /\ r \in Nat
        /\ q = 0 /\ r = 0 => last = 0
    BY <1>1, <1>3, <1>5
  <1>8. (last + len) \div MsgLen = q /\ (last + len) - q * MsgLen = r
    BY <1>5 DEF q, t
  <1> QED
    BY <1>2, <1>6, <1>7, <1>8

LEMMA SendShape ==
    ASSUME NEW w \in SendWndType, Shape(w), NEW data \in Seq(Nat)
    PROVE  Shape(SendWndSend(w, data))
  <1> DEFINE k      == SubSat(w.size, 1)
             seq    == TailSeq(w)
             last   == TailLen(w)
             len    == Accepted(w, Len(data))
             full   == (last + len) \div MsgLen
             rem    == (last + len) - full * MsgLen
             size   == (WndSizeInBytes(w) + len + MsgLen - 1) \div MsgLen
             tail   == (w.seq + size - 1) % SendCap
             filled == {(seq + i) % SendCap : i \in 0..(full - 1)}
             msg2   == [i \in SendIdx |->
                          IF rem > 0 /\ i = tail THEN [w.msg[i] EXCEPT !.len = rem]
                          ELSE IF i \in filled THEN [w.msg[i] EXCEPT !.len = MsgLen]
                          ELSE w.msg[i]]
             w2     == SendWndSend(w, data)
  <1>1. /\ w.size \in 0..SendCap /\ w.seq \in Nat
        /\ w.msg \in [SendIdx -> MsgType] /\ SendCap \in Nat \ {0}
    BY SendCapAssumption, SeqModAssumption DEF SendWndType
  <1>2. CASE Len(data) = 0
    BY <1>2 DEF SendWndSend
  <1>3. CASE Len(data) # 0
    <2>1. w2.seq = w.seq /\ w2.size = size /\ w2.msg = msg2
      BY <1>3 DEF SendWndSend, SendWndType
    <2>2. /\ k \in Nat
          /\ w.size = 0 => k = 0 /\ last = 0
          /\ w.size > 0 => w.size = k + 1 /\ last > 0
      BY TailFacts
    <2>3. Len(data) \in Nat
      OBVIOUS
    <2>4. len \in Nat /\ size \in 0..SendCap /\ last \in Nat /\ MsgLen \in Nat \ {0}
      <3>1. len \in 0..Len(data) /\ size \in 0..SendCap
        BY <2>3, AcceptedType
      <3>2. last \in 0..MsgLen
        BY TailType
      <3> QED
        BY <2>3, <3>1, <3>2, MsgLenType
    <2>5. seq = w.seq + k
      BY DEF TailSeq
    <2>6. WndSizeInBytes(w) = k * MsgLen + last
      BY DEF WndSizeInBytes
    <2> HIDE DEF k, last, len, seq
    <2>7. /\ full \in Nat /\ rem \in Nat
          /\ size = k + full + (IF rem > 0 THEN 1 ELSE 0)
          /\ full = 0 /\ rem = 0 => last = 0
      <3>1. size = (k * MsgLen + last + len + MsgLen - 1) \div MsgLen
        BY <2>6
      <3> HIDE DEF size
      <3> QED
        BY ZenonT(40), <2>2, <2>4, <3>1, SendCounts
    <2> HIDE DEF full, rem, size
    <2>8. size >= w.size /\ k + full <= SendCap /\ k <= w.size /\ w.size <= k + 1
      BY <1>1, <2>2, <2>4, <2>7
    <2>9. rem > 0 => k + full \in SendIdx /\ tail = SlotOf(w, k + full)
      <3>1. ASSUME rem > 0 PROVE k + full \in SendIdx /\ w.seq + size - 1 = w.seq + (k + full)
        BY <1>1, <2>2, <2>4, <2>7, <3>1 DEF SendIdx
      <3> QED
        BY <3>1 DEF SlotOf
    <2>0. /\ w.seq \in Nat /\ k \in Nat /\ full \in Nat /\ SendCap \in Nat
          /\ seq = w.seq + k /\ k + full <= SendCap
      BY <1>1, <2>2, <2>5, <2>7, <2>8
    <2>10. ASSUME NEW j \in SendIdx PROVE SlotOf(w, j) \in filled <=> j >= k /\ j < k + full
      <3>1. ASSUME j >= k, j < k + full PROVE SlotOf(w, j) \in filled
        <4>1. j - k \in 0..(full - 1) /\ w.seq + j = seq + (j - k)
          BY <2>0, <3>1 DEF SendIdx
        <4> QED
          BY <4>1 DEF SlotOf
      <3>2. ASSUME SlotOf(w, j) \in filled PROVE j >= k /\ j < k + full
        <4>1. PICK i \in 0..(full - 1) : SlotOf(w, j) = (seq + i) % SendCap
          BY <3>2
        <4>2. seq + i = w.seq + (k + i) /\ k + i \in SendIdx
          BY <2>0, <4>1 DEF SendIdx
        <4>3. SlotOf(w, j) = SlotOf(w, k + i)
          BY <4>1, <4>2 DEF SlotOf
        <4>4. j = k + i
          BY <4>2, <4>3, SlotsDiffer
        <4> QED
          BY <2>2, <2>7, <4>1, <4>4
      <3> QED
        BY <3>1, <3>2
    <2> HIDE DEF tail, filled, w2
    <2>11. ASSUME NEW j \in SendIdx PROVE ShapeAt(w2, j)
      <3> DEFINE s == SlotOf(w, j)
      <3>1. s \in SendIdx /\ ShapeAt(w, j) /\ j \in Nat
        BY SlotOfType DEF Shape, SendIdx
      <3>2. SlotOf(w2, j) = s
        BY <2>1 DEF SlotOf
      <3>3. rem > 0 => (s = tail <=> j = k + full)
        BY <2>9, SlotsDiffer
      <3>4. s \in filled <=> j >= k /\ j < k + full
        BY <2>10
      <3> HIDE DEF s
      <3>5. w.msg[s] \in MsgType
        BY <1>1, <3>1
      <3>6. CASE rem > 0 /\ j = k + full
        <4>1. w2.msg[s] = [w.msg[s] EXCEPT !.len = rem]
          BY <2>1, <3>1, <3>3, <3>6
        <4>2. w2.msg[s].len = rem
          BY <3>5, <4>1 DEF MsgType
        <4>3. j = w2.size - 1
          BY <2>1, <2>2, <2>7, <3>6
        <4>4. w2.size \in Nat
          BY <2>1, <2>4
        <4> QED
          BY <3>1, <3>2, <3>6, <4>2, <4>3, <4>4 DEF ShapeAt
      <3>7. CASE ~(rem > 0 /\ j = k + full) /\ j >= k /\ j < k + full
        <4>1. w2.msg[s] = [w.msg[s] EXCEPT !.len = MsgLen]
          BY <2>1, <3>1, <3>3, <3>4, <3>7
        <4>2. w2.msg[s].len = MsgLen
          BY <3>5, <4>1 DEF MsgType
        <4>3. j < w2.size /\ w2.size \in Nat
          BY <2>1, <2>2, <2>4, <2>7, <3>1, <3>7
        <4> QED
          BY <2>4, <3>1, <3>2, <4>2, <4>3 DEF ShapeAt
      <3>8. CASE ~(rem > 0 /\ j = k + full) /\ ~(j >= k /\ j < k + full)
        <4>1. w2.msg[s] = w.msg[s]
          BY <2>1, <3>1, <3>3, <3>4, <3>8
        <4>2. CASE j < k
          <5>1. j < w.size - 1 /\ j < w2.size - 1 /\ w2.size \in Nat
            BY <1>1, <2>1, <2>2, <2>4, <2>8, <3>1, <4>2
          <5>2. w.msg[s].len = MsgLen
            BY <3>1, <5>1 DEF ShapeAt, s
          <5> QED
            BY <3>1, <3>2, <4>1, <5>1, <5>2 DEF ShapeAt
        <4>3. CASE j >= k
          <5>1. j >= w2.size /\ j >= w.size /\ w2.size \in Nat
            <6>1. j >= k + full /\ (rem > 0 => j # k + full)
              BY <2>2, <2>7, <3>1, <3>8, <4>3
            <6>2. j >= size
              BY <2>2, <2>7, <3>1, <6>1
            <6>3. w2.size = size
              BY <2>1
            <6> QED
              BY <1>1, <2>4, <2>8, <3>1, <6>2, <6>3
          <5>2. w.msg[s] = EmptyMsg
            BY <3>1, <5>1 DEF ShapeAt, s
          <5> QED
            BY <3>1, <3>2, <4>1, <5>1, <5>2 DEF ShapeAt
        <4> QED
          BY <2>2, <3>1, <4>2, <4>3
      <3> QED
        BY <3>6, <3>7, <3>8
    <2> QED
      BY <2>11 DEF Shape, w2
  <1> QED
    BY <1>2, <1>3

----------------------------------------------------------------------------
(* arq__send_poll *)

LEMMA SendPollTimersShape ==
    ASSUME NEW w \in SendWndType, Shape(w), KeepsSlots(w), NEW rh, CanAck(rh), NEW dt \in Nat
    PROVE  Shape(SendPollTimers(w, rh, dt))
  <1> DEFINE acked   == IF rh.ack THEN SendWndAck(w, rh.ack_num, rh.cur_ack_vec) ELSE w
             stepped == SendWndStep(acked, dt)
             flushed == SendWndFlush(stepped)
  <1>1. SendPollTimers(w, rh, dt) =
          IF stepped.tiny_on /\ stepped.tiny = 0
          THEN [flushed EXCEPT !.tiny_on = FALSE]
          ELSE stepped
    BY DEF SendPollTimers
  <1>2. acked \in SendWndType /\ Shape(acked)
    <2>1. CASE rh.ack
      <3>1. rh.ack_num \in 0..(SeqMod - 1) /\ rh.cur_ack_vec \in Vecs
        BY <2>1 DEF CanAck
      <3> QED
        BY <2>1, <3>1, AckType, AckShape
    <2>2. CASE ~rh.ack
      BY <2>2
    <2> QED
      BY <2>1, <2>2
  <1> HIDE DEF acked
  <1>3. stepped \in SendWndType /\ Shape(stepped)
    BY <1>2, StepType, StepShape
  <1> HIDE DEF stepped
  <1>4. flushed \in SendWndType /\ Shape(flushed)
    BY <1>3, FlushType, FlushShape
  <1> HIDE DEF flushed
  <1>5. Shape([flushed EXCEPT !.tiny_on = FALSE])
    <2> DEFINE w2 == [flushed EXCEPT !.tiny_on = FALSE]
    <2>1. w2.seq = flushed.seq /\ w2.size = flushed.size /\ w2.msg = flushed.msg
      BY <1>4 DEF SendWndType
    <2> HIDE DEF w2
    <2>2. Shape(w2)
      BY <1>4, <2>1, SameShape
    <2> QED
      BY <2>2 DEF w2
  <1> QED
    BY <1>1, <1>3, <1>5

LEMMA SendPollShape ==
    ASSUME NEW w \in SendWndType, Shape(w), KeepsSlots(w), NEW p, NEW psh, NEW sh,
           NEW rh, CanAck(rh), NEW dt \in Nat
    PROVE  Shape(SendPoll(w, p, psh, sh, rh, dt).sw)
  <1> DEFINE w2 == SendPollTimers(w, rh, dt)
             w3 == SendPoll(w, p, psh, sh, rh, dt).sw
  <1>1. w2 \in SendWndType /\ Shape(w2)
    BY SendPollTimersType, SendPollTimersShape
  <1>2. w3 = IF psh /\ CompletesMsg(p, w2) THEN [w2 EXCEPT !.rtx[p.seq % SendCap] = Rtx]
             ELSE w2
    BY DEF SendPoll
  <1> HIDE DEF w2, w3
  <1>3. w3.seq = w2.seq /\ w3.size = w2.size /\ w3.msg = w2.msg
    BY <1>1, <1>2 DEF SendWndType
  <1>4. Shape(w3)
    BY <1>1, <1>3, SameShape
  <1> QED
    BY <1>4 DEF w3

(* Where the window starts in its ring buffer. *)
Base(w) == (w.seq % SendCap) * MsgLen

Content(w, s) ==
    LET n == WndSizeInBytes(w)
    IN \A j \in 0..(n - 1) : w.buf[(Base(w) + j) % SendBytes] = s - n + j + 1

LEMMA SendBytesPositive == SendBytes \in Nat \ {0}
  <1>1. 1 * MsgLen <= SendCap * MsgLen
    BY TimesMonotone, MsgLenType, SendCapAssumption
  <1> QED
    BY <1>1, MsgLenType, SendCapAssumption DEF SendBytes

LEMMA SameContent ==
    ASSUME NEW w, NEW w2, NEW s, Content(w, s),
           w2.seq = w.seq, w2.buf = w.buf, WndSizeInBytes(w2) = WndSizeInBytes(w)
    PROVE  Content(w2, s)
  BY DEF Content, Base

(* The start of message k of the window, counted from the buffer's start and
   not reduced: whole buffers and the slot of that message. *)
LEMMA MessageStart ==
    ASSUME NEW s \in Nat, NEW k \in Nat
    PROVE  \E q \in Nat :
              (s % SendCap) * MsgLen + k * MsgLen =
                 SendBytes * q + ((s + k) % SendCap) * MsgLen
  <1> DEFINE d == s \div SendCap
             r == s % SendCap
  <1>1. d \in Nat /\ r \in Nat /\ s = SendCap * d + r
    BY DivModFacts, SendCapAssumption
  <1> HIDE DEF d, r
  <1> DEFINE x == r + k
  <1>2. x = r + k
    OBVIOUS
  <1>0. x \in Nat
    BY <1>1
  <1> HIDE DEF x
  <1> DEFINE q == x \div SendCap
             t == x % SendCap
  <1>3. q \in Nat /\ t \in Nat /\ x = SendCap * q + t
    BY <1>0, DivModFacts, SendCapAssumption
  <1>4. (s + k) % SendCap = t
    <2>1. s + k = SendCap * d + x
      BY <1>1, <1>2, SendCapAssumption
    <2>2. (SendCap * d + x) % SendCap = x % SendCap
      BY <1>0, <1>1, ModAddMultiple, SendCapAssumption
    <2> QED
      BY <2>1, <2>2
  <1> HIDE DEF q, t
  <1>5. (r + k) * MsgLen = (SendCap * q + t) * MsgLen
    BY <1>2, <1>3
  <1>6. r * MsgLen + k * MsgLen = (SendCap * MsgLen) * q + t * MsgLen
    BY <1>1, <1>3, <1>5, MsgLenType, SendCapAssumption
  <1> QED
    BY <1>3, <1>4, <1>6 DEF r, SendBytes

----------------------------------------------------------------------------
(* Position p of the ring got new: the data if it is one of the len positions from
   at on, else what it held. *)
Copied(new, old, at, data, len, p) ==
    /\ \A d \in 0..(len - 1) : (at + d) % SendBytes = p => new = data[d + 1]
    /\ (\A d \in 0..(len - 1) : (at + d) % SendBytes # p) => new = old

(* The two copies of arq__send_wnd_send put the data at consecutive positions of
   the ring, from at on, and touch no other. *)
LEMMA CopyInRing ==
    ASSUME NEW buf \in [SendBufIdx -> Nat], NEW at \in 0..SendBytes,
           NEW data, NEW len \in 0..SendBytes, NEW p \in SendBufIdx
    PROVE  Copied(CopyIn(buf, at, data, len)[p], buf[p], at, data, len, p)
  <1> DEFINE pre == Min2(len, SendBytes - at)
  <1>1. /\ SendBytes \in Nat \ {0} /\ p \in Nat /\ p < SendBytes
        /\ at \in Nat /\ at <= SendBytes /\ len \in Nat
    BY SendBytesPositive DEF SendBufIdx
  <1>2. /\ pre \in Nat /\ pre <= len /\ pre <= SendBytes - at
        /\ pre < len => pre = SendBytes - at
    BY <1>1 DEF Min2
  <1>3. CopyIn(buf, at, data, len)[p] =
          IF p < len - pre THEN data[pre + p + 1]
          ELSE IF p \in at..(at + pre - 1) THEN data[p - at + 1]
          ELSE buf[p]
    BY DEF CopyIn
  <1>4. ASSUME NEW d \in Nat, d < SendBytes
        PROVE  (at + d) % SendBytes = IF at + d < SendBytes THEN at + d ELSE at + d - SendBytes
    <2>1. CASE at + d < SendBytes
      <3>1. at + d \in 0..(SendBytes - 1)
        BY <1>1, <2>1
      <3>2. (SendBytes * 0 + (at + d)) % SendBytes = at + d
        BY <1>1, <3>1, DivUnique
      <3> QED
        BY <1>1, <2>1, <3>2
    <2>2. CASE at + d >= SendBytes
      <3>1. at + d - SendBytes \in 0..(SendBytes - 1)
        BY <1>1, <1>4, <2>2
      <3>2. (SendBytes * 1 + (at + d - SendBytes)) % SendBytes = at + d - SendBytes
        BY <1>1, <3>1, DivUnique
      <3>3. SendBytes * 1 + (at + d - SendBytes) = at + d
        BY <1>1
      <3> QED
        BY <1>1, <2>2, <3>2, <3>3
    <2> QED
      BY <1>1, <2>1, <2>2
  <1> HIDE DEF pre
  <1>5. ASSUME NEW d \in 0..(len - 1), (at + d) % SendBytes = p
        PROVE  CopyIn(buf, at, data, len)[p] = data[d + 1]
    <2>1. d \in Nat /\ d < len /\ d < SendBytes
      BY <1>1
    <2>2. p = IF at + d < SendBytes THEN at + d ELSE at + d - SendBytes
      BY <1>4, <1>5, <2>1
    <2>3. CASE at + d < SendBytes
      <3>1. ~(p < len - pre) /\ p \in at..(at + pre - 1) /\ p - at + 1 = d + 1
        BY <1>1, <1>2, <2>1, <2>2, <2>3
      <3> QED
        BY <1>3, <3>1
    <2>4. CASE at + d >= SendBytes
      <3>1. p < len - pre /\ pre + p + 1 = d + 1
        BY <1>1, <1>2, <2>1, <2>2, <2>4
      <3> QED
        BY <1>3, <3>1
    <2> QED
      BY <1>1, <2>1, <2>3, <2>4
  <1>6. ASSUME \A d \in 0..(len - 1) : (at + d) % SendBytes # p
        PROVE  CopyIn(buf, at, data, len)[p] = buf[p]
    <2>1. ~(p < len - pre)
      <3> SUFFICES ASSUME p < len - pre PROVE FALSE
        OBVIOUS
      <3> DEFINE d == pre + p
      <3>1. d \in 0..(len - 1) /\ d \in Nat /\ d < SendBytes
        BY <1>1, <1>2
      <3>2. at + d >= SendBytes /\ at + d - SendBytes = p
        BY <1>1, <1>2
      <3> HIDE DEF d
      <3>3. (at + d) % SendBytes = p
        BY <1>1, <1>4, <3>1, <3>2
      <3> QED
        BY <1>6, <3>1, <3>3
    <2>2. p \notin at..(at + pre - 1)
      <3> SUFFICES ASSUME p \in at..(at + pre - 1) PROVE FALSE
        OBVIOUS
      <3>1. p - at \in 0..(len - 1) /\ p - at \in Nat /\ p - at < SendBytes
        BY <1>1, <1>2
      <3>2. at + (p - at) = p
        BY <1>1
      <3> QED
        BY <1>1, <1>4, <1>6, <3>1, <3>2
    <2> QED
      BY <1>3, <2>1, <2>2
  <1> QED
    BY <1>5, <1>6 DEF Copied

(* Byte j of a run of n bytes and the data behind them. *)
Behind(new, old, data, n, j) == new = IF j < n THEN old ELSE data[j - n + 1]

(* The same, for a ring of which n bytes from b on are in use and at is the
   position behind them. *)
LEMMA CopyInBehind ==
    ASSUME NEW buf \in [SendBufIdx -> Nat], NEW at \in 0..SendBytes,
           NEW data, NEW len \in 0..SendBytes,
           NEW b \in Nat, NEW n \in Nat, NEW q \in Nat,
           b + n = SendBytes * q + at, n + len <= SendBytes,
           NEW j \in 0..(n + len - 1)
    PROVE  Behind(CopyIn(buf, at, data, len)[(b + j) % SendBytes],
                  buf[(b + j) % SendBytes], data, n, j)
  <1> DEFINE p == (b + j) % SendBytes
  <1>1. SendBytes \in Nat \ {0} /\ at \in Nat /\ len \in Nat /\ j \in Nat /\ b + j \in Nat
    BY SendBytesPositive
  <1>2. p \in SendBufIdx
    BY <1>1, DivModFacts DEF SendBufIdx
  <1>3. ASSUME NEW d \in 0..(len - 1)
        PROVE  (at + d) % SendBytes = (b + (n + d)) % SendBytes
    <2> DEFINE x == at + d
    <2>1. x \in Nat /\ SendBytes * q \in Nat
      BY <1>1
    <2>2. b + (n + d) = SendBytes * q + x
      BY <1>1, <2>1
    <2> HIDE DEF x
    <2>3. (SendBytes * q + x) % SendBytes = x % SendBytes
      BY <1>1, <2>1, ModAddMultiple
    <2> QED
      BY <2>2, <2>3 DEF x
  <1> DEFINE copied == CopyIn(buf, at, data, len)[p]
  <1> HIDE DEF p
  <1>7. Copied(copied, buf[p], at, data, len, p)
    BY <1>2, CopyInRing
  <1> HIDE DEF copied
  <1>6. /\ \A d \in 0..(len - 1) : (at + d) % SendBytes = p => copied = data[d + 1]
        /\ (\A d \in 0..(len - 1) : (at + d) % SendBytes # p) => copied = buf[p]
    BY <1>7 DEF Copied
  <1>4. CASE j >= n
    <2> DEFINE d == j - n
    <2>1. d \in 0..(len - 1) /\ n + d = j
      BY <1>1, <1>4
    <2> HIDE DEF d
    <2>2. (at + d) % SendBytes = p
      BY <1>3, <2>1 DEF p
    <2>3. copied = data[d + 1]
      BY <1>6, <2>1, <2>2
    <2>4. ~(j < n)
      BY <1>1, <1>4
    <2> QED
      BY <2>3, <2>4 DEF p, copied, d, Behind
  <1>5. CASE j < n
    <2>1. ASSUME NEW d \in 0..(len - 1), (at + d) % SendBytes = p PROVE FALSE
      <3>1. n + d \in 0..(SendBytes - 1) /\ j \in 0..(SendBytes - 1) /\ n + d # j
        BY <1>1, <1>5
      <3>2. (b + (n + d)) % SendBytes = (b + j) % SendBytes
        BY <1>3, <2>1 DEF p
      <3> QED
        BY <1>1, <3>1, <3>2, SlotInjective
    <2>2. copied = buf[p]
      BY <1>6, <2>1
    <2> QED
      BY <1>5, <2>2 DEF p, copied, Behind
  <1> QED
    BY <1>1, <1>4, <1>5 DEF Behind

LEMMA BaseType ==
    ASSUME NEW w \in SendWndType
    PROVE  Base(w) \in Nat
  <1>1. w.seq % SendCap \in SendIdx
    BY SeqModAssumption, SlotType DEF SendWndType
  <1> QED
    BY <1>1, MsgLenType, SendCapAssumption DEF Base, SendIdx

(* arq__send_wnd_send copies to the position behind the window's last byte. *)
LEMMA TailPosition ==
    ASSUME NEW w \in SendWndType
    PROVE  \E q \in Nat :
              Base(w) + WndSizeInBytes(w) =
                 SendBytes * q + ((TailSeq(w) % SendCap) * MsgLen + TailLen(w))
  <1> DEFINE k    == SubSat(w.size, 1)
             slot == TailSeq(w) % SendCap
             last == TailLen(w)
  <1>0. w.seq \in Nat /\ w.size \in Nat /\ 1 \in Nat
    BY SeqModAssumption, SendCapAssumption DEF SendWndType
  <1>8. TailSeq(w) = w.seq + k
    BY DEF TailSeq
  <1>1. w.seq \in Nat /\ k \in Nat
    BY <1>0, SubSatType
  <1>2. slot \in Nat /\ last \in Nat /\ MsgLen \in Nat \ {0} /\ SendBytes \in Nat
    BY TailType, MsgLenType, SendBytesType DEF SendIdx
  <1>3. WndSizeInBytes(w) = k * MsgLen + last
    BY DEF WndSizeInBytes
  <1>4. PICK q \in Nat : Base(w) + k * MsgLen = SendBytes * q + slot * MsgLen
    <2> HIDE DEF k
    <2>1. \E q \in Nat : (w.seq % SendCap) * MsgLen + k * MsgLen =
                             SendBytes * q + ((w.seq + k) % SendCap) * MsgLen
      BY <1>1, MessageStart
    <2> QED
      BY <1>8, <2>1 DEF Base, slot
  <1> HIDE DEF k, slot, last
  <1> DEFINE km == k * MsgLen
             sm == slot * MsgLen
             bq == SendBytes * q
  <1>5. km \in Nat /\ sm \in Nat /\ bq \in Nat /\ Base(w) \in Nat
    BY <1>1, <1>2, BaseType
  <1>6. Base(w) + km = bq + sm /\ WndSizeInBytes(w) = km + last
    BY <1>3, <1>4
  <1> HIDE DEF km, sm, bq
  <1>7. Base(w) + WndSizeInBytes(w) = bq + (sm + last)
    BY <1>2, <1>5, <1>6
  <1> QED
    BY <1>7 DEF bq, sm, slot, last

----------------------------------------------------------------------------
(* What an acknowledgement leaves is what followed the messages it completes. *)
LEMMA AckContent ==
    ASSUME NEW w \in SendWndType, Shape(w), KeepsSlots(w), NEW seq \in 0..(SeqMod - 1), NEW vec \in Vecs,
           NEW s \in Nat, Content(w, s)
    PROVE  Content(SendWndAck(w, seq, vec), s)
  <1> DEFINE idx   == seq % SendCap
             msg   == [w.msg EXCEPT ![idx].cur_ack_vec = vec]
             n     == AckedPrefix(w, msg)
             freed == {(w.seq + i) % SendCap : i \in 0..(n - 1)}
             w2    == SendWndAck(w, seq, vec)
  <1>1. /\ w.size \in 0..SendCap /\ w.seq \in Nat
        /\ w.msg \in [SendIdx -> MsgType] /\ SendCap \in Nat \ {0}
        /\ MsgLen \in Nat \ {0}
    BY MsgLenType, SendCapAssumption, SeqModAssumption DEF SendWndType
  <1>2. CASE ~AckInWnd(w, seq)
    BY <1>2 DEF SendWndAck
  <1>3. CASE AckInWnd(w, seq)
    <2>1. /\ w2.seq = (w.seq + n) % SeqMod
          /\ w2.size = w.size - n
          /\ w2.buf = w.buf
          /\ w2.msg = [i \in SendIdx |-> IF i \in freed THEN EmptyMsg ELSE msg[i]]
      BY <1>3 DEF SendWndAck, SendWndType
    <2>2. n \in 0..w.size
      BY AckedPrefixType
    <2>3. w2 \in SendWndType /\ Shape(w2)
      BY AckType, AckShape
    <2>4. ASSUME NEW i \in SendIdx PROVE msg[i].len = w.msg[i].len
      BY <1>1 DEF MsgType
    <2> HIDE DEF idx, n, w2, msg
    <2>5. CASE n = w.size
      <3>1. w2.size = 0
        BY <1>1, <2>1, <2>5
      <3>2. WndSizeInBytes(w2) = 0
        BY <1>1, <2>3, <3>1, TailFacts DEF WndSizeInBytes
      <3> QED
        BY <3>2 DEF Content, w2
    <2>6. CASE n < w.size
      <3> DEFINE k == w.size - 1 - n
                 i == w.size - 1
      <3>1. n \in Nat /\ k \in Nat /\ i \in SendIdx /\ i = n + k
        BY <1>1, <2>2, <2>6 DEF SendIdx
      <3>2. SubSat(w2.size, 1) = k /\ SubSat(w.size, 1) = i
        BY <1>1, <2>1, <2>2, <2>6 DEF SubSat
      <3> HIDE DEF k, i
      <3>3. TailSeq(w2) % SendCap = SlotOf(w, i) /\ TailSeq(w) % SendCap = SlotOf(w, i)
        <4>1. w.seq + n \in Nat /\ w.seq + n + k = w.seq + i
          BY <1>1, <3>1
        <4>2. (((w.seq + n) % SeqMod) + k) % SendCap = (w.seq + n + k) % SendCap
          BY <3>1, <2>2, <4>1, KeepsSlots(w) DEF KeepsSlots
        <4> QED
          BY <2>1, <3>2, <4>1, <4>2 DEF TailSeq, SlotOf
      <3>4. SlotOf(w, i) \in SendIdx
        BY <3>1, SlotOfType DEF SendIdx
      <3>5. SlotOf(w, i) \notin freed
        <4> SUFFICES ASSUME SlotOf(w, i) \in freed PROVE FALSE
          OBVIOUS
        <4>1. PICK f \in 0..(n - 1) : SlotOf(w, i) = SlotOf(w, f)
          BY DEF SlotOf
        <4>2. f \in SendIdx /\ f # i
          BY <1>1, <2>2, <3>1, <4>1 DEF SendIdx
        <4> QED
          BY <3>1, <4>1, <4>2, SlotsDiffer
      <3>6. TailLen(w2) = TailLen(w)
        BY <2>1, <2>4, <3>3, <3>4, <3>5 DEF TailLen
      <3>7. TailLen(w) \in Nat
        BY <1>1, TailType
      <3>8. /\ WndSizeInBytes(w) = n * MsgLen + WndSizeInBytes(w2)
            /\ WndSizeInBytes(w2) \in Nat /\ n * MsgLen \in Nat
        <4>1. i * MsgLen = n * MsgLen + k * MsgLen
          BY <1>1, <3>1
        <4>2. n * MsgLen \in Nat /\ k * MsgLen \in Nat
          BY <1>1, <3>1
        <4> QED
          BY <3>2, <3>6, <3>7, <4>1, <4>2 DEF WndSizeInBytes
      <3>9. PICK q \in Nat : Base(w) + n * MsgLen = SendBytes * q + Base(w2)
        <4>1. w.seq + n \in Nat
          BY <1>1, <3>1
        <4>2. (((w.seq + n) % SeqMod) + 0) % SendCap = (w.seq + n + 0) % SendCap
          BY <2>2, <4>1, KeepsSlots(w) DEF KeepsSlots
        <4>3. (w.seq + n) % SeqMod \in Nat
          BY <4>1, DivModFacts, SeqModAssumption
        <4>4. w2.seq % SendCap = (w.seq + n) % SendCap
          BY <2>1, <4>1, <4>2, <4>3
        <4>5. PICK d \in Nat : (w.seq % SendCap) * MsgLen + n * MsgLen =
                                 SendBytes * d + ((w.seq + n) % SendCap) * MsgLen
          <5>1. w.seq \in Nat /\ n \in Nat
            BY <1>1, <3>1
          <5> QED
            BY <5>1, MessageStart
        <4> QED
          BY <4>4, <4>5 DEF Base
      <3>10. Base(w) \in Nat /\ Base(w2) \in Nat
        <4>1. ASSUME NEW v \in SendWndType PROVE Base(v) \in Nat
          <5>1. v.seq % SendCap \in Nat
            BY SeqModAssumption, SlotType DEF SendWndType, SendIdx
          <5> QED
            BY <1>1, <5>1 DEF Base
        <4> QED
          BY <2>3, <4>1
      <3> DEFINE nb == WndSizeInBytes(w2)
                 nm == n * MsgLen
      <3>11. ASSUME NEW j \in 0..(nb - 1)
             PROVE  w2.buf[(Base(w2) + j) % SendBytes] = s - nb + j + 1
        <4> DEFINE x == Base(w2) + j
        <4>1. x \in Nat /\ j \in Nat
          BY <3>8, <3>10
        <4> HIDE DEF nb, nm
        <4>2. Base(w) + (nm + j) = SendBytes * q + x
          <5>1. SendBytes * q \in Nat
            BY <3>9, SendBytesType
          <5> QED
            BY <3>8, <3>9, <3>10, <4>1, <5>1 DEF nm
        <4> HIDE DEF x
        <4>3. (SendBytes * q + x) % SendBytes = x % SendBytes
          BY <3>9, <4>1, ModAddMultiple, SendBytesPositive
        <4>4. nm + j \in 0..(WndSizeInBytes(w) - 1) /\ WndSizeInBytes(w) = nm + nb /\ nm \in Nat
          BY <3>8, <4>1 DEF nm, nb
        <4>5. w.buf[(Base(w) + (nm + j)) % SendBytes] = s - (nm + nb) + (nm + j) + 1
          BY <4>4 DEF Content
        <4>6. s - (nm + nb) + (nm + j) + 1 = s - nb + j + 1
          BY <3>8, <4>1, <4>4 DEF nb
        <4> QED
          BY <2>1, <4>2, <4>3, <4>5, <4>6 DEF x
      <3> HIDE DEF nb
      <3>12. Content(w2, s)
        BY <3>11 DEF Content, nb
      <3> QED
        BY <3>12 DEF w2
    <2> QED
      BY <1>1, <2>2, <2>5, <2>6
  <1> QED
    BY <1>2, <1>3
----------------------------------------------------------------------------
(* The byte counts of the window before and after differ by what arq_send takes,
   however the new bytes fall into messages. *)
LEMMA SendSizeInBytes ==
    ASSUME NEW w \in SendWndType, Shape(w), NEW data \in Seq(Nat), Len(data) # 0
    PROVE  WndSizeInBytes(SendWndSend(w, data)) = WndSizeInBytes(w) + Accepted(w, Len(data))
  <1> DEFINE k      == SubSat(w.size, 1)
             seq    == TailSeq(w)
             last   == TailLen(w)
             len    == Accepted(w, Len(data))
             full   == (last + len) \div MsgLen
             rem    == (last + len) - full * MsgLen
             size   == (WndSizeInBytes(w) + len + MsgLen - 1) \div MsgLen
             tail   == (w.seq + size - 1) % SendCap
             filled == {(seq + i) % SendCap : i \in 0..(full - 1)}
             w2     == SendWndSend(w, data)
  <1>1. /\ w.size \in 0..SendCap /\ w.seq \in Nat
        /\ w.msg \in [SendIdx -> MsgType] /\ SendCap \in Nat \ {0}
        /\ MsgLen \in Nat \ {0}
    BY MsgLenType, SendCapAssumption, SeqModAssumption DEF SendWndType
  <1>2. /\ w2.seq = w.seq /\ w2.size = size
        /\ w2.msg = [i \in SendIdx |->
                       IF rem > 0 /\ i = tail THEN [w.msg[i] EXCEPT !.len = rem]
                       ELSE IF i \in filled THEN [w.msg[i] EXCEPT !.len = MsgLen]
                       ELSE w.msg[i]]
    BY DEF SendWndSend, SendWndType
  <1>3. Shape(w2) /\ w2 \in SendWndType
    BY SendShape, SendType
  <1>4. /\ k \in Nat
        /\ w.size = 0 => k = 0 /\ last = 0
        /\ w.size > 0 => w.size = k + 1 /\ last > 0
    BY TailFacts
  <1>5. len \in Nat /\ last \in Nat
    <2>1. Len(data) \in Nat
      OBVIOUS
    <2>2. len \in 0..Len(data) /\ last \in 0..MsgLen
      BY <2>1, AcceptedType, TailType
    <2> QED
      BY <1>1, <2>1, <2>2
  <1>6. seq = w.seq + k
    BY DEF TailSeq
  <1>13. WndSizeInBytes(w) = k * MsgLen + last
    BY DEF WndSizeInBytes
  <1> HIDE DEF k, last, len, seq, w2
  <1>7. /\ full \in Nat /\ rem \in Nat
        /\ size = k + full + (IF rem > 0 THEN 1 ELSE 0)
        /\ full = 0 /\ rem = 0 => last = 0
    <2>1. size = (k * MsgLen + last + len + MsgLen - 1) \div MsgLen
      BY <1>13
    <2> HIDE DEF size
    <2> QED
      BY <1>4, <1>5, <2>1, SendCounts
  <1>8. full * MsgLen + rem = last + len
    <2> HIDE DEF full
    <2>1. full * MsgLen \in Nat
      BY <1>1, <1>7
    <2> QED
      BY <1>5, <2>1
  <1> HIDE DEF full, rem, size
  <1>9. /\ k * MsgLen \in Nat /\ full * MsgLen \in Nat
        /\ (k + full) * MsgLen = k * MsgLen + full * MsgLen
        /\ (k + full - 1) * MsgLen = k * MsgLen + full * MsgLen - MsgLen
    BY <1>1, <1>4, <1>7
  <1> DEFINE km == k * MsgLen
             fm == full * MsgLen
  <1> HIDE DEF km, fm
  <1>14. WndSizeInBytes(w) + len = km + fm + rem
    <2>1. /\ km \in Nat /\ fm \in Nat /\ fm + rem = last + len
          /\ WndSizeInBytes(w) = km + last
      BY <1>8, <1>9, <1>13 DEF km, fm
    <2> QED
      BY <1>5, <1>7, <2>1
  <1>10. CASE rem > 0
    <2>1. tail \in SendIdx
      <3>1. w.seq + size - 1 \in Nat
        BY <1>1, <1>4, <1>7, <1>10
      <3> QED
        BY <3>1, SlotType
    <2>2. SubSat(w2.size, 1) = k + full /\ w2.seq + (k + full) = w.seq + size - 1
      BY <1>1, <1>2, <1>4, <1>7, <1>10 DEF SubSat
    <2>3. TailSeq(w2) % SendCap = tail
      BY <2>2 DEF TailSeq
    <2> HIDE DEF tail
    <2>4. w2.msg[tail] = [w.msg[tail] EXCEPT !.len = rem] /\ w.msg[tail] \in MsgType
      BY <1>1, <1>2, <1>10, <2>1
    <2>5. w2.msg[tail].len = rem
      BY <2>4 DEF MsgType
    <2>6. TailLen(w2) = rem
      BY <2>3, <2>5 DEF TailLen
    <2>7. WndSizeInBytes(w2) = km + fm + rem
      BY <1>9, <2>2, <2>6 DEF WndSizeInBytes, km, fm
    <2> QED
      BY <1>14, <2>7 DEF len, w2
  <1>11. CASE rem = 0 /\ full > 0
    <2>1. full - 1 \in 0..(full - 1) /\ seq + (full - 1) \in Nat
      BY <1>1, <1>4, <1>6, <1>7, <1>11
    <2> DEFINE slot == (seq + (full - 1)) % SendCap
    <2>2. slot \in filled /\ slot \in SendIdx
      BY <2>1, SlotType
    <2>3. SubSat(w2.size, 1) = k + full - 1 /\ w2.seq + (k + full - 1) = seq + (full - 1)
      <3>1. w2.seq = w.seq /\ w2.size = size /\ w.seq \in Nat
        BY <1>1, <1>2
      <3>2. size = k + full
        BY <1>4, <1>7, <1>11
      <3>3. k \in Nat /\ full \in Nat \ {0} /\ seq = w.seq + k
        BY <1>4, <1>6, <1>7, <1>11
      <3> HIDE DEF k, full, seq, size
      <3>4. SubSat(k + full, 1) = k + full - 1
        BY <3>3 DEF SubSat
      <3> QED
        BY <3>1, <3>2, <3>3, <3>4
    <2>4. TailSeq(w2) % SendCap = slot
      BY <2>3 DEF TailSeq
    <2> HIDE DEF slot, filled
    <2>5. w2.msg[slot] = [w.msg[slot] EXCEPT !.len = MsgLen] /\ w.msg[slot] \in MsgType
      BY <1>1, <1>2, <1>11, <2>2
    <2>6. w2.msg[slot].len = MsgLen
      BY <2>5 DEF MsgType
    <2>7. TailLen(w2) = MsgLen
      BY <2>4, <2>6 DEF TailLen
    <2>8. WndSizeInBytes(w2) = km + fm - MsgLen + MsgLen
      BY <1>9, <2>3, <2>7 DEF WndSizeInBytes, km, fm
    <2>9. km + fm - MsgLen + MsgLen = km + fm + rem
      BY <1>1, <1>9, <1>11 DEF km, fm
    <2> QED
      BY <1>14, <2>8, <2>9 DEF len, w2
  <1>12. CASE rem = 0 /\ full = 0
    <2>1. full * MsgLen = 0
      BY <1>1, <1>12
    <2>2. last = 0 /\ len = 0
      BY <1>5, <1>7, <1>8, <1>12, <2>1
    <2>3. k = 0 /\ w2.size = 0
      BY <1>1, <1>2, <1>4, <1>7, <1>12, <2>2
    <2>4. WndSizeInBytes(w2) = 0
      BY <1>1, <1>3, <2>3, TailFacts DEF WndSizeInBytes
    <2>5. WndSizeInBytes(w) = 0
      BY <1>1, <1>13, <2>2, <2>3
    <2> QED
      BY <2>2, <2>4, <2>5 DEF len, w2
  <1> QED
    BY <1>7, <1>10, <1>11, <1>12
(* n bytes and then len more, the last of them byte s + len of the stream. *)
LEMMA ContentFrom ==
    ASSUME NEW w, NEW s \in Nat, NEW n \in Nat, NEW len \in Nat,
           WndSizeInBytes(w) = n + len,
           \A j \in 0..(n + len - 1) : w.buf[(Base(w) + j) % SendBytes] = s - n + j + 1
    PROVE  Content(w, s + len)
  <1> DEFINE m == n + len
  <1>1. ASSUME NEW j \in 0..(m - 1) PROVE w.buf[(Base(w) + j) % SendBytes] = s + len - m + j + 1
    <2>1. s + len - m + j + 1 = s - n + j + 1
      OBVIOUS
    <2>2. w.buf[(Base(w) + j) % SendBytes] = s - n + j + 1
      OBVIOUS
    <2> QED
      BY <2>1, <2>2
  <1>2. WndSizeInBytes(w) = m
    OBVIOUS
  <1> HIDE DEF m
  <1> QED
    BY <1>1, <1>2 DEF Content

Follows(data, s) == \A i \in 1..Len(data) : data[i] = s + i

(* The new bytes go behind the ones the window holds and overwrite none of them. *)
LEMMA SendContent ==
    ASSUME NEW w \in SendWndType, Shape(w), NEW data \in Seq(Nat), NEW s \in Nat,
           Content(w, s), Follows(data, s), Len(data) # 0
    PROVE  Content(SendWndSend(w, data), s + Accepted(w, Len(data)))
  <1> DEFINE at  == (TailSeq(w) % SendCap) * MsgLen + TailLen(w)
             len == Accepted(w, Len(data))
             n   == WndSizeInBytes(w)
             w2  == SendWndSend(w, data)
             b   == Base(w)
  <1>1. w2.seq = w.seq /\ w2.buf = CopyIn(w.buf, at, data, len)
    BY DEF SendWndSend, SendWndType
  <1>2. WndSizeInBytes(w2) = n + len /\ Base(w2) = b
    BY <1>1, SendSizeInBytes DEF Base
  <1>3. Len(data) \in Nat
    OBVIOUS
  <1>4. len \in 0..Len(data) /\ n + len \in 0..SendBytes
    BY <1>3, AcceptedType
  <1>5. w.buf \in [SendBufIdx -> Nat] /\ SendBytes \in Nat
    BY SendBytesType DEF SendWndType
  <1>6. n \in 0..SendBytes /\ at \in 0..SendBytes /\ b \in Nat
    BY TailType, BaseType
  <1>7. PICK q \in Nat : b + n = SendBytes * q + at
    BY TailPosition
  <1> HIDE DEF at, len, n, w2, b
  <1>8. len \in 0..SendBytes /\ n + len <= SendBytes /\ n \in Nat
    BY <1>3, <1>4, <1>5, <1>6
  <1>9. ASSUME NEW j \in 0..(n + len - 1)
        PROVE  w2.buf[(b + j) % SendBytes] =
                  IF j < n THEN w.buf[(b + j) % SendBytes] ELSE data[j - n + 1]
    <2>1. Behind(CopyIn(w.buf, at, data, len)[(b + j) % SendBytes],
                 w.buf[(b + j) % SendBytes], data, n, j)
      BY ONLY <1>5, <1>6, <1>7, <1>8, <1>9, CopyInBehind
    <2> QED
      BY <1>1, <2>1 DEF Behind
  <1>10. ASSUME NEW j \in 0..(n + len - 1), j < n
         PROVE  w.buf[(b + j) % SendBytes] = s - n + j + 1
    <2>1. j \in 0..(n - 1)
      BY <1>8, <1>10
    <2> QED
      BY <2>1 DEF Content, n, b
  <1>11. ASSUME NEW j \in 0..(n + len - 1), ~(j < n)
         PROVE  data[j - n + 1] = s - n + j + 1
    <2>1. j - n + 1 \in 1..Len(data) /\ s + (j - n + 1) = s - n + j + 1
      BY <1>3, <1>4, <1>8, <1>11
    <2> QED
      BY <2>1 DEF Follows
  <1>12. \A j \in 0..(n + len - 1) : w2.buf[(b + j) % SendBytes] = s - n + j + 1
    BY <1>9, <1>10, <1>11
  <1>13. Content(w2, s + len)
    <2>1. \A j \in 0..(n + len - 1) : w2.buf[(Base(w2) + j) % SendBytes] = s - n + j + 1
      BY <1>2, <1>12
    <2>2. len \in Nat /\ n \in Nat /\ WndSizeInBytes(w2) = n + len
      BY <1>2, <1>5, <1>8
    <2> QED
      BY ONLY <2>1, <2>2, s \in Nat, ContentFrom
  <1> QED
    BY <1>13 DEF w2, len

----------------------------------------------------------------------------
(* arq__send_wnd_flush, arq__send_wnd_step and arq__send_poll *)

(* The same messages; their timers and acknowledgement vectors may differ. *)
SameMessages(w, w2) ==
    /\ w2.seq = w.seq /\ w2.size = w.size /\ w2.buf = w.buf
    /\ \A i \in SendIdx : w2.msg[i].len = w.msg[i].len

LEMMA SameMessagesContent ==
    ASSUME NEW w \in SendWndType, NEW w2, NEW s, Content(w, s), SameMessages(w, w2)
    PROVE  Content(w2, s)
  <1>1. TailSeq(w2) = TailSeq(w)
    BY DEF TailSeq, SameMessages
  <1>2. TailSeq(w) % SendCap \in SendIdx
    BY TailType
  <1>3. TailLen(w2) = TailLen(w)
    BY <1>1, <1>2 DEF TailLen, SameMessages
  <1>4. WndSizeInBytes(w2) = WndSizeInBytes(w)
    BY <1>3 DEF WndSizeInBytes, SameMessages
  <1> QED
    BY <1>4, SameContent DEF SameMessages

LEMMA FlushSameMessages ==
    ASSUME NEW w \in SendWndType
    PROVE  SameMessages(w, SendWndFlush(w))
  <1> DEFINE idx == (w.seq + w.size - 1) % SendCap
             vec == AckVec(SegCount(w.msg[idx].len))
             w2  == SendWndFlush(w)
  <1>1. w.msg \in [SendIdx -> MsgType]
    BY DEF SendWndType
  <1>2. CASE w2 = w
    BY <1>2 DEF SameMessages
  <1>3. CASE w2 # w
    <2>1. /\ w2.seq = w.seq /\ w2.size = w.size /\ w2.buf = w.buf
          /\ w2.msg = [w.msg EXCEPT ![idx].full_ack_vec = vec]
      BY <1>3 DEF SendWndFlush, SendWndType
    <2> HIDE DEF idx, vec, w2
    <2>2. ASSUME NEW i \in SendIdx PROVE w2.msg[i].len = w.msg[i].len
      BY <1>1, <2>1 DEF MsgType
    <2>3. SameMessages(w, w2)
      BY <2>1, <2>2 DEF SameMessages
    <2> QED
      BY <2>3 DEF w2
  <1> QED
    BY <1>2, <1>3

(* The window once a poll has seen the acknowledgement. *)
Acked(w, rh) == IF rh.ack THEN SendWndAck(w, rh.ack_num, rh.cur_ack_vec) ELSE w

LEMMA AckedType ==
    ASSUME NEW w \in SendWndType, NEW rh, CanAck(rh)
    PROVE  /\ Acked(w, rh) \in SendWndType
           /\ rh.ack => rh.ack_num \in 0..(SeqMod - 1) /\ rh.cur_ack_vec \in Vecs
  BY AckType DEF Acked, CanAck

(* Only the acknowledgement removes messages in a poll. *)
LEMMA PollSameMessages ==
    ASSUME NEW w \in SendWndType, NEW p, NEW psh, NEW sh, NEW rh, CanAck(rh), NEW dt \in Nat
    PROVE  SameMessages(Acked(w, rh), SendPoll(w, p, psh, sh, rh, dt).sw)
  <1> DEFINE acked   == Acked(w, rh)
             stepped == SendWndStep(acked, dt)
             flushed == SendWndFlush(stepped)
             off     == [flushed EXCEPT !.tiny_on = FALSE]
             w2      == SendPollTimers(w, rh, dt)
             w3      == SendPoll(w, p, psh, sh, rh, dt).sw
  <1>1. w2 = IF stepped.tiny_on /\ stepped.tiny = 0 THEN off ELSE stepped
    BY DEF SendPollTimers, Acked
  <1>2. acked \in SendWndType
    BY AckedType
  <1>3. w2 \in SendWndType
    BY SendPollTimersType
  <1>4. w3 = IF psh /\ CompletesMsg(p, w2) THEN [w2 EXCEPT !.rtx[p.seq % SendCap] = Rtx]
             ELSE w2
    BY DEF SendPoll
  <1> HIDE DEF acked, w2, w3
  <1>5. stepped \in SendWndType /\ SameMessages(acked, stepped)
    <2>1. stepped \in SendWndType
      BY <1>2, StepType
    <2>2. /\ stepped.seq = acked.seq /\ stepped.size = acked.size
          /\ stepped.buf = acked.buf /\ stepped.msg = acked.msg
      BY <1>2 DEF SendWndStep, SendWndType
    <2> QED
      BY <2>1, <2>2 DEF SameMessages
  <1> HIDE DEF stepped
  <1>6. flushed \in SendWndType /\ SameMessages(stepped, flushed)
    BY <1>5, FlushType, FlushSameMessages
  <1> HIDE DEF flushed
  <1>7. SameMessages(flushed, off)
    <2>1. /\ off.seq = flushed.seq /\ off.size = flushed.size
          /\ off.buf = flushed.buf /\ off.msg = flushed.msg
      BY <1>6 DEF SendWndType
    <2> QED
      BY <2>1 DEF SameMessages
  <1>8. SameMessages(w2, w3)
    <2>1. w3.seq = w2.seq /\ w3.size = w2.size /\ w3.buf = w2.buf /\ w3.msg = w2.msg
      BY <1>3, <1>4 DEF SendWndType
    <2> QED
      BY <2>1 DEF SameMessages
  <1> HIDE DEF off
  <1>9. SameMessages(acked, w2)
    BY <1>1, <1>5, <1>6, <1>7 DEF SameMessages
  <1>10. SameMessages(acked, w3)
    BY <1>8, <1>9 DEF SameMessages
  <1> QED
    BY <1>10 DEF acked, w3

LEMMA SendPollContent ==
    ASSUME NEW w \in SendWndType, Shape(w), KeepsSlots(w), NEW p, NEW psh, NEW sh,
           NEW rh, CanAck(rh), NEW dt \in Nat, NEW s \in Nat, Content(w, s)
    PROVE  Content(SendPoll(w, p, psh, sh, rh, dt).sw, s)
  <1>1. Content(Acked(w, rh), s)
    BY AckedType, AckContent DEF Acked
  <1> QED
    BY <1>1, AckedType, PollSameMessages, SameMessagesContent

----------------------------------------------------------------------------
(* A window that holds nothing says nothing of the stream. *)
LEMMA RstContent ==
    ASSUME NEW buf \in [SendBufIdx -> Nat], NEW s
    PROVE  Content(SendWndRst(buf), s)
  <1>1. SendWndRst(buf).size = 0
    BY DEF SendWndRst
  <1>2. SendWndRst(buf) \in SendWndType /\ Shape(SendWndRst(buf))
    BY RstType, RstShape
  <1>3. SubSat(SendWndRst(buf).size, 1) = 0 /\ TailLen(SendWndRst(buf)) = 0
    BY <1>1, <1>2, TailFacts
  <1>4. WndSizeInBytes(SendWndRst(buf)) = 0
    BY <1>3, MsgLenType DEF WndSizeInBytes
  <1> QED
    BY <1>4 DEF Content
----------------------------------------------------------------------------
(* Messages of one segment, whose numbers have not wrapped around *)

OneSegment == MsgSegs = 1 /\ Rtx > 0

SendSlot(n) == n % SendCap

MsgNo(w, n) == w.msg[SendSlot(n)]

(* One more than the number of the window's last message. *)
SendEnd(w) == w.seq + w.size

(* Messages before this one do not grow any more and may be sent. *)
Closed(w) == SendEnd(w) - (IF w.tiny_on THEN 1 ELSE 0)

AckedMsg(w, n) == MsgNo(w, n).cur_ack_vec # {}

AckedNos(w) == {n \in 0..(Closed(w) - 1) : n < w.seq \/ AckedMsg(w, n)}

PointsAt(p, n) == p.valid /\ p.seq = n

(* Messages that may be sent and are not acknowledged. *)
OpenNos(w) == 0..(Closed(w) - 1) \ AckedNos(w)

(* Those that a poll may send, again or for the first time. *)
Resendable(w, p) ==
    {n \in OpenNos(w) : w.rtx[SendSlot(n)] = 0 /\ ~PointsAt(p, n)}

(* A message that may still grow is the last one and waits for the tinygram timer. *)
Growing(w) ==
    w.tiny_on => LET n == SendEnd(w) - 1
                 IN w.size > 0 /\ w.rtx[SendSlot(n)] = w.tiny /\ ~AckedMsg(w, n)

OneSegVecs(w) ==
    \A i \in SendIdx : w.msg[i].full_ack_vec = {0} /\ w.msg[i].cur_ack_vec \in {{}, {0}}

OneSegWnd(w) ==
    /\ w \in SendWndType /\ Shape(w)
    /\ SendEnd(w) < SeqMod
    /\ OneSegVecs(w)
    /\ Growing(w)

LEMMA SendSlotType ==
    ASSUME NEW n \in Nat
    PROVE  SendSlot(n) \in SendIdx
  BY SlotType DEF SendSlot

LEMMA SendSlotsDiffer ==
    ASSUME NEW c \in Nat, NEW a \in c..(c + SendCap - 1), NEW b \in c..(c + SendCap - 1),
           SendSlot(a) = SendSlot(b)
    PROVE  a = b
  BY RingInjective, SendCapAssumption DEF SendSlot

LEMMA SlotOfNo ==
    ASSUME NEW w, NEW i
    PROVE  SlotOf(w, i) = SendSlot(w.seq + i)
  BY DEF SlotOf, SendSlot

LEMMA EndFacts ==
    ASSUME NEW w, OneSegWnd(w)
    PROVE  /\ w.seq \in Nat /\ w.size \in Nat /\ w.size <= SendCap /\ SendCap \in Nat \ {0}
           /\ SendEnd(w) \in Nat /\ SendEnd(w) = w.seq + w.size /\ SendEnd(w) < SeqMod
           /\ Closed(w) \in Nat /\ w.seq <= Closed(w) /\ Closed(w) <= SendEnd(w)
           /\ ~w.tiny_on => Closed(w) = SendEnd(w)
           /\ w.tiny_on => Closed(w) = SendEnd(w) - 1 /\ w.size > 0
           /\ SeqMod \in Nat \ {0} /\ w.tiny_on \in BOOLEAN
  <1>1. /\ w.seq \in 0..(SeqMod - 1) /\ w.size \in 0..SendCap /\ SeqMod \in Nat \ {0}
        /\ SendCap \in Nat \ {0} /\ w.tiny_on \in BOOLEAN
    BY SeqModAssumption, SendCapAssumption DEF OneSegWnd, SendWndType
  <1>2. w.tiny_on => w.size > 0
    BY DEF OneSegWnd, Growing
  <1> QED
    BY <1>1, <1>2 DEF SendEnd, Closed, OneSegWnd

LEMMA NoWrap ==
    ASSUME NEW w, OneSegWnd(w)
    PROVE  KeepsSlots(w) /\ \A n \in 0..w.size : (w.seq + n) % SeqMod = w.seq + n
  <1>1. \A n \in 0..w.size : w.seq + n \in 0..(SeqMod - 1)
    BY EndFacts
  <1>2. \A n \in 0..(SeqMod - 1) : n % SeqMod = n
    BY SeqModAssumption
  <1>3. \A n \in 0..w.size : (w.seq + n) % SeqMod = w.seq + n
    BY <1>1, <1>2
  <1> QED
    BY <1>3 DEF KeepsSlots

(* The messages of the window and the slots behind it. *)
LEMMA InWindow ==
    ASSUME NEW w, OneSegWnd(w)
    PROVE  /\ \A n \in w.seq..(SendEnd(w) - 1) :
                 /\ n \in Nat /\ n - w.seq \in 0..(w.size - 1) /\ n - w.seq \in SendIdx
                 /\ SlotOf(w, n - w.seq) = SendSlot(n) /\ SendSlot(n) \in SendIdx
                 /\ MsgNo(w, n).len > 0
                 /\ n < SendEnd(w) - 1 => MsgNo(w, n).len = MsgLen
           /\ \A n \in SendEnd(w)..(w.seq + SendCap - 1) :
                 n \in Nat /\ MsgNo(w, n) = EmptyMsg /\ SendSlot(n) \in SendIdx
           /\ \A a, b \in w.seq..(w.seq + SendCap - 1) : SendSlot(a) = SendSlot(b) => a = b
  <1>0. /\ w.seq \in Nat /\ w.size \in Nat /\ w.size <= SendCap /\ SendCap \in Nat \ {0}
        /\ SendEnd(w) \in Nat /\ SendEnd(w) = w.seq + w.size
    BY EndFacts
  <1>1. ASSUME NEW n \in w.seq..(w.seq + SendCap - 1)
        PROVE  /\ n \in Nat /\ n - w.seq \in SendIdx /\ SlotOf(w, n - w.seq) = SendSlot(n)
               /\ SendSlot(n) \in SendIdx /\ ShapeAt(w, n - w.seq)
    <2>1. n \in Nat /\ n - w.seq \in SendIdx /\ w.seq + (n - w.seq) = n
      BY <1>0 DEF SendIdx
    <2>2. SlotOf(w, n - w.seq) = SendSlot(n)
      BY <2>1, SlotOfNo
    <2>3. ShapeAt(w, n - w.seq)
      BY <2>1 DEF OneSegWnd, Shape
    <2> QED
      BY <2>1, <2>2, <2>3, SendSlotType
  <1>2. ASSUME NEW n \in w.seq..(SendEnd(w) - 1)
        PROVE  /\ n \in Nat /\ n - w.seq \in 0..(w.size - 1) /\ n - w.seq \in SendIdx
               /\ SlotOf(w, n - w.seq) = SendSlot(n) /\ SendSlot(n) \in SendIdx
               /\ MsgNo(w, n).len > 0
               /\ n < SendEnd(w) - 1 => MsgNo(w, n).len = MsgLen
    <2>1. n \in w.seq..(w.seq + SendCap - 1) /\ n - w.seq \in 0..(w.size - 1)
      BY <1>0
    <2>2. /\ n < SendEnd(w) - 1 <=> n - w.seq < w.size - 1
          /\ ~(n < SendEnd(w) - 1) => n - w.seq = w.size - 1
      BY <1>0
    <2>3. MsgLen > 0
      BY MsgLenType
    <2> QED
      BY <1>1, <2>1, <2>2, <2>3 DEF ShapeAt, MsgNo
  <1>3. ASSUME NEW n \in SendEnd(w)..(w.seq + SendCap - 1)
        PROVE  n \in Nat /\ MsgNo(w, n) = EmptyMsg /\ SendSlot(n) \in SendIdx
    <2>1. n \in w.seq..(w.seq + SendCap - 1) /\ n - w.seq >= w.size
      BY <1>0
    <2> QED
      BY <1>1, <2>1 DEF ShapeAt, MsgNo
  <1> QED
    BY <1>0, <1>2, <1>3, SendSlotsDiffer

LEMMA OneSegFacts ==
    ASSUME OneSegment
    PROVE  /\ AckVec(1) = {0} /\ AckVec(0) = {} /\ FullAckVec = {0} /\ MsgLen = SegLen
           /\ EmptyMsg.full_ack_vec = {0} /\ EmptyMsg.cur_ack_vec = {} /\ EmptyMsg.len = 0
           /\ {0} \in Vecs /\ {} \in Vecs
           /\ Rtx \in Nat \ {0} /\ MsgLen \in Nat \ {0}
  <1>1. AckVec(1) = {0} /\ AckVec(0) = {}
    BY DEF AckVec
  <1>2. {0} \in Vecs /\ {} \in Vecs
    BY VecBitsAssumption DEF Vecs, OneSegment
  <1>3. MsgLen = SegLen
    BY SegLenAssumption DEF MsgLen, OneSegment
  <1>4. FullAckVec = {0}
    BY <1>1 DEF FullAckVec, OneSegment
  <1> QED
    BY <1>1, <1>2, <1>3, <1>4, MsgLenType, SendTimeAssumption DEF EmptyMsg, OneSegment

(* What an acknowledgement changes in a window of one-segment messages. *)
AckEffect(w, w2, k) ==
    /\ SendEnd(w2) = SendEnd(w) /\ Closed(w2) = Closed(w)
    /\ w.seq <= w2.seq
    /\ w2.rtx = w.rtx /\ w2.tiny = w.tiny /\ w2.tiny_on = w.tiny_on /\ w2.buf = w.buf
    /\ AckedNos(w2) = AckedNos(w) \cup {k}
    /\ \A n \in w2.seq..(SendEnd(w) - 1) : MsgNo(w2, n).len = MsgNo(w, n).len

LEMMA OneAck ==
    ASSUME OneSegment, NEW w, OneSegWnd(w), NEW k \in 0..(Closed(w) - 1)
    PROVE  LET w2 == SendWndAck(w, k, {0})
           IN OneSegWnd(w2) /\ AckEffect(w, w2, k)
  <1> DEFINE w2 == SendWndAck(w, k, {0})
  <1>0. /\ w.seq \in Nat /\ w.size \in Nat /\ w.size <= SendCap /\ SendCap \in Nat \ {0}
        /\ SendEnd(w) \in Nat /\ SendEnd(w) = w.seq + w.size /\ SendEnd(w) < SeqMod
        /\ Closed(w) \in Nat /\ w.seq <= Closed(w) /\ Closed(w) <= SendEnd(w)
        /\ w.tiny_on => Closed(w) = SendEnd(w) - 1 /\ w.size > 0
        /\ k \in Nat /\ k < Closed(w) /\ k \in 0..(SeqMod - 1) /\ SeqMod \in Nat \ {0}
    BY EndFacts
  <1>1. CASE ~AckInWnd(w, k)
    <2>1. w2 = w
      BY <1>1 DEF SendWndAck
    <2>2. k < w.seq
      BY <1>0, <1>1 DEF AckInWnd
    <2>3. k \in AckedNos(w)
      BY <1>0, <2>2 DEF AckedNos
    <2> HIDE DEF w2
    <2>4. w.seq <= w.seq /\ AckedNos(w) = AckedNos(w) \cup {k}
      BY <1>0, <2>3
    <2> QED
      BY <2>1, <2>4 DEF AckEffect, w2
  <1>2. CASE AckInWnd(w, k)
    <2> DEFINE idx   == SendSlot(k)
               msg   == [w.msg EXCEPT ![idx].cur_ack_vec = {0}]
               n     == AckedPrefix(w, msg)
               freed == {SendSlot(w.seq + i) : i \in 0..(n - 1)}
    <2>1. /\ w2.seq = (w.seq + n) % SeqMod /\ w2.size = w.size - n
          /\ w2.msg = [i \in SendIdx |-> IF i \in freed THEN EmptyMsg ELSE msg[i]]
          /\ w2.buf = w.buf /\ w2.tiny = w.tiny /\ w2.tiny_on = w.tiny_on
          /\ w2.rtx = [w.rtx EXCEPT ![idx] = IF {0} # msg[idx].full_ack_vec THEN 0 ELSE @]
      BY <1>2 DEF SendWndAck, SendWndType, OneSegWnd, SendSlot
    <2>2. w2 \in SendWndType /\ Shape(w2)
      BY <1>0, OneSegFacts, NoWrap, AckType, AckShape DEF OneSegWnd
    <2>3. n \in 0..w.size /\ n \in Nat
      BY <1>0, AckedPrefixType DEF OneSegWnd
    <2>4. idx \in SendIdx /\ w.msg \in [SendIdx -> MsgType] /\ w.rtx \in [SendIdx -> Nat]
          /\ OneSegVecs(w)
      BY <1>0, SendSlotType DEF OneSegWnd, SendWndType
    <2>5. \A i \in SendIdx : /\ msg[i].full_ack_vec = {0} /\ msg[i].len = w.msg[i].len
                             /\ msg[i].cur_ack_vec = IF i = idx THEN {0} ELSE w.msg[i].cur_ack_vec
      BY <2>4 DEF OneSegVecs, MsgType
    <2>6. w2.rtx = w.rtx
      BY <2>1, <2>4, <2>5
    <2>7. k \in w.seq..(SendEnd(w) - 1)
      BY <1>0, <1>2 DEF AckInWnd
    <2>8. \A i \in 0..(n - 1) : msg[SendSlot(w.seq + i)].cur_ack_vec = {0}
      <3> DEFINE open == {i \in 0..(w.size - 1) :
                            LET m == msg[SendSlot(w.seq + i)]
                            IN m.cur_ack_vec # m.full_ack_vec}
                 mins == {w.size} \cup open
      <3>1. n = Min(mins)
        BY DEF AckedPrefix, SendSlot
      <3>2. open \subseteq Nat /\ mins # {}
        OBVIOUS
      <3>3. mins \subseteq Nat
        BY <1>0, <3>2
      <3>4. \A x \in mins : n <= x
        <4> HIDE DEF mins
        <4> QED
          BY <3>1, <3>2, <3>3, MinOfNats
      <3> SUFFICES ASSUME NEW i \in 0..(n - 1) PROVE msg[SendSlot(w.seq + i)].cur_ack_vec = {0}
        OBVIOUS
      <3>5. i \in 0..(w.size - 1) /\ ~(n <= i) /\ w.seq + i \in Nat
        BY <1>0, <2>3
      <3>6. i \notin open
        BY <3>4, <3>5
      <3>7. SendSlot(w.seq + i) \in SendIdx
        BY <3>5, SendSlotType
      <3> QED
        BY <2>5, <3>5, <3>6, <3>7
    <2> HIDE DEF w2, msg, n, idx
    <2>9. w2.seq = w.seq + n /\ SendEnd(w2) = SendEnd(w) /\ Closed(w2) = Closed(w)
          /\ w.seq <= w2.seq /\ w2.seq \in Nat
      BY <1>0, <2>1, <2>3, NoWrap DEF SendEnd, Closed
    <2>10. \A a, b \in w.seq..(w.seq + SendCap - 1) : SendSlot(a) = SendSlot(b) => a = b
      BY InWindow
    <2>11. ASSUME NEW m \in w2.seq..(SendEnd(w) - 1)
           PROVE  MsgNo(w2, m) = msg[SendSlot(m)] /\ SendSlot(m) \in SendIdx
      <3>1. m \in w.seq..(w.seq + SendCap - 1) /\ m \in w.seq..(SendEnd(w) - 1)
        BY <1>0, <2>3, <2>9
      <3>2. SendSlot(m) \in SendIdx
        BY <3>1, InWindow
      <3>3. SendSlot(m) \notin freed
        <4> SUFFICES ASSUME NEW i \in 0..(n - 1), SendSlot(m) = SendSlot(w.seq + i) PROVE FALSE
          OBVIOUS
        <4>1. w.seq + i \in w.seq..(w.seq + SendCap - 1) /\ w.seq + i # m
          BY <1>0, <2>3, <2>9
        <4> QED
          BY <2>10, <3>1, <4>1
      <3> QED
        BY <2>1, <3>2, <3>3 DEF MsgNo
    <2>12. ASSUME NEW m \in w.seq..(w2.seq - 1) PROVE msg[SendSlot(m)].cur_ack_vec = {0}
      <3>1. m - w.seq \in 0..(n - 1) /\ w.seq + (m - w.seq) = m
        BY <1>0, <2>3, <2>9
      <3> QED
        BY <2>8, <3>1
    <2>13. ASSUME NEW m \in w.seq..(SendEnd(w) - 1)
           PROVE  /\ msg[SendSlot(m)].cur_ack_vec # {} <=> (AckedMsg(w, m) \/ m = k)
                  /\ msg[SendSlot(m)].len = MsgNo(w, m).len
      <3>1. SendSlot(m) \in SendIdx
        BY InWindow
      <3>2. SendSlot(m) = idx => m = k
        <4>1. m \in w.seq..(w.seq + SendCap - 1) /\ k \in w.seq..(w.seq + SendCap - 1)
          BY <1>0, <2>7
        <4> QED
          BY <2>10, <4>1 DEF idx
      <3> QED
        BY <2>5, <3>1, <3>2 DEF AckedMsg, MsgNo, idx
    <2>14. AckedNos(w2) = AckedNos(w) \cup {k}
      <3>1. ASSUME NEW m \in 0..(Closed(w) - 1)
            PROVE  (m < w2.seq \/ AckedMsg(w2, m)) <=> (m < w.seq \/ AckedMsg(w, m) \/ m = k)
        <4>1. CASE m < w.seq
          BY <1>0, <2>9, <4>1
        <4>2. CASE w.seq <= m /\ m < w2.seq
          <5>1. m \in w.seq..(w2.seq - 1) /\ m \in w.seq..(SendEnd(w) - 1)
            BY <1>0, <2>9, <4>2
          <5> QED
            BY <2>12, <2>13, <4>2, <5>1
        <4>3. CASE w2.seq <= m
          <5>1. m \in w2.seq..(SendEnd(w) - 1) /\ m \in w.seq..(SendEnd(w) - 1)
            BY <1>0, <2>9, <4>3
          <5>2. ~(m < w2.seq) /\ ~(m < w.seq)
            BY <1>0, <2>9, <4>3
          <5> QED
            BY <2>11, <2>13, <5>1, <5>2 DEF AckedMsg
        <4> QED
          BY <1>0, <2>9, <4>1, <4>2, <4>3
      <3>2. k \in 0..(Closed(w) - 1)
        BY <1>0
      <3> QED
        BY <2>9, <3>1, <3>2 DEF AckedNos
    <2>15. OneSegVecs(w2)
      <3> SUFFICES ASSUME NEW i \in SendIdx
                   PROVE  w2.msg[i].full_ack_vec = {0} /\ w2.msg[i].cur_ack_vec \in {{}, {0}}
        BY DEF OneSegVecs
      <3>1. w2.msg[i] = EmptyMsg \/ w2.msg[i] = msg[i]
        BY <2>1
      <3> QED
        BY <2>4, <2>5, <3>1, OneSegFacts DEF OneSegVecs
    <2>16. Growing(w2)
      <3> SUFFICES ASSUME w.tiny_on
                   PROVE  LET m == SendEnd(w) - 1
                          IN w2.size > 0 /\ w.rtx[SendSlot(m)] = w.tiny /\ ~AckedMsg(w2, m)
        BY <2>1, <2>6, <2>9 DEF Growing
      <3> DEFINE m == SendEnd(w) - 1
      <3>1. w.rtx[SendSlot(m)] = w.tiny /\ ~AckedMsg(w, m)
        BY DEF OneSegWnd, Growing
      <3>2. m \in w.seq..(SendEnd(w) - 1) /\ m # k
        BY <1>0
      <3> HIDE DEF m
      <3>3. msg[SendSlot(m)].cur_ack_vec = {}
        BY <2>13, <3>1, <3>2
      <3>4. ~(m \in w.seq..(w2.seq - 1))
        BY <2>12, <3>3
      <3>5. m \in w2.seq..(SendEnd(w) - 1)
        BY <1>0, <2>9, <3>2, <3>4
      <3>6. w2.size > 0
        BY <1>0, <2>1, <2>3, <2>9, <3>5
      <3>7. ~AckedMsg(w2, m)
        BY <2>11, <3>3, <3>5 DEF AckedMsg
      <3> QED
        BY <3>1, <3>6, <3>7 DEF m
    <2>17. OneSegWnd(w2)
      BY <1>0, <2>2, <2>9, <2>15, <2>16 DEF OneSegWnd
    <2>18. \A m \in w2.seq..(SendEnd(w) - 1) : MsgNo(w2, m).len = MsgNo(w, m).len
      <3>1. \A m \in w2.seq..(SendEnd(w) - 1) : m \in w.seq..(SendEnd(w) - 1)
        BY <1>0, <2>9
      <3> QED
        BY <2>11, <2>13, <3>1
    <2>19. AckEffect(w, w2, k)
      BY <2>1, <2>6, <2>9, <2>14, <2>18 DEF AckEffect
    <2> QED
      BY <2>17, <2>19 DEF w2
  <1> QED
    BY <1>1, <1>2

LEMMA OneSegCount ==
    ASSUME NEW len \in 1..SegLen
    PROVE  SegCount(len) = 1
  <1>1. SegLen \in Nat \ {0} /\ 1 \in Nat /\ len - 1 \in 0..(SegLen - 1)
    BY SegLenAssumption
  <1>2. (SegLen * 1 + (len - 1)) \div SegLen = 1
    BY <1>1, DivUnique
  <1>3. len + SegLen - 1 = SegLen * 1 + (len - 1)
    BY <1>1
  <1> QED
    BY <1>2, <1>3 DEF SegCount

(* A window that differs at most in its timers. *)
SameButTimers(w, w2) ==
    /\ w2.seq = w.seq /\ w2.size = w.size /\ w2.buf = w.buf /\ w2.msg = w.msg
    /\ w2.tiny_on = w.tiny_on

LEMMA SameNumbers ==
    ASSUME NEW w, NEW w2, SameButTimers(w, w2)
    PROVE  /\ SendEnd(w2) = SendEnd(w) /\ Closed(w2) = Closed(w) /\ AckedNos(w2) = AckedNos(w)
           /\ \A n : MsgNo(w2, n) = MsgNo(w, n) /\ (AckedMsg(w2, n) <=> AckedMsg(w, n))
  BY DEF SameButTimers, SendEnd, Closed, AckedNos, MsgNo, AckedMsg

LEMMA OneStep ==
    ASSUME NEW w, OneSegWnd(w), NEW dt \in Nat
    PROVE  LET w2 == SendWndStep(w, dt)
           IN /\ OneSegWnd(w2) /\ SameButTimers(w, w2)
              /\ dt = 0 => w2.rtx = w.rtx
  <1> DEFINE inWnd == {(w.seq + i) % SendCap : i \in 0..(w.size - 1)}
             rtx2  == [i \in SendIdx |->
                         IF i \in inWnd THEN SubSat(w.rtx[i], dt) ELSE w.rtx[i]]
             tiny2 == IF w.tiny_on THEN SubSat(w.tiny, dt) ELSE w.tiny
             w2    == SendWndStep(w, dt)
  <1>1. w \in SendWndType /\ w.rtx \in [SendIdx -> Nat]
    BY DEF OneSegWnd, SendWndType
  <1>2. /\ SameButTimers(w, w2) /\ w2.rtx = rtx2 /\ w2.tiny = tiny2
    BY <1>1 DEF SendWndStep, SameButTimers, SendWndType
  <1>3. w2 \in SendWndType /\ Shape(w2)
    BY StepType, StepShape DEF OneSegWnd
  <1>4. ASSUME dt = 0 PROVE rtx2 = w.rtx
    <2>1. \A x \in Nat : SubSat(x, dt) = x
      BY <1>4 DEF SubSat
    <2>2. \A i \in SendIdx : rtx2[i] = w.rtx[i]
      BY <1>1, <2>1
    <2> QED
      BY <1>1, <2>2
  <1> HIDE DEF w2
  <1>5. Growing(w2)
    <2> DEFINE m == SendEnd(w) - 1
    <2> SUFFICES ASSUME w.tiny_on
                 PROVE  w.size > 0 /\ rtx2[SendSlot(m)] = tiny2 /\ ~AckedMsg(w, m)
      BY <1>2, SameNumbers DEF Growing, SameButTimers
    <2>1. w.size > 0 /\ w.rtx[SendSlot(m)] = w.tiny /\ ~AckedMsg(w, m)
      BY DEF OneSegWnd, Growing
    <2>2. m \in w.seq..(SendEnd(w) - 1) /\ m - w.seq \in 0..(w.size - 1) /\ w.seq + (m - w.seq) = m
      BY <2>1, EndFacts
    <2> HIDE DEF m
    <2>3. SendSlot(m) \in inWnd /\ SendSlot(m) \in SendIdx
      <3>1. SendSlot(m) \in SendIdx
        BY <2>2, InWindow
      <3> QED
        BY <2>2, <3>1 DEF SendSlot
    <2> HIDE DEF inWnd
    <2> QED
      BY <2>1, <2>3 DEF m
  <1> HIDE DEF rtx2, tiny2
  <1>6. SendEnd(w2) < SeqMod /\ OneSegVecs(w2)
    BY <1>2, SameNumbers DEF OneSegWnd, OneSegVecs, SameButTimers
  <1> QED
    BY <1>2, <1>3, <1>4, <1>5, <1>6 DEF OneSegWnd, w2

(* What the acknowledgement in a received header rh, if any, says. *)
HeardNos(rh) == IF rh.ack THEN {rh.ack_num} ELSE {}

(* An acknowledgement of a one-segment message that has been sent. *)
AckFits(w, rh) ==
    rh.ack => rh.ack_num \in 0..(Closed(w) - 1) /\ rh.cur_ack_vec = {0}

TimersEffect(w, w2, rh, dt) ==
    /\ SendEnd(w2) = SendEnd(w) /\ Closed(w) <= Closed(w2)
    /\ w.seq <= w2.seq /\ w2.buf = w.buf
    /\ AckedNos(w2) = AckedNos(w) \cup HeardNos(rh)
    /\ \A n \in w2.seq..(SendEnd(w) - 1) : MsgNo(w2, n).len = MsgNo(w, n).len
    /\ ~(w2.tiny_on /\ w2.tiny = 0)
    /\ dt = 0 => \A n \in w2.seq..(Closed(w) - 1) :
                    w2.rtx[SendSlot(n)] = w.rtx[SendSlot(n)]

LEMMA OneTimers ==
    ASSUME OneSegment, NEW w, OneSegWnd(w), NEW rh, AckFits(w, rh), NEW dt \in Nat
    PROVE  LET w2 == SendPollTimers(w, rh, dt)
           IN OneSegWnd(w2) /\ TimersEffect(w, w2, rh, dt)
  <1> DEFINE acked   == IF rh.ack THEN SendWndAck(w, rh.ack_num, rh.cur_ack_vec) ELSE w
             stepped == SendWndStep(acked, dt)
             flushed == SendWndFlush(stepped)
             off     == [flushed EXCEPT !.tiny_on = FALSE]
             w2      == SendPollTimers(w, rh, dt)
  <1>1. w2 = IF stepped.tiny_on /\ stepped.tiny = 0 THEN off ELSE stepped
    BY DEF SendPollTimers
  <1> DEFINE A == /\ OneSegWnd(acked)
                  /\ SendEnd(acked) = SendEnd(w) /\ Closed(acked) = Closed(w)
                  /\ w.seq <= acked.seq /\ acked.buf = w.buf /\ acked.rtx = w.rtx
                  /\ AckedNos(acked) = AckedNos(w) \cup HeardNos(rh)
                  /\ \A n \in acked.seq..(SendEnd(w) - 1) : MsgNo(acked, n).len = MsgNo(w, n).len
  <1>2. A
    <2>1. CASE rh.ack
      <3> DEFINE v == SendWndAck(w, rh.ack_num, {0})
      <3>1. acked = v
        BY <2>1 DEF AckFits
      <3>2. OneSegWnd(v) /\ AckEffect(w, v, rh.ack_num)
        BY <2>1, OneAck DEF AckFits
      <3> HIDE DEF v, acked
      <3> QED
        BY <2>1, <3>1, <3>2 DEF AckEffect, HeardNos
    <2>2. CASE ~rh.ack
      <3>1. acked = w /\ w.seq <= w.seq
        BY <2>2, EndFacts
      <3> HIDE DEF acked
      <3> QED
        BY <2>2, <3>1 DEF HeardNos
    <2> QED
      BY <2>1, <2>2
  <1> HIDE DEF acked
  <1>3. OneSegWnd(stepped) /\ SameButTimers(acked, stepped) /\ (dt = 0 => stepped.rtx = acked.rtx)
    BY <1>2, OneStep
  <1> HIDE DEF stepped
  <1>4. /\ SendEnd(stepped) = SendEnd(acked) /\ Closed(stepped) = Closed(acked)
        /\ AckedNos(stepped) = AckedNos(acked) /\ stepped.seq = acked.seq
        /\ stepped.buf = acked.buf /\ \A n : MsgNo(stepped, n) = MsgNo(acked, n)
    BY <1>3, SameNumbers DEF SameButTimers
  <1>5. CASE ~(stepped.tiny_on /\ stepped.tiny = 0)
    <2>1. w2 = stepped
      BY <1>1, <1>5
    <2> HIDE DEF w2
    <2>2. Closed(w) <= Closed(w)
      BY EndFacts
    <2>3. TimersEffect(w, w2, rh, dt)
      BY <1>2, <1>3, <1>4, <1>5, <2>1, <2>2 DEF TimersEffect
    <2> QED
      BY <1>3, <2>1, <2>3 DEF w2
  <1>6. CASE stepped.tiny_on /\ stepped.tiny = 0
    <2> DEFINE v   == stepped
               m   == SendEnd(v) - 1
               idx == (v.seq + v.size - 1) % SendCap
               len == v.msg[idx].len
    <2>1. w2 = off
      BY <1>1, <1>6
    <2>2. /\ v.seq \in Nat /\ v.size \in Nat /\ v.size > 0 /\ SendEnd(v) \in Nat
          /\ SendEnd(v) = v.seq + v.size /\ Closed(v) = SendEnd(v) - 1 /\ SendEnd(v) < SeqMod
          /\ m \in v.seq..(SendEnd(v) - 1) /\ idx = SendSlot(m)
      <3>1. /\ v.seq \in Nat /\ v.size \in Nat /\ v.size > 0 /\ SendEnd(v) \in Nat
            /\ SendEnd(v) = v.seq + v.size /\ Closed(v) = SendEnd(v) - 1 /\ SendEnd(v) < SeqMod
        BY <1>3, <1>6, EndFacts
      <3>2. m \in v.seq..(SendEnd(v) - 1) /\ m = v.seq + v.size - 1
        BY <3>1
      <3> QED
        BY <3>1, <3>2 DEF SendSlot
    <2>3. v.rtx[SendSlot(m)] = v.tiny /\ ~AckedMsg(v, m)
      BY <1>3, <1>6 DEF OneSegWnd, Growing
    <2> HIDE DEF m, idx
    <2>4. idx \in SendIdx /\ len > 0 /\ v.msg \in [SendIdx -> MsgType] /\ OneSegVecs(v)
          /\ v.rtx \in [SendIdx -> Nat] /\ v \in SendWndType
      BY <1>3, <2>2, InWindow DEF OneSegWnd, SendWndType, MsgNo
    <2>5. len \in 1..SegLen
      <3>1. v.msg[idx] \in MsgType
        BY <2>4
      <3>2. v.msg[idx].len \in 0..MsgLen
        BY <3>1 DEF MsgType
      <3> QED
        BY <2>4, <3>2, OneSegFacts
    <2>6. AckVec(SegCount(len)) = {0}
      BY <2>5, OneSegCount, OneSegFacts
    <2> HIDE DEF len
    <2>7. flushed = [v EXCEPT !.msg[idx].full_ack_vec = {0}, !.rtx[idx] = 0]
      BY <2>2, <2>4, <2>6 DEF SendWndFlush, idx, len
    <2>8. /\ flushed.seq = v.seq /\ flushed.size = v.size /\ flushed.buf = v.buf
          /\ flushed.msg = [v.msg EXCEPT ![idx].full_ack_vec = {0}]
          /\ flushed.rtx = [v.rtx EXCEPT ![idx] = 0]
      BY <2>4, <2>7 DEF SendWndType
    <2>9. flushed.msg = v.msg
      <3>1. v.msg[idx].full_ack_vec = {0}
        BY <2>4 DEF OneSegVecs
      <3>2. [v.msg[idx] EXCEPT !.full_ack_vec = {0}] = v.msg[idx]
        BY <2>4, <3>1 DEF MsgType
      <3> QED
        BY <2>4, <2>8, <3>2
    <2>10. flushed \in SendWndType /\ Shape(flushed)
      BY <1>3, FlushType, FlushShape DEF OneSegWnd
    <2> HIDE DEF flushed, v
    <2>11. /\ off.seq = v.seq /\ off.size = v.size /\ off.buf = v.buf /\ off.msg = v.msg
           /\ off.rtx = [v.rtx EXCEPT ![idx] = 0] /\ off.tiny_on = FALSE /\ off \in SendWndType
      BY <2>8, <2>9, <2>10 DEF SendWndType
    <2> HIDE DEF off, w2
    <2>12. Shape(off) /\ OneSegVecs(off) /\ Growing(off)
      BY <1>3, <2>11, SameShape DEF OneSegWnd, OneSegVecs, Growing, v
    <2>13. SendEnd(off) = SendEnd(v) /\ Closed(off) = SendEnd(v) /\ \A n : MsgNo(off, n) = MsgNo(v, n)
      BY <2>2, <2>11 DEF SendEnd, Closed, MsgNo
    <2>14. OneSegWnd(off)
      BY <2>2, <2>11, <2>12, <2>13 DEF OneSegWnd
    <2>15. AckedNos(off) = AckedNos(v)
      <3>1. ASSUME NEW n \in 0..(SendEnd(v) - 1), ~(n \in 0..(Closed(v) - 1))
            PROVE  ~(n < v.seq \/ AckedMsg(v, n))
        <4>1. n = m /\ ~(n < v.seq)
          BY <2>2, <3>1 DEF m
        <4> QED
          BY <2>3, <4>1
      <3>2. 0..(Closed(v) - 1) \subseteq 0..(SendEnd(v) - 1)
        BY <2>2
      <3> QED
        BY <2>11, <2>13, <3>1, <3>2 DEF AckedNos, AckedMsg
    <2>16. ASSUME NEW n \in v.seq..(Closed(v) - 1)
           PROVE  off.rtx[SendSlot(n)] = v.rtx[SendSlot(n)]
      <3>1. n \in v.seq..(v.seq + SendCap - 1) /\ m \in v.seq..(v.seq + SendCap - 1) /\ n # m
            /\ n \in v.seq..(SendEnd(v) - 1)
        <4>1. v.size <= SendCap /\ SendCap \in Nat
          BY <1>3, EndFacts DEF v
        <4> QED
          BY <2>2, <4>1 DEF m
      <3>2. SendSlot(n) # idx /\ SendSlot(n) \in SendIdx
        BY <1>3, <2>2, <3>1, InWindow DEF v
      <3> QED
        BY <2>4, <2>11, <3>2
    <2>17. Closed(w) <= Closed(off) /\ v.seq = off.seq
      BY <1>2, <1>4, <2>2, <2>11, <2>13 DEF v
    <2>18. TimersEffect(w, off, rh, dt)
      BY <1>2, <1>3, <1>4, <2>11, <2>13, <2>15, <2>16, <2>17 DEF TimersEffect, v
    <2> QED
      BY <2>1, <2>14, <2>18 DEF w2
  <1> QED
    BY <1>5, <1>6

LEMMA OpenFacts ==
    ASSUME NEW w, OneSegWnd(w)
    PROVE  \A n : n \in OpenNos(w) <=>
                     n \in w.seq..(Closed(w) - 1) /\ ~AckedMsg(w, n)
  <1>1. w.seq \in Nat /\ Closed(w) \in Nat
    BY EndFacts
  <1> QED
    BY <1>1 DEF OpenNos, AckedNos

(* Where the pointer of a window of one-segment messages stands. *)
PtrOK(w, p) == p.valid => p.seq \in OpenNos(w) /\ p.seg = 0

(* The pointer goes on to another message, at its only segment. *)
LEMMA OnePtrNext ==
    ASSUME OneSegment, NEW w, OneSegWnd(w), ~(w.tiny_on /\ w.tiny = 0),
           NEW p \in SendWndPtrType, p.valid => p.seg = 0
    PROVE  LET q == SendWndPtrNext(p, w)
           IN /\ CompletesMsg(p, w) <=> p.valid
              /\ q.valid => q.seq \in Resendable(w, p) /\ q.seg = 0
  <1> DEFINE q == SendWndPtrNext(p, w)
  <1>1. \A i \in SendIdx : w.msg[i].cur_ack_vec \in {{}, {0}} /\ w.msg[i].full_ack_vec = {0}
    BY DEF OneSegWnd, OneSegVecs
  <1>2. /\ w.seq \in Nat /\ w.size \in Nat /\ Closed(w) \in Nat /\ SendEnd(w) = w.seq + w.size
        /\ Closed(w) <= SendEnd(w) /\ (w.tiny_on => Closed(w) = SendEnd(w) - 1)
        /\ (~w.tiny_on => Closed(w) = SendEnd(w)) /\ w.tiny_on \in BOOLEAN
    BY EndFacts
  <1>3. ASSUME p.valid PROVE ~StaysInMsg(p, w)
    <2>1. p.seq % SendCap \in SendIdx
      <3>1. p.seq \in Nat
        BY SeqModAssumption DEF SendWndPtrType
      <3> QED
        BY <3>1, SlotType
    <2> DEFINE v == w.msg[p.seq % SendCap].cur_ack_vec
    <2>2. v \in Vecs /\ w.msg[p.seq % SendCap].full_ack_vec = {0}
      BY <1>1, <2>1, OneSegFacts
    <2> HIDE DEF v
    <2>3. 1 <= FirstUnacked(v, 1) /\ FirstUnacked(v, 1) \in Nat
      BY <2>2, FirstUnackedType
    <2>4. NextSegInMsg(p, w) = FirstUnacked(v, 1)
      BY <1>3 DEF NextSegInMsg, v
    <2> QED
      BY <2>2, <2>3, <2>4 DEF StaysInMsg
  <1>4. CompletesMsg(p, w) <=> p.valid
    BY <1>3 DEF CompletesMsg
  <1>5. ~StaysInMsg(p, w)
    BY <1>3 DEF StaysInMsg
  <1>6. ASSUME q.valid PROVE q.seq \in Resendable(w, p) /\ q.seg = 0
    <2> DEFINE i == Min(Sendable(p, w))
               n == w.seq + i
    <2>1. Sendable(p, w) # {}
      BY <1>5, <1>6 DEF SendWndPtrNext
    <2>2. Sendable(p, w) \subseteq Nat
      BY DEF Sendable
    <2>3. i \in Sendable(p, w) /\ i \in Nat
      BY <2>1, <2>2, MinOfNats
    <2>4. q.seq = (i + w.seq) % SeqMod
          /\ q.seg = FirstUnacked(w.msg[((i + w.seq) % SeqMod) % SendCap].cur_ack_vec, 0)
      BY <1>5, <2>1 DEF SendWndPtrNext
    <2> HIDE DEF i, q
    <2>5. i \in 0..(w.size - 1)
      BY <2>3 DEF Sendable
    <2>6. n \in w.seq..(SendEnd(w) - 1) /\ (i + w.seq) % SeqMod = n /\ n \in Nat
      <3>1. (w.seq + i) % SeqMod = w.seq + i
        BY <1>2, <2>5, NoWrap
      <3>2. i + w.seq = w.seq + i /\ w.seq + i \in w.seq..(SendEnd(w) - 1)
        BY <1>2, <2>5
      <3> QED
        BY <1>2, <2>5, <3>1, <3>2
    <2> HIDE DEF n
    <2>7. SendSlot(n) \in SendIdx
      BY <2>6, SendSlotType
    <2>8. /\ ~(p.valid /\ p.seq = n) /\ w.rtx[SendSlot(n)] = 0
          /\ w.msg[SendSlot(n)].cur_ack_vec # w.msg[SendSlot(n)].full_ack_vec
      BY <2>3, <2>6 DEF Sendable, SendSlot
    <2>9. w.msg[SendSlot(n)].cur_ack_vec = {}
      BY <1>1, <2>7, <2>8
    <2>10. ~AckedMsg(w, n)
      BY <2>9 DEF AckedMsg, MsgNo
    <2>11. n < Closed(w)
      <3> SUFFICES ASSUME w.tiny_on, n = SendEnd(w) - 1 PROVE FALSE
        BY <1>2, <2>6
      <3>1. w.rtx[SendSlot(n)] = w.tiny
        BY DEF OneSegWnd, Growing
      <3> QED
        BY <2>8, <3>1
    <2>12. n \in OpenNos(w)
      BY <1>2, <2>6, <2>10, <2>11, OpenFacts
    <2>13. q.seg = 0
      <3> DEFINE S == {s \in 0..(0 + VecBits) : s \notin {}}
      <3>1. q.seg = Min(S)
        BY <2>4, <2>6, <2>9 DEF FirstUnacked, SendSlot
      <3>2. S \subseteq Nat /\ 0 \in S
        BY VecBitsAssumption
      <3> HIDE DEF S
      <3>3. Min(S) \in Nat /\ Min(S) <= 0
        BY <3>2, MinOfNats
      <3> QED
        BY <3>1, <3>3
    <2> QED
      BY <2>4, <2>6, <2>8, <2>12, <2>13 DEF Resendable, PointsAt
  <1> QED
    BY <1>4, <1>6

(* What a poll changes in a window of one-segment messages. *)
PollEffect(w, w2, rh) ==
    /\ SendEnd(w2) = SendEnd(w) /\ Closed(w) <= Closed(w2)
    /\ w.seq <= w2.seq /\ w2.buf = w.buf
    /\ AckedNos(w2) = AckedNos(w) \cup HeardNos(rh)
    /\ \A n \in w2.seq..(SendEnd(w) - 1) : MsgNo(w2, n).len = MsgNo(w, n).len

(* The messages that a poll after dt may send, or leave to the next poll: those
   that could be sent before, unless their timers have had the time to run out. *)
NextToSend(w, p, w2, dt) ==
    {n \in OpenNos(w2) : dt = 0 /\ n < Closed(w) => n \in Resendable(w, p)}

OneSent(w, p, rh, dt, psh, sh, s) ==
    /\ OneSegWnd(s.sw) /\ PollEffect(w, s.sw, rh) /\ PtrOK(s.sw, s.sp)
    /\ Resendable(s.sw, s.sp) \subseteq NextToSend(w, p, s.sw, dt)
    /\ ~psh => s.sp = p /\ s.sh = sh
    /\ psh =>
          /\ s.sp.valid => s.sp.seq \in NextToSend(w, p, s.sw, dt)
          /\ s.sh = IF s.sp.valid
                    THEN [sh EXCEPT !.seg = TRUE, !.seq_num = s.sp.seq, !.seg_id = 0,
                                    !.msg_len = 1]
                    ELSE sh

LEMMA SendSegCount ==
    ASSUME OneSegment, NEW w, OneSegWnd(w), NEW n \in w.seq..(SendEnd(w) - 1)
    PROVE  SegCount(MsgNo(w, n).len) = 1 /\ MsgNo(w, n).len \in 1..SegLen
  <1>1. SendSlot(n) \in SendIdx /\ MsgNo(w, n).len > 0
    BY InWindow
  <1>2. w.msg[SendSlot(n)] \in MsgType
    BY <1>1 DEF OneSegWnd, SendWndType
  <1>3. MsgNo(w, n).len \in 0..SegLen
    BY <1>2, OneSegFacts DEF MsgType, MsgNo
  <1>4. MsgNo(w, n).len \in 1..SegLen
    BY <1>1, <1>3
  <1> QED
    BY <1>4, OneSegCount

LEMMA OneSendPoll ==
    ASSUME OneSegment, NEW w, OneSegWnd(w), NEW p \in SendWndPtrType, PtrOK(w, p),
           NEW rh, AckFits(w, rh), p.valid /\ rh.ack => p.seq # rh.ack_num,
           NEW dt \in Nat, NEW psh, NEW sh
    PROVE  OneSent(w, p, rh, dt, psh, sh, SendPoll(w, p, psh, sh, rh, dt))
  <1> DEFINE v  == SendPollTimers(w, rh, dt)
             q  == SendWndPtrNext(p, v)
             o  == SendPoll(w, p, psh, sh, rh, dt)
             v2 == [v EXCEPT !.rtx[SendSlot(p.seq)] = Rtx]
  <1>1. /\ o.sw = IF psh /\ CompletesMsg(p, v) THEN v2 ELSE v
        /\ o.sp = IF psh THEN q ELSE p
        /\ o.sh = IF ~psh \/ ~q.valid THEN sh
                  ELSE [sh EXCEPT !.seg = TRUE, !.seq_num = q.seq, !.seg_id = q.seg,
                                  !.msg_len = SegCount(MsgNo(v, q.seq).len)]
    BY DEF SendPoll, SendSlot, MsgNo
  <1>2. OneSegWnd(v) /\ TimersEffect(w, v, rh, dt)
    BY OneTimers
  <1> HIDE DEF v
  <1>3. PollEffect(w, v, rh) /\ ~(v.tiny_on /\ v.tiny = 0)
    BY <1>2 DEF TimersEffect, PollEffect
  <1>4. /\ w.seq \in Nat /\ Closed(w) \in Nat /\ v.seq \in Nat /\ Closed(v) \in Nat
        /\ w.seq <= Closed(w) /\ Closed(v) <= SendEnd(v) /\ v.size \in Nat /\ v.size <= SendCap
        /\ SendEnd(v) = v.seq + v.size /\ SendCap \in Nat \ {0} /\ SendEnd(v) \in Nat
        /\ Closed(w) <= SendEnd(w) /\ SendEnd(w) \in Nat
        /\ v.tiny_on => Closed(v) = SendEnd(v) - 1 /\ v.size > 0
    BY <1>2, EndFacts
  <1>5. /\ CompletesMsg(p, v) <=> p.valid
        /\ q.valid => q.seq \in Resendable(v, p) /\ q.seg = 0
    BY <1>2, <1>3, OnePtrNext DEF PtrOK
  <1> HIDE DEF q
  <1>6. PtrOK(v, p)
    <2> SUFFICES ASSUME p.valid PROVE p.seq \in OpenNos(v) /\ p.seg = 0
      BY DEF PtrOK
    <2>1. p.seq \in OpenNos(w) /\ p.seg = 0 /\ p.seq \notin HeardNos(rh)
      BY DEF PtrOK, HeardNos
    <2>2. p.seq \in 0..(Closed(w) - 1) /\ p.seq \notin AckedNos(w)
      BY <2>1 DEF OpenNos
    <2>3. p.seq \in 0..(Closed(v) - 1)
      BY <1>2, <1>4, <2>2 DEF TimersEffect
    <2> QED
      BY <1>2, <2>1, <2>2, <2>3 DEF TimersEffect, OpenNos
  <1>7. Resendable(v, p) \subseteq NextToSend(w, p, v, dt)
    <2> SUFFICES ASSUME NEW n \in Resendable(v, p), dt = 0, n < Closed(w)
                 PROVE  n \in Resendable(w, p)
      BY DEF NextToSend, Resendable
    <2>1. n \in OpenNos(v) /\ v.rtx[SendSlot(n)] = 0 /\ ~PointsAt(p, n)
      BY DEF Resendable
    <2>2. n \in v.seq..(Closed(w) - 1)
      BY <1>2, <1>4, <2>1, OpenFacts
    <2>3. w.rtx[SendSlot(n)] = 0
      BY <1>2, <2>1, <2>2 DEF TimersEffect
    <2>4. n \notin AckedNos(w) /\ n \in 0..(Closed(w) - 1)
      BY <1>2, <1>4, <2>1, <2>2 DEF TimersEffect, OpenNos
    <2> QED
      BY <2>1, <2>3, <2>4 DEF Resendable, OpenNos
  <1>8. q.valid => q.seq \in NextToSend(w, p, v, dt) /\ q.seq \in OpenNos(v)
    BY <1>5, <1>7 DEF Resendable
  <1>9. q.valid => SegCount(MsgNo(v, q.seq).len) = 1
    <2> SUFFICES ASSUME q.valid PROVE SegCount(MsgNo(v, q.seq).len) = 1
      OBVIOUS
    <2>1. q.seq \in v.seq..(Closed(v) - 1)
      BY <1>2, <1>8, OpenFacts
    <2>2. q.seq \in v.seq..(SendEnd(v) - 1)
      BY <1>4, <2>1
    <2> QED
      BY <1>2, <2>2, SendSegCount
  <1>10. o.sh = IF ~psh \/ ~q.valid THEN sh
                ELSE [sh EXCEPT !.seg = TRUE, !.seq_num = q.seq, !.seg_id = 0, !.msg_len = 1]
    BY <1>1, <1>5, <1>9
  <1>11. ASSUME p.valid
         PROVE  /\ OneSegWnd(v2) /\ PollEffect(w, v2, rh) /\ OpenNos(v2) = OpenNos(v)
                /\ \A n : v2.rtx[SendSlot(n)] = 0 => n # p.seq
                /\ \A n \in OpenNos(v) : v2.rtx[SendSlot(n)] = 0 => v.rtx[SendSlot(n)] = 0
    <2> DEFINE k == p.seq
    <2>1. k \in OpenNos(v) /\ k \in v.seq..(Closed(v) - 1)
      BY <1>2, <1>6, <1>11, OpenFacts DEF PtrOK
    <2> HIDE DEF k
    <2>2. k \in Nat /\ SendSlot(k) \in SendIdx /\ Rtx \in Nat \ {0}
      BY <1>4, <2>1, SendSlotType, OneSegFacts
    <2>3. v \in SendWndType /\ v.rtx \in [SendIdx -> Nat] /\ Shape(v)
      BY <1>2 DEF OneSegWnd, SendWndType
    <2>4. /\ v2.seq = v.seq /\ v2.size = v.size /\ v2.buf = v.buf /\ v2.msg = v.msg
          /\ v2.tiny = v.tiny /\ v2.tiny_on = v.tiny_on
          /\ v2.rtx = [v.rtx EXCEPT ![SendSlot(k)] = Rtx]
      BY <2>3 DEF SendWndType, k
    <2>5. v2.rtx \in [SendIdx -> Nat]
      BY <2>2, <2>3, <2>4
    <2>6. v2 \in SendWndType
      BY <2>3, <2>5 DEF SendWndType
    <2> HIDE DEF v2
    <2>7. SameButTimers(v, v2) /\ Shape(v2)
      BY <2>3, <2>4, SameShape DEF SameButTimers
    <2>8. /\ SendEnd(v2) = SendEnd(v) /\ Closed(v2) = Closed(v) /\ AckedNos(v2) = AckedNos(v)
          /\ \A n : MsgNo(v2, n) = MsgNo(v, n) /\ (AckedMsg(v2, n) <=> AckedMsg(v, n))
      BY <2>7, SameNumbers
    <2>9. Growing(v2)
      <3> DEFINE m == SendEnd(v) - 1
      <3> SUFFICES ASSUME v.tiny_on
                   PROVE  v.size > 0 /\ v2.rtx[SendSlot(m)] = v.tiny /\ ~AckedMsg(v, m)
        BY <2>4, <2>8 DEF Growing
      <3>1. v.size > 0 /\ v.rtx[SendSlot(m)] = v.tiny /\ ~AckedMsg(v, m)
        BY <1>2 DEF OneSegWnd, Growing
      <3>2. m \in v.seq..(v.seq + SendCap - 1) /\ k \in v.seq..(v.seq + SendCap - 1) /\ m # k
            /\ m \in Nat
        BY <1>4, <2>1, <2>2
      <3> HIDE DEF m
      <3>3. SendSlot(m) # SendSlot(k) /\ SendSlot(m) \in SendIdx
        BY <1>2, <3>2, InWindow, SendSlotType
      <3>4. v2.rtx[SendSlot(m)] = v.rtx[SendSlot(m)]
        BY <2>3, <2>4, <3>3
      <3> QED
        BY <3>1, <3>4
    <2>10. OneSegWnd(v2)
      <3>1. OneSegVecs(v2) /\ SendEnd(v2) < SeqMod
        BY <1>2, <2>4, <2>8 DEF OneSegWnd, OneSegVecs
      <3> QED
        BY <2>6, <2>7, <2>9, <3>1 DEF OneSegWnd
    <2>11. PollEffect(w, v2, rh)
      BY <1>3, <2>4, <2>8 DEF PollEffect
    <2>12. OpenNos(v2) = OpenNos(v)
      BY <2>8 DEF OpenNos
    <2>13. \A n : v2.rtx[SendSlot(n)] = 0 => n # k
      <3>1. v2.rtx[SendSlot(k)] # 0
        BY <2>2, <2>3, <2>4
      <3> QED
        BY <3>1
    <2>14. ASSUME NEW n \in OpenNos(v), v2.rtx[SendSlot(n)] = 0 PROVE v.rtx[SendSlot(n)] = 0
      <3>1. SendSlot(n) \in SendIdx
        <4>1. n \in v.seq..(Closed(v) - 1)
          BY <1>2, OpenFacts
        <4>2. n \in Nat
          BY <1>4, <4>1
        <4> QED
          BY <4>2, SendSlotType
      <3>2. CASE SendSlot(n) = SendSlot(k)
        BY <2>2, <2>3, <2>4, <2>14, <3>2
      <3>3. CASE SendSlot(n) # SendSlot(k)
        BY <2>3, <2>4, <2>14, <3>1, <3>3
      <3> QED
        BY <3>2, <3>3
    <2> QED
      BY <2>10, <2>11, <2>12, <2>13, <2>14 DEF k
  <1> HIDE DEF v2, o
  <1>12. CASE ~psh
    <2>1. o.sw = v /\ o.sp = p /\ o.sh = sh
      BY <1>1, <1>12
    <2> QED
      BY <1>2, <1>3, <1>6, <1>7, <1>12, <2>1 DEF OneSent, o
  <1>13. CASE psh
    <2> DEFINE x == o.sw
    <2>1. o.sp = q /\ x = IF p.valid THEN v2 ELSE v
      BY <1>1, <1>5, <1>13
    <2> HIDE DEF x
    <2>2. OneSegWnd(x) /\ PollEffect(w, x, rh) /\ OpenNos(x) = OpenNos(v)
      BY <1>2, <1>3, <1>11, <2>1
    <2>3. PtrOK(x, q)
      BY <1>5, <1>8, <2>2 DEF PtrOK
    <2>4. NextToSend(w, p, x, dt) = NextToSend(w, p, v, dt)
      BY <2>2 DEF NextToSend
    <2>5. Resendable(x, q) \subseteq Resendable(v, p)
      <3> SUFFICES ASSUME NEW n \in OpenNos(v), x.rtx[SendSlot(n)] = 0
                   PROVE  v.rtx[SendSlot(n)] = 0 /\ ~PointsAt(p, n)
        BY <2>2 DEF Resendable
      <3>1. CASE p.valid
        BY <1>11, <2>1, <3>1 DEF PointsAt
      <3>2. CASE ~p.valid
        BY <2>1, <3>2 DEF PointsAt
      <3> QED
        BY <3>1, <3>2
    <2>6. /\ o.sh = IF q.valid
                    THEN [sh EXCEPT !.seg = TRUE, !.seq_num = q.seq, !.seg_id = 0, !.msg_len = 1]
                    ELSE sh
      BY <1>10, <1>13
    <2>7. OneSent(w, p, rh, dt, psh, sh, o)
      BY <1>7, <1>8, <1>13, <2>1, <2>2, <2>3, <2>4, <2>5, <2>6 DEF OneSent, x
    <2> QED
      BY <2>7 DEF o
  <1> QED
    BY <1>12, <1>13

----------------------------------------------------------------------------
(* What arq__send_wnd_send does to the messages, by their numbers: behind the
   TailLen(w) bytes of message TailSeq(w) the new ones make full whole messages
   and leave rem bytes for one more. *)

Lengthened(m, len) == [m EXCEPT !.len = len]

SendEffect(w, w2, len, full, rem) ==
    LET t     == TailSeq(w)
        fresh == rem > 0 /\ w2.size > w.size
    IN /\ TailLen(w) + len = full * MsgLen + rem /\ rem < MsgLen
       /\ w2.seq = w.seq /\ SendEnd(w2) = t + full + (IF rem > 0 THEN 1 ELSE 0)
       /\ w2.tiny_on = (rem > 0) /\ w2.tiny = IF fresh THEN Tiny ELSE w.tiny
       /\ \A n \in w.seq..(w.seq + SendCap - 1) :
             /\ MsgNo(w2, n) = IF rem > 0 /\ n = t + full THEN Lengthened(MsgNo(w, n), rem)
                               ELSE IF n \in t..(t + full - 1) THEN Lengthened(MsgNo(w, n), MsgLen)
                               ELSE MsgNo(w, n)
             /\ w2.rtx[SendSlot(n)] = IF fresh /\ n = t + full THEN Tiny
                                      ELSE IF n \in t..(t + full - 1) THEN 0
                                      ELSE w.rtx[SendSlot(n)]

LEMMA SendMessages ==
    ASSUME NEW w \in SendWndType, Shape(w), NEW data \in Seq(Nat), Len(data) # 0
    PROVE  \E full, rem \in Nat :
              SendEffect(w, SendWndSend(w, data), Accepted(w, Len(data)), full, rem)
  <1> DEFINE k      == SubSat(w.size, 1)
             seq    == TailSeq(w)
             last   == TailLen(w)
             len    == Accepted(w, Len(data))
             full   == (last + len) \div MsgLen
             rem    == (last + len) - full * MsgLen
             size   == (WndSizeInBytes(w) + len + MsgLen - 1) \div MsgLen
             tail   == (w.seq + size - 1) % SendCap
             filled == {(seq + i) % SendCap : i \in 0..(full - 1)}
             fresh  == rem > 0 /\ size > w.size
             w2     == SendWndSend(w, data)
  <1>1. /\ w.size \in 0..SendCap /\ w.seq \in Nat /\ w.rtx \in [SendIdx -> Nat]
        /\ w.msg \in [SendIdx -> MsgType] /\ SendCap \in Nat \ {0} /\ MsgLen \in Nat \ {0}
    BY SendCapAssumption, SeqModAssumption, MsgLenType DEF SendWndType
  <1>2. /\ w2.seq = w.seq /\ w2.size = size /\ w2.tiny_on = (rem > 0)
        /\ w2.tiny = IF fresh THEN Tiny ELSE w.tiny
        /\ w2.msg = [i \in SendIdx |->
                       IF rem > 0 /\ i = tail THEN Lengthened(w.msg[i], rem)
                       ELSE IF i \in filled THEN Lengthened(w.msg[i], MsgLen)
                       ELSE w.msg[i]]
        /\ w2.rtx = [i \in SendIdx |->
                       IF fresh /\ i = tail THEN Tiny
                       ELSE IF i \in filled THEN 0 ELSE w.rtx[i]]
    BY DEF SendWndSend, SendWndType, Lengthened
  <1>3. /\ k \in Nat /\ k <= w.size
        /\ w.size = 0 => k = 0 /\ last = 0
        /\ w.size > 0 => w.size = k + 1 /\ last > 0
    BY <1>1, TailFacts
  <1>4. Len(data) \in Nat
    OBVIOUS
  <1>5. len \in Nat /\ size \in 0..SendCap /\ last \in Nat
    <2>1. len \in 0..Len(data) /\ size \in 0..SendCap
      BY <1>4, AcceptedType
    <2>2. last \in 0..MsgLen
      BY TailType
    <2> QED
      BY <1>1, <1>4, <2>1, <2>2
  <1>6. seq = w.seq + k
    BY DEF TailSeq
  <1>7. WndSizeInBytes(w) = k * MsgLen + last
    BY DEF WndSizeInBytes
  <1> HIDE DEF k, last, len, seq
  <1>8. /\ full \in Nat /\ rem \in Nat
        /\ size = k + full + (IF rem > 0 THEN 1 ELSE 0)
    <2>1. size = (k * MsgLen + last + len + MsgLen - 1) \div MsgLen
      BY <1>7
    <2> HIDE DEF size
    <2> QED
      BY ZenonT(40), <1>3, <1>5, <2>1, SendCounts
  <1>9. rem < MsgLen /\ last + len = full * MsgLen + rem
    <2> DEFINE t == last + len
               r == t % MsgLen
    <2>1. t \in Nat
      BY <1>5
    <2> HIDE DEF t
    <2>2. r \in 0..(MsgLen - 1) /\ t = MsgLen * (t \div MsgLen) + r
      BY <1>1, <2>1, DivModFacts
    <2> HIDE DEF r
    <2>3. full = t \div MsgLen
      BY DEF t
    <2> DEFINE f == t \div MsgLen
    <2>4. f \in Nat
      BY <1>8, <2>3
    <2> HIDE DEF f, full
    <2>5. full = f /\ t = MsgLen * f + r
      BY <2>2, <2>3 DEF f
    <2>6. rem = t - full * MsgLen
      BY DEF t
    <2> HIDE DEF rem
    <2>7. rem = r /\ t = full * MsgLen + rem
      BY <1>1, <2>2, <2>4, <2>5, <2>6
    <2> QED
      BY <1>1, <2>2, <2>7 DEF t
  <1> HIDE DEF full, rem, size, w2
  <1>10. /\ w.seq \in Nat /\ k \in Nat /\ full \in Nat /\ SendCap \in Nat
         /\ seq = w.seq + k /\ k + full <= SendCap /\ seq \in Nat
    BY <1>1, <1>3, <1>5, <1>6, <1>8
  <1>11. SendEnd(w2) = seq + full + (IF rem > 0 THEN 1 ELSE 0)
    <2> DEFINE one == IF rem > 0 THEN 1 ELSE 0
    <2>1. w2.seq = w.seq /\ w2.size = k + full + one /\ one \in Nat
      BY <1>2, <1>8
    <2> HIDE DEF one
    <2>2. w.seq + (k + full + one) = seq + full + one
      BY SMTT(30), <1>10, <2>1
    <2> QED
      BY <2>1, <2>2 DEF SendEnd, one
  <1>12. fresh <=> rem > 0 /\ w2.size > w.size
    BY <1>2
  <1>13. rem > 0 => seq + full \in w.seq..(w.seq + SendCap - 1) /\ tail = SendSlot(seq + full)
    <2>1. ASSUME rem > 0
          PROVE  seq + full \in w.seq..(w.seq + SendCap - 1) /\ w.seq + size - 1 = seq + full
      <3> DEFINE a == w.seq
      <3>1. /\ a \in Nat /\ k \in Nat /\ full \in Nat /\ SendCap \in Nat /\ seq = a + k
            /\ size = k + full + 1 /\ size <= SendCap
        BY <1>5, <1>8, <1>10, <2>1
      <3> HIDE DEF a
      <3>2. seq + full \in a..(a + SendCap - 1) /\ a + size - 1 = seq + full
        BY ONLY <3>1
      <3> QED
        BY <3>2 DEF a
    <2> QED
      BY <2>1 DEF SendSlot
  <1>14. filled = {SendSlot(seq + i) : i \in 0..(full - 1)}
    BY DEF SendSlot
  <1> HIDE DEF tail, filled, fresh
  <1>15. ASSUME NEW n \in w.seq..(w.seq + SendCap - 1)
         PROVE  /\ SendSlot(n) \in SendIdx
                /\ rem > 0 => (SendSlot(n) = tail <=> n = seq + full)
                /\ SendSlot(n) \in filled <=> n \in seq..(seq + full - 1)
    <2>1. n \in Nat
      BY <1>10
    <2>2. rem > 0 => (SendSlot(n) = tail <=> n = seq + full)
      BY <1>10, <1>13, SendSlotsDiffer
    <2>3. ASSUME n \in seq..(seq + full - 1) PROVE SendSlot(n) \in filled
      <3>1. n - seq \in 0..(full - 1) /\ seq + (n - seq) = n
        <4>1. seq \in Nat /\ full \in Nat /\ n \in Nat /\ seq <= n /\ n <= seq + full - 1
          BY <1>10, <2>1, <2>3
        <4> QED
          BY ONLY <4>1
      <3> QED
        BY <1>14, <3>1
    <2>4. ASSUME SendSlot(n) \in filled PROVE n \in seq..(seq + full - 1)
      <3>1. PICK i \in 0..(full - 1) : SendSlot(n) = SendSlot(seq + i)
        BY <1>14, <2>4
      <3>2. seq + i \in w.seq..(w.seq + SendCap - 1)
        BY SMTT(30), <1>10
      <3>3. n = seq + i
        BY <1>10, <3>1, <3>2, SendSlotsDiffer
      <3> QED
        BY SMTT(30), <1>10, <3>3
    <2> QED
      BY <2>1, <2>2, <2>3, <2>4, SendSlotType
  <1>16. ASSUME NEW n \in w.seq..(w.seq + SendCap - 1)
         PROVE  /\ MsgNo(w2, n) = IF rem > 0 /\ n = seq + full THEN Lengthened(MsgNo(w, n), rem)
                                  ELSE IF n \in seq..(seq + full - 1) THEN Lengthened(MsgNo(w, n), MsgLen)
                                  ELSE MsgNo(w, n)
                /\ w2.rtx[SendSlot(n)] = IF fresh /\ n = seq + full THEN Tiny
                                         ELSE IF n \in seq..(seq + full - 1) THEN 0
                                         ELSE w.rtx[SendSlot(n)]
    <2> DEFINE x == SendSlot(n)
    <2>1. /\ x \in SendIdx
          /\ rem > 0 => (x = tail <=> n = seq + full)
          /\ x \in filled <=> n \in seq..(seq + full - 1)
      BY <1>15
    <2>2. MsgNo(w2, n) = w2.msg[x] /\ MsgNo(w, n) = w.msg[x]
      BY DEF MsgNo
    <2>3. fresh => rem > 0
      BY <1>12
    <2> HIDE DEF x
    <2>4. w2.msg[x] = IF rem > 0 /\ n = seq + full THEN Lengthened(w.msg[x], rem)
                      ELSE IF n \in seq..(seq + full - 1) THEN Lengthened(w.msg[x], MsgLen)
                      ELSE w.msg[x]
      BY <1>2, <2>1
    <2>5. w2.rtx[x] = IF fresh /\ n = seq + full THEN Tiny
                      ELSE IF n \in seq..(seq + full - 1) THEN 0 ELSE w.rtx[x]
      BY <1>2, <2>1, <2>3
    <2> QED
      BY <2>2, <2>4, <2>5 DEF x
  <1>17. SendEffect(w, w2, len, full, rem)
    BY <1>2, <1>9, <1>11, <1>12, <1>16 DEF SendEffect, seq, last
  <1> QED
    BY <1>8, <1>17 DEF w2, len

----------------------------------------------------------------------------
(* Where the messages of a stream of s bytes start: message n, in the window or
   before it, carries the bytes from st[n] + 1 to st[n + 1]. *)

Starts(st, w, s) ==
    /\ st \in [Nat -> Nat] /\ st[0] = 0 /\ st[SendEnd(w)] = s
    /\ \A n \in 0..(SendEnd(w) - 1) : LenOf(st, n) \in 1..MsgLen
    /\ \A n \in w.seq..(SendEnd(w) - 1) : MsgNo(w, n).len = LenOf(st, n)

LEMMA StartsAfterPoll ==
    ASSUME NEW w, OneSegWnd(w), NEW w2, OneSegWnd(w2), NEW rh, PollEffect(w, w2, rh),
           NEW st, NEW s, Starts(st, w, s)
    PROVE  Starts(st, w2, s)
  <1>1. /\ SendEnd(w2) = SendEnd(w) /\ w.seq <= w2.seq /\ w.seq \in Nat /\ w2.seq \in Nat
        /\ SendEnd(w) \in Nat
        /\ \A n \in w2.seq..(SendEnd(w) - 1) : MsgNo(w2, n).len = MsgNo(w, n).len
    BY EndFacts DEF PollEffect
  <1>2. \A n \in w2.seq..(SendEnd(w) - 1) : n \in w.seq..(SendEnd(w) - 1)
    BY <1>1
  <1> QED
    BY <1>1, <1>2 DEF Starts

(* Every message has at least one byte. *)
LEMMA StartsGrow ==
    ASSUME NEW w, SendEnd(w) \in Nat, NEW st, NEW s, Starts(st, w, s)
    PROVE  \A b \in 0..SendEnd(w) : \A a \in 0..b :
              st[a] \in Nat /\ st[b] \in Nat /\ st[a] + (b - a) <= st[b]
  <1> DEFINE S == {b \in Nat : b <= SendEnd(w) => \A a \in 0..b : st[a] + (b - a) <= st[b]}
  <1>1. SendEnd(w) \in Nat /\ st \in [Nat -> Nat]
    BY DEF Starts
  <1>2. \A n \in Nat : st[n] \in Nat
    BY <1>1
  <1>3. 0 \in S
    <2>1. st[0] + (0 - 0) <= st[0]
      BY <1>2
    <2>2. \A a \in 0..0 : a = 0
      OBVIOUS
    <2>3. \A a \in 0..0 : st[a] + (0 - a) <= st[0]
      BY <2>1, <2>2
    <2> QED
      BY <2>3
  <1>4. ASSUME NEW b \in S PROVE b + 1 \in S
    <2> SUFFICES ASSUME b + 1 <= SendEnd(w), NEW a \in 0..(b + 1)
                 PROVE  st[a] + ((b + 1) - a) <= st[b + 1]
      OBVIOUS
    <2>1. b \in Nat /\ b \in 0..(SendEnd(w) - 1) /\ b <= SendEnd(w)
      BY <1>1
    <2>2. st[b + 1] - st[b] \in 1..MsgLen
      BY <2>1 DEF Starts, LenOf
    <2>3. st[b] + 1 <= st[b + 1] /\ st[b] \in Nat /\ st[b + 1] \in Nat /\ st[a] \in Nat
      BY <1>2, <2>1, <2>2, MsgLenType
    <2>4. CASE a = b + 1
      BY <2>1, <2>3, <2>4
    <2>5. CASE a # b + 1
      <3>1. a \in 0..b
        BY <2>1, <2>5
      <3>2. st[a] + (b - a) <= st[b]
        BY <2>1, <3>1
      <3> QED
        BY <2>1, <2>3, <3>1, <3>2
    <2> QED
      BY <2>4, <2>5
  <1>5. S = Nat
    <2>1. S \subseteq Nat
      OBVIOUS
    <2> HIDE DEF S
    <2> QED
      BY <1>3, <1>4, <2>1, InductionOnSet
  <1>6. ASSUME NEW b \in 0..SendEnd(w), NEW a \in 0..b
        PROVE  st[a] \in Nat /\ st[b] \in Nat /\ st[a] + (b - a) <= st[b]
    <2>0. b \in Nat /\ a \in Nat /\ b <= SendEnd(w)
      BY ONLY <1>1
    <2>1. b \in S /\ a \in Nat /\ b <= SendEnd(w)
      BY <1>5, <2>0
    <2>2. st[a] + (b - a) <= st[b]
      BY <2>1
    <2> QED
      BY <1>1, <1>2, <2>1, <2>2
  <1> QED
    BY <1>6

(* All messages of the window but the last are full. *)
LEMMA StartsInWindow ==
    ASSUME NEW w, OneSegWnd(w), NEW st, NEW s, Starts(st, w, s)
    PROVE  /\ s = st[w.seq] + WndSizeInBytes(w) /\ s \in Nat
           /\ \A i \in 0..(w.size - 1) : st[w.seq + i] = st[w.seq] + i * MsgLen
  <1> DEFINE S == {i \in Nat : i < w.size => st[w.seq + i] = st[w.seq] + i * MsgLen}
  <1>1. /\ w.seq \in Nat /\ w.size \in Nat /\ SendEnd(w) = w.seq + w.size
        /\ MsgLen \in Nat \ {0} /\ w \in SendWndType /\ Shape(w)
    BY EndFacts, MsgLenType DEF OneSegWnd
  <1>2. \A n \in Nat : st[n] \in Nat
    BY DEF Starts
  <1>3. 0 \in S
    BY <1>1, <1>2
  <1>4. ASSUME NEW i \in S PROVE i + 1 \in S
    <2> SUFFICES ASSUME i + 1 < w.size PROVE st[w.seq + (i + 1)] = st[w.seq] + (i + 1) * MsgLen
      OBVIOUS
    <2> DEFINE n == w.seq + i
    <2>1. /\ n \in w.seq..(SendEnd(w) - 1) /\ n < SendEnd(w) - 1 /\ n \in Nat
          /\ n + 1 = w.seq + (i + 1) /\ i < w.size /\ i \in Nat
      BY <1>1
    <2>2. st[n] = st[w.seq] + i * MsgLen
      BY <2>1
    <2> HIDE DEF n
    <2>3. MsgNo(w, n).len = MsgLen /\ MsgNo(w, n).len = st[n + 1] - st[n]
      BY <2>1, InWindow DEF Starts, LenOf
    <2>4. st[n + 1] \in Nat /\ st[n] \in Nat /\ st[w.seq] \in Nat
      BY <1>1, <1>2, <2>1
    <2>5. st[n + 1] = st[w.seq] + i * MsgLen + MsgLen
      <3>1. i * MsgLen \in Nat
        BY <1>1, <2>1
      <3> QED
        BY <1>1, <2>2, <2>3, <2>4, <3>1
    <2>6. (i + 1) * MsgLen = i * MsgLen + MsgLen /\ i * MsgLen \in Nat
      BY <1>1, <2>1
    <2> QED
      BY <1>1, <2>1, <2>4, <2>5, <2>6
  <1>5. S = Nat
    <2>1. S \subseteq Nat
      OBVIOUS
    <2> HIDE DEF S
    <2> QED
      BY <1>3, <1>4, <2>1, InductionOnSet
  <1>6. \A i \in 0..(w.size - 1) : st[w.seq + i] = st[w.seq] + i * MsgLen
    BY <1>1, <1>5
  <1> HIDE DEF S
  <1>7. s = st[w.seq] + WndSizeInBytes(w)
    <2>1. /\ SubSat(w.size, 1) \in Nat
          /\ w.size = 0 => SubSat(w.size, 1) = 0 /\ TailLen(w) = 0
          /\ w.size > 0 => w.size = SubSat(w.size, 1) + 1
      BY <1>1, TailFacts
    <2>2. WndSizeInBytes(w) = SubSat(w.size, 1) * MsgLen + TailLen(w)
      BY DEF WndSizeInBytes
    <2>3. s = st[w.seq + w.size] /\ st[w.seq] \in Nat /\ s \in Nat
      BY <1>1, <1>2 DEF Starts
    <2>4. CASE w.size = 0
      <3>1. w.seq + w.size = w.seq /\ 0 * MsgLen + 0 = 0
        BY <1>1, <2>4
      <3> QED
        BY <2>1, <2>2, <2>3, <2>4, <3>1
    <2>5. CASE w.size > 0
      <3> DEFINE k == SubSat(w.size, 1)
                 n == w.seq + k
      <3>1. k \in 0..(w.size - 1) /\ n \in w.seq..(SendEnd(w) - 1) /\ n + 1 = w.seq + w.size
            /\ n \in Nat
        BY <1>1, <2>1, <2>5
      <3>2. st[n] = st[w.seq] + k * MsgLen
        BY <1>6, <3>1
      <3>3. TailLen(w) = MsgNo(w, n).len
        BY DEF TailLen, TailSeq, MsgNo, SendSlot
      <3> HIDE DEF k, n
      <3>4. TailLen(w) = st[n + 1] - st[n]
        BY <3>1, <3>3 DEF Starts, LenOf
      <3>5. st[n] \in Nat /\ k * MsgLen \in Nat
        BY <1>1, <1>2, <3>1
      <3> QED
        BY <2>2, <2>3, <3>1, <3>2, <3>4, <3>5 DEF k
    <2> QED
      BY <1>1, <2>4, <2>5
  <1>8. s \in Nat
    BY <1>1, <1>2 DEF Starts
  <1> QED
    BY <1>6, <1>7, <1>8

(* The bytes of message n are where frames are made from. *)
LEMMA BytesInSlot ==
    ASSUME OneSegment, NEW w, OneSegWnd(w), NEW st, NEW s, Starts(st, w, s), Content(w, s),
           NEW n \in w.seq..(SendEnd(w) - 1), NEW j \in 0..(LenOf(st, n) - 1)
    PROVE  w.buf[MsgLen * SendSlot(n) + j] = st[n] + j + 1
  <1> DEFINE i == n - w.seq
             t == SendSlot(n)
  <1>1. /\ w.seq \in Nat /\ w.size \in Nat /\ SendEnd(w) = w.seq + w.size
        /\ MsgLen \in Nat \ {0} /\ SendCap \in Nat \ {0} /\ SendBytes \in Nat \ {0}
        /\ SendBytes = SendCap * MsgLen
    BY EndFacts, MsgLenType, SendBytesPositive DEF SendBytes
  <1>2. /\ i \in 0..(w.size - 1) /\ n = w.seq + i /\ n \in Nat /\ n \in 0..(SendEnd(w) - 1)
        /\ SendEnd(w) \in Nat
        /\ t \in SendIdx
    BY <1>1, InWindow
  <1>3. /\ st[n] = st[w.seq] + i * MsgLen /\ s = st[w.seq] + WndSizeInBytes(w)
        /\ st[w.seq] \in Nat /\ s \in Nat /\ st[n] \in Nat /\ st[n + 1] \in Nat
    BY <1>1, <1>2, StartsInWindow DEF Starts
  <1>4. st[n + 1] - st[n] \in 1..MsgLen /\ j \in 0..(st[n + 1] - st[n] - 1)
    BY <1>2 DEF Starts, LenOf
  <1>5. st[n + 1] <= s
    <2>1. n + 1 \in 0..SendEnd(w) /\ SendEnd(w) \in 0..SendEnd(w)
      BY <1>1, <1>2
    <2>2. st[n + 1] + (SendEnd(w) - (n + 1)) <= st[SendEnd(w)]
      BY <1>1, <1>2, <2>1, StartsGrow
    <2> QED
      BY <1>1, <1>2, <1>3, <2>1, <2>2 DEF Starts
  <1> HIDE DEF i, t
  <1> DEFINE x == i * MsgLen
             y == x + j
  <1>6. x \in Nat /\ j \in 0..(MsgLen - 1)
    BY <1>1, <1>2, <1>4, <1>3
  <1> HIDE DEF x
  <1>7. WndSizeInBytes(w) \in Nat
    BY TailType DEF OneSegWnd
  <1>8. y \in 0..(WndSizeInBytes(w) - 1) /\ y = x + j
    BY <1>3, <1>4, <1>5, <1>6, <1>7 DEF x
  <1>9. w.buf[(Base(w) + y) % SendBytes] = s - WndSizeInBytes(w) + y + 1
    BY <1>8 DEF Content
  <1>10. s - WndSizeInBytes(w) + y + 1 = st[n] + j + 1
    BY <1>3, <1>6, <1>7, <1>8 DEF x
  <1>11. PICK q \in Nat : (w.seq % SendCap) * MsgLen + x = SendBytes * q + t * MsgLen
    <2>1. i \in Nat /\ ((w.seq + i) % SendCap) = t
      BY <1>1, <1>2 DEF t, SendSlot
    <2>2. \E q \in Nat : (w.seq % SendCap) * MsgLen + i * MsgLen =
                            SendBytes * q + ((w.seq + i) % SendCap) * MsgLen
      BY <1>1, <2>1, MessageStart
    <2> QED
      BY <2>1, <2>2 DEF x
  <1>12. (Base(w) + y) % SendBytes = MsgLen * t + j
    <2> DEFINE z == t * MsgLen + j
               b == (w.seq % SendCap) * MsgLen
    <2>1. w.seq % SendCap \in Nat
      BY <1>1, SlotType DEF SendIdx
    <2>2. b \in Nat /\ t \in Nat
      BY <1>1, <1>2, <2>1 DEF SendIdx
    <2>3. z \in 0..(SendBytes - 1)
      <3>1. t + 1 \in Nat /\ t + 1 <= SendCap
        BY <1>1, <1>2 DEF SendIdx
      <3>2. (t + 1) * MsgLen <= SendCap * MsgLen
        BY <1>1, <3>1, TimesMonotone
      <3>3. (t + 1) * MsgLen = t * MsgLen + MsgLen /\ t * MsgLen \in Nat
        BY <1>1, <2>2
      <3> QED
        BY <1>1, <1>6, <3>2, <3>3
    <2>4. Base(w) = b
      BY DEF Base
    <2>5. t * MsgLen \in Nat /\ SendBytes * q \in Nat /\ t * MsgLen = MsgLen * t
      BY <1>1, <2>2
    <2>6. b + x = SendBytes * q + t * MsgLen
      BY <1>11
    <2> HIDE DEF b
    <2>7. b + y = SendBytes * q + z
      BY <1>6, <1>8, <2>2, <2>5, <2>6
    <2>8. (SendBytes * q + z) % SendBytes = z
      <3>1. z \in Nat /\ z \in 0..(SendBytes - 1)
        BY <1>1, <2>3
      <3> HIDE DEF z
      <3>2. (SendBytes * q + z) % SendBytes = z % SendBytes
        BY <1>1, <3>1, ModAddMultiple
      <3>3. z % SendBytes = z
        BY <1>1, <3>1
      <3> QED
        BY <3>2, <3>3
    <2> QED
      BY <2>4, <2>5, <2>7, <2>8
  <1> QED
    BY <1>9, <1>10, <1>12 DEF t

----------------------------------------------------------------------------
(* arq_send, when the last message of the window is not full and not flushed *)

MayGrow(w) ==
    \/ TailLen(w) = 0
    \/ TailLen(w) # MsgLen /\ w.tiny_on

(* The messages that may be sent are the ones before the last, which still grows. *)
LEMMA GrowsFromTail ==
    ASSUME OneSegment, NEW w, OneSegWnd(w), MayGrow(w)
    PROVE  /\ TailSeq(w) = Closed(w) /\ TailLen(w) \in Nat
           /\ \/ TailLen(w) = 0 /\ w.size = 0 /\ SendEnd(w) = w.seq /\ ~w.tiny_on
              \/ /\ TailLen(w) > 0 /\ w.size > 0 /\ w.tiny_on /\ SendEnd(w) = TailSeq(w) + 1
                 /\ TailLen(w) = MsgNo(w, TailSeq(w)).len
  <1>1. /\ w.seq \in Nat /\ w.size \in Nat /\ SendEnd(w) = w.seq + w.size
        /\ ~w.tiny_on => Closed(w) = SendEnd(w)
        /\ w.tiny_on => Closed(w) = SendEnd(w) - 1 /\ w.size > 0
    BY EndFacts
  <1>2. /\ SubSat(w.size, 1) \in Nat
        /\ w.size = 0 => SubSat(w.size, 1) = 0 /\ TailLen(w) = 0
        /\ w.size > 0 => w.size = SubSat(w.size, 1) + 1 /\ TailLen(w) > 0
    BY TailFacts DEF OneSegWnd
  <1>3. TailSeq(w) = w.seq + SubSat(w.size, 1) /\ TailLen(w) = MsgNo(w, TailSeq(w)).len
    BY DEF TailSeq, TailLen, MsgNo, SendSlot
  <1>4. TailLen(w) \in Nat
    <2>1. TailLen(w) \in 0..MsgLen
      BY TailType DEF OneSegWnd
    <2> QED
      BY <2>1, MsgLenType
  <1>5. CASE TailLen(w) = 0
    <2>1. w.size = 0 /\ ~w.tiny_on
      BY <1>1, <1>2, <1>5
    <2> QED
      BY <1>1, <1>2, <1>3, <1>4, <1>5, <2>1
  <1>6. CASE TailLen(w) # 0
    <2>1. w.tiny_on /\ w.size > 0
      BY <1>1, <1>6 DEF MayGrow
    <2>2. SendEnd(w) = TailSeq(w) + 1
      BY <1>1, <1>2, <1>3, <2>1
    <2> QED
      BY <1>1, <1>2, <1>3, <1>4, <1>6, <2>1, <2>2
  <1> QED
    BY <1>5, <1>6

(* What a call of arq_send changes. *)
Grown(w, w2) ==
    /\ Closed(w) <= Closed(w2) /\ w2.seq = w.seq /\ AckedNos(w2) = AckedNos(w)
    /\ \A n \in w.seq..(Closed(w) - 1) : w2.rtx[SendSlot(n)] = w.rtx[SendSlot(n)]

LEMMA OneSendWindow ==
    ASSUME OneSegment, NEW w, OneSegWnd(w), MayGrow(w), NEW w2 \in SendWndType, Shape(w2),
           NEW len \in Nat, NEW full \in Nat, NEW rem \in Nat,
           SendEffect(w, w2, len, full, rem), SendEnd(w2) < SeqMod
    PROVE  OneSegWnd(w2) /\ Grown(w, w2) /\ Closed(w2) = TailSeq(w) + full
  <1> DEFINE t == TailSeq(w)
             e == SendEnd(w2)
  <1>1. w \in SendWndType /\ Shape(w) /\ OneSegVecs(w)
    BY DEF OneSegWnd
  <1>4. /\ t = Closed(w) /\ t \in Nat /\ w.seq <= t /\ w.seq \in Nat /\ SendEnd(w) <= t + 1
        /\ w.size \in Nat /\ SendCap \in Nat \ {0} /\ SendEnd(w) \in Nat
        /\ w.tiny_on => SendEnd(w) = t + 1
        /\ ~w.tiny_on => w.size = 0 /\ TailLen(w) = 0 /\ SendEnd(w) = t
    BY EndFacts, GrowsFromTail
  <1>5. w2.seq = w.seq /\ e = t + full + (IF rem > 0 THEN 1 ELSE 0) /\ w2.tiny_on = (rem > 0)
    BY DEF SendEffect
  <1> HIDE DEF t
  <1>6. /\ Closed(w2) = t + full /\ e = w.seq + w2.size /\ w2.size \in 0..SendCap
        /\ t <= t + full /\ t + full <= e /\ e \in Nat /\ e <= w.seq + SendCap
        /\ t + full <= w.seq + SendCap
    <2>1. w2.size \in 0..SendCap
      BY DEF SendWndType
    <2>2. e = w.seq + w2.size
      BY <1>5 DEF SendEnd
    <2>3. Closed(w2) = e - (IF rem > 0 THEN 1 ELSE 0)
      BY <1>5 DEF Closed
    <2> HIDE DEF e
    <2>4. CASE rem > 0
      BY <1>4, <1>5, <2>1, <2>2, <2>3, <2>4
    <2>5. CASE ~(rem > 0)
      BY <1>4, <1>5, <2>1, <2>2, <2>3, <2>5
    <2> QED
      BY <2>4, <2>5
  <1> HIDE DEF e
  <1>7. ASSUME NEW n \in w.seq..(w.seq + SendCap - 1)
        PROVE  /\ MsgNo(w2, n).cur_ack_vec = MsgNo(w, n).cur_ack_vec
               /\ MsgNo(w2, n).full_ack_vec = {0}
               /\ n < t => w2.rtx[SendSlot(n)] = w.rtx[SendSlot(n)]
               /\ n >= t => MsgNo(w, n).cur_ack_vec = {}
    <2>1. SendSlot(n) \in SendIdx /\ n \in Nat
      BY <1>4, SendSlotType
    <2>2. MsgNo(w, n) \in MsgType /\ MsgNo(w, n).full_ack_vec = {0}
      BY <1>1, <2>1 DEF SendWndType, OneSegVecs, MsgNo
    <2>3. \A k : /\ Lengthened(MsgNo(w, n), k).cur_ack_vec = MsgNo(w, n).cur_ack_vec
                 /\ Lengthened(MsgNo(w, n), k).full_ack_vec = MsgNo(w, n).full_ack_vec
      BY <2>2 DEF Lengthened, MsgType
    <2>4. /\ MsgNo(w2, n) = IF rem > 0 /\ n = t + full THEN Lengthened(MsgNo(w, n), rem)
                            ELSE IF n \in t..(t + full - 1) THEN Lengthened(MsgNo(w, n), MsgLen)
                            ELSE MsgNo(w, n)
          /\ n < t => w2.rtx[SendSlot(n)] = w.rtx[SendSlot(n)]
      <3>1. n < t => n # t + full /\ ~(n \in t..(t + full - 1))
        BY <1>4, <2>1
      <3> QED
        BY <3>1 DEF SendEffect, t
    <2>5. n >= t => MsgNo(w, n).cur_ack_vec = {}
      <3>1. CASE n = t /\ w.tiny_on
        <4>1. n = SendEnd(w) - 1
          BY <1>4, <3>1
        <4> QED
          BY <3>1, <4>1 DEF OneSegWnd, Growing, AckedMsg
      <3>2. CASE n >= t /\ ~(n = t /\ w.tiny_on)
        <4>1. n \in SendEnd(w)..(w.seq + SendCap - 1)
          BY <1>4, <2>1, <3>2
        <4> QED
          BY <4>1, InWindow, OneSegFacts
      <3> QED
        BY <3>1, <3>2
    <2> QED
      BY <2>2, <2>3, <2>4, <2>5
  <1>8. OneSegVecs(w2)
    <2> SUFFICES ASSUME NEW i \in SendIdx
                 PROVE  w2.msg[i].full_ack_vec = {0} /\ w2.msg[i].cur_ack_vec \in {{}, {0}}
      BY DEF OneSegVecs
    <2>1. \E n \in w.seq..(w.seq + SendCap - 1) : SendSlot(n) = i
      BY <1>4, RingCovers DEF SendIdx, SendSlot
    <2>2. PICK n \in w.seq..(w.seq + SendCap - 1) : SendSlot(n) = i
      BY <2>1
    <2>3. /\ MsgNo(w2, n).full_ack_vec = {0}
          /\ MsgNo(w2, n).cur_ack_vec = MsgNo(w, n).cur_ack_vec
      BY <1>7
    <2>4. w.msg[i].cur_ack_vec \in {{}, {0}}
      BY <1>1 DEF OneSegVecs
    <2> QED
      BY <2>2, <2>3, <2>4 DEF MsgNo
  <1>9. Growing(w2)
    <2> DEFINE n == e - 1
    <2> SUFFICES ASSUME rem > 0
                 PROVE  w2.size > 0 /\ w2.rtx[SendSlot(n)] = w2.tiny /\ ~AckedMsg(w2, n)
      BY <1>5 DEF Growing, e
    <2>0. e = t + full + 1
      BY <1>5
    <2>1. /\ n = t + full /\ n \in w.seq..(w.seq + SendCap - 1) /\ n >= t /\ w2.size > 0
          /\ w2.size \in Nat /\ n \in Nat
      <3>1. n = t + full /\ n >= t /\ n \in Nat
        BY <1>4, <2>0
      <3>2. w2.size \in Nat /\ w.seq + w2.size = n + 1
        BY <1>4, <1>6, <2>0, <3>1
      <3> QED
        BY <1>4, <1>6, <2>0, <3>1, <3>2
    <2> HIDE DEF n
    <2>2. ~AckedMsg(w2, n)
      BY <1>7, <2>1 DEF AckedMsg
    <2> DEFINE fresh == rem > 0 /\ w2.size > w.size
    <2>3. /\ w2.tiny = IF fresh THEN Tiny ELSE w.tiny
          /\ w2.rtx[SendSlot(n)] = IF fresh THEN Tiny ELSE w.rtx[SendSlot(n)]
      <3>1. ~(n \in t..(t + full - 1))
        BY <1>4, <2>1
      <3> QED
        BY <2>1, <3>1 DEF SendEffect, t
    <2>4. ~fresh => w.tiny_on /\ n = SendEnd(w) - 1
      <3> SUFFICES ASSUME ~fresh PROVE w.tiny_on /\ n = SendEnd(w) - 1
        OBVIOUS
      <3>1. w2.size <= w.size
        BY <1>4, <2>1
      <3>2. w.tiny_on
        BY <1>4, <2>1, <3>1
      <3>3. SendEnd(w) = w.seq + w.size
        BY DEF SendEnd
      <3> QED
        BY <1>4, <1>6, <2>0, <2>1, <3>1, <3>2, <3>3
    <2>5. ~fresh => w.rtx[SendSlot(n)] = w.tiny
      BY <2>4 DEF OneSegWnd, Growing
    <2> HIDE DEF fresh
    <2> QED
      BY <2>1, <2>2, <2>3, <2>5
  <1>10. OneSegWnd(w2)
    BY <1>8, <1>9 DEF OneSegWnd
  <1>11. AckedNos(w2) = AckedNos(w)
    <2>1. ASSUME NEW n \in 0..(t + full - 1)
          PROVE  (n < w.seq \/ AckedMsg(w2, n)) <=> (n \in 0..(t - 1) /\ (n < w.seq \/ AckedMsg(w, n)))
      <3>1. CASE n < w.seq
        BY <1>4, <3>1
      <3>2. CASE w.seq <= n
        <4>1. n \in w.seq..(w.seq + SendCap - 1)
          <5>1. n \in Nat /\ n <= t + full - 1
            BY <1>4
          <5> QED
            BY <1>4, <1>6, <3>2, <5>1
        <4>2. (AckedMsg(w2, n) <=> AckedMsg(w, n)) /\ (n >= t => ~AckedMsg(w, n))
          BY <1>7, <4>1 DEF AckedMsg
        <4>3. ~(n < w.seq) /\ (n \in 0..(t - 1) <=> ~(n >= t))
          BY <1>4, <3>2, <4>1
        <4> QED
          BY <4>2, <4>3
      <3> QED
        BY <1>4, <3>1, <3>2
    <2>2. 0..(t - 1) \subseteq 0..(t + full - 1)
      BY <1>4
    <2>3. w2.seq = w.seq /\ Closed(w2) = t + full /\ Closed(w) = t
      BY <1>4, <1>5, <1>6
    <2>4. /\ \A n : n \in AckedNos(w2) <=> n \in 0..(Closed(w2) - 1) /\ (n < w2.seq \/ AckedMsg(w2, n))
          /\ \A n : n \in AckedNos(w) <=> n \in 0..(Closed(w) - 1) /\ (n < w.seq \/ AckedMsg(w, n))
      BY DEF AckedNos
    <2>5. \A n : n \in AckedNos(w2) <=> n \in AckedNos(w)
      <3> DEFINE hi == t + full - 1
                 lo == t - 1
      <3>1. /\ \A n : n \in AckedNos(w2) <=> n \in 0..hi /\ (n < w.seq \/ AckedMsg(w2, n))
            /\ \A n : n \in AckedNos(w) <=> n \in 0..lo /\ (n < w.seq \/ AckedMsg(w, n))
        <4>1. Closed(w2) - 1 = hi /\ Closed(w) - 1 = lo /\ w2.seq = w.seq
          BY <1>4, <2>3
        <4> HIDE DEF hi, lo
        <4> QED
          BY ZenonT(40), <2>4, <4>1
      <3>2. /\ 0..lo \subseteq 0..hi
            /\ \A n \in 0..hi : (n < w.seq \/ AckedMsg(w2, n))
                                   <=> (n \in 0..lo /\ (n < w.seq \/ AckedMsg(w, n)))
        BY <2>1, <2>2
      <3> HIDE DEF hi, lo
      <3> QED
        BY ZenonT(40), <3>1, <3>2
    <2> QED
      BY <2>5
  <1>12. Grown(w, w2)
    <2>1. \A n \in w.seq..(Closed(w) - 1) : w2.rtx[SendSlot(n)] = w.rtx[SendSlot(n)]
      <3> SUFFICES ASSUME NEW n \in w.seq..(Closed(w) - 1)
                   PROVE  w2.rtx[SendSlot(n)] = w.rtx[SendSlot(n)]
        OBVIOUS
      <3>1. n \in w.seq..(w.seq + SendCap - 1) /\ n < t
        <4>1. n \in w.seq..(t - 1)
          BY <1>4
        <4> QED
          BY <1>4, <1>6, <4>1
      <3> QED
        BY <1>7, <3>1
    <2> QED
      BY <1>4, <1>5, <1>6, <1>11, <2>1 DEF Grown
  <1> QED
    BY <1>6, <1>10, <1>12 DEF t

LEMMA GrownStarts ==
    ASSUME OneSegment, NEW w, OneSegWnd(w), MayGrow(w), NEW w2 \in SendWndType, Shape(w2),
           NEW len \in Nat, NEW full \in Nat, NEW rem \in Nat,
           SendEffect(w, w2, len, full, rem), NEW st, NEW s, Starts(st, w, s)
    PROVE  \E st2 : Starts(st2, w2, s + len) /\ \A n \in 0..Closed(w) : st2[n] = st[n]
  <1> DEFINE t    == TailSeq(w)
             last == TailLen(w)
             e    == SendEnd(w2)
             one  == IF rem > 0 THEN 1 ELSE 0
             st2  == [n \in Nat |-> IF n <= t THEN st[n]
                                    ELSE IF n < e THEN st[t] + (n - t) * MsgLen
                                    ELSE s + len]
  <1>1. /\ t = Closed(w) /\ t \in Nat /\ w.seq <= t /\ w.seq \in Nat /\ SendEnd(w) <= t + 1
        /\ SendEnd(w) \in Nat /\ t <= SendEnd(w) /\ MsgLen \in Nat \ {0}
    BY EndFacts, GrowsFromTail, MsgLenType
  <1>2. st \in [Nat -> Nat] /\ st[t] \in Nat /\ st[0] = 0 /\ s \in Nat
    BY <1>1, StartsInWindow DEF Starts
  <1>3. last \in Nat /\ s = st[t] + last
    <2>1. CASE TailLen(w) = 0 /\ w.size = 0 /\ SendEnd(w) = w.seq
      <3>1. t = SendEnd(w)
        BY <1>1, <2>1
      <3> QED
        BY <1>2, <2>1, <3>1 DEF Starts
    <2>2. CASE SendEnd(w) = t + 1 /\ TailLen(w) = MsgNo(w, t).len
      <3>1. t \in w.seq..(SendEnd(w) - 1)
        BY <1>1, <2>2
      <3>2. last = st[t + 1] - st[t] /\ s = st[t + 1]
        BY <2>2, <3>1 DEF Starts, LenOf
      <3>3. last \in Nat
        BY GrowsFromTail
      <3> HIDE DEF last
      <3> QED
        BY <1>1, <1>2, <3>2, <3>3
    <2> QED
      BY <2>1, <2>2, GrowsFromTail
  <1>4. last + len = full * MsgLen + rem /\ rem < MsgLen /\ e = t + full + one /\ w2.seq = w.seq
    BY DEF SendEffect
  <1>5. full * MsgLen \in Nat /\ one \in {0, 1}
    BY <1>1
  <1> HIDE DEF t, last, e
  <1>6. s + len = st[t] + full * MsgLen + rem /\ s + len \in Nat
    <2> DEFINE fm == full * MsgLen
               a  == st[t]
    <2>1. a \in Nat /\ fm \in Nat /\ last \in Nat /\ s = a + last /\ last + len = fm + rem
      BY <1>2, <1>3, <1>4, <1>5
    <2> HIDE DEF fm, a
    <2>2. s + len = a + fm + rem /\ s + len \in Nat
      BY ONLY <2>1, len \in Nat, rem \in Nat
    <2> QED
      BY <2>2 DEF fm, a
  <1>7. e \in Nat /\ t <= e
    BY <1>1, <1>4, <1>5
  <1>8. st2 \in [Nat -> Nat]
    <2> SUFFICES ASSUME NEW n \in Nat, ~(n <= t), n < e PROVE st[t] + (n - t) * MsgLen \in Nat
      BY <1>2, <1>6
    <2>1. n - t \in Nat
      BY <1>1
    <2>2. (n - t) * MsgLen \in Nat
      BY <1>1, <2>1
    <2> QED
      BY <1>2, <2>2
  <1>9. /\ \A n \in 0..t : st2[n] = st[n]
        /\ \A i \in 0..full : st2[t + i] = st[t] + i * MsgLen
        /\ st2[e] = s + len
    <2>1. \A n \in 0..t : st2[n] = st[n]
      BY <1>1
    <2>2. ASSUME NEW i \in 0..full PROVE st2[t + i] = st[t] + i * MsgLen
      <3>1. i \in Nat /\ t + i \in Nat /\ (t + i) - t = i
        BY <1>1
      <3>2. CASE i = 0
        BY <1>1, <1>2, <2>1, <3>2
      <3>3. CASE i > 0 /\ t + i < e
        <4>1. ~(t + i <= t)
          BY <1>1, <3>1, <3>3
        <4> QED
          BY <3>1, <3>3, <4>1
      <3>4. CASE i > 0 /\ ~(t + i < e)
        <4>1. i = full /\ rem = 0 /\ ~(t + i <= t)
          BY <1>1, <1>4, <1>5, <3>1, <3>4
        <4>2. st2[t + i] = s + len
          BY <3>1, <3>4, <4>1
        <4> QED
          BY <1>2, <1>5, <1>6, <4>1, <4>2
      <3> QED
        BY <3>1, <3>2, <3>3, <3>4
    <2>3. st2[e] = s + len
      <3>1. CASE e = t
        <4>1. full = 0 /\ rem = 0
          BY <1>1, <1>4, <1>5, <3>1
        <4>2. st2[e] = st[t] /\ full * MsgLen = 0
          BY <1>1, <2>1, <3>1, <4>1
        <4> QED
          BY <1>2, <1>6, <4>1, <4>2
      <3>2. CASE e # t
        BY <1>1, <1>7, <3>2
      <3> QED
        BY <3>1, <3>2
    <2> QED
      BY <2>1, <2>2, <2>3
  <1> HIDE DEF st2
  <1>10. ASSUME NEW n \in t..(e - 1)
         PROVE  LenOf(st2, n) = (IF n < t + full THEN MsgLen ELSE rem)
                /\ (n < t + full \/ (rem > 0 /\ n = t + full))
    <2>1. n \in Nat /\ t <= n
      BY <1>1
    <2>2. CASE n < t + full
      <3> DEFINE i == n - t
      <3>1. i \in 0..full /\ i + 1 \in 0..full /\ t + i = n /\ t + (i + 1) = n + 1 /\ i \in Nat
        BY <1>1, <2>1, <2>2
      <3> HIDE DEF i
      <3>2. st2[n] = st[t] + i * MsgLen /\ st2[n + 1] = st[t] + (i + 1) * MsgLen
        BY <1>9, <3>1
      <3>3. (i + 1) * MsgLen = i * MsgLen + MsgLen /\ i * MsgLen \in Nat
        BY <1>1, <3>1
      <3> QED
        BY <1>1, <1>2, <2>2, <3>2, <3>3 DEF LenOf
    <2>3. CASE ~(n < t + full)
      <3>1. n = t + full /\ rem > 0 /\ n + 1 = e
        BY <1>1, <1>4, <1>5, <2>1, <2>3
      <3>2. st2[n] = st[t] + full * MsgLen /\ st2[n + 1] = s + len
        BY <1>9, <3>1
      <3> QED
        BY <1>2, <1>5, <1>6, <2>3, <3>1, <3>2 DEF LenOf
    <2> QED
      BY <2>2, <2>3
  <1>11. ASSUME NEW n \in 0..(t - 1) PROVE LenOf(st2, n) = LenOf(st, n) /\ n \in 0..(SendEnd(w) - 1)
    <2>1. n \in 0..t /\ n + 1 \in 0..t /\ n \in 0..(SendEnd(w) - 1)
      BY <1>1
    <2> QED
      BY <1>9, <2>1 DEF LenOf
  <1>12. \A n \in 0..(e - 1) : LenOf(st2, n) \in 1..MsgLen
    <2> SUFFICES ASSUME NEW n \in 0..(e - 1) PROVE LenOf(st2, n) \in 1..MsgLen
      OBVIOUS
    <2>1. CASE n < t
      <3>1. n \in 0..(t - 1)
        BY <1>1, <2>1
      <3> QED
        BY <1>11, <3>1 DEF Starts
    <2>2. CASE ~(n < t)
      <3>1. n \in t..(e - 1)
        BY <1>1, <1>7, <2>2
      <3> QED
        BY <1>1, <1>4, <1>10, <3>1
    <2> QED
      BY <2>1, <2>2
  <1>13. \A n \in w2.seq..(e - 1) : MsgNo(w2, n).len = LenOf(st2, n)
    <2> SUFFICES ASSUME NEW n \in w.seq..(e - 1) PROVE MsgNo(w2, n).len = LenOf(st2, n)
      BY <1>4
    <2>1. e = w.seq + w2.size /\ w2.size \in 0..SendCap /\ SendCap \in Nat
      BY <1>4, SendCapAssumption DEF SendEnd, SendWndType, e
    <2>2. n \in w.seq..(w.seq + SendCap - 1) /\ n \in Nat
      BY <1>1, <1>7, <2>1
    <2>3. MsgNo(w, n) \in MsgType
      <3>1. SendSlot(n) \in SendIdx
        BY <2>2, SendSlotType
      <3> QED
        BY <3>1 DEF OneSegWnd, SendWndType, MsgNo
    <2>4. \A k : Lengthened(MsgNo(w, n), k).len = k
      BY <2>3 DEF Lengthened, MsgType
    <2>5. MsgNo(w2, n) = IF rem > 0 /\ n = t + full THEN Lengthened(MsgNo(w, n), rem)
                         ELSE IF n \in t..(t + full - 1) THEN Lengthened(MsgNo(w, n), MsgLen)
                         ELSE MsgNo(w, n)
      BY <2>2 DEF SendEffect, t
    <2>6. CASE n < t
      <3>1. n \in 0..(t - 1) /\ n \in w.seq..(SendEnd(w) - 1) /\ n # t + full
            /\ ~(n \in t..(t + full - 1))
        BY <1>1, <2>2, <2>6
      <3>2. MsgNo(w2, n) = MsgNo(w, n)
        BY <2>5, <3>1
      <3> QED
        BY <1>11, <3>1, <3>2 DEF Starts
    <2>7. CASE ~(n < t)
      <3>1. n \in t..(e - 1)
        BY <1>1, <1>7, <2>2, <2>7
      <3>2. LenOf(st2, n) = (IF n < t + full THEN MsgLen ELSE rem)
            /\ (n < t + full \/ (rem > 0 /\ n = t + full))
        BY <1>10, <3>1
      <3>3. n < t + full => n # t + full /\ n \in t..(t + full - 1)
        BY <1>1, <2>2, <3>1
      <3>4. CASE n < t + full
        BY <2>4, <2>5, <3>2, <3>3, <3>4
      <3>5. CASE ~(n < t + full)
        BY <2>4, <2>5, <3>2, <3>5
      <3> QED
        BY <3>4, <3>5
    <2> QED
      BY <2>6, <2>7
  <1>14. st2[0] = 0
    BY <1>1, <1>2, <1>9
  <1>15. Starts(st2, w2, s + len)
    BY <1>8, <1>9, <1>12, <1>13, <1>14 DEF Starts, e
  <1>16. \A n \in 0..Closed(w) : st2[n] = st[n]
    BY <1>1, <1>9
  <1> QED
    BY <1>15, <1>16

LEMMA OneSend ==
    ASSUME OneSegment, NEW w, OneSegWnd(w), MayGrow(w), NEW data \in Seq(Nat),
           NEW st, NEW s, Starts(st, w, s), Content(w, s), Follows(data, s),
           s + Accepted(w, Len(data)) < SeqMod
    PROVE  LET w2 == SendWndSend(w, data)
               s2 == s + Accepted(w, Len(data))
           IN /\ OneSegWnd(w2) /\ Grown(w, w2) /\ Content(w2, s2)
              /\ \E st2 : Starts(st2, w2, s2) /\ \A n \in 0..Closed(w) : st2[n] = st[n]
  <1> DEFINE w2  == SendWndSend(w, data)
             len == Accepted(w, Len(data))
             s2  == s + len
  <1>1. w \in SendWndType /\ Shape(w) /\ s \in Nat
    BY StartsInWindow DEF OneSegWnd
  <1>2. Len(data) \in Nat
    OBVIOUS
  <1>3. len \in 0..Len(data)
    BY <1>1, <1>2, AcceptedType
  <1>4. CASE Len(data) = 0
    <2>1. w2 = w /\ len = 0
      BY <1>3, <1>4 DEF SendWndSend
    <2> HIDE DEF w2, len
    <2>2. s2 = s
      BY <1>1, <2>1
    <2> HIDE DEF s2
    <2>3. Grown(w, w)
      BY EndFacts DEF Grown
    <2> QED
      BY <2>1, <2>2, <2>3 DEF w2, len, s2
  <1>5. CASE Len(data) # 0
    <2>1. w2 \in SendWndType /\ Shape(w2)
      BY <1>1, SendType, SendShape
    <2>2. PICK full \in Nat, rem \in Nat : SendEffect(w, w2, len, full, rem)
      BY <1>1, <1>5, SendMessages
    <2>3. Content(w2, s2)
      BY <1>1, <1>5, SendContent
    <2>4. s2 < SeqMod /\ len \in Nat
      BY <1>2, <1>3
    <2> HIDE DEF w2, len
    <2>5. PICK st2 : Starts(st2, w2, s2) /\ \A n \in 0..Closed(w) : st2[n] = st[n]
      BY <2>1, <2>2, <2>4, GrownStarts
    <2>6. SendEnd(w2) \in Nat
      BY <2>1, SeqModAssumption, SendCapAssumption DEF SendEnd, SendWndType
    <2>7. SendEnd(w2) < SeqMod
      <3>1. SendEnd(w2) \in 0..SendEnd(w2) /\ 0 \in 0..SendEnd(w2)
        BY <2>6
      <3>2. st2[0] + (SendEnd(w2) - 0) <= st2[SendEnd(w2)]
        BY <2>5, <2>6, <3>1, StartsGrow
      <3>3. st2[0] = 0 /\ st2[SendEnd(w2)] = s2
        BY <2>5 DEF Starts
      <3>4. s2 \in Nat /\ SeqMod \in Nat
        BY <1>1, <2>4, SeqModAssumption
      <3> HIDE DEF s2
      <3> QED
        BY <2>4, <2>6, <3>2, <3>3, <3>4
    <2>8. OneSegWnd(w2) /\ Grown(w, w2)
      BY <2>1, <2>2, <2>4, <2>7, OneSendWindow
    <2> QED
      BY <2>3, <2>5, <2>8 DEF w2, len
  <1> QED
    BY <1>4, <1>5

(* What may be sent next after arq_send is new, or could be sent before. *)
LEMMA GrownSends ==
    ASSUME NEW w, OneSegWnd(w), NEW w2, OneSegWnd(w2), Grown(w, w2), NEW p
    PROVE  /\ OpenNos(w) \subseteq OpenNos(w2)
           /\ PtrOK(w, p) => PtrOK(w2, p)
           /\ Resendable(w2, p) \subseteq NextToSend(w, p, w2, 0)
  <1>1. /\ Closed(w) <= Closed(w2) /\ Closed(w) \in Nat /\ Closed(w2) \in Nat
        /\ w.seq \in Nat /\ w2.seq = w.seq /\ AckedNos(w2) = AckedNos(w)
    BY EndFacts DEF Grown
  <1>2. OpenNos(w) \subseteq OpenNos(w2)
    BY <1>1 DEF OpenNos
  <1>3. ASSUME NEW n \in Resendable(w2, p), n < Closed(w) PROVE n \in Resendable(w, p)
    <2>1. n \in OpenNos(w2) /\ w2.rtx[SendSlot(n)] = 0 /\ ~PointsAt(p, n)
      BY DEF Resendable
    <2>2. n \in OpenNos(w)
      BY <1>1, <1>3, <2>1 DEF OpenNos
    <2>3. n \in w.seq..(Closed(w) - 1)
      BY <2>2, OpenFacts
    <2>4. w.rtx[SendSlot(n)] = 0
      BY <2>1, <2>3 DEF Grown
    <2> QED
      BY <2>1, <2>2, <2>4 DEF Resendable
  <1> QED
    BY <1>2, <1>3 DEF PtrOK, NextToSend, Resendable

----------------------------------------------------------------------------
(* arq_flush tells a window of one-segment messages nothing new. *)
LEMMA OneFlush ==
    ASSUME OneSegment, NEW w, OneSegWnd(w),
           LET m == w.msg[TailSeq(w) % SendCap] IN m.full_ack_vec # AckVec(SegCount(m.len))
    PROVE  SendWndFlush(w) = w
  <1>1. w \in SendWndType /\ Shape(w) /\ OneSegVecs(w)
    BY DEF OneSegWnd
  <1>2. CASE w.size = 0
    BY <1>2 DEF SendWndFlush
  <1>3. CASE w.size # 0
    <2> DEFINE n == w.seq + (w.size - 1)
    <2>1. w.seq \in Nat /\ w.size \in Nat /\ SendEnd(w) = w.seq + w.size
      BY EndFacts
    <2>2. n \in w.seq..(SendEnd(w) - 1) /\ SubSat(w.size, 1) = w.size - 1
      BY <1>3, <2>1 DEF SubSat
    <2>3. w.msg[TailSeq(w) % SendCap] = MsgNo(w, n)
      BY <2>2 DEF TailSeq, MsgNo, SendSlot
    <2> HIDE DEF n
    <2>4. SegCount(MsgNo(w, n).len) = 1 /\ SendSlot(n) \in SendIdx
      BY <2>2, SendSegCount, InWindow
    <2>5. MsgNo(w, n).full_ack_vec = {0}
      BY <1>1, <2>4 DEF MsgNo, OneSegVecs
    <2>6. AckVec(SegCount(MsgNo(w, n).len)) = {0}
      BY <2>4, OneSegFacts
    <2> QED
      BY <2>3, <2>5, <2>6
  <1> QED
    BY <1>2, <1>3

LEMMA OneReset ==
    ASSUME OneSegment, NEW buf \in [SendBufIdx -> Nat]
    PROVE  LET w == SendWndRst(buf)
           IN /\ OneSegWnd(w) /\ Content(w, 0) /\ Starts([n \in Nat |-> 0], w, 0)
              /\ Closed(w) = 0 /\ AckedNos(w) = {} /\ PtrOK(w, SendWndPtrRst)
  <1> DEFINE w == SendWndRst(buf)
  <1>1. /\ w.seq = 0 /\ w.size = 0 /\ w.tiny_on = FALSE /\ w.msg = [i \in SendIdx |-> EmptyMsg]
    BY DEF SendWndRst
  <1>2. w \in SendWndType /\ Shape(w) /\ Content(w, 0)
    BY RstType, RstShape, RstContent
  <1> HIDE DEF w
  <1>3. SendEnd(w) = 0 /\ Closed(w) = 0
    <2>1. SendEnd(w) = 0
      BY <1>1 DEF SendEnd
    <2>2. Closed(w) = SendEnd(w) - 0
      BY <1>1 DEF Closed
    <2> QED
      BY <2>1, <2>2
  <1>4. AckedNos(w) = {}
    BY <1>3 DEF AckedNos
  <1>5. OneSegVecs(w) /\ Growing(w)
    BY <1>1, OneSegFacts DEF OneSegVecs, Growing
  <1>6. OneSegWnd(w)
    BY <1>2, <1>3, <1>5, SeqModAssumption DEF OneSegWnd
  <1>7. Starts([n \in Nat |-> 0], w, 0)
    BY <1>1, <1>3 DEF Starts
  <1>8. PtrOK(w, SendWndPtrRst)
    BY DEF PtrOK, SendWndPtrRst
  <1> QED
    BY <1>2, <1>3, <1>4, <1>6, <1>7, <1>8 DEF w
=============================================================================

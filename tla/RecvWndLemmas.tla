--------------------------- MODULE RecvWndLemmas ---------------------------
(***************************************************************************)
(* What the functions of the receive window return, for every window,      *)
(* message and segment size and every header that a peer may write; at the *)
(* end, which of its peer's messages the window holds when a message is    *)
(* one segment.                                                            *)
(***************************************************************************)
EXTENDS RecvWnd, NumberLemmas, FiniteSetTheorems

----------------------------------------------------------------------------
(* The sums that the loops of arq__recv_wnd_recv compute *)

LEMMA BytesBeforeFacts ==
    ASSUME NEW w, \A k \in Nat : w.msg[CopySlot(w, k)].len \in Nat
    PROVE  /\ BytesBefore(w, 0) = 0
           /\ \A k \in Nat : /\ BytesBefore(w, k) \in Nat
                             /\ BytesBefore(w, k + 1)
                                  = BytesBefore(w, k) + w.msg[CopySlot(w, k)].len
  <1> DEFINE L(k) == w.msg[CopySlot(w, k)].len
             step == [x \in Nat \X Nat |-> x[2] + L(x[1])]
             B == CHOOSE b : b = [k \in Nat |-> IF k = 0 THEN 0 ELSE b[k - 1] + L(k - 1)]
  <1>1. step \in [Nat \X Nat -> Nat]
    BY DEF CopySlot
  <1>2. PICK f : Iterates(f, Nat, 0, step)
    <2> DEFINE S == Nat
               c == 0
    <2>1. c \in S /\ step \in [Nat \X S -> S]
      BY <1>1
    <2> HIDE DEF step, S, c
    <2>2. \E f : Iterates(f, S, c, step)
      BY <2>1, Recursion
    <2> QED
      BY <2>2 DEF S, c
  <1>3. f \in [Nat -> Nat] /\ f[0] = 0 /\ \A n \in Nat : f[n + 1] = f[n] + L(n)
    <2> HIDE DEF L
    <2> QED
      BY <1>2 DEF Iterates
  <1> HIDE DEF L
  <1>4. f = [k \in Nat |-> IF k = 0 THEN 0 ELSE f[k - 1] + L(k - 1)]
    <2>1. ASSUME NEW k \in Nat PROVE f[k] = IF k = 0 THEN 0 ELSE f[k - 1] + L(k - 1)
      <3>1. CASE k = 0
        BY <1>3, <3>1
      <3>2. CASE k # 0
        <4>1. k - 1 \in Nat /\ (k - 1) + 1 = k
          BY <3>2
        <4> QED
          BY <1>3, <3>2, <4>1
      <3> QED
        BY <3>1, <3>2
    <2> QED
      BY <1>3, <2>1
  <1>5. B = [k \in Nat |-> IF k = 0 THEN 0 ELSE B[k - 1] + L(k - 1)]
    BY <1>4
  <1>6. \A k \in Nat : BytesBefore(w, k) = B[k]
    BY DEF BytesBefore, L
  <1> HIDE DEF B
  <1>7. B[0] = 0 /\ \A k \in Nat : B[k + 1] = B[k] + L(k)
    <2>1. \A k \in Nat : k + 1 # 0 /\ (k + 1) - 1 = k
      OBVIOUS
    <2> QED
      BY <1>5, <2>1
  <1>8. \A k \in Nat : L(k) \in Nat
    BY DEF L
  <1> DEFINE T == {k \in Nat : B[k] \in Nat}
  <1>9. T = Nat
    <2>1. 0 \in T
      BY <1>7
    <2>2. \A k \in T : k + 1 \in T
      BY <1>7, <1>8
    <2> HIDE DEF T
    <2>3. T \subseteq Nat
      BY DEF T
    <2> QED
      BY <2>1, <2>2, <2>3, InductionOnSet
  <1> HIDE DEF T
  <1>10. \A k \in Nat : k + 1 \in Nat
    OBVIOUS
  <1>11. BytesBefore(w, 0) = 0
    BY <1>6, <1>7
  <1>12. ASSUME NEW k \in Nat
         PROVE  BytesBefore(w, k) \in Nat /\ BytesBefore(w, k + 1) = BytesBefore(w, k) + L(k)
    <2> HIDE DEF L
    <2>1. B[k] \in Nat
      <3>1. k \in T
        BY <1>9
      <3> QED
        BY <3>1 DEF T
    <2>3. B[k + 1] = B[k] + L(k)
      BY <1>7
    <2>2. BytesBefore(w, k) = B[k] /\ BytesBefore(w, k + 1) = B[k + 1]
      BY <1>6, <1>10
    <2> QED
      BY <2>1, <2>2, <2>3
  <1> QED
    BY <1>11, <1>12 DEF L

----------------------------------------------------------------------------
(* The types of a frame buffer and of a window that gets its bytes from frames *)

LEMMA FrameBufIs == FrameBufType = {<<>>} \cup {<<f>> : f \in FrameType}
  <1>1. ASSUME NEW b \in FrameBufType PROVE b \in {<<>>} \cup {<<f>> : f \in FrameType}
    <2>1. b \in Seq(FrameType) /\ Len(b) \in Nat /\ Len(b) <= 1
      BY DEF FrameBufType
    <2>2. CASE Len(b) = 0
      BY <2>1, <2>2
    <2>3. CASE Len(b) = 1
      <3>1. b[1] \in FrameType /\ b = <<b[1]>>
        BY <2>1, <2>3
      <3> QED
        BY <3>1
    <2> QED
      BY <2>1, <2>2, <2>3
  <1>2. <<>> \in FrameBufType /\ \A f \in FrameType : <<f>> \in FrameBufType
    BY DEF FrameBufType
  <1> QED
    BY <1>1, <1>2

RecvWndOK(w) == w \in RecvWndType /\ \A i \in RecvIdx : MsgFits(w.msg[i])

LEMMA RecvSizes ==
    /\ SeqMod \in Nat \ {0} /\ RecvCap \in Nat \ {0}
    /\ MsgSegs \in Nat \ {0} /\ SegLen \in Nat \ {0} /\ MsgLen \in Nat
    /\ MsgSegs <= VecBits /\ VecBits \in Nat
    /\ InterSeg \in Nat /\ TimeInfinity \in Nat
  BY MsgSegsAssumption, SegLenAssumption, SeqModAssumption, RecvCapAssumption,
     VecBitsAssumption, InterSegAssumption, TimeAssumption DEF MsgLen

LEMMA RecvSlotType ==
    ASSUME NEW n \in Nat
    PROVE  n % RecvCap \in RecvIdx
  BY DivModFacts, RecvSizes DEF RecvIdx

LEMMA EmptyFits == EmptyMsg \in MsgType /\ MsgFits(EmptyMsg)
  <1>1. MsgSegs \in 0..MsgSegs /\ 0 \in 0..MsgLen
    BY RecvSizes
  <1>2. EmptyMsg \in MsgType
    BY <1>1 DEF EmptyMsg, MsgType, FullAckVec, Vecs
  <1>3. EmptyMsg.len = 0 /\ EmptyMsg.cur_ack_vec = {}
    BY DEF EmptyMsg
  <1>4. SegLen * Cardinality({}) = 0
    <2>1. Cardinality({}) = 0
      BY FS_EmptySet
    <2> QED
      BY <2>1, RecvSizes
  <1> QED
    BY <1>2, <1>3, <1>4 DEF MsgFits

LEMMA FullVecFinite ==
    ASSUME NEW v, v \subseteq FullAckVec
    PROVE  IsFiniteSet(v) /\ Cardinality(v) \in 0..MsgSegs /\ v \in Vecs
  <1>1. IsFiniteSet(0..(MsgSegs - 1)) /\ Cardinality(0..(MsgSegs - 1)) = MsgSegs
    <2>1. 0 \in Int /\ MsgSegs - 1 \in Int /\ ~(0 > MsgSegs - 1) /\ (MsgSegs - 1) - 0 + 1 = MsgSegs
      BY RecvSizes
    <2> QED
      BY <2>1, FS_Interval
  <1>2. v \in SUBSET (0..(MsgSegs - 1))
    BY DEF FullAckVec, AckVec
  <1>3. IsFiniteSet(v) /\ Cardinality(v) <= MsgSegs
    BY <1>1, <1>2, FS_Subset
  <1>4. Cardinality(v) \in Nat
    BY <1>3, FS_CardinalityType
  <1>5. 0..(MsgSegs - 1) \subseteq 0..(VecBits - 1)
    BY RecvSizes
  <1> QED
    BY <1>2, <1>3, <1>4, <1>5, RecvSizes DEF Vecs

LEMMA RecvWndRstOK ==
    ASSUME NEW buf \in [RecvBufIdx -> Nat]
    PROVE  RecvWndOK(RecvWndRst(buf)) /\ RecvWndRst(buf).ack = [i \in RecvIdx |-> FALSE]
                                      /\ RecvWndRst(buf).size = 0
  <1>1. 0 \in 0..(SeqMod - 1) /\ 0 \in 0..RecvCap /\ TimeInfinity \in Nat
    BY RecvSizes
  <1>2. [i \in RecvIdx |-> EmptyMsg] \in [RecvIdx -> MsgType]
    BY EmptyFits
  <1>3. RecvWndRst(buf) \in RecvWndType
    BY <1>1, <1>2 DEF RecvWndRst, RecvWndType
  <1>4. RecvWndRst(buf).msg = [i \in RecvIdx |-> EmptyMsg]
    BY DEF RecvWndRst
  <1>5. RecvWndRst(buf).ack = [i \in RecvIdx |-> FALSE] /\ RecvWndRst(buf).size = 0
    BY DEF RecvWndRst
  <1> QED
    BY <1>3, <1>4, <1>5, EmptyFits DEF RecvWndOK

----------------------------------------------------------------------------
(* arq__recv_wnd_frame *)

LEMMA SlideOK ==
    ASSUME NEW w, RecvWndOK(w), NEW seq \in 0..(SeqMod - 1), InReach(w, seq)
    PROVE  RecvWndOK(Slide(w, seq)) /\ Slide(w, seq).msg = w.msg
  <1> DEFINE n == NewSize(w, seq)
  <1>1. w \in RecvWndType /\ w.seq \in Nat /\ w.slide \in Nat /\ w.size \in 0..RecvCap
    BY RecvSizes DEF RecvWndOK, RecvWndType
  <1>2. n \in Nat
    <2>1. seq - w.seq + 1 \in Int
      BY <1>1
    <2> QED
      BY <2>1, ModType, RecvSizes DEF NewSize
  <1>3. (w.seq + w.slide) % SeqMod \in 0..(SeqMod - 1)
    <2>1. w.seq + w.slide \in Int
      BY <1>1
    <2> QED
      BY <2>1, ModType, RecvSizes
  <1>4. CASE n > RecvCap
    <2>1. n - w.slide \in 0..RecvCap
      BY <1>2, <1>4, RecvSizes DEF InReach
    <2>2. Slide(w, seq) = [w EXCEPT !.size = n - w.slide,
                                    !.seq = (w.seq + w.slide) % SeqMod, !.slide = 0]
      BY <1>4, <1>1 DEF Slide, RecvWndType
    <2> DEFINE size2 == n - w.slide
               seq2  == (w.seq + w.slide) % SeqMod
    <2> HIDE DEF n, size2, seq2
    <2>3. Slide(w, seq) \in RecvWndType /\ Slide(w, seq).msg = w.msg
      <3>1. size2 \in 0..RecvCap /\ seq2 \in 0..(SeqMod - 1)
        BY <1>3, <2>1 DEF size2, seq2
      <3>2. Slide(w, seq) = [w EXCEPT !.size = size2, !.seq = seq2, !.slide = 0]
        BY <2>2 DEF size2, seq2
      <3>3. Slide(w, seq) \in RecvWndType
        <4> DEFINE w1 == [w EXCEPT !.size = size2, !.seq = seq2]
        <4>1. w1 \in RecvWndType
          BY ONLY <1>1, <3>1 DEF RecvWndType
        <4>2. Slide(w, seq) = [w1 EXCEPT !.slide = 0]
          BY ONLY <1>1, <3>2 DEF RecvWndType
        <4> HIDE DEF w1
        <4> QED
          BY ONLY <4>1, <4>2 DEF RecvWndType
      <3>4. Slide(w, seq).msg = w.msg
        BY ONLY <1>1, <3>2 DEF RecvWndType
      <3> QED
        BY <3>3, <3>4
    <2> QED
      BY <2>3 DEF RecvWndOK
  <1>5. CASE ~(n > RecvCap)
    <2>1. Max2(w.size, n) \in 0..RecvCap
      BY <1>1, <1>2, <1>5, RecvSizes DEF Max2
    <2>2. Slide(w, seq) = [w EXCEPT !.size = Max2(w.size, n)]
      BY <1>5, <1>1 DEF Slide, RecvWndType
    <2> HIDE DEF n
    <2>3. Slide(w, seq) \in RecvWndType /\ Slide(w, seq).msg = w.msg
      BY <1>1, <2>1, <2>2 DEF RecvWndType
    <2> QED
      BY <2>3 DEF RecvWndOK
  <1> QED
    BY <1>4, <1>5

(* Another segment fits. *)
LEMMA OneMoreFits ==
    ASSUME NEW m \in MsgType, MsgFits(m), NEW k \in 0..(MsgSegs - 1), k \notin m.cur_ack_vec,
           NEW cnt \in 0..MsgSegs, NEW l \in 0..SegLen
    PROVE  LET m2 == [len |-> m.len + l, cur_ack_vec |-> m.cur_ack_vec \cup {k},
                      full_ack_vec |-> AckVec(cnt)]
           IN m2 \in MsgType /\ MsgFits(m2)
  <1> DEFINE v == m.cur_ack_vec
             u == v \cup {k}
             c == Cardinality(v)
             m2 == [len |-> m.len + l, cur_ack_vec |-> u, full_ack_vec |-> AckVec(cnt)]
  <1>1. v \subseteq FullAckVec /\ u \subseteq FullAckVec
    BY DEF MsgFits, FullAckVec, AckVec
  <1>2. IsFiniteSet(v) /\ c \in Nat
    BY <1>1, FullVecFinite
  <1>3. Cardinality(u) = c + 1
    BY <1>2, FS_AddElement
  <1>4. c + 1 <= MsgSegs /\ u \in Vecs
    <2>1. Cardinality(u) \in 0..MsgSegs /\ u \in Vecs
      BY <1>1, FullVecFinite
    <2> HIDE DEF u
    <2> QED
      BY <2>1, <1>2, <1>3, RecvSizes
  <1>5. m.len \in Nat /\ m.len <= SegLen * c
    BY RecvSizes DEF MsgType, MsgFits
  <1> HIDE DEF c, u
  <1>6. SegLen * (c + 1) = SegLen * c + SegLen /\ SegLen * c \in Nat
    BY <1>2, RecvSizes
  <1>7. (c + 1) * SegLen <= MsgSegs * SegLen
    BY <1>2, <1>4, TimesMonotone, RecvSizes
  <1>8. SegLen * (c + 1) = (c + 1) * SegLen
    BY <1>2, RecvSizes
  <1>9. m.len + l \in Nat /\ m.len + l <= SegLen * (c + 1)
    BY <1>5, <1>6, RecvSizes
  <1>10. m.len + l \in 0..MsgLen
    <2> DEFINE x == SegLen * (c + 1)
    <2>1. x <= MsgLen
      BY <1>7, <1>8 DEF MsgLen
    <2>2. x \in Nat
      BY <1>6, RecvSizes
    <2> HIDE DEF x
    <2>3. m.len + l <= x
      BY <1>9 DEF x
    <2> QED
      BY <1>9, <2>1, <2>2, <2>3, RecvSizes
  <1>11. m2 \in MsgType
    BY <1>4, <1>10 DEF MsgType
  <1>12. m2.len = m.len + l /\ m2.cur_ack_vec = u
    OBVIOUS
  <1>13. MsgFits(m2)
    <2> HIDE DEF m2
    <2> QED
      BY <1>1, <1>3, <1>9, <1>12 DEF MsgFits, u
  <1> QED
    BY <1>11, <1>13 DEF u

LEMMA NoteSegOK ==
    ASSUME NEW w, RecvWndOK(w), NEW seq \in 0..(SeqMod - 1), NEW final \in BOOLEAN
    PROVE  RecvWndOK(NoteSeg(w, seq, final))
  <1>1. w \in RecvWndType /\ w.ack \in [RecvIdx -> BOOLEAN]
    BY DEF RecvWndOK, RecvWndType
  <1>2. seq \in Nat /\ seq % RecvCap \in RecvIdx
    BY RecvSlotType, RecvSizes
  <1>3. CASE final
    <2> DEFINE ack2 == [w.ack EXCEPT ![seq % RecvCap] = TRUE]
    <2>1. ack2 \in [RecvIdx -> BOOLEAN]
      BY <1>1
    <2>2. NoteSeg(w, seq, final) = [w EXCEPT !.ack = ack2, !.inter_seg_ack_on = FALSE]
      BY <1>1, <1>3 DEF NoteSeg, RecvWndType
    <2> HIDE DEF ack2
    <2>3. NoteSeg(w, seq, final) \in RecvWndType /\ NoteSeg(w, seq, final).msg = w.msg
      BY ONLY <1>1, <2>1, <2>2 DEF RecvWndType
    <2> QED
      BY <2>3 DEF RecvWndOK
  <1>4. CASE ~final
    <2>1. NoteSeg(w, seq, final) =
            [w EXCEPT !.inter_seg_ack = InterSeg, !.inter_seg_ack_seq = seq, !.inter_seg_ack_on = TRUE]
      BY <1>1, <1>4 DEF NoteSeg, RecvWndType
    <2>2. NoteSeg(w, seq, final) \in RecvWndType /\ NoteSeg(w, seq, final).msg = w.msg
      BY ONLY <1>1, <2>1, InterSegAssumption, seq \in 0..(SeqMod - 1) DEF RecvWndType
    <2> QED
      BY <2>2 DEF RecvWndOK
  <1> QED
    BY <1>3, <1>4

LEMMA StoreSegOK ==
    ASSUME NEW w, RecvWndOK(w), NEW seq \in 0..(SeqMod - 1), NEW seg \in 0..(MsgSegs - 1),
           seg \notin w.msg[seq % RecvCap].cur_ack_vec,
           NEW cnt \in 0..MsgSegs, NEW data \in Seq(Nat), Len(data) <= SegLen
    PROVE  RecvWndOK(StoreSeg(w, seq, seg, cnt, data))
  <1> DEFINE idx  == seq % RecvCap
             dst  == MsgLen * idx + SegLen * seg
             m    == w.msg[idx]
             m2   == [len |-> m.len + Len(data), cur_ack_vec |-> m.cur_ack_vec \cup {seg},
                      full_ack_vec |-> AckVec(cnt)]
             msg2 == [w.msg EXCEPT ![idx] = m2]
             buf2 == [j \in RecvBufIdx |-> IF j \in dst..(dst + Len(data) - 1)
                                           THEN data[j - dst + 1] ELSE w.buf[j]]
             new  == [w EXCEPT !.buf = buf2, !.msg = msg2]
  <1>1. /\ w \in RecvWndType /\ w.msg \in [RecvIdx -> MsgType] /\ w.buf \in [RecvBufIdx -> Nat]
        /\ \A i \in RecvIdx : MsgFits(w.msg[i])
    BY DEF RecvWndOK, RecvWndType
  <1>2. seq \in Nat /\ idx \in RecvIdx /\ idx \in Nat
    <2>1. seq \in Nat
      OBVIOUS
    <2>2. idx \in RecvIdx
      BY <2>1, RecvSlotType
    <2> QED
      BY <2>1, <2>2 DEF RecvIdx
  <1>3. m \in MsgType /\ MsgFits(m)
    BY <1>1, <1>2
  <1>4. m2 \in MsgType /\ MsgFits(m2)
    <2>1. Len(data) \in 0..SegLen
      BY RecvSizes
    <2> DEFINE l == Len(data)
    <2> HIDE DEF l, m
    <2> QED
      BY <1>3, <2>1, OneMoreFits DEF m, l
  <1>5. buf2 \in [RecvBufIdx -> Nat]
    <2>1. dst \in Nat
      <3>1. MsgLen * idx \in Nat /\ SegLen * seg \in Nat
        BY <1>2, RecvSizes
      <3> QED
        BY <3>1
    <2> HIDE DEF dst
    <2>2. ASSUME NEW j \in RecvBufIdx, j \in dst..(dst + Len(data) - 1)
          PROVE  data[j - dst + 1] \in Nat
      <3>1. j - dst + 1 \in 1..Len(data)
        BY <2>1, <2>2
      <3> QED
        BY <3>1
    <2> QED
      BY <1>1, <2>2
  <1>6. new = [w EXCEPT !.buf = buf2, !.msg[idx] = m2]
    BY <1>1 DEF RecvWndType
  <1>7. StoreSeg(w, seq, seg, cnt, data) = NoteSeg(new, seq, seg = cnt - 1)
    <2>1. [w EXCEPT !.buf = buf2,
                    !.msg[idx] = [len |-> @.len + Len(data),
                                  cur_ack_vec |-> @.cur_ack_vec \cup {seg},
                                  full_ack_vec |-> AckVec(cnt)]] = new
      BY <1>1 DEF RecvWndType
    <2> QED
      BY <2>1, <1>1 DEF StoreSeg, RecvWndType
  <1>8. RecvWndOK(new)
    <2> HIDE DEF m2, buf2, m, idx
    <2>1. msg2 \in [RecvIdx -> MsgType] /\ \A i \in RecvIdx : MsgFits(msg2[i])
      BY <1>1, <1>2, <1>4
    <2> HIDE DEF msg2
    <2>2. new \in RecvWndType /\ new.msg = msg2
      BY ONLY <1>1, <1>5, <2>1 DEF RecvWndType
    <2> QED
      BY <2>1, <2>2 DEF RecvWndOK
  <1> HIDE DEF new
  <1> QED
    BY <1>7, <1>8, NoteSegOK

LEMMA RecvWndFrameOK ==
    ASSUME NEW w, RecvWndOK(w), NEW seq \in 0..(SeqMod - 1), NEW seg \in 0..(MsgSegs - 1),
           NEW cnt \in 0..MsgSegs, NEW data \in Seq(Nat), Len(data) <= SegLen
    PROVE  RecvWndOK(RecvWndFrame(w, seq, seg, cnt, data))
  <1> DEFINE s == Slide(w, seq)
  <1>1. CASE ~InReach(w, seq)
    BY <1>1 DEF RecvWndFrame
  <1>2. CASE InReach(w, seq) /\ seg \in s.msg[seq % RecvCap].cur_ack_vec
    <2>1. RecvWndOK(s)
      BY <1>2, SlideOK
    <2> DEFINE ack2 == [s.ack EXCEPT ![seq % RecvCap] = TRUE]
    <2>2. RecvWndFrame(w, seq, seg, cnt, data) = [s EXCEPT !.ack = ack2]
      BY <1>2, <2>1 DEF RecvWndFrame, RecvWndOK, RecvWndType
    <2> HIDE DEF s
    <2>3. s \in RecvWndType /\ ack2 \in [RecvIdx -> BOOLEAN]
      BY <2>1 DEF RecvWndOK, RecvWndType
    <2> HIDE DEF ack2
    <2>4. [s EXCEPT !.ack = ack2] \in RecvWndType /\ [s EXCEPT !.ack = ack2].msg = s.msg
      BY ONLY <2>3 DEF RecvWndType
    <2> QED
      BY <2>1, <2>2, <2>4 DEF RecvWndOK
  <1>3. CASE InReach(w, seq) /\ seg \notin s.msg[seq % RecvCap].cur_ack_vec
    <2>1. RecvWndOK(s)
      BY <1>3, SlideOK
    <2>2. RecvWndFrame(w, seq, seg, cnt, data) = StoreSeg(s, seq, seg, cnt, data)
      BY <1>3 DEF RecvWndFrame
    <2> QED
      BY <1>3, <2>1, <2>2, StoreSegOK
  <1> QED
    BY <1>1, <1>2, <1>3

----------------------------------------------------------------------------
(* arq__recv_poll *)

(* A running inter-segment timer has not run out. *)
TimerRuns(w) == w.inter_seg_ack_on => w.inter_seg_ack > 0

LEMMA RecvTimerOK ==
    ASSUME NEW w, RecvWndOK(w), NEW dt \in Nat
    PROVE  RecvWndOK(RecvTimer(w, dt)) /\ TimerRuns(RecvTimer(w, dt))
  <1> DEFINE left == SubSat(w.inter_seg_ack, dt)
             on2  == left > 0
             due  == left = 0
             idx  == w.inter_seg_ack_seq % RecvCap
             ack2 == [w.ack EXCEPT ![idx] = w.ack[idx] \/ due]
  <1>1. /\ w \in RecvWndType /\ w.ack \in [RecvIdx -> BOOLEAN]
        /\ w.inter_seg_ack \in Nat /\ w.inter_seg_ack_seq \in Nat
    BY RecvSizes DEF RecvWndOK, RecvWndType
  <1>2. CASE ~w.inter_seg_ack_on
    BY <1>2 DEF RecvTimer, TimerRuns
  <1>3. CASE w.inter_seg_ack_on
    <2>1. left \in Nat
      BY <1>1 DEF SubSat
    <2>2. idx \in RecvIdx
      BY <1>1, RecvSlotType
    <2>3. RecvTimer(w, dt) =
            [w EXCEPT !.inter_seg_ack = left, !.inter_seg_ack_on = on2, !.ack[idx] = w.ack[idx] \/ due]
      BY <1>1, <1>3, <2>2 DEF RecvTimer, RecvWndType
    <2> HIDE DEF left, idx
    <2>4. on2 \in BOOLEAN /\ due \in BOOLEAN
      OBVIOUS
    <2> HIDE DEF on2, due
    <2>5. ack2 \in [RecvIdx -> BOOLEAN]
      BY <1>1, <2>2, <2>4
    <2>6. RecvTimer(w, dt) = [w EXCEPT !.inter_seg_ack = left, !.inter_seg_ack_on = on2, !.ack = ack2]
      BY <1>1, <2>3 DEF RecvWndType
    <2> HIDE DEF ack2
    <2>7. /\ RecvTimer(w, dt) \in RecvWndType /\ RecvTimer(w, dt).msg = w.msg
          /\ RecvTimer(w, dt).inter_seg_ack = left /\ RecvTimer(w, dt).inter_seg_ack_on = on2
      BY ONLY <1>1, <2>1, <2>4, <2>5, <2>6 DEF RecvWndType
    <2> QED
      BY <2>7 DEF RecvWndOK, TimerRuns, on2
  <1> QED
    BY <1>2, <1>3

(* A poll that can write a header and puts no acknowledgement into it leaves none due. *)
LEMMA RecvAckPollOK ==
    ASSUME NEW w, RecvWndOK(w), NEW psh \in BOOLEAN, NEW rh
    PROVE  LET r == RecvAckPoll(w, psh, FrameHdrInit, rh)
           IN /\ RecvWndOK(r.rw)
              /\ r.sh \in FrameHdrType /\ ~r.sh.seg /\ ~r.sh.rst
              /\ r.rh = rh
              /\ psh /\ ~r.sh.ack => AcksDue(r.rw) = {} /\ r.rw = w /\ r.sh = FrameHdrInit
              /\ r.sh.ack => psh
  <1> DEFINE r     == RecvAckPoll(w, psh, FrameHdrInit, rh)
             first == w.seq + Min(AcksDue(w))
             idx   == first % RecvCap
             ack2  == [w.ack EXCEPT ![idx] = FALSE]
             sh2   == [FrameHdrInit EXCEPT !.ack = TRUE, !.ack_num = first % SeqMod,
                                           !.cur_ack_vec = w.msg[idx].cur_ack_vec]
  <1>1. FrameHdrInit \in FrameHdrType /\ ~FrameHdrInit.ack /\ ~FrameHdrInit.seg /\ ~FrameHdrInit.rst
    BY RecvSizes DEF FrameHdrInit, FrameHdrType, Vecs
  <1>2. CASE ~psh \/ AcksDue(w) = {}
    <2>1. r = [rw |-> w, sh |-> FrameHdrInit, rh |-> rh]
      BY <1>2 DEF RecvAckPoll
    <2> QED
      BY <1>1, <1>2, <2>1
  <1>3. CASE psh /\ AcksDue(w) # {}
    <2>1. /\ w \in RecvWndType /\ w.seq \in Nat
          /\ w.ack \in [RecvIdx -> BOOLEAN] /\ w.msg \in [RecvIdx -> MsgType]
      BY RecvSizes DEF RecvWndOK, RecvWndType
    <2>2. first \in Nat
      <3>1. AcksDue(w) \subseteq Nat
        BY DEF AcksDue
      <3>2. Min(AcksDue(w)) \in Nat
        BY <1>3, <3>1, MinOfNats
      <3> QED
        BY <2>1, <3>2
    <2>3. r = [rw |-> [w EXCEPT !.ack = ack2], sh |-> sh2, rh |-> rh]
      BY <1>3, <2>1 DEF RecvAckPoll, RecvWndType
    <2> HIDE DEF first
    <2>4. idx \in RecvIdx /\ first % SeqMod \in 0..(SeqMod - 1)
      <3>1. idx \in RecvIdx
        BY <2>2, RecvSlotType
      <3>2. first \in Int /\ SeqMod \in Nat \ {0}
        BY <2>2, RecvSizes
      <3> QED
        BY <3>1, <3>2, ModType
    <2> HIDE DEF idx
    <2>5. ack2 \in [RecvIdx -> BOOLEAN] /\ w.msg[idx].cur_ack_vec \in Vecs
      BY <2>1, <2>4 DEF MsgType
    <2> HIDE DEF ack2
    <2>6. [w EXCEPT !.ack = ack2] \in RecvWndType /\ [w EXCEPT !.ack = ack2].msg = w.msg
      BY ONLY <2>1, <2>5 DEF RecvWndType
    <2>7. sh2 \in FrameHdrType /\ sh2.ack /\ ~sh2.seg /\ ~sh2.rst
      BY <1>1, <2>4, <2>5 DEF FrameHdrType
    <2> HIDE DEF sh2
    <2> DEFINE w2 == [w EXCEPT !.ack = ack2]
    <2>8. RecvWndOK(w2)
      BY <2>6 DEF RecvWndOK
    <2> HIDE DEF w2
    <2>9. r.rw = w2 /\ r.sh = sh2 /\ r.rh = rh
      BY <2>3 DEF w2
    <2> HIDE DEF r
    <2>10. /\ RecvWndOK(r.rw)
           /\ r.sh \in FrameHdrType /\ ~r.sh.seg /\ ~r.sh.rst
           /\ r.rh = rh
           /\ psh /\ ~r.sh.ack => AcksDue(r.rw) = {} /\ r.rw = w /\ r.sh = FrameHdrInit
           /\ r.sh.ack => psh
      BY <1>3, <2>7, <2>8, <2>9
    <2> QED
      BY <2>10 DEF r
  <1> QED
    BY <1>2, <1>3

LEMMA RecvPollOK ==
    ASSUME NEW w, RecvWndOK(w), NEW rf \in FrameBufType, NEW psh \in BOOLEAN, NEW dt \in Nat
    PROVE  LET r == RecvPoll(w, rf, psh, FrameHdrInit, dt)
           IN /\ RecvWndOK(r.rw)
              /\ r.sh \in FrameHdrType /\ ~r.sh.seg /\ ~r.sh.rst
              /\ r.rh \in FrameHdrType
              /\ psh /\ ~r.sh.ack => /\ AcksDue(r.rw) = {} /\ TimerRuns(r.rw)
                                     /\ r.sh = FrameHdrInit
              /\ r.sh.ack => psh
  <1> DEFINE rh    == IF rf = <<>> THEN FrameHdrInit ELSE Head(rf).hdr
             taken == IF rh.seg /\ Head(rf).ok
                      THEN RecvWndFrame(w, rh.seq_num, rh.seg_id, rh.msg_len, Head(rf).data)
                      ELSE w
             timed == RecvTimer(taken, dt)
  <1>1. FrameHdrInit \in FrameHdrType /\ ~FrameHdrInit.seg
    BY RecvSizes DEF FrameHdrInit, FrameHdrType, Vecs
  <1>2. rf # <<>> => Head(rf) \in FrameType
    BY FrameBufIs
  <1>3. rh \in FrameHdrType
    BY <1>1, <1>2 DEF FrameType
  <1>4. RecvWndOK(taken)
    <2>1. CASE rh.seg /\ Head(rf).ok
      <3>1. rf # <<>>
        BY <1>1, <2>1
      <3>2. Head(rf).data \in Seq(Nat) /\ Len(Head(rf).data) <= SegLen
        BY <1>2, <3>1 DEF FrameType
      <3>3. /\ rh.seq_num \in 0..(SeqMod - 1) /\ rh.seg_id \in 0..(MsgSegs - 1)
            /\ rh.msg_len \in 0..MsgSegs
        BY <1>3 DEF FrameHdrType
      <3> HIDE DEF rh
      <3> QED
        BY <2>1, <3>2, <3>3, RecvWndFrameOK
    <2>2. CASE ~(rh.seg /\ Head(rf).ok)
      BY <2>2
    <2> QED
      BY <2>1, <2>2
  <1>5. RecvPoll(w, rf, psh, FrameHdrInit, dt) = RecvAckPoll(timed, psh, FrameHdrInit, rh)
    BY DEF RecvPoll
  <1> HIDE DEF rh, taken
  <1>6. RecvWndOK(timed) /\ TimerRuns(timed)
    BY <1>4, RecvTimerOK
  <1> HIDE DEF timed
  <1> QED
    BY <1>3, <1>5, <1>6, RecvAckPollOK

(* A poll before the inter-segment timer runs out, with nothing received and nothing due,
   acknowledges nothing. *)
LEMMA StaysAnswered ==
    ASSUME NEW w, RecvWndOK(w), AcksDue(w) = {}, NEW dt \in Nat,
           w.inter_seg_ack_on => dt < w.inter_seg_ack
    PROVE  LET r == RecvPoll(w, <<>>, TRUE, FrameHdrInit, dt)
           IN r.sh = FrameHdrInit /\ r.rh = FrameHdrInit
  <1> DEFINE left == SubSat(w.inter_seg_ack, dt)
             t    == RecvTimer(w, dt)
  <1>1. /\ w \in RecvWndType /\ w.ack \in [RecvIdx -> BOOLEAN]
        /\ w.inter_seg_ack \in Nat /\ w.inter_seg_ack_seq \in Nat
    BY RecvSizes DEF RecvWndOK, RecvWndType
  <1>2. AcksDue(t) = {}
    <2>1. CASE ~w.inter_seg_ack_on
      BY <2>1 DEF RecvTimer
    <2>2. CASE w.inter_seg_ack_on
      <3> DEFINE idx == w.inter_seg_ack_seq % RecvCap
                 on2 == left > 0
                 due == left = 0
                 u   == w.ack[idx] \/ due
      <3>1. left # 0
        BY <1>1, <2>2 DEF SubSat
      <3>2. idx \in RecvIdx
        BY <1>1, RecvSlotType
      <3>3. t = [w EXCEPT !.inter_seg_ack = left, !.inter_seg_ack_on = on2, !.ack[idx] = u]
        BY <1>1, <2>2, <3>2 DEF RecvTimer, RecvWndType
      <3>4. u = w.ack[idx]
        <4>1. w.ack[idx] \in BOOLEAN
          BY <1>1, <3>2
        <4>2. due = FALSE
          BY <3>1
        <4> HIDE DEF due, idx
        <4> QED
          BY <4>1, <4>2
      <3> HIDE DEF left, idx, on2, u
      <3>5. t.ack = w.ack /\ t.seq = w.seq /\ t.size = w.size
        BY <1>1, <3>2, <3>3, <3>4 DEF RecvWndType
      <3> HIDE DEF t
      <3> QED
        BY <3>5 DEF AcksDue
    <2> QED
      BY <2>1, <2>2
  <1>3. ~FrameHdrInit.seg
    BY DEF FrameHdrInit
  <1>4. RecvPoll(w, <<>>, TRUE, FrameHdrInit, dt)
          = RecvAckPoll(t, TRUE, FrameHdrInit, FrameHdrInit)
    BY <1>3 DEF RecvPoll
  <1> HIDE DEF t
  <1>5. RecvAckPoll(t, TRUE, FrameHdrInit, FrameHdrInit)
          = [rw |-> t, sh |-> FrameHdrInit, rh |-> FrameHdrInit]
    BY <1>2 DEF RecvAckPoll
  <1> DEFINE r == RecvPoll(w, <<>>, TRUE, FrameHdrInit, dt)
  <1>6. r = [rw |-> t, sh |-> FrameHdrInit, rh |-> FrameHdrInit]
    BY <1>4, <1>5
  <1> HIDE DEF r
  <1>7. r.sh = FrameHdrInit /\ r.rh = FrameHdrInit
    BY <1>6
  <1> QED
    BY <1>7 DEF r

----------------------------------------------------------------------------
(* arq__recv_wnd_recv *)

LEMMA RecvWndRecvOK ==
    ASSUME NEW w, RecvWndOK(w), NEW max \in Nat
    PROVE  LET w2 == RecvWndRecv(w, max)
           IN /\ RecvWndOK(w2)
              /\ w2.seq = w.seq /\ w2.size = w.size /\ w2.ack = w.ack
  <1> DEFINE d     == Deliverable(w)
             end   == w.copy_ofs + RecvCount(w, max)
             S     == {k \in 0..d : BytesBefore(w, k) <= end}
             done  == Max(S)
             freed == {CopySlot(w, i) : i \in 0..(done - 1)}
             msg2  == [i \in RecvIdx |-> IF i \in freed THEN EmptyMsg ELSE w.msg[i]]
             ofs2  == end - BytesBefore(w, done)
             seq2  == (w.copy_seq + done) % SeqMod
             slide2 == w.slide + done
  <1>1. /\ w \in RecvWndType /\ w.msg \in [RecvIdx -> MsgType]
        /\ w.copy_seq \in Nat /\ w.copy_ofs \in Nat /\ w.slide \in Nat /\ w.size \in Nat
        /\ \A i \in RecvIdx : MsgFits(w.msg[i])
    BY RecvSizes DEF RecvWndOK, RecvWndType
  <1>2. /\ BytesBefore(w, 0) = 0
        /\ \A k \in Nat : BytesBefore(w, k) \in Nat
    <2>1. ASSUME NEW k \in Nat PROVE w.msg[CopySlot(w, k)].len \in Nat
      <3>1. CopySlot(w, k) \in RecvIdx
        BY <1>1, RecvSlotType DEF CopySlot
      <3>2. w.msg[CopySlot(w, k)] \in MsgType
        BY <1>1, <3>1
      <3> QED
        BY <3>2, RecvSizes DEF MsgType
    <2> QED
      BY <2>1, BytesBeforeFacts
  <1>3. d \in Nat
    <2> DEFINE T == {w.size} \cup {i \in 0..(w.size - 1) :
                        LET m == w.msg[CopySlot(w, i)] IN m.len = 0 \/ ~Complete(m)}
    <2>1. T \subseteq Nat /\ T # {} /\ d = Min(T)
      BY <1>1 DEF Deliverable
    <2> HIDE DEF T, d
    <2>2. Min(T) \in T
      BY <2>1, MinOfNats
    <2> QED
      BY <2>1, <2>2
  <1>4. end \in Nat
    <2>1. CASE d = 0
      BY <1>1, <2>1 DEF RecvCount
    <2>2. CASE d # 0
      <3>1. RecvCount(w, max) = Min2(max, BytesBefore(w, d) - w.copy_ofs)
        BY <2>2 DEF RecvCount
      <3>2. BytesBefore(w, d) \in Nat
        BY <1>2, <1>3
      <3> DEFINE b == BytesBefore(w, d)
      <3> HIDE DEF b
      <3> QED
        BY <1>1, <3>1, <3>2 DEF Min2, b
    <2> QED
      BY <2>1, <2>2
  <1> HIDE DEF d, end
  <1>5. done \in 0..d /\ BytesBefore(w, done) <= end
    <2>1. S \subseteq 0..d /\ 0 \in S
      BY <1>2, <1>3, <1>4
    <2> HIDE DEF S
    <2>2. Max(S) \in S
      BY <1>3, <2>1, MaxUpTo
    <2> QED
      BY <2>2 DEF S
  <1>6. RecvWndRecv(w, max) =
          [w EXCEPT !.msg = msg2, !.copy_ofs = ofs2, !.copy_seq = seq2, !.slide = slide2]
    BY <1>1 DEF RecvWndRecv, d, end, RecvWndType
  <1> HIDE DEF S, done, freed
  <1>7. done \in Nat
    BY <1>5, <1>3
  <1>8. msg2 \in [RecvIdx -> MsgType] /\ \A i \in RecvIdx : MsgFits(msg2[i])
    BY <1>1, EmptyFits
  <1>9. ofs2 \in Nat /\ slide2 \in Nat
    <2>1. BytesBefore(w, done) \in Nat
      BY <1>2, <1>7
    <2> QED
      BY <1>1, <1>4, <1>5, <1>7, <2>1
  <1>10. seq2 \in 0..(SeqMod - 1)
    <2>1. w.copy_seq + done \in Int
      BY <1>1, <1>7
    <2> QED
      BY <2>1, ModType, RecvSizes
  <1> HIDE DEF msg2, ofs2, seq2, slide2
  <1> DEFINE w1 == [w EXCEPT !.msg = msg2, !.copy_ofs = ofs2]
             w2 == [w1 EXCEPT !.copy_seq = seq2, !.slide = slide2]
  <1>11. /\ w1 \in RecvWndType /\ w1.msg = msg2 /\ w1.seq = w.seq /\ w1.size = w.size
         /\ w1.ack = w.ack
    BY ONLY <1>1, <1>8, <1>9 DEF RecvWndType
  <1>12. w2 = RecvWndRecv(w, max)
    BY ONLY <1>1, <1>6 DEF RecvWndType
  <1> HIDE DEF w1
  <1>13. /\ w2 \in RecvWndType /\ w2.msg = msg2 /\ w2.seq = w.seq /\ w2.size = w.size
         /\ w2.ack = w.ack
    BY ONLY <1>9, <1>10, <1>11 DEF RecvWndType
  <1> HIDE DEF w2
  <1> QED
    BY <1>8, <1>12, <1>13 DEF RecvWndOK
----------------------------------------------------------------------------
(* Messages of one segment, whose numbers have not wrapped around *)

(* Where byte x of the message in slot i is. *)
Cell(i, x) == i * MsgLen + x

LEMMA CellFacts ==
    ASSUME NEW i \in RecvIdx, NEW x \in 0..(MsgLen - 1)
    PROVE  /\ Cell(i, x) \in RecvBufIdx
           /\ \A k \in RecvIdx, y \in 0..(MsgLen - 1) :
                 Cell(i, x) = Cell(k, y) => i = k /\ x = y
  <1>1. /\ i \in Nat /\ i + 1 <= RecvCap /\ MsgLen \in Nat /\ RecvCap \in Nat
        /\ i + 1 \in Nat
    BY RecvSizes DEF RecvIdx
  <1>2. i * MsgLen \in Nat /\ RecvCap * MsgLen \in Nat
    BY <1>1
  <1>3. i * MsgLen + MsgLen <= RecvCap * MsgLen
    <2>1. (i + 1) * MsgLen <= RecvCap * MsgLen
      BY <1>1, TimesMonotone
    <2>2. (i + 1) * MsgLen = i * MsgLen + MsgLen
      BY <1>1
    <2> QED
      BY <2>1, <2>2
  <1>4. Cell(i, x) \in RecvBufIdx
    BY <1>1, <1>2, <1>3 DEF Cell, RecvBufIdx
  <1>5. ASSUME NEW k \in RecvIdx, NEW y \in 0..(MsgLen - 1), Cell(i, x) = Cell(k, y)
        PROVE  i = k /\ x = y
    <2>1. k \in Nat /\ k * MsgLen \in Nat /\ k + 1 \in Nat
      BY <1>1 DEF RecvIdx
    <2>2. i * MsgLen + x = k * MsgLen + y
      BY <1>5 DEF Cell
    <2>3. CASE i = k
      BY <1>1, <1>2, <2>2, <2>3
    <2>4. CASE i + 1 <= k
      <3>1. (i + 1) * MsgLen <= k * MsgLen
        BY <1>1, <2>1, <2>4, TimesMonotone
      <3>2. (i + 1) * MsgLen = i * MsgLen + MsgLen
        BY <1>1
      <3> QED
        BY <1>1, <1>2, <2>1, <2>2, <3>1, <3>2
    <2>5. CASE k + 1 <= i
      <3>1. (k + 1) * MsgLen <= i * MsgLen
        BY <1>1, <2>1, <2>5, TimesMonotone
      <3>2. (k + 1) * MsgLen = k * MsgLen + MsgLen
        BY <1>1, <2>1
      <3> QED
        BY <1>1, <1>2, <2>1, <2>2, <3>1, <3>2
    <2> QED
      BY <1>1, <2>1, <2>3, <2>4, <2>5
  <1> QED
    BY <1>4, <1>5

RecvSlot(n) == n % RecvCap

ArrivedMsg(w, n) == w.msg[RecvSlot(n)]

(* The messages that the slots of the window are for. *)
Ahead(w) == w.copy_seq..(w.copy_seq + RecvCap - 1)

(* The messages that are here in full, or that arq_recv has copied out. *)
GotNos(w) ==
    {n \in 0..(w.copy_seq + RecvCap - 1) : n < w.copy_seq \/ ArrivedMsg(w, n).cur_ack_vec # {}}

(* Those that an acknowledgement is due for. *)
DueNos(w) == {n \in Ahead(w) : w.ack[RecvSlot(n)]}

OneSegMsg(len) == [len |-> len, cur_ack_vec |-> {0}, full_ack_vec |-> {0}]

(* Message n is here with the bytes from st[n] + 1 to st[n + 1] of the stream. *)
Holds(st, w, n) ==
    /\ LenOf(st, n) \in 1..MsgLen
    /\ ArrivedMsg(w, n) = OneSegMsg(LenOf(st, n))
    /\ n < w.seq + w.size /\ n + 1 < SeqMod
    /\ \A x \in 0..(LenOf(st, n) - 1) : w.buf[Cell(RecvSlot(n), x)] = st[n] + x + 1

(* Nothing of message n is here. *)
Lacks(w, n) == ArrivedMsg(w, n) = EmptyMsg /\ ~w.ack[RecvSlot(n)]

(* The reader is copy_ofs bytes into message copy_seq, and has read all before. *)
ReadUpTo(st, w, r) ==
    /\ w.copy_ofs > 0 => w.copy_seq \in GotNos(w) /\ w.copy_ofs < LenOf(st, w.copy_seq)
    /\ r = [k \in 1..(st[w.copy_seq] + w.copy_ofs) |-> k]

(* A window without a timer that has slid over nothing that was not copied out. *)
Upright(w) ==
    /\ RecvWndOK(w)
    /\ w.copy_seq = w.seq + w.slide /\ w.slide <= w.size
    /\ ~w.inter_seg_ack_on

OneSegRecv(st, w, r) ==
    /\ Upright(w)
    /\ \A n \in Ahead(w) : IF n \in GotNos(w) THEN Holds(st, w, n) ELSE Lacks(w, n)
    /\ ReadUpTo(st, w, r)

LEMMA RecvNumbers ==
    ASSUME NEW w, Upright(w)
    PROVE  /\ w.seq \in Nat /\ w.size \in Nat /\ w.slide \in Nat /\ w.copy_seq \in Nat
           /\ w.copy_ofs \in Nat
           /\ w.copy_seq = w.seq + w.slide /\ w.slide <= w.size /\ w.size <= RecvCap
           /\ w.copy_seq < SeqMod /\ SeqMod \in Nat \ {0} /\ RecvCap \in Nat \ {0}
           /\ w \in RecvWndType /\ w.msg \in [RecvIdx -> MsgType]
           /\ w.ack \in [RecvIdx -> BOOLEAN] /\ w.buf \in [RecvBufIdx -> Nat]
  BY RecvSizes DEF Upright, RecvWndOK, RecvWndType

LEMMA AheadFacts ==
    ASSUME NEW w, Upright(w), NEW n \in Ahead(w)
    PROVE  /\ n \in Nat /\ w.copy_seq <= n /\ n < w.copy_seq + RecvCap
           /\ RecvSlot(n) \in RecvIdx
           /\ n \in GotNos(w) <=> ArrivedMsg(w, n).cur_ack_vec # {}
  <1>1. n \in Nat /\ w.copy_seq <= n /\ n < w.copy_seq + RecvCap
        /\ n \in 0..(w.copy_seq + RecvCap - 1) /\ ~(n < w.copy_seq)
    BY RecvNumbers DEF Ahead
  <1>2. RecvSlot(n) \in RecvIdx
    BY <1>1, RecvSlotType DEF RecvSlot
  <1> QED
    BY <1>1, <1>2 DEF GotNos

LEMMA AheadDiffer ==
    ASSUME NEW w, Upright(w), NEW a \in Ahead(w), NEW b \in Ahead(w), RecvSlot(a) = RecvSlot(b)
    PROVE  a = b
  BY RecvNumbers, RingInjective DEF Ahead, RecvSlot

LEMMA AheadCovers ==
    ASSUME NEW w, Upright(w), NEW i \in RecvIdx
    PROVE  \E n \in Ahead(w) : RecvSlot(n) = i
  BY RecvNumbers, RingCovers DEF Ahead, RecvSlot, RecvIdx

----------------------------------------------------------------------------
(* arq__recv_wnd_frame, for a message that is not here *)

(* Making room for message n. *)
SlideEffect(w, w2, n) ==
    /\ w2.copy_seq = w2.seq + w2.slide /\ w2.slide <= w2.size
    /\ w.seq + w.size <= w2.seq + w2.size /\ n < w2.seq + w2.size
    /\ w2.copy_seq = w.copy_seq /\ w2.copy_ofs = w.copy_ofs
    /\ w2.buf = w.buf /\ w2.msg = w.msg /\ w2.ack = w.ack
    /\ w2.inter_seg_ack_on = w.inter_seg_ack_on

LEMMA OneReach ==
    ASSUME NEW w, Upright(w), NEW n \in Nat, w.copy_seq <= n, n + 1 < SeqMod
    PROVE  /\ NewSize(w, n) = n - w.seq + 1
           /\ InReach(w, n) <=> n < w.copy_seq + RecvCap
  <1>1. /\ w.seq \in Nat /\ w.slide \in Nat /\ w.copy_seq = w.seq + w.slide
        /\ SeqMod \in Nat \ {0} /\ RecvCap \in Nat \ {0} /\ w.copy_seq \in Nat
    BY RecvNumbers
  <1>2. n - w.seq + 1 \in 0..(SeqMod - 1)
    BY <1>1
  <1>3. NewSize(w, n) = n - w.seq + 1
    BY <1>1, <1>2, ModSmall DEF NewSize
  <1> DEFINE m == n - w.seq + 1
  <1>4. InReach(w, n) <=> m <= RecvCap \/ m - w.slide \in 0..RecvCap
    BY <1>3 DEF InReach
  <1>5. m <= RecvCap \/ m - w.slide \in 0..RecvCap <=> n < w.copy_seq + RecvCap
    BY <1>1
  <1> QED
    BY <1>3, <1>4, <1>5

LEMMA OneSlide ==
    ASSUME NEW w, Upright(w), NEW n \in Ahead(w), n + 1 < SeqMod
    PROVE  Upright(Slide(w, n)) /\ SlideEffect(w, Slide(w, n), n)
  <1> DEFINE m  == NewSize(w, n)
             w2 == Slide(w, n)
  <1>1. /\ w.seq \in Nat /\ w.size \in Nat /\ w.slide \in Nat /\ w.copy_seq \in Nat
        /\ w.copy_seq = w.seq + w.slide /\ w.slide <= w.size /\ w.size <= RecvCap
        /\ w.copy_seq < SeqMod /\ SeqMod \in Nat \ {0} /\ RecvCap \in Nat \ {0}
        /\ w \in RecvWndType
    BY RecvNumbers
  <1>2. n \in Nat /\ w.copy_seq <= n /\ n < w.copy_seq + RecvCap /\ n \in 0..(SeqMod - 1)
    BY <1>1, AheadFacts
  <1>3. m = n - w.seq + 1 /\ InReach(w, n)
    BY <1>2, OneReach
  <1>4. RecvWndOK(w2)
    BY <1>2, <1>3, SlideOK DEF Upright
  <1>5. ~w.inter_seg_ack_on
    BY DEF Upright
  <1> HIDE DEF m
  <1>6. CASE m > RecvCap
    <2>1. (w.seq + w.slide) % SeqMod = w.copy_seq
      BY <1>1, ModSmall
    <2>2. w2 = [w EXCEPT !.size = m - w.slide, !.seq = w.copy_seq, !.slide = 0]
      BY <1>1, <1>6, <2>1 DEF Slide, m, RecvWndType
    <2>3. /\ w2.slide = 0 /\ w2.size = m - w.slide /\ w2.seq = w.copy_seq
          /\ w2.copy_seq = w.copy_seq /\ w2.copy_ofs = w.copy_ofs
          /\ w2.buf = w.buf /\ w2.msg = w.msg /\ w2.ack = w.ack
          /\ w2.inter_seg_ack_on = w.inter_seg_ack_on
      BY <1>1, <2>2 DEF RecvWndType
    <2> HIDE DEF w2
    <2>4. /\ w.copy_seq = w.copy_seq + 0 /\ 0 <= m - w.slide
          /\ w.seq + w.size <= w.copy_seq + (m - w.slide) /\ n < w.copy_seq + (m - w.slide)
      BY <1>1, <1>2, <1>3, <1>6
    <2> QED
      BY <1>4, <1>5, <2>3, <2>4 DEF Upright, SlideEffect, w2
  <1>7. CASE ~(m > RecvCap)
    <2> DEFINE z == Max2(w.size, m)
    <2>1. w2 = [w EXCEPT !.size = z]
      BY <1>1, <1>7 DEF Slide, m, RecvWndType
    <2>2. z \in Nat /\ w.size <= z /\ m <= z
      BY <1>1, <1>2, <1>3 DEF Max2
    <2> HIDE DEF z
    <2>3. /\ w2.slide = w.slide /\ w2.size = z /\ w2.seq = w.seq
          /\ w2.copy_seq = w.copy_seq /\ w2.copy_ofs = w.copy_ofs
          /\ w2.buf = w.buf /\ w2.msg = w.msg /\ w2.ack = w.ack
          /\ w2.inter_seg_ack_on = w.inter_seg_ack_on
      BY <1>1, <2>1 DEF RecvWndType
    <2> HIDE DEF w2
    <2>4. /\ w.slide <= z /\ w.seq + w.size <= w.seq + z /\ n < w.seq + z
      BY <1>1, <1>2, <1>3, <2>2
    <2> QED
      BY <1>1, <1>4, <1>5, <2>3, <2>4 DEF Upright, SlideEffect, w2
  <1> QED
    BY <1>6, <1>7

(* What storing message n changes. *)
OneStored(w, w2, n, data) ==
    /\ w2.seq = w.seq /\ w2.size = w.size /\ w2.slide = w.slide
    /\ w2.copy_seq = w.copy_seq /\ w2.copy_ofs = w.copy_ofs
    /\ ~w2.inter_seg_ack_on
    /\ w2.msg = [w.msg EXCEPT ![RecvSlot(n)] = OneSegMsg(Len(data))]
    /\ w2.ack = [w.ack EXCEPT ![RecvSlot(n)] = TRUE]
    /\ \A i \in RecvIdx : \A x \in 0..(MsgLen - 1) :
          w2.buf[Cell(i, x)] = IF i = RecvSlot(n) /\ x < Len(data) THEN data[x + 1]
                               ELSE w.buf[Cell(i, x)]

(* The memory of slot k after l bytes are written to it. *)
Written(buf, k, l, data) ==
    [j \in RecvBufIdx |-> IF j \in Cell(k, 0)..(Cell(k, 0) + l - 1)
                          THEN data[j - Cell(k, 0) + 1] ELSE buf[j]]

LEMMA OneStoreBuf ==
    ASSUME NEW k \in RecvIdx, NEW l \in 0..MsgLen, NEW data, NEW buf,
           NEW i \in RecvIdx, NEW x \in 0..(MsgLen - 1)
    PROVE  Written(buf, k, l, data)[Cell(i, x)]
             = IF i = k /\ x < l THEN data[x + 1] ELSE buf[Cell(i, x)]
  <1> DEFINE dst  == Cell(k, 0)
             c    == Cell(i, x)
             buf2 == Written(buf, k, l, data)
  <1>1. MsgLen \in Nat /\ l \in Nat /\ x \in Nat /\ i \in Nat /\ k \in Nat
    BY RecvSizes DEF RecvIdx
  <1>2. dst \in Nat /\ c \in Nat /\ c \in RecvBufIdx
    <2>1. k * MsgLen \in Nat /\ i * MsgLen \in Nat
      BY <1>1
    <2>2. c \in RecvBufIdx
      BY CellFacts
    <2> QED
      BY <1>1, <2>1, <2>2 DEF Cell
  <1>3. \A y \in Nat : Cell(k, y) = dst + y
    <2>1. k * MsgLen \in Nat
      BY <1>1
    <2> QED
      BY <2>1 DEF Cell
  <1>4. c \in dst..(dst + l - 1) <=> i = k /\ x < l
    <2>1. ASSUME i = k PROVE c = dst + x
      BY <1>1, <1>3, <2>1
    <2>2. ASSUME c \in dst..(dst + l - 1) PROVE i = k
      <3> DEFINE y == c - dst
      <3>1. y \in 0..(MsgLen - 1) /\ c = dst + y
        BY <1>1, <1>2, <2>2
      <3> HIDE DEF y
      <3>2. Cell(i, x) = Cell(k, y)
        BY <1>3, <3>1
      <3> QED
        BY <3>1, <3>2, CellFacts
    <2>3. i = k => (c \in dst..(dst + l - 1) <=> x < l)
      <3> HIDE DEF dst, c
      <3> QED
        BY <1>1, <1>2, <2>1
    <2> QED
      BY <2>2, <2>3
  <1>5. i = k => c - dst + 1 = x + 1
    <2>1. i = k => c = dst + x
      BY <1>1, <1>3
    <2> HIDE DEF c, dst
    <2> QED
      BY <1>1, <1>2, <2>1
  <1> HIDE DEF c, dst
  <1>6. buf2[c] = IF c \in dst..(dst + l - 1) THEN data[c - dst + 1] ELSE buf[c]
    BY <1>2 DEF Written, dst
  <1>7. buf2[c] = IF i = k /\ x < l THEN data[x + 1] ELSE buf[c]
    BY <1>4, <1>5, <1>6
  <1> QED
    BY <1>7 DEF c, dst

LEMMA OneStore ==
    ASSUME MsgSegs = 1, NEW w, RecvWndOK(w), NEW n \in Nat,
           ArrivedMsg(w, n) = EmptyMsg, NEW data \in Seq(Nat), Len(data) <= SegLen
    PROVE  OneStored(w, StoreSeg(w, n, 0, 1, data), n, data)
  <1> DEFINE k    == RecvSlot(n)
             l    == Len(data)
             dst  == Cell(k, 0)
             buf2 == Written(w.buf, k, l, data)
             msg2 == [w.msg EXCEPT ![k] = OneSegMsg(l)]
             ack2 == [w.ack EXCEPT ![k] = TRUE]
             w2   == StoreSeg(w, n, 0, 1, data)
  <1>1. /\ w \in RecvWndType /\ w.msg \in [RecvIdx -> MsgType] /\ k \in RecvIdx
    BY RecvSlotType DEF RecvWndOK, RecvWndType, RecvSlot
  <1>2. l \in 0..MsgLen /\ l \in Nat /\ k \in Nat
    <2>1. l \in Nat /\ k \in Nat
      BY <1>1 DEF RecvIdx
    <2>2. MsgLen = SegLen
      BY RecvSizes DEF MsgLen
    <2> HIDE DEF l
    <2> QED
      BY <2>1, <2>2, RecvSizes DEF l
  <1>3. MsgLen * k + SegLen * 0 = dst
    BY <1>2, RecvSizes DEF Cell
  <1>4. AckVec(1) = {0} /\ 1 - 1 = 0
    BY DEF AckVec
  <1>5. [len |-> w.msg[k].len + l, cur_ack_vec |-> w.msg[k].cur_ack_vec \cup {0},
         full_ack_vec |-> AckVec(1)] = OneSegMsg(l)
    <2>1. w.msg[k].len = 0 /\ w.msg[k].cur_ack_vec = {}
      BY DEF ArrivedMsg, EmptyMsg
    <2> HIDE DEF l
    <2>2. 0 + l = l /\ {} \cup {0} = {0}
      BY <1>2
    <2> QED
      BY <1>4, <2>1, <2>2 DEF OneSegMsg
  <1>6. w2 = [w EXCEPT !.buf = buf2, !.msg = msg2, !.ack = ack2, !.inter_seg_ack_on = FALSE]
    <2> DEFINE new == [w EXCEPT !.buf = buf2,
                                !.msg[k] = [len |-> @.len + l,
                                            cur_ack_vec |-> @.cur_ack_vec \cup {0},
                                            full_ack_vec |-> AckVec(1)]]
    <2>1. w2 = NoteSeg(new, n, TRUE)
      <3>1. (0 = 1 - 1) = TRUE
        BY <1>4
      <3> QED
        BY <1>3, <3>1 DEF StoreSeg, RecvSlot, Written, dst
    <2> HIDE DEF w2
    <2>2. new = [w EXCEPT !.buf = buf2, !.msg = msg2]
      <3>1. new = [w EXCEPT !.buf = buf2,
                            !.msg = [w.msg EXCEPT ![k] = [len |-> w.msg[k].len + l,
                                        cur_ack_vec |-> w.msg[k].cur_ack_vec \cup {0},
                                        full_ack_vec |-> AckVec(1)]]]
        BY <1>1 DEF RecvWndType
      <3> QED
        BY <1>5, <3>1
    <2> HIDE DEF new, buf2, msg2
    <2>3. w2 = [new EXCEPT !.ack[k] = TRUE, !.inter_seg_ack_on = FALSE]
      BY <2>1 DEF NoteSeg, RecvSlot
    <2> QED
      BY <1>1, <2>2, <2>3 DEF RecvWndType
  <1> HIDE DEF buf2, msg2, ack2
  <1>7. /\ w2.seq = w.seq /\ w2.size = w.size /\ w2.slide = w.slide
        /\ w2.copy_seq = w.copy_seq /\ w2.copy_ofs = w.copy_ofs
        /\ w2.inter_seg_ack_on = FALSE /\ w2.msg = msg2 /\ w2.ack = ack2 /\ w2.buf = buf2
    BY <1>1, <1>6 DEF RecvWndType
  <1> HIDE DEF w2
  <1>8. ASSUME NEW i \in RecvIdx, NEW x \in 0..(MsgLen - 1)
        PROVE  buf2[Cell(i, x)] = IF i = k /\ x < l THEN data[x + 1] ELSE w.buf[Cell(i, x)]
    <2> HIDE DEF l, k, dst
    <2> QED
      BY <1>1, <1>2, OneStoreBuf DEF buf2
  <1> QED
    BY <1>7, <1>8 DEF OneStored, msg2, ack2, w2

(* A frame with message n, which is not here. *)
NewMsg(st, w, n, data) ==
    /\ n \in Nat \ GotNos(w) /\ w.copy_seq <= n /\ n + 1 < SeqMod
    /\ LenOf(st, n) \in 1..MsgLen
    /\ data = [k \in 1..LenOf(st, n) |-> st[n] + k]

(* What a message that fits into the window adds. *)
FrameEffect(w, w2, n) ==
    /\ w2.copy_seq = w.copy_seq
    /\ \/ w2 = w
       \/ n \in Ahead(w) /\ GotNos(w2) = GotNos(w) \cup {n} /\ DueNos(w2) = DueNos(w) \cup {n}

LEMMA StoredNos ==
    ASSUME NEW w, Upright(w), NEW w2, Upright(w2), NEW n \in Ahead(w), NEW data,
           OneStored(w, w2, n, data)
    PROVE  /\ Ahead(w2) = Ahead(w)
           /\ \A m \in Ahead(w) \ {n} : /\ ArrivedMsg(w2, m) = ArrivedMsg(w, m)
                                        /\ w2.ack[RecvSlot(m)] = w.ack[RecvSlot(m)]
           /\ ArrivedMsg(w2, n) = OneSegMsg(Len(data)) /\ w2.ack[RecvSlot(n)]
           /\ GotNos(w2) = GotNos(w) \cup {n} /\ DueNos(w2) = DueNos(w) \cup {n}
  <1>1. /\ w.msg \in [RecvIdx -> MsgType] /\ w.ack \in [RecvIdx -> BOOLEAN]
        /\ w.copy_seq \in Nat /\ RecvCap \in Nat \ {0}
    BY RecvNumbers
  <1>2. w2.copy_seq = w.copy_seq /\ Ahead(w2) = Ahead(w)
    BY DEF OneStored, Ahead
  <1>3. ASSUME NEW m \in Ahead(w), m # n
        PROVE  /\ ArrivedMsg(w2, m) = ArrivedMsg(w, m)
               /\ w2.ack[RecvSlot(m)] = w.ack[RecvSlot(m)]
    <2>1. RecvSlot(m) # RecvSlot(n) /\ RecvSlot(m) \in RecvIdx
      BY <1>3, AheadDiffer, AheadFacts
    <2> QED
      BY <1>1, <2>1 DEF OneStored, ArrivedMsg
  <1>4. ArrivedMsg(w2, n) = OneSegMsg(Len(data)) /\ w2.ack[RecvSlot(n)]
    <2>1. RecvSlot(n) \in RecvIdx
      BY AheadFacts
    <2> QED
      BY <1>1, <2>1 DEF OneStored, ArrivedMsg
  <1>5. OneSegMsg(Len(data)).cur_ack_vec # {}
    BY DEF OneSegMsg
  <1>6. DueNos(w2) = DueNos(w) \cup {n}
    <2>1. \A m : m \in DueNos(w2) <=> m \in Ahead(w) /\ w2.ack[RecvSlot(m)]
      BY <1>2 DEF DueNos
    <2>2. \A m : m \in DueNos(w) <=> m \in Ahead(w) /\ w.ack[RecvSlot(m)]
      BY DEF DueNos
    <2>3. \A m : m \in DueNos(w2) <=> m \in DueNos(w) \/ m = n
      BY ZenonT(40), <1>3, <1>4, <2>1, <2>2
    <2> QED
      BY <2>3
  <1>7. GotNos(w2) = GotNos(w) \cup {n}
    <2>1. ASSUME NEW m \in 0..(w.copy_seq + RecvCap - 1)
          PROVE  m \in GotNos(w2) <=> m \in GotNos(w) \/ m = n
      <3>1. CASE m < w.copy_seq
        BY <1>2, <3>1 DEF GotNos
      <3>2. CASE w.copy_seq <= m
        <4>1. m \in Ahead(w) /\ m \in Ahead(w2)
          BY <1>1, <1>2, <3>2 DEF Ahead
        <4>2. /\ m \in GotNos(w) <=> ArrivedMsg(w, m).cur_ack_vec # {}
              /\ m \in GotNos(w2) <=> ArrivedMsg(w2, m).cur_ack_vec # {}
          BY <4>1, AheadFacts
        <4> QED
          BY <1>3, <1>4, <1>5, <4>1, <4>2
      <3> QED
        BY <1>1, <3>1, <3>2
    <2>2. /\ GotNos(w) \subseteq 0..(w.copy_seq + RecvCap - 1)
          /\ GotNos(w2) \subseteq 0..(w.copy_seq + RecvCap - 1)
      BY <1>2 DEF GotNos
    <2>3. n \in 0..(w.copy_seq + RecvCap - 1)
      BY <1>1 DEF Ahead
    <2> DEFINE R == 0..(w.copy_seq + RecvCap - 1)
    <2> HIDE DEF R
    <2>4. \A m : m \in GotNos(w2) <=> m \in GotNos(w) \/ m = n
      BY ZenonT(40), <2>1, <2>2, <2>3 DEF R
    <2> QED
      BY <2>4
  <1> QED
    BY <1>2, <1>3, <1>4, <1>6, <1>7

LEMMA InAhead ==
    ASSUME NEW w, Upright(w), NEW n \in Nat, w.copy_seq <= n, n < w.copy_seq + RecvCap
    PROVE  n \in Ahead(w)
  <1>1. w.copy_seq \in Nat /\ RecvCap \in Nat \ {0}
    BY RecvNumbers
  <1> QED
    BY <1>1 DEF Ahead

LEMMA SlideEnds ==
    ASSUME NEW w, Upright(w), NEW v, NEW u, Upright(u), NEW n \in Nat, SlideEffect(w, v, n),
           u.seq + u.size = v.seq + v.size
    PROVE  /\ u.seq + u.size \in Nat /\ w.seq + w.size <= u.seq + u.size
           /\ w.seq + w.size \in Nat /\ n < u.seq + u.size
  <1>1. w.seq \in Nat /\ w.size \in Nat /\ u.seq \in Nat /\ u.size \in Nat
    BY RecvNumbers
  <1>2. w.seq + w.size <= v.seq + v.size /\ n < v.seq + v.size
    BY DEF SlideEffect
  <1> QED
    BY <1>1, <1>2

LEMMA OneRecvFrame ==
    ASSUME MsgSegs = 1, NEW st \in [Nat -> Nat], NEW w, NEW r, OneSegRecv(st, w, r),
           NEW n, NEW data \in Seq(Nat), NewMsg(st, w, n, data)
    PROVE  LET w2 == RecvWndFrame(w, n, 0, 1, data)
           IN OneSegRecv(st, w2, r) /\ FrameEffect(w, w2, n)
  <1> DEFINE w2 == RecvWndFrame(w, n, 0, 1, data)
             v  == Slide(w, n)
             u  == StoreSeg(v, n, 0, 1, data)
             l  == LenOf(st, n)
  <1>1. /\ Upright(w) /\ n \in Nat /\ n \notin GotNos(w) /\ w.copy_seq <= n /\ n + 1 < SeqMod
        /\ l \in 1..MsgLen
    BY DEF OneSegRecv, NewMsg
  <1>2. /\ w.seq \in Nat /\ w.size \in Nat /\ w.copy_seq \in Nat /\ SeqMod \in Nat \ {0}
        /\ RecvCap \in Nat \ {0} /\ SegLen \in Nat \ {0} /\ MsgLen = SegLen
    BY <1>1, RecvNumbers, RecvSizes DEF MsgLen
  <1>3. InReach(w, n) <=> n < w.copy_seq + RecvCap
    BY <1>1, OneReach
  <1>4. CASE ~(n < w.copy_seq + RecvCap)
    <2>1. w2 = w
      BY <1>3, <1>4 DEF RecvWndFrame
    <2> HIDE DEF w2
    <2> QED
      BY <2>1 DEF FrameEffect, w2
  <1>5. CASE n < w.copy_seq + RecvCap
    <2>1. n \in Ahead(w) /\ Lacks(w, n) /\ ArrivedMsg(w, n) = EmptyMsg
      <3>1. n \in Ahead(w)
        BY <1>1, <1>5, InAhead
      <3> QED
        BY <1>1, <3>1 DEF OneSegRecv, Lacks
    <2>2. Upright(v) /\ SlideEffect(w, v, n)
      BY <1>1, <2>1, OneSlide
    <2> HIDE DEF v
    <2>3. ArrivedMsg(v, n) = EmptyMsg /\ Ahead(v) = Ahead(w)
      BY <2>1, <2>2 DEF ArrivedMsg, SlideEffect, Ahead
    <2>4. w2 = u
      <3>1. v.msg[n % RecvCap].cur_ack_vec = {}
        BY <2>3 DEF ArrivedMsg, RecvSlot, EmptyMsg
      <3> QED
        BY <1>3, <1>5, <3>1 DEF RecvWndFrame, v
    <2> HIDE DEF w2
    <2>5. Len(data) = l /\ Len(data) <= SegLen
      <3>1. l \in Nat
        BY <1>1, <1>2
      <3>2. data = [k \in 1..l |-> st[n] + k]
        BY DEF NewMsg
      <3> HIDE DEF l
      <3>3. Len(data) = l
        BY <3>1, <3>2
      <3> QED
        BY <1>1, <1>2, <3>3
    <2>6. \A x \in 0..(l - 1) : data[x + 1] = st[n] + x + 1
      <3> SUFFICES ASSUME NEW x \in 0..(l - 1) PROVE data[x + 1] = st[n] + x + 1
        OBVIOUS
      <3>1. st[n] \in Nat /\ x + 1 \in 1..l /\ x \in Nat
        BY <1>1, <1>2
      <3>2. data = [k \in 1..l |-> st[n] + k]
        BY DEF NewMsg
      <3>3. data[x + 1] = st[n] + (x + 1)
        BY <3>1, <3>2
      <3> DEFINE d == data[x + 1]
                 s == st[n]
      <3>4. d = s + (x + 1) /\ s \in Nat
        BY <3>1, <3>3
      <3> HIDE DEF d, s
      <3>5. d = s + x + 1
        BY ONLY <3>1, <3>4
      <3> QED
        BY <3>5 DEF d, s
    <2>7. OneStored(v, u, n, data)
      BY <1>1, <2>2, <2>3, <2>5, OneStore DEF Upright
    <2> HIDE DEF l
    <2>8. RecvWndOK(u)
      <3>1. n \in 0..(SeqMod - 1) /\ 0 \in 0..(MsgSegs - 1) /\ 1 \in 0..MsgSegs
        BY <1>1, <1>2
      <3>2. 0 \notin v.msg[n % RecvCap].cur_ack_vec
        BY <2>3 DEF ArrivedMsg, RecvSlot, EmptyMsg
      <3> HIDE DEF u
      <3> QED
        BY <2>2, <2>5, <3>1, <3>2, StoreSegOK DEF Upright, u
    <2> HIDE DEF u
    <2>9. Upright(u) /\ u.seq + u.size = v.seq + v.size /\ u.copy_seq = v.copy_seq
          /\ u.copy_ofs = v.copy_ofs
      BY <2>2, <2>7, <2>8 DEF OneStored, Upright
    <2>10. /\ GotNos(v) = GotNos(w) /\ DueNos(v) = DueNos(w)
           /\ v.copy_seq = w.copy_seq /\ v.copy_ofs = w.copy_ofs
           /\ v.msg = w.msg /\ v.ack = w.ack /\ v.buf = w.buf
      BY <2>2, <2>3 DEF GotNos, DueNos, ArrivedMsg, SlideEffect
    <2>11. /\ Ahead(u) = Ahead(w) /\ n \in Ahead(v)
           /\ \A m \in Ahead(v) \ {n} : /\ ArrivedMsg(u, m) = ArrivedMsg(v, m)
                                        /\ u.ack[RecvSlot(m)] = v.ack[RecvSlot(m)]
           /\ ArrivedMsg(u, n) = OneSegMsg(l) /\ u.ack[RecvSlot(n)]
           /\ GotNos(u) = GotNos(v) \cup {n} /\ DueNos(u) = DueNos(v) \cup {n}
      BY <2>1, <2>2, <2>3, <2>5, <2>7, <2>9, StoredNos
    <2>12. FrameEffect(w, u, n)
      BY <2>1, <2>9, <2>10, <2>11 DEF FrameEffect
    <2>13. ASSUME NEW m \in Ahead(w), m # n
           PROVE  /\ ArrivedMsg(u, m) = ArrivedMsg(w, m)
                  /\ u.ack[RecvSlot(m)] = w.ack[RecvSlot(m)]
                  /\ m \in GotNos(u) <=> m \in GotNos(w)
      BY <2>3, <2>10, <2>11, <2>13 DEF ArrivedMsg
    <2>14. /\ u.seq + u.size \in Nat /\ w.seq + w.size <= u.seq + u.size
           /\ w.seq + w.size \in Nat /\ n < u.seq + u.size
      BY <1>1, <2>2, <2>9, SlideEnds
    <2>15. ASSUME NEW m \in Ahead(w), m # n, Holds(st, w, m) PROVE Holds(st, u, m)
      <3>1. m \in Nat /\ RecvSlot(m) \in RecvIdx /\ RecvSlot(m) # RecvSlot(n)
        BY <1>1, <2>1, <2>15, AheadFacts, AheadDiffer
      <3>2. m < u.seq + u.size
        BY <2>14, <2>15, <3>1 DEF Holds
      <3>3. ASSUME NEW x \in 0..(LenOf(st, m) - 1)
            PROVE  u.buf[Cell(RecvSlot(m), x)] = st[m] + x + 1
        <4>1. x \in 0..(MsgLen - 1)
          BY <1>2, <2>15 DEF Holds
        <4>2. u.buf[Cell(RecvSlot(m), x)] = w.buf[Cell(RecvSlot(m), x)]
          BY <2>7, <2>10, <3>1, <4>1 DEF OneStored
        <4> QED
          BY <2>15, <4>2 DEF Holds
      <3>4. ArrivedMsg(u, m) = ArrivedMsg(w, m)
        BY <2>13, <2>15
      <3> QED
        BY <2>15, <3>2, <3>3, <3>4 DEF Holds
    <2>16. Holds(st, u, n)
      <3>1. RecvSlot(n) \in RecvIdx /\ l = LenOf(st, n)
        BY <1>1, <2>1, AheadFacts DEF l
      <3>2. ASSUME NEW x \in 0..(l - 1)
            PROVE  u.buf[Cell(RecvSlot(n), x)] = st[n] + x + 1
        <4>1. x \in 0..(MsgLen - 1) /\ x < l
          BY <1>1, <1>2
        <4>2. u.buf[Cell(RecvSlot(n), x)] = data[x + 1]
          BY <2>5, <2>7, <3>1, <4>1 DEF OneStored
        <4> QED
          BY <2>6, <4>2
      <3> QED
        BY <1>1, <2>11, <2>14, <3>1, <3>2 DEF Holds
    <2>17. ASSUME NEW m \in Ahead(u)
           PROVE  IF m \in GotNos(u) THEN Holds(st, u, m) ELSE Lacks(u, m)
      <3>1. CASE m = n
        BY <2>11, <2>16, <3>1
      <3>2. CASE m # n
        <4>1. m \in Ahead(w)
          BY <2>11
        <4>2. IF m \in GotNos(w) THEN Holds(st, w, m) ELSE Lacks(w, m)
          BY <4>1 DEF OneSegRecv
        <4>3. Lacks(w, m) => Lacks(u, m)
          BY <2>13, <3>2, <4>1 DEF Lacks
        <4> QED
          BY <2>13, <2>15, <3>2, <4>1, <4>2, <4>3
      <3> QED
        BY <3>1, <3>2
    <2>18. ReadUpTo(st, u, r)
      BY <2>9, <2>10, <2>11 DEF OneSegRecv, ReadUpTo
    <2>19. OneSegRecv(st, u, r)
      BY <2>9, <2>17, <2>18 DEF OneSegRecv
    <2> QED
      BY <2>4, <2>12, <2>19 DEF w2
  <1> QED
    BY <1>4, <1>5

----------------------------------------------------------------------------
(* arq__recv_wnd_ack and arq__recv_poll *)

LEMMA AcksDueNos ==
    ASSUME NEW st \in [Nat -> Nat], NEW w, NEW r, OneSegRecv(st, w, r), NEW i \in AcksDue(w)
    PROVE  w.seq + i \in DueNos(w) /\ w.seq + i < SeqMod
  <1> DEFINE m == w.seq + i
             n == m + RecvCap
  <1>1. /\ w.seq \in Nat /\ w.size \in Nat /\ w.slide \in Nat /\ w.copy_seq \in Nat
        /\ w.copy_seq = w.seq + w.slide /\ w.slide <= w.size /\ w.size <= RecvCap
        /\ SeqMod \in Nat \ {0} /\ RecvCap \in Nat \ {0}
    BY RecvNumbers DEF OneSegRecv
  <1>2. /\ i \in 0..(w.size - 1) /\ w.ack[RecvSlot(m)]
    BY DEF AcksDue, RecvSlot
  <1>3. m \in Nat /\ m < w.seq + w.size /\ w.seq <= m
    BY <1>1, <1>2
  <1>4. Upright(w)
    BY DEF OneSegRecv
  <1>5. ASSUME NEW k \in Ahead(w), w.ack[RecvSlot(k)]
        PROVE  k < w.seq + w.size /\ k + 1 < SeqMod
    BY <1>5 DEF OneSegRecv, Lacks, Holds
  <1> HIDE DEF m
  <1>6. ASSUME m < w.copy_seq PROVE FALSE
    <2>1. n \in Nat /\ w.copy_seq <= n /\ n < w.copy_seq + RecvCap /\ RecvCap <= n
          /\ n - RecvCap = m
      BY <1>1, <1>3, <1>6
    <2>2. RecvSlot(n) = RecvSlot(m)
      BY <1>1, <2>1, RingPeriod DEF RecvSlot
    <2>3. n \in Ahead(w)
      BY <1>4, <2>1, InAhead
    <2>4. n < w.seq + w.size
      BY <1>2, <1>5, <2>2, <2>3
    <2> QED
      BY <1>1, <1>3, <2>1, <2>4
  <1>7. m \in Ahead(w)
    BY <1>1, <1>3, <1>4, <1>6, InAhead
  <1>8. m + 1 < SeqMod
    BY <1>2, <1>5, <1>7
  <1> QED
    BY <1>1, <1>2, <1>3, <1>7, <1>8 DEF DueNos, m

LEMMA NoAcksDue ==
    ASSUME NEW st \in [Nat -> Nat], NEW w, NEW r, OneSegRecv(st, w, r), AcksDue(w) = {}
    PROVE  DueNos(w) = {} /\ \A i \in RecvIdx : ~w.ack[i]
  <1>1. /\ w.seq \in Nat /\ w.size \in Nat /\ w.slide \in Nat /\ w.copy_seq \in Nat
        /\ w.copy_seq = w.seq + w.slide
    BY RecvNumbers DEF OneSegRecv
  <1>2. Upright(w)
    BY DEF OneSegRecv
  <1>3. ASSUME NEW n \in DueNos(w) PROVE FALSE
    <2>1. n \in Ahead(w) /\ w.ack[RecvSlot(n)]
      BY DEF DueNos
    <2>2. n < w.seq + w.size
      BY <2>1 DEF OneSegRecv, Lacks, Holds
    <2>3. n \in Nat /\ w.copy_seq <= n
      BY <1>2, <2>1, AheadFacts
    <2>4. n - w.seq \in 0..(w.size - 1) /\ w.seq + (n - w.seq) = n
      BY <1>1, <2>2, <2>3
    <2>5. n - w.seq \in AcksDue(w)
      BY <2>1, <2>4 DEF AcksDue, RecvSlot
    <2> QED
      BY <2>5
  <1>4. ASSUME NEW i \in RecvIdx, w.ack[i] PROVE FALSE
    <2>1. PICK n \in Ahead(w) : RecvSlot(n) = i
      BY <1>2, AheadCovers
    <2> QED
      BY <1>3, <1>4, <2>1 DEF DueNos
  <1> QED
    BY <1>3, <1>4

(* The message that a header acknowledges. *)
AckOf(sh) == IF sh.ack THEN {sh.ack_num} ELSE {}

(* What a poll does that takes the messages of got: what it does not acknowledge
   stays due. *)
Polled(w, w2, got, psh, sh) ==
    /\ w2.copy_seq = w.copy_seq
    /\ GotNos(w2) = GotNos(w) \cup got
    /\ DueNos(w2) \cup AckOf(sh) = DueNos(w) \cup got
    /\ sh.ack => sh.ack_num \in GotNos(w2) /\ sh.cur_ack_vec = {0}
    /\ ~psh => sh = FrameHdrInit

LEMMA OneAckPoll ==
    ASSUME NEW st \in [Nat -> Nat], NEW w, NEW r, OneSegRecv(st, w, r), NEW psh, NEW rh
    PROVE  LET p == RecvAckPoll(w, psh, FrameHdrInit, rh)
           IN OneSegRecv(st, p.rw, r) /\ Polled(w, p.rw, {}, psh, p.sh)
  <1> DEFINE p == RecvAckPoll(w, psh, FrameHdrInit, rh)
             n == w.seq + Min(AcksDue(w))
             k == RecvSlot(n)
  <1>1. ~FrameHdrInit.ack
    BY DEF FrameHdrInit
  <1>2. CASE ~psh \/ AcksDue(w) = {}
    <2>1. p.rw = w /\ p.sh = FrameHdrInit
      BY <1>2 DEF RecvAckPoll
    <2> HIDE DEF p
    <2> QED
      BY <1>1, <2>1 DEF Polled, AckOf, p
  <1>3. CASE ~(~psh \/ AcksDue(w) = {})
    <2>1. n \in DueNos(w) /\ n < SeqMod
      <3>1. AcksDue(w) \subseteq Nat
        BY DEF AcksDue
      <3>2. Min(AcksDue(w)) \in AcksDue(w)
        BY <1>3, <3>1, MinOfNats
      <3> QED
        BY <3>2, AcksDueNos
    <2>2. /\ Upright(w) /\ n \in Ahead(w) /\ n \in Nat /\ n \in 0..(SeqMod - 1)
          /\ SeqMod \in Nat \ {0} /\ w.ack[k] /\ k \in RecvIdx
          /\ w \in RecvWndType /\ w.ack \in [RecvIdx -> BOOLEAN]
      BY <2>1, AheadFacts, RecvNumbers DEF OneSegRecv, DueNos
    <2>3. n \in GotNos(w) /\ Holds(st, w, n)
      BY <2>2 DEF OneSegRecv, Lacks
    <2>4. ArrivedMsg(w, n).cur_ack_vec = {0}
      BY <2>3 DEF Holds, OneSegMsg
    <2>5. n % SeqMod = n
      BY <2>2, ModSmall
    <2> DEFINE ack2 == [w.ack EXCEPT ![k] = FALSE]
               u    == [w EXCEPT !.ack = ack2]
               sh2  == [FrameHdrInit EXCEPT !.ack = TRUE, !.ack_num = n, !.cur_ack_vec = {0}]
    <2>6. p.rw = u /\ p.sh = sh2
      <3>1. p = [rw |-> [w EXCEPT !.ack[k] = FALSE],
                 sh |-> [FrameHdrInit EXCEPT !.ack = TRUE, !.ack_num = n % SeqMod,
                                             !.cur_ack_vec = w.msg[k].cur_ack_vec],
                 rh |-> rh]
        BY <1>3 DEF RecvAckPoll, RecvSlot
      <3>2. w.msg[k].cur_ack_vec = {0}
        BY <2>4 DEF ArrivedMsg
      <3> HIDE DEF n, k, p
      <3> QED
        BY <2>2, <2>5, <3>1, <3>2 DEF RecvWndType
    <2> HIDE DEF p, n, k
    <2>7. sh2.ack /\ sh2.ack_num = n /\ sh2.cur_ack_vec = {0}
      BY DEF FrameHdrInit
    <2> HIDE DEF sh2
    <2>8. ack2 \in [RecvIdx -> BOOLEAN] /\ ~ack2[k] /\ \A i \in RecvIdx : i # k => ack2[i] = w.ack[i]
      BY <2>2
    <2> HIDE DEF ack2
    <2>9. /\ u.seq = w.seq /\ u.size = w.size /\ u.slide = w.slide /\ u.copy_seq = w.copy_seq
          /\ u.copy_ofs = w.copy_ofs /\ u.inter_seg_ack_on = w.inter_seg_ack_on
          /\ u.msg = w.msg /\ u.buf = w.buf /\ u.ack = ack2 /\ u \in RecvWndType
      BY <2>2, <2>8 DEF RecvWndType
    <2> HIDE DEF u
    <2>10. Upright(u) /\ GotNos(u) = GotNos(w) /\ Ahead(u) = Ahead(w)
      BY <2>2, <2>9 DEF Upright, RecvWndOK, GotNos, Ahead, ArrivedMsg
    <2>11. ASSUME NEW m \in Ahead(w), m # n PROVE u.ack[RecvSlot(m)] = w.ack[RecvSlot(m)]
      <3>1. RecvSlot(m) \in RecvIdx /\ RecvSlot(m) # k
        BY <2>2, <2>11, AheadFacts, AheadDiffer DEF k
      <3> QED
        BY <2>8, <2>9, <3>1
    <2>12. ~u.ack[RecvSlot(n)]
      BY <2>8, <2>9 DEF k
    <2>13. ASSUME NEW m \in Ahead(u)
           PROVE  IF m \in GotNos(u) THEN Holds(st, u, m) ELSE Lacks(u, m)
      <3>1. m \in Ahead(w) /\ (IF m \in GotNos(w) THEN Holds(st, w, m) ELSE Lacks(w, m))
        BY <2>10 DEF OneSegRecv
      <3>2. Holds(st, w, m) => Holds(st, u, m)
        BY <2>9 DEF Holds, ArrivedMsg
      <3>3. Lacks(w, m) => Lacks(u, m)
        BY <2>9, <2>11, <2>12, <3>1 DEF Lacks, ArrivedMsg
      <3> QED
        BY <2>10, <3>1, <3>2, <3>3
    <2>14. OneSegRecv(st, u, r)
      <3>1. ReadUpTo(st, u, r)
        BY <2>9, <2>10 DEF OneSegRecv, ReadUpTo
      <3> QED
        BY <2>10, <2>13, <3>1 DEF OneSegRecv
    <2>15. DueNos(u) \cup AckOf(sh2) = DueNos(w) \cup {}
      <3>1. \A m : m \in DueNos(u) <=> m \in Ahead(w) /\ u.ack[RecvSlot(m)]
        BY <2>10 DEF DueNos
      <3>2. \A m : m \in DueNos(w) <=> m \in Ahead(w) /\ w.ack[RecvSlot(m)]
        BY DEF DueNos
      <3>3. \A m : m \in DueNos(u) \/ m = n <=> m \in DueNos(w)
        BY ZenonT(40), <2>1, <2>11, <2>12, <3>1, <3>2
      <3>4. AckOf(sh2) = {n}
        BY <2>7 DEF AckOf
      <3> QED
        BY <3>3, <3>4
    <2>16. Polled(w, u, {}, psh, sh2)
      BY <1>3, <2>3, <2>7, <2>9, <2>10, <2>15 DEF Polled
    <2> QED
      BY <2>6, <2>14, <2>16 DEF p
  <1> QED
    BY <1>2, <1>3

(* A frame that arq__recv_poll takes: with a message that is not here, or without. *)
NewFrame(st, w, f) ==
    /\ f.ok
    /\ f.hdr.seg => /\ f.hdr.seg_id = 0 /\ f.hdr.msg_len = 1
                    /\ f.data \in Seq(Nat) /\ NewMsg(st, w, f.hdr.seq_num, f.data)

(* The messages that a frame buffer brings. *)
Brought(rf) == IF rf # <<>> /\ Head(rf).hdr.seg THEN {Head(rf).hdr.seq_num} ELSE {}

LEMMA OneRecvPoll ==
    ASSUME MsgSegs = 1, NEW st \in [Nat -> Nat], NEW w, NEW r, OneSegRecv(st, w, r),
           NEW rf, rf = <<>> \/ \E f : rf = <<f>> /\ NewFrame(st, w, f), NEW psh, NEW dt
    PROVE  LET p == RecvPoll(w, rf, psh, FrameHdrInit, dt)
           IN /\ OneSegRecv(st, p.rw, r)
              /\ \E got \in SUBSET Brought(rf) : Polled(w, p.rw, got, psh, p.sh)
  <1> DEFINE rh == IF rf = <<>> THEN FrameHdrInit ELSE Head(rf).hdr
             f  == Head(rf)
             t  == IF rh.seg /\ f.ok
                   THEN RecvWndFrame(w, rh.seq_num, rh.seg_id, rh.msg_len, f.data) ELSE w
             p  == RecvPoll(w, rf, psh, FrameHdrInit, dt)
  <1>1. /\ OneSegRecv(st, t, r)
        /\ \E got \in SUBSET Brought(rf) :
              /\ t.copy_seq = w.copy_seq /\ GotNos(t) = GotNos(w) \cup got
              /\ DueNos(t) = DueNos(w) \cup got
    <2>1. CASE t = w
      <3> HIDE DEF t
      <3>1. {} \in SUBSET Brought(rf) /\ GotNos(w) = GotNos(w) \cup {} /\ DueNos(w) = DueNos(w) \cup {}
        OBVIOUS
      <3> QED
        BY <2>1, <3>1
    <2>2. CASE rf # <<>> /\ f.hdr.seg
      <3>1. NewFrame(st, w, f) /\ rh = f.hdr
        BY <2>2
      <3> DEFINE n == f.hdr.seq_num
                 v == RecvWndFrame(w, n, 0, 1, f.data)
      <3>2. f.data \in Seq(Nat) /\ NewMsg(st, w, n, f.data) /\ t = v
        BY <2>2, <3>1 DEF NewFrame
      <3>3. OneSegRecv(st, v, r) /\ FrameEffect(w, v, n)
        <4> HIDE DEF n, t, f, rh
        <4> QED
          BY <3>2, OneRecvFrame
      <3>4. CASE t = w
        BY <2>1, <3>4
      <3>5. CASE t # w
        <4>1. {n} \in SUBSET Brought(rf)
          BY <2>2 DEF Brought
        <4> HIDE DEF t, v, n, rh, f
        <4> QED
          BY <3>2, <3>3, <3>5, <4>1 DEF FrameEffect
      <3> QED
        BY <3>4, <3>5
    <2>3. CASE ~(rf # <<>> /\ f.hdr.seg)
      <3>1. ~rh.seg
        BY <2>3 DEF FrameHdrInit
      <3> QED
        BY <2>1, <3>1
    <2> QED
      BY <2>2, <2>3
  <1>2. p = RecvAckPoll(RecvTimer(t, dt), psh, FrameHdrInit, rh)
    BY DEF RecvPoll
  <1> HIDE DEF t, rh, f
  <1>3. RecvTimer(t, dt) = t
    BY <1>1 DEF RecvTimer, OneSegRecv, Upright
  <1>4. OneSegRecv(st, p.rw, r) /\ Polled(t, p.rw, {}, psh, p.sh)
    BY <1>1, <1>2, <1>3, OneAckPoll
  <1> HIDE DEF p
  <1>5. PICK got \in SUBSET Brought(rf) :
              /\ t.copy_seq = w.copy_seq /\ GotNos(t) = GotNos(w) \cup got
              /\ DueNos(t) = DueNos(w) \cup got
    BY <1>1
  <1>6. Polled(w, p.rw, got, psh, p.sh)
    BY <1>4, <1>5 DEF Polled
  <1> QED
    BY <1>4, <1>6 DEF p

----------------------------------------------------------------------------
(* arq__recv_wnd_recv *)

LEMMA CopySlotIs ==
    ASSUME NEW w, NEW i
    PROVE  CopySlot(w, i) = RecvSlot(w.copy_seq + i)
  BY DEF CopySlot, RecvSlot

(* Message copy_seq + Deliverable is the first that is not here. *)
LEMMA OneDeliverable ==
    ASSUME MsgSegs = 1, NEW st \in [Nat -> Nat], NEW w, NEW r, OneSegRecv(st, w, r)
    PROVE  /\ Deliverable(w) \in Nat
           /\ w.slide + Deliverable(w) <= w.size
           /\ \A i \in 0..(Deliverable(w) - 1) :
                 /\ w.copy_seq + i \in Ahead(w) /\ w.copy_seq + i \in GotNos(w)
                 /\ Holds(st, w, w.copy_seq + i)
           /\ w.copy_seq + Deliverable(w) \notin GotNos(w)
  <1> DEFINE Stop == {i \in 0..(w.size - 1) : LET m == w.msg[CopySlot(w, i)]
                                              IN m.len = 0 \/ ~Complete(m)}
             d == Deliverable(w)
             c == w.copy_seq
  <1>1. /\ w.seq \in Nat /\ w.size \in Nat /\ w.slide \in Nat /\ c \in Nat
        /\ c = w.seq + w.slide /\ w.slide <= w.size /\ w.size <= RecvCap
        /\ RecvCap \in Nat \ {0} /\ Upright(w)
    BY RecvNumbers DEF OneSegRecv
  <1>2. d \in {w.size} \cup Stop /\ \A x \in {w.size} \cup Stop : d <= x
    <2>1. {w.size} \cup Stop \subseteq Nat
      BY <1>1
    <2>2. d = Min({w.size} \cup Stop)
      BY DEF Deliverable
    <2> HIDE DEF Stop, d
    <2> QED
      BY <2>1, <2>2, MinOfNats
  <1>3. d \in Nat /\ d <= w.size
    BY <1>1, <1>2
  <1> HIDE DEF d
  <1>4. ASSUME NEW i \in Nat, c + i \in Ahead(w)
        PROVE  /\ IF c + i \in GotNos(w) THEN Holds(st, w, c + i) ELSE Lacks(w, c + i)
               /\ c + i \in GotNos(w) => c + i < w.seq + w.size
               /\ i \in 0..(w.size - 1) => (i \in Stop <=> c + i \notin GotNos(w))
    <2>1. IF c + i \in GotNos(w) THEN Holds(st, w, c + i) ELSE Lacks(w, c + i)
      BY <1>4 DEF OneSegRecv
    <2>2. w.msg[CopySlot(w, i)] = ArrivedMsg(w, c + i)
      BY CopySlotIs DEF ArrivedMsg
    <2> DEFINE l == LenOf(st, c + i)
    <2>3. Holds(st, w, c + i) => /\ ArrivedMsg(w, c + i).len # 0
                                 /\ Complete(ArrivedMsg(w, c + i))
      <3>1. Holds(st, w, c + i) => l # 0 /\ ArrivedMsg(w, c + i) = OneSegMsg(l)
        <4>1. Holds(st, w, c + i) => l \in 1..MsgLen /\ ArrivedMsg(w, c + i) = OneSegMsg(l)
          BY DEF Holds
        <4>2. MsgLen \in Nat
          BY RecvSizes
        <4> HIDE DEF l
        <4> QED
          BY <4>1, <4>2
      <3> HIDE DEF l
      <3> QED
        BY <3>1 DEF OneSegMsg, Complete
    <2>4. Lacks(w, c + i) => ArrivedMsg(w, c + i).len = 0
      BY DEF Lacks, EmptyMsg
    <2>5. i \in 0..(w.size - 1) => (i \in Stop <=> c + i \notin GotNos(w))
      BY <2>1, <2>2, <2>3, <2>4
    <2> QED
      BY <2>1, <2>5 DEF Holds
  <1> HIDE DEF Stop
  <1>5. ASSUME NEW i \in 0..(d - 1)
        PROVE  c + i \in Ahead(w) /\ c + i \in GotNos(w) /\ Holds(st, w, c + i)
    <2>1. i \in Nat /\ i < d /\ i \in 0..(w.size - 1)
      BY <1>1, <1>3
    <2>2. c + i \in Nat /\ c <= c + i /\ c + i < c + RecvCap
      BY <1>1, <1>3, <2>1
    <2>3. c + i \in Ahead(w)
      <3> DEFINE n == c + i
      <3> HIDE DEF n
      <3> QED
        BY <1>1, <2>2, InAhead DEF n
    <2>4. i \notin Stop
      BY <1>2, <1>3, <2>1
    <2> QED
      BY <1>4, <2>1, <2>3, <2>4
  <1>6. w.slide + d <= w.size
    <2>1. CASE d = 0
      BY <1>1, <2>1
    <2>2. CASE d # 0
      <3>1. d - 1 \in 0..(d - 1) /\ d - 1 \in Nat
        BY <1>3, <2>2
      <3>2. c + (d - 1) < w.seq + w.size
        BY <1>4, <1>5, <3>1
      <3> QED
        BY <1>1, <1>3, <3>2
    <2> QED
      BY <2>1, <2>2
  <1>7. ASSUME c + d \in GotNos(w) PROVE FALSE
    <2>1. c + d <= c + RecvCap - 1
      BY <1>7 DEF GotNos
    <2>2. c + d \in Nat /\ c <= c + d /\ c + d < c + RecvCap
      BY <1>1, <1>3, <2>1
    <2>3. c + d \in Ahead(w)
      <3> DEFINE n == c + d
      <3> HIDE DEF n
      <3> QED
        BY <1>1, <2>2, InAhead DEF n
    <2>4. c + d < w.seq + w.size
      BY <1>3, <1>4, <1>7, <2>3
    <2>5. d \in 0..(w.size - 1) /\ d # w.size
      BY <1>1, <1>3, <2>4
    <2> QED
      BY <1>2, <1>3, <1>4, <1>7, <2>3, <2>5
  <1> QED
    BY <1>3, <1>5, <1>6, <1>7 DEF d

(* The lengths of the messages that can be copied are those of the stream. *)
LEMMA OneBytesBefore ==
    ASSUME MsgSegs = 1, NEW st \in [Nat -> Nat], NEW w, NEW r, OneSegRecv(st, w, r)
    PROVE  /\ \A k \in Nat : BytesBefore(w, k) \in Nat
           /\ BytesBefore(w, 0) = 0
           /\ \A k \in 0..Deliverable(w) : st[w.copy_seq] + BytesBefore(w, k) = st[w.copy_seq + k]
  <1> DEFINE d == Deliverable(w)
             c == w.copy_seq
             B(k) == BytesBefore(w, k)
             L(k) == w.msg[CopySlot(w, k)].len
  <1>1. /\ d \in Nat
        /\ \A i \in 0..(d - 1) : Holds(st, w, c + i)
    BY OneDeliverable
  <1>2. w.msg \in [RecvIdx -> MsgType] /\ c \in Nat /\ MsgLen \in Nat
    BY RecvNumbers, RecvSizes DEF OneSegRecv
  <1> HIDE DEF d, c
  <1>3. \A k \in Nat : L(k) \in Nat
    <2>1. ASSUME NEW k \in Nat PROVE CopySlot(w, k) \in RecvIdx
      <3>1. c + k \in Nat
        BY <1>2
      <3> QED
        BY <3>1, RecvSlotType DEF CopySlot, c
    <2> QED
      BY <1>2, <2>1 DEF MsgType
  <1>4. B(0) = 0 /\ \A k \in Nat : B(k) \in Nat /\ B(k + 1) = B(k) + L(k)
    BY <1>3, BytesBeforeFacts
  <1> HIDE DEF B
  <1>5. ASSUME NEW k \in 0..(d - 1) PROVE L(k) = LenOf(st, c + k)
    <2>1. L(k) = ArrivedMsg(w, c + k).len
      BY CopySlotIs DEF ArrivedMsg, c
    <2>2. ArrivedMsg(w, c + k) = OneSegMsg(LenOf(st, c + k))
      BY <1>1 DEF Holds
    <2> QED
      BY <2>1, <2>2 DEF OneSegMsg
  <1> HIDE DEF L
  <1> DEFINE T == {k \in Nat : k <= d => st[c] + B(k) = st[c + k]}
  <1>6. 0 \in T
    <2>1. st[c] \in Nat /\ c + 0 = c
      BY <1>2
    <2> QED
      BY <1>4, <2>1
  <1>7. ASSUME NEW k \in T PROVE k + 1 \in T
    <2> SUFFICES ASSUME k + 1 <= d PROVE st[c] + B(k + 1) = st[c + (k + 1)]
      OBVIOUS
    <2>1. k \in 0..(d - 1) /\ k \in Nat /\ st[c] + B(k) = st[c + k]
      BY <1>1
    <2>2. c + (k + 1) = (c + k) + 1 /\ c + k \in Nat /\ (c + k) + 1 \in Nat
      BY <1>2, <2>1
    <2>3. st[c] \in Nat /\ st[c + k] \in Nat /\ st[(c + k) + 1] \in Nat
      BY <1>2, <2>2
    <2>4. B(k) \in Nat /\ B(k + 1) = B(k) + (st[(c + k) + 1] - st[c + k])
      BY <1>4, <1>5, <2>1 DEF LenOf
    <2> QED
      BY <2>1, <2>2, <2>3, <2>4
  <1> HIDE DEF T
  <1>8. T = Nat
    <2>1. T \subseteq Nat
      BY DEF T
    <2> QED
      BY <1>6, <1>7, <2>1, InductionOnSet
  <1>9. ASSUME NEW k \in 0..d PROVE st[c] + B(k) = st[c + k]
    <2>1. k \in T /\ k <= d
      BY <1>1, <1>8
    <2> QED
      BY <2>1 DEF T
  <1> QED
    BY <1>4, <1>9 DEF B, d, c

CopyEnd(w, max) == w.copy_ofs + RecvCount(w, max)

(* How many messages arq_recv finishes. *)
Done(w, max) == Max({k \in 0..Deliverable(w) : BytesBefore(w, k) <= CopyEnd(w, max)})

LEMMA OneCount ==
    ASSUME MsgSegs = 1, NEW st \in [Nat -> Nat], NEW w, NEW r, OneSegRecv(st, w, r),
           NEW max \in Nat
    PROVE  /\ RecvCount(w, max) \in Nat
           /\ RecvCount(w, max) > 0 => Deliverable(w) > 0
           /\ CopyEnd(w, max) \in Nat
           /\ CopyEnd(w, max) <= BytesBefore(w, Deliverable(w))
           /\ Done(w, max) \in 0..Deliverable(w)
           /\ BytesBefore(w, Done(w, max)) <= CopyEnd(w, max)
           /\ Done(w, max) < Deliverable(w) =>
                 CopyEnd(w, max) < BytesBefore(w, Done(w, max) + 1)
  <1> DEFINE d == Deliverable(w)
             c == w.copy_seq
             B(k) == BytesBefore(w, k)
             n == RecvCount(w, max)
             e == CopyEnd(w, max)
             S == {k \in 0..d : B(k) <= e}
             done == Done(w, max)
             l == LenOf(st, c)
  <1>1. /\ d \in Nat /\ c + d \notin GotNos(w)
        /\ \A i \in 0..(d - 1) : Holds(st, w, c + i)
    BY OneDeliverable
  <1>2. /\ \A k \in Nat : B(k) \in Nat
        /\ B(0) = 0
        /\ \A k \in 0..d : st[c] + B(k) = st[c + k]
    BY OneBytesBefore
  <1>3. c \in Nat /\ w.copy_ofs \in Nat /\ MsgLen \in Nat
    BY RecvNumbers, RecvSizes DEF OneSegRecv
  <1>4. n = IF d = 0 THEN 0 ELSE Min2(max, B(d) - w.copy_ofs)
    BY DEF RecvCount
  <1>5. e = w.copy_ofs + n /\ done = Max(S)
    BY DEF CopyEnd, Done
  <1>6. w.copy_ofs > 0 => c \in GotNos(w) /\ w.copy_ofs < l
    BY DEF OneSegRecv, ReadUpTo
  <1> HIDE DEF d, B, n, e, done, l, c
  <1>7. ASSUME NEW i \in 0..(d - 1)
        PROVE  B(i) \in Nat /\ B(i + 1) \in Nat /\ B(i) < B(i + 1) /\ (i = 0 => B(i + 1) = l)
    <2>1. i \in Nat /\ i \in 0..d /\ i + 1 \in 0..d /\ i + 1 \in Nat
      BY <1>1
    <2>2. B(i) \in Nat /\ B(i + 1) \in Nat /\ st[c] + B(i) = st[c + i]
          /\ st[c] + B(i + 1) = st[c + (i + 1)]
      BY <1>2, <2>1
    <2>3. st[c] \in Nat /\ st[c + i] \in Nat /\ st[c + (i + 1)] \in Nat
      BY <1>3, <2>1
    <2>4. LenOf(st, c + i) = st[c + (i + 1)] - st[c + i]
      <3>1. c + (i + 1) = (c + i) + 1
        BY <1>3, <2>1
      <3> QED
        BY <3>1 DEF LenOf
    <2>5. LenOf(st, c + i) \in 1..MsgLen
      BY <1>1 DEF Holds
    <2>6. LenOf(st, c + i) > 0
      BY <1>3, <2>5
    <2>7. i = 0 => LenOf(st, c + i) = l /\ B(i) = 0
      <3>1. c + 0 = c
        BY <1>3
      <3> QED
        BY <1>2, <3>1 DEF l
    <2> QED
      BY <2>2, <2>3, <2>4, <2>6, <2>7
  <1>8. w.copy_ofs <= B(d)
    <2>1. CASE w.copy_ofs = 0
      BY <1>1, <1>2, <2>1
    <2>2. CASE w.copy_ofs > 0
      <3>1. d # 0
        <4>1. c + 0 = c
          BY <1>3
        <4> QED
          BY <1>1, <1>6, <2>2, <4>1
      <3>2. 0 \in 0..(d - 1) /\ d - 1 \in 0..(d - 1)
        BY <1>1, <3>1
      <3>3. B(0 + 1) = l
        BY <1>7, <3>2
      <3> DEFINE T == {k \in Nat : k + 1 <= d => l <= B(k + 1)}
      <3>4. 0 \in T
        <4>1. B(0 + 1) \in Nat
          BY <1>7, <3>2
        <4> QED
          BY <3>3, <4>1
      <3>5. ASSUME NEW k \in T PROVE k + 1 \in T
        <4> SUFFICES ASSUME (k + 1) + 1 <= d PROVE l <= B((k + 1) + 1)
          OBVIOUS
        <4>1. k + 1 \in 0..(d - 1) /\ k + 1 <= d
          BY <1>1
        <4>2. B(k + 1) < B((k + 1) + 1) /\ B(k + 1) \in Nat /\ B((k + 1) + 1) \in Nat
          BY <1>7, <4>1
        <4>3. l <= B(k + 1) /\ l \in Nat
          <5>1. l \in Nat
            BY <1>7, <3>2, <3>3
          <5> QED
            BY <4>1, <5>1
        <4> QED
          BY <4>2, <4>3
      <3> HIDE DEF T
      <3>6. T = Nat
        <4>1. T \subseteq Nat
          BY DEF T
        <4> QED
          BY <3>4, <3>5, <4>1, InductionOnSet
      <3>7. d - 1 \in T /\ (d - 1) + 1 = d
        BY <1>1, <3>1, <3>6
      <3>8. l <= B(d) /\ l \in Nat /\ B(d) \in Nat
        <4>1. l \in Nat
          BY <1>7, <3>2, <3>3
        <4>2. B(d) \in Nat
          BY <1>1, <1>2
        <4> QED
          BY <3>7, <4>1, <4>2 DEF T
      <3> QED
        BY <1>3, <1>6, <2>2, <3>8
    <2> QED
      BY <1>3, <2>1, <2>2
  <1>9. n \in Nat /\ e <= B(d) /\ (n > 0 => d > 0)
    <2>1. B(d) \in Nat
      BY <1>1, <1>2
    <2> QED
      BY <1>1, <1>3, <1>4, <1>5, <1>8, <2>1 DEF Min2
  <1>10. e \in Nat
    BY <1>3, <1>5, <1>9
  <1>11. done \in S /\ \A k \in S : k <= done
    <2>1. S \subseteq 0..d
      OBVIOUS
    <2>2. S # {}
      <3>1. 0 \in S
        BY <1>1, <1>2, <1>10
      <3> QED
        BY <3>1
    <2> HIDE DEF S
    <2> QED
      BY <1>1, <1>5, <2>1, <2>2, MaxUpTo
  <1>12. ASSUME done < d PROVE e < B(done + 1)
    <2>1. done \in 0..d /\ done \in Nat /\ done + 1 \in 0..d /\ ~(done + 1 <= done)
          /\ done + 1 \in Nat
      BY <1>1, <1>11, <1>12
    <2>2. ~(B(done + 1) <= e)
      BY <1>11, <2>1
    <2>3. B(done + 1) \in Nat
      BY <1>2, <2>1
    <2> QED
      BY <1>10, <2>2, <2>3
  <1> QED
    BY <1>9, <1>10, <1>11, <1>12 DEF d, B, n, e, done

LEMMA OneCopyByte ==
    ASSUME MsgSegs = 1, NEW st \in [Nat -> Nat], NEW w, NEW r, OneSegRecv(st, w, r),
           NEW b \in Nat, b < BytesBefore(w, Deliverable(w)), Deliverable(w) > 0
    PROVE  CopyByte(w, b) = st[w.copy_seq] + b + 1
  <1> DEFINE d == Deliverable(w)
             c == w.copy_seq
             B(k) == BytesBefore(w, k)
             S == {k \in 0..(d - 1) : B(k) <= b}
             i == Max(S)
             x == b - B(i)
             n == c + i
  <1>1. /\ d \in Nat /\ d > 0
        /\ \A k \in 0..(d - 1) : c + k \in Ahead(w) /\ Holds(st, w, c + k)
    BY OneDeliverable
  <1>2. /\ \A k \in Nat : B(k) \in Nat
        /\ B(0) = 0
        /\ \A k \in 0..d : st[c] + B(k) = st[c + k]
        /\ b < B(d)
    BY OneBytesBefore
  <1>3. c \in Nat /\ MsgLen \in Nat /\ Upright(w)
    BY RecvNumbers, RecvSizes DEF OneSegRecv
  <1>4. CopyByte(w, b) = w.buf[RecvSlot(n) * MsgLen + b - B(i)]
    BY CopySlotIs DEF CopyByte
  <1> HIDE DEF d, B, c
  <1>5. i \in S /\ \A k \in S : k <= i
    <2>1. S \subseteq 0..d
      BY <1>1
    <2>2. S # {}
      <3>1. 0 \in S
        BY <1>1, <1>2
      <3> QED
        BY <3>1
    <2> HIDE DEF S
    <2> QED
      BY <1>1, <2>1, <2>2, MaxUpTo
  <1> HIDE DEF i
  <1>6. /\ i \in 0..(d - 1) /\ i \in 0..d /\ i \in Nat /\ i < d /\ i + 1 \in 0..d
        /\ B(i) <= b /\ B(i) \in Nat
    BY <1>1, <1>2, <1>5
  <1>7. n \in Ahead(w) /\ Holds(st, w, n) /\ n \in Nat /\ RecvSlot(n) \in RecvIdx
    BY <1>1, <1>3, <1>6, AheadFacts
  <1>8. b < B(i + 1) /\ B(i + 1) \in Nat
    <2>1. B(i + 1) \in Nat
      <3>1. i + 1 \in Nat
        BY <1>6
      <3> QED
        BY <1>2, <3>1
    <2>2. CASE i + 1 = d
      BY <1>2, <2>1, <2>2
    <2>3. CASE i + 1 < d
      <3>1. i + 1 \in 0..(d - 1) /\ ~(i + 1 <= i)
        BY <1>1, <1>6, <2>3
      <3>2. ~(B(i + 1) <= b)
        BY <1>5, <3>1
      <3> QED
        BY <2>1, <3>2
    <2> QED
      BY <1>1, <1>6, <2>1, <2>2, <2>3
  <1>9. /\ st[c] \in Nat /\ st[n] \in Nat /\ st[n + 1] \in Nat
        /\ st[c] + B(i) = st[n] /\ st[c] + B(i + 1) = st[n + 1]
    <2>1. c + (i + 1) = n + 1 /\ n + 1 \in Nat
      BY <1>3, <1>6
    <2>2. st[c] + B(i) = st[c + i] /\ st[c] + B(i + 1) = st[c + (i + 1)]
      BY <1>2, <1>6
    <2>3. n = c + i
      OBVIOUS
    <2> HIDE DEF n
    <2> QED
      BY <1>3, <1>7, <2>1, <2>2, <2>3
  <1>10. x \in 0..(LenOf(st, n) - 1)
    <2> HIDE DEF n
    <2>1. b - B(i) < st[n + 1] - st[n] /\ b - B(i) \in Nat
      BY <1>6, <1>8, <1>9
    <2>2. st[n + 1] - st[n] \in Int
      BY <1>9
    <2> QED
      BY <2>1, <2>2 DEF LenOf
  <1>11. w.buf[Cell(RecvSlot(n), x)] = st[n] + x + 1
    <2> HIDE DEF x, n
    <2> QED
      BY <1>7, <1>10 DEF Holds
  <1>12. RecvSlot(n) * MsgLen + b - B(i) = Cell(RecvSlot(n), x)
    <2> DEFINE s == RecvSlot(n)
    <2>1. s \in Nat
      BY <1>7 DEF RecvIdx
    <2> HIDE DEF s, n
    <2>2. s * MsgLen \in Nat
      BY <1>3, <2>1
    <2>3. s * MsgLen + b - B(i) = s * MsgLen + (b - B(i))
      BY <1>6, <2>2
    <2> QED
      BY <2>3 DEF Cell, s
  <1>13. st[n] + x + 1 = st[c] + b + 1
    <2> HIDE DEF n
    <2> QED
      BY <1>6, <1>9
  <1> QED
    BY <1>4, <1>11, <1>12, <1>13 DEF c

(* What arq_recv changes: the slots of the messages that it finishes are freed. *)
Freed(w, done) == {CopySlot(w, i) : i \in 0..(done - 1)}

ReadEffect(w2, w, done, ofs) ==
    /\ RecvWndOK(w2)
    /\ w2.seq = w.seq /\ w2.size = w.size /\ w2.buf = w.buf /\ w2.ack = w.ack
    /\ w2.inter_seg_ack_on = w.inter_seg_ack_on
    /\ w2.inter_seg_ack_seq = w.inter_seg_ack_seq
    /\ w2.slide = w.slide + done /\ w2.copy_seq = (w.copy_seq + done) % SeqMod
    /\ w2.copy_ofs = ofs
    /\ \A i \in RecvIdx : w2.msg[i] = IF i \in Freed(w, done) THEN EmptyMsg ELSE w.msg[i]

LEMMA ReadChanges ==
    ASSUME NEW w, RecvWndOK(w), NEW max \in Nat
    PROVE  ReadEffect(RecvWndRecv(w, max), w, Done(w, max),
                      CopyEnd(w, max) - BytesBefore(w, Done(w, max)))
  <1> DEFINE done == Done(w, max)
             ofs  == CopyEnd(w, max) - BytesBefore(w, done)
             F    == Freed(w, done)
             msg2 == [i \in RecvIdx |-> IF i \in F THEN EmptyMsg ELSE w.msg[i]]
             seq2 == (w.copy_seq + done) % SeqMod
             sl2  == w.slide + done
             w2   == [w EXCEPT !.msg = msg2, !.copy_ofs = ofs, !.copy_seq = seq2, !.slide = sl2]
  <1>1. w \in RecvWndType
    BY DEF RecvWndOK
  <1>2. RecvWndRecv(w, max) = w2
    BY <1>1 DEF RecvWndRecv, RecvWndType, Freed, Done, CopyEnd
  <1>3. RecvWndOK(w2)
    BY <1>2, RecvWndRecvOK
  <1> HIDE DEF done, ofs, sl2, F, seq2, msg2
  <1>4. /\ w2.seq = w.seq /\ w2.size = w.size /\ w2.buf = w.buf /\ w2.ack = w.ack
        /\ w2.inter_seg_ack_on = w.inter_seg_ack_on
        /\ w2.inter_seg_ack_seq = w.inter_seg_ack_seq
        /\ w2.slide = sl2 /\ w2.copy_seq = seq2 /\ w2.copy_ofs = ofs /\ w2.msg = msg2
    BY <1>1 DEF RecvWndType
  <1> HIDE DEF w2
  <1>5. \A i \in RecvIdx : w2.msg[i] = IF i \in F THEN EmptyMsg ELSE w.msg[i]
    BY <1>4 DEF msg2
  <1>6. ReadEffect(w2, w, done, ofs)
    BY <1>3, <1>4, <1>5 DEF ReadEffect, sl2, seq2, F
  <1> QED
    BY <1>2, <1>6 DEF done, ofs

(* The slots that are freed are for the messages that come after the window. *)
LEMMA ReadSlots ==
    ASSUME MsgSegs = 1, NEW st \in [Nat -> Nat], NEW w, NEW r, OneSegRecv(st, w, r),
           NEW done \in 0..Deliverable(w), NEW ofs, NEW w2, ReadEffect(w2, w, done, ofs)
    PROVE  /\ Upright(w2) /\ w2.copy_seq = w.copy_seq + done
           /\ \A n \in Ahead(w2) :
                 /\ n \in Ahead(w) => ArrivedMsg(w2, n) = ArrivedMsg(w, n)
                 /\ n \notin Ahead(w) => /\ ArrivedMsg(w2, n) = EmptyMsg
                                         /\ n \notin GotNos(w2) /\ n \notin GotNos(w)
           /\ GotNos(w2) = GotNos(w)
  <1> DEFINE d == Deliverable(w)
             c == w.copy_seq
  <1>1. /\ d \in Nat /\ w.slide + d <= w.size
        /\ \A i \in 0..(d - 1) :
              /\ c + i \in Ahead(w) /\ c + i \in GotNos(w) /\ Holds(st, w, c + i)
    BY OneDeliverable
  <1>2. /\ w.seq \in Nat /\ w.size \in Nat /\ w.slide \in Nat /\ c \in Nat
        /\ c = w.seq + w.slide /\ w.slide <= w.size /\ w.size <= RecvCap
        /\ c < SeqMod /\ SeqMod \in Nat \ {0} /\ RecvCap \in Nat \ {0} /\ Upright(w)
    BY RecvNumbers DEF OneSegRecv
  <1>3. done \in Nat /\ done <= d
    BY <1>1
  <1> HIDE DEF d
  <1>4. c + done < SeqMod
    <2>1. CASE done = 0
      BY <1>2, <2>1
    <2>2. CASE done # 0
      <3>1. done - 1 \in 0..(d - 1) /\ (c + (done - 1)) + 1 = c + done
        BY <1>1, <1>2, <1>3, <2>2
      <3> QED
        BY <1>1, <3>1 DEF Holds
    <2> QED
      BY <2>1, <2>2
  <1>5. w2.copy_seq = c + done
    <2>1. c + done \in 0..(SeqMod - 1)
      BY <1>2, <1>3, <1>4
    <2> QED
      BY <1>2, <2>1, ModSmall DEF ReadEffect
  <1>6. Upright(w2)
    <2>1. w2.copy_seq = w2.seq + w2.slide /\ w2.slide <= w2.size
      BY <1>1, <1>2, <1>3, <1>5 DEF ReadEffect
    <2> QED
      BY <1>2, <2>1 DEF ReadEffect, Upright
  <1>7. ASSUME NEW n \in Ahead(w2)
        PROVE  /\ n \in Ahead(w) => ArrivedMsg(w2, n) = ArrivedMsg(w, n)
               /\ n \notin Ahead(w) => ArrivedMsg(w2, n) = EmptyMsg /\ c + RecvCap <= n
    <2>1. n \in Nat /\ c + done <= n /\ n < c + done + RecvCap /\ RecvSlot(n) \in RecvIdx
      BY <1>5, <1>6, AheadFacts
    <2>2. ASSUME n \in Ahead(w) PROVE ArrivedMsg(w2, n) = ArrivedMsg(w, n)
      <3>1. RecvSlot(n) \notin Freed(w, done)
        <4> SUFFICES ASSUME NEW i \in 0..(done - 1), RecvSlot(n) = CopySlot(w, i) PROVE FALSE
          BY DEF Freed
        <4>1. i \in 0..(d - 1) /\ i < done /\ i \in Nat
          BY <1>1, <1>3
        <4>2. n = c + i
          BY <1>1, <1>2, <2>2, <4>1, CopySlotIs, AheadDiffer
        <4> QED
          BY <1>2, <1>3, <2>1, <4>1, <4>2
      <3> QED
        BY <2>1, <3>1 DEF ReadEffect, ArrivedMsg
    <2>3. ASSUME n \notin Ahead(w) PROVE ArrivedMsg(w2, n) = EmptyMsg /\ c + RecvCap <= n
      <3>1. c + RecvCap <= n
        <4>1. c <= n
          BY <1>2, <1>3, <2>1
        <4> QED
          BY <1>2, <2>1, <2>3, <4>1, InAhead
      <3> DEFINE i == n - RecvCap - c
      <3>2. i \in 0..(done - 1) /\ c + i = n - RecvCap /\ RecvCap <= n
        BY <1>2, <1>3, <2>1, <3>1
      <3>3. CopySlot(w, i) = RecvSlot(n)
        <4>1. (n - RecvCap) % RecvCap = n % RecvCap
          BY <1>2, <2>1, <3>2, RingPeriod
        <4> HIDE DEF i
        <4> QED
          BY <3>2, <4>1 DEF CopySlot, RecvSlot
      <3>4. RecvSlot(n) \in Freed(w, done)
        <4> HIDE DEF i
        <4> QED
          BY <3>2, <3>3 DEF Freed
      <3> QED
        BY <2>1, <3>1, <3>4 DEF ReadEffect, ArrivedMsg
    <2> QED
      BY <2>2, <2>3
  <1>8. ASSUME NEW n \in Ahead(w2), n \notin Ahead(w)
        PROVE  n \notin GotNos(w2) /\ n \notin GotNos(w)
    <2>1. ArrivedMsg(w2, n) = EmptyMsg /\ c + RecvCap <= n /\ n \in Nat
      BY <1>6, <1>7, <1>8, AheadFacts
    <2>2. n \notin GotNos(w2)
      BY <1>6, <2>1, AheadFacts DEF EmptyMsg
    <2>3. n \notin 0..(c + RecvCap - 1)
      BY <1>2, <2>1
    <2> QED
      BY <2>2, <2>3 DEF GotNos
  <1>9. ASSUME NEW n \in Nat PROVE n \in GotNos(w2) <=> n \in GotNos(w)
    <2>1. CASE n < c
      <3>1. n \in 0..(c + RecvCap - 1) /\ n \in 0..(c + done + RecvCap - 1) /\ n < c + done
        BY <1>2, <1>3, <2>1
      <3> QED
        BY <1>5, <2>1, <3>1 DEF GotNos
    <2>2. CASE c <= n /\ n < c + done
      <3>1. n \in 0..(c + done + RecvCap - 1) /\ n - c \in 0..(d - 1) /\ c + (n - c) = n
        BY <1>1, <1>2, <1>3, <2>2
      <3>2. n \in GotNos(w)
        BY <1>1, <3>1
      <3> QED
        BY <1>5, <2>2, <3>1, <3>2 DEF GotNos
    <2>3. CASE c + done <= n /\ n < c + done + RecvCap
      <3>1. n \in Ahead(w2)
        BY <1>5, <1>6, <2>3, InAhead
      <3>2. CASE n \in Ahead(w)
        BY <1>2, <1>6, <1>7, <3>1, <3>2, AheadFacts
      <3>3. CASE n \notin Ahead(w)
        BY <1>8, <3>1, <3>3
      <3> QED
        BY <3>2, <3>3
    <2>4. CASE c + done + RecvCap <= n
      <3>1. n \notin 0..(c + RecvCap - 1) /\ n \notin 0..(c + done + RecvCap - 1)
        BY <1>2, <1>3, <2>4
      <3> QED
        BY <1>5, <3>1 DEF GotNos
    <2> QED
      BY <1>2, <1>3, <2>1, <2>2, <2>3, <2>4
  <1>10. GotNos(w2) = GotNos(w)
    <2>1. GotNos(w2) \subseteq Nat /\ GotNos(w) \subseteq Nat
      BY DEF GotNos
    <2> QED
      BY <1>9, <2>1
  <1> QED
    BY <1>5, <1>6, <1>7, <1>8, <1>10

LEMMA OneRead ==
    ASSUME MsgSegs = 1, NEW st \in [Nat -> Nat], NEW w, NEW r, OneSegRecv(st, w, r),
           AcksDue(w) = {}, NEW max \in Nat
    PROVE  LET w2 == RecvWndRecv(w, max)
           IN /\ OneSegRecv(st, w2, r \o RecvData(w, max))
              /\ GotNos(w2) = GotNos(w) /\ DueNos(w2) = {} /\ AcksDue(w2) = {}
  <1> DEFINE d    == Deliverable(w)
             done == Done(w, max)
             q    == RecvCount(w, max)
             e    == CopyEnd(w, max)
             B(k) == BytesBefore(w, k)
             c    == w.copy_seq
             data == RecvData(w, max)
             w2   == RecvWndRecv(w, max)
             ofs  == e - B(done)
             s    == st[c]
             s2   == st[c + done]
  <1>1. /\ q \in Nat /\ (q > 0 => d > 0)
        /\ e \in Nat /\ e <= B(d) /\ e = w.copy_ofs + q
        /\ done \in 0..d /\ B(done) <= e
        /\ done < d => e < B(done + 1)
    BY OneCount DEF CopyEnd
  <1>2. /\ d \in Nat
        /\ \A i \in 0..(d - 1) : c + i \in GotNos(w)
    BY OneDeliverable
  <1>3. ReadEffect(w2, w, done, ofs)
    BY ReadChanges DEF OneSegRecv, Upright
  <1> HIDE DEF w2, done
  <1>4. /\ Upright(w2) /\ w2.copy_seq = c + done
        /\ \A n \in Ahead(w2) :
              /\ n \in Ahead(w) => ArrivedMsg(w2, n) = ArrivedMsg(w, n)
              /\ n \notin Ahead(w) => /\ ArrivedMsg(w2, n) = EmptyMsg
                                      /\ n \notin GotNos(w2) /\ n \notin GotNos(w)
        /\ GotNos(w2) = GotNos(w)
    BY <1>1, <1>3, ReadSlots
  <1>5. AcksDue(w2) = {}
    BY <1>3 DEF ReadEffect, AcksDue
  <1>6. \A i \in RecvIdx : ~w2.ack[i]
    BY <1>3, NoAcksDue DEF ReadEffect
  <1>7. c \in Nat /\ w.copy_ofs \in Nat
    BY RecvNumbers DEF OneSegRecv
  <1>8. done \in Nat /\ done <= d
    BY <1>1, <1>2
  <1>9. /\ B(done) \in Nat /\ B(d) \in Nat /\ s \in Nat /\ s2 \in Nat
        /\ s + B(done) = s2
    <2>1. c + done \in Nat
      BY <1>7, <1>8
    <2>2. B(done) \in Nat /\ B(d) \in Nat /\ s + B(done) = s2
      BY <1>1, <1>2, <1>8, OneBytesBefore
    <2> QED
      BY <1>7, <2>1, <2>2
  <1>10. ASSUME done < d PROVE e - B(done) < LenOf(st, c + done)
    <2>1. done + 1 \in 0..d /\ done + 1 \in Nat /\ c + (done + 1) = (c + done) + 1
          /\ c + (done + 1) \in Nat
      BY <1>2, <1>7, <1>8, <1>10
    <2>2. B(done + 1) \in Nat /\ s + B(done + 1) = st[c + (done + 1)]
      BY <2>1, OneBytesBefore
    <2>3. LenOf(st, c + done) = st[c + (done + 1)] - s2
      BY <2>1 DEF LenOf
    <2>4. st[c + (done + 1)] \in Nat
      BY <2>1
    <2>5. e < B(done + 1)
      BY <1>1, <1>10
    <2> DEFINE z == st[c + (done + 1)]
               b == B(done + 1)
    <2>6. b \in Nat /\ s + b = z /\ z \in Nat /\ e < b
      BY <2>2, <2>4, <2>5
    <2> HIDE DEF z, b, s, s2, e, B
    <2>7. e - B(done) < z - s2
      BY ONLY <1>1, <1>9, <2>6
    <2> QED
      BY <2>3, <2>7 DEF z
  <1>11. ASSUME ofs > 0 PROVE c + done \in GotNos(w2) /\ ofs < LenOf(st, c + done)
    <2>1. done < d
      <3>1. CASE done = d
        BY <1>1, <1>9, <1>11, <3>1
      <3> QED
        BY <1>2, <1>8, <3>1
    <2>2. done \in 0..(d - 1)
      BY <1>2, <1>8, <2>1
    <2> QED
      BY <1>2, <1>4, <1>10, <2>1, <2>2
  <1>12. ASSUME NEW n \in Ahead(w2)
         PROVE  IF n \in GotNos(w2) THEN Holds(st, w2, n) ELSE Lacks(w2, n)
    <2>1. RecvSlot(n) \in RecvIdx
      BY <1>4, AheadFacts
    <2>2. CASE n \in Ahead(w)
      <3>1. IF n \in GotNos(w) THEN Holds(st, w, n) ELSE Lacks(w, n)
        BY <2>2 DEF OneSegRecv
      <3>2. ArrivedMsg(w2, n) = ArrivedMsg(w, n)
        BY <1>4, <2>2
      <3>3. Holds(st, w, n) => Holds(st, w2, n)
        BY <1>3, <3>2 DEF ReadEffect, Holds
      <3>4. Lacks(w, n) => Lacks(w2, n)
        BY <1>6, <2>1, <3>2 DEF Lacks
      <3> QED
        BY <1>4, <3>1, <3>3, <3>4
    <2>3. CASE n \notin Ahead(w)
      BY <1>4, <1>6, <2>1, <2>3 DEF Lacks
    <2> QED
      BY <2>2, <2>3
  <1>13. r \o data = [k \in 1..(s2 + ofs) |-> k]
    <2> DEFINE m == s + w.copy_ofs
    <2>1. r = [k \in 1..m |-> k]
      BY DEF OneSegRecv, ReadUpTo
    <2>2. data = [k \in 1..q |-> CopyByte(w, w.copy_ofs + k - 1)]
      BY DEF RecvData
    <2>3. m \in Nat /\ s2 + ofs = m + q
      <3> HIDE DEF s, s2, e, q, B
      <3> QED
        BY <1>1, <1>7, <1>9
    <2>4. ASSUME NEW k \in 1..q PROVE CopyByte(w, w.copy_ofs + k - 1) = m + k
      <3> DEFINE b == w.copy_ofs + k - 1
      <3>1. b \in Nat /\ b < B(d) /\ d > 0 /\ s + b + 1 = m + k
        <4> HIDE DEF s, e, q, B, d
        <4> QED
          BY <1>1, <1>2, <1>7, <1>9
      <3> HIDE DEF b, m
      <3>2. CopyByte(w, b) = s + b + 1
        BY <3>1, OneCopyByte
      <3> QED
        BY <3>1, <3>2 DEF b
    <2> HIDE DEF m, q, ofs, s2
    <2>5. data = [k \in 1..q |-> m + k]
      BY <2>2, <2>4
    <2>6. r \o data = [k \in 1..(m + q) |-> k]
      BY <1>1, <2>1, <2>3, <2>5, CountOn
    <2> QED
      BY <2>3, <2>6
  <1>14. OneSegRecv(st, w2, r \o data)
    <2> HIDE DEF data, ofs
    <2>1. w2.copy_ofs = ofs
      BY <1>3 DEF ReadEffect
    <2>2. ReadUpTo(st, w2, r \o data)
      BY <1>4, <1>11, <1>13, <2>1 DEF ReadUpTo
    <2> QED
      BY <1>4, <1>12, <2>2 DEF OneSegRecv
  <1>15. DueNos(w2) = {}
    <2>1. \A n \in Ahead(w2) : RecvSlot(n) \in RecvIdx
      BY <1>4, AheadFacts
    <2> QED
      BY <1>6, <2>1 DEF DueNos
  <1> QED
    BY <1>4, <1>5, <1>14, <1>15 DEF w2

----------------------------------------------------------------------------
(* How far the reader is, and what it can be given at once *)

LEMMA OneHeld ==
    ASSUME MsgSegs = 1, NEW st \in [Nat -> Nat], NEW w, NEW r, OneSegRecv(st, w, r),
           NEW m \in Nat, 0..(m - 1) \subseteq GotNos(w)
    PROVE  LET d == Deliverable(w)
               c == w.copy_seq + d
           IN /\ c \in Nat /\ 0..(c - 1) \subseteq GotNos(w) /\ m <= c
              /\ st[c] <= Len(r) + (IF d = 0 THEN 0 ELSE BytesBefore(w, d) - w.copy_ofs)
  <1> DEFINE d == Deliverable(w)
             c == w.copy_seq
             b == BytesBefore(w, d)
  <1>1. /\ d \in Nat /\ c + d \notin GotNos(w)
        /\ \A i \in 0..(d - 1) : c + i \in GotNos(w)
    BY OneDeliverable
  <1>2. c \in Nat /\ w.copy_ofs \in Nat /\ RecvCap \in Nat \ {0}
    BY RecvNumbers DEF OneSegRecv
  <1>3. b \in Nat /\ st[c] + b = st[c + d]
    BY <1>1, OneBytesBefore
  <1> HIDE DEF d, b
  <1>4. ASSUME NEW n \in 0..((c + d) - 1) PROVE n \in GotNos(w)
    <2>1. CASE n < c
      BY <1>2, <2>1 DEF GotNos
    <2>2. CASE c <= n
      <3>1. n - c \in 0..(d - 1) /\ c + (n - c) = n
        BY <1>1, <1>2, <2>2
      <3> QED
        BY <1>1, <3>1
    <2> QED
      BY <1>2, <2>1, <2>2
  <1>5. m <= c + d
    <2> SUFFICES ASSUME c + d < m PROVE FALSE
      BY <1>1, <1>2
    <2>1. c + d \in 0..(m - 1)
      BY <1>1, <1>2
    <2> QED
      BY <1>1, <2>1
  <1>6. st[c] \in Nat /\ st[c + d] \in Nat /\ c + d \in Nat
    BY <1>1, <1>2
  <1>7. Len(r) = st[c] + w.copy_ofs
    <2>1. r = [k \in 1..(st[c] + w.copy_ofs) |-> k]
      BY DEF OneSegRecv, ReadUpTo
    <2> DEFINE z == st[c] + w.copy_ofs
    <2>2. z \in Nat
      BY <1>2, <1>6
    <2> HIDE DEF z
    <2> QED
      BY <2>1, <2>2 DEF z
  <1> DEFINE e == st[c + d]
             s == st[c]
             l == Len(r)
  <1>8. /\ l = s + w.copy_ofs /\ s + b = e /\ s \in Nat /\ e \in Nat
        /\ d = 0 => e = s
    <2>1. d = 0 => c + d = c
      BY <1>2
    <2> QED
      BY <1>3, <1>6, <1>7, <2>1
  <1> HIDE DEF e, s, l
  <1>9. e <= l + (IF d = 0 THEN 0 ELSE b - w.copy_ofs)
    BY <1>2, <1>3, <1>8
  <1> QED
    BY <1>4, <1>5, <1>6, <1>9 DEF d, b, e, l

(* What was read ends where a message that is here does, or before. *)
LEMMA OneReadBound ==
    ASSUME NEW st \in [Nat -> Nat], NEW w, NEW r, OneSegRecv(st, w, r),
           NEW m \in Nat, GotNos(w) \subseteq 0..(m - 1), \A n \in 0..m : st[n] <= st[m]
    PROVE  Len(r) <= st[m] /\ Len(r) \in Nat /\ r = [k \in 1..Len(r) |-> k]
  <1> DEFINE c == w.copy_seq
             z == st[c] + w.copy_ofs
  <1>1. c \in Nat /\ w.copy_ofs \in Nat /\ RecvCap \in Nat \ {0}
    BY RecvNumbers DEF OneSegRecv
  <1>2. r = [k \in 1..z |-> k] /\ (w.copy_ofs > 0 => c \in GotNos(w) /\ w.copy_ofs < LenOf(st, c))
    BY DEF OneSegRecv, ReadUpTo
  <1>3. c <= m
    <2> SUFFICES ASSUME m < c PROVE FALSE
      BY <1>1
    <2>1. m \in GotNos(w)
      BY <1>1 DEF GotNos
    <2> QED
      BY <2>1
  <1>4. z \in Nat /\ st[c] \in Nat /\ st[m] \in Nat /\ st[c] <= st[m]
    BY <1>1, <1>3
  <1>5. z <= st[m]
    <2>1. CASE w.copy_ofs = 0
      BY <1>4, <2>1
    <2>2. CASE w.copy_ofs > 0
      <3>1. c + 1 \in 0..m
        <4>1. c \in 0..(m - 1)
          BY <1>2, <2>2
        <4> QED
          BY <1>1, <4>1
      <3>2. st[c + 1] \in Nat /\ st[c + 1] <= st[m]
        BY <1>1, <3>1
      <3>3. w.copy_ofs < st[c + 1] - st[c]
        BY <1>2, <2>2 DEF LenOf
      <3> QED
        BY <1>1, <1>4, <3>2, <3>3
    <2> QED
      BY <1>1, <2>1, <2>2
  <1> HIDE DEF z
  <1>6. Len(r) = z
    BY <1>2, <1>4
  <1> QED
    BY <1>2, <1>4, <1>5, <1>6

(* A window knows nothing of the messages that did not arrive. *)
LEMMA OneRecvGrows ==
    ASSUME NEW st \in [Nat -> Nat], NEW w, NEW r, OneSegRecv(st, w, r),
           NEW m \in Nat, GotNos(w) \subseteq 0..(m - 1),
           NEW st2 \in [Nat -> Nat], \A n \in 0..m : st2[n] = st[n]
    PROVE  OneSegRecv(st2, w, r)
  <1>1. w.copy_seq \in Nat /\ RecvCap \in Nat \ {0} /\ Upright(w)
    BY RecvNumbers DEF OneSegRecv
  <1>2. ASSUME NEW n \in GotNos(w) PROVE st2[n] = st[n] /\ LenOf(st2, n) = LenOf(st, n)
    <2>1. n \in 0..m /\ n + 1 \in 0..m
      <3>1. n \in 0..(m - 1)
        OBVIOUS
      <3> QED
        BY <3>1
    <2> QED
      BY <2>1 DEF LenOf
  <1>3. st2[w.copy_seq] = st[w.copy_seq]
    <2>1. w.copy_seq \in 0..m
      <3> SUFFICES ASSUME m < w.copy_seq PROVE FALSE
        BY <1>1
      <3>1. m \in GotNos(w)
        BY <1>1 DEF GotNos
      <3> QED
        BY <3>1
    <2> QED
      BY <2>1
  <1>4. ASSUME NEW n \in Ahead(w)
        PROVE  IF n \in GotNos(w) THEN Holds(st2, w, n) ELSE Lacks(w, n)
    <2>1. IF n \in GotNos(w) THEN Holds(st, w, n) ELSE Lacks(w, n)
      BY DEF OneSegRecv
    <2>2. n \in GotNos(w) /\ Holds(st, w, n) => Holds(st2, w, n)
      BY <1>2 DEF Holds
    <2> QED
      BY <2>1, <2>2
  <1>5. ReadUpTo(st2, w, r)
    BY <1>2, <1>3 DEF OneSegRecv, ReadUpTo
  <1> QED
    BY <1>1, <1>4, <1>5 DEF OneSegRecv

LEMMA OneRecvRst ==
    ASSUME NEW st \in [Nat -> Nat], st[0] = 0, NEW buf \in [RecvBufIdx -> Nat]
    PROVE  LET w == RecvWndRst(buf)
           IN /\ OneSegRecv(st, w, <<>>) /\ GotNos(w) = {} /\ DueNos(w) = {}
              /\ AcksDue(w) = {}
  <1> DEFINE w == RecvWndRst(buf)
  <1>1. RecvWndOK(w)
    BY RecvWndRstOK
  <1>2. /\ w.seq = 0 /\ w.size = 0 /\ w.slide = 0 /\ w.copy_seq = 0 /\ w.copy_ofs = 0
        /\ ~w.inter_seg_ack_on
        /\ \A i \in RecvIdx : w.msg[i] = EmptyMsg /\ ~w.ack[i]
    BY DEF RecvWndRst
  <1> HIDE DEF w
  <1>3. Upright(w)
    BY <1>1, <1>2 DEF Upright
  <1>4. ASSUME NEW n \in Ahead(w) PROVE n \notin GotNos(w) /\ Lacks(w, n)
    <2>1. RecvSlot(n) \in RecvIdx /\ (n \in GotNos(w) <=> ArrivedMsg(w, n).cur_ack_vec # {})
      BY <1>3, AheadFacts
    <2>2. ArrivedMsg(w, n) = EmptyMsg
      BY <1>2, <2>1 DEF ArrivedMsg
    <2>3. EmptyMsg.cur_ack_vec = {}
      BY DEF EmptyMsg
    <2> QED
      BY <1>2, <2>1, <2>2, <2>3 DEF Lacks
  <1>5. GotNos(w) = {} /\ DueNos(w) = {}
    <2>1. DueNos(w) = {}
      BY <1>4 DEF DueNos, Lacks
    <2>2. \A n : n \in GotNos(w) => n \in Ahead(w)
      BY <1>2 DEF GotNos, Ahead
    <2> QED
      BY <1>4, <2>1, <2>2
  <1>6. AcksDue(w) = {}
    BY <1>2 DEF AcksDue
  <1>7. ReadUpTo(st, w, <<>>)
    <2>1. [k \in 1..(0 + 0) |-> k] = <<>>
      OBVIOUS
    <2> QED
      BY <1>2, <2>1 DEF ReadUpTo
  <1> QED
    BY <1>3, <1>4, <1>5, <1>6, <1>7 DEF OneSegRecv, w
=============================================================================

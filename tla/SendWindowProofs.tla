-------------------------- MODULE SendWindowProofs --------------------------
(***************************************************************************)
(* Theorems about SendWindow, for every window size, message size and      *)
(* sequence number space.                                                  *)
(***************************************************************************)
EXTENDS SendWindow, SendWndLemmas

LEMMA AckHdrType ==
    ASSUME NEW rh \in Acks
    PROVE  CanAck(rh)
  <1> SUFFICES ASSUME rh.ack PROVE rh.ack_num \in 0..(SeqMod - 1) /\ rh.cur_ack_vec \in Vecs
    BY DEF CanAck
  <1>1. rh # FrameHdrInit
    BY DEF FrameHdrInit
  <1>2. PICK ack \in (0..(SeqMod - 1)) \X Vecs : rh = AckHdr(ack)
    BY <1>1 DEF Acks
  <1>3. rh.ack_num = ack[1] /\ rh.cur_ack_vec = ack[2]
    BY <1>2 DEF AckHdr, FrameHdrInit
  <1> QED
    BY <1>3

LEMMA StreamFromType ==
    ASSUME NEW n \in Nat, NEW len \in Nat
    PROVE  StreamFrom(n, len) \in Seq(Nat) /\ Len(StreamFrom(n, len)) = len
  BY DEF StreamFrom

(* TypeOK is inductive: it is kept by every step from every state of its kind,
   whatever the acknowledgement and the elapsed time of a poll. *)
LEMMA NextKeepsType == TypeOK /\ [Next]_vars => TypeOK'
  <1> SUFFICES ASSUME TypeOK, [Next]_vars PROVE TypeOK'
    OBVIOUS
  <1>0. sw \in SendWndType /\ sp \in SendWndPtrType /\ sent \in Nat
    BY DEF TypeOK, SendWndPtrType
  <1>1. ASSUME NEW n \in SendLens, Send(n) PROVE TypeOK'
    <2>1. n \in Nat
      BY SendLensAssumption
    <2>2. StreamFrom(sent, n) \in Seq(Nat)
      BY <1>0, <2>1, StreamFromType
    <2>3. sw' \in SendWndType
      BY <1>0, <1>1, <2>2, SendType DEF Send
    <2>4. Accepted(sw, n) \in Nat
      BY <1>0, <2>1, AcceptedType
    <2>5. sent' \in Nat
      BY <1>0, <1>1, <2>4 DEF Send
    <2> QED
      BY <1>0, <1>1, <2>3, <2>5 DEF Send, TypeOK, SendWndPtrType
  <1>2. ASSUME Flush PROVE TypeOK'
    BY <1>0, <1>2, FlushType DEF Flush, TypeOK, SendWndPtrType
  <1>3. ASSUME NEW psh \in BOOLEAN, NEW rh \in Acks, NEW dt \in Dts, Poll(psh, rh, dt)
        PROVE  TypeOK'
    <2>1. dt \in Nat
      BY DtsAssumption
    <2>2. sw' \in SendWndType /\ sp' \in SendWndPtrType
      BY <1>0, <1>3, <2>1, SendPollType, AckHdrType DEF Poll
    <2> QED
      BY <1>0, <1>3, <2>2 DEF Poll, TypeOK, SendWndPtrType
  <1>4. ASSUME Reset PROVE TypeOK'
    <2>1. sw.buf \in [SendBufIdx -> Nat]
      BY <1>0 DEF SendWndType
    <2> QED
      BY <1>0, <1>4, <2>1, RstType DEF Reset, TypeOK, SendWndPtrType
  <1>5. ASSUME UNCHANGED vars PROVE TypeOK'
    BY <1>5 DEF vars, TypeOK
  <1> QED
    BY <1>1, <1>2, <1>3, <1>4, <1>5 DEF Next

(* The send window never holds more messages than it has slots, and no index
   or count of arq__send_wnd_send, arq__send_wnd_ack, arq__send_wnd_flush and
   arq__send_wnd_ptr_next leaves its range, for every window, message and
   segment size, after any calls of the application and any acknowledgements. *)
THEOREM TypeCorrect == Spec => []TypeOK
  <1>1. Init => TypeOK
    BY RstType DEF Init, TypeOK, SendWndPtrType
  <1> QED
    BY <1>1, NextKeepsType, PTL DEF Spec

-----------------------------------------------------------------------------
(* The shape of the window: a run of full messages, a last one that may be partial,
   and clean slots outside. *)

(* The sequence number space is a whole number of rounds, so that reducing a
   sequence number does not change the slot. *)
LEMMA SlotOfReduced ==
    ASSUME NEW a \in Nat, NEW i \in Nat
    PROVE  ((a % SeqMod) + i) % SendCap = (a + i) % SendCap
  <1>1. SeqMod \in Nat \ {0} /\ SendCap \in Nat \ {0} /\ Divides(SendCap, SeqMod)
    BY SeqModAssumption, SendCapAssumption, WholeRoundsAssumption DEF Divides
  <1> QED
    BY <1>1, ReduceTwice

LEMMA RoundsKeepSlots ==
    ASSUME NEW w \in SendWndType
    PROVE  KeepsSlots(w)
  <1>1. w.seq \in Nat /\ w.size \in Nat
    BY SeqModAssumption, SendCapAssumption DEF SendWndType
  <1>2. \A n \in 0..w.size : w.seq + n \in Nat
    BY <1>1
  <1> QED
    BY <1>2, SlotOfReduced DEF KeepsSlots

LEMMA ShapeIsWindowShape ==
    ASSUME TypeOK
    PROVE  WindowShape <=> Shape(sw)
  <1>1. sw.size \in 0..SendCap /\ SendCap \in Nat \ {0}
    BY SendCapAssumption DEF TypeOK, SendWndType
  <1>2. ASSUME WindowShape, NEW i \in SendIdx PROVE ShapeAt(sw, i)
    <2>1. i < sw.size - 1 => i \in 0..(sw.size - 2)
      BY <1>1 DEF SendIdx
    <2>2. i = sw.size - 1 => sw.size > 0
      BY <1>1 DEF SendIdx
    <2>3. i >= sw.size => i \in sw.size..(SendCap - 1)
      BY <1>1 DEF SendIdx
    <2> QED
      BY <1>2, <2>1, <2>2, <2>3
         DEF WindowShape, FullBeforeTail, TailNotEmpty, CleanOutside, Slot, SlotOf, ShapeAt
  <1>3. ASSUME Shape(sw) PROVE WindowShape
    <2>1. ASSUME NEW i \in 0..(sw.size - 2) PROVE sw.msg[Slot(i)].len = MsgLen
      <3>1. i \in SendIdx /\ i < sw.size - 1
        BY <1>1 DEF SendIdx
      <3> QED
        BY <1>3, <3>1 DEF Shape, ShapeAt, Slot, SlotOf
    <2>2. ASSUME sw.size > 0 PROVE sw.msg[Slot(sw.size - 1)].len > 0
      <3>1. sw.size - 1 \in SendIdx
        BY <1>1, <2>2 DEF SendIdx
      <3> QED
        BY <1>3, <3>1 DEF Shape, ShapeAt, Slot, SlotOf
    <2>3. ASSUME NEW i \in sw.size..(SendCap - 1) PROVE sw.msg[Slot(i)] = EmptyMsg
      <3>1. i \in SendIdx /\ i >= sw.size
        BY <1>1 DEF SendIdx
      <3> QED
        BY <1>3, <3>1 DEF Shape, ShapeAt, Slot, SlotOf
    <2> QED
      BY <2>1, <2>2, <2>3 DEF WindowShape, FullBeforeTail, TailNotEmpty, CleanOutside
  <1> QED
    BY <1>2, <1>3 DEF Shape

----------------------------------------------------------------------------
(* TypeOK and WindowShape together are inductive; WindowShape alone is not,
   since the slot arithmetic needs the ranges that TypeOK gives. *)
LEMMA NextKeepsShape ==
    ASSUME TypeOK, WindowShape, [Next]_vars, TypeOK'
    PROVE  WindowShape'
  <1>1. sw \in SendWndType /\ Shape(sw) /\ sent \in Nat
    BY ShapeIsWindowShape DEF TypeOK
  <1>2. Shape(sw)'
    <2>1. ASSUME NEW n \in SendLens, Send(n) PROVE Shape(sw')
      <3>1. StreamFrom(sent, n) \in Seq(Nat)
        BY <1>1, SendLensAssumption, StreamFromType
      <3> QED
        BY <1>1, <2>1, <3>1, SendShape DEF Send
    <2>2. ASSUME Flush PROVE Shape(sw')
      BY <1>1, <2>2, FlushShape DEF Flush
    <2>3. ASSUME NEW psh \in BOOLEAN, NEW rh \in Acks, NEW dt \in Dts, Poll(psh, rh, dt)
          PROVE  Shape(sw')
      <3>1. dt \in Nat
        BY DtsAssumption
      <3> QED
        BY <1>1, <2>3, <3>1, SendPollShape, RoundsKeepSlots, AckHdrType DEF Poll
    <2>4. ASSUME Reset PROVE Shape(sw')
      BY <2>4, RstShape DEF Reset
    <2>5. ASSUME UNCHANGED vars PROVE Shape(sw')
      BY <1>1, <2>5 DEF vars
    <2>6. Shape(sw')
      BY <2>1, <2>2, <2>3, <2>4, <2>5 DEF Next
    <2> QED
      BY <2>6 DEF Shape, ShapeAt, SlotOf
  <1>3. TypeOK' => (WindowShape <=> Shape(sw))'
    BY ShapeIsWindowShape, PTL
  <1> QED
    BY <1>2, <1>3

(* After any calls of the application and any acknowledgements, the send window
   is a run of full messages and a last one that is not empty, and every slot
   outside it is as arq__wnd_rst left it, so that arq__send_wnd_send may append
   to the slot after the window without clearing it; for every window, message
   and segment size whose window size divides the sequence number space. *)
THEOREM WindowShapeCorrect == Spec => []WindowShape
  <1>1. Init => WindowShape
    <2>1. ASSUME Init PROVE TypeOK /\ Shape(sw)
      BY <2>1, RstType, RstShape DEF Init, TypeOK, SendWndPtrType
    <2> QED
      BY <2>1, ShapeIsWindowShape
  <1>2. TypeOK /\ TypeOK' /\ WindowShape /\ [Next]_vars => WindowShape'
    BY NextKeepsShape
  <1> QED
    BY <1>1, <1>2, TypeCorrect, PTL DEF Spec

-----------------------------------------------------------------------------
(* The bytes of the window *)

LEMMA ContentIsContentContiguous == ContentContiguous <=> Content(sw, sent)
  BY DEF ContentContiguous, Content, Base

LEMMA StreamFollows ==
    ASSUME NEW s \in Nat, NEW n \in Nat
    PROVE  /\ StreamFrom(s, n) \in Seq(Nat)
           /\ Len(StreamFrom(s, n)) = n
           /\ Follows(StreamFrom(s, n), s)
  <1>1. StreamFrom(s, n) \in Seq(Nat)
    BY StreamFromType
  <1>2. Len(StreamFrom(s, n)) = n
    BY DEF StreamFrom
  <1>3. \A i \in 1..n : StreamFrom(s, n)[i] = s + i
    BY DEF StreamFrom
  <1> QED
    BY <1>1, <1>2, <1>3 DEF Follows

(* The content is inductive together with the types and the shape: where the last
   message ends is the length of the slot behind the full ones. *)
LEMMA NextKeepsContent ==
    ASSUME TypeOK, WindowShape, Content(sw, sent), [Next]_vars
    PROVE  Content(sw', sent')
  <1>1. sw \in SendWndType /\ Shape(sw) /\ sent \in Nat
    BY ShapeIsWindowShape DEF TypeOK
  <1>2. ASSUME NEW n \in SendLens, Send(n) PROVE Content(sw', sent')
    <2>1. n \in Nat
      BY SendLensAssumption
    <2>2. CASE n = 0
      <3>1. Len(StreamFrom(sent, n)) = 0
        BY <1>1, <2>1, <2>2, StreamFollows
      <3>2. sw' = sw /\ sent' = sent
        BY <1>1, <1>2, <2>2, <3>1 DEF Send, SendWndSend
      <3> QED
        BY <3>2
    <2>3. CASE n # 0
      <3> DEFINE data == StreamFrom(sent, n)
      <3>1. data \in Seq(Nat) /\ Len(data) = n /\ Follows(data, sent)
        BY <1>1, <2>1, StreamFollows
      <3>2. sw' = SendWndSend(sw, data) /\ sent' = sent + Accepted(sw, n)
        BY <1>2, <2>3 DEF Send
      <3> HIDE DEF data
      <3>3. Content(SendWndSend(sw, data), sent + Accepted(sw, Len(data)))
        BY <1>1, <2>3, <3>1, SendContent
      <3> QED
        BY <3>1, <3>2, <3>3
    <2> QED
      BY <2>2, <2>3
  <1>3. ASSUME Flush PROVE Content(sw', sent')
    BY <1>1, <1>3, FlushSameMessages, SameMessagesContent DEF Flush
  <1>4. ASSUME NEW psh \in BOOLEAN, NEW rh \in Acks, NEW dt \in Dts, Poll(psh, rh, dt)
        PROVE  Content(sw', sent')
    <2>1. dt \in Nat
      BY DtsAssumption
    <2>2. Content(SendPoll(sw, sp, psh, FrameHdrInit, rh, dt).sw, sent)
      BY <1>1, <2>1, SendPollContent, RoundsKeepSlots, AckHdrType
    <2> QED
      BY <1>4, <2>2 DEF Poll
  <1>5. ASSUME Reset PROVE Content(sw', sent')
    <2>1. sw.buf \in [SendBufIdx -> Nat]
      BY <1>1 DEF SendWndType
    <2> QED
      BY <1>5, <2>1, RstContent DEF Reset
  <1>6. ASSUME UNCHANGED vars PROVE Content(sw', sent')
    BY <1>6 DEF vars
  <1> QED
    BY <1>2, <1>3, <1>4, <1>5, <1>6 DEF Next

(* After any calls of the application and any acknowledgements, the bytes in the
   send window are the last ones arq_send accepted, in order and without a gap,
   however often the two memcpys of arq__send_wnd_send wrapped around the end of
   the buffer; for every window, message and segment size whose window size
   divides the sequence number space. *)
THEOREM ContentContiguousCorrect == Spec => []ContentContiguous
  <1>1. Init => ContentContiguous
    <2>1. [j \in SendBufIdx |-> 0] \in [SendBufIdx -> Nat]
      OBVIOUS
    <2>2. Init => Content(sw, sent)
      BY <2>1, RstContent DEF Init
    <2> QED
      BY <2>2, ContentIsContentContiguous
  <1>2. TypeOK /\ WindowShape /\ ContentContiguous /\ [Next]_vars => ContentContiguous'
    <2>1. ASSUME TypeOK, WindowShape, ContentContiguous, [Next]_vars
          PROVE  Content(sw', sent')
      BY <2>1, NextKeepsContent, ContentIsContentContiguous
    <2>2. Content(sw', sent') => ContentContiguous'
      BY DEF ContentContiguous, Content, Base, WndSizeInBytes, TailLen, TailSeq
    <2> QED
      BY <2>1, <2>2
  <1> QED
    BY <1>1, <1>2, TypeCorrect, WindowShapeCorrect, PTL DEF Spec

-----------------------------------------------------------------------------
(* Messages leave from the front *)

Front(w, w2) ==
    LET n == (w2.seq - w.seq) % SeqMod
    IN /\ n <= w.size
       /\ w2.size >= w.size - n
       /\ \A i \in n..(w.size - 1) : w2.msg[SlotOf(w, i)].len >= w.msg[SlotOf(w, i)].len

(* How far the start of the window moved, also where it wrapped around. *)
LEMMA Moved ==
    ASSUME NEW s \in 0..(SeqMod - 1), NEW n \in 0..(SeqMod - 1)
    PROVE  (((s + n) % SeqMod) - s) % SeqMod = n
  <1> DEFINE t == s + n
  <1>1. SeqMod \in Nat \ {0} /\ s \in Nat /\ n \in Nat /\ t \in Nat
    BY SeqModAssumption
  <1>2. CASE t < SeqMod
    <2>1. t \in 0..(SeqMod - 1) /\ t = SeqMod * 0 + t
      BY <1>1, <1>2
    <2>2. t % SeqMod = t
      <3> HIDE DEF t
      <3>1. (SeqMod * 0 + t) % SeqMod = t
        BY <1>1, <2>1, DivUnique
      <3> QED
        BY <2>1, <3>1
    <2>3. (SeqMod * 0 + n) % SeqMod = n /\ SeqMod * 0 + n = n
      BY <1>1, DivUnique
    <2>4. t - s = n
      BY <1>1
    <2> QED
      BY <2>2, <2>3, <2>4
  <1>3. CASE t >= SeqMod
    <2> DEFINE u == t - SeqMod
    <2>1. u \in 0..(SeqMod - 1) /\ t = SeqMod * 1 + u /\ u - s = n - SeqMod
      BY <1>1, <1>3
    <2> HIDE DEF u
    <2>2. t % SeqMod = u
      <3> HIDE DEF t
      <3>1. (SeqMod * 1 + u) % SeqMod = u
        BY <1>1, <2>1, DivUnique
      <3> QED
        BY <2>1, <3>1
    <2>3. (n - SeqMod) % SeqMod = n
      BY <1>1, ModOfNegative
    <2> QED
      BY <2>1, <2>2, <2>3
  <1> QED
    BY <1>1, <1>2, <1>3

LEMMA NothingLeaves ==
    ASSUME NEW w \in SendWndType, NEW w2, w2.seq = w.seq, w2.size \in Nat, w2.size >= w.size,
           \A i \in SendIdx : w2.msg[i].len >= w.msg[i].len
    PROVE  Front(w, w2)
  <1>1. w.size \in 0..SendCap /\ w.seq \in Nat /\ SendCap \in Nat
    BY SendCapAssumption, SeqModAssumption DEF SendWndType
  <1>2. (w2.seq - w.seq) % SeqMod = 0
    <2>1. w2.seq - w.seq = SeqMod * 0 + 0
      BY <1>1, SeqModAssumption
    <2>2. (SeqMod * 0 + 0) % SeqMod = 0
      <3>1. 0 \in Nat /\ 0 \in 0..(SeqMod - 1)
        BY SeqModAssumption
      <3> QED
        BY <3>1, DivUnique, SeqModAssumption
    <2> QED
      BY <2>1, <2>2
  <1>3. ASSUME NEW i \in 0..(w.size - 1) PROVE w2.msg[SlotOf(w, i)].len >= w.msg[SlotOf(w, i)].len
    <2>1. i \in Nat
      BY <1>1
    <2>2. SlotOf(w, i) \in SendIdx
      BY <2>1, SlotOfType
    <2> QED
      BY <2>2
  <1> QED
    BY <1>1, <1>2, <1>3 DEF Front

(* arq__send_wnd_ack *)
LEMMA AckFront ==
    ASSUME SendCap < SeqMod,
           NEW w \in SendWndType, NEW seq \in 0..(SeqMod - 1), NEW vec \in Vecs
    PROVE  Front(w, SendWndAck(w, seq, vec))
  <1> DEFINE idx   == seq % SendCap
             msg   == [w.msg EXCEPT ![idx].cur_ack_vec = vec]
             n     == AckedPrefix(w, msg)
             freed == {(w.seq + i) % SendCap : i \in 0..(n - 1)}
             w2    == SendWndAck(w, seq, vec)
  <1>1. /\ w.size \in 0..SendCap /\ w.seq \in 0..(SeqMod - 1)
        /\ w.msg \in [SendIdx -> MsgType] /\ SendCap \in Nat \ {0} /\ SeqMod \in Nat \ {0}
    BY SendCapAssumption, SeqModAssumption DEF SendWndType
  <1>0. ASSUME NEW i \in SendIdx PROVE w.msg[i].len \in Nat
    <2>1. w.msg[i] \in MsgType
      BY <1>1
    <2> QED
      BY <2>1, MsgLenType DEF MsgType
  <1>2. CASE ~AckInWnd(w, seq)
    <2>1. w2 = w
      BY <1>2 DEF SendWndAck
    <2>2. w.size \in Nat
      BY <1>1
    <2>3. \A i \in SendIdx : w.msg[i].len >= w.msg[i].len
      BY <1>0
    <2>4. Front(w, w)
      BY <2>2, <2>3, NothingLeaves
    <2> QED
      BY <2>1, <2>4
  <1>3. CASE AckInWnd(w, seq)
    <2>1. /\ w2.seq = (w.seq + n) % SeqMod
          /\ w2.size = w.size - n
          /\ w2.msg = [i \in SendIdx |-> IF i \in freed THEN EmptyMsg ELSE msg[i]]
      BY <1>3 DEF SendWndAck, SendWndType
    <2>2. n \in 0..w.size
      BY AckedPrefixType
    <2>3. ASSUME NEW i \in SendIdx PROVE msg[i].len = w.msg[i].len
      BY <1>1 DEF MsgType
    <2> HIDE DEF idx, n, w2, msg
    <2>4. (w2.seq - w.seq) % SeqMod = n
      <3>1. n \in 0..(SeqMod - 1)
        BY <1>1, <2>2
      <3> QED
        BY ZenonT(40), <1>1, <2>1, <3>1, Moved
    <2>5. ASSUME NEW i \in n..(w.size - 1)
          PROVE  w2.msg[SlotOf(w, i)].len >= w.msg[SlotOf(w, i)].len
      <3>1. i \in SendIdx /\ SlotOf(w, i) \in SendIdx
        <4>1. i \in SendIdx /\ i \in Nat
          BY <1>1, <2>2 DEF SendIdx
        <4> QED
          BY <4>1, SlotOfType
      <3>2. SlotOf(w, i) \notin freed
        <4> SUFFICES ASSUME SlotOf(w, i) \in freed PROVE FALSE
          OBVIOUS
        <4>1. PICK f \in 0..(n - 1) : SlotOf(w, i) = SlotOf(w, f)
          BY DEF SlotOf
        <4>2. f \in SendIdx /\ f # i
          BY <1>1, <2>2, <3>1, <4>1 DEF SendIdx
        <4> QED
          BY <3>1, <4>1, <4>2, SlotsDiffer
      <3>3. w2.msg[SlotOf(w, i)].len = w.msg[SlotOf(w, i)].len
        BY <2>1, <2>3, <3>1, <3>2
      <3>4. w.msg[SlotOf(w, i)].len \in Nat
        BY <1>0, <3>1
      <3> QED
        BY <3>3, <3>4
    <2>6. n <= w.size /\ w2.size >= w.size - n
      BY <1>1, <2>1, <2>2
    <2> QED
      BY <2>4, <2>5, <2>6 DEF Front, w2
  <1> QED
    BY <1>2, <1>3

LEMMA FrontThenSame ==
    ASSUME NEW w \in SendWndType, NEW w2 \in SendWndType, NEW w3, Front(w, w2),
           SameMessages(w2, w3)
    PROVE  Front(w, w3)
  <1> DEFINE n == (w2.seq - w.seq) % SeqMod
  <1>1. n \in Nat
    <2>1. w2.seq - w.seq \in Int
      BY SeqModAssumption DEF SendWndType
    <2> QED
      BY <2>1, ModType, SeqModAssumption
  <1>2. (w3.seq - w.seq) % SeqMod = n /\ w3.size = w2.size
    BY DEF SameMessages
  <1> HIDE DEF n
  <1>3. ASSUME NEW i \in n..(w.size - 1)
        PROVE  w3.msg[SlotOf(w, i)].len >= w.msg[SlotOf(w, i)].len
    <2>1. w.size \in Nat
      BY SendCapAssumption DEF SendWndType
    <2>2. i \in Nat
      BY <1>1, <2>1
    <2>3. SlotOf(w, i) \in SendIdx
      BY <2>2, SlotOfType
    <2>4. w3.msg[SlotOf(w, i)].len = w2.msg[SlotOf(w, i)].len
      BY <2>3 DEF SameMessages
    <2>5. w2.msg[SlotOf(w, i)].len >= w.msg[SlotOf(w, i)].len
      BY DEF Front, n
    <2> QED
      BY <2>4, <2>5
  <1>4. n <= w.size /\ w2.size >= w.size - n
    BY DEF Front, n
  <1> QED
    BY <1>2, <1>3, <1>4 DEF Front

----------------------------------------------------------------------------
(* arq__send_wnd_send: no message gets shorter. *)
LEMMA SendFront ==
    ASSUME NEW w \in SendWndType, Shape(w), NEW data \in Seq(Nat)
    PROVE  Front(w, SendWndSend(w, data))
  <1> DEFINE k      == SubSat(w.size, 1)
             seq    == TailSeq(w)
             last   == TailLen(w)
             len    == Accepted(w, Len(data))
             full   == (last + len) \div MsgLen
             rem    == (last + len) - full * MsgLen
             size   == (WndSizeInBytes(w) + len + MsgLen - 1) \div MsgLen
             tail   == (w.seq + size - 1) % SendCap
             filled == {(seq + i) % SendCap : i \in 0..(full - 1)}
             w2     == SendWndSend(w, data)
  <1>1. /\ w.size \in 0..SendCap /\ w.seq \in Nat /\ w.size \in Nat
        /\ w.msg \in [SendIdx -> MsgType] /\ SendCap \in Nat \ {0}
        /\ MsgLen \in Nat \ {0}
    BY MsgLenType, SendCapAssumption, SeqModAssumption DEF SendWndType
  <1>2. ASSUME NEW i \in SendIdx PROVE w.msg[i] \in MsgType /\ w.msg[i].len \in 0..MsgLen
    <2>1. w.msg[i] \in MsgType
      BY <1>1
    <2> QED
      BY <2>1 DEF MsgType
  <1>3. CASE Len(data) = 0
    <2>1. w2 = w
      BY <1>3 DEF SendWndSend
    <2>2. \A i \in SendIdx : w.msg[i].len >= w.msg[i].len
      BY <1>1, <1>2
    <2>3. Front(w, w)
      BY <1>1, <2>2, NothingLeaves
    <2> QED
      BY <2>1, <2>3
  <1>4. CASE Len(data) # 0
    <2>1. /\ w2.seq = w.seq /\ w2.size = size
          /\ w2.msg = [i \in SendIdx |->
                         IF rem > 0 /\ i = tail THEN [w.msg[i] EXCEPT !.len = rem]
                         ELSE IF i \in filled THEN [w.msg[i] EXCEPT !.len = MsgLen]
                         ELSE w.msg[i]]
      BY <1>4 DEF SendWndSend, SendWndType
    <2>2. /\ k \in Nat
          /\ w.size = 0 => k = 0 /\ last = 0
          /\ w.size > 0 => w.size = k + 1 /\ last > 0
      BY TailFacts
    <2>3. len \in Nat /\ last \in Nat /\ size \in 0..SendCap
      <3>1. Len(data) \in Nat
        OBVIOUS
      <3>2. len \in 0..Len(data) /\ last \in 0..MsgLen /\ size \in 0..SendCap
        BY <3>1, AcceptedType, TailType
      <3> QED
        BY <1>1, <3>1, <3>2
    <2>12. len \in Nat /\ last \in Nat
      BY <2>3
    <2>4. seq = w.seq + k /\ last = w.msg[SlotOf(w, k)].len
      BY DEF TailSeq, TailLen, SlotOf
    <2>5. WndSizeInBytes(w) = k * MsgLen + last
      BY DEF WndSizeInBytes
    <2> HIDE DEF k, last, len, seq, w2
    <2>6. /\ full \in Nat /\ rem \in Nat
          /\ size = k + full + (IF rem > 0 THEN 1 ELSE 0)
          /\ full = 0 /\ rem = 0 => last = 0
      <3>1. size = (k * MsgLen + last + len + MsgLen - 1) \div MsgLen
        BY <2>5
      <3> HIDE DEF size
      <3> QED
        BY <2>2, <2>12, <3>1, SendCounts
    <2>7. full = 0 => rem >= last
      <3>1. full = 0 => rem = last + len
        <4> HIDE DEF full
        <4> QED
          BY <1>1, <2>3
      <3> QED
        BY <2>3, <3>1
    <2> HIDE DEF full, rem, size
    <2>8. w2.size \in Nat /\ w2.size >= w.size
      BY <1>1, <2>1, <2>2, <2>3, <2>6
    (* The new last message was the last one, or empty. *)
    <2>9. ASSUME rem > 0 PROVE w.msg[tail].len <= rem
      <3>1. k + full \in SendIdx /\ w.seq + size - 1 = w.seq + (k + full)
        BY <1>1, <2>2, <2>3, <2>6, <2>9 DEF SendIdx
      <3>2. tail = SlotOf(w, k + full) /\ k + full \in Nat
        BY <2>2, <2>6, <3>1 DEF SlotOf
      <3> HIDE DEF tail
      <3>3. CASE full = 0
        <4>1. k + full = k
          BY <2>2, <3>3
        <4> QED
          BY <2>4, <2>7, <3>2, <3>3, <4>1
      <3>4. CASE full # 0
        <4>1. k + full >= w.size
          BY <1>1, <2>2, <2>6, <3>4
        <4>2. w.msg[tail] = EmptyMsg
          BY <3>1, <3>2, <4>1 DEF Shape, ShapeAt
        <4>3. w.msg[tail].len = 0
          BY <4>2 DEF EmptyMsg
        <4> QED
          BY <2>9, <2>6, <4>3
      <3> QED
        BY <3>3, <3>4
    <2> HIDE DEF tail, filled
    <2>10. ASSUME NEW i \in SendIdx PROVE w2.msg[i].len >= w.msg[i].len
      <3>1. CASE rem > 0 /\ i = tail
        <4>1. w2.msg[i] = [w.msg[i] EXCEPT !.len = rem]
          BY <2>1, <3>1
        <4>2. w2.msg[i].len = rem
          BY <1>2, <4>1 DEF MsgType
        <4>3. w.msg[i].len \in Nat
          BY <1>1, <1>2
        <4> QED
          BY <2>6, <2>9, <3>1, <4>2, <4>3
      <3>2. CASE ~(rem > 0 /\ i = tail) /\ i \in filled
        <4>1. w2.msg[i] = [w.msg[i] EXCEPT !.len = MsgLen]
          BY <2>1, <3>2
        <4>2. w2.msg[i].len = MsgLen
          BY <1>2, <4>1 DEF MsgType
        <4> QED
          BY <1>1, <1>2, <4>2
      <3>3. CASE ~(rem > 0 /\ i = tail) /\ i \notin filled
        <4>1. w2.msg[i] = w.msg[i]
          BY <2>1, <3>3
        <4> QED
          BY <1>1, <1>2, <4>1
      <3> QED
        BY <3>1, <3>2, <3>3
    <2>11. Front(w, w2)
      BY <1>1, <2>1, <2>8, <2>10, NothingLeaves
    <2> QED
      BY <2>11 DEF w2
  <1> QED
    BY <1>3, <1>4

----------------------------------------------------------------------------
LEMMA NextFront ==
    ASSUME SendCap < SeqMod, TypeOK, WindowShape, Next
    PROVE  sw' = SendWndRst(sw.buf) \/ Front(sw, sw')
  <1>1. sw \in SendWndType /\ Shape(sw) /\ sent \in Nat
    BY ShapeIsWindowShape DEF TypeOK
  <1>2. ASSUME NEW n \in SendLens, Send(n) PROVE Front(sw, sw')
    <2>1. StreamFrom(sent, n) \in Seq(Nat)
      BY <1>1, SendLensAssumption, StreamFromType
    <2> QED
      BY <1>1, <1>2, <2>1, SendFront DEF Send
  <1>3. ASSUME Flush PROVE Front(sw, sw')
    <2> DEFINE w2 == SendWndFlush(sw)
    <2>1. SameMessages(sw, w2)
      BY <1>1, FlushSameMessages
    <2>2. ASSUME NEW i \in SendIdx PROVE w2.msg[i].len >= sw.msg[i].len
      <3>1. sw.msg[i] \in MsgType
        BY <1>1 DEF SendWndType
      <3>2. sw.msg[i].len \in Nat
        BY <3>1, MsgLenType DEF MsgType
      <3> QED
        BY <2>1, <3>2 DEF SameMessages
    <2>3. sw.size \in Nat
      BY <1>1, SendCapAssumption DEF SendWndType
    <2> HIDE DEF w2
    <2>4. Front(sw, w2)
      BY <1>1, <2>1, <2>2, <2>3, NothingLeaves DEF SameMessages
    <2> QED
      BY <1>3, <2>4 DEF Flush, w2
  <1>4. ASSUME NEW psh \in BOOLEAN, NEW rh \in Acks, NEW dt \in Dts, Poll(psh, rh, dt)
        PROVE  Front(sw, sw')
    <2> DEFINE w3 == SendPoll(sw, sp, psh, FrameHdrInit, rh, dt).sw
    <2>1. Front(sw, Acked(sw, rh))
      <3>1. CASE rh.ack
        BY <1>1, <3>1, AckedType, AckFront, AckHdrType DEF Acked, CanAck
      <3>2. CASE ~rh.ack
        <4>1. ASSUME NEW i \in SendIdx PROVE sw.msg[i].len >= sw.msg[i].len
          <5>1. sw.msg[i] \in MsgType
            BY <1>1 DEF SendWndType
          <5>2. sw.msg[i].len \in Nat
            BY <5>1, MsgLenType DEF MsgType
          <5> QED
            BY <5>2
        <4>2. sw.size \in Nat
          BY <1>1, SendCapAssumption DEF SendWndType
        <4>3. Front(sw, sw)
          BY <1>1, <4>1, <4>2, NothingLeaves
        <4> QED
          BY <3>2, <4>3 DEF Acked
      <3> QED
        BY <3>1, <3>2
    <2>2. dt \in Nat
      BY DtsAssumption
    <2>3. SameMessages(Acked(sw, rh), w3)
      BY <1>1, <2>2, PollSameMessages, AckHdrType
    <2>4. sw' = w3
      BY <1>4 DEF Poll
    <2> HIDE DEF w3
    <2>5. Front(sw, w3)
      BY <1>1, <2>1, <2>3, AckedType, AckHdrType, FrontThenSame
    <2> QED
      BY <2>4, <2>5
  <1>5. ASSUME Reset PROVE sw' = SendWndRst(sw.buf)
    BY <1>5 DEF Reset
  <1> QED
    BY <1>2, <1>3, <1>4, <1>5 DEF Next

(* Whatever is acknowledged and whenever, a step of the send window that is not a
   reset frees messages from the front only, the ones that stay keep their slots
   and none of them gets shorter; for every window that is smaller than the
   sequence number space and divides it. *)
THEOREM OnlyFrontLeavesCorrect == SendCap < SeqMod /\ Spec => OnlyFrontLeaves
  <1> SUFFICES ASSUME SendCap < SeqMod PROVE Spec => OnlyFrontLeaves
    OBVIOUS
  <1>1. TypeOK /\ WindowShape /\ [Next]_vars => [sw' = SendWndRst(sw.buf) \/ FrontLeaves]_vars
    <2> SUFFICES ASSUME TypeOK, WindowShape, Next
                 PROVE  sw' = SendWndRst(sw.buf) \/ FrontLeaves
      OBVIOUS
    <2>1. sw' = SendWndRst(sw.buf) \/ Front(sw, sw')
      BY NextFront
    <2> QED
      BY <2>1 DEF FrontLeaves, Front, Slot, SlotOf
  <1> QED
    BY <1>1, TypeCorrect, WindowShapeCorrect, PTL DEF Spec, OnlyFrontLeaves
=============================================================================

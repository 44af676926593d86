----------------------------- MODULE WireProofs -----------------------------
(***************************************************************************)
(* What holds of frames on the wire for every header, every checksum       *)
(* function, every segment length and any amount of noise: what is read of *)
(* a header and of a frame is what was written, the receive buffer holds   *)
(* what arq__cobs_decode relies on, and the line carries whole frames as   *)
(* FrameChannel promises.                                                  *)
(***************************************************************************)
EXTENDS Wire, NumberLemmas, SequenceTheorems

(* The parts that arq__frame_hdr_write cuts a field into, and what puts two of
   them together. *)
Nibble == 0..15
Hi4(n) == n \div 16
Lo4(n) == n % 16
Hi8(n) == n \div 256
Lo8(n) == n % 256
Up4(a) == 16 * a
Join4(a, b) == 16 * a + b
Join8(a, b) == 256 * a + b

LEMMA SplitIn16 ==
    ASSUME NEW n \in Bits12
    PROVE  Hi4(n) \in Byte /\ Lo4(n) \in Nibble /\ Join4(Hi4(n), Lo4(n)) = n
  BY DEF Byte, Bits12, Nibble, Hi4, Lo4, Join4

LEMMA SplitIn256 ==
    ASSUME NEW n \in Bits12
    PROVE  Hi8(n) \in Nibble /\ Lo8(n) \in Byte /\ Join8(Hi8(n), Lo8(n)) = n
  BY DEF Byte, Bits12, Nibble, Hi8, Lo8, Join8

LEMMA SplitByte ==
    ASSUME NEW n \in Byte
    PROVE  /\ Hi4(n) \in Nibble /\ Lo4(n) \in Nibble /\ Join4(Hi4(n), Lo4(n)) = n
           /\ Lo8(n) = n
  BY DEF Byte, Nibble, Hi4, Lo4, Lo8, Join4

LEMMA SharedByte ==
    ASSUME NEW a \in Nibble, NEW b \in Nibble
    PROVE  /\ Join4(a, b) \in Byte /\ Hi4(Join4(a, b)) = a /\ Lo4(Join4(a, b)) = b
           /\ Up4(a) \in Byte /\ Hi4(Up4(a)) = a
           /\ a \in Byte /\ Lo4(a) = a
  BY DEF Byte, Nibble, Hi4, Lo4, Up4, Join4

LEMMA FlagBits ==
    ASSUME NEW a \in {0, 1}, NEW b \in {0, 1}, NEW c \in {0, 1}, NEW d \in {0, 1}
    PROVE  LET n == a + 2 * b + 4 * c + 8 * d
           IN /\ n \in Byte
              /\ n % 2 = a
              /\ (n \div 2) % 2 = b
              /\ (n \div 4) % 2 = c
              /\ (n \div 8) % 2 = d
  BY DEF Byte

LEMMA FlagsRead ==
    ASSUME NEW h \in HdrType
    PROVE  /\ Flags(h) \in Byte
           /\ (Flags(h) % 2 = 1) = h.fin
           /\ ((Flags(h) \div 2) % 2 = 1) = h.rst
           /\ ((Flags(h) \div 4) % 2 = 1) = h.ack
           /\ ((Flags(h) \div 8) % 2 = 1) = h.seg
  <1>1. h.fin \in BOOLEAN /\ h.rst \in BOOLEAN /\ h.ack \in BOOLEAN /\ h.seg \in BOOLEAN
    BY DEF HdrType
  <1> DEFINE n == Flags(h)
  <1>2. /\ n \in Byte
        /\ n % 2 = Bit(h.fin)
        /\ (n \div 2) % 2 = Bit(h.rst)
        /\ (n \div 4) % 2 = Bit(h.ack)
        /\ (n \div 8) % 2 = Bit(h.seg)
    <2>1. ASSUME NEW b \in BOOLEAN PROVE Bit(b) \in {0, 1}
      BY DEF Bit
    <2> QED
      BY <1>1, <2>1, FlagBits DEF Flags
  <1>3. ASSUME NEW b \in BOOLEAN PROVE (Bit(b) = 1) = b
    BY DEF Bit
  <1> HIDE DEF n
  <1> QED
    BY <1>1, <1>2, <1>3 DEF n

----------------------------------------------------------------------------
(* The bytes of a header in terms of the parts of its fields. *)
Bytes(ver, len, flags, win, s1, s2, m1, m2, g1, g2, a1, a2, v1, v2) ==
    <<ver, len, flags, win, s1, Join4(s2, m1), Join4(m2, g1), g2, a1, Up4(a2), v1, v2>>

BytesOf(h) ==
    Bytes(h.version, h.seg_len, Flags(h), h.win_size,
          Hi4(h.seq_num), Lo4(h.seq_num), Hi4(h.msg_len), Lo4(h.msg_len),
          Hi8(h.seg_id), Lo8(h.seg_id), Hi4(h.ack_num), Lo4(h.ack_num),
          Hi8(h.cur_ack_vec), Lo8(h.cur_ack_vec))

(* The header that these parts are read as. *)
Hdr(ver, len, flags, win, seq, msg, seg, ack, vec) ==
    [version |-> ver, seg_len |-> len,
     fin |-> flags % 2 = 1, rst |-> (flags \div 2) % 2 = 1,
     ack |-> (flags \div 4) % 2 = 1, seg |-> (flags \div 8) % 2 = 1,
     win_size |-> win, seq_num |-> seq, msg_len |-> msg,
     seg_id |-> seg, ack_num |-> ack, cur_ack_vec |-> vec]

LEMMA BytesType ==
    ASSUME NEW ver \in Byte, NEW len \in Byte, NEW flags \in Byte, NEW win \in Byte,
           NEW s1 \in Byte, NEW s2 \in Nibble, NEW m1 \in Nibble, NEW m2 \in Nibble,
           NEW g1 \in Nibble, NEW g2 \in Byte, NEW a1 \in Byte, NEW a2 \in Nibble,
           NEW v1 \in Nibble, NEW v2 \in Byte
    PROVE  Bytes(ver, len, flags, win, s1, s2, m1, m2, g1, g2, a1, a2, v1, v2) \in Seq(Byte)
  <1>1. Join4(s2, m1) \in Byte /\ Join4(m2, g1) \in Byte /\ Up4(a2) \in Byte /\ v1 \in Byte
    BY SharedByte
  <1> QED
    BY <1>1 DEF Bytes

LEMMA BytesRead ==
    ASSUME NEW ver, NEW len, NEW flags, NEW win,
           NEW s1 \in Byte, NEW s2 \in Nibble, NEW m1 \in Nibble, NEW m2 \in Nibble,
           NEW g1 \in Nibble, NEW g2 \in Byte, NEW a1 \in Byte, NEW a2 \in Nibble,
           NEW v1 \in Nibble, NEW v2 \in Byte
    PROVE  FrameHdrRead(Bytes(ver, len, flags, win, s1, s2, m1, m2, g1, g2, a1, a2, v1, v2)) =
             Hdr(ver, len, flags, win, Join4(s1, s2), Join4(m1, m2), Join8(g1, g2),
                 Join4(a1, a2), Join8(v1, v2))
  <1> DEFINE b == Bytes(ver, len, flags, win, s1, s2, m1, m2, g1, g2, a1, a2, v1, v2)
  <1>1. /\ b[1] = ver /\ b[2] = len /\ b[3] = flags /\ b[4] = win /\ b[5] = s1
        /\ b[6] = Join4(s2, m1) /\ b[7] = Join4(m2, g1) /\ b[8] = g2 /\ b[9] = a1
        /\ b[10] = Up4(a2) /\ b[11] = v1 /\ b[12] = v2
    BY DEF Bytes
  <1> HIDE DEF b
  <1>2. /\ Hi4(b[6]) = s2 /\ Lo4(b[6]) = m1 /\ Hi4(b[7]) = m2 /\ Lo4(b[7]) = g1
        /\ Hi4(b[10]) = a2 /\ Lo4(b[11]) = v1
    BY <1>1, SharedByte
  <1>3. FrameHdrRead(b) =
          Hdr(b[1], b[2], b[3], b[4], Join4(b[5], Hi4(b[6])), Join4(Lo4(b[6]), Hi4(b[7])),
              Join8(Lo4(b[7]), b[8]), Join4(b[9], Hi4(b[10])), Join8(Lo4(b[11]), b[12]))
    BY DEF FrameHdrRead, Hdr, Join4, Join8, Hi4, Lo4
  <1> QED
    BY <1>1, <1>2, <1>3 DEF b

LEMMA HdrFields ==
    ASSUME NEW h \in HdrType
    PROVE  /\ h.version \in Byte /\ h.seg_len \in Byte /\ h.win_size \in Byte
           /\ h.msg_len \in Byte /\ h.seq_num \in Bits12 /\ h.seg_id \in Bits12
           /\ h.ack_num \in Bits12 /\ h.cur_ack_vec \in Bits12
  BY DEF HdrType

LEMMA HeaderBytes ==
    ASSUME NEW h \in HdrType
    PROVE  FrameHdrWrite(h) = BytesOf(h) /\ FrameHdrWrite(h) \in Seq(Byte)
  <1>1. FrameHdrWrite(h) = BytesOf(h)
    <2>1. Lo8(h.seg_len) = h.seg_len
      BY HdrFields, SplitByte
    <2>2. FrameHdrWrite(h) =
            Bytes(h.version, Lo8(h.seg_len), Flags(h), h.win_size,
                  Hi4(h.seq_num), Lo4(h.seq_num), Hi4(h.msg_len), Lo4(h.msg_len),
                  Hi8(h.seg_id), Lo8(h.seg_id), Hi4(h.ack_num), Lo4(h.ack_num),
                  Hi8(h.cur_ack_vec), Lo8(h.cur_ack_vec))
      BY DEF FrameHdrWrite, Bytes, Hi4, Lo4, Hi8, Lo8, Up4, Join4
    <2> QED
      BY <2>1, <2>2 DEF BytesOf
  <1>2. BytesOf(h) \in Seq(Byte)
    BY HdrFields, FlagsRead, SplitIn16, SplitIn256, SplitByte, BytesType DEF BytesOf
  <1> QED
    BY <1>1, <1>2

(* A header survives the wire whatever its fields hold: no field of
   arq__frame_hdr_write overlaps another, and arq__frame_hdr_read takes each
   from where it was put. *)
THEOREM HeaderRoundTrip ==
    ASSUME NEW h \in HdrType
    PROVE  FrameHdrRead(FrameHdrWrite(h)) = h
  <1>1. FrameHdrRead(BytesOf(h)) =
          Hdr(h.version, h.seg_len, Flags(h), h.win_size,
              Join4(Hi4(h.seq_num), Lo4(h.seq_num)), Join4(Hi4(h.msg_len), Lo4(h.msg_len)),
              Join8(Hi8(h.seg_id), Lo8(h.seg_id)), Join4(Hi4(h.ack_num), Lo4(h.ack_num)),
              Join8(Hi8(h.cur_ack_vec), Lo8(h.cur_ack_vec)))
    BY HdrFields, SplitIn16, SplitIn256, SplitByte, BytesRead DEF BytesOf
  <1>2. FrameHdrRead(BytesOf(h)) =
          Hdr(h.version, h.seg_len, Flags(h), h.win_size,
              h.seq_num, h.msg_len, h.seg_id, h.ack_num, h.cur_ack_vec)
    BY <1>1, HdrFields, SplitIn16, SplitIn256, SplitByte
  <1>3. Hdr(h.version, h.seg_len, Flags(h), h.win_size,
            h.seq_num, h.msg_len, h.seg_id, h.ack_num, h.cur_ack_vec) = h
    <2>1. Hdr(h.version, h.seg_len, Flags(h), h.win_size,
              h.seq_num, h.msg_len, h.seg_id, h.ack_num, h.cur_ack_vec) =
            [version |-> h.version, seg_len |-> h.seg_len,
             fin |-> h.fin, rst |-> h.rst, ack |-> h.ack, seg |-> h.seg,
             win_size |-> h.win_size, seq_num |-> h.seq_num, msg_len |-> h.msg_len,
             seg_id |-> h.seg_id, ack_num |-> h.ack_num, cur_ack_vec |-> h.cur_ack_vec]
      BY FlagsRead DEF Hdr
    <2> QED
      BY <2>1 DEF HdrType
  <1> QED
    BY <1>2, <1>3, HeaderBytes

----------------------------------------------------------------------------
(* What is put on the wire: bytes *)

LEMMA ByteOf ==
    ASSUME NEW x \in Nat
    PROVE  x % 256 \in Byte
  BY DEF Byte

LEMMA CobsEncodeType ==
    ASSUME NEW f \in Seq(Byte)
    PROVE  CobsEncode(f) \in Seq(Byte)
  <1> DEFINE n     == Len(f)
             stops == {1, n} \cup {i \in 2..(n - 1) : f[i] = 0}
             next(i) == (Min({j \in stops : j > i}) - i) % 256
             code(i) == IF i = n THEN 0 ELSE IF i \in stops THEN next(i) ELSE f[i]
  <1>1. n \in Nat
    OBVIOUS
  <1>2. ASSUME NEW i \in 1..n PROVE code(i) \in Byte
    <2>1. CASE i = n
      BY <2>1 DEF Byte
    <2>2. CASE i # n
      <3> DEFINE later == {j \in stops : j > i}
      <3>1. later \subseteq Nat /\ n \in later
        BY <1>1, <2>2
      <3>2. Min(later) \in Nat
        BY <3>1, MinOfNats
      <3>3. Min(later) \in later
        BY <3>1, MinOfNats
      <3>4. Min(later) - i \in Nat
        BY <1>1, <3>2, <3>3
      <3> HIDE DEF later
      <3>5. (Min(later) - i) % 256 \in Byte
        BY <3>4, ByteOf
      <3>6. f[i] \in Byte
        BY <1>2, ElementOfSeq
      <3> QED
        BY <2>2, <3>5, <3>6 DEF later
    <2> QED
      BY <2>1, <2>2
  <1>3. CobsEncode(f) = [i \in 1..n |-> code(i)]
    BY DEF CobsEncode
  <1> HIDE DEF n, code
  <1> QED
    BY <1>1, <1>2, <1>3

LEMMA EncodedType ==
    ASSUME NEW f \in Frames
    PROVE  Encoded[f] \in Seq(Byte)
  <1> DEFINE body == Body(f.hdr, f.seg)
             sum  == Checksum(body)
  <1>1. body \in Seq(Byte)
    BY FramesAssumption, HeaderBytes, ConcatProperties DEF Body
  <1>2. sum \in Seq(Byte)
    BY ChecksumAssumption
  <1>3. <<0>> \in Seq(Byte)
    BY DEF Byte
  <1>4. Encoded[f] = CobsEncode(<<0>> \o body \o sum \o <<0>>)
    BY DEF Encoded, FrameWrite
  <1> HIDE DEF body, sum
  <1>5. <<0>> \o body \o sum \o <<0>> \in Seq(Byte)
    BY <1>1, <1>2, <1>3, ConcatProperties
  <1> QED
    BY <1>4, <1>5, CobsEncodeType

LEMMA PartType ==
    ASSUME NEW s \in Seq(Byte), NEW m \in Nat \ {0}, NEW n \in Int, n <= Len(s)
    PROVE  SubSeq(s, m, n) \in Seq(Byte)
  <1>1. ASSUME NEW i \in m..n PROVE s[i] \in Byte
    <2>1. i \in 1..Len(s)
      OBVIOUS
    <2> QED
      BY <2>1, ElementOfSeq
  <1>2. m \in Int
    OBVIOUS
  <1> QED
    BY <1>1, <1>2, SubSeqProperties

(* The ways in which noise damages a frame. *)
LEMMA DamagedCases ==
    ASSUME NEW s, NEW t \in Damaged(s)
    PROVE  \/ \E i \in 1..(Len(s) - 1), b \in {0, 1, 255} : t = [s EXCEPT ![i] = b]
           \/ \E i \in 1..(Len(s) - 1) : t = WithoutByte(s, i)
           \/ \E i \in 1..(Len(s) - 1), b \in {0, 255} : t = WithByte(s, i, b)
           \/ "lost_end" \in Noise /\ t = WithoutByte(s, Len(s))
  <1> DEFINE inner   == 1..(Len(s) - 1)
             flips   == {[s EXCEPT ![i] = b] : i \in inner, b \in {0, 1, 255}}
             drops   == {WithoutByte(s, i) : i \in inner}
             inserts == {WithByte(s, i, b) : i \in inner, b \in {0, 255}}
             lost    == {WithoutByte(s, Len(s))}
  <1>1. \/ t \in flips \/ t \in drops \/ t \in inserts
        \/ "lost_end" \in Noise /\ t \in lost
    <2> HIDE DEF flips, drops, inserts, lost
    <2>1. t \in UNION {IF "flip" \in Noise THEN flips ELSE {},
                       IF "drop" \in Noise THEN drops ELSE {},
                       IF "insert" \in Noise /\ Len(s) < Cap THEN inserts ELSE {},
                       IF "lost_end" \in Noise THEN lost ELSE {}}
      BY DEF Damaged, flips, drops, inserts, lost, inner
    <2> QED
      BY <2>1
  <1> HIDE DEF inner
  <1> QED
    BY <1>1 DEF inner

LEMMA DamagedType ==
    ASSUME NEW s \in Seq(Byte), NEW t \in Damaged(s)
    PROVE  t \in Seq(Byte)
  <1> DEFINE inner == 1..(Len(s) - 1)
  <1>1. Len(s) \in Nat
    BY LenProperties
  <1>2. ASSUME NEW i \in inner PROVE i \in 1..Len(s) /\ i \in Nat \ {0} /\ i + 1 \in Nat \ {0}
    BY <1>1
  <1>3. ASSUME NEW i \in inner
        PROVE  SubSeq(s, 1, i - 1) \in Seq(Byte) /\ SubSeq(s, i, Len(s)) \in Seq(Byte)
               /\ SubSeq(s, i + 1, Len(s)) \in Seq(Byte)
    BY <1>1, <1>2, PartType
  <1>4. ASSUME NEW i \in inner, NEW b \in {0, 1, 255} PROVE [s EXCEPT ![i] = b] \in Seq(Byte)
    <2>1. b \in Byte
      BY DEF Byte
    <2> QED
      BY <1>2, <2>1, ExceptSeq
  <1>5. ASSUME NEW i \in inner PROVE WithoutByte(s, i) \in Seq(Byte)
    BY <1>3, ConcatProperties DEF WithoutByte
  <1>6. ASSUME NEW i \in inner, NEW b \in {0, 255} PROVE WithByte(s, i, b) \in Seq(Byte)
    <2>1. <<b>> \in Seq(Byte)
      BY DEF Byte
    <2>2. SubSeq(s, 1, i - 1) \o <<b>> \in Seq(Byte)
      BY <1>3, <2>1, ConcatProperties
    <2> QED
      BY <1>3, <2>2, ConcatProperties DEF WithByte
  <1>7. WithoutByte(s, Len(s)) \in Seq(Byte)
    <2>1. SubSeq(s, 1, Len(s) - 1) \in Seq(Byte) /\ SubSeq(s, Len(s) + 1, Len(s)) \in Seq(Byte)
      BY <1>1, PartType
    <2> QED
      BY <2>1, ConcatProperties DEF WithoutByte
  <1>8. \/ \E i \in inner, b \in {0, 1, 255} : t = [s EXCEPT ![i] = b]
        \/ \E i \in inner : t = WithoutByte(s, i)
        \/ \E i \in inner, b \in {0, 255} : t = WithByte(s, i, b)
        \/ t = WithoutByte(s, Len(s))
    BY DamagedCases
  <1> HIDE DEF inner
  <1>9. CASE \E i \in inner, b \in {0, 1, 255} : t = [s EXCEPT ![i] = b]
    <2>1. PICK i \in inner, b \in {0, 1, 255} : t = [s EXCEPT ![i] = b]
      BY <1>9
    <2>2. [s EXCEPT ![i] = b] \in Seq(Byte)
      BY <1>4, ZenonT(30)
    <2> QED
      BY <2>1, <2>2, Zenon
  <1>10. CASE \E i \in inner : t = WithoutByte(s, i)
    BY <1>5, <1>10
  <1>11. CASE \E i \in inner, b \in {0, 255} : t = WithByte(s, i, b)
    BY <1>6, <1>11
  <1> QED
    BY <1>7, <1>8, <1>9, <1>10, <1>11

----------------------------------------------------------------------------
(* arq__recv_frame_fill *)

(* The bytes of a receive buffer that OnlyLastByteZero is about. *)
EndsAtZero(f) ==
    /\ \A i \in 1..(f.len - 1) : f.buf[i] # 0
    /\ f.state = "FULL" => f.len > 0 /\ f.buf[f.len] = 0
    /\ f.state = "ACCUMULATING" /\ f.len > 0 => f.buf[f.len] # 0

LEMMA FillCountType ==
    ASSUME NEW f \in RecvFrameType, NEW src \in Seq(Byte)
    PROVE  /\ FillCount(f, src) \in 0..Len(src)
           /\ f.len + FillCount(f, src) \in 0..Cap
           /\ f.state = "FULL" => FillCount(f, src) = 0
           /\ \A i \in 1..(FillCount(f, src) - 1) : src[i] # 0
  <1> DEFINE room  == Cap - f.len
             zeros == {i \in DOMAIN src : src[i] = 0}
             stops == {Len(src), room} \cup zeros
             n     == Min(stops)
  <1>1. Cap \in Nat /\ f.len \in 0..Cap /\ Len(f.buf) = Cap
    <2>1. Cap \in Nat
      BY SegLenAssumption DEF Cap, FrameLen, CobsOverhead, HeaderSize
    <2>2. f.buf \in [1..Cap -> Byte] /\ f.len \in 0..Cap
      BY DEF RecvFrameType
    <2> HIDE DEF room, n
    <2> QED
      BY <2>1, <2>2
  <1>2. Len(src) \in Nat /\ DOMAIN src = 1..Len(src)
    BY LenProperties
  <1>3. room \in Nat /\ stops \subseteq Nat /\ stops # {}
    BY <1>1, <1>2
  <1>4. n \in Nat /\ n <= Len(src) /\ n <= room /\ \A i \in zeros : n <= i
    BY <1>3, MinOfNats
  <1>5. FillCount(f, src) = IF f.state = "FULL" THEN 0 ELSE n
    BY <1>1 DEF FillCount
  <1> HIDE DEF n, stops
  <1>6. ASSUME NEW i \in 1..(n - 1) PROVE src[i] # 0
    <2>1. i \in DOMAIN src /\ ~(n <= i)
      BY <1>2, <1>4
    <2> QED
      BY <1>4, <2>1
  <1> HIDE DEF zeros
  <1>7. CASE f.state = "FULL"
    BY <1>1, <1>2, <1>5, <1>7
  <1>8. CASE f.state # "FULL"
    <2>1. f.len + n \in 0..Cap /\ n \in 0..Len(src)
      BY <1>1, <1>2, <1>3, <1>4
    <2> QED
      BY <1>5, <1>6, <1>8, <2>1
  <1> QED
    BY <1>7, <1>8

LEMMA FillKeeps ==
    ASSUME NEW f \in RecvFrameType, EndsAtZero(f), NEW src \in Seq(Byte)
    PROVE  RecvFrameFill(f, src) \in RecvFrameType /\ EndsAtZero(RecvFrameFill(f, src))
  <1> DEFINE n  == FillCount(f, src)
             f2 == RecvFrameFill(f, src)
  <1>1. /\ n \in 0..Len(src) /\ f.len + n \in 0..Cap /\ Len(src) \in Nat
        /\ f.state = "FULL" => n = 0
        /\ \A i \in 1..(n - 1) : src[i] # 0
    BY FillCountType, LenProperties
  <1>2. /\ f.buf \in [1..Cap -> Byte] /\ f.len \in 0..Cap /\ DOMAIN f.buf = 1..Cap
        /\ f.state \in {"ACCUMULATING", "FULL"} /\ Cap \in Nat
    BY SegLenAssumption DEF RecvFrameType, Cap, FrameLen, CobsOverhead, HeaderSize
  <1> HIDE DEF n
  <1>3. /\ f2.buf = [i \in 1..Cap |-> IF i \in (f.len + 1)..(f.len + n) THEN src[i - f.len]
                                      ELSE f.buf[i]]
        /\ f2.len = f.len + n
        /\ f2.state = IF n > 0 /\ src[n] = 0 THEN "FULL" ELSE f.state
        /\ f2 = [buf |-> f2.buf, len |-> f2.len, state |-> f2.state]
    BY <1>2 DEF RecvFrameFill, n
  <1>4. ASSUME NEW i \in 1..Cap PROVE f2.buf[i] \in Byte
    <2>1. CASE i \in (f.len + 1)..(f.len + n)
      <3>1. i - f.len \in 1..Len(src)
        BY <1>1, <1>2, <2>1
      <3>2. src[i - f.len] \in Byte
        BY <3>1, ElementOfSeq
      <3> QED
        BY <1>3, <2>1, <3>2
    <2>2. CASE i \notin (f.len + 1)..(f.len + n)
      BY <1>2, <1>3, <2>2
    <2> QED
      BY <2>1, <2>2
  <1> HIDE DEF f2
  <1>5. f2 \in RecvFrameType
    <2>1. f2.buf \in [1..Cap -> Byte]
      BY <1>3, <1>4
    <2> QED
      BY <1>1, <1>2, <1>3, <2>1 DEF RecvFrameType
  (* Byte i of the buffer after the call: an old one or one of src. *)
  <1>6. ASSUME NEW i \in 1..f2.len
        PROVE  /\ i <= f.len => f2.buf[i] = f.buf[i]
               /\ i > f.len => i - f.len \in 1..n /\ f2.buf[i] = src[i - f.len]
    <2>1. i \in 1..Cap /\ (i > f.len <=> i \in (f.len + 1)..(f.len + n))
      BY <1>1, <1>2, <1>3
    <2>2. f2.buf[i] = IF i \in (f.len + 1)..(f.len + n) THEN src[i - f.len] ELSE f.buf[i]
      BY <1>3, <2>1
    <2>3. i \in Nat /\ f.len \in Nat
      BY <1>2
    <2> QED
      BY <1>1, <2>1, <2>2, <2>3
  <1>7. CASE f.state = "FULL"
    <2>1. n = 0 /\ f2.len = f.len /\ f2.state = "FULL"
      BY <1>1, <1>2, <1>3, <1>7
    <2>2. ASSUME NEW i \in 1..f2.len PROVE f2.buf[i] = f.buf[i]
      BY <1>2, <1>6, <2>1
    <2>3. EndsAtZero(f2)
      BY <1>2, <1>7, <2>1, <2>2 DEF EndsAtZero
    <2> QED
      BY <1>5, <2>3 DEF f2
  <1>8. CASE f.state = "ACCUMULATING"
    <2>1. ASSUME NEW i \in 1..f.len PROVE f.buf[i] # 0
      BY <1>2, <1>8 DEF EndsAtZero
    <2>2. ASSUME NEW i \in 1..(f2.len - 1) PROVE f2.buf[i] # 0
      <3>1. i \in 1..f2.len /\ f2.len = f.len + n /\ i \in Nat
        BY <1>1, <1>2, <1>3
      <3>2. CASE i <= f.len
        BY <1>6, <2>1, <3>1, <3>2
      <3>3. CASE i > f.len
        <4>1. i - f.len \in 1..(n - 1)
          BY <1>1, <1>2, <3>1, <3>3
        <4> QED
          BY <1>1, <1>6, <3>1, <3>3, <4>1
      <3> QED
        BY <1>2, <3>1, <3>2, <3>3
    <2>3. CASE n = 0
      <3>1. f2.len = f.len /\ f2.state = "ACCUMULATING"
        BY <1>2, <1>3, <1>8, <2>3
      <3>2. f2.len > 0 => f2.buf[f2.len] # 0
        BY <1>2, <1>6, <2>1, <3>1
      <3> QED
        BY <1>5, <2>2, <3>1, <3>2 DEF EndsAtZero, f2
    <2>4. CASE n > 0
      <3>1. /\ f2.len \in 1..f2.len /\ f2.len > f.len /\ f2.len - f.len = n /\ f2.len > 0
        BY <1>1, <1>2, <1>3, <2>4
      <3>2. f2.buf[f2.len] = src[n]
        BY <1>6, <3>1
      <3>3. f2.state = IF src[n] = 0 THEN "FULL" ELSE "ACCUMULATING"
        BY <1>3, <1>8, <2>4
      <3>4. EndsAtZero(f2)
        BY <2>2, <3>1, <3>2, <3>3 DEF EndsAtZero
      <3> QED
        BY <1>5, <3>4 DEF f2
    <2> QED
      BY <1>1, <2>3, <2>4
  <1> QED
    BY <1>2, <1>7, <1>8

----------------------------------------------------------------------------
(* The types and the zeros are inductive together. *)
Inv == TypeOK /\ OnlyLastByteZero

LEMMA InitInv == Init => Inv
  <1> SUFFICES ASSUME Init PROVE Inv
    OBVIOUS
  <1>1. Cap \in Nat
    BY SegLenAssumption DEF Cap, FrameLen, CobsOverhead, HeaderSize
  <1>2. [i \in 1..Cap |-> 0] \in [1..Cap -> Byte]
    BY DEF Byte
  <1>3. rf \in RecvFrameType /\ rf.len = 0 /\ rf.state = "ACCUMULATING"
    BY <1>1, <1>2 DEF Init, RecvFrameType
  <1>4. TypeOK
    <2>1. wire \in Seq(Byte) /\ noises \in 0..MaxNoise
      BY MaxNoiseAssumption, EmptySeq DEF Init
    <2>2. need_poll \in BOOLEAN /\ ~need_poll /\ rf.state # "FULL"
      BY <1>3 DEF Init
    <2> QED
      BY <1>3, <2>1, <2>2 DEF TypeOK
  <1>5. OnlyLastByteZero
    BY <1>3 DEF OnlyLastByteZero
  <1> QED
    BY <1>4, <1>5 DEF Inv

(* Sending touches only the wire, and puts bytes on it. *)
LEMMA WireKeepsInv ==
    ASSUME Inv, wire' \in Seq(Byte), noises' \in 0..MaxNoise, UNCHANGED <<rf, need_poll>>
    PROVE  Inv'
  BY DEF Inv, TypeOK, OnlyLastByteZero

LEMMA SentType ==
    ASSUME Inv, NEW f, NEW clean, NEW bytes \in Seq(Byte), Sent(f, clean, bytes)
    PROVE  wire' \in Seq(Byte) /\ UNCHANGED <<rf, need_poll>>
  BY ConcatProperties DEF Sent, Inv, TypeOK

LEMMA NoiseCount ==
    ASSUME Inv, noises < MaxNoise
    PROVE  noises + 1 \in 0..MaxNoise
  BY MaxNoiseAssumption DEF Inv, TypeOK

LEMMA NextKeepsInv == Inv /\ [Next]_vars => Inv'
  <1> SUFFICES ASSUME Inv, [Next]_vars PROVE Inv'
    OBVIOUS
  <1>1. ASSUME NEW f \in Frames, Send(f) PROVE Inv'
    <2>1. wire' \in Seq(Byte) /\ UNCHANGED <<rf, need_poll>>
      BY <1>1, EncodedType, SentType DEF Send
    <2>2. noises' \in 0..MaxNoise
      BY <1>1 DEF Send, Inv, TypeOK
    <2> QED
      BY <2>1, <2>2, WireKeepsInv
  <1>2. ASSUME NEW f \in Frames, SendDamaged(f) PROVE Inv'
    <2>1. PICK bytes \in Damaged(Encoded[f]) : Sent(f, FALSE, bytes)
      BY <1>2 DEF SendDamaged
    <2>2. bytes \in Seq(Byte)
      BY EncodedType, DamagedType
    <2>3. wire' \in Seq(Byte) /\ UNCHANGED <<rf, need_poll>>
      BY <2>1, <2>2, SentType
    <2>4. noises' \in 0..MaxNoise
      BY <1>2, NoiseCount DEF SendDamaged
    <2> QED
      BY <2>3, <2>4, WireKeepsInv
  <1>3. ASSUME Stray PROVE Inv'
    <2>1. wire' \in Seq(Byte)
      <3>1. wire \in Seq(Byte) /\ 0 \in Byte
        BY DEF Inv, TypeOK, Byte
      <3> QED
        BY <1>3, <3>1, AppendProperties DEF Stray
    <2>2. noises' \in 0..MaxNoise
      BY <1>3, NoiseCount DEF Stray
    <2> QED
      BY <1>3, <2>1, <2>2, WireKeepsInv DEF Stray
  <1>4. ASSUME NEW n \in Chunks, Fill(n) PROVE Inv'
    <2> DEFINE src == Offer(n)
               f2  == RecvFrameFill(rf, src)
    <2>1. rf \in RecvFrameType /\ EndsAtZero(rf) /\ wire \in Seq(Byte) /\ Len(wire) \in Nat
      BY LenProperties DEF Inv, TypeOK, OnlyLastByteZero, EndsAtZero
    <2>2. Min({n, Len(wire)}) \in Nat /\ Min({n, Len(wire)}) <= Len(wire)
      <3>1. {n, Len(wire)} \subseteq Nat /\ {n, Len(wire)} # {}
        BY <2>1, ChunksAssumption
      <3> QED
        BY <2>1, <3>1, MinOfNats
    <2>3. src \in Seq(Byte)
      <3> DEFINE k == Min({n, Len(wire)})
      <3>1. k \in Int /\ k <= Len(wire) /\ 1 \in Nat \ {0}
        BY <2>2
      <3> HIDE DEF k
      <3>2. SubSeq(wire, 1, k) \in Seq(Byte)
        BY <2>1, <3>1, PartType
      <3> QED
        BY <3>2 DEF Offer, k
    <2> HIDE DEF src
    <2>4. f2 \in RecvFrameType /\ EndsAtZero(f2)
      BY <2>1, <2>3, FillKeeps
    <2>5. rf' = f2 /\ need_poll' = (need_poll \/ rf'.state = "FULL") /\ UNCHANGED noises
          /\ wire' = SubSeq(wire, 1 + FillCount(rf, src), Len(wire))
      BY <1>4 DEF Fill, src
    <2>6. wire' \in Seq(Byte)
      <3>1. 1 + FillCount(rf, src) \in Nat \ {0}
        <4>1. FillCount(rf, src) \in 0..Len(src) /\ Len(src) \in Nat
          BY <2>1, <2>3, FillCountType, LenProperties
        <4> QED
          BY <4>1
      <3>2. SubSeq(wire, 1 + FillCount(rf, src), Len(wire)) \in Seq(Byte)
        BY <2>1, <3>1, PartType
      <3> QED
        BY <2>5, <3>2
    <2>7. rf.state = "FULL" => f2.state = "FULL"
      <3>1. rf.state = "FULL" => FillCount(rf, src) = 0
        BY <2>1, <2>3, FillCountType
      <3> QED
        BY <3>1 DEF RecvFrameFill
    <2> HIDE DEF f2
    <2>8. TypeOK'
      <3>1. rf'.state = "FULL" <=> need_poll'
        BY <2>5, <2>7 DEF Inv, TypeOK
      <3>2. need_poll' \in BOOLEAN
        BY <2>5 DEF Inv, TypeOK
      <3>3. noises' \in 0..MaxNoise
        BY <2>5 DEF Inv, TypeOK
      <3>4. rf' \in RecvFrameType
        BY <2>4, <2>5
      <3> QED
        BY <2>6, <3>1, <3>2, <3>3, <3>4 DEF TypeOK, RecvFrameType
    <2>9. OnlyLastByteZero'
      BY <2>4, <2>5 DEF OnlyLastByteZero, EndsAtZero
    <2> QED
      BY <2>8, <2>9 DEF Inv
  <1>5. ASSUME Poll PROVE Inv'
    <2>1. CASE rf.state = "FULL"
      <3> DEFINE b  == CobsDecode(rf.buf, rf.len)
                 f2 == RecvFrameRst([rf EXCEPT !.buf = b])
      <3>1. rf' = f2 /\ need_poll' = FALSE /\ UNCHANGED <<wire, noises>>
        BY <1>5, <2>1 DEF Poll, Received, FrameRead, ReadDecoded
      <3>2. rf \in RecvFrameType
        BY DEF Inv, TypeOK
      <3>3. b \in [1..Cap -> Byte]
        <4>1. rf.buf \in [1..Cap -> Byte] /\ Cap \in Nat
          BY <3>2, SegLenAssumption DEF RecvFrameType, Cap, FrameLen, CobsOverhead, HeaderSize
        <4>2. Len(rf.buf) = Cap
          BY <4>1
        <4>3. 0 \in Byte
          BY DEF Byte
        <4> QED
          BY <4>1, <4>2, <4>3 DEF CobsDecode
      <3> HIDE DEF b
      <3>4. f2 \in RecvFrameType /\ f2.len = 0 /\ f2.state = "ACCUMULATING"
        <4>1. 0 \in 0..Cap
          BY SegLenAssumption DEF Cap, FrameLen, CobsOverhead, HeaderSize
        <4> QED
          BY <3>2, <3>3, <4>1 DEF RecvFrameRst, RecvFrameType
      <3> HIDE DEF f2
      <3>5. TypeOK'
        BY <3>1, <3>4 DEF Inv, TypeOK, RecvFrameType
      <3>6. OnlyLastByteZero'
        BY <3>1, <3>4 DEF OnlyLastByteZero
      <3> QED
        BY <3>5, <3>6 DEF Inv
    <2>2. CASE rf.state # "FULL"
      <3>1. UNCHANGED <<rf, wire, noises>> /\ need_poll' = FALSE
        BY <1>5, <2>2 DEF Poll
      <3>2. TypeOK'
        BY <2>2, <3>1 DEF Inv, TypeOK, RecvFrameType
      <3>3. OnlyLastByteZero'
        BY <3>1 DEF Inv, OnlyLastByteZero
      <3> QED
        BY <3>2, <3>3 DEF Inv
    <2> QED
      BY <2>1, <2>2
  <1>6. ASSUME UNCHANGED vars PROVE Inv'
    BY <1>6 DEF vars, Inv, TypeOK, OnlyLastByteZero
  <1> QED
    BY <1>1, <1>2, <1>3, <1>4, <1>5, <1>6 DEF Next, FillAny

LEMMA InvCorrect == Spec => []Inv
  BY InitInv, NextKeepsInv, PTL DEF Spec

(* The receive buffer is never written past its end, and is complete exactly as
   long as the backend has a poll to answer: for every segment length, checksum
   and size of the pieces that bytes arrive in, and however much noise. *)
THEOREM TypeCorrect == Spec => []TypeOK
  BY InvCorrect, PTL DEF Inv

(* arq__cobs_decode is never run on a buffer with a zero before the one it ends
   with, where it would assert or, with asserts compiled out, loop for ever:
   whatever noise does to whatever frames. *)
THEOREM OnlyLastByteZeroCorrect == Spec => []OnlyLastByteZero
  BY InvCorrect, PTL DEF Inv

----------------------------------------------------------------------------
(* COBS: the loop of arq__cobs_decode ends, and at the zeros that
   arq__cobs_encode took out. *)

At == Nat \ {0}

(* The bytes that the loop visits from c on. *)
IsChain(g, buf, n) ==
    g = [c \in At |-> IF c >= n THEN {} ELSE {c} \cup g[c + buf[c]]]

(* A block of bytes without a zero before the last. *)
NoZeroBefore(buf, n) == \A i \in 1..(n - 1) : buf[i] \in Byte /\ buf[i] # 0

LEMMA ChainStep ==
    ASSUME NEW buf, NEW n \in Nat, NoZeroBefore(buf, n), NEW c \in At, c < n
    PROVE  c + buf[c] \in At /\ c + buf[c] > c
  <1>1. buf[c] \in 0..255 /\ buf[c] # 0
    BY DEF NoZeroBefore, Byte, At
  <1> QED
    BY <1>1 DEF At

LEMMA ChainExists ==
    ASSUME NEW buf, NEW n \in Nat, NoZeroBefore(buf, n)
    PROVE  \E g : IsChain(g, buf, n)
  <1> DEFINE S    == [At -> SUBSET Nat]
             none == [c \in At |-> {}]
             F(h) == [c \in At |-> IF c >= n THEN {} ELSE {c} \cup h[c + buf[c]]]
             step == [x \in Nat \X S |-> F(x[2])]
  <1>1. none \in S
    OBVIOUS
  <1>2. ASSUME NEW h \in S PROVE F(h) \in S
    <2>1. ASSUME NEW c \in At, c < n PROVE {c} \cup h[c + buf[c]] \in SUBSET Nat
      <3>1. c + buf[c] \in At
        BY <2>1, ChainStep
      <3>2. h[c + buf[c]] \in SUBSET Nat
        BY <3>1
      <3> QED
        BY <3>2 DEF At
    <2> QED
      BY <2>1 DEF At
  <1> HIDE DEF F
  <1>3. step \in [Nat \X S -> S]
    BY <1>2
  <1>4. \A k \in Nat : \A h \in S : step[<<k, h>>] = F(h)
    OBVIOUS
  <1>5. \A h \in S : \A c \in At : F(h)[c] = IF c >= n THEN {} ELSE {c} \cup h[c + buf[c]]
    BY DEF F
  <1> HIDE DEF step
  <1>6. PICK f : Iterates(f, S, none, step)
    <2> HIDE DEF S, none
    <2> QED
      BY <1>1, <1>3, Recursion
  <1>7. f \in [Nat -> S] /\ f[0] = none /\ \A k \in Nat : f[k + 1] = F(f[k])
    BY <1>4, <1>6 DEF Iterates
  <1> DEFINE T == {k \in Nat : \A c \in At : c >= n - k => f[k + 1][c] = f[k][c]}
  <1>8. 0 \in T
    <2> SUFFICES ASSUME NEW c \in At, c >= n PROVE f[1][c] = f[0][c]
      OBVIOUS
    <2>1. f[0] \in S /\ f[1] = F(f[0])
      <3>1. 0 \in Nat /\ 0 + 1 = 1
        OBVIOUS
      <3> HIDE DEF S, none
      <3> QED
        BY <1>7, <3>1
    <2>2. f[1][c] = {}
      BY <1>5, <2>1
    <2> QED
      BY <1>7, <2>2
  <1>9. ASSUME NEW k \in T PROVE k + 1 \in T
    <2> SUFFICES ASSUME NEW c \in At, c >= n - (k + 1)
                 PROVE  f[(k + 1) + 1][c] = f[k + 1][c]
      OBVIOUS
    <2>1. /\ f[k] \in S /\ f[k + 1] \in S /\ k \in Nat
          /\ f[k + 1] = F(f[k]) /\ f[(k + 1) + 1] = F(f[k + 1])
      BY <1>7
    <2>2. CASE c >= n
      BY <1>5, <2>1, <2>2
    <2>3. CASE c < n
      <3>1. c + buf[c] \in At /\ c + buf[c] > c
        BY <2>3, ChainStep
      <3>2. c + buf[c] >= n - k
        BY <2>1, <3>1 DEF At
      <3>3. f[k + 1][c + buf[c]] = f[k][c + buf[c]]
        BY <3>1, <3>2
      <3>4. ~(c >= n)
        BY <2>3 DEF At
      <3>5. F(f[k])[c] = {c} \cup f[k][c + buf[c]]
        BY <1>5, <2>1, <3>4
      <3>6. F(f[k + 1])[c] = {c} \cup f[k + 1][c + buf[c]]
        BY <1>5, <2>1, <3>4
      <3> QED
        BY <2>1, <3>3, <3>5, <3>6
    <2> QED
      BY <2>2, <2>3 DEF At
  <1> HIDE DEF T
  <1>10. n \in T
    <2>1. T \subseteq Nat
      BY DEF T
    <2>2. T = Nat
      BY <1>8, <1>9, <2>1, InductionOnSet
    <2> QED
      BY <2>2
  <1>11. \A c \in At : F(f[n])[c] = f[n][c]
    <2>1. \A c \in At : c >= n - n
      BY DEF At
    <2> QED
      BY <1>7, <1>10, <2>1 DEF T
  <1>12. F(f[n]) = f[n]
    <2>1. f[n] \in S /\ F(f[n]) \in S
      BY <1>2, <1>7
    <2> QED
      BY <1>11, <2>1
  <1> QED
    BY <1>12 DEF F, IsChain

LEMMA ChainOf ==
    ASSUME NEW buf, NEW n \in Nat, NoZeroBefore(buf, n)
    PROVE  \E g : IsChain(g, buf, n) /\ CobsChain(buf, n) = g[1]
  <1> DEFINE g == CHOOSE h : h = [c \in Nat \ {0} |-> IF c >= n THEN {} ELSE {c} \cup h[c + buf[c]]]
  <1>1. CobsChain(buf, n) = g[1]
    BY DEF CobsChain
  <1>2. \E h : h = [c \in Nat \ {0} |-> IF c >= n THEN {} ELSE {c} \cup h[c + buf[c]]]
    BY ChainExists DEF IsChain, At
  <1>3. g = [c \in Nat \ {0} |-> IF c >= n THEN {} ELSE {c} \cup g[c + buf[c]]]
    BY <1>2
  <1> QED
    BY <1>1, <1>3 DEF IsChain, At

LEMMA ChainFacts ==
    ASSUME NEW g, NEW buf, NEW n \in Nat, IsChain(g, buf, n), NEW c \in At
    PROVE  /\ c >= n => g[c] = {}
           /\ c < n => g[c] = {c} \cup g[c + buf[c]]
  BY DEF IsChain, At

(* What the loop visits does not depend on what is behind the frame. *)
LEMMA ChainLocal ==
    ASSUME NEW b1, NEW b2, NEW n \in Nat, NoZeroBefore(b1, n),
           \A i \in 1..(n - 1) : b1[i] = b2[i]
    PROVE  CobsChain(b1, n) = CobsChain(b2, n)
  <1>1. NoZeroBefore(b2, n)
    BY DEF NoZeroBefore
  <1>2. PICK g : IsChain(g, b1, n) /\ CobsChain(b1, n) = g[1]
    BY ChainOf
  <1>3. PICK h : IsChain(h, b2, n) /\ CobsChain(b2, n) = h[1]
    BY <1>1, ChainOf
  <1> DEFINE T == {k \in Nat : \A c \in At : c >= n - k => g[c] = h[c]}
  <1>4. 0 \in T
    BY <1>2, <1>3, ChainFacts
  <1>5. ASSUME NEW k \in T PROVE k + 1 \in T
    <2> SUFFICES ASSUME NEW c \in At, c >= n - (k + 1) PROVE g[c] = h[c]
      OBVIOUS
    <2>1. CASE c >= n
      <3>1. g[c] = {}
        BY <1>2, <2>1, ChainFacts
      <3>2. h[c] = {}
        BY <1>3, <2>1, ChainFacts
      <3> QED
        BY <3>1, <3>2
    <2>2. CASE c < n
      <3>1. c + b1[c] \in At /\ c + b1[c] > c /\ b1[c] = b2[c]
        BY <2>2, ChainStep DEF At
      <3>2. c + b1[c] >= n - k
        BY <3>1 DEF At
      <3>3. g[c + b1[c]] = h[c + b1[c]]
        BY <3>1, <3>2
      <3>4. g[c] = {c} \cup g[c + b1[c]] /\ h[c] = {c} \cup h[c + b2[c]]
        BY <1>2, <1>3, <2>2, ChainFacts
      <3> QED
        BY <3>1, <3>3, <3>4
    <2> QED
      BY <2>1, <2>2 DEF At
  <1> HIDE DEF T
  <1>6. n \in T
    <2>1. T \subseteq Nat
      BY DEF T
    <2>2. T = Nat
      BY <1>4, <1>5, <2>1, InductionOnSet
    <2> QED
      BY <2>2
  <1>7. 1 \in At /\ 1 >= n - n
    BY DEF At
  <1>8. g[1] = h[1]
    BY <1>6, <1>7 DEF T
  <1> QED
    BY <1>2, <1>3, <1>8

----------------------------------------------------------------------------
(* The zeros that arq__cobs_encode takes out of f, its first and last place included. *)
Stops(f) == {1, Len(f)} \cup {i \in 2..(Len(f) - 1) : f[i] = 0}

NextStop(f, i) == Min({j \in Stops(f) : j > i})

(* Whole blocks that arq__cobs_encode takes. *)
Encodable == {f \in Seq(Byte) : Len(f) \in 2..256}

LEMMA EncodableFacts ==
    ASSUME NEW f \in Encodable
    PROVE  /\ Len(f) \in Nat /\ 2 <= Len(f) /\ Len(f) <= 256
           /\ Len(f) \in 1..Len(f) /\ 1 \in 1..Len(f)
           /\ Stops(f) \subseteq 1..Len(f) /\ 1 \in Stops(f) /\ Len(f) \in Stops(f)
           /\ \A i \in 1..(Len(f) - 1) : i \in 1..Len(f) /\ i # Len(f) /\ i < Len(f)
  <1> DEFINE n == Len(f)
  <1>1. n \in 2..256
    BY DEF Encodable
  <1>2. Stops(f) = {1, n} \cup {i \in 2..(n - 1) : f[i] = 0}
    BY DEF Stops
  <1> HIDE DEF n
  <1>3. /\ n \in Nat /\ 2 <= n /\ n <= 256 /\ n \in 1..n /\ 1 \in 1..n
        /\ \A i \in 1..(n - 1) : i \in 1..n /\ i # n /\ i < n
    BY <1>1
  <1>4. Stops(f) \subseteq 1..n /\ 1 \in Stops(f) /\ n \in Stops(f)
    BY <1>2, <1>3
  <1> QED
    BY <1>3, <1>4 DEF n

LEMMA NextStopFacts ==
    ASSUME NEW f \in Encodable, NEW i \in 1..(Len(f) - 1)
    PROVE  /\ NextStop(f, i) \in Stops(f) /\ NextStop(f, i) \in Nat
           /\ NextStop(f, i) > i /\ NextStop(f, i) <= Len(f)
           /\ \A j \in Stops(f) : j > i => NextStop(f, i) <= j
  <1> DEFINE later == {j \in Stops(f) : j > i}
  <1>1. Len(f) \in 2..256
    BY DEF Encodable
  <1>2. later \subseteq Nat /\ Len(f) \in later
    BY <1>1 DEF Stops
  <1>3. NextStop(f, i) = Min(later)
    BY DEF NextStop
  <1> HIDE DEF later
  <1>4. Min(later) \in later /\ \A x \in later : Min(later) <= x
    BY <1>2, MinOfNats
  <1> QED
    BY <1>2, <1>3, <1>4 DEF later

LEMMA EncodedBytes ==
    ASSUME NEW f \in Encodable
    PROVE  /\ Len(CobsEncode(f)) = Len(f)
           /\ CobsEncode(f)[Len(f)] = 0
           /\ \A i \in 1..(Len(f) - 1) :
                 /\ CobsEncode(f)[i] # 0
                 /\ CobsEncode(f)[i] = IF i \in Stops(f) THEN NextStop(f, i) - i ELSE f[i]
  <1> DEFINE n == Len(f)
             code(i) == IF i = n THEN 0
                        ELSE IF i \in Stops(f) THEN (NextStop(f, i) - i) % 256 ELSE f[i]
  <1>1. n \in 2..256 /\ f \in Seq(Byte)
    BY DEF Encodable
  <1>2. CobsEncode(f) = [i \in 1..n |-> code(i)]
    BY DEF CobsEncode, Stops, NextStop
  <1>3. \A i \in 1..n : CobsEncode(f)[i] = code(i)
    BY <1>2
  <1>4. Len(CobsEncode(f)) = n
    <2> HIDE DEF code
    <2> QED
      BY <1>1, <1>2
  <1>5. CobsEncode(f)[n] = 0
    <2>1. n \in 1..n
      BY EncodableFacts
    <2> QED
      BY <1>3, <2>1
  <1>6. ASSUME NEW i \in 1..(n - 1)
        PROVE  /\ CobsEncode(f)[i] # 0
               /\ CobsEncode(f)[i] = IF i \in Stops(f) THEN NextStop(f, i) - i ELSE f[i]
    <2>1. i \in 1..n /\ i # n
      BY EncodableFacts
    <2>2. CobsEncode(f)[i] = code(i)
      BY <1>3, <2>1
    <2>3. CASE i \in Stops(f)
      <3> DEFINE s == NextStop(f, i)
                 d == s - i
      <3>1. s \in Nat /\ s > i /\ s <= n /\ n <= 256 /\ i \in Nat /\ i >= 1 /\ n \in Nat
        BY NextStopFacts, EncodableFacts
      <3>2. code(i) = d % 256
        BY <2>1, <2>3
      <3> HIDE DEF s, n, code
      <3>3. d \in 1..255
        BY <3>1
      <3> HIDE DEF d
      <3>4. d % 256 = d /\ d # 0
        BY <3>3
      <3>5. d = NextStop(f, i) - i
        BY DEF d, s
      <3> QED
        BY <2>2, <2>3, <3>2, <3>4, <3>5
    <2>4. CASE i \notin Stops(f)
      <3>1. code(i) = f[i]
        BY <2>1, <2>4
      <3>2. f[i] # 0
        BY <1>1, <2>1, <2>4 DEF Stops
      <3> QED
        BY <2>2, <2>4, <3>1, <3>2
    <2> QED
      BY <2>3, <2>4
  <1> QED
    BY <1>4, <1>5, <1>6

(* On its way from one taken out zero to the next, the loop of arq__cobs_decode visits
   all of them and nothing else. *)
LEMMA ChainOfEncoded ==
    ASSUME NEW f \in Encodable, NEW buf,
           \A i \in 1..Len(f) : buf[i] = CobsEncode(f)[i],
           \A i \in 1..Len(f) : buf[i] \in Byte
    PROVE  CobsChain(buf, Len(f)) = {i \in Stops(f) : i < Len(f)}
  <1> DEFINE n == Len(f)
             From(c) == {i \in Stops(f) : c <= i /\ i < n}
  <1>1. n \in Nat /\ 2 <= n
    BY EncodableFacts
  <1>2. \A i \in 1..(n - 1) : i \in 1..n
    BY EncodableFacts
  <1>3. ASSUME NEW i \in 1..(n - 1)
        PROVE  /\ buf[i] # 0 /\ buf[i] \in Byte
               /\ i \in Stops(f) => buf[i] = NextStop(f, i) - i
    BY <1>2, EncodedBytes
  <1>4. NoZeroBefore(buf, n)
    BY <1>3 DEF NoZeroBefore
  <1>5. PICK g : IsChain(g, buf, n) /\ CobsChain(buf, n) = g[1]
    BY <1>1, <1>4, ChainOf
  <1>6. Stops(f) \subseteq 1..n /\ 1 \in Stops(f)
    BY EncodableFacts
  <1> DEFINE T == {k \in Nat : \A c \in Stops(f) : c >= n - k => g[c] = From(c)}
  <1>7. 0 \in T
    <2> SUFFICES ASSUME NEW c \in Stops(f), c >= n PROVE g[c] = From(c)
      BY <1>1
    <2>1. c \in At
      BY <1>6 DEF At
    <2>2. g[c] = {}
      BY <1>1, <1>5, <2>1, ChainFacts
    <2>3. From(c) = {}
      BY <1>1, <1>6
    <2> QED
      BY <2>2, <2>3
  <1>8. ASSUME NEW k \in T PROVE k + 1 \in T
    <2> SUFFICES ASSUME NEW c \in Stops(f), c >= n - (k + 1) PROVE g[c] = From(c)
      OBVIOUS
    <2>1. c \in At /\ c \in Nat /\ c <= n
      BY <1>1, <1>6 DEF At
    <2>2. CASE c = n
      <3>1. g[c] = {}
        BY <1>1, <1>5, <2>1, <2>2, ChainFacts
      <3>2. From(c) = {}
        BY <1>1, <1>6, <2>2
      <3> QED
        BY <3>1, <3>2
    <2>3. CASE c # n
      <3> DEFINE d == NextStop(f, c)
      <3>1. c \in 1..(n - 1)
        BY <1>1, <1>6, <2>1, <2>3
      <3>2. d \in Stops(f) /\ d \in Nat /\ d > c /\ d <= n /\ \A j \in Stops(f) : j > c => d <= j
        BY <3>1, NextStopFacts
      <3>3. buf[c] = d - c
        BY <1>3, <3>1
      <3> HIDE DEF d
      <3>4. c + buf[c] = d
        BY <2>1, <3>2, <3>3
      <3>5. g[c] = {c} \cup g[d]
        BY <1>1, <1>5, <2>1, <2>3, <3>4, ChainFacts
      <3>6. g[d] = From(d)
        <4>1. d >= n - k
          BY <1>1, <2>1, <3>2
        <4> QED
          BY <3>2, <4>1
      <3>7. From(c) = {c} \cup From(d)
        <4>1. ASSUME NEW i \in Stops(f), i < n PROVE c <= i <=> i = c \/ d <= i
          <5>1. i \in Nat
            BY <1>6
          <5> QED
            BY <2>1, <3>2, <5>1
        <4>2. c < n
          BY <3>1, <1>1
        <4> QED
          BY <4>1, <4>2
      <3> QED
        BY <3>5, <3>6, <3>7
    <2> QED
      BY <2>2, <2>3
  <1> HIDE DEF T
  <1>9. n \in T
    <2>1. T \subseteq Nat
      BY DEF T
    <2>2. T = Nat
      BY <1>7, <1>8, <2>1, InductionOnSet
    <2> QED
      BY <1>1, <2>2
  <1>10. g[1] = From(1)
    <2>1. 1 >= n - n
      BY <1>1
    <2> QED
      BY <1>6, <1>9, <2>1 DEF T
  <1>11. From(1) = {i \in Stops(f) : i < n}
    BY <1>6
  <1> QED
    BY <1>5, <1>10, <1>11

(* arq__cobs_decode takes back what arq__cobs_encode did, wherever the block is kept. *)
LEMMA CobsRoundTrip ==
    ASSUME NEW f \in Encodable, f[1] = 0, f[Len(f)] = 0,
           NEW m \in Nat, Len(f) <= m, NEW buf \in [1..m -> Byte],
           \A i \in 1..Len(f) : buf[i] = CobsEncode(f)[i]
    PROVE  \A i \in 1..Len(f) : CobsDecode(buf, Len(f))[i] = f[i]
  <1> DEFINE n == Len(f)
  <1>1. n \in 2..256
    BY DEF Encodable
  <1>2. \A i \in 1..n : buf[i] \in Byte
    BY <1>1
  <1>3. CobsChain(buf, n) = {i \in Stops(f) : i < n}
    BY <1>2, ChainOfEncoded
  <1>4. Len(buf) = m
    OBVIOUS
  <1> SUFFICES ASSUME NEW i \in 1..n PROVE CobsDecode(buf, n)[i] = f[i]
    OBVIOUS
  <1>5. CobsDecode(buf, n)[i] = IF i \in CobsChain(buf, n) THEN 0 ELSE buf[i]
    BY <1>1, <1>4 DEF CobsDecode
  <1>6. CASE i = n
    BY <1>3, <1>5, <1>6, EncodedBytes
  <1>7. CASE i # n
    <2>1. i \in 1..(n - 1) /\ i < n
      BY <1>1, <1>7
    <2>2. CASE i \in Stops(f)
      <3>1. f[i] = 0
        BY <1>7, <2>2 DEF Stops
      <3> QED
        BY <1>3, <1>5, <2>1, <2>2, <3>1
    <2>3. CASE i \notin Stops(f)
      BY <1>3, <1>5, <2>1, <2>3, EncodedBytes
    <2> QED
      BY <2>2, <2>3
  <1> QED
    BY <1>6, <1>7

----------------------------------------------------------------------------
(* A frame is read as it was written. *)

(* arq__cobs_encode takes up to 256 bytes. *)
ShortFrames == FrameLen(SegLen) <= 256

LEMMA PartIs ==
    ASSUME NEW d, NEW a \in Nat \ {0}, NEW t \in Seq(Byte), NEW n, n = Len(t),
           NEW b, b = a + n - 1, \A i \in 1..n : d[a + i - 1] = t[i]
    PROVE  SubSeq(d, a, b) = t
  <1> DEFINE p == SubSeq(d, a, b)
  <1>1. n \in Nat /\ \A i \in 1..n : t[i] \in Byte
    BY LenProperties, ElementOfSeq
  <1>2. a \in Int /\ b \in Int /\ b - a + 1 = n /\ (a <= b <=> n > 0)
    BY <1>1
  <1>3. ASSUME NEW k \in a..b PROVE d[k] \in Byte
    <2>1. k - a + 1 \in 1..n /\ a + (k - a + 1) - 1 = k
      BY <1>1
    <2>2. d[k] = t[k - a + 1]
      BY <2>1
    <2> QED
      BY <1>1, <2>1, <2>2
  <1>4. /\ p \in Seq(Byte) /\ Len(p) = n
        /\ \A i \in 1..n : p[i] = d[a + i - 1]
    <2>1. /\ p \in Seq(Byte)
          /\ Len(p) = IF a <= b THEN b - a + 1 ELSE 0
          /\ \A i \in 1..(b - a + 1) : p[i] = d[a + i - 1]
      BY <1>2, <1>3, SubSeqProperties
    <2> QED
      BY <1>1, <1>2, <2>1
  <1> HIDE DEF p
  <1>5. \A i \in 1..n : p[i] = t[i]
    BY <1>4
  <1>6. p = t
    BY <1>4, <1>5, SeqEqual
  <1> QED
    BY <1>6 DEF p

(* Two blocks one behind the other, of which the lengths are known. *)
LEMMA Joined ==
    ASSUME NEW s \in Seq(Byte), NEW t \in Seq(Byte), NEW j \in Nat, NEW k \in Nat, NEW m,
           Len(s) = j, Len(t) = k, m = j + k
    PROVE  /\ s \o t \in Seq(Byte) /\ Len(s \o t) = m
           /\ \A i \in 1..m : (s \o t)[i] = IF i <= j THEN s[i] ELSE t[i - j]
  BY ConcatProperties

LEMMA HeaderLen ==
    ASSUME NEW h \in HdrType
    PROVE  FrameHdrWrite(h) \in Seq(Byte) /\ Len(FrameHdrWrite(h)) = HeaderSize
  <1>1. Len(FrameHdrWrite(h)) = 12
    BY DEF FrameHdrWrite
  <1> QED
    BY <1>1, HeaderBytes DEF HeaderSize

(* What arq__frame_write lays out before it encodes it. *)
Block(f) == <<0>> \o Body(f.hdr, f.seg) \o Checksum(Body(f.hdr, f.seg)) \o <<0>>

LEMMA BlockFacts ==
    ASSUME NEW f \in Frames
    PROVE  LET b == Body(f.hdr, f.seg)
               s == Checksum(b)
               n == Len(f.seg)
           IN /\ n \in Nat /\ n <= SegLen /\ f.hdr \in HdrType /\ f.seg \in Seq(Byte)
              /\ b \in Seq(Byte) /\ Len(b) = 12 + n
              /\ \A i \in 1..12 : b[i] = FrameHdrWrite(f.hdr)[i]
              /\ \A i \in 1..n : b[12 + i] = f.seg[i]
              /\ s \in Seq(Byte) /\ Len(s) = 4
              /\ Block(f) \in Seq(Byte) /\ Len(Block(f)) = 18 + n
              /\ Block(f)[1] = 0 /\ Block(f)[18 + n] = 0
              /\ \A i \in 1..(12 + n) : Block(f)[1 + i] = b[i]
              /\ \A i \in 1..4 : Block(f)[1 + (12 + n) + i] = s[i]
  <1> DEFINE h == FrameHdrWrite(f.hdr)
             b == Body(f.hdr, f.seg)
             s == Checksum(b)
             n == Len(f.seg)
  <1>1. f.hdr \in HdrType /\ f.seg \in Seq(Byte) /\ n <= SegLen
    BY FramesAssumption
  <1>2. n \in Nat
    BY <1>1, LenProperties
  <1>3. h \in Seq(Byte) /\ Len(h) = 12
    BY <1>1, HeaderLen DEF HeaderSize
  <1>4. s \in Seq(Byte) /\ Len(s) = 4
    BY ChecksumAssumption
  <1>5. b = h \o f.seg
    BY DEF Body
  <1> HIDE DEF b, s, h
  <1>6. /\ b \in Seq(Byte) /\ Len(b) = 12 + n
        /\ \A i \in 1..(12 + n) : b[i] = IF i <= 12 THEN h[i] ELSE f.seg[i - 12]
    <2> DEFINE j == 12
               m == 12 + n
    <2>1. /\ j \in Nat /\ n \in Nat /\ Len(h) = j /\ m = j + n /\ Len(f.seg) = n
          /\ h \in Seq(Byte) /\ f.seg \in Seq(Byte)
      BY <1>1, <1>2, <1>3
    <2>2. m = 12 + n /\ j = 12
      OBVIOUS
    <2> HIDE DEF j, m, n
    <2>3. /\ b \in Seq(Byte) /\ Len(b) = m
          /\ \A i \in 1..m : b[i] = IF i <= j THEN h[i] ELSE f.seg[i - j]
      BY ONLY <1>5, <2>1, Joined, SMTT(30)
    <2> QED
      BY <2>2, <2>3
  <1> DEFINE z  == <<0>>
             x1 == z \o b
             x2 == x1 \o s
             x3 == x2 \o z
  <1>7. z \in Seq(Byte) /\ Len(z) = 1 /\ z[1] = 0
    BY DEF Byte
  <1>8. Block(f) = x3
    BY DEF Block, b, s
  <1> HIDE DEF z, n
  <1>9. /\ x1 \in Seq(Byte) /\ Len(x1) = 13 + n
        /\ \A i \in 1..(13 + n) : x1[i] = IF i <= 1 THEN z[i] ELSE b[i - 1]
    <2> DEFINE j == 1
               k == 12 + n
               m == 13 + n
    <2>1. j \in Nat /\ k \in Nat /\ m = j + k /\ Len(z) = j /\ Len(b) = k
      BY <1>2, <1>6, <1>7
    <2>2. m = 13 + n /\ j = 1
      OBVIOUS
    <2> HIDE DEF j, k, m
    <2>3. /\ x1 \in Seq(Byte) /\ Len(x1) = m
          /\ \A i \in 1..m : x1[i] = IF i <= j THEN z[i] ELSE b[i - j]
      BY <1>6, <1>7, <2>1, Joined
    <2> QED
      BY <2>2, <2>3
  <1> HIDE DEF x1
  <1>10. /\ x2 \in Seq(Byte) /\ Len(x2) = 17 + n
         /\ \A i \in 1..(17 + n) : x2[i] = IF i <= 13 + n THEN x1[i] ELSE s[i - (13 + n)]
    <2> DEFINE j == 13 + n
               k == 4
               m == 17 + n
    <2>1. /\ j \in Nat /\ k \in Nat /\ m = j + k /\ Len(x1) = j /\ Len(s) = k
          /\ x1 \in Seq(Byte) /\ s \in Seq(Byte) /\ x2 = x1 \o s
      BY <1>2, <1>4, <1>9
    <2>2. m = 17 + n /\ j = 13 + n
      OBVIOUS
    <2> HIDE DEF j, k, m, x2, x3
    <2>3. /\ x2 \in Seq(Byte) /\ Len(x2) = m
          /\ \A i \in 1..m : x2[i] = IF i <= j THEN x1[i] ELSE s[i - j]
      BY <2>1, Joined
    <2> QED
      BY <2>2, <2>3
  <1> HIDE DEF x2
  <1>11. /\ x3 \in Seq(Byte) /\ Len(x3) = 18 + n
         /\ \A i \in 1..(18 + n) : x3[i] = IF i <= 17 + n THEN x2[i] ELSE z[i - (17 + n)]
    <2> DEFINE j == 17 + n
               k == 1
               m == 18 + n
    <2>1. j \in Nat /\ k \in Nat /\ m = j + k /\ Len(x2) = j /\ Len(z) = k
      BY <1>2, <1>7, <1>10
    <2>2. m = 18 + n /\ j = 17 + n
      OBVIOUS
    <2> HIDE DEF j, k, m
    <2>3. /\ x3 \in Seq(Byte) /\ Len(x3) = m
          /\ \A i \in 1..m : x3[i] = IF i <= j THEN x2[i] ELSE z[i - j]
      BY ONLY <1>7, <1>10, <2>1, Joined, SMTT(30)
    <2> QED
      BY <2>2, <2>3
  <1> HIDE DEF x3
  <1>12. x3[1] = 0 /\ x3[18 + n] = 0
    <2>1. 1 \in 1..(18 + n) /\ 1 \in 1..(17 + n) /\ 1 \in 1..(13 + n) /\ 1 <= 17 + n /\ 1 <= 13 + n
          /\ 18 + n \in 1..(18 + n) /\ ~(18 + n <= 17 + n) /\ (18 + n) - (17 + n) = 1
      BY <1>2
    <2> QED
      BY <1>7, <1>9, <1>10, <1>11, <2>1
  <1>13. ASSUME NEW i \in 1..(12 + n) PROVE x3[1 + i] = b[i]
    <2>1. /\ 1 + i \in 1..(18 + n) /\ 1 + i \in 1..(17 + n) /\ 1 + i \in 1..(13 + n)
          /\ 1 + i <= 17 + n /\ 1 + i <= 13 + n /\ ~(1 + i <= 1) /\ (1 + i) - 1 = i
      BY <1>2
    <2> QED
      BY <1>9, <1>10, <1>11, <2>1
  <1>14. ASSUME NEW i \in 1..4 PROVE x3[1 + (12 + n) + i] = s[i]
    <2> DEFINE k == 1 + (12 + n) + i
    <2>1. /\ k \in 1..(18 + n) /\ k \in 1..(17 + n) /\ k <= 17 + n /\ ~(k <= 13 + n)
          /\ k - (13 + n) = i
      BY <1>2
    <2> HIDE DEF k
    <2> QED
      BY <1>10, <1>11, <2>1 DEF k
  <1>15. \A i \in 1..12 : b[i] = h[i]
    <2>1. \A i \in 1..12 : i \in 1..(12 + n) /\ i <= 12
      BY <1>2
    <2> QED
      BY <1>6, <2>1
  <1>16. \A i \in 1..n : b[12 + i] = f.seg[i]
    <2>1. \A i \in 1..n : 12 + i \in 1..(12 + n) /\ ~(12 + i <= 12) /\ (12 + i) - 12 = i
      BY <1>2
    <2> QED
      BY <1>6, <2>1
  <1> QED
    BY <1>1, <1>2, <1>4, <1>6, <1>8, <1>11, <1>12, <1>13, <1>14, <1>15, <1>16 DEF n, b, s, h

----------------------------------------------------------------------------
(* arq__frame_read *)

LEMMA CapFacts == Cap \in Nat /\ Cap = 18 + SegLen /\ Cap >= 19
  BY SegLenAssumption DEF Cap, FrameLen, CobsOverhead, HeaderSize

Buffers == [1..Cap -> Byte]

LEMMA DecodedType ==
    ASSUME NEW buf \in Buffers, NEW n \in Nat
    PROVE  /\ CobsDecode(buf, n) \in Buffers
           /\ \A i \in 1..Cap : CobsDecode(buf, n)[i] = IF i \in CobsChain(buf, n) THEN 0 ELSE buf[i]
  <1>1. Len(buf) = Cap /\ buf \in [1..Cap -> Byte] /\ 0 \in Byte
    BY CapFacts DEF Buffers, Byte
  <1> QED
    BY <1>1 DEF CobsDecode, Buffers

(* The parts of a decoded buffer lie within it. *)
LEMMA PartOf ==
    ASSUME NEW d \in Buffers, NEW a \in Nat \ {0}, NEW k \in Nat, NEW b \in Nat,
           b = a + k - 1, b <= Cap
    PROVE  LET p == SubSeq(d, a, b)
           IN p \in Seq(Byte) /\ Len(p) = k /\ \A i \in 1..k : p[i] = d[a + i - 1]
  <1> DEFINE p == SubSeq(d, a, b)
  <1>1. a \in Int /\ b \in Int /\ b - a + 1 = k /\ (a <= b <=> k > 0) /\ b <= Cap
    OBVIOUS
  <1>2. \A i \in a..b : d[i] \in Byte
    BY <1>1, CapFacts DEF Buffers
  <1>3. /\ p \in Seq(Byte)
        /\ Len(p) = IF a <= b THEN b - a + 1 ELSE 0
        /\ \A i \in 1..(b - a + 1) : p[i] = d[a + i - 1]
    BY <1>1, <1>2, SubSeqProperties
  <1> HIDE DEF p
  <1> QED
    BY <1>1, <1>3 DEF p

LEMMA HdrOfSegLen ==
    ASSUME NEW d \in Buffers
    PROVE  HdrOf(d).seg_len = d[3] /\ d[3] \in Byte
  <1> DEFINE p == SubSeq(d, 2, 1 + HeaderSize)
  <1>1. p[2] = d[3]
    <2> DEFINE a == 2
               k == 12
               b == 13
               q == SubSeq(d, a, b)
    <2>1. a \in Nat \ {0} /\ k \in Nat /\ b \in Nat /\ b = a + k - 1 /\ b <= Cap
      BY CapFacts
    <2> HIDE DEF a, k, b
    <2>2. \A i \in 1..k : q[i] = d[a + i - 1]
      BY <2>1, PartOf
    <2>3. q = p
      <3>1. a = 2 /\ b = 1 + HeaderSize
        BY DEF a, b, HeaderSize
      <3> QED
        BY <3>1
    <2>4. 2 \in 1..k /\ a + 2 - 1 = 3
      BY DEF a, k
    <2> QED
      BY <2>2, <2>3, <2>4
  <1>2. HdrOf(d).seg_len = p[2]
    BY DEF HdrOf, FrameHdrRead
  <1>3. d[3] \in Byte
    BY CapFacts DEF Buffers
  <1> QED
    BY <1>1, <1>2, <1>3

(* Equal parts of two buffers. *)
LEMMA SamePart ==
    ASSUME NEW d1 \in Buffers, NEW d2 \in Buffers, NEW n \in 1..Cap,
           \A i \in 1..n : d1[i] = d2[i],
           NEW a \in Nat \ {0}, NEW b \in Nat, a <= b + 1, b <= n
    PROVE  SubSeq(d1, a, b) = SubSeq(d2, a, b)
  <1> DEFINE k == b + 1 - a
             p == SubSeq(d1, a, b)
             q == SubSeq(d2, a, b)
  <1>1. k \in Nat /\ b = a + k - 1 /\ b <= Cap
    BY CapFacts
  <1>2. p \in Seq(Byte) /\ Len(p) = k /\ \A i \in 1..k : p[i] = d1[a + i - 1]
    BY ONLY <1>1, PartOf, d1 \in Buffers, a \in Nat \ {0}, b \in Nat, ZenonT(60)
  <1>3. q \in Seq(Byte) /\ Len(q) = k /\ \A i \in 1..k : q[i] = d2[a + i - 1]
    BY ONLY <1>1, PartOf, d2 \in Buffers, a \in Nat \ {0}, b \in Nat, ZenonT(60)
  <1>4. ASSUME NEW i \in 1..k PROVE a + i - 1 \in 1..n
    BY <1>1
  <1> HIDE DEF k, p, q
  <1>5. \A i \in 1..k : p[i] = q[i]
    BY <1>2, <1>3, <1>4
  <1>6. p = q
    BY <1>2, <1>3, <1>5, SeqEqual
  <1> QED
    BY <1>6 DEF p, q

LEMMA ReadDecodedParts ==
    ASSUME NEW d, NEW n
    PROVE  LET r == ReadDecoded(d, n)
           IN /\ r.hdr = HdrOf(d) /\ r.result = ChecksumRead(d, n, HdrOf(d).seg_len)
              /\ r.result = "SUCCESS" => r.seg = SegOf(d, HdrOf(d).seg_len)
  BY DEF ReadDecoded

(* A frame that passes is as long as its header says. *)
LEMMA ReadFits ==
    ASSUME NEW d \in Buffers, NEW n \in Nat, ReadDecoded(d, n).result = "SUCCESS"
    PROVE  FrameLen(HdrOf(d).seg_len) <= n
  <1> DEFINE l == HdrOf(d).seg_len
  <1>1. l \in 0..255
    BY HdrOfSegLen DEF Byte
  <1>2. ~(FrameLen(l) > n)
    BY ReadDecodedParts DEF ChecksumRead
  <1> HIDE DEF l
  <1>3. FrameLen(l) \in Nat
    BY <1>1 DEF FrameLen, CobsOverhead, HeaderSize
  <1> QED
    BY <1>2, <1>3 DEF l

(* What is read of a frame does not depend on what the buffer holds behind it. *)
LEMMA ReadLocal ==
    ASSUME NEW b1 \in Buffers, NEW b2 \in Buffers, NEW n \in 1..Cap,
           \A i \in 1..n : b1[i] = b2[i], \A i \in 1..(n - 1) : b1[i] # 0
    PROVE  LET r1 == FrameRead(b1, n)
               r2 == FrameRead(b2, n)
           IN r1.result = "SUCCESS" =>
                 r2.result = "SUCCESS" /\ r1.hdr = r2.hdr /\ r1.seg = r2.seg
  <1> DEFINE d1 == CobsDecode(b1, n)
             d2 == CobsDecode(b2, n)
  <1>1. n \in Nat /\ n <= Cap /\ \A i \in 1..n : i \in 1..Cap
    BY CapFacts
  <1>2. CobsChain(b1, n) = CobsChain(b2, n)
    <2>1. \A i \in 1..(n - 1) : i \in 1..n /\ i \in 1..Cap
      BY <1>1
    <2>2. NoZeroBefore(b1, n)
      BY <2>1 DEF NoZeroBefore, Buffers
    <2>3. \A i \in 1..(n - 1) : b1[i] = b2[i]
      BY <2>1
    <2> QED
      BY <1>1, <2>2, <2>3, ChainLocal
  <1>3. d1 \in Buffers /\ d2 \in Buffers
    BY <1>1, DecodedType
  <1>4. \A i \in 1..n : d1[i] = d2[i]
    BY <1>1, <1>2, DecodedType
  <1>5. FrameRead(b1, n) = ReadDecoded(d1, n) /\ FrameRead(b2, n) = ReadDecoded(d2, n)
    BY DEF FrameRead
  <1> HIDE DEF d1, d2
  <1> SUFFICES ASSUME ReadDecoded(d1, n).result = "SUCCESS"
               PROVE  /\ ReadDecoded(d2, n).result = "SUCCESS"
                      /\ ReadDecoded(d1, n).hdr = ReadDecoded(d2, n).hdr
                      /\ ReadDecoded(d1, n).seg = ReadDecoded(d2, n).seg
    BY <1>5
  <1> DEFINE l == HdrOf(d1).seg_len
  <1>6. l \in Nat /\ 18 + l <= n
    <2>1. l \in 0..255
      BY <1>3, HdrOfSegLen DEF Byte
    <2>2. FrameLen(l) <= n
      BY <1>1, <1>3, ReadFits
    <2> HIDE DEF l
    <2> QED
      BY <2>1, <2>2 DEF FrameLen, CobsOverhead, HeaderSize
  <1> HIDE DEF l
  <1>7. HdrOf(d1) = HdrOf(d2)
    <2>1. SubSeq(d1, 2, 13) = SubSeq(d2, 2, 13)
      <3>1. 2 \in Nat \ {0} /\ 13 \in Nat /\ 2 <= 13 + 1 /\ 13 <= n
        BY <1>1, <1>6
      <3> QED
        BY <1>3, <1>4, <3>1, SamePart
    <2>2. 1 + HeaderSize = 13
      BY DEF HeaderSize
    <2> QED
      BY <2>1, <2>2 DEF HdrOf
  <1>8. SegOf(d1, l) = SegOf(d2, l)
    <2> DEFINE e == 1 + HeaderSize + l
               a == 2 + HeaderSize
    <2>1. a \in Nat \ {0} /\ e \in Nat /\ a <= e + 1 /\ e <= n
      BY <1>1, <1>6 DEF HeaderSize
    <2> HIDE DEF a, e
    <2>2. SubSeq(d1, a, e) = SubSeq(d2, a, e)
      BY <1>3, <1>4, <2>1, SamePart
    <2> QED
      BY <2>2 DEF SegOf, a, e
  <1>9. FooterOf(d1, l) = FooterOf(d2, l)
    <2> DEFINE e == 5 + HeaderSize + l
               a == 2 + HeaderSize + l
    <2>1. a \in Nat \ {0} /\ e \in Nat /\ a <= e + 1 /\ e <= n
      BY <1>1, <1>6 DEF HeaderSize
    <2> HIDE DEF a, e
    <2>2. SubSeq(d1, a, e) = SubSeq(d2, a, e)
      BY <1>3, <1>4, <2>1, SamePart
    <2> QED
      BY <2>2 DEF FooterOf, a, e
  <1>10. SubSeq(d1, 2, 1 + HeaderSize + l) = SubSeq(d2, 2, 1 + HeaderSize + l)
    <2> DEFINE e == 1 + HeaderSize + l
               a == 2
    <2>1. a \in Nat \ {0} /\ e \in Nat /\ a <= e + 1 /\ e <= n
      BY <1>1, <1>6 DEF HeaderSize
    <2> HIDE DEF a, e
    <2>2. SubSeq(d1, a, e) = SubSeq(d2, a, e)
      BY <1>3, <1>4, <2>1, SamePart
    <2> QED
      BY <2>2 DEF a, e
  <1>11. ChecksumRead(d1, n, l) = ChecksumRead(d2, n, l)
    BY <1>9, <1>10 DEF ChecksumRead
  <1> QED
    BY <1>7, <1>8, <1>11, ReadDecodedParts DEF l

LEMMA EncodedFacts ==
    ASSUME ShortFrames, NEW f \in Frames
    PROVE  /\ Block(f) \in Encodable
           /\ Encoded[f] = CobsEncode(Block(f))
           /\ Len(Encoded[f]) = 18 + Len(f.seg) /\ Len(f.seg) \in Nat
           /\ 18 + Len(f.seg) <= Cap /\ Len(Block(f)) = 18 + Len(f.seg)
  <1> DEFINE n == Len(f.seg)
  <1>1. /\ n \in Nat /\ n <= SegLen /\ Block(f) \in Seq(Byte) /\ Len(Block(f)) = 18 + n
    BY BlockFacts, SMTT(30)
  <1>2. Encoded[f] = CobsEncode(Block(f))
    BY DEF Encoded, FrameWrite, Block
  <1> HIDE DEF n
  <1>4. 18 + n <= Cap /\ 18 + n \in 2..256
    BY <1>1, CapFacts, SegLenAssumption DEF ShortFrames, Cap
  <1>5. Block(f) \in Encodable
    BY <1>1, <1>4 DEF Encodable
  <1>6. Len(CobsEncode(Block(f))) = Len(Block(f))
    BY <1>5, EncodedBytes
  <1> QED
    BY <1>1, <1>2, <1>4, <1>5, <1>6 DEF n

(* A frame that arrives undamaged is read as the one that was written: header, COBS and
   checksum, for every segment that arq__cobs_encode's single byte distances can
   cope with, whatever else is in the receive buffer. *)
THEOREM FrameRoundTrip ==
    ASSUME ShortFrames, NEW f \in Frames, NEW buf \in Buffers,
           \A i \in 1..Len(Encoded[f]) : buf[i] = Encoded[f][i]
    PROVE  LET r == FrameRead(buf, Len(Encoded[f]))
           IN r.result = "SUCCESS" /\ [hdr |-> r.hdr, seg |-> r.seg] = f
  <1> DEFINE n == Len(f.seg)
             w == Block(f)
             b == Body(f.hdr, f.seg)
             s == Checksum(b)
             h == FrameHdrWrite(f.hdr)
             m == 18 + n
             d == CobsDecode(buf, m)
  <1>1. /\ w \in Encodable /\ Len(w) = m /\ Len(Encoded[f]) = m /\ n \in Nat /\ m <= Cap
        /\ Encoded[f] = CobsEncode(w)
    BY EncodedFacts
  <1>2. /\ f.hdr \in HdrType /\ f.seg \in Seq(Byte)
        /\ b \in Seq(Byte) /\ Len(b) = 12 + n
        /\ \A i \in 1..12 : b[i] = h[i]
        /\ \A i \in 1..n : b[12 + i] = f.seg[i]
        /\ s \in Seq(Byte) /\ Len(s) = 4
        /\ w[1] = 0 /\ w[m] = 0
        /\ \A i \in 1..(12 + n) : w[1 + i] = b[i]
        /\ \A i \in 1..4 : w[1 + (12 + n) + i] = s[i]
    BY BlockFacts
  <1>3. h \in Seq(Byte) /\ Len(h) = 12
    BY <1>2, HeaderLen DEF HeaderSize
  <1>4. f.hdr.seg_len = n /\ f = [hdr |-> f.hdr, seg |-> f.seg]
    BY FramesAssumption
  <1>5. \A i \in 1..m : d[i] = w[i]
    <2> HIDE DEF w, n, m, d
    <2>1. Cap \in Nat /\ buf \in [1..Cap -> Byte]
      BY CapFacts DEF Buffers
    <2>2. \A i \in 1..Len(w) : buf[i] = CobsEncode(w)[i]
      BY <1>1
    <2>3. w[1] = 0 /\ w[Len(w)] = 0 /\ Len(w) <= Cap
      BY <1>1, <1>2
    <2> DEFINE c == Cap
    <2>4. c \in Nat /\ buf \in [1..c -> Byte] /\ Len(w) <= c
      BY <2>1, <2>3
    <2> HIDE DEF c
    <2>5. \A i \in 1..Len(w) : CobsDecode(buf, Len(w))[i] = w[i]
      BY <1>1, <2>2, <2>3, <2>4, CobsRoundTrip
    <2> QED
      BY <1>1, <2>5 DEF d
  <1>6. FrameRead(buf, Len(Encoded[f])) = ReadDecoded(d, m)
    BY <1>1 DEF FrameRead
  <1> HIDE DEF d, w, h
  <1> SUFFICES /\ ReadDecoded(d, m).result = "SUCCESS"
               /\ ReadDecoded(d, m).hdr = f.hdr /\ ReadDecoded(d, m).seg = f.seg
    BY <1>4, <1>6
  <1> HIDE DEF b, s, n
  <1>7. HdrOf(d) = f.hdr
    <2>1. ASSUME NEW i \in 1..12 PROVE d[2 + i - 1] = h[i]
      <3>1. 1 + i \in 1..m /\ 2 + i - 1 = 1 + i /\ i \in 1..(12 + n) /\ i \in 1..12
        BY <1>1
      <3>2. d[1 + i] = w[1 + i]
        BY <1>5, <3>1
      <3>3. w[1 + i] = b[i] /\ b[i] = h[i]
        BY <1>2, <3>1
      <3> QED
        BY <3>1, <3>2, <3>3
    <2> DEFINE a == 2
               e == 1 + HeaderSize
               k == 12
    <2>2. a \in Nat \ {0} /\ e = a + k - 1 /\ Len(h) = k /\ h \in Seq(Byte)
          /\ \A i \in 1..k : d[a + i - 1] = h[i]
      BY <1>3, <2>1 DEF HeaderSize
    <2> HIDE DEF a, e, k
    <2>3. SubSeq(d, a, e) = h
      BY <2>2, PartIs
    <2>4. FrameHdrRead(h) = f.hdr
      BY <1>2, HeaderRoundTrip DEF h
    <2> QED
      BY <2>3, <2>4 DEF HdrOf, a, e
  <1>8. SegOf(d, n) = f.seg
    <2> DEFINE a == 2 + HeaderSize
               e == 1 + HeaderSize + n
    <2>1. ASSUME NEW i \in 1..n PROVE d[14 + i - 1] = f.seg[i]
      <3>1. 1 + (12 + i) \in 1..m /\ 14 + i - 1 = 1 + (12 + i) /\ 12 + i \in 1..(12 + n)
        BY <1>1
      <3>2. d[1 + (12 + i)] = w[1 + (12 + i)]
        BY <1>5, <3>1
      <3>3. w[1 + (12 + i)] = b[12 + i] /\ b[12 + i] = f.seg[i]
        BY <1>2, <3>1
      <3> QED
        BY <3>1, <3>2, <3>3
    <2>2. a = 14 /\ e = a + n - 1
      BY <1>1 DEF HeaderSize
    <2> HIDE DEF a, e
    <2>3. Len(f.seg) = n
      BY DEF n
    <2> DEFINE t == f.seg
    <2>4. /\ a \in Nat \ {0} /\ e = a + n - 1 /\ t \in Seq(Byte) /\ n = Len(t)
          /\ \A i \in 1..n : d[a + i - 1] = t[i]
      BY <1>2, <2>1, <2>2, <2>3
    <2> HIDE DEF m, t
    <2>5. SubSeq(d, a, e) = t
      BY <2>4, PartIs
    <2> QED
      BY <2>5 DEF SegOf, a, e, t
  <1>9. FooterOf(d, n) = s
    <2> DEFINE a == 2 + HeaderSize + n
               e == 5 + HeaderSize + n
               k == 4
    <2>1. ASSUME NEW i \in 1..4 PROVE d[(14 + n) + i - 1] = s[i]
      <3>1. 1 + (12 + n) + i \in 1..m /\ (14 + n) + i - 1 = 1 + (12 + n) + i
        BY <1>1
      <3>2. d[1 + (12 + n) + i] = w[1 + (12 + n) + i]
        BY <1>5, <3>1
      <3>3. w[1 + (12 + n) + i] = s[i]
        BY <1>2
      <3> QED
        BY <3>1, <3>2, <3>3
    <2>2. a = 14 + n /\ a \in Nat \ {0} /\ e = a + k - 1 /\ k = 4
      BY <1>1 DEF HeaderSize
    <2> HIDE DEF a, e, k
    <2>3. /\ a \in Nat \ {0} /\ e = a + k - 1 /\ Len(s) = k /\ s \in Seq(Byte)
          /\ \A i \in 1..k : d[a + i - 1] = s[i]
      BY <1>2, <2>1, <2>2
    <2> HIDE DEF m
    <2>4. SubSeq(d, a, e) = s
      BY <2>3, PartIs
    <2> QED
      BY <2>4 DEF FooterOf, a, e
  <1>10. SubSeq(d, 2, 1 + HeaderSize + n) = b
    <2> DEFINE a == 2
               e == 1 + HeaderSize + n
               k == 12 + n
    <2>1. ASSUME NEW i \in 1..(12 + n) PROVE d[2 + i - 1] = b[i]
      <3>1. 1 + i \in 1..m /\ 2 + i - 1 = 1 + i
        BY <1>1
      <3>2. d[1 + i] = w[1 + i]
        BY <1>5, <3>1
      <3>3. w[1 + i] = b[i]
        BY <1>2
      <3> QED
        BY <3>1, <3>2, <3>3
    <2>2. a \in Nat \ {0} /\ e = a + k - 1 /\ a = 2 /\ k = 12 + n
      BY <1>1 DEF HeaderSize
    <2> HIDE DEF a, e, k
    <2>3. Len(b) = k /\ b \in Seq(Byte) /\ \A i \in 1..k : d[a + i - 1] = b[i]
      BY <1>2, <2>1, <2>2
    <2>4. SubSeq(d, a, e) = b
      BY <2>2, <2>3, PartIs
    <2> QED
      BY <2>4 DEF a, e
  <1>11. ~(FrameLen(n) > m)
    BY <1>1 DEF FrameLen, CobsOverhead, HeaderSize
  <1>12. ChecksumRead(d, m, n) = "SUCCESS"
    BY <1>9, <1>10, <1>11 DEF ChecksumRead, s
  <1> QED
    BY <1>4, <1>7, <1>8, <1>12, ReadDecodedParts

----------------------------------------------------------------------------
(* Frames arrive once, in order and as they were sent: FrameChannel. *)

(* Part of a sequence of which the length is known. *)
LEMMA Slice ==
    ASSUME NEW s \in Seq(Byte), NEW m, m = Len(s), NEW a \in Nat \ {0}, NEW k \in Nat,
           NEW b, b = a + k - 1, b <= m
    PROVE  LET p == SubSeq(s, a, b)
           IN p \in Seq(Byte) /\ Len(p) = k /\ \A i \in 1..k : p[i] = s[a + i - 1]
  <1> DEFINE p == SubSeq(s, a, b)
  <1>1. m \in Nat /\ \A i \in 1..m : s[i] \in Byte
    BY LenProperties, ElementOfSeq
  <1>2. a \in Int /\ b \in Int /\ b - a + 1 = k /\ (a <= b <=> k > 0)
    OBVIOUS
  <1>3. \A i \in a..b : s[i] \in Byte
    <2>1. \A i \in a..b : i \in 1..m
      BY <1>1, <1>2
    <2> QED
      BY <1>1, <2>1
  <1>4. /\ p \in Seq(Byte)
        /\ Len(p) = IF a <= b THEN b - a + 1 ELSE 0
        /\ \A i \in 1..(b - a + 1) : p[i] = s[a + i - 1]
    BY <1>2, <1>3, SubSeqProperties
  <1> HIDE DEF p
  <1> QED
    BY <1>2, <1>4 DEF p

LEMMA WithoutByteEnds ==
    ASSUME NEW s \in Seq(Byte), NEW m \in Nat, Len(s) = m, s[m] = 0, NEW i \in 1..(m - 1)
    PROVE  LET t == WithoutByte(s, i)
           IN t \in Seq(Byte) /\ Len(t) = m - 1 /\ t[m - 1] = 0
  <1> DEFINE a == i + 1
             j == i - 1
             k == m - i
             p == SubSeq(s, 1, j)
             q == SubSeq(s, a, m)
             n == m - 1
  <1>1. /\ j \in Nat /\ k \in Nat /\ a \in Nat \ {0} /\ 1 \in Nat \ {0}
        /\ j = 1 + j - 1 /\ j <= m /\ m = a + k - 1 /\ m <= m /\ n = j + k
        /\ k \in 1..k /\ a + k - 1 = m
    OBVIOUS
  <1>2. WithoutByte(s, i) = p \o q
    BY DEF WithoutByte
  <1>3. n \in 1..n /\ ~(n <= j) /\ n - j = k /\ n = m - 1
    OBVIOUS
  <1> HIDE DEF a, j, k, n
  <1>4. p \in Seq(Byte) /\ Len(p) = j
    BY <1>1, Slice, SMTT(30)
  <1>5. q \in Seq(Byte) /\ Len(q) = k /\ \A x \in 1..k : q[x] = s[a + x - 1]
    BY <1>1, Slice
  <1>6. q[k] = 0
    BY <1>1, <1>5
  <1> HIDE DEF p, q
  <1>7. /\ p \o q \in Seq(Byte) /\ Len(p \o q) = n
        /\ \A x \in 1..n : (p \o q)[x] = IF x <= j THEN p[x] ELSE q[x - j]
    <2>1. /\ p \in Seq(Byte) /\ q \in Seq(Byte) /\ j \in Nat /\ k \in Nat
          /\ Len(p) = j /\ Len(q) = k /\ n = j + k
      BY <1>1, <1>4, <1>5
    <2> QED
      BY ONLY <2>1, ConcatProperties
  <1> QED
    BY <1>2, <1>3, <1>6, <1>7

LEMMA WithByteEnds ==
    ASSUME NEW s \in Seq(Byte), NEW m \in Nat, Len(s) = m, s[m] = 0, NEW i \in 1..(m - 1),
           NEW b \in Byte
    PROVE  LET t == WithByte(s, i, b)
           IN t \in Seq(Byte) /\ Len(t) = m + 1 /\ t[m + 1] = 0
  <1> DEFINE j == i - 1
             k == m - i + 1
             p == SubSeq(s, 1, j)
             q == SubSeq(s, i, m)
             z == <<b>>
             y == p \o z
             n == m + 1
             u == 1
  <1>1. /\ j \in Nat /\ k \in Nat /\ i \in Nat \ {0} /\ 1 \in Nat \ {0}
        /\ j = 1 + j - 1 /\ j <= m /\ m = i + k - 1 /\ m <= m /\ n = i + k
        /\ k \in 1..k /\ i + k - 1 = m /\ i = j + u /\ u \in Nat /\ i \in Nat
    OBVIOUS
  <1>2. WithByte(s, i, b) = y \o q
    BY DEF WithByte
  <1>3. n \in 1..n /\ ~(n <= i) /\ n - i = k /\ n = m + 1
    OBVIOUS
  <1>4. z \in Seq(Byte) /\ Len(z) = u
    OBVIOUS
  <1> HIDE DEF j, k, n, z, u
  <1>5. p \in Seq(Byte) /\ Len(p) = j
    BY <1>1, Slice
  <1>6. q \in Seq(Byte) /\ Len(q) = k /\ \A x \in 1..k : q[x] = s[i + x - 1]
    BY <1>1, Slice
  <1>7. q[k] = 0
    BY <1>1, <1>6
  <1> HIDE DEF p, q
  <1>8. y \in Seq(Byte) /\ Len(y) = i
    BY <1>1, <1>4, <1>5, Joined
  <1> HIDE DEF y
  <1>9. /\ y \o q \in Seq(Byte) /\ Len(y \o q) = n
        /\ \A x \in 1..n : (y \o q)[x] = IF x <= i THEN y[x] ELSE q[x - i]
    <2>1. /\ y \in Seq(Byte) /\ q \in Seq(Byte) /\ i \in Nat /\ k \in Nat
          /\ Len(y) = i /\ Len(q) = k /\ n = i + k
      BY <1>1, <1>6, <1>8
    <2> QED
      BY ONLY <2>1, Joined, SMTT(30)
  <1> QED
    BY <1>2, <1>3, <1>7, <1>9

(* Noise that leaves the terminator alone changes the length by one at most. *)
LEMMA DamagedEnds ==
    ASSUME "lost_end" \notin Noise,
           NEW s \in Seq(Byte), NEW m \in Nat, Len(s) = m, m >= 2, s[m] = 0, NEW t \in Damaged(s)
    PROVE  /\ t \in Seq(Byte) /\ Len(t) \in Nat
           /\ Len(t) >= m - 1 /\ Len(t) <= m + 1 /\ t[Len(t)] = 0
  <1>1. \/ \E i \in 1..(m - 1), b \in {0, 1, 255} : t = [s EXCEPT ![i] = b]
        \/ \E i \in 1..(m - 1) : t = WithoutByte(s, i)
        \/ \E i \in 1..(m - 1), b \in {0, 255} : t = WithByte(s, i, b)
    BY DamagedCases
  <1>2. {0, 1, 255} \subseteq Byte /\ {0, 255} \subseteq Byte
    BY DEF Byte
  <1>3. CASE \E i \in 1..(m - 1), b \in {0, 1, 255} : t = [s EXCEPT ![i] = b]
    <2>1. PICK i \in 1..(m - 1), b \in {0, 1, 255} : t = [s EXCEPT ![i] = b]
      BY <1>3
    <2>2. i \in 1..Len(s) /\ m \in 1..Len(s) /\ m # i /\ b \in Byte
      BY <1>2
    <2>3. /\ [s EXCEPT ![i] = b] \in Seq(Byte) /\ Len([s EXCEPT ![i] = b]) = Len(s)
          /\ \A j \in 1..Len(s) : [s EXCEPT ![i] = b][j] = IF j = i THEN b ELSE s[j]
      BY <2>2, ExceptSeq
    <2> DEFINE u == [s EXCEPT ![i] = b]
    <2>4. u \in Seq(Byte) /\ Len(u) = m /\ u[m] = 0
      <3> HIDE DEF u
      <3> QED
        BY <2>2, <2>3 DEF u
    <2>5. t = u
      BY <2>1
    <2> HIDE DEF u
    <2> QED
      BY <2>4, <2>5
  <1>4. CASE \E i \in 1..(m - 1) : t = WithoutByte(s, i)
    <2>1. t \in Seq(Byte) /\ Len(t) = m - 1 /\ t[m - 1] = 0
      <3>1. PICK i \in 1..(m - 1) : t = WithoutByte(s, i)
        BY <1>4
      <3>2. WithoutByte(s, i) \in Seq(Byte) /\ Len(WithoutByte(s, i)) = m - 1
            /\ WithoutByte(s, i)[m - 1] = 0
        BY WithoutByteEnds
      <3> QED
        BY <3>1, <3>2, Zenon
    <2> QED
      BY <2>1
  <1>5. CASE \E i \in 1..(m - 1), b \in {0, 255} : t = WithByte(s, i, b)
    <2>1. t \in Seq(Byte) /\ Len(t) = m + 1 /\ t[m + 1] = 0
      <3>1. PICK i \in 1..(m - 1), b \in {0, 255} : t = WithByte(s, i, b)
        BY <1>5
      <3>2. b \in Byte
        BY <1>2
      <3>3. WithByte(s, i, b) \in Seq(Byte) /\ Len(WithByte(s, i, b)) = m + 1
            /\ WithByte(s, i, b)[m + 1] = 0
        BY <3>2, WithByteEnds
      <3> QED
        BY <3>1, <3>3, Zenon
    <2> QED
      BY <2>1
  <1> QED
    BY <1>1, <1>3, <1>4, <1>5

----------------------------------------------------------------------------
(* Frames on their way *)

Item == [frame : Frames, clean : BOOLEAN]

FrameSize(x) == Len(Encoded[x.frame])

(* What may be put on the wire for the item x of sent. *)
Arriving(x) == IF x.clean THEN {Encoded[x.frame]} ELSE Damaged(Encoded[x.frame])

LEMMA EncodedEnds ==
    ASSUME ShortFrames, NEW f \in Frames, NEW m, m = Len(Encoded[f])
    PROVE  /\ Encoded[f] \in Seq(Byte) /\ m \in Nat /\ m >= 18 /\ m <= Cap
           /\ Encoded[f][m] = 0 /\ \A k \in 1..(m - 1) : Encoded[f][k] # 0
  <1> DEFINE w == Block(f)
             c == CobsEncode(w)
             n == Len(f.seg)
  <1>1. /\ w \in Encodable /\ Encoded[f] = c /\ m = 18 + n /\ n \in Nat
        /\ 18 + n <= Cap /\ Len(w) = 18 + n
    BY EncodedFacts
  <1> HIDE DEF w, n
  <1>2. c[Len(w)] = 0 /\ \A i \in 1..(Len(w) - 1) : c[i] # 0
    BY <1>1, EncodedBytes
  <1> HIDE DEF c
  <1>3. c[m] = 0 /\ \A i \in 1..(m - 1) : c[i] # 0
    BY <1>1, <1>2
  <1>4. m \in Nat /\ m >= 18 /\ m <= Cap
    BY <1>1
  <1> QED
    BY <1>1, <1>3, <1>4, EncodedType

LEMMA ItemFacts ==
    ASSUME ShortFrames, "lost_end" \notin Noise, NEW x \in Item, NEW s \in Arriving(x)
    PROVE  /\ x.frame \in Frames /\ s \in Seq(Byte) /\ Len(s) \in Nat /\ Len(s) >= 1
           /\ FrameSize(x) \in Nat /\ FrameSize(x) >= 18 /\ FrameSize(x) <= Cap
           /\ Len(s) <= FrameSize(x) + 1 /\ s[Len(s)] = 0
           /\ x.clean => /\ s = Encoded[x.frame] /\ Len(s) = FrameSize(x)
                         /\ \A k \in 1..(Len(s) - 1) : s[k] # 0
           /\ ~x.clean => s \in Damaged(Encoded[x.frame])
  <1> DEFINE e == Encoded[x.frame]
             m == Len(e)
  <1>1. x.frame \in Frames /\ x.clean \in BOOLEAN
    BY DEF Item
  <1>2. /\ e \in Seq(Byte) /\ m \in Nat /\ m >= 18 /\ m <= Cap
        /\ e[m] = 0 /\ \A k \in 1..(m - 1) : e[k] # 0
    BY <1>1, EncodedEnds
  <1>3. FrameSize(x) = m
    BY DEF FrameSize
  <1>4. CASE x.clean
    <2>1. s = e
      BY <1>4 DEF Arriving
    <2> HIDE DEF e
    <2> QED
      BY <1>1, <1>2, <1>3, <1>4, <2>1 DEF e
  <1>5. CASE ~x.clean
    <2>1. s \in Damaged(e)
      BY <1>5 DEF Arriving
    <2> HIDE DEF e, m
    <2>2. m >= 2 /\ Len(e) = m
      BY <1>2 DEF m
    <2>3. /\ s \in Seq(Byte) /\ Len(s) \in Nat
          /\ Len(s) >= m - 1 /\ Len(s) <= m + 1 /\ s[Len(s)] = 0
      BY <1>2, <2>1, <2>2, DamagedEnds
    <2> DEFINE l == Len(s)
    <2>4. l >= 1 /\ l <= m + 1
      <3> HIDE DEF l
      <3>1. l \in Nat /\ l >= m - 1 /\ l <= m + 1
        BY <2>3 DEF l
      <3> QED
        BY <1>2, <3>1
    <2> QED
      BY <1>1, <1>2, <1>3, <1>5, <2>1, <2>3, <2>4 DEF e
  <1> QED
    BY <1>1, <1>4, <1>5

FirstZero(k, buf) == buf[k] = 0 /\ \A p \in 1..(k - 1) : buf[p] # 0

(* A block in the receive buffer that consists of the bytes of s from 1 - a on. *)
LEMMA FrontRead ==
    ASSUME ShortFrames, "lost_end" \notin Noise, NoiseDetected,
           NEW x \in Item, NEW s \in Arriving(x), NEW a \in Int, a <= 0,
           NEW k \in 1..Cap, k <= a + Len(s), NEW buf \in Buffers,
           \A p \in 1..k : buf[p] = s[p - a],
           FirstZero(k, buf), a = 0 \/ s[0 - a] = 0
    PROVE  LET r == FrameRead(buf, k)
           IN /\ r.result = "SUCCESS" =>
                    [hdr |-> r.hdr, seg |-> r.seg] = x.frame /\ k >= FrameSize(x)
              /\ x.clean => a = 0 /\ k = FrameSize(x) /\ r.result = "SUCCESS"
  <1> DEFINE m == FrameSize(x)
             l == Len(s)
             f == x.frame
             r == FrameRead(buf, k)
  <1>1. /\ f \in Frames /\ s \in Seq(Byte) /\ l \in Nat /\ l >= 1 /\ m \in Nat /\ m >= 18
        /\ m <= Cap /\ l <= m + 1 /\ s[l] = 0
    BY ItemFacts
  <1>2. x.clean => /\ s = Encoded[f] /\ l = m
                   /\ \A i \in 1..(l - 1) : s[i] # 0
    BY ItemFacts
  <1>3. ~x.clean => s \in Damaged(Encoded[f])
    BY ItemFacts
  <1>4. k \in Nat /\ k >= 1 /\ Cap \in Nat /\ k <= Cap /\ k <= a + l
    BY CapFacts
  <1> HIDE DEF m, l
  <1>0. buf[k] = 0 /\ \A p \in 1..(k - 1) : buf[p] # 0
    BY DEF FirstZero
  <1>5. ASSUME x.clean PROVE a = 0 /\ k = m /\ r.result = "SUCCESS"
                             /\ [hdr |-> r.hdr, seg |-> r.seg] = f
    <2>1. a = 0
      <3> SUFFICES ASSUME a # 0 PROVE FALSE
        OBVIOUS
      <3>1. 0 - a \in 1..(l - 1)
        BY <1>1, <1>4
      <3>2. s[0 - a] = 0
        OBVIOUS
      <3> QED
        BY <1>2, <1>5, <3>1, <3>2
    <2>2. k = l
      <3> SUFFICES ASSUME k # l PROVE FALSE
        OBVIOUS
      <3>1. k \in 1..(l - 1) /\ k \in 1..k /\ k - a = k
        BY <1>1, <1>4, <2>1
      <3>2. s[k] = 0
        BY <1>0, <3>1
      <3> QED
        BY <1>2, <1>5, <3>1, <3>2
    <2>3. \A p \in 1..k : p - a = p
      BY <2>1
    <2>4. \A p \in 1..k : buf[p] = s[p]
      BY <2>3
    <2>5. Len(Encoded[f]) = k
      BY <1>2, <1>5, <2>2 DEF l
    <2>6. \A p \in 1..Len(Encoded[f]) : buf[p] = Encoded[f][p]
      BY <1>2, <1>5, <2>4, <2>5
    <2>7. FrameRead(buf, Len(Encoded[f])).result = "SUCCESS"
          /\ [hdr |-> FrameRead(buf, Len(Encoded[f])).hdr,
              seg |-> FrameRead(buf, Len(Encoded[f])).seg] = f
      BY <1>1, <2>6, FrameRoundTrip
    <2> QED
      BY <1>2, <1>5, <2>1, <2>2, <2>5, <2>7
  <1>6. ASSUME ~x.clean, r.result = "SUCCESS" PROVE [hdr |-> r.hdr, seg |-> r.seg] = f
    <2> DEFINE i == 1 - a
               j == k - a
               h == Holding(s, i, j)
    <2>1. /\ i \in Nat /\ i >= 1 /\ j \in 1..l /\ i \in 1..j /\ j - i + 1 = k
          /\ \A q \in i..(j - 1) : q + a \in 1..(k - 1) /\ q + a \in 1..k /\ (q + a) - a = q
          /\ k \in 1..k /\ i - 1 = 0 - a /\ (a = 0 => i = 1)
      BY <1>1, <1>4
    <2>2. IsPiece(s, i, j)
      <3>1. ASSUME NEW q \in i..(j - 1) PROVE s[q] # 0
        <4>1. q + a \in 1..(k - 1) /\ q + a \in 1..k /\ (q + a) - a = q
          BY <2>1
        <4>2. buf[q + a] # 0 /\ buf[q + a] = s[(q + a) - a]
          BY <1>0, <4>1
        <4> QED
          BY <4>1, <4>2
      <3>2. s[j] = 0
        BY <1>0, <2>1
      <3> HIDE DEF i, j
      <3>3. i = 1 \/ s[i - 1] = 0
        BY <2>1
      <3> QED
        BY <3>1, <3>2, <3>3 DEF IsPiece
    <2>3. h \in Buffers /\ \A p \in 1..k : buf[p] = h[p]
      <3>1. 0 \in Byte
        BY DEF Byte
      <3>2. ASSUME NEW p \in 1..Cap, p <= k PROVE s[i + p - 1] \in Byte
        <4>1. i + p - 1 \in 1..l
          BY <1>1, <1>4, <3>2
        <4> QED
          BY <1>1, <4>1, ElementOfSeq DEF l
      <3>3. \A p \in 1..k : p \in 1..Cap /\ p <= k /\ i + p - 1 = p - a
        BY <1>4
      <3>4. h = [p \in 1..Cap |-> IF p <= k THEN s[i + p - 1] ELSE 0]
        BY <2>1 DEF Holding
      <3> HIDE DEF i, j, h
      <3>5. h \in Buffers
        BY <3>1, <3>2, <3>4 DEF Buffers
      <3>6. \A p \in 1..k : h[p] = s[i + p - 1]
        BY <3>3, <3>4
      <3> QED
        BY <3>3, <3>5, <3>6
    <2> DEFINE q == FrameRead(h, k)
    <2>4. q.result = "SUCCESS" /\ q.hdr = r.hdr /\ q.seg = r.seg
      <3> HIDE DEF h
      <3> QED
        BY <1>0, <1>6, <2>3, ReadLocal
    <2>5. j \in DOMAIN s
      BY <1>1, <2>1, LenProperties DEF l
    <2>6. j - i + 1 = k
      BY <2>1
    <2> HIDE DEF i, j
    <2>7. LET z == FrameRead(Holding(s, i, j), j - i + 1)
          IN z.result = "SUCCESS" => [hdr |-> z.hdr, seg |-> z.seg] = f
      <3>1. i \in 1..j
        BY <2>1
      <3> QED
        BY <1>1, <1>3, <1>6, <2>2, <2>5, <3>1 DEF NoiseDetected
    <2> QED
      BY <2>4, <2>6, <2>7
  <1>7. ASSUME r.result = "SUCCESS", [hdr |-> r.hdr, seg |-> r.seg] = f PROVE k >= m
    <2> DEFINE d == CobsDecode(buf, k)
               n == Len(f.seg)
    <2>1. d \in Buffers /\ k \in Nat
      BY <1>4, DecodedType
    <2>2. r = ReadDecoded(d, k)
      BY DEF FrameRead
    <2> HIDE DEF d
    <2>3. FrameLen(HdrOf(d).seg_len) <= k
      BY <1>7, <2>1, <2>2, ReadFits
    <2>4. HdrOf(d) = f.hdr
      <3>1. r.hdr = HdrOf(d)
        BY <2>2, ReadDecodedParts
      <3> HIDE DEF r, f
      <3>2. f.hdr = r.hdr
        BY <1>7
      <3> QED
        BY <3>1, <3>2
    <2>5. f.hdr.seg_len = n /\ n \in Nat /\ m = 18 + n
      <3>1. Len(Encoded[f]) = 18 + Len(f.seg) /\ Len(f.seg) \in Nat
        BY <1>1, EncodedFacts
      <3>2. f.hdr.seg_len = Len(f.seg)
        BY <1>1, FramesAssumption
      <3> QED
        BY <3>1, <3>2 DEF m, FrameSize
    <2> HIDE DEF n
    <2>6. FrameLen(n) = 18 + n
      BY <2>5 DEF FrameLen, CobsOverhead, HeaderSize
    <2> QED
      BY <1>4, <2>3, <2>4, <2>5, <2>6
  <1>8. x.clean \in BOOLEAN
    BY DEF Item
  <1> HIDE DEF r, f
  <1> QED
    BY <1>5, <1>6, <1>7, <1>8 DEF m, f, r

----------------------------------------------------------------------------
(* Where the frames of a sequence S of items lie in the n bytes x that are still to be
   read: the bytes data[i] of frame i take the places start[i] + 1 to end[i], of
   which those up to 0 have been read. *)

Placed(S, n, start, end, data) ==
    /\ start \in [1..Len(S) -> Int]
    /\ end \in [1..Len(S) -> Int]
    /\ \A i \in 1..Len(S) :
          data[i] \in Arriving(S[i]) /\ end[i] = start[i] + Len(data[i]) /\ end[i] <= n
    /\ \A i, j \in 1..Len(S) : i < j => end[i] <= start[j]

(* All else is zeros, and what has been read ends with one. *)
Matches(S, x, n, start, end, data) ==
    /\ \A i \in 1..Len(S) : \A p \in 1..n :
          start[i] < p /\ p <= end[i] => x[p] = data[i][p - start[i]]
    /\ \A p \in 1..n : x[p] = 0 \/ \E i \in 1..Len(S) : start[i] < p /\ p <= end[i]
    /\ \A i \in 1..Len(S) : start[i] >= 0 \/ end[i] <= 0 \/ data[i][0 - start[i]] = 0

(* What the readings x and y of the line have to do with each other: the same first n
   bytes; y after the first k of n bytes of x are read; b behind n bytes. *)
SameUpTo(n, x, y) == \A p \in 1..n : y[p] = x[p]

PastFirst(k, n, x, y) == \A p \in 1..(n - k) : y[p] = x[k + p]

Behind(n, b, y) == \A p \in 1..Len(b) : y[n + p] = b[p]

ZerosBehind(n, m, y) == \A p \in 1..m : p > n => y[p] = 0

(* The function f with value v at e, behind its domain, and with all values less by k. *)
Added(f, e, v) == [i \in 1..e |-> IF i = e THEN v ELSE f[i]]

Lowered(f, n, k) == [i \in 1..n |-> f[i] - k]

(* Which frames have been found good: at[j] is the one that out[j] came from. *)
Found(S, out, start, at) ==
    /\ at \in [1..Len(out) -> 1..Len(S)]
    /\ \A i, j \in 1..Len(out) : i < j => at[i] < at[j]
    /\ \A j \in 1..Len(out) :
          out[j] = S[at[j]].frame /\ 0 - start[at[j]] >= FrameSize(S[at[j]])
    /\ \A k \in 1..Len(S) :
          S[k].clean /\ start[k] < 0 => \E j \in 1..Len(out) : at[j] = k

LEMMA PlacedFacts ==
    ASSUME ShortFrames, "lost_end" \notin Noise,
           NEW S \in Seq(Item), NEW n, NEW start, NEW end, NEW data,
           Placed(S, n, start, end, data), NEW i \in 1..Len(S)
    PROVE  /\ S[i] \in Item /\ data[i] \in Arriving(S[i])
           /\ start[i] \in Int /\ end[i] \in Int /\ start[i] < end[i] /\ end[i] <= n
           /\ end[i] - start[i] = Len(data[i]) /\ data[i][end[i] - start[i]] = 0
           /\ end[i] - start[i] <= FrameSize(S[i]) + 1
           /\ FrameSize(S[i]) \in Nat /\ FrameSize(S[i]) >= 18
  <1> DEFINE l == Len(data[i])
             m == FrameSize(S[i])
  <1>1. S[i] \in Item
    BY ElementOfSeq
  <1>2. /\ data[i] \in Arriving(S[i]) /\ start[i] \in Int /\ end[i] \in Int
        /\ end[i] = start[i] + l /\ end[i] <= n
    BY DEF Placed
  <1>3. /\ l \in Nat /\ l >= 1 /\ m \in Nat /\ m >= 18 /\ l <= m + 1 /\ data[i][l] = 0
    BY <1>1, <1>2, ItemFacts
  <1> HIDE DEF l, m
  <1>4. end[i] - start[i] = l /\ start[i] < end[i]
    BY <1>2, <1>3
  <1> QED
    BY <1>1, <1>2, <1>3, <1>4 DEF l, m

(* The frame in front ends before the next begins, and no other is partly read. *)
LEMMA PlacedOrder ==
    ASSUME ShortFrames, "lost_end" \notin Noise,
           NEW S \in Seq(Item), NEW n, NEW start, NEW end, NEW data,
           Placed(S, n, start, end, data), NEW i \in 1..Len(S), NEW j \in 1..Len(S)
    PROVE  /\ i < j => end[i] <= start[j]
           /\ start[j] < end[i] => j <= i
  <1>1. /\ start[i] \in Int /\ end[i] \in Int /\ start[i] < end[i]
        /\ start[j] \in Int /\ end[j] \in Int /\ start[j] < end[j]
    BY PlacedFacts
  <1>2. i < j => end[i] <= start[j]
    BY DEF Placed
  <1>3. i \in Int /\ j \in Int
    OBVIOUS
  <1> QED
    BY <1>1, <1>2, <1>3

(* What ends with the first zero is a zero on its own or the bytes of one frame, and
   these are read from its start or from a zero in it on. *)
LEMMA FrontItem ==
    ASSUME ShortFrames, "lost_end" \notin Noise,
           NEW S \in Seq(Item), NEW n \in Nat, NEW x, NEW start, NEW end, NEW data,
           Placed(S, n, start, end, data), Matches(S, x, n, start, end, data),
           NEW k \in 1..n, \A p \in 1..(k - 1) : x[p] # 0, x[k] = 0
    PROVE  \/ k = 1 /\ \A i \in 1..Len(S) : end[i] <= 0 \/ start[i] >= 1
           \/ \E i \in 1..Len(S) :
                 /\ start[i] <= 0 /\ k <= end[i]
                 /\ \A p \in 1..k : x[p] = data[i][p - start[i]]
                 /\ start[i] = 0 \/ data[i][0 - start[i]] = 0
  <1>1. k \in Nat /\ k >= 1 /\ k <= n
    OBVIOUS
  <1>2. ASSUME NEW i \in 1..Len(S), start[i] >= 1, start[i] < k PROVE FALSE
    <2> DEFINE p == start[i]
    <2>1. p \in 1..(k - 1) /\ p \in 1..n /\ start[i] \in Int
      BY <1>1, <1>2, PlacedFacts
    <2>2. PICK j \in 1..Len(S) : start[j] < p /\ p <= end[j]
      BY <2>1 DEF Matches
    <2>3. start[j] \in Int /\ end[j] \in Int /\ end[i] \in Int /\ start[i] < end[i]
          /\ data[j][end[j] - start[j]] = 0
      BY PlacedFacts
    <2>4. j < i
      <3>1. start[j] < end[i]
        BY <2>1, <2>2, <2>3
      <3>2. j <= i
        BY <3>1, PlacedOrder
      <3>3. j # i
        BY <2>2, <2>3
      <3> QED
        BY <3>2, <3>3
    <2>5. end[j] = p
      <3>1. end[j] <= start[i]
        BY <2>4, PlacedOrder
      <3> QED
        BY <2>1, <2>2, <2>3, <3>1
    <2>6. x[p] = data[j][p - start[j]]
      BY <2>1, <2>2 DEF Matches
    <2> QED
      BY <2>1, <2>3, <2>5, <2>6
  <1>3. CASE \E i \in 1..Len(S) : start[i] < k /\ k <= end[i]
    <2>1. PICK i \in 1..Len(S) : start[i] < k /\ k <= end[i]
      BY <1>3
    <2>2. start[i] \in Int /\ end[i] \in Int /\ end[i] <= n
      BY PlacedFacts
    <2>3. start[i] <= 0
      BY <1>1, <1>2, <2>1, <2>2
    <2>4. ASSUME NEW p \in 1..k PROVE x[p] = data[i][p - start[i]]
      <3>1. p \in 1..n /\ start[i] < p /\ p <= end[i]
        BY <1>1, <2>1, <2>2, <2>3
      <3> QED
        BY <3>1 DEF Matches
    <2>5. start[i] = 0 \/ data[i][0 - start[i]] = 0
      <3>1. start[i] >= 0 \/ end[i] <= 0 \/ data[i][0 - start[i]] = 0
        BY DEF Matches
      <3> QED
        BY <1>1, <2>1, <2>2, <2>3, <3>1
    <2> QED
      BY <2>1, <2>3, <2>4, <2>5
  <1>4. CASE ~\E i \in 1..Len(S) : start[i] < k /\ k <= end[i]
    <2>1. k = 1
      <3> SUFFICES ASSUME k # 1 PROVE FALSE
        OBVIOUS
      <3> DEFINE p == k - 1
      <3>1. p \in 1..(k - 1) /\ p \in 1..n
        BY <1>1
      <3>2. PICK j \in 1..Len(S) : start[j] < p /\ p <= end[j]
        BY <3>1 DEF Matches
      <3>3. start[j] \in Int /\ end[j] \in Int /\ data[j][end[j] - start[j]] = 0
        BY PlacedFacts
      <3>4. ~(start[j] < k /\ k <= end[j])
        BY <1>4
      <3>5. end[j] = p
        BY <1>1, <3>2, <3>3, <3>4
      <3>6. x[p] = data[j][p - start[j]]
        BY <3>1, <3>2 DEF Matches
      <3> QED
        BY <3>1, <3>3, <3>5, <3>6
    <2>2. ASSUME NEW i \in 1..Len(S) PROVE end[i] <= 0 \/ start[i] >= 1
      <3>1. start[i] \in Int /\ end[i] \in Int /\ ~(start[i] < k /\ k <= end[i])
        BY <1>4, PlacedFacts
      <3> QED
        BY <2>1, <3>1
    <2> QED
      BY <2>1, <2>2
  <1> QED
    BY <1>3, <1>4

(* The first k bytes are read. *)
LEMMA ReadOn ==
    ASSUME ShortFrames, "lost_end" \notin Noise,
           NEW S \in Seq(Item), NEW n \in Nat, NEW x, NEW start, NEW end, NEW data,
           Placed(S, n, start, end, data), Matches(S, x, n, start, end, data),
           NEW k \in 1..n, NEW y, PastFirst(k, n, x, y),
           \A i \in 1..Len(S) :
              end[i] <= k \/ start[i] >= k \/ data[i][k - start[i]] = 0,
           NEW m, m = n - k
    PROVE  /\ Placed(S, m, Lowered(start, Len(S), k), Lowered(end, Len(S), k), data)
           /\ Matches(S, y, m, Lowered(start, Len(S), k), Lowered(end, Len(S), k), data)
  <1> DEFINE start2 == Lowered(start, Len(S), k)
             end2   == Lowered(end, Len(S), k)
  <1>0. /\ start2 = [i \in 1..Len(S) |-> start[i] - k]
        /\ end2 = [i \in 1..Len(S) |-> end[i] - k]
    BY DEF Lowered
  <1> HIDE DEF start2, end2
  <1>1. ASSUME NEW i \in 1..Len(S)
        PROVE  /\ data[i] \in Arriving(S[i]) /\ start[i] \in Int /\ end[i] \in Int
               /\ end[i] <= n /\ start2[i] = start[i] - k /\ end2[i] = end[i] - k
               /\ end[i] = start[i] + Len(data[i]) /\ Len(data[i]) \in Int
    <2>1. /\ data[i] \in Arriving(S[i]) /\ start[i] \in Int /\ end[i] \in Int
          /\ end[i] <= n /\ end[i] - start[i] = Len(data[i])
      BY PlacedFacts
    <2>2. end[i] = start[i] + Len(data[i])
      BY DEF Placed
    <2> QED
      BY <1>0, <2>1, <2>2
  <1>2. Placed(S, n - k, start2, end2, data)
    <2>1. start2 \in [1..Len(S) -> Int] /\ end2 \in [1..Len(S) -> Int]
      BY <1>0, <1>1
    <2>2. ASSUME NEW i \in 1..Len(S)
          PROVE  data[i] \in Arriving(S[i]) /\ end2[i] = start2[i] + Len(data[i]) /\ end2[i] <= n - k
      <3> DEFINE l == Len(data[i])
      <3>1. /\ start[i] \in Int /\ end[i] \in Int /\ l \in Int /\ end[i] = start[i] + l
            /\ end[i] <= n /\ start2[i] = start[i] - k /\ end2[i] = end[i] - k
        BY <1>1
      <3> HIDE DEF l
      <3>2. end2[i] = start2[i] + l /\ end2[i] <= n - k
        BY <3>1
      <3> QED
        BY <1>1, <3>2 DEF l
    <2>3. ASSUME NEW i \in 1..Len(S), NEW j \in 1..Len(S), i < j PROVE end2[i] <= start2[j]
      <3>1. end[i] <= start[j]
        BY <2>3 DEF Placed
      <3>2. end[i] \in Int /\ start[j] \in Int /\ end2[i] = end[i] - k /\ start2[j] = start[j] - k
        BY <1>1
      <3> QED
        BY <3>1, <3>2
    <2> QED
      BY <2>1, <2>2, <2>3 DEF Placed
  <1>3. Matches(S, y, n - k, start2, end2, data)
    <2>1. ASSUME NEW i \in 1..Len(S), NEW p \in 1..(n - k), start2[i] < p, p <= end2[i]
          PROVE  y[p] = data[i][p - start2[i]]
      <3>1. /\ k + p \in 1..n /\ start[i] < k + p /\ k + p <= end[i]
            /\ p - start2[i] = (k + p) - start[i]
        BY <1>1, <2>1
      <3>2. x[k + p] = data[i][(k + p) - start[i]]
        BY <3>1 DEF Matches
      <3>3. y[p] = x[k + p]
        BY DEF PastFirst
      <3> QED
        BY <3>1, <3>2, <3>3
    <2>2. ASSUME NEW p \in 1..(n - k), y[p] # 0
          PROVE  \E i \in 1..Len(S) : start2[i] < p /\ p <= end2[i]
      <3>1. k + p \in 1..n /\ x[k + p] # 0
        BY <2>2 DEF PastFirst
      <3>2. PICK i \in 1..Len(S) : start[i] < k + p /\ k + p <= end[i]
        BY <3>1 DEF Matches
      <3>3. start2[i] < p /\ p <= end2[i]
        BY <1>1, <3>2
      <3> QED
        BY <3>3
    <2>3. ASSUME NEW i \in 1..Len(S)
          PROVE  start2[i] >= 0 \/ end2[i] <= 0 \/ data[i][0 - start2[i]] = 0
      <3>1. /\ start[i] \in Int /\ end[i] \in Int /\ k \in Int
            /\ start2[i] = start[i] - k /\ end2[i] = end[i] - k
        BY <1>1
      <3>2. 0 - start2[i] = k - start[i] /\ (start[i] >= k => start2[i] >= 0)
            /\ (end[i] <= k => end2[i] <= 0)
        BY ONLY <3>1
      <3>3. end[i] <= k \/ start[i] >= k \/ data[i][k - start[i]] = 0
        OBVIOUS
      <3> QED
        BY ONLY <3>2, <3>3
    <2> QED
      BY <2>1, <2>2, <2>3 DEF Matches
  <1> QED
    BY <1>2, <1>3 DEF start2, end2

(* The same bytes, with perhaps a zero more at the end. *)
LEMMA ZeroMore ==
    ASSUME ShortFrames, "lost_end" \notin Noise,
           NEW S \in Seq(Item), NEW n \in Nat, NEW x, NEW start, NEW end, NEW data,
           Placed(S, n, start, end, data), Matches(S, x, n, start, end, data),
           NEW m \in Nat, n <= m, NEW y, SameUpTo(n, x, y), ZerosBehind(n, m, y)
    PROVE  Placed(S, m, start, end, data) /\ Matches(S, y, m, start, end, data)
  <1>1. ASSUME NEW i \in 1..Len(S)
        PROVE  start[i] \in Int /\ end[i] \in Int /\ end[i] <= n
    BY PlacedFacts
  <1>2. Placed(S, m, start, end, data)
    <2>1. \A i \in 1..Len(S) : end[i] <= m
      BY <1>1
    <2> QED
      BY <2>1 DEF Placed
  <1>3. Matches(S, y, m, start, end, data)
    <2>1. ASSUME NEW i \in 1..Len(S), NEW p \in 1..m, start[i] < p, p <= end[i]
          PROVE  y[p] = data[i][p - start[i]]
      <3>1. p \in 1..n
        BY <1>1, <2>1
      <3> QED
        BY <2>1, <3>1 DEF Matches, SameUpTo
    <2>2. ASSUME NEW p \in 1..m, y[p] # 0
          PROVE  \E i \in 1..Len(S) : start[i] < p /\ p <= end[i]
      <3>1. p \in 1..n
        BY <2>2 DEF ZerosBehind
      <3>2. x[p] # 0
        BY <2>2, <3>1 DEF SameUpTo
      <3> QED
        BY <3>1, <3>2 DEF Matches
    <2>3. \A i \in 1..Len(S) : start[i] >= 0 \/ end[i] <= 0 \/ data[i][0 - start[i]] = 0
      BY DEF Matches
    <2> QED
      BY <2>1, <2>2, <2>3 DEF Matches
  <1> QED
    BY <1>2, <1>3

(* One more frame at the end. *)
LEMMA FrameMore ==
    ASSUME ShortFrames, "lost_end" \notin Noise,
           NEW S \in Seq(Item), NEW n \in Nat, NEW x, NEW start, NEW end, NEW data,
           Placed(S, n, start, end, data), Matches(S, x, n, start, end, data),
           NEW c \in Item, NEW b \in Arriving(c), NEW m, m = n + Len(b), NEW y,
           SameUpTo(n, x, y), Behind(n, b, y), NEW e, e = Len(S) + 1
    PROVE  /\ Placed(Append(S, c), m, Added(start, e, n), Added(end, e, m), Added(data, e, b))
           /\ Matches(Append(S, c), y, m,
                      Added(start, e, n), Added(end, e, m), Added(data, e, b))
  <1> DEFINE l == Len(b)
             u == Len(S)
             T == Append(S, c)
             start2 == Added(start, e, n)
             end2   == Added(end, e, m)
             data2  == Added(data, e, b)
  <1>0. /\ start2 = [i \in 1..e |-> IF i = e THEN n ELSE start[i]]
        /\ end2 = [i \in 1..e |-> IF i = e THEN m ELSE end[i]]
        /\ data2 = [i \in 1..e |-> IF i = e THEN b ELSE data[i]]
    BY DEF Added
  <1> HIDE DEF start2, end2, data2
  <1>1. l \in Nat /\ m = n + l /\ m \in Nat /\ u \in Nat /\ e = u + 1 /\ e \in 1..e /\ l >= 1
    <2>1. l \in Nat /\ u \in Nat /\ l >= 1
      BY ItemFacts, LenProperties
    <2> QED
      BY <2>1
  <1>2. Len(T) = e /\ T[e] = c /\ \A i \in 1..u : T[i] = S[i]
    BY AppendProperties
  <1>3. start2[e] = n /\ end2[e] = m /\ data2[e] = b
    BY <1>0, <1>1
  <1>4. ASSUME NEW i \in 1..u
        PROVE  /\ i \in 1..e /\ i # e /\ i < e
               /\ start2[i] = start[i] /\ end2[i] = end[i] /\ data2[i] = data[i]
               /\ start[i] \in Int /\ end[i] \in Int /\ end[i] <= n
               /\ data[i] \in Arriving(T[i]) /\ end[i] = start[i] + Len(data[i])
    <2>1. i \in 1..e /\ i # e /\ i < e
      BY <1>1
    <2>2. /\ start[i] \in Int /\ end[i] \in Int /\ end[i] <= n
          /\ data[i] \in Arriving(S[i])
      BY PlacedFacts
    <2>3. end[i] = start[i] + Len(data[i])
      BY DEF Placed
    <2> QED
      BY <1>0, <1>2, <2>1, <2>2, <2>3
  <1>5. \A i \in 1..e : i \in 1..u \/ i = e
    BY <1>1
  <1> HIDE DEF l, u, T
  <1>6. Placed(T, m, start2, end2, data2)
    <2>1. start2 \in [1..e -> Int] /\ end2 \in [1..e -> Int]
      <3>1. ASSUME NEW i \in 1..e PROVE start2[i] \in Int /\ end2[i] \in Int
        <4>1. n \in Int /\ m \in Int
          BY <1>1
        <4>2. CASE i = e
          BY <1>3, <4>1, <4>2
        <4>3. CASE i \in 1..u
          BY <1>4, <4>3
        <4> QED
          BY <1>5, <4>2, <4>3
      <3> QED
        BY <1>0, <3>1
    <2>2. ASSUME NEW i \in 1..e
          PROVE  /\ data2[i] \in Arriving(T[i])
                 /\ end2[i] = start2[i] + Len(data2[i]) /\ end2[i] <= m
      <3>1. CASE i = e
        <4>1. m = n + Len(b)
          OBVIOUS
        <4> QED
          BY <1>1, <1>2, <1>3, <3>1, <4>1
      <3>2. CASE i \in 1..u
        <4>1. /\ start2[i] = start[i] /\ end2[i] = end[i] /\ data2[i] = data[i]
              /\ end[i] \in Int /\ end[i] <= n
              /\ data[i] \in Arriving(T[i]) /\ end[i] = start[i] + Len(data[i])
          BY <1>4, <3>2
        <4>2. end[i] <= m
          BY <1>1, <4>1
        <4> QED
          BY ONLY <4>1, <4>2
      <3> QED
        BY <1>5, <3>1, <3>2
    <2>3. ASSUME NEW i \in 1..e, NEW j \in 1..e, i < j PROVE end2[i] <= start2[j]
      <3>1. i \in 1..u
        BY <1>1, <1>5, <2>3
      <3>2. CASE j = e
        BY <1>3, <1>4, <3>1, <3>2
      <3>3. CASE j \in 1..u
        <4>1. end[i] <= start[j]
          BY <2>3, <3>1, <3>3 DEF Placed, u
        <4> QED
          BY <1>4, <3>1, <3>3, <4>1
      <3> QED
        BY <1>5, <3>2, <3>3
    <2> QED
      BY <1>2, <2>1, <2>2, <2>3 DEF Placed
  <1>7. Matches(T, y, m, start2, end2, data2)
    <2>1. ASSUME NEW i \in 1..e, NEW p \in 1..m, start2[i] < p, p <= end2[i]
          PROVE  y[p] = data2[i][p - start2[i]]
      <3>1. CASE i = e
        <4> DEFINE q == p - n
        <4>1. q \in 1..l /\ n + q = p
          BY <1>1, <1>3, <2>1, <3>1
        <4> HIDE DEF q
        <4>2. y[p] = b[q]
          BY <4>1 DEF l, Behind
        <4> QED
          BY <1>3, <3>1, <4>2 DEF q
      <3>2. CASE i \in 1..u
        <4>1. p \in 1..n /\ start[i] < p /\ p <= end[i]
          <5>1. start2[i] = start[i] /\ end2[i] = end[i] /\ end[i] \in Int /\ end[i] <= n
            BY <1>4, <3>2
          <5>2. p \in Nat /\ p >= 1 /\ n \in Int
            BY <1>1
          <5> QED
            BY ONLY <2>1, <5>1, <5>2
        <4>2. x[p] = data[i][p - start[i]]
          BY <3>2, <4>1 DEF Matches, u
        <4>3. y[p] = x[p]
          BY <4>1 DEF SameUpTo
        <4> QED
          BY <1>4, <3>2, <4>1, <4>2, <4>3
      <3> QED
        BY <1>5, <3>1, <3>2
    <2>2. ASSUME NEW p \in 1..m, y[p] # 0
          PROVE  \E i \in 1..e : start2[i] < p /\ p <= end2[i]
      <3>1. CASE p > n
        <4>1. start2[e] < p /\ p <= end2[e]
          BY <1>1, <1>3, <3>1
        <4> QED
          BY <1>1, <4>1
      <3>2. CASE p <= n
        <4>1. p \in 1..n
          BY <3>2
        <4>2. x[p] # 0
          BY <2>2, <4>1 DEF SameUpTo
        <4>3. PICK i \in 1..u : start[i] < p /\ p <= end[i]
          BY <4>1, <4>2 DEF Matches, u
        <4> QED
          BY <1>4, <4>3
      <3> QED
        BY <1>1, <3>1, <3>2
    <2>3. ASSUME NEW i \in 1..e
          PROVE  start2[i] >= 0 \/ end2[i] <= 0 \/ data2[i][0 - start2[i]] = 0
      <3>1. CASE i = e
        BY <1>3, <3>1
      <3>2. CASE i \in 1..u
        <4>1. start[i] >= 0 \/ end[i] <= 0 \/ data[i][0 - start[i]] = 0
          BY <3>2 DEF Matches, u
        <4> QED
          BY <1>4, <3>2, <4>1
      <3> QED
        BY <1>5, <3>1, <3>2
    <2> QED
      BY <1>2, <2>1, <2>2, <2>3 DEF Matches
  <1> QED
    BY <1>6, <1>7 DEF T, start2, end2, data2

----------------------------------------------------------------------------
(* Which frames have been found *)

(* Nothing new is found in what is read. *)
LEMMA FoundSame ==
    ASSUME NEW S \in Seq(Item), NEW out, NEW start, NEW at, Found(S, out, start, at),
           NEW start2,
           \A i \in 1..Len(S) :
              /\ start[i] \in Int /\ start2[i] \in Int /\ start2[i] <= start[i]
              /\ FrameSize(S[i]) \in Nat
              /\ S[i].clean /\ start2[i] < 0 => start[i] < 0
    PROVE  Found(S, out, start2, at)
  <1>1. ASSUME NEW j \in 1..Len(out)
        PROVE  out[j] = S[at[j]].frame /\ 0 - start2[at[j]] >= FrameSize(S[at[j]])
    <2> DEFINE i == at[j]
    <2>1. i \in 1..Len(S) /\ out[j] = S[i].frame /\ 0 - start[i] >= FrameSize(S[i])
      BY DEF Found
    <2> HIDE DEF i
    <2>2. /\ start[i] \in Int /\ start2[i] \in Int /\ start2[i] <= start[i]
          /\ FrameSize(S[i]) \in Nat
      BY <2>1
    <2>3. 0 - start2[i] >= FrameSize(S[i])
      BY ONLY <2>1, <2>2
    <2> QED
      BY <2>1, <2>3 DEF i
  <1>2. ASSUME NEW k \in 1..Len(S), S[k].clean, start2[k] < 0
        PROVE  \E j \in 1..Len(out) : at[j] = k
    BY <1>2 DEF Found
  <1> QED
    BY <1>1, <1>2 DEF Found

(* Frame i, behind all found so far, is found. *)
LEMMA FoundNext ==
    ASSUME NEW S \in Seq(Item), NEW out \in Seq(Frames), NEW start, NEW at,
           Found(S, out, start, at), NEW i \in 1..Len(S),
           \A j \in 1..Len(out) : at[j] < i,
           NEW start2,
           \A k \in 1..Len(S) :
              /\ start[k] \in Int /\ start2[k] \in Int /\ start2[k] <= start[k]
              /\ FrameSize(S[k]) \in Nat
              /\ k # i /\ S[k].clean /\ start2[k] < 0 => start[k] < 0,
           0 - start2[i] >= FrameSize(S[i]), S[i].frame \in Frames,
           NEW e, e = Len(out) + 1
    PROVE  Found(S, Append(out, S[i].frame), start2, Added(at, e, i))
  <1> DEFINE u == Len(out)
             out2 == Append(out, S[i].frame)
             at2  == Added(at, e, i)
  <1>0. at2 = [j \in 1..e |-> IF j = e THEN i ELSE at[j]]
    BY DEF Added
  <1> HIDE DEF at2
  <1>1. u \in Nat /\ e = u + 1 /\ e \in 1..e /\ \A j \in 1..e : j \in 1..u \/ j = e
    BY LenProperties
  <1>2. \A j \in 1..u : j \in 1..e /\ j # e
    BY <1>1
  <1>3. Len(out2) = e /\ out2[e] = S[i].frame /\ \A j \in 1..u : out2[j] = out[j]
    BY AppendProperties
  <1>4. at2[e] = i /\ \A j \in 1..u : at2[j] = at[j]
    BY <1>0, <1>1, <1>2
  <1>5. \A j \in 1..u : at[j] \in 1..Len(S)
    BY DEF Found
  <1> HIDE DEF u, out2
  <1>6. at2 \in [1..e -> 1..Len(S)]
    <2>1. ASSUME NEW j \in 1..e PROVE (IF j = e THEN i ELSE at[j]) \in 1..Len(S)
      BY <1>1, <1>5
    <2> QED
      BY <1>0, <2>1
  <1>7. ASSUME NEW j \in 1..e, NEW k \in 1..e, j < k PROVE at2[j] < at2[k]
    <2>1. j \in 1..u
      BY <1>1, <1>7
    <2>2. CASE k = e
      <3>1. at[j] < i
        BY <2>1 DEF u
      <3> QED
        BY <1>4, <2>1, <2>2, <3>1
    <2>3. CASE k \in 1..u
      <3>1. at[j] < at[k]
        BY <1>7, <2>1, <2>3 DEF Found, u
      <3> QED
        BY <1>4, <2>1, <2>3, <3>1
    <2> QED
      BY <1>1, <2>2, <2>3
  <1>8. ASSUME NEW j \in 1..e
        PROVE  out2[j] = S[at2[j]].frame /\ 0 - start2[at2[j]] >= FrameSize(S[at2[j]])
    <2>1. CASE j = e
      BY <1>3, <1>4, <2>1
    <2>2. CASE j \in 1..u
      <3> DEFINE k == at[j]
      <3>1. k \in 1..Len(S) /\ out[j] = S[k].frame /\ 0 - start[k] >= FrameSize(S[k])
        BY <2>2 DEF Found, u
      <3>2. at2[j] = k /\ out2[j] = out[j]
        BY <1>3, <1>4, <2>2
      <3> HIDE DEF k
      <3>3. /\ start[k] \in Int /\ start2[k] \in Int /\ start2[k] <= start[k]
            /\ FrameSize(S[k]) \in Nat
        BY <3>1
      <3>4. 0 - start2[k] >= FrameSize(S[k])
        BY ONLY <3>1, <3>3
      <3> QED
        BY <3>1, <3>2, <3>4
    <2> QED
      BY <1>1, <2>1, <2>2
  <1>9. ASSUME NEW k \in 1..Len(S), S[k].clean, start2[k] < 0
        PROVE  \E j \in 1..e : at2[j] = k
    <2>1. CASE k = i
      BY <1>1, <1>4, <2>1
    <2>2. CASE k # i
      <3>1. start[k] < 0
        BY <1>9, <2>2
      <3>2. PICK j \in 1..u : at[j] = k
        BY <1>9, <3>1 DEF Found, u
      <3> QED
        BY <1>2, <1>4, <3>2
    <2> QED
      BY <2>1, <2>2
  <1> QED
    BY <1>3, <1>6, <1>7, <1>8, <1>9 DEF Found, out2, at2

(* A frame is sent: it has not been read. *)
LEMMA FoundBefore ==
    ASSUME NEW S \in Seq(Item), NEW out, NEW start, NEW at, Found(S, out, start, at),
           NEW c \in Item, NEW n \in Nat, NEW e, e = Len(S) + 1
    PROVE  Found(Append(S, c), out, Added(start, e, n), at)
  <1> DEFINE u == Len(S)
             T == Append(S, c)
             start2 == Added(start, e, n)
  <1>0. start2 = [i \in 1..e |-> IF i = e THEN n ELSE start[i]]
    BY DEF Added
  <1> HIDE DEF start2
  <1>1. u \in Nat /\ e = u + 1 /\ e \in 1..e /\ \A i \in 1..e : i \in 1..u \/ i = e
    BY LenProperties
  <1>2. Len(T) = e /\ T[e] = c /\ \A i \in 1..u : T[i] = S[i]
    BY AppendProperties
  <1>3. \A i \in 1..u : i \in 1..e /\ i # e
    BY <1>1
  <1>4. start2[e] = n /\ \A i \in 1..u : start2[i] = start[i]
    BY <1>0, <1>1, <1>3
  <1> HIDE DEF T
  <1>5. \A j \in 1..Len(out) : at[j] \in 1..u
    BY DEF Found
  <1>6. at \in [1..Len(out) -> 1..e]
    BY <1>3, <1>5 DEF Found
  <1>7. ASSUME NEW j \in 1..Len(out)
        PROVE  out[j] = T[at[j]].frame /\ 0 - start2[at[j]] >= FrameSize(T[at[j]])
    BY <1>2, <1>4, <1>5 DEF Found
  <1>8. ASSUME NEW k \in 1..e, T[k].clean, start2[k] < 0
        PROVE  \E j \in 1..Len(out) : at[j] = k
    <2>1. k \in 1..u
      BY <1>1, <1>4, <1>8
    <2> QED
      BY <1>2, <1>4, <1>8, <2>1 DEF Found
  <1> QED
    BY <1>2, <1>6, <1>7, <1>8 DEF Found, T, start2

----------------------------------------------------------------------------
(* The bytes still to be read: those in the receive buffer f and those on the wire w. *)

Due(f, w) == f.len + Len(w)

Upcoming(f, w) ==
    [p \in 1..Due(f, w) |-> IF p <= f.len THEN f.buf[p] ELSE w[p - f.len]]

LEMMA DueType ==
    ASSUME NEW f \in RecvFrameType, NEW w \in Seq(Byte)
    PROVE  f.len \in Nat /\ Len(w) \in Nat /\ Due(f, w) \in Nat /\ f.len <= Due(f, w)
  <1>1. f.len \in 0..Cap /\ Len(w) \in Nat
    BY LenProperties DEF RecvFrameType
  <1> DEFINE l == Len(w)
  <1> HIDE DEF l
  <1>2. l \in Nat
    BY <1>1 DEF l
  <1>3. f.len + l \in Nat /\ f.len <= f.len + l /\ f.len \in Nat
    BY <1>1, <1>2, CapFacts
  <1> QED
    BY <1>2, <1>3 DEF Due, l

(* arq__recv_frame_fill moves bytes from the wire into the buffer. *)
LEMMA FillMoves ==
    ASSUME NEW f \in RecvFrameType, NEW w \in Seq(Byte), NEW o \in Nat, o <= Len(w)
    PROVE  LET src == SubSeq(w, 1, o)
               f2  == RecvFrameFill(f, src)
               w2  == SubSeq(w, 1 + FillCount(f, src), Len(w))
           IN /\ Due(f2, w2) = Due(f, w)
              /\ SameUpTo(Due(f, w), Upcoming(f, w), Upcoming(f2, w2))
  <1> DEFINE src == SubSeq(w, 1, o)
             f2  == RecvFrameFill(f, src)
             w2  == SubSeq(w, 1 + FillCount(f, src), Len(w))
             k == FillCount(f, src)
             l == Len(w)
             n == f.len
  <1>1. n \in Nat /\ l \in Nat /\ n <= Cap /\ Cap \in Nat /\ DOMAIN f.buf = 1..Cap
    BY DueType, CapFacts DEF RecvFrameType
  <1>2. src \in Seq(Byte) /\ Len(src) = o /\ \A i \in 1..o : src[i] = w[i]
    <2> DEFINE a == 1
    <2>1. a \in Nat \ {0} /\ o = a + o - 1 /\ o <= l /\ \A i \in 1..o : a + i - 1 = i
      OBVIOUS
    <2> HIDE DEF a
    <2>2. LET s == SubSeq(w, a, o)
          IN s \in Seq(Byte) /\ Len(s) = o /\ \A i \in 1..o : s[i] = w[a + i - 1]
      BY <2>1, Slice
    <2>3. src = SubSeq(w, a, o)
      BY DEF a
    <2> QED
      BY <2>1, <2>2, <2>3
  <1> HIDE DEF src
  <1>3. k \in 0..o /\ n + k \in 0..Cap
    BY <1>2, FillCountType
  <1>4. /\ f2.len = n + k
        /\ f2.buf = [i \in 1..Cap |-> IF i \in (n + 1)..(n + k) THEN src[i - n] ELSE f.buf[i]]
    BY <1>1 DEF RecvFrameFill
  <1> HIDE DEF f2, k, n, l
  <1>0. o <= l
    BY DEF l
  <1>5. Len(w2) = l - k /\ \A i \in 1..(l - k) : w2[i] = w[k + i]
    <2> DEFINE a == 1 + k
               c == l - k
    <2>1. a \in Nat \ {0} /\ c \in Nat /\ l = a + c - 1 /\ l <= l
          /\ \A i \in 1..c : a + i - 1 = k + i
      BY ONLY <1>0, <1>1, <1>3, o \in Nat
    <2>2. w2 = SubSeq(w, a, l)
      BY DEF k, l
    <2>4. l = Len(w)
      BY DEF l
    <2> HIDE DEF a, c
    <2>3. LET s == SubSeq(w, a, l)
          IN s \in Seq(Byte) /\ Len(s) = c /\ \A i \in 1..c : s[i] = w[a + i - 1]
      BY ONLY w \in Seq(Byte), <2>1, <2>4, Slice
    <2> QED
      BY <2>1, <2>2, <2>3 DEF c
  <1> HIDE DEF w2
  <1>6. Due(f, w) = n + l
    BY DEF Due, n, l
  <1>7. Due(f2, w2) = n + l
    <2>1. o \in Nat /\ o <= l /\ Len(w2) = l - k
      BY <1>5 DEF l
    <2>2. (n + k) + (l - k) = n + l
      BY <1>1, <1>3
    <2> QED
      BY <1>4, <2>1, <2>2 DEF Due
  <1>8. ASSUME NEW p \in 1..(n + l) PROVE Upcoming(f2, w2)[p] = Upcoming(f, w)[p]
    <2>1. Upcoming(f, w)[p] = IF p <= n THEN f.buf[p] ELSE w[p - n]
      BY <1>6 DEF Upcoming, n
    <2>2. Upcoming(f2, w2)[p] = IF p <= n + k THEN f2.buf[p] ELSE w2[p - (n + k)]
      BY <1>4, <1>7 DEF Upcoming
    <2>3. CASE p <= n
      <3>1. p \in 1..Cap /\ p \notin (n + 1)..(n + k) /\ p <= n + k
        BY <1>1, <1>3, <2>3
      <3> QED
        BY <1>4, <2>1, <2>2, <2>3, <3>1
    <2>4. CASE p > n /\ p <= n + k
      <3>1. p \in 1..Cap /\ p \in (n + 1)..(n + k) /\ ~(p <= n) /\ p - n \in 1..o
        BY <1>1, <1>3, <2>4
      <3>2. src[p - n] = w[p - n]
        BY <1>2, <3>1
      <3>3. f2.buf[p] = src[p - n]
        BY <1>4, <3>1
      <3> QED
        BY <2>1, <2>2, <2>4, <3>1, <3>2, <3>3
    <2>5. CASE p > n + k
      <3>1. ~(p <= n) /\ ~(p <= n + k) /\ p - (n + k) \in 1..(l - k) /\ k + (p - (n + k)) = p - n
        BY <1>1, <1>3, <2>5
      <3>2. w2[p - (n + k)] = w[k + (p - (n + k))]
        BY <1>5, <3>1
      <3> QED
        BY <2>1, <2>2, <3>1, <3>2
    <2> QED
      BY <1>1, <1>3, <2>3, <2>4, <2>5
  <1> QED
    BY <1>6, <1>7, <1>8 DEF SameUpTo, src, f2, w2

(* What is sent comes last. *)
LEMMA SendAdds ==
    ASSUME NEW f \in RecvFrameType, NEW w \in Seq(Byte), NEW b \in Seq(Byte)
    PROVE  /\ Due(f, w \o b) = Due(f, w) + Len(b)
           /\ SameUpTo(Due(f, w), Upcoming(f, w), Upcoming(f, w \o b))
           /\ Behind(Due(f, w), b, Upcoming(f, w \o b))
  <1> DEFINE w2 == w \o b
             n == f.len
             l == Len(w)
             m == Len(b)
  <1>1. n \in Nat /\ l \in Nat /\ m \in Nat
    BY DueType
  <1>2. Len(w2) = l + m /\ \A i \in 1..(l + m) : w2[i] = IF i <= l THEN w[i] ELSE b[i - l]
    BY ConcatProperties
  <1>3. Due(f, w) = n + l
    BY DEF Due
  <1>4. Due(f, w2) = n + (l + m)
    BY <1>2 DEF Due
  <1> HIDE DEF l, m, w2
  <1>5. Due(f, w2) = Due(f, w) + m
    <2>1. n + (l + m) = (n + l) + m
      BY <1>1
    <2> QED
      BY <1>3, <1>4, <2>1
  <1>6. ASSUME NEW p \in 1..(n + (l + m))
        PROVE  Upcoming(f, w2)[p] = IF p <= n THEN f.buf[p] ELSE w2[p - n]
    BY <1>4 DEF Upcoming
  <1> HIDE DEF n
  <1>7. ASSUME NEW p \in 1..(n + l) PROVE Upcoming(f, w2)[p] = Upcoming(f, w)[p]
    <2>1. Upcoming(f, w)[p] = IF p <= n THEN f.buf[p] ELSE w[p - n]
      BY <1>3 DEF Upcoming, n
    <2>2. p \in 1..(n + (l + m)) /\ (p <= n \/ (p - n \in 1..(l + m) /\ p - n <= l))
      BY <1>1
    <2>3. Upcoming(f, w2)[p] = IF p <= n THEN f.buf[p] ELSE w2[p - n]
      BY <1>6, <2>2
    <2>4. p <= n \/ w2[p - n] = w[p - n]
      BY <1>2, <2>2
    <2> QED
      BY <2>1, <2>3, <2>4
  <1>8. ASSUME NEW p \in 1..m PROVE Upcoming(f, w2)[(n + l) + p] = b[p]
    <2> DEFINE q == (n + l) + p
    <2>1. q \in 1..(n + (l + m)) /\ ~(q <= n) /\ q - n = l + p
          /\ l + p \in 1..(l + m) /\ ~(l + p <= l) /\ (l + p) - l = p
      BY <1>1
    <2> HIDE DEF q
    <2>2. Upcoming(f, w2)[q] = w2[l + p]
      BY <1>6, <2>1
    <2>3. w2[l + p] = b[p]
      BY <1>2, <2>1
    <2> QED
      BY <2>2, <2>3 DEF q
  <1> QED
    BY <1>3, <1>5, <1>7, <1>8 DEF m, w2, SameUpTo, Behind

(* arq__recv_frame_rst empties the buffer. *)
LEMMA RstDrops ==
    ASSUME NEW f \in RecvFrameType, NEW w \in Seq(Byte), NEW f2, f2.len = 0
    PROVE  /\ Due(f2, w) = Due(f, w) - f.len
           /\ PastFirst(f.len, Due(f, w), Upcoming(f, w), Upcoming(f2, w))
  <1> DEFINE n == f.len
             l == Len(w)
  <1>1. n \in Nat /\ l \in Nat
    BY DueType
  <1>2. Due(f, w) = n + l /\ Due(f2, w) = 0 + l
    BY DEF Due
  <1> HIDE DEF l
  <1>3. 0 + l = l /\ (n + l) - n = l
    BY <1>1
  <1>4. ASSUME NEW p \in 1..l PROVE Upcoming(f2, w)[p] = Upcoming(f, w)[n + p]
    <2>1. ~(p <= 0) /\ p - 0 = p /\ n + p \in 1..(n + l) /\ ~(n + p <= n) /\ (n + p) - n = p
      BY <1>1
    <2>2. Upcoming(f2, w)[p] = w[p]
      BY <1>2, <1>3, <2>1 DEF Upcoming
    <2> DEFINE q == n + p
    <2>3. q \in 1..(n + l) /\ ~(q <= n) /\ q - n = p
      BY <2>1
    <2> HIDE DEF q
    <2>4. Upcoming(f, w)[q] = w[p]
      BY <1>2, <2>3 DEF Upcoming
    <2> QED
      BY <2>2, <2>4 DEF q
  <1> QED
    BY <1>2, <1>3, <1>4 DEF PastFirst

----------------------------------------------------------------------------
(* What was sent lies in order in what is to be read, and what was found good is, in
   order, what was sent. *)
Orderly ==
    /\ sent \in Seq(Item) /\ got \in Seq(Frames)
    /\ \E start, end, data, at :
          /\ Placed(sent, Due(rf, wire), start, end, data)
          /\ Matches(sent, Upcoming(rf, wire), Due(rf, wire), start, end, data)
          /\ Found(sent, got, start, at)

LEMMA InitOrderly == Init => Orderly
  <1> SUFFICES ASSUME Init PROVE Orderly
    OBVIOUS
  <1> DEFINE none == [i \in 1..0 |-> 0]
  <1>1. sent \in Seq(Item) /\ got \in Seq(Frames) /\ Len(sent) = 0 /\ Len(got) = 0 /\ Len(wire) = 0
    BY EmptySeq DEF Init
  <1>2. Due(rf, wire) = 0
    <2>1. rf.len = 0
      BY DEF Init
    <2> QED
      BY <1>1, <2>1 DEF Due
  <1>3. none \in [1..0 -> Int] /\ none \in [1..0 -> 1..0]
    OBVIOUS
  <1> HIDE DEF none
  <1>4. Placed(sent, 0, none, none, none)
    BY <1>1, <1>3 DEF Placed
  <1>5. Matches(sent, Upcoming(rf, wire), 0, none, none, none)
    BY <1>1 DEF Matches
  <1>6. Found(sent, got, none, none)
    BY <1>1, <1>3 DEF Found
  <1> QED
    BY <1>1, <1>2, <1>4, <1>5, <1>6 DEF Orderly

LEMMA InvTypes ==
    ASSUME Inv
    PROVE  /\ rf \in RecvFrameType /\ wire \in Seq(Byte) /\ Due(rf, wire) \in Nat
           /\ rf.len \in Nat /\ rf.len <= Due(rf, wire)
  BY DueType DEF Inv, TypeOK

LEMMA SentOrderly ==
    ASSUME ShortFrames, "lost_end" \notin Noise, Inv, Orderly,
           NEW c \in Item, NEW b \in Arriving(c), Sent(c.frame, c.clean, b)
    PROVE  Orderly'
  <1>1. /\ rf \in RecvFrameType /\ wire \in Seq(Byte) /\ Due(rf, wire) \in Nat
    BY InvTypes
  <1>2. /\ sent' = Append(sent, c) /\ wire' = wire \o b /\ rf' = rf /\ got' = got
    <2>1. c = [frame |-> c.frame, clean |-> c.clean]
      BY DEF Item
    <2> QED
      BY <2>1 DEF Sent
  <1>3. b \in Seq(Byte)
    BY ItemFacts
  <1> DEFINE n == Due(rf, wire)
             v == wire \o b
             m == Due(rf, v)
             e == Len(sent) + 1
             x == Upcoming(rf, wire)
             y == Upcoming(rf, v)
  <1>4. m = n + Len(b) /\ SameUpTo(n, x, y) /\ Behind(n, b, y)
    BY <1>1, <1>3, SendAdds
  <1>5. sent \in Seq(Item) /\ got \in Seq(Frames)
    BY DEF Orderly
  <1>6. PICK start, end, data, at :
          /\ Placed(sent, n, start, end, data)
          /\ Matches(sent, x, n, start, end, data)
          /\ Found(sent, got, start, at)
    BY DEF Orderly
  <1>7. n \in Nat /\ e = Len(sent) + 1
    BY <1>1
  <1> DEFINE T == Append(sent, c)
             start2 == Added(start, e, n)
             end2   == Added(end, e, m)
             data2  == Added(data, e, b)
  <1> HIDE DEF n, m, x, y, e
  <1>8. Placed(T, m, start2, end2, data2) /\ Matches(T, y, m, start2, end2, data2)
    BY <1>4, <1>5, <1>6, <1>7, FrameMore
  <1>9. Found(T, got, start2, at)
    BY <1>5, <1>6, <1>7, FoundBefore
  <1>10. T \in Seq(Item)
    BY <1>5, AppendProperties
  <1> HIDE DEF T, start2, end2, data2
  <1>11. sent' = T /\ got' = got /\ Due(rf', wire') = m /\ Upcoming(rf', wire') = y
    BY <1>2 DEF T, m, y
  <1> QED
    BY <1>5, <1>8, <1>9, <1>10, <1>11 DEF Orderly

(* The same frames in the same bytes, with perhaps a zero more. *)
LEMMA ZeroOrderly ==
    ASSUME ShortFrames, "lost_end" \notin Noise, Inv, Orderly, UNCHANGED <<sent, got>>,
           Due(rf', wire') \in Nat, Due(rf, wire) <= Due(rf', wire'),
           SameUpTo(Due(rf, wire), Upcoming(rf, wire), Upcoming(rf', wire')),
           ZerosBehind(Due(rf, wire), Due(rf', wire'), Upcoming(rf', wire'))
    PROVE  Orderly'
  <1> DEFINE n == Due(rf, wire)
             m == Due(rf', wire')
             x == Upcoming(rf, wire)
             y == Upcoming(rf', wire')
  <1>1. n \in Nat /\ m \in Nat /\ n <= m /\ SameUpTo(n, x, y) /\ ZerosBehind(n, m, y)
    BY InvTypes
  <1>2. sent \in Seq(Item) /\ got \in Seq(Frames)
    BY DEF Orderly
  <1>3. PICK start, end, data, at :
          Placed(sent, n, start, end, data) /\ Matches(sent, x, n, start, end, data)
          /\ Found(sent, got, start, at)
    BY DEF Orderly
  <1> HIDE DEF n, m, x, y
  <1>4. Placed(sent, m, start, end, data) /\ Matches(sent, y, m, start, end, data)
    BY <1>1, <1>2, <1>3, ZeroMore
  <1>5. /\ Placed(sent', m, start, end, data) /\ Matches(sent', y, m, start, end, data)
        /\ Found(sent', got', start, at)
    BY <1>3, <1>4
  <1> QED
    BY <1>2, <1>5 DEF Orderly, m, y

LEMMA StrayOrderly ==
    ASSUME ShortFrames, "lost_end" \notin Noise, Inv, Orderly, Stray
    PROVE  Orderly'
  <1>1. rf \in RecvFrameType /\ wire \in Seq(Byte) /\ Due(rf, wire) \in Nat
    BY InvTypes
  <1> DEFINE z == <<0>>
             n == Due(rf, wire)
             x == Upcoming(rf, wire)
             m == Due(rf', wire')
             y == Upcoming(rf', wire')
             v == wire'
  <1>2. z \in Seq(Byte) /\ Len(z) = 1 /\ z[1] = 0
    BY DEF Byte
  <1>3. v = wire \o z /\ rf' = rf /\ UNCHANGED <<sent, got>>
    <2>1. Append(wire, 0) = wire \o <<0>>
      <3>1. 0 \in Byte
        BY DEF Byte
      <3> QED
        BY <1>1, <3>1, AppendIsConcat
    <2> QED
      BY <2>1 DEF Stray
  <1>4. m = Due(rf, wire \o z) /\ y = Upcoming(rf, wire \o z)
    BY <1>3
  <1> HIDE DEF z, v, m, y
  <1>5. m = n + Len(z) /\ SameUpTo(n, x, y) /\ Behind(n, z, y)
    BY <1>1, <1>2, <1>3, <1>4, SendAdds
  <1> HIDE DEF n, x
  <1>6. n \in Nat /\ m = n + 1
    BY <1>1, <1>2, <1>5 DEF n
  <1>7. y[n + 1] = 0
    <2>1. 1 \in 1..Len(z)
      BY <1>2
    <2> QED
      BY <1>2, <1>5, <2>1 DEF Behind
  <1>8. m \in Nat /\ n <= m /\ ZerosBehind(n, m, y)
    <2>1. \A p \in 1..m : p > n => p = n + 1
      BY ONLY <1>6
    <2> QED
      BY ONLY <1>6, <1>7, <2>1 DEF ZerosBehind
  <1> QED
    BY <1>3, <1>5, <1>8, ZeroOrderly DEF n, m, y, x

LEMMA FillOrderly ==
    ASSUME ShortFrames, "lost_end" \notin Noise, Inv, Orderly, NEW k \in Chunks, Fill(k)
    PROVE  Orderly'
  <1>1. rf \in RecvFrameType /\ wire \in Seq(Byte) /\ Due(rf, wire) \in Nat
    BY InvTypes
  <1> DEFINE o == Min({k, Len(wire)})
             src == Offer(k)
  <1>2. o \in Nat /\ o <= Len(wire)
    <2>1. {k, Len(wire)} \subseteq Nat /\ {k, Len(wire)} # {}
      BY <1>1, ChunksAssumption, LenProperties
    <2> QED
      BY <2>1, MinOfNats
  <1> HIDE DEF o
  <1>3. src = SubSeq(wire, 1, o)
    BY DEF Offer, o
  <1> DEFINE f2 == RecvFrameFill(rf, src)
             w2 == SubSeq(wire, 1 + FillCount(rf, src), Len(wire))
  <1>4. rf' = f2 /\ wire' = w2 /\ UNCHANGED <<sent, got>>
    BY DEF Fill
  <1> HIDE DEF src
  <1>8. Due(f2, w2) = Due(rf, wire) /\ SameUpTo(Due(rf, wire), Upcoming(rf, wire), Upcoming(f2, w2))
    BY <1>1, <1>2, <1>3, FillMoves
  <1> HIDE DEF f2, w2
  <1> DEFINE v == wire'
             g == rf'
  <1>5. Due(g, v) = Due(rf, wire) /\ SameUpTo(Due(rf, wire), Upcoming(rf, wire), Upcoming(g, v))
    BY <1>4, <1>8
  <1> DEFINE n == Due(rf, wire)
             y == Upcoming(g, v)
  <1>6. n \in Nat /\ Due(g, v) = n
    BY <1>1, <1>5
  <1> HIDE DEF n, y
  <1>7. n <= n /\ ZerosBehind(n, n, y)
    BY <1>6 DEF ZerosBehind
  <1> QED
    BY <1>4, <1>5, <1>6, <1>7, ZeroOrderly DEF n, y, g, v

----------------------------------------------------------------------------
(* Reading the frame in front *)

Read(out, r) ==
    IF r.result = "SUCCESS" THEN Append(out, [hdr |-> r.hdr, seg |-> r.seg]) ELSE out

LEMMA LoweredFacts ==
    ASSUME ShortFrames, "lost_end" \notin Noise,
           NEW S \in Seq(Item), NEW n, NEW start, NEW end, NEW data,
           Placed(S, n, start, end, data), NEW k \in Nat, NEW i \in 1..Len(S)
    PROVE  /\ start[i] \in Int /\ Lowered(start, Len(S), k)[i] \in Int
           /\ Lowered(start, Len(S), k)[i] = start[i] - k
           /\ Lowered(start, Len(S), k)[i] <= start[i]
           /\ FrameSize(S[i]) \in Nat
  <1>1. start[i] \in Int /\ FrameSize(S[i]) \in Nat
    BY PlacedFacts
  <1>2. Lowered(start, Len(S), k)[i] = start[i] - k
    BY DEF Lowered
  <1> QED
    BY <1>1, <1>2

(* A zero between two frames is read. *)
LEMMA ReadZero ==
    ASSUME ShortFrames, "lost_end" \notin Noise,
           NEW S \in Seq(Item), NEW out, NEW n \in Nat, NEW x,
           NEW start, NEW end, NEW data, NEW at,
           Placed(S, n, start, end, data), Matches(S, x, n, start, end, data),
           Found(S, out, start, at),
           1 \in 1..n, \A i \in 1..Len(S) : end[i] <= 0 \/ start[i] >= 1,
           NEW y, PastFirst(1, n, x, y), NEW m, m = n - 1
    PROVE  /\ Placed(S, m, Lowered(start, Len(S), 1), Lowered(end, Len(S), 1), data)
           /\ Matches(S, y, m, Lowered(start, Len(S), 1), Lowered(end, Len(S), 1), data)
           /\ Found(S, out, Lowered(start, Len(S), 1), at)
  <1>1. ASSUME NEW i \in 1..Len(S)
        PROVE  /\ end[i] <= 1 \/ start[i] >= 1
               /\ Lowered(start, Len(S), 1)[i] < 0 => start[i] < 0
    <2>1. start[i] \in Int /\ end[i] \in Int /\ start[i] < end[i]
      BY PlacedFacts
    <2>2. Lowered(start, Len(S), 1)[i] = start[i] - 1
      BY LoweredFacts
    <2>3. end[i] <= 0 \/ start[i] >= 1
      OBVIOUS
    <2> QED
      BY ONLY <2>1, <2>2, <2>3
  <1> DEFINE one == 1
  <1>2. /\ one \in 1..n /\ one \in Nat /\ PastFirst(one, n, x, y) /\ m = n - one
        /\ \A i \in 1..Len(S) :
              end[i] <= one \/ start[i] >= one \/ data[i][one - start[i]] = 0
        /\ \A i \in 1..Len(S) : Lowered(start, Len(S), one)[i] < 0 => start[i] < 0
    BY <1>1
  <1> HIDE DEF one
  <1>3. /\ Placed(S, m, Lowered(start, Len(S), one), Lowered(end, Len(S), one), data)
        /\ Matches(S, y, m, Lowered(start, Len(S), one), Lowered(end, Len(S), one), data)
    BY <1>2, ReadOn
  <1>4. Found(S, out, Lowered(start, Len(S), one), at)
    BY <1>2, LoweredFacts, FoundSame
  <1> QED
    BY <1>3, <1>4 DEF one

(* Where the frames are when the first k bytes, that frame i lies in, are read. *)
LEMMA ReadPart ==
    ASSUME ShortFrames, "lost_end" \notin Noise,
           NEW S \in Seq(Item), NEW n \in Nat, NEW start, NEW end, NEW data,
           Placed(S, n, start, end, data), NEW i \in 1..Len(S), NEW k \in Nat,
           start[i] <= 0, k <= end[i], data[i][k - start[i]] = 0, NEW j \in 1..Len(S)
    PROVE  /\ end[j] <= k \/ start[j] >= k \/ data[j][k - start[j]] = 0
           /\ j # i /\ Lowered(start, Len(S), k)[j] < 0 => start[j] < 0
  <1>1. /\ start[i] \in Int /\ end[i] \in Int /\ start[i] < end[i]
        /\ start[j] \in Int /\ end[j] \in Int /\ start[j] < end[j]
    BY PlacedFacts
  <1>2. i < j => end[i] <= start[j]
    BY PlacedOrder
  <1>3. j < i => end[j] <= start[i]
    BY PlacedOrder
  <1>4. Lowered(start, Len(S), k)[j] = start[j] - k
    BY DEF Lowered
  <1>5. i \in Int /\ j \in Int
    OBVIOUS
  <1>6. CASE j = i
    BY <1>6
  <1>7. CASE j < i
    BY <1>1, <1>3, <1>7
  <1>8. CASE i < j
    <2>1. start[j] >= k
      BY <1>1, <1>2, <1>8
    <2> QED
      BY <1>1, <1>4, <2>1
  <1> QED
    BY <1>5, <1>6, <1>7, <1>8

(* No frame is found twice: of one that was found, too little is left. *)
LEMMA FoundOnce ==
    ASSUME ShortFrames, "lost_end" \notin Noise,
           NEW S \in Seq(Item), NEW out, NEW n, NEW start, NEW end, NEW data, NEW at,
           Placed(S, n, start, end, data), Found(S, out, start, at),
           NEW i \in 1..Len(S), NEW k \in Nat, k <= end[i], k >= FrameSize(S[i]),
           NEW j \in 1..Len(out)
    PROVE  at[j] < i
  <1> DEFINE h == at[j]
  <1>1. h \in 1..Len(S) /\ 0 - start[h] >= FrameSize(S[h])
    BY DEF Found
  <1> HIDE DEF h
  <1>2. start[h] \in Int /\ FrameSize(S[h]) \in Nat /\ FrameSize(S[h]) >= 18
    BY <1>1, PlacedFacts
  <1>3. /\ start[i] \in Int /\ end[i] \in Int /\ FrameSize(S[i]) \in Nat
        /\ FrameSize(S[i]) >= 18 /\ end[i] - start[i] <= FrameSize(S[i]) + 1
    BY PlacedFacts
  <1>4. h <= i
    <2>1. start[h] < end[i]
      BY <1>1, <1>2, <1>3, SMTT(30)
    <2> QED
      BY <1>1, <2>1, PlacedOrder
  <1>5. h # i
    <2> SUFFICES ASSUME h = i PROVE FALSE
      OBVIOUS
    <2>1. 0 - start[i] >= FrameSize(S[i])
      BY <1>1
    <2> QED
      BY ONLY <1>3, <2>1, k \in Nat, k <= end[i], k >= FrameSize(S[i])
  <1>6. h \in Int /\ i \in Int
    BY <1>1
  <1> QED
    BY <1>4, <1>5, <1>6 DEF h

LEMMA ReadFront ==
    ASSUME ShortFrames, "lost_end" \notin Noise, NoiseDetected,
           NEW S \in Seq(Item), NEW out \in Seq(Frames), NEW n \in Nat, NEW x,
           NEW start, NEW end, NEW data, NEW at,
           Placed(S, n, start, end, data), Matches(S, x, n, start, end, data),
           Found(S, out, start, at),
           NEW buf \in Buffers, NEW k \in 1..Cap, k <= n, SameUpTo(k, x, buf), FirstZero(k, buf),
           NEW y, PastFirst(k, n, x, y), NEW m, m = n - k
    PROVE  /\ Read(out, FrameRead(buf, k)) \in Seq(Frames)
           /\ Placed(S, m, Lowered(start, Len(S), k), Lowered(end, Len(S), k), data)
           /\ Matches(S, y, m, Lowered(start, Len(S), k), Lowered(end, Len(S), k), data)
           /\ \E at2 : Found(S, Read(out, FrameRead(buf, k)), Lowered(start, Len(S), k), at2)
  <1> DEFINE r == FrameRead(buf, k)
             start2 == Lowered(start, Len(S), k)
             end2   == Lowered(end, Len(S), k)
  <1>1. k \in 1..n /\ k \in Nat /\ k >= 1 /\ k \in 1..k
    BY CapFacts
  <1>0. buf[k] = 0 /\ \A p \in 1..(k - 1) : buf[p] # 0
    BY DEF FirstZero
  <1>2. \A p \in 1..(k - 1) : x[p] # 0
    <2>1. \A p \in 1..(k - 1) : p \in 1..k
      BY <1>1
    <2> QED
      BY <1>0, <2>1 DEF SameUpTo
  <1>3. x[k] = 0
    BY <1>0, <1>1 DEF SameUpTo
  <1>4. CASE k = 1 /\ \A i \in 1..Len(S) : end[i] <= 0 \/ start[i] >= 1
    <2>1. /\ Placed(S, m, start2, end2, data) /\ Matches(S, y, m, start2, end2, data)
          /\ Found(S, out, start2, at)
      <3>1. 1 \in 1..n /\ PastFirst(1, n, x, y) /\ m = n - 1
        BY <1>1, <1>4
      <3>2. /\ Placed(S, m, Lowered(start, Len(S), 1), Lowered(end, Len(S), 1), data)
            /\ Matches(S, y, m, Lowered(start, Len(S), 1), Lowered(end, Len(S), 1), data)
            /\ Found(S, out, Lowered(start, Len(S), 1), at)
        BY <1>4, <3>1, ReadZero
      <3> QED
        BY <1>4, <3>2
    <2>2. r.result # "SUCCESS"
      <3> SUFFICES ASSUME r.result = "SUCCESS" PROVE FALSE
        OBVIOUS
      <3> DEFINE d == CobsDecode(buf, k)
                 l == HdrOf(d).seg_len
      <3>1. d \in Buffers /\ r = ReadDecoded(d, k)
        BY <1>1, DecodedType DEF FrameRead
      <3> HIDE DEF d, r
      <3>2. FrameLen(l) <= k /\ l \in 0..255
        BY <1>1, <3>1, ReadFits, HdrOfSegLen DEF Byte
      <3> HIDE DEF l
      <3>3. FrameLen(l) = 18 + l
        BY <3>2 DEF FrameLen, CobsOverhead, HeaderSize
      <3> QED
        BY <1>4, <3>2, <3>3
    <2>3. Read(out, r) = out
      BY <2>2 DEF Read
    <2> HIDE DEF r, start2, end2
    <2> QED
      BY <2>1, <2>3 DEF r, start2, end2
  <1>5. CASE \E i \in 1..Len(S) :
                /\ start[i] <= 0 /\ k <= end[i]
                /\ \A p \in 1..k : x[p] = data[i][p - start[i]]
                /\ start[i] = 0 \/ data[i][0 - start[i]] = 0
    <2>1. PICK i \in 1..Len(S) :
                /\ start[i] <= 0 /\ k <= end[i]
                /\ \A p \in 1..k : x[p] = data[i][p - start[i]]
                /\ start[i] = 0 \/ data[i][0 - start[i]] = 0
      BY <1>5
    <2> DEFINE a == start[i]
               s == data[i]
               c == S[i]
    <2>2. /\ c \in Item /\ s \in Arriving(c) /\ a \in Int /\ end[i] - a = Len(s)
          /\ end[i] \in Int /\ FrameSize(c) \in Nat
      BY PlacedFacts
    <2>3. k <= a + Len(s)
      <3>1. end[i] = a + Len(s)
        BY DEF Placed
      <3> QED
        BY <2>1, <3>1
    <2>4. \A p \in 1..k : buf[p] = s[p - a]
      BY <2>1 DEF SameUpTo
    <2>5. s[k - a] = 0
      BY <1>0, <1>1, <2>4
    <2>6. a <= 0 /\ (a = 0 \/ s[0 - a] = 0)
      BY <2>1
    <2> HIDE DEF a, s, c
    <2>7. /\ r.result = "SUCCESS" =>
                [hdr |-> r.hdr, seg |-> r.seg] = c.frame /\ k >= FrameSize(c)
          /\ c.clean => r.result = "SUCCESS"
      BY <2>2, <2>3, <2>4, <2>6, FrontRead
    <2> HIDE DEF r
    <2>8. ASSUME NEW j \in 1..Len(S)
          PROVE  /\ end[j] <= k \/ start[j] >= k \/ data[j][k - start[j]] = 0
                 /\ j # i /\ start2[j] < 0 => start[j] < 0
      <3>1. /\ start[i] <= 0 /\ k <= end[i] /\ data[i][k - start[i]] = 0
            /\ S \in Seq(Item) /\ n \in Nat /\ Placed(S, n, start, end, data)
            /\ i \in 1..Len(S) /\ j \in 1..Len(S)
        BY <2>1, <2>5 DEF a, s
      <3>2. end[j] <= k \/ start[j] >= k \/ data[j][k - start[j]] = 0
        BY <1>1, <3>1, ReadPart
      <3>3. j # i /\ Lowered(start, Len(S), k)[j] < 0 => start[j] < 0
        BY ONLY <1>1, <3>1, ShortFrames, "lost_end" \notin Noise, ReadPart
      <3> QED
        BY <3>2, <3>3
    <2>9. Placed(S, m, start2, end2, data) /\ Matches(S, y, m, start2, end2, data)
      <3>1. \A j \in 1..Len(S) : end[j] <= k \/ start[j] >= k \/ data[j][k - start[j]] = 0
        BY <2>8
      <3> QED
        BY <1>1, <3>1, ReadOn
    <2>10. \A j \in 1..Len(S) :
              /\ start[j] \in Int /\ start2[j] \in Int /\ start2[j] <= start[j]
              /\ FrameSize(S[j]) \in Nat
      BY <1>1, LoweredFacts
    <2>11. c.frame \in Frames
      BY <2>2 DEF Item
    <2>12. CASE r.result = "SUCCESS"
      <3> DEFINE e == Len(out) + 1
      <3>1. Read(out, r) = Append(out, c.frame) /\ k >= FrameSize(c)
        BY <2>7, <2>12 DEF Read
      <3>2. \A j \in 1..Len(out) : at[j] < i
        <4>1. k <= end[i] /\ k >= FrameSize(S[i])
          BY <2>1, <3>1 DEF c
        <4> QED
          BY <1>1, <4>1, FoundOnce
      <3>3. 0 - start2[i] >= FrameSize(S[i])
        <4>1. start2[i] = a - k /\ FrameSize(S[i]) = FrameSize(c)
          BY <1>1, LoweredFacts DEF a, c
        <4> QED
          BY <1>1, <2>2, <2>6, <3>1, <4>1
      <3>4. Found(S, Append(out, S[i].frame), start2, Added(at, e, i))
        <4>1. /\ S[i].frame \in Frames /\ e = Len(out) + 1
              /\ \A j \in 1..Len(S) :
                    /\ start[j] \in Int /\ start2[j] \in Int /\ start2[j] <= start[j]
                    /\ FrameSize(S[j]) \in Nat
                    /\ j # i /\ S[j].clean /\ start2[j] < 0 => start[j] < 0
          BY <2>8, <2>10, <2>11 DEF c
        <4> HIDE DEF start2, e
        <4> QED
          BY <3>2, <3>3, <4>1, FoundNext
      <3>5. Append(out, c.frame) \in Seq(Frames)
        BY <2>11, AppendProperties
      <3> HIDE DEF start2, end2, e
      <3> QED
        BY <2>9, <3>1, <3>4, <3>5 DEF r, start2, end2, c
    <2>13. CASE r.result # "SUCCESS"
      <3>1. Read(out, r) = out
        BY <2>13 DEF Read
      <3>2. ~S[i].clean
        BY <2>7, <2>13 DEF c
      <3>3. Found(S, out, start2, at)
        <4>1. \A j \in 1..Len(S) :
                 /\ start[j] \in Int /\ start2[j] \in Int /\ start2[j] <= start[j]
                 /\ FrameSize(S[j]) \in Nat
                 /\ S[j].clean /\ start2[j] < 0 => start[j] < 0
          BY <2>8, <2>10, <3>2
        <4> HIDE DEF start2
        <4> QED
          BY <4>1, FoundSame
      <3> HIDE DEF start2, end2
      <3> QED
        BY <2>9, <3>1, <3>3 DEF r, start2, end2
    <2> QED
      BY <2>12, <2>13
  <1>6. \/ k = 1 /\ \A i \in 1..Len(S) : end[i] <= 0 \/ start[i] >= 1
        \/ \E i \in 1..Len(S) :
              /\ start[i] <= 0 /\ k <= end[i]
              /\ \A p \in 1..k : x[p] = data[i][p - start[i]]
              /\ start[i] = 0 \/ data[i][0 - start[i]] = 0
    BY <1>1, <1>2, <1>3, FrontItem
  <1> HIDE DEF r, start2, end2
  <1> QED
    BY <1>4, <1>5, <1>6 DEF r, start2, end2

(* arq__frame_read of what arq__recv_frame_fill stopped at. *)
LEMMA PollOrderly ==
    ASSUME ShortFrames, "lost_end" \notin Noise, NoiseDetected, Inv, Orderly, Poll
    PROVE  Orderly'
  <1>1. /\ rf \in RecvFrameType /\ wire \in Seq(Byte) /\ Due(rf, wire) \in Nat
        /\ rf.len \in Nat /\ rf.len <= Due(rf, wire)
    BY InvTypes
  <1>2. CASE rf.state # "FULL"
    <2>1. UNCHANGED <<rf, got, sent, wire>>
      BY <1>2 DEF Poll
    <2> QED
      BY <2>1 DEF Orderly
  <1>3. CASE rf.state = "FULL"
    <2> DEFINE k == rf.len
               buf == rf.buf
               n == Due(rf, wire)
               x == Upcoming(rf, wire)
               m == n - k
               y == Upcoming(rf', wire)
               r == FrameRead(buf, k)
    <2>1. /\ rf' = RecvFrameRst([rf EXCEPT !.buf = r.buf]) /\ got' = Read(got, r)
          /\ sent' = sent /\ wire' = wire
      BY <1>3 DEF Poll, Received, Read
    <2>2. rf'.len = 0
      <3>1. [rf EXCEPT !.buf = r.buf] \in [buf : {r.buf}, len : 0..Cap, state : {"ACCUMULATING", "FULL"}]
        <4> HIDE DEF r
        <4> QED
          BY <1>1 DEF RecvFrameType
      <3> QED
        BY <2>1, <3>1 DEF RecvFrameRst
    <2>3. buf \in Buffers /\ k \in 1..Cap /\ k <= n
          /\ FirstZero(k, buf)
      <3>1. buf \in Buffers /\ k \in 0..Cap
        BY <1>1 DEF RecvFrameType, Buffers
      <3>2. k > 0 /\ buf[k] = 0 /\ \A p \in 1..(k - 1) : buf[p] # 0
        BY <1>3 DEF Inv, OnlyLastByteZero
      <3>3. k \in 1..Cap
        BY <1>1, <3>1, <3>2, CapFacts
      <3> QED
        BY <1>1, <3>1, <3>2, <3>3 DEF FirstZero
    <2>4. SameUpTo(k, x, buf)
      <3>1. \A p \in 1..k : p \in 1..n /\ p <= k
        BY <1>1
      <3> QED
        BY <3>1 DEF SameUpTo, Upcoming
    <2>5. Due(rf', wire) = m /\ PastFirst(k, n, x, y)
      <3> DEFINE g == rf'
      <3>1. g.len = 0
        BY <2>2
      <3> HIDE DEF g
      <3>2. Due(g, wire) = Due(rf, wire) - rf.len
            /\ PastFirst(rf.len, Due(rf, wire), Upcoming(rf, wire), Upcoming(g, wire))
        BY <1>1, <3>1, RstDrops
      <3> QED
        BY <3>2 DEF g
    <2>6. sent \in Seq(Item) /\ got \in Seq(Frames)
      BY DEF Orderly
    <2>7. PICK start, end, data, at :
            /\ Placed(sent, n, start, end, data) /\ Matches(sent, x, n, start, end, data)
            /\ Found(sent, got, start, at)
      BY DEF Orderly
    <2>8. n \in Nat /\ m = n - k
      BY <1>1
    <2> HIDE DEF k, buf, n, x, m, y
    <2> DEFINE out2   == Read(got, r)
               start2 == Lowered(start, Len(sent), k)
               end2   == Lowered(end, Len(sent), k)
    <2>9. /\ out2 \in Seq(Frames)
          /\ Placed(sent, m, start2, end2, data) /\ Matches(sent, y, m, start2, end2, data)
          /\ \E at2 : Found(sent, out2, start2, at2)
      BY <2>3, <2>4, <2>5, <2>6, <2>7, <2>8, ReadFront
    <2> HIDE DEF out2, start2, end2
    <2>10. PICK at2 : Found(sent, out2, start2, at2)
      BY <2>9
    <2>11. got' = out2 /\ sent' = sent /\ Due(rf', wire') = m /\ Upcoming(rf', wire') = y
      <3>1. got' = out2 /\ sent' = sent /\ wire' = wire
        BY <2>1 DEF out2
      <3>2. Upcoming(rf', wire) = y
        BY DEF y
      <3> QED
        BY <2>5, <3>1, <3>2
    <2> QED
      BY <2>6, <2>9, <2>10, <2>11 DEF Orderly
  <1> QED
    BY <1>2, <1>3

LEMMA NextOrderly ==
    ASSUME ShortFrames, "lost_end" \notin Noise, NoiseDetected
    PROVE  Inv /\ Orderly /\ [Next]_vars => Orderly'
  <1> SUFFICES ASSUME Inv, Orderly, [Next]_vars PROVE Orderly'
    OBVIOUS
  <1>1. ASSUME NEW f \in Frames, Send(f) PROVE Orderly'
    <2> DEFINE c == [frame |-> f, clean |-> TRUE]
    <2>1. c \in Item /\ Encoded[f] \in Arriving(c) /\ Sent(c.frame, c.clean, Encoded[f])
      BY <1>1 DEF Item, Arriving, Send
    <2> HIDE DEF c
    <2> QED
      BY <2>1, SentOrderly
  <1>2. ASSUME NEW f \in Frames, SendDamaged(f) PROVE Orderly'
    <2> DEFINE c == [frame |-> f, clean |-> FALSE]
    <2>1. PICK b \in Damaged(Encoded[f]) : Sent(f, FALSE, b)
      BY <1>2 DEF SendDamaged
    <2>2. c \in Item /\ b \in Arriving(c) /\ Sent(c.frame, c.clean, b)
      BY <2>1 DEF Item, Arriving
    <2> HIDE DEF c
    <2> QED
      BY <2>2, SentOrderly
  <1>3. ASSUME UNCHANGED vars PROVE Orderly'
    BY <1>3 DEF vars, Orderly
  <1> QED
    BY <1>1, <1>2, <1>3, StrayOrderly, FillOrderly, PollOrderly DEF Next, FillAny

----------------------------------------------------------------------------
(* Whole frames *)

LEMMA OrderlyCarries ==
    ASSUME ShortFrames, "lost_end" \notin Noise,
           NEW S \in Seq(Item), NEW out, NEW n, NEW start, NEW end, NEW data, NEW at,
           Placed(S, n, start, end, data), Found(S, out, start, at)
    PROVE  Channel!CarriedBy(S, out)
  <1>3. /\ at \in [1..Len(out) -> 1..Len(S)]
        /\ \A i, j \in 1..Len(out) : i < j => at[i] < at[j]
        /\ \A j \in 1..Len(out) : out[j] = S[at[j]].frame
    BY DEF Found
  <1>4. ASSUME NEW k \in 1..Len(S), NEW j \in 1..Len(out), S[k].clean, k <= at[j]
        PROVE  \E i \in 1..Len(out) : at[i] = k
    <2> DEFINE h == at[j]
    <2>1. h \in 1..Len(S) /\ 0 - start[h] >= FrameSize(S[h]) /\ k <= h
      BY <1>4 DEF Found
    <2> HIDE DEF h
    <2>2. /\ start[h] \in Int /\ FrameSize(S[h]) \in Nat /\ FrameSize(S[h]) >= 18
          /\ start[k] \in Int /\ end[k] \in Int /\ start[k] < end[k]
      BY <2>1, PlacedFacts
    <2>3. k < h => end[k] <= start[h]
      BY <2>1, PlacedOrder
    <2>4. k < h \/ k = h
      BY <2>1
    <2>5. start[k] < 0
      <3>1. CASE k = h
        BY ONLY <2>1, <2>2, <3>1
      <3>2. CASE k < h
        BY ONLY <2>1, <2>2, <2>3, <3>2
      <3> QED
        BY <2>4, <3>1, <3>2
    <2> QED
      BY <1>4, <2>5 DEF Found
  <1> QED
    BY <1>3, <1>4 DEF Channel!CarriedBy

LEMMA NextCarries ==
    ASSUME ShortFrames, "lost_end" \notin Noise
    PROVE  Inv /\ Orderly /\ Orderly' /\ [Next]_vars => [Channel!Next]_(Channel!vars)
  <1> SUFFICES ASSUME Inv, Orderly, Orderly', [Next]_vars
               PROVE  Channel!Next \/ UNCHANGED Channel!vars
    OBVIOUS
  <1>1. ASSUME NEW f \in Frames, NEW c \in BOOLEAN, NEW b, Sent(f, c, b) PROVE Channel!Send
    BY <1>1 DEF Sent, Channel!Send
  <1>2. ASSUME NEW f \in Frames, Send(f) \/ SendDamaged(f) PROVE Channel!Next
    BY <1>1, <1>2 DEF Send, SendDamaged, Channel!Next
  <1>3. ASSUME Stray \/ (\E n \in Chunks : Fill(n)) \/ UNCHANGED vars
        PROVE  UNCHANGED Channel!vars
    BY <1>3 DEF Stray, Fill, vars, Channel!vars
  <1>4. ASSUME Poll PROVE Channel!Next \/ UNCHANGED Channel!vars
    <2>1. sent' = sent
      BY <1>4 DEF Poll
    <2>2. CASE got' = got
      BY <2>1, <2>2 DEF Channel!vars
    <2>3. CASE got' # got
      <3>1. PICK f : got' = Append(got, f)
        BY <1>4, <2>3 DEF Poll, Received
      <3>2. f \in Frames
        <4>1. got' \in Seq(Frames) /\ got \in Seq(Frames)
          BY DEF Orderly
        <4> DEFINE e == Len(got) + 1
        <4>2. Len(got') = e /\ e \in 1..e /\ got'[e] = f
          BY <3>1, <4>1
        <4> HIDE DEF e
        <4>3. got'[e] \in Frames
          BY <4>1, <4>2, ElementOfSeq
        <4> QED
          BY <4>2, <4>3
      <3>3. Channel!CarriedBy(sent', got')
        <4>1. PICK start, end, data, at :
                /\ Placed(sent', Due(rf', wire'), start, end, data)
                /\ Found(sent', got', start, at)
          BY DEF Orderly
        <4>2. sent' \in Seq(Item)
          BY DEF Orderly
        <4> QED
          BY <4>1, <4>2, OrderlyCarries
      <3> QED
        BY <2>1, <3>1, <3>2, <3>3 DEF Channel!Next, Channel!Deliver
    <2> QED
      BY <2>2, <2>3
  <1> QED
    BY <1>2, <1>3, <1>4 DEF Next, FillAny

(* The framing implements the channel of whole frames that FrameChannel promises: every
   frame that arq__recv_poll finds good is one that was sent, in the order of sending,
   none twice, and none that noise left alone is passed over, for every checksum,
   segment length, number of frames and division of the bytes into pieces.  It needs
   frames that arq__cobs_encode can cope with, a checksum that detects what noise
   does to them, and noise that does not join two frames by taking the zero
   between them. *)
THEOREM CarriesFramesCorrect ==
    ASSUME ShortFrames, NoiseDetected, "lost_end" \notin Noise
    PROVE  Spec => CarriesFrames
  <1>1. Init => Channel!Init
    BY DEF Init, Channel!Init
  <1>2. Inv /\ Orderly /\ [Next]_vars => Orderly'
    BY NextOrderly
  <1>3. Inv /\ Orderly /\ Orderly' /\ [Next]_vars => [Channel!Next]_(Channel!vars)
    BY NextCarries
  <1> QED
    BY <1>1, <1>2, <1>3, InitOrderly, InvCorrect, PTL DEF Spec, CarriesFrames, Channel!Safe
=============================================================================

------------------------------- MODULE Frame --------------------------------
(***************************************************************************)
(* A frame as the bytes that travel: header packing, checksum footer,      *)
(* COBS coding and the buffer frames are received in.                      *)
(*                                                                         *)
(* A byte is a number below 256 and a block of bytes a sequence of them,   *)
(* byte p of the C code being element p + 1.  A checksum is the sequence   *)
(* of its four bytes, most significant first: that is the order            *)
(* arq__hton32 puts them in whatever the byte order of the CPU.            *)
(***************************************************************************)
EXTENDS FrameSizes, Sequences, FiniteSetsExt

CONSTANT Checksum(_)   \* cfg.checksum

Byte == 0..255

Bits12 == 0..4095

(* arq__frame_hdr_t, each field as wide as its place in the frame. *)
HdrType ==
    [version : Byte, seg_len : Byte, win_size : Byte, seq_num : Bits12,
     msg_len : Byte, seg_id : Bits12, ack_num : Bits12, cur_ack_vec : Bits12,
     rst : BOOLEAN, fin : BOOLEAN, ack : BOOLEAN, seg : BOOLEAN]

(* arq__frame_hdr_init *)
HdrInit ==
    [version |-> 0, seg_len |-> 0, win_size |-> 0, seq_num |-> 0,
     msg_len |-> 0, seg_id |-> 0, ack_num |-> 0, cur_ack_vec |-> 0,
     rst |-> FALSE, fin |-> FALSE, ack |-> FALSE, seg |-> FALSE]

Bit(b) == IF b THEN 1 ELSE 0

Flags(h) == Bit(h.fin) + 2 * Bit(h.rst) + 4 * Bit(h.ack) + 8 * Bit(h.seg)

(* arq__frame_hdr_write: three pairs of 12 bit numbers, of which msg_len only
   uses 8 bits and half of the second pair is empty. *)
FrameHdrWrite(h) ==
    <<h.version, h.seg_len % 256, Flags(h), h.win_size,
      h.seq_num \div 16, 16 * (h.seq_num % 16) + h.msg_len \div 16,
      16 * (h.msg_len % 16) + h.seg_id \div 256, h.seg_id % 256,
      h.ack_num \div 16, 16 * (h.ack_num % 16),
      h.cur_ack_vec \div 256, h.cur_ack_vec % 256>>

(* arq__frame_hdr_read; b[1] is the first byte of the header. *)
FrameHdrRead(b) ==
    [version |-> b[1], seg_len |-> b[2],
     fin |-> b[3] % 2 = 1, rst |-> (b[3] \div 2) % 2 = 1,
     ack |-> (b[3] \div 4) % 2 = 1, seg |-> (b[3] \div 8) % 2 = 1,
     win_size |-> b[4],
     seq_num |-> 16 * b[5] + b[6] \div 16,
     msg_len |-> 16 * (b[6] % 16) + b[7] \div 16,
     seg_id |-> 256 * (b[7] % 16) + b[8],
     ack_num |-> 16 * b[9] + b[10] \div 16,
     cur_ack_vec |-> 256 * (b[11] % 16) + b[12]]

----------------------------------------------------------------------------
(* COBS *)

(* arq__cobs_encode: the first byte and every zero become the distance to the
   next zero, an 8 bit number; the last byte becomes the terminator. *)
CobsEncode(f) ==
    LET n     == Len(f)
        stops == {1, n} \cup {i \in 2..(n - 1) : f[i] = 0}
    IN [i \in 1..n |->
          IF i = n THEN 0
          ELSE IF i \in stops THEN (Min({j \in stops : j > i}) - i) % 256
          ELSE f[i]]

(* The bytes arq__cobs_decode visits in the first n of buf. *)
CobsChain(buf, n) ==
    LET from[c \in Nat \ {0}] == IF c >= n THEN {} ELSE {c} \cup from[c + buf[c]]
    IN from[1]

(* arq__cobs_decode: in place, and only in the first n bytes of the buffer. *)
CobsDecode(buf, n) ==
    LET codes == CobsChain(buf, n)
    IN [i \in 1..Len(buf) |-> IF i \in codes THEN 0 ELSE buf[i]]

----------------------------------------------------------------------------
(* Header, segment and checksum, between the byte COBS needs and the one that
   becomes the terminator. *)
Body(h, seg) == FrameHdrWrite(h) \o seg

(* arq__frame_write with arq__frame_seg_write and arq__frame_checksum_write *)
FrameWrite(h, seg) ==
    CobsEncode(<<0>> \o Body(h, seg) \o Checksum(Body(h, seg)) \o <<0>>)

(* What a decoded buffer holds, whether the checksum is right or not. *)
HdrOf(d) == FrameHdrRead(SubSeq(d, 2, 1 + HeaderSize))

SegOf(d, seg_len) == SubSeq(d, 2 + HeaderSize, 1 + HeaderSize + seg_len)

FooterOf(d, seg_len) == SubSeq(d, 2 + HeaderSize + seg_len, 5 + HeaderSize + seg_len)

(* Defect: a frame as long as its header says counts as too short. *)
ChecksumReadStrictly(d, n, seg_len) ==
    IF FrameLen(seg_len) >= n THEN "ERR_MALFORMED"
    ELSE IF FooterOf(d, seg_len) # Checksum(SubSeq(d, 2, 1 + HeaderSize + seg_len))
    THEN "ERR_CHECKSUM" ELSE "SUCCESS"

(* arq__frame_checksum_read *)
ChecksumRead(d, n, seg_len) ==
    IF FrameLen(seg_len) > n THEN "ERR_MALFORMED"
    ELSE IF FooterOf(d, seg_len) # Checksum(SubSeq(d, 2, 1 + HeaderSize + seg_len))
    THEN "ERR_CHECKSUM" ELSE "SUCCESS"

(* The header is read out of the decoded buffer d before anything is checked;
   seg points into d. *)
ReadDecoded(d, n) ==
    LET h == HdrOf(d)
        r == ChecksumRead(d, n, h.seg_len)
    IN [buf |-> d, result |-> r, hdr |-> h,
        seg |-> IF r = "SUCCESS" THEN SegOf(d, h.seg_len) ELSE <<>>]

(* arq__frame_read of the first n bytes of buf, which it decodes in place. *)
FrameRead(buf, n) == ReadDecoded(CobsDecode(buf, n), n)
----------------------------------------------------------------------------
(* The buffer bytes are accumulated in until a frame is complete:
   arq__recv_frame_t, whose capacity is the length of buf. *)

(* Defect: the frame still counts as present. *)
RecvFrameRstStays(rf) == [rf EXCEPT !.len = 0]

(* arq__recv_frame_rst, which leaves the bytes where they are. *)
RecvFrameRst(rf) == [rf EXCEPT !.len = 0, !.state = "ACCUMULATING"]

(* Defect: bytes after the end of the frame are taken as well. *)
FillCountGreedy(rf, src) ==
    IF rf.state = "FULL" THEN 0
    ELSE Min({Len(src), Len(rf.buf) - rf.len})

(* How many bytes of src arq__recv_frame_fill takes: those up to the first
   zero, if they fit. *)
FillCount(rf, src) ==
    IF rf.state = "FULL" THEN 0
    ELSE Min({Len(src), Len(rf.buf) - rf.len} \cup {i \in DOMAIN src : src[i] = 0})

(* arq__recv_frame_fill *)
RecvFrameFill(rf, src) ==
    LET n == FillCount(rf, src)
    IN [buf |-> [i \in DOMAIN rf.buf |->
                    IF i \in (rf.len + 1)..(rf.len + n) THEN src[i - rf.len] ELSE rf.buf[i]],
        len |-> rf.len + n,
        state |-> IF n > 0 /\ src[n] = 0 THEN "FULL" ELSE rf.state]
=============================================================================

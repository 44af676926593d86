-------------------------------- MODULE Wire --------------------------------
(***************************************************************************)
(* One direction of the serial line, byte by byte: frames that             *)
(* arq_backend_poll encodes are put on the wire, noise damages some, and   *)
(* the receiving backend hands the bytes to arq_backend_recv_fill in       *)
(* pieces of any length and polls when it likes.                           *)
(*                                                                         *)
(* Noise says what noise may do to a frame:                                *)
(*   "flip"      changes one byte, the terminating zero excepted           *)
(*   "drop"      removes one such byte                                     *)
(*   "insert"    adds a byte, in a frame shorter than the longest          *)
(*   "stray"     adds a zero between two frames                            *)
(*   "lost_end"  removes the terminating zero                              *)
(***************************************************************************)
EXTENDS Frame

CONSTANTS SegLen,      \* cfg.segment_length_in_bytes
          Frames,      \* frames that are sent: records of hdr and seg
          Noise,
          Chunks,      \* how many bytes arq_backend_recv_fill is offered
          MaxFrames, MaxNoise   \* bounds

ASSUME SegLenAssumption == SegLen \in Nat \ {0}
ASSUME FramesAssumption ==
    \A f \in Frames :
        /\ f \in [hdr : HdrType, seg : Seq(Byte)]
        /\ f.hdr.seg_len = Len(f.seg)
        /\ Len(f.seg) <= SegLen
ASSUME ChecksumAssumption ==
    \A f \in Frames : LET sum == Checksum(Body(f.hdr, f.seg))
                      IN sum \in Seq(Byte) /\ Len(sum) = 4
ASSUME ChunksAssumption == Chunks \subseteq Nat
ASSUME MaxNoiseAssumption == MaxNoise \in Nat
ASSUME NoiseAssumption == Noise \subseteq {"flip", "drop", "insert", "stray", "lost_end"}

VARIABLES sent,       \* frames sent so far, each with whether noise left it alone
          wire,       \* bytes under way
          rf,         \* arq->recv_frame of the receiver
          need_poll,  \* arq->need_poll of the receiver
          got,        \* frames that arq__frame_read found good
          noises      \* how often noise has struck

vars == <<sent, wire, rf, need_poll, got, noises>>

Cap == FrameLen(SegLen)

(* arq__recv_frame_init and arq__recv_frame_rst; nothing clears the buffer. *)
Init ==
    /\ sent = <<>>
    /\ wire = <<>>
    /\ rf = [buf |-> [i \in 1..Cap |-> 0], len |-> 0, state |-> "ACCUMULATING"]
    /\ need_poll = FALSE
    /\ got = <<>>
    /\ noises = 0

----------------------------------------------------------------------------
Encoded == [f \in Frames |-> FrameWrite(f.hdr, f.seg)]

Sent(f, clean, bytes) ==
    /\ Len(sent) < MaxFrames
    /\ sent' = Append(sent, [frame |-> f, clean |-> clean])
    /\ wire' = wire \o bytes
    /\ UNCHANGED <<rf, need_poll, got>>

Send(f) == Sent(f, TRUE, Encoded[f]) /\ UNCHANGED noises

WithoutByte(s, i) == SubSeq(s, 1, i - 1) \o SubSeq(s, i + 1, Len(s))

WithByte(s, i, b) == SubSeq(s, 1, i - 1) \o <<b>> \o SubSeq(s, i, Len(s))

(* What noise may make of the bytes s of a frame; i is never its terminator. *)
Damaged(s) ==
    LET inner == 1..(Len(s) - 1)
    IN UNION {
        IF "flip" \in Noise
        THEN {[s EXCEPT ![i] = b] : i \in inner, b \in {0, 1, 255}} ELSE {},
        IF "drop" \in Noise
        THEN {WithoutByte(s, i) : i \in inner} ELSE {},
        IF "insert" \in Noise /\ Len(s) < Cap
        THEN {WithByte(s, i, b) : i \in inner, b \in {0, 255}} ELSE {},
        IF "lost_end" \in Noise
        THEN {WithoutByte(s, Len(s))} ELSE {}} \ {s}

(* Bytes i to j of s are what arq__recv_frame_fill takes for a frame: they end with
   the first zero. *)
IsPiece(s, i, j) ==
    /\ \A k \in i..(j - 1) : s[k] # 0
    /\ s[j] = 0
    /\ i = 1 \/ s[i - 1] = 0

(* A receive buffer that begins with these bytes. *)
Holding(s, i, j) ==
    [k \in 1..Cap |-> IF k <= j - i + 1 THEN s[i + k - 1] ELSE 0]

(* The checksum does its work: no part of a damaged frame that is taken for a frame
   passes, unless what is read from it is the frame that was sent (as when noise hits
   the last distance of arq__cobs_encode, and all beyond the end mean the same). *)
NoiseDetected ==
    \A f \in Frames : \A s \in Damaged(Encoded[f]) : \A j \in DOMAIN s : \A i \in 1..j :
        IsPiece(s, i, j) =>
            LET r == FrameRead(Holding(s, i, j), j - i + 1)
            IN r.result = "SUCCESS" => [hdr |-> r.hdr, seg |-> r.seg] = f

SendDamaged(f) ==
    /\ noises < MaxNoise
    /\ noises' = noises + 1
    /\ \E bytes \in Damaged(Encoded[f]) : Sent(f, FALSE, bytes)

(* A zero on an idle line. *)
Stray ==
    /\ "stray" \in Noise
    /\ noises < MaxNoise
    /\ noises' = noises + 1
    /\ wire' = Append(wire, 0)
    /\ UNCHANGED <<sent, rf, need_poll, got>>

----------------------------------------------------------------------------
Offer(n) == SubSeq(wire, 1, Min({n, Len(wire)}))

(* Defect: all that is offered counts as taken. *)
FillTakesAll(n) ==
    /\ wire # <<>>
    /\ rf' = RecvFrameFill(rf, Offer(n))
    /\ wire' = SubSeq(wire, 1 + Len(Offer(n)), Len(wire))
    /\ need_poll' = (need_poll \/ rf'.state = "FULL")
    /\ UNCHANGED <<sent, got, noises>>

(* arq_backend_recv_fill with the next n bytes; what it does not take is offered
   again. *)
Fill(n) ==
    /\ wire # <<>>
    /\ rf' = RecvFrameFill(rf, Offer(n))
    /\ wire' = SubSeq(wire, 1 + FillCount(rf, Offer(n)), Len(wire))
    /\ need_poll' = (need_poll \/ rf'.state = "FULL")
    /\ UNCHANGED <<sent, got, noises>>

Received(read) ==
    /\ rf' = RecvFrameRst([rf EXCEPT !.buf = read.buf])
    /\ got' = IF read.result = "SUCCESS"
              THEN Append(got, [hdr |-> read.hdr, seg |-> read.seg]) ELSE got

(* What arq_backend_poll, through arq__recv_poll, does with the frame. *)
Poll ==
    /\ need_poll' = FALSE
    /\ IF rf.state = "FULL" THEN Received(FrameRead(rf.buf, rf.len))
       ELSE UNCHANGED <<rf, got>>
    /\ UNCHANGED <<sent, wire, noises>>

FillAny == \E n \in Chunks : Fill(n)

Next ==
    \/ \E f \in Frames : Send(f) \/ SendDamaged(f)
    \/ Stray
    \/ FillAny
    \/ Poll

Spec == Init /\ [][Next]_vars

(* The receiving backend passes on what arrives, and polls when it is told to:
   WF_vars(FillAny) and WF_vars(Poll) with what enables the actions spelled
   out, because TLC is slow to find out. *)
FillDue == \E n \in Chunks : FillCount(rf, Offer(n)) > 0

PollDue == need_poll \/ rf.state = "FULL"

Fairness ==
    /\ []<>~FillDue \/ []<><<FillAny>>_vars
    /\ []<>~PollDue \/ []<><<Poll>>_vars

FairSpec == Spec /\ Fairness

----------------------------------------------------------------------------
RecvFrameType ==
    [buf : [1..Cap -> Byte], len : 0..Cap, state : {"ACCUMULATING", "FULL"}]

(* The buffer is never overfilled, and bytes only wait in it for a poll that
   the backend has been asked for. *)
TypeOK ==
    /\ rf \in RecvFrameType
    /\ wire \in Seq(Byte)
    /\ need_poll \in BOOLEAN
    /\ rf.state = "FULL" <=> need_poll
    /\ noises \in 0..MaxNoise

(* arq__cobs_decode asserts that no byte it visits is zero (it would loop for
   ever on one): in a buffer about to be decoded, the zero that
   arq__recv_frame_fill stopped at is the only one, whatever the noise; and a
   buffer that ends in a zero is decoded before a byte is added. *)
OnlyLastByteZero ==
    /\ \A i \in 1..(rf.len - 1) : rf.buf[i] # 0
    /\ rf.state = "FULL" => rf.len > 0 /\ rf.buf[rf.len] = 0
    /\ rf.state = "ACCUMULATING" /\ rf.len > 0 => rf.buf[rf.len] # 0

Channel == INSTANCE FrameChannel

(* The framing implements the channel of whole frames: damage to one frame costs
   that frame and no other, and what the checksum lets through is, in order,
   what was sent. *)
CarriesFrames == Channel!Safe

Clean == {i \in DOMAIN sent : sent[i].clean}

(* Every undamaged frame is read in the end, whatever was damaged before it: the
   receiver finds the start of the next frame again. *)
CleanDelivered ==
    \A n \in 1..MaxFrames : (Cardinality(Clean) = n) ~> (Len(got) >= n)
=============================================================================

------------------------------- MODULE MCWire -------------------------------
(* Small instances of Wire for TLC, with the checksum of arq.h. *)
EXTENDS Wire, Crc32

Segment ==
    [hdr |-> [HdrInit EXCEPT !.seg_len = 2, !.seq_num = 4095, !.msg_len = 3,
                             !.seg_id = 256, !.seg = TRUE],
     seg |-> <<0, 255>>]

Acknowledgement ==
    [hdr |-> [HdrInit EXCEPT !.ack_num = 17, !.cur_ack_vec = 4095, !.ack = TRUE],
     seg |-> <<>>]

SegmentAndAck == {Segment, Acknowledgement}
JustSegment == {Segment}

LineNoise == {"flip", "drop", "insert", "stray"}
LostEnd == {"lost_end"}

(* arq_crc32, which works a byte at a time from a table, is CRC-32 as it is
   defined, bit by bit: on every block of bytes that arrives. *)
ChecksumIsCrc32 ==
    rf.state = "FULL" =>
        LET p == SubSeq(rf.buf, 1, rf.len) IN arq_crc32(p) = Crc32Ref(p)

(* FairSpec, whose first condition is in this small instance stated in full. *)
FullyFairSpec == Spec /\ WF_vars(FillAny) /\ ([]<>~PollDue \/ []<><<Poll>>_vars)

(* CRC-32 finds all noise of this instance. *)
ASSUME DetectionAssumption == NoiseDetected

OneOrAll == {1, 100}
All == {100}
=============================================================================

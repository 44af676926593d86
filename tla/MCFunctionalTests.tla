------------------------- MODULE MCFunctionalTests -------------------------
(* All functional tests of the repository, each at three scales. *)
EXTENDS FunctionalTests

AllTests ==
    {"ack_full_window", "ack_one_message", "connect_simultaneous", "connect_three_way",
     "connect_times_out", "flush_tinygram", "frame_serialization", "losing_final",
     "losing_non_final", "lost_ack", "poll_until_tinygram", "recv_10mb",
     "recv_partial_frame", "recv_full_window_in_one_call", "recv_full_window_one_byte",
     "recv_full_window_one_segment", "retransmission_timers", "send_10mb",
     "send_full_window", "tiny_sends", "transfer_10mb", "transfer_full_window"}

(* Timers keep the proportions they have in most tests: retransmission_timeout
   and inter_segment_timeout are the same, tinygram_send_delay is shorter. *)
Scale(segLen, msgSegs, cap, chunk) ==
    [SegLen |-> segLen, MsgSegs |-> msgSegs, Cap |-> cap, Chunk |-> chunk,
     Rtx |-> 4, InterSeg |-> 4, Tiny |-> 2, RstAttempts |-> 3, RstPeriod |-> 4]

MCScales == {Scale(2, 2, 2, 4), Scale(3, 1, 4, 4), Scale(2, 4, 2, 8)}

Infinity == 15

MCAnyTime == {0, 1, Infinity}
=============================================================================

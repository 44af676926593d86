------------------------------ MODULE MCMemory ------------------------------
(* Sizes in proportion to those of a 16 bit target, and an unsigned so narrow
   that the larger configurations do not fit. *)
EXTENDS Memory

MCArqT == [size |-> 12, align |-> 4]
MCTimeT == [size |-> 4, align |-> 4]
MCMsgT == [size |-> 6, align |-> 2]

MCCfgs ==
    [send_window : {0, 1, 3}, recv_window : {0, 1, 2}, msg_segs : {0, 2},
     seg_len : {0, 1, 3}, rst_attempts : {1, 2}, rst_period : {0, 1}]

MCSeats == {32, 33}

MCSeatSizes == 0..127
=============================================================================

---------------------------- MODULE MCRecvWindow ----------------------------
(* Small instances of RecvWindow for TLC. *)
EXTENDS RecvWindow

MCLens == {1, 2}
MCRecvMaxs == {1, 4}
MCDts == {1}
=============================================================================

---------------------------- MODULE MCSendWindow ----------------------------
(* Small instances of SendWindow for TLC. *)
EXTENDS SendWindow

MCSendLens == {1, 3}
MCDts == {0, 1}
=============================================================================

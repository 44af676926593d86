----------------------------- MODULE FrameSizes -----------------------------
(* How long a frame is. *)
EXTENDS Integers

HeaderSize == 12       \* ARQ__FRAME_HEADER_SIZE
CobsOverhead == 2      \* ARQ__FRAME_COBS_OVERHEAD

(* arq__frame_len *)
FrameLen(seg_len) == CobsOverhead + HeaderSize + seg_len + 4
=============================================================================

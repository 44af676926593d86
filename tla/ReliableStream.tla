--------------------------- MODULE ReliableStream ---------------------------
(***************************************************************************)
(* What nanoarq promises one direction of a link: the bytes accepted from  *)
(* the sending application come out at the other end, in order, each once, *)
(* and all of them eventually do.  Byte k of the stream is the number k.   *)
(***************************************************************************)
EXTENDS Integers, Sequences

CONSTANT MaxBytes   \* length of the longest stream considered

VARIABLES sent,     \* number of bytes the sender has handed over
          rcvd      \* bytes the receiver has been given

vars == <<sent, rcvd>>

Init == sent = 0 /\ rcvd = <<>>

Accept ==
    /\ \E n \in (sent + 1)..MaxBytes : sent' = n
    /\ UNCHANGED rcvd

Deliver ==
    /\ \E n \in (Len(rcvd) + 1)..sent : rcvd' = [k \in 1..n |-> k]
    /\ UNCHANGED sent

Next == Accept \/ Deliver

Safe == Init /\ [][Next]_vars

AllDelivered == \A n \in 1..MaxBytes : (sent >= n) ~> (Len(rcvd) >= n)

Spec == Safe /\ AllDelivered
=============================================================================

---------------------------- MODULE FrameChannel ----------------------------
(***************************************************************************)
(* What the framing of arq.h promises the protocol above it: a channel     *)
(* that carries whole frames.  A frame that noise has damaged may be lost, *)
(* an undamaged one is not, and no noise adds, repeats or reorders frames. *)
(***************************************************************************)
EXTENDS Integers, Sequences

CONSTANTS Frames, MaxFrames

VARIABLES sent,   \* frames put on the wire, each with whether it is undamaged
          got     \* frames found intact at the other end

vars == <<sent, got>>

(* out is what is left of in when some of its damaged frames, and a part at its
   end that is still under way, are taken out. *)
CarriedBy(in, out) ==
    \E at \in [1..Len(out) -> 1..Len(in)] :
        /\ \A i, j \in 1..Len(out) : i < j => at[i] < at[j]
        /\ \A i \in 1..Len(out) : out[i] = in[at[i]].frame
        /\ \A k \in 1..Len(in), j \in 1..Len(out) :
              in[k].clean /\ k <= at[j] => \E i \in 1..Len(out) : at[i] = k

Init == sent = <<>> /\ got = <<>>

Send ==
    /\ Len(sent) < MaxFrames
    /\ \E f \in Frames, clean \in BOOLEAN :
          sent' = Append(sent, [frame |-> f, clean |-> clean])
    /\ UNCHANGED got

Deliver ==
    /\ \E f \in Frames :
          /\ got' = Append(got, f)
          /\ CarriedBy(sent, got')
    /\ UNCHANGED sent

Next == Send \/ Deliver

Safe == Init /\ [][Next]_vars
=============================================================================

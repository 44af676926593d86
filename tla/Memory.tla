------------------------------- MODULE Memory -------------------------------
(***************************************************************************)
(* How an arq_t comes by its memory: arq_required_size and arq_init walk   *)
(* through the same allocations, the first without memory to find out how  *)
(* much is needed, the second in the memory the application gives.         *)
(*                                                                         *)
(* unsigned arithmetic is modulo UMod.  exact remembers whether it has     *)
(* given the true result so far: arq__check_cfg does not see to that.      *)
(***************************************************************************)
EXTENDS FrameSizes, Sequences

CONSTANTS UMod,                \* 2^width of unsigned
          ArqT, TimeT, MsgT,   \* size and align of arq_t, arq_time_t, arq__msg_t
          Cfgs,                \* configurations
          Seats, SeatSizes     \* addresses and sizes of memory given to arq_init

TypeSizes == [size : Nat \ {0}, align : Nat \ {0}]

Aligns == {1, ArqT.align, TimeT.align, MsgT.align}

ASSUME UnsignedAssumption == UMod \in Nat \ {0} /\ \A a \in Aligns : UMod % a = 0
ASSUME TypesAssumption == {ArqT, TimeT, MsgT} \subseteq TypeSizes
ASSUME CfgsAssumption ==
    Cfgs \subseteq [send_window : Nat, recv_window : Nat, msg_segs : Nat, seg_len : Nat,
                    rst_attempts : Nat, rst_period : Nat]
ASSUME SeatsAssumption == Seats \subseteq Nat \ {0} /\ SeatSizes \subseteq 0..(UMod - 1)

NULL == 0

VARIABLES cfg,
          phase,     \* what is being called, or what it has returned
          la,        \* the arq__lin_alloc_t
          at,        \* addresses returned by its allocations so far
          ok,        \* arq__alloc's ok
          exact,     \* no unsigned operation has wrapped
          required   \* what arq_required_size has returned; -1 before

vars == <<cfg, phase, la, at, ok, exact, required>>

----------------------------------------------------------------------------
(* arq__check_cfg *)
CheckCfg(c) ==
    /\ c.msg_segs > 0 /\ c.seg_len > 0
    /\ c.send_window > 0 /\ c.recv_window > 0
    /\ c.rst_attempts > 1 /\ c.rst_period > 0

Bytes(n) == [size |-> n, align |-> 1]

Array(n, T) == [size |-> n * T.size, align |-> T.align]

(* What arq__alloc asks for, in this order: the arq_t; rtx, msg and buf of the
   send window; ack, msg and buf of the receive window; the two frame buffers. *)
Requests(c) ==
    <<Array(1, ArqT),
      Array(c.send_window, TimeT), Array(c.send_window, MsgT),
      Bytes(c.send_window * c.msg_segs * c.seg_len),
      Bytes(c.recv_window), Array(c.recv_window, MsgT),
      Bytes(c.recv_window * c.msg_segs * c.seg_len),
      Bytes(FrameLen(c.seg_len)), Bytes(FrameLen(c.seg_len))>>

NumRequests == 9

(* Defect: everything directly after what comes before. *)
AlignNot(n, a) == n

(* (n + (a - 1)) & ~(a - 1) *)
Align(n, a) == (((n + a - 1) % UMod) \div a) * a

NewSize(n, r) == (Align(n, r.align) + (r.size % UMod)) % UMod

(* Whether the two operators above give the true values. *)
IsExact(n, r) == n + r.align - 1 + r.size < UMod

(* Defect: memory that is used up exactly counts as too small. *)
FitsStrictly(l, r) == NewSize(l.size, r) < l.capacity

Fits(l, r) == NewSize(l.size, r) <= l.capacity

(* arq__lin_alloc_init *)
LinAllocInit(base, capacity) == [base |-> base, size |-> 0, capacity |-> capacity]

(* arq__lin_alloc_alloc: its pointer, and the allocator after it. *)
LinAllocPtr(l, r) == IF Fits(l, r) THEN l.base + Align(l.size, r.align) ELSE NULL

(* Defect: what has been given away is given away again. *)
LinAllocAgain(l, r) == l

(* Defect: counts what it has refused. *)
LinAllocAnyway(l, r) == [l EXCEPT !.size = NewSize(@, r)]

LinAlloc(l, r) == IF Fits(l, r) THEN [l EXCEPT !.size = NewSize(@, r)] ELSE l

----------------------------------------------------------------------------
Init ==
    /\ cfg \in Cfgs
    /\ phase = "idle"
    /\ la = LinAllocInit(NULL, 0)
    /\ at = <<>>
    /\ ok = TRUE
    /\ exact = TRUE
    /\ required = -1

Begin(what, base, capacity) ==
    /\ phase = "idle"
    /\ CheckCfg(cfg)
    /\ phase' = what
    /\ la' = LinAllocInit(base, capacity)
    /\ at' = <<>>
    /\ ok' = TRUE
    /\ UNCHANGED <<cfg, exact, required>>

(* arq_required_size, up to the call of arq__alloc *)
RequiredSize == required = -1 /\ Begin("sizing", NULL, UMod - 1)

(* arq_init, up to the call of arq__alloc *)
ArqInit(seat, size) == Begin("placing", seat, size)

(* Both, when arq__check_cfg says no. *)
Refuse ==
    /\ phase = "idle"
    /\ ~CheckCfg(cfg)
    /\ phase' = "refused"
    /\ UNCHANGED <<cfg, la, at, ok, exact, required>>

(* One allocation of arq__alloc: one that fails does not keep it from trying the
   others. *)
Alloc ==
    /\ phase \in {"sizing", "placing"}
    /\ Len(at) < NumRequests
    /\ LET r == Requests(cfg)[Len(at) + 1]
           p == LinAllocPtr(la, r)
       IN /\ at' = Append(at, p)
          /\ ok' = (ok /\ p # NULL)
          /\ la' = LinAlloc(la, r)
          /\ exact' = (exact /\ IsExact(la.size, r))
    /\ UNCHANGED <<cfg, phase, required>>

(* The end of arq_required_size, which does not look at what arq__alloc returns. *)
Sized ==
    /\ phase = "sizing" /\ Len(at) = NumRequests
    /\ required' = la.size
    /\ phase' = "idle"
    /\ UNCHANGED <<cfg, la, at, ok, exact>>

(* The end of arq_init *)
Placed ==
    /\ phase = "placing" /\ Len(at) = NumRequests
    /\ phase' = IF ok THEN "ready" ELSE "refused"
    /\ UNCHANGED <<cfg, la, at, ok, exact, required>>

Next ==
    \/ RequiredSize
    \/ \E seat \in Seats, size \in SeatSizes : ArqInit(seat, size)
    \/ Refuse
    \/ Alloc
    \/ Sized
    \/ Placed

Spec == Init /\ [][Next]_vars
----------------------------------------------------------------------------
Phases == {"idle", "sizing", "placing", "ready", "refused"}

TypeOK ==
    /\ cfg \in Cfgs
    /\ phase \in Phases
    /\ la \in [base : Nat, size : Nat, capacity : 0..(UMod - 1)]
    /\ la.size <= la.capacity
    /\ at \in Seq(Nat) /\ Len(at) <= NumRequests
    /\ ok \in BOOLEAN /\ exact \in BOOLEAN
    /\ required \in -1..(UMod - 1)

End(i) == at[i] + Requests(cfg)[i].size

(* arq__alloc: when arq_init succeeds, no two of the windows and buffers share a byte, and
   all of them are inside the memory that the application gave. *)
RegionsApart ==
    phase = "ready" /\ exact =>
        /\ \A i \in 1..NumRequests :
              at[i] >= la.base /\ End(i) <= la.base + la.capacity
        /\ \A i, j \in 1..NumRequests : i < j => End(i) <= at[j]

(* arq__lin_alloc_alloc: in memory aligned for an arq_t everything is aligned for its type. *)
RegionsAligned ==
    phase = "ready" /\ (\A a \in Aligns : la.base % a = 0) =>
        \A i \in 1..NumRequests : at[i] % Requests(cfg)[i].align = 0

(* arq_init succeeds exactly in memory of at least the size that
   arq_required_size has told, when that was not wrapped around. *)
RequiredIsLeast ==
    required # -1 /\ Len(at) = NumRequests /\ phase \in {"ready", "refused"} /\ exact =>
        (phase = "ready" <=> la.capacity >= required)
=============================================================================

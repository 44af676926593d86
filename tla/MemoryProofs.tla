---------------------------- MODULE MemoryProofs ----------------------------
(***************************************************************************)
(* Theorems about Memory, for every configuration, every size and          *)
(* alignment of the types, every width of unsigned and every memory that   *)
(* an application may give to arq_init.                                    *)
(***************************************************************************)
EXTENDS Memory, NumberLemmas

----------------------------------------------------------------------------
(* Rounding up *)

LEMMA TimesInNat ==
    ASSUME NEW a \in Nat, NEW b \in Nat
    PROVE  a * b \in Nat
  OBVIOUS

LEMMA DivFacts ==
    ASSUME NEW n \in Nat, NEW m \in Nat \ {0}
    PROVE  /\ n \div m \in Nat
           /\ n % m \in 0..(m - 1)
           /\ n = (n \div m) * m + (n % m)
  OBVIOUS

LEMMA SmallMod ==
    ASSUME NEW n \in Nat, NEW m \in Nat \ {0}, n < m
    PROVE  n % m = n
  OBVIOUS

LEMMA TypesFacts ==
    /\ UMod \in Nat \ {0}
    /\ \A T \in {ArqT, TimeT, MsgT} : T.size \in Nat /\ T.align \in Nat \ {0}
    /\ Aligns \subseteq Nat \ {0}
  BY UnsignedAssumption, TypesAssumption DEF TypeSizes, Aligns

LEMMA MultipleMod ==
    ASSUME NEW q \in Nat, NEW a \in Nat \ {0}
    PROVE  (q * a) % a = 0
  <1> DEFINE n == q * a
             d == n \div a
             r == n % a
  <1>1. n \in Nat
    BY TimesInNat
  <1>2. d \in Nat /\ r \in 0..(a - 1) /\ n = d * a + r
    BY <1>1, DivFacts
  <1> HIDE DEF d, r
  <1>3. d * a \in Nat
    BY <1>2, TimesInNat
  <1>4. CASE q <= d
    <2>1. q * a <= d * a
      BY <1>2, <1>4, TimesMonotone
    <2> HIDE DEF n
    <2>2. n <= d * a
      BY <2>1 DEF n
    <2>3. r = 0
      BY <1>1, <1>2, <1>3, <2>2
    <2> QED
      BY <2>3 DEF r, n
  <1>5. CASE d + 1 <= q
    <2>1. (d + 1) * a <= q * a
      BY <1>2, <1>5, TimesMonotone
    <2>2. (d + 1) * a = d * a + a
      BY <1>2
    <2> HIDE DEF n
    <2>3. d * a + a <= n
      BY <2>1, <2>2 DEF n
    <2> QED
      BY <1>1, <1>2, <1>3, <2>3
  <1> QED
    BY <1>2, <1>4, <1>5

(* Every allocation of arq__alloc has a size and an alignment. *)
LEMMA RequestsType ==
    ASSUME NEW c \in Cfgs, NEW i \in 1..NumRequests
    PROVE  Requests(c)[i].size \in Nat /\ Requests(c)[i].align \in Aligns
  <1>1. /\ c.send_window \in Nat /\ c.recv_window \in Nat
        /\ c.msg_segs \in Nat /\ c.seg_len \in Nat
    BY CfgsAssumption
  <1>2. \A n \in Nat : \A T \in {ArqT, TimeT, MsgT} :
           Array(n, T).size \in Nat /\ Array(n, T).align \in Aligns
    BY TypesFacts, TimesInNat DEF Array, Aligns
  <1>3. \A n \in Nat : Bytes(n).size \in Nat /\ Bytes(n).align \in Aligns
    BY DEF Bytes, Aligns
  <1>4. /\ c.send_window * c.msg_segs * c.seg_len \in Nat
        /\ c.recv_window * c.msg_segs * c.seg_len \in Nat
    BY <1>1, TimesInNat
  <1>5. FrameLen(c.seg_len) \in Nat
    BY <1>1 DEF FrameLen, CobsOverhead, HeaderSize
  <1>6. i \in {1, 2, 3, 4, 5, 6, 7, 8, 9}
    BY DEF NumRequests
  <1> QED
    BY <1>1, <1>2, <1>3, <1>4, <1>5, <1>6 DEF Requests

LEMMA NextRequest ==
    \A n \in Nat : n < NumRequests => n + 1 \in 1..NumRequests
  BY DEF NumRequests

LEMMA AlignBounds ==
    ASSUME NEW n \in Nat, NEW a \in Nat \ {0}, n + a - 1 < UMod
    PROVE  Align(n, a) \in n..(n + a - 1)
  <1> DEFINE s == n + a - 1
             q == s \div a
  <1>1. s \in Nat /\ s % UMod = s
    BY SmallMod, UnsignedAssumption
  <1>2. q \in Nat /\ s % a \in 0..(a - 1) /\ s = q * a + (s % a)
    BY <1>1, DivFacts
  <1>3. q * a \in Nat
    BY <1>2, TimesInNat
  <1>4. Align(n, a) = q * a
    BY <1>1 DEF Align
  <1> HIDE DEF q
  <1> QED
    BY <1>1, <1>2, <1>3, <1>4

LEMMA AlignType ==
    ASSUME NEW n \in Nat, NEW a \in Nat \ {0}
    PROVE  Align(n, a) \in Nat
  <1> DEFINE s == (n + a - 1) % UMod
  <1>1. s \in Nat
    BY DivFacts, UnsignedAssumption
  <1>2. s \div a \in Nat
    BY <1>1, DivFacts
  <1> HIDE DEF s
  <1>3. (s \div a) * a \in Nat
    BY <1>2, TimesInNat
  <1> QED
    BY <1>3 DEF Align, s

LEMMA NewSizeType ==
    ASSUME NEW n \in Nat, NEW c \in Cfgs, NEW i \in 1..NumRequests
    PROVE  NewSize(n, Requests(c)[i]) \in 0..(UMod - 1)
  <1> DEFINE r == Requests(c)[i]
  <1>1. r.size \in Nat /\ r.align \in Nat \ {0}
    BY RequestsType, TypesFacts
  <1> HIDE DEF r
  <1>2. UMod \in Nat \ {0}
    BY TypesFacts
  <1>3. Align(n, r.align) \in Nat
    BY <1>1, AlignType
  <1>4. r.size % UMod \in Nat
    BY <1>1, <1>2, DivFacts
  <1>5. Align(n, r.align) + (r.size % UMod) \in Nat
    BY <1>3, <1>4
  <1>6. (Align(n, r.align) + (r.size % UMod)) % UMod \in 0..(UMod - 1)
    BY <1>2, <1>5, DivFacts
  <1> QED
    BY <1>6 DEF NewSize, r

(* When nothing wraps around, the room that an allocation takes starts behind
   what was taken before and is as large as it should be. *)
LEMMA ExactSize ==
    ASSUME NEW n \in Nat, NEW c \in Cfgs, NEW i \in 1..NumRequests,
           IsExact(n, Requests(c)[i])
    PROVE  /\ Align(n, Requests(c)[i].align) \in Nat
           /\ n <= Align(n, Requests(c)[i].align)
           /\ NewSize(n, Requests(c)[i])
                = Align(n, Requests(c)[i].align) + Requests(c)[i].size
  <1> DEFINE r == Requests(c)[i]
  <1>1. r.size \in Nat /\ r.align \in Nat \ {0}
    BY RequestsType, TypesFacts
  <1>2. n + r.align - 1 + r.size < UMod
    BY DEF IsExact
  <1> HIDE DEF r
  <1>3. Align(n, r.align) \in n..(n + r.align - 1)
    BY <1>1, <1>2, AlignBounds, UnsignedAssumption
  <1>4. r.size % UMod = r.size
    <2>1. UMod \in Nat \ {0}
      BY TypesFacts
    <2>2. r.size < UMod
      BY <1>1, <1>2, <2>1
    <2> QED
      BY <1>1, <2>1, <2>2, SmallMod
  <1>5. Align(n, r.align) + r.size \in Nat /\ Align(n, r.align) + r.size < UMod
    BY <1>1, <1>2, <1>3, UnsignedAssumption
  <1>6. (Align(n, r.align) + r.size) % UMod = Align(n, r.align) + r.size
    BY <1>5, SmallMod, UnsignedAssumption
  <1> QED
    BY <1>3, <1>4, <1>6 DEF NewSize, r

----------------------------------------------------------------------------
(* Type correctness *)

(* The allocator of arq_required_size and arq_init never hands out more than its
   capacity, and every variable keeps its type. *)
THEOREM TypeCorrect == Spec => []TypeOK
  <1>1. Init => TypeOK
    BY UnsignedAssumption DEF Init, TypeOK, LinAllocInit, NULL, Phases, NumRequests
  <1>2. TypeOK /\ [Next]_vars => TypeOK'
    <2> SUFFICES ASSUME TypeOK, [Next]_vars PROVE TypeOK'
      OBVIOUS
    <2> USE DEF TypeOK, Phases
    <2>1. ASSUME NEW what \in {"sizing", "placing"}, NEW base \in Nat,
                 NEW capacity \in 0..(UMod - 1), Begin(what, base, capacity)
          PROVE  TypeOK'
      BY <2>1, UnsignedAssumption DEF Begin, LinAllocInit, NumRequests
    <2>2. CASE RequiredSize
      BY <2>1, <2>2, UnsignedAssumption DEF RequiredSize, NULL
    <2>3. CASE \E seat \in Seats, size \in SeatSizes : ArqInit(seat, size)
      BY <2>1, <2>3, SeatsAssumption DEF ArqInit
    <2>4. CASE Refuse
      BY <2>4 DEF Refuse
    <2>5. CASE Alloc
      <3> DEFINE i == Len(at) + 1
                 r == Requests(cfg)[i]
      <3>1. /\ phase \in {"sizing", "placing"}
            /\ Len(at) < NumRequests
            /\ at' = Append(at, LinAllocPtr(la, r))
            /\ ok' = (ok /\ LinAllocPtr(la, r) # NULL)
            /\ la' = LinAlloc(la, r)
            /\ exact' = (exact /\ IsExact(la.size, r))
            /\ UNCHANGED <<cfg, phase, required>>
        BY <2>5 DEF Alloc
      <3>2. i \in 1..NumRequests
        <4>1. Len(at) \in Nat
          OBVIOUS
        <4>2. Len(at) < NumRequests
          BY <3>1
        <4> QED
          BY <4>1, <4>2, NextRequest
      <3>0. cfg \in Cfgs /\ la.base \in Nat /\ la.size \in Nat
        OBVIOUS
      <3>3. r.align \in Nat \ {0} /\ NewSize(la.size, r) \in 0..(UMod - 1)
        BY <3>0, <3>2, RequestsType, TypesFacts, NewSizeType
      <3> HIDE DEF r
      <3>4. LinAllocPtr(la, r) \in Nat
        <4>1. Align(la.size, r.align) \in Nat
          BY <3>0, <3>3, AlignType
        <4> QED
          BY <3>0, <4>1 DEF LinAllocPtr, NULL
      <3>5. /\ la' \in [base : Nat, size : Nat, capacity : 0..(UMod - 1)]
            /\ la'.size <= la'.capacity
        <4>1. NewSize(la.size, r) \in Nat
          BY <3>3
        <4>2. CASE Fits(la, r)
          BY <3>1, <4>1, <4>2 DEF LinAlloc, Fits
        <4>3. CASE ~Fits(la, r)
          BY <3>1, <4>3 DEF LinAlloc
        <4> QED
          BY <4>2, <4>3
      <3>6. at' \in Seq(Nat) /\ Len(at') = i
        BY <3>1, <3>4
      <3>7. ok' \in BOOLEAN /\ exact' \in BOOLEAN
        BY <3>1
      <3> QED
        BY <3>1, <3>2, <3>5, <3>6, <3>7
    <2>6. CASE Sized
      BY <2>6, UnsignedAssumption DEF Sized
    <2>7. CASE Placed
      BY <2>7 DEF Placed
    <2>8. CASE UNCHANGED vars
      BY <2>8 DEF vars
    <2> QED
      BY <2>2, <2>3, <2>4, <2>5, <2>6, <2>7, <2>8 DEF Next
  <1> QED
    BY <1>1, <1>2, PTL DEF Spec

----------------------------------------------------------------------------
(* Where the regions are *)

LEMMA AlignIsMultiple ==
    ASSUME NEW n \in Nat, NEW a \in Nat \ {0}, NEW base \in Nat, base % a = 0
    PROVE  (base + Align(n, a)) % a = 0
  <1> DEFINE s == (n + a - 1) % UMod
             q == s \div a
             k == base \div a
  <1>1. s \in Nat
    BY DivFacts, UnsignedAssumption
  <1>2. q \in Nat
    BY <1>1, DivFacts
  <1>3. k \in Nat /\ base = k * a
    BY DivFacts
  <1>4. Align(n, a) = q * a
    BY DEF Align
  <1> HIDE DEF q, k
  <1>5. base + Align(n, a) = (k + q) * a
    BY <1>2, <1>3, <1>4
  <1>6. k + q \in Nat
    BY <1>2, <1>3
  <1> QED
    BY <1>5, <1>6, MultipleMod

(* What an allocation of arq__alloc that succeeds does. *)
LEMMA AllocTakes ==
    ASSUME TypeOK, Alloc, ok'
    PROVE  LET i == Len(at) + 1
               r == Requests(cfg)[i]
           IN /\ i \in 1..NumRequests
              /\ Len(at') = i
              /\ \A j \in 1..Len(at) : at'[j] = at[j]
              /\ at'[i] = la.base + Align(la.size, r.align)
              /\ la'.base = la.base /\ la'.capacity = la.capacity
              /\ la'.size = NewSize(la.size, r)
              /\ ok
              /\ exact' => exact /\ IsExact(la.size, r)
              /\ UNCHANGED <<cfg, phase>>
  <1> DEFINE i == Len(at) + 1
             r == Requests(cfg)[i]
             p == LinAllocPtr(la, r)
  <1>1. /\ Len(at) < NumRequests
        /\ at' = Append(at, p)
        /\ ok' = (ok /\ p # NULL)
        /\ la' = LinAlloc(la, r)
        /\ exact' = (exact /\ IsExact(la.size, r))
        /\ UNCHANGED <<cfg, phase>>
    BY DEF Alloc
  <1>2. at \in Seq(Nat) /\ Len(at) \in Nat /\ la \in [base : Nat, size : Nat, capacity : Nat]
        /\ cfg \in Cfgs
    BY TypesFacts DEF TypeOK
  <1>3. i \in 1..NumRequests
    BY <1>1, <1>2, NextRequest
  <1>4. Fits(la, r)
    BY <1>1 DEF LinAllocPtr
  <1>5. p = la.base + Align(la.size, r.align)
    BY <1>4 DEF LinAllocPtr
  <1>6. r.align \in Nat \ {0}
    BY <1>2, <1>3, RequestsType, TypesFacts
  <1> HIDE DEF r, p
  <1>7. p \in Nat
    <2>1. Align(la.size, r.align) \in Nat /\ la.base \in Nat
      BY <1>2, <1>6, AlignType
    <2> QED
      BY <1>5, <2>1
  <1>8. Len(at') = i /\ at'[i] = p /\ \A j \in 1..Len(at) : at'[j] = at[j]
    BY <1>1, <1>2, <1>7
  <1>9. /\ la'.base = la.base /\ la'.capacity = la.capacity
        /\ la'.size = NewSize(la.size, r)
    BY <1>1, <1>2, <1>4 DEF LinAlloc
  <1> QED
    BY <1>1, <1>3, <1>5, <1>8, <1>9 DEF r

(* The regions given out so far lie one behind another in what is used. *)
Stacked ==
    \A i \in 1..Len(at) :
        /\ at[i] >= la.base /\ End(i) <= la.base + la.size
        /\ \A j \in 1..Len(at) : i < j => End(i) <= at[j]

AlignedSoFar ==
    (\A a \in Aligns : la.base % a = 0) =>
        \A i \in 1..Len(at) : at[i] % Requests(cfg)[i].align = 0

Inv ==
    /\ phase = "ready" => ok /\ Len(at) = NumRequests
    /\ phase \in {"placing", "ready"} /\ ok => AlignedSoFar /\ (exact => Stacked)

LEMMA StackedStep ==
    ASSUME TypeOK, Alloc, ok', exact', Stacked
    PROVE  Stacked'
  <1> DEFINE n == Len(at) + 1
             r == Requests(cfg)[n]
  <1>1. /\ n \in 1..NumRequests
        /\ Len(at') = n
        /\ \A j \in 1..Len(at) : at'[j] = at[j]
        /\ at'[n] = la.base + Align(la.size, r.align)
        /\ la'.base = la.base
        /\ la'.size = NewSize(la.size, r)
        /\ IsExact(la.size, r)
        /\ cfg' = cfg
    BY AllocTakes
  <1>2. at \in Seq(Nat) /\ Len(at) \in Nat /\ la.base \in Nat /\ la.size \in Nat /\ cfg \in Cfgs
        /\ Len(at) <= NumRequests
    BY DEF TypeOK
  <1>3. /\ Align(la.size, r.align) \in Nat
        /\ la.size <= Align(la.size, r.align)
        /\ la'.size = Align(la.size, r.align) + r.size
        /\ r.size \in Nat
    BY <1>1, <1>2, ExactSize, RequestsType
  <1>4. \A i \in 1..Len(at) : at[i] \in Nat /\ i \in 1..NumRequests
    BY <1>2 DEF NumRequests
  <1>5. \A i \in 1..Len(at) : Requests(cfg)[i].size \in Nat
    BY <1>2, <1>4, RequestsType
  <1>6. ASSUME NEW k, k = n
        PROVE  at'[k] >= la.base + la.size /\ End(k)' = la.base + la'.size
    <2>1. End(k)' = at'[k] + Requests(cfg)[k].size
      BY <1>1 DEF End
    <2>2. Requests(cfg)[k].size = r.size /\ at'[k] = la.base + Align(la.size, r.align)
      BY <1>1, <1>6
    <2> HIDE DEF r
    <2> QED
      BY <1>2, <1>3, <2>1, <2>2
  <1> HIDE DEF r
  <1>7. \A i \in 1..Len(at) : End(i)' = End(i) /\ End(i) \in Nat
    BY <1>1, <1>4, <1>5 DEF End
  <1>8. \A i \in 1..Len(at) : at[i] >= la.base /\ End(i) <= la.base + la.size
    BY DEF Stacked
  <1>9. la'.size >= la.size /\ la'.size \in Nat
    BY <1>2, <1>3
  <1>10. ASSUME NEW i \in 1..n
         PROVE  at'[i] >= la.base /\ End(i)' <= la.base + la'.size
    <2>1. CASE i = n
      <3>1. at'[n] >= la.base
        BY <1>1, <1>2, <1>3
      <3> QED
        BY <2>1, <3>1, <1>2, <1>6, <1>9
    <2>2. CASE i \in 1..Len(at)
      BY <2>2, <1>1, <1>2, <1>4, <1>7, <1>8, <1>9
    <2> QED
      BY <1>2, <2>1, <2>2
  <1>11. ASSUME NEW i \in 1..n, NEW j \in 1..n, i < j
         PROVE  End(i)' <= at'[j]
    <2>0. i \in 1..Len(at)
      BY <1>2, <1>11
    <2>1. CASE j = n
      <3>1. End(i) <= la.base + la.size /\ End(i)' = End(i) /\ End(i) \in Nat
        BY <2>0, <1>7, <1>8
      <3> QED
        BY <2>1, <3>1, <1>1, <1>2, <1>3, <1>6
    <2>2. CASE j \in 1..Len(at)
      BY <2>0, <2>2, <1>1, <1>7, <1>11 DEF Stacked
    <2> QED
      BY <1>2, <2>1, <2>2
  <1> QED
    BY <1>1, <1>10, <1>11 DEF Stacked

LEMMA AlignedStep ==
    ASSUME TypeOK, Alloc, ok', AlignedSoFar
    PROVE  AlignedSoFar'
  <1> DEFINE n == Len(at) + 1
             r == Requests(cfg)[n]
  <1>1. /\ n \in 1..NumRequests
        /\ Len(at') = n
        /\ \A j \in 1..Len(at) : at'[j] = at[j]
        /\ at'[n] = la.base + Align(la.size, r.align)
        /\ la'.base = la.base
        /\ cfg' = cfg
    BY AllocTakes
  <1>2. Len(at) \in Nat /\ la.base \in Nat /\ la.size \in Nat /\ cfg \in Cfgs
    BY DEF TypeOK
  <1>3. r.align \in Aligns /\ r.align \in Nat \ {0}
    BY <1>1, <1>2, RequestsType, TypesFacts
  <1>4. SUFFICES ASSUME \A a \in Aligns : la.base % a = 0, NEW i \in 1..n
                 PROVE  at'[i] % Requests(cfg)[i].align = 0
    BY <1>1 DEF AlignedSoFar
  <1>5. CASE i = n
    <2>1. (la.base + Align(la.size, r.align)) % r.align = 0
      BY <1>2, <1>3, <1>4, AlignIsMultiple
    <2> QED
      BY <1>1, <1>5, <2>1
  <1>6. CASE i \in 1..Len(at)
    BY <1>1, <1>4, <1>6 DEF AlignedSoFar
  <1> QED
    BY <1>2, <1>5, <1>6

LEMMA InvStep ==
    TypeOK /\ Inv /\ [Next]_vars => Inv'
  <1> SUFFICES ASSUME TypeOK, Inv, [Next]_vars PROVE Inv'
    OBVIOUS
  <1>1. ASSUME NEW what \in {"sizing", "placing"}, NEW base, NEW capacity,
               Begin(what, base, capacity)
        PROVE  Inv'
    <2>1. phase' # "ready" /\ at' = <<>> /\ Len(at') = 0
      BY <1>1 DEF Begin
    <2> QED
      BY <2>1 DEF Inv, Stacked, AlignedSoFar
  <1>2. CASE RequiredSize
    BY <1>1, <1>2 DEF RequiredSize
  <1>3. CASE \E seat \in Seats, size \in SeatSizes : ArqInit(seat, size)
    BY <1>1, <1>3 DEF ArqInit
  <1>4. CASE Refuse
    BY <1>4 DEF Refuse, Inv
  <1>5. CASE Alloc
    <2>1. phase \in {"sizing", "placing"} /\ phase' = phase
      BY <1>5 DEF Alloc
    <2>2. CASE ok' /\ phase = "placing"
      <3>1. ok /\ (exact' => exact)
        BY <1>5, <2>2, AllocTakes
      <3>2. AlignedSoFar /\ (exact => Stacked)
        BY <2>2, <3>1 DEF Inv
      <3>3. AlignedSoFar'
        BY <1>5, <2>2, <3>2, AlignedStep
      <3>4. exact' => Stacked'
        BY <1>5, <2>2, <3>1, <3>2, StackedStep
      <3> QED
        BY <2>1, <2>2, <3>3, <3>4 DEF Inv
    <2>3. CASE ~ok' \/ phase = "sizing"
      BY <2>1, <2>3 DEF Inv
    <2> QED
      BY <2>1, <2>2, <2>3
  <1>6. CASE Sized
    BY <1>6 DEF Sized, Inv
  <1>7. CASE Placed
    BY <1>7 DEF Placed, Inv, AlignedSoFar, Stacked, End
  <1>8. CASE UNCHANGED vars
    BY <1>8 DEF vars, Inv, AlignedSoFar, Stacked, End
  <1> QED
    BY <1>2, <1>3, <1>4, <1>5, <1>6, <1>7, <1>8 DEF Next

LEMMA InvCorrect == Spec => []Inv
  <1>1. Init => Inv
    BY DEF Init, Inv
  <1> QED
    BY <1>1, InvStep, TypeCorrect, PTL DEF Spec

(* When arq_init succeeds, the windows and frame buffers that arq__alloc has laid
   out do not overlap and are inside the application's memory. *)
THEOREM RegionsDisjoint == Spec => []RegionsApart
  <1>1. TypeOK /\ Inv => RegionsApart
    <2> SUFFICES ASSUME TypeOK, Inv, phase = "ready", exact PROVE
                 /\ \A i \in 1..NumRequests :
                       at[i] >= la.base /\ End(i) <= la.base + la.capacity
                 /\ \A i, j \in 1..NumRequests : i < j => End(i) <= at[j]
      BY DEF RegionsApart
    <2>1. Stacked /\ Len(at) = NumRequests
      BY DEF Inv
    <2>2. /\ la.base \in Nat /\ la.size \in Nat /\ la.capacity \in Nat
          /\ la.size <= la.capacity /\ at \in Seq(Nat) /\ cfg \in Cfgs
      BY TypesFacts DEF TypeOK
    <2>3. \A i \in 1..NumRequests : End(i) \in Nat
      BY <2>1, <2>2, RequestsType DEF End
    <2>4. \A i \in 1..NumRequests : at[i] >= la.base /\ End(i) <= la.base + la.size
      BY <2>1 DEF Stacked
    <2> QED
      BY <2>1, <2>2, <2>3, <2>4 DEF Stacked
  <1> QED
    BY <1>1, InvCorrect, TypeCorrect, PTL

(* arq__lin_alloc_alloc gives every region of arq__alloc the alignment of what is
   kept in it, when the memory is aligned for an arq_t; also when sizes wrap. *)
THEOREM RegionsWellAligned == Spec => []RegionsAligned
  <1>1. Inv => RegionsAligned
    BY DEF Inv, AlignedSoFar, RegionsAligned
  <1> QED
    BY <1>1, InvCorrect, PTL

----------------------------------------------------------------------------
(* What arq_required_size promises *)

(* S holds how much is used after each of the first n allocations, when there is
   room for all of them. *)
IsUsage(S, n) ==
    /\ S \in [0..n -> Nat]
    /\ S[0] = 0
    /\ \A k \in 1..n : S[k] = NewSize(S[k - 1], Requests(cfg)[k])
    /\ exact => \A j, k \in 0..n : j <= k => S[j] <= S[k]

SizingInv ==
    /\ required = -1 /\ CheckCfg(cfg)
    /\ la.capacity = UMod - 1
    /\ \E S : IsUsage(S, Len(at)) /\ la.size = S[Len(at)]

(* Where arq_init is in the allocations that arq_required_size has gone through: it
   follows them, or one of them did not fit. *)
Follows(S) ==
    \/ ok /\ la.size = S[Len(at)]
    \/ ~ok /\ \E k \in 0..Len(at) : S[k] > la.capacity

SizedInv ==
    /\ CheckCfg(cfg)
    /\ \E S : /\ IsUsage(S, NumRequests)
              /\ required = S[NumRequests]
              /\ phase \in {"placing", "ready", "refused"} => Follows(S)

SizesInv ==
    /\ phase = "sizing" => SizingInv
    /\ phase = "placing" => la.base # NULL
    /\ required # -1 => SizedInv
    /\ phase = "ready" => ok
    /\ phase = "refused" /\ required # -1 => ~ok

LEMMA SizingStep ==
    ASSUME TypeOK, SizingInv, Alloc
    PROVE  SizingInv'
  <1> DEFINE n == Len(at)
             r == Requests(cfg)[n + 1]
  <1>1. /\ n < NumRequests
        /\ at' = Append(at, LinAllocPtr(la, r))
        /\ la' = LinAlloc(la, r)
        /\ exact' = (exact /\ IsExact(la.size, r))
        /\ UNCHANGED <<cfg, phase, required>>
    BY DEF Alloc
  <1>2. /\ at \in Seq(Nat) /\ n \in Nat /\ cfg \in Cfgs /\ exact \in BOOLEAN
        /\ la \in [base : Nat, size : Nat, capacity : 0..(UMod - 1)]
    BY DEF TypeOK
  <1>3. n + 1 \in 1..NumRequests
    BY <1>1, <1>2, NextRequest
  <1>4. NewSize(la.size, r) \in 0..(UMod - 1)
    BY <1>2, <1>3, NewSizeType
  <1>5. la' = [la EXCEPT !.size = NewSize(la.size, r)]
    <2>1. Fits(la, r)
      BY <1>4 DEF Fits, SizingInv
    <2> QED
      BY <1>1, <2>1 DEF LinAlloc
  <1>6. la'.capacity = UMod - 1 /\ la'.size = NewSize(la.size, r)
    BY <1>2, <1>5 DEF SizingInv
  <1>7. Len(at') = n + 1
    BY <1>1, <1>2
  <1>8. IsExact(la.size, r) => la.size <= NewSize(la.size, r)
    <2> SUFFICES ASSUME IsExact(la.size, r) PROVE la.size <= NewSize(la.size, r)
      OBVIOUS
    <2>1. /\ Align(la.size, r.align) \in Nat
          /\ la.size <= Align(la.size, r.align)
          /\ NewSize(la.size, r) = Align(la.size, r.align) + r.size
          /\ r.size \in Nat
      BY <1>2, <1>3, ExactSize, RequestsType
    <2> HIDE DEF r
    <2> QED
      BY <1>2, <2>1
  <1>9. PICK S : IsUsage(S, n) /\ la.size = S[n]
    BY DEF SizingInv
  <1> DEFINE T == [k \in 0..(n + 1) |-> IF k = n + 1 THEN la'.size ELSE S[k]]
  <1>10. S \in [0..n -> Nat] /\ la'.size \in Nat
    BY <1>4, <1>6, <1>9 DEF IsUsage
  <1>11. T \in [0..(n + 1) -> Nat]
    <2>1. \A k \in 0..(n + 1) : k # n + 1 => k \in 0..n
      BY <1>2
    <2> QED
      BY <1>10, <2>1
  <1>12. T[0] = 0 /\ T[n + 1] = la'.size /\ \A k \in 0..n : T[k] = S[k]
    BY <1>2, <1>9 DEF IsUsage
  <1>13. \A k \in 1..(n + 1) : T[k] = NewSize(T[k - 1], Requests(cfg)[k])
    <2> HIDE DEF T
    <2> SUFFICES ASSUME NEW k \in 1..(n + 1)
                 PROVE  T[k] = NewSize(T[k - 1], Requests(cfg)[k])
      OBVIOUS
    <2>1. CASE k = n + 1
      <3>1. k - 1 = n /\ T[n] = la.size
        BY <1>2, <1>9, <1>12, <2>1
      <3> QED
        BY <2>1, <3>1, <1>6, <1>12
    <2>2. CASE k \in 1..n
      <3>1. k \in 0..n /\ k - 1 \in 0..n
        BY <1>2, <2>2
      <3> QED
        BY <2>2, <3>1, <1>9, <1>12 DEF IsUsage
    <2> QED
      BY <1>2, <2>1, <2>2
  <1>14. exact' => \A j, k \in 0..(n + 1) : j <= k => T[j] <= T[k]
    <2> HIDE DEF T, r
    <2> SUFFICES ASSUME exact', NEW j \in 0..(n + 1), NEW k \in 0..(n + 1), j <= k
                 PROVE  T[j] <= T[k]
      OBVIOUS
    <2>1. \A i, l \in 0..n : i <= l => S[i] <= S[l]
      BY <1>1, <1>9 DEF IsUsage
    <2>2. S[n] <= la'.size
      BY <1>1, <1>6, <1>8, <1>9
    <2>3. CASE k \in 0..n
      <3>1. j \in 0..n
        BY <1>2, <2>3
      <3> QED
        BY <2>1, <2>3, <3>1, <1>12
    <2>4. CASE k = n + 1 /\ j \in 0..n
      <3>1. S[j] <= S[n] /\ S[j] \in Nat /\ S[n] \in Nat
        BY <1>2, <1>10, <2>1, <2>4
      <3> QED
        BY <2>2, <2>4, <3>1, <1>10, <1>12
    <2>5. CASE k = n + 1 /\ j = n + 1
      BY <2>5, <1>10, <1>12
    <2> QED
      BY <1>2, <2>3, <2>4, <2>5
  <1> HIDE DEF T
  <1>15. PICK U : U = T
    OBVIOUS
  <1>16. IsUsage(U, Len(at))' /\ la'.size = U[Len(at')]
    BY <1>1, <1>7, <1>11, <1>12, <1>13, <1>14, <1>15 DEF IsUsage
  <1> QED
    BY <1>1, <1>6, <1>16 DEF SizingInv, CheckCfg

LEMMA FollowsStep ==
    ASSUME TypeOK, NEW S, IsUsage(S, NumRequests), Follows(S), Alloc, la.base # NULL
    PROVE  Follows(S)'
  <1> DEFINE n == Len(at)
             r == Requests(cfg)[n + 1]
             p == LinAllocPtr(la, r)
  <1>1. /\ n < NumRequests
        /\ at' = Append(at, p)
        /\ ok' = (ok /\ p # NULL)
        /\ la' = LinAlloc(la, r)
    BY DEF Alloc
  <1>2. /\ at \in Seq(Nat) /\ n \in Nat /\ cfg \in Cfgs
        /\ la \in [base : Nat, size : Nat, capacity : 0..(UMod - 1)]
    BY DEF TypeOK
  <1>3. n + 1 \in 1..NumRequests
    BY <1>1, <1>2, NextRequest
  <1>4. Len(at') = n + 1
    BY <1>1, <1>2
  <1>5. la'.capacity = la.capacity
    BY <1>1, <1>2 DEF LinAlloc
  <1>6. CASE ~ok
    <2>1. PICK k \in 0..n : S[k] > la.capacity
      BY <1>6 DEF Follows
    <2>2. k \in 0..(n + 1)
      BY <1>2
    <2> QED
      BY <1>1, <1>4, <1>5, <1>6, <2>1, <2>2 DEF Follows
  <1>7. CASE ok
    <2>1. la.size = S[n]
      BY <1>7 DEF Follows
    <2>2. S[n + 1] = NewSize(la.size, r)
      <3>1. (n + 1) - 1 = n
        BY <1>2
      <3> QED
        BY <1>3, <2>1, <3>1 DEF IsUsage
    <2>3. CASE Fits(la, r)
      <3>1. p = la.base + Align(la.size, r.align)
        BY <2>3 DEF LinAllocPtr
      <3>2. r.align \in Nat \ {0}
        BY <1>2, <1>3, RequestsType, TypesFacts
      <3> HIDE DEF r, p
      <3>3. Align(la.size, r.align) \in Nat
        BY <1>2, <3>2, AlignType
      <3>4. p # NULL
        BY <1>2, <3>1, <3>3 DEF NULL
      <3>5. la'.size = NewSize(la.size, r)
        BY <1>1, <1>2, <2>3 DEF LinAlloc
      <3> QED
        BY <1>1, <1>4, <1>7, <2>2, <3>4, <3>5 DEF Follows
    <2>4. CASE ~Fits(la, r)
      <3>1. ~ok'
        BY <1>1, <2>4 DEF LinAllocPtr
      <3>2. NewSize(la.size, r) \in Nat /\ la.capacity \in Nat
        <4>1. NewSize(la.size, r) \in 0..(UMod - 1)
          BY <1>2, <1>3, NewSizeType
        <4> QED
          BY <1>2, <4>1
      <3>3. S[n + 1] > la'.capacity
        BY <1>5, <2>2, <2>4, <3>2 DEF Fits
      <3>4. n + 1 \in 0..(n + 1)
        BY <1>2
      <3> QED
        BY <1>4, <3>1, <3>3, <3>4 DEF Follows
    <2> QED
      BY <2>3, <2>4
  <1> QED
    BY <1>6, <1>7

LEMMA SizesInvStep ==
    TypeOK /\ SizesInv /\ [Next]_vars => SizesInv'
  <1> SUFFICES ASSUME TypeOK, SizesInv, [Next]_vars PROVE SizesInv'
    OBVIOUS
  <1>1. CASE RequiredSize
    <2>1. /\ required = -1 /\ CheckCfg(cfg)
          /\ phase' = "sizing" /\ la' = LinAllocInit(NULL, UMod - 1) /\ at' = <<>>
          /\ UNCHANGED <<cfg, exact, required>>
      BY <1>1 DEF RequiredSize, Begin
    <2> DEFINE S == [k \in 0..0 |-> 0]
    <2>2. /\ S \in [0..0 -> Nat] /\ S[0] = 0 /\ \A j \in 0..0 : j = 0
      OBVIOUS
    <2> HIDE DEF S
    <2>3. IsUsage(S, 0)'
      BY <2>2 DEF IsUsage
    <2>4. Len(at') = 0 /\ la'.size = 0 /\ la'.capacity = UMod - 1
      BY <2>1 DEF LinAllocInit
    <2>5. SizingInv'
      BY <2>1, <2>2, <2>3, <2>4 DEF SizingInv, CheckCfg
    <2> QED
      BY <2>1, <2>5 DEF SizesInv
  <1>2. CASE \E seat \in Seats, size \in SeatSizes : ArqInit(seat, size)
    <2>1. PICK seat \in Seats, size \in SeatSizes : Begin("placing", seat, size)
      BY <1>2 DEF ArqInit
    <2>2. /\ phase = "idle" /\ CheckCfg(cfg)
          /\ phase' = "placing" /\ la' = LinAllocInit(seat, size) /\ at' = <<>> /\ ok'
          /\ UNCHANGED <<cfg, exact, required>>
      BY <2>1 DEF Begin
    <2>3. la'.base # NULL /\ la'.size = 0 /\ Len(at') = 0
      BY <2>2, SeatsAssumption DEF LinAllocInit, NULL
    <2>4. ASSUME required # -1
          PROVE  SizedInv'
      <3>0. SizedInv
        BY <2>4 DEF SizesInv
      <3>1. PICK S : IsUsage(S, NumRequests) /\ required = S[NumRequests]
        BY <3>0 DEF SizedInv
      <3>2. IsUsage(S, NumRequests)'
        BY <2>2, <3>1 DEF IsUsage
      <3>3. S[0] = 0
        BY <3>1 DEF IsUsage
      <3>4. Follows(S)'
        BY <2>2, <2>3, <3>3 DEF Follows
      <3> QED
        BY <2>2, <3>1, <3>2, <3>4 DEF SizedInv, CheckCfg
    <2> QED
      BY <2>2, <2>3, <2>4 DEF SizesInv
  <1>3. CASE Refuse
    <2>1. required = -1
      BY <1>3 DEF Refuse, SizesInv, SizedInv
    <2> QED
      BY <1>3, <2>1 DEF Refuse, SizesInv
  <1>4. CASE Alloc
    <2>1. phase \in {"sizing", "placing"} /\ UNCHANGED <<cfg, phase, required>>
      BY <1>4 DEF Alloc
    <2>2. CASE phase = "sizing"
      <3>1. SizingInv'
        BY <1>4, <2>2, SizingStep DEF SizesInv
      <3> QED
        BY <2>1, <2>2, <3>1 DEF SizesInv, SizingInv
    <2>3. CASE phase = "placing"
      <3>1. la'.base # NULL
        <4>1. la' = LinAlloc(la, Requests(cfg)[Len(at) + 1]) /\ la.base # NULL
          BY <1>4, <2>3 DEF Alloc, SizesInv
        <4> QED
          BY <4>1 DEF LinAlloc, TypeOK
      <3>2. ASSUME required # -1
            PROVE  SizedInv'
        <4>0. SizedInv
          BY <3>2 DEF SizesInv
        <4>1. PICK S : /\ IsUsage(S, NumRequests) /\ required = S[NumRequests]
                       /\ Follows(S)
          BY <2>3, <4>0 DEF SizedInv
        <4>2. Follows(S)'
          BY <1>4, <2>3, <4>1, FollowsStep DEF SizesInv
        <4>3. IsUsage(S, NumRequests)'
          <5>1. exact' => exact
            BY <1>4 DEF Alloc
          <5> QED
            BY <2>1, <4>1, <5>1 DEF IsUsage
        <4> QED
          BY <2>1, <3>2, <4>1, <4>2, <4>3 DEF SizesInv, SizedInv, CheckCfg
      <3> QED
        BY <2>1, <2>3, <3>1, <3>2 DEF SizesInv
    <2> QED
      BY <2>1, <2>2, <2>3
  <1>5. CASE Sized
    <2>1. /\ phase = "sizing" /\ Len(at) = NumRequests
          /\ required' = la.size /\ phase' = "idle"
          /\ UNCHANGED <<cfg, la, at, ok, exact>>
      BY <1>5 DEF Sized
    <2>2. PICK S : IsUsage(S, NumRequests) /\ la.size = S[NumRequests]
      BY <2>1 DEF SizesInv, SizingInv
    <2>3. IsUsage(S, NumRequests)'
      BY <2>1, <2>2 DEF IsUsage
    <2>4. SizedInv'
      BY <2>1, <2>2, <2>3 DEF SizesInv, SizingInv, SizedInv, CheckCfg
    <2> QED
      BY <2>1, <2>4 DEF SizesInv
  <1>6. CASE Placed
    <2>1. /\ phase = "placing" /\ phase' = IF ok THEN "ready" ELSE "refused"
          /\ UNCHANGED <<cfg, la, at, ok, exact, required>>
      BY <1>6 DEF Placed
    <2>2. ASSUME required # -1
          PROVE  SizedInv'
      <3>0. SizedInv
        BY <2>2 DEF SizesInv
      <3>1. PICK S : /\ IsUsage(S, NumRequests) /\ required = S[NumRequests]
                     /\ Follows(S)
        BY <2>1, <3>0 DEF SizedInv
      <3>2. IsUsage(S, NumRequests)' /\ Follows(S)'
        BY <2>1, <3>1 DEF IsUsage, Follows
      <3> QED
        BY <2>1, <2>2, <3>1, <3>2 DEF SizesInv, SizedInv, CheckCfg
    <2> QED
      BY <2>1, <2>2 DEF SizesInv
  <1>7. CASE UNCHANGED vars
    <2> USE <1>7 DEF vars
    <2>1. SizingInv => SizingInv'
      BY DEF SizingInv, IsUsage, CheckCfg
    <2>2. SizedInv => SizedInv'
      BY DEF SizedInv, IsUsage, CheckCfg, Follows
    <2> QED
      BY <2>1, <2>2 DEF SizesInv
  <1> QED
    BY <1>1, <1>2, <1>3, <1>4, <1>5, <1>6, <1>7 DEF Next

(* arq_init succeeds exactly in memory of at least the size that
   arq_required_size has told, for every configuration whose sizes do not wrap. *)
THEOREM RequiredSizeIsLeast == Spec => []RequiredIsLeast
  <1>1. Init => SizesInv
    BY DEF Init, SizesInv
  <1>2. TypeOK /\ SizesInv => RequiredIsLeast
    <2> SUFFICES ASSUME TypeOK, SizesInv, required # -1, Len(at) = NumRequests,
                        phase \in {"ready", "refused"}, exact
                 PROVE  phase = "ready" <=> la.capacity >= required
      BY DEF RequiredIsLeast
    <2>0. SizedInv
      BY DEF SizesInv
    <2>1. PICK S : /\ IsUsage(S, NumRequests) /\ required = S[NumRequests]
                   /\ Follows(S)
      BY <2>0 DEF SizedInv
    <2>2. la.size \in Nat /\ la.capacity \in Nat /\ la.size <= la.capacity
      BY TypesFacts DEF TypeOK
    <2>3. CASE phase = "ready"
      <3>1. la.size = required
        BY <2>1, <2>3 DEF SizesInv, Follows
      <3> QED
        BY <2>2, <2>3, <3>1
    <2>4. CASE phase = "refused"
      <3>1. PICK k \in 0..NumRequests : S[k] > la.capacity
        BY <2>1, <2>4 DEF SizesInv, Follows
      <3>2. S[k] <= required /\ S[k] \in Nat /\ required \in Nat
        BY <2>1 DEF IsUsage, NumRequests
      <3> QED
        BY <2>2, <2>4, <3>1, <3>2
    <2> QED
      BY <2>3, <2>4
  <1> QED
    BY <1>1, <1>2, SizesInvStep, TypeCorrect, PTL DEF Spec
=============================================================================

-------------------------- MODULE RecvWindowProofs --------------------------
(***************************************************************************)
(* Theorems about RecvWindow, for every window size, message length,       *)
(* segment length and stream of messages, and for the values of Env that   *)
(* each of them names.                                                     *)
(***************************************************************************)
EXTENDS RecvWindow, RecvWndLemmas

----------------------------------------------------------------------------
(* The stream: message after message *)

LenType == len \in [Msgs -> Lens]

MsgBytes(n) == [j \in 1..len[n] |-> Byte(n, j)]

(* The messages before n, and how many bytes they have. *)
Before(n) == StreamUpTo(n - 1)

Start(n) == Len(Before(n))

LEMMA ConcatFacts ==
    ASSUME NEW T, NEW a \in Seq(T), NEW b \in Seq(T)
    PROVE  /\ a \o b \in Seq(T) /\ Len(a \o b) = Len(a) + Len(b)
           /\ \A p \in 1..(Len(a) + Len(b)) :
                 (a \o b)[p] = IF p <= Len(a) THEN a[p] ELSE b[p - Len(a)]
  OBVIOUS

LEMMA SizesFacts ==
    /\ SeqMod \in Nat \ {0} /\ RecvCap \in Nat \ {0} /\ PeerCap \in Nat
    /\ RecvCap + PeerCap < SeqMod /\ PeerCap <= RecvCap
    /\ MsgSegs \in Nat \ {0} /\ SegLen \in Nat \ {0} /\ MsgLen \in Nat \ {0}
    /\ MsgSegs <= VecBits /\ VecBits \in Nat /\ MaxMsgs \in Nat
    /\ InterSeg \in Nat /\ TimeInfinity \in Nat
  <1>1. MsgSegs \in Nat \ {0} /\ SegLen \in Nat \ {0}
    BY MsgSegsAssumption, SegLenAssumption
  <1>2. MsgSegs * SegLen \in Nat \ {0}
    <2>1. 1 * SegLen <= MsgSegs * SegLen
      BY <1>1, TimesMonotone
    <2>2. MsgSegs * SegLen \in Nat
      BY <1>1
    <2> QED
      BY <1>1, <2>1, <2>2
  <1> QED
    BY <1>1, <1>2, SeqModAssumption, RecvCapAssumption, PeerCapAssumption, SeqSpaceAssumption,
       VecBitsAssumption, MaxMsgsAssumption, InterSegAssumption, TimeAssumption DEF MsgLen

LEMMA FcnIsSeq ==
    ASSUME NEW T, NEW m \in Nat, NEW f \in [1..m -> T]
    PROVE  f \in Seq(T) /\ Len(f) = m
  OBVIOUS

LEMMA ByteType ==
    ASSUME NEW n \in Nat, NEW k \in Nat
    PROVE  Byte(n, k) \in Nat
  <1>1. MsgLen * n \in Nat
    BY SizesFacts
  <1> QED
    BY <1>1 DEF Byte

LEMMA LenFacts ==
    ASSUME LenType, NEW n \in Msgs
    PROVE  len[n] \in Nat \ {0} /\ len[n] <= MsgLen
  <1>1. len[n] \in 1..MsgLen
    BY LensAssumption DEF LenType
  <1> QED
    BY <1>1

LEMMA MsgBytesType ==
    ASSUME LenType, NEW n \in Msgs
    PROVE  MsgBytes(n) \in Seq(Nat) /\ Len(MsgBytes(n)) = len[n]
  <1> DEFINE T == Nat
             m == len[n]
             f == [j \in 1..m |-> Byte(n, j)]
  <1>1. m \in Nat /\ n \in Nat
    BY LenFacts DEF Msgs
  <1>2. ASSUME NEW j \in 1..m PROVE Byte(n, j) \in T
    <2>1. j \in Nat
      BY <1>1
    <2> QED
      BY <1>1, <2>1, ByteType
  <1> HIDE DEF T, m
  <1>3. f \in [1..m -> T]
    BY <1>2
  <1> HIDE DEF f
  <1>4. f \in Seq(T) /\ Len(f) = m
    <2>1. m \in Nat
      BY <1>1
    <2> QED
      BY ONLY <1>3, <2>1, FcnIsSeq
  <1>5. MsgBytes(n) = f /\ T = Nat /\ m = len[n]
    BY DEF f, m, T, MsgBytes
  <1> QED
    BY ONLY <1>4, <1>5

LEMMA BeforeFacts ==
    ASSUME LenType
    PROVE  /\ Before(0) = <<>>
           /\ \A n \in Msgs : Before(n + 1) = Before(n) \o MsgBytes(n)
           /\ \A n \in 0..MaxMsgs : Before(n) \in Seq(Nat)
  <1> DEFINE S == Seq(Nat)
             c == <<>>
             M(n) == IF n \in Msgs THEN MsgBytes(n) ELSE <<>>
             step == [x \in Nat \X S |-> x[2] \o M(x[1])]
             D == -1..(MaxMsgs - 1)
             U == CHOOSE u : u = [k \in D |-> IF k < 0 THEN <<>> ELSE u[k - 1] \o MsgBytes(k)]
  <1>1. ASSUME NEW n \in Nat PROVE M(n) \in S
    <2>1. CASE n \in Msgs
      BY <2>1, MsgBytesType
    <2>2. CASE n \notin Msgs
      BY <2>2
    <2> QED
      BY <2>1, <2>2
  <1> HIDE DEF M
  <1>2. c \in S /\ step \in [Nat \X S -> S]
    <2>1. ASSUME NEW x \in Nat \X S PROVE x[2] \o M(x[1]) \in S
      <3>1. x[1] \in Nat /\ x[2] \in S
        OBVIOUS
      <3>2. M(x[1]) \in S
        BY <1>1, <3>1
      <3> QED
        BY <3>1, <3>2
    <2> QED
      BY <2>1
  <1>3. \A n \in Nat : \A q \in S : step[<<n, q>>] = q \o M(n)
    OBVIOUS
  <1> HIDE DEF S, c, step
  <1>4. PICK f : Iterates(f, S, c, step)
    BY <1>2, Recursion
  <1>5. f \in [Nat -> S] /\ f[0] = <<>> /\ \A n \in Nat : f[n + 1] = f[n] \o M(n)
    BY <1>3, <1>4 DEF Iterates, c
  <1> DEFINE g == [k \in D |-> f[k + 1]]
  <1>6. g = [k \in D |-> IF k < 0 THEN <<>> ELSE g[k - 1] \o MsgBytes(k)]
    <2>1. ASSUME NEW k \in D
          PROVE  f[k + 1] = IF k < 0 THEN <<>> ELSE g[k - 1] \o MsgBytes(k)
      <3>1. CASE k = -1
        BY <1>5, <3>1
      <3>2. CASE k \in Msgs
        <4>1. k \in Nat /\ k - 1 \in D /\ (k - 1) + 1 = k /\ ~(k < 0)
          BY <3>2, MaxMsgsAssumption DEF Msgs
        <4>2. g[k - 1] = f[k]
          BY <4>1
        <4>3. M(k) = MsgBytes(k)
          BY <3>2 DEF M
        <4>4. f[k + 1] = f[k] \o M(k)
          BY <1>5, <4>1
        <4> QED
          BY ONLY <4>1, <4>2, <4>3, <4>4
      <3>3. k = -1 \/ k \in Msgs
        BY MaxMsgsAssumption DEF Msgs
      <3> QED
        BY <3>1, <3>2, <3>3
    <2> QED
      BY <2>1
  <1>7. U = [k \in D |-> IF k < 0 THEN <<>> ELSE U[k - 1] \o MsgBytes(k)]
    <2> HIDE DEF g
    <2> QED
      BY <1>6
  <1>8. \A n \in Int : Before(n) = U[n - 1]
    BY Zenon DEF Before, StreamUpTo, MsgBytes
  <1> HIDE DEF U
  <1>9. Before(0) = <<>>
    <2>1. -1 \in D /\ -1 < 0 /\ 0 - 1 = -1 /\ 0 \in Int
      BY MaxMsgsAssumption
    <2>2. U[-1] = <<>>
      BY <1>7, <2>1
    <2>3. Before(0) = U[0 - 1]
      BY <1>8
    <2> QED
      BY <2>1, <2>2, <2>3
  <1>10. ASSUME NEW n \in Msgs PROVE Before(n + 1) = Before(n) \o MsgBytes(n)
    <2>1. n \in D /\ ~(n < 0) /\ n \in Int /\ n + 1 \in Int /\ (n + 1) - 1 = n
      BY MaxMsgsAssumption DEF Msgs
    <2>2. Before(n) = U[n - 1] /\ Before(n + 1) = U[n]
      BY <1>8, <2>1
    <2> QED
      BY <1>7, <2>1, <2>2
  <1> DEFINE T == {n \in Nat : n <= MaxMsgs => Before(n) \in S}
  <1>11. 0 \in T
    BY <1>2, <1>9 DEF c
  <1>12. ASSUME NEW n \in T PROVE n + 1 \in T
    <2> SUFFICES ASSUME n + 1 <= MaxMsgs PROVE Before(n + 1) \in S
      OBVIOUS
    <2>1. n \in Msgs /\ n \in Nat /\ Before(n) \in S
      BY MaxMsgsAssumption DEF Msgs
    <2>2. MsgBytes(n) \in S
      BY <1>1, <2>1 DEF M
    <2>3. \A a, b \in Seq(Nat) : a \o b \in Seq(Nat)
      OBVIOUS
    <2>4. Before(n) \o MsgBytes(n) \in S
      BY <2>1, <2>2, <2>3 DEF S
    <2> QED
      BY <1>10, <2>1, <2>4
  <1> HIDE DEF T
  <1>13. T = Nat
    <2>1. T \subseteq Nat
      BY DEF T
    <2> QED
      BY <1>11, <1>12, <2>1, InductionOnSet
  <1>14. ASSUME NEW n \in 0..MaxMsgs PROVE Before(n) \in Seq(Nat)
    <2>1. n \in T /\ n <= MaxMsgs
      BY <1>13, MaxMsgsAssumption
    <2> QED
      BY <2>1 DEF T, S
  <1> QED
    BY <1>9, <1>10, <1>14

LEMMA StartFacts ==
    ASSUME LenType
    PROVE  /\ Start(0) = 0
           /\ \A n \in Msgs : Start(n + 1) = Start(n) + len[n]
           /\ \A n \in 0..MaxMsgs : Start(n) \in Nat
  <1>1. Start(0) = 0
    BY BeforeFacts DEF Start
  <1>2. ASSUME NEW n \in 0..MaxMsgs PROVE Start(n) \in Nat
    BY BeforeFacts DEF Start
  <1>3. ASSUME NEW n \in Msgs PROVE Start(n + 1) = Start(n) + len[n]
    <2>1. n \in 0..MaxMsgs /\ len[n] \in Nat /\ n \in Nat
      BY LenFacts, MaxMsgsAssumption DEF Msgs
    <2>2. MsgBytes(n) \in Seq(Nat) /\ Len(MsgBytes(n)) = len[n]
      BY MsgBytesType
    <2>3. Before(n) \in Seq(Nat)
      BY <2>1, BeforeFacts
    <2> QED
      BY <2>2, <2>3, BeforeFacts DEF Start
  <1> QED
    BY <1>1, <1>2, <1>3

(* Byte j of message n is where it should be in every stream that has it. *)
LEMMA ByteInStream ==
    ASSUME LenType, NEW n \in Msgs, NEW j \in 1..len[n], NEW m \in (n + 1)..MaxMsgs
    PROVE  Start(n) + j \in 1..Start(m) /\ Before(m)[Start(n) + j] = Byte(n, j)
  <1> DEFINE p == Start(n) + j
             T == {k \in Nat : n + 1 + k <= MaxMsgs =>
                      /\ p <= Start(n + 1 + k) /\ Before(n + 1 + k)[p] = Byte(n, j)}
  <1>0. n \in 0..MaxMsgs /\ n \in Nat /\ len[n] \in Nat /\ MaxMsgs \in Nat
    BY LenFacts, MaxMsgsAssumption DEF Msgs
  <1>1. Start(n) \in Nat /\ p \in Nat \ {0}
    BY <1>0, StartFacts
  <1>2. ASSUME NEW k \in Msgs
        PROVE  /\ Before(k) \in Seq(Nat) /\ MsgBytes(k) \in Seq(Nat)
               /\ Len(MsgBytes(k)) = len[k]
               /\ Before(k + 1) = Before(k) \o MsgBytes(k)
               /\ Start(k) \in Nat /\ len[k] \in Nat
               /\ Start(k + 1) = Start(k) + len[k]
               /\ k \in 0..MaxMsgs
    <2>1. k \in 0..MaxMsgs /\ len[k] \in Nat /\ k \in Nat
      BY LenFacts, MaxMsgsAssumption DEF Msgs
    <2>2. MsgBytes(k) \in Seq(Nat) /\ Len(MsgBytes(k)) = len[k]
      BY MsgBytesType
    <2> QED
      BY <2>1, <2>2, BeforeFacts, StartFacts
  <1>3. 0 \in T
    <2>1. p <= Start(n + 1)
      BY <1>0, <1>1, <1>2
    <2>2. Before(n + 1)[p] = MsgBytes(n)[j]
      <3>1. p = Len(Before(n)) + j
        BY DEF Start
      <3>2. /\ Before(n) \in Seq(Nat) /\ MsgBytes(n) \in Seq(Nat)
            /\ Len(MsgBytes(n)) = len[n] /\ Before(n + 1) = Before(n) \o MsgBytes(n)
        BY <1>2
      <3>3. Len(Before(n)) \in Nat /\ j \in 1..Len(MsgBytes(n)) /\ Len(MsgBytes(n)) \in Nat
        BY <1>0, <3>2
      <3> DEFINE a == Before(n)
                 b == MsgBytes(n)
      <3> HIDE DEF p, a, b
      <3>4. (a \o b)[Len(a) + j] = b[j]
        <4>1. a \in Seq(Nat) /\ b \in Seq(Nat) /\ j \in 1..Len(b)
              /\ Len(a) \in Nat /\ Len(b) \in Nat
          BY <3>2, <3>3 DEF a, b
        <4> QED
          BY ONLY <4>1, ConcatFacts
      <3> QED
        BY <3>1, <3>2, <3>4 DEF a, b
    <2>3. MsgBytes(n)[j] = Byte(n, j)
      BY DEF MsgBytes
    <2>4. n + 1 + 0 = n + 1
      BY <1>0
    <2> QED
      BY <2>1, <2>2, <2>3, <2>4
  <1>4. ASSUME NEW k \in T PROVE k + 1 \in T
    <2> SUFFICES ASSUME n + 1 + (k + 1) <= MaxMsgs
                 PROVE  /\ p <= Start(n + 1 + (k + 1))
                        /\ Before(n + 1 + (k + 1))[p] = Byte(n, j)
      OBVIOUS
    <2> DEFINE l == n + 1 + k
    <2>1. l \in Msgs /\ n + 1 + (k + 1) = l + 1
      BY <1>0 DEF Msgs
    <2>2. p <= Start(l) /\ Before(l)[p] = Byte(n, j)
      BY <1>0
    <2> HIDE DEF l, p
    <2>3. p <= Start(l + 1) /\ p \in 1..Len(Before(l))
      BY <1>1, <1>2, <2>1, <2>2 DEF Start
    <2>4. Before(l + 1)[p] = Before(l)[p]
      BY <1>2, <2>1, <2>3
    <2> QED
      BY <2>1, <2>2, <2>3, <2>4
  <1> HIDE DEF T
  <1>5. T = Nat
    <2>1. T \subseteq Nat
      BY DEF T
    <2> QED
      BY <1>3, <1>4, <2>1, InductionOnSet
  <1>6. m - (n + 1) \in T /\ n + 1 + (m - (n + 1)) = m /\ m <= MaxMsgs /\ m \in 0..MaxMsgs
    BY <1>0, <1>5
  <1>7. p <= Start(m) /\ Before(m)[p] = Byte(n, j)
    <2> HIDE DEF p
    <2> QED
      BY <1>6 DEF T
  <1> QED
    BY <1>1, <1>6, <1>7, StartFacts

----------------------------------------------------------------------------
(* Numbers, slots and cells *)

(* The slot of message n, and the number in its frames. *)
Slot(n) == n % RecvCap

SeqNum(n) == n % SeqMod

LEMMA SlotFacts ==
    ASSUME NEW n \in Nat
    PROVE  /\ Slot(n) \in RecvIdx
           /\ SeqNum(n) \in 0..(SeqMod - 1)
           /\ SeqNum(n) % RecvCap = Slot(n)
  <1>1. Slot(n) \in RecvIdx /\ SeqNum(n) \in 0..(SeqMod - 1)
    BY ModType, SizesFacts DEF Slot, SeqNum, RecvIdx
  <1>0. SeqMod \in Nat \ {0} /\ RecvCap \in Nat \ {0}
    BY SizesFacts
  <1>2. Divides(RecvCap, SeqMod)
    BY SeqSpaceAssumption DEF Divides
  <1>3. ((n % SeqMod) + 0) % RecvCap = (n + 0) % RecvCap
    <2> DEFINE z == 0
    <2>1. z \in Nat
      OBVIOUS
    <2> HIDE DEF z
    <2>2. ((n % SeqMod) + z) % RecvCap = (n + z) % RecvCap
      BY <1>2, <2>1, <1>0, ReduceTwice
    <2> QED
      BY <2>2 DEF z
  <1>4. n + 0 = n /\ (n % SeqMod) + 0 = n % SeqMod
    BY <1>1 DEF SeqNum
  <1> QED
    BY <1>1, <1>3, <1>4 DEF Slot, SeqNum

LEMMA SlotAhead ==
    ASSUME NEW n \in Nat, NEW i \in Nat
    PROVE  (SeqNum(n) + i) % RecvCap = Slot(n + i)
  <1>0. SeqMod \in Nat \ {0} /\ RecvCap \in Nat \ {0}
    BY SizesFacts
  <1>1. Divides(RecvCap, SeqMod)
    BY SeqSpaceAssumption DEF Divides
  <1>2. ((n % SeqMod) + i) % RecvCap = (n + i) % RecvCap
    BY <1>1, <1>0, ReduceTwice
  <1> QED
    BY <1>2 DEF Slot, SeqNum

LEMMA SeqNumAhead ==
    ASSUME NEW n \in Nat, NEW i \in Nat
    PROVE  (SeqNum(n) + i) % SeqMod = SeqNum(n + i)
  <1>0. SeqMod \in Nat \ {0} /\ RecvCap \in Nat \ {0}
    BY SizesFacts
  <1>1. Divides(SeqMod, SeqMod)
    <2>1. (SeqMod * 1 + 0) % SeqMod = 0
      <3>1. 0 \in 0..(SeqMod - 1) /\ 1 \in Nat
        BY SizesFacts
      <3> QED
        BY <3>1, DivUnique, SizesFacts
    <2>2. SeqMod * 1 + 0 = SeqMod
      BY SizesFacts
    <2> QED
      BY <2>1, <2>2 DEF Divides
  <1>2. ((n % SeqMod) + i) % SeqMod = (n + i) % SeqMod
    BY ZenonT(40), <1>1, <1>0, ReduceTwice
  <1> QED
    BY <1>2 DEF SeqNum

LEMMA SlotsDiffer ==
    ASSUME NEW c \in Nat, NEW a \in c..(c + RecvCap - 1), NEW b \in c..(c + RecvCap - 1),
           Slot(a) = Slot(b)
    PROVE  a = b
  BY RingInjective, SizesFacts DEF Slot

LEMMA SlotPeriod ==
    ASSUME NEW a \in Nat, RecvCap <= a
    PROVE  Slot(a - RecvCap) = Slot(a)
  BY RingPeriod, SizesFacts DEF Slot

(* The number of segments of a message, and what the first k of them hold. *)
LEMMA SegCountFacts ==
    ASSUME NEW l \in 1..MsgLen
    PROVE  /\ SegCount(l) \in 1..MsgSegs
           /\ l <= SegLen * SegCount(l)
           /\ \A k \in Nat : k < SegCount(l) => SegLen * k < l
  <1> DEFINE q == SegCount(l)
             r == (l + SegLen - 1) % SegLen
  <1>1. l \in Nat /\ l > 0 /\ SegLen \in Nat \ {0} /\ MsgSegs \in Nat /\ l <= MsgSegs * SegLen
    BY SizesFacts DEF MsgLen
  <1>2. q \in 0..MsgSegs
    BY <1>1, RoundUpBounded DEF SegCount
  <1>3. q \in Nat /\ r \in 0..(SegLen - 1) /\ l + SegLen - 1 = SegLen * q + r
    <2> DEFINE t == l + SegLen - 1
    <2>1. t \in Nat
      BY <1>1
    <2> HIDE DEF t
    <2>2. t \div SegLen \in Nat /\ t % SegLen \in 0..(SegLen - 1)
          /\ t = SegLen * (t \div SegLen) + (t % SegLen)
      BY <1>1, <2>1, DivModFacts
    <2> QED
      BY <2>2 DEF t, SegCount
  <1> HIDE DEF q, r
  <1>4. SegLen * q \in Nat
    BY <1>1, <1>3
  <1>5. l <= SegLen * q
    BY <1>1, <1>3, <1>4
  <1>6. q # 0
    BY <1>1, <1>5
  <1>7. ASSUME NEW k \in Nat, k < q PROVE SegLen * k < l
    <2>1. k + 1 \in Nat /\ k + 1 <= q
      BY <1>3, <1>7
    <2>2. (k + 1) * SegLen <= q * SegLen
      BY <1>1, <1>3, <2>1, TimesMonotone
    <2>3. (k + 1) * SegLen = SegLen * k + SegLen /\ q * SegLen = SegLen * q /\ SegLen * k \in Nat
      BY <1>1, <1>3
    <2> QED
      BY <1>1, <1>3, <1>4, <2>2, <2>3
  <1> QED
    BY <1>2, <1>5, <1>6, <1>7 DEF q

----------------------------------------------------------------------------
(* What a set of the segments of a message holds *)

LEMMA SegsFacts ==
    ASSUME LenType, NEW n \in Msgs
    PROVE  /\ len[n] \in 1..MsgLen /\ len[n] \in Nat
           /\ SegCount(len[n]) \in 1..MsgSegs /\ SegCount(len[n]) \in Nat
           /\ len[n] <= SegLen * SegCount(len[n])
           /\ \A k \in Nat : k < SegCount(len[n]) => SegLen * k < len[n]
           /\ Segs(n) \subseteq Nat /\ Segs(n) \subseteq FullAckVec
           /\ Segs(n) # {} /\ IsFiniteSet(Segs(n)) /\ Cardinality(Segs(n)) = SegCount(len[n])
           /\ Segs(n) \in {AckVec(i) : i \in 0..MsgSegs}
  <1> DEFINE q == SegCount(len[n])
  <1>1. len[n] \in 1..MsgLen /\ len[n] \in Nat
    BY LenFacts, SizesFacts
  <1>2. /\ q \in 1..MsgSegs /\ len[n] <= SegLen * q
        /\ \A k \in Nat : k < q => SegLen * k < len[n]
    BY <1>1, SegCountFacts
  <1>3. Segs(n) = 0..(q - 1)
    BY DEF Segs, AckVec
  <1> HIDE DEF q
  <1>4. q \in Nat /\ q <= MsgSegs /\ q > 0 /\ MsgSegs \in Nat
    BY <1>2, SizesFacts
  <1>5. Segs(n) \subseteq Nat /\ Segs(n) \subseteq FullAckVec /\ Segs(n) # {}
    <2>1. 0 \in 0..(q - 1)
      BY <1>4
    <2> QED
      BY <1>3, <1>4, <2>1 DEF FullAckVec, AckVec
  <1>6. IsFiniteSet(0..(q - 1)) /\ Cardinality(0..(q - 1)) = q
    <2>1. 0 \in Int /\ q - 1 \in Int /\ ~(0 > q - 1) /\ (q - 1) - 0 + 1 = q
      BY <1>4
    <2> QED
      BY <2>1, FS_Interval
  <1>7. Segs(n) \in {AckVec(i) : i \in 0..MsgSegs}
    <2>1. q \in 0..MsgSegs /\ Segs(n) = AckVec(q)
      BY <1>3, <1>4 DEF AckVec
    <2> QED
      BY <2>1
  <1> QED
    BY <1>1, <1>2, <1>3, <1>4, <1>5, <1>6, <1>7 DEF q

Last(n) == SegCount(len[n]) - 1

SegSize(n, k) == Min2(SegLen, len[n] - SegLen * k)

SegEnd(n, k) == SegLen * k + SegSize(n, k)

(* Every segment is of SegLen bytes but the last, which holds what is left. *)
PartLen(n, S) ==
    IF Last(n) \in S THEN SegLen * (Cardinality(S) - 1) + (len[n] - SegLen * Last(n))
                     ELSE SegLen * Cardinality(S)

LEMMA SegSizeFacts ==
    ASSUME LenType, NEW n \in Msgs, NEW k \in Segs(n)
    PROVE  /\ k \in Nat /\ k \in 0..(MsgSegs - 1) /\ k <= Last(n) /\ Last(n) \in Segs(n)
           /\ SegLen * k \in Nat /\ SegLen * k < len[n] /\ len[n] - SegLen * k \in Nat
           /\ SegSize(n, k) \in 0..SegLen /\ SegEnd(n, k) = SegLen * k + SegSize(n, k) /\ SegEnd(n, k) <= len[n]
           /\ SegSize(n, k) = IF k = Last(n) THEN len[n] - SegLen * k ELSE SegLen
           /\ \A x \in Nat : x < len[n] /\ x \in (SegLen * k)..(SegLen * k + SegLen - 1)
                 <=> x \in (SegLen * k)..(SegEnd(n, k) - 1)
  <1> DEFINE q == SegCount(len[n])
             a == SegLen * k
             l == len[n]
             z == SegSize(n, k)
             e == SegEnd(n, k)
  <1>1. /\ l \in Nat /\ q \in 1..MsgSegs /\ q \in Nat /\ l <= SegLen * q
        /\ \A i \in Nat : i < q => SegLen * i < l
    BY SegsFacts
  <1>2. k \in 0..(q - 1)
    BY DEF Segs, AckVec
  <1>3. k \in Nat /\ k < q /\ SegLen \in Nat /\ MsgSegs \in Nat /\ Last(n) = q - 1
    BY <1>1, <1>2, SizesFacts DEF Last
  <1>4. a \in Nat /\ a < l
    BY <1>1, <1>3
  <1>5. z = Min2(SegLen, l - a) /\ e = a + z
    BY DEF SegSize, SegEnd
  <1>6. ASSUME k = q - 1
        PROVE  /\ a \in Nat /\ a < l /\ l - a \in Nat /\ z \in 0..SegLen /\ e <= l
               /\ z = IF k = q - 1 THEN l - a ELSE SegLen
               /\ \A x \in Nat : x < l /\ x \in a..(a + SegLen - 1) <=> x \in a..(e - 1)
    <2>1. SegLen * q = a + SegLen
      BY <1>1, <1>3, <1>6
    <2> HIDE DEF a, l, q, z, e
    <2>2. l - a <= SegLen
      BY <1>1, <1>3, <1>4, <2>1
    <2>3. z = l - a
      BY <1>1, <1>3, <1>4, <1>5, <2>2 DEF Min2
    <2> QED
      BY <1>1, <1>3, <1>4, <1>5, <1>6, <2>2, <2>3
  <1>7. ASSUME k # q - 1
        PROVE  /\ a \in Nat /\ a < l /\ l - a \in Nat /\ z \in 0..SegLen /\ e <= l
               /\ z = IF k = q - 1 THEN l - a ELSE SegLen
               /\ \A x \in Nat : x < l /\ x \in a..(a + SegLen - 1) <=> x \in a..(e - 1)
    <2>1. k + 1 \in Nat /\ k + 1 < q
      BY <1>1, <1>3, <1>7
    <2>2. SegLen * (k + 1) < l /\ SegLen * (k + 1) = a + SegLen
      BY <1>1, <1>3, <2>1
    <2> HIDE DEF a, l, q, z, e
    <2>3. z = SegLen
      BY <1>1, <1>3, <1>4, <1>5, <2>2 DEF Min2
    <2> QED
      BY <1>1, <1>3, <1>4, <1>5, <1>7, <2>2, <2>3
  <1>8. /\ a \in Nat /\ a < l /\ l - a \in Nat /\ z \in 0..SegLen /\ e <= l
        /\ z = IF k = q - 1 THEN l - a ELSE SegLen
        /\ \A x \in Nat : x < l /\ x \in a..(a + SegLen - 1) <=> x \in a..(e - 1)
    BY <1>6, <1>7
  <1>9. k \in 0..(MsgSegs - 1) /\ k <= q - 1 /\ q - 1 \in 0..(q - 1) /\ Segs(n) = 0..(q - 1)
    BY <1>1, <1>2, <1>3 DEF Segs, AckVec
  <1> HIDE DEF a, l, q, z, e
  <1>10. /\ k \in Nat /\ k \in 0..(MsgSegs - 1) /\ k <= Last(n) /\ Last(n) \in Segs(n)
         /\ a \in Nat /\ a < l /\ l - a \in Nat /\ z \in 0..SegLen /\ e = a + z /\ e <= l
         /\ z = IF k = Last(n) THEN l - a ELSE SegLen
         /\ \A x \in Nat : x < l /\ x \in a..(a + SegLen - 1) <=> x \in a..(e - 1)
    BY <1>3, <1>5, <1>8, <1>9
  <1> QED
    BY <1>10 DEF a, l, z, e

LEMMA PartLenGrows ==
    ASSUME LenType, NEW n \in Msgs, NEW S, S \subseteq Segs(n), NEW k \in Segs(n) \ S
    PROVE  PartLen(n, S \cup {k}) = PartLen(n, S) + SegSize(n, k)
  <1> DEFINE c == Cardinality(S)
             d == Cardinality(S \cup {k})
             e == Last(n)
  <1>1. IsFiniteSet(S) /\ S \subseteq Nat
    BY SegsFacts, FS_Subset
  <1>2. c \in Nat /\ d = c + 1
    BY <1>1, FS_CardinalityType, FS_AddElement
  <1>3. /\ k \in Nat /\ SegLen \in Nat /\ SegLen * k \in Nat /\ len[n] - SegLen * k \in Nat
        /\ SegSize(n, k) = IF k = e THEN len[n] - SegLen * k ELSE SegLen
    BY SegSizeFacts, SizesFacts
  <1>4. e \in Nat /\ SegLen * e \in Nat /\ len[n] \in Nat
    <2>1. Segs(n) # {} /\ len[n] \in Nat
      BY SegsFacts
    <2>2. PICK i \in Segs(n) : TRUE
      BY <2>1
    <2>3. e \in Segs(n)
      BY <2>2, SegSizeFacts
    <2> HIDE DEF e
    <2> QED
      BY <2>1, <2>3, SegSizeFacts
  <1>5. e \in S => c >= 1
    <2> SUFFICES ASSUME e \in S, c = 0 PROVE FALSE
      BY <1>2
    <2> QED
      BY <1>1, FS_EmptySet
  <1> DEFINE t == len[n] - SegLen * e
  <1>6. t \in Int
    BY <1>4
  <1>7. SegLen * d = SegLen * c + SegLen /\ SegLen * c \in Nat
        /\ SegLen * (d - 1) = SegLen * c
        /\ SegLen * (c - 1) = SegLen * c - SegLen
    <2>1. SegLen \in Nat /\ c \in Nat /\ d = c + 1
      BY <1>2, SizesFacts
    <2> HIDE DEF c, d
    <2>2. SegLen * d = SegLen * c + SegLen /\ SegLen * c \in Nat /\ d - 1 = c
      BY ONLY <2>1
    <2>3. SegLen * (c - 1) = SegLen * c - SegLen
      BY ONLY <2>1
    <2> QED
      BY <2>2, <2>3
  <1>8. /\ PartLen(n, S) = IF e \in S THEN SegLen * (c - 1) + t ELSE SegLen * c
        /\ PartLen(n, S \cup {k}) = IF e \in S \cup {k} THEN SegLen * (d - 1) + t ELSE SegLen * d
    BY DEF PartLen
  <1> HIDE DEF c, d, e
  <1>9. CASE k = e
    <2>1. SegSize(n, k) = t /\ e \notin S /\ e \in S \cup {k}
      BY <1>3, <1>9
    <2> HIDE DEF t
    <2> QED
      BY <1>6, <1>7, <1>8, <2>1
  <1>10. CASE k # e
    <2>1. SegSize(n, k) = SegLen /\ (e \in S \cup {k} <=> e \in S)
      BY <1>3, <1>10
    <2> HIDE DEF t
    <2> QED
      BY <1>3, <1>6, <1>7, <1>8, <2>1
  <1> QED
    BY <1>9, <1>10

LEMMA PartLenEnds ==
    ASSUME LenType, NEW n \in Msgs
    PROVE  PartLen(n, {}) = 0 /\ PartLen(n, Segs(n)) = len[n]
  <1>1. PartLen(n, {}) = 0
    BY FS_EmptySet, SizesFacts DEF PartLen
  <1>2. Last(n) \in Segs(n) /\ SegLen * Last(n) \in Nat
    <2>1. PICK i \in Segs(n) : TRUE
      BY SegsFacts
    <2>2. Last(n) \in Segs(n)
      BY <2>1, SegSizeFacts
    <2> QED
      BY <2>2, SegSizeFacts
  <1>3. Cardinality(Segs(n)) - 1 = Last(n) /\ len[n] \in Nat
    BY SegsFacts DEF Last
  <1> QED
    BY <1>1, <1>2, <1>3 DEF PartLen

(* The segment that a byte of a message is in. *)
LEMMA SegOfByte ==
    ASSUME NEW x \in Nat, NEW k \in Nat
    PROVE  x \div SegLen = k <=> x \in (SegLen * k)..(SegLen * k + SegLen - 1)
  <1> DEFINE q == x \div SegLen
             r == x % SegLen
             a == SegLen * k
  <1>1. SegLen \in Nat \ {0}
    BY SizesFacts
  <1>2. q \in Nat /\ r \in 0..(SegLen - 1) /\ x = SegLen * q + r
    BY <1>1, DivModFacts
  <1>3. a \in Nat /\ SegLen * q \in Nat
    BY <1>1, <1>2
  <1>4. ASSUME q = k PROVE x \in a..(a + SegLen - 1)
    <2>1. x = a + r
      BY <1>2, <1>4
    <2> HIDE DEF a, r
    <2> QED
      BY <1>1, <1>2, <1>3, <2>1
  <1>5. ASSUME x \in a..(a + SegLen - 1) PROVE q = k
    <2> DEFINE s == x - a
    <2>1. s \in 0..(SegLen - 1) /\ x = a + s
      BY <1>1, <1>3, <1>5
    <2> HIDE DEF s
    <2>2. (SegLen * k + s) \div SegLen = k
      BY <1>1, <2>1, DivUnique
    <2> QED
      BY <2>1, <2>2
  <1> QED
    BY <1>4, <1>5

----------------------------------------------------------------------------
(* The inductive invariant.  c is the first message that arq_recv has not taken in
   full: the slots of the window are those of the messages c, c + 1, ... *)

Arrived(g, n) == n \in Msgs /\ g[n] # {}

Whole(g, n) == g[n] = Segs(n)

(* The window's messages are those from here to before there. *)
WndStart(w, c) == c - w.slide

WndEnd(w, c) == c - w.slide + w.size

Placed(w, g, c) ==
    /\ c \in 0..MaxMsgs /\ w.slide <= c /\ w.slide <= w.size
    /\ w.seq = SeqNum(WndStart(w, c)) /\ w.copy_seq = SeqNum(c)
    /\ WndEnd(w, c) <= MaxMsgs
    /\ \A n \in Msgs : WndEnd(w, c) <= n => g[n] = {}

Progress(g, c) ==
    /\ g \in [Msgs -> SUBSET Nat]
    /\ \A n \in Msgs : g[n] \subseteq Segs(n) /\ (n < c => Whole(g, n))

(* The arq__msg_t of message n when the segments in S are here. *)
PartMsg(n, S) == [len |-> PartLen(n, S), cur_ack_vec |-> S, full_ack_vec |-> Segs(n)]

Held(w, g, n) ==
    /\ w.msg[Slot(n)] = IF Arrived(g, n) THEN PartMsg(n, g[n]) ELSE EmptyMsg
    /\ Arrived(g, n) =>
          \A x \in 0..(len[n] - 1) :
             x \div SegLen \in g[n] => w.buf[Cell(Slot(n), x)] = Byte(n, x + 1)

Slots(w, g, c) == \A n \in c..(c + RecvCap - 1) : Held(w, g, n)

WndInv(w, g, c) ==
    /\ RecvWndOK(w)
    /\ Placed(w, g, c)
    /\ Progress(g, c)
    /\ Slots(w, g, c)

(* A segment of message n may arrive. *)
InView(w, c, n) == n \in Msgs /\ c <= n /\ n < WndEnd(w, c) + PeerCap

LEMMA WndFields ==
    ASSUME NEW w, RecvWndOK(w)
    PROVE  /\ w \in RecvWndType /\ w.buf \in [RecvBufIdx -> Nat]
           /\ w.msg \in [RecvIdx -> MsgType] /\ w.ack \in [RecvIdx -> BOOLEAN]
           /\ w.seq \in Nat /\ w.copy_seq \in Nat /\ w.copy_ofs \in Nat
           /\ w.slide \in Nat /\ w.size \in 0..RecvCap /\ w.size \in Nat
           /\ w.inter_seg_ack \in Nat /\ w.inter_seg_ack_seq \in 0..(SeqMod - 1)
  BY SizesFacts DEF RecvWndOK, RecvWndType

LEMMA WndNumbers ==
    ASSUME NEW w, RecvWndOK(w), NEW g, NEW c, Placed(w, g, c)
    PROVE  /\ c \in Nat /\ w.slide \in Nat /\ w.size \in Nat
           /\ w.slide <= c /\ w.slide <= w.size /\ w.size <= RecvCap
           /\ WndStart(w, c) \in Nat /\ WndStart(w, c) = c - w.slide
           /\ WndEnd(w, c) \in Nat /\ WndEnd(w, c) = c - w.slide + w.size
           /\ c <= WndEnd(w, c) /\ WndEnd(w, c) <= c + RecvCap
  <1>1. w.slide \in Nat /\ w.size \in 0..RecvCap
    BY WndFields
  <1>2. /\ c \in Nat /\ w.slide \in Nat /\ w.size \in Nat /\ w.slide <= c
        /\ w.slide <= w.size /\ w.size <= RecvCap
    BY <1>1, SizesFacts DEF Placed
  <1> QED
    BY <1>2, SizesFacts DEF WndStart, WndEnd

(* Which segments the window takes: those of the messages for which a slot is free. *)
LEMMA ReachFacts ==
    ASSUME NEW w, RecvWndOK(w), NEW g, NEW c, Placed(w, g, c), NEW n, InView(w, c, n)
    PROVE  /\ NewSize(w, SeqNum(n)) = n - WndStart(w, c) + 1
           /\ InReach(w, SeqNum(n)) <=> n < c + RecvCap
  <1> DEFINE s == WndStart(w, c)
  <1>1. /\ c \in Nat /\ w.slide \in Nat /\ w.size \in Nat
        /\ w.slide <= c /\ w.slide <= w.size /\ w.size <= RecvCap
        /\ s \in Nat /\ s = c - w.slide
        /\ WndEnd(w, c) = c - w.slide + w.size
    BY WndNumbers
  <1>2. n \in Nat /\ c <= n /\ n < WndEnd(w, c) + PeerCap
    BY SizesFacts DEF InView, Msgs
  <1>3. w.seq = SeqNum(s)
    BY DEF Placed
  <1> HIDE DEF s
  <1>4. n - s + 1 \in 0..(SeqMod - 1)
    BY <1>1, <1>2, SizesFacts
  <1>5. ((n % SeqMod) - (s % SeqMod) + 1) % SeqMod = n - s + 1
    <2>1. SeqMod \in Nat \ {0}
      BY SizesFacts
    <2> QED
      BY <1>1, <1>2, <1>4, <2>1, ReducedDistance
  <1>6. NewSize(w, SeqNum(n)) = n - s + 1
    BY <1>3, <1>5 DEF NewSize, SeqNum
  <1> DEFINE m == n - s + 1
  <1>7. InReach(w, SeqNum(n)) <=> m <= RecvCap \/ m - w.slide \in 0..RecvCap
    BY <1>6 DEF InReach
  <1>8. m <= RecvCap \/ m - w.slide \in 0..RecvCap <=> n < c + RecvCap
    BY <1>1, <1>2, SizesFacts
  <1> QED
    BY <1>6, <1>7, <1>8 DEF s

SameAcks(w2, w) ==
    /\ w2.ack = w.ack /\ w2.inter_seg_ack_on = w.inter_seg_ack_on
    /\ w2.inter_seg_ack_seq = w.inter_seg_ack_seq

(* Making room for message n changes no slot. *)
LEMMA SlideKeeps ==
    ASSUME NEW w, NEW g, NEW c, WndInv(w, g, c), NEW n, InView(w, c, n), n < c + RecvCap
    PROVE  /\ WndInv(Slide(w, SeqNum(n)), g, c)
           /\ n < WndEnd(Slide(w, SeqNum(n)), c)
           /\ SameAcks(Slide(w, SeqNum(n)), w)
  <1> DEFINE m  == NewSize(w, SeqNum(n))
             w2 == Slide(w, SeqNum(n))
  <1>0. RecvWndOK(w) /\ w \in RecvWndType /\ Placed(w, g, c)
    BY DEF WndInv, RecvWndOK
  <1>1. /\ c \in Nat /\ w.slide \in Nat /\ w.size \in Nat
        /\ w.slide <= c /\ w.slide <= w.size /\ w.size <= RecvCap
        /\ WndStart(w, c) = c - w.slide /\ WndStart(w, c) \in Nat
        /\ WndEnd(w, c) = c - w.slide + w.size
    BY <1>0, WndNumbers
  <1>2. n \in Msgs /\ n \in Nat /\ n < MaxMsgs /\ c <= n
    BY SizesFacts DEF InView, Msgs
  <1>3. m = n - (c - w.slide) + 1
    BY <1>0, <1>1, ReachFacts
  <1> HIDE DEF m
  <1>7. InReach(w, SeqNum(n)) /\ SeqNum(n) \in 0..(SeqMod - 1)
    BY <1>0, <1>2, ReachFacts, SlotFacts
  <1>4. CASE m > RecvCap
    <2>1. w2 = [w EXCEPT !.size = m - w.slide, !.seq = (w.seq + w.slide) % SeqMod, !.slide = 0]
      BY <1>0, <1>4 DEF Slide, m, RecvWndType
    <2>2. (w.seq + w.slide) % SeqMod = SeqNum(c)
      <3>1. w.seq = SeqNum(WndStart(w, c))
        BY <1>0 DEF Placed
      <3>2. (SeqNum(WndStart(w, c)) + w.slide) % SeqMod = SeqNum(WndStart(w, c) + w.slide)
        BY <1>1, SeqNumAhead
      <3>3. WndStart(w, c) + w.slide = c
        BY <1>1
      <3> QED
        BY <3>1, <3>2, <3>3
    <2>3. m - w.slide \in 0..RecvCap /\ m - w.slide = n - c + 1
      BY <1>1, <1>2, <1>3, SizesFacts
    <2>4. SeqNum(c) \in 0..(SeqMod - 1) /\ 0 \in 0..RecvCap
      BY <1>1, SlotFacts, SizesFacts
    <2>5. RecvWndOK(w2)
      BY <1>0, <1>7, SlideOK
    <2>6. /\ w2.slide = 0 /\ w2.size = n - c + 1 /\ w2.seq = SeqNum(c)
          /\ w2.copy_seq = w.copy_seq
          /\ w2.msg = w.msg /\ w2.buf = w.buf /\ SameAcks(w2, w)
      BY <1>0, <2>1, <2>2, <2>3 DEF RecvWndType, SameAcks
    <2> HIDE DEF w2
    <2>7. WndStart(w2, c) = c /\ WndEnd(w2, c) = n + 1
      BY <1>1, <1>2, <2>6 DEF WndStart, WndEnd
    <2>8. Placed(w2, g, c)
      <3>1. w2.copy_seq = SeqNum(c) /\ c \in 0..MaxMsgs
        BY <1>0, <2>6 DEF Placed
      <3>2. ASSUME NEW k \in Msgs, n + 1 <= k PROVE g[k] = {}
        <4>1. WndEnd(w, c) <= k
          BY <1>1, <1>2, <1>3, <1>4, <3>2, SizesFacts DEF Msgs
        <4> QED
          BY <1>0, <4>1 DEF Placed
      <3>3. w2.slide <= c /\ w2.slide <= w2.size /\ n + 1 <= MaxMsgs
        BY <1>1, <1>2, <2>6, SizesFacts
      <3> QED
        BY <2>6, <2>7, <3>1, <3>2, <3>3 DEF Placed
    <2>9. Slots(w2, g, c)
      BY <2>6 DEF WndInv, Slots, Held
    <2>10. n < WndEnd(w2, c)
      BY <1>2, <2>7
    <2> QED
      BY <2>5, <2>6, <2>8, <2>9, <2>10 DEF WndInv, w2
  <1>5. CASE m <= RecvCap
    <2>1. w2 = [w EXCEPT !.size = Max2(w.size, m)]
      <3>1. ~(m > RecvCap)
        BY <1>1, <1>2, <1>3, <1>5, SizesFacts
      <3> QED
        BY <1>0, <3>1 DEF Slide, m, RecvWndType
    <2>2. Max2(w.size, m) \in 0..RecvCap /\ Max2(w.size, m) >= w.size /\ Max2(w.size, m) >= m
          /\ (Max2(w.size, m) = w.size \/ Max2(w.size, m) = m)
      BY <1>1, <1>2, <1>3, <1>5, SizesFacts DEF Max2
    <2> DEFINE z == Max2(w.size, m)
    <2> HIDE DEF z
    <2>3. RecvWndOK(w2)
      BY <1>0, <1>7, SlideOK
    <2>4. /\ w2.slide = w.slide /\ w2.size = z /\ w2.seq = w.seq
          /\ w2.copy_seq = w.copy_seq
          /\ w2.msg = w.msg /\ w2.buf = w.buf /\ SameAcks(w2, w)
      BY <1>0, <2>1 DEF RecvWndType, z, SameAcks
    <2> HIDE DEF w2
    <2>5. z \in Nat /\ z >= w.size /\ z >= m /\ (z = w.size \/ z = m)
      BY <2>2, SizesFacts DEF z
    <2>6. WndStart(w2, c) = WndStart(w, c) /\ WndEnd(w2, c) = c - w.slide + z
      BY <2>4 DEF WndStart, WndEnd
    <2>7. WndEnd(w, c) <= WndEnd(w2, c) /\ n < WndEnd(w2, c) /\ WndEnd(w2, c) \in Nat
      BY <1>1, <1>2, <1>3, <2>5, <2>6
    <2>8. Placed(w2, g, c)
      <3>1. WndEnd(w2, c) <= MaxMsgs
        <4>1. WndEnd(w, c) <= MaxMsgs
          BY <1>0 DEF Placed
        <4> QED
          BY <1>1, <1>2, <1>3, <2>5, <2>6, <4>1, SizesFacts
      <3>2. ASSUME NEW k \in Msgs, WndEnd(w2, c) <= k PROVE g[k] = {}
        <4>1. WndEnd(w, c) <= k
          BY <1>1, <2>7, <3>2 DEF Msgs
        <4> QED
          BY <1>0, <4>1 DEF Placed
      <3>3. w2.slide <= w2.size
        BY <1>1, <2>4, <2>5
      <3> QED
        BY <1>0, <2>4, <2>6, <3>1, <3>2, <3>3 DEF Placed
    <2>9. Slots(w2, g, c)
      BY <2>4 DEF WndInv, Slots, Held
    <2> QED
      BY <2>3, <2>4, <2>7, <2>8, <2>9 DEF WndInv, w2
  <1>6. m \in Int
    BY <1>1, <1>2, <1>3
  <1> QED
    BY <1>4, <1>5, <1>6, SizesFacts

----------------------------------------------------------------------------
(* A segment is stored *)

(* What is known of the slot of a message, whether any of it is here or not. *)
LEMMA HeldFacts ==
    ASSUME LenType, NEW w, NEW g, NEW c, WndInv(w, g, c), NEW n \in Msgs, c <= n, n < c + RecvCap
    PROVE  /\ g[n] \subseteq Segs(n)
           /\ w.msg[Slot(n)].cur_ack_vec = g[n]
           /\ w.msg[Slot(n)].len = PartLen(n, g[n])
           /\ g[n] # {} => w.msg[Slot(n)] = PartMsg(n, g[n])
  <1>1. g[n] \subseteq Segs(n)
    BY DEF WndInv, Progress
  <1>2. n \in c..(c + RecvCap - 1)
    BY SizesFacts DEF WndInv, Placed, Msgs
  <1>3. Held(w, g, n)
    BY <1>2 DEF WndInv, Slots
  <1>4. CASE g[n] # {}
    BY <1>1, <1>3, <1>4 DEF Held, Arrived, PartMsg
  <1>5. CASE g[n] = {}
    <2>1. w.msg[Slot(n)] = EmptyMsg
      BY <1>3, <1>5 DEF Held, Arrived
    <2>2. PartLen(n, g[n]) = 0
      BY <1>5, PartLenEnds
    <2> QED
      BY <1>1, <1>5, <2>1, <2>2 DEF EmptyMsg
  <1> QED
    BY <1>4, <1>5

LEMMA StoreBuf ==
    ASSUME LenType, NEW n \in Msgs, NEW k \in Segs(n), NEW buf \in [RecvBufIdx -> Nat]
    PROVE  LET data == SegData(n, k)
               dst  == MsgLen * Slot(n) + SegLen * k
               buf2 == [j \in RecvBufIdx |-> IF j \in dst..(dst + Len(data) - 1)
                                             THEN data[j - dst + 1] ELSE buf[j]]
           IN /\ Len(data) = SegSize(n, k) /\ data \in Seq(Nat) /\ Len(data) <= SegLen
              /\ \A i \in RecvIdx, x \in 0..(MsgLen - 1) :
                    buf2[Cell(i, x)] =
                       IF i = Slot(n) /\ x \in (SegLen * k)..(SegEnd(n, k) - 1)
                       THEN Byte(n, x + 1) ELSE buf[Cell(i, x)]
  <1> DEFINE a    == SegLen * k
             L    == SegSize(n, k)
             data == SegData(n, k)
             dst  == MsgLen * Slot(n) + a
             buf2 == [j \in RecvBufIdx |-> IF j \in dst..(dst + Len(data) - 1)
                                           THEN data[j - dst + 1] ELSE buf[j]]
             e    == SegEnd(n, k)
  <1>1. a \in Nat /\ L \in 0..SegLen /\ e = a + L /\ e \in 0..MsgLen
    <2>1. a \in Nat /\ L \in 0..SegLen /\ e = a + L /\ e <= len[n]
      BY SegSizeFacts
    <2>2. len[n] \in Nat /\ len[n] <= MsgLen
      BY LenFacts
    <2> HIDE DEF a, L, e
    <2> QED
      BY <2>1, <2>2, SizesFacts
  <1>2. L \in Nat /\ L <= SegLen
    BY <1>1, SizesFacts
  <1>3. data = [j \in 1..L |-> Byte(n, a + j)]
    BY DEF SegData, SegSize
  <1>4. n \in Nat /\ Slot(n) \in RecvIdx /\ Slot(n) \in Nat
    BY SlotFacts, SizesFacts DEF Msgs, RecvIdx
  <1> HIDE DEF a, L, e
  <1>5. dst = Slot(n) * MsgLen + a /\ Slot(n) * MsgLen \in Nat /\ dst \in Nat
    <2>1. MsgLen * Slot(n) = Slot(n) * MsgLen /\ Slot(n) * MsgLen \in Nat
      BY <1>4, SizesFacts
    <2> QED
      BY <1>1, <2>1
  <1>6. data \in Seq(Nat) /\ Len(data) = L
    <2>1. \A j \in 1..L : Byte(n, a + j) \in Nat
      <3> SUFFICES ASSUME NEW j \in 1..L PROVE Byte(n, a + j) \in Nat
        OBVIOUS
      <3>1. a + j \in Nat
        BY <1>1, <1>2
      <3> QED
        BY <1>4, <3>1, ByteType
    <2>2. data \in [1..L -> Nat]
      BY <1>3, <2>1
    <2> HIDE DEF data
    <2> QED
      BY <1>2, <2>2, FcnIsSeq
  <1>7. \A j \in 1..L : data[j] = Byte(n, a + j)
    BY <1>3
  <1> HIDE DEF data
  <1>10. ASSUME NEW i \in RecvIdx, NEW x \in 0..(MsgLen - 1)
         PROVE  buf2[Cell(i, x)] = IF i = Slot(n) /\ x \in a..(e - 1)
                                   THEN Byte(n, x + 1) ELSE buf[Cell(i, x)]
    <2>1. Cell(i, x) \in RecvBufIdx
      BY CellFacts
    <2>2. CASE i = Slot(n) /\ x \in a..(e - 1)
      <3>1. x - a + 1 \in 1..L /\ a + (x - a + 1) = x + 1
        BY <1>1, <1>2, <2>2
      <3>2. Cell(i, x) \in dst..(dst + L - 1) /\ Cell(i, x) - dst + 1 = x - a + 1
        <4> DEFINE s == Slot(n) * MsgLen
        <4>1. s \in Nat /\ dst = s + a /\ Cell(i, x) = s + x
          BY <1>5, <2>2 DEF Cell
        <4> HIDE DEF s, dst
        <4> QED
          BY <1>1, <1>2, <2>2, <4>1
      <3> HIDE DEF dst
      <3>3. buf2[Cell(i, x)] = data[x - a + 1]
        BY <1>6, <2>1, <3>2
      <3> QED
        BY <1>7, <2>2, <3>1, <3>3
    <2>3. CASE ~(i = Slot(n) /\ x \in a..(e - 1))
      <3>1. ASSUME Cell(i, x) \in dst..(dst + L - 1) PROVE FALSE
        <4> DEFINE y == Cell(i, x) - dst + a
        <4>1. y \in a..(e - 1) /\ y \in 0..(MsgLen - 1) /\ Cell(Slot(n), y) = Cell(i, x)
          <5> DEFINE s == Slot(n) * MsgLen
                     z == Cell(i, x)
          <5>1. s \in Nat /\ dst = s + a /\ Cell(Slot(n), y) = s + y
            BY <1>5 DEF Cell
          <5>2. z \in dst..(dst + L - 1) /\ y = z - dst + a
            BY <3>1
          <5> HIDE DEF s, z, dst, y
          <5>3. z = s + y /\ y \in a..(e - 1) /\ y \in 0..(MsgLen - 1)
            BY <1>1, <1>2, <5>1, <5>2, SizesFacts
          <5> QED
            BY <5>1, <5>3 DEF z
        <4> HIDE DEF y
        <4>2. i = Slot(n) /\ x = y
          BY <1>4, <4>1, CellFacts
        <4> QED
          BY <2>3, <4>1, <4>2
      <3> HIDE DEF dst
      <3> QED
        BY <1>6, <2>1, <2>3, <3>1
    <2> QED
      BY <2>2, <2>3
  <1>11. Len(data) = L /\ data \in Seq(Nat) /\ Len(data) <= SegLen
    BY <1>2, <1>6
  <1> HIDE DEF dst
  <1> DEFINE new == buf2
  <1>12. \A i \in RecvIdx, x \in 0..(MsgLen - 1) :
            new[Cell(i, x)] = IF i = Slot(n) /\ x \in a..(e - 1)
                              THEN Byte(n, x + 1) ELSE buf[Cell(i, x)]
    BY <1>10
  <1> HIDE DEF new
  <1>13. /\ Len(data) = L /\ data \in Seq(Nat) /\ Len(data) <= SegLen
         /\ \A i \in RecvIdx, x \in 0..(MsgLen - 1) :
               new[Cell(i, x)] = IF i = Slot(n) /\ x \in a..(e - 1)
                                 THEN Byte(n, x + 1) ELSE buf[Cell(i, x)]
    BY <1>11, <1>12
  <1> QED
    BY ONLY <1>13 DEF a, L, e, data, dst, new

(* What storing segment k of message n changes, when those in S are here. *)
Stored(w2, w, n, S, k) ==
    /\ RecvWndOK(w2)
    /\ w2.seq = w.seq /\ w2.size = w.size /\ w2.slide = w.slide
    /\ w2.copy_seq = w.copy_seq /\ w2.copy_ofs = w.copy_ofs
    /\ w2.msg = [w.msg EXCEPT ![Slot(n)] = PartMsg(n, S \cup {k})]
    /\ \A i \in RecvIdx, x \in 0..(MsgLen - 1) :
          w2.buf[Cell(i, x)] =
             IF i = Slot(n) /\ x \in (SegLen * k)..(SegEnd(n, k) - 1)
             THEN Byte(n, x + 1) ELSE w.buf[Cell(i, x)]
    /\ \A i \in RecvIdx \ {Slot(n)} : w2.ack[i] = w.ack[i]
    /\ w2.inter_seg_ack_on => k # Last(n) /\ w2.inter_seg_ack_seq = SeqNum(n)

LEMMA StoreFields ==
    ASSUME LenType, NEW w, NEW g, NEW c, WndInv(w, g, c),
           NEW n \in Msgs, c <= n, n < c + RecvCap, NEW k \in Segs(n) \ g[n]
    PROVE  Stored(StoreSeg(w, SeqNum(n), k, SegCount(len[n]), SegData(n, k)), w, n, g[n], k)
  <1> DEFINE cnt  == SegCount(len[n])
             data == SegData(n, k)
             dst  == MsgLen * Slot(n) + SegLen * k
             buf2 == [j \in RecvBufIdx |-> IF j \in dst..(dst + Len(data) - 1)
                                           THEN data[j - dst + 1] ELSE w.buf[j]]
             part == PartMsg(n, g[n] \cup {k})
             msg2 == [w.msg EXCEPT ![Slot(n)] = part]
             new  == [w EXCEPT !.buf = buf2, !.msg = msg2]
             w2   == StoreSeg(w, SeqNum(n), k, cnt, data)
  <1>1. RecvWndOK(w) /\ w \in RecvWndType
    BY DEF WndInv, RecvWndOK
  <1>2. n \in Nat /\ k \in 0..(MsgSegs - 1) /\ cnt \in 0..MsgSegs
    <2>1. n \in Nat /\ k \in 0..(MsgSegs - 1)
      BY SegSizeFacts, SizesFacts DEF Msgs
    <2>2. cnt \in 0..MsgSegs
      BY SegsFacts, SizesFacts
    <2> QED
      BY <2>1, <2>2
  <1>3. SeqNum(n) % RecvCap = Slot(n) /\ Slot(n) \in RecvIdx /\ SeqNum(n) \in 0..(SeqMod - 1)
    BY <1>2, SlotFacts
  <1>4. /\ g[n] \subseteq Segs(n)
        /\ w.msg[Slot(n)].cur_ack_vec = g[n]
        /\ w.msg[Slot(n)].len = PartLen(n, g[n])
    BY HeldFacts
  <1>5. PartLen(n, g[n] \cup {k}) = PartLen(n, g[n]) + SegSize(n, k)
    BY <1>4, PartLenGrows
  <1>6. w.buf \in [RecvBufIdx -> Nat] /\ w.msg \in [RecvIdx -> MsgType]
        /\ w.ack \in [RecvIdx -> BOOLEAN]
    BY <1>1 DEF RecvWndType
  <1>7. /\ Len(data) = SegSize(n, k) /\ data \in Seq(Nat) /\ Len(data) <= SegLen
        /\ \A i \in RecvIdx, x \in 0..(MsgLen - 1) :
              buf2[Cell(i, x)] =
                 IF i = Slot(n) /\ x \in (SegLen * k)..(SegEnd(n, k) - 1)
                 THEN Byte(n, x + 1) ELSE w.buf[Cell(i, x)]
    BY <1>6, StoreBuf
  <1>8. part = [len |-> w.msg[Slot(n)].len + Len(data),
                cur_ack_vec |-> w.msg[Slot(n)].cur_ack_vec \cup {k},
                full_ack_vec |-> AckVec(cnt)]
    BY <1>4, <1>5, <1>7 DEF PartMsg, Segs
  <1>9. RecvWndOK(w2)
    <2>1. k \notin w.msg[SeqNum(n) % RecvCap].cur_ack_vec
      BY <1>3, <1>4
    <2> HIDE DEF data, cnt
    <2> QED
      BY <1>1, <1>2, <1>3, <1>7, <2>1, StoreSegOK
  <1>10. w2 = NoteSeg(new, SeqNum(n), k = cnt - 1)
    <2> HIDE DEF cnt, part, data
    <2> QED
      BY <1>1, <1>3, <1>8 DEF StoreSeg, RecvWndType
  <1>11. Last(n) = cnt - 1
    BY DEF Last
  <1> HIDE DEF w2, cnt, part, buf2, msg2, data
  <1>12. /\ new.buf = buf2 /\ new.msg = msg2 /\ new.ack = w.ack
         /\ new.seq = w.seq /\ new.size = w.size /\ new.slide = w.slide
         /\ new.copy_seq = w.copy_seq /\ new.copy_ofs = w.copy_ofs
    BY <1>1 DEF RecvWndType
  <1>13. /\ w2.seq = w.seq /\ w2.size = w.size /\ w2.slide = w.slide
         /\ w2.copy_seq = w.copy_seq /\ w2.copy_ofs = w.copy_ofs
         /\ w2.msg = msg2 /\ w2.buf = buf2
         /\ \A i \in RecvIdx \ {Slot(n)} : w2.ack[i] = w.ack[i]
         /\ w2.inter_seg_ack_on => k # cnt - 1 /\ w2.inter_seg_ack_seq = SeqNum(n)
    <2>1. CASE k = cnt - 1
      <3>1. w2 = [new EXCEPT !.ack[Slot(n)] = TRUE, !.inter_seg_ack_on = FALSE]
        BY <1>3, <1>10, <2>1 DEF NoteSeg
      <3> QED
        BY <1>1, <1>3, <1>6, <3>1 DEF RecvWndType
    <2>2. CASE k # cnt - 1
      <3>1. w2 = [new EXCEPT !.inter_seg_ack = InterSeg, !.inter_seg_ack_seq = SeqNum(n),
                             !.inter_seg_ack_on = TRUE]
        BY <1>10, <2>2 DEF NoteSeg
      <3> QED
        BY <1>1, <2>2, <3>1 DEF RecvWndType
    <2> QED
      BY <2>1, <2>2
  <1>14. \A i \in RecvIdx, x \in 0..(MsgLen - 1) :
            w2.buf[Cell(i, x)] =
               IF i = Slot(n) /\ x \in (SegLen * k)..(SegEnd(n, k) - 1)
               THEN Byte(n, x + 1) ELSE w.buf[Cell(i, x)]
    <2>1. w2.buf = buf2
      BY <1>13
    <2> QED
      BY ONLY <1>7, <2>1 DEF buf2
  <1>15. msg2 = [w.msg EXCEPT ![Slot(n)] = PartMsg(n, g[n] \cup {k})]
    BY DEF msg2, part
  <1>16. Stored(w2, w, n, g[n], k)
    BY ONLY <1>9, <1>11, <1>13, <1>14, <1>15 DEF Stored
  <1> QED
    BY <1>16 DEF w2, cnt, data

LEMMA StoreKeeps ==
    ASSUME LenType, NEW w, NEW g, NEW c, WndInv(w, g, c),
           NEW n \in Msgs, c <= n, n < WndEnd(w, c), NEW k \in Segs(n) \ g[n]
    PROVE  WndInv(StoreSeg(w, SeqNum(n), k, SegCount(len[n]), SegData(n, k)),
                  [g EXCEPT ![n] = @ \cup {k}], c)
  <1> DEFINE g2 == [g EXCEPT ![n] = @ \cup {k}]
             w2 == StoreSeg(w, SeqNum(n), k, SegCount(len[n]), SegData(n, k))
             a  == SegLen * k
             e  == SegEnd(n, k)
  <1>1. /\ c \in Nat /\ WndEnd(w, c) <= c + RecvCap /\ WndEnd(w, c) \in Nat /\ n \in Nat
        /\ n \in c..(c + RecvCap - 1) /\ n < c + RecvCap
    <2>1. c \in Nat /\ WndEnd(w, c) <= c + RecvCap /\ WndEnd(w, c) \in Nat
      BY WndNumbers DEF WndInv
    <2> QED
      BY <2>1, SizesFacts DEF Msgs
  <1>3. /\ RecvWndOK(w2)
        /\ w2.seq = w.seq /\ w2.size = w.size /\ w2.slide = w.slide
        /\ w2.copy_seq = w.copy_seq
        /\ w2.msg = [w.msg EXCEPT ![Slot(n)] = PartMsg(n, g[n] \cup {k})]
        /\ \A i \in RecvIdx, x \in 0..(MsgLen - 1) :
              w2.buf[Cell(i, x)] = IF i = Slot(n) /\ x \in a..(e - 1)
                                   THEN Byte(n, x + 1) ELSE w.buf[Cell(i, x)]
    <2>1. Stored(w2, w, n, g[n], k)
      BY <1>1, StoreFields
    <2> HIDE DEF w2
    <2>2. \A i \in RecvIdx, x \in 0..(MsgLen - 1) :
             w2.buf[Cell(i, x)] = IF i = Slot(n) /\ x \in a..(e - 1)
                                  THEN Byte(n, x + 1) ELSE w.buf[Cell(i, x)]
      BY ONLY <2>1 DEF Stored
    <2>3. /\ RecvWndOK(w2)
          /\ w2.seq = w.seq /\ w2.size = w.size /\ w2.slide = w.slide
          /\ w2.copy_seq = w.copy_seq
          /\ w2.msg = [w.msg EXCEPT ![Slot(n)] = PartMsg(n, g[n] \cup {k})]
      BY ONLY <2>1 DEF Stored
    <2> QED
      BY <2>2, <2>3
  <1>4. /\ k \in Nat /\ SegLen \in Nat
        /\ \A x \in Nat : x < len[n] /\ x \in a..(a + SegLen - 1) <=> x \in a..(e - 1)
    BY SegSizeFacts, SizesFacts
  <1> HIDE DEF w2, e
  <1>5. /\ g \in [Msgs -> SUBSET Nat] /\ g2 \in [Msgs -> SUBSET Nat]
        /\ g2[n] = g[n] \cup {k} /\ \A i \in Msgs \ {n} : g2[i] = g[i]
    BY <1>4 DEF WndInv, Progress
  <1> HIDE DEF g2
  <1>6. Placed(w2, g2, c)
    <2>1. WndStart(w2, c) = WndStart(w, c) /\ WndEnd(w2, c) = WndEnd(w, c)
      BY <1>3 DEF WndStart, WndEnd
    <2>2. ASSUME NEW i \in Msgs, WndEnd(w, c) <= i PROVE g2[i] = {}
      <3>1. i # n
        BY <1>1, <2>2
      <3> QED
        BY <1>5, <2>2, <3>1 DEF WndInv, Placed
    <2> QED
      BY <1>3, <2>1, <2>2 DEF WndInv, Placed
  <1>7. Progress(g2, c)
    <2>1. ASSUME NEW i \in Msgs
          PROVE  g2[i] \subseteq Segs(i) /\ (i < c => Whole(g2, i))
      <3>1. CASE i = n
        <4>1. ~(n < c)
          BY <1>1
        <4>2. g[n] \subseteq Segs(n)
          BY DEF WndInv, Progress
        <4> QED
          BY <1>5, <3>1, <4>1, <4>2
      <3>2. CASE i # n
        BY <1>5, <3>2 DEF WndInv, Progress, Whole
      <3> QED
        BY <3>1, <3>2
    <2> QED
      BY <1>5, <2>1 DEF Progress
  <1>8. ASSUME NEW i \in c..(c + RecvCap - 1) PROVE Held(w2, g2, i)
    <2>0. i \in Nat /\ Slot(i) \in RecvIdx /\ Slot(n) \in RecvIdx
      BY <1>1, SlotFacts, SizesFacts
    <2>1. Held(w, g, i)
      BY DEF WndInv, Slots
    <2>2. w.msg \in [RecvIdx -> MsgType]
      BY WndFields DEF WndInv
    <2>4. ASSUME i \in Msgs PROVE \A x \in 0..(len[i] - 1) : x \in 0..(MsgLen - 1) /\ x \in Nat
      BY <2>4, LenFacts, SizesFacts
    <2>3. CASE i # n
      <3>1. Slot(i) # Slot(n)
        BY <1>1, <2>3, SlotsDiffer
      <3>2. w2.msg[Slot(i)] = w.msg[Slot(i)]
        BY <1>3, <2>0, <2>2, <3>1
      <3>3. i \in Msgs => g2[i] = g[i]
        BY <1>5, <2>3
      <3>4. ASSUME Arrived(g2, i), NEW x \in 0..(len[i] - 1), x \div SegLen \in g2[i]
            PROVE  w2.buf[Cell(Slot(i), x)] = Byte(i, x + 1)
        <4>1. i \in Msgs /\ Arrived(g, i) /\ x \div SegLen \in g[i]
          BY <3>3, <3>4 DEF Arrived
        <4>2. w.buf[Cell(Slot(i), x)] = Byte(i, x + 1)
          BY <2>1, <4>1 DEF Held
        <4>3. x \in 0..(MsgLen - 1)
          BY <2>4, <4>1
        <4> QED
          BY <1>3, <2>0, <3>1, <4>2, <4>3
      <3>5. w2.msg[Slot(i)] = IF Arrived(g2, i) THEN PartMsg(i, g2[i]) ELSE EmptyMsg
        BY <2>1, <3>2, <3>3 DEF Held, Arrived
      <3> QED
        BY <3>4, <3>5 DEF Held
    <2>5. CASE i = n
      <3>1. Arrived(g2, n)
        BY <1>5 DEF Arrived
      <3>2. w2.msg[Slot(n)] = PartMsg(n, g2[n])
        BY <1>3, <1>5, <2>0, <2>2
      <3>3. ASSUME NEW x \in 0..(len[n] - 1), x \div SegLen \in g2[n]
            PROVE  w2.buf[Cell(Slot(n), x)] = Byte(n, x + 1)
        <4>1. x \in 0..(MsgLen - 1) /\ x \in Nat /\ x < len[n]
          <5>1. len[n] \in Nat
            BY LenFacts
          <5> QED
            BY <2>4, <2>5, <5>1
        <4>2. CASE x \div SegLen = k
          <5>1. x \in a..(a + SegLen - 1)
            BY <1>4, <4>1, <4>2, SegOfByte
          <5>2. x \in a..(e - 1)
            BY <1>4, <4>1, <5>1
          <5> QED
            BY <1>3, <2>0, <4>1, <5>2
        <4>3. CASE x \div SegLen # k
          <5>1. ~(x \in a..(a + SegLen - 1))
            BY <1>4, <4>1, <4>3, SegOfByte
          <5>2. ~(x \in a..(e - 1))
            BY <1>4, <4>1, <5>1
          <5>3. w2.buf[Cell(Slot(n), x)] = w.buf[Cell(Slot(n), x)]
            BY <1>3, <2>0, <4>1, <5>2
          <5>4. x \div SegLen \in g[n] /\ Arrived(g, n)
            BY <1>5, <3>3, <4>3 DEF Arrived
          <5>5. w.buf[Cell(Slot(n), x)] = Byte(n, x + 1)
            BY <2>1, <2>5, <5>4 DEF Held
          <5> QED
            BY <5>3, <5>5
        <4> QED
          BY <4>2, <4>3
      <3> QED
        BY <2>5, <3>1, <3>2, <3>3 DEF Held
    <2> QED
      BY <2>3, <2>5
  <1>10. WndInv(w2, g2, c)
    BY <1>3, <1>6, <1>7, <1>8 DEF WndInv, Slots
  <1> QED
    BY <1>10 DEF w2, g2

----------------------------------------------------------------------------
(* A poll.  Acknowledgements and the timer are no part of WndInv. *)

SameSlots(w2, w) ==
    /\ w2.seq = w.seq /\ w2.size = w.size /\ w2.slide = w.slide
    /\ w2.copy_seq = w.copy_seq /\ w2.copy_ofs = w.copy_ofs
    /\ w2.msg = w.msg /\ w2.buf = w.buf

LEMMA AcksKeep ==
    ASSUME NEW w, NEW g, NEW c, WndInv(w, g, c), NEW w2, RecvWndOK(w2), SameSlots(w2, w)
    PROVE  WndInv(w2, g, c)
  <1>1. WndStart(w2, c) = WndStart(w, c) /\ WndEnd(w2, c) = WndEnd(w, c)
    BY DEF WndStart, WndEnd, SameSlots
  <1>2. Placed(w2, g, c)
    BY <1>1 DEF WndInv, Placed, SameSlots
  <1>3. Slots(w2, g, c)
    BY DEF WndInv, Slots, Held, SameSlots
  <1> QED
    BY <1>2, <1>3 DEF WndInv

(* Putting one acknowledgement on the list, or taking it off. *)
LEMMA AckSet ==
    ASSUME NEW w, RecvWndOK(w), NEW i \in RecvIdx, NEW b \in BOOLEAN
    PROVE  LET w2 == [w EXCEPT !.ack[i] = b]
           IN /\ RecvWndOK(w2) /\ SameSlots(w2, w)
              /\ w2.ack = [w.ack EXCEPT ![i] = b]
              /\ w2.inter_seg_ack_on = w.inter_seg_ack_on
              /\ w2.inter_seg_ack_seq = w.inter_seg_ack_seq
  <1> DEFINE ack2 == [w.ack EXCEPT ![i] = b]
             w2   == [w EXCEPT !.ack = ack2]
  <1>1. w \in RecvWndType /\ w.ack \in [RecvIdx -> BOOLEAN]
    BY DEF RecvWndOK, RecvWndType
  <1>2. [w EXCEPT !.ack[i] = b] = w2
    BY <1>1 DEF RecvWndType
  <1>3. ack2 \in [RecvIdx -> BOOLEAN]
    BY <1>1
  <1> HIDE DEF ack2
  <1>4. w2 \in RecvWndType
    BY <1>1, <1>3 DEF RecvWndType
  <1>5. /\ SameSlots(w2, w) /\ w2.ack = ack2
        /\ w2.inter_seg_ack_on = w.inter_seg_ack_on
        /\ w2.inter_seg_ack_seq = w.inter_seg_ack_seq
    BY <1>1 DEF RecvWndType, SameSlots
  <1> HIDE DEF w2
  <1>6. RecvWndOK(w2)
    BY <1>4, <1>5 DEF RecvWndOK, SameSlots
  <1> QED
    BY <1>2, <1>5, <1>6 DEF ack2

(* A segment that message n still lacks. *)
LEMMA NewFrameKeeps ==
    ASSUME LenType, NEW w, NEW g, NEW c, WndInv(w, g, c), NEW n, InView(w, c, n),
           NEW k \in Segs(n) \ g[n]
    PROVE  LET w2 == RecvWndFrame(w, SeqNum(n), k, SegCount(len[n]), SegData(n, k))
           IN IF InReach(w, SeqNum(n))
              THEN /\ WndInv(w2, [g EXCEPT ![n] = @ \cup {k}], c)
                   /\ n \in Msgs /\ n \in c..(c + RecvCap - 1)
                   /\ \E s : /\ SameAcks(s, w) /\ s.copy_ofs = w.copy_ofs /\ RecvWndOK(s)
                             /\ Stored(w2, s, n, g[n], k)
              ELSE w2 = w
  <1> DEFINE w2 == RecvWndFrame(w, SeqNum(n), k, SegCount(len[n]), SegData(n, k))
             s  == Slide(w, SeqNum(n))
             t  == StoreSeg(s, SeqNum(n), k, SegCount(len[n]), SegData(n, k))
  <1>1. RecvWndOK(w) /\ Placed(w, g, c) /\ n \in Msgs /\ c <= n
    BY DEF WndInv, InView
  <1>2. InReach(w, SeqNum(n)) <=> n < c + RecvCap
    BY <1>1, ReachFacts
  <1>3. CASE ~InReach(w, SeqNum(n))
    BY <1>3 DEF RecvWndFrame
  <1>4. CASE InReach(w, SeqNum(n))
    <2>1. WndInv(s, g, c) /\ n < WndEnd(s, c) /\ SameAcks(s, w) /\ n < c + RecvCap
      BY <1>2, <1>4, SlideKeeps
    <2>2. SeqNum(n) % RecvCap = Slot(n)
      BY <1>1, SlotFacts, SizesFacts DEF Msgs
    <2>3. s.copy_ofs = w.copy_ofs
      BY <1>1 DEF Slide, RecvWndOK, RecvWndType
    <2>9. n \in c..(c + RecvCap - 1)
      BY <1>1, <2>1, SizesFacts DEF Placed, Msgs
    <2> HIDE DEF s
    <2>4. s.msg[Slot(n)].cur_ack_vec = g[n]
      BY <1>1, <2>1, HeldFacts
    <2>5. w2 = t
      BY <1>4, <2>2, <2>4 DEF RecvWndFrame, s
    <2>6. WndInv(t, [g EXCEPT ![n] = @ \cup {k}], c)
      BY <1>1, <2>1, StoreKeeps
    <2>7. Stored(t, s, n, g[n], k)
      BY <1>1, <2>1, StoreFields
    <2>8. RecvWndOK(s)
      BY <2>1 DEF WndInv
    <2> HIDE DEF w2, t
    <2>10. /\ WndInv(w2, [g EXCEPT ![n] = @ \cup {k}], c)
           /\ n \in Msgs /\ n \in c..(c + RecvCap - 1)
           /\ \E x : /\ SameAcks(x, w) /\ x.copy_ofs = w.copy_ofs /\ RecvWndOK(x)
                     /\ Stored(w2, x, n, g[n], k)
      BY <1>1, <2>1, <2>3, <2>5, <2>6, <2>7, <2>8, <2>9
    <2> QED
      BY <1>4, <2>10 DEF w2
  <1> QED
    BY <1>3, <1>4

(* A segment that is here already is acknowledged again. *)
LEMMA OldFrameKeeps ==
    ASSUME LenType, NEW w, NEW g, NEW c, WndInv(w, g, c), NEW n \in Msgs, c <= n,
           NEW seg \in g[n], NEW cnt, NEW data
    PROVE  LET w2 == RecvWndFrame(w, SeqNum(n), seg, cnt, data)
           IN /\ WndInv(w2, g, c)
              /\ n \in c..(c + RecvCap - 1)
              /\ w2.copy_ofs = w.copy_ofs
              /\ w2.ack = [w.ack EXCEPT ![Slot(n)] = TRUE]
              /\ w2.inter_seg_ack_on = w.inter_seg_ack_on
              /\ w2.inter_seg_ack_seq = w.inter_seg_ack_seq
  <1>1. RecvWndOK(w) /\ Placed(w, g, c)
    BY DEF WndInv
  <1>3. c \in Nat /\ WndEnd(w, c) \in Nat /\ WndEnd(w, c) <= c + RecvCap
    BY <1>1, WndNumbers
  <1>4. n \in Nat /\ n < WndEnd(w, c)
    <2>1. ~(WndEnd(w, c) <= n)
      BY <1>1 DEF Placed
    <2> QED
      BY <1>3, <2>1, SizesFacts DEF Msgs
  <1>5. InView(w, c, n) /\ n < c + RecvCap /\ n \in c..(c + RecvCap - 1)
    BY <1>3, <1>4, SizesFacts DEF InView
  <1>6. InReach(w, SeqNum(n))
    BY <1>1, <1>5, ReachFacts
  <1> DEFINE s  == Slide(w, SeqNum(n))
             w2 == [s EXCEPT !.ack[Slot(n)] = TRUE]
  <1>7. WndInv(s, g, c) /\ SameAcks(s, w)
    BY <1>5, SlideKeeps
  <1>2. s.copy_ofs = w.copy_ofs
    BY <1>1 DEF Slide, RecvWndOK, RecvWndType
  <1>8. SeqNum(n) % RecvCap = Slot(n) /\ Slot(n) \in RecvIdx
    BY <1>4, SlotFacts
  <1> HIDE DEF s
  <1>9. seg \in s.msg[Slot(n)].cur_ack_vec
    BY <1>5, <1>7, HeldFacts
  <1>10. RecvWndFrame(w, SeqNum(n), seg, cnt, data) = w2
    BY <1>6, <1>8, <1>9 DEF RecvWndFrame, s
  <1>11. RecvWndOK(s)
    BY <1>7 DEF WndInv
  <1>12. /\ RecvWndOK(w2) /\ SameSlots(w2, s)
         /\ w2.ack = [s.ack EXCEPT ![Slot(n)] = TRUE]
         /\ w2.inter_seg_ack_on = s.inter_seg_ack_on
         /\ w2.inter_seg_ack_seq = s.inter_seg_ack_seq
    BY <1>8, <1>11, AckSet
  <1> HIDE DEF w2
  <1>13. WndInv(w2, g, c)
    BY <1>7, <1>12, AcksKeep
  <1> QED
    BY <1>2, <1>5, <1>7, <1>10, <1>12, <1>13 DEF SameAcks, SameSlots

LEMMA TimerFields ==
    ASSUME NEW w, RecvWndOK(w), NEW dt \in Nat
    PROVE  LET w2 == RecvTimer(w, dt)
           IN /\ RecvWndOK(w2) /\ SameSlots(w2, w)
              /\ w2.inter_seg_ack_on => w.inter_seg_ack_on
              /\ w2.inter_seg_ack_seq = w.inter_seg_ack_seq
              /\ \A i \in RecvIdx : w2.ack[i] =>
                    \/ w.ack[i]
                    \/ w.inter_seg_ack_on /\ i = w.inter_seg_ack_seq % RecvCap
  <1>1. w \in RecvWndType /\ w.ack \in [RecvIdx -> BOOLEAN]
    BY DEF RecvWndOK, RecvWndType
  <1>2. RecvWndOK(RecvTimer(w, dt))
    BY RecvTimerOK
  <1>3. CASE ~w.inter_seg_ack_on
    BY <1>1, <1>2, <1>3 DEF RecvTimer, SameSlots
  <1>4. CASE w.inter_seg_ack_on
    <2> DEFINE left == SubSat(w.inter_seg_ack, dt)
               q    == w.inter_seg_ack_seq % RecvCap
               on2  == left > 0
               due  == w.ack[q] \/ left = 0
               ack2 == [w.ack EXCEPT ![q] = due]
               w2   == [w EXCEPT !.inter_seg_ack = left, !.inter_seg_ack_on = on2, !.ack = ack2]
    <2>1. RecvTimer(w, dt) = w2
      BY <1>1, <1>4 DEF RecvTimer, RecvWndType
    <2> HIDE DEF left, on2, due
    <2>2. \A i \in RecvIdx : ack2[i] => w.ack[i] \/ i = q
      BY <1>1
    <2> HIDE DEF ack2
    <2>3. SameSlots(w2, w) /\ w2.ack = ack2 /\ w2.inter_seg_ack_seq = w.inter_seg_ack_seq
      BY <1>1 DEF RecvWndType, SameSlots
    <2> HIDE DEF w2
    <2> QED
      BY <1>2, <1>4, <2>1, <2>2, <2>3
  <1> QED
    BY <1>3, <1>4

(* An acknowledgement that is due lists what is here of its message, or nothing of
   one that arq_recv has taken. *)
LEMMA DueFacts ==
    ASSUME LenType, NEW w, NEW g, NEW c, WndInv(w, g, c), NEW i \in AcksDue(w)
    PROVE  LET n == WndStart(w, c) + i
           IN /\ i \in Nat /\ n \in Msgs /\ n < c + RecvCap
              /\ (w.seq + i) % RecvCap = Slot(n)
              /\ (w.seq + i) % SeqMod = SeqNum(n)
              /\ w.ack[Slot(n)]
              /\ c <= n => w.msg[Slot(n)].cur_ack_vec = g[n]
              /\ n < c => /\ n + RecvCap \in c..(c + RecvCap - 1) /\ ~Arrived(g, n + RecvCap)
                          /\ Slot(n + RecvCap) = Slot(n)
                          /\ w.msg[Slot(n)].cur_ack_vec = {}
  <1> DEFINE s == WndStart(w, c)
             n == s + i
  <1>1. RecvWndOK(w) /\ Placed(w, g, c)
    BY DEF WndInv
  <1>2. /\ c \in Nat /\ w.slide \in Nat /\ w.size \in Nat
        /\ w.slide <= c /\ w.slide <= w.size /\ w.size <= RecvCap
        /\ s \in Nat /\ s = c - w.slide
        /\ WndEnd(w, c) = c - w.slide + w.size
    BY <1>1, WndNumbers
  <1>3. w.seq = SeqNum(s) /\ WndEnd(w, c) <= MaxMsgs
    BY <1>1 DEF Placed
  <1>4. i \in Nat /\ i < w.size /\ w.ack[(w.seq + i) % RecvCap]
    BY <1>2 DEF AcksDue
  <1> HIDE DEF s
  <1>5. (w.seq + i) % RecvCap = Slot(n) /\ (w.seq + i) % SeqMod = SeqNum(n)
    BY <1>2, <1>3, <1>4, SlotAhead, SeqNumAhead
  <1>6. n \in Nat /\ n < WndEnd(w, c) /\ n < MaxMsgs /\ n + RecvCap >= WndEnd(w, c)
        /\ n + RecvCap >= c /\ n < c + RecvCap
    BY <1>2, <1>3, <1>4, SizesFacts
  <1>7. n \in Msgs
    BY <1>6, SizesFacts DEF Msgs
  <1> HIDE DEF n
  <1>8. ASSUME c <= n
        PROVE  w.msg[Slot(n)].cur_ack_vec = g[n]
    BY <1>6, <1>7, <1>8, HeldFacts
  <1>9. ASSUME n < c
        PROVE  /\ n + RecvCap \in c..(c + RecvCap - 1) /\ ~Arrived(g, n + RecvCap)
               /\ Slot(n + RecvCap) = Slot(n)
               /\ w.msg[Slot(n)].cur_ack_vec = {}
    <2>1. n + RecvCap \in c..(c + RecvCap - 1)
      BY <1>2, <1>6, <1>9, SizesFacts
    <2>2. Slot(n + RecvCap) = Slot(n)
      <3>1. n + RecvCap \in Nat /\ RecvCap <= n + RecvCap /\ (n + RecvCap) - RecvCap = n
        BY <1>6, SizesFacts
      <3> QED
        BY <3>1, SlotPeriod
    <2>3. ~Arrived(g, n + RecvCap)
      BY <1>1, <1>6 DEF Placed, Arrived
    <2>4. w.msg[Slot(n)] = EmptyMsg
      BY <2>1, <2>2, <2>3 DEF WndInv, Slots, Held
    <2> QED
      BY <2>1, <2>2, <2>3, <2>4 DEF EmptyMsg
  <1> QED
    BY <1>4, <1>5, <1>6, <1>7, <1>8, <1>9 DEF s, n

(* The header that a poll makes lists what is here of its message, and nothing of
   one that arq_recv, which is at message c, has taken. *)
AckTrue(h, g, c) ==
    h.ack => \E n \in Msgs : /\ n % SeqMod = h.ack_num
                             /\ h.cur_ack_vec = IF n < c THEN {} ELSE g[n]

(* It lists all that is here. *)
AckExact(h, g) ==
    h.ack => \E n \in Msgs : n % SeqMod = h.ack_num /\ h.cur_ack_vec = g[n]

(* What holds of the acknowledgements when arq_recv waits for them and the
   segments of a message come in order: one that is due, now or when the timer goes
   off, is for a message that has not been taken.  Only this much makes them exact. *)
Answers(w, g, c) ==
    /\ \A n \in c..(c + RecvCap - 1) : w.ack[Slot(n)] => Arrived(g, n)
    /\ w.inter_seg_ack_on =>
          \E a \in Msgs : /\ c <= a /\ w.inter_seg_ack_seq = SeqNum(a)
                          /\ Arrived(g, a) /\ ~Whole(g, a)
    /\ \A n \in Msgs : \A s \in g[n] : AckVec(s) \subseteq g[n]

LEMMA AckPollFields ==
    ASSUME NEW w, RecvWndOK(w), NEW psh \in BOOLEAN, NEW rh
    PROVE  LET r == RecvAckPoll(w, psh, FrameHdrInit, rh)
               i == Min(AcksDue(w))
           IN \/ r.rw = w /\ ~r.sh.ack
              \/ /\ i \in AcksDue(w) /\ SameSlots(r.rw, w)
                 /\ r.sh.ack_num = (w.seq + i) % SeqMod
                 /\ r.sh.cur_ack_vec = w.msg[(w.seq + i) % RecvCap].cur_ack_vec
                 /\ \A j \in RecvIdx : r.rw.ack[j] => w.ack[j]
                 /\ r.rw.inter_seg_ack_on = w.inter_seg_ack_on
                 /\ r.rw.inter_seg_ack_seq = w.inter_seg_ack_seq
  <1> DEFINE r   == RecvAckPoll(w, psh, FrameHdrInit, rh)
             i   == Min(AcksDue(w))
             q   == (w.seq + i) % RecvCap
             w2  == [w EXCEPT !.ack[q] = FALSE]
             sh2 == [FrameHdrInit EXCEPT !.ack = TRUE, !.ack_num = (w.seq + i) % SeqMod,
                                         !.cur_ack_vec = w.msg[q].cur_ack_vec]
  <1>1. CASE ~psh \/ AcksDue(w) = {}
    <2>1. r = [rw |-> w, sh |-> FrameHdrInit, rh |-> rh]
      BY <1>1 DEF RecvAckPoll
    <2>2. ~FrameHdrInit.ack
      BY DEF FrameHdrInit
    <2> HIDE DEF r
    <2>3. r.rw = w /\ r.sh = FrameHdrInit
      BY <2>1
    <2>4. r.rw = w /\ ~r.sh.ack
      BY <2>2, <2>3
    <2> QED
      BY <2>4 DEF r
  <1>2. CASE psh /\ AcksDue(w) # {}
    <2>1. i \in AcksDue(w) /\ i \in Nat
      <3>1. AcksDue(w) \subseteq Nat
        BY DEF AcksDue
      <3> QED
        BY <1>2, <3>1, MinOfNats
    <2>2. q \in RecvIdx
      <3>1. w.seq + i \in Nat
        BY <2>1, WndFields
      <3> QED
        BY <3>1, RecvSlotType
    <2>3. r = [rw |-> w2, sh |-> sh2, rh |-> rh]
      BY <1>2 DEF RecvAckPoll
    <2>4. sh2.ack_num = (w.seq + i) % SeqMod /\ sh2.cur_ack_vec = w.msg[q].cur_ack_vec
      BY DEF FrameHdrInit
    <2> HIDE DEF i, q
    <2>5. /\ SameSlots(w2, w) /\ w2.ack = [w.ack EXCEPT ![q] = FALSE]
          /\ w2.inter_seg_ack_on = w.inter_seg_ack_on
          /\ w2.inter_seg_ack_seq = w.inter_seg_ack_seq
      BY <2>2, AckSet
    <2>6. w.ack \in [RecvIdx -> BOOLEAN]
      BY WndFields
    <2> HIDE DEF w2, sh2, r
    <2>7. r.rw = w2 /\ r.sh = sh2
      BY <2>3
    <2>8. \A j \in RecvIdx : r.rw.ack[j] => w.ack[j]
      BY <2>2, <2>5, <2>6, <2>7
    <2>9. /\ i \in AcksDue(w) /\ SameSlots(r.rw, w)
          /\ r.sh.ack_num = (w.seq + i) % SeqMod
          /\ r.sh.cur_ack_vec = w.msg[q].cur_ack_vec
          /\ r.rw.inter_seg_ack_on = w.inter_seg_ack_on
          /\ r.rw.inter_seg_ack_seq = w.inter_seg_ack_seq
      BY <2>1, <2>4, <2>5, <2>7
    <2> QED
      BY <2>8, <2>9 DEF i, q, r
  <1> QED
    BY <1>1, <1>2

LEMMA AnswersStore ==
    ASSUME LenType, NEW w, NEW g, NEW c \in Nat, Answers(w, g, c), Progress(g, c),
           NEW n \in Msgs, n \in c..(c + RecvCap - 1), NEW k \in Segs(n) \ g[n],
           AckVec(k) \subseteq g[n],
           NEW s, SameAcks(s, w), NEW w2, Stored(w2, s, n, g[n], k)
    PROVE  Answers(w2, [g EXCEPT ![n] = @ \cup {k}], c)
  <1> DEFINE g2 == [g EXCEPT ![n] = @ \cup {k}]
  <1>1. g2[n] = g[n] \cup {k} /\ \A i \in Msgs \ {n} : g2[i] = g[i]
    BY DEF Progress
  <1> HIDE DEF g2
  <1>2. Arrived(g2, n) /\ \A i : Arrived(g, i) => Arrived(g2, i)
    BY <1>1 DEF Arrived
  <1>3. ASSUME NEW i \in c..(c + RecvCap - 1), w2.ack[Slot(i)] PROVE Arrived(g2, i)
    <2>1. i \in Nat /\ Slot(i) \in RecvIdx
      BY SlotFacts, SizesFacts
    <2>2. CASE Slot(i) = Slot(n)
      BY <1>2, <2>2, SlotsDiffer
    <2>3. CASE Slot(i) # Slot(n)
      <3>1. w.ack[Slot(i)]
        BY <1>3, <2>1, <2>3 DEF Stored, SameAcks
      <3> QED
        BY <1>2, <3>1 DEF Answers
    <2> QED
      BY <2>2, <2>3
  <1>4. ASSUME w2.inter_seg_ack_on
        PROVE  c <= n /\ w2.inter_seg_ack_seq = SeqNum(n) /\ ~Whole(g2, n)
    <2>1. k # Last(n) /\ w2.inter_seg_ack_seq = SeqNum(n) /\ c <= n
      BY <1>4, SizesFacts DEF Stored
    <2>2. k \in Nat /\ k <= Last(n) /\ Last(n) \in Segs(n)
      BY SegSizeFacts
    <2>3. Last(n) \in Nat
      BY <2>2, SegSizeFacts
    <2>4. Last(n) \notin g[n]
      <3> SUFFICES ASSUME Last(n) \in g[n] PROVE FALSE
        OBVIOUS
      <3>1. AckVec(Last(n)) \subseteq g[n]
        BY DEF Answers
      <3>2. k \in AckVec(Last(n))
        BY <2>1, <2>2, <2>3 DEF AckVec
      <3> QED
        BY <3>1, <3>2
    <2> QED
      BY <1>1, <2>1, <2>2, <2>4 DEF Whole
  <1>5. ASSUME NEW i \in Msgs, NEW t \in g2[i] PROVE AckVec(t) \subseteq g2[i]
    <2>1. CASE i = n /\ t = k
      BY <1>1, <2>1
    <2>2. CASE ~(i = n /\ t = k)
      <3>1. t \in g[i] /\ g[i] \subseteq g2[i]
        BY <1>1, <1>5, <2>2
      <3> QED
        BY <3>1 DEF Answers
    <2> QED
      BY <2>1, <2>2
  <1>6. Answers(w2, g2, c)
    BY <1>2, <1>3, <1>4, <1>5 DEF Answers
  <1> QED
    BY <1>6 DEF g2

LEMMA AnswersOld ==
    ASSUME LenType, NEW w, RecvWndOK(w), NEW g, NEW c \in Nat, Answers(w, g, c), NEW n \in Msgs,
           n \in c..(c + RecvCap - 1), g[n] # {},
           NEW w2, w2.ack = [w.ack EXCEPT ![Slot(n)] = TRUE],
           w2.inter_seg_ack_on = w.inter_seg_ack_on,
           w2.inter_seg_ack_seq = w.inter_seg_ack_seq
    PROVE  Answers(w2, g, c)
  <1>1. ASSUME NEW i \in c..(c + RecvCap - 1), w2.ack[Slot(i)] PROVE Arrived(g, i)
    <2>1. i \in Nat /\ Slot(i) \in RecvIdx /\ w.ack \in [RecvIdx -> BOOLEAN]
      BY SlotFacts, SizesFacts, WndFields
    <2>2. CASE Slot(i) = Slot(n)
      <3>1. i = n
        BY <2>2, SlotsDiffer
      <3> QED
        BY <3>1 DEF Arrived
    <2>3. CASE Slot(i) # Slot(n)
      <3>1. w.ack[Slot(i)]
        BY <1>1, <2>1, <2>3
      <3> QED
        BY <3>1 DEF Answers
    <2> QED
      BY <2>2, <2>3
  <1> QED
    BY <1>1 DEF Answers

(* The part of arq__recv_poll after the frame. *)
LEMMA RestOfPoll ==
    ASSUME LenType, NEW w, NEW g, NEW c, WndInv(w, g, c), NEW psh \in BOOLEAN, NEW dt \in Nat,
           NEW rh
    PROVE  LET r == RecvAckPoll(RecvTimer(w, dt), psh, FrameHdrInit, rh)
           IN /\ WndInv(r.rw, g, c)
              /\ r.rw.copy_ofs = w.copy_ofs
              /\ AckTrue(r.sh, g, c)
              /\ Answers(w, g, c) => Answers(r.rw, g, c) /\ AckExact(r.sh, g)
  <1> DEFINE t == RecvTimer(w, dt)
             r == RecvAckPoll(t, psh, FrameHdrInit, rh)
             i == Min(AcksDue(t))
             n == WndStart(t, c) + i
  <1>1. RecvWndOK(w) /\ Placed(w, g, c) /\ c \in Nat /\ WndEnd(w, c) \in Nat
        /\ WndEnd(w, c) <= c + RecvCap
    BY WndNumbers DEF WndInv
  <1>2. /\ RecvWndOK(t) /\ SameSlots(t, w)
        /\ t.inter_seg_ack_on => w.inter_seg_ack_on
        /\ t.inter_seg_ack_seq = w.inter_seg_ack_seq
        /\ \A j \in RecvIdx : t.ack[j] =>
              \/ w.ack[j]
              \/ w.inter_seg_ack_on /\ j = w.inter_seg_ack_seq % RecvCap
    BY <1>1, TimerFields
  <1> HIDE DEF t
  <1>3. WndInv(t, g, c)
    BY <1>2, AcksKeep
  <1>4. ASSUME Answers(w, g, c) PROVE Answers(t, g, c)
    <2>1. ASSUME NEW j \in c..(c + RecvCap - 1), t.ack[Slot(j)] PROVE Arrived(g, j)
      <3>1. j \in Nat /\ Slot(j) \in RecvIdx
        BY <1>1, SlotFacts, SizesFacts
      <3>2. CASE w.ack[Slot(j)]
        BY <1>4, <3>2 DEF Answers
      <3>3. CASE w.inter_seg_ack_on /\ Slot(j) = w.inter_seg_ack_seq % RecvCap
        <4>1. PICK a \in Msgs : c <= a /\ w.inter_seg_ack_seq = SeqNum(a) /\ Arrived(g, a)
          BY <1>4, <3>3 DEF Answers
        <4>2. ~(WndEnd(w, c) <= a)
          BY <1>1, <4>1 DEF Placed, Arrived
        <4>3. a \in Nat /\ a \in c..(c + RecvCap - 1)
          BY <1>1, <4>1, <4>2, SizesFacts DEF Msgs
        <4>4. Slot(j) = Slot(a)
          BY <3>3, <4>1, <4>3, SlotFacts
        <4>5. j = a
          BY <1>1, <4>3, <4>4, SlotsDiffer
        <4> QED
          BY <4>1, <4>5
      <3> QED
        BY <1>2, <2>1, <3>1, <3>2, <3>3
    <2> QED
      BY <1>2, <1>4, <2>1 DEF Answers
  <1>5. RecvWndOK(r.rw)
    BY <1>2, RecvAckPollOK
  <1>6. \/ r.rw = t /\ ~r.sh.ack
        \/ /\ i \in AcksDue(t) /\ SameSlots(r.rw, t)
           /\ r.sh.ack_num = (t.seq + i) % SeqMod
           /\ r.sh.cur_ack_vec = t.msg[(t.seq + i) % RecvCap].cur_ack_vec
           /\ \A j \in RecvIdx : r.rw.ack[j] => t.ack[j]
           /\ r.rw.inter_seg_ack_on = t.inter_seg_ack_on
           /\ r.rw.inter_seg_ack_seq = t.inter_seg_ack_seq
    BY <1>2, AckPollFields
  <1> HIDE DEF r
  <1>7. CASE r.rw = t /\ ~r.sh.ack
    <2>1. /\ WndInv(r.rw, g, c) /\ r.rw.copy_ofs = w.copy_ofs /\ AckTrue(r.sh, g, c)
          /\ Answers(w, g, c) => Answers(r.rw, g, c) /\ AckExact(r.sh, g)
      BY <1>2, <1>3, <1>4, <1>7 DEF AckTrue, AckExact, SameSlots
    <2> QED
      BY <2>1 DEF r, t
  <1>8. CASE /\ i \in AcksDue(t) /\ SameSlots(r.rw, t)
             /\ r.sh.ack_num = (t.seq + i) % SeqMod
             /\ r.sh.cur_ack_vec = t.msg[(t.seq + i) % RecvCap].cur_ack_vec
             /\ \A j \in RecvIdx : r.rw.ack[j] => t.ack[j]
             /\ r.rw.inter_seg_ack_on = t.inter_seg_ack_on
             /\ r.rw.inter_seg_ack_seq = t.inter_seg_ack_seq
    <2> HIDE DEF i
    <2>1. /\ i \in Nat /\ n \in Msgs /\ n < c + RecvCap
          /\ (t.seq + i) % RecvCap = Slot(n)
          /\ (t.seq + i) % SeqMod = SeqNum(n)
          /\ t.ack[Slot(n)]
          /\ c <= n => t.msg[Slot(n)].cur_ack_vec = g[n]
          /\ n < c => /\ n + RecvCap \in c..(c + RecvCap - 1) /\ ~Arrived(g, n + RecvCap)
                      /\ Slot(n + RecvCap) = Slot(n)
                      /\ t.msg[Slot(n)].cur_ack_vec = {}
      BY <1>3, <1>8, DueFacts
    <2> HIDE DEF n
    <2>2. WndInv(r.rw, g, c) /\ r.rw.copy_ofs = w.copy_ofs
      BY <1>2, <1>3, <1>5, <1>8, AcksKeep DEF SameSlots
    <2>3. n % SeqMod = r.sh.ack_num /\ r.sh.cur_ack_vec = t.msg[Slot(n)].cur_ack_vec
      BY <1>8, <2>1 DEF SeqNum
    <2>4. AckTrue(r.sh, g, c)
      <3>1. n < c \/ c <= n
        BY <1>1, <2>1, SizesFacts DEF Msgs
      <3> QED
        BY <1>1, <2>1, <2>3, <3>1, SizesFacts DEF AckTrue, Msgs
    <2>5. ASSUME Answers(w, g, c) PROVE Answers(r.rw, g, c) /\ AckExact(r.sh, g)
      <3>1. Answers(t, g, c)
        BY <1>4, <2>5
      <3>2. c <= n
        <4>1. ~(n < c)
          BY <2>1, <3>1 DEF Answers
        <4> QED
          BY <1>1, <2>1, <4>1, SizesFacts DEF Msgs
      <3>3. AckExact(r.sh, g)
        BY <2>1, <2>3, <3>2 DEF AckExact
      <3>4. ASSUME NEW j \in c..(c + RecvCap - 1), r.rw.ack[Slot(j)] PROVE Arrived(g, j)
        <4>1. Slot(j) \in RecvIdx
          BY <1>1, SlotFacts, SizesFacts
        <4> QED
          BY <1>8, <3>1, <3>4, <4>1 DEF Answers
      <3> QED
        BY <1>8, <3>1, <3>3, <3>4 DEF Answers
    <2>6. /\ WndInv(r.rw, g, c) /\ r.rw.copy_ofs = w.copy_ofs /\ AckTrue(r.sh, g, c)
          /\ Answers(w, g, c) => Answers(r.rw, g, c) /\ AckExact(r.sh, g)
      BY <2>2, <2>4, <2>5
    <2> QED
      BY <2>6 DEF r, t
  <1> QED
    BY <1>6, <1>7, <1>8

----------------------------------------------------------------------------
(* What arq_recv can copy *)

LEMMA StartMonotone ==
    ASSUME LenType, NEW n \in Msgs, NEW m \in (n + 1)..MaxMsgs
    PROVE  Start(n) + len[n] <= Start(m)
  <1>1. len[n] \in 1..len[n]
    BY LenFacts
  <1>2. Start(n) + len[n] \in 1..Start(m)
    BY <1>1, ByteInStream
  <1> QED
    BY <1>2

(* Message n is in its slot from its first byte to its last. *)
LEMMA WholeMsg ==
    ASSUME LenType, NEW w, NEW g, NEW c, WndInv(w, g, c), NEW n \in Msgs,
           n \in c..(c + RecvCap - 1), Whole(g, n)
    PROVE  /\ w.msg[Slot(n)].len = len[n]
           /\ Complete(w.msg[Slot(n)])
           /\ \A x \in 0..(len[n] - 1) : w.buf[Cell(Slot(n), x)] = Byte(n, x + 1)
           /\ n < WndEnd(w, c)
  <1>1. g[n] = Segs(n) /\ Segs(n) # {} /\ len[n] \in Nat
    BY SegsFacts DEF Whole
  <1>2. Arrived(g, n)
    BY <1>1 DEF Arrived
  <1>3. Held(w, g, n)
    BY DEF WndInv, Slots
  <1>4. w.msg[Slot(n)] = PartMsg(n, Segs(n))
    BY <1>1, <1>2, <1>3 DEF Held
  <1>5. ASSUME NEW x \in 0..(len[n] - 1) PROVE x \div SegLen \in Segs(n)
    <2> DEFINE q == SegCount(len[n])
               k == x \div SegLen
    <2>1. q \in Nat /\ len[n] <= SegLen * q /\ SegLen \in Nat \ {0}
      BY SegsFacts, SizesFacts
    <2>2. x \in Nat /\ x < len[n]
      BY <1>1
    <2>3. k \in Nat /\ SegLen * k <= x
      <3> DEFINE r == x % SegLen
      <3>1. k \in Nat /\ r \in 0..(SegLen - 1) /\ x = SegLen * k + r
        BY <2>1, <2>2, DivModFacts
      <3> HIDE DEF k, r
      <3>2. SegLen * k \in Nat /\ r \in Nat
        BY <2>1, <3>1
      <3> QED
        BY <3>1, <3>2
    <2> HIDE DEF q, k
    <2>4. k < q
      <3> SUFFICES ASSUME q <= k PROVE FALSE
        BY <2>1, <2>3
      <3>1. SegLen * q <= SegLen * k
        <4>1. q * SegLen <= k * SegLen /\ q * SegLen = SegLen * q /\ k * SegLen = SegLen * k
          BY <2>1, <2>3, TimesMonotone
        <4> QED
          BY <4>1
      <3>2. SegLen * q \in Nat /\ SegLen * k \in Nat
        BY <2>1, <2>3
      <3> QED
        BY <1>1, <2>1, <2>2, <2>3, <3>1, <3>2
    <2> QED
      BY <2>1, <2>3, <2>4 DEF q, k, Segs, AckVec
  <1>6. \A x \in 0..(len[n] - 1) : w.buf[Cell(Slot(n), x)] = Byte(n, x + 1)
    BY <1>1, <1>2, <1>3, <1>5 DEF Held
  <1>7. PartLen(n, Segs(n)) = len[n]
    BY PartLenEnds
  <1>8. ~(WndEnd(w, c) <= n) /\ WndEnd(w, c) \in Nat /\ n \in Nat
    BY <1>1, WndNumbers, SizesFacts DEF WndInv, Placed, Msgs
  <1> QED
    BY <1>4, <1>6, <1>7, <1>8 DEF PartMsg, Complete

(* A slot that arq_recv copies holds a message that is here in full. *)
LEMMA CopiedIsWhole ==
    ASSUME LenType, NEW w, NEW g, NEW c, WndInv(w, g, c),
           NEW n \in c..(c + RecvCap - 1),
           w.msg[Slot(n)].len # 0, Complete(w.msg[Slot(n)])
    PROVE  n \in Msgs /\ Whole(g, n)
  <1>1. Held(w, g, n)
    BY DEF WndInv, Slots
  <1>2. Arrived(g, n)
    BY <1>1 DEF Held, EmptyMsg
  <1>3. n \in Msgs /\ w.msg[Slot(n)] = PartMsg(n, g[n])
    BY <1>1, <1>2 DEF Held, Arrived
  <1> QED
    BY <1>3 DEF PartMsg, Complete, Whole

LEMMA DeliverableFacts ==
    ASSUME LenType, NEW w, NEW g, NEW c, WndInv(w, g, c)
    PROVE  /\ Deliverable(w) \in Nat
           /\ c + Deliverable(w) <= MaxMsgs
           /\ w.slide + Deliverable(w) <= w.size
           /\ Deliverable(w) <= RecvCap
           /\ \A i \in 0..(Deliverable(w) - 1) :
                 /\ c + i \in Msgs /\ Whole(g, c + i)
                 /\ c + i \in c..(c + RecvCap - 1)
                 /\ CopySlot(w, i) = Slot(c + i)
           /\ c \in Msgs /\ Whole(g, c) => Deliverable(w) > 0
  <1> DEFINE Stop == {i \in 0..(w.size - 1) : LET m == w.msg[CopySlot(w, i)]
                                              IN m.len = 0 \/ ~Complete(m)}
             d == Deliverable(w)
  <1>1. RecvWndOK(w) /\ Placed(w, g, c)
    BY DEF WndInv
  <1>2. /\ c \in Nat /\ w.slide \in Nat /\ w.size \in Nat
        /\ w.slide <= c /\ w.slide <= w.size /\ w.size <= RecvCap
        /\ WndEnd(w, c) = c - w.slide + w.size /\ WndEnd(w, c) \in Nat
    BY <1>1, WndNumbers
  <1>3. d \in {w.size} \cup Stop /\ \A x \in {w.size} \cup Stop : d <= x
    <2>1. {w.size} \cup Stop \subseteq Nat
      BY <1>2
    <2>2. d = Min({w.size} \cup Stop)
      BY DEF Deliverable
    <2> HIDE DEF Stop, d
    <2> QED
      BY <2>1, <2>2, MinOfNats
  <1>4. d \in Nat /\ d <= w.size
    BY <1>2, <1>3
  <1>5. ASSUME NEW i \in Nat PROVE CopySlot(w, i) = Slot(c + i)
    BY <1>1, <1>2, SlotAhead DEF CopySlot, Placed
  <1> HIDE DEF d
  <1>6. ASSUME NEW i \in 0..(d - 1)
        PROVE  /\ c + i \in Msgs /\ Whole(g, c + i) /\ c + i \in c..(c + RecvCap - 1)
    <2>1. i \in Nat /\ i < d /\ i \in 0..(w.size - 1) /\ c + i \in c..(c + RecvCap - 1)
      BY <1>2, <1>4, SizesFacts
    <2>2. i \notin Stop
      BY <1>3, <1>4, <2>1
    <2>3. w.msg[CopySlot(w, i)].len # 0 /\ Complete(w.msg[CopySlot(w, i)])
      BY <2>1, <2>2
    <2>4. CopySlot(w, i) = Slot(c + i)
      BY <1>5, <2>1
    <2> QED
      BY <2>1, <2>3, <2>4, CopiedIsWhole
  <1>7. d > 0 => c + d <= MaxMsgs /\ c + d <= WndEnd(w, c)
    <2> SUFFICES ASSUME d > 0 PROVE c + d <= MaxMsgs /\ c + d <= WndEnd(w, c)
      OBVIOUS
    <2> DEFINE n == c + (d - 1)
    <2>1. d - 1 \in 0..(d - 1)
      BY <1>4
    <2>2. n \in Msgs /\ Whole(g, n) /\ n \in c..(c + RecvCap - 1)
      BY <1>6, <2>1
    <2> HIDE DEF n
    <2>3. n < WndEnd(w, c) /\ n < MaxMsgs /\ n \in Nat
      BY <2>2, WholeMsg, SizesFacts DEF Msgs
    <2> QED
      BY <1>2, <1>4, <2>3, SizesFacts DEF n
  <1>8. c + d <= MaxMsgs /\ w.slide + d <= w.size
    <2>1. c <= MaxMsgs
      BY <1>1, SizesFacts DEF Placed
    <2>2. CASE d = 0
      BY <1>2, <2>1, <2>2
    <2>3. CASE d > 0
      BY <1>2, <1>4, <1>7, <2>3
    <2> QED
      BY <1>4, <2>2, <2>3
  <1>9. ASSUME c \in Msgs, Whole(g, c) PROVE d > 0
    <2>1. c \in c..(c + RecvCap - 1)
      BY <1>2, SizesFacts
    <2>2. w.msg[Slot(c)].len = len[c] /\ Complete(w.msg[Slot(c)]) /\ c < WndEnd(w, c)
      BY <1>9, <2>1, WholeMsg
    <2>3. CopySlot(w, 0) = Slot(c)
      <3>1. CopySlot(w, 0) = Slot(c + 0) /\ c + 0 = c
        BY <1>2, <1>5
      <3> QED
        BY <3>1
    <2>4. 0 \notin Stop
      <3>1. len[c] # 0
        BY <1>9, LenFacts
      <3> QED
        BY <2>2, <2>3, <3>1
    <2>5. w.size # 0
      BY <1>2, <2>2
    <2>6. d # 0
      BY <1>3, <2>4, <2>5
    <2> QED
      BY <1>4, <2>6
  <1>10. d <= RecvCap
    BY <1>2, <1>4, SizesFacts
  <1>11. \A i \in 0..(d - 1) :
            /\ c + i \in Msgs /\ Whole(g, c + i)
            /\ c + i \in c..(c + RecvCap - 1)
            /\ CopySlot(w, i) = Slot(c + i)
    <2>1. ASSUME NEW i \in 0..(d - 1) PROVE CopySlot(w, i) = Slot(c + i)
      <3>1. i \in Nat
        OBVIOUS
      <3> QED
        BY <1>5, <3>1
    <2> QED
      BY <1>6, <2>1
  <1> QED
    BY <1>4, <1>8, <1>9, <1>10, <1>11 DEF d

(* The bytes of the messages that can be copied are those of the stream. *)
LEMMA CopyIsStream ==
    ASSUME LenType, NEW w, NEW g, NEW c, WndInv(w, g, c)
    PROVE  /\ \A k \in Nat : BytesBefore(w, k) \in Nat
           /\ BytesBefore(w, 0) = 0
           /\ \A k \in 0..Deliverable(w) :
                 /\ Start(c) + BytesBefore(w, k) = Start(c + k)
                 /\ k < Deliverable(w) =>
                       BytesBefore(w, k + 1) = BytesBefore(w, k) + len[c + k]
  <1> DEFINE d == Deliverable(w)
             B(k) == BytesBefore(w, k)
             L(k) == w.msg[CopySlot(w, k)].len
  <1>1. /\ d \in Nat /\ c + d <= MaxMsgs
        /\ \A i \in 0..(d - 1) :
              /\ c + i \in Msgs /\ Whole(g, c + i)
              /\ c + i \in c..(c + RecvCap - 1)
              /\ CopySlot(w, i) = Slot(c + i)
    BY DeliverableFacts
  <1>2. RecvWndOK(w) /\ c \in Nat
    BY SizesFacts DEF WndInv, Placed
  <1> HIDE DEF d
  <1>3. \A k \in Nat : L(k) \in Nat
    <2>1. ASSUME NEW k \in Nat PROVE CopySlot(w, k) \in RecvIdx
      <3>1. w.copy_seq \in Nat
        BY <1>2, SizesFacts DEF RecvWndOK, RecvWndType
      <3>2. w.copy_seq + k \in Int /\ RecvCap \in Nat \ {0}
        BY <3>1, SizesFacts
      <3> QED
        BY <3>2, ModType DEF CopySlot, RecvIdx
    <2> QED
      BY <1>2, <2>1, SizesFacts DEF RecvWndOK, RecvWndType, MsgType
  <1>4. B(0) = 0 /\ \A k \in Nat : B(k) \in Nat /\ B(k + 1) = B(k) + L(k)
    BY <1>3, BytesBeforeFacts
  <1> HIDE DEF B
  <1>5. ASSUME NEW k \in 0..(d - 1) PROVE B(k + 1) = B(k) + len[c + k]
    <2>1. L(k) = len[c + k]
      BY <1>1, WholeMsg
    <2> HIDE DEF L
    <2> QED
      BY <1>1, <1>4, <2>1
  <1> HIDE DEF L
  <1> DEFINE T == {k \in Nat : k <= d => Start(c) + B(k) = Start(c + k)}
  <1>6. 0 \in T
    <2>1. Start(c) \in Nat /\ c + 0 = c
      BY <1>1, <1>2, StartFacts, SizesFacts
    <2> QED
      BY <1>4, <2>1
  <1>7. ASSUME NEW k \in T PROVE k + 1 \in T
    <2> SUFFICES ASSUME k + 1 <= d PROVE Start(c) + B(k + 1) = Start(c + (k + 1))
      OBVIOUS
    <2>1. k \in 0..(d - 1) /\ k \in Nat /\ Start(c) + B(k) = Start(c + k)
      BY <1>1
    <2>2. c + k \in Msgs /\ c + (k + 1) = (c + k) + 1 /\ c \in 0..MaxMsgs
      BY <1>1, <1>2, <2>1, SizesFacts
    <2>3. Start((c + k) + 1) = Start(c + k) + len[c + k] /\ Start(c) \in Nat /\ len[c + k] \in Nat
      BY <2>2, StartFacts, LenFacts
    <2>4. B(k + 1) = B(k) + len[c + k] /\ B(k) \in Nat
      BY <1>4, <1>5, <2>1
    <2> QED
      BY <2>1, <2>2, <2>3, <2>4
  <1> HIDE DEF T
  <1>8. T = Nat
    <2>1. T \subseteq Nat
      BY DEF T
    <2> QED
      BY <1>6, <1>7, <2>1, InductionOnSet
  <1>9. ASSUME NEW k \in 0..d
        PROVE  Start(c) + B(k) = Start(c + k) /\ (k < d => B(k + 1) = B(k) + len[c + k])
    <2>1. k \in T /\ k <= d /\ (k < d => k \in 0..(d - 1))
      BY <1>1, <1>8
    <2> QED
      BY <1>5, <2>1 DEF T
  <1> QED
    BY <1>4, <1>9 DEF B, d

(* Where arq_recv is: copy_ofs bytes into message c. *)
Cursor(w, g, c) == w.copy_ofs > 0 => c \in Msgs /\ Whole(g, c) /\ w.copy_ofs < len[c]

LEMMA CountFacts ==
    ASSUME LenType, NEW w, NEW g, NEW c, WndInv(w, g, c), Cursor(w, g, c), NEW max \in Nat
    PROVE  /\ RecvCount(w, max) \in Nat
           /\ RecvCount(w, max) > 0 => Deliverable(w) > 0
           /\ CopyEnd(w, max) \in Nat
           /\ CopyEnd(w, max) <= BytesBefore(w, Deliverable(w))
           /\ Done(w, max) \in 0..Deliverable(w)
           /\ BytesBefore(w, Done(w, max)) <= CopyEnd(w, max)
           /\ Done(w, max) < Deliverable(w) =>
                 CopyEnd(w, max) < BytesBefore(w, Done(w, max)) + len[c + Done(w, max)]
  <1> DEFINE d == Deliverable(w)
             B(k) == BytesBefore(w, k)
             n == RecvCount(w, max)
             e == CopyEnd(w, max)
             S == {k \in 0..d : B(k) <= e}
             done == Done(w, max)
  <1>1. /\ d \in Nat /\ c + d <= MaxMsgs
        /\ \A i \in 0..(d - 1) : c + i \in Msgs
        /\ c \in Msgs /\ Whole(g, c) => d > 0
    BY DeliverableFacts
  <1>2. /\ \A k \in Nat : B(k) \in Nat
        /\ B(0) = 0
        /\ \A k \in 0..d : /\ Start(c) + B(k) = Start(c + k)
                           /\ k < d => B(k + 1) = B(k) + len[c + k]
    BY CopyIsStream
  <1>3. RecvWndOK(w) /\ c \in Nat /\ w.copy_ofs \in Nat
    BY SizesFacts DEF WndInv, Placed, RecvWndOK, RecvWndType
  <1>4. n = IF d = 0 THEN 0 ELSE Min2(max, B(d) - w.copy_ofs)
    BY DEF RecvCount
  <1>5. e = w.copy_ofs + n /\ done = Max(S)
    BY DEF CopyEnd, Done
  <1> HIDE DEF d, B, n, e, done
  <1>6. w.copy_ofs <= B(d)
    <2>1. CASE w.copy_ofs = 0
      BY <1>1, <1>2, <2>1
    <2>2. CASE w.copy_ofs > 0
      <3>1. c \in Msgs /\ w.copy_ofs < len[c] /\ d > 0 /\ len[c] \in Nat /\ c \in 0..MaxMsgs
        BY <1>1, <2>2, LenFacts, SizesFacts DEF Cursor, Msgs
      <3>2. c + d \in (c + 1)..MaxMsgs
        BY <1>1, <1>3, <3>1, SizesFacts
      <3>3. Start(c) + len[c] <= Start(c + d)
        BY <3>1, <3>2, StartMonotone
      <3>4. Start(c) + B(d) = Start(c + d) /\ Start(c) \in Nat /\ B(d) \in Nat
        BY <1>1, <1>2, <3>1, StartFacts
      <3> QED
        BY <1>3, <3>1, <3>3, <3>4
    <2> QED
      BY <1>3, <2>1, <2>2
  <1>7. n \in Nat /\ e <= B(d) /\ (n > 0 => d > 0)
    <2>1. B(d) \in Nat
      BY <1>1, <1>2
    <2> QED
      BY <1>1, <1>3, <1>4, <1>5, <1>6, <2>1 DEF Min2
  <1>8. e \in Nat
    BY <1>3, <1>5, <1>7
  <1>9. done \in S /\ \A k \in S : k <= done
    <2>1. S \subseteq 0..d
      OBVIOUS
    <2>2. S # {}
      <3>1. 0 \in S
        BY <1>1, <1>2, <1>8
      <3> QED
        BY <3>1
    <2> HIDE DEF S
    <2> QED
      BY <1>1, <1>5, <2>1, <2>2, MaxUpTo
  <1>10. ASSUME done < d PROVE e < B(done) + len[c + done]
    <2>1. done \in 0..d /\ done \in Nat /\ done + 1 \in 0..d /\ ~(done + 1 <= done)
      BY <1>1, <1>9, <1>10
    <2>2. ~(B(done + 1) <= e)
      BY <1>9, <2>1
    <2>3. B(done + 1) = B(done) + len[c + done] /\ B(done + 1) \in Nat
      BY <1>2, <1>10, <2>1
    <2> QED
      BY <1>8, <2>2, <2>3
  <1> QED
    BY <1>7, <1>8, <1>9, <1>10 DEF d, B, n, e, done

LEMMA CopyByteFacts ==
    ASSUME LenType, NEW w, NEW g, NEW c, WndInv(w, g, c),
           NEW b \in Nat, b < BytesBefore(w, Deliverable(w)), Deliverable(w) > 0
    PROVE  /\ CopyByte(w, b) = Before(MaxMsgs)[Start(c) + b + 1]
           /\ CopyByte(w, b) \in Nat
           /\ Start(c) + b + 1 <= Start(MaxMsgs)
  <1> DEFINE d == Deliverable(w)
             B(k) == BytesBefore(w, k)
             S == {k \in 0..(d - 1) : B(k) <= b}
             i == Max(S)
             x == b - B(i)
             n == c + i
  <1>1. /\ d \in Nat /\ d > 0 /\ c + d <= MaxMsgs
        /\ \A k \in 0..(d - 1) :
              /\ c + k \in Msgs /\ Whole(g, c + k)
              /\ c + k \in c..(c + RecvCap - 1)
              /\ CopySlot(w, k) = Slot(c + k)
    BY DeliverableFacts
  <1>2. /\ \A k \in Nat : B(k) \in Nat
        /\ B(0) = 0
        /\ \A k \in 0..d : /\ Start(c) + B(k) = Start(c + k)
                           /\ k < d => B(k + 1) = B(k) + len[c + k]
        /\ b < B(d)
    BY CopyIsStream
  <1>3. c \in Nat /\ c \in 0..MaxMsgs
    BY SizesFacts DEF WndInv, Placed
  <1>4. CopyByte(w, b) = w.buf[CopySlot(w, i) * MsgLen + b - B(i)]
    BY DEF CopyByte
  <1> HIDE DEF d, B
  <1>5. i \in S /\ \A k \in S : k <= i
    <2>1. S \subseteq 0..d
      BY <1>1
    <2>2. S # {}
      <3>1. 0 \in S
        BY <1>1, <1>2
      <3> QED
        BY <3>1
    <2> HIDE DEF S
    <2> QED
      BY <1>1, <2>1, <2>2, MaxUpTo
  <1> HIDE DEF i
  <1>6. /\ i \in 0..(d - 1) /\ i \in 0..d /\ i \in Nat /\ i < d /\ i + 1 \in 0..d
        /\ B(i) <= b /\ B(i) \in Nat
    BY <1>1, <1>2, <1>5
  <1>7. n \in Msgs /\ Whole(g, n) /\ n \in c..(c + RecvCap - 1) /\ CopySlot(w, i) = Slot(n)
    BY <1>1, <1>6
  <1>8. len[n] \in Nat /\ len[n] <= MsgLen /\ n + 1 <= MaxMsgs /\ n \in Nat
    BY <1>7, LenFacts, SizesFacts DEF Msgs
  <1>9. b < B(i) + len[n]
    <2>1. B(i + 1) = B(i) + len[n] /\ B(i + 1) \in Nat
      <3>1. i + 1 \in Nat
        BY <1>6
      <3> QED
        BY <1>2, <1>6, <3>1
    <2>2. CASE i + 1 = d
      BY <1>2, <2>1, <2>2
    <2>3. CASE i + 1 < d
      <3>1. i + 1 \in 0..(d - 1) /\ ~(i + 1 <= i)
        BY <1>1, <1>6, <2>3
      <3>2. ~(B(i + 1) <= b)
        BY <1>5, <3>1
      <3> QED
        BY <2>1, <3>2
    <2> QED
      BY <1>1, <1>6, <2>2, <2>3
  <1>10. x \in 0..(len[n] - 1) /\ x + 1 \in 1..len[n]
    BY <1>6, <1>8, <1>9
  <1>11. CopyByte(w, b) = Byte(n, x + 1)
    <2>1. w.buf[Cell(Slot(n), x)] = Byte(n, x + 1)
      BY <1>7, <1>10, WholeMsg
    <2>2. Slot(n) * MsgLen + b - B(i) = Slot(n) * MsgLen + (b - B(i))
      <3>1. Slot(n) \in RecvIdx
        BY <1>8, SlotFacts
      <3>2. Slot(n) * MsgLen \in Nat
        BY <3>1, SizesFacts DEF RecvIdx
      <3> QED
        BY <1>6, <3>2
    <2> QED
      BY <1>4, <1>7, <2>1, <2>2 DEF Cell
  <1>12. MaxMsgs \in (n + 1)..MaxMsgs
    BY <1>8, SizesFacts
  <1>13. Start(n) + (x + 1) \in 1..Start(MaxMsgs) /\ Before(MaxMsgs)[Start(n) + (x + 1)] = Byte(n, x + 1)
    BY <1>7, <1>10, <1>12, ByteInStream
  <1>14. Start(n) + (x + 1) = Start(c) + b + 1
    <2>1. Start(c) + B(i) = Start(n) /\ Start(c) \in Nat
      BY <1>2, <1>3, <1>6, StartFacts
    <2> QED
      BY <1>6, <2>1
  <1>15. Start(c) + b + 1 <= Start(MaxMsgs)
    <2> DEFINE p == Start(n) + (x + 1)
               q == Start(MaxMsgs)
    <2>1. p \in 1..q
      BY <1>13
    <2> HIDE DEF p, q
    <2>2. p <= q
      BY <2>1
    <2> QED
      BY <1>14, <2>2 DEF p, q
  <1>16. Byte(n, x + 1) \in Nat
    BY <1>8, <1>10, ByteType
  <1> QED
    BY <1>11, <1>13, <1>14, <1>15, <1>16

LEMMA RecvKeeps ==
    ASSUME LenType, NEW w, NEW g, NEW c, WndInv(w, g, c), Cursor(w, g, c), NEW max \in Nat
    PROVE  /\ WndInv(RecvWndRecv(w, max), g, c + Done(w, max))
           /\ Cursor(RecvWndRecv(w, max), g, c + Done(w, max))
           /\ RecvWndRecv(w, max).copy_ofs = CopyEnd(w, max) - BytesBefore(w, Done(w, max))
  <1> DEFINE d    == Deliverable(w)
             done == Done(w, max)
             ofs  == CopyEnd(w, max) - BytesBefore(w, done)
             w2   == RecvWndRecv(w, max)
             c2   == c + done
  <1>1. /\ d \in Nat /\ c + d <= MaxMsgs /\ w.slide + d <= w.size /\ d <= RecvCap
        /\ \A i \in 0..(d - 1) :
              /\ c + i \in Msgs /\ Whole(g, c + i)
              /\ c + i \in c..(c + RecvCap - 1)
              /\ CopySlot(w, i) = Slot(c + i)
    BY DeliverableFacts
  <1>2. /\ CopyEnd(w, max) \in Nat /\ CopyEnd(w, max) <= BytesBefore(w, d)
        /\ done \in 0..d
        /\ BytesBefore(w, done) <= CopyEnd(w, max)
        /\ done < d => CopyEnd(w, max) < BytesBefore(w, done) + len[c + done]
    BY CountFacts
  <1>4. RecvWndOK(w) /\ Placed(w, g, c)
    BY DEF WndInv
  <1>3. ReadEffect(w2, w, done, ofs)
    BY <1>4, ReadChanges
  <1>5. /\ c \in Nat /\ w.slide \in Nat /\ w.size \in Nat
        /\ w.slide <= c /\ w.slide <= w.size /\ w.size <= RecvCap
        /\ WndStart(w, c) \in Nat /\ WndStart(w, c) = c - w.slide
        /\ WndEnd(w, c) \in Nat /\ WndEnd(w, c) = c - w.slide + w.size
        /\ c <= WndEnd(w, c) /\ WndEnd(w, c) <= c + RecvCap
    BY <1>4, WndNumbers
  <1>6. done \in Nat /\ done <= d /\ BytesBefore(w, done) \in Nat
    <2>1. done \in Nat /\ done <= d
      BY <1>1, <1>2
    <2> HIDE DEF done
    <2> QED
      BY <2>1, CopyIsStream
  <1> HIDE DEF d, done, w2, ofs
  <1>7. /\ RecvWndOK(w2)
        /\ w2.seq = w.seq /\ w2.size = w.size /\ w2.buf = w.buf /\ w2.ack = w.ack
        /\ w2.inter_seg_ack_on = w.inter_seg_ack_on
        /\ w2.inter_seg_ack_seq = w.inter_seg_ack_seq
        /\ w2.slide = w.slide + done /\ w2.copy_seq = (w.copy_seq + done) % SeqMod
        /\ w2.copy_ofs = ofs
        /\ \A i \in RecvIdx : w2.msg[i] = IF i \in Freed(w, done) THEN EmptyMsg ELSE w.msg[i]
    BY <1>3 DEF ReadEffect
  <1>8. WndStart(w2, c2) = WndStart(w, c) /\ WndEnd(w2, c2) = WndEnd(w, c)
    BY <1>5, <1>6, <1>7 DEF WndStart, WndEnd
  <1>9. ASSUME NEW n \in Nat, c <= n, n < c2 PROVE n \in Msgs /\ Whole(g, n)
    <2>1. n - c \in 0..(d - 1) /\ c + (n - c) = n
      BY <1>1, <1>5, <1>6, <1>9
    <2> QED
      BY <1>1, <2>1
  <1>10. Placed(w2, g, c2)
    <2>1. c2 \in 0..MaxMsgs /\ w2.slide <= c2 /\ w2.slide <= w2.size
      BY <1>1, <1>5, <1>6, <1>7, SizesFacts
    <2>2. w2.copy_seq = SeqNum(c2)
      BY <1>4, <1>5, <1>6, <1>7, SeqNumAhead DEF Placed
    <2> QED
      BY <1>4, <1>7, <1>8, <2>1, <2>2 DEF Placed
  <1>11. Progress(g, c2)
    <2>1. ASSUME NEW n \in Msgs, n < c2 PROVE Whole(g, n)
      <3>1. CASE n < c
        BY <3>1 DEF WndInv, Progress
      <3>2. CASE c <= n
        BY <1>9, <2>1, <3>2, SizesFacts DEF Msgs
      <3> QED
        BY <1>5, <3>1, <3>2, SizesFacts DEF Msgs
    <2> QED
      BY <2>1 DEF WndInv, Progress
  <1>12. ASSUME NEW n \in c2..(c2 + RecvCap - 1) PROVE Held(w2, g, n)
    <2>0. n \in Nat /\ Slot(n) \in RecvIdx
      <3>1. n \in Nat
        BY <1>5, <1>6, SizesFacts
      <3> QED
        BY <3>1, SlotFacts
    <2>1. CASE n < c + RecvCap
      <3>1. n \in c..(c + RecvCap - 1)
        BY <1>5, <1>6, <2>0, <2>1, SizesFacts
      <3>2. Slot(n) \notin Freed(w, done)
        <4> SUFFICES ASSUME NEW i \in 0..(done - 1), Slot(n) = CopySlot(w, i) PROVE FALSE
          BY DEF Freed
        <4>1. i \in 0..(d - 1) /\ i < done /\ i \in Nat
          BY <1>1, <1>6
        <4>2. Slot(n) = Slot(c + i) /\ c + i \in c..(c + RecvCap - 1)
          BY <1>1, <4>1
        <4>3. n = c + i
          BY <1>5, <3>1, <4>2, SlotsDiffer
        <4> QED
          BY <1>5, <1>6, <4>1, <4>3
      <3>3. Held(w, g, n)
        BY <3>1 DEF WndInv, Slots
      <3>4. w2.msg[Slot(n)] = w.msg[Slot(n)]
        BY <1>7, <2>0, <3>2
      <3> QED
        BY <1>7, <3>3, <3>4 DEF Held
    <2>2. CASE c + RecvCap <= n
      <3> DEFINE i == n - RecvCap - c
                 k == c + i
                 j == w.slide + i
      <3>1. i \in Nat /\ i < done /\ i \in 0..(done - 1) /\ i \in 0..(d - 1)
        BY <1>1, <1>5, <1>6, <2>0, <2>2, SizesFacts
      <3>2. k = n - RecvCap /\ k \in Nat /\ RecvCap <= n /\ j \in 0..(w.size - 1) /\ j \in Nat
            /\ WndStart(w, c) + j = k
        BY <1>1, <1>5, <1>6, <2>0, <2>2, <3>1, SizesFacts
      <3> HIDE DEF i, k, j
      <3>3. Slot(k) = Slot(n)
        BY <2>0, <3>2, SlotPeriod
      <3>4. CopySlot(w, i) = Slot(k)
        BY <1>1, <3>1 DEF k
      <3>5. w2.msg[Slot(n)] = EmptyMsg
        <4>1. Slot(n) \in Freed(w, done)
          BY <3>1, <3>3, <3>4 DEF Freed
        <4> QED
          BY <1>7, <2>0, <4>1
      <3>7. ~Arrived(g, n)
        <4>1. WndEnd(w, c) <= n
          BY <1>5, <2>0, <2>2, SizesFacts
        <4> QED
          BY <1>4, <4>1 DEF Placed, Arrived
      <3> QED
        BY <3>5, <3>7 DEF Held
    <2> QED
      BY <1>5, <2>0, <2>1, <2>2, SizesFacts
  <1>14. WndInv(w2, g, c2)
    BY <1>7, <1>10, <1>11, <1>12 DEF WndInv, Slots
  <1>15. Cursor(w2, g, c2)
    <2> SUFFICES ASSUME ofs > 0 PROVE c2 \in Msgs /\ Whole(g, c2) /\ ofs < len[c2]
      BY <1>7 DEF Cursor
    <2>1. CopyEnd(w, max) > BytesBefore(w, done)
      BY <1>2, <1>6 DEF ofs
    <2>2. done < d
      <3>1. done # d
        BY <1>2, <1>6, <2>1
      <3> QED
        BY <1>1, <1>6, <3>1
    <2>3. done \in 0..(d - 1)
      BY <1>1, <1>6, <2>2
    <2>4. c2 \in Msgs /\ Whole(g, c2)
      BY <1>1, <2>3
    <2>5. ofs < len[c2]
      <3>1. len[c2] \in Nat /\ CopyEnd(w, max) < BytesBefore(w, done) + len[c2]
        BY <1>2, <2>2, <2>4, LenFacts
      <3> QED
        BY <1>2, <1>6, <3>1 DEF ofs
    <2> QED
      BY <2>4, <2>5
  <1> QED
    BY <1>7, <1>14, <1>15 DEF w2, done, ofs

(* arq_recv while no acknowledgement is due. *)
LEMMA AnswersRecv ==
    ASSUME LenType, NEW w, NEW g, NEW c, WndInv(w, g, c), Cursor(w, g, c), NEW max \in Nat,
           Answers(w, g, c), AcksDue(w) = {}
    PROVE  Answers(RecvWndRecv(w, max), g, c + Done(w, max))
  <1> DEFINE d    == Deliverable(w)
             done == Done(w, max)
             ofs  == CopyEnd(w, max) - BytesBefore(w, done)
             w2   == RecvWndRecv(w, max)
             c2   == c + done
  <1>1. RecvWndOK(w) /\ Placed(w, g, c)
    BY DEF WndInv
  <1>2. ReadEffect(w2, w, done, ofs)
    BY <1>1, ReadChanges
  <1>3. d \in Nat /\ w.slide + d <= w.size /\ done \in 0..d
    BY DeliverableFacts, CountFacts
  <1>4. Progress(g, c2)
    BY RecvKeeps DEF WndInv
  <1>5. /\ c \in Nat /\ w.slide \in Nat /\ w.size \in Nat
        /\ w.slide <= c /\ w.slide <= w.size /\ w.size <= RecvCap
        /\ WndStart(w, c) \in Nat /\ WndStart(w, c) = c - w.slide
    BY <1>1, WndNumbers
  <1> HIDE DEF d, done, w2, ofs
  <1>6. done \in Nat /\ done <= d /\ c2 \in Nat /\ c <= c2
    BY <1>3, <1>5
  <1>7. ASSUME NEW n \in c2..(c2 + RecvCap - 1), w2.ack[Slot(n)] PROVE Arrived(g, n)
    <2>1. n \in Nat /\ w.ack[Slot(n)]
      BY <1>2, <1>6, <1>7, SizesFacts DEF ReadEffect
    <2>2. n < c + RecvCap
      <3> SUFFICES ASSUME c + RecvCap <= n PROVE FALSE
        BY <1>5, <2>1, SizesFacts
      <3> DEFINE k == n - RecvCap
                 j == k - WndStart(w, c)
      <3>1. k \in Nat /\ RecvCap <= n /\ j \in Nat /\ j \in 0..(w.size - 1)
            /\ WndStart(w, c) + j = k
        BY <1>3, <1>5, <1>6, <2>1, SizesFacts
      <3>2. Slot(k) = Slot(n)
        BY <2>1, <3>1, SlotPeriod
      <3> HIDE DEF k, j
      <3>3. w.seq = SeqNum(WndStart(w, c))
        BY <1>1 DEF Placed
      <3>4. (w.seq + j) % RecvCap = Slot(k)
        <4> DEFINE s == WndStart(w, c)
        <4>1. s \in Nat /\ s + j = k /\ w.seq = SeqNum(s)
          BY <1>5, <3>1, <3>3
        <4> HIDE DEF s
        <4> QED
          BY <3>1, <4>1, SlotAhead
      <3>5. j \in AcksDue(w)
        BY <2>1, <3>1, <3>2, <3>4 DEF AcksDue
      <3> QED
        BY <3>5
    <2>3. n \in c..(c + RecvCap - 1)
      BY <1>5, <1>6, <2>1, <2>2, SizesFacts
    <2> QED
      BY <2>1, <2>3 DEF Answers
  <1>8. ASSUME w2.inter_seg_ack_on
        PROVE  \E a \in Msgs : /\ c2 <= a /\ w2.inter_seg_ack_seq = SeqNum(a)
                               /\ Arrived(g, a) /\ ~Whole(g, a)
    <2>1. PICK a \in Msgs : /\ c <= a /\ w.inter_seg_ack_seq = SeqNum(a)
                            /\ Arrived(g, a) /\ ~Whole(g, a)
      BY <1>2, <1>8 DEF ReadEffect, Answers
    <2>2. ~(a < c2)
      BY <1>4, <2>1 DEF Progress
    <2>3. c2 <= a
      BY <1>6, <2>2, SizesFacts DEF Msgs
    <2> QED
      BY <1>2, <2>1, <2>3 DEF ReadEffect
  <1>9. Answers(w2, g, c2)
    BY <1>7, <1>8 DEF Answers
  <1> QED
    BY <1>9 DEF w2, done

(* What arq_recv has returned is the stream up to byte copy_ofs of message c. *)
InOrder(w, c, r) ==
    /\ r \in Seq(Nat)
    /\ Len(r) = Start(c) + w.copy_ofs
    /\ Len(r) <= Start(MaxMsgs)
    /\ \A p \in 1..Len(r) : r[p] = Before(MaxMsgs)[p]

LEMMA RecvReturnsStream ==
    ASSUME LenType, NEW w, NEW g, NEW c, WndInv(w, g, c), Cursor(w, g, c), NEW max \in Nat,
           NEW r, InOrder(w, c, r)
    PROVE  InOrder(RecvWndRecv(w, max), c + Done(w, max), r \o RecvData(w, max))
  <1> DEFINE d    == Deliverable(w)
             done == Done(w, max)
             n    == RecvCount(w, max)
             data == RecvData(w, max)
             w2   == RecvWndRecv(w, max)
             B(k) == BytesBefore(w, k)
             st   == Start(c)
             top  == Start(MaxMsgs)
             all  == Before(MaxMsgs)
             L    == Len(r)
  <1>1. /\ n \in Nat /\ (n > 0 => d > 0)
        /\ CopyEnd(w, max) \in Nat /\ CopyEnd(w, max) <= B(d) /\ CopyEnd(w, max) = w.copy_ofs + n
        /\ done \in 0..d /\ B(done) <= CopyEnd(w, max)
    BY CountFacts DEF CopyEnd
  <1>2. w2.copy_ofs = CopyEnd(w, max) - B(done)
    BY RecvKeeps
  <1>3. w.copy_ofs \in Nat /\ c \in 0..MaxMsgs /\ d \in Nat /\ MaxMsgs \in 0..MaxMsgs
    BY DeliverableFacts, SizesFacts DEF WndInv, RecvWndOK, RecvWndType, Placed
  <1>4. st \in Nat /\ top \in Nat
    BY <1>3, StartFacts
  <1>5. B(d) \in Nat /\ B(done) \in Nat /\ st + B(done) = Start(c + done)
    <2>1. done \in Nat
      BY <1>1, <1>3
    <2> HIDE DEF done
    <2> QED
      BY <1>1, <1>3, <2>1, CopyIsStream
  <1>6. L \in Nat /\ L = st + w.copy_ofs /\ L <= top
    BY DEF InOrder
  <1>14. r \in Seq(Nat) /\ \A p \in 1..L : r[p] = all[p]
    BY DEF InOrder
  <1>7. data = [k \in 1..n |-> CopyByte(w, w.copy_ofs + k - 1)]
    BY DEF RecvData
  <1> HIDE DEF n, done, d, B, w2, data, L, st, top, all
  <1>8. ASSUME NEW k \in 1..n
        PROVE  /\ data[k] = all[L + k] /\ data[k] \in Nat
               /\ L + k <= top
    <2> DEFINE b == w.copy_ofs + k - 1
    <2>1. b \in Nat /\ b < B(d) /\ d > 0 /\ st + b + 1 = L + k
      BY <1>1, <1>3, <1>4, <1>5, <1>6
    <2>2. data[k] = CopyByte(w, b)
      BY <1>7
    <2> HIDE DEF b
    <2>3. CopyByte(w, b) = all[st + b + 1] /\ CopyByte(w, b) \in Nat /\ st + b + 1 <= top
      BY <2>1, CopyByteFacts DEF d, B, st, top, all
    <2> QED
      BY <2>1, <2>2, <2>3
  <1>9. data \in Seq(Nat) /\ Len(data) = n
    <2>1. data \in [1..n -> Nat]
      BY <1>7, <1>8
    <2> QED
      BY <1>1, <2>1
  <1>10. /\ r \o data \in Seq(Nat) /\ Len(r \o data) = L + n
         /\ \A p \in 1..(L + n) : (r \o data)[p] = IF p <= L THEN r[p] ELSE data[p - L]
    BY <1>9, <1>14, ConcatFacts DEF L
  <1>11. L + n = Start(c + done) + w2.copy_ofs
    BY <1>1, <1>2, <1>3, <1>4, <1>5, <1>6 DEF d
  <1>12. L + n <= top
    <2>1. CASE n = 0
      BY <1>6, <2>1
    <2>2. CASE n > 0
      BY <1>1, <1>8, <2>2
    <2> QED
      BY <1>1, <2>1, <2>2
  <1>13. ASSUME NEW p \in 1..(L + n) PROVE (r \o data)[p] = all[p]
    <2>1. CASE p <= L
      <3>1. p \in 1..L
        BY <1>6, <2>1
      <3> QED
        BY <1>10, <1>14, <2>1, <3>1
    <2>2. CASE ~(p <= L)
      <3>1. p - L \in 1..n /\ L + (p - L) = p
        BY <1>1, <1>6, <2>2
      <3> QED
        BY <1>8, <1>10, <2>2, <3>1
    <2> QED
      BY <2>1, <2>2
  <1> QED
    BY <1>10, <1>11, <1>12, <1>13 DEF InOrder, w2, done, data, top, all

----------------------------------------------------------------------------
(* Types, whatever Env allows *)

TypeInv ==
    /\ LenType
    /\ RecvWndOK(rw)
    /\ got \in [Msgs -> SUBSET Nat]
    /\ \A n \in Msgs : got[n] \subseteq Segs(n)

LEMMA DataFrameType ==
    ASSUME LenType, NEW n \in Msgs, NEW seg \in Segs(n)
    PROVE  <<DataFrame(n, seg)>> \in FrameBufType
  <1> DEFINE h == [FrameHdrInit EXCEPT !.seg = TRUE, !.seq_num = n % SeqMod, !.seg_id = seg,
                                       !.msg_len = SegCount(len[n])]
             f == DataFrame(n, seg)
  <1>1. seg \in 0..(MsgSegs - 1) /\ SegCount(len[n]) \in 0..MsgSegs
    BY SegSizeFacts, SegsFacts, SizesFacts
  <1>2. n % SeqMod \in 0..(SeqMod - 1)
    BY SlotFacts, SizesFacts DEF SeqNum, Msgs
  <1>3. FrameHdrInit \in FrameHdrType
    BY RecvSizes DEF FrameHdrInit, FrameHdrType, Vecs
  <1>4. h \in FrameHdrType
    BY <1>1, <1>2, <1>3 DEF FrameHdrType
  <1>5. SegData(n, seg) \in Seq(Nat) /\ Len(SegData(n, seg)) <= SegLen
    <2>1. [j \in RecvBufIdx |-> 0] \in [RecvBufIdx -> Nat]
      OBVIOUS
    <2> QED
      BY <2>1, StoreBuf
  <1>6. f = [hdr |-> h, data |-> SegData(n, seg), ok |-> TRUE]
    BY DEF DataFrame
  <1> HIDE DEF h, f
  <1>7. f \in FrameType
    BY <1>4, <1>5, <1>6 DEF FrameType
  <1> QED
    BY <1>7, FrameBufIs DEF f

LEMMA PollTypes ==
    ASSUME RecvWndOK(rw), NEW rf \in FrameBufType, NEW psh \in BOOLEAN, NEW dt \in Nat,
           PollWith(rf, psh, dt)
    PROVE  RecvWndOK(rw')
  <1>1. RecvWndOK(RecvPoll(rw, rf, psh, FrameHdrInit, dt).rw)
    BY RecvPollOK
  <1>2. rw' = RecvPoll(rw, rf, psh, FrameHdrInit, dt).rw
    BY DEF PollWith
  <1> QED
    BY <1>1, <1>2

LEMMA NextTypes ==
    ASSUME TypeInv, Next
    PROVE  RecvWndOK(rw') /\ len' = len /\ got' \in [Msgs -> SUBSET Nat]
           /\ \A n \in Msgs : got'[n] \subseteq Segs(n)
  <1>0. /\ LenType /\ RecvWndOK(rw) /\ got \in [Msgs -> SUBSET Nat]
        /\ \A n \in Msgs : got[n] \subseteq Segs(n)
    BY DEF TypeInv
  <1>1. ASSUME NEW psh \in BOOLEAN, NEW dt \in Dts, Poll(psh, dt)
        PROVE  RecvWndOK(rw') /\ len' = len /\ got' = got
    <2>1. <<>> \in FrameBufType /\ dt \in Nat
      BY RecvTimeAssumption, FrameBufIs
    <2>2. PollWith(<<>>, psh, dt) /\ len' = len /\ got' = got
      BY <1>1 DEF Poll
    <2> QED
      BY <1>0, <2>1, <2>2, PollTypes
  <1>2. ASSUME NEW psh \in BOOLEAN, NEW dt \in Dts, NEW n \in Msgs, NEW seg \in 0..(MsgSegs - 1),
               NewSegment(n, seg, psh, dt)
        PROVE  /\ RecvWndOK(rw') /\ len' = len /\ seg \in Segs(n)
               /\ got' = got \/ got' = [got EXCEPT ![n] = @ \cup {seg}]
    <2>1. seg \in Segs(n) /\ dt \in Nat
      BY <1>2, RecvTimeAssumption DEF NewSegment
    <2>2. PollWith(<<DataFrame(n, seg)>>, psh, dt) /\ len' = len
          /\ (got' = got \/ got' = [got EXCEPT ![n] = @ \cup {seg}])
      BY <1>2 DEF NewSegment
    <2>3. <<DataFrame(n, seg)>> \in FrameBufType
      BY <1>0, <2>1, DataFrameType
    <2> QED
      BY <1>0, <2>1, <2>2, <2>3, PollTypes
  <1>3. ASSUME NEW psh \in BOOLEAN, NEW dt \in Dts, NEW n \in Msgs, NEW seg \in 0..(MsgSegs - 1),
               OldSegment(n, seg, psh, dt)
        PROVE  RecvWndOK(rw') /\ len' = len /\ got' = got
    <2>1. seg \in Segs(n) /\ dt \in Nat
      BY <1>0, <1>3, RecvTimeAssumption DEF OldSegment
    <2>2. PollWith(<<DataFrame(n, seg)>>, psh, dt) /\ len' = len /\ got' = got
      BY <1>3 DEF OldSegment
    <2>3. <<DataFrame(n, seg)>> \in FrameBufType
      BY <1>0, <2>1, DataFrameType
    <2> QED
      BY <1>0, <2>1, <2>2, <2>3, PollTypes
  <1>4. ASSUME NEW max \in RecvMaxs, Recv(max)
        PROVE  RecvWndOK(rw') /\ len' = len /\ got' = got
    <2>1. max \in Nat
      BY RecvTimeAssumption
    <2>2. rw' = RecvWndRecv(rw, max) /\ len' = len /\ got' = got
      BY <1>4 DEF Recv
    <2> QED
      BY <1>0, <2>1, <2>2, RecvWndRecvOK
  <1>5. ASSUME NEW n \in Msgs, NEW seg \in Segs(n), got' = [got EXCEPT ![n] = @ \cup {seg}]
        PROVE  got' \in [Msgs -> SUBSET Nat] /\ \A i \in Msgs : got'[i] \subseteq Segs(i)
    <2>1. seg \in Nat
      BY <1>0, SegSizeFacts
    <2> QED
      BY <1>0, <1>5, <2>1
  <1>6. \/ RecvWndOK(rw') /\ len' = len /\ got' = got
        \/ \E n \in Msgs : \E seg \in Segs(n) :
              RecvWndOK(rw') /\ len' = len /\ got' = [got EXCEPT ![n] = @ \cup {seg}]
    BY <1>1, <1>2, <1>3, <1>4 DEF Next
  <1> QED
    BY <1>0, <1>5, <1>6

(* The lengths do not change, so neither does what is said of them. *)
LEMMA SameLens ==
    ASSUME LenType, len' = len
    PROVE  /\ LenType'
           /\ \A n : Segs(n)' = Segs(n)
           /\ \A n : Before(n)' = Before(n)
           /\ \A n : Start(n)' = Start(n)
           /\ \A n, S : PartMsg(n, S)' = PartMsg(n, S)
  <1>1. LenType'
    BY DEF LenType, Msgs
  <1>2. \A n : Segs(n)' = Segs(n)
    BY DEF Segs
  <1>3. \A n : Before(n)' = Before(n)
    BY DEF Before, StreamUpTo
  <1>4. \A n : Start(n)' = Start(n)
    BY <1>3 DEF Start
  <1>5. \A n, S : PartMsg(n, S)' = PartMsg(n, S)
    BY <1>2 DEF PartMsg, PartLen, Last
  <1> QED
    BY <1>1, <1>2, <1>3, <1>4, <1>5

LEMMA InitTypes == Init => TypeInv
  <1> SUFFICES ASSUME Init PROVE TypeInv
    OBVIOUS
  <1>1. [j \in RecvBufIdx |-> 0] \in [RecvBufIdx -> Nat]
    OBVIOUS
  <1>2. RecvWndOK(rw)
    BY <1>1, RecvWndRstOK DEF Init
  <1> QED
    BY <1>2 DEF Init, TypeInv, LenType

LEMMA SpecTypes == Spec => []TypeInv
  <1>1. TypeInv /\ [Next]_vars => TypeInv'
    <2> SUFFICES ASSUME TypeInv, [Next]_vars PROVE TypeInv'
      OBVIOUS
    <2>1. /\ RecvWndOK(rw') /\ len' = len /\ got' \in [Msgs -> SUBSET Nat]
          /\ \A n \in Msgs : got'[n] \subseteq Segs(n)
      <3>1. CASE Next
        BY <3>1, NextTypes
      <3>2. CASE UNCHANGED vars
        BY <3>2 DEF vars, TypeInv
      <3> QED
        BY <3>1, <3>2
    <2>2. LenType' /\ \A n : Segs(n)' = Segs(n)
      BY <2>1, SameLens DEF TypeInv
    <2>3. RecvWndOK(rw)'
      BY <2>1
    <2> QED
      BY <2>1, <2>2, <2>3 DEF TypeInv, Msgs
  <1> QED
    BY <1>1, InitTypes, PTL DEF Spec

----------------------------------------------------------------------------
(* The inductive invariant of the module.  It holds as long as no segment arrives
   when arq_recv has taken its message; Answers also needs Env = {}. *)

AtMsg(c) ==
    /\ WndInv(rw, got, c) /\ Cursor(rw, got, c) /\ InOrder(rw, c, rcvd)
    /\ AckTrue(acked, got, c)
    /\ Env = {} => Answers(rw, got, c) /\ AckExact(acked, got)

IInv == LenType /\ \E c \in 0..MaxMsgs : AtMsg(c)

LEMMA InitIInv == Init => IInv
  <1> SUFFICES ASSUME Init PROVE IInv
    OBVIOUS
  <1> DEFINE buf0 == [j \in RecvBufIdx |-> 0]
             w0   == RecvWndRst(buf0)
  <1>1. rw = w0 /\ LenType /\ got = [n \in Msgs |-> {}] /\ rcvd = <<>>
    BY DEF Init, LenType
  <1>2. RecvWndOK(w0)
    <2>1. buf0 \in [RecvBufIdx -> Nat]
      OBVIOUS
    <2> QED
      BY <2>1, RecvWndRstOK
  <1>3. 0 \in 0..MaxMsgs /\ 0 \in 0..RecvCap
    BY SizesFacts
  <1>4. /\ w0.seq = 0 /\ w0.size = 0 /\ w0.slide = 0 /\ w0.copy_seq = 0 /\ w0.copy_ofs = 0
        /\ w0.inter_seg_ack_on = FALSE
        /\ w0.msg = [i \in RecvIdx |-> EmptyMsg] /\ w0.ack = [i \in RecvIdx |-> FALSE]
    BY DEF RecvWndRst
  <1> HIDE DEF w0
  <1>5. SeqNum(0) = 0
    <2>1. (SeqMod * 0 + 0) % SeqMod = 0
      <3>1. 0 \in 0..(SeqMod - 1) /\ 0 \in Nat /\ SeqMod \in Nat \ {0}
        BY SizesFacts
      <3> QED
        BY <3>1, DivUnique
    <2>2. SeqMod * 0 + 0 = 0
      BY SizesFacts
    <2> QED
      BY <2>1, <2>2 DEF SeqNum
  <1>6. WndStart(w0, 0) = 0 /\ WndEnd(w0, 0) = 0
    BY <1>4 DEF WndStart, WndEnd
  <1>7. Placed(w0, got, 0)
    BY <1>1, <1>3, <1>4, <1>5, <1>6, SizesFacts DEF Placed
  <1>8. Progress(got, 0)
    <2>1. \A n \in Msgs : ~(n < 0)
      BY SizesFacts DEF Msgs
    <2> QED
      BY <1>1, <2>1 DEF Progress
  <1>9. ASSUME NEW n \in 0..(0 + RecvCap - 1)
        PROVE  Held(w0, got, n) /\ ~Arrived(got, n) /\ ~w0.ack[Slot(n)]
    <2>1. Slot(n) \in RecvIdx
      <3>1. n \in Nat
        BY SizesFacts
      <3> QED
        BY <3>1, SlotFacts
    <2>2. ~Arrived(got, n)
      BY <1>1 DEF Arrived
    <2> QED
      BY <1>4, <2>1, <2>2 DEF Held
  <1>10. WndInv(w0, got, 0)
    BY <1>2, <1>7, <1>8, <1>9 DEF WndInv, Slots
  <1>11. Cursor(w0, got, 0)
    BY <1>4 DEF Cursor
  <1>12. InOrder(w0, 0, rcvd)
    <2>1. Start(0) = 0 /\ Start(MaxMsgs) \in Nat
      BY <1>1, StartFacts, SizesFacts
    <2>2. Len(rcvd) = 0 /\ rcvd \in Seq(Nat)
      BY <1>1
    <2> QED
      BY <1>4, <2>1, <2>2 DEF InOrder
  <1>13. Answers(w0, got, 0)
    BY <1>1, <1>4, <1>9 DEF Answers
  <1>14. AckTrue(acked, got, 0) /\ AckExact(acked, got)
    BY DEF Init, FrameHdrInit, AckTrue, AckExact
  <1>15. AtMsg(0)
    BY <1>1, <1>10, <1>11, <1>12, <1>13, <1>14 DEF AtMsg
  <1> QED
    BY <1>1, <1>3, <1>15 DEF IInv

(* After a step arq_recv is at message c. *)
StepTo(c) ==
    /\ WndInv(rw', got', c) /\ Cursor(rw', got', c) /\ InOrder(rw', c, rcvd')
    /\ AckTrue(acked', got', c) /\ len' = len
    /\ Env = {} => Answers(rw', got', c) /\ AckExact(acked', got')

(* What arrives does not move arq_recv. *)
LEMMA PollStep ==
    ASSUME LenType, NEW c, AtMsg(c), NEW rf, NEW psh \in BOOLEAN, NEW dt \in Nat,
           NEW rh, NEW taken, NEW g, PollWith(rf, psh, dt), UNCHANGED <<len, rcvd>>, got' = g,
           RecvPoll(rw, rf, psh, FrameHdrInit, dt)
              = RecvAckPoll(RecvTimer(taken, dt), psh, FrameHdrInit, rh),
           WndInv(taken, g, c), taken.copy_ofs = rw.copy_ofs,
           Env = {} => Answers(taken, g, c),
           \A n \in Msgs : Whole(got, n) => Whole(g, n)
    PROVE  StepTo(c)
  <1> DEFINE r == RecvAckPoll(RecvTimer(taken, dt), psh, FrameHdrInit, rh)
  <1>1. /\ WndInv(r.rw, g, c) /\ r.rw.copy_ofs = taken.copy_ofs /\ AckTrue(r.sh, g, c)
        /\ Env = {} => Answers(r.rw, g, c) /\ AckExact(r.sh, g)
    BY RestOfPoll
  <1>2. rw' = r.rw /\ acked' = r.sh
    BY DEF PollWith
  <1> HIDE DEF r
  <1>3. /\ WndInv(rw', got', c) /\ AckTrue(acked', got', c) /\ rw'.copy_ofs = rw.copy_ofs
        /\ Env = {} => Answers(rw', got', c) /\ AckExact(acked', got')
    BY <1>1, <1>2
  <1>4. Cursor(rw', got', c)
    BY <1>3 DEF AtMsg, Cursor
  <1>5. InOrder(rw', c, rcvd')
    <2>1. rcvd' = rcvd
      OBVIOUS
    <2> QED
      BY <1>3, <2>1 DEF AtMsg, InOrder
  <1> QED
    BY <1>3, <1>4, <1>5 DEF StepTo

LEMMA PollOfFrame ==
    ASSUME NEW n \in Msgs, NEW seg, NEW psh, NEW dt
    PROVE  RecvPoll(rw, <<DataFrame(n, seg)>>, psh, FrameHdrInit, dt)
             = RecvAckPoll(RecvTimer(RecvWndFrame(rw, SeqNum(n), seg, SegCount(len[n]),
                                                  SegData(n, seg)), dt),
                           psh, FrameHdrInit, DataFrame(n, seg).hdr)
  <1> DEFINE f == DataFrame(n, seg)
  <1>1. /\ f.ok = TRUE /\ f.data = SegData(n, seg) /\ f.hdr.seg = TRUE
        /\ f.hdr.seq_num = SeqNum(n) /\ f.hdr.seg_id = seg /\ f.hdr.msg_len = SegCount(len[n])
    BY DEF DataFrame, FrameHdrInit, SeqNum
  <1> HIDE DEF f
  <1>2. <<f>> # <<>> /\ Head(<<f>>) = f
    OBVIOUS
  <1>3. RecvPoll(rw, <<f>>, psh, FrameHdrInit, dt)
          = RecvAckPoll(RecvTimer(RecvWndFrame(rw, f.hdr.seq_num, f.hdr.seg_id, f.hdr.msg_len,
                                               f.data), dt), psh, FrameHdrInit, f.hdr)
    BY <1>1, <1>2 DEF RecvPoll
  <1> QED
    BY <1>1, <1>3 DEF f

LEMMA PollStepTo ==
    ASSUME LenType, NEW c, AtMsg(c), NEW psh \in BOOLEAN, NEW dt \in Nat, Poll(psh, dt)
    PROVE  StepTo(c)
  <1>1. RecvPoll(rw, <<>>, psh, FrameHdrInit, dt)
          = RecvAckPoll(RecvTimer(rw, dt), psh, FrameHdrInit, FrameHdrInit)
    BY DEF RecvPoll, FrameHdrInit
  <1>2. PollWith(<<>>, psh, dt) /\ UNCHANGED <<len, rcvd>> /\ got' = got
    BY DEF Poll
  <1>3. WndInv(rw, got, c) /\ (Env = {} => Answers(rw, got, c))
        /\ \A n \in Msgs : Whole(got, n) => Whole(got, n)
    BY DEF AtMsg
  <1> QED
    BY <1>1, <1>2, <1>3, PollStep

LEMMA NewSegmentStepTo ==
    ASSUME LenType, NEW c, AtMsg(c), NEW n \in Msgs, NEW seg, NEW psh \in BOOLEAN,
           NEW dt \in Nat, NewSegment(n, seg, psh, dt)
    PROVE  StepTo(c)
  <1> DEFINE g     == IF InReach(rw, SeqNum(n)) THEN [got EXCEPT ![n] = @ \cup {seg}] ELSE got
             taken == RecvWndFrame(rw, SeqNum(n), seg, SegCount(len[n]), SegData(n, seg))
             S     == {k \in Msgs : got[k] # Segs(k)} \cup {MaxMsgs}
  <1>1. WndInv(rw, got, c) /\ RecvWndOK(rw) /\ Placed(rw, got, c) /\ Progress(got, c)
    BY DEF AtMsg, WndInv
  <1>2. WndEnd(rw, c) \in Nat /\ WndEnd(rw, c) <= MaxMsgs /\ c \in Nat
    BY <1>1, WndNumbers DEF Placed
  <1>3. n \in Nat /\ ~Whole(got, n) /\ n < PeerSeq + PeerCap /\ seg \in Segs(n) \ got[n]
    BY SizesFacts DEF NewSegment, Whole, Msgs
  <1>4. PeerSeq \in Nat /\ PeerSeq <= WndEnd(rw, c)
    <2>1. S \subseteq Nat
      BY SizesFacts DEF Msgs
    <2>2. WndEnd(rw, c) \in S
      <3>1. CASE WndEnd(rw, c) = MaxMsgs
        BY <3>1
      <3>2. CASE WndEnd(rw, c) # MaxMsgs
        <4> DEFINE k == WndEnd(rw, c)
        <4>1. k \in Msgs /\ k <= k
          BY <1>2, <3>2, SizesFacts DEF Msgs
        <4>2. got[k] = {}
          BY <1>1, <4>1 DEF Placed
        <4>3. Segs(k) # {}
          BY <4>1, SegsFacts
        <4> QED
          BY <4>1, <4>2, <4>3
      <3> QED
        BY <3>1, <3>2
    <2>3. PeerSeq = Min(S)
      BY DEF PeerSeq
    <2> HIDE DEF S
    <2>4. PeerSeq \in S /\ PeerSeq <= WndEnd(rw, c)
      BY <2>1, <2>2, <2>3, MinOfNats
    <2> QED
      BY <2>1, <2>4
  <1>5. InView(rw, c, n)
    <2>1. ~(n < c)
      BY <1>1, <1>3 DEF Progress
    <2> QED
      BY <1>2, <1>3, <1>4, <2>1, SizesFacts DEF InView
  <1>6. IF InReach(rw, SeqNum(n))
        THEN /\ WndInv(taken, [got EXCEPT ![n] = @ \cup {seg}], c)
             /\ n \in Msgs /\ n \in c..(c + RecvCap - 1)
             /\ \E s : /\ SameAcks(s, rw) /\ s.copy_ofs = rw.copy_ofs /\ RecvWndOK(s)
                       /\ Stored(taken, s, n, got[n], seg)
        ELSE taken = rw
    BY <1>1, <1>3, <1>5, NewFrameKeeps
  <1>7. PollWith(<<DataFrame(n, seg)>>, psh, dt) /\ UNCHANGED <<len, rcvd>> /\ got' = g
    BY DEF NewSegment, SeqNum
  <1>8. RecvPoll(rw, <<DataFrame(n, seg)>>, psh, FrameHdrInit, dt)
          = RecvAckPoll(RecvTimer(taken, dt), psh, FrameHdrInit, DataFrame(n, seg).hdr)
    BY PollOfFrame
  <1>9. ASSUME Env = {} PROVE AckVec(seg) \subseteq got[n] /\ Answers(rw, got, c)
    BY <1>9 DEF NewSegment, AtMsg
  <1>10. \A k \in Msgs : Whole(got, k) => Whole(g, k)
    BY <1>1, <1>3 DEF Whole, Progress
  <1>11. /\ WndInv(taken, g, c) /\ taken.copy_ofs = rw.copy_ofs
         /\ Env = {} => Answers(taken, g, c)
    <2>1. ASSUME InReach(rw, SeqNum(n))
          PROVE  /\ WndInv(taken, g, c) /\ taken.copy_ofs = rw.copy_ofs
                 /\ Env = {} => Answers(taken, g, c)
      <3>1. PICK s : /\ SameAcks(s, rw) /\ s.copy_ofs = rw.copy_ofs /\ RecvWndOK(s)
                     /\ Stored(taken, s, n, got[n], seg)
        BY <1>6, <2>1
      <3>2. g = [got EXCEPT ![n] = @ \cup {seg}] /\ n \in c..(c + RecvCap - 1)
            /\ WndInv(taken, g, c)
        BY <1>6, <2>1
      <3> HIDE DEF taken
      <3>3. taken.copy_ofs = rw.copy_ofs
        BY <3>1 DEF Stored
      <3>4. Env = {} => Answers(taken, g, c)
        <4> SUFFICES ASSUME Env = {} PROVE Answers(taken, g, c)
          OBVIOUS
        <4> HIDE DEF g
        <4>1. Answers(taken, [got EXCEPT ![n] = @ \cup {seg}], c)
          BY <1>1, <1>2, <1>3, <1>9, <3>1, <3>2, AnswersStore
        <4> QED
          BY <3>2, <4>1
      <3> QED
        BY <3>2, <3>3, <3>4
    <2>2. ASSUME ~InReach(rw, SeqNum(n))
          PROVE  /\ WndInv(taken, g, c) /\ taken.copy_ofs = rw.copy_ofs
                 /\ Env = {} => Answers(taken, g, c)
      <3>1. taken = rw /\ g = got
        BY <1>6, <2>2
      <3> QED
        BY <1>1, <1>9, <3>1
    <2> QED
      BY <2>1, <2>2
  <1> HIDE DEF g, taken
  <1> QED
    BY <1>7, <1>8, <1>10, <1>11, PollStep

LEMMA OldSegmentStepTo ==
    ASSUME "late_repeat" \notin Env, LenType, NEW c, AtMsg(c), NEW n \in Msgs,
           NEW seg \in 0..(MsgSegs - 1), NEW psh \in BOOLEAN, NEW dt \in Nat,
           OldSegment(n, seg, psh, dt)
    PROVE  StepTo(c)
  <1> DEFINE taken == RecvWndFrame(rw, SeqNum(n), seg, SegCount(len[n]), SegData(n, seg))
  <1>1. WndInv(rw, got, c) /\ RecvWndOK(rw) /\ Placed(rw, got, c) /\ c \in 0..MaxMsgs
        /\ c \in Nat /\ rw.copy_ofs \in Nat
    BY WndFields, SizesFacts DEF AtMsg, WndInv, Placed
  <1>2. seg \in got[n] /\ got[n] # {} /\ n \in Nat /\ n < MaxMsgs /\ n + 1 \in 0..MaxMsgs
    BY SizesFacts DEF OldSegment, Msgs
  <1>3. c <= n
    <2>1. ~(Len(rcvd) >= Start(n + 1))
      <3> DEFINE m == (n + 1) - 1
      <3>1. Start(n + 1) = Len(StreamUpTo(m)) /\ m = n
        BY <1>2 DEF Start, Before
      <3>2. ~(Len(rcvd) >= Len(StreamUpTo(n)))
        BY DEF OldSegment, Taken
      <3> HIDE DEF m
      <3>3. Start(n + 1) = Len(StreamUpTo(n))
        BY <3>1
      <3> QED
        BY <3>2, <3>3
    <2>2. Len(rcvd) = Start(c) + rw.copy_ofs
      BY DEF AtMsg, InOrder
    <2>3. Start(c) \in Nat /\ Start(n + 1) \in Nat /\ Start(n + 1) = Start(n) + len[n]
      BY <1>1, <1>2, StartFacts
    <2>4. CASE n < c
      <3>1. c \in (n + 1)..MaxMsgs
        BY <1>1, <1>2, <2>4
      <3>2. Start(n) + len[n] <= Start(c)
        BY <3>1, StartMonotone
      <3> QED
        BY <1>1, <2>1, <2>2, <2>3, <3>2
    <2> QED
      BY <1>1, <1>2, <2>4
  <1>4. /\ WndInv(taken, got, c) /\ n \in c..(c + RecvCap - 1)
        /\ taken.copy_ofs = rw.copy_ofs
        /\ taken.ack = [rw.ack EXCEPT ![Slot(n)] = TRUE]
        /\ taken.inter_seg_ack_on = rw.inter_seg_ack_on
        /\ taken.inter_seg_ack_seq = rw.inter_seg_ack_seq
    BY <1>1, <1>2, <1>3, OldFrameKeeps
  <1>5. PollWith(<<DataFrame(n, seg)>>, psh, dt) /\ UNCHANGED <<len, rcvd>> /\ got' = got
    BY DEF OldSegment
  <1>6. RecvPoll(rw, <<DataFrame(n, seg)>>, psh, FrameHdrInit, dt)
          = RecvAckPoll(RecvTimer(taken, dt), psh, FrameHdrInit, DataFrame(n, seg).hdr)
    BY PollOfFrame
  <1>7. \A k \in Msgs : Whole(got, k) => Whole(got, k)
    OBVIOUS
  <1> HIDE DEF taken
  <1>8. Env = {} => Answers(taken, got, c)
    <2> SUFFICES ASSUME Env = {} PROVE Answers(taken, got, c)
      OBVIOUS
    <2>1. Answers(rw, got, c)
      BY DEF AtMsg
    <2> QED
      BY <1>1, <1>2, <1>4, <2>1, AnswersOld
  <1> QED
    BY <1>4, <1>5, <1>6, <1>7, <1>8, PollStep

LEMMA RecvStepTo ==
    ASSUME LenType, NEW c, AtMsg(c), NEW max \in Nat, Recv(max)
    PROVE  StepTo(c + Done(rw, max))
  <1> DEFINE w2 == RecvWndRecv(rw, max)
             c2 == c + Done(rw, max)
             r2 == rcvd \o RecvData(rw, max)
  <1>1. WndInv(rw, got, c) /\ Cursor(rw, got, c) /\ InOrder(rw, c, rcvd)
    BY DEF AtMsg
  <1>2. WndInv(w2, got, c2) /\ Cursor(w2, got, c2)
    BY <1>1, RecvKeeps
  <1>3. InOrder(w2, c2, r2)
    BY <1>1, RecvReturnsStream
  <1>4. rw' = w2 /\ rcvd' = r2 /\ got' = got /\ len' = len /\ acked' = FrameHdrInit
    BY DEF Recv
  <1>5. AckTrue(FrameHdrInit, got, c2) /\ AckExact(FrameHdrInit, got)
    BY DEF AckTrue, AckExact, FrameHdrInit
  <1>6. Env = {} => Answers(w2, got, c2)
    <2> SUFFICES ASSUME Env = {} PROVE Answers(w2, got, c2)
      OBVIOUS
    <2>1. Answers(rw, got, c) /\ AcksDue(rw) = {}
      BY DEF AtMsg, Recv
    <2> QED
      BY <1>1, <2>1, AnswersRecv
  <1> HIDE DEF w2, c2, r2
  <1>7. StepTo(c2)
    BY <1>2, <1>3, <1>4, <1>5, <1>6 DEF StepTo
  <1> QED
    BY <1>7 DEF c2

LEMMA NextStepTo ==
    ASSUME "late_repeat" \notin Env, IInv, Next
    PROVE  \E c \in 0..MaxMsgs : StepTo(c)
  <1>1. PICK c \in 0..MaxMsgs : AtMsg(c)
    BY DEF IInv
  <1>2. LenType
    BY DEF IInv
  <1>3. CASE \E psh \in BOOLEAN, dt \in Dts : Poll(psh, dt)
    BY <1>1, <1>2, <1>3, PollStepTo, RecvTimeAssumption
  <1>4. CASE \E psh \in BOOLEAN, dt \in Dts :
                \E n \in Msgs, seg \in 0..(MsgSegs - 1) : NewSegment(n, seg, psh, dt)
    BY <1>1, <1>2, <1>4, NewSegmentStepTo, RecvTimeAssumption
  <1>5. CASE \E psh \in BOOLEAN, dt \in Dts :
                \E n \in Msgs, seg \in 0..(MsgSegs - 1) : OldSegment(n, seg, psh, dt)
    BY <1>1, <1>2, <1>5, OldSegmentStepTo, RecvTimeAssumption
  <1>6. CASE \E max \in RecvMaxs : Recv(max)
    <2>1. PICK max \in RecvMaxs : Recv(max)
      BY <1>6
    <2>2. max \in Nat
      BY RecvTimeAssumption
    <2>3. StepTo(c + Done(rw, max))
      BY <1>1, <1>2, <2>1, <2>2, RecvStepTo
    <2>4. c + Done(rw, max) \in 0..MaxMsgs
      BY <2>3 DEF StepTo, WndInv, Placed
    <2> QED
      BY <2>3, <2>4
  <1> QED
    BY <1>3, <1>4, <1>5, <1>6 DEF Next

LEMMA StepToNext ==
    ASSUME LenType, NEW c, len' = len,
           WndInv(rw', got', c), Cursor(rw', got', c), InOrder(rw', c, rcvd'),
           AckTrue(acked', got', c), Env = {} => Answers(rw', got', c) /\ AckExact(acked', got')
    PROVE  LenType' /\ AtMsg(c)'
  <1>1. /\ LenType' /\ len' = len
        /\ \A n : Segs(n)' = Segs(n)
        /\ \A n : Before(n)' = Before(n)
        /\ \A n : Start(n)' = Start(n)
        /\ \A n, S : PartMsg(n, S)' = PartMsg(n, S)
    BY SameLens
  <1>2. \A n : Whole(got, n)' = Whole(got', n)
    BY <1>1 DEF Whole
  <1>3. \A n : Held(rw, got, n)' = Held(rw', got', n)
    BY <1>1 DEF Held, Arrived, Msgs, Slot, Cell, Byte
  <1>4. Progress(got, c)'
    <2>1. Progress(got', c)
      BY DEF WndInv
    <2> QED
      BY <1>1, <1>2, <2>1 DEF Progress, Msgs
  <1>5. Placed(rw, got, c)'
    <2>1. Placed(rw', got', c)
      BY DEF WndInv
    <2> QED
      BY <2>1 DEF Placed, WndStart, WndEnd, SeqNum, Msgs
  <1>6. Slots(rw, got, c)'
    <2>1. Slots(rw', got', c)
      BY DEF WndInv
    <2> QED
      BY <1>3, <2>1 DEF Slots
  <1>7. RecvWndOK(rw)'
    <2>1. RecvWndOK(rw')
      BY DEF WndInv
    <2> QED
      BY <2>1 DEF RecvWndOK, RecvWndType, MsgFits
  <1>8. WndInv(rw, got, c)'
    BY <1>4, <1>5, <1>6, <1>7 DEF WndInv
  <1>9. Cursor(rw, got, c)'
    BY <1>1, <1>2 DEF Cursor, Msgs
  <1>10. InOrder(rw, c, rcvd)'
    BY <1>1 DEF InOrder
  <1>11. (Env = {} => Answers(rw, got, c))'
    BY <1>1, <1>2 DEF Answers, Arrived, Msgs, Slot, SeqNum, AckVec
  <1>12. AckTrue(acked, got, c)' /\ (Env = {} => AckExact(acked, got))'
    BY DEF AckTrue, AckExact, Msgs
  <1> QED
    BY <1>1, <1>8, <1>9, <1>10, <1>11, <1>12 DEF AtMsg

LEMMA NextIInv ==
    ASSUME "late_repeat" \notin Env
    PROVE  IInv /\ [Next]_vars => IInv'
  <1> SUFFICES ASSUME IInv, [Next]_vars PROVE IInv'
    OBVIOUS
  <1>1. CASE Next
    <2>1. PICK c \in 0..MaxMsgs : StepTo(c)
      BY <1>1, NextStepTo
    <2>2. LenType' /\ AtMsg(c)'
      BY <2>1, StepToNext DEF IInv, StepTo
    <2> QED
      BY <2>2 DEF IInv
  <1>2. CASE UNCHANGED vars
    <2>1. PICK c \in 0..MaxMsgs : AtMsg(c)
      BY DEF IInv
    <2>2. LenType /\ UNCHANGED <<rw, len, got, rcvd, acked>>
      BY <1>2 DEF vars, IInv
    <2>3. /\ WndInv(rw', got', c) /\ Cursor(rw', got', c) /\ InOrder(rw', c, rcvd')
          /\ AckTrue(acked', got', c)
          /\ Env = {} => Answers(rw', got', c) /\ AckExact(acked', got')
      BY <2>1, <2>2 DEF AtMsg
    <2>4. LenType' /\ AtMsg(c)'
      BY <2>2, <2>3, StepToNext
    <2> QED
      BY <2>4 DEF IInv
  <1> QED
    BY <1>1, <1>2

LEMMA SpecIInv ==
    ASSUME "late_repeat" \notin Env
    PROVE  Spec => []IInv
  <1>1. IInv /\ [Next]_vars => IInv'
    BY NextIInv
  <1> QED
    BY <1>1, InitIInv, PTL DEF Spec

(* arq_recv has taken the messages before the one it is at. *)
LEMMA TakenIsBefore ==
    ASSUME LenType, NEW c \in 0..MaxMsgs, Cursor(rw, got, c), InOrder(rw, c, rcvd), RecvWndOK(rw),
           NEW n \in Msgs
    PROVE  Taken(n) <=> n < c
  <1>1. Len(StreamUpTo(n)) = Start(n + 1)
    <2>1. (n + 1) - 1 = n
      BY SizesFacts DEF Msgs
    <2> QED
      BY <2>1 DEF Start, Before
  <1>2. /\ Start(n + 1) = Start(n) + len[n] /\ Start(n) \in Nat /\ Start(c) \in Nat
        /\ len[n] \in Nat \ {0} /\ n \in Nat /\ n + 1 <= MaxMsgs
    BY StartFacts, LenFacts, SizesFacts DEF Msgs
  <1>3. Len(rcvd) = Start(c) + rw.copy_ofs /\ rw.copy_ofs \in Nat
    BY DEF InOrder, RecvWndOK, RecvWndType
  <1>4. ASSUME n < c PROVE Len(rcvd) >= Start(n + 1)
    <2>1. c \in (n + 1)..MaxMsgs
      BY <1>2, <1>4, SizesFacts
    <2>2. Start(n) + len[n] <= Start(c)
      BY <2>1, StartMonotone
    <2> QED
      BY <1>2, <1>3, <2>2
  <1>5. ASSUME c <= n PROVE Len(rcvd) < Start(n + 1)
    <2>1. c \in Msgs
      BY <1>2, <1>5, SizesFacts DEF Msgs
    <2>2. len[c] \in Nat \ {0}
      BY <2>1, LenFacts
    <2>3. rw.copy_ofs < len[c]
      BY <1>3, <2>2 DEF Cursor
    <2>4. Start(c) + len[c] <= Start(n + 1)
      <3>1. CASE c = n
        BY <1>2, <3>1
      <3>2. CASE c < n
        <4>1. n \in (c + 1)..MaxMsgs
          BY <1>2, <3>2, SizesFacts
        <4>2. Start(c) + len[c] <= Start(n)
          BY <2>1, <4>1, StartMonotone
        <4> QED
          BY <1>2, <2>2, <4>2
      <3> QED
        BY <1>2, <1>5, <3>1, <3>2, SizesFacts
    <2> QED
      BY <1>2, <1>3, <2>2, <2>3, <2>4
  <1>6. Taken(n) <=> Len(rcvd) >= Start(n + 1)
    BY <1>1 DEF Taken
  <1> QED
    BY <1>2, <1>3, <1>4, <1>5, <1>6, SizesFacts

----------------------------------------------------------------------------
(* The theorems *)

(* TypeOK, whatever Env allows: no arrival, in whatever order and however late,
   makes a message longer than its segments or its slot, or the window larger than
   its slots (arq__recv_wnd_frame has no other check). *)
THEOREM TypeCorrect == Spec => []TypeOK
  <1>1. TypeInv => TypeOK
    <2> SUFFICES ASSUME TypeInv PROVE TypeOK
      OBVIOUS
    <2>1. LenType /\ RecvWndOK(rw) /\ got \in [Msgs -> SUBSET Nat]
          /\ \A n \in Msgs : got[n] \subseteq Segs(n)
      BY DEF TypeInv
    <2>2. got \in [Msgs -> SUBSET (0..(MsgSegs - 1))]
      <3>1. ASSUME NEW n \in Msgs PROVE got[n] \subseteq 0..(MsgSegs - 1)
        BY <2>1, SegSizeFacts
      <3> QED
        BY <2>1, <3>1
    <2>3. rw \in RecvWndType /\ \A i \in RecvIdx : MsgFits(rw.msg[i])
      BY <2>1 DEF RecvWndOK
    <2> QED
      BY <2>2, <2>3 DEF TypeOK
  <1> QED
    BY <1>1, SpecTypes, PTL

(* StreamInOrder: what arq_recv returns is the stream, each byte once, for every order
   of arrival, every repeat of a message it has not taken and every sequence of buffer
   sizes (the copy loop of arq__recv_wnd_recv).  Without the hypothesis it is false:
   find_lost_ack has a run of the program in which a message is returned twice. *)
THEOREM ReadsStream ==
    ASSUME "late_repeat" \notin Env
    PROVE  Spec => []StreamInOrder
  <1>1. IInv => StreamInOrder
    <2> SUFFICES ASSUME IInv PROVE StreamInOrder
      OBVIOUS
    <2>1. PICK c \in 0..MaxMsgs : AtMsg(c)
      BY DEF IInv
    <2> DEFINE all == StreamUpTo(MaxMsgs - 1)
               L   == Len(rcvd)
    <2>2. Before(MaxMsgs) = all /\ Start(MaxMsgs) = Len(all)
      BY DEF Before, Start
    <2>3. LenType /\ MaxMsgs \in 0..MaxMsgs
      BY SizesFacts DEF IInv
    <2>4. all \in Seq(Nat)
      BY <2>2, <2>3, BeforeFacts
    <2>5. /\ rcvd \in Seq(Nat) /\ L <= Len(all) /\ L \in Nat
          /\ \A p \in 1..L : rcvd[p] = all[p]
      BY <2>1, <2>2 DEF AtMsg, InOrder
    <2> HIDE DEF all
    <2>6. rcvd = SubSeq(all, 1, L)
      <3>1. SubSeq(all, 1, L) = [p \in 1..L |-> all[p]]
        BY <2>4, <2>5
      <3>2. rcvd = [p \in 1..L |-> rcvd[p]]
        BY <2>5
      <3> QED
        BY <2>5, <3>1, <3>2
    <2> QED
      BY <2>5, <2>6 DEF StreamInOrder, all
  <1>2. Spec => []IInv
    BY SpecIInv
  <1> QED
    BY <1>1, <1>2, PTL

(* CursorsAgree: seq, slide and copy_seq stay together although arq__recv_wnd_frame
   moves the one and arq__recv_wnd_recv the others, and no more is slid over than the
   window holds: as long as no repeat comes after its message was taken. *)
THEOREM CursorsStayTogether ==
    ASSUME "late_repeat" \notin Env
    PROVE  Spec => []CursorsAgree
  <1>1. IInv => CursorsAgree
    <2> SUFFICES ASSUME IInv PROVE CursorsAgree
      OBVIOUS
    <2>1. PICK c \in 0..MaxMsgs : AtMsg(c)
      BY DEF IInv
    <2>2. LenType /\ WndInv(rw, got, c) /\ RecvWndOK(rw) /\ Placed(rw, got, c)
          /\ Cursor(rw, got, c)
      BY <2>1 DEF AtMsg, WndInv, IInv
    <2>3. /\ c \in Nat /\ rw.slide \in Nat /\ rw.slide <= rw.size
          /\ WndStart(rw, c) \in Nat /\ WndStart(rw, c) = c - rw.slide
      BY <2>2, WndNumbers
    <2>4. rw.copy_seq = (rw.seq + rw.slide) % SeqMod
      <3>1. (SeqNum(WndStart(rw, c)) + rw.slide) % SeqMod = SeqNum(WndStart(rw, c) + rw.slide)
        BY <2>3, SeqNumAhead
      <3>2. WndStart(rw, c) + rw.slide = c
        BY <2>3
      <3> QED
        BY <2>2, <3>1, <3>2 DEF Placed
    <2>5. ASSUME rw.copy_ofs > 0
          PROVE  /\ Complete(rw.msg[CopySlot(rw, 0)])
                 /\ rw.copy_ofs < rw.msg[CopySlot(rw, 0)].len
      <3>1. c \in Msgs /\ Whole(got, c) /\ rw.copy_ofs < len[c]
        BY <2>2, <2>5 DEF Cursor
      <3>2. c \in c..(c + RecvCap - 1)
        BY <2>3, SizesFacts
      <3>3. rw.msg[Slot(c)].len = len[c] /\ Complete(rw.msg[Slot(c)])
        BY <2>2, <3>1, <3>2, WholeMsg
      <3>4. CopySlot(rw, 0) = Slot(c)
        <4>1. 0 \in 0..(Deliverable(rw) - 1) /\ c + 0 = c
          BY <2>2, <2>3, <3>1, DeliverableFacts
        <4> QED
          BY <2>2, <4>1, DeliverableFacts
      <3> QED
        BY <3>1, <3>3, <3>4
    <2> QED
      BY <2>3, <2>4, <2>5 DEF CursorsAgree
  <1>2. Spec => []IInv
    BY SpecIInv
  <1> QED
    BY <1>1, <1>2, PTL

(* AckTellsTruth: the acknowledgement that arq__recv_wnd_ack puts into a header lists
   what is here of its message, those of this very poll included, and nothing of a
   message that arq_recv has taken (arq.h:1300), whatever has moved in between. *)
THEOREM AcksTellTruth ==
    ASSUME "late_repeat" \notin Env
    PROVE  Spec => []AckTellsTruth
  <1>1. IInv => AckTellsTruth
    <2> SUFFICES ASSUME IInv PROVE AckTellsTruth
      OBVIOUS
    <2>1. PICK c \in 0..MaxMsgs : AtMsg(c)
      BY DEF IInv
    <2>2. \A n \in Msgs : Taken(n) <=> n < c
      <3>1. /\ LenType /\ RecvWndOK(rw)
            /\ Cursor(rw, got, c) /\ InOrder(rw, c, rcvd)
        BY <2>1 DEF IInv, AtMsg, WndInv
      <3> QED
        BY <3>1, TakenIsBefore
    <2> QED
      BY <2>1, <2>2 DEF AtMsg, AckTrue, AckTellsTruth
  <1>2. Spec => []IInv
    BY SpecIInv
  <1> QED
    BY <1>1, <1>2, PTL

(* When the segments of a message come in order and arq_recv waits while an
   acknowledgement is due, no message is taken before its acknowledgement: it lists
   all that is here.  With either left out the slot may be cleared first. *)
THEOREM AcksListAll ==
    ASSUME Env = {}
    PROVE  Spec => []AckExact(acked, got)
  <1>1. IInv => AckExact(acked, got)
    BY DEF IInv, AtMsg
  <1>2. Spec => []IInv
    BY SpecIInv
  <1> QED
    BY <1>1, <1>2, PTL
=============================================================================

---------------------------- MODULE NumberLemmas ----------------------------
(***************************************************************************)
(* Facts about numbers that the proofs share: products, quotients,         *)
(* remainders, least elements and increasing sequences.                    *)
(***************************************************************************)
EXTENDS Integers, Sequences, FiniteSetsExt, WellFoundedInduction, TLAPS

LEMMA TimesMonotone ==
    ASSUME NEW a \in Nat, NEW b \in Nat, NEW m \in Nat, a <= b
    PROVE  a * m <= b * m
  <1>1. b = a + (b - a) /\ b - a \in Nat
    OBVIOUS
  <1>2. b * m = a * m + (b - a) * m
    BY <1>1
  <1>3. (b - a) * m \in Nat
    BY <1>1
  <1> QED
    BY <1>2, <1>3

LEMMA DivModFacts ==
    ASSUME NEW n \in Nat, NEW m \in Nat \ {0}
    PROVE  /\ n \div m \in Nat
           /\ n % m \in 0..(m - 1)
           /\ n = m * (n \div m) + (n % m)
  OBVIOUS

LEMMA RoundUpBounded ==
    ASSUME NEW n \in Nat, NEW m \in Nat \ {0}, NEW c \in Nat, n <= c * m
    PROVE  (n + m - 1) \div m \in 0..c
  <1> DEFINE q == (n + m - 1) \div m
  <1>1. n + m - 1 \in Nat
    OBVIOUS
  <1>2. q \in Nat /\ m * q <= n + m - 1
    BY <1>1, DivModFacts
  <1>3. CASE q <= c
    BY <1>2, <1>3
  <1>4. CASE c + 1 <= q
    <2>1. (c + 1) * m <= q * m
      BY <1>2, <1>4, TimesMonotone
    <2>2. c * m + m <= n + m - 1
      BY <1>2, <2>1
    <2> QED
      BY <2>2
  <1> QED
    BY <1>2, <1>3, <1>4

LEMMA MinOfNats ==
    ASSUME NEW S, S \subseteq Nat, S # {}
    PROVE  /\ Min(S) \in S
           /\ \A x \in S : Min(S) <= x
  <1> DEFINE R == {ss \in Nat \X Nat : ss[1] < ss[2]}
  <1>0. R = OpToRel(<, Nat)
    BY DEF OpToRel
  <1>1. PICK x \in S : \A y \in S : <<y, x>> \notin R
    <2>1. IsWellFoundedOn(R, Nat)
      BY <1>0, NatLessThanWellFounded
    <2> QED
      BY <2>1, WFMin
  <1>2. ASSUME NEW y \in S PROVE x <= y
    <2>1. x \in Nat /\ y \in Nat /\ <<y, x>> \notin R
      BY <1>1
    <2>2. ~ (y < x)
      BY <2>1
    <2> QED
      BY <2>1, <2>2
  <1> QED
    BY <1>2 DEF Min

LEMMA RestType ==
    ASSUME NEW n \in Nat, NEW m \in Nat \ {0}
    PROVE  n - (n \div m) * m \in 0..m
  <1>1. n \div m \in Nat /\ n % m \in 0..(m - 1) /\ n = m * (n \div m) + (n % m)
    BY DivModFacts
  <1> DEFINE q == n \div m
             r == n % m
  <1>2. q \in Nat /\ r \in 0..(m - 1) /\ n = m * q + r
    BY <1>1
  <1> HIDE DEF q, r
  <1>3. n - q * m = r
    BY <1>2
  <1>4. n - q * m \in 0..m
    BY <1>2, <1>3
  <1> QED
    BY <1>4 DEF q

(* Division has one quotient and one remainder. *)
LEMMA DivUnique ==
    ASSUME NEW m \in Nat \ {0}, NEW q \in Nat, NEW r \in 0..(m - 1)
    PROVE  (m * q + r) \div m = q /\ (m * q + r) % m = r
  <1> DEFINE n  == m * q + r
             q2 == n \div m
             r2 == n % m
  <1>1. n \in Nat /\ n = m * q + r
    OBVIOUS
  <1>2. q2 \in Nat /\ r2 \in 0..(m - 1) /\ n = m * q2 + r2
    BY <1>1, DivModFacts
  <1> HIDE DEF n, q2, r2
  <1>3. CASE q = q2
    <2>1. m * q + r = m * q + r2
      BY <1>1, <1>2, <1>3
    <2>2. m * q \in Nat
      OBVIOUS
    <2>3. r = r2
      BY <2>1, <2>2, <1>2
    <2> QED
      BY <1>3, <2>3 DEF n, q2, r2
  <1>4. CASE q + 1 <= q2
    <2>1. (q + 1) * m <= q2 * m
      BY <1>2, <1>4, TimesMonotone
    <2>2. m * q + m <= m * q2
      BY <2>1, <1>2
    <2>3. m * q \in Nat /\ m * q2 \in Nat
      BY <1>2
    <2> QED
      BY <1>1, <1>2, <2>2, <2>3
  <1>5. CASE q2 + 1 <= q
    <2>1. (q2 + 1) * m <= q * m
      BY <1>2, <1>5, TimesMonotone
    <2>2. m * q2 + m <= m * q
      BY <2>1, <1>2
    <2>3. m * q \in Nat /\ m * q2 \in Nat
      BY <1>2
    <2> QED
      BY <1>1, <1>2, <2>2, <2>3
  <1> QED
    BY <1>2, <1>3, <1>4, <1>5

LEMMA ModType ==
    ASSUME NEW n \in Int, NEW m \in Nat \ {0}
    PROVE  n % m \in 0..(m - 1)
  OBVIOUS

(* The remainder of a number between -m and 0. *)
LEMMA ModOfNegative ==
    ASSUME NEW m \in Nat \ {0}, NEW r \in 0..(m - 1)
    PROVE  (r - m) % m = r
  <1> DEFINE n  == r - m
             q2 == n \div m
             r2 == n % m
  <1>1. n \in Int /\ n = r - m
    OBVIOUS
  <1>2. q2 \in Int /\ r2 \in 0..(m - 1) /\ n = m * q2 + r2
    <2> HIDE DEF n
    <2> QED
      BY <1>1
  <1> HIDE DEF n, q2, r2
  <1>3. CASE q2 = -1
    BY <1>1, <1>2, <1>3 DEF n, r2
  <1>4. CASE q2 >= 0
    <2>1. m * q2 >= 0
      BY <1>2, <1>4
    <2> QED
      BY <1>1, <1>2, <2>1
  <1>5. CASE q2 <= -2
    <2> DEFINE d == -2 - q2
    <2>1. d \in Nat /\ m * d \in Nat
      BY <1>2, <1>5
    <2>2. m * q2 = 0 - m - m - m * d
      BY <1>2
    <2> QED
      BY <1>1, <1>2, <2>1, <2>2
  <1> QED
    BY <1>2, <1>3, <1>4, <1>5

LEMMA ModAddMultiple ==
    ASSUME NEW m \in Nat \ {0}, NEW k \in Nat, NEW x \in Nat
    PROVE  (m * k + x) % m = x % m
  <1> DEFINE q == x \div m
             r == x % m
  <1>1. q \in Nat /\ r \in 0..(m - 1) /\ x = m * q + r
    BY DivModFacts
  <1> HIDE DEF q, r
  <1>2. m * k + x = m * (k + q) + r /\ k + q \in Nat
    BY <1>1
  <1>3. (m * (k + q) + r) % m = r
    BY <1>1, <1>2, DivUnique
  <1> QED
    BY <1>2, <1>3 DEF r

(* Two messages of a window do not share a slot. *)
LEMMA SlotInjective ==
    ASSUME NEW m \in Nat \ {0}, NEW s \in Nat, NEW i \in 0..(m - 1), NEW j \in 0..(m - 1),
           (s + i) % m = (s + j) % m
    PROVE  i = j
  <1> DEFINE qi == (s + i) \div m
             qj == (s + j) \div m
             r  == (s + i) % m
  <1>1. s + i \in Nat /\ s + j \in Nat
    OBVIOUS
  <1>2. qi \in Nat /\ r \in 0..(m - 1) /\ s + i = m * qi + r
    BY <1>1, DivModFacts
  <1>3. qj \in Nat /\ s + j = m * qj + r
    BY <1>1, DivModFacts
  <1> HIDE DEF qi, qj, r
  <1>4. m * qi \in Nat /\ m * qj \in Nat
    BY <1>2, <1>3
  <1>5. CASE qi = qj
    BY <1>2, <1>3, <1>4, <1>5
  <1>6. CASE qi + 1 <= qj
    <2>1. (qi + 1) * m <= qj * m
      BY <1>2, <1>3, <1>6, TimesMonotone
    <2>2. m * qi + m <= m * qj
      BY <2>1, <1>2, <1>3
    <2> QED
      BY <1>2, <1>3, <1>4, <2>2
  <1>7. CASE qj + 1 <= qi
    <2>1. (qj + 1) * m <= qi * m
      BY <1>2, <1>3, <1>7, TimesMonotone
    <2>2. m * qj + m <= m * qi
      BY <2>1, <1>2, <1>3
    <2> QED
      BY <1>2, <1>3, <1>4, <2>2
  <1> QED
    BY <1>2, <1>3, <1>5, <1>6, <1>7

Divides(m, M) == M % m = 0

(* Reducing a number modulo a multiple of m first does not change its remainder. *)
LEMMA ReduceTwice ==
    ASSUME NEW M \in Nat \ {0}, NEW m \in Nat \ {0}, Divides(m, M),
           NEW a \in Nat, NEW i \in Nat
    PROVE  ((a % M) + i) % m = (a + i) % m
  <1> DEFINE q == a \div M
             r == a % M
             k == M \div m
  <1>1. q \in Nat /\ r \in Nat /\ a = M * q + r
    <2>1. q \in Nat /\ r \in 0..(M - 1) /\ a = M * q + r
      BY ONLY DivModFacts, M \in Nat \ {0}, a \in Nat
    <2> QED
      BY <2>1
  <1>2. k \in Nat /\ M = m * k + (M % m)
    BY DivModFacts
  <1> HIDE DEF q, r, k
  <1>3. M = m * k
    BY <1>2 DEF Divides
  <1>4. M * q = m * (k * q) /\ k * q \in Nat
    BY <1>1, <1>2, <1>3
  <1> DEFINE kq == k * q
             x  == m * kq
  <1>5. a = x + r /\ kq \in Nat /\ x \in Nat
    BY <1>1, <1>4
  <1> HIDE DEF kq
  <1>6. (x + (r + i)) % m = (r + i) % m
    <2> DEFINE y == r + i
    <2>1. y \in Nat
      BY <1>1
    <2> HIDE DEF y
    <2>2. (m * kq + y) % m = y % m
      BY <1>5, <2>1, ModAddMultiple
    <2> QED
      BY <2>2 DEF y
  <1> HIDE DEF x
  <1>7. a + i = x + (r + i)
    BY <1>1, <1>5
  <1> QED
    BY <1>6, <1>7 DEF r

(* Of m numbers in a row no two have the same remainder, and each has that of the
   one m before it. *)
LEMMA RingInjective ==
    ASSUME NEW m \in Nat \ {0}, NEW c \in Nat,
           NEW a \in c..(c + m - 1), NEW b \in c..(c + m - 1), a % m = b % m
    PROVE  a = b
  <1>1. a - c \in 0..(m - 1) /\ b - c \in 0..(m - 1) /\ c + (a - c) = a /\ c + (b - c) = b
    OBVIOUS
  <1>2. a - c = b - c
    BY <1>1, SlotInjective
  <1> QED
    BY <1>1, <1>2

LEMMA RingPeriod ==
    ASSUME NEW m \in Nat \ {0}, NEW a \in Nat, m <= a
    PROVE  (a - m) % m = a % m
  <1>1. a - m \in Nat /\ a = m * 1 + (a - m) /\ 1 \in Nat
    OBVIOUS
  <1>2. (m * 1 + (a - m)) % m = (a - m) % m
    BY <1>1, ModAddMultiple
  <1> QED
    BY <1>1, <1>2

(* A distance that is less than the modulus survives the reduction of its ends. *)
LEMMA ReducedDistance ==
    ASSUME NEW M \in Nat \ {0}, NEW n \in Nat, NEW s \in Nat, n - s + 1 \in 0..(M - 1)
    PROVE  ((n % M) - (s % M) + 1) % M = n - s + 1
  <1> DEFINE a == n \div M
             p == n % M
             b == s \div M
             q == s % M
             d == n - s + 1
             k == a - b
  <1>1. a \in Nat /\ p \in 0..(M - 1) /\ n = M * a + p
    BY DivModFacts
  <1>2. b \in Nat /\ q \in 0..(M - 1) /\ s = M * b + q
    BY DivModFacts
  <1>3. d \in 0..(M - 1) /\ d = n - s + 1
    OBVIOUS
  <1> HIDE DEF a, b, p, q, d
  <1>4. k \in Int /\ M * k = M * a - M * b
    BY <1>1, <1>2
  <1>5. M * a \in Nat /\ M * b \in Nat
    BY <1>1, <1>2
  <1> HIDE DEF k
  <1>6. p - q + 1 = d - M * k /\ M * k \in Int
    BY <1>1, <1>2, <1>3, <1>4, <1>5
  <1>7. CASE k = 0
    <2>1. (M * 0 + d) % M = d /\ M * 0 + d = d
      BY <1>3, DivUnique
    <2> QED
      BY <1>6, <1>7, <2>1 DEF p, q, d
  <1>8. CASE k = 1
    <2>1. (d - M) % M = d
      BY <1>3, ModOfNegative
    <2>2. p - q + 1 = d - M
      BY <1>3, <1>6, <1>8
    <2> QED
      BY <2>1, <2>2 DEF p, q, d
  <1>9. CASE k = -1
    <2>1. d = 0 /\ p - q + 1 = M
      BY <1>1, <1>2, <1>3, <1>6, <1>9
    <2>2. (M * 1 + 0) % M = 0 /\ M * 1 + 0 = M
      <3>1. 0 \in 0..(M - 1) /\ 1 \in Nat
        OBVIOUS
      <3> QED
        BY <3>1, DivUnique
    <2> QED
      BY <2>1, <2>2 DEF p, q, d
  <1>10. CASE k >= 2
    <2>1. k - 2 \in Nat /\ M * (k - 2) \in Nat /\ M * k = M + M + M * (k - 2)
      BY <1>4, <1>10
    <2> QED
      BY <1>1, <1>2, <1>3, <1>6, <2>1
  <1>11. CASE k <= -2
    <2>1. -2 - k \in Nat /\ M * (-2 - k) \in Nat /\ M * k = 0 - M - M - M * (-2 - k)
      BY <1>4, <1>11
    <2> QED
      BY <1>1, <1>2, <1>3, <1>6, <2>1
  <1> QED
    BY <1>4, <1>7, <1>8, <1>9, <1>10, <1>11

----------------------------------------------------------------------------
(* Induction and recursion for sets and functions, which need no operator as a
   parameter. *)

LEMMA InductionOnSet ==
    ASSUME NEW S, S \subseteq Nat, 0 \in S, \A n \in S : n + 1 \in S
    PROVE  S = Nat
  <1> SUFFICES ASSUME Nat \ S # {} PROVE FALSE
    OBVIOUS
  <1> DEFINE m == Min(Nat \ S)
  <1>1. m \in Nat \ S /\ \A x \in Nat \ S : m <= x
    BY MinOfNats
  <1> HIDE DEF m
  <1>2. m - 1 \in Nat /\ (m - 1) + 1 = m
    BY <1>1
  <1>3. m - 1 \in S
    BY <1>1, <1>2
  <1> QED
    BY <1>1, <1>2, <1>3

LEMMA DownwardInduction ==
    ASSUME NEW S, NEW m \in Nat, m \in S, \A n \in 1..m : n \in S => n - 1 \in S
    PROVE  0..m \subseteq S
  <1> DEFINE T == {k \in Nat : k <= m => m - k \in S}
  <1>1. 0 \in T
    OBVIOUS
  <1>2. ASSUME NEW k \in T PROVE k + 1 \in T
    <2> SUFFICES ASSUME k + 1 <= m PROVE m - (k + 1) \in S
      OBVIOUS
    <2>1. m - k \in S /\ m - k \in 1..m
      OBVIOUS
    <2>2. (m - k) - 1 = m - (k + 1)
      OBVIOUS
    <2> QED
      BY <2>1, <2>2
  <1>3. T = Nat
    <2> HIDE DEF T
    <2>1. T \subseteq Nat
      BY DEF T
    <2> QED
      BY <1>1, <1>2, <2>1, InductionOnSet
  <1> QED
    <2> SUFFICES ASSUME NEW n \in 0..m PROVE n \in S
      OBVIOUS
    <2>1. m - n \in T /\ m - n <= m /\ m - (m - n) = n
      BY <1>3
    <2> QED
      BY <2>1

(* g starts with c and goes on with step for n steps. *)
IsIteration(g, n, S, c, step) ==
    /\ g \in [0..n -> S]
    /\ g[0] = c
    /\ \A k \in 0..(n - 1) : g[k + 1] = step[<<k, g[k]>>]

LEMMA IterationsAgree ==
    ASSUME NEW S, NEW c, NEW step, NEW m \in Nat, NEW n \in Nat, NEW g, NEW h,
           IsIteration(g, m, S, c, step), IsIteration(h, n, S, c, step),
           NEW k \in Nat, k <= m, k <= n
    PROVE  g[k] = h[k]
  <1> DEFINE T == {i \in Nat : i <= m /\ i <= n => g[i] = h[i]}
  <1>1. 0 \in T
    BY DEF IsIteration
  <1>2. ASSUME NEW i \in T PROVE i + 1 \in T
    <2> SUFFICES ASSUME i + 1 <= m, i + 1 <= n PROVE g[i + 1] = h[i + 1]
      OBVIOUS
    <2>1. g[i] = h[i] /\ i \in 0..(m - 1) /\ i \in 0..(n - 1)
      OBVIOUS
    <2> QED
      BY <2>1 DEF IsIteration
  <1> HIDE DEF T
  <1>3. T = Nat
    <2>1. T \subseteq Nat
      BY DEF T
    <2> QED
      BY <1>1, <1>2, <2>1, InductionOnSet
  <1> QED
    BY <1>3 DEF T

LEMMA IterationExists ==
    ASSUME NEW S, NEW c \in S, NEW step \in [Nat \X S -> S], NEW n \in Nat
    PROVE  \E g : IsIteration(g, n, S, c, step)
  <1> DEFINE T == {i \in Nat : \E g : IsIteration(g, i, S, c, step)}
  <1>1. 0 \in T
    <2>1. IsIteration([i \in 0..0 |-> c], 0, S, c, step)
      BY DEF IsIteration
    <2> QED
      BY <2>1
  <1>2. ASSUME NEW i \in T PROVE i + 1 \in T
    <2>1. PICK g : IsIteration(g, i, S, c, step)
      OBVIOUS
    <2> DEFINE v == step[<<i, g[i]>>]
               h == [k \in 0..(i + 1) |-> IF k = i + 1 THEN v ELSE g[k]]
    <2>2. i \in Nat /\ g \in [0..i -> S] /\ g[i] \in S
      BY <2>1 DEF IsIteration
    <2>3. v \in S
      BY <2>2
    <2> HIDE DEF v
    <2>4. h \in [0..(i + 1) -> S]
      <3>1. \A k \in 0..(i + 1) : k # i + 1 => k \in 0..i
        BY <2>2
      <3> QED
        BY <2>2, <2>3, <3>1
    <2>5. \A k \in 0..i : h[k] = g[k]
      BY <2>2
    <2>6. h[i + 1] = v
      BY <2>2
    <2> HIDE DEF h
    <2>7. h[0] = c
      BY <2>1, <2>2, <2>5 DEF IsIteration
    <2>8. ASSUME NEW k \in 0..((i + 1) - 1) PROVE h[k + 1] = step[<<k, h[k]>>]
      <3>1. CASE k = i
        BY <2>2, <2>5, <2>6, <3>1 DEF v
      <3>2. CASE k \in 0..(i - 1)
        <4>1. k \in 0..i /\ k + 1 \in 0..i
          BY <2>2, <3>2
        <4> QED
          BY <2>1, <2>5, <3>2, <4>1 DEF IsIteration
      <3> QED
        BY <2>2, <3>1, <3>2
    <2>9. IsIteration(h, i + 1, S, c, step)
      BY <2>4, <2>7, <2>8 DEF IsIteration
    <2> QED
      BY <2>2, <2>9
  <1> HIDE DEF T
  <1>3. T = Nat
    <2>1. T \subseteq Nat
      BY DEF T
    <2> QED
      BY <1>1, <1>2, <2>1, InductionOnSet
  <1> QED
    BY <1>3 DEF T

(* The same for as many steps as one likes. *)
Iterates(f, S, c, step) ==
    /\ f \in [Nat -> S]
    /\ f[0] = c
    /\ \A n \in Nat : f[n + 1] = step[<<n, f[n]>>]

(* A function on the natural numbers may be defined by its first value and by how
   the next follows from each. *)
LEMMA Recursion ==
    ASSUME NEW S, NEW c \in S, NEW step \in [Nat \X S -> S]
    PROVE  \E f : Iterates(f, S, c, step)
  <1> DEFINE g(n) == CHOOSE h : IsIteration(h, n, S, c, step)
             f == [n \in Nat |-> g(n)[n]]
  <1>1. ASSUME NEW n \in Nat PROVE IsIteration(g(n), n, S, c, step)
    BY IterationExists
  <1> HIDE DEF g
  <1>2. ASSUME NEW n \in Nat PROVE f[n] \in S
    BY <1>1 DEF IsIteration
  <1>3. f \in [Nat -> S]
    BY <1>2
  <1>4. f[0] = c
    BY <1>1 DEF IsIteration
  <1>5. ASSUME NEW n \in Nat PROVE f[n + 1] = step[<<n, f[n]>>]
    <2>1. n + 1 \in Nat /\ n \in 0..((n + 1) - 1) /\ n <= n + 1 /\ n <= n
      OBVIOUS
    <2>2. IsIteration(g(n), n, S, c, step) /\ IsIteration(g(n + 1), n + 1, S, c, step)
      BY <1>1, <2>1
    <2>3. g(n + 1)[n + 1] = step[<<n, g(n + 1)[n]>>]
      BY <2>1, <2>2 DEF IsIteration
    <2>4. g(n + 1)[n] = g(n)[n]
      BY <2>1, <2>2, IterationsAgree
    <2> QED
      BY <2>1, <2>3, <2>4
  <1> HIDE DEF f
  <1>6. Iterates(f, S, c, step)
    BY <1>3, <1>4, <1>5 DEF Iterates
  <1> QED
    BY <1>6

(* The largest element of a set of numbers up to d. *)
LEMMA MaxUpTo ==
    ASSUME NEW d \in Nat, NEW S, S \subseteq 0..d, S # {}
    PROVE  /\ Max(S) \in S
           /\ \A x \in S : x <= Max(S)
  <1> DEFINE T == {y \in Nat : d - y \in S}
             m == Min(T)
  <1>1. T \subseteq Nat /\ T # {}
    <2>1. PICK x \in S : TRUE
      OBVIOUS
    <2>2. x \in 0..d
      OBVIOUS
    <2>3. d - x \in Nat /\ d - (d - x) = x
      BY <2>2
    <2>4. d - x \in T
      BY <2>3
    <2> QED
      BY <2>4
  <1>2. m \in T /\ \A y \in T : m <= y
    <2> HIDE DEF T
    <2> QED
      BY <1>1, MinOfNats
  <1>3. m \in Nat /\ d - m \in S
    BY <1>2
  <1>4. ASSUME NEW x \in S PROVE d - m >= x
    <2>1. x \in Nat /\ x <= d
      OBVIOUS
    <2>2. d - x \in Nat /\ d - (d - x) = x
      BY <2>1
    <2>3. m <= d - x
      BY <1>2, <2>2
    <2> QED
      BY <1>3, <2>1, <2>3
  <1> HIDE DEF m
  <1>5. \E x \in S : \A y \in S : x >= y
    BY <1>3, <1>4
  <1>6. Max(S) \in S /\ \A y \in S : Max(S) >= y
    BY <1>5 DEF Max
  <1> QED
    BY <1>6

LEMMA ModSmall ==
    ASSUME NEW m \in Nat \ {0}, NEW n \in 0..(m - 1)
    PROVE  n % m = n
  <1>1. n \in Nat /\ 0 \in Nat /\ m * 0 + n = n
    OBVIOUS
  <1>2. (m * 0 + n) % m = n
    BY <1>1, DivUnique
  <1> QED
    BY <1>1, <1>2

(* As many consecutive numbers as a ring has slots reach every slot. *)
LEMMA RingCovers ==
    ASSUME NEW m \in Nat \ {0}, NEW c \in Nat, NEW i \in 0..(m - 1)
    PROVE  \E n \in c..(c + m - 1) : n % m = i
  <1> DEFINE r == c % m
             q == c \div m
  <1>1. r \in 0..(m - 1) /\ q \in Nat /\ c = m * q + r
    BY DivModFacts
  <1> HIDE DEF r, q
  <1> DEFINE x == m * q
  <1>2. x \in Nat /\ i \in Nat /\ c = x + r /\ m * 1 + i \in Nat /\ m * 1 = m
    BY <1>1
  <1>3. i % m = i /\ (m * 1 + i) % m = i % m
    BY <1>2, ModSmall, ModAddMultiple
  <1>4. (x + i) % m = i /\ (x + (m * 1 + i)) % m = i
    BY <1>1, <1>2, <1>3, ModAddMultiple
  <1> HIDE DEF x
  <1>5. CASE i >= r
    <2>1. x + i \in c..(c + m - 1)
      BY <1>1, <1>2, <1>5
    <2> QED
      BY <1>4, <2>1
  <1>6. CASE i < r
    <2>1. x + (m * 1 + i) \in c..(c + m - 1)
      BY <1>1, <1>2, <1>6
    <2> QED
      BY <1>4, <2>1
  <1> QED
    BY <1>1, <1>2, <1>5, <1>6

(* The length of piece n when st says where the pieces of a stream start. *)
LenOf(st, n) == st[n + 1] - st[n]

LEMMA CountOn ==
    ASSUME NEW m \in Nat, NEW q \in Nat
    PROVE  [k \in 1..m |-> k] \o [k \in 1..q |-> m + k] = [k \in 1..(m + q) |-> k]
  <1> DEFINE a == [k \in 1..m |-> k]
             b == [k \in 1..q |-> m + k]
             z == [k \in 1..(m + q) |-> k]
  <1>1. a \in Seq(Nat) /\ Len(a) = m /\ b \in Seq(Nat) /\ Len(b) = q
    OBVIOUS
  <1>2. z \in Seq(Nat) /\ Len(z) = m + q
    OBVIOUS
  <1>3. a \o b \in Seq(Nat) /\ Len(a \o b) = m + q
    BY <1>1
  <1>4. ASSUME NEW k \in 1..(m + q) PROVE (a \o b)[k] = z[k]
    BY <1>1
  <1> HIDE DEF a, b, z
  <1> QED
    BY <1>2, <1>3, <1>4
=============================================================================

---------------------------- MODULE IntegerLemmas ----------------------------
(***************************************************************************)
(* Facts about multiplication and division that the proofs of several      *)
(* modules rest on: everything here is about flat indexes, and how many    *)
(* blocks of a given length there are.                                     *)
(***************************************************************************)
EXTENDS Integers, FiniteSetTheorems, WellFoundedInduction, TLAPS

(* Integer division, as the code's / and % on unsigned operands. *)
LEMMA DivMod ==
  ASSUME NEW a \in Nat, NEW b \in Nat \ {0}
  PROVE  /\ a \div b \in Nat
         /\ a % b \in 0 .. (b - 1)
         /\ a = (a \div b) * b + (a % b)
         /\ a < b => a % b = a
         /\ a % b <= a
  OBVIOUS

(* A product of sizes is a size. *)
LEMMA MulNat ==
  ASSUME NEW a \in Nat, NEW b \in Nat
  PROVE  a * b \in Nat
  OBVIOUS

(* More blocks are longer. *)
LEMMA MulMono ==
  ASSUME NEW a \in Nat, NEW b \in Nat, NEW k \in Nat, a <= b
  PROVE  a * k <= b * k
  OBVIOUS

(* Blocks of length k do not overlap: the heart of every flat index. *)
LEMMA BlockOrder ==
  ASSUME NEW k \in Nat, NEW x \in Nat, NEW y \in Nat, x < y,
         NEW i \in Nat, i < k
  PROVE  x * k + i < y * k
<1>1. (x + 1) * k <= y * k
  BY MulMono
<1>2. (x + 1) * k = x * k + k
  OBVIOUS
<1>3. x * k \in Nat /\ y * k \in Nat
  BY MulNat
<1> QED
  BY <1>1, <1>2, <1>3

(* A flat index determines its block and its place in it. *)
LEMMA BlockUnique ==
  ASSUME NEW k \in Nat, NEW x \in Nat, NEW y \in Nat,
         NEW i \in Nat, i < k, NEW j \in Nat, j < k,
         x * k + i = y * k + j
  PROVE  x = y /\ i = j
<1>1. x * k \in Nat /\ y * k \in Nat
  BY MulNat
<1>2. ~ (x < y)
  BY BlockOrder, <1>1
<1>3. ~ (y < x)
  BY BlockOrder, <1>1
<1>4. x = y
  BY <1>2, <1>3
<1> QED
  BY <1>1, <1>4

(* / and % take a flat index apart again. *)
LEMMA DivUnique ==
  ASSUME NEW b \in Nat \ {0}, NEW q \in Nat, NEW r \in 0 .. (b - 1)
  PROVE  /\ (q * b + r) \div b = q
         /\ (q * b + r) % b = r
<1> DEFINE a == q * b + r
           x == a \div b
           y == a % b
<1>1. q * b \in Nat /\ a \in Nat
  BY MulNat
<1>2. a = q * b + r
  OBVIOUS
<1> HIDE DEF a
<1>3. x \in Nat /\ y \in 0 .. (b - 1) /\ a = x * b + y
  BY <1>1, DivMod
<1> HIDE DEF x, y
<1>4. q * b + r = x * b + y /\ r \in Nat /\ r < b /\ y \in Nat /\ y < b /\ b \in Nat
  BY <1>2, <1>3
<1>5. q = x /\ r = y
  BY <1>3, <1>4, BlockUnique
<1> QED
  BY <1>5 DEF x, y, a

(* A larger quotient is one of a larger dividend. *)
LEMMA DivOrder ==
  ASSUME NEW b \in Nat \ {0}, NEW x \in Nat, NEW y \in Nat, x \div b < y \div b
  PROVE  x < y
<1> DEFINE q == x \div b
           r == x % b
           u == y \div b
           v == y % b
<1>1. q \in Nat /\ r \in 0 .. (b - 1) /\ x = q * b + r
  BY DivMod
<1>2. u \in Nat /\ v \in 0 .. (b - 1) /\ y = u * b + v
  BY DivMod
<1> HIDE DEF q, r, u, v
<1>3. q < u /\ u * b \in Nat
  BY <1>1, <1>2, MulNat DEF q, u
<1>4. q * b + r < u * b
  BY <1>1, <1>2, <1>3, BlockOrder
<1> QED
  BY <1>1, <1>2, <1>3, <1>4

(* A number below n blocks is in one of them. *)
LEMMA QuotientBelow ==
  ASSUME NEW x \in Nat, NEW b \in Nat \ {0}, NEW n \in Nat, x < n * b
  PROVE  x \div b < n
<1> DEFINE q == x \div b
           r == x % b
<1>1. q \in Nat /\ r \in 0 .. (b - 1) /\ x = q * b + r
  BY DivMod
<1> HIDE DEF q, r
<1>2. q * b \in Nat /\ n * b \in Nat
  BY <1>1, MulNat
<1>3. n <= q => n * b <= q * b
  BY <1>1, MulMono
<1>4. q < n
  BY <1>1, <1>2, <1>3
<1> QED
  BY <1>4 DEF q

(* The remainder by a multiple of k has the same remainder by k. *)
LEMMA ModOfMultiple ==
  ASSUME NEW a \in Nat, NEW k \in Nat \ {0}, NEW q \in Nat, NEW t \in Nat \ {0}, t = q * k
  PROVE  (a % t) % k = a % k
<1> DEFINE n == a \div t
           r == a % t
           m == r \div k
           s == r % k
<1>1. n \in Nat /\ r \in 0 .. (t - 1) /\ a = n * t + r
  BY DivMod
<1> HIDE DEF n, r
<1>2. r \in Nat
  BY <1>1
<1>3. m \in Nat /\ s \in 0 .. (k - 1) /\ r = m * k + s
  BY <1>2, DivMod
<1> HIDE DEF m, s
<1> DEFINE x == n * q + m
<1>4. x \in Nat
  BY <1>1, <1>3, MulNat
<1>5. a = x * k + s
  BY <1>1, <1>3
<1> HIDE DEF x
<1>6. (x * k + s) % k = s
  BY <1>3, <1>4, DivUnique
<1> QED
  BY <1>5, <1>6 DEF s, r

(* s divided into as many parts as have room for x: a part is at least x. *)
LEMMA EvenParts ==
  ASSUME NEW s \in Nat, NEW x \in Nat \ {0}, x <= s
  PROVE  s \div (s \div x) \in Nat /\ x <= s \div (s \div x)
<1> DEFINE q == s \div x
<1>1. q \in Nat /\ q * x \in Nat /\ q * x <= s /\ q # 0
  <2> DEFINE r == s % x
  <2>1. q \in Nat /\ r \in 0 .. (x - 1) /\ s = q * x + r
    BY DivMod
  <2> HIDE DEF q, r
  <2>2. q * x \in Nat
    BY <2>1, MulNat
  <2>3. q = 0 => s = r
    BY <2>1
  <2> QED
    BY <2>1, <2>2, <2>3
<1> HIDE DEF q
<1>2. s \div q \in Nat
  BY <1>1, DivMod
<1>3. ASSUME s \div q < x PROVE FALSE
  <2> DEFINE p == s \div q
             r == s % q
  <2>1. p \in Nat /\ r \in 0 .. (q - 1) /\ s = p * q + r
    BY <1>1, DivMod
  <2>2. p < x
    BY <1>3
  <2> HIDE DEF p, r
  <2>3. r \in Nat /\ r < q
    BY <1>1, <2>1
  <2>4. p * q + r < x * q
    BY <1>1, <2>1, <2>2, <2>3, BlockOrder
  <2>5. x * q = q * x
    BY <1>1
  <2> QED
    BY <1>1, <2>1, <2>4, <2>5
<1> QED
  BY <1>2, <1>3 DEF q

(* The quotient rounded up: n blocks of length b cover a elements, none of them
   in vain. *)
LEMMA RoundedUp ==
  ASSUME NEW a \in Nat, NEW b \in Nat \ {0},
         NEW n, n = a \div b + (IF a % b # 0 THEN 1 ELSE 0)
  PROVE  /\ n \in Nat
         /\ a > 0 => n > 0
         /\ a <= n * b
         /\ \A k \in Nat : k < n => k * b < a
<1> DEFINE q == a \div b
           r == a % b
<1>1. q \in Nat /\ r \in 0 .. (b - 1) /\ a = q * b + r
  BY DivMod
<1>2. q * b \in Nat
  BY <1>1, MulNat
<1>3. CASE r = 0
  <2>1. n = q
    BY <1>1, <1>3
  <2>2. ASSUME NEW k \in Nat, k < q PROVE k * b < a
    BY <1>1, <1>2, <1>3, <2>2, BlockOrder, MulNat
  <2>3. q = 0 => q * b = 0
    OBVIOUS
  <2> QED
    BY <1>1, <1>2, <1>3, <2>1, <2>2, <2>3
<1>4. CASE r # 0
  <2>1. n = q + 1
    BY <1>1, <1>4
  <2>2. (q + 1) * b = q * b + b
    BY <1>1
  <2>3. ASSUME NEW k \in Nat, k < q + 1 PROVE k * b < a
    BY <1>1, <1>2, <1>4, <2>3, MulMono, MulNat
  <2> QED
    BY <1>1, <1>2, <2>1, <2>2, <2>3
<1> QED
  BY <1>3, <1>4

(* A set of naturals has a least member: intervals are well-founded by
   inclusion.  This is what takes the place of induction. *)
LEMMA LeastNat ==
  ASSUME NEW S, S \subseteq Nat, S # {}
  PROVE  \E n \in S : \A m \in S : n <= m
<1> DEFINE T == {1 .. n : n \in S}
<1>1. IsWellFoundedOn(StrictSubsetOrdering(Nat), FiniteSubsetsOf(Nat))
  BY FS_StrictSubsetOrderingWellFounded
<1>2. T \subseteq FiniteSubsetsOf(Nat) /\ T # {}
  <2>1. ASSUME NEW n \in S PROVE IsFiniteSet(1 .. n) /\ 1 .. n \in SUBSET Nat
    <3>1. n \in Int /\ 1 \in Int
      OBVIOUS
    <3>2. IsFiniteSet(1 .. n)
      BY <3>1, FS_Interval
    <3> QED
      BY <3>1, <3>2
  <2>2. \A t \in T : t \in FiniteSubsetsOf(Nat)
    BY <2>1 DEF FiniteSubsetsOf
  <2> QED
    BY <2>2
<1>3. PICK x \in T : \A y \in T : ~ (<<y, x>> \in StrictSubsetOrdering(Nat))
  <2> HIDE DEF T
  <2> QED
    BY <1>1, <1>2, WFMin
<1>4. PICK n \in S : x = 1 .. n
  BY <1>3
<1>5. ASSUME NEW m \in S, m < n PROVE FALSE
  <2>1. 1 .. m \in T /\ 1 .. m \subseteq 1 .. n /\ m \in Nat /\ n \in Nat
    BY <1>5
  <2>2. n \in 1 .. n /\ n \notin 1 .. m
    BY <1>5, <2>1
  <2>3. <<1 .. m, x>> \in StrictSubsetOrdering(Nat)
    BY <1>4, <2>1, <2>2 DEF StrictSubsetOrdering
  <2> QED
    BY <1>3, <2>1, <2>3
<1>6. \A m \in S : n <= m
  BY <1>4, <1>5
<1> QED
  BY <1>4, <1>6

(* A block of blocks: the flat index of three loops, one in another. *)
LEMMA NestedIndex ==
  ASSUME NEW m \in Nat, NEW n \in Nat, NEW g \in Nat,
         NEW x \in 0 .. (m - 1), NEW y \in 0 .. (n - 1), NEW z \in 0 .. (g - 1)
  PROVE  /\ (x * n + y) * g + z \in 0 .. (m * n * g - 1)
         /\ x * n * g + y * g + z = (x * n + y) * g + z
<1> DEFINE k == x * n + y
           l == m * n
<1>1. k \in Nat /\ l \in Nat /\ k < l
  BY BlockOrder, MulNat
<1>2. x * n * g + y * g + z = k * g + z
  OBVIOUS
<1> HIDE DEF k, l
<1>3. k * g + z < l * g /\ k * g \in Nat /\ l * g \in Nat
  BY <1>1, BlockOrder, MulNat
<1> QED
  BY <1>2, <1>3 DEF k, l

=============================================================================

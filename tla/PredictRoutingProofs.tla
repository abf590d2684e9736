------------------------- MODULE PredictRoutingProofs -------------------------
(***************************************************************************)
(* Proofs about predict, for any number of streams and any set of calls    *)
(* whose sizes fit the kernels' index type.                                *)
(***************************************************************************)
EXTENDS PredictRouting, IntegerLemmas, SequenceTheorems, TLAPS

-----------------------------------------------------------------------------
(* Partitions *)

(* The arguments of a call have their types. *)
LEMMA CallFields ==
  ASSUME call \in Predictions
  PROVE  /\ call.rows \in Nat
         /\ call.num_features \in Nat \ {0}
         /\ call.num_outputs \in Nat \ {0}
         /\ call.pool_size \in Nat
         /\ call.pooled \in BOOLEAN
         /\ call.chunk \in Nat
         /\ {call.model.mem, call.input.mem, call.output.mem} \subseteq DeviceType
  BY RoutingAssumption DEF Prediction, Place

(* ceildiv(a, b) blocks of length b cover a elements, none of them in vain. *)
LEMMA CeilDivBounds ==
  ASSUME NEW a \in Nat, NEW b \in Nat \ {0}
  PROVE  /\ CeilDiv(a, b) \in Nat
         /\ a <= CeilDiv(a, b) * b
         /\ \A k \in Nat : k < CeilDiv(a, b) => k * b < a
  BY RoundedUp DEF CeilDiv

(* A partition that is made has a length, and there are enough of them. *)
LEMMA PartitionLength ==
  ASSUME call \in Predictions, ~Unserved
  PROVE  /\ PartitionSize \in Nat /\ PartitionCount \in Nat
         /\ Whole => PartitionSize = call.rows /\ PartitionCount = 1
         /\ ~Whole => /\ PartitionSize > 0
                      /\ call.rows <= PartitionCount * PartitionSize
                      /\ \A p \in Nat : p < PartitionCount => p * PartitionSize < call.rows
<1> DEFINE size == IF call.chunk = Unspecified THEN MAX_CHUNK_SIZE ELSE call.chunk
           least == MIN_CHUNKS_PER_PARTITION * size
           share == CeilDiv(call.rows, call.pool_size)
<1>1. CASE Whole
  BY <1>1, CallFields DEF PartitionSize, PartitionCount
<1>2. CASE ~Whole
  <2>1. size \in Nat \ {0} /\ MIN_CHUNKS_PER_PARTITION \in Nat \ {0}
    BY CallFields, RoutingAssumption DEF Unspecified
  <2>2. least \in Nat \ {0}
    <3> HIDE DEF size
    <3> QED
      BY <2>1
  <2>3. call.pool_size \in Nat \ {0}
    BY <1>2, CallFields DEF Whole, Unserved
  <2>4. share \in Nat
    BY <2>3, CallFields, CeilDivBounds
  <2>5. PartitionSize = Larger(share, least)
    BY <1>2 DEF PartitionSize
  <2>6. PartitionSize \in Nat \ {0}
    <3> HIDE DEF share, least
    <3> QED
      BY <2>2, <2>4, <2>5 DEF Larger
  <2>7. PartitionCount = CeilDiv(call.rows, PartitionSize)
    BY <1>2 DEF PartitionCount
  <2>8. /\ PartitionCount \in Nat
        /\ call.rows <= PartitionCount * PartitionSize
        /\ \A p \in Nat : p < PartitionCount => p * PartitionSize < call.rows
    BY <2>6, <2>7, CallFields, CeilDivBounds
  <2> QED
    BY <1>2, <2>6, <2>8
<1> QED
  BY <1>1, <1>2

(* Partition p is some of the rows, as many as there are in the first unless it
   is the last, and never none unless there are no rows at all. *)
LEMMA PartitionRows ==
  ASSUME call \in Predictions, ~Unserved, NEW p \in Parts
  PROVE  /\ p \in Nat /\ p \in Partitions
         /\ p * PartitionSize \in Nat
         /\ RowsIn(p) \in Nat
         /\ p * PartitionSize + RowsIn(p) <= call.rows
         /\ RowsIn(p) <= PartitionSize
         /\ RowsIn(p) <= RowsIn(0)
         /\ p > 0 => RowsIn(p) > 0
<1>1. p \in Nat /\ p < PartitionCount /\ PartitionSize \in Nat /\ call.rows \in Nat
  BY PartitionLength, CallFields DEF Parts
<1>2. p * PartitionSize \in Nat /\ 0 * PartitionSize = 0
  BY <1>1, MulNat
<1>3. RowsIn(0) = Smaller(PartitionSize, call.rows)
  BY <1>1, <1>2 DEF RowsIn
<1>4. RowsIn(p) = Smaller(PartitionSize, call.rows - p * PartitionSize)
  BY DEF RowsIn
<1>5. CASE Whole
  BY <1>1, <1>2, <1>3, <1>5, PartitionLength DEF Smaller, Partitions, RowsIn
<1>6. CASE ~Whole
  <2>1. PartitionSize > 0 /\ p * PartitionSize < call.rows
    BY <1>1, <1>6, PartitionLength
  <2>2. p <= p * PartitionSize
    <3>1. p * 1 <= p * PartitionSize
      BY <1>1, <2>1
    <3> QED
      BY <1>1, <3>1
  <2> QED
    BY <1>1, <1>2, <1>3, <1>4, <2>1, <2>2 DEF Smaller, Partitions
<1> QED
  BY <1>5, <1>6

(* Partitions do not overlap. *)
LEMMA PartitionOrder ==
  ASSUME call \in Predictions, ~Unserved, NEW p \in Parts, NEW q \in Parts, p < q
  PROVE  p * PartitionSize + RowsIn(p) <= q * PartitionSize
<1>1. p \in Nat /\ q \in Nat /\ PartitionSize \in Nat
  BY PartitionRows, PartitionLength
<1>2. (p + 1) * PartitionSize <= q * PartitionSize
  BY <1>1, MulMono
<1>3. (p + 1) * PartitionSize = p * PartitionSize + PartitionSize
  BY <1>1
<1>4. q * PartitionSize \in Nat
  BY <1>1, MulNat
<1> QED
  BY <1>1, <1>2, <1>3, <1>4, PartitionRows

(* Partitions leave no row out. *)
LEMMA PartitionOfRow ==
  ASSUME call \in Predictions, ~Unserved, NEW r \in 0 .. (call.rows - 1)
  PROVE  \E p \in Parts : p * PartitionSize <= r /\ r < p * PartitionSize + RowsIn(p)
<1>1. r \in Nat /\ r < call.rows /\ PartitionSize \in Nat /\ call.rows \in Nat /\ PartitionCount \in Nat
  BY CallFields, PartitionLength
<1>2. CASE Whole
  <2>1. 0 \in Parts /\ 0 * PartitionSize = 0 /\ PartitionSize = call.rows
    BY <1>1, <1>2, PartitionLength DEF Parts
  <2>2. RowsIn(0) = call.rows
    BY <1>1, <2>1 DEF RowsIn, Smaller
  <2> QED
    BY <1>1, <2>1, <2>2
<1>3. CASE ~Whole
  <2> DEFINE p == r \div PartitionSize
             k == r % PartitionSize
  <2>1. PartitionSize \in Nat \ {0} /\ call.rows <= PartitionCount * PartitionSize
    BY <1>1, <1>3, PartitionLength
  <2>2. p \in Nat /\ k \in 0 .. (PartitionSize - 1) /\ r = p * PartitionSize + k
    BY <1>1, <2>1, DivMod
  <2> HIDE DEF p, k
  <2>3. p * PartitionSize \in Nat /\ PartitionCount * PartitionSize \in Nat
    BY <1>1, <2>2, MulNat
  <2>4. ~ (PartitionCount <= p)
    <3>1. PartitionCount <= p => PartitionCount * PartitionSize <= p * PartitionSize
      BY <1>1, <2>2, MulMono
    <3> QED
      BY <1>1, <2>1, <2>2, <2>3, <3>1
  <2>5. p \in Parts
    BY <1>1, <2>2, <2>4 DEF Parts
  <2>6. r < p * PartitionSize + RowsIn(p)
    BY <1>1, <2>2, <2>3 DEF RowsIn, Smaller
  <2> QED
    BY <1>1, <2>2, <2>3, <2>5, <2>6
<1> QED
  BY <1>2, <1>3

-----------------------------------------------------------------------------
(* Elements of partitions *)

(* The elements of a partition are its rows times their length. *)
LEMMA ElementRange ==
  ASSUME call \in Predictions, ~Unserved, NEW p \in Parts, NEW n \in Nat \ {0}
  PROVE  /\ p * PartitionSize * n \in Nat
         /\ RowsIn(p) * n \in Nat
         /\ p * PartitionSize * n + RowsIn(p) * n <= call.rows * n
         /\ RowsIn(p) <= RowsIn(p) * n
         /\ call.rows * n \in Nat
<1> DEFINE x == p * PartitionSize
           y == RowsIn(p)
           z == call.rows
<1>1. x \in Nat /\ y \in Nat /\ z \in Nat /\ x + y <= z /\ n \in Nat
  BY PartitionRows, CallFields
<1> HIDE DEF x, y, z
<1>2. x * n \in Nat /\ y * n \in Nat /\ z * n \in Nat
  BY <1>1, MulNat
<1>3. (x + y) * n <= z * n
  BY <1>1, MulMono
<1>4. (x + y) * n = x * n + y * n
  BY <1>1
<1>5. 1 * y <= n * y
  BY <1>1, MulMono
<1>6. y * n = n * y /\ 1 * y = y
  BY <1>1
<1> QED
  BY <1>2, <1>3, <1>4, <1>5, <1>6 DEF x, y, z

(* The outputs of a partition are outputs of the call. *)
LEMMA OutputsInside ==
  ASSUME call \in Predictions, ~Unserved, NEW p \in Parts
  PROVE  /\ FirstOutput(p) \in Nat
         /\ RowsIn(p) * call.num_outputs \in Nat
         /\ OutputsOf(p) \subseteq 0 .. (call.rows * call.num_outputs - 1)
<1>1. call.num_outputs \in Nat \ {0}
  BY CallFields
<1> QED
  BY <1>1, ElementRange DEF FirstOutput, OutputsOf

(* No output is of two partitions. *)
LEMMA OutputsApart ==
  ASSUME call \in Predictions, ~Unserved,
         NEW p \in Parts, NEW q \in Parts, p # q
  PROVE  OutputsOf(p) \cap OutputsOf(q) = {}
<1> DEFINE n == call.num_outputs
<1>1. n \in Nat
  BY CallFields
<1>2. ASSUME NEW a \in Parts, NEW b \in Parts, a < b
      PROVE  FirstOutput(a) + RowsIn(a) * n <= FirstOutput(b)
  <2> DEFINE x == a * PartitionSize
             y == RowsIn(a)
             z == b * PartitionSize
  <2>1. x \in Nat /\ y \in Nat /\ z \in Nat /\ x + y <= z
    BY <1>2, PartitionRows, PartitionOrder
  <2> HIDE DEF n, x, y, z
  <2>2. (x + y) * n <= z * n /\ (x + y) * n = x * n + y * n
    BY <1>1, <2>1, MulMono
  <2> QED
    BY <2>2 DEF FirstOutput, n, x, y, z
<1>3. p < q \/ q < p
  BY PartitionRows
<1> QED
  BY <1>2, <1>3, OutputsInside DEF OutputsOf

(* Every output is of a partition. *)
LEMMA OutputsCovered ==
  ASSUME call \in Predictions, ~Unserved,
         NEW k \in 0 .. (call.rows * call.num_outputs - 1)
  PROVE  \E p \in Parts : k \in OutputsOf(p)
<1> DEFINE n == call.num_outputs
           r == k \div n
           e == k % n
<1>1. n \in Nat \ {0} /\ call.rows \in Nat
  BY CallFields
<1>2. k \in Nat /\ k < call.rows * n /\ call.rows * n \in Nat
  BY <1>1, MulNat
<1>3. r \in Nat /\ e \in 0 .. (n - 1) /\ k = r * n + e
  BY <1>1, <1>2, DivMod
<1> HIDE DEF r, e
<1>4. r * n \in Nat
  BY <1>1, <1>3, MulNat
<1>5. ~ (call.rows <= r)
  <2>1. call.rows <= r => call.rows * n <= r * n
    BY <1>1, <1>3, MulMono
  <2> HIDE DEF n
  <2> QED
    BY <1>1, <1>2, <1>3, <1>4, <2>1
<1>6. PICK p \in Parts : p * PartitionSize <= r /\ r < p * PartitionSize + RowsIn(p)
  BY <1>1, <1>3, <1>5, PartitionOfRow
<1> DEFINE x == p * PartitionSize
           y == RowsIn(p)
<1>7. x \in Nat /\ y \in Nat
  BY PartitionRows
<1> HIDE DEF n, x, y
<1>8. x * n <= r * n
  BY <1>1, <1>3, <1>6, <1>7, MulMono DEF x
<1>9. r * n + e < (x + y) * n
  BY <1>1, <1>3, <1>6, <1>7, BlockOrder DEF x, y
<1>10. (x + y) * n = x * n + y * n /\ x * n \in Nat /\ y * n \in Nat
  BY <1>1, <1>7, MulNat
<1>11. k \in x * n .. (x * n + y * n - 1)
  BY <1>3, <1>4, <1>1, <1>8, <1>9, <1>10
<1> QED
  BY <1>11 DEF FirstOutput, OutputsOf, n, x, y

(* Sizes the index type can represent do not wrap. *)
LEMMA NoWrap ==
  ASSUME call \in Predictions, Representable(call), ~Unserved, NEW p \in Parts
  PROVE  /\ U(RowsIn(p)) = RowsIn(p)
         /\ U(RowsIn(p) * call.num_features) = RowsIn(p) * call.num_features
         /\ U(RowsIn(p) * call.num_outputs) = RowsIn(p) * call.num_outputs
<1>1. call.num_features \in Nat \ {0} /\ call.num_outputs \in Nat \ {0} /\ IndexMod \in Nat \ {0}
  BY CallFields, RoutingAssumption
<1>2. ASSUME NEW n \in Nat, n < IndexMod PROVE U(n) = n
  BY <1>1, <1>2, DivMod DEF U
<1>3. /\ RowsIn(p) \in Nat
      /\ RowsIn(p) <= RowsIn(p) * call.num_features
  BY <1>1, ElementRange, PartitionRows
<1>4. /\ RowsIn(p) * call.num_features \in Nat
      /\ RowsIn(p) * call.num_features < IndexMod
  <2>1. /\ p * PartitionSize * call.num_features \in Nat
        /\ p * PartitionSize * call.num_features + RowsIn(p) * call.num_features
             <= call.rows * call.num_features
        /\ RowsIn(p) * call.num_features \in Nat
        /\ call.rows * call.num_features \in Nat
    BY <1>1, ElementRange
  <2> QED
    BY <1>1, <2>1 DEF Representable
<1>5. /\ RowsIn(p) * call.num_outputs \in Nat
      /\ RowsIn(p) * call.num_outputs < IndexMod
  <2>1. /\ p * PartitionSize * call.num_outputs \in Nat
        /\ p * PartitionSize * call.num_outputs + RowsIn(p) * call.num_outputs
             <= call.rows * call.num_outputs
        /\ RowsIn(p) * call.num_outputs \in Nat
        /\ call.rows * call.num_outputs \in Nat
    BY <1>1, ElementRange
  <2> QED
    BY <1>1, <2>1 DEF Representable
<1> QED
  BY <1>1, <1>2, <1>3, <1>4, <1>5

-----------------------------------------------------------------------------
(* What copies and kernels write *)

(* A copy of the rows of a partition fills the temporary made for them. *)
LEMMA InputCopied ==
  ASSUME call \in Predictions, Representable(call), ~Unserved, NEW p \in Parts,
         DOMAIN temp_in[p] = DOMAIN InputOf(p)
  PROVE  CopyIn(p) = InputOf(p)
<1> DEFINE n == RowsIn(p) * call.num_features
<1>1. n \in Nat /\ U(n) = n
  BY CallFields, ElementRange, NoWrap
<1>2. DOMAIN temp_in[p] = 0 .. (n - 1)
  BY DEF InputOf
<1>3. InputOf(p) = [k \in 0 .. (n - 1) |-> FirstInput(p) + k]
  BY DEF InputOf
<1>4. CopyIn(p) = Copied(InputOf(p), temp_in[p], n)
  BY DEF CopyIn, InputOf
<1> HIDE DEF n
<1> QED
  BY <1>1, <1>2, <1>3, <1>4 DEF Copied

(* A copy of the results of a partition writes its outputs and no other. *)
LEMMA OutputCopied ==
  ASSUME call \in Predictions, Representable(call), ~Unserved, NEW p \in Parts,
         DOMAIN output = 0 .. (call.rows * call.num_outputs - 1)
  PROVE  CopyOut(p, ResultOf(p)) =
           [k \in DOMAIN output |-> IF k \in OutputsOf(p) THEN k ELSE output[k]]
<1> DEFINE n == RowsIn(p) * call.num_outputs
           m == call.rows * call.num_outputs
           f == FirstOutput(p)
<1>1. n \in Nat /\ U(n) = n /\ f \in Nat /\ m \in Nat
  BY CallFields, ElementRange, NoWrap, OutputsInside
<1>2. ResultOf(p) = [k \in 0 .. (n - 1) |-> f + k]
  BY DEF ResultOf
<1>3. CopyOut(p, ResultOf(p)) =
        [k \in DOMAIN output |->
           IF k - f \notin 0 .. (U(n) - 1) THEN output[k]
           ELSE IF k - f \in DOMAIN ResultOf(p) THEN ResultOf(p)[k - f] ELSE Garbage]
  BY DEF CopyOut
<1>4. OutputsOf(p) = f .. (f + n - 1)
  BY DEF OutputsOf
<1> HIDE DEF n, m, f
<1>5. ASSUME NEW k \in DOMAIN output
      PROVE  (IF k - f \notin 0 .. (U(n) - 1) THEN output[k]
              ELSE IF k - f \in DOMAIN ResultOf(p) THEN ResultOf(p)[k - f] ELSE Garbage)
             = (IF k \in OutputsOf(p) THEN k ELSE output[k])
  <2>1. k \in Int
    BY DEF m
  <2> QED
    BY <1>1, <1>2, <1>4, <2>1
<1> QED
  BY <1>3, <1>5

(* A kernel that is given the rows of its partition computes their results. *)
LEMMA ResultsRight ==
  ASSUME call \in Predictions, Representable(call), ~Unserved, NEW p \in Parts,
         CopiesIn => temp_in[p] = InputOf(p)
  PROVE  Results(p) = ResultOf(p)
<1> DEFINE f == call.num_features
           n == call.num_outputs
           x == p * PartitionSize
           y == RowsIn(p)
<1>1. /\ f \in Nat \ {0} /\ n \in Nat \ {0} /\ x \in Nat /\ y \in Nat
      /\ y * f \in Nat /\ y * n \in Nat /\ x * f \in Nat /\ x * n \in Nat
  BY CallFields, PartitionRows, ElementRange
<1>2. FirstInput(p) = x * f /\ FirstOutput(p) = x * n /\ U(RowsIn(p)) = y
  BY NoWrap DEF FirstInput, FirstOutput
<1>3. ASSUME NEW k \in 0 .. (y * f - 1) PROVE InputElement(p, k) = x * f + k
  BY <1>2, <1>3 DEF InputElement, InputOf
<1> DEFINE first(r) == InputElement(p, r * f)
           whole(r) == /\ first(r) >= 0 /\ first(r) % f = 0
                       /\ \A k \in 0 .. (f - 1) : InputElement(p, r * f + k) = first(r) + k
           value(j) == IF whole(j \div n) THEN (first(j \div n) \div f) * n + (j % n) ELSE Garbage
<1>4. Results(p) = [j \in 0 .. (U(RowsIn(p)) * n - 1) |-> value(j)]
  BY DEF Results
<1>5. ResultOf(p) = [j \in 0 .. (y * n - 1) |-> FirstOutput(p) + j]
  BY DEF ResultOf
<1>6. ASSUME NEW j \in 0 .. (y * n - 1) PROVE value(j) = FirstOutput(p) + j
  <2> DEFINE r == j \div n
             e == j % n
  <2> HIDE DEF f, n, x, y
  <2>1. r \in Nat /\ e \in 0 .. (n - 1) /\ j = r * n + e
    <3>1. j \in Nat /\ n \in Nat \ {0}
      BY <1>1
    <3> QED
      BY <3>1, DivMod
  <2> HIDE DEF r, e
  <2>2. ~ (y <= r)
    <3>1. y <= r => y * n <= r * n
      BY <1>1, <2>1, MulMono
    <3>2. r * n \in Nat
      BY <1>1, <2>1, MulNat
    <3> QED
      BY <1>1, <2>1, <3>1, <3>2
  <2>3. r * f \in Nat /\ \A k \in 0 .. (f - 1) : r * f + k < y * f
    BY <1>1, <2>1, <2>2, MulNat, BlockOrder
  <2>4. ASSUME NEW k \in 0 .. (f - 1) PROVE InputElement(p, r * f + k) = x * f + (r * f + k)
    BY <1>1, <1>3, <2>3
  <2>5. first(r) = x * f + r * f
    <3>1. InputElement(p, r * f + 0) = x * f + (r * f + 0)
      BY <1>1, <2>4
    <3> QED
      BY <1>1, <2>3, <3>1
  <2>6. x * f + r * f = (x + r) * f /\ x + r \in Nat
    BY <1>1, <2>1
  <2>7. first(r) \div f = x + r /\ first(r) % f = 0
    <3> DEFINE z == x + r
    <3>1. z \in Nat /\ first(r) = z * f + 0
      BY <1>1, <2>1, <2>3, <2>5, <2>6
    <3> HIDE DEF first, z
    <3>2. (z * f + 0) \div f = z /\ (z * f + 0) % f = 0
      <4>1. 0 \in 0 .. (f - 1)
        BY <1>1
      <4> QED
        BY <1>1, <3>1, <4>1, DivUnique
    <3> QED
      BY <3>1, <3>2 DEF z
  <2>8. whole(r)
    <3>1. first(r) >= 0
      BY <1>1, <2>3, <2>5
    <3>2. ASSUME NEW k \in 0 .. (f - 1) PROVE InputElement(p, r * f + k) = first(r) + k
      <4> HIDE DEF first
      <4> QED
        BY <1>1, <2>3, <2>4, <2>5
    <3> QED
      BY <2>7, <3>1, <3>2
  <2>9. value(j) = (first(r) \div f) * n + e
    <3> HIDE DEF first, whole
    <3> QED
      BY <2>8 DEF r, e
  <2>10. (x + r) * n = x * n + r * n /\ r * n \in Nat
    BY <1>1, <2>1, MulNat
  <2> HIDE DEF first, value
  <2> QED
    BY <1>1, <1>2, <2>1, <2>7, <2>9, <2>10 DEF n, x
<1> HIDE DEF value
<1> QED
  BY <1>2, <1>4, <1>5, <1>6

-----------------------------------------------------------------------------
(* What no step changes, and what is submitted and taken *)

(* The arguments of a call stay as they are, and all that follows from them. *)
LEMMA SameCall ==
  ASSUME call' = call
  PROVE  /\ Unserved' = Unserved /\ Whole' = Whole
         /\ CopiesIn' = CopiesIn /\ CopiesOut' = CopiesOut
         /\ SameDevice' = SameDevice
         /\ PartitionCount' = PartitionCount /\ Parts' = Parts /\ Partitions' = Partitions
         /\ Operations' = Operations
         /\ \A p : /\ RowsIn(p)' = RowsIn(p)
                   /\ InputOf(p)' = InputOf(p) /\ ResultOf(p)' = ResultOf(p)
                   /\ OutputsOf(p)' = OutputsOf(p)
  BY DEF Unserved, Whole, CopiesIn, CopiesOut, SameDevice, IndexOf, PartitionCount, Parts,
         Partitions, Operations, RowsIn, InputOf, ResultOf, OutputsOf, PartitionSize,
         FirstInput, FirstOutput

(* What is submitted waits behind everything else in its stream. *)
LEMMA Submitted ==
  ASSUME queue \in [Streams -> Seq(Operations)], stream \in Streams,
         NEW op \in Operations, Submit(op),
         NEW n, n = Len(queue[stream]) + 1
  PROVE  /\ queue' \in [Streams -> Seq(Operations)]
         /\ \A s \in Streams : Len(queue[s]) \in Nat
         /\ \A s \in Streams : \A j \in 1 .. Len(queue[s]) :
              j \in 1 .. Len(queue'[s]) /\ queue'[s][j] = queue[s][j]
         /\ \A s \in Streams : \A j \in 1 .. Len(queue'[s]) :
              \/ j \in 1 .. Len(queue[s]) /\ queue'[s][j] = queue[s][j]
              \/ s = stream /\ j = n /\ queue'[s][j] = op
         /\ n \in 1 .. Len(queue'[stream]) /\ queue'[stream][n] = op
         /\ n = Len(queue'[stream])
<1>1. queue' = [queue EXCEPT ![stream] = Append(queue[stream], op)]
  BY DEF Submit
<1>2. queue' \in [Streams -> Seq(Operations)]
  BY <1>1
<1>3. \A s \in Streams : queue[s] \in Seq(Operations) /\ Len(queue[s]) \in Nat
  OBVIOUS
<1>4. \A s \in Streams : s # stream => queue'[s] = queue[s]
  BY <1>1
<1>5. /\ Len(queue'[stream]) = n
      /\ queue'[stream][n] = op
      /\ \A j \in 1 .. Len(queue[stream]) : queue'[stream][j] = queue[stream][j]
  <2> DEFINE w == queue[stream]
             v == queue'[stream]
  <2>1. v = Append(w, op) /\ w \in Seq(Operations)
    BY <1>1, <1>3
  <2> HIDE DEF v, w
  <2>2. Len(v) = Len(w) + 1 /\ v[Len(w) + 1] = op /\ \A j \in 1 .. Len(w) : v[j] = w[j]
    BY <2>1
  <2> QED
    BY <2>2 DEF v, w
<1>6. ASSUME NEW s \in Streams, NEW j \in 1 .. Len(queue[s])
      PROVE  j \in 1 .. Len(queue'[s]) /\ queue'[s][j] = queue[s][j]
  BY <1>3, <1>4, <1>5
<1>7. ASSUME NEW s \in Streams, NEW j \in 1 .. Len(queue'[s])
      PROVE  \/ j \in 1 .. Len(queue[s]) /\ queue'[s][j] = queue[s][j]
             \/ s = stream /\ j = n /\ queue'[s][j] = op
  <2>1. CASE s = stream
    BY <1>3, <1>5, <2>1
  <2>2. CASE s # stream
    BY <1>4, <2>2
  <2> QED
    BY <2>1, <2>2
<1>8. n \in 1 .. n
  BY <1>3
<1>9. n \in 1 .. Len(queue'[stream]) /\ queue'[stream][n] = op /\ n = Len(queue'[stream])
  BY <1>5, <1>8
<1>10. \A s \in Streams : Len(queue[s]) \in Nat
  BY <1>3
<1> QED
  BY <1>2, <1>6, <1>7, <1>9, <1>10

(* What a stream does next is the first of its entries. *)
LEMMA Taken ==
  ASSUME queue \in [Streams -> Seq(Operations)], NEW s \in Streams,
         queue[s] # <<>>, queue' = [queue EXCEPT ![s] = Tail(@)]
  PROVE  /\ queue' \in [Streams -> Seq(Operations)]
         /\ Head(queue[s]) = queue[s][1] /\ 1 \in 1 .. Len(queue[s])
         /\ queue[s][1] \in Operations
         /\ \A t \in Streams : /\ Len(queue'[t]) \in Nat
                               /\ Len(queue[t]) = Len(queue'[t]) + (IF t = s THEN 1 ELSE 0)
         /\ \A t \in Streams : \A j \in 1 .. Len(queue'[t]) : \A m :
              m = (IF t = s THEN j + 1 ELSE j) =>
                m \in 1 .. Len(queue[t]) /\ queue'[t][j] = queue[t][m]
<1>1. queue' \in [Streams -> Seq(Operations)]
  OBVIOUS
<1>2. ASSUME NEW t \in Streams
      PROVE  /\ Len(queue'[t]) \in Nat
             /\ Len(queue[t]) = Len(queue'[t]) + (IF t = s THEN 1 ELSE 0)
             /\ \A j \in 1 .. Len(queue'[t]) : \A m :
                  m = (IF t = s THEN j + 1 ELSE j) =>
                    m \in 1 .. Len(queue[t]) /\ queue'[t][j] = queue[t][m]
  <2>1. CASE t = s
    BY <2>1
  <2>2. CASE t # s
    BY <2>2
  <2> QED
    BY <2>1, <2>2
<1>3. Head(queue[s]) = queue[s][1] /\ 1 \in 1 .. Len(queue[s]) /\ queue[s][1] \in Operations
  OBVIOUS
<1> QED
  BY <1>1, <1>2, <1>3

(* An operation that waits is one of five, and staged results are right. *)
LEMMA OperationFields ==
  ASSUME NEW op \in Operations
  PROVE  /\ op.do \in {"copy_in", "infer", "copy_out", "staged", "free"}
         /\ op.part \in Parts
         /\ op.do = "staged" => op.data = ResultOf(op.part)
  BY DEF Operations

-----------------------------------------------------------------------------
(* Entries of a queue *)

(* The host thread works on a partition that there is. *)
LEMMA AtPartition ==
  ASSUME ShapeInv, ~Unserved, ServedInv, Working
  PROVE  i \in Nat /\ i < PartitionCount /\ i \in Parts
<1>1. PartitionCount \in Nat
  BY PartitionLength DEF ShapeInv
<1>2. i \in Nat /\ i < PartitionCount
  BY DEF ServedInv, HostInv
<1> QED
  BY <1>1, <1>2 DEF Parts

(* An entry keeps its invariant while nothing before it is taken, what it is
   about to use stays as it is, and the host thread does not return to it. *)
LEMMA EntryKept ==
  ASSUME NEW s \in Streams, NEW j \in Nat \ {0}, NEW p \in Parts, EntryInv(s, j, p),
         call' = call,
         \A k \in 1 .. j : queue'[s][k] = queue[s][k],
         NEW do, do = queue[s][j].do,
         do # "staged" => temp_in'[p] = temp_in[p] /\ temp_out'[p] = temp_out[p],
         Writes(queue[s][j]) => \A k \in OutputsOf(p) : output'[k] = output[k],
         \/ p < i'
         \/ p = i' /\ Working' /\ s = stream' /\ Stage(do) < Stage(pc')
         \/ p = i' /\ pc' = "refused" /\ do \in {"copy_in", "free"}
  PROVE  EntryInv(s, j, p)'
<1> USE SameCall
<1>1. queue'[s][j] = queue[s][j]
  OBVIOUS
<1>2. \/ p < i'
      \/ p = i' /\ Working' /\ s = stream' /\ Stage(queue'[s][j].do) < Stage(pc')
      \/ p = i' /\ pc' = "refused" /\ queue'[s][j].do \in {"copy_in", "free"}
  BY <1>1
<1>3. /\ do = "staged" <=> call'.model.mem = "cpu"
      /\ do = "copy_in" => CopiesIn'
      /\ do \in {"copy_out", "staged"} => CopiesOut'
      /\ do = "copy_out" => call'.pinned
  BY DEF EntryInv
<1>4. do \in {"copy_in", "infer", "copy_out"} => HasRoom(p)'
  BY DEF EntryInv, HasRoom
<1>5. \A what : Pending(s, j - 1, what, p) => Pending(s, j - 1, what, p)'
  BY DEF Pending
<1>6. do = "infer" /\ CopiesIn' => temp_in'[p] = InputOf(p)' \/ Pending(s, j - 1, "copy_in", p)'
  BY <1>5 DEF EntryInv
<1>7. do = "copy_out" => temp_out'[p] = ResultOf(p)' \/ Pending(s, j - 1, "infer", p)'
  BY <1>5 DEF EntryInv
<1>8. Writes(queue[s][j])' => Untouched(p)'
  BY <1>1 DEF EntryInv, Writes, Untouched
<1> QED
  BY <1>1, <1>2, <1>3, <1>4, <1>6, <1>7, <1>8 DEF EntryInv

(* The host thread submits what it is at, and goes on. *)
LEMMA EntriesSubmitted ==
  ASSUME ShapeInv, ~Unserved, ServedInv, Working,
         NEW op \in Operations, op.part = i, Submit(op),
         UNCHANGED <<call, stream, temp_in, temp_out, output>>,
         \/ i' = i + 1
         \/ i' = i /\ Working' /\ Stage(op.do) = Stage(pc) /\ Stage(pc) < Stage(pc')
         \/ i' = i /\ pc = "infer" /\ pc' = "refused" /\ op.do = "free",
         NEW t, t = stream, NEW n, n = Len(queue[stream]) + 1, NEW q, q = i,
         EntryInv(t, n, q)'
  PROVE  EntriesInv'
<1>1. /\ \A s \in Streams : Len(queue[s]) \in Nat
      /\ \A s \in Streams : \A j \in 1 .. Len(queue[s]) : queue'[s][j] = queue[s][j]
      /\ \A s \in Streams : \A j \in 1 .. Len(queue'[s]) :
           \/ j \in 1 .. Len(queue[s]) /\ queue'[s][j] = queue[s][j]
           \/ s = stream /\ j = n /\ queue'[s][j] = op
  BY Submitted DEF ServedInv, ShapeInv
<1>2. SUFFICES ASSUME NEW s \in Streams, NEW j \in 1 .. Len(queue'[s]), NEW p \in Parts,
                      queue'[s][j].part = p
               PROVE  EntryInv(s, j, p)'
  BY SameCall DEF EntriesInv
<1>3. CASE j \in 1 .. Len(queue[s]) /\ queue'[s][j] = queue[s][j]
  <2>1. /\ j \in Nat \ {0} /\ j \in 1 .. Len(queue[s])
        /\ \A k \in 1 .. j : queue'[s][k] = queue[s][k]
    BY <1>1, <1>3
  <2>2. queue[s][j].part = p
    BY <1>2, <2>1
  <2>3. EntryInv(s, j, p)
    BY <2>1, <2>2 DEF ServedInv, EntriesInv
  <2> DEFINE do == queue[s][j].do
  <2>4. \/ p < i
        \/ p = i /\ Working /\ s = stream /\ Stage(do) < Stage(pc)
        \/ p = i /\ pc = "refused" /\ do \in {"copy_in", "free"}
    BY <2>3 DEF EntryInv
  <2>5. do \in {"copy_in", "infer", "copy_out", "staged", "free"} /\ i \in Nat /\ p \in Nat
    <3>1. queue[s][j] \in Operations
      BY <1>1, <2>1 DEF ServedInv
    <3> QED
      BY <3>1, OperationFields, PartitionRows DEF ServedInv, HostInv, ShapeInv
  <2>6. \/ p < i'
        \/ p = i' /\ Working' /\ s = stream' /\ Stage(do) < Stage(pc')
        \/ p = i' /\ pc' = "refused" /\ do \in {"copy_in", "free"}
    BY <2>4, <2>5 DEF Working, Stage
  <2> QED
    BY <2>1, <2>3, <2>6, EntryKept
<1>4. CASE s = stream /\ j = n /\ queue'[s][j] = op
  BY <1>2, <1>4
<1> QED
  BY <1>1, <1>3, <1>4

(* It does so in the order of a partition's operations. *)
LEMMA OrderSubmitted ==
  ASSUME ShapeInv, ~Unserved, ServedInv, Working,
         NEW op \in Operations, op.part = i, Submit(op), call' = call,
         Stage(pc) <= Stage(op.do)
  PROVE  OrderInv'
<1> DEFINE n == Len(queue[stream]) + 1
<1>1. /\ \A s \in Streams : Len(queue[s]) \in Nat
      /\ \A s \in Streams : \A j \in 1 .. Len(queue[s]) : queue'[s][j] = queue[s][j]
      /\ \A s \in Streams : \A j \in 1 .. Len(queue'[s]) :
           \/ j \in 1 .. Len(queue[s]) /\ queue'[s][j] = queue[s][j]
           \/ s = stream /\ j = n /\ queue'[s][j] = op
  BY Submitted DEF ServedInv, ShapeInv
<1>2. i \in Parts
  BY OperationFields
<1>3. ASSUME NEW s \in Streams, NEW j \in 1 .. Len(queue[s]), queue[s][j].part = i
      PROVE  s = stream /\ Stage(queue[s][j].do) < Stage(op.do)
  <2>1. EntryInv(s, j, i)
    BY <1>2, <1>3 DEF ServedInv, EntriesInv
  <2>2. s = stream /\ Stage(queue[s][j].do) < Stage(pc)
    BY <2>1 DEF EntryInv, Working, ServedInv, HostInv
  <2> QED
    BY <2>2 DEF Stage
<1>4. SUFFICES ASSUME NEW s \in Streams, NEW u \in Streams,
                      NEW j \in 1 .. Len(queue'[s]), NEW k \in 1 .. Len(queue'[u]),
                      queue'[s][j].part = queue'[u][k].part
               PROVE  s = u /\ (j < k => Stage(queue'[s][j].do) < Stage(queue'[u][k].do))
  BY DEF OrderInv, Stage
<1>5. \/ j \in 1 .. Len(queue[s]) /\ queue'[s][j] = queue[s][j]
      \/ s = stream /\ j = n /\ queue'[s][j] = op
  BY <1>1
<1>6. \/ k \in 1 .. Len(queue[u]) /\ queue'[u][k] = queue[u][k]
      \/ u = stream /\ k = n /\ queue'[u][k] = op
  BY <1>1
<1>7. CASE j \in 1 .. Len(queue[s]) /\ queue'[s][j] = queue[s][j]
  <2>1. CASE k \in 1 .. Len(queue[u]) /\ queue'[u][k] = queue[u][k]
    BY <1>4, <1>7, <2>1 DEF ServedInv, OrderInv
  <2>2. CASE u = stream /\ k = n /\ queue'[u][k] = op
    BY <1>3, <1>4, <1>7, <2>2
  <2> QED
    BY <1>6, <2>1, <2>2
<1>8. CASE s = stream /\ j = n /\ queue'[s][j] = op
  <2>1. CASE k \in 1 .. Len(queue[u]) /\ queue'[u][k] = queue[u][k]
    <3>1. u = stream /\ Len(queue[u]) \in Nat
      BY <1>1, <1>3, <1>4, <1>8, <2>1
    <3> QED
      BY <1>8, <2>1, <3>1
  <2>2. CASE u = stream /\ k = n /\ queue'[u][k] = op
    BY <1>1, <1>8, <2>2
  <2> QED
    BY <1>6, <2>1, <2>2
<1> QED
  BY <1>5, <1>7, <1>8

(* What waits to be written still waits, and what the host thread has passed
   was written or has just been submitted. *)
LEMMA OutputSubmitted ==
  ASSUME ShapeInv, ~Unserved, ServedInv,
         NEW op \in Operations, op.part = i, Submit(op), UNCHANGED <<call, output>>,
         \/ i' = i + 1 /\ pc = "release" /\ pc' # "release"
         \/ i' = i /\ pc # "release" /\ (pc' = "release" => Writes(op))
  PROVE  OutputInv'
<1> DEFINE n == Len(queue[stream]) + 1
<1>1. /\ \A s \in Streams : \A j \in 1 .. Len(queue[s]) :
           j \in 1 .. Len(queue'[s]) /\ queue'[s][j] = queue[s][j]
      /\ n \in 1 .. Len(queue'[stream]) /\ queue'[stream][n] = op
      /\ stream \in Streams
  BY Submitted DEF ServedInv, ShapeInv
<1> HIDE DEF n
<1>2. i \in Nat /\ \A p \in Parts : p \in Nat
  BY PartitionRows DEF ServedInv, HostInv, ShapeInv
<1>3. SUFFICES ASSUME NEW p \in Parts
               PROVE  IF p < i' \/ (p = i' /\ pc' = "release")
                      THEN \/ \A k \in OutputsOf(p) : output[k] = k
                           \/ \E s \in Streams : \E j \in 1 .. Len(queue'[s]) :
                                queue'[s][j].part = p /\ Writes(queue'[s][j])
                      ELSE Untouched(p)
  BY SameCall DEF OutputInv, Writes, Untouched
<1>4. IF p < i \/ (p = i /\ pc = "release")
      THEN \/ \A k \in OutputsOf(p) : output[k] = k
           \/ \E s \in Streams : \E j \in 1 .. Len(queue[s]) :
                queue[s][j].part = p /\ Writes(queue[s][j])
      ELSE Untouched(p)
  BY DEF ServedInv, OutputInv
<1>5. CASE p < i \/ (p = i /\ pc = "release")
  BY <1>1, <1>2, <1>4, <1>5
<1>6. CASE ~ (p < i \/ (p = i /\ pc = "release"))
  <2>1. CASE p = i /\ pc' = "release"
    BY <1>1, <1>2, <1>6, <2>1
  <2>2. CASE ~ (p = i /\ pc' = "release")
    BY <1>2, <1>4, <1>6, <2>2
  <2> QED
    BY <2>1, <2>2
<1> QED
  BY <1>5, <1>6

(* The entry that the host thread submits, if it is for a device. *)
LEMMA EntrySubmitted ==
  ASSUME ShapeInv, ~Unserved, ServedInv, Working,
         NEW op \in Operations, op.part = i, Submit(op),
         UNCHANGED <<call, stream, temp_in, temp_out, output>>,
         NEW t, t = stream, NEW n, n = Len(queue[stream]) + 1, NEW p, p = i,
         \/ p < i'
         \/ p = i' /\ Working' /\ Stage(op.do) < Stage(pc')
         \/ p = i' /\ pc' = "refused" /\ op.do \in {"copy_in", "free"},
         op.do = "staged" <=> call.model.mem = "cpu",
         op.do = "copy_in" => CopiesIn,
         op.do \in {"copy_out", "staged"} => CopiesOut,
         op.do = "copy_out" => call.pinned /\ pc = "copy_out",
         op.do = "infer" => pc = "infer",
         Writes(op) => pc # "release"
  PROVE  EntryInv(t, n, p)'
<1> USE SameCall
<1>1. /\ \A s \in Streams : Len(queue[s]) \in Nat
      /\ \A s \in Streams : \A j \in 1 .. Len(queue[s]) : queue'[s][j] = queue[s][j]
      /\ queue'[t][n] = op
      /\ t \in Streams
  BY Submitted DEF ServedInv, ShapeInv
<1>2. p \in Parts
  BY OperationFields
<1>3. WorkInv(p) /\ (pc # "release" => Untouched(p))
  BY <1>2 DEF ServedInv, HostInv, OutputInv
<1>4. HasRoom(p)' /\ (pc # "release" => Untouched(p)')
  BY <1>3 DEF WorkInv, HasRoom, Untouched
<1>5. \A what : Pending(t, n - 1, what, p) => Pending(t, n - 1, what, p)'
  BY <1>1 DEF Pending
<1>6. pc = "infer" /\ CopiesIn => temp_in[p] = InputOf(p) \/ Pending(t, n - 1, "copy_in", p)
  BY <1>1, <1>3 DEF WorkInv
<1>7. pc = "copy_out" => temp_out[p] = ResultOf(p) \/ Pending(t, n - 1, "infer", p)
  BY <1>1, <1>3 DEF WorkInv
<1>8. op.do = "infer" /\ CopiesIn' => temp_in'[p] = InputOf(p)' \/ Pending(t, n - 1, "copy_in", p)'
  BY <1>5, <1>6
<1>9. op.do = "copy_out" => temp_out'[p] = ResultOf(p)' \/ Pending(t, n - 1, "infer", p)'
  BY <1>5, <1>7
<1>10. Writes(queue[t][n])' => Untouched(p)'
  BY <1>1, <1>4 DEF Writes
<1> QED
  BY <1>1, <1>4, <1>8, <1>9, <1>10 DEF EntryInv

(* All that a submission of the host thread does to the queues. *)
LEMMA HostSubmits ==
  ASSUME ShapeInv, ~Unserved, ServedInv, Working,
         NEW op \in Operations, op.part = i, Submit(op),
         UNCHANGED <<call, stream, temp_in, temp_out, output>>,
         \/ /\ i' = i /\ Working' /\ Stage(op.do) = Stage(pc) /\ Stage(pc) < Stage(pc')
            /\ pc' = "release" => Writes(op)
         \/ i' = i + 1 /\ pc = "release" /\ pc' # "release" /\ op.do = "free"
         \/ i' = i /\ pc = "infer" /\ pc' = "refused" /\ op.do = "free",
         op.do = "staged" <=> call.model.mem = "cpu",
         op.do = "copy_in" => CopiesIn,
         op.do \in {"copy_out", "staged"} => CopiesOut,
         op.do = "copy_out" => call.pinned
  PROVE  queue' \in [Streams -> Seq(Operations)] /\ EntriesInv' /\ OrderInv' /\ OutputInv'
<1>1. /\ op.do \in {"copy_in", "infer", "copy_out", "staged", "free"}
      /\ i \in Nat /\ i \in Parts
  BY OperationFields DEF ServedInv, HostInv
<1>2. Stage(op.do) = Stage(pc) \/ op.do = "free"
  OBVIOUS
<1>3. /\ op.do = "copy_out" => pc = "copy_out"
      /\ op.do = "infer" => pc = "infer"
      /\ Writes(op) => pc # "release"
  <2>1. pc = "copy_out" => CopiesOut
    BY DEF ServedInv, HostInv
  <2> QED
    BY <1>1, <1>2, <2>1 DEF Stage, Working, Writes
<1>4. queue' \in [Streams -> Seq(Operations)]
  BY Submitted DEF ServedInv, ShapeInv
<1>5. ASSUME NEW t, t = stream, NEW n, n = Len(queue[stream]) + 1, NEW p, p = i
      PROVE  EntryInv(t, n, p)'
  <2>1. \/ p < i'
        \/ p = i' /\ Working' /\ Stage(op.do) < Stage(pc')
        \/ p = i' /\ pc' = "refused" /\ op.do \in {"copy_in", "free"}
    BY <1>1, <1>5
  <2> QED
    BY <1>1, <1>3, <1>5, <2>1, EntrySubmitted
<1>6. EntriesInv'
  BY <1>5, EntriesSubmitted
<1>7. OrderInv'
  <2>1. Stage(pc) <= Stage(op.do)
    BY <1>1, <1>2 DEF Stage
  <2> QED
    BY <2>1, OrderSubmitted
<1>8. OutputInv'
  <2>1. \/ i' = i + 1 /\ pc = "release" /\ pc' # "release"
        \/ i' = i /\ pc # "release" /\ (pc' = "release" => Writes(op))
    BY DEF Stage, Working
  <2> QED
    BY <2>1, OutputSubmitted
<1> QED
  BY <1>4, <1>6, <1>7, <1>8

(* The queues stay as they are if the host thread leaves alone what their
   entries use. *)
LEMMA QueuesKept ==
  ASSUME ShapeInv, ~Unserved, ServedInv, queue' = queue, call' = call,
         \A s \in Streams : \A j \in 1 .. Len(queue[s]) : \A p \in Parts :
           queue[s][j].part = p =>
             /\ queue[s][j].do # "staged" => temp_in'[p] = temp_in[p] /\ temp_out'[p] = temp_out[p]
             /\ Writes(queue[s][j]) => \A k \in OutputsOf(p) : output'[k] = output[k]
             /\ \/ p < i'
                \/ p = i' /\ Working' /\ s = stream' /\ Stage(queue[s][j].do) < Stage(pc')
                \/ p = i' /\ pc' = "refused" /\ queue[s][j].do \in {"copy_in", "free"}
  PROVE  queue' \in [Streams -> Seq(Operations)] /\ EntriesInv' /\ OrderInv'
<1> USE SameCall
<1>1. queue' \in [Streams -> Seq(Operations)] /\ \A s \in Streams : Len(queue[s]) \in Nat
  BY DEF ServedInv
<1>2. ASSUME NEW s \in Streams, NEW j \in 1 .. Len(queue[s]), NEW p \in Parts,
             queue[s][j].part = p
      PROVE  EntryInv(s, j, p)'
  <2>1. EntryInv(s, j, p)
    BY <1>2 DEF ServedInv, EntriesInv
  <2>2. j \in Nat \ {0}
    BY <1>1
  <2> QED
    BY <1>2, <2>1, <2>2, EntryKept
<1>3. EntriesInv'
  BY <1>2 DEF EntriesInv
<1>4. OrderInv'
  BY DEF ServedInv, OrderInv, Stage
<1> QED
  BY <1>1, <1>3, <1>4

(* Neither outputs nor queues change. *)
LEMMA OutputKept ==
  ASSUME ShapeInv, ~Unserved, ServedInv, UNCHANGED <<call, queue, output>>,
         \/ i' = i + 1 /\ pc = "release" /\ pc' # "release"
         \/ i' = i /\ pc # "release" /\ pc' # "release"
  PROVE  OutputInv'
<1>1. i \in Nat /\ \A p \in Parts : p \in Nat
  BY PartitionRows DEF ServedInv, HostInv, ShapeInv
<1>2. SUFFICES ASSUME NEW p \in Parts
               PROVE  IF p < i' \/ (p = i' /\ pc' = "release")
                      THEN \/ \A k \in OutputsOf(p) : output[k] = k
                           \/ \E s \in Streams : \E j \in 1 .. Len(queue[s]) :
                                queue[s][j].part = p /\ Writes(queue[s][j])
                      ELSE Untouched(p)
  BY SameCall DEF OutputInv, Writes, Untouched
<1>3. p < i' \/ (p = i' /\ pc' = "release") <=> p < i \/ (p = i /\ pc = "release")
  BY <1>1
<1> QED
  BY <1>3 DEF ServedInv, OutputInv

(* The host thread writes the outputs of the partition it is at. *)
LEMMA OutputWritten ==
  ASSUME ShapeInv, ~Unserved, ServedInv, UNCHANGED <<call, i, queue>>, Representable(call),
         pc \in {"infer", "copy_out"}, pc' = "release",
         output' = CopyOut(i, ResultOf(i))
  PROVE  OutputInv'
<1>1. i \in Parts /\ \A p \in Parts : p \in Nat
  BY AtPartition, PartitionRows DEF ShapeInv, Working
<1>2. output' = [k \in DOMAIN output |-> IF k \in OutputsOf(i) THEN k ELSE output[k]]
  BY <1>1, OutputCopied DEF ShapeInv
<1>3. SUFFICES ASSUME NEW p \in Parts
               PROVE  IF p < i \/ p = i
                      THEN \/ \A k \in OutputsOf(p) : output'[k] = k
                           \/ \E s \in Streams : \E j \in 1 .. Len(queue[s]) :
                                queue[s][j].part = p /\ Writes(queue[s][j])
                      ELSE \A k \in OutputsOf(p) : output'[k] = Unwritten
  BY SameCall DEF OutputInv, Writes, Untouched
<1>4. OutputsOf(p) \subseteq DOMAIN output
  BY OutputsInside DEF ShapeInv
<1>5. CASE p = i
  BY <1>2, <1>4, <1>5
<1>6. CASE p # i
  <2>1. \A k \in OutputsOf(p) : output'[k] = output[k]
    <3>1. OutputsOf(p) \cap OutputsOf(i) = {}
      BY <1>1, <1>6, OutputsApart DEF ShapeInv
    <3> QED
      BY <1>2, <1>4, <3>1
  <2>2. IF p < i
        THEN \/ \A k \in OutputsOf(p) : output[k] = k
             \/ \E s \in Streams : \E j \in 1 .. Len(queue[s]) :
                  queue[s][j].part = p /\ Writes(queue[s][j])
        ELSE Untouched(p)
    BY <1>6 DEF ServedInv, OutputInv
  <2> QED
    BY <1>1, <1>6, <2>1, <2>2 DEF Untouched
<1> QED
  BY <1>5, <1>6

(* Where a kernel or a copy for the host's own memory is done at once, nothing
   that waits needs a temporary, and it waits only if outputs are copied. *)
LEMMA QueuesOnHost ==
  ASSUME ServedInv, call.model.mem = "cpu",
         NEW s \in Streams, NEW j \in 1 .. Len(queue[s])
  PROVE  queue[s][j].do = "staged" /\ CopiesOut /\ queue[s][j].part \in Parts
<1>1. queue[s][j] \in Operations
  BY DEF ServedInv
<1>2. queue[s][j].part \in Parts
  BY <1>1, OperationFields
<1>3. EntryInv(s, j, queue[s][j].part)
  BY <1>2 DEF ServedInv, EntriesInv
<1> QED
  BY <1>2, <1>3 DEF EntryInv

-----------------------------------------------------------------------------
(* The host thread *)

(* No step changes the call, or how many temporaries and outputs there are. *)
LEMMA ShapeKept ==
  ASSUME ShapeInv, [Next]_vars
  PROVE  ShapeInv' /\ call' = call
<1>1. call' = call /\ stream' \in Streams
  BY DEF ShapeInv, Next, Host, Start, NextPartition, CopyInput, Refuse, Infer, CopyOutput,
         Release, Run, Over, vars
<1>2. DOMAIN temp_in' = DOMAIN temp_in
  BY DEF Next, Host, Start, NextPartition, CopyInput, Refuse, Infer, CopyOutput,
         Release, Run, Over, vars, FreeTemporaries
<1>3. DOMAIN temp_out' = DOMAIN temp_out
  BY DEF Next, Host, Start, NextPartition, CopyInput, Refuse, Infer, CopyOutput,
         Release, Run, Over, vars, FreeTemporaries, RunKernel
<1>4. DOMAIN output' = DOMAIN output
  BY DEF Next, Host, Start, NextPartition, CopyInput, Refuse, Infer, CopyOutput,
         Release, Run, Over, vars, RunKernel, CopyOut
<1> QED
  BY <1>1, <1>2, <1>3, <1>4, SameCall DEF ShapeInv

(* A call that has a stream begins with its first partition. *)
LEMMA ServedStart ==
  ASSUME ShapeInv, ~Unserved, ServedInv, Start
  PROVE  ServedInv'
<1>1. /\ pc = "start" /\ pc' = "partition" /\ i' = i
      /\ UNCHANGED <<call, stream, queue, temp_in, temp_out, output>>
  BY DEF Start, Unserved
<1>2. queue' \in [Streams -> Seq(Operations)] /\ EntriesInv' /\ OrderInv'
  <2>1. ASSUME NEW s \in Streams, NEW j \in 1 .. Len(queue[s]), NEW p \in Parts,
               queue[s][j].part = p
        PROVE  p < i'
    BY <1>1, <2>1 DEF ServedInv, EntriesInv, EntryInv, Working
  <2> QED
    BY <1>1, <2>1, QueuesKept
<1>3. OutputInv'
  BY <1>1, OutputKept
<1>4. HostInv'
  BY <1>1, SameCall DEF ServedInv, HostInv, Working
<1> QED
  BY <1>1, <1>2, <1>3, <1>4, SameCall DEF ServedInv

(* The temporaries of the next partition are made, or there is none. *)
LEMMA ServedNextPartition ==
  ASSUME ShapeInv, ~Unserved, ServedInv, NextPartition
  PROVE  ServedInv'
<1> USE SameCall
<1>1. pc = "partition" /\ i' = i /\ UNCHANGED <<call, queue, output>>
  BY DEF NextPartition
<1>2. i \in Nat /\ i <= PartitionCount /\ PartitionCount \in Nat
  BY PartitionLength DEF ServedInv, HostInv, ShapeInv
<1>3. pc' \in {"copy_in", "infer", "returned"}
  BY DEF NextPartition
<1>4. ASSUME NEW s \in Streams, NEW j \in 1 .. Len(queue[s]), NEW p \in Parts,
             queue[s][j].part = p
      PROVE  /\ p < i' /\ temp_in'[p] = temp_in[p] /\ temp_out'[p] = temp_out[p]
  <2>1. p < i
    BY <1>1, <1>4 DEF ServedInv, EntriesInv, EntryInv, Working
  <2>2. p \in Partitions
    BY PartitionRows DEF ShapeInv
  <2> QED
    BY <1>1, <1>2, <2>1, <2>2 DEF NextPartition, ShapeInv
<1>5. queue' \in [Streams -> Seq(Operations)] /\ EntriesInv' /\ OrderInv'
  BY <1>1, <1>4, QueuesKept
<1>6. OutputInv'
  BY <1>1, <1>3, OutputKept
<1>7. HostInv'
  <2>1. CASE i < PartitionCount
    <3>1. pc' = (IF CopiesIn THEN "copy_in" ELSE "infer")
      BY <2>1 DEF NextPartition
    <3>2. i \in Parts
      BY <1>2, <2>1 DEF Parts
    <3>3. /\ i \in Partitions
          /\ temp_in' = [temp_in EXCEPT ![i] =
               IF CopiesIn THEN Allocated(RowsIn(i) * call.num_features) ELSE @]
          /\ temp_out' = [temp_out EXCEPT ![i] =
               IF CopiesOut THEN Allocated(RowsIn(i) * call.num_outputs) ELSE @]
      BY <2>1, <3>2, PartitionRows DEF NextPartition, ShapeInv
    <3>4. ASSUME NEW p \in Parts, p = i PROVE WorkInv(p)'
      <4>1. /\ CopiesIn => DOMAIN temp_in'[p] = DOMAIN InputOf(p)
            /\ CopiesOut => DOMAIN temp_out'[p] = DOMAIN ResultOf(p)
        BY <3>3, <3>4 DEF ShapeInv, Allocated, InputOf, ResultOf
      <4>2. HasRoom(p)'
        BY <1>1, <4>1 DEF HasRoom
      <4>3. ~ (pc' = "infer" /\ CopiesIn') /\ pc' # "copy_out"
        BY <1>1, <3>1
      <4> QED
        BY <4>2, <4>3 DEF WorkInv
    <3> QED
      BY <1>1, <1>2, <2>1, <3>1, <3>4 DEF ServedInv, HostInv, Working
  <2>2. CASE ~ (i < PartitionCount)
    <3>1. pc' = "returned" /\ i = PartitionCount
      BY <1>2, <2>2 DEF NextPartition
    <3> QED
      BY <1>1, <1>2, <3>1 DEF ServedInv, HostInv, Working
  <2> QED
    BY <2>1, <2>2
<1> QED
  BY <1>1, <1>3, <1>5, <1>6, <1>7 DEF ServedInv

(* The rows of a partition are copied to the device, or have been copied to the
   host. *)
LEMMA ServedCopyInput ==
  ASSUME ShapeInv, ~Unserved, ServedInv, Representable(call), CopyInput
  PROVE  ServedInv'
<1> USE SameCall
<1>1. /\ pc = "copy_in" /\ pc' = "infer" /\ Working /\ Working' /\ CopiesIn
      /\ UNCHANGED <<call, i, stream, temp_out, output>>
  BY DEF CopyInput, Working, ServedInv, HostInv
<1>2. i \in Parts /\ i \in Nat /\ i < PartitionCount /\ WorkInv(i) /\ i \in Partitions
  BY <1>1, AtPartition, PartitionRows DEF ServedInv, HostInv, ShapeInv
<1>3. Stage("copy_in") = 1 /\ Stage("infer") = 2
  BY DEF Stage
<1>4. HostInv' /\ queue' \in [Streams -> Seq(Operations)] /\ EntriesInv' /\ OrderInv' /\ OutputInv'
  <2>1. CASE call.model.mem = "gpu"
    <3> DEFINE op == Op("copy_in")
    <3>1. op \in Operations /\ op.part = i /\ op.do = "copy_in"
      BY <1>2 DEF Op, Operations
    <3> HIDE DEF op
    <3>2. Submit(op) /\ temp_in' = temp_in
      BY <2>1 DEF CopyInput, op
    <3>3. queue' \in [Streams -> Seq(Operations)] /\ EntriesInv' /\ OrderInv' /\ OutputInv'
      BY <1>1, <1>3, <2>1, <3>1, <3>2, HostSubmits
    <3>4. ASSUME NEW p \in Parts, p = i PROVE WorkInv(p)'
      <4>1. HasRoom(p)'
        BY <1>1, <1>2, <3>2, <3>4 DEF WorkInv, HasRoom
      <4>2. Pending(stream, Len(queue[stream]), "copy_in", p)'
        <5> DEFINE n == Len(queue[stream]) + 1
        <5>1. n \in 1 .. Len(queue'[stream]) /\ queue'[stream][n] = op /\ n = Len(queue'[stream])
          BY <3>1, <3>2, Submitted DEF ServedInv, ShapeInv
        <5> QED
          BY <1>1, <3>1, <3>4, <5>1 DEF Pending
      <4> QED
        BY <1>1, <4>1, <4>2 DEF WorkInv
    <3>5. HostInv'
      BY <1>1, <1>2, <3>4 DEF ServedInv, HostInv, Working
    <3> QED
      BY <3>3, <3>5
  <2>2. CASE call.model.mem # "gpu"
    <3>1. queue' = queue /\ temp_in' = [temp_in EXCEPT ![i] = CopyIn(i)]
      BY <2>2 DEF CopyInput
    <3>2. call.model.mem = "cpu"
      BY <2>2, CallFields DEF ShapeInv, DeviceType
    <3>3. ASSUME NEW s \in Streams, NEW j \in 1 .. Len(queue[s]), NEW p \in Parts,
                 queue[s][j].part = p
          PROVE  /\ queue[s][j].do = "staged"
                 /\ p < i'
      <4>1. queue[s][j].do = "staged" /\ EntryInv(s, j, p)
        BY <3>2, <3>3, QueuesOnHost DEF ServedInv, EntriesInv
      <4> QED
        BY <1>1, <4>1 DEF EntryInv, Stage
    <3>4. queue' \in [Streams -> Seq(Operations)] /\ EntriesInv' /\ OrderInv'
      BY <1>1, <3>1, <3>3, QueuesKept
    <3>5. OutputInv'
      BY <1>1, <3>1, OutputKept
    <3>6. ASSUME NEW p \in Parts, p = i PROVE WorkInv(p)'
      <4>1. CopyIn(p) = InputOf(p)
        BY <1>1, <1>2, <3>6, InputCopied DEF WorkInv, HasRoom, ShapeInv
      <4>2. temp_in'[p] = InputOf(p)
        BY <1>2, <3>1, <3>6, <4>1 DEF ShapeInv
      <4>3. HasRoom(p)'
        BY <1>1, <1>2, <3>6, <4>2 DEF WorkInv, HasRoom
      <4> QED
        BY <1>1, <4>2, <4>3 DEF WorkInv
    <3>7. HostInv'
      BY <1>1, <1>2, <3>6 DEF ServedInv, HostInv, Working
    <3> QED
      BY <3>4, <3>5, <3>7
  <2> QED
    BY <2>1, <2>2
<1> QED
  BY <1>1, <1>4 DEF ServedInv

(* The checks that a partition passes are those that the first one does. *)
LEMMA CheckedOnce ==
  ASSUME ShapeInv, ~Unserved, ServedInv, Representable(call), pc = "infer", i > 0
  PROVE  SameDevice /\ KernelAccepts
<1>1. i \in Parts /\ i \in Nat
  BY AtPartition DEF Working
<1>2. /\ SameDevice
      /\ RowsIn(0) <= MaxRows
      /\ call.model.mem = "gpu" => call.stream_device = call.model.device /\ RowsIn(0) > 0
  BY DEF ServedInv, HostInv
<1>3. U(RowsIn(i)) = RowsIn(i) /\ RowsIn(i) <= RowsIn(0) /\ RowsIn(i) > 0 /\ RowsIn(i) \in Nat
  BY <1>1, NoWrap, PartitionRows DEF ShapeInv
<1>4. 0 \in Parts /\ RowsIn(0) \in Nat /\ MaxRows \in Nat
  <2>1. 0 \in Parts
    BY <1>1, PartitionLength DEF Parts, ShapeInv
  <2> QED
    BY <2>1, PartitionRows, RoutingAssumption DEF ShapeInv
<1> QED
  BY <1>2, <1>3, <1>4 DEF KernelAccepts

(* The temporaries of a partition on the host are freed at once.  Nothing that
   waits needs them. *)
LEMMA FreedOnHost ==
  ASSUME ShapeInv, ~Unserved, ServedInv, Working, call.model.mem # "gpu",
         FreeTemporaries, UNCHANGED <<call, output>>,
         i' = i + 1 \/ (i' = i /\ pc = "infer" /\ pc' = "refused")
  PROVE  queue' \in [Streams -> Seq(Operations)] /\ EntriesInv' /\ OrderInv' /\ queue' = queue
<1>1. queue' = queue
  BY DEF FreeTemporaries
<1>2. call.model.mem = "cpu"
  BY CallFields DEF ShapeInv, DeviceType
<1>3. i \in Nat /\ \A p \in Parts : p \in Nat
  BY AtPartition, PartitionRows DEF ShapeInv
<1>4. ASSUME NEW s \in Streams, NEW j \in 1 .. Len(queue[s]), NEW p \in Parts,
             queue[s][j].part = p
      PROVE  queue[s][j].do = "staged" /\ p < i'
  <2>1. queue[s][j].do = "staged" /\ EntryInv(s, j, p)
    BY <1>2, <1>4, QueuesOnHost DEF ServedInv, EntriesInv
  <2>2. p < i \/ (p = i /\ Stage("staged") < Stage(pc))
    BY <2>1 DEF EntryInv, Working
  <2> QED
    BY <1>3, <2>1, <2>2 DEF Stage
<1> QED
  BY <1>1, <1>4, QueuesKept

(* A partition is refused.  It is the first, by CheckedOnce. *)
LEMMA ServedRefuse ==
  ASSUME ShapeInv, ~Unserved, ServedInv, Representable(call), Refuse
  PROVE  ServedInv'
<1> USE SameCall
<1>1. /\ pc = "infer" /\ pc' = "refused" /\ Working /\ ~Working' /\ FreeTemporaries
      /\ UNCHANGED <<call, i, stream, output>>
  BY DEF Refuse, Working
<1>2. i \in Parts /\ i \in Nat
  BY <1>1, AtPartition
<1>3. i = 0
  BY <1>1, <1>2, CheckedOnce DEF Refuse
<1>4. HostInv'
  BY <1>1, <1>3 DEF ServedInv, HostInv
<1>5. queue' \in [Streams -> Seq(Operations)] /\ EntriesInv' /\ OrderInv' /\ OutputInv'
  <2>1. CASE call.model.mem = "gpu"
    <3> DEFINE op == Op("free")
    <3>1. op \in Operations /\ op.part = i /\ op.do = "free"
      BY <1>2 DEF Op, Operations
    <3> HIDE DEF op
    <3>2. Submit(op) /\ UNCHANGED <<temp_in, temp_out>>
      BY <1>1, <2>1 DEF FreeTemporaries, op
    <3> QED
      BY <1>1, <2>1, <3>1, <3>2, HostSubmits
  <2>2. CASE call.model.mem # "gpu"
    <3>1. queue' \in [Streams -> Seq(Operations)] /\ EntriesInv' /\ OrderInv' /\ queue' = queue
      BY <1>1, <2>2, FreedOnHost
    <3>2. OutputInv'
      BY <1>1, <3>1, OutputKept
    <3> QED
      BY <3>1, <3>2
  <2> QED
    BY <2>1, <2>2
<1> QED
  BY <1>1, <1>4, <1>5 DEF ServedInv

(* A kernel on the host finds its rows, which were copied before it started. *)
LEMMA HostComputes ==
  ASSUME ShapeInv, ~Unserved, ServedInv, Representable(call), pc = "infer", call.model.mem = "cpu"
  PROVE  Results(i) = ResultOf(i)
<1>1. i \in Parts /\ Working
  BY AtPartition DEF Working
<1>2. ASSUME Pending(stream, Len(queue[stream]), "copy_in", i) PROVE FALSE
  <2>1. PICK k \in 1 .. Len(queue[stream]) : queue[stream][k].do = "copy_in"
    BY <1>2 DEF Pending
  <2> QED
    BY <2>1, QueuesOnHost DEF ShapeInv
<1>3. temp_in[i] = InputOf(i) \/ ~CopiesIn
  BY <1>1, <1>2 DEF WorkInv, ServedInv, HostInv
<1> QED
  BY <1>1, <1>3, ResultsRight DEF ShapeInv

(* The kernel is submitted to the device, or has run on the host. *)
LEMMA ServedInfer ==
  ASSUME ShapeInv, ~Unserved, ServedInv, Representable(call), Infer
  PROVE  ServedInv'
<1> USE SameCall
<1>1. /\ pc = "infer" /\ pc' = (IF CopiesOut THEN "copy_out" ELSE "release")
      /\ Working /\ Working' /\ SameDevice /\ KernelAccepts
      /\ UNCHANGED <<call, i, stream, temp_in>>
  BY DEF Infer, Working
<1>2. i \in Parts /\ i \in Nat /\ i < PartitionCount /\ WorkInv(i) /\ i \in Partitions
  BY <1>1, AtPartition, PartitionRows DEF ServedInv, HostInv, ShapeInv
<1>3. Stage("infer") = 2 /\ Stage("copy_out") = 3 /\ Stage("release") = 4
  BY DEF Stage
<1>4. /\ SameDevice' /\ RowsIn(0)' <= MaxRows
      /\ call'.model.mem = "gpu" => call'.stream_device = call'.model.device /\ RowsIn(0)' > 0
  <2>1. CASE i = 0
    <3>1. U(RowsIn(0)) = RowsIn(0)
      BY <1>2, <2>1, NoWrap DEF ShapeInv
    <3> QED
      BY <1>1, <2>1, <3>1 DEF KernelAccepts
  <2>2. CASE i # 0
    BY <1>1, <1>2, <2>2 DEF ServedInv, HostInv
  <2> QED
    BY <2>1, <2>2
<1>5. (\A p \in Parts : p = i => WorkInv(p)') => HostInv'
  BY <1>1, <1>2, <1>4 DEF ServedInv, HostInv, Working
<1>6. CASE call.model.mem = "gpu"
  <2> DEFINE op == Op("infer")
  <2>1. op \in Operations /\ op.part = i /\ op.do = "infer"
    BY <1>2 DEF Op, Operations
  <2> HIDE DEF op
  <2>2. Submit(op) /\ UNCHANGED <<temp_out, output>>
    BY <1>6 DEF Infer, op
  <2>3. queue' \in [Streams -> Seq(Operations)] /\ EntriesInv' /\ OrderInv' /\ OutputInv'
    <3>1. Stage(pc) < Stage(pc') /\ (pc' = "release" => Writes(op))
      BY <1>1, <1>3, <2>1 DEF Writes
    <3> QED
      BY <1>1, <1>6, <2>1, <2>2, <3>1, HostSubmits
  <2>4. ASSUME NEW p \in Parts, p = i PROVE WorkInv(p)'
    <3>1. HasRoom(p)'
      BY <1>1, <1>2, <2>2, <2>4 DEF WorkInv, HasRoom
    <3>2. Pending(stream, Len(queue[stream]), "infer", p)'
      <4> DEFINE n == Len(queue[stream]) + 1
      <4>1. n \in 1 .. Len(queue'[stream]) /\ queue'[stream][n] = op /\ n = Len(queue'[stream])
        BY <2>1, <2>2, Submitted DEF ServedInv, ShapeInv
      <4> QED
        BY <1>1, <2>1, <2>4, <4>1 DEF Pending
    <3> QED
      BY <1>1, <3>1, <3>2 DEF WorkInv
  <2> QED
    BY <1>1, <1>5, <2>3, <2>4 DEF ServedInv
<1>7. CASE call.model.mem # "gpu"
  <2>1. queue' = queue /\ RunKernel(i)
    BY <1>7 DEF Infer
  <2>2. call.model.mem = "cpu"
    BY <1>7, CallFields DEF ShapeInv, DeviceType
  <2>4. Results(i) = ResultOf(i)
    BY <1>1, <2>2, HostComputes
  <2>5. ASSUME NEW s \in Streams, NEW j \in 1 .. Len(queue[s]), NEW p \in Parts,
               queue[s][j].part = p
        PROVE  queue[s][j].do = "staged" /\ p < i' /\ CopiesOut
    <3>1. queue[s][j].do = "staged" /\ EntryInv(s, j, p) /\ CopiesOut
      BY <2>2, <2>5, QueuesOnHost DEF ServedInv, EntriesInv
    <3> QED
      BY <1>1, <3>1 DEF EntryInv, Stage
  <2>6. queue' \in [Streams -> Seq(Operations)] /\ EntriesInv' /\ OrderInv'
    <3>1. CopiesOut => output' = output
      BY <2>1 DEF RunKernel
    <3> QED
      BY <1>1, <2>1, <2>5, <3>1, QueuesKept
  <2>7. OutputInv'
    <3>1. CASE CopiesOut
      <4>1. output' = output /\ pc' = "copy_out"
        BY <1>1, <2>1, <3>1 DEF RunKernel
      <4> QED
        BY <1>1, <2>1, <4>1, OutputKept
    <3>2. CASE ~CopiesOut
      <4>1. output' = CopyOut(i, ResultOf(i)) /\ pc' = "release"
        BY <1>1, <2>1, <2>4, <3>2 DEF RunKernel
      <4> QED
        BY <1>1, <2>1, <4>1, OutputWritten
    <3> QED
      BY <3>1, <3>2
  <2>8. ASSUME NEW p \in Parts, p = i PROVE WorkInv(p)'
    <3>1. CopiesOut => temp_out'[p] = ResultOf(p)
      <4>1. ASSUME CopiesOut
            PROVE  temp_out'[p] = [k \in DOMAIN ResultOf(p) |-> ResultOf(p)[k]]
        <5>1. temp_out'[p] = [k \in DOMAIN temp_out[p] |->
                 IF k \in DOMAIN Results(p) THEN Results(p)[k] ELSE temp_out[p][k]]
          BY <1>2, <2>1, <2>8, <4>1 DEF RunKernel, ShapeInv
        <5>2. DOMAIN temp_out[p] = DOMAIN ResultOf(p)
          BY <1>2, <2>8, <4>1 DEF WorkInv, HasRoom
        <5> QED
          BY <2>4, <2>8, <5>1, <5>2
      <4>2. ResultOf(p) = [k \in DOMAIN ResultOf(p) |-> ResultOf(p)[k]]
        BY DEF ResultOf
      <4> QED
        BY <4>1, <4>2
    <3>2. HasRoom(p)'
      BY <1>1, <1>2, <2>8, <3>1 DEF WorkInv, HasRoom
    <3> QED
      BY <1>1, <3>1, <3>2 DEF WorkInv
  <2> QED
    BY <1>1, <1>5, <2>6, <2>7, <2>8 DEF ServedInv
<1> QED
  BY <1>6, <1>7

(* Results are copied from the device by a stream, or have been copied if the
   caller's memory is pageable; on their way to a device they are staged. *)
LEMMA ServedCopyOutput ==
  ASSUME ShapeInv, ~Unserved, ServedInv, Representable(call), CopyOutput
  PROVE  ServedInv'
<1> USE SameCall
<1>1. /\ pc = "copy_out" /\ pc' = "release" /\ Working /\ Working' /\ CopiesOut
      /\ UNCHANGED <<call, i, stream, temp_in, temp_out>>
  BY DEF CopyOutput, Working, ServedInv, HostInv
<1>2. i \in Parts /\ i \in Nat /\ i < PartitionCount /\ WorkInv(i)
  BY <1>1, AtPartition DEF ServedInv, HostInv
<1>3. HostInv'
  <2>1. \A p \in Parts : p = i => WorkInv(p)'
    BY <1>1, <1>2 DEF WorkInv, HasRoom
  <2> QED
    BY <1>1, <1>2, <2>1 DEF ServedInv, HostInv, Working
<1>4. CASE call.model.mem = "gpu" /\ ~call.pinned
  <2>1. queue[stream] = <<>> /\ queue' = queue /\ output' = CopyOut(i, temp_out[i])
    BY <1>4 DEF CopyOutput
  <2>2. temp_out[i] = ResultOf(i)
    BY <1>1, <1>2, <2>1 DEF WorkInv, Pending
  <2>3. OutputInv'
    BY <1>1, <2>1, <2>2, OutputWritten
  <2>4. ASSUME NEW s \in Streams, NEW j \in 1 .. Len(queue[s]), NEW p \in Parts,
               queue[s][j].part = p
        PROVE  p < i /\ \A k \in OutputsOf(p) : output'[k] = output[k]
    <3>1. EntryInv(s, j, p)
      BY <2>4 DEF ServedInv, EntriesInv
    <3>2. s # stream
      BY <2>1, <2>4
    <3>3. p < i
      BY <1>1, <3>1, <3>2 DEF EntryInv
    <3>4. OutputsOf(p) \cap OutputsOf(i) = {} /\ OutputsOf(p) \subseteq DOMAIN output
      BY <1>2, <3>3, OutputsApart, OutputsInside DEF ShapeInv
    <3>5. output' = [k \in DOMAIN output |-> IF k \in OutputsOf(i) THEN k ELSE output[k]]
      BY <1>2, <2>1, <2>2, OutputCopied DEF ShapeInv
    <3> QED
      BY <3>3, <3>4, <3>5
  <2>5. queue' \in [Streams -> Seq(Operations)] /\ EntriesInv' /\ OrderInv'
    BY <1>1, <2>1, <2>4, QueuesKept
  <2> QED
    BY <1>1, <1>3, <2>3, <2>5 DEF ServedInv
<1>5. CASE ~ (call.model.mem = "gpu" /\ ~call.pinned)
  <2> DEFINE op == IF call.model.mem = "gpu" THEN Op("copy_out")
                   ELSE [do |-> "staged", part |-> i, data |-> temp_out[i]]
  <2>1. Submit(op) /\ output' = output
    BY <1>5 DEF CopyOutput
  <2>2. /\ op \in Operations /\ op.part = i
        /\ IF call.model.mem = "gpu" THEN op.do = "copy_out" ELSE op.do = "staged"
    <3>1. CASE call.model.mem = "gpu"
      BY <1>2, <3>1 DEF Op, Operations
    <3>2. CASE call.model.mem # "gpu"
      <4>1. temp_out[i] = ResultOf(i)
        <5>1. ASSUME Pending(stream, Len(queue[stream]), "infer", i) PROVE FALSE
          <6>1. PICK k \in 1 .. Len(queue[stream]) : queue[stream][k].do = "infer"
            BY <5>1 DEF Pending
          <6>2. call.model.mem = "cpu"
            BY <3>2, CallFields DEF ShapeInv, DeviceType
          <6> QED
            BY <6>1, <6>2, QueuesOnHost DEF ShapeInv
        <5> QED
          BY <1>1, <1>2, <5>1 DEF WorkInv
      <4> QED
        BY <1>2, <3>2, <4>1 DEF Operations
    <3> QED
      BY <3>1, <3>2
  <2> HIDE DEF op
  <2>3. /\ op.do = "staged" <=> call.model.mem = "cpu"
        /\ op.do = "copy_out" => call.pinned
        /\ Writes(op) /\ Stage(op.do) = 3 /\ Stage(pc) = 3 /\ Stage(pc') = 4
    BY <1>1, <1>5, <2>2, CallFields DEF ShapeInv, DeviceType, Writes, Stage
  <2>4. queue' \in [Streams -> Seq(Operations)] /\ EntriesInv' /\ OrderInv' /\ OutputInv'
    BY <1>1, <2>1, <2>2, <2>3, HostSubmits
  <2> QED
    BY <1>1, <1>3, <2>4 DEF ServedInv
<1> QED
  BY <1>4, <1>5

(* The host thread is done with a partition. *)
LEMMA ServedRelease ==
  ASSUME ShapeInv, ~Unserved, ServedInv, Release
  PROVE  ServedInv'
<1> USE SameCall
<1>1. /\ pc = "release" /\ pc' = "partition" /\ i' = i + 1 /\ Working /\ ~Working'
      /\ FreeTemporaries /\ UNCHANGED <<call, stream, output>>
  BY DEF Release, Working
<1>2. i \in Parts /\ i \in Nat /\ i < PartitionCount /\ PartitionCount \in Nat
  BY <1>1, AtPartition, PartitionLength DEF ShapeInv
<1>3. HostInv'
  BY <1>1, <1>2 DEF ServedInv, HostInv
<1>4. queue' \in [Streams -> Seq(Operations)] /\ EntriesInv' /\ OrderInv' /\ OutputInv'
  <2>1. CASE call.model.mem = "gpu"
    <3> DEFINE op == Op("free")
    <3>1. op \in Operations /\ op.part = i /\ op.do = "free"
      BY <1>2 DEF Op, Operations
    <3> HIDE DEF op
    <3>2. Submit(op) /\ UNCHANGED <<temp_in, temp_out>>
      BY <1>1, <2>1 DEF FreeTemporaries, op
    <3> QED
      BY <1>1, <2>1, <3>1, <3>2, HostSubmits
  <2>2. CASE call.model.mem # "gpu"
    <3>1. queue' \in [Streams -> Seq(Operations)] /\ EntriesInv' /\ OrderInv' /\ queue' = queue
      BY <1>1, <2>2, FreedOnHost
    <3>2. OutputInv'
      BY <1>1, <3>1, OutputKept
    <3> QED
      BY <3>1, <3>2
  <2> QED
    BY <2>1, <2>2
<1> QED
  BY <1>1, <1>3, <1>4 DEF ServedInv

-----------------------------------------------------------------------------
(* The streams *)

(* What still waits has only come closer. *)
LEMMA PendingTaken ==
  ASSUME queue \in [Streams -> Seq(Operations)], NEW s \in Streams,
         queue[s] # <<>>, queue' = [queue EXCEPT ![s] = Tail(@)],
         NEW t \in Streams, NEW n \in Nat, n <= Len(queue'[t]),
         NEW m, m = (IF t = s THEN n + 1 ELSE n),
         NEW what, NEW p, Pending(t, m, what, p),
         ~ (t = s /\ queue[s][1].do = what /\ queue[s][1].part = p)
  PROVE  Pending(t, n, what, p)'
<1>1. \A j \in 1 .. Len(queue'[t]) : \A l :
        l = (IF t = s THEN j + 1 ELSE j) => queue'[t][j] = queue[t][l]
  BY Taken
<1>2. PICK k \in 1 .. m :
        queue[t][k].do = what /\ queue[t][k].part = p
  BY DEF Pending
<1>3. Len(queue'[t]) \in Nat
  BY Taken
<1>4. CASE t = s
  <2>1. k # 1
    BY <1>2, <1>4
  <2>2. k - 1 \in 1 .. n /\ queue'[t][k - 1] = queue[t][k]
    BY <1>1, <1>2, <1>3, <1>4, <2>1
  <2> QED
    BY <1>2, <2>2 DEF Pending
<1>5. CASE t # s
  <2>1. k \in 1 .. n /\ queue'[t][k] = queue[t][k]
    BY <1>1, <1>2, <1>3, <1>5
  <2> QED
    BY <1>2, <2>1 DEF Pending
<1> QED
  BY <1>4, <1>5

(* What a stream does, it does to the partition of its entry: rows are copied,
   results computed, outputs written as they should be, or temporaries freed. *)
LEMMA RunEffect ==
  ASSUME ShapeInv, ~Unserved, ServedInv, Representable(call),
         NEW s \in Streams, Run(s),
         NEW op, op = queue[s][1], NEW q, q = op.part
  PROVE  /\ q \in Parts /\ EntryInv(s, 1, q)
         /\ op.do \in {"copy_in", "infer", "copy_out", "staged", "free"}
         /\ \A p \in Parts : p # q => temp_in'[p] = temp_in[p] /\ temp_out'[p] = temp_out[p]
         /\ op.do = "copy_in" => temp_in'[q] = InputOf(q) /\ temp_out' = temp_out
         /\ op.do = "infer" => temp_in' = temp_in /\ (CopiesOut => temp_out'[q] = ResultOf(q))
         /\ op.do \in {"copy_out", "staged"} => temp_in' = temp_in /\ temp_out' = temp_out
         /\ output' = IF Writes(op) THEN CopyOut(q, ResultOf(q)) ELSE output
<1>1. /\ queue[s] # <<>> /\ queue' = [queue EXCEPT ![s] = Tail(@)]
      /\ Head(queue[s]) = op /\ 1 \in 1 .. Len(queue[s]) /\ op \in Operations
  BY Taken DEF Run, ServedInv
<1>2. /\ op.do \in {"copy_in", "infer", "copy_out", "staged", "free"}
      /\ q \in Parts /\ (op.do = "staged" => op.data = ResultOf(q))
  BY <1>1, OperationFields
<1>3. EntryInv(s, 1, q)
  BY <1>1, <1>2 DEF ServedInv, EntriesInv
<1>4. \A p \in Parts : p \in DOMAIN temp_in /\ p \in DOMAIN temp_out
  BY PartitionRows DEF ShapeInv
<1>5. \A what : ~Pending(s, 1 - 1, what, q)
  BY DEF Pending
<1>6. \/ /\ op.do = "copy_in"
         /\ temp_in' = [temp_in EXCEPT ![q] = CopyIn(q)]
         /\ UNCHANGED <<temp_out, output>>
      \/ /\ op.do = "infer"
         /\ RunKernel(q)
         /\ UNCHANGED temp_in
      \/ /\ op.do = "copy_out"
         /\ output' = CopyOut(q, temp_out[q])
         /\ UNCHANGED <<temp_in, temp_out>>
      \/ /\ op.do = "staged"
         /\ output' = CopyOut(q, op.data)
         /\ UNCHANGED <<temp_in, temp_out>>
      \/ /\ op.do = "free"
         /\ temp_in' = [temp_in EXCEPT ![q] = Freed]
         /\ temp_out' = [temp_out EXCEPT ![q] = Freed]
         /\ UNCHANGED output
  BY <1>1 DEF Run
<1>7. CASE op.do = "copy_in"
  <2>1. CopyIn(q) = InputOf(q)
    BY <1>1, <1>2, <1>3, <1>7, InputCopied DEF EntryInv, HasRoom, ShapeInv
  <2> QED
    BY <1>2, <1>3, <1>4, <1>6, <1>7, <2>1 DEF Writes
<1>8. CASE op.do = "infer"
  <2>1. CopiesIn => temp_in[q] = InputOf(q)
    BY <1>1, <1>3, <1>5, <1>8 DEF EntryInv
  <2>2. Results(q) = ResultOf(q)
    BY <1>2, <2>1, ResultsRight DEF ShapeInv
  <2>3. RunKernel(q) /\ temp_in' = temp_in
    BY <1>6, <1>8
  <2>4. CASE CopiesOut
    <3>1. /\ temp_out' = [temp_out EXCEPT ![q] =
               [k \in DOMAIN @ |-> IF k \in DOMAIN Results(q) THEN Results(q)[k] ELSE @[k]]]
          /\ output' = output
      BY <2>3, <2>4 DEF RunKernel
    <3>2. temp_out'[q] = [k \in DOMAIN ResultOf(q) |-> ResultOf(q)[k]]
      <4>1. DOMAIN temp_out[q] = DOMAIN ResultOf(q)
        BY <1>1, <1>3, <1>8, <2>4 DEF EntryInv, HasRoom
      <4> QED
        BY <1>2, <1>4, <2>2, <3>1, <4>1
    <3>3. temp_out'[q] = ResultOf(q)
      BY <3>2 DEF ResultOf
    <3>4. \A p \in Parts : p # q => temp_out'[p] = temp_out[p]
      BY <3>1, PartitionRows DEF ShapeInv
    <3> QED
      BY <1>2, <1>3, <1>8, <2>3, <2>4, <3>1, <3>3, <3>4 DEF Writes
  <2>5. CASE ~CopiesOut
    BY <1>2, <1>3, <1>8, <2>2, <2>3, <2>5 DEF RunKernel, Writes
  <2> QED
    BY <2>4, <2>5
<1>9. CASE op.do = "copy_out"
  <2>1. temp_out[q] = ResultOf(q)
    BY <1>1, <1>3, <1>5, <1>9 DEF EntryInv
  <2> QED
    BY <1>2, <1>3, <1>6, <1>9, <2>1 DEF Writes
<1>10. CASE op.do = "staged"
  BY <1>2, <1>3, <1>6, <1>10 DEF Writes
<1>11. CASE op.do = "free"
  BY <1>2, <1>3, <1>4, <1>6, <1>11 DEF Writes
<1> QED
  BY <1>2, <1>7, <1>8, <1>9, <1>10, <1>11

(* It writes the outputs of that partition and no other. *)
LEMMA RunWrites ==
  ASSUME ShapeInv, ~Unserved, ServedInv, Representable(call),
         NEW s \in Streams, Run(s),
         NEW op, op = queue[s][1], NEW q, q = op.part
  PROVE  /\ \A p \in Parts : p # q => \A k \in OutputsOf(p) : output'[k] = output[k]
         /\ Writes(op) => \A k \in OutputsOf(q) : output'[k] = k
         /\ ~Writes(op) => output' = output
         /\ \A k \in DOMAIN output : output'[k] # output[k] => Writes(op) /\ k \in OutputsOf(q)
<1>1. q \in Parts /\ output' = IF Writes(op) THEN CopyOut(q, ResultOf(q)) ELSE output
  BY RunEffect
<1>2. CASE Writes(op)
  <2>1. output' = [k \in DOMAIN output |-> IF k \in OutputsOf(q) THEN k ELSE output[k]]
    BY <1>1, <1>2, OutputCopied DEF ShapeInv
  <2>2. \A p \in Parts : OutputsOf(p) \subseteq DOMAIN output
    BY OutputsInside DEF ShapeInv
  <2>3. \A p \in Parts : p # q => OutputsOf(p) \cap OutputsOf(q) = {}
    BY <1>1, OutputsApart DEF ShapeInv
  <2> QED
    BY <1>1, <1>2, <2>1, <2>2, <2>3
<1>3. CASE ~Writes(op)
  BY <1>1, <1>3
<1> QED
  BY <1>2, <1>3

(* The entries of other partitions are not affected, and those of the same
   partition find what they were waiting for. *)
LEMMA EntriesTaken ==
  ASSUME ShapeInv, ~Unserved, ServedInv, Representable(call), NEW s \in Streams, Run(s)
  PROVE  EntriesInv'
<1> USE SameCall
<1> DEFINE op == queue[s][1]
           q  == op.part
<1>1. /\ queue \in [Streams -> Seq(Operations)]
      /\ queue[s] # <<>> /\ queue' = [queue EXCEPT ![s] = Tail(@)]
      /\ UNCHANGED <<call, pc, i, stream>>
  BY DEF Run, ServedInv
<1>2. /\ 1 \in 1 .. Len(queue[s])
      /\ \A t \in Streams : /\ Len(queue'[t]) \in Nat
                            /\ Len(queue[t]) = Len(queue'[t]) + (IF t = s THEN 1 ELSE 0)
      /\ \A t \in Streams : \A j \in 1 .. Len(queue'[t]) : \A m :
           m = (IF t = s THEN j + 1 ELSE j) =>
             m \in 1 .. Len(queue[t]) /\ queue'[t][j] = queue[t][m]
  BY <1>1, Taken
<1>3. /\ q \in Parts /\ EntryInv(s, 1, q)
      /\ op.do \in {"copy_in", "infer", "copy_out", "staged", "free"}
      /\ \A p \in Parts : p # q => temp_in'[p] = temp_in[p] /\ temp_out'[p] = temp_out[p]
      /\ op.do = "copy_in" => temp_in'[q] = InputOf(q) /\ temp_out' = temp_out
      /\ op.do = "infer" => temp_in' = temp_in /\ (CopiesOut => temp_out'[q] = ResultOf(q))
      /\ op.do \in {"copy_out", "staged"} => temp_in' = temp_in /\ temp_out' = temp_out
  BY RunEffect
<1>4. /\ \A p \in Parts : p # q => \A k \in OutputsOf(p) : output'[k] = output[k]
      /\ ~Writes(op) => output' = output
  BY RunWrites
<1> HIDE DEF op, q
<1>5. SUFFICES ASSUME NEW t \in Streams, NEW j \in 1 .. Len(queue'[t]), NEW p \in Parts,
                      queue'[t][j].part = p
               PROVE  EntryInv(t, j, p)'
  BY <1>1 DEF EntriesInv
<1> DEFINE m == IF t = s THEN j + 1 ELSE j
           do == queue[t][m].do
<1>6. /\ j \in Nat \ {0} /\ m \in 1 .. Len(queue[t]) /\ queue'[t][j] = queue[t][m]
      /\ m - 1 = (IF t = s THEN j - 1 + 1 ELSE j - 1) /\ j - 1 \in Nat /\ j - 1 <= Len(queue'[t])
  <2>1. m \in 1 .. Len(queue[t]) /\ queue'[t][j] = queue[t][m]
    BY <1>2
  <2>2. j \in Nat \ {0} /\ j - 1 \in Nat /\ j - 1 <= Len(queue'[t])
    BY <1>2
  <2>3. m - 1 = IF t = s THEN j - 1 + 1 ELSE j - 1
    BY <2>2
  <2> QED
    BY <2>1, <2>2, <2>3
<1>7. queue[t][m].part = p
  BY <1>5, <1>6
<1> HIDE DEF m
<1>8. EntryInv(t, m, p)
  BY <1>6, <1>7 DEF ServedInv, EntriesInv
<1>9. queue[t][m] \in Operations /\ do \in {"copy_in", "infer", "copy_out", "staged", "free"}
  <2>1. queue[t][m] \in Operations
    BY <1>1, <1>6
  <2> QED
    BY <2>1, OperationFields
<1>10. /\ \/ p < i'
          \/ p = i' /\ Working' /\ t = stream' /\ Stage(queue'[t][j].do) < Stage(pc')
          \/ p = i' /\ pc' = "refused" /\ queue'[t][j].do \in {"copy_in", "free"}
       /\ queue'[t][j].do = "staged" <=> call'.model.mem = "cpu"
       /\ queue'[t][j].do = "copy_in" => CopiesIn'
       /\ queue'[t][j].do \in {"copy_out", "staged"} => CopiesOut'
       /\ queue'[t][j].do = "copy_out" => call'.pinned
  BY <1>1, <1>6, <1>8 DEF EntryInv, Working
<1>11. \A what : Pending(t, m - 1, what, p) /\ ~ (p = q /\ op.do = what)
                   => Pending(t, j - 1, what, p)'
  BY <1>1, <1>6, PendingTaken DEF op, q
<1>12. p = q => /\ t = s
                /\ Stage(op.do) < Stage(do)
  <2>1. p = q => t = s /\ (1 < m => Stage(op.do) < Stage(do))
    BY <1>2, <1>6, <1>7 DEF ServedInv, OrderInv, op, q
  <2>2. t = s => 1 < m
    BY <1>6 DEF m
  <2> QED
    BY <2>1, <2>2
<1>13. p = q => op.do \in {"copy_in", "infer"} \/ do = "free"
  BY <1>3, <1>9, <1>12 DEF Stage
<1>14. do \in {"copy_in", "infer", "copy_out"} => HasRoom(p)'
  <2>1. do \in {"copy_in", "infer", "copy_out"} => HasRoom(p)
    BY <1>8 DEF EntryInv
  <2> QED
    BY <1>1, <1>3, <1>13, <2>1 DEF HasRoom
<1>15. do = "infer" /\ CopiesIn => temp_in'[p] = InputOf(p) \/ Pending(t, j - 1, "copy_in", p)'
  <2>1. do = "infer" /\ CopiesIn => temp_in[p] = InputOf(p) \/ Pending(t, m - 1, "copy_in", p)
    BY <1>8 DEF EntryInv
  <2> QED
    BY <1>3, <1>11, <1>13, <2>1
<1>16. do = "copy_out" => temp_out'[p] = ResultOf(p) \/ Pending(t, j - 1, "infer", p)'
  <2>1. do = "copy_out" => CopiesOut /\ (temp_out[p] = ResultOf(p) \/ Pending(t, m - 1, "infer", p))
    BY <1>8 DEF EntryInv
  <2> QED
    BY <1>3, <1>11, <1>13, <2>1
<1>17. Writes(queue[t][m]) => Untouched(p)'
  <2>1. Writes(queue[t][m]) => Untouched(p)
    BY <1>8 DEF EntryInv
  <2>2. do \in {"copy_out", "staged"} => CopiesOut
    BY <1>8 DEF EntryInv
  <2>3. p = q /\ Writes(queue[t][m]) => ~Writes(op)
    BY <1>3, <1>9, <1>12, <2>2 DEF Writes, Stage
  <2> QED
    BY <1>1, <1>4, <2>1, <2>3 DEF Untouched
<1> QED
  BY <1>1, <1>6, <1>10, <1>14, <1>15, <1>16, <1>17 DEF EntryInv, Writes

(* The rest keeps its order. *)
LEMMA OrderTaken ==
  ASSUME ServedInv, NEW s \in Streams, Run(s)
  PROVE  OrderInv' /\ queue' \in [Streams -> Seq(Operations)]
<1>1. /\ queue' \in [Streams -> Seq(Operations)]
      /\ \A t \in Streams : /\ Len(queue'[t]) \in Nat
                            /\ Len(queue[t]) = Len(queue'[t]) + (IF t = s THEN 1 ELSE 0)
      /\ \A t \in Streams : \A j \in 1 .. Len(queue'[t]) : \A m :
           m = (IF t = s THEN j + 1 ELSE j) =>
             m \in 1 .. Len(queue[t]) /\ queue'[t][j] = queue[t][m]
  BY Taken DEF Run, ServedInv
<1>2. SUFFICES ASSUME NEW t \in Streams, NEW u \in Streams,
                      NEW j \in 1 .. Len(queue'[t]), NEW k \in 1 .. Len(queue'[u]),
                      queue'[t][j].part = queue'[u][k].part
               PROVE  t = u /\ (j < k => Stage(queue'[t][j].do) < Stage(queue'[u][k].do))
  BY <1>1 DEF OrderInv, Stage
<1> DEFINE m == IF t = s THEN j + 1 ELSE j
           n == IF u = s THEN k + 1 ELSE k
<1>3. t = u /\ j < k => m < n
  BY <1>1
<1>4. /\ m = (IF t = s THEN j + 1 ELSE j)
      /\ n = (IF u = s THEN k + 1 ELSE k)
  OBVIOUS
<1> HIDE DEF m, n
<1>5. m \in 1 .. Len(queue[t]) /\ queue'[t][j] = queue[t][m]
  BY <1>1, <1>4
<1>6. n \in 1 .. Len(queue[u]) /\ queue'[u][k] = queue[u][n]
  BY <1>1, <1>4
<1>7. queue[t][m].part = queue[u][n].part
  BY <1>2, <1>5, <1>6
<1>8. /\ t = u
      /\ m < n => Stage(queue[t][m].do) < Stage(queue[u][n].do)
  BY <1>5, <1>6, <1>7 DEF ServedInv, OrderInv
<1> QED
  BY <1>3, <1>5, <1>6, <1>8

(* The outputs of a partition are there, or what writes them still waits. *)
LEMMA OutputTaken ==
  ASSUME ShapeInv, ~Unserved, ServedInv, Representable(call), NEW s \in Streams, Run(s)
  PROVE  OutputInv'
<1> DEFINE op == queue[s][1]
           q  == op.part
<1>1. /\ queue \in [Streams -> Seq(Operations)]
      /\ queue[s] # <<>> /\ queue' = [queue EXCEPT ![s] = Tail(@)]
      /\ UNCHANGED <<call, pc, i, stream>>
  BY DEF Run, ServedInv
<1>2. \A t \in Streams : /\ Len(queue'[t]) \in Nat
                         /\ Len(queue[t]) = Len(queue'[t]) + (IF t = s THEN 1 ELSE 0)
  BY <1>1, Taken
<1>3. \A t \in Streams : \A j \in 1 .. Len(queue'[t]) : \A m :
        m = (IF t = s THEN j + 1 ELSE j) =>
          m \in 1 .. Len(queue[t]) /\ queue'[t][j] = queue[t][m]
  BY <1>1, Taken
<1>4. /\ q \in Parts /\ EntryInv(s, 1, q)
      /\ op.do \in {"copy_in", "infer", "copy_out", "staged", "free"}
  BY RunEffect
<1>5. /\ \A p \in Parts : p # q => \A k \in OutputsOf(p) : output'[k] = output[k]
      /\ Writes(op) => \A k \in OutputsOf(q) : output'[k] = k
      /\ ~Writes(op) => output' = output
  BY RunWrites
<1>6. Writes(op) => q < i \/ (q = i /\ pc = "release")
  BY <1>4 DEF EntryInv, Writes, Working, Stage, ServedInv, HostInv, op
<1>7. SUFFICES ASSUME NEW p \in Parts
               PROVE  IF p < i \/ (p = i /\ pc = "release")
                      THEN \/ \A k \in OutputsOf(p) : output'[k] = k
                           \/ \E t \in Streams : \E j \in 1 .. Len(queue'[t]) :
                                queue'[t][j].part = p /\ Writes(queue'[t][j])
                      ELSE \A k \in OutputsOf(p) : output'[k] = Unwritten
  BY <1>1, SameCall DEF OutputInv, Writes, Untouched
<1>8. IF p < i \/ (p = i /\ pc = "release")
      THEN \/ \A k \in OutputsOf(p) : output[k] = k
           \/ \E t \in Streams : \E j \in 1 .. Len(queue[t]) :
                queue[t][j].part = p /\ Writes(queue[t][j])
      ELSE \A k \in OutputsOf(p) : output[k] = Unwritten
  BY DEF ServedInv, OutputInv, Untouched
<1>9. CASE p = q /\ Writes(op)
  BY <1>5, <1>6, <1>9
<1>10. CASE ~ (p = q /\ Writes(op))
  <2>1. \A k \in OutputsOf(p) : output'[k] = output[k]
    BY <1>5, <1>10
  <2>2. ASSUME NEW t \in Streams, NEW m \in 1 .. Len(queue[t]),
               queue[t][m].part = p, Writes(queue[t][m])
        PROVE  \E j \in 1 .. Len(queue'[t]) :
                 queue'[t][j].part = p /\ Writes(queue'[t][j])
    <3>1. ~ (t = s /\ m = 1)
      BY <1>10, <2>2 DEF op, q
    <3> DEFINE j == IF t = s THEN m - 1 ELSE m
    <3>2. j \in 1 .. Len(queue'[t]) /\ m = (IF t = s THEN j + 1 ELSE j)
      <4>1. /\ Len(queue'[t]) \in Nat
            /\ Len(queue[t]) = Len(queue'[t]) + (IF t = s THEN 1 ELSE 0)
        BY <1>2
      <4>2. CASE t = s
        BY <3>1, <4>1, <4>2
      <4>3. CASE t # s
        BY <4>1, <4>3
      <4> QED
        BY <4>2, <4>3
    <3> HIDE DEF j
    <3>3. queue'[t][j] = queue[t][m]
      BY <1>3, <3>2
    <3> QED
      BY <2>2, <3>2, <3>3
  <2> QED
    BY <1>8, <2>1, <2>2
<1> QED
  BY <1>9, <1>10

(* The host thread finds what it was waiting for. *)
LEMMA HostTaken ==
  ASSUME ShapeInv, ~Unserved, ServedInv, Representable(call), NEW s \in Streams, Run(s)
  PROVE  HostInv'
<1> USE SameCall
<1> DEFINE op == queue[s][1]
           q  == op.part
<1>1. /\ queue \in [Streams -> Seq(Operations)] /\ stream \in Streams
      /\ queue[s] # <<>> /\ queue' = [queue EXCEPT ![s] = Tail(@)]
      /\ UNCHANGED <<call, pc, i, stream>>
  BY DEF Run, ServedInv, ShapeInv
<1>2. /\ Len(queue'[stream]) \in Nat
      /\ Len(queue[stream]) = Len(queue'[stream]) + (IF stream = s THEN 1 ELSE 0)
  BY <1>1, Taken
<1>3. /\ q \in Parts /\ EntryInv(s, 1, q)
      /\ op.do \in {"copy_in", "infer", "copy_out", "staged", "free"}
      /\ \A p \in Parts : p # q => temp_in'[p] = temp_in[p] /\ temp_out'[p] = temp_out[p]
      /\ op.do = "copy_in" => temp_in'[q] = InputOf(q) /\ temp_out' = temp_out
      /\ op.do = "infer" => temp_in' = temp_in /\ (CopiesOut => temp_out'[q] = ResultOf(q))
      /\ op.do \in {"copy_out", "staged"} => temp_in' = temp_in /\ temp_out' = temp_out
  BY RunEffect
<1> HIDE DEF op, q
<1>4. ASSUME NEW p \in Parts, Working, p = i PROVE WorkInv(p)'
  <2>1. WorkInv(p)
    BY <1>4 DEF ServedInv, HostInv
  <2>2. p = q => Stage(op.do) < Stage(pc)
    BY <1>3, <1>4 DEF EntryInv, Working, ServedInv, HostInv, op
  <2>3. p = q => op.do # "free"
    BY <1>4, <2>2 DEF Working, Stage
  <2>4. HasRoom(p)'
    BY <1>1, <1>3, <2>1, <2>3 DEF WorkInv, HasRoom
  <2>5. \A what : Pending(stream, Len(queue[stream]), what, p) /\ ~ (p = q /\ op.do = what)
                    => Pending(stream, Len(queue[stream]), what, p)'
    <3>1. ASSUME NEW what, NEW t \in Streams, t = stream,
                 NEW m, m = Len(queue[t]), NEW n, n = Len(queue'[t]),
                 Pending(t, m, what, p), ~ (p = q /\ op.do = what)
          PROVE  Pending(t, n, what, p)'
      <4>1. n \in Nat /\ n <= Len(queue'[t]) /\ m = (IF t = s THEN n + 1 ELSE n)
        <5>1. CASE t = s
          BY <1>2, <3>1, <5>1
        <5>2. CASE t # s
          BY <1>2, <3>1, <5>2
        <5> QED
          BY <5>1, <5>2
      <4>2. ~ (t = s /\ queue[s][1].do = what /\ queue[s][1].part = p)
        BY <3>1 DEF op, q
      <4> QED
        BY <1>1, <3>1, <4>1, <4>2, PendingTaken
    <3>2. SUFFICES ASSUME NEW what, Pending(stream, Len(queue[stream]), what, p),
                          ~ (p = q /\ op.do = what)
                   PROVE  Pending(stream, Len(queue[stream]), what, p)'
      OBVIOUS
    <3>3. PICK t \in Streams : t = stream
      BY <1>1
    <3>4. PICK m, n : m = Len(queue[t]) /\ n = Len(queue'[t])
      OBVIOUS
    <3>5. Pending(t, m, what, p)
      BY <3>2, <3>3, <3>4 DEF Pending
    <3>6. Pending(t, n, what, p)'
      BY <3>1, <3>2, <3>3, <3>4, <3>5
    <3> QED
      BY <1>1, <3>3, <3>4, <3>6 DEF Pending
  <2>6. pc = "infer" /\ CopiesIn =>
          temp_in'[p] = InputOf(p) \/ Pending(stream, Len(queue[stream]), "copy_in", p)'
    <3>1. pc = "infer" /\ CopiesIn =>
            temp_in[p] = InputOf(p) \/ Pending(stream, Len(queue[stream]), "copy_in", p)
      BY <2>1 DEF WorkInv
    <3> QED
      BY <1>3, <2>3, <2>5, <3>1
  <2>7. pc = "copy_out" =>
          temp_out'[p] = ResultOf(p) \/ Pending(stream, Len(queue[stream]), "infer", p)'
    <3>1. pc = "copy_out" =>
            /\ CopiesOut
            /\ temp_out[p] = ResultOf(p) \/ Pending(stream, Len(queue[stream]), "infer", p)
      BY <2>1 DEF WorkInv, ServedInv, HostInv
    <3> QED
      BY <1>3, <2>3, <2>5, <3>1
  <2> QED
    BY <1>1, <2>4, <2>6, <2>7 DEF WorkInv
<1> QED
  BY <1>1, <1>4 DEF ServedInv, HostInv, Working

(* A stream runs its next entry. *)
LEMMA ServedRun ==
  ASSUME ShapeInv, ~Unserved, ServedInv, Representable(call), NEW s \in Streams, Run(s)
  PROVE  ServedInv'
<1>1. pc' = pc /\ call' = call
  BY DEF Run
<1>2. EntriesInv' /\ OrderInv' /\ OutputInv' /\ HostInv' /\ queue' \in [Streams -> Seq(Operations)]
  BY EntriesTaken, OrderTaken, OutputTaken, HostTaken
<1> QED
  BY <1>1, <1>2, SameCall DEF ServedInv

-----------------------------------------------------------------------------
(* The invariant *)

(* Nothing has been done when a call starts, and no partition is behind. *)
LEMMA RoutingInit ==
  ASSUME Init
  PROVE  RoutingInv
<1>1. ShapeInv
  BY DEF Init, ShapeInv
<1>2. CASE Unserved
  BY <1>1, <1>2 DEF Init, RoutingInv, IdleInv
<1>3. CASE ~Unserved
  <2>1. PartitionCount \in Nat
    BY <1>1, <1>3, PartitionLength DEF ShapeInv
  <2>2. /\ pc = "start" /\ ~Working /\ i = 0 /\ queue = [s \in Streams |-> <<>>]
        /\ \A k \in DOMAIN output : output[k] = Unwritten
    BY DEF Init, Working
  <2>3. queue \in [Streams -> Seq(Operations)]
    BY <2>2
  <2>4. EntriesInv /\ OrderInv
    BY <2>2 DEF EntriesInv, OrderInv
  <2>5. HostInv
    BY <2>1, <2>2 DEF HostInv
  <2>6. OutputInv
    <3>1. \A p \in Parts : Untouched(p)
      BY <1>1, <1>3, <2>2, OutputsInside DEF ShapeInv, Untouched
    <3>2. \A p \in Parts : ~ (p < i)
      BY <1>1, <1>3, <2>2, PartitionRows DEF ShapeInv
    <3> QED
      BY <2>2, <3>1, <3>2 DEF OutputInv
  <2> QED
    BY <1>1, <1>3, <2>2, <2>3, <2>4, <2>5, <2>6 DEF RoutingInv, ServedInv
<1> QED
  BY <1>2, <1>3

(* A call that is given no stream is refused, and nothing is left to do. *)
LEMMA IdleStep ==
  ASSUME ShapeInv, Unserved, IdleInv, Next
  PROVE  IdleInv'
<1>1. pc \in {"start", "refused"} /\ \A s \in Streams : queue[s] = <<>>
  BY DEF IdleInv
<1>2. CASE Start
  BY <1>2 DEF Start, Unserved, IdleInv
<1>3. CASE Over
  BY <1>3 DEF Over, vars, IdleInv
<1>4. CASE NextPartition \/ CopyInput \/ Refuse \/ Infer \/ CopyOutput \/ Release
  BY <1>1, <1>4 DEF NextPartition, CopyInput, Refuse, Infer, CopyOutput, Release
<1>5. CASE \E s \in Streams : Run(s)
  BY <1>1, <1>5 DEF Run
<1> QED
  BY <1>2, <1>3, <1>4, <1>5 DEF Next, Host

(* A step that changes nothing keeps what it had. *)
LEMMA StaysServed ==
  ASSUME ShapeInv, ~Unserved, ServedInv, UNCHANGED vars
  PROVE  ServedInv'
<1>1. UNCHANGED <<call, pc, i, stream, queue, temp_in, temp_out, output>>
  BY DEF vars
<1>2. EntriesInv' /\ OrderInv'
  BY <1>1, SameCall
     DEF ServedInv, EntriesInv, OrderInv, EntryInv, Stage, Working, HasRoom, Pending, Writes, Untouched
<1>3. HostInv'
  BY <1>1, SameCall DEF ServedInv, HostInv, WorkInv, Working, HasRoom, Pending
<1>4. OutputInv'
  BY <1>1, SameCall DEF ServedInv, OutputInv, Untouched, Writes
<1> QED
  BY <1>1, <1>2, <1>3, <1>4, SameCall DEF ServedInv

(* A call that is served stays so. *)
LEMMA ServedStep ==
  ASSUME ShapeInv, ~Unserved, ServedInv, Representable(call), Next
  PROVE  ServedInv'
<1>1. CASE Start
  BY <1>1, ServedStart
<1>2. CASE NextPartition
  BY <1>2, ServedNextPartition
<1>3. CASE CopyInput
  BY <1>3, ServedCopyInput
<1>4. CASE Refuse
  BY <1>4, ServedRefuse
<1>5. CASE Infer
  BY <1>5, ServedInfer
<1>6. CASE CopyOutput
  BY <1>6, ServedCopyOutput
<1>7. CASE Release
  BY <1>7, ServedRelease
<1>8. CASE \E s \in Streams : Run(s)
  BY <1>8, ServedRun
<1>9. CASE Over
  BY <1>9, StaysServed DEF Over
<1> QED
  BY <1>1, <1>2, <1>3, <1>4, <1>5, <1>6, <1>7, <1>8, <1>9 DEF Next, Host

(* The invariant is inductive. *)
LEMMA RoutingStep ==
  ASSUME RoutingInv, Representable(call), [Next]_vars
  PROVE  RoutingInv'
<1>1. ShapeInv /\ ShapeInv' /\ call' = call /\ Unserved' = Unserved
  BY ShapeKept, SameCall DEF RoutingInv
<1>2. CASE UNCHANGED vars
  BY <1>1, <1>2, StaysServed DEF RoutingInv, IdleInv, vars
<1>3. CASE Next /\ Unserved
  BY <1>1, <1>3, IdleStep DEF RoutingInv
<1>4. CASE Next /\ ~Unserved
  BY <1>1, <1>4, ServedStep DEF RoutingInv
<1> QED
  BY <1>2, <1>3, <1>4

-----------------------------------------------------------------------------
(* What predict promises *)

(* RoutingInv holds of every call whose sizes can be represented: each buffer
   holds what its partition's place in the host thread and in the streams says. *)
THEOREM RoutingInvariant == Spec /\ Representable(call) => []RoutingInv
<1>1. Init => RoutingInv
  BY RoutingInit
<1>2. RoutingInv /\ Representable(call) /\ [Next]_vars => (RoutingInv /\ Representable(call))'
  <2>1. RoutingInv /\ [Next]_vars => call' = call
    BY ShapeKept DEF RoutingInv
  <2> QED
    BY <2>1, RoutingStep DEF Representable
<1> QED
  BY <1>1, <1>2, PTL DEF Spec

(* When predict has returned and its streams are drained, every output holds
   the result of its own row. *)
THEOREM ResultsArrive == Spec /\ Representable(call) => []ResultsInPlace
<1>1. RoutingInv => ResultsInPlace
  <2> SUFFICES ASSUME RoutingInv, pc = "returned", Drained
               PROVE  \A k \in DOMAIN output : output[k] = k
    BY DEF ResultsInPlace, Complete
  <2>1. ShapeInv /\ ~Unserved /\ ServedInv
    BY DEF RoutingInv, IdleInv
  <2>2. i = PartitionCount /\ PartitionCount \in Nat
    BY <2>1, PartitionLength DEF ServedInv, HostInv, ShapeInv
  <2>3. ASSUME NEW p \in Parts PROVE \A k \in OutputsOf(p) : output[k] = k
    <3>1. p < i
      BY <2>2, <2>3 DEF Parts
    <3>2. \A s \in Streams : \A j \in 1 .. Len(queue[s]) : FALSE
      BY DEF Drained
    <3> QED
      BY <2>1, <3>1, <3>2 DEF ServedInv, OutputInv
  <2> QED
    BY <2>1, <2>3, OutputsCovered DEF ShapeInv
<1> QED
  BY <1>1, RoutingInvariant, PTL

(* An output in pageable host memory is complete when predict returns: nothing
   that still waits in a stream writes it. *)
THEOREM HostOutputReady == Spec /\ Representable(call) => []HostReady
<1>1. RoutingInv => HostReady
  <2> SUFFICES ASSUME RoutingInv, pc = "returned", call.output.mem = "cpu", ~call.pinned
               PROVE  \A k \in DOMAIN output : output[k] = k
    BY DEF HostReady, Complete
  <2>1. ShapeInv /\ ~Unserved /\ ServedInv
    BY DEF RoutingInv, IdleInv
  <2>2. i = PartitionCount /\ PartitionCount \in Nat
    BY <2>1, PartitionLength DEF ServedInv, HostInv, ShapeInv
  <2>3. ASSUME NEW p \in Parts, NEW s \in Streams, NEW j \in 1 .. Len(queue[s]),
               queue[s][j].part = p
        PROVE  ~Writes(queue[s][j])
    <3>1. EntryInv(s, j, p)
      BY <2>1, <2>3 DEF ServedInv, EntriesInv
    <3>2. call.model.mem \in {"cpu", "gpu"}
      BY <2>1, CallFields DEF ShapeInv, DeviceType
    <3> QED
      BY <3>1, <3>2 DEF EntryInv, Writes, CopiesOut
  <2>4. ASSUME NEW p \in Parts PROVE \A k \in OutputsOf(p) : output[k] = k
    <3>1. p < i
      BY <2>2, <2>4 DEF Parts
    <3> QED
      BY <2>1, <2>3, <3>1 DEF ServedInv, OutputInv
  <2> QED
    BY <2>1, <2>4, OutputsCovered DEF ShapeInv
<1> QED
  BY <1>1, RoutingInvariant, PTL

(* A call that is refused has written nothing, and nothing it has submitted
   will: it was refused at its first partition. *)
THEOREM RefusalWritesNothing == Spec /\ Representable(call) => []RefusedUntouched
<1>1. RoutingInv => RefusedUntouched
  <2> SUFFICES ASSUME RoutingInv, pc = "refused"
               PROVE  \A k \in DOMAIN output : output[k] = Unwritten
    BY DEF RefusedUntouched
  <2>1. CASE Unserved
    BY <2>1 DEF RoutingInv, IdleInv
  <2>2. CASE ~Unserved
    <3>1. ShapeInv /\ ServedInv /\ i = 0
      BY <2>2 DEF RoutingInv, ServedInv, HostInv
    <3>2. ASSUME NEW p \in Parts PROVE Untouched(p)
      <4>1. p \in Nat /\ ~ (p < i)
        BY <2>2, <3>1, <3>2, PartitionRows DEF ShapeInv
      <4> QED
        BY <3>1, <4>1 DEF ServedInv, OutputInv
    <3> QED
      BY <2>2, <3>1, <3>2, OutputsCovered DEF ShapeInv, Untouched
  <2> QED
    BY <2>1, <2>2
<1> QED
  BY <1>1, RoutingInvariant, PTL

(* What a stream is about to run finds the temporaries it uses: none has been
   freed before, however the streams and the host thread interleave. *)
THEOREM TemporariesLive == Spec /\ Representable(call) => []NoUseAfterFree
<1>1. RoutingInv => NoUseAfterFree
  <2> SUFFICES ASSUME RoutingInv, NEW s \in Streams, queue[s] # <<>>,
                      NEW op, op = Head(queue[s]), RowsIn(op.part) > 0
               PROVE  /\ op.do \in {"copy_in", "infer"} /\ CopiesIn => temp_in[op.part] # Freed
                      /\ op.do \in {"infer", "copy_out"} /\ CopiesOut => temp_out[op.part] # Freed
    BY DEF NoUseAfterFree
  <2>1. ShapeInv /\ ~Unserved /\ ServedInv
    BY DEF RoutingInv, IdleInv
  <2>2. 1 \in 1 .. Len(queue[s]) /\ op = queue[s][1] /\ op \in Operations
    BY <2>1 DEF ServedInv
  <2>3. op.part \in Parts /\ EntryInv(s, 1, op.part)
    BY <2>1, <2>2, OperationFields DEF ServedInv, EntriesInv
  <2>4. op.do \in {"copy_in", "infer", "copy_out"} => HasRoom(op.part)
    BY <2>2, <2>3 DEF EntryInv
  <2>5. \A n \in Nat \ {0} : 0 \in 0 .. (RowsIn(op.part) * n - 1)
    BY <2>1, <2>3, PartitionRows, ElementRange DEF ShapeInv
  <2>6. 0 \in DOMAIN InputOf(op.part) /\ 0 \in DOMAIN ResultOf(op.part)
    BY <2>1, <2>5, CallFields DEF ShapeInv, InputOf, ResultOf
  <2>7. DOMAIN Freed = {}
    BY DEF Freed
  <2> QED
    BY <2>4, <2>6, <2>7 DEF HasRoom
<1> QED
  BY <1>1, RoutingInvariant, PTL

(* An output changes at most once, from what it was before the call to its
   result: nothing is written twice, early or for another row. *)
THEOREM OutputsWrittenOnce == Spec /\ Representable(call) => WrittenOnce
<1>1. ASSUME RoutingInv, Representable(call), Next, NEW k \in DOMAIN output, output'[k] # output[k]
      PROVE  output[k] = Unwritten /\ output'[k] = k
  <2>1. CASE Unserved
    <3>1. IdleInv /\ IdleInv' /\ ShapeInv /\ ShapeInv' /\ call' = call
      BY <1>1, <2>1, IdleStep, ShapeKept DEF RoutingInv
    <3> QED
      BY <1>1, <3>1 DEF IdleInv, ShapeInv
  <2>2. CASE ~Unserved
    <3>1. ShapeInv /\ ServedInv
      BY <1>1, <2>2 DEF RoutingInv
    <3>2. CASE \E s \in Streams : Run(s)
      <4>1. PICK s \in Streams : Run(s)
        BY <3>2
      <4>2. PICK op, q : op = queue[s][1] /\ q = op.part
        OBVIOUS
      <4>3. Writes(op) /\ k \in OutputsOf(q) /\ output'[k] = k
        BY <1>1, <2>2, <3>1, <4>1, <4>2, RunWrites
      <4>4. q \in Parts /\ EntryInv(s, 1, q)
        BY <1>1, <2>2, <3>1, <4>1, <4>2, RunEffect
      <4> QED
        BY <4>2, <4>3, <4>4 DEF EntryInv, Untouched
    <3>3. CASE Infer \/ CopyOutput
      <4>1. i \in Parts /\ i \in Nat /\ pc \in {"infer", "copy_out"}
        BY <2>2, <3>1, <3>3, AtPartition DEF Infer, CopyOutput, Working
      <4>2. Untouched(i)
        BY <3>1, <4>1 DEF ServedInv, OutputInv
      <4>3. output' = CopyOut(i, ResultOf(i))
        <5>1. CASE Infer
          <6>1. call.model.mem # "gpu" /\ output' = CopyOut(i, Results(i)) /\ pc = "infer"
            BY <1>1, <5>1 DEF Infer, RunKernel
          <6>2. call.model.mem = "cpu"
            BY <3>1, <6>1, CallFields DEF ShapeInv, DeviceType
          <6> QED
            BY <1>1, <2>2, <3>1, <6>1, <6>2, HostComputes
        <5>2. CASE CopyOutput
          <6>1. queue[stream] = <<>> /\ output' = CopyOut(i, temp_out[i]) /\ pc = "copy_out"
            BY <1>1, <5>2 DEF CopyOutput
          <6>2. temp_out[i] = ResultOf(i)
            BY <4>1, <3>1, <6>1 DEF ServedInv, HostInv, Working, WorkInv, Pending
          <6> QED
            BY <6>1, <6>2
        <5> QED
          BY <3>3, <5>1, <5>2
      <4>4. output' = [e \in DOMAIN output |-> IF e \in OutputsOf(i) THEN e ELSE output[e]]
        BY <1>1, <2>2, <3>1, <4>1, <4>3, OutputCopied DEF ShapeInv
      <4> QED
        BY <1>1, <4>2, <4>4 DEF Untouched
    <3>4. CASE Start \/ NextPartition \/ CopyInput \/ Refuse \/ Release \/ Over
      BY <1>1, <3>4 DEF Start, NextPartition, CopyInput, Refuse, Release, Over, vars
    <3> QED
      BY <1>1, <3>2, <3>3, <3>4 DEF Next, Host
  <2> QED
    BY <2>1, <2>2
<1>2. RoutingInv /\ Representable(call) /\ [Next]_vars =>
        [\A k \in DOMAIN output : output'[k] # output[k] =>
           output[k] = Unwritten /\ output'[k] = k]_vars
  BY <1>1 DEF vars
<1>3. RoutingInv /\ Representable(call) /\ [Next]_vars => Representable(call)'
  BY ShapeKept DEF RoutingInv, Representable
<1> QED
  BY <1>2, <1>3, RoutingInvariant, PTL DEF Spec, WrittenOnce

=============================================================================

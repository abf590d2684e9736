-------------------------- MODULE ModelImportProofs --------------------------
(***************************************************************************)
(* What becomes of a model that is imported, for every model, layout,      *)
(* precision and width of the types:                                       *)
(*                                                                         *)
(*   - every numeric test of the forest decides as the test of the model   *)
(*     it was made from (ThresholdsAlwaysKept).  ComparisonKept is about   *)
(*     one threshold, any pair of floating-point types and any way the     *)
(*     conversion between them rounds; it is then carried through the      *)
(*     import;                                                             *)
(*   - an import throws for the reasons its messages give only             *)
(*     (RejectionsHaveCause);                                              *)
(*   - indexes are never wide for the sake of what they have to reach      *)
(*     (IndexesNeverWiden), and the forest reads back as the model as long *)
(*     as they reach every list of categories and every leaf vector        *)
(*     (NodesAlwaysIntact, IntactIfListsFit);                              *)
(*   - what is answered is what the Treelite model means, as long as its   *)
(*     trees are in turn and no margin is infinite (AnswersMeanTreelite).  *)
(*                                                                         *)
(* The arguments are inductive invariants over the nodes added so far:     *)
(* a node is made from the node of the model at its own place, with the    *)
(* types that were chosen before the first node.                           *)
(***************************************************************************)
EXTENDS ModelImport, IntegerLemmas, SequenceTheorems

-----------------------------------------------------------------------------
(* One threshold *)

(* Both types, uniformly. *)
LEMMA TypeOfForest ==
  ASSUME NEW double \in BOOLEAN
  PROVE  /\ Size(double) \in Nat \ {0, 1}
         /\ Value(double) \in [1 .. Size(double) -> Int]
         /\ Ascending(Value(double), Size(double))
  BY TypesAssumption DEF Size, Value

(* The order of positions is the order of values. *)
LEMMA PositionOrder ==
  ASSUME NEW n \in Nat, NEW T \in [1 .. n -> Int], Ascending(T, n),
         NEW i \in 1 .. n, NEW j \in 1 .. n
  PROVE  /\ i < j <=> T[i] < T[j]
         /\ i <= j <=> T[i] <= T[j]
<1>1. i < j => T[i] < T[j]
  BY DEF Ascending
<1>2. j < i => T[j] < T[i]
  BY DEF Ascending
<1>3. T[i] \in Int /\ T[j] \in Int
  OBVIOUS
<1> QED
  BY <1>1, <1>2, <1>3

(* A conversion is monotone: what lies on one side of a threshold lies on
   that side of the converted threshold, or on it. *)
LEMMA RoundedBetween ==
  ASSUME NEW double \in BOOLEAN, NEW x \in Int, NEW p \in Rounded(double, x),
         NEW v \in 1 .. Size(double)
  PROVE  /\ p \in 1 .. Size(double)
         /\ v < p => Value(double)[v] < x
         /\ v > p => x < Value(double)[v]
         /\ Value(double)[v] = x => v = p
<1> DEFINE n == Size(double)
           T == Value(double)
<1>1. /\ n \in Nat \ {0, 1}
      /\ T \in [1 .. n -> Int]
      /\ Ascending(T, n)
  BY TypeOfForest
<1>2. /\ p \in 1 .. n
      /\ p > 1 => T[p - 1] < x
      /\ p < n => x < T[p + 1]
      /\ T[v] = x => v = p
  BY DEF Rounded
<1> HIDE DEF n, T
<1>3. ASSUME v < p PROVE T[v] < x
  <2>1. p - 1 \in 1 .. n /\ v <= p - 1
    BY <1>1, <1>2, <1>3 DEF n
  <2>2. T[v] <= T[p - 1]
    BY <1>1, <2>1, PositionOrder DEF n
  <2>3. T[v] \in Int /\ T[p - 1] \in Int /\ T[p - 1] < x
    BY <1>1, <1>2, <1>3, <2>1 DEF n
  <2> QED
    BY <2>2, <2>3
<1>4. ASSUME v > p PROVE x < T[v]
  <2>1. p + 1 \in 1 .. n /\ p + 1 <= v
    BY <1>1, <1>2, <1>4 DEF n
  <2>2. T[p + 1] <= T[v]
    BY <1>1, <2>1, PositionOrder DEF n
  <2>3. T[v] \in Int /\ T[p + 1] \in Int /\ x < T[p + 1]
    BY <1>1, <1>2, <1>4, <2>1 DEF n
  <2> QED
    BY <2>2, <2>3
<1> QED
  BY <1>2, <1>3, <1>4 DEF n, T

(* The stored position against the converted one, without the types: m is
   whether the model admits v, p the conversion of x, s what is stored. *)
LEMMA StoredBeside ==
  ASSUME NEW n \in Nat \ {0, 1}, NEW T \in [1 .. n -> Int], Ascending(T, n),
         NEW x \in Int, NEW p \in 1 .. n, NEW v \in 1 .. n, NEW inclusive \in BOOLEAN,
         NEW narrowed \in 1 .. n,
         T[1] <= x, x <= T[n],
         v < p => T[v] < x,
         v > p => x < T[v],
         ~(inclusive /\ v = n /\ x = T[v]),
         narrowed = IF inclusive /\ T[p] > x THEN NextDown(p)
                    ELSE IF ~inclusive /\ T[p] < x THEN NextUp(p, n)
                    ELSE p
  PROVE  v < Raised(narrowed, n, inclusive) <=> IF inclusive THEN T[v] <= x ELSE T[v] < x
<1>1. T[v] \in Int /\ T[p] \in Int /\ T[1] \in Int /\ T[n] \in Int
  OBVIOUS
<1>2. CASE inclusive /\ T[p] > x
  <2>1. p # 1
    BY <1>1, <1>2
  <2>2. narrowed = p - 1
    BY <1>1, <1>2, <2>1 DEF NextDown
  <2>3. Raised(narrowed, n, inclusive) = p
    BY <1>2, <2>1, <2>2 DEF Raised, NextUp
  <2>4. v < p <=> T[v] <= x
    <3>1. v = p => x < T[v]
      BY <1>1, <1>2
    <3> QED
      BY <1>1, <3>1
  <2> QED
    BY <1>2, <2>3, <2>4
<1>3. CASE inclusive /\ T[p] <= x
  <2>1. narrowed = p
    BY <1>1, <1>3
  <2>2. CASE p = n
    BY <1>1, <1>3, <2>1, <2>2 DEF Raised, NextUp
  <2>3. CASE p # n
    <3>1. Raised(narrowed, n, inclusive) = p + 1
      BY <1>3, <2>1, <2>3 DEF Raised, NextUp
    <3>2. v < p + 1 <=> T[v] <= x
      BY <1>1, <1>3
    <3> QED
      BY <1>3, <3>1, <3>2
  <2> QED
    BY <2>2, <2>3
<1>4. CASE ~inclusive /\ T[p] < x
  BY <1>1, <1>4 DEF Raised, NextUp
<1>5. CASE ~inclusive /\ T[p] >= x
  BY <1>1, <1>5 DEF Raised
<1> QED
  BY <1>1, <1>2, <1>3, <1>4, <1>5

(* Whatever the types and the rounding, a node decides as the model does:
   the narrowing rounds away from the inputs the test admits (cast_threshold)
   before an inclusive threshold is moved up by one (add_node).  The input
   AtInfinity is the only exception. *)
THEOREM ComparisonKept ==
  ASSUME NEW double \in BOOLEAN, NEW inclusive \in BOOLEAN, NEW x \in Thresholds,
         NEW stored \in Stored(double, x, inclusive),
         NEW v \in 1 .. Size(double),
         ~AtInfinity(double, v, x, inclusive)
  PROVE  NodeTest(v, stored) <=> ModelTest(double, v, x, inclusive)
<1>1. PICK p \in Rounded(double, x) :
        stored = Raised(IF double THEN p ELSE Narrowed(p, x, inclusive), Size(double), inclusive)
  BY DEF Stored
<1>2. x \in Int
  BY TypesAssumption DEF Thresholds
<1>3. /\ p \in 1 .. Size(double)
      /\ v < p => Value(double)[v] < x
      /\ v > p => x < Value(double)[v]
  BY <1>2, RoundedBetween
<1>4. /\ Size(double) \in Nat \ {0, 1}
      /\ Value(double) \in [1 .. Size(double) -> Int]
      /\ Ascending(Value(double), Size(double))
  BY TypeOfForest
<1>5. ~(inclusive /\ v = Size(double) /\ x = Value(double)[v])
  BY DEF AtInfinity
<1>6. PICK narrowed \in 1 .. Size(double) :
        /\ stored = Raised(narrowed, Size(double), inclusive)
        /\ narrowed = IF inclusive /\ Value(double)[p] > x THEN NextDown(p)
                      ELSE IF ~inclusive /\ Value(double)[p] < x
                      THEN NextUp(p, Size(double))
                      ELSE p
  <2>1. CASE double
    <3>1. PICK q \in 1 .. Size(double) : Value(double)[q] = x
      BY <2>1 DEF Thresholds, Size, Value
    <3>2. q = p
      BY <1>2, <3>1, RoundedBetween
    <3>3. ~(Value(double)[p] > x) /\ ~(Value(double)[p] < x)
      BY <1>2, <3>1, <3>2
    <3> QED
      BY <1>1, <1>3, <2>1, <3>3
  <2>2. CASE ~double
    <3>1. Size(double) = FloatSize /\ Value(double) = Float
      BY <2>2 DEF Size, Value
    <3>2. Narrowed(p, x, inclusive) \in 1 .. Size(double)
      BY <1>3, <1>4, <3>1 DEF Narrowed, NextUp, NextDown
    <3> QED
      BY <1>1, <2>2, <3>1, <3>2 DEF Narrowed
  <2> QED
    BY <2>1, <2>2
<1>7. Value(double)[1] <= x /\ x <= Value(double)[Size(double)]
  <2>1. PICK q \in 1 .. DoubleSize : x = Double[q]
    BY DEF Thresholds
  <2>2. /\ DoubleSize \in Nat /\ 1 \in 1 .. DoubleSize /\ DoubleSize \in 1 .. DoubleSize
        /\ Double \in [1 .. DoubleSize -> Int] /\ Ascending(Double, DoubleSize)
    BY TypesAssumption
  <2>3. Double[1] <= Double[q]
    BY <2>2, PositionOrder
  <2>4. Double[q] <= Double[DoubleSize]
    BY <2>2, PositionOrder
  <2> QED
    BY <2>1, <2>3, <2>4, TypesAssumption DEF Size, Value
<1>8. v < Raised(narrowed, Size(double), inclusive)
        <=> IF inclusive THEN Value(double)[v] <= x ELSE Value(double)[v] < x
  BY <1>2, <1>3, <1>4, <1>5, <1>6, <1>7, StoredBeside
<1> QED
  BY <1>6, <1>8 DEF NodeTest, ModelTest

-----------------------------------------------------------------------------
(* The import *)

(* Every test that is stored came from its own test by Stored, and the types
   do not change once there is a node. *)
TestsStored ==
  \A i \in 1 .. Len(nodes) :
    LET n == model.nodes[i]
    IN  n.kind = "numeric" => nodes[i].value \in Stored(types.double, n.threshold, n.inclusive)

IInv ==
  /\ model.nodes \in Seq(TreeliteNodes)
  /\ layout \in Layouts
  /\ types.double \in BOOLEAN
  /\ \E S : nodes \in Seq(S)
  /\ Len(nodes) <= Len(model.nodes)
  /\ phase = "called" => nodes = <<>>
  /\ TestsStored

(* What is appended comes last, and nothing else changes. *)
LEMMA Appended ==
  ASSUME NEW S, NEW s \in Seq(S), NEW e
  PROVE  /\ Append(s, e) \in Seq(S \cup {e})
         /\ Len(s) \in Nat
         /\ Len(Append(s, e)) = Len(s) + 1
         /\ \A i \in 1 .. Len(s) : Append(s, e)[i] = s[i]
         /\ Append(s, e)[Len(s) + 1] = e
<1>1. s \in Seq(S \cup {e})
  BY SeqMonotonic
<1> QED
  BY <1>1, AppendProperties, LenProperties

(* The twelve alternatives are of one precision or the other. *)
LEMMA PrecisionOfTypes ==
  ASSUME layout \in Layouts, NEW d \in BOOLEAN, NEW l \in BOOLEAN
  PROVE  Alternative(VariantIndex(layout, d, l)).double \in BOOLEAN
<1>1. VariantIndex(layout, d, l) \in 0 .. 11
  BY DEF VariantIndex, LayoutValue, Bit, Layouts
<1>2. Len(SpecializationVariant) = 12
  BY DEF SpecializationVariant
<1>3. SpecializationVariant \in Seq([layout : Layouts, double : BOOLEAN, large : BOOLEAN])
  BY DEF SpecializationVariant, Specialization, Layouts
<1>4. ASSUME NEW i \in 1 .. 12 PROVE SpecializationVariant[i].double \in BOOLEAN
  <2>1. SpecializationVariant[i] \in [layout : Layouts, double : BOOLEAN, large : BOOLEAN]
    BY <1>2, <1>3, ElementOfSeq
  <2> QED
    BY <2>1
<1> QED
  BY <1>1, <1>4 DEF Alternative

(* A step that adds the node of the model that comes next keeps IInv, if the
   value of a numeric node is one Stored allows. *)
LEMMA NodeAdded ==
  ASSUME IInv, Building, phase' = phase,
         UNCHANGED <<arguments, types>>,
         NEW value, NEW index, NEW bits,
         AddNode(Current, value, index, bits),
         Current.kind = "numeric" =>
           value \in Stored(types.double, Current.threshold, Current.inclusive)
  PROVE  IInv'
<1>1. PICK S : nodes \in Seq(S)
  BY DEF IInv
<1> DEFINE node == StoredNode(Current, value, index, bits)
<1>2. nodes' = Append(nodes, node) /\ node.value = value
  BY DEF AddNode, StoredNode
<1>3. /\ nodes' \in Seq(S \cup {node})
      /\ Len(nodes) \in Nat
      /\ Len(nodes') = Len(nodes) + 1
      /\ \A i \in 1 .. Len(nodes) : nodes'[i] = nodes[i]
      /\ nodes'[Len(nodes) + 1] = node
  BY <1>1, <1>2, Appended
<1>4. /\ model' = model /\ layout' = layout /\ types' = types
      /\ phase' = "build" /\ Len(nodes) < Len(model.nodes)
  BY DEF arguments, Building
<1>5. Len(model.nodes) \in Nat
  BY LenProperties DEF IInv
<1>6. TestsStored'
  <2> SUFFICES ASSUME NEW i \in 1 .. Len(nodes'), model.nodes[i].kind = "numeric"
               PROVE  nodes'[i].value \in
                        Stored(types.double, model.nodes[i].threshold, model.nodes[i].inclusive)
    BY <1>4 DEF TestsStored
  <2>1. CASE i \in 1 .. Len(nodes)
    BY <2>1, <1>3 DEF IInv, TestsStored
  <2>2. CASE i = Len(nodes) + 1
    BY <2>2, <1>2, <1>3 DEF Current
  <2> QED
    BY <2>1, <2>2, <1>3
<1>7. \E R : nodes' \in Seq(R)
  BY <1>3
<1> QED
  BY <1>3, <1>4, <1>5, <1>6, <1>7 DEF IInv

(* The invariant holds of an import that begins. *)
LEMMA Initial == Init => IInv
<1> SUFFICES ASSUME Init PROVE IInv
  OBVIOUS
<1>1. model.nodes \in Seq(TreeliteNodes) /\ layout \in Layouts
  BY ImportsAssumption DEF Init, IsImportable
<1>2. nodes = <<>> /\ types.double = FALSE
  BY DEF Init, Specialization
<1>3. <<>> \in Seq({}) /\ Len(nodes) = 0 /\ Len(model.nodes) \in Nat
  BY <1>1, <1>2, EmptySeq, LenProperties
<1>4. TestsStored
  BY <1>3 DEF TestsStored
<1>5. \E S : nodes \in Seq(S)
  BY <1>2, <1>3
<1>6. Len(nodes) <= Len(model.nodes)
  BY <1>3
<1>7. types.double \in BOOLEAN
  BY <1>2
<1> QED
  BY <1>1, <1>2, <1>4, <1>5, <1>6, <1>7 DEF IInv

(* Every step of an import keeps it. *)
LEMMA Inductive == IInv /\ [Next]_vars => IInv'
<1> SUFFICES ASSUME IInv, [Next]_vars PROVE IInv'
  OBVIOUS
<1>1. ASSUME UNCHANGED <<model, layout, types, nodes>>, phase' # "called" \/ phase' = phase
      PROVE  IInv'
  BY <1>1 DEF IInv, TestsStored
<1>2. CASE Choose
  <2>1. nodes' = <<>> /\ Len(nodes') = 0
    BY <1>2, EmptySeq DEF Choose, IInv
  <2>2. DoublePrecision(model, precision) \in BOOLEAN
    BY DEF DoublePrecision, DoubleIndexesRequired
  <2>3. LargeTreesRequired(model.num_feature, MaxOffset(model)) \in BOOLEAN
    BY DEF LargeTreesRequired
  <2>4. types'.double \in BOOLEAN
    BY <1>2, <2>2, <2>3, PrecisionOfTypes DEF Choose, IInv
  <2>5. /\ model' = model /\ layout' = layout /\ nodes' = nodes /\ phase' = "build"
    BY <1>2 DEF Choose, arguments
  <2>6. TestsStored'
    BY <2>1 DEF TestsStored
  <2> QED
    BY <2>4, <2>5, <2>6 DEF IInv
<1>3. CASE AddLeaf
  <2>1. Current.kind # "numeric"
    BY <1>3 DEF AddLeaf
  <2>2. \E value, index, bits : AddNode(Current, value, index, bits)
    BY <1>3 DEF AddLeaf
  <2> QED
    BY <1>3, <2>1, <2>2, NodeAdded DEF AddLeaf
<1>4. CASE AddNumeric
  <2>1. PICK stored \in Stored(types.double, Current.threshold, Current.inclusive) :
          AddNode(Current, stored, 0, {})
    BY <1>4 DEF AddNumeric
  <2> QED
    BY <1>4, <2>1, NodeAdded DEF AddNumeric
<1>5. CASE AddCategorical
  <2>1. Current.kind # "numeric"
    BY <1>5 DEF AddCategorical
  <2>2. \E value, index, bits : AddNode(Current, value, index, bits)
    BY <1>5 DEF AddCategorical
  <2> QED
    BY <1>5, <2>1, <2>2, NodeAdded DEF AddCategorical
<1>6. CASE Reject
  BY <1>1, <1>6 DEF Reject, arguments, forest
<1>7. CASE RejectNode
  BY <1>1, <1>7 DEF RejectNode, arguments, forest
<1>8. CASE Finish
  BY <1>1, <1>8 DEF Finish, arguments, forest
<1>9. CASE RejectForest
  BY <1>1, <1>9 DEF RejectForest, arguments, forest
<1>10. CASE \E op \in RowOps : SetRow(op)
  BY <1>1, <1>10 DEF SetRow, arguments, forest
<1>11. CASE \E kind \in {"default", "per_tree", "leaf_id"}, row \in Rows : Predict(kind, row)
  BY <1>1, <1>11 DEF Predict, arguments, forest
<1>12. CASE Failed \/ UNCHANGED vars
  BY <1>1, <1>12 DEF Failed, vars, arguments, forest
<1> QED
  BY <1>2, <1>3, <1>4, <1>5, <1>6, <1>7, <1>8, <1>9, <1>10, <1>11, <1>12 DEF Next

(* The tests of the nodes decide as the tests of the model. *)
LEMMA StoredDecides == IInv => ThresholdsKept
<1> SUFFICES ASSUME IInv,
                    NEW i \in DOMAIN nodes, model.nodes[i].kind = "numeric",
                    NEW v \in 1 .. Size(types.double),
                    ~AtInfinity(types.double, v, model.nodes[i].threshold,
                                model.nodes[i].inclusive)
             PROVE  NodeTest(v, nodes[i].value)
                      <=> ModelTest(types.double, v, model.nodes[i].threshold,
                                    model.nodes[i].inclusive)
  BY DEF ThresholdsKept
<1>1. i \in 1 .. Len(nodes) /\ Len(nodes) \in Nat /\ Len(model.nodes) \in Nat
  BY LenProperties DEF IInv
<1>2. model.nodes[i] \in TreeliteNodes
  BY <1>1, ElementOfSeq DEF IInv
<1>3. model.nodes[i].threshold \in Thresholds /\ model.nodes[i].inclusive \in BOOLEAN
  BY <1>2 DEF TreeliteNodes
<1>4. nodes[i].value \in Stored(types.double, model.nodes[i].threshold, model.nodes[i].inclusive)
  BY <1>1 DEF IInv, TestsStored
<1> QED
  BY <1>3, <1>4, ComparisonKept DEF IInv

(* For every model, layout and pair of floating-point types, an input is sent
   by the forest where the model sends it. *)
THEOREM ThresholdsAlwaysKept == Spec => []ThresholdsKept
<1>1. Spec => []IInv
  BY Initial, Inductive, PTL DEF Spec
<1> QED
  BY <1>1, StoredDecides, PTL

-----------------------------------------------------------------------------
(* Powers of two and greatest members *)

Doubling(n, f) == f = [k \in 0 .. n |-> IF k = 0 THEN 1 ELSE 2 * f[k - 1]]

LEMMA DoublingExists ==
  ASSUME NEW num \in Nat
  PROVE  \E f : Doubling(num, f)
<1> DEFINE Fail == {n \in Nat : ~ \E f : Doubling(n, f)}
<1>1. SUFFICES ASSUME Fail # {} PROVE FALSE
  OBVIOUS
<1>2. PICK n \in Fail : \A m \in Fail : n <= m
  BY <1>1, LeastNat
<1>3. n \in Nat /\ ~ \E f : Doubling(n, f)
  BY <1>2
<1>4. PICK f : n > 0 => Doubling(n - 1, f)
  <2>1. CASE n > 0
    <3>1. n - 1 \in Nat /\ ~(n <= n - 1)
      BY <1>3, <2>1
    <3>2. n - 1 \notin Fail
      BY <1>2, <3>1
    <3> QED
      BY <3>1, <3>2
  <2> QED
    BY <2>1
<1> DEFINE Next0(k) == IF k = 0 THEN 1 ELSE 2 * f[k - 1]
           h == [k \in 0 .. n |-> Next0(k)]
<1>5. ASSUME NEW k \in 0 .. n, k # 0 PROVE k - 1 \in 0 .. n /\ h[k - 1] = f[k - 1]
  <2>1. n > 0 /\ k - 1 \in 0 .. (n - 1) /\ k - 1 \in 0 .. n
    BY <1>3, <1>5
  <2>2. f[k - 1] = Next0(k - 1)
    BY <1>4, <2>1 DEF Doubling
  <2> QED
    BY <2>1, <2>2
<1>6. \A k \in 0 .. n : h[k] = IF k = 0 THEN 1 ELSE 2 * h[k - 1]
  BY <1>5
<1>7. Doubling(n, h)
  BY <1>6 DEF Doubling
<1> QED
  BY <1>3, <1>7

(* Doubling more often does not change the first powers. *)
LEMMA DoublingUnique ==
  ASSUME NEW m \in Nat, NEW n \in Nat, NEW f, NEW g, Doubling(m, f), Doubling(n, g),
         NEW k \in Nat, k <= m, k <= n
  PROVE  f[k] = g[k]
<1> DEFINE Fail == {j \in Nat : j <= m /\ j <= n /\ f[j] # g[j]}
<1>1. SUFFICES ASSUME Fail # {} PROVE FALSE
  OBVIOUS
<1>2. PICK j \in Fail : \A i \in Fail : j <= i
  BY <1>1, LeastNat
<1>3. j \in 0 .. m /\ j \in 0 .. n /\ f[j] # g[j]
  BY <1>2
<1>4. f[j] = (IF j = 0 THEN 1 ELSE 2 * f[j - 1]) /\ g[j] = (IF j = 0 THEN 1 ELSE 2 * g[j - 1])
  BY <1>3 DEF Doubling
<1>5. j # 0
  BY <1>3, <1>4
<1>6. j - 1 \in Nat /\ j - 1 <= m /\ j - 1 <= n /\ ~(j <= j - 1)
  BY <1>3, <1>5
<1>7. j - 1 \notin Fail
  BY <1>2, <1>6
<1> QED
  BY <1>3, <1>4, <1>5, <1>6, <1>7

LEMMA TwoToFacts ==
  /\ TwoTo(0) = 1
  /\ \A n \in Nat : TwoTo(n + 1) = 2 * TwoTo(n)
<1> DEFINE power(n) == CHOOSE f : Doubling(n, f)
<1>1. \A n : TwoTo(n) = power(n)[n]
  BY DEF TwoTo, Doubling
<1>2. \A n \in Nat : Doubling(n, power(n))
  BY DoublingExists
<1> HIDE DEF power
<1>3. TwoTo(0) = 1
  <2>1. 0 \in Nat /\ 0 \in 0 .. 0
    OBVIOUS
  <2>2. power(0)[0] = 1
    BY <1>2, <2>1 DEF Doubling
  <2> QED
    BY <1>1, <2>2
<1>4. ASSUME NEW n \in Nat PROVE TwoTo(n + 1) = 2 * TwoTo(n)
  <2>1. n + 1 \in Nat /\ n + 1 \in 0 .. (n + 1) /\ n + 1 # 0 /\ (n + 1) - 1 = n /\ n <= n + 1
    OBVIOUS
  <2>2. Doubling(n + 1, power(n + 1)) /\ Doubling(n, power(n))
    BY <1>2, <2>1
  <2>3. power(n + 1)[n + 1] = 2 * power(n + 1)[n]
    BY <2>1, <2>2 DEF Doubling
  <2>4. power(n + 1)[n] = power(n)[n]
    BY <2>1, <2>2, DoublingUnique
  <2> QED
    BY <1>1, <2>3, <2>4
<1> QED
  BY <1>3, <1>4

LEMMA TwoToNat ==
  ASSUME NEW k \in Nat
  PROVE  TwoTo(k) \in Nat \ {0}
<1> DEFINE Fail == {n \in Nat : TwoTo(n) \notin Nat \ {0}}
<1>1. SUFFICES ASSUME Fail # {} PROVE FALSE
  OBVIOUS
<1>2. PICK n \in Fail : \A m \in Fail : n <= m
  BY <1>1, LeastNat
<1>3. n \in Nat /\ TwoTo(n) \notin Nat \ {0} /\ n # 0
  BY <1>2, TwoToFacts
<1>4. n - 1 \in Nat /\ ~(n <= n - 1) /\ (n - 1) + 1 = n
  BY <1>3
<1>5. TwoTo(n - 1) \in Nat \ {0}
  BY <1>2, <1>4
<1>6. TwoTo(n) = 2 * TwoTo(n - 1)
  BY <1>4, TwoToFacts
<1> QED
  BY <1>3, <1>5, <1>6

LEMMA TwoToSum ==
  ASSUME NEW a \in Nat, NEW b \in Nat
  PROVE  TwoTo(a + b) = TwoTo(a) * TwoTo(b)
<1> DEFINE Fail == {n \in Nat : TwoTo(a + n) # TwoTo(a) * TwoTo(n)}
<1>1. SUFFICES ASSUME Fail # {} PROVE FALSE
  OBVIOUS
<1>2. PICK n \in Fail : \A m \in Fail : n <= m
  BY <1>1, LeastNat
<1>3. n \in Nat /\ TwoTo(a + n) # TwoTo(a) * TwoTo(n) /\ TwoTo(a) \in Nat
  BY <1>2, TwoToNat
<1>4. n # 0
  <2>1. a + 0 = a /\ TwoTo(0) = 1
    BY TwoToFacts
  <2> QED
    BY <1>3, <2>1
<1>5. n - 1 \in Nat /\ ~(n <= n - 1) /\ (n - 1) + 1 = n /\ a + (n - 1) \in Nat /\ (a + (n - 1)) + 1 = a + n
  BY <1>3, <1>4
<1> DEFINE x == TwoTo(n - 1)
           p == TwoTo(a)
<1>6. TwoTo(a + (n - 1)) = p * x /\ x \in Nat /\ p \in Nat
  BY <1>2, <1>3, <1>5, TwoToNat
<1>7. TwoTo(n) = 2 * x /\ TwoTo(a + n) = 2 * (p * x)
  BY <1>5, <1>6, TwoToFacts
<1> HIDE DEF x
<1>8. 2 * (p * x) = p * (2 * x)
  BY <1>6
<1> QED
  BY <1>3, <1>7, <1>8

(* The greatest of naturals below a bound *)
LEMMA MaxFacts ==
  ASSUME NEW b \in Nat, NEW S, S \subseteq 0 .. b, S # {}
  PROVE  Max(S) \in S /\ Max(S) \in 0 .. b /\ \A y \in S : y <= Max(S)
<1> DEFINE T == {b - x : x \in S}
<1>1. T \subseteq Nat /\ T # {}
  OBVIOUS
<1>2. PICK t \in T : \A u \in T : t <= u
  BY <1>1, LeastNat
<1>3. PICK x \in S : t = b - x
  BY <1>2
<1>4. \A y \in S : x >= y
  BY <1>2, <1>3
<1>5. Max(S) \in S /\ \A y \in S : Max(S) >= y
  BY <1>3, <1>4 DEF Max
<1> QED
  BY <1>5

-----------------------------------------------------------------------------
(* Widths, and the choice of types *)

LEMMA WidthFacts ==
  /\ \A t : /\ IndexBits(t) \in Nat \ {0} /\ OffsetBits(t) \in Nat
            /\ MetadataBits(t) \in Nat /\ MetadataBits(t) - ReservedMetadataBits \in Nat
  /\ \A b \in Nat : TwoTo(b) \in Nat \ {0} /\ UnsignedMax(b) \in Nat /\ UnsignedMax(b) = TwoTo(b) - 1
<1>1. \A b \in Nat : TwoTo(b) \in Nat \ {0}
  BY TwoToNat
<1>2. \A b \in Nat : UnsignedMax(b) \in Nat /\ UnsignedMax(b) = TwoTo(b) - 1
  BY <1>1 DEF UnsignedMax
<1>3. ASSUME NEW t
      PROVE  /\ IndexBits(t) \in Nat \ {0} /\ OffsetBits(t) \in Nat
             /\ MetadataBits(t) \in Nat /\ MetadataBits(t) - ReservedMetadataBits \in Nat
  <2>1. CASE t.double /\ t.large
    BY <2>1, BitsAssumption DEF IndexBits, OffsetBits, MetadataBits
  <2>2. CASE t.double /\ ~t.large
    BY <2>2, BitsAssumption DEF IndexBits, OffsetBits, MetadataBits
  <2>3. CASE ~t.double /\ t.large
    BY <2>3, BitsAssumption DEF IndexBits, OffsetBits, MetadataBits
  <2>4. CASE ~t.double /\ ~t.large
    BY <2>4, BitsAssumption DEF IndexBits, OffsetBits, MetadataBits
  <2> QED
    BY <2>1, <2>2, <2>3, <2>4
<1> QED
  BY <1>1, <1>2, <1>3

(* A conversion to b bits: nothing grows, and what fits is kept. *)
LEMMA Wrapped ==
  ASSUME NEW n \in Nat, NEW b \in Nat
  PROVE  /\ n % TwoTo(b) \in Nat /\ n % TwoTo(b) <= n /\ n % TwoTo(b) <= UnsignedMax(b)
         /\ n <= UnsignedMax(b) => n % TwoTo(b) = n
<1>1. TwoTo(b) \in Nat \ {0} /\ UnsignedMax(b) = TwoTo(b) - 1
  BY WidthFacts
<1> DEFINE w == TwoTo(b)
<1> HIDE DEF w
<1>2. w \in Nat \ {0} /\ UnsignedMax(b) = w - 1
  BY <1>1 DEF w
<1>3. /\ n \div w \in Nat /\ n % w \in 0 .. (w - 1)
      /\ n = (n \div w) * w + (n % w) /\ (n < w => n % w = n)
  BY <1>2, DivMod
<1>4. (n \div w) * w \in Nat
  BY <1>2, <1>3, MulNat
<1> DEFINE r == n % w
           p == (n \div w) * w
<1> HIDE DEF r, p
<1>5. r \in 0 .. (w - 1) /\ n = p + r /\ p \in Nat /\ (n < w => r = n)
  BY <1>3, <1>4 DEF r, p
<1>6. r \in Nat /\ r <= n /\ r <= w - 1 /\ (n <= w - 1 => r = n)
  BY <1>2, <1>5
<1> QED
  BY <1>2, <1>6 DEF r, w

(* A number that a conversion changes lost the width, or more. *)
LEMMA WrappedOrKept ==
  ASSUME NEW n \in Nat, NEW b \in Nat
  PROVE  n % TwoTo(b) = n \/ (n % TwoTo(b)) + TwoTo(b) <= n
<1> DEFINE w == TwoTo(b)
<1>1. w \in Nat \ {0}
  BY WidthFacts
<1> HIDE DEF w
<1> DEFINE q == n \div w
           r == n % w
<1>2. q \in Nat /\ r \in 0 .. (w - 1) /\ n = q * w + r
  BY <1>1, DivMod
<1> HIDE DEF q, r
<1>3. q = 0 => n = r
  BY <1>1, <1>2
<1>4. q # 0 => w + r <= n
  <2>1. q # 0 => 1 * w <= q * w
    BY <1>1, <1>2, MulMono
  <2>2. q * w \in Nat /\ 1 * w = w
    BY <1>1, <1>2, MulNat
  <2> QED
    BY <1>1, <1>2, <2>1, <2>2
<1>5. n = r \/ r + w <= n
  BY <1>1, <1>2, <1>3, <1>4
<1> QED
  BY <1>5 DEF r, w

LEMMA ChosenAlternative ==
  ASSUME NEW lay \in Layouts, NEW d \in BOOLEAN, NEW l \in BOOLEAN
  PROVE  Alternative(VariantIndex(lay, d, l)) = Specialization(lay, d, l)
<1>1. /\ LayoutValue("depth_first") = 0 /\ LayoutValue("breadth_first") = 1
      /\ LayoutValue("layered_children_together") = 2 /\ Bit(TRUE) = 1 /\ Bit(FALSE) = 0
  BY DEF LayoutValue, Bit
<1>2. CASE lay = "depth_first" /\ d = FALSE /\ l = FALSE
  <2>0. LayoutValue(lay) = 0 /\ Bit(d) = 0 /\ Bit(l) = 0
    BY <1>1, <1>2, Zenon
  <2>1. VariantIndex(lay, d, l) = 0
    BY <2>0 DEF VariantIndex
  <2>2. Alternative(0) = Specialization("depth_first", FALSE, FALSE)
    BY DEF Alternative, SpecializationVariant
  <2> QED
    BY <1>2, <2>1, <2>2
<1>3. CASE lay = "depth_first" /\ d = FALSE /\ l = TRUE
  <2>0. LayoutValue(lay) = 0 /\ Bit(d) = 0 /\ Bit(l) = 1
    BY <1>1, <1>3, Zenon
  <2>1. VariantIndex(lay, d, l) = 1
    BY <2>0 DEF VariantIndex
  <2>2. Alternative(1) = Specialization("depth_first", FALSE, TRUE)
    BY DEF Alternative, SpecializationVariant
  <2> QED
    BY <1>3, <2>1, <2>2
<1>4. CASE lay = "depth_first" /\ d = TRUE /\ l = FALSE
  <2>0. LayoutValue(lay) = 0 /\ Bit(d) = 1 /\ Bit(l) = 0
    BY <1>1, <1>4, Zenon
  <2>1. VariantIndex(lay, d, l) = 2
    BY <2>0 DEF VariantIndex
  <2>2. Alternative(2) = Specialization("depth_first", TRUE, FALSE)
    BY DEF Alternative, SpecializationVariant
  <2> QED
    BY <1>4, <2>1, <2>2
<1>5. CASE lay = "depth_first" /\ d = TRUE /\ l = TRUE
  <2>0. LayoutValue(lay) = 0 /\ Bit(d) = 1 /\ Bit(l) = 1
    BY <1>1, <1>5, Zenon
  <2>1. VariantIndex(lay, d, l) = 3
    BY <2>0 DEF VariantIndex
  <2>2. Alternative(3) = Specialization("depth_first", TRUE, TRUE)
    BY DEF Alternative, SpecializationVariant
  <2> QED
    BY <1>5, <2>1, <2>2
<1>6. CASE lay = "breadth_first" /\ d = FALSE /\ l = FALSE
  <2>0. LayoutValue(lay) = 1 /\ Bit(d) = 0 /\ Bit(l) = 0
    BY <1>1, <1>6, Zenon
  <2>1. VariantIndex(lay, d, l) = 4
    BY <2>0 DEF VariantIndex
  <2>2. Alternative(4) = Specialization("breadth_first", FALSE, FALSE)
    BY DEF Alternative, SpecializationVariant
  <2> QED
    BY <1>6, <2>1, <2>2
<1>7. CASE lay = "breadth_first" /\ d = FALSE /\ l = TRUE
  <2>0. LayoutValue(lay) = 1 /\ Bit(d) = 0 /\ Bit(l) = 1
    BY <1>1, <1>7, Zenon
  <2>1. VariantIndex(lay, d, l) = 5
    BY <2>0 DEF VariantIndex
  <2>2. Alternative(5) = Specialization("breadth_first", FALSE, TRUE)
    BY DEF Alternative, SpecializationVariant
  <2> QED
    BY <1>7, <2>1, <2>2
<1>8. CASE lay = "breadth_first" /\ d = TRUE /\ l = FALSE
  <2>0. LayoutValue(lay) = 1 /\ Bit(d) = 1 /\ Bit(l) = 0
    BY <1>1, <1>8, Zenon
  <2>1. VariantIndex(lay, d, l) = 6
    BY <2>0 DEF VariantIndex
  <2>2. Alternative(6) = Specialization("breadth_first", TRUE, FALSE)
    BY DEF Alternative, SpecializationVariant
  <2> QED
    BY <1>8, <2>1, <2>2
<1>9. CASE lay = "breadth_first" /\ d = TRUE /\ l = TRUE
  <2>0. LayoutValue(lay) = 1 /\ Bit(d) = 1 /\ Bit(l) = 1
    BY <1>1, <1>9, Zenon
  <2>1. VariantIndex(lay, d, l) = 7
    BY <2>0 DEF VariantIndex
  <2>2. Alternative(7) = Specialization("breadth_first", TRUE, TRUE)
    BY DEF Alternative, SpecializationVariant
  <2> QED
    BY <1>9, <2>1, <2>2
<1>10. CASE lay = "layered_children_together" /\ d = FALSE /\ l = FALSE
  <2>0. LayoutValue(lay) = 2 /\ Bit(d) = 0 /\ Bit(l) = 0
    BY <1>1, <1>10, Zenon
  <2>1. VariantIndex(lay, d, l) = 8
    BY <2>0 DEF VariantIndex
  <2>2. Alternative(8) = Specialization("layered_children_together", FALSE, FALSE)
    BY DEF Alternative, SpecializationVariant
  <2> QED
    BY <1>10, <2>1, <2>2
<1>11. CASE lay = "layered_children_together" /\ d = FALSE /\ l = TRUE
  <2>0. LayoutValue(lay) = 2 /\ Bit(d) = 0 /\ Bit(l) = 1
    BY <1>1, <1>11, Zenon
  <2>1. VariantIndex(lay, d, l) = 9
    BY <2>0 DEF VariantIndex
  <2>2. Alternative(9) = Specialization("layered_children_together", FALSE, TRUE)
    BY DEF Alternative, SpecializationVariant
  <2> QED
    BY <1>11, <2>1, <2>2
<1>12. CASE lay = "layered_children_together" /\ d = TRUE /\ l = FALSE
  <2>0. LayoutValue(lay) = 2 /\ Bit(d) = 1 /\ Bit(l) = 0
    BY <1>1, <1>12, Zenon
  <2>1. VariantIndex(lay, d, l) = 10
    BY <2>0 DEF VariantIndex
  <2>2. Alternative(10) = Specialization("layered_children_together", TRUE, FALSE)
    BY DEF Alternative, SpecializationVariant
  <2> QED
    BY <1>12, <2>1, <2>2
<1>13. CASE lay = "layered_children_together" /\ d = TRUE /\ l = TRUE
  <2>0. LayoutValue(lay) = 2 /\ Bit(d) = 1 /\ Bit(l) = 1
    BY <1>1, <1>13, Zenon
  <2>1. VariantIndex(lay, d, l) = 11
    BY <2>0 DEF VariantIndex
  <2>2. Alternative(11) = Specialization("layered_children_together", TRUE, TRUE)
    BY DEF Alternative, SpecializationVariant
  <2> QED
    BY <1>13, <2>1, <2>2
<1> QED
  BY <1>2, <1>3, <1>4, <1>5, <1>6, <1>7, <1>8, <1>9, <1>10, <1>11, <1>12, <1>13 DEF Layouts

(* max >> reserved_node_metadata_bits is the mask of the narrow feature. *)
LEMMA FeatureLimit ==
  UnsignedMax(SmallMetadataBits) \div TwoTo(ReservedMetadataBits)
    = UnsignedMax(SmallMetadataBits - ReservedMetadataBits)
<1> DEFINE a == TwoTo(SmallMetadataBits - ReservedMetadataBits)
           r == TwoTo(ReservedMetadataBits)
<1>1. /\ ReservedMetadataBits \in Nat /\ SmallMetadataBits - ReservedMetadataBits \in Nat
      /\ (SmallMetadataBits - ReservedMetadataBits) + ReservedMetadataBits = SmallMetadataBits
  BY BitsAssumption
<1>2. TwoTo(SmallMetadataBits) = a * r /\ a \in Nat \ {0} /\ r \in Nat \ {0}
  BY <1>1, TwoToSum, TwoToNat
<1>3. UnsignedMax(SmallMetadataBits - ReservedMetadataBits) = a - 1
      /\ UnsignedMax(SmallMetadataBits) = a * r - 1
  BY <1>2 DEF UnsignedMax
<1> HIDE DEF a, r
<1>4. a - 1 \in Nat /\ r - 1 \in 0 .. (r - 1) /\ a * r - 1 = (a - 1) * r + (r - 1)
  BY <1>2
<1>5. ((a - 1) * r + (r - 1)) \div r = a - 1
  BY <1>2, <1>4, DivUnique
<1> QED
  BY <1>3, <1>4, <1>5 DEF r

-----------------------------------------------------------------------------
(* Models *)

LEMMA ModelNodes ==
  ASSUME NEW m, IsImportable(m)
  PROVE  /\ Len(m.nodes) \in Nat /\ DOMAIN m.nodes = 1 .. Len(m.nodes)
         /\ \A i \in 1 .. Len(m.nodes) : m.nodes[i] \in TreeliteNodes
<1>1. m.nodes \in Seq(TreeliteNodes)
  BY DEF IsImportable
<1>2. Len(m.nodes) \in Nat /\ DOMAIN m.nodes = 1 .. Len(m.nodes)
  BY <1>1, LenProperties
<1> QED
  BY <1>1, <1>2, ElementOfSeq

LEMMA NodeFields ==
  ASSUME NEW n \in TreeliteNodes
  PROVE  /\ n.kind \in {"leaf", "numeric", "categorical"}
         /\ n.offset \in 0 .. UnsignedMax(LargeOffsetBits)
         /\ n.feature \in 0 .. UnsignedMax(LargeMetadataBits)
         /\ n.categories \subseteq 0 .. UnsignedMax(SmallIndexBits)
         /\ n.output \in Seq(Int) /\ Len(n.output) \in Nat /\ DOMAIN n.output = 1 .. Len(n.output)
         /\ \A o \in 1 .. Len(n.output) : n.output[o] \in Int
<1>1. /\ n.kind \in {"leaf", "numeric", "categorical"}
      /\ n.offset \in 0 .. UnsignedMax(LargeOffsetBits)
      /\ n.feature \in 0 .. UnsignedMax(LargeMetadataBits)
      /\ n.categories \subseteq 0 .. UnsignedMax(SmallIndexBits)
      /\ n.output \in Seq(Int)
  BY DEF TreeliteNodes
<1>2. Len(n.output) \in Nat /\ DOMAIN n.output = 1 .. Len(n.output)
  BY <1>1, LenProperties
<1>3. \A o \in 1 .. Len(n.output) : n.output[o] \in Int
  BY <1>1, ElementOfSeq
<1> QED
  BY <1>1, <1>2, <1>3

LEMMA OffsetBelowMax ==
  ASSUME NEW m, IsImportable(m), NEW i \in 1 .. Len(m.nodes)
  PROVE  MaxOffset(m) \in Nat /\ m.nodes[i].offset <= MaxOffset(m)
<1> DEFINE S == {m.nodes[j].offset : j \in DOMAIN m.nodes}
           b == UnsignedMax(LargeOffsetBits)
<1>1. DOMAIN m.nodes = 1 .. Len(m.nodes) /\ \A j \in 1 .. Len(m.nodes) : m.nodes[j].offset \in 0 .. b
  BY ModelNodes, NodeFields
<1>2. S \subseteq 0 .. b /\ m.nodes[i].offset \in S
  BY <1>1
<1>3. b \in Nat
  BY BitsAssumption, WidthFacts
<1> HIDE DEF S, b
<1>4. Max(S) \in 0 .. b /\ \A y \in S : y <= Max(S)
  BY <1>2, <1>3, MaxFacts
<1> QED
  BY <1>2, <1>3, <1>4 DEF MaxOffset, S

LEMMA CategoriesBelowMax ==
  ASSUME NEW m, IsImportable(m)
  PROVE  /\ MaxNumCategories(m) \in Nat
         /\ \A i \in 1 .. Len(m.nodes) : IsCategorical(m.nodes[i]) =>
              \A c \in m.nodes[i].categories : AsCount(c + 1) <= MaxNumCategories(m)
<1> DEFINE all == UNION {{AsCount(c + 1) : c \in m.nodes[i].categories} :
                           i \in {j \in DOMAIN m.nodes : IsCategorical(m.nodes[j])}}
           S == {0} \cup all
           b == UnsignedMax(SmallIndexBits)
<1>1. SmallIndexBits \in Nat /\ b \in Nat
  BY BitsAssumption, WidthFacts
<1>2. /\ DOMAIN m.nodes = 1 .. Len(m.nodes)
      /\ \A j \in 1 .. Len(m.nodes) : m.nodes[j].categories \subseteq 0 .. b
  BY ModelNodes, NodeFields
<1>3. ASSUME NEW c \in 0 .. b PROVE AsCount(c + 1) \in 0 .. b
  <2>1. c + 1 \in Nat
    BY <1>1
  <2>2. AsCount(c + 1) \in Nat /\ AsCount(c + 1) <= b
    BY <1>1, <2>1, Wrapped DEF AsCount
  <2> QED
    BY <1>1, <2>2
<1> HIDE DEF b
<1>4. all \subseteq 0 .. b
  BY <1>2, <1>3
<1>5. ASSUME NEW i \in 1 .. Len(m.nodes), IsCategorical(m.nodes[i]), NEW c \in m.nodes[i].categories
      PROVE  AsCount(c + 1) \in all
  BY <1>2, <1>5
<1> HIDE DEF all
<1>6. S \subseteq 0 .. b /\ S # {}
  BY <1>1, <1>4
<1>7. Max(S) \in 0 .. b /\ \A y \in S : y <= Max(S)
  BY <1>1, <1>6, MaxFacts
<1>8. MaxNumCategories(m) = Max(S)
  BY DEF MaxNumCategories, all
<1>9. \A y \in all : y \in S
  OBVIOUS
<1> HIDE DEF S
<1>10. MaxNumCategories(m) \in Nat
  BY <1>1, <1>7, <1>8
<1>11. \A y \in all : y <= MaxNumCategories(m)
  BY <1>7, <1>8, <1>9
<1> QED
  BY <1>5, <1>10, <1>11

LEMMA CountFacts ==
  ASSUME NEW n \in TreeliteNodes
  PROVE  /\ Count(n) \in Nat \ {0} /\ Count(n) - 1 \in {0} \cup n.categories
         /\ \A c \in n.categories : c \in 0 .. (Count(n) - 1)
         /\ Count(n) - 1 = Max({0} \cup n.categories)
<1> DEFINE S == {0} \cup n.categories
           b == UnsignedMax(SmallIndexBits)
<1>1. b \in Nat
  BY BitsAssumption, WidthFacts
<1>2. n.categories \subseteq 0 .. b
  BY NodeFields
<1> HIDE DEF b
<1>3. S \subseteq 0 .. b /\ S # {}
  BY <1>1, <1>2
<1>4. Max(S) \in S /\ Max(S) \in 0 .. b /\ \A y \in S : y <= Max(S)
  BY <1>1, <1>3, MaxFacts
<1>5. Count(n) = 1 + Max(S)
  BY DEF Count
<1> HIDE DEF S
<1>6. Count(n) - 1 = Max(S) /\ Max(S) \in Nat
  BY <1>1, <1>4, <1>5
<1>7. \A c \in n.categories : c \in S /\ c \in Nat
  BY <1>1, <1>2 DEF S
<1>8. Count(n) \in Nat \ {0}
  BY <1>5, <1>6
<1>9. \A c \in n.categories : c \in 0 .. (Count(n) - 1)
  BY <1>4, <1>6, <1>7
<1>10. Count(n) - 1 \in S
  BY <1>4, <1>6
<1> QED
  BY <1>6, <1>8, <1>9, <1>10 DEF S

LEMMA BinsFacts ==
  ASSUME NEW count \in Nat
  PROVE  /\ Bins(count) \in Nat /\ (count = 0 => Bins(count) = 0) /\ Bins(count) <= count
         /\ \A c \in 0 .. (count - 1) : c \div IndexBits(types) \in 0 .. (Bins(count) - 1)
         /\ \A more \in Nat : count <= more => Bins(count) <= Bins(more)
<1> DEFINE w == IndexBits(types)
<1>1. w \in Nat \ {0}
  BY WidthFacts
<1> HIDE DEF w
<1>2. \A k \in Nat : Bins(k) = k \div w + (IF k % w # 0 THEN 1 ELSE 0)
  BY DEF Bins, CeilDivide, w
<1>3. \A k \in Nat : Bins(k) \in Nat /\ k <= Bins(k) * w /\ (k > 0 => Bins(k) > 0)
  BY <1>1, <1>2, RoundedUp
<1>4. ASSUME NEW c \in 0 .. (count - 1)
      PROVE  c \div w \in 0 .. (Bins(count) - 1)
  <2>1. c \in Nat /\ c < Bins(count) * w
    BY <1>1, <1>3, MulNat
  <2>2. c \div w \in Nat /\ c \div w < Bins(count)
    BY <1>1, <1>3, <2>1, QuotientBelow, DivMod
  <2> QED
    BY <1>3, <2>2
<1>5. count = 0 => Bins(count) = 0
  <2>1. 0 \div w = 0 /\ 0 % w = 0
    BY <1>1
  <2> QED
    BY <1>2, <2>1
<1>6. ASSUME NEW more \in Nat, count <= more PROVE Bins(count) <= Bins(more)
  <2>1. CASE count = 0
    BY <1>3, <1>5, <2>1
  <2>2. CASE count # 0
    <3> DEFINE x == count - 1
    <3>a. x \in Nat
      BY <2>2
    <3> HIDE DEF x
    <3> DEFINE q == x \div w
               r == x % w
    <3>b. q \in Nat /\ r \in 0 .. (w - 1) /\ x = q * w + r
      BY <1>1, <3>a, DivMod
    <3> HIDE DEF q, r
    <3>1. count - 1 \in Nat /\ q \in Nat /\ r \in 0 .. (w - 1) /\ count - 1 = q * w + r
      BY <3>a, <3>b DEF x
    <3>2. Bins(count) = q + 1
      <4>1. CASE r = w - 1
        <5>1. q + 1 \in Nat /\ 0 \in 0 .. (w - 1) /\ count = (q + 1) * w + 0
          BY <1>1, <3>1, <4>1
        <5>2. ((q + 1) * w + 0) \div w = q + 1 /\ ((q + 1) * w + 0) % w = 0
          BY <1>1, <5>1, DivUnique
        <5> QED
          BY <1>2, <5>1, <5>2
      <4>2. CASE r # w - 1
        <5>1. r + 1 \in 0 .. (w - 1) /\ r + 1 # 0 /\ count = q * w + (r + 1)
          BY <1>1, <3>1, <4>2
        <5>2. (q * w + (r + 1)) \div w = q /\ (q * w + (r + 1)) % w = r + 1
          BY <1>1, <3>1, <5>1, DivUnique
        <5> QED
          BY <1>2, <5>1, <5>2
      <4> QED
        BY <4>1, <4>2
    <3>3. q * w \in Nat /\ q * w < Bins(more) * w
      BY <1>1, <1>3, <1>6, <2>2, <3>1, MulNat
    <3>4. ~(Bins(more) <= q)
      <4>1. Bins(more) <= q => Bins(more) * w <= q * w
        BY <1>1, <1>3, <3>1, MulMono
      <4> QED
        BY <1>1, <1>3, <3>1, <3>3, <4>1, MulNat
    <3> QED
      BY <1>3, <3>1, <3>2, <3>4
  <2> QED
    BY <2>1, <2>2
<1>7. Bins(count) <= count
  <2>1. CASE count = 0
    BY <1>5, <2>1
  <2>2. CASE count # 0
    <3> DEFINE n == Bins(count)
    <3>1. n \in Nat /\ n > 0
      BY <1>3, <2>2
    <3>2. \A k \in Nat : k < n => k * w < count
      BY <1>1, <1>2, RoundedUp
    <3> HIDE DEF n
    <3>3. (n - 1) * w < count /\ n - 1 \in Nat
      BY <3>1, <3>2
    <3>4. 1 * (n - 1) <= w * (n - 1) /\ w * (n - 1) = (n - 1) * w /\ (n - 1) * w \in Nat
      BY <1>1, <3>3, MulMono, MulNat
    <3> QED
      BY <3>1, <3>3, <3>4 DEF n
  <2> QED
    BY <2>1, <2>2
<1> QED
  BY <1>3, <1>4, <1>5, <1>6, <1>7 DEF w

StorageBin == [count : Nat, bits : SUBSET Nat]

(* A bin that no bit was set in is its count, one without a count its bits. *)
LEMMA NumberFacts ==
  ASSUME NEW bin \in StorageBin
  PROVE  /\ bin.bits = {} => NumberIn(bin) = bin.count
         /\ bin.bits # {} \/ bin.count = 0 => NumberIn(bin) \in 0 .. UnsignedMax(IndexBits(types))
         /\ bin.count = 0 => BitsIn(bin) = bin.bits
<1> DEFINE w == IndexBits(types)
           most == UnsignedMax(w)
<1>1. w \in Nat /\ most \in Nat
  BY WidthFacts
<1>2. DigitsOf(0) = {}
  <2> SUFFICES ASSUME NEW b \in 0 .. (w - 1) PROVE (0 \div TwoTo(b)) % 2 # 1
    BY DEF DigitsOf
  <2> DEFINE z == 0 \div TwoTo(b)
  <2>1. TwoTo(b) \in Nat \ {0}
    BY <1>1, WidthFacts
  <2> DEFINE v == TwoTo(b)
  <2> HIDE DEF v
  <2>2. 0 \in 0 .. (v - 1) /\ 0 * v + 0 = 0 /\ (0 * v + 0) \div v = 0
    BY <2>1, DivUnique DEF v
  <2>3. z = 0
    BY <2>2 DEF v
  <2> HIDE DEF z
  <2>4. z % 2 = 0
    BY <2>3
  <2> QED
    BY <2>4 DEF z
<1>3. bin.count = 0 => BitsIn(bin) = bin.bits
  BY <1>2 DEF BitsIn
<1> HIDE DEF w, most
<1>4. ASSUME bin.bits # {} PROVE NumberIn(bin) \in 0 .. most
  <2> DEFINE S == {x \in 0 .. most : DigitsOf(x) \subseteq BitsIn(bin)}
  <2>1. S \subseteq 0 .. most /\ 0 \in S
    BY <1>1, <1>2
  <2>2. NumberIn(bin) = Max(S)
    BY <1>4 DEF NumberIn, most, w
  <2> HIDE DEF S
  <2> QED
    BY <1>1, <2>1, <2>2, MaxFacts
<1>5. bin.bits = {} => NumberIn(bin) = bin.count
  BY DEF NumberIn
<1> QED
  BY <1>1, <1>3, <1>4, <1>5 DEF most, w

-----------------------------------------------------------------------------
(* What is stored of a node, and where its categories are *)

Chosen ==
  Specialization(layout, DoublePrecision(model, precision),
                 LargeTreesRequired(model.num_feature, MaxOffset(model)))

(* The index of a bin.  One that has wrapped may be that of a bin between
   lists, which lies as far before the end as indexes count. *)
IndexKept(x, bins) ==
  /\ x \in 0 .. (Len(bins) - 1)
  /\ bins[x + 1].count = 0 => x + TwoTo(IndexBits(types)) <= Len(bins)

NodeKept(n, d) ==
  /\ d.offset = AsOffset(types, n.offset) /\ d.feature = AsMetadata(types, n.feature)
  /\ d.categorical <=> IsCategorical(n)
  /\ n.kind = "leaf" /\ ~(Len(n.output) > 1) => d.value = n.output[1]
  /\ IsCategorical(n) => IF External THEN IndexKept(d.index, storage)
                                     ELSE d.bits = n.categories

NodesKept == \A i \in 1 .. Len(nodes) : NodeKept(model.nodes[i], nodes[i])

(* A number of categories in the storage is followed by the bins for them, or,
   if bits were set in it, by as many as indexes count. *)
StorageKept ==
  /\ storage \in Seq(StorageBin)
  /\ \A j \in 1 .. Len(storage) : storage[j].count # 0 =>
       IF storage[j].bits = {} THEN j + Bins(storage[j].count) <= Len(storage)
                               ELSE j + TwoTo(IndexBits(types)) <= Len(storage) + 1

ImportInv ==
  /\ IInv /\ IsImportable(model)
  /\ phase \in {"called", "build", "ready", "failed"}
  /\ phase = "called" => vector = <<>> /\ storage = <<>>
  /\ phase \in {"build", "ready"} => types = Chosen /\ NodesKept /\ StorageKept
  /\ phase = "ready" => Len(nodes) = Len(model.nodes)

LEMMA ChosenFields ==
  ASSUME types = Chosen
  PROVE  /\ types.layout = layout
         /\ types.double <=> DoublePrecision(model, precision)
         /\ types.large <=> LargeTreesRequired(model.num_feature, MaxOffset(model))
  BY DEF Chosen, Specialization

(* The node that comes next, once it has been added *)
LEMMA NextNode ==
  ASSUME ImportInv, Building, UNCHANGED <<arguments, types>>,
         NEW value, NEW index, NEW bits, AddNode(Current, value, index, bits)
  PROVE  /\ Len(nodes) \in Nat /\ Len(nodes) + 1 \in 1 .. Len(model.nodes)
         /\ Current = model.nodes[Len(nodes) + 1] /\ Current \in TreeliteNodes
         /\ Len(nodes') = Len(nodes) + 1
         /\ \A i \in 1 .. Len(nodes) : nodes'[i] = nodes[i]
         /\ nodes'[Len(nodes) + 1] = StoredNode(Current, value, index, bits)
         /\ model' = model /\ layout' = layout /\ precision' = precision /\ types' = types
<1>1. PICK S : nodes \in Seq(S)
  BY DEF ImportInv, IInv
<1>2. nodes' = Append(nodes, StoredNode(Current, value, index, bits))
  BY DEF AddNode
<1>3. /\ Len(nodes) \in Nat
      /\ Len(nodes') = Len(nodes) + 1
      /\ \A i \in 1 .. Len(nodes) : nodes'[i] = nodes[i]
      /\ nodes'[Len(nodes) + 1] = StoredNode(Current, value, index, bits)
  BY <1>1, <1>2, Appended
<1>4. Len(model.nodes) \in Nat /\ \A i \in 1 .. Len(model.nodes) : model.nodes[i] \in TreeliteNodes
  BY ModelNodes DEF ImportInv
<1>5. Len(nodes) + 1 \in 1 .. Len(model.nodes)
  BY <1>3, <1>4 DEF Building
<1> QED
  BY <1>3, <1>4, <1>5 DEF Current, arguments

LEMMA KeptFields ==
  ASSUME NEW n, NEW value, NEW index, NEW bits
  PROVE  LET d == StoredNode(n, value, index, bits)
         IN  /\ d.offset = AsOffset(types, n.offset) /\ d.feature = AsMetadata(types, n.feature)
             /\ d.categorical <=> IsCategorical(n)
             /\ d.value = value /\ d.index = index /\ d.bits = bits
  BY DEF StoredNode

(* A feature that does not fit the types that were chosen fits no types. *)
LEMMA FeatureCause ==
  ASSUME ImportInv, types = Chosen, NEW i \in 1 .. Len(model.nodes),
         model.nodes[i].kind # "leaf", ~FeatureFits(model.nodes[i])
  PROVE  model.nodes[i].feature > UnsignedMax(LargeMetadataBits - ReservedMetadataBits)
<1> DEFINE x == model.nodes[i].feature
           bits == MetadataBits(types)
<1>1. IsImportable(model)
  BY DEF ImportInv
<1>2. x \in Nat /\ x < model.num_feature /\ model.num_feature \in Nat
  BY <1>1, ModelNodes, NodeFields DEF IsImportable
<1>3. bits \in Nat /\ UnsignedMax(bits - ReservedMetadataBits) \in Nat
  BY WidthFacts
<1>4. AsMetadata(types, x) \in Nat /\ AsMetadata(types, x) <= x
  BY <1>2, <1>3, Wrapped DEF AsMetadata
<1>5. x > UnsignedMax(bits - ReservedMetadataBits)
  BY <1>2, <1>3, <1>4 DEF FeatureFits, FeatureMask
<1>6. CASE types.large
  BY <1>5, <1>6 DEF MetadataBits
<1>7. CASE ~types.large
  <2>1. ~LargeTreesRequired(model.num_feature, MaxOffset(model))
    BY <1>7, ChosenFields
  <2>2. UnsignedMax(SmallMetadataBits - ReservedMetadataBits) \in Nat
        /\ model.num_feature <= UnsignedMax(SmallMetadataBits - ReservedMetadataBits)
    BY <1>2, <1>3, <1>7, <2>1, FeatureLimit DEF LargeTreesRequired, MetadataBits
  <2> QED
    BY <1>2, <1>5, <1>7, <2>2 DEF MetadataBits
<1> QED
  BY <1>6, <1>7

(* A category that does not fit is as great as a 32-bit number can be. *)
LEMMA CategoryCause ==
  ASSUME ImportInv, NEW i \in 1 .. Len(model.nodes),
         IsCategorical(model.nodes[i]), ~CategoryFits(model.nodes[i])
  PROVE  UnsignedMax(SmallIndexBits) <= Max({0} \cup model.nodes[i].categories)
<1> DEFINE n == model.nodes[i]
           b == UnsignedMax(SmallIndexBits)
           most == MaxNumCategories(model)
<1>1. IsImportable(model)
  BY DEF ImportInv
<1>2. n \in TreeliteNodes
  BY <1>1, ModelNodes
<1>3. most \in Nat /\ \A c \in n.categories : AsCount(c + 1) <= most
  BY <1>1, CategoriesBelowMax
<1>4. /\ Count(n) \in Nat \ {0} /\ Count(n) - 1 \in {0} \cup n.categories
      /\ Count(n) - 1 = Max({0} \cup n.categories)
  BY <1>2, CountFacts
<1>5. SmallIndexBits \in Nat /\ b \in Nat
  BY BitsAssumption, WidthFacts
<1>6. CASE Count(n) > b
  BY <1>4, <1>5, <1>6
<1>7. CASE most # 0 /\ Count(n) > most
  <2>1. Count(n) - 1 \in n.categories
    BY <1>3, <1>4, <1>7
  <2>2. (Count(n) - 1) + 1 = Count(n) /\ AsCount(Count(n)) <= most
    <3>1. (Count(n) - 1) + 1 = Count(n)
      BY <1>4
    <3> QED
      BY <1>3, <2>1, <3>1
  <2>3. Count(n) <= b => AsCount(Count(n)) = Count(n)
    BY <1>4, <1>5, Wrapped DEF AsCount
  <2> QED
    BY <1>3, <1>4, <1>5, <1>6, <1>7, <2>2, <2>3
<1> QED
  BY <1>3, <1>4, <1>5, <1>6, <1>7 DEF CategoryFits

(* The checks of get_decision_forest on the storage never fail, not even on
   what an index that has wrapped refers to. *)
LEMMA StorageIsConsistent ==
  ASSUME ImportInv, Built
  PROVE  StorageConsistent
<1>1. NodesKept /\ StorageKept /\ \E S : nodes \in Seq(S)
  BY DEF ImportInv, Built, IInv
<1>2. DOMAIN nodes = 1 .. Len(nodes)
  BY <1>1, LenProperties
<1>3. ASSUME External, NEW i \in DOMAIN nodes, nodes[i].categorical
      PROVE  /\ nodes[i].index < Len(storage)
             /\ nodes[i].index + 1 + Bins(NumberIn(storage[nodes[i].index + 1])) <= Len(storage)
  <2> DEFINE x == nodes[i].index
             p == x + 1
             bin == storage[p]
             t == TwoTo(IndexBits(types))
             L == Len(storage)
             k == Bins(NumberIn(bin))
  <2>1. IndexKept(x, storage)
    BY <1>1, <1>2, <1>3 DEF NodesKept, NodeKept
  <2>2. L \in Nat
    BY <1>1, LenProperties DEF StorageKept
  <2>3. x \in 0 .. (L - 1) /\ (bin.count = 0 => x + t <= L)
    BY <2>1 DEF IndexKept
  <2>4. p \in 1 .. L /\ x \in Nat /\ x < L /\ p = x + 1
    BY <2>2, <2>3
  <2> HIDE DEF p, x
  <2>5. bin.count # 0 => IF bin.bits = {} THEN p + Bins(bin.count) <= L ELSE p + t <= L + 1
    BY <1>1, <2>4 DEF StorageKept
  <2>6. bin \in StorageBin
    BY <1>1, <2>4, ElementOfSeq DEF StorageKept
  <2>7. t \in Nat /\ UnsignedMax(IndexBits(types)) = t - 1
    BY WidthFacts
  <2>8. bin.count \in Nat
    BY <2>6 DEF StorageBin
  <2>9. CASE bin.bits = {} /\ bin.count # 0
    <3>1. k = Bins(bin.count) /\ k \in Nat
      BY <2>6, <2>8, <2>9, NumberFacts, BinsFacts
    <3> HIDE DEF k
    <3>2. p + k <= L
      BY <2>5, <2>9, <3>1
    <3> QED
      BY <2>4, <3>1, <3>2 DEF k, bin, p, x
  <2>10. CASE bin.bits # {} \/ bin.count = 0
    <3>1. NumberIn(bin) \in 0 .. (t - 1)
      BY <2>6, <2>7, <2>10, NumberFacts
    <3>2. NumberIn(bin) \in Nat
      BY <2>7, <3>1
    <3>3. k \in Nat /\ k <= NumberIn(bin)
      BY <3>2, BinsFacts
    <3> HIDE DEF k
    <3>4. k <= t - 1
      BY <2>7, <3>1, <3>2, <3>3
    <3>5. x + t <= L
      BY <2>2, <2>3, <2>4, <2>5, <2>7, <2>10
    <3>6. p + k <= L
      BY <2>2, <2>4, <2>7, <3>3, <3>4, <3>5
    <3> QED
      BY <2>4, <3>3, <3>6 DEF k, bin, p, x
  <2> QED
    BY <2>9, <2>10
<1> QED
  BY <1>3 DEF StorageConsistent

-----------------------------------------------------------------------------
(* The storage grows by a list *)

LEMMA GrownFacts ==
  ASSUME storage \in Seq(StorageBin), NEW n \in TreeliteNodes
  PROVE  /\ Grown(n) \in Seq(StorageBin)
         /\ Len(storage) \in Nat /\ Len(Grown(n)) = Len(storage) + 1 + Bins(Count(n))
         /\ \A j \in 1 .. Len(storage) : Grown(n)[j] = storage[j]
         /\ Grown(n)[Len(storage) + 1] = [count |-> Count(n), bits |-> {}]
         /\ \A i \in 1 .. Bins(Count(n)) :
              Grown(n)[Len(storage) + 1 + i] = [count |-> 0, bits |-> {}]
<1> DEFINE head == [count |-> Count(n), bits |-> {}]
           zero == [count |-> 0, bits |-> {}]
           k == Bins(Count(n))
           fill == [i \in 1 .. k |-> zero]
           mid == storage \o <<head>>
<1>1. k \in Nat /\ Count(n) \in Nat
  BY CountFacts, BinsFacts
<1>2. head \in StorageBin /\ zero \in StorageBin
  BY <1>1 DEF StorageBin
<1>3. Grown(n) = mid \o fill
  BY DEF Grown
<1> HIDE DEF head, zero, k
<1>4. fill \in Seq(StorageBin) /\ Len(fill) = k /\ \A i \in 1 .. k : fill[i] = zero
  BY <1>1, <1>2
<1> HIDE DEF fill
<1>5. /\ mid \in Seq(StorageBin) /\ Len(storage) \in Nat /\ Len(mid) = Len(storage) + 1
      /\ \A j \in 1 .. Len(storage) : mid[j] = storage[j]
      /\ mid[Len(storage) + 1] = head
  BY <1>2
<1> HIDE DEF mid
<1>6. /\ mid \o fill \in Seq(StorageBin) /\ Len(mid \o fill) = Len(mid) + Len(fill)
      /\ \A j \in 1 .. (Len(mid) + Len(fill)) :
           (mid \o fill)[j] = IF j <= Len(mid) THEN mid[j] ELSE fill[j - Len(mid)]
  BY <1>4, <1>5, ConcatProperties
<1> DEFINE L == Len(storage)
           g == Grown(n)
<1> HIDE DEF L, g
<1>7. /\ g \in Seq(StorageBin) /\ L \in Nat /\ Len(g) = (L + 1) + k
      /\ \A j \in 1 .. ((L + 1) + k) : g[j] = IF j <= L + 1 THEN mid[j] ELSE fill[j - (L + 1)]
      /\ \A j \in 1 .. L : mid[j] = storage[j]
      /\ mid[L + 1] = head
  BY <1>3, <1>4, <1>5, <1>6 DEF L, g
<1>8. \A j \in 1 .. L : g[j] = storage[j]
  BY <1>1, <1>7
<1>9. g[L + 1] = head
  BY <1>1, <1>7
<1>10. ASSUME NEW i \in 1 .. k PROVE g[L + 1 + i] = zero
  <2>1. (L + 1) + i \in 1 .. ((L + 1) + k) /\ ~((L + 1) + i <= L + 1) /\ ((L + 1) + i) - (L + 1) = i
        /\ L + 1 + i = (L + 1) + i
    BY <1>1, <1>7
  <2> QED
    BY <1>4, <1>7, <2>1
<1>11. Len(g) = L + 1 + k
  BY <1>1, <1>7
<1> QED
  BY <1>7, <1>8, <1>9, <1>10, <1>11 DEF g, L, head, zero, k

Placed(n, index, i) ==
  {c % IndexBits(types) :
     c \in {d \in n.categories : AsIndex(types, index + 1) + 1 + d \div IndexBits(types) = i}}

LEMMA WithCategoriesFacts ==
  ASSUME NEW bins \in Seq(StorageBin), NEW n \in TreeliteNodes, NEW index \in Nat
  PROVE  /\ WithCategories(bins, n, index) \in Seq(StorageBin)
         /\ Len(WithCategories(bins, n, index)) = Len(bins)
         /\ \A i \in 1 .. Len(bins) :
              /\ WithCategories(bins, n, index)[i].count = bins[i].count
              /\ WithCategories(bins, n, index)[i].bits = bins[i].bits \cup Placed(n, index, i)
<1> DEFINE new == WithCategories(bins, n, index)
           e(i) == [bins[i] EXCEPT !.bits = @ \cup Placed(n, index, i)]
<1>1. Len(bins) \in Nat /\ DOMAIN bins = 1 .. Len(bins)
  BY LenProperties
<1>2. new = [i \in 1 .. Len(bins) |-> e(i)]
  BY <1>1 DEF WithCategories, Placed
<1>3. ASSUME NEW i
      PROVE  Placed(n, index, i) \subseteq Nat
  <2> DEFINE w == IndexBits(types)
             b == UnsignedMax(SmallIndexBits)
  <2>1. w \in Nat \ {0}
    BY WidthFacts
  <2>2. b \in Nat
    BY BitsAssumption, WidthFacts
  <2>3. n.categories \subseteq 0 .. b
    BY NodeFields
  <2> HIDE DEF w, b
  <2>4. n.categories \subseteq Nat
    BY <2>2, <2>3
  <2>5. \A c \in Nat : c % w \in Nat
    BY <2>1, DivMod
  <2> QED
    BY <2>4, <2>5 DEF Placed, w
<1>4. ASSUME NEW i \in 1 .. Len(bins)
      PROVE  e(i) \in StorageBin /\ e(i).count = bins[i].count
             /\ e(i).bits = bins[i].bits \cup Placed(n, index, i)
  <2>1. bins[i] \in StorageBin
    BY ElementOfSeq
  <2> DEFINE more == Placed(n, index, i)
             old == bins[i]
  <2>2. more \subseteq Nat
    BY <1>3
  <2> HIDE DEF more, old
  <2>3. old \in StorageBin
    BY <2>1 DEF old
  <2>4. LET r == [old EXCEPT !.bits = @ \cup more]
        IN  r \in StorageBin /\ r.count = old.count /\ r.bits = old.bits \cup more
    BY <2>2, <2>3 DEF StorageBin
  <2> QED
    BY <2>4 DEF old, more
<1> HIDE DEF e, new
<1>5. new \in Seq(StorageBin) /\ Len(new) = Len(bins) /\ \A i \in 1 .. Len(bins) : new[i] = e(i)
  BY <1>1, <1>2, <1>4
<1> QED
  BY <1>4, <1>5 DEF new

LEMMA StorageGrows ==
  ASSUME StorageKept, NEW n \in TreeliteNodes, NEW index \in Nat,
         NEW new, new = WithCategories(Grown(n), n, index)
  PROVE  /\ new \in Seq(StorageBin)
         /\ Len(storage) \in Nat /\ Len(new) = Len(storage) + 1 + Bins(Count(n))
         /\ \A j \in 1 .. Len(storage) :
              /\ new[j].count = storage[j].count
              /\ new[j].bits = storage[j].bits \cup Placed(n, index, j)
         /\ new[Len(storage) + 1].count = Count(n)
         /\ new[Len(storage) + 1].bits = Placed(n, index, Len(storage) + 1)
         /\ \A i \in 1 .. Bins(Count(n)) :
              /\ new[Len(storage) + 1 + i].count = 0
              /\ new[Len(storage) + 1 + i].bits = Placed(n, index, Len(storage) + 1 + i)
<1> DEFINE g == Grown(n)
           L == Len(storage)
           k == Bins(Count(n))
<1>1. /\ g \in Seq(StorageBin) /\ L \in Nat /\ Len(g) = L + 1 + k /\ k \in Nat
      /\ \A j \in 1 .. L : g[j] = storage[j]
      /\ g[L + 1] = [count |-> Count(n), bits |-> {}]
      /\ \A i \in 1 .. k : g[L + 1 + i] = [count |-> 0, bits |-> {}]
  BY GrownFacts, CountFacts, BinsFacts DEF StorageKept
<1> HIDE DEF g, k, L
<1>2. /\ new \in Seq(StorageBin) /\ Len(new) = Len(g)
      /\ \A j \in 1 .. Len(g) : new[j].count = g[j].count
                                /\ new[j].bits = g[j].bits \cup Placed(n, index, j)
  BY <1>1, WithCategoriesFacts DEF g
<1>3. ASSUME NEW j \in 1 .. L
      PROVE  new[j].count = storage[j].count /\ new[j].bits = storage[j].bits \cup Placed(n, index, j)
  <2>1. j \in 1 .. Len(g)
    BY <1>1
  <2> QED
    BY <1>1, <1>2, <2>1
<1>4. new[L + 1].count = Count(n) /\ new[L + 1].bits = Placed(n, index, L + 1)
  <2> DEFINE p == L + 1
  <2>1. p \in 1 .. Len(g)
    BY <1>1
  <2>2. g[p].count = Count(n) /\ g[p].bits = {}
    BY <1>1
  <2> HIDE DEF p
  <2>3. new[p].count = Count(n) /\ new[p].bits = Placed(n, index, p)
    BY <1>2, <2>1, <2>2
  <2> QED
    BY <2>3 DEF p
<1>5. ASSUME NEW i \in 1 .. k
      PROVE  /\ new[L + 1 + i].count = 0
             /\ new[L + 1 + i].bits = Placed(n, index, L + 1 + i)
  <2> DEFINE p == L + 1 + i
  <2>1. p \in 1 .. Len(g)
    BY <1>1
  <2>b. g[p] = [count |-> 0, bits |-> {}]
    BY <1>1
  <2> HIDE DEF p
  <2>2. g[p].count = 0 /\ g[p].bits = {}
    BY <2>b
  <2>a. new[p].count = g[p].count /\ new[p].bits = g[p].bits \cup Placed(n, index, p)
    BY <1>2, <2>1
  <2>3. new[p].count = 0 /\ new[p].bits = Placed(n, index, p)
    BY <2>2, <2>a
  <2> QED
    BY <2>3 DEF p
<1>6. new \in Seq(StorageBin) /\ Len(new) = L + 1 + k
  BY <1>1, <1>2
<1> QED
  BY <1>1, <1>3, <1>4, <1>5, <1>6 DEF L, k

-----------------------------------------------------------------------------
(* ImportInv is an invariant *)

LEMMA ImportBegins == Init => ImportInv
<1> SUFFICES ASSUME Init PROVE ImportInv
  OBVIOUS
<1>1. IsImportable(model)
  BY ImportsAssumption DEF Init
<1>2. phase = "called" /\ vector = <<>> /\ storage = <<>>
  BY DEF Init
<1> QED
  BY <1>1, <1>2, Initial DEF ImportInv

(* Nothing is lost when the node that comes next is added. *)
LEMMA NodesStillKept ==
  ASSUME ImportInv, Building, UNCHANGED <<arguments, types>>,
         NEW value, NEW index, NEW bits, AddNode(Current, value, index, bits),
         Len(storage) \in Nat, Len(storage') \in Nat, Len(storage) <= Len(storage'),
         \A j \in 1 .. Len(storage) : storage'[j].count = storage[j].count,
         Current.kind = "leaf" /\ ~(Len(Current.output) > 1) => value = Current.output[1],
         IsCategorical(Current) => IF External THEN IndexKept(index, storage')
                                               ELSE bits = Current.categories
  PROVE  NodesKept'
<1>1. /\ Len(nodes) \in Nat /\ Current = model.nodes[Len(nodes) + 1]
      /\ Len(nodes') = Len(nodes) + 1
      /\ \A i \in 1 .. Len(nodes) : nodes'[i] = nodes[i]
      /\ nodes'[Len(nodes) + 1] = StoredNode(Current, value, index, bits)
      /\ model' = model /\ types' = types
  BY NextNode
<1>2. External' <=> External
  BY <1>1 DEF External
<1>3. NodesKept
  BY DEF ImportInv, Building
<1> DEFINE d == StoredNode(Current, value, index, bits)
<1>4. /\ d.offset = AsOffset(types, Current.offset) /\ d.feature = AsMetadata(types, Current.feature)
      /\ d.categorical <=> IsCategorical(Current)
      /\ d.value = value /\ d.index = index /\ d.bits = bits
  BY KeptFields
<1> HIDE DEF d
<1>5. ASSUME NEW i \in 1 .. Len(nodes)
      PROVE  NodeKept(model.nodes[i], nodes[i])'
  <2>1. NodeKept(model.nodes[i], nodes[i]) /\ nodes'[i] = nodes[i] /\ model'.nodes[i] = model.nodes[i]
    BY <1>1, <1>3, <1>5 DEF NodesKept
  <2>2. ASSUME IndexKept(nodes[i].index, storage)
        PROVE  IndexKept(nodes[i].index, storage')
    <3> DEFINE x == nodes[i].index
               w == TwoTo(IndexBits(types))
               p == x + 1
    <3>1. x \in 0 .. (Len(storage) - 1) /\ (storage[p].count = 0 => x + w <= Len(storage))
      BY <2>2 DEF IndexKept
    <3>a. IndexBits(types) \in Nat
      BY WidthFacts
    <3>b. w \in Nat
      BY <3>a, TwoToNat
    <3> HIDE DEF x, w
    <3>2. p \in 1 .. Len(storage) /\ w \in Nat
      BY <3>1, <3>b
    <3>3. storage'[p].count = storage[p].count
      BY <3>2
    <3> HIDE DEF p
    <3>4. x \in 0 .. (Len(storage') - 1) /\ (storage'[p].count = 0 => x + w <= Len(storage'))
      BY <3>1, <3>2, <3>3
    <3> QED
      BY <3>4 DEF IndexKept, x, w, p
  <2>3. IndexKept(nodes[i].index, storage)' <=> IndexKept(nodes[i].index, storage')
    BY <1>1, <2>1 DEF IndexKept
  <2> QED
    BY <1>1, <1>2, <2>1, <2>2, <2>3 DEF NodeKept
<1>6. ASSUME NEW i, i = Len(nodes) + 1
      PROVE  NodeKept(model.nodes[i], nodes[i])'
  <2>1. nodes'[i] = d /\ model'.nodes[i] = Current
    BY <1>1, <1>6 DEF d
  <2>2. IndexKept(nodes[i].index, storage)' <=> IndexKept(index, storage')
    BY <1>1, <1>4, <2>1 DEF IndexKept
  <2> QED
    BY <1>1, <1>2, <1>4, <2>1, <2>2 DEF NodeKept
<1>7. ASSUME NEW i \in 1 .. Len(nodes')
      PROVE  NodeKept(model.nodes[i], nodes[i])'
  <2>1. i \in 1 .. Len(nodes) \/ i = Len(nodes) + 1
    BY <1>1
  <2> QED
    BY <1>5, <1>6, <2>1
<1> QED
  BY <1>7 DEF NodesKept

(* Of what an index has wrapped to, and the bits that are set behind it *)
LEMMA WrappedPlace ==
  ASSUME NEW L \in Nat, NEW w \in Nat \ {0}, NEW x \in Nat, NEW a \in Nat,
         x = L \/ x + w <= L, a = x + 1 \/ a + w <= x + 1
  PROVE  a = L + 1 \/ a + w <= L + 1
  OBVIOUS

(* A list fits what it is added to, and what its index refers to. *)
LEMMA ListAdded ==
  ASSUME StorageKept, NEW n \in TreeliteNodes, types' = types,
         NEW index, index = AsIndex(types, Len(storage)),
         storage' = WithCategories(Grown(n), n, index)
  PROVE  /\ StorageKept'
         /\ index \in Nat /\ IndexKept(index, storage')
         /\ Len(storage) \in Nat /\ Len(storage') \in Nat
         /\ Len(storage') = Len(storage) + 1 + Bins(Count(n))
         /\ Len(storage) < Len(storage')
         /\ \A j \in 1 .. Len(storage) : storage'[j].count = storage[j].count
<1> DEFINE L == Len(storage)
           M == Len(storage')
           k == Bins(Count(n))
           t == TwoTo(IndexBits(types))
           start == AsIndex(types, index + 1)
           P(j) == Placed(n, index, j)
<1>0. storage \in Seq(StorageBin) /\ L \in Nat /\ t \in Nat \ {0}
  BY LenProperties, WidthFacts DEF StorageKept
<1>a. index \in Nat /\ (index = L \/ index + t <= L)
  BY <1>0, WidthFacts, Wrapped, WrappedOrKept DEF AsIndex
<1>b. start \in Nat /\ (start = index + 1 \/ start + t <= index + 1)
  <2>1. index + 1 \in Nat
    BY <1>a
  <2>2. IndexBits(types) \in Nat
    BY WidthFacts
  <2> QED
    BY <2>1, <2>2, Wrapped, WrappedOrKept DEF AsIndex
<1>1. /\ storage' \in Seq(StorageBin) /\ L \in Nat /\ M = L + 1 + k
      /\ \A j \in 1 .. L : /\ storage'[j].count = storage[j].count
                           /\ storage'[j].bits = storage[j].bits \cup P(j)
      /\ storage'[L + 1].count = Count(n) /\ storage'[L + 1].bits = P(L + 1)
      /\ \A i \in 1 .. k : storage'[L + 1 + i].count = 0
  BY <1>a, StorageGrows
<1>2. k \in Nat /\ Count(n) \in Nat \ {0}
  BY CountFacts, BinsFacts
<1>c. start = L + 1 \/ start + t <= L + 1
  BY <1>0, <1>a, <1>b, WrappedPlace
<1>d. ASSUME NEW j \in 1 .. (L + 1), P(j) # {}
      PROVE  j + t <= M
  <2>1. PICK c \in n.categories : start + 1 + c \div IndexBits(types) = j
    BY <1>d DEF Placed
  <2> DEFINE q == c \div IndexBits(types)
  <2>2. q \in 0 .. (k - 1)
    BY <1>2, CountFacts, BinsFacts
  <2> HIDE DEF q, start, k, t, L, M
  <2>3. start + 1 + q = j
    BY <2>1 DEF q
  <2>4. q \in Nat /\ q + 1 <= k
    BY <1>2, <2>2
  <2>5. start + t <= L + 1
    BY <1>0, <1>b, <1>c, <2>3, <2>4
  <2> QED
    BY <1>0, <1>1, <1>2, <1>b, <2>3, <2>4, <2>5
<1>3. \A j \in 1 .. L : storage[j].count \in Nat /\ Bins(storage[j].count) \in Nat
  <2>1. ASSUME NEW j \in 1 .. L PROVE storage[j].count \in Nat
    <3>1. storage[j] \in StorageBin
      BY <1>0, ElementOfSeq
    <3> QED
      BY <3>1 DEF StorageBin
  <2> QED
    BY <2>1, BinsFacts
<1>4. \A j \in 1 .. L : storage[j].count # 0 =>
        IF storage[j].bits = {} THEN j + Bins(storage[j].count) <= L ELSE j + t <= L + 1
  BY DEF StorageKept
<1> HIDE DEF L, M, k, t, start, P
<1>5. ASSUME NEW j \in 1 .. M, storage'[j].count # 0
      PROVE  IF storage'[j].bits = {} THEN j + Bins(storage'[j].count) <= M ELSE j + t <= M + 1
  <2>1. CASE j \in 1 .. L
    <3>1. storage'[j].count = storage[j].count /\ storage'[j].bits = storage[j].bits \cup P(j)
      BY <1>1, <2>1
    <3>2. CASE P(j) # {}
      <4>1. storage'[j].bits # {} /\ j + t <= M
        BY <1>0, <1>d, <2>1, <3>1, <3>2
      <4> QED
        BY <1>0, <1>1, <1>2, <2>1, <4>1
    <3>3. CASE P(j) = {}
      <4>1. storage'[j].bits = storage[j].bits
        BY <3>1, <3>3
      <4>2. CASE storage[j].bits = {}
        <5>1. j + Bins(storage[j].count) <= L /\ Bins(storage[j].count) \in Nat
          BY <1>3, <1>4, <1>5, <2>1, <3>1, <4>2
        <5>2. j + Bins(storage[j].count) <= M
          BY <1>0, <1>1, <1>2, <2>1, <5>1
        <5> QED
          BY <3>1, <4>1, <4>2, <5>2
      <4>3. CASE storage[j].bits # {}
        <5>1. j + t <= L + 1
          BY <1>4, <1>5, <2>1, <3>1, <4>3
        <5>2. j + t <= M + 1
          BY <1>0, <1>1, <1>2, <2>1, <5>1
        <5> QED
          BY <4>1, <4>3, <5>2
      <4> QED
        BY <4>2, <4>3
    <3> QED
      BY <3>2, <3>3
  <2>2. CASE j = L + 1
    <3>1. storage'[j].count = Count(n) /\ storage'[j].bits = P(j) /\ j \in 1 .. (L + 1)
      BY <1>0, <1>1, <2>2
    <3>2. CASE P(j) # {}
      <4>1. j + t <= M
        BY <1>d, <3>1, <3>2
      <4> QED
        BY <1>0, <1>1, <1>2, <2>2, <3>1, <3>2, <4>1
    <3>3. CASE P(j) = {}
      <4>1. Bins(storage'[j].count) = k
        BY <3>1 DEF k
      <4> QED
        BY <1>0, <1>1, <1>2, <2>2, <3>1, <3>3, <4>1
    <3> QED
      BY <3>2, <3>3
  <2>3. CASE j > L + 1
    <3> DEFINE i == j - (L + 1)
    <3>1. i \in 1 .. k /\ L + 1 + i = j
      BY <1>0, <1>1, <1>2, <2>3
    <3>2. storage'[j].count = 0
      BY <1>1, <3>1
    <3> QED
      BY <1>5, <3>2
  <2> QED
    BY <1>0, <1>1, <1>2, <2>1, <2>2, <2>3
<1>6. StorageKept'
  <2>1. \A j \in 1 .. Len(storage') : storage'[j].count # 0 =>
          IF storage'[j].bits = {}
          THEN j + CeilDivide(storage'[j].count, IndexBits(types')) <= Len(storage')
          ELSE j + TwoTo(IndexBits(types')) <= Len(storage') + 1
    BY <1>5 DEF Bins, M, t
  <2> QED
    BY <1>1, <2>1 DEF StorageKept, Bins
<1>7. M \in Nat /\ L < M
  BY <1>0, <1>1, <1>2
<1>8. index \in 0 .. (M - 1)
  BY <1>0, <1>7, <1>a
<1>9. ASSUME storage'[index + 1].count = 0 PROVE index + t <= M
  <2>1. index # L
    BY <1>1, <1>2, <1>9
  <2> QED
    BY <1>0, <1>7, <1>a, <2>1
<1>10. IndexKept(index, storage')
  BY <1>8, <1>9 DEF IndexKept, M, t
<1> QED
  BY <1>0, <1>1, <1>6, <1>7, <1>10, <1>a DEF L, M, k

LEMMA ImportAdvances == ImportInv /\ [Next]_vars => ImportInv'
<1> SUFFICES ASSUME ImportInv, [Next]_vars PROVE ImportInv'
  OBVIOUS
<1>0. IInv' /\ IsImportable(model) /\ Len(model.nodes) \in Nat
  BY Inductive, ModelNodes DEF ImportInv
<1>1. ASSUME UNCHANGED <<arguments, forest>>,
             \/ phase' = phase
             \/ phase' = "failed"
             \/ phase = "build" /\ phase' = "ready" /\ Len(nodes) = Len(model.nodes)
      PROVE  ImportInv'
  <2>1. /\ model' = model /\ layout' = layout /\ precision' = precision
        /\ types' = types /\ nodes' = nodes /\ vector' = vector /\ storage' = storage
    BY <1>1 DEF arguments, forest
  <2>2. phase' \in {"called", "build", "ready", "failed"}
    BY <1>1 DEF ImportInv
  <2>3. Chosen' = Chosen /\ (NodesKept' <=> NodesKept) /\ (StorageKept' <=> StorageKept)
    BY <2>1 DEF Chosen, DoublePrecision, NodesKept, NodeKept, IndexKept, StorageKept, External, Bins
  <2>4. phase' \in {"build", "ready"} => types' = Chosen' /\ NodesKept' /\ StorageKept'
    BY <1>1, <2>1, <2>3 DEF ImportInv
  <2>5. phase' = "ready" => Len(nodes') = Len(model'.nodes)
    BY <1>1, <2>1 DEF ImportInv
  <2>6. phase' = "called" => vector' = <<>> /\ storage' = <<>>
    BY <1>1, <2>1 DEF ImportInv
  <2> QED
    BY <1>0, <2>1, <2>2, <2>4, <2>5, <2>6 DEF ImportInv
<1>2. CASE Choose
  <2>1. /\ model' = model /\ layout' = layout /\ precision' = precision
        /\ nodes' = nodes /\ vector' = vector /\ storage' = storage
        /\ phase = "called" /\ phase' = "build"
    BY <1>2 DEF Choose, arguments
  <2>2. types' = Chosen
    <3>1. DoublePrecision(model, precision) \in BOOLEAN
      BY DEF DoublePrecision, DoubleIndexesRequired
    <3>2. LargeTreesRequired(model.num_feature, MaxOffset(model)) \in BOOLEAN
      BY DEF LargeTreesRequired
    <3>3. layout \in Layouts
      BY DEF ImportInv, IInv
    <3> QED
      BY <1>2, <3>1, <3>2, <3>3, ChosenAlternative DEF Choose, Chosen
  <2>3. Chosen' = Chosen
    BY <2>1 DEF Chosen, DoublePrecision
  <2>4. Len(nodes') = 0 /\ Len(storage') = 0 /\ storage' = <<>>
    BY <2>1, EmptySeq DEF ImportInv, IInv
  <2>5. NodesKept'
    BY <2>4 DEF NodesKept
  <2>6. storage' \in Seq(StorageBin)
    BY <2>4, EmptySeq
  <2>7. StorageKept'
    BY <2>4, <2>6 DEF StorageKept
  <2> QED
    BY <1>0, <2>1, <2>2, <2>3, <2>5, <2>7 DEF ImportInv
<1>3. ASSUME Building, UNCHANGED <<arguments, types, phase>>, NodesKept', StorageKept'
      PROVE  ImportInv'
  <2>1. /\ model' = model /\ layout' = layout /\ precision' = precision
        /\ types' = types /\ phase' = "build" /\ phase = "build"
    BY <1>3 DEF arguments, Building
  <2>2. Chosen' = Chosen /\ types = Chosen
    BY <2>1 DEF Chosen, DoublePrecision, ImportInv
  <2> QED
    BY <1>0, <1>3, <2>1, <2>2 DEF ImportInv
<1>4. ASSUME Building, UNCHANGED <<arguments, types, storage>>
      PROVE  /\ Len(storage) \in Nat /\ Len(storage') \in Nat /\ Len(storage) <= Len(storage')
             /\ StorageKept'
             /\ \A j \in 1 .. Len(storage) : storage'[j].count = storage[j].count
  <2>1. storage \in Seq(StorageBin) /\ StorageKept
    BY <1>4 DEF Building, ImportInv, StorageKept
  <2>2. Len(storage) \in Nat /\ storage' = storage /\ types' = types
    BY <1>4, <2>1, LenProperties
  <2> QED
    BY <2>1, <2>2 DEF StorageKept, Bins
<1>5. CASE AddLeaf
  <2>1. /\ Building /\ Current.kind = "leaf" /\ UNCHANGED <<arguments, types, storage, phase>>
        /\ ~IsCategorical(Current)
    BY <1>5 DEF AddLeaf, IsCategorical
  <2>2. PICK value, index : /\ AddNode(Current, value, index, {})
                            /\ ~(Len(Current.output) > 1) => value = Current.output[1]
    BY <1>5 DEF AddLeaf
  <2>3. NodesKept'
    BY <1>4, <2>1, <2>2, NodesStillKept
  <2> QED
    BY <1>3, <1>4, <2>1, <2>3
<1>6. CASE AddNumeric
  <2>1. /\ Building /\ Current.kind # "leaf" /\ UNCHANGED <<arguments, types, storage, phase>>
        /\ ~IsCategorical(Current)
    BY <1>6 DEF AddNumeric, IsCategorical
  <2>2. PICK value : AddNode(Current, value, 0, {})
    BY <1>6 DEF AddNumeric
  <2>3. NodesKept'
    BY <1>4, <2>1, <2>2, NodesStillKept
  <2> QED
    BY <1>3, <1>4, <2>1, <2>3
<1>7. CASE AddCategorical
  <2>1. /\ Building /\ Current.kind # "leaf" /\ UNCHANGED <<arguments, types, phase>>
    BY <1>7 DEF AddCategorical
  <2>2. CASE External
    <3> DEFINE index == AsIndex(types, Len(storage))
    <3>1. /\ AddNode(Current, 0, index, {})
          /\ storage' = WithCategories(Grown(Current), Current, index)
      BY <1>7, <2>2 DEF AddCategorical
    <3>2. StorageKept
      BY <2>1 DEF Building, ImportInv
    <3>4. Current \in TreeliteNodes
      BY <2>1, <3>1, NextNode
    <3>a. index = AsIndex(types, Len(storage))
      OBVIOUS
    <3> HIDE DEF index
    <3>5. /\ StorageKept' /\ IndexKept(index, storage')
          /\ Len(storage) \in Nat /\ Len(storage') \in Nat /\ Len(storage) < Len(storage')
          /\ \A j \in 1 .. Len(storage) : storage'[j].count = storage[j].count
      BY <2>1, <3>1, <3>2, <3>4, <3>a, ListAdded
    <3>6. Len(storage) <= Len(storage')
      BY <3>5
    <3>7. NodesKept'
      BY <2>1, <2>2, <3>1, <3>5, <3>6, NodesStillKept
    <3> QED
      BY <1>3, <2>1, <3>5, <3>7
  <2>3. CASE ~External
    <3>1. AddNode(Current, 0, 0, Current.categories) /\ storage' = storage
      BY <1>7, <2>3 DEF AddCategorical
    <3>2. NodesKept'
      BY <1>4, <2>1, <2>3, <3>1, NodesStillKept
    <3> QED
      BY <1>3, <1>4, <2>1, <3>1, <3>2
  <2> QED
    BY <2>2, <2>3
<1>8. CASE Reject
  BY <1>1, <1>8 DEF Reject
<1>9. CASE RejectNode
  BY <1>1, <1>9 DEF RejectNode
<1>10. CASE Finish
  BY <1>1, <1>10 DEF Finish, Built
<1>11. CASE RejectForest
  BY <1>1, <1>11 DEF RejectForest
<1>12. CASE \E op \in RowOps : SetRow(op)
  BY <1>1, <1>12 DEF SetRow
<1>13. CASE \E kind \in {"default", "per_tree", "leaf_id"}, row \in Rows : Predict(kind, row)
  BY <1>1, <1>13 DEF Predict
<1>14. CASE Failed \/ UNCHANGED vars
  BY <1>1, <1>14 DEF Failed, vars
<1> QED
  BY <1>2, <1>5, <1>6, <1>7, <1>8, <1>9, <1>10, <1>11, <1>12, <1>13, <1>14 DEF Next

-----------------------------------------------------------------------------
(* Why an import fails *)

LEMMA RejectionCaused == ImportInv /\ RejectedForCause /\ [Next]_vars => RejectedForCause'
<1> SUFFICES ASSUME ImportInv, RejectedForCause, [Next]_vars, phase' = "failed"
             PROVE  RejectedForCause'
  BY DEF RejectedForCause
<1>1. CASE Reject
  <2>1. model' = model /\ types' = types
    BY <1>1 DEF Reject, arguments, forest
  <2>2. CASE ~ShapeSupported(model)
    <3>1. \/ Len(model.trees) = 0
          \/ model.num_class = 0
          \/ model.task \in Classifiers /\ model.num_target # 1
          \/ VectorLeaf(model) /\ model.task \notin {"kRegressor", "kMultiClf"}
      <4>1. model.num_class \in Nat /\ Len(model.trees) \in Nat
        BY LenProperties DEF ImportInv, IsImportable
      <4>2. model.leaf_vector_shape[1] > 1 \/ model.leaf_vector_shape[2] > 1
              => model.leaf_vector_shape # <<1, 1>>
        OBVIOUS
      <4> QED
        BY <2>2, <4>1, <4>2 DEF ShapeSupported, VectorLeaf
    <3> QED
      BY <2>1, <3>1 DEF RejectedForCause
  <2>3. CASE ~AssignmentSupported(model)
    BY <2>1, <2>3 DEF AssignmentSupported, RejectedForCause
  <2> QED
    BY <1>1, <2>2, <2>3 DEF Reject
<1>2. CASE RejectNode
  <2>1. /\ model' = model /\ types' = types /\ Building /\ Current.kind # "leaf"
        /\ ~FeatureFits(Current) \/ (IsCategorical(Current) /\ ~CategoryFits(Current))
    BY <1>2 DEF RejectNode, arguments, forest, IsCategorical
  <2>2. PICK i \in 1 .. Len(model.nodes) : Current = model.nodes[i]
    <3>1. /\ \E S : nodes \in Seq(S)
          /\ model.nodes \in Seq(TreeliteNodes) /\ Len(nodes) < Len(model.nodes)
      BY <2>1 DEF ImportInv, IInv, Building
    <3>2. Len(nodes) \in Nat /\ Len(model.nodes) \in Nat
      BY <3>1, LenProperties
    <3>3. Len(nodes) + 1 \in 1 .. Len(model.nodes)
      BY <3>1, <3>2
    <3> QED
      BY <3>3 DEF Current
  <2>3. DOMAIN model.nodes = 1 .. Len(model.nodes) /\ types = Chosen
    BY <2>1, ModelNodes DEF ImportInv, Building
  <2>4. \/ model.nodes[i].feature > UnsignedMax(LargeMetadataBits - ReservedMetadataBits)
        \/ UnsignedMax(SmallIndexBits) <= Max({0} \cup model.nodes[i].categories)
    BY <2>1, <2>2, <2>3, FeatureCause, CategoryCause
  <2> QED
    BY <2>1, <2>3, <2>4 DEF RejectedForCause
<1>3. CASE RejectForest
  <2>1. model' = model /\ types' = types /\ Built /\ ~Buildable
    BY <1>3 DEF RejectForest, arguments, forest
  <2>2. model.postprocessor \notin Transformations \/ ~ConstantFits(model, types)
    BY <2>1, StorageIsConsistent DEF Buildable, Recognised
  <2>3. ~ConstantFits(model, types) => ~types.double /\ model.sigmoid_alpha # "ordinary"
    BY DEF ConstantFits
  <2> QED
    BY <2>1, <2>2, <2>3 DEF RejectedForCause
<1>4. CASE phase = "failed" /\ model' = model /\ types' = types
  BY <1>4 DEF RejectedForCause
<1>5. CASE Failed \/ UNCHANGED vars
  <2>1. phase = "failed" /\ model' = model /\ types' = types
    BY <1>5 DEF Failed, vars, arguments, forest
  <2> QED
    BY <1>4, <2>1
<1>6. ASSUME Choose \/ AddLeaf \/ AddNumeric \/ AddCategorical \/ Finish PROVE FALSE
  BY <1>6 DEF Choose, AddLeaf, AddNumeric, AddCategorical, Finish, Building
<1>7. ASSUME NEW op \in RowOps, SetRow(op) PROVE FALSE
  BY <1>7 DEF SetRow
<1>8. ASSUME NEW kind \in {"default", "per_tree", "leaf_id"}, NEW row \in Rows, Predict(kind, row)
      PROVE  FALSE
  BY <1>8 DEF Predict
<1> QED
  BY <1>1, <1>2, <1>3, <1>5, <1>6, <1>7, <1>8 DEF Next

(* The invariant that the storage of categories and the types stay as chosen *)
LEMMA ImportAlwaysInv == Spec => []ImportInv
  BY ImportBegins, ImportAdvances, PTL DEF Spec

(* Every import that throws does so for one of the reasons its messages give.
   In particular a feature is rejected only if the widest metadata cannot hold
   it, a category only if no 32-bit number counts up to it, and the lists of
   categories always lie within the storage they were written to. *)
THEOREM RejectionsHaveCause == Spec => []RejectedForCause
<1>1. Init => RejectedForCause
  BY DEF Init, RejectedForCause
<1> QED
  BY <1>1, ImportBegins, ImportAdvances, RejectionCaused, PTL DEF Spec

-----------------------------------------------------------------------------
(* What widens indexes *)

(* Numbers of the small index's type, and their sums in it, are never greater
   than the greatest of it. *)
LEMMA CountsNeverExceed ==
  ASSUME NEW m, IsImportable(m)
  PROVE  ~DoubleIndexesRequired(AsCount(NumCategorical(m)), MaxNumCategories(m),
                                AsCount(NumLeafVector(m)))
<1> DEFINE w == SmallIndexBits
           most == UnsignedMax(w)
           lists == {i \in DOMAIN m.nodes : IsCategorical(m.nodes[i])}
           leaves == {i \in DOMAIN m.nodes : m.nodes[i].kind = "leaf" /\ Len(m.nodes[i].output) > 1}
           c == AsCount(NumCategorical(m))
           k == CeilDivide(MaxNumCategories(m), w)
           v == AsCount(NumLeafVector(m))
           s == AsCount(k + 1 * c)
<1>1. w \in Nat \ {0} /\ most \in Nat
  BY BitsAssumption, WidthFacts
<1>2. IsFiniteSet(DOMAIN m.nodes)
  BY ModelNodes, FS_Interval
<1>3. NumCategorical(m) \in Nat /\ NumLeafVector(m) \in Nat
  <2>1. IsFiniteSet(lists) /\ IsFiniteSet(leaves)
    BY <1>2, FS_Subset
  <2> QED
    BY <2>1, FS_CardinalityType DEF NumCategorical, NumLeafVector
<1> HIDE DEF most, lists, leaves
<1>4. \A n \in Nat : AsCount(n) \in Nat /\ AsCount(n) <= most
  BY <1>1, Wrapped DEF AsCount, most
<1>5. c \in Nat /\ v \in Nat /\ v <= most
  BY <1>3, <1>4
<1>6. k \in Nat
  <2> DEFINE a == MaxNumCategories(m)
  <2>1. a \in Nat
    BY CategoriesBelowMax
  <2> HIDE DEF a, w
  <2>2. k = a \div w + (IF a % w # 0 THEN 1 ELSE 0)
    BY DEF CeilDivide, a
  <2> HIDE DEF k
  <2> QED
    BY <1>1, <2>1, <2>2, RoundedUp
<1> HIDE DEF c, v, k
<1>7. s \in Nat /\ s <= most
  BY <1>4, <1>5, <1>6
<1> HIDE DEF s
<1>8. ~(s > most) /\ ~(v > most)
  BY <1>1, <1>5, <1>7
<1> QED
  BY <1>8 DEF DoubleIndexesRequired, s, c, v, k, w, most

(* A forest has wide thresholds and indexes because they were asked for, or
   the model's thresholds are wide, and for no other reason: however many
   lists of categories and vector leaves a model has, get_forest_variant_index
   finds that small indexes are enough. *)
THEOREM IndexesNeverWiden ==
  Spec => [](phase \in {"build", "ready"} =>
               (types.double <=> IF precision # "none" THEN precision = "double"
                                 ELSE model.double_thresholds))
<1>1. ASSUME ImportInv, phase \in {"build", "ready"}
      PROVE  types.double <=> IF precision # "none" THEN precision = "double"
                              ELSE model.double_thresholds
  <2>1. types = Chosen /\ IsImportable(model)
    BY <1>1 DEF ImportInv
  <2>2. types.double <=> DoublePrecision(model, precision)
    BY <2>1, ChosenFields
  <2> QED
    BY <2>1, <2>2, CountsNeverExceed, Zenon DEF DoublePrecision
<1> QED
  BY <1>1, ImportAlwaysInv, PTL

-----------------------------------------------------------------------------
(* What is read back from a forest *)

(* The numbers of a leaf are one, or one for each output, and an index reaches
   every element of the leaves with several. *)
OutputsHeld(m) ==
  /\ \E k \in {1, NumOutputs(m)} :
       \A i \in DOMAIN m.nodes : m.nodes[i].kind = "leaf" => Len(m.nodes[i].output) = k
  /\ NumLeafVector(m) * NumOutputs(m) <= TwoTo(IndexBits(types))

(* An index reaches every bin of the storage. *)
ListsIndexed == External => Len(storage) <= TwoTo(IndexBits(types))

IsVectorLeaf(n) == n.kind = "leaf" /\ Len(n.output) > 1
VectorNodes(x) == {i \in 1 .. x : IsVectorLeaf(model.nodes[i])}

ListKept(n, index) ==
  /\ index \in Nat /\ index + 1 + Bins(Count(n)) <= Len(storage)
  /\ storage[index + 1].count = Count(n) /\ storage[index + 1].bits = {}
  /\ \A i \in 1 .. Bins(Count(n)) : storage[index + 1 + i].count = 0
  /\ \A c \in 0 .. (Count(n) - 1) :
       c % IndexBits(types) \in storage[index + 2 + c \div IndexBits(types)].bits
         <=> c \in n.categories

ListsKept ==
  External /\ ListsIndexed =>
    \A i \in 1 .. Len(nodes) :
      IsCategorical(model.nodes[i]) => ListKept(model.nodes[i], nodes[i].index)

OutputKept(n, index) ==
  /\ index \in Nat /\ index * NumOutputs(model) + NumOutputs(model) <= Len(vector)
  /\ \A o \in 1 .. NumOutputs(model) : vector[index * NumOutputs(model) + o] = n.output[o]

OutputsKept ==
  OutputsHeld(model) =>
    /\ Len(vector) = Cardinality(VectorNodes(Len(nodes))) * NumOutputs(model)
    /\ \A i \in 1 .. Len(nodes) :
         IsVectorLeaf(model.nodes[i]) => OutputKept(model.nodes[i], nodes[i].index)

IntactInv ==
  phase \in {"build", "ready"} => vector \in Seq(Int) /\ ListsKept /\ OutputsKept

LEMMA VectorCounts ==
  ASSUME IsImportable(model), NEW x \in Nat, x + 1 \in 1 .. Len(model.nodes)
  PROVE  /\ Cardinality(VectorNodes(x)) \in Nat /\ NumLeafVector(model) \in Nat
         /\ IsVectorLeaf(model.nodes[x + 1]) =>
              /\ Cardinality(VectorNodes(x + 1)) = Cardinality(VectorNodes(x)) + 1
              /\ Cardinality(VectorNodes(x)) < NumLeafVector(model)
         /\ ~IsVectorLeaf(model.nodes[x + 1]) => VectorNodes(x + 1) = VectorNodes(x)
<1> DEFINE A == VectorNodes(x)
           B == VectorNodes(x + 1)
           all == VectorNodes(Len(model.nodes))
<1>1. Len(model.nodes) \in Nat /\ DOMAIN model.nodes = 1 .. Len(model.nodes)
  BY ModelNodes
<1>2. all = {i \in DOMAIN model.nodes : model.nodes[i].kind = "leaf" /\ Len(model.nodes[i].output) > 1}
  BY <1>1 DEF VectorNodes, IsVectorLeaf
<1>3. Cardinality(all) = NumLeafVector(model)
  BY <1>2 DEF NumLeafVector
<1>4. IsFiniteSet(1 .. Len(model.nodes)) /\ all \subseteq 1 .. Len(model.nodes)
  BY <1>1, FS_Interval DEF VectorNodes
<1>5. A \subseteq all /\ B \subseteq all
  BY <1>1 DEF VectorNodes
<1>6. x + 1 \notin A
  BY DEF VectorNodes
<1>7. IsVectorLeaf(model.nodes[x + 1]) => B = A \cup {x + 1}
  BY DEF VectorNodes
<1>8. ~IsVectorLeaf(model.nodes[x + 1]) => B = A
  BY DEF VectorNodes
<1> HIDE DEF A, B, all
<1>9. IsFiniteSet(all)
  BY <1>4, FS_Subset
<1>10. IsFiniteSet(A) /\ IsFiniteSet(B) /\ Cardinality(B) <= Cardinality(all)
  BY <1>5, <1>9, FS_Subset
<1>11. Cardinality(A) \in Nat /\ Cardinality(B) \in Nat /\ Cardinality(all) \in Nat
  BY <1>9, <1>10, FS_CardinalityType
<1>12. IsVectorLeaf(model.nodes[x + 1]) => Cardinality(B) = Cardinality(A) + 1
  BY <1>6, <1>7, <1>10, FS_AddElement
<1>13. IsVectorLeaf(model.nodes[x + 1]) => Cardinality(A) < NumLeafVector(model)
  BY <1>3, <1>10, <1>11, <1>12
<1> QED
  BY <1>3, <1>8, <1>11, <1>12, <1>13 DEF A, B

(* The leaves of the whole model that have several outputs *)
LEMMA VectorsOfModel ==
  ASSUME IsImportable(model)
  PROVE  /\ Cardinality(VectorNodes(Len(model.nodes))) = NumLeafVector(model)
         /\ NumLeafVector(model) \in Nat
<1> DEFINE all == VectorNodes(Len(model.nodes))
<1>1. Len(model.nodes) \in Nat /\ DOMAIN model.nodes = 1 .. Len(model.nodes)
  BY ModelNodes
<1>2. all = {i \in DOMAIN model.nodes : model.nodes[i].kind = "leaf" /\ Len(model.nodes[i].output) > 1}
  BY <1>1 DEF VectorNodes, IsVectorLeaf
<1>3. IsFiniteSet(1 .. Len(model.nodes)) /\ all \subseteq 1 .. Len(model.nodes)
  BY <1>1, FS_Interval DEF VectorNodes
<1>4. Cardinality(all) = NumLeafVector(model)
  BY <1>2 DEF NumLeafVector
<1> HIDE DEF all
<1>5. Cardinality(all) \in Nat
  BY <1>3, FS_Subset, FS_CardinalityType
<1> QED
  BY <1>4, <1>5 DEF all

(* The leaves of a model are all alike. *)
LEMMA LeavesAlike ==
  ASSUME IsImportable(model), OutputsHeld(model)
  PROVE  /\ NumOutputs(model) \in Nat
         /\ \A i \in 1 .. Len(model.nodes) : IsVectorLeaf(model.nodes[i]) =>
              /\ NumOutputs(model) > 1
              /\ \A j \in 1 .. Len(model.nodes) :
                   model.nodes[j].kind = "leaf" => Len(model.nodes[j].output) = NumOutputs(model)
<1>1. NumOutputs(model) \in Nat
  BY DEF IsImportable, NumOutputs
<1>2. PICK k \in {1, NumOutputs(model)} : \A i \in 1 .. Len(model.nodes) :
        model.nodes[i].kind = "leaf" => Len(model.nodes[i].output) = k
  BY ModelNodes DEF OutputsHeld
<1>3. ASSUME NEW i \in 1 .. Len(model.nodes), IsVectorLeaf(model.nodes[i])
      PROVE  k = NumOutputs(model) /\ k > 1
  BY <1>2, <1>3 DEF IsVectorLeaf
<1> QED
  BY <1>1, <1>2, <1>3

(* An index that reaches every element of the leaves with several outputs
   numbers these leaves. *)
LEMMA VectorIndexed ==
  ASSUME IsImportable(model), OutputsHeld(model), NumOutputs(model) \in Nat \ {0},
         NEW q \in Nat, q < NumLeafVector(model), NumLeafVector(model) \in Nat
  PROVE  AsIndex(types, q) = q
<1> DEFINE k == NumOutputs(model)
           n == NumLeafVector(model)
           t == TwoTo(IndexBits(types))
<1>1. IndexBits(types) \in Nat
  BY WidthFacts
<1>2. t \in Nat /\ UnsignedMax(IndexBits(types)) = t - 1
  BY WidthFacts
<1>3. n * k <= t
  BY DEF OutputsHeld
<1> HIDE DEF k, n, t
<1>4. k \in Nat /\ k >= 1 /\ n \in Nat /\ q < n
  BY DEF k, n
<1>5. 1 * n <= k * n /\ k * n = n * k /\ n * k \in Nat
  BY <1>4, MulMono, MulNat
<1>6. q <= t - 1
  BY <1>2, <1>3, <1>4, <1>5
<1> QED
  BY <1>1, <1>2, <1>6, Wrapped DEF AsIndex

(* Each of the elements of leaf q is found where it was put. *)
LEMMA ElementIndexed ==
  ASSUME NEW n \in Nat, NEW k \in Nat, n * k <= TwoTo(IndexBits(types)), k = NumOutputs(model),
         NEW q \in Nat, q * k + k <= n * k, NEW o \in 1 .. k
  PROVE  VectorElement(q, o) = q * k + o
<1> DEFINE t == TwoTo(IndexBits(types))
           e == q * k
           x == e + (o - 1)
<1>1. IndexBits(types) \in Nat
  BY WidthFacts
<1>2. t \in Nat /\ UnsignedMax(IndexBits(types)) = t - 1
  BY WidthFacts
<1>3. e \in Nat /\ n * k \in Nat
  BY MulNat
<1>a. VectorElement(q, o) = AsIndex(types, x) + 1
  BY DEF VectorElement
<1>b. e + k <= n * k /\ n * k <= t
  OBVIOUS
<1> HIDE DEF e, t
<1>4. x \in Nat /\ x <= t - 1 /\ x + 1 = e + o
  BY <1>2, <1>3, <1>b
<1> HIDE DEF x
<1>5. AsIndex(types, x) = x
  BY <1>1, <1>2, <1>4, Wrapped DEF AsIndex
<1> QED
  BY <1>4, <1>5, <1>a DEF e

(* Outputs that are appended come after q others of the same length. *)
OutputsFollow(w, v, out, k, q) ==
  /\ w \in Seq(Int) /\ Len(w) = (q + 1) * k /\ Len(v) \div k = q
  /\ \A j \in 1 .. (q * k) : w[j] = v[j]
  /\ \A o \in 1 .. k : w[q * k + o] = out[o]

LEMMA OutputsAppended ==
  ASSUME NEW v \in Seq(Int), NEW out \in Seq(Int), NEW k \in Nat \ {0}, NEW q \in Nat,
         Len(out) = k, Len(v) = q * k
  PROVE  OutputsFollow(v \o out, v, out, k, q)
<1>1. /\ v \o out \in Seq(Int) /\ Len(v \o out) = Len(v) + Len(out)
      /\ \A j \in 1 .. (Len(v) + Len(out)) :
           (v \o out)[j] = IF j <= Len(v) THEN v[j] ELSE out[j - Len(v)]
  BY ConcatProperties
<1> DEFINE w == v \o out
           n == q * k
<1>2. n \in Nat /\ (q + 1) * k = n + k
  BY MulNat
<1>3. Len(v) \div k = q
  <2>1. 0 \in 0 .. (k - 1) /\ q * k + 0 = q * k /\ (q * k + 0) \div k = q
    BY MulNat, DivUnique
  <2> QED
    BY <2>1
<1> HIDE DEF w, n
<1>4. /\ w \in Seq(Int) /\ Len(w) = n + k
      /\ \A j \in 1 .. (n + k) : w[j] = IF j <= n THEN v[j] ELSE out[j - n]
  BY <1>1 DEF w, n
<1>5. \A j \in 1 .. n : w[j] = v[j]
  BY <1>2, <1>4
<1>6. ASSUME NEW o \in 1 .. k PROVE w[n + o] = out[o]
  <2>1. n + o \in 1 .. (n + k) /\ ~(n + o <= n) /\ (n + o) - n = o
    BY <1>2
  <2> QED
    BY <1>4, <2>1
<1> QED
  BY <1>2, <1>3, <1>4, <1>5, <1>6 DEF w, n, OutputsFollow

(* A list is read from where it was put. *)
LEMMA ListRead ==
  ASSUME StorageKept, NEW n \in TreeliteNodes,
         AsIndex(types, Len(storage) + 1) = Len(storage) + 1,
         NEW new, new = WithCategories(Grown(n), n, Len(storage))
  PROVE  /\ new[Len(storage) + 1].bits = {}
         /\ \A i \in 1 .. Bins(Count(n)) : new[Len(storage) + 1 + i].count = 0
         /\ \A j \in 1 .. Len(storage) : new[j].count = storage[j].count
                                         /\ new[j].bits = storage[j].bits
         /\ \A c \in 0 .. (Count(n) - 1) :
              c % IndexBits(types) \in new[Len(storage) + 2 + c \div IndexBits(types)].bits
                <=> c \in n.categories
<1> DEFINE L == Len(storage)
           k == Bins(Count(n))
           w == IndexBits(types)
           q(c) == c \div w
           r(c) == c % w
           P(j) == {r(c) : c \in {d \in n.categories : (L + 1) + 1 + q(d) = j}}
<1>1. storage \in Seq(StorageBin) /\ L \in Nat
  <2>1. storage \in Seq(StorageBin)
    BY DEF StorageKept
  <2> QED
    BY <2>1, LenProperties
<1>2. /\ \A j \in 1 .. L : new[j].count = storage[j].count
                           /\ new[j].bits = storage[j].bits \cup Placed(n, L, j)
      /\ new[L + 1].bits = Placed(n, L, L + 1)
      /\ \A i \in 1 .. k : /\ new[L + 1 + i].count = 0
                          /\ new[L + 1 + i].bits = Placed(n, L, L + 1 + i)
  <2>1. ASSUME NEW x \in Nat, new = WithCategories(Grown(n), n, x)
        PROVE  /\ \A j \in 1 .. L : new[j].count = storage[j].count
                                   /\ new[j].bits = storage[j].bits \cup Placed(n, x, j)
               /\ new[L + 1].bits = Placed(n, x, L + 1)
               /\ \A i \in 1 .. k : /\ new[L + 1 + i].count = 0
                                   /\ new[L + 1 + i].bits = Placed(n, x, L + 1 + i)
    BY <2>1, StorageGrows
  <2> HIDE DEF k, w, P
  <2> QED
    BY <1>1, <2>1
<1>3. \A j : Placed(n, L, j) = P(j)
  BY DEF Placed
<1>4. Count(n) \in Nat \ {0} /\ k \in Nat /\ \A c \in n.categories : c \in 0 .. (Count(n) - 1)
  BY CountFacts, BinsFacts
<1>5. w \in Nat \ {0}
  BY WidthFacts
<1> HIDE DEF w
<1>6. ASSUME NEW c \in Nat
      PROVE  q(c) \in Nat /\ r(c) \in Nat /\ c = q(c) * w + r(c)
  <2>1. c \div w \in Nat /\ c % w \in 0 .. (w - 1) /\ c = (c \div w) * w + (c % w)
    BY <1>5, DivMod
  <2> HIDE DEF q, r
  <2>2. q(c) \in Nat /\ r(c) \in 0 .. (w - 1) /\ c = q(c) * w + r(c)
    BY <2>1 DEF q, r
  <2> QED
    BY <2>2
<1>7. \A c \in 0 .. (Count(n) - 1) : q(c) \in 0 .. (k - 1)
  BY <1>4, BinsFacts DEF w
<1> HIDE DEF q, r
<1>8. \A c \in Nat : \A d \in Nat : q(c) = q(d) /\ r(c) = r(d) => c = d
  BY <1>6
<1> HIDE DEF L, k
<1>9. \A c \in n.categories : c \in Nat
  BY <1>4
<1>a. ASSUME NEW j \in 1 .. (L + 1) PROVE P(j) = {}
  <2>0. ASSUME NEW d \in n.categories PROVE (L + 1) + 1 + q(d) # j
    <3> DEFINE x == q(d)
    <3>1. x \in Nat
      BY <1>6, <1>9
    <3> HIDE DEF x
    <3>2. (L + 1) + 1 + x # j
      BY <1>1, <3>1
    <3> QED
      BY <3>2 DEF x
  <2> QED
    BY <2>0
<1>b. new[L + 1].bits = {}
  <2>1. L + 1 \in 1 .. (L + 1)
    BY <1>1
  <2> HIDE DEF P
  <2> QED
    BY <1>2, <1>3, <1>a, <2>1
<1>10. ASSUME NEW j \in 1 .. L
       PROVE  new[j].count = storage[j].count /\ new[j].bits = storage[j].bits
  <2>0. j \in 1 .. (L + 1)
    BY <1>1
  <2>1. P(j) = {}
    BY <1>a, <2>0
  <2> HIDE DEF P
  <2>2. new[j].bits = storage[j].bits \cup P(j) /\ new[j].count = storage[j].count
    BY <1>2, <1>3
  <2> QED
    BY <2>1, <2>2
<1>11. ASSUME NEW c \in 0 .. (Count(n) - 1)
       PROVE  r(c) \in new[L + 2 + q(c)].bits <=> c \in n.categories
  <2> DEFINE i == q(c) + 1
             p == L + 2 + q(c)
  <2>0. c \in Nat /\ q(c) \in 0 .. (k - 1) /\ k \in Nat /\ L \in Nat
    BY <1>1, <1>4, <1>7
  <2>1. c \in Nat /\ q(c) \in Nat /\ i \in 1 .. k /\ L + 1 + i = p
    BY <2>0
  <2>2. new[p].bits = P(p)
    <3> HIDE DEF P, i, p
    <3> QED
      BY <1>2, <1>3, <2>1
  <2>a. (L + 1) + 1 + q(c) = p
    BY <1>1, <2>1
  <2>3. c \in n.categories => r(c) \in P(p)
    BY <2>a
  <2>4. ASSUME r(c) \in P(p) PROVE c \in n.categories
    <3>1. PICK d \in n.categories : (L + 1) + 1 + q(d) = p /\ r(d) = r(c)
      BY <2>4
    <3>2. d \in Nat /\ q(d) \in Nat
      BY <1>6, <1>9
    <3>3. q(d) = q(c)
      <4> DEFINE x == q(c)
                 y == q(d)
      <4>1. x \in Nat /\ y \in Nat /\ L \in Nat
        BY <1>1, <2>1, <3>2
      <4>2. (L + 1) + 1 + y = L + 2 + x
        BY <3>1 DEF p
      <4> HIDE DEF x, y, p
      <4>3. y = x
        BY <4>1, <4>2
      <4> QED
        BY <4>3 DEF x, y
    <3>4. d = c
      BY <1>8, <2>1, <3>1, <3>2, <3>3
    <3> QED
      BY <3>4
  <2> HIDE DEF P, p
  <2>5. r(c) \in new[p].bits <=> c \in n.categories
    BY <2>2, <2>3, <2>4
  <2> QED
    BY <2>5 DEF p
<1> QED
  BY <1>2, <1>10, <1>11, <1>b DEF L, k, q, r, w

LEMMA OutputsStillKept ==
  ASSUME ImportInv, IntactInv, Building, UNCHANGED <<arguments, types>>,
         NEW value, NEW index, NEW bits, AddNode(Current, value, index, bits),
         ~IsVectorLeaf(Current) => vector' = vector,
         IsVectorLeaf(Current) => /\ index = AsIndex(types, Len(vector) \div Len(Current.output))
                                  /\ vector' = vector \o Current.output
  PROVE  vector' \in Seq(Int) /\ OutputsKept'
<1> DEFINE x == Len(nodes)
           k == NumOutputs(model)
           q == Cardinality(VectorNodes(x))
<1>1. /\ x \in Nat /\ x + 1 \in 1 .. Len(model.nodes)
      /\ Current = model.nodes[x + 1] /\ Current \in TreeliteNodes
      /\ Len(nodes') = x + 1
      /\ \A i \in 1 .. x : nodes'[i] = nodes[i]
      /\ nodes'[x + 1] = StoredNode(Current, value, index, bits)
      /\ model' = model /\ types' = types
  BY NextNode
<1>2. IsImportable(model) /\ types = Chosen /\ vector \in Seq(Int) /\ OutputsKept
  BY DEF ImportInv, IntactInv, Building
<1>3. Current.output \in Seq(Int)
  BY <1>1, NodeFields
<1>4. vector' \in Seq(Int)
  BY <1>2, <1>3, ConcatProperties
<1>5. nodes'[x + 1].index = index
  BY <1>1, KeptFields
<1>6. VectorNodes(x)' = VectorNodes(x + 1)
  BY <1>1 DEF VectorNodes
<1>7. SUFFICES ASSUME OutputsHeld(model)
               PROVE  /\ Len(vector') = Cardinality(VectorNodes(x + 1)) * k
                      /\ \A i \in 1 .. (x + 1) : IsVectorLeaf(model.nodes[i]) =>
                           LET d == nodes'[i].index
                           IN  /\ d \in Nat /\ d * k + k <= Len(vector')
                               /\ \A o \in 1 .. k : vector'[d * k + o] = model.nodes[i].output[o]
  BY <1>1, <1>4, <1>6 DEF OutputsKept, OutputKept, OutputsHeld
<1>8. /\ Len(vector) = q * k
      /\ \A i \in 1 .. x : IsVectorLeaf(model.nodes[i]) =>
           LET d == nodes[i].index
           IN  /\ d \in Nat /\ d * k + k <= Len(vector)
               /\ \A o \in 1 .. k : vector[d * k + o] = model.nodes[i].output[o]
  BY <1>2, <1>7 DEF OutputsKept, OutputKept
<1>9. /\ q \in Nat /\ NumLeafVector(model) \in Nat
      /\ IsVectorLeaf(Current) => /\ Cardinality(VectorNodes(x + 1)) = q + 1
                                  /\ q < NumLeafVector(model)
      /\ ~IsVectorLeaf(Current) => Cardinality(VectorNodes(x + 1)) = q
  BY <1>1, <1>2, VectorCounts
<1>10. k \in Nat /\ (IsVectorLeaf(Current) => k > 1 /\ Len(Current.output) = k)
  BY <1>1, <1>2, <1>7, LeavesAlike DEF IsVectorLeaf
<1> HIDE DEF x, k, q
<1>11. CASE ~IsVectorLeaf(Current)
  <2>1. vector' = vector /\ Cardinality(VectorNodes(x + 1)) = q
    BY <1>9, <1>11
  <2>2. ASSUME NEW i \in 1 .. (x + 1), IsVectorLeaf(model.nodes[i])
        PROVE  i \in 1 .. x /\ nodes'[i] = nodes[i]
    BY <1>1, <1>11, <2>2
  <2> QED
    BY <1>8, <2>1, <2>2
<1>12. CASE IsVectorLeaf(Current)
  <2> DEFINE out == Current.output
             new == vector'
  <2>1. new = vector \o out /\ k \in Nat \ {0} /\ Len(out) = k
    BY <1>10, <1>12
  <2>2. /\ Len(new) = (q + 1) * k /\ Len(vector) \div k = q
        /\ \A j \in 1 .. (q * k) : new[j] = vector[j]
        /\ \A o \in 1 .. k : new[q * k + o] = out[o]
    <3> DEFINE both == vector \o out
    <3>1. out \in Seq(Int) /\ vector \in Seq(Int) /\ q \in Nat /\ Len(vector) = q * k
      BY <1>2, <1>3, <1>8, <1>9
    <3>2. OutputsFollow(both, vector, out, k, q)
      <4> HIDE DEF out
      <4> QED
        BY <2>1, <3>1, OutputsAppended
    <3>3. new = both
      BY <2>1
    <3> HIDE DEF new, both, out
    <3> QED
      BY <3>2, <3>3 DEF OutputsFollow
  <2>3. index = q
    <3>1. index = AsIndex(types, Len(vector) \div k)
      BY <1>12, <2>1
    <3>a. NumOutputs(model) \in Nat \ {0}
      BY <2>1 DEF k
    <3>2. AsIndex(types, q) = q
      BY <1>2, <1>7, <1>9, <1>12, <3>a, VectorIndexed
    <3> QED
      BY <2>2, <3>1, <3>2
  <2> HIDE DEF out, new
  <2>4. q * k \in Nat /\ (q + 1) * k = q * k + k
    BY <1>9, <1>10, MulNat
  <2>5. ASSUME NEW i \in 1 .. x, IsVectorLeaf(model.nodes[i])
        PROVE  LET d == nodes'[i].index
               IN  /\ d \in Nat /\ d * k + k <= Len(new)
                   /\ \A o \in 1 .. k : new[d * k + o] = model.nodes[i].output[o]
    <3> DEFINE d == nodes[i].index
               e == d * k
    <3>1. /\ d \in Nat /\ d * k + k <= q * k
          /\ \A o \in 1 .. k : vector[d * k + o] = model.nodes[i].output[o]
      BY <1>8, <2>5
    <3>2. e \in Nat
      BY <1>10, <3>1, MulNat
    <3> DEFINE l == q * k
    <3>3. nodes'[i].index = d
      BY <1>1
    <3> HIDE DEF d
    <3>4. e + k <= l /\ l \in Nat /\ Len(new) = l + k /\ \A j \in 1 .. l : new[j] = vector[j]
      BY <2>2, <2>4, <3>1
    <3> HIDE DEF e, l
    <3>5. \A o \in 1 .. k : new[e + o] = vector[e + o]
      BY <1>10, <3>2, <3>4
    <3>6. e + k <= Len(new)
      BY <1>10, <3>2, <3>4
    <3> QED
      BY <3>1, <3>3, <3>5, <3>6 DEF e
  <2>6. LET d == nodes'[x + 1].index
        IN  /\ d \in Nat /\ d * k + k <= Len(new)
            /\ \A o \in 1 .. k : new[d * k + o] = out[o]
    BY <1>5, <1>9, <2>2, <2>3, <2>4 DEF x
  <2>7. \A i \in 1 .. (x + 1) : i \in 1 .. x \/ i = x + 1
    BY <1>1
  <2>8. model.nodes[x + 1].output = out
    BY <1>1 DEF out
  <2>9. Len(new) = Cardinality(VectorNodes(x + 1)) * k
    BY <1>9, <1>12, <2>2
  <2> QED
    BY <2>5, <2>6, <2>7, <2>8, <2>9 DEF new
<1> QED
  BY <1>11, <1>12

LEMMA ListsStillKept ==
  ASSUME ImportInv, IntactInv, Building, UNCHANGED <<arguments, types>>,
         NEW value, NEW index, NEW bits, AddNode(Current, value, index, bits),
         ~(External /\ IsCategorical(Current)) => storage' = storage,
         External /\ IsCategorical(Current) =>
           /\ index = AsIndex(types, Len(storage))
           /\ storage' = WithCategories(Grown(Current), Current, index)
  PROVE  ListsKept'
<1> DEFINE x == Len(nodes)
           n == Current
           L == Len(storage)
           M == Len(storage')
           w == IndexBits(types)
<1>1. /\ x \in Nat /\ x + 1 \in 1 .. Len(model.nodes)
      /\ n = model.nodes[x + 1] /\ n \in TreeliteNodes
      /\ Len(nodes') = x + 1
      /\ \A i \in 1 .. x : nodes'[i] = nodes[i]
      /\ nodes'[x + 1] = StoredNode(n, value, index, bits)
      /\ model' = model /\ types' = types
  BY NextNode
<1>2. IsImportable(model) /\ StorageKept /\ ListsKept
  BY DEF ImportInv, IntactInv, Building
<1>3. storage \in Seq(StorageBin) /\ L \in Nat
  <2>1. storage \in Seq(StorageBin)
    BY <1>2 DEF StorageKept
  <2> QED
    BY <2>1, LenProperties
<1>4. nodes'[x + 1].index = index
  BY <1>1, KeptFields
<1>5. SUFFICES ASSUME External, M <= TwoTo(w),
                      NEW i \in 1 .. (x + 1), IsCategorical(model.nodes[i])
               PROVE  ListKept(model.nodes[i], nodes[i].index)'
  BY <1>1 DEF ListsKept, ListsIndexed, External
<1>6. CASE ~IsCategorical(n)
  <2>1. storage' = storage
    BY <1>6
  <2>2. i \in 1 .. x /\ nodes'[i] = nodes[i]
    BY <1>1, <1>5, <1>6
  <2>3. ListKept(model.nodes[i], nodes[i].index)
    BY <1>2, <1>5, <2>1, <2>2 DEF ListsKept, ListsIndexed
  <2> QED
    BY <1>1, <2>1, <2>2, <2>3 DEF ListKept, Bins, Count
<1>7. CASE IsCategorical(n)
  <2>1. index = AsIndex(types, L) /\ storage' = WithCategories(Grown(n), n, index)
    BY <1>5, <1>7
  <2>2. index \in Nat
    BY <1>3, <2>1, WidthFacts, Wrapped DEF AsIndex
  <2>3. M \in Nat /\ L < M /\ M = L + 1 + Bins(Count(n))
    BY <1>1, <1>2, <2>1, ListAdded
  <2>4. index = L /\ AsIndex(types, L + 1) = L + 1
    <3> DEFINE k == Bins(Count(n))
               t == TwoTo(w)
    <3>1. w \in Nat /\ UnsignedMax(w) = t - 1 /\ t \in Nat
      BY WidthFacts
    <3>2. k \in Nat /\ k > 0
      <4>1. /\ Count(n) \in Nat \ {0}
            /\ \A c \in 0 .. (Count(n) - 1) : c \div w \in 0 .. (k - 1)
            /\ k \in Nat
        BY <1>1, CountFacts, BinsFacts
      <4>2. 0 \div w \in 0 .. (k - 1)
        BY <4>1
      <4> HIDE DEF k
      <4> QED
        BY <4>1, <4>2
    <3> HIDE DEF k, t, L, M
    <3>3. L <= t - 1 /\ L + 1 <= t - 1
      BY <1>3, <1>5, <2>3, <3>1, <3>2 DEF k, t
    <3> HIDE DEF w
    <3>4. L % TwoTo(w) = L /\ (L + 1) % TwoTo(w) = L + 1
      <4> DEFINE p == L + 1
      <4>1. p \in Nat /\ p <= UnsignedMax(w) /\ L <= UnsignedMax(w)
        BY <1>3, <3>1, <3>3
      <4> HIDE DEF p
      <4>2. L % TwoTo(w) = L
        BY <1>3, <3>1, <4>1, Wrapped
      <4>3. p % TwoTo(w) = p
        BY <3>1, <4>1, Wrapped
      <4> QED
        BY <4>2, <4>3 DEF p
    <3> QED
      BY <2>1, <3>4 DEF AsIndex, w
  <2>5. /\ storage'[L + 1].bits = {}
        /\ \A p \in 1 .. Bins(Count(n)) : storage'[L + 1 + p].count = 0
        /\ \A j \in 1 .. L : storage'[j].count = storage[j].count
                             /\ storage'[j].bits = storage[j].bits
        /\ \A c \in 0 .. (Count(n) - 1) :
             c % w \in storage'[L + 2 + c \div w].bits <=> c \in n.categories
    BY <1>1, <1>2, <2>1, <2>4, ListRead
  <2>6. storage'[L + 1].count = Count(n)
    BY <1>1, <1>2, <2>1, <2>2, StorageGrows
  <2>7. CASE i = x + 1
    <3>1. model'.nodes[i] = n /\ nodes'[i].index = L
      BY <1>1, <1>4, <2>4, <2>7
    <3>2. Count(n) \in Nat /\ Bins(Count(n)) \in Nat
      BY <1>1, CountFacts, BinsFacts
    <3>3. L + 1 + Bins(Count(n)) <= M
      BY <1>3, <2>3, <3>2
    <3> DEFINE k == CeilDivide(Count(n), w)
    <3>4. L + 1 + k <= M /\ \A p \in 1 .. k : storage'[L + 1 + p].count = 0
      BY <2>5, <3>3 DEF Bins
    <3>5. types' = types
      BY <1>1
    <3> QED
      BY <1>3, <2>5, <2>6, <3>1, <3>4, <3>5 DEF ListKept, Bins, Count
  <2>8. CASE i \in 1 .. x
    <3> DEFINE m == model.nodes[i]
               p == nodes[i].index
               k == Bins(Count(m))
    <3>1. ListKept(m, p) /\ m \in TreeliteNodes
      <4>1. TwoTo(w) \in Nat
        BY WidthFacts
      <4>2. L <= TwoTo(w)
        BY <1>3, <1>5, <2>3, <4>1
      <4> QED
        BY <1>1, <1>2, <1>5, <2>8, <4>2, ModelNodes DEF ListsKept, ListsIndexed
    <3>2. /\ p \in Nat /\ p + 1 + k <= L /\ storage[p + 1].count = Count(m)
          /\ storage[p + 1].bits = {}
          /\ \A h \in 1 .. k : storage[p + 1 + h].count = 0
          /\ \A c \in 0 .. (Count(m) - 1) :
               c % w \in storage[p + 2 + c \div w].bits <=> c \in m.categories
      BY <3>1 DEF ListKept
    <3>3. k \in Nat /\ \A c \in 0 .. (Count(m) - 1) : c \div w \in 0 .. (k - 1)
      BY <3>1, CountFacts, BinsFacts
    <3> DEFINE q(c) == c \div w
               r(c) == c % w
    <3>4. /\ \A c \in 0 .. (Count(m) - 1) :
               r(c) \in storage[p + 2 + q(c)].bits <=> c \in m.categories
          /\ \A c \in 0 .. (Count(m) - 1) : q(c) \in 0 .. (k - 1)
      BY <3>2, <3>3
    <3>5. model'.nodes[i] = m /\ nodes'[i].index = p /\ types' = types
      BY <1>1, <2>8
    <3>6. k = CeilDivide(Count(m), w)
      BY DEF Bins
    <3> HIDE DEF q, r, m, p, k, L, M
    <3>7. p + 1 \in 1 .. L /\ p + 1 + k <= M
      BY <1>3, <2>3, <3>2, <3>3
    <3>8. storage'[p + 1].count = Count(m) /\ storage'[p + 1].bits = {}
      BY <2>5, <3>2, <3>7
    <3>a. ASSUME NEW h \in 1 .. k PROVE storage'[p + 1 + h].count = 0
      <4> DEFINE j == p + 1 + h
      <4>1. j \in 1 .. L
        BY <1>3, <3>2, <3>3
      <4>2. storage[j].count = 0
        BY <3>2
      <4> HIDE DEF j
      <4>3. storage'[j].count = 0
        BY <2>5, <4>1, <4>2
      <4> QED
        BY <4>3 DEF j
    <3>9. ASSUME NEW c \in 0 .. (Count(m) - 1)
          PROVE  r(c) \in storage'[p + 2 + q(c)].bits <=> c \in m.categories
      <4> DEFINE j == p + 2 + q(c)
      <4>1. q(c) \in 0 .. (k - 1)
        BY <3>4
      <4>2. j \in 1 .. L
        BY <1>3, <3>2, <3>3, <4>1, SMTT(40)
      <4>3. r(c) \in storage[j].bits <=> c \in m.categories
        BY <3>4
      <4> HIDE DEF j
      <4>4. storage'[j].bits = storage[j].bits
        BY <2>5, <4>2
      <4>5. r(c) \in storage'[j].bits <=> c \in m.categories
        BY <4>3, <4>4
      <4> QED
        BY <4>5 DEF j
    <3>10. \A c \in 0 .. (Count(m) - 1) :
             c % w \in storage'[p + 2 + c \div w].bits <=> c \in m.categories
      BY <3>9 DEF q, r
    <3> HIDE DEF w
    <3>11. /\ p + 1 + CeilDivide(Count(m), w) <= M
           /\ \A h \in 1 .. CeilDivide(Count(m), w) : storage'[p + 1 + h].count = 0
      BY <3>6, <3>7, <3>a
    <3> QED
      BY <3>2, <3>5, <3>8, <3>10, <3>11 DEF ListKept, Bins, Count, M, w
  <2> QED
    BY <1>1, <1>5, <2>7, <2>8
<1> QED
  BY <1>6, <1>7

LEMMA IntactBegins == Init => IntactInv
  BY DEF Init, IntactInv

LEMMA IntactAdvances == ImportInv /\ IntactInv /\ [Next]_vars => IntactInv'
<1> SUFFICES ASSUME ImportInv, IntactInv, [Next]_vars PROVE IntactInv'
  OBVIOUS
<1>1. ASSUME UNCHANGED <<arguments, forest>>,
             \/ phase' = phase
             \/ phase' = "failed"
             \/ phase = "build" /\ phase' = "ready"
      PROVE  IntactInv'
  <2>1. /\ model' = model /\ layout' = layout /\ precision' = precision
        /\ types' = types /\ nodes' = nodes /\ vector' = vector /\ storage' = storage
    BY <1>1 DEF arguments, forest
  <2>2. (External' <=> External) /\ (ListsIndexed' <=> ListsIndexed)
    BY <2>1 DEF External, ListsIndexed
  <2>3. ListsKept => ListsKept'
    BY <2>1, <2>2 DEF ListsKept, ListKept, Bins, Count
  <2>4. OutputsKept => OutputsKept'
    BY <2>1 DEF OutputsKept, OutputKept, OutputsHeld, VectorNodes
  <2> QED
    BY <1>1, <2>1, <2>3, <2>4 DEF IntactInv
<1>2. CASE Choose
  <2>1. /\ model' = model /\ nodes' = nodes /\ vector' = vector
        /\ phase = "called" /\ phase' = "build"
    BY <1>2 DEF Choose, arguments
  <2>2. Len(nodes') = 0 /\ vector' = <<>> /\ Len(vector') = 0 /\ IsImportable(model)
    BY <2>1, EmptySeq DEF ImportInv, IInv
  <2>3. ListsKept'
    BY <2>2 DEF ListsKept
  <2>4. OutputsKept'
    <3>1. VectorNodes(0)' = {} /\ Cardinality({}) = 0
      BY FS_EmptySet DEF VectorNodes
    <3>2. NumOutputs(model') \in Nat
      BY <2>1, <2>2 DEF IsImportable, NumOutputs
    <3>3. Cardinality(VectorNodes(Len(nodes))') = 0
      BY <2>2, <3>1 DEF VectorNodes
    <3>4. Len(vector') = Cardinality(VectorNodes(Len(nodes))') * NumOutputs(model')
      BY <2>2, <3>2, <3>3
    <3> QED
      BY <2>2, <3>4 DEF OutputsKept
  <2>5. vector' \in Seq(Int)
    BY <2>2, EmptySeq
  <2> QED
    BY <2>3, <2>4, <2>5 DEF IntactInv
<1>3. CASE AddLeaf
  <2>1. /\ Building /\ UNCHANGED <<arguments, types, storage>> /\ Current.kind = "leaf"
        /\ ~IsCategorical(Current)
    BY <1>3 DEF AddLeaf, IsCategorical
  <2>2. PICK value, index :
          /\ AddNode(Current, value, index, {})
          /\ ~IsVectorLeaf(Current) => vector' = vector
          /\ IsVectorLeaf(Current) => /\ index = AsIndex(types, Len(vector) \div Len(Current.output))
                                      /\ vector' = vector \o Current.output
    BY <1>3 DEF AddLeaf, IsVectorLeaf
  <2>3. ListsKept'
    BY <2>1, <2>2, ListsStillKept
  <2>4. vector' \in Seq(Int) /\ OutputsKept'
    BY <2>1, <2>2, OutputsStillKept
  <2> QED
    BY <2>3, <2>4 DEF IntactInv
<1>4. CASE AddNumeric
  <2>1. /\ Building /\ UNCHANGED <<arguments, types, vector, storage>>
        /\ ~IsVectorLeaf(Current) /\ ~IsCategorical(Current)
    BY <1>4 DEF AddNumeric, IsCategorical, IsVectorLeaf
  <2>2. PICK value : AddNode(Current, value, 0, {})
    BY <1>4 DEF AddNumeric
  <2>3. ListsKept'
    BY <2>1, <2>2, ListsStillKept
  <2>4. vector' \in Seq(Int) /\ OutputsKept'
    BY <2>1, <2>2, OutputsStillKept
  <2> QED
    BY <2>3, <2>4 DEF IntactInv
<1>5. CASE AddCategorical
  <2>1. /\ Building /\ UNCHANGED <<arguments, types, vector>> /\ ~IsVectorLeaf(Current)
    BY <1>5 DEF AddCategorical, IsVectorLeaf
  <2>2. PICK index, bits :
          /\ AddNode(Current, 0, index, bits)
          /\ ~(External /\ IsCategorical(Current)) => storage' = storage
          /\ External /\ IsCategorical(Current) =>
               /\ index = AsIndex(types, Len(storage))
               /\ storage' = WithCategories(Grown(Current), Current, index)
    BY <1>5 DEF AddCategorical, IsCategorical
  <2>3. ListsKept'
    BY <2>1, <2>2, ListsStillKept
  <2>4. vector' \in Seq(Int) /\ OutputsKept'
    BY <2>1, <2>2, OutputsStillKept
  <2> QED
    BY <2>3, <2>4 DEF IntactInv
<1>6. CASE Reject
  BY <1>1, <1>6 DEF Reject
<1>7. CASE RejectNode
  BY <1>1, <1>7 DEF RejectNode
<1>8. CASE Finish
  BY <1>1, <1>8 DEF Finish, Built
<1>9. CASE RejectForest
  BY <1>1, <1>9 DEF RejectForest
<1>10. CASE \E op \in RowOps : SetRow(op)
  BY <1>1, <1>10 DEF SetRow
<1>11. CASE \E kind \in {"default", "per_tree", "leaf_id"}, row \in Rows : Predict(kind, row)
  BY <1>1, <1>11 DEF Predict
<1>12. CASE Failed \/ UNCHANGED vars
  BY <1>1, <1>12 DEF Failed, vars
<1> QED
  BY <1>2, <1>3, <1>4, <1>5, <1>6, <1>7, <1>8, <1>9, <1>10, <1>11, <1>12 DEF Next

(* Offsets and features are within the fields of the types that were chosen. *)
LEMMA FieldsExact ==
  ASSUME ImportInv, types = Chosen, NEW i \in 1 .. Len(model.nodes)
  PROVE  /\ AsOffset(types, model.nodes[i].offset) = model.nodes[i].offset
         /\ model.nodes[i].kind # "leaf" =>
              AsMetadata(types, model.nodes[i].feature) = model.nodes[i].feature
<1> DEFINE n == model.nodes[i]
<1>1. IsImportable(model) /\ n \in TreeliteNodes
  BY ModelNodes DEF ImportInv
<1>2. OffsetBits(types) \in Nat /\ MetadataBits(types) \in Nat
  BY WidthFacts
<1>3. n.offset \in 0 .. UnsignedMax(LargeOffsetBits) /\ n.feature \in 0 .. UnsignedMax(LargeMetadataBits)
  BY <1>1, NodeFields
<1>4. n.offset \in Nat /\ n.feature \in Nat
  BY <1>3
<1>5. n.offset <= UnsignedMax(OffsetBits(types))
  <2>1. CASE types.large
    BY <1>3, <2>1 DEF OffsetBits
  <2>2. CASE ~types.large
    <3>1. ~(MaxOffset(model) > UnsignedMax(SmallOffsetBits))
      BY <2>2, ChosenFields DEF LargeTreesRequired
    <3>2. MaxOffset(model) \in Nat /\ n.offset <= MaxOffset(model)
      BY <1>1, OffsetBelowMax
    <3>3. UnsignedMax(SmallOffsetBits) \in Nat
      BY BitsAssumption, WidthFacts
    <3> QED
      BY <1>4, <2>2, <3>1, <3>2, <3>3 DEF OffsetBits
  <2> QED
    BY <2>1, <2>2
<1>6. ASSUME n.kind # "leaf" PROVE n.feature <= UnsignedMax(MetadataBits(types))
  <2>1. CASE types.large
    BY <1>3, <2>1 DEF MetadataBits
  <2>2. CASE ~types.large
    <3> DEFINE a == UnsignedMax(SmallMetadataBits)
               r == TwoTo(ReservedMetadataBits)
               q == a \div r
    <3>1. ~(model.num_feature > q)
      BY <2>2, ChosenFields DEF LargeTreesRequired
    <3>2. n.feature < model.num_feature /\ model.num_feature \in Nat
      BY <1>1, <1>6, ModelNodes DEF IsImportable
    <3>3. a \in Nat /\ r \in Nat \ {0}
      BY BitsAssumption, WidthFacts
    <3> HIDE DEF a, r
    <3>4. q \in Nat /\ q <= a
      <4> DEFINE s == a % r
      <4>1. q \in Nat /\ s \in 0 .. (r - 1) /\ a = q * r + s
        BY <3>3, DivMod
      <4> HIDE DEF q, s
      <4>2. q * 1 <= q * r /\ q * r \in Nat
        BY <3>3, <4>1
      <4> QED
        BY <3>3, <4>1, <4>2
    <3> HIDE DEF q
    <3>5. n.feature <= a
      BY <1>4, <3>1, <3>2, <3>3, <3>4
    <3> QED
      BY <2>2, <3>5 DEF MetadataBits, a
  <2> QED
    BY <2>1, <2>2
<1> HIDE DEF n
<1>7. AsOffset(types, n.offset) = n.offset
  BY <1>2, <1>4, <1>5, Wrapped DEF AsOffset
<1>8. n.kind # "leaf" => AsMetadata(types, n.feature) = n.feature
  BY <1>2, <1>4, <1>6, Wrapped DEF AsMetadata
<1> QED
  BY <1>7, <1>8 DEF n

(* The outputs of a leaf, whichever way they are stored *)
LEMMA LeafReadBack ==
  ASSUME ImportInv, IntactInv, phase = "ready", OutputsHeld(model),
         NEW i \in 1 .. Len(nodes), model.nodes[i].kind = "leaf",
         NEW o \in DOMAIN model.nodes[i].output
  PROVE  LeafOutput(i, o) = model.nodes[i].output[o]
<1> DEFINE n == model.nodes[i]
           k == NumOutputs(model)
           q == Cardinality(VectorNodes(Len(nodes)))
<1>1. IsImportable(model) /\ Len(nodes) = Len(model.nodes) /\ NodesKept /\ OutputsKept /\ vector \in Seq(Int)
  BY DEF ImportInv, IntactInv
<1>2. Len(model.nodes) \in Nat /\ n \in TreeliteNodes
  BY <1>1, ModelNodes
<1>3. o \in 1 .. Len(n.output) /\ Len(n.output) \in Nat
  BY <1>2, NodeFields
<1>4. Len(vector) = q * k /\ (IsVectorLeaf(n) => OutputKept(n, nodes[i].index))
  BY <1>1 DEF OutputsKept
<1>5. k \in Nat
  BY <1>1, LeavesAlike
<1>6. CASE IsVectorLeaf(n)
  <2>1. /\ nodes[i].index \in Nat /\ nodes[i].index * k + k <= Len(vector)
        /\ \A p \in 1 .. k : vector[nodes[i].index * k + p] = n.output[p]
    BY <1>4, <1>6 DEF OutputKept
  <2>2. k > 1 /\ Len(n.output) = k
    BY <1>1, <1>6, LeavesAlike
  <2>3. vector # <<>>
    <3>1. nodes[i].index * k \in Nat
      BY <1>5, <2>1, MulNat
    <3>2. Len(vector) # 0
      BY <1>5, <2>1, <2>2, <3>1
    <3> QED
      BY <3>2, EmptySeq
  <2>4. VectorElement(nodes[i].index, o) = nodes[i].index * k + o
    <3>1. q = NumLeafVector(model) /\ q \in Nat
      BY <1>1, VectorsOfModel
    <3>2. q * k <= TwoTo(IndexBits(types))
      BY <3>1 DEF OutputsHeld
    <3> HIDE DEF q
    <3> QED
      BY <1>3, <1>4, <1>5, <2>1, <2>2, <3>1, <3>2, ElementIndexed
  <2> QED
    BY <1>3, <2>1, <2>2, <2>3, <2>4 DEF LeafOutput
<1>7. CASE ~IsVectorLeaf(n)
  <2>1. ~(Len(n.output) > 1)
    BY <1>7 DEF IsVectorLeaf
  <2>2. o = 1
    BY <1>3, <2>1
  <2>3. nodes[i].value = n.output[1]
    BY <1>1, <2>1 DEF NodesKept, NodeKept
  <2>4. \A j \in 1 .. Len(nodes) : ~IsVectorLeaf(model.nodes[j])
    <3> SUFFICES ASSUME NEW j \in 1 .. Len(nodes), IsVectorLeaf(model.nodes[j])
                 PROVE  FALSE
      OBVIOUS
    <3>1. k > 1 /\ Len(n.output) = k
      BY <1>1, LeavesAlike
    <3> QED
      BY <1>5, <2>1, <3>1
  <2>5. VectorNodes(Len(nodes)) = {}
    BY <2>4 DEF VectorNodes
  <2>6. q = 0
    BY <2>5, FS_EmptySet
  <2> HIDE DEF q
  <2>7. Len(vector) = 0
    BY <1>4, <1>5, <2>6
  <2>8. vector = <<>>
    BY <1>1, <2>7, EmptySeq
  <2> QED
    BY <2>2, <2>3, <2>8 DEF LeafOutput
<1> QED
  BY <1>6, <1>7

(* The categories of a test, wherever they are stored *)
LEMMA CategoriesReadBack ==
  ASSUME ImportInv, IntactInv, phase = "ready", ListsIndexed,
         NEW i \in 1 .. Len(nodes), IsCategorical(model.nodes[i]), NEW c \in Nat
  PROVE  InCategories(nodes[i], c) <=> c \in model.nodes[i].categories
<1> DEFINE n == model.nodes[i]
           d == nodes[i]
<1>1. IsImportable(model) /\ Len(nodes) = Len(model.nodes) /\ NodesKept /\ ListsKept
  BY DEF ImportInv, IntactInv
<1>2. n \in TreeliteNodes
  BY <1>1, ModelNodes
<1>3. CASE ~External
  <2>1. d.bits = n.categories
    BY <1>1, <1>3 DEF NodesKept, NodeKept
  <2> QED
    BY <1>3, <2>1 DEF InCategories
<1>4. CASE External
  <2>1. ListKept(n, d.index)
    BY <1>1, <1>4 DEF ListsKept
  <2>2. Count(n) \in Nat \ {0} /\ \A e \in n.categories : e \in 0 .. (Count(n) - 1)
    BY <1>2, CountFacts
  <2>3. InCategories(d, c) <=>
          /\ c < NumberIn(storage[d.index + 1])
          /\ c % IndexBits(types) \in BitsIn(storage[d.index + 2 + c \div IndexBits(types)])
    BY <1>4 DEF InCategories
  <2>4. NumberIn(storage[d.index + 1]) = Count(n)
    BY <2>1 DEF ListKept, NumberIn
  <2>5. CASE c < Count(n)
    <3>1. c \in 0 .. (Count(n) - 1)
      BY <2>2, <2>5
    <3>2. c % IndexBits(types) \in storage[d.index + 2 + c \div IndexBits(types)].bits
            <=> c \in n.categories
      BY <2>1, <3>1 DEF ListKept
    <3> DEFINE x == d.index
               y == c \div IndexBits(types)
               bin == storage[x + 2 + y]
               k == Bins(Count(n))
               L == Len(storage)
    <3>3. BitsIn(bin) = bin.bits
      <4>1. /\ x \in Nat /\ x + 1 + k <= L
            /\ \A h \in 1 .. k : storage[x + 1 + h].count = 0
        BY <2>1 DEF ListKept
      <4>2. y \in 0 .. (k - 1) /\ k \in Nat
        BY <2>2, <3>1, BinsFacts
      <4>3. storage \in Seq(StorageBin) /\ L \in Nat
        <5>1. storage \in Seq(StorageBin)
          BY DEF ImportInv, StorageKept
        <5> QED
          BY <5>1, LenProperties
      <4> HIDE DEF x, y, k, L
      <4> DEFINE h == y + 1
                 p == x + 2 + y
      <4>4. h \in 1 .. k /\ x + 1 + h = p /\ p \in 1 .. L
        BY <4>1, <4>2, <4>3
      <4>5. storage[p].count = 0
        BY <4>1, <4>4
      <4>6. storage[p] \in StorageBin
        BY <4>3, <4>4, ElementOfSeq DEF L
      <4> QED
        BY <4>5, <4>6, NumberFacts
    <3>4. c % IndexBits(types) \in BitsIn(storage[d.index + 2 + c \div IndexBits(types)])
            <=> c \in n.categories
      BY <3>2, <3>3
    <3> QED
      BY <2>3, <2>4, <2>5, <3>4, Zenon
  <2>6. CASE ~(c < Count(n))
    <3>1. c \notin n.categories
      BY <2>2, <2>6
    <3> QED
      BY <2>3, <2>4, <2>6, <3>1, Zenon
  <2> QED
    BY <2>5, <2>6
<1> QED
  BY <1>3, <1>4

LEMMA ReadBack == ImportInv /\ IntactInv => (OutputsHeld(model) /\ ListsIndexed => NodesIntact)
<1> SUFFICES ASSUME ImportInv, IntactInv, OutputsHeld(model), ListsIndexed, phase = "ready"
             PROVE  /\ types.layout = layout
                    /\ \A i \in DOMAIN nodes :
                         LET n == model.nodes[i]
                         IN  /\ nodes[i].offset = n.offset
                             /\ n.kind # "leaf" => nodes[i].feature = n.feature
                             /\ n.kind = "leaf" =>
                                  \A o \in DOMAIN n.output : LeafOutput(i, o) = n.output[o]
                             /\ n.kind = "categorical" =>
                                  \A c \in 0 .. (MaxNumCategories(model) - 1) :
                                    InCategories(nodes[i], c) <=> c \in n.categories
  BY DEF NodesIntact
<1>1. types = Chosen /\ NodesKept /\ Len(nodes) = Len(model.nodes) /\ \E S : nodes \in Seq(S)
  BY DEF ImportInv, IInv
<1>2. DOMAIN nodes = 1 .. Len(nodes)
  BY <1>1, LenProperties
<1>3. types.layout = layout
  BY <1>1, ChosenFields
<1>4. ASSUME NEW i \in 1 .. Len(nodes)
      PROVE  /\ nodes[i].offset = model.nodes[i].offset
             /\ model.nodes[i].kind # "leaf" => nodes[i].feature = model.nodes[i].feature
  <2>1. NodeKept(model.nodes[i], nodes[i])
    BY <1>1 DEF NodesKept
  <2> QED
    BY <1>1, <2>1, FieldsExact DEF NodeKept
<1>5. ASSUME NEW i \in 1 .. Len(nodes), model.nodes[i].kind = "leaf"
      PROVE  \A o \in DOMAIN model.nodes[i].output : LeafOutput(i, o) = model.nodes[i].output[o]
  BY <1>5, LeafReadBack
<1>6. ASSUME NEW i \in 1 .. Len(nodes), model.nodes[i].kind = "categorical",
             NEW c \in 0 .. (MaxNumCategories(model) - 1)
      PROVE  InCategories(nodes[i], c) <=> c \in model.nodes[i].categories
  <2>1. c \in Nat
    OBVIOUS
  <2>2. IsCategorical(model.nodes[i])
    BY <1>6 DEF IsCategorical
  <2> QED
    BY <2>1, <2>2, CategoriesReadBack
<1> QED
  BY <1>2, <1>3, <1>4, <1>5, <1>6

(* The forest reads back as the model, whatever the model, if its leaves are
   all alike and an index reaches every bin of the storage and every element of
   the leaf vectors.  Offsets and features always fit: the types that
   get_forest_variant_index chooses see to that.  To the indexes it does not
   (IndexesNeverWiden), so that their reach is a hypothesis. *)
THEOREM NodesAlwaysIntact == Spec => [](OutputsHeld(model) /\ ListsIndexed => NodesIntact)
<1>1. Init => ImportInv /\ IntactInv
  BY ImportBegins, IntactBegins
<1>2. (ImportInv /\ IntactInv) /\ [Next]_vars => (ImportInv /\ IntactInv)'
  BY ImportAdvances, IntactAdvances
<1>3. (ImportInv /\ IntactInv) => (OutputsHeld(model) /\ ListsIndexed => NodesIntact)
  BY ReadBack
<1> QED
  BY <1>1, <1>2, <1>3, PTL DEF Spec

-----------------------------------------------------------------------------
(* How far lists of categories reach *)

CategoricalNodes(x) == {i \in 1 .. x : IsCategorical(model.nodes[i])}

(* The bins of a list of as many categories as a test of the model has, and
   the one before them *)
ListLength == 1 + Bins(MaxNumCategories(model))

(* As many such lists as the model has categorical tests, where indexes reach
   them: what can be told of a model before it is imported *)
ListsFit == External => NumCategorical(model) * ListLength <= TwoTo(IndexBits(types))

StorageBounded ==
  phase \in {"build", "ready"} /\ External =>
    Len(storage) <= Cardinality(CategoricalNodes(Len(nodes))) * ListLength

LEMMA CategoricalCounts ==
  ASSUME IsImportable(model), NEW x \in Nat, x <= Len(model.nodes)
  PROVE  /\ Cardinality(CategoricalNodes(x)) \in Nat /\ NumCategorical(model) \in Nat
         /\ Cardinality(CategoricalNodes(x)) <= NumCategorical(model)
         /\ IsCategorical(model.nodes[x + 1]) =>
              Cardinality(CategoricalNodes(x + 1)) = Cardinality(CategoricalNodes(x)) + 1
         /\ ~IsCategorical(model.nodes[x + 1]) => CategoricalNodes(x + 1) = CategoricalNodes(x)
<1> DEFINE A == CategoricalNodes(x)
           B == CategoricalNodes(x + 1)
           all == CategoricalNodes(Len(model.nodes))
<1>1. Len(model.nodes) \in Nat /\ DOMAIN model.nodes = 1 .. Len(model.nodes)
  BY ModelNodes
<1>2. Cardinality(all) = NumCategorical(model)
  BY <1>1 DEF NumCategorical, CategoricalNodes
<1>3. IsFiniteSet(1 .. Len(model.nodes)) /\ all \subseteq 1 .. Len(model.nodes)
  BY <1>1, FS_Interval DEF CategoricalNodes
<1>4. A \subseteq all /\ x + 1 \notin A
  BY <1>1 DEF CategoricalNodes
<1>5. IsCategorical(model.nodes[x + 1]) => B = A \cup {x + 1}
  BY DEF CategoricalNodes
<1>6. ~IsCategorical(model.nodes[x + 1]) => B = A
  BY DEF CategoricalNodes
<1> HIDE DEF A, B, all
<1>7. IsFiniteSet(all)
  BY <1>3, FS_Subset
<1>8. IsFiniteSet(A) /\ Cardinality(A) <= Cardinality(all)
  BY <1>4, <1>7, FS_Subset
<1>9. Cardinality(A) \in Nat /\ Cardinality(all) \in Nat
  BY <1>7, <1>8, FS_CardinalityType
<1>10. IsCategorical(model.nodes[x + 1]) => Cardinality(B) = Cardinality(A) + 1
  BY <1>4, <1>5, <1>8, FS_AddElement
<1> QED
  BY <1>2, <1>6, <1>8, <1>9, <1>10 DEF A, B

LEMMA StorageStaysBounded ==
  ASSUME ImportInv, StorageBounded, Building, UNCHANGED <<arguments, types>>,
         NEW value, NEW index, NEW bits, AddNode(Current, value, index, bits),
         IsCategorical(Current) => CategoryFits(Current),
         ~(External /\ IsCategorical(Current)) => storage' = storage,
         External /\ IsCategorical(Current) =>
           /\ index = AsIndex(types, Len(storage))
           /\ storage' = WithCategories(Grown(Current), Current, index)
  PROVE  StorageBounded'
<1> DEFINE x == Len(nodes)
           n == Current
           k == Cardinality(CategoricalNodes(x))
           l == ListLength
<1>1. /\ x \in Nat /\ x + 1 \in 1 .. Len(model.nodes)
      /\ n = model.nodes[x + 1] /\ n \in TreeliteNodes
      /\ Len(nodes') = x + 1
      /\ model' = model /\ types' = types
  BY NextNode
<1>2. IsImportable(model) /\ StorageKept /\ Len(model.nodes) \in Nat
  BY ModelNodes DEF ImportInv, Building
<1>3. SUFFICES ASSUME External
               PROVE  Len(storage') <= Cardinality(CategoricalNodes(x + 1)) * l
  BY <1>1 DEF StorageBounded, External, CategoricalNodes, ListLength, Bins
<1>4. Len(storage) <= k * l
  BY <1>3 DEF StorageBounded, Building
<1>5. /\ k \in Nat
      /\ IsCategorical(n) => Cardinality(CategoricalNodes(x + 1)) = k + 1
      /\ ~IsCategorical(n) => CategoricalNodes(x + 1) = CategoricalNodes(x)
  BY <1>1, <1>2, CategoricalCounts
<1>6. CASE ~IsCategorical(n)
  BY <1>4, <1>5, <1>6
<1>7. CASE IsCategorical(n)
  <2> DEFINE most == MaxNumCategories(model)
  <2>1. Len(storage') = Len(storage) + 1 + Bins(Count(n)) /\ Len(storage) \in Nat
    BY <1>1, <1>2, <1>3, <1>7, ListAdded
  <2>2. most \in Nat
    BY <1>2, CategoriesBelowMax
  <2>3. most # 0
    BY <1>3, <2>2, WidthFacts DEF External
  <2>4. Count(n) \in Nat /\ Count(n) <= most
    BY <1>1, <1>7, <2>3, CountFacts DEF CategoryFits
  <2>5. Bins(Count(n)) \in Nat /\ Bins(most) \in Nat /\ Bins(Count(n)) <= Bins(most)
    BY <2>2, <2>4, BinsFacts
  <2>6. l = 1 + Bins(most)
    BY DEF ListLength
  <2>7. Cardinality(CategoricalNodes(x + 1)) = k + 1
    BY <1>5, <1>7
  <2> HIDE DEF k, l, most, n, x
  <2>8. (k + 1) * l = k * l + l /\ k * l \in Nat /\ l \in Nat
    BY <1>5, <2>5, <2>6, MulNat
  <2> DEFINE kl == k * l
  <2> HIDE DEF kl
  <2>9. Len(storage') <= kl + l
    BY <1>4, <2>1, <2>5, <2>6, <2>8 DEF kl
  <2> QED
    BY <2>7, <2>8, <2>9 DEF kl
<1> QED
  BY <1>6, <1>7

LEMMA StorageAdvances == ImportInv /\ StorageBounded /\ [Next]_vars => StorageBounded'
<1> SUFFICES ASSUME ImportInv, StorageBounded, [Next]_vars PROVE StorageBounded'
  OBVIOUS
<1>1. ASSUME UNCHANGED <<arguments, forest>>,
             \/ phase' = phase
             \/ phase' = "failed"
             \/ phase = "build" /\ phase' = "ready"
      PROVE  StorageBounded'
  BY <1>1 DEF arguments, forest, StorageBounded, External, CategoricalNodes, ListLength, Bins
<1>2. CASE Choose
  <2>1. /\ model' = model /\ nodes' = nodes /\ storage' = storage /\ phase = "called"
    BY <1>2 DEF Choose, arguments
  <2>2. Len(nodes') = 0 /\ Len(storage') = 0 /\ IsImportable(model)
    BY <2>1, EmptySeq DEF ImportInv, IInv
  <2>3. CategoricalNodes(Len(nodes))' = {} /\ Cardinality({}) = 0
    BY <2>2, FS_EmptySet DEF CategoricalNodes
  <2>4. Cardinality(CategoricalNodes(Len(nodes))') * (ListLength') = 0
    <3>1. ListLength' \in Nat
      <4>1. MaxNumCategories(model') \in Nat
        BY <2>1, <2>2, CategoriesBelowMax
      <4>2. \A t : CeilDivide(MaxNumCategories(model'), IndexBits(t)) \in Nat
        <5> SUFFICES ASSUME NEW t
                     PROVE  CeilDivide(MaxNumCategories(model'), IndexBits(t)) \in Nat
          OBVIOUS
        <5> DEFINE a == MaxNumCategories(model')
                   w == IndexBits(t)
        <5>1. w \in Nat \ {0} /\ a \in Nat
          BY <4>1, WidthFacts
        <5> HIDE DEF a, w
        <5> DEFINE n == CeilDivide(a, w)
        <5>2. n = a \div w + (IF a % w # 0 THEN 1 ELSE 0)
          BY DEF CeilDivide
        <5> HIDE DEF n
        <5>3. n \in Nat
          BY <5>1, <5>2, RoundedUp
        <5> QED
          BY <5>3 DEF n, a, w
      <4> QED
        BY <4>2 DEF ListLength, Bins
    <3> DEFINE l == ListLength'
    <3>a. l \in Nat
      BY <3>1
    <3> HIDE DEF l
    <3>2. 0 * l = 0
      BY <3>a
    <3> QED
      BY <2>3, <3>2 DEF l
  <2> QED
    BY <2>2, <2>4 DEF StorageBounded
<1>3. CASE AddLeaf
  <2>1. /\ Building /\ UNCHANGED <<arguments, types, storage>> /\ ~IsCategorical(Current)
    BY <1>3 DEF AddLeaf, IsCategorical
  <2>2. PICK value, index : AddNode(Current, value, index, {})
    BY <1>3 DEF AddLeaf
  <2> QED
    BY <2>1, <2>2, StorageStaysBounded
<1>4. CASE AddNumeric
  <2>1. /\ Building /\ UNCHANGED <<arguments, types, storage>> /\ ~IsCategorical(Current)
    BY <1>4 DEF AddNumeric, IsCategorical
  <2>2. PICK value : AddNode(Current, value, 0, {})
    BY <1>4 DEF AddNumeric
  <2> QED
    BY <2>1, <2>2, StorageStaysBounded
<1>5. CASE AddCategorical
  <2>1. Building /\ UNCHANGED <<arguments, types>> /\ IsCategorical(Current) /\ CategoryFits(Current)
    BY <1>5 DEF AddCategorical, IsCategorical
  <2>2. CASE External
    <3> DEFINE index == AsIndex(types, Len(storage))
    <3>1. /\ AddNode(Current, 0, index, {})
          /\ storage' = WithCategories(Grown(Current), Current, index)
      BY <1>5, <2>2 DEF AddCategorical
    <3>4. index = AsIndex(types, Len(storage))
      OBVIOUS
    <3> HIDE DEF index
    <3> QED
      BY <2>1, <2>2, <3>1, <3>4, StorageStaysBounded
  <2>3. CASE ~External
    <3>1. AddNode(Current, 0, 0, Current.categories) /\ storage' = storage
      BY <1>5, <2>3 DEF AddCategorical
    <3> QED
      BY <2>1, <2>3, <3>1, StorageStaysBounded
  <2> QED
    BY <2>2, <2>3
<1>6. CASE Reject
  BY <1>1, <1>6 DEF Reject
<1>7. CASE RejectNode
  BY <1>1, <1>7 DEF RejectNode
<1>8. CASE Finish
  BY <1>1, <1>8 DEF Finish, Built
<1>9. CASE RejectForest
  BY <1>1, <1>9 DEF RejectForest
<1>10. CASE \E op \in RowOps : SetRow(op)
  BY <1>1, <1>10 DEF SetRow
<1>11. CASE \E kind \in {"default", "per_tree", "leaf_id"}, row \in Rows : Predict(kind, row)
  BY <1>1, <1>11 DEF Predict
<1>12. CASE Failed \/ UNCHANGED vars
  BY <1>1, <1>12 DEF Failed, vars
<1> QED
  BY <1>2, <1>3, <1>4, <1>5, <1>6, <1>7, <1>8, <1>9, <1>10, <1>11, <1>12 DEF Next

LEMMA BoundIsIndexed ==
  ImportInv /\ StorageBounded /\ phase \in {"build", "ready"} /\ ListsFit => ListsIndexed
<1> SUFFICES ASSUME ImportInv, StorageBounded, phase \in {"build", "ready"}, ListsFit, External
             PROVE  Len(storage) <= TwoTo(IndexBits(types))
  BY DEF ListsIndexed
<1> DEFINE k == Cardinality(CategoricalNodes(Len(nodes)))
           c == NumCategorical(model)
           l == ListLength
           t == TwoTo(IndexBits(types))
<1>1. IsImportable(model) /\ StorageKept /\ (\E S : nodes \in Seq(S)) /\ Len(nodes) <= Len(model.nodes)
  BY DEF ImportInv, IInv
<1>2. Len(nodes) \in Nat
  BY <1>1, LenProperties
<1>3. k \in Nat /\ c \in Nat /\ k <= c
  BY <1>1, <1>2, CategoricalCounts
<1>4. l \in Nat
  <2>1. MaxNumCategories(model) \in Nat
    BY <1>1, CategoriesBelowMax
  <2> QED
    BY <2>1, BinsFacts DEF ListLength
<1>5. storage \in Seq(StorageBin)
  BY <1>1 DEF StorageKept
<1>6. Len(storage) \in Nat /\ t \in Nat
  BY <1>5, LenProperties, WidthFacts
<1>7. Len(storage) <= k * l /\ c * l <= t
  BY DEF StorageBounded, ListsFit
<1> HIDE DEF k, c, l, t
<1>8. k * l <= c * l /\ k * l \in Nat /\ c * l \in Nat
  BY <1>3, <1>4, MulMono, MulNat
<1>9. Len(storage) <= t
  BY <1>6, <1>7, <1>8
<1> QED
  BY <1>9 DEF t

(* The lists of categories reach no further than the product of the model's
   categorical tests and the longest list.  Where that product is at most what
   an index counts to, and the same is true of the elements of leaves, which
   are all alike, the forest reads back as the model. *)
THEOREM IntactIfListsFit == Spec => [](OutputsHeld(model) /\ ListsFit => NodesIntact)
<1> DEFINE Inv == ImportInv /\ IntactInv /\ StorageBounded
<1>1. Init => Inv
  <2>1. Init => StorageBounded
    BY DEF Init, StorageBounded
  <2> QED
    BY <2>1, ImportBegins, IntactBegins
<1>2. Inv /\ [Next]_vars => Inv'
  BY ImportAdvances, IntactAdvances, StorageAdvances
<1>3. Inv => (OutputsHeld(model) /\ ListsFit => NodesIntact)
  <2>1. phase # "ready" => NodesIntact
    BY DEF NodesIntact
  <2> QED
    BY <2>1, ReadBack, BoundIsIndexed
<1> HIDE DEF Inv
<1> QED
  BY <1>1, <1>2, <1>3, PTL DEF Spec

-----------------------------------------------------------------------------
(* The postprocessor *)

LEMMA OpsTold ==
  ASSUME NEW r \in RowOps, NEW e \in ElemOps, NEW r2 \in RowOps, NEW e2 \in ElemOps,
         OpsToVal(r, e) = OpsToVal(r2, e2)
  PROVE  r = r2 /\ e = e2
<1>1. \A x : x \in OpsToVal(r, e) <=> (x = r \/ x = e) /\ x # "disable"
  BY DEF OpsToVal
<1>2. \A x : x \in OpsToVal(r, e) <=> (x = r2 \/ x = e2) /\ x # "disable"
  BY DEF OpsToVal
<1>3. r = r2
  BY <1>1, <1>2 DEF RowOps, ElemOps
<1>4. e = e2
  BY <1>1, <1>2 DEF RowOps, ElemOps
<1> QED
  BY <1>3, <1>4

(* The switch ends where the operations say. *)
LEMMA DispatchedAsTold ==
  ASSUME NEW r \in RowOps, NEW e \in ElemOps
  PROVE  Dispatched(r, e).row = r /\ Dispatched(r, e).elem = e
<1> DEFINE all == {[row |-> x, elem |-> y] : x \in RowOps, y \in ElemOps}
           none == [row |-> "disable", elem |-> "disable"]
           listed == all \ {none}
           same(c) == OpsToVal(c.row, c.elem) = OpsToVal(r, e)
           told == [row |-> r, elem |-> e]
<1>1. ASSUME NEW c \in all, same(c) PROVE c = told
  <2>1. PICK x \in RowOps, y \in ElemOps : c = [row |-> x, elem |-> y]
    OBVIOUS
  <2>2. x = r /\ y = e
    BY <1>1, <2>1, OpsTold
  <2> QED
    BY <2>1, <2>2
<1>2. Dispatched(r, e) = IF \E c \in listed : same(c) THEN CHOOSE c \in listed : same(c) ELSE none
  BY DEF Dispatched
<1>3. told \in all /\ same(told) /\ told.row = r /\ told.elem = e
  OBVIOUS
<1>4. \A c \in listed : c \in all
  OBVIOUS
<1>5. told # none => told \in listed
  BY <1>3
<1> HIDE DEF all, same, told, none, listed
<1>6. CASE told = none
  <2>1. ~ \E c \in listed : same(c)
    BY <1>1, <1>4, <1>6 DEF listed
  <2> QED
    BY <1>2, <1>3, <1>6, <2>1
<1>7. CASE told # none
  <2>1. told \in listed /\ \E c \in listed : same(c)
    BY <1>3, <1>5, <1>7
  <2>2. (CHOOSE c \in listed : same(c)) = told
    BY <1>1, <1>3, <1>4, <2>1
  <2> QED
    BY <1>2, <1>3, <2>1, <2>2
<1> QED
  BY <1>6, <1>7

IsPostprocessor(p) ==
  /\ p.row \in RowOps /\ p.elem \in ElemOps
  /\ [p EXCEPT !.row = p.row, !.elem = p.elem] = p

(* A postprocessor is applied as it is dispatched. *)
LEMMA Applied ==
  ASSUME NEW p, IsPostprocessor(p),
         NEW default_kind, NEW val, NEW bias, NEW out
  PROVE  Apply(p, default_kind, val, bias, out) = Postprocessed(p, default_kind, val, bias, out)
<1> DEFINE x == Dispatched(p.row, p.elem).row
           y == Dispatched(p.row, p.elem).elem
<1>1. x = p.row /\ y = p.elem
  BY DispatchedAsTold DEF IsPostprocessor
<1>2. Apply(p, default_kind, val, bias, out)
        = Postprocessed([p EXCEPT !.row = x, !.elem = y], default_kind, val, bias, out)
  BY DEF Apply
<1> HIDE DEF x, y
<1>3. [p EXCEPT !.row = x, !.elem = y] = p
  BY <1>1 DEF IsPostprocessor
<1> QED
  BY <1>2, <1>3

-----------------------------------------------------------------------------
(* The first of the greatest *)

Bests(n, vals, f) == f = [i \in 0 .. n |-> IF i = 0 THEN NoBest ELSE Compare(f[i - 1], vals[i])]

LEMMA BestsExist ==
  ASSUME NEW vals, NEW num \in Nat
  PROVE  \E f : Bests(num, vals, f)
<1> DEFINE Fail == {n \in Nat : ~ \E f : Bests(n, vals, f)}
<1>1. SUFFICES ASSUME Fail # {} PROVE FALSE
  OBVIOUS
<1>2. PICK n \in Fail : \A m \in Fail : n <= m
  BY <1>1, LeastNat
<1>3. n \in Nat /\ ~ \E f : Bests(n, vals, f)
  BY <1>2
<1>4. PICK f : n > 0 => Bests(n - 1, vals, f)
  <2>1. CASE n > 0
    <3>1. n - 1 \in Nat /\ ~(n <= n - 1)
      BY <1>3, <2>1
    <3>2. n - 1 \notin Fail
      BY <1>2, <3>1
    <3> QED
      BY <3>1, <3>2
  <2> QED
    BY <2>1
<1> DEFINE Next0(k) == IF k = 0 THEN NoBest ELSE Compare(f[k - 1], vals[k])
           h == [k \in 0 .. n |-> Next0(k)]
<1>5. ASSUME NEW k \in 0 .. n, k # 0 PROVE k - 1 \in 0 .. n /\ h[k - 1] = f[k - 1]
  <2>1. n > 0 /\ k - 1 \in 0 .. (n - 1) /\ k - 1 \in 0 .. n
    BY <1>3, <1>5
  <2>2. f[k - 1] = Next0(k - 1)
    BY <1>4, <2>1 DEF Bests
  <2> QED
    BY <2>1, <2>2
<1>6. \A k \in 0 .. n : h[k] = IF k = 0 THEN NoBest ELSE Compare(h[k - 1], vals[k])
  BY <1>5
<1>7. Bests(n, vals, h)
  BY <1>6 DEF Bests
<1> QED
  BY <1>3, <1>7

LEMMA BestSteps ==
  ASSUME NEW vals, Len(vals) \in Nat
  PROVE  \E f : /\ BestOf(vals) = f[Len(vals)] /\ f[0] = NoBest
                /\ \A i \in 1 .. Len(vals) : f[i] = Compare(f[i - 1], vals[i])
<1> DEFINE f == CHOOSE g : Bests(Len(vals), vals, g)
<1>1. Bests(Len(vals), vals, f)
  BY BestsExist
<1>2. BestOf(vals) = f[Len(vals)]
  BY DEF BestOf, Bests
<1> HIDE DEF f
<1>3. f[0] = NoBest /\ \A i \in 1 .. Len(vals) : f[i] = Compare(f[i - 1], vals[i])
  BY <1>1 DEF Bests
<1> QED
  BY <1>2, <1>3

(* Values that postprocess compares as numbers *)
IsOrdinary(v) == ~IsNaN(v) /\ ~IsInfinite(v) /\ ~IsLowest(v) /\ Rank(v) \in Int

LEMMA Selected ==
  ASSUME NEW v, IsOrdinary(v) \/ v = Number(Lowest)
  PROVE  /\ Times(TRUE, v) = v /\ Times(FALSE, v) = Number(0)
         /\ PlusValue(v, Number(0)) = v /\ PlusValue(Number(0), v) = v
<1>1. ~IsNaN(v) /\ ~IsInfinite(v)
  BY DEF IsOrdinary, IsNaN, IsInfinite, Number, Result, Lowest, NaN, Infinity
<1>2. ~IsNaN(Number(0))
  BY DEF IsNaN, Number, Result, NaN
<1> QED
  BY <1>1, <1>2 DEF Times, PlusValue

LEMMA Compared ==
  ASSUME NEW best, NEW v, IsOrdinary(v),
         IsOrdinary(best.max_value) \/ best.max_value = Number(Lowest)
  PROVE  /\ Compare(best, v).output_index = best.output_index + 1
         /\ Greater(v, best.max_value) =>
              Compare(best, v).max_index = best.output_index /\ Compare(best, v).max_value = v
         /\ ~Greater(v, best.max_value) =>
              /\ Compare(best, v).max_index = best.max_index
              /\ Compare(best, v).max_value = best.max_value
<1>1. CASE Greater(v, best.max_value)
  <2>1. IsNewMax(v, best.max_value) = TRUE
    BY <1>1 DEF IsNewMax, Greater
  <2>2. Compare(best, v) = [output_index |-> best.output_index + 1, max_index |-> best.output_index,
                            max_value |-> PlusValue(Times(TRUE, v), Times(FALSE, best.max_value))]
    BY <2>1, Zenon DEF Compare
  <2>3. PlusValue(Times(TRUE, v), Times(FALSE, best.max_value)) = v
    BY Selected
  <2>4. Compare(best, v) = [output_index |-> best.output_index + 1,
                            max_index |-> best.output_index, max_value |-> v]
    BY <2>2, <2>3, Zenon
  <2> QED
    BY <1>1, <2>4
<1>2. CASE ~Greater(v, best.max_value)
  <2>1. IsNewMax(v, best.max_value) = FALSE
    BY <1>2 DEF IsNewMax, Greater
  <2>2. Compare(best, v) = [output_index |-> best.output_index + 1, max_index |-> best.max_index,
                            max_value |-> PlusValue(Times(FALSE, v), Times(TRUE, best.max_value))]
    BY <2>1, Zenon DEF Compare
  <2>3. PlusValue(Times(FALSE, v), Times(TRUE, best.max_value)) = best.max_value
    BY Selected
  <2>4. Compare(best, v) = [output_index |-> best.output_index + 1,
                            max_index |-> best.max_index, max_value |-> best.max_value]
    BY <2>2, <2>3, Zenon
  <2> QED
    BY <1>2, <2>4
<1> QED
  BY <1>1, <1>2

(* The best of the first i values is the first of the greatest of them. *)
IsBest(b, vals, i) ==
  /\ b.output_index = i /\ b.max_index \in 0 .. (i - 1) /\ b.max_value = vals[b.max_index + 1]
  /\ \A j \in 1 .. i : Rank(vals[j]) <= Rank(vals[b.max_index + 1])
  /\ \A j \in 1 .. b.max_index : Rank(vals[j]) < Rank(vals[b.max_index + 1])

LEMMA BestAdvances ==
  ASSUME NEW vals, NEW n \in Nat, \A i \in 1 .. n : IsOrdinary(vals[i]),
         NEW i \in 1 .. n, NEW b,
         i = 1 => b = NoBest,
         i > 1 => IsBest(b, vals, i - 1)
  PROVE  IsBest(Compare(b, vals[i]), vals, i)
<1> DEFINE v == vals[i]
           c == Compare(b, v)
<1>1. IsOrdinary(v) /\ Rank(v) \in Int
  BY DEF IsOrdinary
<1>2. CASE i = 1
  <2>1. b.max_value = Number(Lowest) /\ b.output_index = 0
    BY <1>2 DEF NoBest
  <2>2. IsLowest(b.max_value) /\ ~IsNaN(b.max_value)
    BY <2>1 DEF IsLowest, IsNaN, Number, Result, Lowest, NaN
  <2>3. Greater(v, b.max_value)
    BY <1>1, <2>2 DEF Greater, IsOrdinary
  <2>4. c.output_index = 1 /\ c.max_index = 0 /\ c.max_value = v
    BY <1>1, <2>1, <2>3, Compared
  <2> HIDE DEF c
  <2> QED
    BY <1>1, <1>2, <2>4 DEF IsBest, c
<1>3. CASE i > 1
  <2> DEFINE k == b.max_index + 1
  <2>1. /\ b.output_index = i - 1 /\ k \in 1 .. (i - 1) /\ b.max_value = vals[k]
        /\ b.max_index \in Nat
        /\ \A j \in 1 .. (i - 1) : Rank(vals[j]) <= Rank(vals[k])
        /\ \A j \in 1 .. b.max_index : Rank(vals[j]) < Rank(vals[k])
    BY <1>3 DEF IsBest
  <2>2. IsOrdinary(b.max_value) /\ Rank(vals[k]) \in Int /\ \A j \in 1 .. i : Rank(vals[j]) \in Int
    BY <2>1 DEF IsOrdinary
  <2>3. Greater(v, b.max_value) <=> Rank(v) > Rank(vals[k])
    BY <1>1, <2>1, <2>2 DEF Greater, IsOrdinary
  <2>4. /\ c.output_index = b.output_index + 1
        /\ Greater(v, b.max_value) => c.max_index = b.output_index /\ c.max_value = v
        /\ ~Greater(v, b.max_value) => c.max_index = b.max_index /\ c.max_value = b.max_value
    BY <1>1, <2>2, Compared
  <2> HIDE DEF c, k
  <2>5. CASE Greater(v, b.max_value)
    <3>1. c.output_index = i /\ c.max_index = i - 1 /\ c.max_value = v /\ c.max_index + 1 = i
      BY <2>1, <2>4, <2>5
    <3>2. \A j \in 1 .. (i - 1) : Rank(vals[j]) < Rank(v)
      BY <1>1, <2>1, <2>2, <2>3, <2>5
    <3>3. \A j \in 1 .. i : Rank(vals[j]) <= Rank(v)
      BY <1>1, <3>2, <2>2
    <3> QED
      BY <3>1, <3>2, <3>3 DEF IsBest, c
  <2>6. CASE ~Greater(v, b.max_value)
    <3>1. c.output_index = i /\ c.max_index = b.max_index /\ c.max_value = vals[k]
          /\ c.max_index + 1 = k
      BY <2>1, <2>4, <2>6 DEF k
    <3>2. \A j \in 1 .. i : Rank(vals[j]) <= Rank(vals[k])
      BY <1>1, <2>1, <2>2, <2>3, <2>6
    <3>3. c.max_index \in 0 .. (i - 1)
      BY <2>1, <3>1 DEF k
    <3> QED
      BY <2>1, <3>1, <3>2, <3>3 DEF IsBest, c
  <2> QED
    BY <2>5, <2>6
<1> QED
  BY <1>2, <1>3

LEMMA BestIsFirstGreatest ==
  ASSUME NEW vals, Len(vals) \in Nat \ {0}, DOMAIN vals = 1 .. Len(vals),
         \A i \in 1 .. Len(vals) : IsOrdinary(vals[i])
  PROVE  /\ BestOf(vals).max_index = FirstGreatest(vals) - 1
         /\ BestOf(vals).max_value = vals[FirstGreatest(vals)]
<1> DEFINE n == Len(vals)
<1>1. PICK f : /\ BestOf(vals) = f[n] /\ f[0] = NoBest
               /\ \A i \in 1 .. n : f[i] = Compare(f[i - 1], vals[i])
  BY BestSteps
<1> DEFINE Fail == {i \in Nat : i \in 1 .. n /\ ~IsBest(f[i], vals, i)}
<1>2. Fail = {}
  <2> SUFFICES ASSUME Fail # {} PROVE FALSE
    OBVIOUS
  <2>1. PICK i \in Fail : \A j \in Fail : i <= j
    BY LeastNat
  <2>2. i \in 1 .. n /\ ~IsBest(f[i], vals, i)
    BY <2>1
  <2>3. i = 1 => f[i - 1] = NoBest
    BY <1>1
  <2>4. i > 1 => IsBest(f[i - 1], vals, i - 1)
    <3> SUFFICES ASSUME i > 1 PROVE IsBest(f[i - 1], vals, i - 1)
      OBVIOUS
    <3>1. i - 1 \in Nat /\ i - 1 \in 1 .. n /\ ~(i <= i - 1)
      BY <2>2
    <3>2. i - 1 \notin Fail
      BY <2>1, <3>1
    <3> QED
      BY <3>1, <3>2
  <2>5. IsBest(Compare(f[i - 1], vals[i]), vals, i)
    BY <2>2, <2>3, <2>4, BestAdvances
  <2> QED
    BY <1>1, <2>2, <2>5
<1>3. IsBest(f[n], vals, n)
  BY <1>2
<1> DEFINE k == f[n].max_index + 1
<1>4. /\ k \in 1 .. n /\ f[n].max_value = vals[k] /\ f[n].max_index = k - 1
      /\ \A j \in 1 .. n : Rank(vals[j]) <= Rank(vals[k])
      /\ \A j \in 1 .. (k - 1) : Rank(vals[j]) < Rank(vals[k])
  BY <1>3 DEF IsBest
<1> HIDE DEF k, Fail
<1>5. \A i \in 1 .. n : Rank(vals[i]) \in Int
  BY DEF IsOrdinary
<1>6. ASSUME NEW i \in 1 .. n, \A j \in 1 .. n : Rank(vals[j]) <= Rank(vals[i]),
             \A j \in 1 .. (i - 1) : Rank(vals[j]) < Rank(vals[i])
      PROVE  i = k
  BY <1>4, <1>5, <1>6
<1>7. FirstGreatest(vals) = k
  BY <1>4, <1>6 DEF FirstGreatest
<1> QED
  BY <1>1, <1>4, <1>7

-----------------------------------------------------------------------------
(* Totals *)

(* The sums that MapThenSumSet makes of the sets of n members of S at most *)
Small(S, n) == {s \in SUBSET S : Cardinality(s) <= n}
Drawn(s) == CHOOSE x \in s : TRUE
Sums(f, S, n, g) ==
  g = [s \in Small(S, n) |-> IF s = {} THEN 0 ELSE f[Drawn(s)] + g[s \ {Drawn(s)}]]

LEMMA DrawnFrom ==
  ASSUME NEW S, IsFiniteSet(S), NEW s \in SUBSET S, s # {}
  PROVE  /\ Drawn(s) \in s /\ s \ {Drawn(s)} \in SUBSET S
         /\ Cardinality(s) \in Nat \ {0}
         /\ Cardinality(s \ {Drawn(s)}) = Cardinality(s) - 1
<1>1. Drawn(s) \in s
  BY DEF Drawn
<1>2. IsFiniteSet(s)
  BY FS_Subset
<1>3. Cardinality(s) \in Nat /\ Cardinality(s) # 0
  BY <1>2, FS_CardinalityType, FS_EmptySet
<1> QED
  BY <1>1, <1>2, <1>3, FS_RemoveElement

LEMMA SumsExist ==
  ASSUME NEW f, NEW S, IsFiniteSet(S), NEW num \in Nat
  PROVE  \E g : Sums(f, S, num, g)
<1> DEFINE Fail == {n \in Nat : ~ \E g : Sums(f, S, n, g)}
<1>1. SUFFICES ASSUME Fail # {} PROVE FALSE
  OBVIOUS
<1>2. PICK n \in Fail : \A m \in Fail : n <= m
  BY <1>1, LeastNat
<1>3. n \in Nat /\ ~ \E g : Sums(f, S, n, g)
  BY <1>2
<1>4. PICK g : n > 0 => Sums(f, S, n - 1, g)
  <2>1. CASE n > 0
    <3>1. n - 1 \in Nat /\ ~(n <= n - 1)
      BY <1>3, <2>1
    <3>2. n - 1 \notin Fail
      BY <1>2, <3>1
    <3> QED
      BY <3>1, <3>2
  <2> QED
    BY <2>1
<1> DEFINE Sum(s) == IF s = {} THEN 0 ELSE f[Drawn(s)] + g[s \ {Drawn(s)}]
           h == [s \in Small(S, n) |-> Sum(s)]
<1>5. ASSUME NEW s \in Small(S, n), s # {}
      PROVE  h[s \ {Drawn(s)}] = g[s \ {Drawn(s)}]
  <2> DEFINE r == s \ {Drawn(s)}
  <2>1. /\ r \in SUBSET S /\ Cardinality(s) \in Nat \ {0} /\ Cardinality(r) = Cardinality(s) - 1
        /\ Cardinality(s) <= n
    BY <1>5, DrawnFrom DEF Small
  <2>2. n > 0 /\ Cardinality(r) <= n - 1 /\ Cardinality(r) <= n
    BY <1>3, <2>1
  <2>3. r \in Small(S, n - 1) /\ r \in Small(S, n)
    BY <2>1, <2>2 DEF Small
  <2> HIDE DEF r
  <2>4. g[r] = Sum(r)
    BY <1>4, <2>2, <2>3 DEF Sums
  <2> QED
    BY <2>3, <2>4 DEF r
<1>6. \A s \in Small(S, n) : h[s] = IF s = {} THEN 0 ELSE f[Drawn(s)] + h[s \ {Drawn(s)}]
  BY <1>5
<1>7. Sums(f, S, n, h)
  BY <1>6 DEF Sums
<1> QED
  BY <1>3, <1>7

LEMMA SumsOfIntegers ==
  ASSUME NEW f, NEW S, IsFiniteSet(S), \A t \in S : f[t] \in Int,
         NEW num \in Nat, NEW g, Sums(f, S, num, g)
  PROVE  \A s \in Small(S, num) : g[s] \in Int
<1> DEFINE Fail == {n \in Nat : \E s \in Small(S, num) : Cardinality(s) = n /\ g[s] \notin Int}
<1>1. Fail = {}
  <2> SUFFICES ASSUME Fail # {} PROVE FALSE
    OBVIOUS
  <2>1. PICK n \in Fail : \A m \in Fail : n <= m
    BY LeastNat
  <2>2. PICK s \in Small(S, num) : Cardinality(s) = n /\ g[s] \notin Int
    BY <2>1
  <2>3. g[s] = IF s = {} THEN 0 ELSE f[Drawn(s)] + g[s \ {Drawn(s)}]
    BY DEF Sums
  <2>4. s # {} /\ s \in SUBSET S /\ n <= num
    BY <2>2, <2>3 DEF Small
  <2> DEFINE r == s \ {Drawn(s)}
  <2>5. Drawn(s) \in S /\ r \in SUBSET S /\ n \in Nat \ {0} /\ Cardinality(r) = n - 1
    BY <2>2, <2>4, DrawnFrom
  <2> HIDE DEF r
  <2>6. n - 1 \in Nat /\ n - 1 <= num /\ ~(n <= n - 1)
    BY <2>4, <2>5
  <2>7. r \in Small(S, num) /\ n - 1 \notin Fail
    BY <2>1, <2>5, <2>6 DEF Small
  <2>8. g[r] \in Int
    BY <2>5, <2>6, <2>7
  <2> QED
    BY <2>2, <2>3, <2>4, <2>5, <2>8 DEF r
<1>2. ASSUME NEW s \in Small(S, num) PROVE Cardinality(s) \in Nat
  BY FS_Subset, FS_CardinalityType DEF Small
<1> QED
  BY <1>1, <1>2

LEMMA TotalIsInteger ==
  ASSUME NEW f, NEW S, IsFiniteSet(S), \A t \in S : f[t] \in Int
  PROVE  Total(f, S) \in Int
<1> DEFINE n == Cardinality(S)
           sum == CHOOSE g : Sums(f, S, n, g)
<1>1. n \in Nat /\ Small(S, n) = SUBSET S
  BY FS_CardinalityType, FS_Subset DEF Small
<1>2. Sums(f, S, n, sum)
  BY <1>1, SumsExist
<1>3. sum[S] \in Int
  BY <1>1, <1>2, SumsOfIntegers
<1>4. MapThenSumSet(LAMBDA t : f[t], S) = sum[S]
  BY <1>1 DEF MapThenSumSet, MapThenFoldSet, Sums, Drawn
<1> HIDE DEF sum
<1>5. ASSUME \E t \in S : f[t] \in {Infinity, -Infinity, NaN}
      PROVE  (CHOOSE x \in {Infinity, -Infinity, NaN} : \E t \in S : f[t] = x) \in Int
  <2> DEFINE c == CHOOSE x \in {Infinity, -Infinity, NaN} : \E t \in S : f[t] = x
  <2>1. c \in {Infinity, -Infinity, NaN}
    BY <1>5
  <2> HIDE DEF c
  <2>2. c \in Int
    BY <2>1 DEF Infinity, NaN
  <2> QED
    BY <2>2 DEF c
<1> QED
  BY <1>3, <1>4, <1>5 DEF Total

-----------------------------------------------------------------------------
(* What a model must be like for its predictions to be Treelite's *)

(* Leaves have one output, or one for every output of the model, and an index
   reaches every element of them. *)
LeavesShaped(m) ==
  /\ VectorLeaf(m) => NumOutputs(m) > 1
  /\ \A i \in DOMAIN m.nodes : m.nodes[i].kind = "leaf" =>
       Len(m.nodes[i].output) = IF VectorLeaf(m) THEN NumOutputs(m) ELSE 1
  /\ NumLeafVector(m) * NumOutputs(m) <= TwoTo(IndexBits(types))

(* Trees with scalar leaves are for one target after another, as they are for
   one class after another, and an average is over as many trees for each. *)
TreesInTurn(m) ==
  /\ m.task = "kBinaryClf" => m.num_class = 1
  /\ ~VectorLeaf(m) =>
       /\ m.task # "kMultiClf" =>
            \A t \in DOMAIN m.trees : m.trees[t].target = (t - 1) % NumOutputs(m)
       /\ m.average => Len(m.trees) % NumOutputs(m) = 0

(* Numbers that floating point holds, between the lowest and infinity *)
Ordinary == {x \in Int : Lowest < x /\ x < Infinity}

Answerable ==
  /\ NumOutputs(model) \in 1 .. Len(model.base_scores)
  /\ LeavesShaped(model) /\ TreesInTurn(model)
  /\ \A row \in Rows :
       /\ \A t \in DOMAIN model.trees : \E i \in LeavesOf(model, t) :
            Cardinality({j \in LeavesOf(model, t) : j <= i}) = row[t % 2]
       /\ \A o \in 1 .. NumOutputs(model) : Margin(model, Reached(row), o) \in Ordinary
(* Division of integers, rounding down *)
LEMMA IntDivMod ==
  ASSUME NEW a \in Int, NEW b \in Nat \ {0}
  PROVE  a \div b \in Int /\ a % b \in 0 .. (b - 1) /\ a = (a \div b) * b + (a % b)
  OBVIOUS

LEMMA IntBlocks ==
  ASSUME NEW b \in Nat, NEW x \in Int, NEW y \in Int, NEW i \in 0 .. (b - 1), NEW j \in 0 .. (b - 1),
         x * b + i = y * b + j
  PROVE  x = y
<1>1. ASSUME NEW u \in Int, NEW v \in Int, u < v PROVE u * b + b <= v * b
  <2>1. (u + 1) * b <= v * b
    BY <1>1
  <2> QED
    BY <2>1
<1>2. x * b \in Int /\ y * b \in Int
  OBVIOUS
<1>3. ~(x < y) /\ ~(y < x)
  BY <1>1, <1>2
<1> QED
  BY <1>3

(* A common factor does not change a quotient. *)
LEMMA CommonFactor ==
  ASSUME NEW x \in Int, NEW c \in Nat \ {0}, NEW n \in Nat \ {0}
  PROVE  (x * n) \div (c * n) = x \div c
<1> DEFINE q == x \div c
           r == x % c
           d == c * n
           u == (x * n) \div d
           v == (x * n) % d
<1>1. q \in Int /\ r \in 0 .. (c - 1) /\ x = q * c + r
  BY IntDivMod
<1>2. d \in Nat \ {0} /\ x * n \in Int
  OBVIOUS
<1> HIDE DEF q, r
<1>3. x * n = q * d + r * n
  <2>1. x * n = (q * c + r) * n
    BY <1>1
  <2>2. (q * c + r) * n = q * (c * n) + r * n
    BY <1>1
  <2> QED
    BY <2>1, <2>2
<1>4. r * n \in 0 .. (d - 1)
  <2>1. r \in Nat /\ c \in Nat /\ n \in Nat /\ r < c
    BY <1>1
  <2>2. r * n + 0 < c * n /\ r * n \in Nat
    BY <2>1, BlockOrder, MulNat
  <2> QED
    BY <2>2
<1> HIDE DEF d
<1>5. u \in Int /\ v \in 0 .. (d - 1) /\ x * n = u * d + v
  BY <1>2, IntDivMod
<1> HIDE DEF u, v
<1>6. q = u
  <2>1. q * d + r * n = u * d + v
    BY <1>3, <1>5
  <2> QED
    BY <1>1, <1>2, <1>4, <1>5, <2>1, IntBlocks
<1> QED
  BY <1>6 DEF q, u, d

(* Of c times n numbers c are in the same place of their block of n. *)
Every(n, o, l) == {t \in 1 .. l : (t - 1) % n = o - 1}

LEMMA EveryNth ==
  ASSUME NEW n \in Nat \ {0}, NEW c \in Nat, NEW o \in 1 .. n
  PROVE  Cardinality(Every(n, o, c * n)) = c
<1> DEFINE T == Every(n, o, c * n)
           f == [k \in 1 .. c |-> (k - 1) * n + o]
<1>1. ASSUME NEW k \in 1 .. c PROVE f[k] \in T
  <2> DEFINE b == (k - 1) * n
  <2>1. k - 1 \in Nat /\ k - 1 < c /\ n \in Nat /\ o - 1 \in 0 .. (n - 1) /\ o - 1 \in Nat
        /\ o - 1 < n
    OBVIOUS
  <2>2. b + (o - 1) < c * n /\ b \in Nat /\ c * n \in Nat
    BY <2>1, BlockOrder, MulNat
  <2>3. (b + (o - 1)) % n = o - 1
    BY <2>1, DivUnique
  <2> HIDE DEF b
  <2>4. b + o \in 1 .. (c * n) /\ (b + o) - 1 = b + (o - 1)
    BY <2>1, <2>2
  <2>5. b + o \in T
    BY <2>3, <2>4 DEF Every
  <2> QED
    BY <2>5 DEF b
<1>2. ASSUME NEW t \in T PROVE \E k \in 1 .. c : f[k] = t
  <2>1. t \in 1 .. (c * n) /\ (t - 1) % n = o - 1
    BY DEF Every
  <2> DEFINE q == (t - 1) \div n
             r == (t - 1) % n
             d == c * n
  <2>2. d \in Nat
    BY MulNat
  <2>3. t - 1 \in Nat /\ t - 1 < d
    BY <2>1, <2>2
  <2>4. q \in Nat /\ t - 1 = q * n + r
    BY <2>3, DivMod
  <2>5. q < c
    BY <2>3, QuotientBelow
  <2>6. r = o - 1
    BY <2>1
  <2> HIDE DEF q, r, d
  <2>7. q + 1 \in 1 .. c /\ (q + 1) - 1 = q
    BY <2>4, <2>5
  <2>8. f[q + 1] = q * n + o
    BY <2>7
  <2>9. q * n \in Nat
    BY <2>4, MulNat
  <2>10. f[q + 1] = t
    BY <2>1, <2>4, <2>6, <2>8, <2>9
  <2> QED
    BY <2>7, <2>10
<1>3. ASSUME NEW j \in 1 .. c, NEW k \in 1 .. c, f[j] = f[k] PROVE j = k
  <2>1. (j - 1) * n + o = (k - 1) * n + o /\ (j - 1) * n \in Nat /\ (k - 1) * n \in Nat
    BY <1>3, MulNat
  <2>2. (j - 1) * n + 0 = (k - 1) * n + 0
    BY <2>1
  <2>3. j - 1 \in Nat /\ k - 1 \in Nat /\ n \in Nat /\ 0 < n /\ 0 \in Nat
    OBVIOUS
  <2>4. j - 1 = k - 1
    BY <2>2, <2>3, BlockUnique
  <2> QED
    BY <2>4
<1> HIDE DEF T
<1>4. f \in [1 .. c -> T]
  BY <1>1
<1> HIDE DEF f
<1>5. f \in Bijection(1 .. c, T)
  BY <1>2, <1>3, <1>4 DEF Bijection, Injection, IsInjective, Surjection
<1>6. IsFiniteSet(1 .. c) /\ Cardinality(1 .. c) = c
  BY FS_Interval
<1> QED
  BY <1>5, <1>6, FS_Bijection DEF ExistsBijection, T

-----------------------------------------------------------------------------
(* Transformations *)

LEMMA Fields ==
  ASSUME NEW fn, NEW of, NEW constant
  PROVE  LET v == Result(fn, of, constant) IN v.fn = fn /\ v.of = of /\ v.constant = constant
  BY DEF Result

LEMMA OrdinaryNumbers ==
  ASSUME NEW x \in Ordinary
  PROVE  x \in Int /\ x # NaN /\ x # Infinity /\ x # -Infinity /\ x # Lowest
  BY DEF Ordinary, Lowest, Infinity, NaN

(* What is computed from an ordinary number can be compared. *)
LEMMA ResultsCompare ==
  ASSUME NEW fn, NEW constant, NEW x \in Ordinary
  PROVE  IsOrdinary(Result(fn, x, constant))
<1> DEFINE v == Result(fn, x, constant)
<1>1. v.fn = fn /\ v.of = x /\ v.constant = constant
  BY Fields
<1>2. x \in Int /\ x # NaN /\ x # Infinity /\ x # -Infinity /\ x # Lowest
  BY OrdinaryNumbers
<1>3. ~IsLowest(v)
  <2>1. Number(Lowest).of = Lowest
    BY Fields DEF Number
  <2> HIDE DEF v
  <2> QED
    BY <1>1, <1>2, <2>1 DEF IsLowest
<1> HIDE DEF v
<1>4. ~IsNaN(v)
  BY <1>1, <1>2 DEF IsNaN
<1>5. ~IsInfinite(v)
  BY <1>1, <1>2 DEF IsInfinite
<1>6. Rank(v) \in Int
  BY <1>1, <1>2 DEF Rank
<1> QED
  BY <1>3, <1>4, <1>5, <1>6 DEF IsOrdinary, v

(* get_postproc_params gives a name the operation that Treelite gives it, and
   what results can be compared. *)
LEMMA TransformedAsNamed ==
  ASSUME NEW name \in Transformations, NEW x \in Ordinary
  PROVE  /\ PostprocParams(name).row = RowOpOf(name)
         /\ PostprocParams(name).row \in RowOps /\ PostprocParams(name).elem \in ElemOps
         /\ Element(PostprocParams(name).elem, x, PostprocParams(name).constant)
              = Transformed(name, x)
         /\ IsOrdinary(Transformed(name, x))
<1>1. x \in Int /\ x # NaN
  BY OrdinaryNumbers
<1>2. IsOrdinary(Number(x))
  BY ResultsCompare DEF Number
<1>3. IsOrdinary(Number(IF x > 0 THEN 1 ELSE 0))
  <2>1. (IF x > 0 THEN 1 ELSE 0) \in Ordinary
    BY DEF Ordinary, Lowest, Infinity
  <2> QED
    BY <2>1, ResultsCompare DEF Number
<1>4. ASSUME NEW e \in ElemOps \ {"disable", "hinge"}, NEW c
      PROVE  Element(e, x, c) = Result(e, x, c) /\ IsOrdinary(Result(e, x, c))
  <2>1. Element(e, x, c) = Result(e, x, c)
    BY DEF Element
  <2> QED
    BY <2>1, ResultsCompare
<1>5. CASE name \in {"identity", "identity_multiclass", "softmax", "max_index"}
  BY <1>2, <1>5 DEF PostprocParams, RowOpOf, RowOps, ElemOps, Element, Transformed
<1>6. CASE name = "hinge"
  <2>1. /\ PostprocParams(name).row = "disable" /\ PostprocParams(name).elem = "hinge"
        /\ RowOpOf(name) = "disable"
    BY <1>6 DEF PostprocParams, RowOpOf
  <2>2. Transformed(name, x) = Number(IF x > 0 THEN 1 ELSE 0)
    BY <1>6 DEF Transformed
  <2>3. Element("hinge", x, PostprocParams(name).constant) = Number(IF x > 0 THEN 1 ELSE 0)
    BY <1>1 DEF Element
  <2> QED
    BY <1>3, <2>1, <2>2, <2>3 DEF RowOps, ElemOps
<1>7. CASE name \notin {"identity", "identity_multiclass", "softmax", "max_index", "hinge"}
  <2> DEFINE e == PostprocParams(name).elem
             c == PostprocParams(name).constant
  <2>1. /\ PostprocParams(name).row = "disable" /\ RowOpOf(name) = "disable"
        /\ e \in ElemOps \ {"disable", "hinge"} /\ Transformed(name, x) = Result(e, x, c)
    BY <1>7 DEF PostprocParams, RowOpOf, ElemOps, Transformed, Transformations
  <2> HIDE DEF e, c
  <2>2. Element(e, x, c) = Transformed(name, x) /\ IsOrdinary(Transformed(name, x))
    BY <1>4, <2>1
  <2> QED
    BY <2>1, <2>2 DEF e, c, RowOps
<1> QED
  BY <1>5, <1>6, <1>7

LEMMA ZeroIsOrdinary == 0 \in Ordinary
  BY DEF Ordinary, Lowest, Infinity

-----------------------------------------------------------------------------
(* What is answered, in the terms of the forest *)

Kinds == {"default", "per_tree", "leaf_id"}

AnswerTo(kind, row) ==
  LET val == Workspace(kind, Reached(row))
  IN  [kind |-> kind, reached |-> Reached(row),
       outputs |-> Apply(PostprocessorFor(kind), kind = "default", val, params.bias,
                         [o \in DOMAIN val |-> Untouched])]

ParamsOf(row) ==
  [row |-> row, elem |-> PostprocParams(model.postprocessor).elem,
   constant |-> PostprocParams(model.postprocessor).constant,
   average_factor |-> AverageFactor(model), bias |-> model.base_scores]
RowInForce ==
  IF row_set = "imported" THEN PostprocParams(model.postprocessor).row ELSE row_set

IdsKept ==
  ids \in Seq(Nat) /\ Len(ids) = Len(nodes) /\ \A i \in 1 .. Len(nodes) : ids[i] = model.nodes[i].id

AnswerInv ==
  /\ phase = "called" => ids = <<>>
  /\ phase \in {"build", "ready"} =>
       ShapeSupported(model) /\ AssignmentSupported(model) /\ IdsKept
  /\ phase # "ready" => answer = NoAnswer /\ row_set = "imported"
  /\ phase = "ready" =>
       /\ model.postprocessor \in Transformations
       /\ row_set \in RowOps \cup {"imported"}
       /\ params = ParamsOf(RowInForce)
       /\ answer = NoAnswer \/ \E kind \in Kinds, row \in Rows : answer = AnswerTo(kind, row)

LEMMA AnswerUnchanged ==
  ASSUME UNCHANGED <<model, types, ids, vector, nodes, params>>, NEW kind, NEW row
  PROVE  AnswerTo(kind, row)' = AnswerTo(kind, row)
<1>1. Reached(row)' = Reached(row)
  BY DEF Reached
<1>2. \A k, reached : Workspace(k, reached)' = Workspace(k, reached)
  BY DEF Workspace, LeafOutput, VectorElement
<1>3. \A k : PostprocessorFor(k)' = PostprocessorFor(k)
  BY DEF PostprocessorFor
<1> QED
  BY <1>1, <1>2, <1>3 DEF AnswerTo

LEMMA AnswerBegins == Init => AnswerInv
  BY DEF Init, AnswerInv

LEMMA IdAdded ==
  ASSUME ImportInv, AnswerInv, Building, phase' = phase,
         UNCHANGED <<arguments, types, row_set, answer>>,
         NEW value, NEW index, NEW bits, AddNode(Current, value, index, bits)
  PROVE  AnswerInv'
<1>1. /\ Len(nodes) \in Nat /\ Len(nodes) + 1 \in 1 .. Len(model.nodes)
      /\ Current = model.nodes[Len(nodes) + 1] /\ Current \in TreeliteNodes
      /\ Len(nodes') = Len(nodes) + 1 /\ model' = model
  BY NextNode
<1>2. phase = "build" /\ phase' = "build" /\ row_set' = row_set /\ answer' = answer
  BY DEF Building
<1>3. /\ ShapeSupported(model) /\ AssignmentSupported(model) /\ IdsKept
      /\ answer = NoAnswer /\ row_set = "imported"
  BY <1>2 DEF AnswerInv
<1>4. ids' = Append(ids, Current.id) /\ Current.id \in Nat
  BY <1>1 DEF AddNode, TreeliteNodes
<1>5. /\ ids' \in Seq(Nat \cup {Current.id}) /\ Len(ids') = Len(ids) + 1
      /\ \A i \in 1 .. Len(ids) : ids'[i] = ids[i]
      /\ ids'[Len(ids) + 1] = Current.id
  BY <1>3, <1>4, Appended, SMTT(40) DEF IdsKept
<1>6. Nat \cup {Current.id} = Nat
  BY <1>4
<1>7. ids' \in Seq(Nat) /\ Len(ids') = Len(nodes')
  BY <1>1, <1>3, <1>5, <1>6 DEF IdsKept
<1>8. \A i \in 1 .. Len(nodes') : ids'[i] = model'.nodes[i].id
  <2> SUFFICES ASSUME NEW i \in 1 .. Len(nodes') PROVE ids'[i] = model.nodes[i].id
    BY <1>1
  <2>1. CASE i \in 1 .. Len(nodes)
    BY <1>3, <1>5, <2>1 DEF IdsKept
  <2>2. CASE i = Len(nodes) + 1
    BY <1>1, <1>3, <1>5, <2>2 DEF IdsKept
  <2> QED
    BY <1>1, <2>1, <2>2
<1>9. IdsKept'
  BY <1>7, <1>8 DEF IdsKept
<1>10. ShapeSupported(model') /\ AssignmentSupported(model')
  BY <1>1, <1>3
<1> QED
  BY <1>2, <1>3, <1>9, <1>10 DEF AnswerInv

LEMMA AnswerAdvances == ImportInv /\ AnswerInv /\ [Next]_vars => AnswerInv'
<1> SUFFICES ASSUME ImportInv, AnswerInv, [Next]_vars PROVE AnswerInv'
  OBVIOUS
<1>1. CASE Reject
  BY <1>1 DEF Reject, AnswerInv
<1>2. CASE Choose
  <2>1. /\ phase' = "build" /\ model' = model /\ nodes' = nodes /\ ids' = ids
        /\ answer' = answer /\ row_set' = row_set
        /\ ShapeSupported(model) /\ AssignmentSupported(model)
    BY <1>2 DEF Choose, arguments
  <2>2. nodes = <<>> /\ ids = <<>> /\ answer = NoAnswer /\ row_set = "imported"
    BY <1>2 DEF Choose, AnswerInv, ImportInv, IInv
  <2>3. ids' = <<>> /\ nodes' = <<>>
    BY <2>1, <2>2
  <2>4. IdsKept'
    BY <2>3 DEF IdsKept
  <2>5. ShapeSupported(model') /\ AssignmentSupported(model')
    BY <2>1
  <2> QED
    BY <2>1, <2>2, <2>4, <2>5 DEF AnswerInv
<1>3. CASE AddLeaf
  <2>1. Building /\ phase' = phase /\ UNCHANGED <<arguments, types, row_set, answer>>
    BY <1>3 DEF AddLeaf
  <2>2. \E value, index, bits : AddNode(Current, value, index, bits)
    BY <1>3 DEF AddLeaf
  <2> QED
    BY <2>1, <2>2, IdAdded
<1>4. CASE AddNumeric
  <2>1. Building /\ phase' = phase /\ UNCHANGED <<arguments, types, row_set, answer>>
    BY <1>4 DEF AddNumeric
  <2>2. \E value, index, bits : AddNode(Current, value, index, bits)
    BY <1>4 DEF AddNumeric
  <2> QED
    BY <2>1, <2>2, IdAdded
<1>5. CASE AddCategorical
  <2>1. Building /\ phase' = phase /\ UNCHANGED <<arguments, types, row_set, answer>>
    BY <1>5 DEF AddCategorical
  <2>2. \E value, index, bits : AddNode(Current, value, index, bits)
    BY <1>5 DEF AddCategorical
  <2> QED
    BY <2>1, <2>2, IdAdded
<1>6. CASE RejectNode
  BY <1>6 DEF RejectNode, AnswerInv, Building
<1>7. CASE Finish
  <2>1. /\ phase = "build" /\ phase' = "ready" /\ model' = model /\ nodes' = nodes /\ ids' = ids
        /\ answer' = answer /\ row_set' = row_set /\ model.postprocessor \in Transformations
    BY <1>7 DEF Finish, Built, Buildable, Recognised, arguments, forest
  <2>2. /\ ShapeSupported(model) /\ AssignmentSupported(model) /\ IdsKept
        /\ answer = NoAnswer /\ row_set = "imported"
    BY <2>1 DEF AnswerInv
  <2>3. params' = ParamsOf(PostprocParams(model.postprocessor).row)
    BY <1>7 DEF Finish, ParamsOf
  <2>4. RowInForce' = PostprocParams(model.postprocessor).row
    BY <2>1, <2>2 DEF RowInForce
  <2>5. params' = ParamsOf(RowInForce)'
    BY <2>1, <2>3, <2>4 DEF ParamsOf
  <2>6. ShapeSupported(model') /\ AssignmentSupported(model') /\ IdsKept'
    BY <2>1, <2>2 DEF IdsKept
  <2> QED
    BY <2>1, <2>2, <2>5, <2>6 DEF AnswerInv
<1>8. CASE RejectForest
  BY <1>8 DEF RejectForest, AnswerInv, Built
<1>9. ASSUME NEW op \in RowOps, SetRow(op) PROVE AnswerInv'
  <2>1. /\ phase = "ready" /\ phase' = "ready" /\ model' = model /\ nodes' = nodes /\ ids' = ids
        /\ answer' = NoAnswer /\ row_set' = op /\ row_set = "imported"
        /\ params' = [params EXCEPT !.row = op]
    BY <1>9 DEF SetRow, arguments, forest
  <2>2. /\ ShapeSupported(model) /\ AssignmentSupported(model) /\ IdsKept
        /\ model.postprocessor \in Transformations /\ params = ParamsOf(RowInForce)
    BY <2>1 DEF AnswerInv
  <2>3. op # "imported"
    BY DEF RowOps
  <2>4. RowInForce' = op
    BY <2>1, <2>3 DEF RowInForce
  <2>5. params' = ParamsOf(op)
    BY <2>1, <2>2 DEF ParamsOf
  <2>6. params' = ParamsOf(RowInForce)'
    BY <2>1, <2>4, <2>5 DEF ParamsOf
  <2>7. ShapeSupported(model') /\ AssignmentSupported(model') /\ IdsKept'
    BY <2>1, <2>2 DEF IdsKept
  <2> QED
    BY <2>1, <2>2, <2>6, <2>7 DEF AnswerInv
<1>10. ASSUME NEW kind \in Kinds, NEW row \in Rows, Predict(kind, row) PROVE AnswerInv'
  <2>1. /\ phase = "ready" /\ phase' = "ready" /\ row_set' = row_set
        /\ UNCHANGED <<model, types, ids, vector, nodes, params>>
    BY <1>10 DEF Predict, arguments, forest
  <2>2. answer' = AnswerTo(kind, row)
    BY <1>10 DEF Predict, AnswerTo
  <2>3. answer' = AnswerTo(kind, row)'
    BY <2>1, <2>2, AnswerUnchanged
  <2>4. /\ ShapeSupported(model) /\ AssignmentSupported(model) /\ IdsKept
        /\ model.postprocessor \in Transformations /\ row_set \in RowOps \cup {"imported"}
        /\ params = ParamsOf(RowInForce)
    BY <2>1 DEF AnswerInv
  <2>5. ShapeSupported(model') /\ AssignmentSupported(model') /\ IdsKept'
    BY <2>1, <2>4 DEF IdsKept
  <2>6. params' = ParamsOf(RowInForce)'
    BY <2>1, <2>4 DEF ParamsOf, RowInForce
  <2> HIDE <2>2
  <2> QED
    BY <2>1, <2>3, <2>4, <2>5, <2>6 DEF AnswerInv
<1>11. CASE Failed \/ UNCHANGED vars
  <2>1. UNCHANGED vars
    BY <1>11 DEF Failed
  <2>2. /\ phase' = phase /\ row_set' = row_set /\ answer' = answer
        /\ UNCHANGED <<model, types, ids, vector, nodes, params>>
    BY <2>1 DEF vars, arguments, forest
  <2>3. \A kind, row : AnswerTo(kind, row)' = AnswerTo(kind, row)
    BY <2>2, AnswerUnchanged
  <2>4. IdsKept' <=> IdsKept
    BY <2>2 DEF IdsKept
  <2>5. (params = ParamsOf(RowInForce))' <=> params = ParamsOf(RowInForce)
    BY <2>2 DEF ParamsOf, RowInForce
  <2> QED
    BY <2>2, <2>3, <2>4, <2>5 DEF AnswerInv
<1> QED
  BY <1>1, <1>2, <1>3, <1>4, <1>5, <1>6, <1>7, <1>8, <1>9, <1>10, <1>11 DEF Next, Kinds

-----------------------------------------------------------------------------
(* What the leaves of a row read *)

LEMMA ModelTrees ==
  ASSUME ImportInv, AnswerInv, phase = "ready", Answerable
  PROVE  /\ Len(model.trees) \in Nat \ {0} /\ DOMAIN model.trees = 1 .. Len(model.trees)
         /\ NumOutputs(model) \in Nat \ {0}
         /\ \A o \in 1 .. NumOutputs(model) : model.base_scores[o] \in Int
         /\ OutputsHeld(model)
<1>1. IsImportable(model) /\ ShapeSupported(model)
  BY DEF ImportInv, AnswerInv
<1>2. Len(model.trees) \in Nat /\ DOMAIN model.trees = 1 .. Len(model.trees)
  BY <1>1, LenProperties DEF IsImportable
<1>3. Len(model.trees) # 0
  BY <1>1, <1>2 DEF ShapeSupported
<1>4. model.base_scores \in Seq(Int)
  BY <1>1 DEF IsImportable
<1>5. Len(model.base_scores) \in Nat
        /\ \A o \in 1 .. Len(model.base_scores) : model.base_scores[o] \in Int
  BY <1>4, LenProperties, ElementOfSeq
<1>6. NumOutputs(model) \in 1 .. Len(model.base_scores)
  BY DEF Answerable
<1>7. NumOutputs(model) \in Nat \ {0}
        /\ \A o \in 1 .. NumOutputs(model) : model.base_scores[o] \in Int
  BY <1>5, <1>6
<1>8. OutputsHeld(model)
  BY DEF Answerable, LeavesShaped, OutputsHeld
<1> QED
  BY <1>2, <1>3, <1>7, <1>8

LEMMA LeafIsReached ==
  ASSUME ImportInv, AnswerInv, phase = "ready", Answerable,
         NEW row \in Rows, NEW t \in DOMAIN model.trees
  PROVE  /\ Reached(row)[t] \in 1 .. Len(nodes)
         /\ model.nodes[Reached(row)[t]].kind = "leaf"
<1> DEFINE Here(i) == Cardinality({j \in LeavesOf(model, t) : j <= i}) = row[t % 2]
           leaf == CHOOSE i \in LeavesOf(model, t) : Here(i)
<1>1. \E i \in LeavesOf(model, t) : Here(i)
  BY DEF Answerable
<1> HIDE DEF Here
<1>2. leaf \in LeavesOf(model, t)
  BY <1>1
<1>3. Reached(row)[t] = leaf
  BY DEF Reached, Here
<1> HIDE DEF leaf
<1>4. leaf \in DOMAIN model.nodes /\ model.nodes[leaf].kind = "leaf"
  BY <1>2 DEF LeavesOf
<1>5. DOMAIN model.nodes = 1 .. Len(nodes)
  BY ModelNodes DEF ImportInv
<1> QED
  BY <1>3, <1>4, <1>5

LEMMA LeafReads ==
  ASSUME ImportInv, IntactInv, AnswerInv, phase = "ready", Answerable,
         NEW i \in 1 .. Len(nodes), model.nodes[i].kind = "leaf"
  PROVE  /\ vector = <<>> <=> ~VectorLeaf(model)
         /\ \A o \in 1 .. NumOutputs(model) :
              LeafOutput(i, o) = Contribution(model, i, o) /\ Contribution(model, i, o) \in Int
         /\ LeafOutput(i, 1) = model.nodes[i].output[1]
<1> DEFINE n == NumOutputs(model)
           out == model.nodes[i].output
           q == Cardinality(VectorNodes(Len(nodes)))
<1>1. IsImportable(model) /\ Len(nodes) = Len(model.nodes) /\ OutputsKept /\ vector \in Seq(Int)
  BY DEF ImportInv, IntactInv
<1>2. OutputsHeld(model) /\ n \in Nat \ {0}
  BY ModelTrees
<1>3. /\ out \in Seq(Int) /\ DOMAIN out = 1 .. Len(out)
      /\ \A o \in 1 .. Len(out) : out[o] \in Int
  <2>1. model.nodes[i] \in TreeliteNodes
    BY <1>1, ModelNodes
  <2> QED
    BY <2>1, NodeFields
<1>4. \A o \in 1 .. Len(out) : LeafOutput(i, o) = out[o]
  BY <1>2, <1>3, LeafReadBack
<1>5. \A j \in 1 .. Len(nodes) : model.nodes[j].kind = "leaf" =>
        Len(model.nodes[j].output) = IF VectorLeaf(model) THEN n ELSE 1
  BY <1>1, ModelNodes DEF Answerable, LeavesShaped
<1>6. Len(vector) = q * n /\ (IsVectorLeaf(model.nodes[i]) => OutputKept(model.nodes[i], nodes[i].index))
  BY <1>1, <1>2 DEF OutputsKept
<1>7. CASE VectorLeaf(model)
  <2>1. Len(out) = n /\ n > 1
    BY <1>5, <1>7 DEF Answerable, LeavesShaped
  <2>2. IsVectorLeaf(model.nodes[i])
    BY <2>1 DEF IsVectorLeaf
  <2>3. nodes[i].index \in Nat /\ nodes[i].index * n + n <= Len(vector)
    BY <1>6, <2>2 DEF OutputKept
  <2>4. nodes[i].index * n \in Nat
    BY <1>2, <2>3, MulNat
  <2>5. Len(vector) # 0
    BY <1>2, <2>3, <2>4
  <2>6. vector # <<>>
    BY <2>5, EmptySeq
  <2>7. \A o \in 1 .. n : Contribution(model, i, o) = out[o]
    BY <1>7 DEF Contribution
  <2> QED
    BY <1>2, <1>3, <1>4, <1>7, <2>1, <2>6, <2>7
<1>8. CASE ~VectorLeaf(model)
  <2>1. Len(out) = 1
    BY <1>5, <1>8
  <2>2. \A j \in 1 .. Len(nodes) : ~IsVectorLeaf(model.nodes[j])
    <3> SUFFICES ASSUME NEW j \in 1 .. Len(nodes), IsVectorLeaf(model.nodes[j]) PROVE FALSE
      OBVIOUS
    <3>1. model.nodes[j].kind = "leaf" /\ Len(model.nodes[j].output) > 1
      BY DEF IsVectorLeaf
    <3>2. Len(model.nodes[j].output) = 1
      BY <1>5, <1>8, <3>1
    <3> QED
      BY <3>1, <3>2
  <2>3. VectorNodes(Len(nodes)) = {}
    BY <2>2 DEF VectorNodes
  <2>4. q = 0
    BY <2>3, FS_EmptySet
  <2> HIDE DEF q
  <2>5. Len(vector) = 0
    BY <1>2, <1>6, <2>4
  <2>6. vector = <<>>
    BY <1>1, <2>5, EmptySeq
  <2>7. \A o : LeafOutput(i, o) = LeafOutput(i, 1) /\ Contribution(model, i, o) = out[1]
    BY <1>8, <2>6 DEF LeafOutput, Contribution
  <2>8. LeafOutput(i, 1) = out[1] /\ out[1] \in Int
    BY <1>3, <1>4, <2>1
  <2> QED
    BY <1>8, <2>6, <2>7, <2>8
<1> QED
  BY <1>7, <1>8

-----------------------------------------------------------------------------
(* The other two kinds of inference *)

(* Without a postprocessor a number is passed on. *)
Passed(val, out) == Apply(NoPostprocessor, FALSE, val, params.bias, out)

LEMMA PassedOn ==
  ASSUME ImportInv, AnswerInv, phase = "ready", Answerable,
         NEW val, NEW i \in DOMAIN val, val[i] \in Int, NEW out
  PROVE  DOMAIN Passed(val, out) = DOMAIN val /\ Passed(val, out)[i] = Number(val[i])
<1> DEFINE one == [trees |-> 1, outputs |-> 1]
           bias == params.bias
           none == NoPostprocessor
           x(j) == AddNumber(Divide(val[j], one), BiasOf(bias, j, FALSE))
<1>1. Apply(none, FALSE, val, bias, out) = Postprocessed(none, FALSE, val, bias, out)
  <2>1. IsPostprocessor(none)
    BY DEF IsPostprocessor, NoPostprocessor, RowOps, ElemOps
  <2> HIDE DEF none
  <2>2. \A d : Apply(none, d, val, bias, out) = Postprocessed(none, d, val, bias, out)
    BY <2>1, Applied
  <2> QED
    BY <2>2, Zenon
<1>2. Postprocessed(none, FALSE, val, bias, out)
        = [j \in DOMAIN val |-> Element("disable", x(j), "one")]
  BY DEF Postprocessed, NoPostprocessor
<1>3. bias = model.base_scores
  BY DEF AnswerInv, ParamsOf
<1>4. bias[1] \in Int
  BY <1>3, ModelTrees
<1>5. BiasOf(bias, i, FALSE) = 0
  BY <1>4 DEF BiasOf
<1>6. Divide(val[i], one) = val[i]
  BY DEF Divide
<1>7. x(i) = val[i]
  <2>1. x(i) = AddNumber(val[i], 0)
    BY <1>5, <1>6, Zenon
  <2> HIDE DEF x
  <2>2. AddNumber(val[i], 0) = val[i]
    BY DEF AddNumber
  <2> QED
    BY <2>1, <2>2
<1> HIDE DEF x
<1>8. Element("disable", x(i), "one") = Number(val[i])
  BY <1>7 DEF Element
<1> QED
  BY <1>1, <1>2, <1>8 DEF Passed

LEMMA LeafIdsAsTreelite ==
  ASSUME ImportInv, AnswerInv, phase = "ready", Answerable, NEW row \in Rows
  PROVE  LET q == AnswerTo("leaf_id", row).outputs
             meant == LeafIds(model, Reached(row))
         IN  DOMAIN q = DOMAIN meant /\ \A o \in DOMAIN q : q[o] = meant[o]
<1> DEFINE reached == Reached(row)
           val == Workspace("leaf_id", reached)
           out == [o \in DOMAIN val |-> Untouched]
           q == Passed(val, out)
<1>1. val = [t \in DOMAIN model.trees |-> ids[reached[t]]]
  BY DEF Workspace, Reached
<1>2. AnswerTo("leaf_id", row).outputs = q
  BY DEF AnswerTo, PostprocessorFor, Passed
<1> HIDE DEF val, out
<1>3. \A t \in DOMAIN model.trees : val[t] \in Int /\ val[t] = model.nodes[reached[t]].id
  <2> TAKE t \in DOMAIN model.trees
  <2>1. reached[t] \in 1 .. Len(nodes)
    BY LeafIsReached
  <2>2. IdsKept
    BY DEF AnswerInv
  <2>3. ids[reached[t]] = model.nodes[reached[t]].id /\ ids[reached[t]] \in Nat
    BY <2>1, <2>2, ElementOfSeq DEF IdsKept
  <2> QED
    BY <1>1, <2>3
<1>4. DOMAIN val = DOMAIN model.trees /\ 1 \in DOMAIN model.trees
  BY <1>1, ModelTrees
<1>5. \A t \in DOMAIN model.trees : DOMAIN q = DOMAIN val /\ q[t] = Number(model.nodes[reached[t]].id)
  BY <1>3, <1>4, PassedOn
<1> HIDE DEF q, reached
<1>6. /\ DOMAIN LeafIds(model, reached) = DOMAIN model.trees
      /\ \A t \in DOMAIN model.trees : LeafIds(model, reached)[t] = Number(model.nodes[reached[t]].id)
  BY DEF LeafIds
<1> QED
  BY <1>2, <1>4, <1>5, <1>6 DEF reached

LEMMA PerTreeAsTreelite ==
  ASSUME ImportInv, IntactInv, AnswerInv, phase = "ready", Answerable, NEW row \in Rows
  PROVE  LET q == AnswerTo("per_tree", row).outputs
             meant == PerTree(model, Reached(row))
         IN  DOMAIN q = DOMAIN meant /\ \A o \in DOMAIN q : q[o] = meant[o]
<1> DEFINE reached == Reached(row)
           n == NumOutputs(model)
           l == Len(model.trees)
           leaf(i) == reached[(i - 1) \div n + 1]
           place(i) == ((i - 1) % n) + 1
           val == Workspace("per_tree", reached)
           out == [o \in DOMAIN val |-> Untouched]
           q == Passed(val, out)
           meant == PerTree(model, reached)
<1>1. AnswerTo("per_tree", row).outputs = q
  BY DEF AnswerTo, PostprocessorFor, Passed
<1>2. DOMAIN reached = DOMAIN model.trees /\ DOMAIN model.trees = 1 .. l
      /\ l \in Nat \ {0} /\ n \in Nat \ {0}
  BY ModelTrees DEF Reached
<1>3. Len(reached) = l
  BY <1>2 DEF Reached
<1>4. \A t \in 1 .. l : reached[t] \in 1 .. Len(nodes) /\ model.nodes[reached[t]].kind = "leaf"
  BY <1>2, LeafIsReached
<1>5. CASE VectorLeaf(model)
  <2>1. vector # <<>>
    BY <1>2, <1>4, <1>5, LeafReads
  <2>2. val = [i \in 1 .. (l * n) |-> LeafOutput(leaf(i), place(i))]
    BY <1>3, <2>1 DEF Workspace
  <2>3. meant = [i \in 1 .. (l * n) |-> Number(model.nodes[leaf(i)].output[place(i)])]
    BY <1>5 DEF PerTree
  <2>4. ASSUME NEW i \in 1 .. (l * n)
        PROVE  /\ LeafOutput(leaf(i), place(i)) = model.nodes[leaf(i)].output[place(i)]
               /\ LeafOutput(leaf(i), place(i)) \in Int
    <3> DEFINE t == (i - 1) \div n
               d == l * n
    <3>1. d \in Nat
      BY <1>2, MulNat
    <3> HIDE DEF d
    <3>2. i - 1 \in Nat /\ i - 1 < d
      BY <3>1 DEF d
    <3>3. t \in Nat /\ t < l
      BY <1>2, <3>2, DivMod, QuotientBelow DEF d
    <3>4. place(i) \in 1 .. n
      <4> DEFINE r == (i - 1) % n
      <4>1. r \in 0 .. (n - 1)
        BY <1>2, <3>2, DivMod
      <4> HIDE DEF r
      <4>2. r + 1 \in 1 .. n
        BY <1>2, <4>1
      <4> QED
        BY <4>2 DEF r
    <3> HIDE DEF t
    <3>5. t + 1 \in 1 .. l
      BY <1>2, <3>3
    <3>6. leaf(i) \in 1 .. Len(nodes) /\ model.nodes[leaf(i)].kind = "leaf"
      BY <1>4, <3>5 DEF t
    <3> HIDE DEF leaf, place
    <3>7. /\ LeafOutput(leaf(i), place(i)) = Contribution(model, leaf(i), place(i))
          /\ Contribution(model, leaf(i), place(i)) \in Int
      BY <3>4, <3>6, LeafReads
    <3> QED
      BY <1>5, <3>7 DEF Contribution
  <2> HIDE DEF leaf, place, val, meant
  <2>5. \A i \in 1 .. (l * n) : val[i] \in Int /\ meant[i] = Number(val[i])
    BY <2>2, <2>3, <2>4
  <2>6. DOMAIN val = 1 .. (l * n) /\ DOMAIN meant = 1 .. (l * n)
    BY <2>2, <2>3
  <2>7. 1 \in 1 .. (l * n)
    <3> DEFINE d == l * n
    <3>1. l - 1 \in Nat /\ l = (l - 1) + 1
      BY <1>2
    <3>2. (l - 1) * n \in Nat /\ d = (l - 1) * n + n
      BY <1>2, <3>1, MulNat
    <3> HIDE DEF d
    <3>3. 1 \in 1 .. d
      BY <1>2, <3>2
    <3> QED
      BY <3>3 DEF d
  <2>8. \A i \in 1 .. (l * n) : DOMAIN q = DOMAIN val /\ q[i] = Number(val[i])
    BY <2>5, <2>6, PassedOn
  <2> HIDE DEF q
  <2> QED
    BY <1>1, <2>5, <2>6, <2>7, <2>8 DEF meant
<1>6. CASE ~VectorLeaf(model)
  <2>1. vector = <<>>
    BY <1>2, <1>4, <1>6, LeafReads
  <2>2. val = [t \in 1 .. l |-> LeafOutput(reached[t], 1)]
    BY <1>2, <2>1 DEF Workspace
  <2>3. meant = [t \in 1 .. l |-> Number(model.nodes[reached[t]].output[1])]
    BY <1>2, <1>6 DEF PerTree
  <2>4. \A t \in 1 .. l : /\ LeafOutput(reached[t], 1) = model.nodes[reached[t]].output[1]
                          /\ LeafOutput(reached[t], 1) \in Int
    <3> TAKE t \in 1 .. l
    <3>1. reached[t] \in 1 .. Len(nodes) /\ model.nodes[reached[t]].kind = "leaf"
      BY <1>4
    <3>2. 1 \in 1 .. n
      BY <1>2
    <3> HIDE DEF reached, n
    <3> QED
      BY <3>1, <3>2, LeafReads DEF n
  <2> HIDE DEF val, meant
  <2>5. \A i \in 1 .. l : val[i] \in Int /\ meant[i] = Number(val[i])
    BY <2>2, <2>3, <2>4
  <2>6. DOMAIN val = 1 .. l /\ DOMAIN meant = 1 .. l /\ 1 \in 1 .. l
    BY <1>2, <2>2, <2>3
  <2>7. \A i \in 1 .. l : DOMAIN q = DOMAIN val /\ q[i] = Number(val[i])
    BY <2>5, <2>6, PassedOn
  <2> HIDE DEF q
  <2> QED
    BY <1>1, <2>5, <2>6, <2>7 DEF meant
<1> QED
  BY <1>5, <1>6

-----------------------------------------------------------------------------
(* The default kind *)

(* A model that imports has a classifier's trees in turn, and one whose other
   trees are in turn adds them to the outputs they are for. *)
LEMMA AddedInTurn ==
  ASSUME ImportInv, AnswerInv, phase = "ready", Answerable, NEW o \in 1 .. NumOutputs(model)
  PROVE  Contributors(model, o)
           = {t \in DOMAIN model.trees : VectorLeaf(model) \/ (t - 1) % NumOutputs(model) = o - 1}
<1>1. CASE VectorLeaf(model)
  BY <1>1 DEF Contributors
<1>2. CASE ~VectorLeaf(model) /\ model.task = "kMultiClf"
  <2>1. ~(model.leaf_vector_shape[2] > 1)
    BY <1>2 DEF VectorLeaf
  <2>2. \A t \in DOMAIN model.trees : model.trees[t].class = (t - 1) % model.num_class
    BY <1>2, <2>1 DEF AnswerInv, AssignmentSupported
  <2>3. NumOutputs(model) = model.num_class
    BY <1>2 DEF NumOutputs, Classifiers
  <2> QED
    BY <1>2, <2>2, <2>3 DEF Contributors, TreesFor
<1>3. CASE ~VectorLeaf(model) /\ model.task # "kMultiClf"
  <2>1. \A t \in DOMAIN model.trees : model.trees[t].target = (t - 1) % NumOutputs(model)
    BY <1>3 DEF Answerable, TreesInTurn
  <2> QED
    BY <1>3, <2>1 DEF Contributors, TreesFor
<1> QED
  BY <1>1, <1>2, <1>3

(* Dividing by the average factor is averaging over the trees of an output. *)
LEMMA AverageIsMean ==
  ASSUME ImportInv, AnswerInv, phase = "ready", Answerable,
         NEW o \in 1 .. NumOutputs(model), NEW x \in Int
  PROVE  Divide(x, AverageFactor(model))
           = IF model.average
             THEN Divide(x, [trees |-> Cardinality(Contributors(model, o)), outputs |-> 1])
             ELSE x
<1> DEFINE n == NumOutputs(model)
           l == Len(model.trees)
           trees == Contributors(model, o)
           c == l \div n
<1>1. l \in Nat \ {0} /\ DOMAIN model.trees = 1 .. l /\ n \in Nat \ {0}
  BY ModelTrees
<1>2. CASE ~model.average
  <2>1. AverageFactor(model) = [trees |-> 1, outputs |-> 1]
    BY <1>2 DEF AverageFactor
  <2>2. Divide(x, [trees |-> 1, outputs |-> 1]) = x
    BY DEF Divide
  <2> QED
    BY <1>2, <2>1, <2>2
<1>3. CASE model.average /\ VectorLeaf(model)
  <2>1. AverageFactor(model) = [trees |-> l, outputs |-> 1]
    BY <1>3 DEF AverageFactor, VectorLeaf
  <2>2. trees = 1 .. l
    BY <1>1, <1>3 DEF Contributors
  <2>3. Cardinality(trees) = l
    <3> HIDE DEF l, trees
    <3>1. Cardinality(1 .. l) = l
      BY <1>1, FS_Interval
    <3> QED
      BY <2>2, <3>1
  <2> QED
    BY <1>3, <2>1, <2>3
<1>4. CASE model.average /\ ~VectorLeaf(model)
  <2>1. AverageFactor(model) = [trees |-> l, outputs |-> n]
    <3>1. n = IF model.task = "kMultiClf" THEN model.num_class ELSE model.num_target
      <4>1. model.task = "kBinaryClf" => model.num_class = 1 /\ model.num_target = 1
        BY DEF Answerable, TreesInTurn, AnswerInv, ShapeSupported, Classifiers
      <4> QED
        BY <4>1 DEF NumOutputs, Classifiers
    <3> HIDE DEF n
    <3> QED
      BY <1>4, <3>1 DEF AverageFactor, VectorLeaf
  <2>2. l % n = 0
    BY <1>4 DEF Answerable, TreesInTurn
  <2> HIDE DEF n, l
  <2>3. c \in Nat /\ l = c * n + (l % n)
    <3>1. l \in Nat /\ n \in Nat \ {0}
      BY <1>1
    <3> QED
      BY <3>1, DivMod
  <2> HIDE DEF c
  <2>4. c * n \in Nat /\ l = c * n /\ c # 0
    BY <1>1, <2>2, <2>3, MulNat
  <2>5. trees = Every(n, o, c * n)
    <3>1. trees = {t \in 1 .. l : (t - 1) % n = o - 1}
      BY <1>1, <1>4, AddedInTurn DEF n
    <3> HIDE DEF trees
    <3> QED
      BY <2>4, <3>1 DEF Every
  <2>6. o \in 1 .. n
    BY DEF n
  <2>7. Cardinality(trees) = c
    BY <1>1, <2>3, <2>5, <2>6, EveryNth
  <2> HIDE DEF trees
  <2>8. (x * n) \div (c * n) = (x * 1) \div c
    <3>1. (x * n) \div (c * n) = x \div c
      BY <1>1, <2>3, <2>4, CommonFactor
    <3> QED
      BY <3>1
  <2>9. Divide(x, [trees |-> l, outputs |-> n]) = Divide(x, [trees |-> c, outputs |-> 1])
    <3> DEFINE u == (x * n) \div l
               v == (x * 1) \div c
    <3>1. Divide(x, [trees |-> l, outputs |-> n])
            = IF x \in {Infinity, -Infinity, NaN} THEN x ELSE u
      BY DEF Divide
    <3>2. Divide(x, [trees |-> c, outputs |-> 1])
            = IF x \in {Infinity, -Infinity, NaN} THEN x ELSE v
      BY DEF Divide
    <3>3. u = v
      BY <2>4, <2>8
    <3> HIDE DEF u, v
    <3> QED
      BY <3>1, <3>2, <3>3
  <2> QED
    BY <1>4, <2>1, <2>7, <2>9 DEF trees
<1> QED
  BY <1>2, <1>3, <1>4

(* The sums of a row become what the trees say. *)
LEMMA SumsAsMeant ==
  ASSUME ImportInv, IntactInv, AnswerInv, phase = "ready", Answerable,
         NEW row \in Rows, NEW o \in 1 .. NumOutputs(model)
  PROVE  AddNumber(Divide(Workspace("default", Reached(row))[o], AverageFactor(model)),
                   BiasOf(model.base_scores, o, TRUE))
           = Margin(model, Reached(row), o)
<1> DEFINE n == NumOutputs(model)
           reached == Reached(row)
           adds == {t \in DOMAIN reached : vector # <<>> \/ (t - 1) % n = o - 1}
           read == [t \in adds |-> LeafOutput(reached[t], o)]
           trees == Contributors(model, o)
           meant == [t \in trees |-> Contribution(model, reached[t], o)]
           total == Total(meant, trees)
<1>1. Workspace("default", reached)[o] = Total(read, adds)
  BY DEF Workspace
<1>2. DOMAIN reached = DOMAIN model.trees /\ DOMAIN model.trees = 1 .. Len(model.trees)
      /\ Len(model.trees) \in Nat \ {0}
  BY ModelTrees DEF Reached
<1>3. \A t \in DOMAIN model.trees :
        reached[t] \in 1 .. Len(nodes) /\ model.nodes[reached[t]].kind = "leaf"
  BY LeafIsReached
<1>4. vector = <<>> <=> ~VectorLeaf(model)
  <2>1. reached[1] \in 1 .. Len(nodes) /\ model.nodes[reached[1]].kind = "leaf"
    BY <1>2, <1>3
  <2> QED
    BY <2>1, LeafReads
<1>5. adds = trees
  BY <1>2, <1>4, AddedInTurn
<1>6. trees \subseteq DOMAIN model.trees
  BY DEF Contributors, TreesFor
<1>7. \A t \in trees : /\ LeafOutput(reached[t], o) = Contribution(model, reached[t], o)
                       /\ Contribution(model, reached[t], o) \in Int
  BY <1>3, <1>6, LeafReads
<1> HIDE DEF adds, trees, reached
<1>8. read = meant
  BY <1>5, <1>7
<1>9. IsFiniteSet(trees)
  <2> DEFINE l == Len(model.trees)
  <2>1. l \in Nat /\ trees \in SUBSET (1 .. l)
    BY <1>2, <1>6
  <2> HIDE DEF l
  <2>2. IsFiniteSet(1 .. l)
    BY <2>1, FS_Interval
  <2> QED
    BY <2>1, <2>2, FS_Subset
<1>10. total \in Int
  <2>1. \A t \in trees : meant[t] \in Int
    BY <1>7
  <2> HIDE DEF meant
  <2> QED
    BY <1>9, <2>1, TotalIsInteger
<1>11. Workspace("default", reached)[o] = total
  BY <1>1, <1>5, <1>8
<1> DEFINE mean == IF model.average
                   THEN Divide(total, [trees |-> Cardinality(trees), outputs |-> 1]) ELSE total
<1>12. Margin(model, reached, o) = AddNumber(mean, model.base_scores[o])
  BY DEF Margin, trees
<1> HIDE DEF total, meant, read
<1>13. Divide(total, AverageFactor(model)) = mean
  BY <1>10, AverageIsMean DEF trees
<1>14. BiasOf(model.base_scores, o, TRUE) = model.base_scores[o]
  BY DEF BiasOf
<1> HIDE DEF mean
<1> QED
  BY <1>11, <1>12, <1>13, <1>14 DEF reached

Meant(row) ==
  [o \in 1 .. NumOutputs(model) |->
     Transformed(model.postprocessor, Margin(model, Reached(row), o))]

(* The elements of the row that the operation on rows is given *)
LEMMA ElementsAsMeant ==
  ASSUME ImportInv, IntactInv, AnswerInv, phase = "ready", Answerable, NEW row \in Rows
  PROVE  LET val == Workspace("default", Reached(row))
         IN  /\ DOMAIN val = 1 .. NumOutputs(model)
             /\ [i \in DOMAIN val |->
                   Element(params.elem, AddNumber(Divide(val[i], params.average_factor),
                                                  BiasOf(params.bias, i, TRUE)), params.constant)]
                  = Meant(row)
             /\ \A o \in 1 .. NumOutputs(model) : IsOrdinary(Meant(row)[o])
<1> DEFINE n == NumOutputs(model)
           name == model.postprocessor
           val == Workspace("default", Reached(row))
           x(o) == AddNumber(Divide(val[o], AverageFactor(model)), BiasOf(model.base_scores, o, TRUE))
           y(o) == Margin(model, Reached(row), o)
<1>1. DOMAIN val = 1 .. n
  BY DEF Workspace
<1>2. /\ params.elem = PostprocParams(name).elem /\ params.constant = PostprocParams(name).constant
      /\ params.average_factor = AverageFactor(model) /\ params.bias = model.base_scores
      /\ name \in Transformations
  BY DEF AnswerInv, ParamsOf
<1>3. \A o \in 1 .. n : x(o) = y(o)
  BY SumsAsMeant
<1>4. \A o \in 1 .. n : y(o) \in Ordinary
  BY DEF Answerable
<1> HIDE DEF val, x, y
<1>5. \A o \in 1 .. n : /\ Element(PostprocParams(name).elem, x(o), PostprocParams(name).constant)
                             = Transformed(name, y(o))
                        /\ IsOrdinary(Transformed(name, y(o)))
  BY <1>2, <1>3, <1>4, TransformedAsNamed
<1>6. Meant(row) = [o \in 1 .. n |-> Transformed(name, y(o))]
  BY DEF Meant, y
<1>7. [i \in DOMAIN val |-> Element(params.elem, AddNumber(Divide(val[i], params.average_factor),
                                                  BiasOf(params.bias, i, TRUE)), params.constant)]
        = [i \in 1 .. n |-> Element(PostprocParams(name).elem, x(i), PostprocParams(name).constant)]
  BY <1>1, <1>2, Zenon DEF x
<1> QED
  BY <1>1, <1>5, <1>6, <1>7 DEF val

LEMMA DefaultAsTreelite ==
  ASSUME ImportInv, IntactInv, AnswerInv, phase = "ready", Answerable, NEW row \in Rows
  PROVE  LET q == AnswerTo("default", row).outputs
             op == IF row_set = "imported" THEN RowOpOf(model.postprocessor) ELSE row_set
             meant == Prediction(model, op, Reached(row))
         IN  \A o \in DOMAIN q : q[o] = IF o \in DOMAIN meant THEN meant[o] ELSE Untouched
<1> DEFINE n == NumOutputs(model)
           val == Workspace("default", Reached(row))
           out == [o \in DOMAIN val |-> Untouched]
           q == AnswerTo("default", row).outputs
           op == IF row_set = "imported" THEN RowOpOf(model.postprocessor) ELSE row_set
           vals == Meant(row)
           best == BestOf(vals)
           first == FirstGreatest(vals)
           meant == Prediction(model, op, Reached(row))
<1>1. n \in Nat \ {0}
  BY ModelTrees
<1>2. /\ DOMAIN val = 1 .. n
      /\ [i \in DOMAIN val |->
            Element(params.elem, AddNumber(Divide(val[i], params.average_factor),
                                           BiasOf(params.bias, i, TRUE)), params.constant)] = vals
      /\ \A o \in 1 .. n : IsOrdinary(vals[o])
  BY ElementsAsMeant
<1>3. DOMAIN vals = 1 .. n /\ Len(vals) = n
  BY <1>1 DEF Meant
<1>4. params.row = op /\ op \in RowOps
  <2>1. /\ PostprocParams(model.postprocessor).row = RowOpOf(model.postprocessor)
        /\ RowOpOf(model.postprocessor) \in RowOps
    BY TransformedAsNamed, ZeroIsOrdinary DEF AnswerInv
  <2>2. params.row = RowInForce /\ row_set \in RowOps \cup {"imported"}
    BY DEF AnswerInv, ParamsOf
  <2> QED
    BY <2>1, <2>2 DEF RowInForce
<1>5. IsPostprocessor(params)
  <2>1. params.elem \in ElemOps
    BY TransformedAsNamed, ZeroIsOrdinary DEF AnswerInv, ParamsOf
  <2>2. [params EXCEPT !.row = params.row, !.elem = params.elem] = params
    BY DEF AnswerInv, ParamsOf
  <2> QED
    BY <1>4, <2>1, <2>2 DEF IsPostprocessor
<1>6. q = Postprocessed(params, TRUE, val, params.bias, out)
  <2>1. q = Apply(params, TRUE, val, params.bias, out)
    BY Zenon DEF AnswerTo, PostprocessorFor
  <2> HIDE DEF val, out, q
  <2>2. \A d : Apply(params, d, val, params.bias, out) = Postprocessed(params, d, val, params.bias, out)
    BY <1>5, Applied
  <2> QED
    BY <2>1, <2>2, Zenon
<1>7. q = CASE op = "max_index" -> [out EXCEPT ![1] = Number(best.max_index)]
            [] op = "softmax"   -> [i \in DOMAIN val |-> Share(vals[i], best.max_value, vals)]
            [] op = "disable"   -> vals
  BY <1>2, <1>4, <1>6, Zenon DEF Postprocessed
<1>8. meant = CASE op = "disable"   -> vals
                [] op = "max_index" -> <<Number(first - 1)>>
                [] op = "softmax"   -> [o \in DOMAIN vals |-> Share(vals[o], vals[first], vals)]
  BY DEF Prediction, Meant
<1>9. best.max_index = first - 1 /\ best.max_value = vals[first]
  BY <1>1, <1>2, <1>3, BestIsFirstGreatest
<1>10. DOMAIN out = 1 .. n /\ \A o \in 1 .. n : out[o] = Untouched
  BY <1>2
<1> HIDE DEF n, val, out, q, op, vals, best, first, meant
<1>11. CASE op = "disable"
  <2>1. q = meant
    BY <1>7, <1>8, <1>11
  <2> QED
    BY <2>1 DEF q, op, meant
<1>12. CASE op = "max_index"
  <2>1. q = [out EXCEPT ![1] = Number(best.max_index)]
    BY <1>7, <1>12
  <2>2. meant = <<Number(first - 1)>>
    BY <1>8, <1>12
  <2>3. 1 \in DOMAIN meant /\ meant[1] = Number(first - 1) /\ \A o \in DOMAIN meant : o = 1
    BY <2>2
  <2>4. DOMAIN q = 1 .. n /\ q[1] = Number(best.max_index) /\ \A o \in 2 .. n : q[o] = Untouched
    BY <1>1, <1>10, <2>1
  <2> HIDE <2>1, <2>2
  <2> QED
    BY <1>1, <1>9, <2>3, <2>4 DEF n, q, op, meant
<1>13. CASE op = "softmax"
  <2>1. q = [i \in 1 .. n |-> Share(vals[i], best.max_value, vals)]
    BY <1>2, <1>7, <1>13
  <2>2. meant = [i \in 1 .. n |-> Share(vals[i], vals[first], vals)]
    BY <1>3, <1>8, <1>13
  <2>3. q = meant
    BY <1>9, <2>1, <2>2
  <2> QED
    BY <2>3 DEF q, op, meant
<1> QED
  BY <1>4, <1>11, <1>12, <1>13 DEF RowOps, q, op, meant

-----------------------------------------------------------------------------

LEMMA AnswersMeant ==
  ImportInv /\ IntactInv /\ AnswerInv => (Answerable => AnswersAsTreelite)
<1> SUFFICES ASSUME ImportInv, IntactInv, AnswerInv, Answerable, answer.kind # "none"
             PROVE  LET op == IF row_set = "imported" THEN RowOpOf(model.postprocessor) ELSE row_set
                        meant == Meaning(model, answer.kind, op, answer.reached)
                    IN  \A o \in DOMAIN answer.outputs :
                          answer.outputs[o] = IF o \in DOMAIN meant THEN meant[o] ELSE Untouched
  BY DEF AnswersAsTreelite
<1>1. phase = "ready" /\ answer # NoAnswer
  BY DEF NoAnswer, AnswerInv
<1>2. PICK kind \in Kinds, row \in Rows : answer = AnswerTo(kind, row)
  BY <1>1 DEF AnswerInv
<1>3. answer.kind = kind /\ answer.reached = Reached(row)
  BY <1>2 DEF AnswerTo
<1> DEFINE op == IF row_set = "imported" THEN RowOpOf(model.postprocessor) ELSE row_set
<1>4. CASE kind = "default"
  <2>1. Meaning(model, "default", op, Reached(row)) = Prediction(model, op, Reached(row))
    BY DEF Meaning
  <2> QED
    BY <1>1, <1>2, <1>3, <1>4, <2>1, DefaultAsTreelite
<1>5. CASE kind = "per_tree"
  <2>1. Meaning(model, "per_tree", op, Reached(row)) = PerTree(model, Reached(row))
    BY DEF Meaning
  <2> QED
    BY <1>1, <1>2, <1>3, <1>5, <2>1, PerTreeAsTreelite
<1>6. CASE kind = "leaf_id"
  <2>1. Meaning(model, "leaf_id", op, Reached(row)) = LeafIds(model, Reached(row))
    BY DEF Meaning
  <2> QED
    BY <1>1, <1>2, <1>3, <1>6, <2>1, LeafIdsAsTreelite
<1> QED
  BY <1>4, <1>5, <1>6 DEF Kinds

(* What a forest_model answers is what the Treelite model means, for every
   supported model whose leaves are shaped for its outputs, whose trees with
   scalar leaves are in turn, and whose margins are finite numbers: for the
   three kinds of inference and whatever set_row_postprocessing has asked for.
   The sums that the kernels make go to the outputs the trees are for; dividing
   by the average factor is averaging over the trees of an output; the first
   loop of postprocess ends at the first of the greatest values. *)
THEOREM AnswersMeanTreelite == Spec => [](Answerable => AnswersAsTreelite)
<1> DEFINE Inv == ImportInv /\ IntactInv /\ AnswerInv
<1>1. Init => Inv
  BY ImportBegins, IntactBegins, AnswerBegins
<1>2. Inv /\ [Next]_vars => Inv'
  BY ImportAdvances, IntactAdvances, AnswerAdvances
<1>3. Inv => (Answerable => AnswersAsTreelite)
  BY AnswersMeant
<1> HIDE DEF Inv
<1> QED
  BY <1>1, <1>2, <1>3, PTL DEF Spec

=============================================================================

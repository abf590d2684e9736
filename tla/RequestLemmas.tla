---------------------------- MODULE RequestLemmas ----------------------------
(***************************************************************************)
(* Facts about inference requests that the proofs about both kernels use:  *)
(* the sizes of a call and the place of a tree's output in its row.        *)
(***************************************************************************)
EXTENDS InferenceRequest, IntegerLemmas, TLAPS

(* ceildiv(a, b) blocks of length b cover a elements, none of them in vain. *)
LEMMA CeilDivBounds ==
  ASSUME NEW a \in Nat, NEW b \in Nat \ {0}
  PROVE  /\ CeilDiv(a, b) \in Nat
         /\ a > 0 => CeilDiv(a, b) > 0
         /\ a <= CeilDiv(a, b) * b
         /\ \A k \in Nat : k < CeilDiv(a, b) => k * b < a
  BY RoundedUp DEF CeilDiv

(* The arguments of a call have their types. *)
LEMMA CallFields ==
  ASSUME NEW c \in Call
  PROVE  /\ c.row_count \in Nat
         /\ c.col_count \in Nat \ {0}
         /\ c.num_tree \in Nat \ {0}
         /\ c.default_num_outputs \in Nat \ {0}
         /\ c.has_vector_leaves \in BOOLEAN
         /\ c.infer_type \in InferKind
         /\ c.chunk_size \in Nat \ {0}
         /\ c.grove_size \in Nat \ {0}
  BY DEF Call

(* A row has outputs, and a leaf has components. *)
LEMMA OutputSizes ==
  ASSUME NEW c \in Call
  PROVE  NumOutputs(c) \in Nat \ {0} /\ NumComp(c) \in Nat \ {0}
<1>1. c.num_tree * c.default_num_outputs \in Nat \ {0}
  BY CallFields
<1> QED
  BY <1>1, CallFields DEF NumOutputs, NumComp

(* Every tree output has a place among the outputs of its row. *)
LEMMA OutputOfRange ==
  ASSUME NEW c \in Call, NEW tree \in Trees(c), NEW comp \in 0 .. (NumComp(c) - 1)
  PROVE  OutputOf(c, tree, comp) \in Outputs(c)
<1> DEFINE n == c.default_num_outputs
           t == c.num_tree
<1>1. n \in Nat \ {0} /\ t \in Nat \ {0} /\ tree \in 0 .. (t - 1)
  BY CallFields DEF Trees
<1>2. c.has_vector_leaves \in BOOLEAN /\ c.infer_type \in InferKind
  BY CallFields
<1>3. CASE c.infer_type = "leaf_id"
  BY <1>1, <1>3 DEF OutputOf, Outputs, NumOutputs
<1>4. CASE c.infer_type = "per_tree" /\ c.has_vector_leaves
  <2>1. comp \in 0 .. (n - 1)
    BY <1>4 DEF NumComp
  <2>2. OutputOf(c, tree, comp) = comp + tree * n /\ Outputs(c) = 0 .. (t * n - 1)
    BY <1>4 DEF OutputOf, Outputs, NumOutputs
  <2> HIDE DEF n, t
  <2>3. tree * n + comp < t * n /\ tree * n \in Nat /\ t * n \in Nat
    BY <1>1, <2>1, BlockOrder, MulNat
  <2> QED
    BY <2>1, <2>2, <2>3
<1>5. CASE c.infer_type = "per_tree" /\ ~ c.has_vector_leaves
  BY <1>1, <1>5 DEF OutputOf, Outputs, NumOutputs
<1>6. CASE c.infer_type = "default" /\ c.has_vector_leaves
  BY <1>1, <1>6 DEF OutputOf, Outputs, NumOutputs, NumComp
<1>7. CASE c.infer_type = "default" /\ ~ c.has_vector_leaves
  <2>1. tree % n \in 0 .. (n - 1)
    <3> HIDE DEF n
    <3> QED
      BY <1>1, DivMod
  <2> QED
    BY <1>7, <2>1 DEF OutputOf, Outputs, NumOutputs
<1> QED
  BY <1>2, <1>3, <1>4, <1>5, <1>6, <1>7 DEF InferKind

(* A component of a tree goes to one output: comp is determined by the tree
   and the output. *)
LEMMA ComponentUnique ==
  ASSUME NEW c \in Call, NEW tree \in Trees(c),
         NEW k1 \in 0 .. (NumComp(c) - 1), NEW k2 \in 0 .. (NumComp(c) - 1),
         OutputOf(c, tree, k1) = OutputOf(c, tree, k2)
  PROVE  k1 = k2
<1>1. CASE c.has_vector_leaves /\ c.infer_type # "leaf_id"
  <2> DEFINE x == IF c.infer_type = "per_tree" THEN tree * c.default_num_outputs ELSE 0
  <2>1. k1 + x = k2 + x
    BY <1>1 DEF OutputOf
  <2>2. x \in Nat /\ k1 \in Int /\ k2 \in Int
    BY CallFields, MulNat DEF Trees
  <2> HIDE DEF x
  <2> QED
    BY <2>1, <2>2
<1>2. CASE ~(c.has_vector_leaves /\ c.infer_type # "leaf_id")
  BY <1>2 DEF NumComp
<1> QED
  BY <1>1, <1>2

(* Unless trees are added up, an output is for one tree. *)
LEMMA TreeUnique ==
  ASSUME NEW c \in Call, c.infer_type # "default",
         NEW t1 \in Trees(c), NEW k1 \in 0 .. (NumComp(c) - 1),
         NEW t2 \in Trees(c), NEW k2 \in 0 .. (NumComp(c) - 1),
         OutputOf(c, t1, k1) = OutputOf(c, t2, k2)
  PROVE  t1 = t2
<1>1. CASE c.infer_type = "per_tree" /\ c.has_vector_leaves
  <2> DEFINE n == c.default_num_outputs
  <2>1. n \in Nat /\ k1 \in Nat /\ k1 < n /\ k2 \in Nat /\ k2 < n /\ t1 \in Nat /\ t2 \in Nat
    BY <1>1, CallFields DEF NumComp, Trees
  <2>2. k1 + t1 * n = k2 + t2 * n
    BY <1>1 DEF OutputOf
  <2> HIDE DEF n
  <2>3. t1 * n + k1 = t2 * n + k2
    BY <2>1, <2>2, MulNat
  <2> QED
    BY <2>1, <2>3, BlockUnique
<1>2. CASE ~(c.infer_type = "per_tree" /\ c.has_vector_leaves)
  BY <1>2, CallFields DEF OutputOf, InferKind
<1> QED
  BY <1>1, <1>2

(* Adding terms and transforming keep a value a value. *)
LEMMA ValueTypes ==
  /\ Zero \in Value
  /\ \A v, w \in Value : Plus(v, w) \in Value
  /\ \A v \in Value, t \in Term : AddTerm(v, t) \in Value
  /\ \A v \in Value : Transform(v) \in Value
<1>1. Zero \in Value
  BY DEF Zero, Value
<1>2. ASSUME NEW v \in Value, NEW w \in Value PROVE Plus(v, w) \in Value
  BY DEF Plus, Value
<1>3. ASSUME NEW v \in Value, NEW t \in Term PROVE AddTerm(v, t) \in Value
  BY DEF AddTerm, Value
<1>4. ASSUME NEW v \in Value PROVE Transform(v) \in Value
  BY DEF Transform, Value
<1> QED
  BY <1>1, <1>2, <1>3, <1>4

=============================================================================

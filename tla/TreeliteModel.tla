---------------------------- MODULE TreeliteModel ----------------------------
(***************************************************************************)
(* What a Treelite model says a prediction is: which tree adds to which    *)
(* output, the average, the base scores and the named transformation.      *)
(*                                                                         *)
(* A model m has                                                           *)
(*   task, num_class, num_target, leaf_vector_shape, average, base_scores, *)
(*   postprocessor, sigmoid_alpha, num_feature, double_thresholds,         *)
(*   trees : each with the target and the class it is for, -1 for all,     *)
(*   nodes : of all trees, in the order of a traversal, each with its tree,*)
(*           id and kind ("leaf", "numeric", "categorical"), and           *)
(*           offset to the distant child, feature, threshold, inclusive,   *)
(*           categories, output.                                           *)
(* Leaf values and base scores are integers with enough factors for every  *)
(* average to be exact.                                                    *)
(***************************************************************************)
EXTENDS Postprocess, FiniteSetsExt

Classifiers == {"kBinaryClf", "kMultiClf"}
VectorLeaf(m) == m.leaf_vector_shape # <<1, 1>>
NumOutputs(m) == IF m.task \in Classifiers THEN m.num_class ELSE m.num_target

(* The leaf of a tree that a row ends in is an index of m.nodes. *)
LeavesOf(m, t) == {i \in DOMAIN m.nodes : m.nodes[i].tree = t /\ m.nodes[i].kind = "leaf"}

(* The trees that add to output o of a model with scalar leaves *)
TreesFor(m, o) ==
  {t \in DOMAIN m.trees : IF m.task = "kMultiClf" THEN m.trees[t].class = o - 1
                                                   ELSE m.trees[t].target = o - 1}

Contributors(m, o) == IF VectorLeaf(m) THEN DOMAIN m.trees ELSE TreesFor(m, o)
Contribution(m, leaf, o) == m.nodes[leaf].output[IF VectorLeaf(m) THEN o ELSE 1]

Total(f, S) ==
  IF \E t \in S : f[t] \in {Infinity, -Infinity, NaN}
  THEN CHOOSE x \in {Infinity, -Infinity, NaN} : \E t \in S : f[t] = x
  ELSE MapThenSumSet(LAMBDA t : f[t], S)

(* What the trees say about output o, before the transformation *)
Margin(m, reached, o) ==
  LET trees == Contributors(m, o)
      total == Total([t \in trees |-> Contribution(m, reached[t], o)], trees)
      mean  == IF m.average THEN Divide(total, [trees |-> Cardinality(trees), outputs |-> 1])
                            ELSE total
  IN  AddNumber(mean, m.base_scores[o])

(* The transformations that work on one output: 2^(-x / c) is
   exp(x / (-c / log 2)). *)
Transformed(name, x) ==
  CASE name \in {"identity", "identity_multiclass", "softmax", "max_index"} -> Number(x)
    [] name = "hinge"         -> Number(IF x > 0 THEN 1 ELSE 0)
    [] name = "signed_square" -> Result("signed_square", x, "one")
    [] name \in {"sigmoid", "multiclass_ova"} -> Result("sigmoid", x, "sigmoid_alpha")
    [] name = "exponential"   -> Result("exponential", x, "one")
    [] name = "exponential_standard_ratio" ->
         Result("exponential", x, "minus_ratio_c_over_log_2")
    [] name = "logarithm_one_plus_exp" -> Result("logarithm_one_plus_exp", x, "one")

Transformations ==
  {"identity", "identity_multiclass", "softmax", "max_index", "hinge", "signed_square",
   "sigmoid", "multiclass_ova", "exponential", "exponential_standard_ratio",
   "logarithm_one_plus_exp"}

RowOpOf(name) == IF name \in {"softmax", "max_index"} THEN name ELSE "disable"

(* The first of the greatest values, from 0 *)
FirstGreatest(vals) ==
  CHOOSE i \in DOMAIN vals : /\ \A j \in DOMAIN vals : Rank(vals[j]) <= Rank(vals[i])
                             /\ \A j \in 1 .. (i - 1) : Rank(vals[j]) < Rank(vals[i])

(* The outputs of a row, given the operation on rows in force *)
Prediction(m, row, reached) ==
  LET vals == [o \in 1 .. NumOutputs(m) |-> Transformed(m.postprocessor, Margin(m, reached, o))]
  IN  CASE row = "disable"   -> vals
        [] row = "max_index" -> <<Number(FirstGreatest(vals) - 1)>>
        [] row = "softmax"   ->
             [o \in DOMAIN vals |-> Share(vals[o], vals[FirstGreatest(vals)], vals)]

(* The other two kinds of inference: the leaves themselves, and their ids *)
PerTree(m, reached) ==
  IF VectorLeaf(m)
  THEN [i \in 1 .. (Len(m.trees) * NumOutputs(m)) |->
          Number(m.nodes[reached[(i - 1) \div NumOutputs(m) + 1]]
                   .output[((i - 1) % NumOutputs(m)) + 1])]
  ELSE [t \in DOMAIN m.trees |-> Number(m.nodes[reached[t]].output[1])]

LeafIds(m, reached) == [t \in DOMAIN m.trees |-> Number(m.nodes[reached[t]].id)]

Meaning(m, kind, row, reached) ==
  CASE kind = "default"  -> Prediction(m, row, reached)
    [] kind = "per_tree" -> PerTree(m, reached)
    [] kind = "leaf_id"  -> LeafIds(m, reached)
=============================================================================

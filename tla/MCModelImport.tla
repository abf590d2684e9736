---------------------------- MODULE MCModelImport ----------------------------
(* Small instances of ModelImport for TLC. *)
EXTENDS ModelImport

(* Seven values of float among seventeen of double; the ends are infinite. *)
MCFloat  == <<-8, -5, -1, 0, 2, 6, 8>>
MCDouble == [i \in 1 .. 17 |-> i - 9]

(* Nodes of tree t *)
Leaf(t, id, output) ==
  [tree |-> t, id |-> id, kind |-> "leaf", offset |-> 0, feature |-> 0,
   threshold |-> 0, inclusive |-> FALSE, categories |-> {}, output |-> output]
Split(t, feature, threshold, inclusive, offset) ==
  [Leaf(t, 0, <<0>>) EXCEPT !.kind = "numeric", !.feature = feature,
     !.threshold = threshold, !.inclusive = inclusive, !.offset = offset]
Member(t, categories) ==
  [Split(t, 0, 0, FALSE, 2) EXCEPT !.kind = "categorical", !.categories = categories]

(* A root and two leaves, the root being any node *)
Stump(root, first, second) ==
  <<root, Leaf(root.tree, 1, first), Leaf(root.tree, 2, second)>>
Stumps(n, Root(_), First(_), Second(_)) ==
  FoldLeftDomain(LAMBDA ns, t : ns \o Stump(Root(t), First(t), Second(t)), <<>>,
                 [t \in 1 .. n |-> t])

Regressor(ns, trees, num_feature, double) ==
  [task |-> "kRegressor", num_class |-> 1, num_target |-> 1, leaf_vector_shape |-> <<1, 1>>,
   average |-> FALSE, base_scores |-> <<12>>, postprocessor |-> "identity",
   sigmoid_alpha |-> "ordinary", num_feature |-> num_feature, double_thresholds |-> double,
   trees |-> trees, nodes |-> ns]
OneTarget(n) == [t \in 1 .. n |-> [target |-> 0, class |-> 0]]

Call(m, lay, prec) == [model |-> m, layout |-> lay, precision |-> prec]

-----------------------------------------------------------------------------
(* Models about storage *)

(* Every threshold in both kinds of test, wide, narrowed or narrow *)
ThresholdImports ==
  {Call(Regressor(Stump(Split(1, 0, x, inclusive, 2), <<24>>, <<36>>), OneTarget(1), 1,
                  x \notin {MCFloat[i] : i \in 1 .. 7} \/ prec = "double"),
        "breadth_first", prec) :
     x \in {MCDouble[i] : i \in 1 .. 17}, inclusive \in BOOLEAN,
     prec \in {"none", "single", "double"}}

(* Features below, at and beyond what metadata holds, in every layout *)
FeatureImports ==
  {Call(Regressor(Stump(Split(1, feature, 0, TRUE, 2), <<24>>, <<36>>), OneTarget(1),
                  feature + 1, FALSE), lay, prec) :
     feature \in {0, 2, 3, 4, 15, 16},
     lay \in {"depth_first", "breadth_first", "layered_children_together"},
     prec \in {"none", "double"}}

(* A chain on the side of the hot child, depth first: offsets 2, 4, ... *)
Chain(depth) ==
  [i \in 1 .. (2 * depth + 1) |->
     IF i <= depth THEN Split(1, 0, 0, FALSE, 2 * (depth - i + 1))
     ELSE Leaf(1, i, <<12 * i>>)]
OffsetImports ==
  {Call(Regressor(Chain(depth), OneTarget(1), 1, FALSE), "depth_first", "none") :
     depth \in 1 .. 7}

(* Category lists that fit the node of either width, and that do not *)
CategoryImports ==
  {Call(Regressor(Stumps(n, LAMBDA t : Member(t, IF t % 2 = 1 THEN cats ELSE {1}),
                         LAMBDA t : <<12>>, LAMBDA t : <<24>>), OneTarget(n), 1, FALSE),
        "depth_first", prec) :
     n \in {1, 2, 4}, cats \in {{}, {0, 3}, {4}, {0, 7}, {1, 8}, {13}, {14}, {15}},
     prec \in {"none", "double"}}

(* Lists in the storage: as many as fill the bins that a small index reaches to
   the last one, and more with large indexes *)
ListImport(n, First(_), prec) ==
  Call(Regressor(Stumps(n, LAMBDA t : Member(t, First(t)), LAMBDA t : <<12>>, LAMBDA t : <<24>>),
                 OneTarget(n), 1, FALSE), "depth_first", prec)
FullStorage(t) == IF t = 1 THEN {8} ELSE {1}
ManyCategorical ==
  {ListImport(n, FullStorage, "none") : n \in {6, 7}}
    \cup {ListImport(n, LAMBDA t : {8}, "double") : n \in {5, 6, 14}}

(* As many elements of leaf vectors as a small index has values, and more with
   large indexes *)
VectorModel(n) ==
  [Regressor(Stumps(n, LAMBDA t : Split(t, 0, 0, FALSE, 2),
                    LAMBDA t : <<12 * t, 24 * t>>, LAMBDA t : <<36 * t, -12 * t>>),
             [t \in 1 .. n |-> [target |-> -1, class |-> 0]], 1, FALSE)
     EXCEPT !.num_target = 2, !.leaf_vector_shape = <<2, 1>>, !.base_scores = <<0, 12>>]
VectorImports ==
  {Call(VectorModel(n), "breadth_first", prec) : n \in {1, 3, 4}, prec \in {"none", "single"}}
    \cup {Call(VectorModel(n), "breadth_first", "double") : n \in {5, 9}}

StorageImports ==
  ThresholdImports \cup FeatureImports \cup OffsetImports \cup CategoryImports
    \cup ManyCategorical \cup VectorImports

-----------------------------------------------------------------------------
(* Models about outputs: trees with two leaves each *)

Scalar(n, first, second) ==
  Stumps(n, LAMBDA t : Split(t, 0, 0, FALSE, 2), LAMBDA t : <<first[t]>>, LAMBDA t : <<second[t]>>)
Vector(n, k) ==
  Stumps(n, LAMBDA t : Split(t, 0, 0, FALSE, 2),
         LAMBDA t : [o \in 1 .. k |-> 12 * (t + 3 * o)],
         LAMBDA t : [o \in 1 .. k |-> IF o = t THEN 60 ELSE -12])

First  == <<12, 48, -24, 36, 12, 24>>
Second == <<36, 48, 24, -60, 12, 72>>

Output(task, classes, targets, shape, average, postprocessor, trees, ns) ==
  [Regressor(ns, trees, 1, FALSE) EXCEPT
     !.task = task, !.num_class = classes, !.num_target = targets,
     !.leaf_vector_shape = shape, !.average = average, !.postprocessor = postprocessor,
     !.base_scores = [o \in 1 .. (classes * targets) |-> 12 * (o - 1)]]

SingleOutputs ==
  {Output(task, 1, 1, <<1, 1>>, average, name, OneTarget(n), Scalar(n, First, Second)) :
     task \in {"kBinaryClf", "kRegressor", "kLearningToRank", "kIsolationForest"},
     average \in BOOLEAN, n \in {1, 3},
     name \in (Transformations \ {"softmax", "max_index"}) \cup {"unknown"}}

(* Classes one after the other, and in other orders; and the same for targets *)
InTurn(n, k, Tree(_)) == [t \in 1 .. n |-> Tree((t - 1) % k)]
InBlocks(n, k, Tree(_)) == [t \in 1 .. n |-> Tree((t - 1) \div (n \div k))]
ForClass(c)  == [target |-> 0, class |-> c]
ForTarget(c) == [target |-> c, class |-> 0]

ClassOutputs ==
  {Output("kMultiClf", 3, 1, <<1, 1>>, average, name, trees, Scalar(6, First, Second)) :
     average \in BOOLEAN,
     name \in {"softmax", "max_index", "identity_multiclass", "multiclass_ova"},
     trees \in {InTurn(6, 3, ForClass), InBlocks(6, 3, ForClass)}}

TargetOutputs(order) ==
  {Output("kRegressor", 1, 2, <<1, 1>>, average, name, order, Scalar(4, First, Second)) :
     average \in BOOLEAN, name \in {"identity", "exponential_standard_ratio"}}

VectorOutputs ==
  {Output(task, IF task = "kMultiClf" THEN 2 ELSE 1, IF task = "kMultiClf" THEN 1 ELSE 2,
          IF task = "kMultiClf" THEN <<1, 2>> ELSE <<2, 1>>, average, name,
          [t \in 1 .. 3 |-> [target |-> IF task = "kMultiClf" THEN 0 ELSE -1, class |-> class]],
          Vector(3, 2)) :
     task \in {"kMultiClf", "kRegressor", "kLearningToRank"}, average \in BOOLEAN,
     name \in {"softmax", "max_index", "identity"}, class \in {-1, 0}}

(* Models that are not supported, and a constant that float does not have *)
OtherOutputs ==
  {[Output("kRegressor", 1, 1, <<1, 1>>, FALSE, "identity", OneTarget(1), Scalar(1, First, Second))
      EXCEPT !.trees = <<>>, !.nodes = <<>>],
   [Output("kRegressor", 1, 1, <<1, 1>>, FALSE, "identity", OneTarget(1), Scalar(1, First, Second))
      EXCEPT !.num_class = 0],
   [Output("kBinaryClf", 1, 2, <<1, 1>>, FALSE, "identity", OneTarget(2), Scalar(2, First, Second))
      EXCEPT !.num_target = 2],
   [Output("kBinaryClf", 1, 1, <<1, 1>>, FALSE, "sigmoid", OneTarget(1), Scalar(1, First, Second))
      EXCEPT !.sigmoid_alpha = "not in float"]}

OutputImports(models) == {Call(m, "depth_first", "none") : m \in models}

MCImports ==
  StorageImports
    \cup OutputImports(SingleOutputs \cup ClassOutputs \cup VectorOutputs \cup OtherOutputs
                         \cup TargetOutputs(InTurn(4, 2, ForTarget)))
    \cup {Call(m, "depth_first", "double") : m \in OtherOutputs}

MCRows == [{0, 1} -> {1, 2}]

(* Regressors whose trees for one target come before those for the next *)
BlockTargetImports == OutputImports(TargetOutputs(InBlocks(4, 2, ForTarget)))

(* More bins than a small index reaches; more elements of leaf vectors, and more
   vector leaves *)
ManyListImports ==
  {ListImport(n, FullStorage, "none") : n \in {8, 9}}
    \cup {ListImport(6, LAMBDA t : {4}, "none")}
ManyVectorImports ==
  {Call(VectorModel(n), "breadth_first", prec) : n \in {5, 9}, prec \in {"none", "single"}}

(* An infinite output before the greatest one *)
InfiniteImports ==
  OutputImports({[Output("kMultiClf", 2, 1, <<1, 1>>, FALSE, "max_index",
                         InTurn(2, 2, ForClass), Scalar(2, <<-Infinity, 12>>, <<-12, 24>>))
                    EXCEPT !.base_scores = <<0, 0>>]})
=============================================================================

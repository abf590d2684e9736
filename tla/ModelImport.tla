----------------------------- MODULE ModelImport -----------------------------
(***************************************************************************)
(* treelite_importer::import after the traversals: checks of the model,    *)
(* choice of the instantiation, nodes, parameters of the postprocessing,   *)
(* and then what the resulting forest_model answers.                       *)
(*                                                                         *)
(* ForestImport is about where nodes go and how trees are walked; here a   *)
(* node's place is the one in the traversal and a row is known by the leaf *)
(* it ends in.  This module is about what becomes of the numbers: whether  *)
(* they fit the types that were chosen, and whether the sums, the average, *)
(* the bias and the transformation are those of Treelite.                  *)
(***************************************************************************)
EXTENDS TreeliteModel, NodeStorage, ThresholdCast

CONSTANTS
  Imports,   \* the calls: a Treelite model without degenerate trees, a layout
             \* and use_double_precision as "none", "single" or "double"
  Rows       \* rows, each as the leaf it ends in of every even and odd tree

Layouts == {"depth_first", "breadth_first", "layered_children_together"}

(* Nodes of Treelite trees; a leaf's test and a test's output mean nothing.
   Features and categories have 32 bits, as large metadata and small indexes
   have, and so has index_type, in which the importer measures offsets. *)
TreeliteNodes ==
  [tree : Nat \ {0}, id : Nat, kind : {"leaf", "numeric", "categorical"},
   offset : 0 .. UnsignedMax(LargeOffsetBits), feature : 0 .. UnsignedMax(LargeMetadataBits),
   threshold : Thresholds, inclusive : BOOLEAN,
   categories : SUBSET (0 .. UnsignedMax(SmallIndexBits)), output : Seq(Int)]

(* The trees of a Treelite model are for a target and a class, or -1 for all of
   them; its tests are on features it has. *)
IsImportable(m) ==
  /\ m.nodes \in Seq(TreeliteNodes)
  /\ m.trees \in Seq([target : {-1} \cup Nat, class : {-1} \cup Nat])
  /\ {m.num_class, m.num_target, m.num_feature} \subseteq Nat
  /\ m.base_scores \in Seq(Int)
  /\ m.leaf_vector_shape \in (Nat \ {0}) \X (Nat \ {0})
  /\ \A i \in DOMAIN m.nodes : m.nodes[i].kind # "leaf" => m.nodes[i].feature < m.num_feature

ASSUME ImportsAssumption ==
  /\ \A i \in Imports : /\ IsImportable(i.model)
                        /\ i.layout \in Layouts
                        /\ i.precision \in {"none", "single", "double"}
  /\ Rows \subseteq [{0, 1} -> Nat \ {0}]

VARIABLES
  model, layout, precision,   \* the arguments
  phase,       \* "called", "build", "ready", "failed"
  types,       \* the instantiation: layout, double, large
  nodes,       \* nodes_, as stored
  ids,         \* node_id_mapping_
  vector,      \* vector_output_
  storage,     \* categorical_storage_
  params,      \* the postprocessor's members and bias_
  row_set,     \* history: the last set_row_postprocessing, or "imported"
  answer       \* the last prediction: kind, leaves reached, outputs

arguments == <<model, layout, precision>>
forest    == <<types, nodes, ids, vector, storage>>
vars      == <<arguments, forest, phase, params, row_set, answer>>

NoParams == [row |-> "disable", elem |-> "disable", constant |-> "one",
             average_factor |-> [trees |-> 1, outputs |-> 1], bias |-> <<>>]
NoAnswer == [kind |-> "none", reached |-> <<>>, outputs |-> <<>>]

-----------------------------------------------------------------------------
(* What the importer computes from the model *)

(* validate_model_shape.  num_class has one entry at least. *)
ShapeSupported(m) ==
  /\ Len(m.trees) >= 1
  /\ m.num_class >= 1
  /\ m.num_target # 1 => m.task \notin Classifiers
  /\ (m.leaf_vector_shape[1] > 1 \/ m.leaf_vector_shape[2] > 1)
       => m.task \in {"kRegressor", "kMultiClf"}

(* Trees of a classifier are for all classes or for one class after another. *)
AssignmentSupported(m) ==
  m.task = "kMultiClf" =>
    IF m.leaf_vector_shape[2] > 1
    THEN /\ m.leaf_vector_shape[2] = m.num_class
         /\ \A t \in DOMAIN m.trees : m.trees[t].class = -1
    ELSE \A t \in DOMAIN m.trees : m.trees[t].class = (t - 1) % m.num_class

IsCategorical(n) == n.kind = "categorical"

(* treelite_traversal_node::max_num_categories, get_max_num_categories *)
MaxNumCategories(m) ==
  Max({0} \cup UNION {{AsCount(c + 1) : c \in m.nodes[i].categories} :
                        i \in {j \in DOMAIN m.nodes : IsCategorical(m.nodes[j])}})

(* get_num_categorical_nodes, get_num_leaf_vector_nodes, max_element of offsets *)
NumCategorical(m) == Cardinality({i \in DOMAIN m.nodes : IsCategorical(m.nodes[i])})
NumLeafVector(m) ==
  Cardinality({i \in DOMAIN m.nodes : m.nodes[i].kind = "leaf" /\ Len(m.nodes[i].output) > 1})
MaxOffset(m) == Max({m.nodes[i].offset : i \in DOMAIN m.nodes})

(* use_double_precision.value_or(uses_double_thresholds), and the indexes *)
DoublePrecision(m, asked) ==
  \/ IF asked # "none" THEN asked = "double" ELSE m.double_thresholds
  \/ DoubleIndexesRequired(AsCount(NumCategorical(m)), MaxNumCategories(m),
                           AsCount(NumLeafVector(m)))

(* Mutant of AverageFactor: the number of trees, whatever the leaves are. *)
AverageFactorOfTrees(m) == [trees |-> IF m.average THEN Len(m.trees) ELSE 1, outputs |-> 1]

(* get_average_factor, as a fraction *)
AverageFactor(m) ==
  IF ~m.average THEN [trees |-> 1, outputs |-> 1]
  ELSE IF m.leaf_vector_shape = <<1, 1>>
  THEN [trees |-> Len(m.trees),
        outputs |-> IF m.task = "kMultiClf" THEN m.num_class ELSE m.num_target]
  ELSE [trees |-> Len(m.trees), outputs |-> 1]

(* get_postproc_params, for the names it recognises *)
PostprocParams(name) ==
  CASE name = "softmax"   -> [row |-> "softmax", elem |-> "disable", constant |-> "one"]
    [] name = "max_index" -> [row |-> "max_index", elem |-> "disable", constant |-> "one"]
    [] name \in {"sigmoid", "multiclass_ova"} ->
         [row |-> "disable", elem |-> "sigmoid", constant |-> "sigmoid_alpha"]
    [] name = "exponential" -> [row |-> "disable", elem |-> "exponential", constant |-> "one"]
    [] name = "exponential_standard_ratio" ->
         [row |-> "disable", elem |-> "exponential",
          constant |-> "minus_ratio_c_over_log_2"]
    [] name \in {"identity", "identity_multiclass"} ->
         [row |-> "disable", elem |-> "disable", constant |-> "one"]
    [] name \in {"signed_square", "hinge", "logarithm_one_plus_exp"} ->
         [row |-> "disable", elem |-> name, constant |-> "one"]
Recognised == Transformations

(* safe_cast_floating_point of the postprocessing constant: only float is
   checked.  The average factor is always in range. *)
ConstantFits(m, forest_types) ==
  forest_types.double \/ m.sigmoid_alpha = "ordinary"
    \/ PostprocParams(m.postprocessor).constant # "sigmoid_alpha"

-----------------------------------------------------------------------------
(* The import *)

Init ==
  /\ \E i \in Imports :
       /\ model = i.model /\ layout = i.layout /\ precision = i.precision
  /\ phase = "called"
  /\ types = Specialization(layout, FALSE, FALSE)
  /\ nodes = <<>> /\ ids = <<>> /\ vector = <<>> /\ storage = <<>>
  /\ params = NoParams /\ row_set = "imported" /\ answer = NoAnswer

Reject ==
  /\ phase = "called"
  /\ ~ShapeSupported(model) \/ ~AssignmentSupported(model)
  /\ phase' = "failed"
  /\ UNCHANGED <<arguments, forest, params, row_set, answer>>

Choose ==
  /\ phase = "called"
  /\ ShapeSupported(model) /\ AssignmentSupported(model)
  /\ types' = Alternative(VariantIndex(layout, DoublePrecision(model, precision),
                                       LargeTreesRequired(model.num_feature, MaxOffset(model))))
  /\ phase' = "build"
  /\ UNCHANGED <<arguments, nodes, ids, vector, storage, params, row_set, answer>>

(* The node the traversal hands to the builder next *)
Building == phase = "build" /\ Len(nodes) < Len(model.nodes)
Current  == model.nodes[Len(nodes) + 1]

(* node::construct_metadata: the feature is converted, then checked. *)
FeatureFits(n) == AsMetadata(types, n.feature) <= FeatureMask(types)

(* A node keeps one of a value (of a leaf, or a threshold), an index, and the
   bits of a set of categories. *)
StoredNode(n, value, index, bits) ==
  [offset |-> AsOffset(types, n.offset), feature |-> AsMetadata(types, n.feature),
   categorical |-> IsCategorical(n), value |-> value, index |-> index, bits |-> bits]

AddNode(n, value, index, bits) ==
  /\ nodes' = Append(nodes, StoredNode(n, value, index, bits))
  /\ ids' = Append(ids, n.id)

AddLeaf ==
  /\ Building /\ Current.kind = "leaf"
  /\ IF Len(Current.output) > 1
     THEN /\ AddNode(Current, 0, AsIndex(types, Len(vector) \div Len(Current.output)), {})
          /\ vector' = vector \o Current.output
     ELSE /\ AddNode(Current, Current.output[1], 0, {})
          /\ UNCHANGED vector
  /\ UNCHANGED <<arguments, types, storage, phase, params, row_set, answer>>

AddNumeric ==
  /\ Building /\ Current.kind = "numeric" /\ FeatureFits(Current)
  /\ \E stored \in Stored(types.double, Current.threshold, Current.inclusive) :
       AddNode(Current, stored, 0, {})
  /\ UNCHANGED <<arguments, types, vector, storage, phase, params, row_set, answer>>

(* Sets of categories go to the storage if one of the model does not fit a
   node: their number, then a bitset, which is found through the index that
   the node keeps. *)
External == MaxNumCategories(model) > IndexBits(types)
Count(n) == 1 + Max({0} \cup n.categories)
Bins(count) == CeilDivide(count, IndexBits(types))

CategoryFits(n) ==
  /\ Count(n) <= UnsignedMax(SmallIndexBits)
  /\ MaxNumCategories(model) # 0 => Count(n) <= MaxNumCategories(model)

Grown(n) ==
  storage \o <<[count |-> Count(n), bits |-> {}]>>
          \o [i \in 1 .. Bins(Count(n)) |-> [count |-> 0, bits |-> {}]]

(* bitset::set of each category, in the bins from index + 1 on, which is
   computed in the type of the index *)
WithCategories(bins, n, index) ==
  [i \in DOMAIN bins |->
     [bins[i] EXCEPT !.bits = @ \cup {c % IndexBits(types) :
        c \in {d \in n.categories :
                 AsIndex(types, index + 1) + 1 + d \div IndexBits(types) = i}}]]

(* A bin is one number, a count with the bits that were set in it: behind an
   index that has wrapped there may be both. *)
DigitsOf(count) == {b \in 0 .. (IndexBits(types) - 1) : (count \div TwoTo(b)) % 2 = 1}
BitsIn(bin)     == bin.bits \cup DigitsOf(bin.count)
NumberIn(bin) ==
  IF bin.bits = {} THEN bin.count
  ELSE Max({x \in 0 .. UnsignedMax(IndexBits(types)) : DigitsOf(x) \subseteq BitsIn(bin)})

AddCategorical ==
  /\ Building /\ Current.kind = "categorical"
  /\ CategoryFits(Current) /\ FeatureFits(Current)
  /\ IF External
     THEN LET index == AsIndex(types, Len(storage))
          IN  /\ AddNode(Current, 0, index, {})
              /\ storage' = WithCategories(Grown(Current), Current, index)
     ELSE /\ AddNode(Current, 0, 0, Current.categories)
          /\ UNCHANGED storage
  /\ UNCHANGED <<arguments, types, vector, phase, params, row_set, answer>>

RejectNode ==
  /\ Building /\ Current.kind # "leaf"
  /\ ~FeatureFits(Current) \/ (Current.kind = "categorical" /\ ~CategoryFits(Current))
  /\ phase' = "failed"
  /\ UNCHANGED <<arguments, forest, params, row_set, answer>>

(* The checks of get_decision_forest on the storage *)
StorageConsistent ==
  External =>
    \A i \in DOMAIN nodes : nodes[i].categorical /\ nodes[i].offset # 0 =>
      /\ nodes[i].index < Len(storage)
      /\ nodes[i].index + 1 + Bins(NumberIn(storage[nodes[i].index + 1])) <= Len(storage)

Built == phase = "build" /\ Len(nodes) = Len(model.nodes)
Buildable == /\ model.postprocessor \in Recognised
             /\ StorageConsistent
             /\ ConstantFits(model, types)

Finish ==
  /\ Built /\ Buildable
  /\ params' = [row |-> PostprocParams(model.postprocessor).row,
                elem |-> PostprocParams(model.postprocessor).elem,
                constant |-> PostprocParams(model.postprocessor).constant,
                average_factor |-> AverageFactor(model),
                bias |-> model.base_scores]
  /\ phase' = "ready"
  /\ UNCHANGED <<arguments, forest, row_set, answer>>

RejectForest ==
  /\ Built /\ ~Buildable
  /\ phase' = "failed"
  /\ UNCHANGED <<arguments, forest, params, row_set, answer>>

-----------------------------------------------------------------------------
(* The forest_model *)

(* set_row_postprocessing *)
SetRow(op) ==
  /\ phase = "ready" /\ row_set = "imported"
  /\ params' = [params EXCEPT !.row = op]
  /\ row_set' = op
  /\ answer' = NoAnswer
  /\ UNCHANGED <<arguments, forest, phase>>

Reached(row) ==
  [t \in DOMAIN model.trees |->
     CHOOSE i \in LeavesOf(model, t) :
       Cardinality({j \in LeavesOf(model, t) : j <= i}) = row[t % 2]]

(* What the kernels read at a leaf, with num_outputs values per vector.  The place
   of a value is computed in the type of the leaf's index. *)
VectorElement(index, o) == AsIndex(types, index * NumOutputs(model) + (o - 1)) + 1
LeafOutput(i, o) ==
  IF vector = <<>> THEN nodes[i].value ELSE vector[VectorElement(nodes[i].index, o)]

(* The workspace of a row when the trees have been evaluated: scalar leaves go
   to the outputs in turn. *)
Workspace(kind, reached) ==
  LET n == NumOutputs(model)
  IN  CASE kind = "leaf_id"  -> [t \in DOMAIN reached |-> ids[reached[t]]]
        [] kind = "per_tree" ->
             IF vector = <<>> THEN [t \in DOMAIN reached |-> LeafOutput(reached[t], 1)]
             ELSE [i \in 1 .. (Len(reached) * n) |->
                     LeafOutput(reached[(i - 1) \div n + 1], ((i - 1) % n) + 1)]
        [] kind = "default"  ->
             [o \in 1 .. n |->
                LET adds == {t \in DOMAIN reached : vector # <<>> \/ (t - 1) % n = o - 1}
                IN  Total([t \in adds |-> LeafOutput(reached[t], o)], adds)]

(* get_postprocessor *)
PostprocessorFor(kind) == IF kind = "default" THEN params ELSE NoPostprocessor

Predict(kind, row) ==
  /\ phase = "ready"
  /\ LET reached == Reached(row)
         val     == Workspace(kind, reached)
     IN  answer' = [kind |-> kind, reached |-> reached,
                    outputs |-> Apply(PostprocessorFor(kind), kind = "default", val, params.bias,
                                      [o \in DOMAIN val |-> Untouched])]
  /\ UNCHANGED <<arguments, forest, phase, params, row_set>>

(* A failed import has thrown. *)
Failed == phase = "failed" /\ UNCHANGED vars

Next ==
  \/ Reject \/ Choose
  \/ AddLeaf \/ AddNumeric \/ AddCategorical \/ RejectNode
  \/ Finish \/ RejectForest
  \/ \E op \in RowOps : SetRow(op)
  \/ \E kind \in {"default", "per_tree", "leaf_id"}, row \in Rows : Predict(kind, row)
  \/ Failed

Spec == Init /\ [][Next]_vars

-----------------------------------------------------------------------------
(* Properties *)

(* Every numeric test that is stored decides as the test of the model does,
   for every value the forest can be asked about but an infinity against an
   infinite threshold: neither narrowing (cast_threshold) nor nextafter
   (add_node) moves a threshold across an input. *)
ThresholdsKept ==
  \A i \in DOMAIN nodes :
    LET n == model.nodes[i]
    IN  n.kind = "numeric" =>
          \A v \in 1 .. Size(types.double) :
            ~AtInfinity(types.double, v, n.threshold, n.inclusive) =>
              (NodeTest(v, nodes[i].value)
                 <=> ModelTest(types.double, v, n.threshold, n.inclusive))

(* The categories a node's test holds for (bitset::test, forest's storage) *)
InCategories(n, c) ==
  IF External
  THEN /\ c < NumberIn(storage[n.index + 1])
       /\ c % IndexBits(types) \in BitsIn(storage[n.index + 2 + c \div IndexBits(types)])
  ELSE c \in n.bits

(* The types that get_forest_variant_index picks hold the model: no offset,
   feature, leaf or set of categories that was stored reads back differently,
   although a node drops the bits it has no room for.  The forest has the
   layout that was asked for.  Of models with more bins, or more elements of
   leaf vectors, than the index reaches this does not hold: MCModelLists.cfg and
   MCModelVectors.cfg. *)
NodesIntact ==
  phase = "ready" =>
    /\ types.layout = layout
    /\ \A i \in DOMAIN nodes :
         LET n == model.nodes[i]
         IN  /\ nodes[i].offset = n.offset
             /\ n.kind # "leaf" => nodes[i].feature = n.feature
             /\ n.kind = "leaf" =>
                  \A o \in DOMAIN n.output : LeafOutput(i, o) = n.output[o]
             /\ n.kind = "categorical" =>
                  \A c \in 0 .. (MaxNumCategories(model) - 1) :
                    InCategories(nodes[i], c) <=> c \in n.categories

(* What is answered is what the Treelite model means: trees add to the outputs
   they are for, the average, base scores and transformation are applied to
   the default kind only, the first of equal greatest outputs wins, and softmax
   shifts by the greatest output, so that no exponential overflows.  max_index
   leaves the row's other outputs as they were. *)
AnswersAsTreelite ==
  answer.kind # "none" =>
    LET row  == IF row_set = "imported" THEN RowOpOf(model.postprocessor) ELSE row_set
        meant == Meaning(model, answer.kind, row, answer.reached)
    IN  \A o \in DOMAIN answer.outputs :
          answer.outputs[o] = IF o \in DOMAIN meant THEN meant[o] ELSE Untouched

(* An import fails for what the messages say only: a model that is not
   supported, a feature or category no type could hold, an unknown
   transformation, a constant that float does not have.  In particular the
   checks of nodes never fail because a type was chosen that is too small. *)
RejectedForCause ==
  phase = "failed" =>
    \/ Len(model.trees) = 0
    \/ model.num_class = 0
    \/ model.task \in Classifiers /\ model.num_target # 1
    \/ VectorLeaf(model) /\ model.task \notin {"kRegressor", "kMultiClf"}
    \/ /\ model.task = "kMultiClf"
       /\ IF model.leaf_vector_shape[2] > 1
          THEN \/ model.leaf_vector_shape[2] # model.num_class
               \/ \E t \in DOMAIN model.trees : model.trees[t].class # -1
          ELSE \E t \in DOMAIN model.trees : model.trees[t].class # (t - 1) % model.num_class
    \/ \E i \in DOMAIN model.nodes :
         \/ model.nodes[i].feature > UnsignedMax(LargeMetadataBits - ReservedMetadataBits)
         \/ UnsignedMax(SmallIndexBits) <= Max({0} \cup model.nodes[i].categories)
    \/ model.postprocessor \notin Transformations
    \/ ~types.double /\ model.sigmoid_alpha # "ordinary"
=============================================================================

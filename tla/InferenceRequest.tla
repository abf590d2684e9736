-------------------------- MODULE InferenceRequest --------------------------
(***************************************************************************)
(* What one call of the inference layer is given, and what it has to       *)
(* compute.  Shared by the abstract specification (ForestInference) and by *)
(* the kernels that implement it.                                          *)
(*                                                                         *)
(* A floating-point value is represented by the ordered list of the tree   *)
(* outputs that were added up to get it: two values with the same list are *)
(* bitwise equal, two values with permuted lists are equal up to rounding. *)
(***************************************************************************)
EXTENDS Integers, Sequences

CONSTANT Calls   \* the inference calls considered

InferKind == {"default", "per_tree", "leaf_id"}

(***************************************************************************)
(* The arguments of a kernel: the sizes of the input, the shape of the     *)
(* forest, the kind of inference and the granularity of the parallel loop. *)
(***************************************************************************)
Call == [row_count           : Nat,
         col_count           : Nat \ {0},
         num_tree            : Nat \ {0},
         default_num_outputs : Nat \ {0},
         has_vector_leaves   : BOOLEAN,
         infer_type          : InferKind,
         chunk_size          : Nat \ {0},
         grove_size          : Nat \ {0}]

ASSUME CallsAssumption == Calls \subseteq Call

CeilDiv(a, b) == a \div b + (IF a % b # 0 THEN 1 ELSE 0)
Least(a, b) == IF a < b THEN a ELSE b

Rows(c)  == 0 .. (c.row_count - 1)
Trees(c) == 0 .. (c.num_tree - 1)

(* decision_forest::num_outputs(infer_kind) *)
NumOutputs(c) ==
  IF c.infer_type = "default" THEN c.default_num_outputs
  ELSE IF c.infer_type = "per_tree" /\ c.has_vector_leaves
       THEN c.num_tree * c.default_num_outputs
       ELSE c.num_tree

Outputs(c) == 0 .. (NumOutputs(c) - 1)

(* Vector leaves contribute one value per output, other leaves one value. *)
NumComp(c) ==
  IF c.has_vector_leaves /\ c.infer_type # "leaf_id"
  THEN c.default_num_outputs ELSE 1

(* The output of the row that component comp of a tree is added to. *)
OutputOf(c, tree, comp) ==
  IF c.infer_type = "leaf_id" THEN tree
  ELSE IF c.has_vector_leaves
  THEN comp + (IF c.infer_type = "per_tree" THEN tree * c.default_num_outputs ELSE 0)
  ELSE IF c.infer_type = "per_tree" THEN tree ELSE tree % c.default_num_outputs

(***************************************************************************)
(* One tree output: component comp of the leaf that tree reaches on the    *)
(* row starting at input + offset.                                         *)
(***************************************************************************)
Term == [offset : Nat, tree : Nat, comp : Nat]

(* A value: the terms summed, in order, and how many times the             *)
(* postprocessing operation has been applied to it.                        *)
Value == [sum : Seq(Term), post : Nat]
Zero  == [sum |-> <<>>, post |-> 0]

Plus(v, w)   == [sum |-> v.sum \o w.sum, post |-> v.post + w.post]
AddTerm(v, t) == [sum |-> Append(v.sum, t), post |-> v.post]
Transform(v) == [v EXCEPT !.post = @ + 1]
=============================================================================

---------------------------- MODULE SourceForest ----------------------------
(***************************************************************************)
(* What a forest means before it is imported: the Treelite model, and the  *)
(* walk that evaluates one tree of it on one row.  Treelite is a library   *)
(* outside the repository; it is described as the importer uses it.        *)
(*                                                                         *)
(* Feature values and thresholds are small integers, or NaN for a missing  *)
(* value.  The values of a row are chosen node by node on the way down.    *)
(***************************************************************************)
EXTENDS Integers, Sequences, FiniteSets

CONSTANTS
  Models,    \* the Treelite models considered
  Values,    \* the feature values considered, integers and NaN
  NaN        \* a missing value

ASSUME NaNAssumption    == NaN \notin Int
ASSUME ValuesAssumption == Values \subseteq (Int \union {NaN})

Operators == {"kLT", "kLE", "kGT", "kGE"}

(***************************************************************************)
(* A node: a leaf with its output vector (a single value unless it is a    *)
(* leaf vector), a comparison with a threshold, or a test on a list of     *)
(* categories whose members go to the child list_right names.              *)
(***************************************************************************)
Node == [kind : {"leaf", "category"} \union Operators,
         left : Nat, right : Nat, default_left : BOOLEAN,
         threshold : Int, cats : SUBSET Nat, list_right : BOOLEAN,
         out : Seq(Nat)]

IsLeaf(n) == n.kind = "leaf"

(* Node ids of a tree are 0 .. num_nodes - 1; node 0 is the root. *)
Ids(tree) == DOMAIN tree
TreesOf(model) == 1 .. Len(model)

Children(n) == IF IsLeaf(n) THEN {} ELSE {n.left, n.right}

(* Every node but the root is a child of one node, and is reached from the
   root. *)
IsTree(tree) ==
  /\ IsFiniteSet(Ids(tree)) /\ Ids(tree) = 0 .. (Cardinality(Ids(tree)) - 1)
  /\ 0 \in Ids(tree)
  /\ \A i \in Ids(tree) :
       /\ tree[i] \in Node
       /\ Children(tree[i]) \subseteq Ids(tree) \ {0}
       /\ IsLeaf(tree[i]) \/ tree[i].left # tree[i].right
       /\ tree[i].kind # "category" => tree[i].cats = {}
  /\ \A i, j \in Ids(tree) : i # j => Children(tree[i]) \cap Children(tree[j]) = {}
  /\ \A S \in SUBSET Ids(tree) :
       0 \in S /\ (\A i \in S : Children(tree[i]) \subseteq S) => S = Ids(tree)

IsModel(model) ==
  /\ model \in Seq({model[t] : t \in TreesOf(model)})
  /\ \A t \in TreesOf(model) : IsTree(model[t])

ASSUME ModelsAssumption == \A model \in Models : IsModel(model)

(* A missing value goes to the default child. *)
GoesLeft(n, x) ==
  IF x = NaN THEN n.default_left
  ELSE CASE n.kind = "kLT"      -> x < n.threshold
         [] n.kind = "kLE"      -> x <= n.threshold
         [] n.kind = "kGT"      -> x > n.threshold
         [] n.kind = "kGE"      -> x >= n.threshold
         [] n.kind = "category" -> (x \in n.cats) # n.list_right

SourceChild(n, x) == IF GoesLeft(n, x) THEN n.left ELSE n.right
=============================================================================

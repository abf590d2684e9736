--------------------------- MODULE MCForestImport ---------------------------
(* Small instances of ForestImport for TLC. *)
EXTENDS ForestImport

MCValues == (-1 .. 4) \union {NaN}

Blank == [kind |-> "leaf", left |-> 0, right |-> 0, default_left |-> FALSE,
          threshold |-> 0, cats |-> {}, list_right |-> FALSE, out |-> <<>>]

Leaf(out) == [Blank EXCEPT !.out = out]

Split(kind, left, right, default_left) ==
  [Blank EXCEPT !.kind = kind, !.left = left, !.right = right,
                !.default_left = default_left, !.threshold = 1]

Category(cats, list_right, left, right, default_left) ==
  [Split("category", left, right, default_left) EXCEPT
     !.threshold = 0, !.cats = cats, !.list_right = list_right]

Tree(s) == [i \in 0 .. (Len(s) - 1) |-> s[i + 1]]

(* Three nodes, every comparison and default direction. *)
Stumps ==
  {Tree(<<Split(kind, 1, 2, d), Leaf(<<11>>), Leaf(<<12>>)>>) :
     kind \in Operators, d \in BOOLEAN}

CategoryStumps ==
  {Tree(<<Category(cats, r, 2, 1, d), Leaf(<<21>>), Leaf(<<22>>)>>) :
     cats \in {{}, {1}, {0, 3}}, r \in BOOLEAN, d \in BOOLEAN}

(* Deeper on the left, on the right and on both sides, with ids in an order
   no traversal visits. *)
LeftDeep ==
  Tree(<<Split("kLT", 4, 1, TRUE), Leaf(<<31>>), Leaf(<<32>>), Leaf(<<33>>),
         Split("kGE", 2, 3, FALSE)>>)
RightDeep ==
  Tree(<<Split("kGT", 1, 4, FALSE), Leaf(<<41>>), Leaf(<<42>>), Leaf(<<43>>),
         Category({0, 2}, FALSE, 3, 2, TRUE)>>)
BothDeep ==
  Tree(<<Split("kLE", 1, 2, TRUE), Split("kGE", 3, 4, TRUE), Category({1}, TRUE, 6, 5, FALSE),
         Leaf(<<51>>), Leaf(<<52>>), Leaf(<<53>>), Leaf(<<54>>)>>)

Single == Tree(<<Leaf(<<61>>)>>)

ScalarTrees == Stumps \union CategoryStumps \union {LeftDeep, RightDeep, BothDeep}

(* One tree of each kind, two trees of which one may have an empty list, and
   three different shapes in every order. *)
ScalarForests ==
  {f \in {<<t>> : t \in ScalarTrees} \union
         {<<a, b>> : a \in {LeftDeep, RightDeep}, b \in CategoryStumps \union {BothDeep}} \union
         {g \in [1 .. 3 -> {LeftDeep, RightDeep, BothDeep}] :
             \A i, j \in 1 .. 3 : i # j => g[i] # g[j]} : ~OnlyEmptyLists(f)}

(* Leaves with two outputs, all of them or those of the first tree; a category
   that is too large. *)
VectorStump == Tree(<<Split("kLT", 1, 2, TRUE), Leaf(<<71, 72>>), Leaf(<<73, 74>>)>>)
LargeCategory == Tree(<<Category({7}, FALSE, 1, 2, TRUE), Leaf(<<91>>), Leaf(<<92>>)>>)

OtherForests ==
  {<<VectorStump, VectorStump>>, <<VectorStump, LeftDeep>>, <<LargeCategory>>,
   <<BothDeep, LargeCategory>>}

DegenerateForests == {<<Single>>, <<LeftDeep, Single>>, <<Single, BothDeep, Single>>}

AllForests == ScalarForests \union OtherForests \union DegenerateForests

EmptyListForests == {<<t>> : t \in {s \in CategoryStumps : s[0].cats = {}}}
=============================================================================

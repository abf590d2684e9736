---------------------------- MODULE ForestImport ----------------------------
(***************************************************************************)
(* A Treelite model becomes an array of nodes (treelite_importer and       *)
(* decision_forest_builder) and trees are evaluated on that array          *)
(* (evaluate_tree).                                                        *)
(*                                                                         *)
(* The forest is traversed twice by for_each: once to find the offset of   *)
(* each node to its most distant child, once to hand the nodes to the      *)
(* builder.  Offsets are found before any padding is inserted and are used *)
(* after, so both passes and the padding must agree on where nodes go.     *)
(*                                                                         *)
(* Arrays of the code are sequences here: element i is seq[i + 1].         *)
(* Thresholds and values are doubled, so that the odd numbers can stand    *)
(* for nextafter: 2 * t + 1 is the least value greater than t.             *)
(***************************************************************************)
EXTENDS SourceForest, FiniteSets

CONSTANTS
  Layouts,      \* layouts the importer is instantiated for
  Alignments,   \* the builder's alignment_, 0 for none
  BinWidth,     \* number of bits of a node's index
  IndexLimit    \* greatest value of a 32-bit index

ASSUME LayoutsAssumption ==
  Layouts \subseteq {"depth_first", "breadth_first", "layered_children_together"}
ASSUME SizesAssumption ==
  /\ Alignments \subseteq Nat
  /\ BinWidth \in Nat \ {0}
  /\ IndexLimit \in Nat \ {0}

VARIABLES
  source, layout, align,      \* the arguments of the import
  forest,                     \* the model without degenerate trees
  phase,                      \* "called", "offsets", "build", "ready", "failed"
  todo, started, cur,         \* to_be_visited, roots added to it, cur_index
  offsets,                    \* offsets between each node and its distant child
  nodes, ids, roots,          \* nodes_, node_id_mapping_, root_node_indexes_
  vector, storage,            \* vector_output_, categorical_storage_
  leaf_size,                  \* output_size_
  origin,                     \* history: the tree and id each node came from
  status, tree, pos, input,   \* an evaluation: its tree, the node it is at, the
                              \* feature value tested to get there
  answer, leaf_id             \* what it returns by infer_kind

passVars   == <<todo, started, cur>>
builtVars  == <<nodes, ids, roots, vector, storage, leaf_size, origin>>
importVars == <<source, layout, align, forest, phase, passVars, offsets, builtVars>>
walkVars   == <<status, tree, pos, input, answer, leaf_id>>
vars       == <<importVars, walkVars>>

-----------------------------------------------------------------------------
(* The model as the importer sees it *)

(* A degenerate tree becomes a root with two leaves that both have the
   output of the original leaf. *)
Regrown(leaf) ==
  [i \in 0 .. 2 |->
     IF i # 0 THEN leaf
     ELSE [leaf EXCEPT !.kind = "kLE", !.left = 1, !.right = 2,
                       !.default_left = TRUE, !.threshold = 0]]

ConvertDegenerate(model) ==
  [t \in TreesOf(model) |-> IF IsLeaf(model[t][0]) THEN Regrown(model[t][0]) ELSE model[t]]

LeftIsHot(n) == IF n.kind = "category" THEN n.list_right ELSE n.kind \in {"kGT", "kGE"}
HotChild(n)     == IF LeftIsHot(n) THEN n.left ELSE n.right
DistantChild(n) == IF LeftIsHot(n) THEN n.right ELSE n.left
DefaultDistantLeft(n) == n.default_left   \* mutant: the distant child is taken to be the left one
DefaultDistant(n) == (IF n.default_left THEN n.left ELSE n.right) = DistantChild(n)
IsInclusiveEqual(n) == n.kind \in {"kGE", "kLE"}   \* mutant: kGE for kGT
IsInclusive(n) == n.kind \in {"kGT", "kLE"}

Greatest(S) == CHOOSE m \in S : \A k \in S : k <= m
MaxPlusOne(cats) == IF cats = {} THEN 1 ELSE Greatest(cats) + 1

NodesOf(model) == UNION {{<<t, i>> : i \in Ids(model[t])} : t \in TreesOf(model)}

(* 0 if no category list has a member. *)
MaxNumCategories ==
  LET lists == {forest[u[1]][u[2]].cats : u \in NodesOf(forest)} \ {{}}
  IN  IF lists = {} THEN 0
      ELSE Greatest({(Greatest(c) + 1) % (IndexLimit + 1) : c \in lists})

-----------------------------------------------------------------------------
(* for_each *)

Visiting(t, id, depth, parent) == [tree |-> t, id |-> id, depth |-> depth, parent |-> parent]
NodeAt(item) == forest[item.tree][item.id]

(* The container is a stack for the depth-first order and a queue for the
   others; the head of todo is the next node.  The parent's index is kept
   with the node (the code has a second container, used in step). *)
ToVisit ==
  LET item == Head(todo)
      child(id) == Visiting(item.tree, id, item.depth + 1, cur)
      hot      == child(HotChild(NodeAt(item)))
      distant  == child(DistantChild(NodeAt(item)))
  IN  IF IsLeaf(NodeAt(item)) THEN Tail(todo)
      ELSE IF layout = "depth_first" THEN <<hot, distant>> \o Tail(todo)
      ELSE Tail(todo) \o <<hot, distant>>

(* Trees are traversed one after the other, or all together by layers.  A
   layered traversal drains the queue layer by layer, which is the order of
   the queue. *)
StartTrees ==
  /\ phase \in {"offsets", "build"}
  /\ todo = <<>>
  /\ started < Len(forest)
  /\ IF layout = "layered_children_together"
     THEN /\ todo' = [t \in TreesOf(forest) |-> Visiting(t, 0, 0, t - 1)]
          /\ started' = Len(forest)
     ELSE /\ todo' = <<Visiting(started + 1, 0, 0, cur)>>
          /\ started' = started + 1
  /\ UNCHANGED <<source, layout, align, forest, phase, cur, offsets, builtVars, walkVars>>

Visited ==
  /\ todo' = ToVisit
  /\ cur' = cur + 1
  /\ UNCHANGED started

PassOver == todo = <<>> /\ started = Len(forest)

-----------------------------------------------------------------------------
(* import *)

Init ==
  /\ source \in Models
  /\ layout \in Layouts
  /\ align \in Alignments
  /\ forest = <<>>
  /\ phase = "called"
  /\ todo = <<>> /\ started = 0 /\ cur = 0
  /\ offsets = <<>>
  /\ nodes = <<>> /\ ids = <<>> /\ roots = <<>>
  /\ vector = <<>> /\ storage = <<>>
  /\ leaf_size = 1
  /\ origin = <<>>
  /\ status = "idle" /\ tree = 1 /\ pos = 0 /\ input = NaN /\ answer = <<>> /\ leaf_id = 0

(* Mutant of Convert: import calls itself again on every converted model. *)
ConvertAgain ==
  /\ phase = "called"
  /\ forest' = ConvertDegenerate(source)
  /\ UNCHANGED <<source, layout, align, phase, offsets, passVars, builtVars, walkVars>>

Convert ==
  /\ phase = "called"
  /\ forest' = ConvertDegenerate(source)
  /\ offsets' = [i \in 0 .. (Cardinality(NodesOf(forest')) - 1) |-> 0]
  /\ phase' = "offsets"
  /\ UNCHANGED <<source, layout, align, passVars, builtVars, walkVars>>

(* Of the children of a node the one visited last sets its offset. *)
VisitOffset ==
  /\ phase = "offsets"
  /\ todo # <<>>
  /\ offsets' = [offsets EXCEPT ![Head(todo).parent] = cur - Head(todo).parent]
  /\ Visited
  /\ UNCHANGED <<source, layout, align, forest, phase, builtVars, walkVars>>

OffsetsDone ==
  /\ phase = "offsets"
  /\ PassOver
  /\ phase' = "build"
  /\ started' = 0
  /\ cur' = 0
  /\ UNCHANGED <<source, layout, align, forest, todo, offsets, builtVars, walkVars>>

-----------------------------------------------------------------------------
(* decision_forest_builder *)

Stored(offset, default_distant, categorical, threshold, bits, index, output) ==
  [offset |-> offset, default_distant |-> default_distant, categorical |-> categorical,
   threshold |-> threshold, bits |-> bits, index |-> index, output |-> output]

StoredLeaf(index, output) == Stored(0, FALSE, FALSE, 0, {}, index, output)

(* Trees cannot be aligned in a layered layout, where they are mingled. *)
Alignment == IF layout = "layered_children_together" THEN 0 ELSE align

(* Mutant of Padding: as many nodes as there are past the last multiple. *)
PaddingRemainder(depth) ==
  IF depth # 0 \/ Alignment = 0 THEN 0 ELSE Len(nodes) % Alignment

Padding(depth) ==
  IF depth # 0 \/ Alignment = 0 \/ Len(nodes) % Alignment = 0 THEN 0
  ELSE Alignment - (Len(nodes) % Alignment)

(* A root is preceded by padding nodes that have no id of their own. *)
AddNode(item, stored) ==
  LET pad(filler) == [i \in 1 .. Padding(item.depth) |-> filler]
  IN  /\ nodes' = nodes \o pad(StoredLeaf(0, 0)) \o <<stored>>
      /\ ids' = ids \o pad(0) \o <<item.id>>
      /\ origin' = origin \o pad(<<0, 0>>) \o <<<<item.tree, item.id>>>>
      /\ roots' = IF item.depth = 0
                  THEN Append(roots, Len(nodes) + Padding(item.depth)) ELSE roots

SizeUnchanged(n) == Len(n.out) > 0 /\ leaf_size = Len(n.out)   \* mutant: the initial size counts
SizeConsistent(n) == Len(n.out) > 0 /\ leaf_size \in {1, Len(n.out)}

BuildLeaf ==
  LET n == NodeAt(Head(todo)) IN
  /\ phase = "build" /\ todo # <<>> /\ IsLeaf(n)
  /\ SizeConsistent(n)
  /\ leaf_size' = Len(n.out)
  /\ IF Len(n.out) > 1
     THEN /\ AddNode(Head(todo), StoredLeaf(Len(vector) \div Len(n.out), 0))
          /\ vector' = vector \o n.out
     ELSE /\ AddNode(Head(todo), StoredLeaf(0, n.out[1]))
          /\ UNCHANGED vector
  /\ Visited
  /\ UNCHANGED <<source, layout, align, forest, phase, offsets, storage, walkVars>>

BuildNumeric ==
  LET n == NodeAt(Head(todo)) IN
  /\ phase = "build" /\ todo # <<>> /\ n.kind \in Operators
  /\ AddNode(Head(todo),
             Stored(offsets[cur], DefaultDistant(n), FALSE,
                    2 * n.threshold + (IF IsInclusive(n) THEN 1 ELSE 0), {}, 0, 0))
  /\ Visited
  /\ UNCHANGED <<source, layout, align, forest, phase, offsets, vector, storage, leaf_size, walkVars>>

Representable(n) == \A c \in n.cats : c < IndexLimit

(* The categories are kept in the node's own bits if those of every node of
   the forest fit, else in the storage: their number, then a bitset. *)
Bitset(cats) ==
  LET size == MaxPlusOne(cats)
      bins == size \div BinWidth + (IF size % BinWidth # 0 THEN 1 ELSE 0)
  IN  <<[count |-> size, bin |-> {}]>> \o
      [b \in 1 .. bins |->
         [count |-> 0, bin |-> {c % BinWidth : c \in {d \in cats : d \div BinWidth = b - 1}}]]

BuildCategory ==
  LET n == NodeAt(Head(todo))
      nonlocal == MaxNumCategories > BinWidth
  IN
  /\ phase = "build" /\ todo # <<>> /\ n.kind = "category"
  /\ Representable(n)
  /\ AddNode(Head(todo),
             Stored(offsets[cur], DefaultDistant(n), TRUE, 0,
                    IF nonlocal THEN {} ELSE n.cats, IF nonlocal THEN Len(storage) ELSE 0, 0))
  /\ storage' = IF nonlocal THEN storage \o Bitset(n.cats) ELSE storage
  /\ Visited
  /\ UNCHANGED <<source, layout, align, forest, phase, offsets, vector, leaf_size, walkVars>>

(* An exception leaves the traversal and the import. *)
Fail ==
  LET n == NodeAt(Head(todo)) IN
  /\ phase = "build" /\ todo # <<>>
  /\ \/ IsLeaf(n) /\ ~SizeConsistent(n)
     \/ n.kind = "category" /\ ~Representable(n)
  /\ phase' = "failed"
  /\ UNCHANGED <<source, layout, align, forest, passVars, offsets, builtVars, walkVars>>

(* The checks of get_decision_forest before the forest is trusted. *)
Trusted ==
  /\ \A t \in DOMAIN roots : roots[t] < Len(nodes)
  /\ MaxNumCategories > BinWidth =>
       \A i \in DOMAIN nodes : nodes[i].offset # 0 /\ nodes[i].categorical =>
         /\ nodes[i].index < Len(storage)
         /\ LET count == storage[nodes[i].index + 1].count
            IN  nodes[i].index + 1 + (count \div BinWidth) + (IF count % BinWidth # 0 THEN 1 ELSE 0)
                  <= Len(storage)

Finish ==
  /\ phase = "build"
  /\ PassOver
  /\ Trusted
  /\ phase' = "ready"
  /\ UNCHANGED <<source, layout, align, forest, passVars, offsets, builtVars, walkVars>>

-----------------------------------------------------------------------------
(* evaluate_tree *)

ChildOffset(n, condition) ==
  IF layout = "depth_first"
  THEN IF condition THEN n.offset ELSE 1
  ELSE n.offset - 1 + (IF condition THEN 1 ELSE 0)

(* The index of a value in a bitset of so many bits, one past its end if it
   has none. *)
BitsetIndex(x, bits) == IF x > -1 /\ x < bits THEN x ELSE bits

InCategories(n, x) ==
  IF MaxNumCategories > BinWidth
  THEN LET index == BitsetIndex(x, storage[n.index + 1].count)
       IN  /\ index < storage[n.index + 1].count
           /\ index % BinWidth \in storage[n.index + 2 + index \div BinWidth].bin
  ELSE BitsetIndex(x, BinWidth) \in n.bits

(* Whether to go to the distant child.  Both variants of evaluate_tree_impl
   compute this; nodes count as categorical only if the forest does. *)
Condition(n, x) ==
  IF x = NaN THEN n.default_distant
  ELSE IF MaxNumCategories # 0 /\ n.categorical THEN InCategories(n, x)
  ELSE 2 * x < n.threshold

Ask ==
  /\ phase = "ready"
  /\ status \in {"idle", "answered"}
  /\ status' = "entered"
  /\ tree' \in TreesOf(forest)
  /\ pos' = roots[tree']
  /\ input' = NaN
  /\ UNCHANGED <<importVars, answer, leaf_id>>

(* One iteration of the do-while loop, whose first never tests for a leaf. *)
Descend ==
  LET n == nodes[pos + 1] IN
  /\ status = "entered" \/ (status = "walking" /\ n.offset # 0)
  /\ input' \in Values
  /\ pos' = pos + ChildOffset(n, Condition(n, input'))
  /\ status' = "walking"
  /\ UNCHANGED <<importVars, tree, answer, leaf_id>>

(* Mutant of Return: node ids are looked up from the tree's own root. *)
ReturnFromOwnRoot ==
  LET n == nodes[pos + 1] IN
  /\ status = "walking" /\ n.offset = 0
  /\ answer' = IF vector = <<>> THEN <<n.output>>
               ELSE SubSeq(vector, n.index * leaf_size + 1, (n.index + 1) * leaf_size)
  /\ leaf_id' = ids[(pos - roots[tree]) + 1]
  /\ status' = "answered"
  /\ UNCHANGED <<importVars, tree, pos, input>>

Return ==
  LET n == nodes[pos + 1] IN
  /\ status = "walking" /\ n.offset = 0
  /\ answer' = IF vector = <<>> THEN <<n.output>>
               ELSE SubSeq(vector, n.index * leaf_size + 1, (n.index + 1) * leaf_size)
  /\ leaf_id' = ids[(pos - roots[1]) + 1]
  /\ status' = "answered"
  /\ UNCHANGED <<importVars, tree, pos, input>>

-----------------------------------------------------------------------------
Importing ==
  \/ Convert \/ StartTrees \/ VisitOffset \/ OffsetsDone
  \/ BuildLeaf \/ BuildNumeric \/ BuildCategory \/ Fail \/ Finish

(* An import that failed is over. *)
Over == phase = "failed" /\ UNCHANGED vars

Next == Importing \/ Ask \/ Descend \/ Return \/ Over

Spec == Init /\ [][Next]_vars

(* The import is a loop of one thread, which nothing suspends for ever. *)
FairSpec == Spec /\ WF_vars(Importing)

-----------------------------------------------------------------------------
(* Properties *)

(* Node (t, i) of the converted model is what its node at position p of the
   array stands for. *)
From(p) == forest[origin[p + 1][1]][origin[p + 1][2]]
Positions == 0 .. (Len(nodes) - 1)
Built == {p \in Positions : origin[p + 1] # <<0, 0>>}

(* The evaluation as a walk over the Treelite model; of a single leaf, whose
   regrown root is a test without effect, nothing is read. *)
Promise == INSTANCE TreeWalk WITH
  status <- IF status = "entered" THEN "walking" ELSE status,
  node   <- IF status = "idle" \/ IsLeaf(source[tree][0]) THEN 0 ELSE origin[pos + 1][2],
  input  <- IF IsLeaf(source[tree][0]) THEN NaN ELSE input

(* A model whose category lists are all empty, which the code takes for one
   without categories. *)
OnlyEmptyLists(model) ==
  LET all == {model[u[1]][u[2]] : u \in NodesOf(model)}
  IN  (\E n \in all : n.kind = "category") /\ (\A n \in all : n.cats = {})

(* Leaves that all have as many outputs.  A scalar leaf may precede longer
   ones without an error (the initial size of the outputs is 1), although its
   output is then not where that of a vector is looked for. *)
LeavesAgree(model) ==
  \A u, w \in NodesOf(model) :
    IsLeaf(model[u[1]][u[2]]) /\ IsLeaf(model[w[1]][w[2]]) =>
      Len(model[u[1]][u[2]].out) = Len(model[w[1]][w[2]].out)

(* In the finished array, from any node and for any feature value, the child
   evaluate_tree moves to is the child the Treelite model names: the two
   traversals, the padding between them, the two encodings of categories,
   nextafter and the hot/distant swap all agree. *)
ChildrenFaithful ==
  phase = "ready" =>
    \A p \in Built, x \in Values :
      IF IsLeaf(From(p)) THEN nodes[p + 1].offset = 0
      ELSE LET child == p + ChildOffset(nodes[p + 1], Condition(nodes[p + 1], x))
           IN  /\ nodes[p + 1].offset # 0
               /\ child \in Built
               /\ origin[child + 1] = <<origin[p + 1][1], SourceChild(From(p), x)>>

(* Every node of every tree is stored once; the root of a tree is where
   root_node_indexes_ says and, where trees are aligned, on a multiple of the
   alignment. *)
StoredOnce ==
  phase = "ready" =>
    /\ {origin[p + 1] : p \in Built} = NodesOf(forest)
    /\ Cardinality(Built) = Cardinality(NodesOf(forest))
    /\ Len(roots) = Len(forest)
    /\ \A t \in TreesOf(forest) :
         /\ origin[roots[t] + 1] = <<t, 0>>
         /\ Alignment # 0 => roots[t] % Alignment = 0

(* The leaf id and the output that an evaluation returns are those of one
   leaf: the id mapping, which is indexed from the root of the first tree,
   has not lost step with the nodes over the padding. *)
LeafIdNamesOutput ==
  status = "answered" =>
    /\ leaf_id \in Ids(forest[tree])
    /\ IsLeaf(forest[tree][leaf_id])
    /\ forest[tree][leaf_id].out = answer

(* The leaf id returned is the id of a leaf of the Treelite tree, and that
   leaf has the output returned (decision_forest.hpp:119 promises Treelite's
   node ID). *)
LeafIdIsTreelite ==
  status = "answered" =>
    /\ leaf_id \in Ids(source[tree])
    /\ IsLeaf(source[tree][leaf_id])
    /\ source[tree][leaf_id].out = answer

(* An import fails only for a reason the model gives: a leaf with no output,
   leaves of different sizes or a category that is too large. *)
FailsForCause ==
  phase = "failed" =>
    LET all    == {source[u[1]][u[2]] : u \in NodesOf(source)}
        leaves == {n \in all : IsLeaf(n)}
    IN  \/ \E n \in leaves : Len(n.out) = 0
        \/ \E n, m \in leaves : Len(n.out) # Len(m.out)
        \/ \E n \in all : ~Representable(n)

(* The import comes to an end: every node is visited in both passes. *)
ImportEnds == <>(phase \in {"ready", "failed"})

(* Evaluating the array implements evaluating the Treelite trees. *)
Implements == Promise!Spec
=============================================================================

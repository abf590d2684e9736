------------------------- MODULE ForestImportProofs -------------------------
(***************************************************************************)
(* Proofs about the import of a forest, for any model whose trees are      *)
(* trees: where its nodes go, and that the array they make is walked as    *)
(* the trees of the model are.                                             *)
(*                                                                         *)
(* The two traversals of an import are one function of the forest and the  *)
(* layout, Traversal.  Explored says what is known when k nodes have been  *)
(* visited, v[0] .. v[k - 1], and the queue is q: it is an invariant of    *)
(* the first traversal, and of the second one it is known from the start   *)
(* for all nodes, which is why offsets found by the first one can be used. *)
(***************************************************************************)
EXTENDS ForestImport, IntegerLemmas, SequenceTheorems

(* The queue when its head has been visited as the node at place c *)
QueueAfter(f, lay, q, c) ==
  LET x == Head(q)
      n == f[x.tree][x.id]
      hot     == Visiting(x.tree, HotChild(n), x.depth + 1, c)
      distant == Visiting(x.tree, DistantChild(n), x.depth + 1, c)
  IN  IF IsLeaf(n) THEN Tail(q)
      ELSE IF lay = "depth_first" THEN <<hot, distant>> \o Tail(q)
      ELSE Tail(q) \o <<hot, distant>>

Layered == "layered_children_together"

(* The queue and the number of trees started, when place c has been reached
   and when trees have been started there if the queue was empty *)
Reached(f, lay, g, c) ==
  IF c = 0 THEN [todo |-> <<>>, started |-> 0]
  ELSE [todo |-> QueueAfter(f, lay, g[c - 1].todo, c - 1), started |-> g[c - 1].started]

Begun(f, lay, s, c) ==
  IF s.todo = <<>> /\ s.started < Len(f)
  THEN IF lay = Layered
       THEN [todo |-> [t \in TreesOf(f) |-> Visiting(t, 0, 0, t - 1)], started |-> Len(f)]
       ELSE [todo |-> <<Visiting(s.started + 1, 0, 0, c)>>, started |-> s.started + 1]
  ELSE s

Size(f) == Cardinality(NodesOf(f))

Traversal(f, lay) ==
  LET g[c \in 0 .. Size(f)] == Begun(f, lay, Reached(f, lay, g, c), c)
  IN  g

Order(f, lay) == [c \in 0 .. Size(f) |-> Head(Traversal(f, lay)[c].todo)]

-----------------------------------------------------------------------------
(* Items of the queue *)

Item(f) == [tree : TreesOf(f), id : Nat, depth : Nat, parent : Nat]
At(f, x) == f[x.tree][x.id]
Same(x, y) == x.tree = y.tree /\ x.id = y.id

IsHot(f, p, x) ==
  x.tree = p.tree /\ ~IsLeaf(At(f, p)) /\ x.id = HotChild(At(f, p))
IsDistant(f, p, x) ==
  x.tree = p.tree /\ ~IsLeaf(At(f, p)) /\ x.id = DistantChild(At(f, p))

IsItem(f, x) ==
  x \in Item(f) /\ x.id \in Ids(f[x.tree]) /\ (x.depth = 0 <=> x.id = 0)

(* An item whose place is c or later: a root is its own parent, any other
   node is a child of one that has been visited. *)
Placed(f, v, k, c, x) ==
  /\ IsItem(f, x)
  /\ IF x.id = 0 THEN x.parent = c
     ELSE x.parent \in 0 .. (k - 1) /\ (IsHot(f, v[x.parent], x) \/ IsDistant(f, v[x.parent], x))

Found(v, k, q, t, i) ==
  \/ \E c \in 0 .. (k - 1) : v[c].tree = t /\ v[c].id = i
  \/ \E j \in 1 .. Len(q) : q[j].tree = t /\ q[j].id = i

ItemsPlaced(f, v, k, q, s) ==
  /\ \A c \in 0 .. (k - 1) : Placed(f, v, c, c, v[c]) /\ v[c].tree <= s
  /\ q \in Seq(Item(f))
  /\ \A j \in 1 .. Len(q) : Placed(f, v, k, k + j - 1, q[j]) /\ q[j].tree <= s

Distinct(v, k, q) ==
  /\ \A c, d \in 0 .. (k - 1) : Same(v[c], v[d]) => c = d
  /\ \A i, j \in 1 .. Len(q) : Same(q[i], q[j]) => i = j
  /\ \A c \in 0 .. (k - 1), j \in 1 .. Len(q) : ~Same(v[c], q[j])

(* Nothing is forgotten. *)
AllFound(f, v, k, q, s) ==
  /\ \A t \in 1 .. s : Found(v, k, q, t, 0)
  /\ \A c \in 0 .. (k - 1) : \A i \in Children(At(f, v[c])) : Found(v, k, q, v[c].tree, i)

(* The distant child comes after the hot one in every queue ... *)
HotFirst(f, v, k, q) ==
  \A j \in 1 .. Len(q) : q[j].id # 0 /\ IsHot(f, v[q[j].parent], q[j]) =>
    j < Len(q) /\ IsDistant(f, v[q[j].parent], q[j + 1])

(* ... and right after it unless a stack is used, *)
DistantNext(f, lay, v, k, q) ==
  lay # "depth_first" =>
    /\ \A c \in 0 .. (k - 1) : v[c].id # 0 /\ IsDistant(f, v[v[c].parent], v[c]) =>
         c > 0 /\ IsHot(f, v[v[c].parent], v[c - 1])
    /\ \A j \in 1 .. Len(q) : q[j].id # 0 /\ IsDistant(f, v[q[j].parent], q[j]) =>
         IF j = 1 THEN k > 0 /\ IsHot(f, v[q[j].parent], v[k - 1])
         ELSE IsHot(f, v[q[j].parent], q[j - 1])

(* with which it is the hot child that comes right after its parent. *)
HotNext(f, lay, v, k, q) ==
  lay = "depth_first" =>
    \A c \in 0 .. (k - 1) : ~IsLeaf(At(f, v[c])) =>
      IF c + 1 < k THEN IsHot(f, v[c], v[c + 1])
      ELSE q # <<>> /\ IsHot(f, v[c], q[1])

(* Trees come one after the other unless they are layered, their roots do in
   any case. *)
TreesInTurn(f, lay, v, k, q, s) ==
  lay # Layered =>
    /\ \A c, d \in 0 .. (k - 1) :
         c <= d => v[c].tree <= v[d].tree /\ (c < d /\ v[d].id = 0 => v[c].tree < v[d].tree)
    /\ \A j \in 1 .. Len(q) :
         q[j].tree = s /\ (q[j].id = 0 => \A c \in 0 .. (k - 1) : v[c].tree < s)

RootsInTurn(v, k, q) ==
  /\ \A c \in 0 .. (k - 1) : v[c].id = 0 =>
       \A t \in 1 .. (v[c].tree - 1) : \E b \in 0 .. (c - 1) : v[b].tree = t /\ v[b].id = 0
  /\ \A j \in 1 .. Len(q) : q[j].id = 0 =>
       \A t \in 1 .. (q[j].tree - 1) :
         \/ \E c \in 0 .. (k - 1) : v[c].tree = t /\ v[c].id = 0
         \/ \E i \in 1 .. (j - 1) : q[i].tree = t /\ q[i].id = 0

Explored(f, lay, v, k, q, s) ==
  /\ k \in Nat
  /\ s \in 0 .. Len(f) /\ (lay = Layered => s \in {0, Len(f)})
  /\ ItemsPlaced(f, v, k, q, s)
  /\ Distinct(v, k, q)
  /\ AllFound(f, v, k, q, s)
  /\ HotFirst(f, v, k, q)
  /\ DistantNext(f, lay, v, k, q)
  /\ HotNext(f, lay, v, k, q)
  /\ TreesInTurn(f, lay, v, k, q, s)
  /\ RootsInTurn(v, k, q)

(* The offset of a node is that to its distant child, once that was visited. *)
OffsetsFound(f, v, k, offs) ==
  \A d \in 0 .. (k - 1) : v[d].id # 0 /\ IsDistant(f, v[v[d].parent], v[d]) =>
    offs[v[d].parent] = d - v[d].parent

-----------------------------------------------------------------------------
(* The invariant *)

(* The queue q, of which k nodes have been visited, is that of Traversal. *)
Follows(f, lay, k, q, s) ==
  LET before == Reached(f, lay, Traversal(f, lay), k)
  IN  /\ k \in 0 .. Size(f)
      /\ [todo |-> q, started |-> s] \in {before, Begun(f, lay, before, k)}

(* There is a node to visit at each of the first k places. *)
Busy(f, lay, k) ==
  \A c \in 0 .. (k - 1) : Traversal(f, lay)[c].todo # <<>> /\ Traversal(f, lay)[c].started \in Nat

(* During the first traversal, and after it *)
FirstPass(f, lay, k, q, s, offs) ==
  /\ Explored(f, lay, Order(f, lay), k, q, s)
  /\ OffsetsFound(f, Order(f, lay), k, offs)
  /\ Busy(f, lay, k)

WholePass(f, lay, offs) ==
  /\ FirstPass(f, lay, Size(f), <<>>, Len(f), offs)
  /\ Reached(f, lay, Traversal(f, lay), Size(f)) = [todo |-> <<>>, started |-> Len(f)]

ArgumentsInv ==
  /\ source \in Models /\ layout \in Layouts /\ align \in Alignments
  /\ phase \in {"called", "offsets", "build", "ready", "failed"}
  /\ IF phase = "called"
     THEN todo = <<>> /\ started = 0 /\ cur = 0
     ELSE forest = ConvertDegenerate(source)
  /\ phase \in {"called", "offsets"} =>
       /\ nodes = <<>> /\ ids = <<>> /\ origin = <<>> /\ roots = <<>>
       /\ vector = <<>> /\ storage = <<>> /\ leaf_size = 1

TraversalInv ==
  /\ phase # "called" => /\ Follows(forest, layout, cur, todo, started)
                         /\ offsets \in [0 .. (Size(forest) - 1) -> Nat]
  /\ phase = "offsets" => FirstPass(forest, layout, cur, todo, started, offsets)
  /\ phase \in {"build", "ready", "failed"} => WholePass(forest, layout, offsets)
  /\ phase = "ready" => cur = Size(forest)

-----------------------------------------------------------------------------
(* Trees *)

LEMMA ModelFacts ==
  ASSUME NEW f, IsModel(f)
  PROVE  /\ Len(f) \in Nat
         /\ TreesOf(f) = 1 .. Len(f)
         /\ \A t \in TreesOf(f) : IsTree(f[t])
  BY DEF IsModel, TreesOf

(* What a node says of its children, whichever of them is the hot one. *)
LEMMA NodeFacts ==
  ASSUME NEW f, IsModel(f), NEW t \in TreesOf(f), NEW i \in Ids(f[t])
  PROVE  /\ f[t][i] \in Node
         /\ ~IsLeaf(f[t][i]) =>
              /\ Children(f[t][i]) = {HotChild(f[t][i]), DistantChild(f[t][i])}
              /\ HotChild(f[t][i]) \in Ids(f[t]) /\ DistantChild(f[t][i]) \in Ids(f[t])
              /\ HotChild(f[t][i]) # 0 /\ DistantChild(f[t][i]) # 0
              /\ HotChild(f[t][i]) # DistantChild(f[t][i])
         /\ IsLeaf(f[t][i]) => Children(f[t][i]) = {}
<1> DEFINE n == f[t][i]
<1>1. /\ n \in Node /\ Children(n) \subseteq Ids(f[t]) \ {0}
      /\ IsLeaf(n) \/ n.left # n.right
  BY ModelFacts DEF IsTree
<1> HIDE DEF n
<1>2. ~IsLeaf(n) => Children(n) = {n.left, n.right}
  BY DEF Children
<1>3. CASE LeftIsHot(n)
  BY <1>1, <1>2, <1>3 DEF HotChild, DistantChild, Children, n
<1>4. CASE ~LeftIsHot(n)
  BY <1>1, <1>2, <1>4 DEF HotChild, DistantChild, Children, n
<1> QED
  BY <1>3, <1>4

LEMMA AtFacts ==
  ASSUME NEW f, IsModel(f), NEW x, x.tree \in TreesOf(f), x.id \in Ids(f[x.tree])
  PROVE  /\ At(f, x) \in Node
         /\ ~IsLeaf(At(f, x)) =>
              /\ Children(At(f, x)) = {HotChild(At(f, x)), DistantChild(At(f, x))}
              /\ HotChild(At(f, x)) \in Ids(f[x.tree]) /\ DistantChild(At(f, x)) \in Ids(f[x.tree])
              /\ HotChild(At(f, x)) # 0 /\ DistantChild(At(f, x)) # 0
              /\ HotChild(At(f, x)) # DistantChild(At(f, x))
         /\ IsLeaf(At(f, x)) => Children(At(f, x)) = {}
         /\ \A y : IsHot(f, x, y) \/ IsDistant(f, x, y) <=>
                    y.tree = x.tree /\ y.id \in Children(At(f, x))
         /\ \A y : ~(IsHot(f, x, y) /\ IsDistant(f, x, y))
<1> DEFINE n == f[x.tree][x.id]
<1>1. At(f, x) = n
  BY DEF At
<1>2. /\ n \in Node
      /\ ~IsLeaf(n) =>
           /\ Children(n) = {HotChild(n), DistantChild(n)}
           /\ HotChild(n) \in Ids(f[x.tree]) /\ DistantChild(n) \in Ids(f[x.tree])
           /\ HotChild(n) # 0 /\ DistantChild(n) # 0
           /\ HotChild(n) # DistantChild(n)
      /\ IsLeaf(n) => Children(n) = {}
  BY NodeFacts
<1> HIDE DEF n
<1> QED
  BY <1>1, <1>2 DEF IsHot, IsDistant

LEMMA IdsFacts ==
  ASSUME NEW f, IsModel(f), NEW t \in TreesOf(f)
  PROVE  /\ Ids(f[t]) \subseteq Nat /\ 0 \in Ids(f[t]) /\ IsFiniteSet(Ids(f[t]))
         /\ \A i, j \in Ids(f[t]) : i # j => Children(f[t][i]) \cap Children(f[t][j]) = {}
         /\ \A S \in SUBSET Ids(f[t]) :
              0 \in S /\ (\A i \in S : Children(f[t][i]) \subseteq S) => S = Ids(f[t])
<1> DEFINE tr == f[t]
<1>1. IsTree(tr)
  BY ModelFacts
<1> HIDE DEF tr
<1>2. Cardinality(Ids(tr)) \in Nat /\ Ids(tr) = 0 .. (Cardinality(Ids(tr)) - 1)
  BY <1>1, FS_CardinalityType DEF IsTree
<1>3. Ids(tr) \subseteq Nat
  BY <1>2
<1>4. QED
  BY <1>1, <1>3 DEF IsTree, tr

LEMMA NodesFinite ==
  ASSUME NEW f, IsModel(f)
  PROVE  IsFiniteSet(NodesOf(f)) /\ Size(f) \in Nat
<1> DEFINE Part(t) == {<<t, i>> : i \in Ids(f[t])}
           Parts == {Part(t) : t \in TreesOf(f)}
<1>1. IsFiniteSet(TreesOf(f))
  <2>1. Len(f) \in Int /\ 1 \in Int /\ TreesOf(f) = 1 .. Len(f)
    BY ModelFacts
  <2> HIDE DEF Part
  <2> QED
    BY <2>1, FS_Interval
<1>2. IsFiniteSet(Parts)
  <2> DEFINE g == [t \in TreesOf(f) |-> Part(t)]
  <2> HIDE DEF Part
  <2>1. g \in Surjection(TreesOf(f), Parts)
    BY DEF Surjection
  <2> HIDE DEF g
  <2> QED
    BY <1>1, <2>1, FS_Surjection
<1>3. ASSUME NEW t \in TreesOf(f) PROVE IsFiniteSet(Part(t))
  <2>1. IsFiniteSet(Ids(f[t]))
    BY IdsFacts
  <2> DEFINE g == [i \in Ids(f[t]) |-> <<t, i>>]
  <2>2. g \in Surjection(Ids(f[t]), Part(t))
    BY DEF Surjection
  <2> HIDE DEF g
  <2> QED
    BY <2>1, <2>2, FS_Surjection
<1>4. \A T \in Parts : IsFiniteSet(T)
  <2> HIDE DEF Part
  <2> QED
    BY <1>3
<1>5. IsFiniteSet(UNION Parts)
  <2> HIDE DEF Parts
  <2> QED
    BY <1>2, <1>4, FS_UNION
<1>6. NodesOf(f) = UNION Parts
  BY DEF NodesOf
<1> QED
  BY <1>5, <1>6, FS_CardinalityType DEF Size

LEMMA NodesOfMember ==
  ASSUME NEW f, NEW t, NEW i
  PROVE  <<t, i>> \in NodesOf(f) <=> t \in TreesOf(f) /\ i \in Ids(f[t])
  BY DEF NodesOf

-----------------------------------------------------------------------------
(* The traversal *)

Traversed(f, lay, n, g) == g = [c \in 0 .. n |-> Begun(f, lay, Reached(f, lay, g, c), c)]

LEMMA TraversalExists ==
  ASSUME NEW f, NEW lay, NEW num \in Nat
  PROVE  \E g : Traversed(f, lay, num, g)
<1> DEFINE Missing == {n \in Nat : ~ \E g : Traversed(f, lay, n, g)}
<1>1. SUFFICES ASSUME Missing # {} PROVE FALSE
  OBVIOUS
<1>2. PICK n \in Missing : \A m \in Missing : n <= m
  BY <1>1, LeastNat
<1>3. n \in Nat /\ ~ \E g : Traversed(f, lay, n, g)
  BY <1>2
<1>4. PICK g : n > 0 => Traversed(f, lay, n - 1, g)
  <2>1. CASE n > 0
    <3>1. n - 1 \in Nat /\ ~(n <= n - 1)
      BY <1>3, <2>1
    <3>2. n - 1 \notin Missing
      BY <1>2, <3>1
    <3> QED
      BY <3>1, <3>2
  <2> QED
    BY <2>1
<1> DEFINE Next_(k, c) == Begun(f, lay, Reached(f, lay, k, c), c)
           h == [c \in 0 .. n |-> IF c = n THEN Next_(g, n) ELSE g[c]]
<1>5. ASSUME NEW c \in 0 .. n PROVE h[c] = Next_(h, c)
  <2>1. c \in Nat /\ (c # 0 => c - 1 \in 0 .. n /\ c - 1 # n)
    BY <1>3
  <2>2. c # 0 => h[c - 1] = g[c - 1]
    BY <2>1
  <2>3. Next_(h, c) = Next_(g, c)
    <3> HIDE DEF h
    <3> QED
      BY <2>1, <2>2 DEF Reached
  <2>4. CASE c = n
    BY <2>3, <2>4
  <2>5. CASE c # n
    <3>1. n > 0 /\ c \in 0 .. (n - 1)
      BY <1>3, <2>5
    <3>2. g[c] = Next_(g, c)
      BY <1>4, <3>1 DEF Traversed
    <3> QED
      BY <2>3, <2>5, <3>2
  <2> QED
    BY <2>4, <2>5
<1>6. Traversed(f, lay, n, h)
  BY <1>5 DEF Traversed
<1> QED
  BY <1>3, <1>6

LEMMA TraversalSteps ==
  ASSUME NEW f, IsModel(f), NEW lay
  PROVE  \A c \in 0 .. Size(f) :
           Traversal(f, lay)[c] = Begun(f, lay, Reached(f, lay, Traversal(f, lay), c), c)
<1> DEFINE n == Size(f)
           g == CHOOSE h : Traversed(f, lay, n, h)
<1>1. n \in Nat
  BY NodesFinite
<1>2. Traversal(f, lay) = g
  BY DEF Traversal, Traversed
<1>3. Traversed(f, lay, n, g)
  BY <1>1, TraversalExists
<1> HIDE DEF g, n
<1>4. \A c \in 0 .. n : g[c] = Begun(f, lay, Reached(f, lay, g, c), c)
  BY <1>3 DEF Traversed
<1> QED
  BY <1>2, <1>4 DEF n

(* Visiting the head x moves the queue up by one, or down by one for the stack
   of the depth-first order, which its children enter at the head. *)
Moved(f, lay, q, k, r, up, h) ==
  /\ r \in Seq(Item(f))
  /\ up \in {0, 2}
  /\ Len(r) = (IF IsLeaf(At(f, q[1])) THEN Len(q) - 1 ELSE Len(q) + 1)
  /\ \A i \in 2 .. Len(q) : i - 1 + up \in 1 .. Len(r) /\ r[i - 1 + up] = q[i]
  /\ ~IsLeaf(At(f, q[1])) =>
       /\ h \in 1 .. Len(q)
       /\ IF lay = "depth_first" THEN h = 1 /\ up = 2 ELSE h = Len(q) /\ up = 0
       /\ r[h] = Visiting(q[1].tree, HotChild(At(f, q[1])), q[1].depth + 1, k)
       /\ r[h + 1] = Visiting(q[1].tree, DistantChild(At(f, q[1])), q[1].depth + 1, k)
  /\ \A j \in 1 .. Len(r) :
       \/ j + 1 - up \in 2 .. Len(q)
       \/ ~IsLeaf(At(f, q[1])) /\ j \in {h, h + 1}

LEMMA QueueMoves ==
  ASSUME NEW f, IsModel(f), NEW lay, NEW k \in Nat,
         NEW q \in Seq(Item(f)), q # <<>>, IsItem(f, q[1])
  PROVE  \E up, h : Moved(f, lay, q, k, QueueAfter(f, lay, q, k), up, h)
<1> DEFINE x == q[1]
           n == At(f, x)
           L == Len(q)
           hot == Visiting(x.tree, HotChild(n), x.depth + 1, k)
           distant == Visiting(x.tree, DistantChild(n), x.depth + 1, k)
           r == QueueAfter(f, lay, q, k)
<1>1. x = Head(q) /\ L \in Nat \ {0} /\ x \in Item(f) /\ x.id \in Ids(f[x.tree])
  BY DEF IsItem
<1>2. ~IsLeaf(n) => hot \in Item(f) /\ distant \in Item(f)
  <2>1. x.tree \in TreesOf(f) /\ x.depth + 1 \in Nat
    BY <1>1 DEF Item
  <2>2. ~IsLeaf(n) => HotChild(n) \in Nat /\ DistantChild(n) \in Nat
    BY <1>1, <2>1, NodeFacts, IdsFacts DEF At
  <2> HIDE DEF x, n
  <2> QED
    BY <2>1, <2>2 DEF Visiting, Item
<1> DEFINE t == Tail(q)
<1>3. t \in Seq(Item(f)) /\ Len(t) = L - 1 /\ \A i \in 1 .. (L - 1) : t[i] = q[i + 1]
  BY <1>1
<1>4. r = IF IsLeaf(n) THEN t
          ELSE IF lay = "depth_first" THEN <<hot, distant>> \o t ELSE t \o <<hot, distant>>
  BY <1>1 DEF QueueAfter, At
<1> HIDE DEF x, n, L, hot, distant, r, t
<1>5. CASE IsLeaf(n)
  <2>1. r = t
    BY <1>4, <1>5
  <2>2. Moved(f, lay, q, k, r, 0, 1)
    BY <1>1, <1>3, <1>5, <2>1 DEF Moved, x, n, L
  <2> QED
    BY <2>2 DEF r
<1>6. CASE ~IsLeaf(n) /\ lay = "depth_first"
  <2>1. r = <<hot, distant>> \o t
    BY <1>4, <1>6
  <2>2. r \in Seq(Item(f)) /\ Len(r) = L + 1 /\ r[1] = hot /\ r[2] = distant
        /\ \A i \in 1 .. (L - 1) : r[i + 2] = t[i]
    BY <1>1, <1>2, <1>3, <1>6, <2>1
  <2>3. \A i \in 2 .. L : i + 1 \in 1 .. Len(r) /\ r[i + 1] = q[i]
    <3>1. ASSUME NEW i \in 2 .. L PROVE i + 1 \in 1 .. Len(r) /\ r[i + 1] = q[i]
      <4>1. i - 1 \in 1 .. (L - 1) /\ (i - 1) + 2 = i + 1 /\ (i - 1) + 1 = i
        BY <1>1
      <4>2. r[i + 1] = t[i - 1] /\ t[i - 1] = q[i]
        BY <1>3, <2>2, <4>1
      <4> QED
        BY <1>1, <2>2, <4>1, <4>2
    <3> QED
      BY <3>1
  <2>4. Moved(f, lay, q, k, r, 2, 1)
    BY <1>1, <1>6, <2>2, <2>3 DEF Moved, x, n, L, hot, distant
  <2> QED
    BY <2>4 DEF r
<1>7. CASE ~IsLeaf(n) /\ lay # "depth_first"
  <2>1. r = t \o <<hot, distant>>
    BY <1>4, <1>7
  <2>2. r \in Seq(Item(f)) /\ Len(r) = L + 1 /\ r[L] = hot /\ r[L + 1] = distant
        /\ \A i \in 1 .. (L - 1) : r[i] = t[i]
    BY <1>1, <1>2, <1>3, <1>7, <2>1, SMTT(40)
  <2>3. \A i \in 2 .. L : i - 1 \in 1 .. Len(r) /\ r[i - 1] = q[i]
    <3>1. ASSUME NEW i \in 2 .. L PROVE i - 1 \in 1 .. Len(r) /\ r[i - 1] = q[i]
      <4>1. i - 1 \in 1 .. (L - 1) /\ (i - 1) + 1 = i
        BY <1>1
      <4> QED
        BY <1>1, <1>3, <2>2, <4>1
    <3> QED
      BY <3>1
  <2>4. Moved(f, lay, q, k, r, 0, L)
    BY <1>1, <1>7, <2>2, <2>3 DEF Moved, x, n, L, hot, distant
  <2> QED
    BY <2>4 DEF r
<1> QED
  BY <1>5, <1>6, <1>7

-----------------------------------------------------------------------------
(* A node is visited: r is the queue after that. *)

VisitStep(f, lay, v, k, q, s, r, up, h) ==
  /\ IsModel(f)
  /\ Explored(f, lay, v, k, q, s)
  /\ q # <<>> /\ v[k] = q[1]
  /\ Moved(f, lay, q, k, r, up, h)

LEMMA VisitFacts ==
  ASSUME NEW f, NEW lay, NEW v, NEW k, NEW q, NEW s, NEW r, NEW up, NEW h,
         VisitStep(f, lay, v, k, q, s, r, up, h)
  PROVE  /\ k \in Nat /\ Len(q) \in Nat \ {0} /\ Len(r) \in Nat /\ up \in {0, 2}
         /\ Placed(f, v, k, k, v[k]) /\ v[k].tree \in 1 .. s
         /\ v[k].tree \in TreesOf(f) /\ v[k].id \in Ids(f[v[k].tree])
         /\ \A j \in 1 .. Len(r) :
              \/ j + 1 - up \in 2 .. Len(q) /\ r[j] = q[j + 1 - up]
              \/ ~IsLeaf(At(f, v[k])) /\ j = h
              \/ ~IsLeaf(At(f, v[k])) /\ j = h + 1
         /\ ~IsLeaf(At(f, v[k])) =>
              /\ h \in 1 .. Len(q) /\ h + 1 \in 1 .. Len(r)
              /\ IsItem(f, r[h]) /\ IsItem(f, r[h + 1])
              /\ r[h].parent = k /\ r[h + 1].parent = k
              /\ r[h].tree = v[k].tree /\ r[h + 1].tree = v[k].tree
              /\ IsHot(f, v[k], r[h]) /\ IsDistant(f, v[k], r[h + 1])
              /\ ~IsDistant(f, v[k], r[h]) /\ ~IsHot(f, v[k], r[h + 1])
              /\ r[h].id # 0 /\ r[h + 1].id # 0
              /\ r[h].id \in Children(At(f, v[k])) /\ r[h + 1].id \in Children(At(f, v[k]))
<1> DEFINE x == v[k]
           n == At(f, x)
<1>1. /\ IsModel(f) /\ k \in Nat /\ q \in Seq(Item(f)) /\ q # <<>> /\ x = q[1]
      /\ Moved(f, lay, q, k, r, up, h)
      /\ \A j \in 1 .. Len(q) : Placed(f, v, k, k + j - 1, q[j]) /\ q[j].tree <= s
      /\ s \in Nat
  <2>1. Len(f) \in Nat
    BY ModelFacts DEF VisitStep
  <2> QED
    BY <2>1, SMTT(40) DEF VisitStep, Explored, ItemsPlaced
<1>2. Len(q) \in Nat \ {0} /\ 1 \in 1 .. Len(q)
  BY <1>1
<1>3. Len(r) \in Nat /\ up \in {0, 2} /\ r \in Seq(Item(f))
  BY <1>1 DEF Moved
<1>4. Placed(f, v, k, k, x) /\ x.tree <= s /\ IsItem(f, x)
  <2>1. k + 1 - 1 = k
    BY <1>1
  <2>2. Placed(f, v, k, k + 1 - 1, q[1]) /\ q[1].tree <= s
    BY <1>1, <1>2
  <2> QED
    BY <1>1, <2>1, <2>2 DEF Placed
<1>5. x \in Item(f) /\ x.tree \in TreesOf(f) /\ x.tree \in 1 .. s /\ x.id \in Ids(f[x.tree])
      /\ x.depth \in Nat
  BY <1>1, <1>4, ModelFacts DEF IsItem, Item
<1>6. ASSUME NEW j \in 1 .. Len(r)
      PROVE  \/ j + 1 - up \in 2 .. Len(q) /\ r[j] = q[j + 1 - up]
             \/ ~IsLeaf(n) /\ j = h
             \/ ~IsLeaf(n) /\ j = h + 1
  <2>1. \/ j + 1 - up \in 2 .. Len(q)
        \/ ~IsLeaf(n) /\ j \in {h, h + 1}
    BY <1>1 DEF Moved
  <2>2. CASE j + 1 - up \in 2 .. Len(q)
    <3>1. (j + 1 - up) - 1 + up = j
      BY <1>3
    <3>2. r[(j + 1 - up) - 1 + up] = q[j + 1 - up]
      BY <1>1, <2>2 DEF Moved
    <3> QED
      BY <2>2, <3>1, <3>2
  <2> QED
    BY <2>1, <2>2
<1>7. ASSUME ~IsLeaf(n)
      PROVE  /\ h \in 1 .. Len(q) /\ h + 1 \in 1 .. Len(r)
             /\ IsItem(f, r[h]) /\ IsItem(f, r[h + 1])
             /\ r[h].parent = k /\ r[h + 1].parent = k
             /\ r[h].tree = x.tree /\ r[h + 1].tree = x.tree
             /\ IsHot(f, x, r[h]) /\ IsDistant(f, x, r[h + 1])
             /\ ~IsDistant(f, x, r[h]) /\ ~IsHot(f, x, r[h + 1])
             /\ r[h].id # 0 /\ r[h + 1].id # 0
             /\ r[h].id \in Children(n) /\ r[h + 1].id \in Children(n)
  <2>1. /\ h \in 1 .. Len(q) /\ Len(r) = Len(q) + 1
        /\ r[h] = Visiting(x.tree, HotChild(n), x.depth + 1, k)
        /\ r[h + 1] = Visiting(x.tree, DistantChild(n), x.depth + 1, k)
    BY <1>1, <1>7 DEF Moved
  <2>2. h + 1 \in 1 .. Len(r) /\ h \in 1 .. Len(r)
    BY <1>2, <2>1
  <2>3. /\ Children(n) = {HotChild(n), DistantChild(n)}
        /\ HotChild(n) \in Ids(f[x.tree]) /\ DistantChild(n) \in Ids(f[x.tree])
        /\ HotChild(n) # 0 /\ DistantChild(n) # 0 /\ HotChild(n) # DistantChild(n)
    BY <1>1, <1>5, <1>7, NodeFacts DEF At
  <2>4. r[h] \in Item(f) /\ r[h + 1] \in Item(f)
    BY <1>3, <2>2
  <2> HIDE DEF x, n
  <2>5. /\ r[h].tree = x.tree /\ r[h].id = HotChild(n) /\ r[h].depth = x.depth + 1
        /\ r[h].parent = k
        /\ r[h + 1].tree = x.tree /\ r[h + 1].id = DistantChild(n)
        /\ r[h + 1].depth = x.depth + 1 /\ r[h + 1].parent = k
    BY <2>1 DEF Visiting
  <2>6. x.depth + 1 # 0
    BY <1>5
  <2>7. IsItem(f, r[h]) /\ IsItem(f, r[h + 1])
    BY <2>3, <2>4, <2>5, <2>6 DEF IsItem
  <2> QED
    BY <1>7, <2>1, <2>2, <2>3, <2>5, <2>7 DEF IsHot, IsDistant, n
<1> QED
  BY <1>1, <1>2, <1>3, <1>4, <1>5, <1>6, <1>7

(* The children of a node that is now visited are met for the first time. *)
LEMMA ChildrenNew ==
  ASSUME NEW f, NEW lay, NEW v, NEW k, NEW q, NEW s, NEW r, NEW up, NEW h,
         VisitStep(f, lay, v, k, q, s, r, up, h),
         NEW y, y.tree = v[k].tree, y.id \in Children(At(f, v[k]))
  PROVE  /\ \A c \in 0 .. k : ~Same(v[c], y)
         /\ \A i \in 1 .. Len(q) : ~Same(q[i], y)
<1>1. /\ IsModel(f) /\ k \in Nat /\ q # <<>> /\ v[k] = q[1]
      /\ \A c \in 0 .. (k - 1) : Placed(f, v, c, c, v[c])
      /\ \A j \in 1 .. Len(q) : Placed(f, v, k, k + j - 1, q[j])
      /\ Distinct(v, k, q)
  BY DEF VisitStep, Explored, ItemsPlaced
<1>2. /\ Len(q) \in Nat \ {0}
      /\ v[k].tree \in TreesOf(f) /\ v[k].id \in Ids(f[v[k].tree])
  BY VisitFacts
<1>3. y.id # 0
  BY <1>1, <1>2, AtFacts
<1>4. ASSUME NEW p \in 0 .. (k - 1), NEW x, x.tree = v[p].tree, x.id \in Children(At(f, v[p])),
             Same(x, y)
      PROVE  FALSE
  <2>1. v[p].tree = v[k].tree /\ y.id \in Children(f[v[k].tree][v[p].id])
        /\ y.id \in Children(f[v[k].tree][v[k].id])
    BY <1>4 DEF Same, At
  <2>2. v[p].id \in Ids(f[v[k].tree])
    BY <1>1, <2>1 DEF Placed, IsItem
  <2>3. v[p].id = v[k].id
    BY <1>1, <1>2, <2>1, <2>2, IdsFacts
  <2>4. Same(v[p], q[1]) /\ 1 \in 1 .. Len(q)
    BY <1>1, <1>2, <2>1, <2>3 DEF Same
  <2> QED
    BY <1>1, <2>4 DEF Distinct
<1>5. ASSUME NEW m \in Nat, m <= k, NEW c, NEW x, Placed(f, v, m, c, x), Same(x, y)
      PROVE  FALSE
  <2>1. x.id # 0
    BY <1>3, <1>5 DEF Same
  <2> DEFINE p == x.parent
  <2>2. p \in 0 .. (m - 1) /\ (IsHot(f, v[p], x) \/ IsDistant(f, v[p], x))
    BY <1>5, <2>1 DEF Placed
  <2> HIDE DEF p
  <2>3. p \in 0 .. (k - 1)
    BY <1>1, <1>5, <2>2
  <2>4. Placed(f, v, p, p, v[p])
    BY <1>1, <2>3
  <2>5. v[p].tree \in TreesOf(f) /\ v[p].id \in Ids(f[v[p].tree])
    BY <2>4 DEF Placed, IsItem, Item
  <2>6. x.tree = v[p].tree /\ x.id \in Children(At(f, v[p]))
    BY <1>1, <2>2, <2>5, AtFacts
  <2> QED
    BY <1>4, <1>5, <2>3, <2>6
<1>6. ASSUME NEW c \in 0 .. k PROVE ~Same(v[c], y)
  <2>1. CASE c = k
    BY <1>1, <1>5, <2>1, VisitFacts
  <2>2. CASE c # k
    <3>1. c \in 0 .. (k - 1) /\ c \in Nat /\ c <= k
      BY <1>1, <2>2
    <3> QED
      BY <1>1, <1>5, <3>1
  <2> QED
    BY <2>1, <2>2
<1>7. ASSUME NEW i \in 1 .. Len(q) PROVE ~Same(q[i], y)
  BY <1>1, <1>5
<1> QED
  BY <1>6, <1>7

(* A root waits behind nothing when trees come one after the other. *)
LEMMA RootAlone ==
  ASSUME NEW f, IsModel(f), NEW lay, NEW v, NEW k, NEW q, NEW s, Explored(f, lay, v, k, q, s),
         q # <<>>, lay # Layered,
         NEW i \in 2 .. Len(q)
  PROVE  q[i].id # 0
<1>1. SUFFICES ASSUME q[i].id = 0 PROVE FALSE
  OBVIOUS
<1>2. /\ k \in Nat /\ Len(q) \in Nat /\ 1 \in 1 .. Len(q) /\ i \in 1 .. Len(q) /\ i # 1
  BY DEF Explored, ItemsPlaced
<1>3. q[1].tree = s /\ q[i].tree = s /\ \A c \in 0 .. (k - 1) : v[c].tree < s
  BY <1>1, <1>2 DEF Explored, TreesInTurn
<1>4. Placed(f, v, k, k + 1 - 1, q[1])
  BY <1>2 DEF Explored, ItemsPlaced
<1>5. ~Same(q[1], q[i])
  BY <1>2 DEF Explored, Distinct
<1>6. q[1].id # 0
  BY <1>1, <1>3, <1>5 DEF Same
<1>7. q[1].parent \in 0 .. (k - 1) /\ v[q[1].parent].tree = q[1].tree
  BY <1>4, <1>6 DEF Placed, IsHot, IsDistant
<1>8. s \in Int
  <2>1. Len(f) \in Nat
    BY ModelFacts
  <2> QED
    BY <2>1 DEF Explored
<1> QED
  BY <1>3, <1>7, <1>8

LEMMA VisitPlaced ==
  ASSUME NEW f, NEW lay, NEW v, NEW k, NEW q, NEW s, NEW r, NEW up, NEW h,
         VisitStep(f, lay, v, k, q, s, r, up, h)
  PROVE  ItemsPlaced(f, v, k + 1, r, s)
<1>1. /\ IsModel(f) /\ Explored(f, lay, v, k, q, s) /\ k \in Nat /\ q # <<>> /\ v[k] = q[1]
      /\ \A c \in 0 .. (k - 1) : Placed(f, v, c, c, v[c]) /\ v[c].tree <= s
      /\ \A j \in 1 .. Len(q) : Placed(f, v, k, k + j - 1, q[j]) /\ q[j].tree <= s
      /\ r \in Seq(Item(f)) /\ Moved(f, lay, q, k, r, up, h)
  BY DEF VisitStep, Explored, ItemsPlaced, Moved
<1>2. Len(q) \in Nat \ {0} /\ Len(r) \in Nat /\ up \in {0, 2} /\ Placed(f, v, k, k, v[k])
      /\ v[k].tree \in 1 .. s
  BY VisitFacts
<1>3. ASSUME NEW c \in 0 .. ((k + 1) - 1) PROVE Placed(f, v, c, c, v[c]) /\ v[c].tree <= s
  <2>1. CASE c = k
    <3>1. v[k].tree <= s
      BY <1>2
    <3> QED
      BY <1>2, <2>1, <3>1
  <2>2. CASE c # k
    <3>1. c \in 0 .. (k - 1)
      BY <1>1, <2>2
    <3> QED
      BY <1>1, <3>1
  <2> QED
    BY <2>1, <2>2
<1>4. ASSUME NEW j \in 1 .. Len(r)
      PROVE  Placed(f, v, k + 1, (k + 1) + j - 1, r[j]) /\ r[j].tree <= s
  <2>1. CASE j + 1 - up \in 2 .. Len(q) /\ r[j] = q[j + 1 - up]
    <3> DEFINE i == j + 1 - up
    <3>1. i \in 2 .. Len(q) /\ r[j] = q[i] /\ i \in 1 .. Len(q)
      BY <2>1
    <3>2. Placed(f, v, k, k + i - 1, q[i]) /\ q[i].tree <= s
      BY <1>1, <3>1
    <3>3. CASE q[i].id # 0
      <4>1. q[i].parent \in 0 .. ((k + 1) - 1)
        BY <1>1, <3>2, <3>3 DEF Placed
      <4> QED
        BY <3>1, <3>2, <3>3, <4>1 DEF Placed
    <3>4. CASE q[i].id = 0
      <4>1. lay = Layered
        BY <1>1, <3>1, <3>4, RootAlone
      <4>2. up = 0
        <5>1. \/ j + 1 - up \in 2 .. Len(q)
              \/ ~IsLeaf(At(f, q[1])) /\ j \in {h, h + 1}
          BY <1>1 DEF Moved
        <5>2. ~IsLeaf(At(f, q[1])) => up = 0
          BY <1>1, <4>1 DEF Moved, Layered
        <5>3. IsLeaf(At(f, q[1])) => up = 0
          <6>1. ASSUME IsLeaf(At(f, q[1])), up = 2 PROVE FALSE
            <7>1. Len(r) = Len(q) - 1 /\ i - 1 + up \in 1 .. Len(r) /\ 2 \in 2 .. Len(q)
                  /\ Len(q) \in 2 .. Len(q)
              BY <1>1, <1>2, <3>1, <6>1 DEF Moved
            <7>2. Len(q) - 1 + up \in 1 .. Len(r)
              BY <1>1, <7>1 DEF Moved
            <7> QED
              BY <1>2, <6>1, <7>1, <7>2
          <6> QED
            BY <1>2, <6>1
        <5> QED
          BY <5>2, <5>3
      <4>3. k + i - 1 = (k + 1) + j - 1
        BY <1>1, <4>2
      <4> HIDE DEF i
      <4> QED
        BY <3>1, <3>2, <3>4, <4>3 DEF Placed
    <3> QED
      BY <3>3, <3>4
  <2>2. ASSUME ~IsLeaf(At(f, v[k])), j = h \/ j = h + 1
        PROVE  Placed(f, v, k + 1, (k + 1) + j - 1, r[j]) /\ r[j].tree <= s
    <3>1. /\ IsItem(f, r[j]) /\ r[j].parent = k /\ r[j].tree = v[k].tree /\ r[j].id # 0
          /\ IsHot(f, v[k], r[j]) \/ IsDistant(f, v[k], r[j])
      BY <2>2, VisitFacts
    <3>2. k \in 0 .. ((k + 1) - 1)
      BY <1>1
    <3> QED
      BY <1>2, <3>1, <3>2 DEF Placed
  <2> QED
    BY <2>1, <2>2, VisitFacts
<1> QED
  BY <1>1, <1>3, <1>4 DEF ItemsPlaced

LEMMA VisitChildren ==
  ASSUME NEW f, NEW lay, NEW v, NEW k, NEW q, NEW s, NEW r, NEW up, NEW h,
         VisitStep(f, lay, v, k, q, s, r, up, h), NEW i \in Children(At(f, v[k]))
  PROVE  i = r[h].id \/ i = r[h + 1].id
<1>1. ~IsLeaf(At(f, v[k]))
  BY DEF Children
<1>2. IsModel(f) /\ v[k] = q[1] /\ Moved(f, lay, q, k, r, up, h)
  BY DEF VisitStep
<1>3. r[h].id = HotChild(At(f, v[k])) /\ r[h + 1].id = DistantChild(At(f, v[k]))
  BY <1>1, <1>2 DEF Moved, Visiting
<1>4. v[k].tree \in TreesOf(f) /\ v[k].id \in Ids(f[v[k].tree])
  BY VisitFacts
<1>5. Children(At(f, v[k])) = {HotChild(At(f, v[k])), DistantChild(At(f, v[k]))}
  BY <1>1, <1>2, <1>4, AtFacts
<1> QED
  BY <1>3, <1>5

(* Where an item of the queue comes from *)
LEMMA VisitSources ==
  ASSUME NEW f, NEW lay, NEW v, NEW k, NEW q, NEW s, NEW r, NEW up, NEW h,
         VisitStep(f, lay, v, k, q, s, r, up, h), NEW j \in 1 .. Len(r)
  PROVE  \/ \E i \in 2 .. Len(q) : i \in 1 .. Len(q) /\ j = i - 1 + up /\ r[j] = q[i]
         \/ ~IsLeaf(At(f, v[k])) /\ (j = h \/ j = h + 1)
<1>1. CASE j + 1 - up \in 2 .. Len(q) /\ r[j] = q[j + 1 - up]
  <2> DEFINE i == j + 1 - up
  <2>1. up \in {0, 2} /\ Len(r) \in Nat /\ Len(q) \in Nat
    BY VisitFacts
  <2>2. i \in 2 .. Len(q) /\ i \in 1 .. Len(q) /\ j = i - 1 + up /\ r[j] = q[i]
    BY <1>1, <2>1
  <2> QED
    BY <2>2
<1> QED
  BY <1>1, VisitFacts

LEMMA VisitDistinct ==
  ASSUME NEW f, NEW lay, NEW v, NEW k, NEW q, NEW s, NEW r, NEW up, NEW h,
         VisitStep(f, lay, v, k, q, s, r, up, h)
  PROVE  Distinct(v, k + 1, r)
<1>1. /\ k \in Nat /\ q # <<>> /\ v[k] = q[1] /\ Distinct(v, k, q)
  BY DEF VisitStep, Explored
<1>2. Len(q) \in Nat \ {0} /\ Len(r) \in Nat /\ up \in {0, 2} /\ 1 \in 1 .. Len(q)
  BY VisitFacts
<1>3. ASSUME NEW j \in 1 .. Len(r), ~IsLeaf(At(f, v[k])), j = h \/ j = h + 1
      PROVE  /\ \A c \in 0 .. k : ~Same(v[c], r[j])
             /\ \A i \in 1 .. Len(q) : ~Same(q[i], r[j])
  <2>1. r[j].tree = v[k].tree /\ r[j].id \in Children(At(f, v[k]))
    BY <1>3, VisitFacts
  <2> QED
    BY <2>1, ChildrenNew
<1>4. ASSUME NEW c \in 0 .. ((k + 1) - 1), NEW d \in 0 .. ((k + 1) - 1), Same(v[c], v[d])
      PROVE  c = d
  <2>1. c \in 0 .. (k - 1) \/ c = k
    BY <1>1
  <2>2. d \in 0 .. (k - 1) \/ d = k
    BY <1>1
  <2>3. Same(v[d], v[c])
    BY <1>4 DEF Same
  <2> QED
    BY <1>1, <1>2, <1>4, <2>1, <2>2, <2>3 DEF Distinct
<1>5. ASSUME NEW i \in 1 .. Len(r), NEW j \in 1 .. Len(r), Same(r[i], r[j])
      PROVE  i = j
  <2>1. Same(r[j], r[i])
    BY <1>5 DEF Same
  <2>2. CASE ~IsLeaf(At(f, v[k])) /\ (i = h \/ i = h + 1)
    <3>1. ~ \E m \in 2 .. Len(q) : m \in 1 .. Len(q) /\ j = m - 1 + up /\ r[j] = q[m]
      BY <1>3, <2>1, <2>2
    <3>2. j = h \/ j = h + 1
      BY <3>1, VisitSources
    <3>3. r[i].id = r[j].id
      BY <1>5 DEF Same
    <3>4. r[h].id # r[h + 1].id
      BY <2>2, VisitFacts DEF IsHot, IsDistant
    <3> QED
      BY <2>2, <3>2, <3>3, <3>4
  <2>3. CASE \E m \in 2 .. Len(q) : m \in 1 .. Len(q) /\ i = m - 1 + up /\ r[i] = q[m]
    <3>1. PICK m \in 1 .. Len(q) : i = m - 1 + up /\ r[i] = q[m]
      BY <2>3
    <3>2. ~(~IsLeaf(At(f, v[k])) /\ (j = h \/ j = h + 1))
      BY <1>3, <1>5, <3>1
    <3>3. PICK n \in 1 .. Len(q) : j = n - 1 + up /\ r[j] = q[n]
      BY <3>2, VisitSources
    <3>4. m = n
      BY <1>1, <1>5, <3>1, <3>3 DEF Distinct
    <3> QED
      BY <3>1, <3>3, <3>4
  <2> QED
    BY <2>2, <2>3, VisitSources
<1>6. ASSUME NEW c \in 0 .. ((k + 1) - 1), NEW j \in 1 .. Len(r)
      PROVE  ~Same(v[c], r[j])
  <2>1. CASE ~IsLeaf(At(f, v[k])) /\ (j = h \/ j = h + 1)
    <3>1. c \in 0 .. k
      BY <1>1
    <3> QED
      BY <1>3, <2>1, <3>1
  <2>2. CASE \E i \in 2 .. Len(q) : i \in 1 .. Len(q) /\ j = i - 1 + up /\ r[j] = q[i]
    <3>1. PICK i \in 2 .. Len(q) : i \in 1 .. Len(q) /\ r[j] = q[i]
      BY <2>2
    <3>2. c \in 0 .. (k - 1) \/ c = k
      BY <1>1
    <3>3. i # 1
      BY <3>1
    <3> QED
      BY <1>1, <1>2, <3>1, <3>2, <3>3 DEF Distinct
  <2> QED
    BY <2>1, <2>2, VisitSources, SMTT(40)
<1> QED
  BY <1>4, <1>5, <1>6 DEF Distinct

LEMMA VisitFound ==
  ASSUME NEW f, NEW lay, NEW v, NEW k, NEW q, NEW s, NEW r, NEW up, NEW h,
         VisitStep(f, lay, v, k, q, s, r, up, h)
  PROVE  AllFound(f, v, k + 1, r, s)
<1>1. /\ k \in Nat /\ v[k] = q[1] /\ AllFound(f, v, k, q, s) /\ Moved(f, lay, q, k, r, up, h)
  BY DEF VisitStep, Explored
<1>2. Len(q) \in Nat \ {0} /\ Len(r) \in Nat /\ up \in {0, 2}
  BY VisitFacts
<1>3. ASSUME NEW t, NEW i, Found(v, k, q, t, i) PROVE Found(v, k + 1, r, t, i)
  <2>1. CASE \E c \in 0 .. (k - 1) : v[c].tree = t /\ v[c].id = i
    <3>1. PICK c \in 0 .. (k - 1) : v[c].tree = t /\ v[c].id = i
      BY <2>1
    <3>2. c \in 0 .. ((k + 1) - 1)
      BY <1>1
    <3> QED
      BY <3>1, <3>2 DEF Found
  <2>2. CASE \E j \in 1 .. Len(q) : q[j].tree = t /\ q[j].id = i
    <3>1. PICK j \in 1 .. Len(q) : q[j].tree = t /\ q[j].id = i
      BY <2>2
    <3>2. CASE j = 1
      <4>1. k \in 0 .. ((k + 1) - 1)
        BY <1>1
      <4> QED
        BY <1>1, <3>1, <3>2, <4>1 DEF Found
    <3>3. CASE j # 1
      <4>1. j \in 2 .. Len(q)
        BY <1>2, <3>3
      <4>2. j - 1 + up \in 1 .. Len(r) /\ r[j - 1 + up] = q[j]
        BY <1>1, <4>1 DEF Moved
      <4> QED
        BY <3>1, <4>2 DEF Found
    <3> QED
      BY <3>2, <3>3
  <2> QED
    BY <1>3, <2>1, <2>2 DEF Found
<1>4. \A t \in 1 .. s : Found(v, k + 1, r, t, 0)
  BY <1>1, <1>3 DEF AllFound
<1>5. ASSUME NEW c \in 0 .. ((k + 1) - 1), NEW i \in Children(At(f, v[c]))
      PROVE  Found(v, k + 1, r, v[c].tree, i)
  <2>1. CASE c = k
    <3>1. ~IsLeaf(At(f, v[k]))
      BY <1>5, <2>1 DEF Children
    <3>2. /\ h \in 1 .. Len(q) /\ h + 1 \in 1 .. Len(r)
          /\ r[h].tree = v[k].tree /\ r[h + 1].tree = v[k].tree
      BY <3>1, VisitFacts
    <3>3. h \in 1 .. Len(r)
      BY <1>2, <3>2
    <3>4. i = r[h].id \/ i = r[h + 1].id
      <4>1. i \in Children(At(f, v[k]))
        BY <1>5, <2>1
      <4> QED
        BY <4>1, VisitChildren
    <3> QED
      BY <2>1, <3>2, <3>3, <3>4 DEF Found
  <2>2. CASE c # k
    <3>1. c \in 0 .. (k - 1)
      BY <1>1, <2>2
    <3> QED
      BY <1>1, <1>3, <1>5, <3>1 DEF AllFound
  <2> QED
    BY <2>1, <2>2
<1> QED
  BY <1>4, <1>5 DEF AllFound

LEMMA VisitHotFirst ==
  ASSUME NEW f, NEW lay, NEW v, NEW k, NEW q, NEW s, NEW r, NEW up, NEW h,
         VisitStep(f, lay, v, k, q, s, r, up, h)
  PROVE  HotFirst(f, v, k + 1, r)
<1>1. HotFirst(f, v, k, q) /\ Moved(f, lay, q, k, r, up, h)
  BY DEF VisitStep, Explored
<1>2. Len(q) \in Nat \ {0} /\ Len(r) \in Nat /\ up \in {0, 2}
  BY VisitFacts
<1>3. ASSUME NEW j \in 1 .. Len(r), r[j].id # 0, IsHot(f, v[r[j].parent], r[j])
      PROVE  j < Len(r) /\ IsDistant(f, v[r[j].parent], r[j + 1])
  <2>1. CASE ~IsLeaf(At(f, v[k])) /\ (j = h \/ j = h + 1)
    <3>1. /\ r[h].parent = k /\ r[h + 1].parent = k /\ h \in 1 .. Len(q) /\ h + 1 \in 1 .. Len(r)
          /\ IsDistant(f, v[k], r[h + 1]) /\ ~IsHot(f, v[k], r[h + 1])
      BY <2>1, VisitFacts
    <3>2. j = h
      BY <1>3, <2>1, <3>1
    <3>3. h < Len(r)
      BY <1>2, <3>1
    <3> QED
      BY <3>1, <3>2, <3>3
  <2>2. CASE \E i \in 2 .. Len(q) : i \in 1 .. Len(q) /\ j = i - 1 + up /\ r[j] = q[i]
    <3>1. PICK i \in 2 .. Len(q) : i \in 1 .. Len(q) /\ j = i - 1 + up /\ r[j] = q[i]
      BY <2>2
    <3>2. i < Len(q) /\ IsDistant(f, v[q[i].parent], q[i + 1])
      BY <1>1, <1>3, <3>1 DEF HotFirst
    <3>3. i + 1 \in 2 .. Len(q) /\ (i + 1) - 1 + up = j + 1
      BY <1>2, <3>1, <3>2
    <3>4. j + 1 \in 1 .. Len(r) /\ r[j + 1] = q[i + 1]
      <4> DEFINE m == i + 1
      <4>1. m - 1 + up \in 1 .. Len(r) /\ r[m - 1 + up] = q[m]
        BY <1>1, <3>3 DEF Moved
      <4> QED
        BY <3>3, <4>1
    <3>5. j < Len(r)
      BY <1>2, <3>4
    <3> QED
      BY <3>1, <3>2, <3>4, <3>5
  <2> QED
    BY <2>1, <2>2, VisitSources
<1> QED
  BY <1>3 DEF HotFirst

LEMMA VisitDistantNext ==
  ASSUME NEW f, NEW lay, NEW v, NEW k, NEW q, NEW s, NEW r, NEW up, NEW h,
         VisitStep(f, lay, v, k, q, s, r, up, h)
  PROVE  DistantNext(f, lay, v, k + 1, r)
<1>1. SUFFICES ASSUME lay # "depth_first" PROVE DistantNext(f, lay, v, k + 1, r)
  BY DEF DistantNext
<1>2. /\ k \in Nat /\ q # <<>> /\ v[k] = q[1]
      /\ DistantNext(f, lay, v, k, q) /\ Moved(f, lay, q, k, r, up, h)
  BY DEF VisitStep, Explored
<1>3. Len(q) \in Nat \ {0} /\ Len(r) \in Nat /\ up \in {0, 2} /\ 1 \in 1 .. Len(q)
  BY VisitFacts
<1>4. ASSUME NEW c \in 0 .. ((k + 1) - 1), v[c].id # 0, IsDistant(f, v[v[c].parent], v[c])
      PROVE  c > 0 /\ IsHot(f, v[v[c].parent], v[c - 1])
  <2>1. CASE c = k
    BY <1>1, <1>2, <1>3, <1>4, <2>1 DEF DistantNext
  <2>2. CASE c # k
    <3>1. c \in 0 .. (k - 1)
      BY <1>2, <2>2
    <3> QED
      BY <1>1, <1>2, <1>4, <3>1 DEF DistantNext
  <2> QED
    BY <2>1, <2>2
<1>5. ASSUME NEW j \in 1 .. Len(r), r[j].id # 0, IsDistant(f, v[r[j].parent], r[j])
      PROVE  IF j = 1 THEN k + 1 > 0 /\ IsHot(f, v[r[j].parent], v[(k + 1) - 1])
             ELSE IsHot(f, v[r[j].parent], r[j - 1])
  <2>1. CASE ~IsLeaf(At(f, v[k])) /\ (j = h \/ j = h + 1)
    <3>1. /\ r[h].parent = k /\ r[h + 1].parent = k /\ h \in 1 .. Len(q) /\ h + 1 \in 1 .. Len(r)
          /\ IsHot(f, v[k], r[h]) /\ ~IsDistant(f, v[k], r[h])
      BY <2>1, VisitFacts
    <3>2. j = h + 1
      BY <1>5, <2>1, <3>1
    <3>3. j # 1 /\ j - 1 = h
      BY <1>3, <3>1, <3>2
    <3> QED
      BY <3>1, <3>2, <3>3
  <2>2. CASE \E i \in 2 .. Len(q) : i \in 1 .. Len(q) /\ j = i - 1 + up /\ r[j] = q[i]
    <3>1. PICK i \in 2 .. Len(q) : i \in 1 .. Len(q) /\ j = i - 1 + up /\ r[j] = q[i]
      BY <2>2
    <3>2. i # 1 /\ IsHot(f, v[q[i].parent], q[i - 1])
      BY <1>1, <1>2, <1>5, <3>1 DEF DistantNext
    <3>3. up = 0
      <4>1. ~IsLeaf(At(f, q[1])) => up = 0
        BY <1>1, <1>2 DEF Moved
      <4>2. ASSUME IsLeaf(At(f, q[1])), up = 2 PROVE FALSE
        <5>1. Len(r) = Len(q) - 1 /\ Len(q) \in 2 .. Len(q)
          BY <1>2, <1>3, <3>1, <4>2 DEF Moved
        <5>2. Len(q) - 1 + up \in 1 .. Len(r)
          BY <1>2, <5>1 DEF Moved
        <5> QED
          BY <1>3, <4>2, <5>1, <5>2
      <4> QED
        BY <1>3, <4>1, <4>2
    <3>4. j = i - 1 /\ k + 1 > 0 /\ (k + 1) - 1 = k
      BY <1>2, <1>3, <3>1, <3>3
    <3>5. CASE i = 2
      <4>1. j = 1 /\ q[i - 1] = v[k]
        BY <1>2, <3>4, <3>5
      <4> QED
        BY <3>1, <3>2, <3>4, <4>1
    <3>6. CASE i # 2
      <4> DEFINE m == i - 1
      <4>1. m \in 2 .. Len(q) /\ m - 1 + up = j - 1 /\ j # 1
        BY <1>3, <3>1, <3>3, <3>4, <3>6
      <4> HIDE DEF m
      <4>2. r[m - 1 + up] = q[m]
        BY <1>2, <4>1 DEF Moved
      <4>3. r[j - 1] = q[i - 1]
        BY <4>1, <4>2 DEF m
      <4> QED
        BY <3>1, <3>2, <4>1, <4>3
    <3> QED
      BY <3>5, <3>6
  <2> QED
    BY <2>1, <2>2, VisitSources
<1> QED
  BY <1>4, <1>5 DEF DistantNext

LEMMA VisitHotNext ==
  ASSUME NEW f, NEW lay, NEW v, NEW k, NEW q, NEW s, NEW r, NEW up, NEW h,
         VisitStep(f, lay, v, k, q, s, r, up, h)
  PROVE  HotNext(f, lay, v, k + 1, r)
<1>1. SUFFICES ASSUME lay = "depth_first", NEW c \in 0 .. ((k + 1) - 1), ~IsLeaf(At(f, v[c]))
               PROVE  IF c + 1 < k + 1 THEN IsHot(f, v[c], v[c + 1])
                      ELSE r # <<>> /\ IsHot(f, v[c], r[1])
  BY DEF HotNext
<1>2. /\ k \in Nat /\ q # <<>> /\ v[k] = q[1]
      /\ HotNext(f, lay, v, k, q) /\ Moved(f, lay, q, k, r, up, h)
  BY DEF VisitStep, Explored
<1>3. CASE c = k
  <2>1. h = 1
    BY <1>1, <1>2, <1>3 DEF Moved
  <2>2. h + 1 \in 1 .. Len(r) /\ IsHot(f, v[k], r[h])
    BY <1>1, <1>3, VisitFacts
  <2>3. r \in Seq(Item(f)) /\ r # <<>>
    BY <1>2, <2>1, <2>2 DEF Moved
  <2> QED
    BY <1>2, <1>3, <2>1, <2>2, <2>3
<1>4. CASE c # k
  <2>1. c \in 0 .. (k - 1) /\ c + 1 < k + 1
    BY <1>2, <1>4
  <2>2. IF c + 1 < k THEN IsHot(f, v[c], v[c + 1]) ELSE IsHot(f, v[c], q[1])
    BY <1>1, <1>2, <2>1 DEF HotNext
  <2>3. c + 1 < k \/ c + 1 = k
    BY <1>2, <2>1
  <2> QED
    BY <1>2, <2>1, <2>2, <2>3
<1> QED
  BY <1>3, <1>4

LEMMA VisitTrees ==
  ASSUME NEW f, NEW lay, NEW v, NEW k, NEW q, NEW s, NEW r, NEW up, NEW h,
         VisitStep(f, lay, v, k, q, s, r, up, h)
  PROVE  TreesInTurn(f, lay, v, k + 1, r, s)
<1>1. SUFFICES ASSUME lay # Layered PROVE TreesInTurn(f, lay, v, k + 1, r, s)
  BY DEF TreesInTurn
<1>2. /\ IsModel(f) /\ Explored(f, lay, v, k, q, s) /\ k \in Nat /\ q # <<>> /\ v[k] = q[1]
      /\ s \in Nat
      /\ \A c \in 0 .. (k - 1) : Placed(f, v, c, c, v[c]) /\ v[c].tree <= s
  <2>1. IsModel(f) /\ Explored(f, lay, v, k, q, s) /\ q # <<>> /\ v[k] = q[1]
    BY DEF VisitStep
  <2>2. Len(f) \in Nat
    BY <2>1, ModelFacts
  <2>3. s \in 0 .. Len(f) /\ k \in Nat /\ ItemsPlaced(f, v, k, q, s)
    BY <2>1 DEF Explored
  <2>4. \A c \in 0 .. (k - 1) : Placed(f, v, c, c, v[c]) /\ v[c].tree <= s
    BY <2>3 DEF ItemsPlaced
  <2> QED
    BY <2>1, <2>2, <2>3, <2>4
<1>3. /\ \A c, d \in 0 .. (k - 1) :
            c <= d => v[c].tree <= v[d].tree /\ (c < d /\ v[d].id = 0 => v[c].tree < v[d].tree)
      /\ \A j \in 1 .. Len(q) :
            q[j].tree = s /\ (q[j].id = 0 => \A c \in 0 .. (k - 1) : v[c].tree < s)
  BY <1>1, <1>2 DEF Explored, TreesInTurn
<1>4. Len(q) \in Nat \ {0} /\ Len(r) \in Nat /\ 1 \in 1 .. Len(q)
  BY VisitFacts
<1>5. v[k].tree = s /\ (v[k].id = 0 => \A c \in 0 .. (k - 1) : v[c].tree < s)
  BY <1>2, <1>3, <1>4
<1>6. ASSUME NEW c \in 0 .. ((k + 1) - 1), NEW d \in 0 .. ((k + 1) - 1), c <= d
      PROVE  v[c].tree <= v[d].tree /\ (c < d /\ v[d].id = 0 => v[c].tree < v[d].tree)
  <2>1. CASE d = k
    <3>1. c = k \/ c \in 0 .. (k - 1)
      BY <1>2
    <3> QED
      BY <1>2, <1>5, <2>1, <3>1
  <2>2. CASE d # k
    <3>1. d \in 0 .. (k - 1) /\ c \in 0 .. (k - 1)
      BY <1>2, <1>6, <2>2
    <3> QED
      BY <1>3, <1>6, <3>1
  <2> QED
    BY <2>1, <2>2
<1>7. ASSUME NEW j \in 1 .. Len(r)
      PROVE  r[j].tree = s /\ r[j].id # 0
  <2>1. CASE ~IsLeaf(At(f, v[k])) /\ (j = h \/ j = h + 1)
    <3>1. /\ r[h].tree = v[k].tree /\ r[h + 1].tree = v[k].tree
          /\ r[h].id # 0 /\ r[h + 1].id # 0
      BY <2>1, VisitFacts
    <3> QED
      BY <1>5, <2>1, <3>1
  <2>2. CASE \E i \in 2 .. Len(q) : i \in 1 .. Len(q) /\ j = i - 1 + up /\ r[j] = q[i]
    <3>1. PICK i \in 2 .. Len(q) : i \in 1 .. Len(q) /\ r[j] = q[i]
      BY <2>2
    <3>2. q[i].id # 0
      BY <1>1, <1>2, <3>1, RootAlone
    <3> QED
      BY <1>3, <3>1, <3>2
  <2> QED
    BY <2>1, <2>2, VisitSources
<1> QED
  BY <1>6, <1>7 DEF TreesInTurn

LEMMA VisitRoots ==
  ASSUME NEW f, NEW lay, NEW v, NEW k, NEW q, NEW s, NEW r, NEW up, NEW h,
         VisitStep(f, lay, v, k, q, s, r, up, h)
  PROVE  RootsInTurn(v, k + 1, r)
<1>1. /\ k \in Nat /\ q # <<>> /\ v[k] = q[1] /\ RootsInTurn(v, k, q)
      /\ Moved(f, lay, q, k, r, up, h)
  BY DEF VisitStep, Explored
<1>2. Len(q) \in Nat \ {0} /\ Len(r) \in Nat /\ 1 \in 1 .. Len(q) /\ up \in {0, 2}
  BY VisitFacts
<1>3. ASSUME NEW c \in 0 .. ((k + 1) - 1), v[c].id = 0, NEW t \in 1 .. (v[c].tree - 1)
      PROVE  \E b \in 0 .. (c - 1) : v[b].tree = t /\ v[b].id = 0
  <2>1. CASE c = k
    <3>1. \/ \E b \in 0 .. (k - 1) : v[b].tree = t /\ v[b].id = 0
          \/ \E i \in 1 .. (1 - 1) : q[i].tree = t /\ q[i].id = 0
      BY <1>1, <1>2, <1>3, <2>1 DEF RootsInTurn
    <3> QED
      BY <2>1, <3>1
  <2>2. CASE c # k
    <3>1. c \in 0 .. (k - 1)
      BY <1>1, <2>2
    <3> QED
      BY <1>1, <1>3, <3>1 DEF RootsInTurn
  <2> QED
    BY <2>1, <2>2
<1>4. ASSUME NEW j \in 1 .. Len(r), r[j].id = 0, NEW t \in 1 .. (r[j].tree - 1)
      PROVE  \/ \E c \in 0 .. ((k + 1) - 1) : v[c].tree = t /\ v[c].id = 0
             \/ \E i \in 1 .. (j - 1) : r[i].tree = t /\ r[i].id = 0
  <2>1. CASE ~IsLeaf(At(f, v[k])) /\ (j = h \/ j = h + 1)
    <3>1. r[h].id # 0 /\ r[h + 1].id # 0
      BY <2>1, VisitFacts
    <3> QED
      BY <1>4, <2>1, <3>1
  <2>2. CASE \E i \in 2 .. Len(q) : i \in 1 .. Len(q) /\ j = i - 1 + up /\ r[j] = q[i]
    <3>1. PICK i \in 2 .. Len(q) : i \in 1 .. Len(q) /\ j = i - 1 + up /\ r[j] = q[i]
      BY <2>2
    <3>2. \/ \E c \in 0 .. (k - 1) : v[c].tree = t /\ v[c].id = 0
          \/ \E m \in 1 .. (i - 1) : q[m].tree = t /\ q[m].id = 0
      BY <1>1, <1>4, <3>1 DEF RootsInTurn
    <3>3. CASE \E c \in 0 .. (k - 1) : v[c].tree = t /\ v[c].id = 0
      <4>1. PICK c \in 0 .. (k - 1) : v[c].tree = t /\ v[c].id = 0
        BY <3>3
      <4>2. c \in 0 .. ((k + 1) - 1)
        BY <1>1
      <4> QED
        BY <4>1, <4>2
    <3>4. CASE \E m \in 1 .. (i - 1) : q[m].tree = t /\ q[m].id = 0
      <4>1. PICK m \in 1 .. (i - 1) : q[m].tree = t /\ q[m].id = 0
        BY <3>4
      <4>2. CASE m = 1
        <5>1. k \in 0 .. ((k + 1) - 1)
          BY <1>1
        <5> QED
          BY <1>1, <4>1, <4>2, <5>1
      <4>3. CASE m # 1
        <5>1. m \in 2 .. Len(q) /\ m - 1 + up \in 1 .. (j - 1)
          BY <1>2, <3>1, <4>3
        <5>2. r[m - 1 + up] = q[m]
          BY <1>1, <5>1 DEF Moved
        <5> QED
          BY <4>1, <5>1, <5>2
      <4> QED
        BY <4>2, <4>3
    <3> QED
      BY <3>2, <3>3, <3>4
  <2> QED
    BY <2>1, <2>2, VisitSources
<1> QED
  BY <1>3, <1>4 DEF RootsInTurn

(* Visiting a node leaves what is known of the traversal true. *)
LEMMA VisitExplored ==
  ASSUME NEW f, IsModel(f), NEW lay, NEW v, NEW k, NEW q, NEW s, Explored(f, lay, v, k, q, s),
         q # <<>>, v[k] = q[1]
  PROVE  Explored(f, lay, v, k + 1, QueueAfter(f, lay, q, k), s)
<1> DEFINE r == QueueAfter(f, lay, q, k)
<1>1. k \in Nat /\ q \in Seq(Item(f)) /\ Placed(f, v, k, k + 1 - 1, q[1])
  BY DEF Explored, ItemsPlaced
<1>2. IsItem(f, q[1])
  BY <1>1 DEF Placed
<1>3. PICK up, h : Moved(f, lay, q, k, r, up, h)
  BY <1>1, <1>2, QueueMoves
<1> HIDE DEF r
<1>4. VisitStep(f, lay, v, k, q, s, r, up, h)
  BY <1>3 DEF VisitStep
<1>5. /\ k + 1 \in Nat
      /\ s \in 0 .. Len(f) /\ (lay = Layered => s \in {0, Len(f)})
  BY <1>1 DEF Explored
<1>6. ItemsPlaced(f, v, k + 1, r, s) /\ Distinct(v, k + 1, r)
  BY <1>4, VisitPlaced, VisitDistinct
<1>7. AllFound(f, v, k + 1, r, s) /\ HotFirst(f, v, k + 1, r)
  BY <1>4, VisitFound, VisitHotFirst
<1>8. DistantNext(f, lay, v, k + 1, r) /\ HotNext(f, lay, v, k + 1, r)
  BY <1>4, VisitDistantNext, VisitHotNext
<1>9. TreesInTurn(f, lay, v, k + 1, r, s) /\ RootsInTurn(v, k + 1, r)
  BY <1>4, VisitTrees, VisitRoots
<1>10. Explored(f, lay, v, k + 1, r, s)
  BY <1>5, <1>6, <1>7, <1>8, <1>9 DEF Explored
<1> QED
  BY <1>10 DEF r

-----------------------------------------------------------------------------
(* Trees are started: the queue is empty and q is the new one. *)

LEMMA StartExplored ==
  ASSUME NEW f, IsModel(f), NEW lay, NEW v, NEW k, NEW s, Explored(f, lay, v, k, <<>>, s),
         s < Len(f), NEW b, b = Begun(f, lay, [todo |-> <<>>, started |-> s], k)
  PROVE  Explored(f, lay, v, k, b.todo, b.started) /\ b.todo # <<>>
<1> DEFINE q == b.todo
           u == b.started
<1>1. /\ k \in Nat /\ Len(f) \in Nat /\ s \in Nat /\ TreesOf(f) = 1 .. Len(f)
      /\ lay = Layered => s = 0
  BY ModelFacts DEF Explored
<1>2. /\ \A c \in 0 .. (k - 1) : Placed(f, v, c, c, v[c]) /\ v[c].tree <= s /\ v[c].tree \in 1 .. s
      /\ \A c, d \in 0 .. (k - 1) : Same(v[c], v[d]) => c = d
      /\ \A t \in 1 .. s : Found(v, k, <<>>, t, 0)
  <2>1. ASSUME NEW c \in 0 .. (k - 1) PROVE v[c].tree \in 1 .. s
    <3>1. Placed(f, v, c, c, v[c]) /\ v[c].tree <= s
      BY <2>1 DEF Explored, ItemsPlaced
    <3>2. v[c].tree \in 1 .. Len(f)
      BY <1>1, <3>1 DEF Placed, IsItem, Item
    <3> QED
      BY <1>1, <3>1, <3>2
  <2> QED
    BY <2>1 DEF Explored, ItemsPlaced, Distinct, AllFound
<1>3. lay = Layered => k = 0
  BY <1>1, <1>2
<1>4. /\ u \in 0 .. Len(f) /\ (lay = Layered => u = Len(f)) /\ (lay # Layered => u = s + 1)
      /\ s <= u
      /\ q = IF lay = Layered THEN [t \in TreesOf(f) |-> Visiting(t, 0, 0, t - 1)]
             ELSE <<Visiting(u, 0, 0, k)>>
  BY <1>1 DEF Begun
<1> HIDE DEF q, u
<1>5. /\ Len(q) = IF lay = Layered THEN Len(f) ELSE 1
      /\ q \in Seq(Item(f)) /\ q # <<>>
      /\ \A j \in 1 .. Len(q) : /\ q[j].tree = (IF lay = Layered THEN j ELSE u)
                                /\ q[j].tree \in 1 .. Len(f)
                                /\ q[j].id = 0 /\ q[j].depth = 0
                                /\ q[j].parent = k + j - 1
                                /\ q[j] \in Item(f)
  <2>1. \A t \in 1 .. Len(f), p \in Nat :
          /\ Visiting(t, 0, 0, p) \in Item(f)
          /\ Visiting(t, 0, 0, p).tree = t /\ Visiting(t, 0, 0, p).id = 0
          /\ Visiting(t, 0, 0, p).depth = 0 /\ Visiting(t, 0, 0, p).parent = p
    BY <1>1 DEF Visiting, Item
  <2>2. CASE lay = Layered
    <3>1. q = [t \in 1 .. Len(f) |-> Visiting(t, 0, 0, t - 1)]
      BY <1>1, <1>4, <2>2
    <3>2. \A t \in 1 .. Len(f) : t - 1 \in Nat /\ t - 1 = k + t - 1
      BY <1>1, <1>3, <2>2
    <3>3. \A t \in 1 .. Len(f) : q[t] = Visiting(t, 0, 0, t - 1) /\ q[t] \in Item(f)
      BY <2>1, <3>1, <3>2
    <3>4. q \in Seq(Item(f)) /\ Len(q) = Len(f)
      BY <1>1, <3>1, <3>3
    <3>5. 1 \in 1 .. Len(f)
      BY <1>1
    <3> QED
      BY <2>1, <2>2, <3>2, <3>3, <3>4, <3>5
  <2>3. CASE lay # Layered
    <3>1. q = <<Visiting(u, 0, 0, k)>> /\ u \in 1 .. Len(f)
      BY <1>1, <1>4, <2>3
    <3>2. Visiting(u, 0, 0, k) \in Item(f)
      BY <1>1, <2>1, <3>1
    <3>3. q \in Seq(Item(f)) /\ Len(q) = 1 /\ q[1] = Visiting(u, 0, 0, k) /\ q # <<>>
      BY <3>1, <3>2
    <3>4. k = k + 1 - 1
      BY <1>1
    <3> QED
      BY <1>1, <2>1, <2>3, <3>1, <3>2, <3>3, <3>4
  <2> QED
    BY <2>2, <2>3
<1>6. Len(q) \in Nat
  BY <1>5
<1>7. \A c \in 0 .. (k - 1), j \in 1 .. Len(q) : v[c].tree < q[j].tree
  <2>1. ASSUME NEW c \in 0 .. (k - 1), NEW j \in 1 .. Len(q) PROVE v[c].tree < q[j].tree
    <3>1. lay # Layered
      BY <1>3, <2>1
    <3> QED
      BY <1>1, <1>2, <1>4, <1>5, <2>1, <3>1
  <2> QED
    BY <2>1
<1>8. ItemsPlaced(f, v, k, q, u)
  <2>1. ASSUME NEW j \in 1 .. Len(q) PROVE Placed(f, v, k, k + j - 1, q[j]) /\ q[j].tree <= u
    <3>1. q[j].tree \in TreesOf(f) /\ 0 \in Ids(f[q[j].tree])
      BY <1>1, <1>5, IdsFacts
    <3>2. q[j].tree <= u
      <4>1. lay = Layered => u = Len(f) /\ q[j].tree <= Len(f)
        BY <1>1, <1>4, <1>5
      <4>2. lay # Layered => q[j].tree = u /\ u \in Int
        BY <1>1, <1>4, <1>5
      <4> QED
        BY <4>1, <4>2
    <3> QED
      BY <1>5, <3>1, <3>2 DEF Placed, IsItem
  <2>2. ASSUME NEW c \in 0 .. (k - 1) PROVE v[c].tree <= u
    BY <1>1, <1>2, <1>4, <2>2
  <2> QED
    BY <1>2, <1>5, <2>1, <2>2 DEF ItemsPlaced
<1>9. Distinct(v, k, q)
  <2>1. ASSUME NEW i \in 1 .. Len(q), NEW j \in 1 .. Len(q), Same(q[i], q[j]) PROVE i = j
    BY <1>5, <2>1 DEF Same
  <2>2. ASSUME NEW c \in 0 .. (k - 1), NEW j \in 1 .. Len(q) PROVE ~Same(v[c], q[j])
    <3>1. v[c].tree < q[j].tree /\ v[c].tree \in Int /\ q[j].tree \in Int
      BY <1>2, <1>5, <1>7, <2>2
    <3> QED
      BY <3>1 DEF Same
  <2> QED
    BY <1>2, <2>1, <2>2 DEF Distinct
<1>10. AllFound(f, v, k, q, u)
  <2>1. ASSUME NEW t, NEW i, Found(v, k, <<>>, t, i) PROVE Found(v, k, q, t, i)
    BY <2>1 DEF Found
  <2>2. ASSUME NEW t \in 1 .. u PROVE Found(v, k, q, t, 0)
    <3>1. CASE t \in 1 .. s
      BY <1>2, <2>1, <3>1
    <3>2. CASE t \notin 1 .. s
      <4> DEFINE j == IF lay = Layered THEN t ELSE 1
      <4>1. j \in 1 .. Len(q) /\ q[j].tree = t /\ q[j].id = 0
        <5>1. CASE lay = Layered
          <6>1. j = t /\ t \in 1 .. Len(q)
            BY <1>4, <1>5, <2>2, <5>1
          <6> QED
            BY <1>5, <5>1, <6>1
        <5>2. CASE lay # Layered
          <6>1. j = 1 /\ 1 \in 1 .. Len(q) /\ t = u
            BY <1>1, <1>4, <1>5, <2>2, <3>2, <5>2
          <6> QED
            BY <1>5, <5>2, <6>1
        <5> QED
          BY <5>1, <5>2
      <4> QED
        BY <4>1 DEF Found
    <3> QED
      BY <3>1, <3>2
  <2>3. \A c \in 0 .. (k - 1) : \A i \in Children(At(f, v[c])) : Found(v, k, <<>>, v[c].tree, i)
    BY DEF Explored, AllFound
  <2> QED
    BY <2>1, <2>2, <2>3 DEF AllFound
<1>11. HotFirst(f, v, k, q)
  BY <1>5 DEF HotFirst
<1>12. DistantNext(f, lay, v, k, q)
  <2>1. DistantNext(f, lay, v, k, <<>>)
    BY DEF Explored
  <2> QED
    BY <1>5, <2>1 DEF DistantNext
<1>13. HotNext(f, lay, v, k, q)
  <2>1. HotNext(f, lay, v, k, <<>>)
    BY DEF Explored
  <2> QED
    BY <1>1, <2>1 DEF HotNext
<1>14. TreesInTurn(f, lay, v, k, q, u)
  <2>1. SUFFICES ASSUME lay # Layered PROVE TreesInTurn(f, lay, v, k, q, u)
    BY DEF TreesInTurn
  <2>2. \A c, d \in 0 .. (k - 1) :
         c <= d => v[c].tree <= v[d].tree /\ (c < d /\ v[d].id = 0 => v[c].tree < v[d].tree)
    BY <2>1 DEF Explored, TreesInTurn
  <2>3. \A j \in 1 .. Len(q) : q[j].tree = u /\ \A c \in 0 .. (k - 1) : v[c].tree < u
    BY <1>5, <1>7, <2>1
  <2> QED
    BY <2>2, <2>3 DEF TreesInTurn
<1>15. RootsInTurn(v, k, q)
  <2>1. RootsInTurn(v, k, <<>>)
    BY DEF Explored
  <2>2. ASSUME NEW j \in 1 .. Len(q), NEW t \in 1 .. (q[j].tree - 1)
        PROVE  \/ \E c \in 0 .. (k - 1) : v[c].tree = t /\ v[c].id = 0
               \/ \E i \in 1 .. (j - 1) : q[i].tree = t /\ q[i].id = 0
    <3>1. CASE lay = Layered
      <4>1. t \in 1 .. (j - 1) /\ t \in 1 .. Len(q)
        BY <1>5, <1>6, <2>2, <3>1
      <4> QED
        BY <1>5, <3>1, <4>1
    <3>2. CASE lay # Layered
      <4>1. t \in 1 .. s
        BY <1>1, <1>4, <1>5, <2>2, <3>2
      <4> QED
        BY <1>2, <4>1 DEF Found
    <3> QED
      BY <3>1, <3>2
  <2> QED
    BY <2>1, <2>2 DEF RootsInTurn
<1>16. Explored(f, lay, v, k, q, u)
  BY <1>1, <1>4, <1>8, <1>9, <1>10, <1>11, <1>12, <1>13, <1>14, <1>15 DEF Explored
<1> QED
  BY <1>5, <1>16 DEF q, u

-----------------------------------------------------------------------------
(* The first and the last of a traversal *)

LEMMA NothingExplored ==
  ASSUME NEW f, IsModel(f), NEW lay, NEW v
  PROVE  Explored(f, lay, v, 0, <<>>, 0)
<1>1. Len(f) \in Nat
  BY ModelFacts
<1>2. ItemsPlaced(f, v, 0, <<>>, 0) /\ Distinct(v, 0, <<>>) /\ AllFound(f, v, 0, <<>>, 0)
  BY DEF ItemsPlaced, Distinct, AllFound
<1>3. HotFirst(f, v, 0, <<>>) /\ DistantNext(f, lay, v, 0, <<>>) /\ HotNext(f, lay, v, 0, <<>>)
  BY DEF HotFirst, DistantNext, HotNext
<1>4. TreesInTurn(f, lay, v, 0, <<>>, 0) /\ RootsInTurn(v, 0, <<>>)
  BY DEF TreesInTurn, RootsInTurn
<1> QED
  BY <1>1, <1>2, <1>3, <1>4 DEF Explored

LEMMA VisitedNodes ==
  ASSUME NEW f, IsModel(f), NEW lay, NEW v, NEW k, NEW q, NEW s, Explored(f, lay, v, k, q, s)
  PROVE  /\ \A c \in 0 .. (k - 1) : /\ v[c].tree \in TreesOf(f) /\ v[c].id \in Ids(f[v[c].tree])
                                    /\ <<v[c].tree, v[c].id>> \in NodesOf(f)
         /\ \A j \in 1 .. Len(q) : /\ q[j].tree \in TreesOf(f) /\ q[j].id \in Ids(f[q[j].tree])
                                   /\ <<q[j].tree, q[j].id>> \in NodesOf(f)
<1>1. /\ \A c \in 0 .. (k - 1) : Placed(f, v, c, c, v[c])
      /\ \A j \in 1 .. Len(q) : Placed(f, v, k, k + j - 1, q[j])
  BY DEF Explored, ItemsPlaced
<1>2. ASSUME NEW m, NEW c, NEW x, Placed(f, v, m, c, x)
      PROVE  x.tree \in TreesOf(f) /\ x.id \in Ids(f[x.tree]) /\ <<x.tree, x.id>> \in NodesOf(f)
  BY <1>2, NodesOfMember DEF Placed, IsItem, Item
<1> QED
  BY <1>1, <1>2

(* Visits and the nodes waiting are never more than there are nodes. *)
LEMMA Room ==
  ASSUME NEW f, IsModel(f), NEW lay, NEW v, NEW k, NEW q, NEW s, Explored(f, lay, v, k, q, s),
         q # <<>>
  PROVE  k < Size(f)
<1>1. k \in Nat /\ q \in Seq(Item(f)) /\ Distinct(v, k, q)
  BY DEF Explored, ItemsPlaced
<1>2. 1 \in 1 .. Len(q)
  BY <1>1
<1> DEFINE x(c) == IF c < k THEN v[c] ELSE q[1]
           g == [c \in 0 .. k |-> <<x(c).tree, x(c).id>>]
<1>3. \A c \in 0 .. k : <<x(c).tree, x(c).id>> \in NodesOf(f)
  <2>1. ASSUME NEW c \in 0 .. k PROVE <<x(c).tree, x(c).id>> \in NodesOf(f)
    <3>1. CASE c < k
      <4>1. c \in 0 .. (k - 1)
        BY <1>1, <3>1
      <4> QED
        BY <3>1, <4>1, VisitedNodes
    <3>2. CASE ~(c < k)
      BY <1>2, <3>2, VisitedNodes
    <3> QED
      BY <3>1, <3>2
  <2> QED
    BY <2>1
<1>4. \A c, d \in 0 .. k : Same(x(c), x(d)) => c = d
  <2>1. ASSUME NEW c \in 0 .. k, NEW d \in 0 .. k, Same(x(c), x(d)) PROVE c = d
    <3>1. (c < k /\ c \in 0 .. (k - 1)) \/ c = k
      BY <1>1
    <3>2. (d < k /\ d \in 0 .. (k - 1)) \/ d = k
      BY <1>1
    <3>3. Same(x(d), x(c))
      BY <2>1 DEF Same
    <3>4. CASE c < k /\ d < k
      BY <1>1, <2>1, <3>1, <3>2, <3>4 DEF Distinct
    <3>5. CASE c < k /\ ~(d < k)
      BY <1>1, <1>2, <2>1, <3>1, <3>5 DEF Distinct
    <3>6. CASE ~(c < k) /\ d < k
      BY <1>1, <1>2, <3>2, <3>3, <3>6 DEF Distinct
    <3> QED
      BY <1>1, <3>1, <3>2, <3>4, <3>5, <3>6
  <2> QED
    BY <2>1
<1> HIDE DEF x
<1>5. g \in Injection(0 .. k, NodesOf(f))
  <2>1. g \in [0 .. k -> NodesOf(f)]
    BY <1>3
  <2>2. \A c, d \in 0 .. k : g[c] = g[d] => c = d
    BY <1>4 DEF Same
  <2> HIDE DEF g
  <2> QED
    BY <2>1, <2>2 DEF Injection, IsInjective
<1> HIDE DEF g
<1>6. IsFiniteSet(NodesOf(f)) /\ Size(f) \in Nat
  BY NodesFinite
<1>7. Cardinality(0 .. k) <= Cardinality(NodesOf(f))
  BY <1>5, <1>6, FS_Injection
<1>8. Cardinality(0 .. k) = k + 1
  <2>1. 0 \in Int /\ k \in Int /\ 0 <= k
    BY <1>1
  <2>2. Cardinality(0 .. k) = k - 0 + 1
    BY <2>1, FS_Interval
  <2> QED
    BY <1>1, <2>2
<1> QED
  BY <1>1, <1>6, <1>7, <1>8 DEF Size

(* When the queue is empty and all trees have been started, every node has
   been visited. *)
LEMMA AllVisited ==
  ASSUME NEW f, IsModel(f), NEW lay, NEW v, NEW k, Explored(f, lay, v, k, <<>>, Len(f))
  PROVE  /\ k = Size(f)
         /\ \A t \in TreesOf(f) : \A i \in Ids(f[t]) :
              \E c \in 0 .. (k - 1) : v[c].tree = t /\ v[c].id = i
<1>1. k \in Nat /\ Distinct(v, k, <<>>) /\ AllFound(f, v, k, <<>>, Len(f))
  BY DEF Explored
<1>2. ASSUME NEW t \in TreesOf(f)
      PROVE  \A i \in Ids(f[t]) : \E c \in 0 .. (k - 1) : v[c].tree = t /\ v[c].id = i
  <2> DEFINE S == {i \in Ids(f[t]) : \E c \in 0 .. (k - 1) : v[c].tree = t /\ v[c].id = i}
  <2>1. 0 \in S
    <3>1. Found(v, k, <<>>, t, 0)
      BY <1>1, ModelFacts DEF AllFound
    <3>2. 0 \in Ids(f[t])
      BY IdsFacts
    <3> QED
      BY <3>1, <3>2 DEF Found
  <2>2. ASSUME NEW i \in S, NEW j \in Children(f[t][i]) PROVE j \in S
    <3>1. PICK c \in 0 .. (k - 1) : v[c].tree = t /\ v[c].id = i
      BY <2>2
    <3>2. At(f, v[c]) = f[t][i]
      BY <3>1 DEF At
    <3>3. Found(v, k, <<>>, t, j)
      BY <1>1, <2>2, <3>1, <3>2 DEF AllFound
    <3>4. i \in Ids(f[t])
      BY <2>2
    <3>5. j \in Ids(f[t])
      BY <2>2, <3>1, <3>2, <3>4, AtFacts
    <3> QED
      BY <3>3, <3>5 DEF Found
  <2>3. S \in SUBSET Ids(f[t])
    OBVIOUS
  <2> HIDE DEF S
  <2>4. S = Ids(f[t])
    BY <2>1, <2>2, <2>3, IdsFacts
  <2> QED
    BY <2>4 DEF S
<1> DEFINE g == [c \in 0 .. (k - 1) |-> <<v[c].tree, v[c].id>>]
<1>3. g \in Injection(0 .. (k - 1), NodesOf(f)) /\ g \in Surjection(0 .. (k - 1), NodesOf(f))
  <2>1. g \in [0 .. (k - 1) -> NodesOf(f)]
    BY VisitedNodes
  <2>2. \A c, d \in 0 .. (k - 1) : g[c] = g[d] => c = d
    BY <1>1 DEF Distinct, Same
  <2>3. \A u \in NodesOf(f) : \E c \in 0 .. (k - 1) : g[c] = u
    <3>1. ASSUME NEW u \in NodesOf(f) PROVE \E c \in 0 .. (k - 1) : g[c] = u
      <4>1. PICK t \in TreesOf(f) : \E i \in Ids(f[t]) : u = <<t, i>>
        BY DEF NodesOf
      <4>2. PICK i \in Ids(f[t]) : u = <<t, i>>
        BY <4>1
      <4>3. PICK c \in 0 .. (k - 1) : v[c].tree = t /\ v[c].id = i
        BY <1>2, <4>2
      <4> QED
        BY <4>2, <4>3
    <3> QED
      BY <3>1
  <2> HIDE DEF g
  <2> QED
    BY <2>1, <2>2, <2>3 DEF Injection, IsInjective, Surjection
<1> HIDE DEF g
<1>4. Cardinality(0 .. (k - 1)) = Cardinality(NodesOf(f))
  BY <1>3, NodesFinite, FS_Injection
<1>5. Cardinality(0 .. (k - 1)) = k
  <2>1. 0 \in Int /\ k - 1 \in Int
    BY <1>1
  <2>2. Cardinality(0 .. (k - 1)) = IF 0 > k - 1 THEN 0 ELSE (k - 1) - 0 + 1
    BY <2>1, FS_Interval
  <2> QED
    BY <1>1, <2>2
<1> QED
  BY <1>2, <1>4, <1>5 DEF Size

-----------------------------------------------------------------------------
(* Offsets *)

(* Writing the offset of the parent of a node that is visited makes a mistake
   good: of two children it is the distant one that is visited last. *)
LEMMA OffsetWritten ==
  ASSUME NEW f, IsModel(f), NEW lay, NEW v, NEW k, NEW q, NEW s, Explored(f, lay, v, k, q, s),
         q # <<>>, v[k] = q[1], NEW n \in Nat, k < n,
         NEW offs \in [0 .. (n - 1) -> Nat], OffsetsFound(f, v, k, offs),
         NEW new, new = [offs EXCEPT ![v[k].parent] = k - v[k].parent]
  PROVE  new \in [0 .. (n - 1) -> Nat] /\ OffsetsFound(f, v, k + 1, new)
<1> DEFINE p == v[k].parent
<1>1. /\ k \in Nat /\ q \in Seq(Item(f)) /\ HotFirst(f, v, k, q) /\ Distinct(v, k, q)
      /\ \A c \in 0 .. (k - 1) : Placed(f, v, c, c, v[c])
      /\ \A j \in 1 .. Len(q) : Placed(f, v, k, k + j - 1, q[j])
  BY DEF Explored, ItemsPlaced
<1>2. Len(q) \in Nat /\ 1 \in 1 .. Len(q) /\ k + 1 - 1 = k
  BY <1>1
<1>3. Placed(f, v, k, k, v[k])
  BY <1>1, <1>2
<1>4. p \in 0 .. k /\ (v[k].id # 0 => p \in 0 .. (k - 1)) /\ (v[k].id = 0 => p = k)
  BY <1>1, <1>3 DEF Placed
<1>5. p \in 0 .. (n - 1) /\ k - p \in Nat
  BY <1>1, <1>4, SMTT(40)
<1> HIDE DEF p
<1>6. /\ new \in [0 .. (n - 1) -> Nat] /\ new[p] = k - p
      /\ \A m \in 0 .. (n - 1) : m # p => new[m] = offs[m]
  BY <1>5 DEF p
<1>7. ASSUME NEW d \in 0 .. ((k + 1) - 1), v[d].id # 0, IsDistant(f, v[v[d].parent], v[d])
      PROVE  new[v[d].parent] = d - v[d].parent
  <2>1. CASE d = k
    BY <1>6, <2>1 DEF p
  <2>2. CASE d # k
    <3>1. d \in 0 .. (k - 1)
      BY <1>1, <2>2
    <3> DEFINE u == v[d].parent
    <3>2. u \in 0 .. (d - 1)
      BY <1>1, <1>7, <3>1 DEF Placed
    <3>3. offs[u] = d - u
      BY <1>7, <3>1 DEF OffsetsFound
    <3>4. ASSUME u = p PROVE FALSE
      <4>1. p \in 0 .. (k - 1) /\ v[k].id # 0
        BY <1>1, <1>4, <3>1, <3>2, <3>4
      <4>2. IsHot(f, v[p], v[k]) \/ IsDistant(f, v[p], v[k])
        BY <1>3, <4>1 DEF Placed, p
      <4>3. CASE IsDistant(f, v[p], v[k])
        <5>1. Same(v[d], q[1])
          BY <1>7, <3>4, <4>3 DEF Same, IsDistant
        <5> QED
          BY <1>1, <1>2, <3>1, <5>1 DEF Distinct
      <4>4. CASE IsHot(f, v[p], v[k])
        <5>1. 1 < Len(q) /\ IsDistant(f, v[p], q[2])
          BY <1>1, <1>2, <4>1, <4>4 DEF HotFirst, p
        <5>2. 2 \in 1 .. Len(q)
          BY <1>2, <5>1
        <5>3. Same(v[d], q[2])
          BY <1>7, <3>4, <5>1 DEF Same, IsDistant
        <5> QED
          BY <1>1, <3>1, <5>2, <5>3 DEF Distinct
      <4> QED
        BY <4>2, <4>3, <4>4
    <3>5. u \in 0 .. (n - 1) /\ u # p
      BY <1>1, <3>1, <3>2, <3>4, SMTT(40)
    <3> QED
      BY <1>6, <3>3, <3>5
  <2> QED
    BY <2>1, <2>2
<1> QED
  BY <1>6, <1>7 DEF OffsetsFound

(* What the whole traversal says of the children of a node: the distant child
   is at its offset, the hot one where the layout has it. *)
LEMMA ChildPlaces ==
  ASSUME NEW f, IsModel(f), NEW lay, NEW v, NEW n, Explored(f, lay, v, n, <<>>, Len(f)),
         NEW offs, OffsetsFound(f, v, n, offs),
         NEW c \in 0 .. (n - 1), ~IsLeaf(At(f, v[c]))
  PROVE  /\ offs[c] \in Nat \ {0} /\ c + offs[c] \in 0 .. (n - 1)
         /\ IsDistant(f, v[c], v[c + offs[c]])
         /\ lay = "depth_first" => c + 1 \in 0 .. (n - 1) /\ IsHot(f, v[c], v[c + 1])
         /\ lay # "depth_first" =>
              c + offs[c] - 1 \in 0 .. (n - 1) /\ IsHot(f, v[c], v[c + offs[c] - 1])
<1>1. /\ n \in Nat /\ \A d \in 0 .. (n - 1) : Placed(f, v, d, d, v[d])
      /\ Distinct(v, n, <<>>)
      /\ HotNext(f, lay, v, n, <<>>) /\ DistantNext(f, lay, v, n, <<>>)
  BY DEF Explored, ItemsPlaced
<1> DEFINE x == v[c]
<1>2. x.tree \in TreesOf(f) /\ x.id \in Ids(f[x.tree])
  BY VisitedNodes
<1>3. /\ DistantChild(At(f, x)) \in Ids(f[x.tree]) /\ DistantChild(At(f, x)) # 0
  BY <1>2, AtFacts
<1>4. PICK d \in 0 .. (n - 1) : v[d].tree = x.tree /\ v[d].id = DistantChild(At(f, x))
  <2>1. \A t \in TreesOf(f) : \A i \in Ids(f[t]) :
          \E d \in 0 .. (n - 1) : v[d].tree = t /\ v[d].id = i
    BY AllVisited
  <2> DEFINE t == x.tree
             i == DistantChild(At(f, x))
  <2>2. t \in TreesOf(f) /\ i \in Ids(f[t])
    BY <1>2, <1>3
  <2> HIDE DEF t, i
  <2>3. \E d \in 0 .. (n - 1) : v[d].tree = t /\ v[d].id = i
    BY <2>1, <2>2
  <2> QED
    BY <2>3 DEF t, i
<1> DEFINE p == v[d].parent
<1>5. IsDistant(f, x, v[d]) /\ v[d].id # 0
  BY <1>3, <1>4 DEF IsDistant
<1>6. p \in 0 .. (d - 1) /\ (IsHot(f, v[p], v[d]) \/ IsDistant(f, v[p], v[d]))
  BY <1>1, <1>5 DEF Placed
<1> HIDE DEF p
<1>7. p \in 0 .. (n - 1) /\ d \in Nat
  BY <1>1, <1>6
<1>8. v[p].tree \in TreesOf(f) /\ v[p].id \in Ids(f[v[p].tree])
  BY <1>7, VisitedNodes
<1>9. p = c
  <2>1. v[p].tree = x.tree /\ v[d].id \in Children(At(f, v[p]))
    BY <1>4, <1>6, <1>8, AtFacts
  <2>2. v[d].id \in Children(At(f, x))
    BY <1>2, <1>5, AtFacts
  <2>3. v[p].id = x.id
    <3>1. At(f, v[p]) = f[x.tree][v[p].id] /\ At(f, x) = f[x.tree][x.id]
      BY <2>1 DEF At
    <3>2. v[p].id \in Ids(f[x.tree])
      BY <1>8, <2>1
    <3>3. \A i, j \in Ids(f[x.tree]) : i # j => Children(f[x.tree][i]) \cap Children(f[x.tree][j]) = {}
      BY <1>2, IdsFacts
    <3> HIDE DEF x
    <3> QED
      BY <1>2, <2>1, <2>2, <3>1, <3>2, <3>3
  <2> QED
    BY <1>1, <1>7, <2>1, <2>3 DEF Distinct, Same
<1>10. offs[c] = d - c
  BY <1>5, <1>9 DEF OffsetsFound, p
<1>11. c \in Nat /\ c < d /\ c + offs[c] = d /\ offs[c] \in Nat \ {0}
  BY <1>1, <1>6, <1>7, <1>9, <1>10
<1>12. ASSUME lay = "depth_first" PROVE c + 1 \in 0 .. (n - 1) /\ IsHot(f, v[c], v[c + 1])
  <2>1. c + 1 < n
    BY <1>1, <1>12 DEF HotNext
  <2> QED
    BY <1>1, <1>11, <1>12, <2>1 DEF HotNext
<1>13. ASSUME lay # "depth_first" PROVE d - 1 \in 0 .. (n - 1) /\ IsHot(f, v[c], v[d - 1])
  BY <1>1, <1>5, <1>7, <1>9, <1>11, <1>13 DEF DistantNext, p
<1> QED
  BY <1>5, <1>11, <1>12, <1>13

-----------------------------------------------------------------------------
(* The model without degenerate trees *)

LEMMA RegrownIsTree ==
  ASSUME NEW leaf \in Node, IsLeaf(leaf), leaf.cats = {}
  PROVE  /\ IsTree(Regrown(leaf)) /\ Ids(Regrown(leaf)) = 0 .. 2
         /\ Regrown(leaf)[0].kind = "kLE" /\ Regrown(leaf)[0].out = leaf.out
         /\ Regrown(leaf)[0].cats = {}
         /\ Regrown(leaf)[1] = leaf /\ Regrown(leaf)[2] = leaf
<1> DEFINE g == Regrown(leaf)
           root == [leaf EXCEPT !.kind = "kLE", !.left = 1, !.right = 2,
                                !.default_left = TRUE, !.threshold = 0]
<1>1. /\ Ids(g) = 0 .. 2 /\ g[0] = root /\ g[1] = leaf /\ g[2] = leaf
  BY DEF Regrown, Ids
<1>2. /\ root \in Node /\ root.kind = "kLE" /\ root.left = 1 /\ root.right = 2
      /\ root.out = leaf.out /\ root.cats = {}
  <2> DEFINE l1 == [leaf EXCEPT !.kind = "kLE"]
             l2 == [l1 EXCEPT !.left = 1]
             l3 == [l2 EXCEPT !.right = 2]
             l4 == [l3 EXCEPT !.default_left = TRUE]
             l5 == [l4 EXCEPT !.threshold = 0]
  <2>1. root = l5
    OBVIOUS
  <2>2. l1 \in Node /\ l1.kind = "kLE" /\ l1.out = leaf.out /\ l1.cats = {}
    BY DEF Node, Operators
  <2> HIDE DEF l1
  <2>3. l2 \in Node /\ l2.kind = "kLE" /\ l2.left = 1 /\ l2.out = leaf.out /\ l2.cats = {}
    BY <2>2 DEF Node
  <2> HIDE DEF l2
  <2>4. /\ l3 \in Node /\ l3.kind = "kLE" /\ l3.left = 1 /\ l3.right = 2
        /\ l3.out = leaf.out /\ l3.cats = {}
    BY <2>3 DEF Node
  <2> HIDE DEF l3
  <2>5. /\ l4 \in Node /\ l4.kind = "kLE" /\ l4.left = 1 /\ l4.right = 2
        /\ l4.out = leaf.out /\ l4.cats = {}
    BY <2>4 DEF Node
  <2> HIDE DEF l4
  <2>6. /\ l5 \in Node /\ l5.kind = "kLE" /\ l5.left = 1 /\ l5.right = 2
        /\ l5.out = leaf.out /\ l5.cats = {}
    <3>1. l5 \in Node
      BY <2>5, SMTT(90) DEF Node
    <3>2. /\ l5.kind = l4.kind /\ l5.left = l4.left /\ l5.right = l4.right
          /\ l5.out = l4.out /\ l5.cats = l4.cats
      BY <2>5 DEF Node
    <3> QED
      BY <2>5, <3>1, <3>2
  <2> HIDE DEF root, l5
  <2> QED
    BY <2>1, <2>6
<1> HIDE DEF g, root
<1>3. Children(root) = {1, 2} /\ ~IsLeaf(root) /\ Children(leaf) = {}
  BY <1>2 DEF Children, IsLeaf
<1>4. IsFiniteSet(0 .. 2) /\ Cardinality(0 .. 2) = 3
  <2>1. 0 \in Int /\ 2 \in Int /\ ~(0 > 2) /\ 2 - 0 + 1 = 3
    OBVIOUS
  <2> QED
    BY <2>1, FS_Interval
<1>5. \A i \in 0 .. 2 : i = 0 \/ i = 1 \/ i = 2
  OBVIOUS
<1>6. \A S \in SUBSET (0 .. 2) :
        0 \in S /\ (\A i \in S : Children(g[i]) \subseteq S) => S = 0 .. 2
  <2>1. ASSUME NEW S \in SUBSET (0 .. 2), 0 \in S, \A i \in S : Children(g[i]) \subseteq S
        PROVE  S = 0 .. 2
    <3>1. 1 \in S /\ 2 \in S
      BY <1>1, <1>3, <2>1
    <3> QED
      BY <1>5, <2>1, <3>1
  <2> QED
    BY <2>1
<1>7. \A i \in 0 .. 2 : /\ g[i] \in Node
                        /\ Children(g[i]) \subseteq 0 .. 2 \ {0}
                        /\ IsLeaf(g[i]) \/ g[i].left # g[i].right
                        /\ g[i].kind # "category" => g[i].cats = {}
  BY <1>1, <1>2, <1>3, <1>5
<1>8. \A i, j \in 0 .. 2 : i # j => Children(g[i]) \cap Children(g[j]) = {}
  BY <1>1, <1>3, <1>5
<1>9. IsTree(g)
  <2>1. Ids(g) = 0 .. (Cardinality(Ids(g)) - 1) /\ IsFiniteSet(Ids(g)) /\ 0 \in Ids(g)
    BY <1>1, <1>4
  <2> QED
    BY <1>1, <1>6, <1>7, <1>8, <2>1 DEF IsTree
<1> QED
  BY <1>1, <1>2, <1>9 DEF g

(* Degenerate trees are converted to trees, whose roots are not leaves. *)
LEMMA Converted ==
  ASSUME NEW m, IsModel(m)
  PROVE  /\ IsModel(ConvertDegenerate(m)) /\ Len(ConvertDegenerate(m)) = Len(m)
         /\ TreesOf(ConvertDegenerate(m)) = TreesOf(m)
         /\ \A t \in TreesOf(m) :
              /\ IsLeaf(m[t][0]) =>
                   /\ ConvertDegenerate(m)[t] = Regrown(m[t][0])
                   /\ m[t][0] \in Node /\ m[t][0].cats = {}
              /\ ~IsLeaf(m[t][0]) => ConvertDegenerate(m)[t] = m[t]
              /\ ~IsLeaf(ConvertDegenerate(m)[t][0])
<1> DEFINE c == ConvertDegenerate(m)
<1>1. Len(m) \in Nat /\ TreesOf(m) = 1 .. Len(m) /\ \A t \in TreesOf(m) : IsTree(m[t])
  BY ModelFacts
<1>2. \A t \in TreesOf(m) : c[t] = IF IsLeaf(m[t][0]) THEN Regrown(m[t][0]) ELSE m[t]
  BY DEF ConvertDegenerate
<1>3. ASSUME NEW t \in TreesOf(m)
      PROVE  /\ IsTree(c[t])
             /\ IsLeaf(m[t][0]) => m[t][0] \in Node /\ m[t][0].cats = {}
             /\ ~IsLeaf(c[t][0])
  <2>1. IsTree(m[t]) /\ 0 \in Ids(m[t])
    BY <1>1 DEF IsTree
  <2>2. m[t][0] \in Node /\ (m[t][0].kind # "category" => m[t][0].cats = {})
    BY <2>1 DEF IsTree
  <2>3. IsLeaf(m[t][0]) => m[t][0].cats = {}
    BY <2>2 DEF IsLeaf
  <2>4. CASE IsLeaf(m[t][0])
    <3> DEFINE leaf == m[t][0]
    <3>1. leaf \in Node /\ IsLeaf(leaf) /\ leaf.cats = {} /\ c[t] = Regrown(leaf)
      BY <1>2, <2>2, <2>3, <2>4
    <3> HIDE DEF leaf, c
    <3>2. IsTree(c[t]) /\ c[t][0].kind = "kLE"
      BY <3>1, RegrownIsTree
    <3>3. ~IsLeaf(c[t][0])
      BY <3>2 DEF IsLeaf
    <3> QED
      BY <2>2, <2>3, <3>2, <3>3
  <2>5. CASE ~IsLeaf(m[t][0])
    BY <1>2, <2>1, <2>5
  <2> QED
    BY <2>4, <2>5
<1>4. /\ c \in Seq({c[t] : t \in TreesOf(c)}) /\ Len(c) = Len(m) /\ TreesOf(c) = TreesOf(m)
  <2>1. c = [t \in 1 .. Len(m) |-> IF IsLeaf(m[t][0]) THEN Regrown(m[t][0]) ELSE m[t]]
    BY <1>1 DEF ConvertDegenerate
  <2> HIDE DEF c
  <2>2. DOMAIN c = 1 .. Len(m)
    BY <2>1
  <2>3. Len(c) = Len(m)
    BY <1>1, <2>1, <2>2
  <2>4. TreesOf(c) = 1 .. Len(m)
    BY <2>3 DEF TreesOf
  <2> DEFINE S == {c[t] : t \in 1 .. Len(m)}
  <2>5. \A t \in 1 .. Len(m) : c[t] \in S
    OBVIOUS
  <2> HIDE DEF S
  <2>6. c \in [1 .. Len(m) -> S]
    BY <2>1, <2>5
  <2>7. c \in Seq(S)
    BY <1>1, <2>6
  <2> QED
    BY <1>1, <2>3, <2>4, <2>7 DEF S
<1> HIDE DEF c
<1>5. IsModel(c)
  BY <1>3, <1>4 DEF IsModel
<1> QED
  BY <1>2, <1>3, <1>4, <1>5 DEF c

-----------------------------------------------------------------------------
(* Both traversals follow Traversal *)

LEMMA BegunEmpty ==
  ASSUME NEW f, IsModel(f), NEW lay, NEW s, NEW c, s.started \in Nat
  PROVE  /\ Begun(f, lay, s, c).todo = <<>> => Begun(f, lay, s, c) = s
         /\ s.todo # <<>> => Begun(f, lay, s, c) = s
         /\ ~(s.started < Len(f)) => Begun(f, lay, s, c) = s
<1>1. Len(f) \in Nat /\ TreesOf(f) = 1 .. Len(f)
  BY ModelFacts
<1>2. ASSUME s.todo = <<>>, s.started < Len(f) PROVE Begun(f, lay, s, c).todo # <<>>
  <2>1. CASE lay = Layered
    <3> DEFINE q == [t \in 1 .. Len(f) |-> Visiting(t, 0, 0, t - 1)]
    <3>1. Begun(f, lay, s, c).todo = q
      BY <1>1, <1>2, <2>1 DEF Begun
    <3>2. DOMAIN q = 1 .. Len(f) /\ 1 \in 1 .. Len(f)
      BY <1>1, <1>2
    <3> HIDE DEF q
    <3>3. q # <<>>
      BY <3>2
    <3> QED
      BY <3>1, <3>3
  <2>2. CASE lay # Layered
    BY <1>2, <2>2 DEF Begun
  <2> QED
    BY <2>1, <2>2
<1>3. ~(s.todo = <<>> /\ s.started < Len(f)) => Begun(f, lay, s, c) = s
  BY DEF Begun
<1> QED
  BY <1>2, <1>3

LEMMA ReachedStarted ==
  ASSUME NEW f, NEW lay, NEW n \in Nat, Busy(f, lay, n), NEW k \in 0 .. n
  PROVE  Reached(f, lay, Traversal(f, lay), k).started \in Nat
<1>1. k # 0 => k - 1 \in 0 .. (n - 1)
  OBVIOUS
<1> QED
  BY <1>1 DEF Reached, Busy

(* The queue of a traversal is that of Traversal, *)
LEMMA FollowsHead ==
  ASSUME NEW f, IsModel(f), NEW lay, NEW k, NEW q, NEW s, NEW n \in Nat,
         Follows(f, lay, k, q, s), Busy(f, lay, n), k <= n, q # <<>>
  PROVE  /\ Traversal(f, lay)[k] = [todo |-> q, started |-> s]
         /\ k < Size(f) => Order(f, lay)[k] = Head(q)
<1> DEFINE before == Reached(f, lay, Traversal(f, lay), k)
           here == [todo |-> q, started |-> s]
<1>1. k \in 0 .. Size(f) /\ here \in {before, Begun(f, lay, before, k)} /\ Size(f) \in Nat
  BY NodesFinite DEF Follows
<1>2. before.started \in Nat
  BY <1>1, ReachedStarted
<1>3. here.todo = q
  OBVIOUS
<1>4. Traversal(f, lay)[k] = Begun(f, lay, before, k)
  BY <1>1, TraversalSteps
<1> HIDE DEF before, here
<1>5. here = Begun(f, lay, before, k)
  BY <1>1, <1>2, <1>3, BegunEmpty
<1>6. Traversal(f, lay)[k] = here
  BY <1>4, <1>5
<1>7. k < Size(f) => Order(f, lay)[k] = Head(Traversal(f, lay)[k].todo)
  BY <1>1 DEF Order
<1> QED
  BY <1>3, <1>6, <1>7 DEF here

(* after a visit, *)
LEMMA FollowsVisit ==
  ASSUME NEW f, IsModel(f), NEW lay, NEW k, NEW q, NEW s, NEW n \in Nat,
         Follows(f, lay, k, q, s), Busy(f, lay, n), k <= n, q # <<>>, k < Size(f)
  PROVE  Follows(f, lay, k + 1, QueueAfter(f, lay, q, k), s)
<1>1. k \in Nat /\ k + 1 \in 0 .. Size(f) /\ (k + 1) - 1 = k /\ k + 1 # 0
  BY NodesFinite DEF Follows
<1>2. Traversal(f, lay)[k] = [todo |-> q, started |-> s]
  BY FollowsHead
<1>3. Reached(f, lay, Traversal(f, lay), k + 1)
        = [todo |-> QueueAfter(f, lay, q, k), started |-> s]
  BY <1>1, <1>2 DEF Reached
<1> QED
  BY <1>1, <1>3 DEF Follows

(* when there is nothing to visit, *)
LEMMA FollowsEmpty ==
  ASSUME NEW f, IsModel(f), NEW lay, NEW k, NEW s, NEW n \in Nat,
         Follows(f, lay, k, <<>>, s), Busy(f, lay, n), k <= n
  PROVE  Reached(f, lay, Traversal(f, lay), k) = [todo |-> <<>>, started |-> s] /\ s \in Nat
<1> DEFINE before == Reached(f, lay, Traversal(f, lay), k)
           here == [todo |-> <<>>, started |-> s]
<1>1. k \in 0 .. Size(f) /\ here \in {before, Begun(f, lay, before, k)} /\ Size(f) \in Nat
  BY NodesFinite DEF Follows
<1>2. before.started \in Nat
  BY <1>1, ReachedStarted
<1>3. here.todo = <<>> /\ here.started = s
  OBVIOUS
<1> HIDE DEF before, here
<1>4. here = before
  BY <1>1, <1>2, <1>3, BegunEmpty
<1> QED
  BY <1>2, <1>3, <1>4 DEF before, here

(* and when trees are started. *)
LEMMA FollowsStart ==
  ASSUME NEW f, IsModel(f), NEW lay, NEW k, NEW s, NEW n \in Nat,
         Follows(f, lay, k, <<>>, s), Busy(f, lay, n), k <= n,
         NEW b, b = Begun(f, lay, [todo |-> <<>>, started |-> s], k)
  PROVE  Follows(f, lay, k, b.todo, b.started)
<1>1. Reached(f, lay, Traversal(f, lay), k) = [todo |-> <<>>, started |-> s]
  BY FollowsEmpty
<1>2. b = [todo |-> b.todo, started |-> b.started]
  BY DEF Begun
<1> QED
  BY <1>1, <1>2 DEF Follows

(* A traversal that follows one that reached every node ends where it did. *)
LEMMA FollowsWhole ==
  ASSUME NEW f, IsModel(f), NEW lay, NEW offs, WholePass(f, lay, offs),
         NEW k, NEW q, NEW s, Follows(f, lay, k, q, s)
  PROVE  /\ q # <<>> => k < Size(f) /\ Order(f, lay)[k] = Head(q)
         /\ q = <<>> /\ s = Len(f) => k = Size(f)
<1> DEFINE n == Size(f)
           before == Reached(f, lay, Traversal(f, lay), k)
<1>1. n \in Nat /\ Busy(f, lay, n) /\ k \in 0 .. n
  BY NodesFinite DEF WholePass, FirstPass, Follows
<1>2. k <= n /\ (k < n => k \in 0 .. (n - 1)) /\ Len(f) \in Nat
  BY <1>1, ModelFacts
<1>3. ASSUME q # <<>>, k = n PROVE FALSE
  <2>1. before = [todo |-> <<>>, started |-> Len(f)]
    BY <1>3 DEF WholePass
  <2>2. before.started \in Nat /\ ~(before.started < Len(f)) /\ before.todo = <<>>
    BY <1>2, <2>1
  <2>3. [todo |-> q, started |-> s] \in {before, Begun(f, lay, before, k)}
    BY DEF Follows
  <2> HIDE DEF before
  <2>4. Begun(f, lay, before, k) = before
    BY <2>2, BegunEmpty
  <2>5. [todo |-> q, started |-> s].todo = <<>>
    BY <2>2, <2>3, <2>4
  <2> QED
    BY <1>3, <2>5
<1>4. ASSUME q = <<>>, s = Len(f), k < n PROVE FALSE
  <2>1. before = [todo |-> <<>>, started |-> Len(f)]
    BY <1>1, <1>2, <1>4, FollowsEmpty
  <2>2. before.started \in Nat /\ ~(before.started < Len(f)) /\ before.todo = <<>>
    BY <1>2, <2>1
  <2>3. Traversal(f, lay)[k] = Begun(f, lay, before, k)
    BY <1>1, TraversalSteps
  <2> HIDE DEF before
  <2>4. Begun(f, lay, before, k) = before
    BY <2>2, BegunEmpty
  <2> QED
    BY <1>1, <1>2, <1>4, <2>2, <2>3, <2>4 DEF Busy
<1>5. q # <<>> => k < n
  BY <1>1, <1>3
<1> HIDE DEF before
<1>6. ASSUME q # <<>> PROVE Order(f, lay)[k] = Head(q)
  <2>1. Busy(f, lay, Size(f)) /\ Size(f) \in Nat /\ k <= Size(f) /\ k < Size(f)
    BY <1>1, <1>2, <1>5, <1>6
  <2>2. Traversal(f, lay)[k] = [todo |-> q, started |-> s]
    BY <1>6, <2>1, FollowsHead
  <2>3. Traversal(f, lay)[k].todo = q /\ k \in 0 .. Size(f)
    BY <1>1, <2>2
  <2> QED
    BY <2>3 DEF Order
<1> QED
  BY <1>1, <1>2, <1>4, <1>5, <1>6

-----------------------------------------------------------------------------
(* The invariant of both traversals holds. *)

LEMMA ForestFacts ==
  ASSUME ArgumentsInv
  PROVE  /\ IsModel(source)
         /\ phase # "called" => IsModel(forest) /\ Size(forest) \in Nat /\ Len(forest) \in Nat
  BY ModelsAssumption, Converted, NodesFinite, ModelFacts DEF ArgumentsInv

LEMMA ArgumentsInit ==
  ASSUME Init
  PROVE  ArgumentsInv /\ TraversalInv
  BY DEF Init, ArgumentsInv, TraversalInv

LEMMA ArgumentsStep ==
  ASSUME ArgumentsInv, [Next]_vars
  PROVE  ArgumentsInv'
<1> USE DEF ArgumentsInv
<1>1. CASE Convert
  BY <1>1 DEF Convert, passVars, builtVars
<1>2. CASE StartTrees
  BY <1>2 DEF StartTrees, builtVars
<1>3. CASE VisitOffset
  BY <1>3 DEF VisitOffset, builtVars
<1>4. CASE OffsetsDone
  BY <1>4 DEF OffsetsDone, builtVars
<1>5. CASE BuildLeaf
  BY <1>5 DEF BuildLeaf
<1>6. CASE BuildNumeric
  BY <1>6 DEF BuildNumeric
<1>7. CASE BuildCategory
  BY <1>7 DEF BuildCategory
<1>8. CASE Fail
  BY <1>8 DEF Fail, passVars, builtVars
<1>9. CASE Finish
  BY <1>9 DEF Finish, passVars, builtVars
<1>10. CASE UNCHANGED importVars
  BY <1>10 DEF importVars, passVars, builtVars
<1> QED
  BY <1>1, <1>2, <1>3, <1>4, <1>5, <1>6, <1>7, <1>8, <1>9, <1>10
  DEF Next, Importing, Ask, Descend, Return, Over, vars

LEMMA TraversalConvert ==
  ASSUME ArgumentsInv, Convert
  PROVE  TraversalInv'
<1> DEFINE f == ConvertDegenerate(source)
<1>1. /\ forest' = f /\ phase' = "offsets" /\ todo' = <<>> /\ started' = 0 /\ cur' = 0
      /\ offsets' = [i \in 0 .. (Size(f) - 1) |-> 0]
  BY DEF ArgumentsInv, Convert, passVars, Size
<1>2. IsModel(f)
  BY ForestFacts, Converted
<1> HIDE DEF f
<1>3. Size(f) \in Nat
  BY <1>2, NodesFinite
<1>4. Follows(f, layout', 0, <<>>, 0)
  BY <1>3 DEF Follows, Reached
<1>5. Explored(f, layout', Order(f, layout'), 0, <<>>, 0)
  BY <1>2, NothingExplored
<1>6. FirstPass(f, layout', 0, <<>>, 0, offsets')
  BY <1>5 DEF FirstPass, OffsetsFound, Busy
<1> QED
  BY <1>1, <1>4, <1>6 DEF TraversalInv

LEMMA TraversalStart ==
  ASSUME ArgumentsInv, TraversalInv, StartTrees
  PROVE  TraversalInv'
<1> DEFINE b == Begun(forest, layout, [todo |-> <<>>, started |-> started], cur)
<1>1. /\ phase \in {"offsets", "build"} /\ todo = <<>> /\ started < Len(forest)
      /\ forest' = forest /\ layout' = layout /\ phase' = phase /\ cur' = cur /\ offsets' = offsets
  BY DEF StartTrees
<1>2. todo' = b.todo /\ started' = b.started
  BY DEF StartTrees, Begun, Layered
<1>3. IsModel(forest) /\ Size(forest) \in Nat /\ Len(forest) \in Nat
  BY <1>1, ForestFacts
<1> HIDE DEF b
<1>4. Follows(forest, layout, cur, <<>>, started) /\ offsets \in [0 .. (Size(forest) - 1) -> Nat]
  BY <1>1 DEF TraversalInv
<1>5. cur \in 0 .. Size(forest)
  BY <1>4 DEF Follows
<1>6. CASE phase = "offsets"
  <2>1. FirstPass(forest, layout, cur, <<>>, started, offsets)
    BY <1>1, <1>6 DEF TraversalInv
  <2>2. Explored(forest, layout, Order(forest, layout), cur, b.todo, b.started)
    BY <1>1, <1>3, <2>1, StartExplored DEF FirstPass, b
  <2>3. Follows(forest, layout, cur, b.todo, b.started)
    <3>1. Busy(forest, layout, cur) /\ cur \in Nat /\ cur <= cur
      BY <1>3, <1>5, <2>1 DEF FirstPass
    <3> QED
      BY <1>3, <1>4, <3>1, FollowsStart DEF b
  <2>4. FirstPass(forest, layout, cur, b.todo, b.started, offsets)
    BY <2>1, <2>2 DEF FirstPass
  <2> QED
    BY <1>1, <1>2, <1>4, <1>6, <2>3, <2>4 DEF TraversalInv
<1>7. CASE phase = "build"
  <2>1. WholePass(forest, layout, offsets)
    BY <1>7 DEF TraversalInv
  <2>2. Follows(forest, layout, cur, b.todo, b.started)
    <3>1. Busy(forest, layout, Size(forest)) /\ cur <= Size(forest)
      BY <1>3, <1>5, <2>1 DEF FirstPass, WholePass
    <3> QED
      BY <1>3, <1>4, <3>1, FollowsStart DEF b
  <2> QED
    BY <1>1, <1>2, <1>4, <1>7, <2>1, <2>2 DEF TraversalInv
<1> QED
  BY <1>1, <1>6, <1>7

LEMMA VisitedIsQueueAfter ==
  ToVisit = QueueAfter(forest, layout, todo, cur)
  BY DEF ToVisit, QueueAfter, NodeAt

LEMMA TraversalVisitOffset ==
  ASSUME ArgumentsInv, TraversalInv, VisitOffset
  PROVE  TraversalInv'
<1> DEFINE v == Order(forest, layout)
           q == QueueAfter(forest, layout, todo, cur)
<1>1. /\ phase = "offsets" /\ todo # <<>>
      /\ offsets' = [offsets EXCEPT ![Head(todo).parent] = cur - Head(todo).parent]
      /\ forest' = forest /\ layout' = layout /\ phase' = phase
      /\ todo' = q /\ started' = started /\ cur' = cur + 1
  BY VisitedIsQueueAfter DEF VisitOffset, Visited
<1> HIDE DEF q
<1>2. IsModel(forest) /\ Size(forest) \in Nat
  BY <1>1, ForestFacts
<1>3. /\ Follows(forest, layout, cur, todo, started)
      /\ offsets \in [0 .. (Size(forest) - 1) -> Nat]
      /\ FirstPass(forest, layout, cur, todo, started, offsets)
  BY <1>1 DEF TraversalInv
<1>4. /\ Explored(forest, layout, v, cur, todo, started)
      /\ OffsetsFound(forest, v, cur, offsets)
      /\ Busy(forest, layout, cur)
  BY <1>3 DEF FirstPass
<1> HIDE DEF v
<1>5. cur < Size(forest)
  BY <1>1, <1>2, <1>4, Room
<1>6. cur \in Nat /\ started \in Nat /\ cur <= cur
  BY <1>2, <1>4, ModelFacts DEF Explored
<1>7. Traversal(forest, layout)[cur] = [todo |-> todo, started |-> started]
  BY <1>1, <1>2, <1>3, <1>4, <1>6, FollowsHead
<1>8. v[cur] = Head(todo) /\ v[cur] = todo[1]
  <2>1. Traversal(forest, layout)[cur].todo = todo
    BY <1>7
  <2>2. cur \in 0 .. Size(forest)
    BY <1>2, <1>5, <1>6
  <2> QED
    BY <2>1, <2>2 DEF v, Order
<1>9. Follows(forest, layout, cur + 1, q, started)
  BY <1>1, <1>2, <1>3, <1>4, <1>5, <1>6, FollowsVisit DEF q
<1>10. Explored(forest, layout, v, cur + 1, q, started)
  BY <1>1, <1>2, <1>4, <1>8, VisitExplored DEF q
<1>11. /\ offsets' \in [0 .. (Size(forest) - 1) -> Nat]
       /\ OffsetsFound(forest, v, cur + 1, offsets')
  <2>1. offsets' = [offsets EXCEPT ![v[cur].parent] = cur - v[cur].parent]
    BY <1>1, <1>8
  <2> QED
    BY <1>1, <1>2, <1>3, <1>4, <1>5, <1>8, <2>1, OffsetWritten
<1>12. Busy(forest, layout, cur + 1)
  <2>1. SUFFICES ASSUME NEW c \in 0 .. ((cur + 1) - 1)
                 PROVE  /\ Traversal(forest, layout)[c].todo # <<>>
                        /\ Traversal(forest, layout)[c].started \in Nat
    BY DEF Busy
  <2>2. CASE c = cur
    BY <1>1, <1>6, <1>7, <2>2
  <2>3. CASE c # cur
    <3>1. c \in 0 .. (cur - 1)
      BY <1>6, <2>1, <2>3
    <3> QED
      BY <1>4, <3>1 DEF Busy
  <2> QED
    BY <2>2, <2>3
<1>13. FirstPass(forest, layout, cur + 1, q, started, offsets')
  BY <1>10, <1>11, <1>12 DEF FirstPass, v
<1> QED
  BY <1>1, <1>9, <1>11, <1>13 DEF TraversalInv

LEMMA TraversalOffsetsDone ==
  ASSUME ArgumentsInv, TraversalInv, OffsetsDone
  PROVE  TraversalInv'
<1>1. /\ phase = "offsets" /\ todo = <<>> /\ started = Len(forest)
      /\ forest' = forest /\ layout' = layout /\ phase' = "build" /\ offsets' = offsets
      /\ todo' = <<>> /\ started' = 0 /\ cur' = 0
  BY DEF OffsetsDone, PassOver
<1>2. IsModel(forest) /\ Size(forest) \in Nat
  BY <1>1, ForestFacts
<1>3. /\ Follows(forest, layout, cur, <<>>, Len(forest))
      /\ offsets \in [0 .. (Size(forest) - 1) -> Nat]
      /\ FirstPass(forest, layout, cur, <<>>, Len(forest), offsets)
  BY <1>1 DEF TraversalInv
<1>4. cur = Size(forest)
  BY <1>2, <1>3, AllVisited DEF FirstPass
<1>5. Reached(forest, layout, Traversal(forest, layout), cur)
        = [todo |-> <<>>, started |-> Len(forest)]
  <2>1. Busy(forest, layout, cur) /\ cur \in Nat /\ cur <= cur
    BY <1>2, <1>3, <1>4 DEF FirstPass
  <2> QED
    BY <1>2, <1>3, <2>1, FollowsEmpty
<1>6. WholePass(forest, layout, offsets)
  BY <1>3, <1>4, <1>5 DEF WholePass
<1>7. Follows(forest, layout, 0, <<>>, 0)
  BY <1>2 DEF Follows, Reached
<1> QED
  BY <1>1, <1>3, <1>6, <1>7 DEF TraversalInv

(* What building a node leaves of the traversal *)
BuildStep ==
  /\ phase = "build" /\ phase' = "build" /\ todo # <<>>
  /\ forest' = forest /\ layout' = layout /\ offsets' = offsets
  /\ todo' = QueueAfter(forest, layout, todo, cur) /\ cur' = cur + 1 /\ started' = started

LEMMA BuildSteps ==
  (BuildLeaf \/ BuildNumeric \/ BuildCategory) => BuildStep
<1>1. BuildLeaf => BuildStep
  BY VisitedIsQueueAfter DEF BuildLeaf, BuildStep, Visited
<1>2. BuildNumeric => BuildStep
  BY VisitedIsQueueAfter DEF BuildNumeric, BuildStep, Visited
<1>3. BuildCategory => BuildStep
  BY VisitedIsQueueAfter DEF BuildCategory, BuildStep, Visited
<1> QED
  BY <1>1, <1>2, <1>3

(* The second traversal visits node Order[cur] next, which was explored. *)
LEMMA BuildHead ==
  ASSUME ArgumentsInv, TraversalInv, phase = "build", todo # <<>>
  PROVE  /\ IsModel(forest) /\ Size(forest) \in Nat /\ cur \in 0 .. (Size(forest) - 1)
         /\ cur \in Nat /\ Order(forest, layout)[cur] = Head(todo)
         /\ WholePass(forest, layout, offsets)
         /\ Follows(forest, layout, cur, todo, started)
<1>1. IsModel(forest) /\ Size(forest) \in Nat
  BY ForestFacts
<1>2. WholePass(forest, layout, offsets) /\ Follows(forest, layout, cur, todo, started)
  BY DEF TraversalInv
<1>3. cur < Size(forest) /\ Order(forest, layout)[cur] = Head(todo)
  BY <1>1, <1>2, FollowsWhole
<1>4. cur \in 0 .. Size(forest)
  BY <1>2 DEF Follows
<1> QED
  BY <1>1, <1>2, <1>3, <1>4

LEMMA TraversalBuild ==
  ASSUME ArgumentsInv, TraversalInv, BuildStep
  PROVE  TraversalInv'
<1>1. /\ IsModel(forest) /\ Size(forest) \in Nat /\ cur \in 0 .. (Size(forest) - 1)
      /\ WholePass(forest, layout, offsets)
      /\ Follows(forest, layout, cur, todo, started)
      /\ todo # <<>> /\ phase = "build"
  BY BuildHead DEF BuildStep
<1>2. Busy(forest, layout, Size(forest)) /\ cur <= Size(forest) /\ cur < Size(forest)
  BY <1>1 DEF WholePass, FirstPass
<1>3. Follows(forest, layout, cur + 1, QueueAfter(forest, layout, todo, cur), started)
  BY <1>1, <1>2, FollowsVisit
<1> QED
  BY <1>1, <1>3 DEF BuildStep, TraversalInv

LEMMA TraversalStep ==
  ASSUME ArgumentsInv, TraversalInv, [Next]_vars
  PROVE  TraversalInv'
<1>1. CASE UNCHANGED importVars
  BY <1>1 DEF TraversalInv, importVars, passVars
<1>2. CASE Fail
  BY <1>2 DEF Fail, passVars, TraversalInv
<1>3. CASE Finish
  <2>1. /\ phase = "build" /\ phase' = "ready" /\ todo = <<>> /\ started = Len(forest)
        /\ forest' = forest /\ layout' = layout /\ offsets' = offsets
        /\ todo' = todo /\ started' = started /\ cur' = cur
    BY <1>3 DEF Finish, PassOver, passVars
  <2>2. IsModel(forest)
    BY <2>1, ForestFacts
  <2>3. WholePass(forest, layout, offsets) /\ Follows(forest, layout, cur, todo, started)
        /\ offsets \in [0 .. (Size(forest) - 1) -> Nat]
    BY <2>1 DEF TraversalInv
  <2>4. cur = Size(forest)
    BY <2>1, <2>2, <2>3, FollowsWhole
  <2> QED
    BY <2>1, <2>3, <2>4 DEF TraversalInv
<1> QED
  BY <1>1, <1>2, <1>3, TraversalConvert, TraversalStart, TraversalVisitOffset,
     TraversalOffsetsDone, BuildSteps, TraversalBuild
  DEF Next, Importing, Ask, Descend, Return, Over, vars

(* During both traversals of an import: the nodes visited are distinct nodes
   of the forest, none of their children is forgotten, the offset to a
   distant child is written when that is reached, the second traversal visits
   the same nodes in the same order (for_each, for every layout). *)
THEOREM TraversalInvariant == Spec => [](ArgumentsInv /\ TraversalInv)
<1>1. Init => ArgumentsInv /\ TraversalInv
  BY ArgumentsInit
<1>2. (ArgumentsInv /\ TraversalInv) /\ [Next]_vars => (ArgumentsInv /\ TraversalInv)'
  BY ArgumentsStep, TraversalStep
<1> QED
  BY <1>1, <1>2, PTL DEF Spec

-----------------------------------------------------------------------------
(* Why an import fails *)

(* A leaf or a node with categories that is built is one of the model. *)
LEMMA HeadOfSource ==
  ASSUME ArgumentsInv, TraversalInv, phase = "build", todo # <<>>
  PROVE  /\ NodeAt(Head(todo)) \in Node
         /\ NodeAt(Head(todo)).kind \in {"leaf", "category"} =>
              \E u \in NodesOf(source) : source[u[1]][u[2]] = NodeAt(Head(todo))
<1> DEFINE v == Order(forest, layout)
           x == Head(todo)
           n == NodeAt(x)
<1>1. /\ IsModel(forest) /\ cur \in 0 .. (Size(forest) - 1) /\ v[cur] = x
      /\ Explored(forest, layout, v, Size(forest), <<>>, Len(forest))
  BY BuildHead DEF WholePass, FirstPass
<1>2. IsModel(source) /\ forest = ConvertDegenerate(source)
  BY ForestFacts DEF ArgumentsInv
<1> HIDE DEF v, x
<1>3. x.tree \in TreesOf(forest) /\ x.id \in Ids(forest[x.tree])
  BY <1>1, VisitedNodes
<1>4. n \in Node
  BY <1>1, <1>3, AtFacts DEF NodeAt, At
<1>5. n = forest[x.tree][x.id] /\ x.tree \in TreesOf(source)
  BY <1>2, <1>3, Converted DEF NodeAt
<1>6. CASE IsLeaf(source[x.tree][0])
  <2> DEFINE leaf == source[x.tree][0]
  <2>1. forest[x.tree] = Regrown(leaf) /\ leaf \in Node /\ leaf.cats = {}
    BY <1>2, <1>5, <1>6, Converted
  <2>2. 0 \in Ids(source[x.tree])
    BY <1>2, <1>5, IdsFacts
  <2>3. <<x.tree, 0>> \in NodesOf(source)
    BY <1>5, <2>2, NodesOfMember
  <2>4. leaf = source[<<x.tree, 0>>[1]][<<x.tree, 0>>[2]]
    OBVIOUS
  <2> HIDE DEF leaf
  <2>5. /\ x.id \in 0 .. 2
        /\ Regrown(leaf)[0].kind = "kLE" /\ Regrown(leaf)[1] = leaf /\ Regrown(leaf)[2] = leaf
    <3>1. IsLeaf(leaf)
      BY <1>6 DEF leaf
    <3>2. Ids(forest[x.tree]) = Ids(Regrown(leaf))
      BY <2>1
    <3> QED
      BY <1>3, <2>1, <3>1, <3>2, RegrownIsTree
  <2>6. n = Regrown(leaf)[x.id]
    BY <1>5, <2>1
  <2> HIDE DEF n
  <2>7. n.kind = "kLE" \/ n = leaf
    <3>1. x.id = 0 \/ x.id = 1 \/ x.id = 2
      BY <2>5
    <3> QED
      BY <2>5, <2>6, <3>1
  <2>8. n.kind \in {"leaf", "category"} => \E u \in NodesOf(source) : source[u[1]][u[2]] = n
    BY <2>3, <2>4, <2>7
  <2> QED
    BY <1>4, <2>8 DEF n, x
<1>7. CASE ~IsLeaf(source[x.tree][0])
  <2>1. forest[x.tree] = source[x.tree]
    BY <1>2, <1>5, <1>7, Converted
  <2>2. <<x.tree, x.id>> \in NodesOf(source)
    BY <1>3, <1>5, <2>1, NodesOfMember
  <2>3. source[<<x.tree, x.id>>[1]][<<x.tree, x.id>>[2]] = n
    BY <1>5, <2>1
  <2> QED
    BY <1>4, <2>2, <2>3 DEF x
<1> QED
  BY <1>6, <1>7

(* The size of the leaves so far is that of one of them, if there was one. *)
LeafSizeInv ==
  leaf_size = 1 \/ \E u \in NodesOf(source) :
                     IsLeaf(source[u[1]][u[2]]) /\ leaf_size = Len(source[u[1]][u[2]].out)

LEMMA LeafSizeStep ==
  ASSUME ArgumentsInv, TraversalInv, LeafSizeInv, [Next]_vars
  PROVE  LeafSizeInv'
<1>1. CASE BuildLeaf
  <2>1. /\ phase = "build" /\ todo # <<>> /\ IsLeaf(NodeAt(Head(todo))) /\ source' = source
        /\ leaf_size' = Len(NodeAt(Head(todo)).out)
    BY <1>1 DEF BuildLeaf
  <2>2. PICK u \in NodesOf(source) : source[u[1]][u[2]] = NodeAt(Head(todo))
    BY <2>1, HeadOfSource DEF IsLeaf
  <2> QED
    BY <2>1, <2>2 DEF LeafSizeInv
<1>2. CASE UNCHANGED <<source, leaf_size>>
  BY <1>2 DEF LeafSizeInv
<1>3. \/ BuildLeaf \/ UNCHANGED <<source, leaf_size>>
  BY DEF Next, Importing, Convert, StartTrees, VisitOffset, OffsetsDone, BuildNumeric,
         BuildCategory, Fail, Finish, Ask, Descend, Return, Over, vars, importVars, builtVars
<1> QED
  BY <1>1, <1>2, <1>3

LEMMA FailsStep ==
  ASSUME ArgumentsInv, TraversalInv, LeafSizeInv, FailsForCause, [Next]_vars
  PROVE  FailsForCause'
<1>1. CASE Fail
  <2> DEFINE n == NodeAt(Head(todo))
             all == {source[u[1]][u[2]] : u \in NodesOf(source)}
             leaves == {m \in all : IsLeaf(m)}
  <2>1. /\ phase = "build" /\ todo # <<>> /\ source' = source
        /\ (IsLeaf(n) /\ ~SizeConsistent(n)) \/ (n.kind = "category" /\ ~Representable(n))
    BY <1>1 DEF Fail
  <2>2. n \in Node /\ n \in all
    BY <2>1, HeadOfSource DEF IsLeaf
  <2> HIDE DEF n
  <2>3. CASE IsLeaf(n) /\ ~SizeConsistent(n)
    <3>1. Len(n.out) \in Nat /\ n \in leaves
      BY <2>2, <2>3 DEF Node
    <3>2. CASE Len(n.out) = 0
      BY <2>1, <3>1, <3>2 DEF FailsForCause
    <3>3. CASE Len(n.out) # 0
      <4>1. leaf_size # 1 /\ leaf_size # Len(n.out)
        BY <2>3, <3>1, <3>3 DEF SizeConsistent
      <4>2. PICK u \in NodesOf(source) :
              IsLeaf(source[u[1]][u[2]]) /\ leaf_size = Len(source[u[1]][u[2]].out)
        BY <4>1 DEF LeafSizeInv
      <4>3. source[u[1]][u[2]] \in leaves
        BY <4>2
      <4>4. \E a, b \in leaves : Len(a.out) # Len(b.out)
        BY <3>1, <4>1, <4>2, <4>3
      <4> QED
        BY <2>1, <4>4 DEF FailsForCause
    <3> QED
      BY <3>2, <3>3
  <2>4. CASE n.kind = "category" /\ ~Representable(n)
    BY <2>1, <2>2, <2>4 DEF FailsForCause
  <2> QED
    BY <2>1, <2>3, <2>4
<1>2. CASE UNCHANGED <<source, phase>>
  BY <1>2 DEF FailsForCause
<1>3. Fail \/ UNCHANGED <<source, phase>> \/ (phase' # "failed")
  BY DEF Next, Importing, Convert, StartTrees, VisitOffset, OffsetsDone, BuildNumeric, BuildLeaf,
         BuildCategory, Finish, Ask, Descend, Return, Over, vars, importVars
<1>4. CASE phase' # "failed"
  BY <1>4 DEF FailsForCause
<1> QED
  BY <1>1, <1>2, <1>3, <1>4

(* An import fails only for a reason the Treelite model gives, whatever the
   model: a leaf with no output, two leaves of different sizes or a category
   that cannot be represented (decision_forest_builder.hpp). *)
THEOREM ImportFailsForCause == Spec => []FailsForCause
<1> DEFINE I == ArgumentsInv /\ TraversalInv /\ LeafSizeInv /\ FailsForCause
<1>1. Init => I
  BY ArgumentsInit DEF Init, LeafSizeInv, FailsForCause
<1>2. I /\ [Next]_vars => I'
  BY ArgumentsStep, TraversalStep, LeafSizeStep, FailsStep
<1> QED
  BY <1>1, <1>2, PTL DEF Spec

-----------------------------------------------------------------------------
(* The array that the second traversal builds *)

(* The node at position p of the array is the one visited at place c. *)
Match(v, org, p, c) == org[p + 1] = <<v[c].tree, v[c].id>>

(* Each of the k nodes visited is at one position; nodes of one tree, or all
   of them if trees are not aligned, keep the distances of the traversal. *)
Arranged(v, k, al, org) ==
  /\ org \in Seq(Nat \X Nat)
  /\ \A p \in 0 .. (Len(org) - 1) :
       org[p + 1] = <<0, 0>> \/ \E c \in 0 .. (k - 1) : Match(v, org, p, c)
  /\ \A c \in 0 .. (k - 1) : \E p \in 0 .. (Len(org) - 1) : Match(v, org, p, c)
  /\ \A p, q \in 0 .. (Len(org) - 1) : \A c, d \in 0 .. (k - 1) :
       Match(v, org, p, c) /\ Match(v, org, q, d) /\ (al = 0 \/ v[c].tree = v[d].tree) =>
         q - p = d - c
  /\ IF k = 0 THEN org = <<>>
     ELSE org # <<>> /\ Match(v, org, Len(org) - 1, k - 1) /\ Match(v, org, 0, 0)

RootsPlaced(v, k, al, org, rts) ==
  /\ rts \in Seq(Nat)
  /\ \A t \in 1 .. Len(rts) :
       /\ rts[t] \in 0 .. (Len(org) - 1)
       /\ org[rts[t] + 1] = <<t, 0>>
       /\ al # 0 => rts[t] % al = 0
  /\ \A c \in 0 .. (k - 1) : v[c].id = 0 => v[c].tree <= Len(rts)

Bin == [count : Nat, bin : SUBSET Nat]

StoredNode == [offset : Int, default_distant : BOOLEAN, categorical : BOOLEAN,
               threshold : Int, bits : SUBSET Nat, index : Int, output : Nat]

(* part lies in the sequence all after the first i of it. *)
Within(part, all, i) ==
  /\ i \in Nat /\ i + Len(part) <= Len(all)
  /\ \A j \in 1 .. Len(part) : all[i + j] = part[j]

StoredLeafAs(n, node, vec) ==
  /\ node.offset = 0
  /\ Len(n.out) \in Nat \ {0}
  /\ IF Len(n.out) = 1 THEN node.output = n.out[1]
     ELSE node.index \in Nat /\ Within(n.out, vec, node.index * Len(n.out))

StoredCategoryAs(n, offset, node, nonlocal, sto) ==
  /\ node.offset = offset /\ node.default_distant = DefaultDistant(n) /\ node.categorical
  /\ Representable(n)
  /\ IF nonlocal THEN Within(Bitset(n.cats), sto, node.index) ELSE node.bits = n.cats

(* What is stored for a node says what the node says. *)
StoredAs(n, offset, node, nonlocal, vec, sto) ==
  /\ IsLeaf(n) => StoredLeafAs(n, node, vec)
  /\ n.kind \in Operators =>
       node = Stored(offset, DefaultDistant(n), FALSE,
                     2 * n.threshold + (IF IsInclusive(n) THEN 1 ELSE 0), {}, 0, 0)
  /\ n.kind = "category" => StoredCategoryAs(n, offset, node, nonlocal, sto)

NodesStored(f, v, k, org, idz, nds, offs, nonlocal, vec, sto) ==
  /\ idz \in Seq(Nat) /\ Len(idz) = Len(org)
  /\ nds \in Seq(StoredNode) /\ Len(nds) = Len(org)
  /\ \A p \in 0 .. (Len(org) - 1) : \A c \in 0 .. (k - 1) : Match(v, org, p, c) =>
       /\ idz[p + 1] = v[c].id
       /\ StoredAs(At(f, v[c]), offs[c], nds[p + 1], nonlocal, vec, sto)

(* Scalar outputs are kept in nodes and vectors aside, one after the other. *)
Multiple(a, m) == a % m = 0

OutputsStored ==
  /\ leaf_size \in Nat \ {0}
  /\ vector \in Seq(Nat)
  /\ leaf_size = 1 => vector = <<>>
  /\ Multiple(Len(vector), leaf_size)

Nonlocal == MaxNumCategories > BinWidth

BuildInv ==
  phase \in {"build", "ready"} =>
    LET v == Order(forest, layout)
    IN  /\ Arranged(v, cur, Alignment, origin)
        /\ RootsPlaced(v, cur, Alignment, origin, roots)
        /\ NodesStored(forest, v, cur, origin, ids, nodes, offsets, Nonlocal, vector, storage)
        /\ storage \in Seq(Bin)
        /\ OutputsStored

-----------------------------------------------------------------------------
(* What is stored stays when more is stored. *)

Longer(a, b) ==
  /\ Len(a) \in Nat /\ Len(b) \in Nat /\ Len(a) <= Len(b)
  /\ \A j \in 1 .. Len(a) : b[j] = a[j]

LEMMA LongerSame ==
  ASSUME NEW S, NEW a \in Seq(S)
  PROVE  Longer(a, a)
  BY DEF Longer

Joined(a, b, c) == c = a \o b

LEMMA LongerConcat ==
  ASSUME NEW S, NEW a \in Seq(S), NEW b \in Seq(S), NEW c, Joined(a, b, c)
  PROVE  Longer(a, c) /\ Within(b, c, Len(a)) /\ c \in Seq(S) /\ Len(c) = Len(a) + Len(b)
<1>1. Len(a) \in Nat /\ Len(b) \in Nat /\ c \in Seq(S) /\ c = a \o b
  BY DEF Joined
<1>2. Len(c) = Len(a) + Len(b)
  BY <1>1
<1>3. \A j \in 1 .. Len(a) : c[j] = a[j]
  BY <1>1
<1>4. \A j \in 1 .. Len(b) : c[Len(a) + j] = b[j]
  <2> TAKE j \in 1 .. Len(b)
  <2>1. Len(a) + j \in 1 .. (Len(a) + Len(b)) /\ Len(a) + j > Len(a) /\ (Len(a) + j) - Len(a) = j
    BY <1>1
  <2> QED
    BY <1>1, <2>1
<1> QED
  BY <1>1, <1>2, <1>3, <1>4 DEF Longer, Within

LEMMA HeadedFacts ==
  ASSUME NEW S, NEW h \in S, NEW b \in Seq(S), NEW c, c = <<h>> \o b
  PROVE  /\ c \in Seq(S) /\ Len(c) = Len(b) + 1 /\ c[1] = h
         /\ \A j \in 1 .. Len(b) : c[j + 1] = b[j]
<1> DEFINE a == <<h>>
<1>1. a \in Seq(S) /\ Len(a) = 1 /\ a[1] = h
  OBVIOUS
<1>2. Joined(a, b, c)
  BY DEF Joined
<1> HIDE DEF a
<1>3. Len(b) \in Nat /\ c \in Seq(S) /\ Len(c) = Len(a) + Len(b)
  <2>1. Len(b) \in Nat
    OBVIOUS
  <2>2. c \in Seq(S) /\ Len(c) = Len(a) + Len(b)
    BY <1>1, <1>2, LongerConcat
  <2> QED
    BY <2>1, <2>2
<1>4. Longer(a, c) /\ Within(b, c, Len(a))
  BY <1>1, <1>2, LongerConcat
<1>5. c[1] = h
  BY <1>1, <1>4 DEF Longer
<1>6. \A j \in 1 .. Len(b) : c[j + 1] = b[j]
  BY <1>1, <1>3, <1>4 DEF Within
<1> QED
  BY <1>1, <1>3, <1>5, <1>6

LEMMA WithinLonger ==
  ASSUME NEW part, Len(part) \in Nat, NEW a, NEW b, Longer(a, b), NEW i, Within(part, a, i)
  PROVE  Within(part, b, i)
<1>1. i \in Nat /\ i + Len(part) <= Len(a) /\ \A j \in 1 .. Len(part) : a[i + j] = part[j]
  BY DEF Within
<1>2. Len(a) \in Nat /\ Len(b) \in Nat /\ Len(a) <= Len(b) /\ \A j \in 1 .. Len(a) : b[j] = a[j]
  BY DEF Longer
<1>3. ASSUME NEW j \in 1 .. Len(part) PROVE b[i + j] = part[j]
  <2>1. i + j \in 1 .. Len(a)
    BY <1>1, <1>2
  <2> QED
    BY <1>1, <1>2, <2>1
<1>4. i + Len(part) <= Len(b)
  BY <1>1, <1>2
<1> QED
  BY <1>1, <1>3, <1>4 DEF Within

-----------------------------------------------------------------------------
(* Nodes are appended. *)

(* An item is appended with so much padding before it. *)
Padded(s, pad, filler, last, new) == new = s \o [i \in 1 .. pad |-> filler] \o <<last>>

LEMMA PaddedFacts ==
  ASSUME NEW S, NEW s \in Seq(S), NEW pad \in Nat, NEW filler \in S, NEW last \in S,
         NEW new, Padded(s, pad, filler, last, new)
  PROVE  /\ new \in Seq(S) /\ Len(new) = Len(s) + pad + 1 /\ Len(s) \in Nat
         /\ \A i \in 1 .. Len(s) : new[i] = s[i]
         /\ \A i \in (Len(s) + 1) .. (Len(s) + pad) : new[i] = filler
         /\ new[Len(s) + pad + 1] = last
<1> DEFINE fill == [i \in 1 .. pad |-> filler]
           mid == s \o fill
<1>1. fill \in Seq(S) /\ Len(fill) = pad
  OBVIOUS
<1>2. \A i \in 1 .. pad : fill[i] = filler
  OBVIOUS
<1> HIDE DEF fill
<1>3. mid \in Seq(S) /\ Len(mid) = Len(s) + pad /\ Len(s) \in Nat
  <2>1. Len(s) \in Nat
    OBVIOUS
  <2>2. s \o fill \in Seq(S)
    BY <1>1
  <2>3. Len(s \o fill) = Len(s) + Len(fill)
    BY <1>1, <2>1, <2>2
  <2> QED
    BY <1>1, <2>1, <2>2, <2>3
<1>4. \A i \in 1 .. Len(s) : mid[i] = s[i]
  BY <1>1
<1>5. \A i \in (Len(s) + 1) .. (Len(s) + pad) : mid[i] = filler
  <2> TAKE i \in (Len(s) + 1) .. (Len(s) + pad)
  <2>1. i - Len(s) \in 1 .. pad /\ i \in 1 .. (Len(s) + pad) /\ i > Len(s)
    BY <1>3
  <2>2. mid[i] = fill[i - Len(s)]
    BY <1>1, <2>1
  <2> QED
    BY <1>2, <2>1, <2>2
<1>6. new = mid \o <<last>>
  BY DEF fill, Padded
<1> HIDE DEF mid
<1>7. /\ new \in Seq(S) /\ Len(new) = Len(mid) + 1 /\ new[Len(mid) + 1] = last
      /\ \A i \in 1 .. Len(mid) : new[i] = mid[i]
  <2> DEFINE one == <<last>>
  <2>1. one \in Seq(S) /\ Len(one) = 1 /\ one[1] = last
    OBVIOUS
  <2> HIDE DEF one
  <2>2. Joined(mid, one, new)
    BY <1>6 DEF one, Joined
  <2>3. /\ Longer(mid, new) /\ Within(one, new, Len(mid)) /\ new \in Seq(S)
        /\ Len(new) = Len(mid) + Len(one)
    <3>1. mid \in Seq(S) /\ one \in Seq(S)
      BY <1>3, <2>1
    <3> QED
      BY <2>2, <3>1, LongerConcat
  <2>4. Len(new) = Len(mid) + 1
    BY <2>1, <2>3
  <2> QED
    BY <2>1, <2>3, <2>4 DEF Longer, Within
<1> QED
  BY <1>3, <1>4, <1>5, <1>7

(* The place of a node is determined by its tree and id, in an order v. *)
LEMMA VisitedOnce ==
  ASSUME NEW f, IsModel(f), NEW lay, NEW v, NEW n, NEW q, NEW s, Explored(f, lay, v, n, q, s)
  PROVE  /\ n \in Nat
         /\ \A c \in 0 .. (n - 1) : v[c].tree \in Nat \ {0} /\ v[c].id \in Nat
         /\ \A c, d \in 0 .. (n - 1) : v[c].tree = v[d].tree /\ v[c].id = v[d].id => c = d
<1>1. n \in Nat
  BY DEF Explored
<1>2. \A c \in 0 .. (n - 1) : v[c].tree \in Nat \ {0} /\ v[c].id \in Nat
  <2> TAKE c \in 0 .. (n - 1)
  <2>1. v[c].tree \in TreesOf(f) /\ v[c].id \in Ids(f[v[c].tree])
    BY VisitedNodes
  <2>2. Ids(f[v[c].tree]) \subseteq Nat /\ TreesOf(f) = 1 .. Len(f) /\ Len(f) \in Nat
    BY <2>1, IdsFacts, ModelFacts
  <2> QED
    BY <2>1, <2>2
<1>3. \A c, d \in 0 .. (n - 1) : v[c].tree = v[d].tree /\ v[c].id = v[d].id => c = d
  BY DEF Explored, Distinct, Same
<1> QED
  BY <1>1, <1>2, <1>3

(* Building the node at place k with padding before it *)
Appended(f, lay, v, n, k, al, org, pad, new) ==
  /\ IsModel(f) /\ Explored(f, lay, v, n, <<>>, Len(f)) /\ k \in 0 .. (n - 1)
  /\ al \in Nat /\ (al # 0 => lay # Layered)
  /\ Arranged(v, k, al, org)
  /\ pad \in Nat /\ (pad # 0 => v[k].id = 0 /\ al # 0 /\ k # 0)
  /\ Padded(org, pad, <<0, 0>>, <<v[k].tree, v[k].id>>, new)

(* What building a node does to the origins: the ones there stay, padding has none *)
ExtendedBy(v, k, org, pad, new) ==
  /\ new \in Seq(Nat \X Nat) /\ Len(new) = Len(org) + pad + 1 /\ Len(org) \in Nat
  /\ \A p \in 0 .. (Len(org) - 1) : new[p + 1] = org[p + 1]
  /\ \A p \in Len(org) .. ((Len(org) + pad) - 1) : new[p + 1] = <<0, 0>>
  /\ Match(v, new, Len(org) + pad, k)

LEMMA AppendedFacts ==
  ASSUME NEW f, NEW lay, NEW v, NEW n, NEW k, NEW al, NEW org, NEW pad, NEW new,
         Appended(f, lay, v, n, k, al, org, pad, new)
  PROVE  ExtendedBy(v, k, org, pad, new)
<1> DEFINE last == <<v[k].tree, v[k].id>>
           zero == <<0, 0>>
           Pairs == Nat \X Nat
<1>1. IsModel(f) /\ Explored(f, lay, v, n, <<>>, Len(f)) /\ k \in 0 .. (n - 1)
      /\ org \in Seq(Pairs) /\ pad \in Nat
      /\ Padded(org, pad, zero, last, new)
  BY DEF Appended, Arranged
<1>2. last \in Pairs /\ zero \in Pairs
  BY <1>1, VisitedOnce
<1> HIDE DEF zero, last, Pairs
<1>3. /\ new \in Seq(Pairs) /\ Len(new) = Len(org) + pad + 1 /\ Len(org) \in Nat
      /\ \A i \in 1 .. Len(org) : new[i] = org[i]
      /\ \A i \in (Len(org) + 1) .. (Len(org) + pad) : new[i] = zero
      /\ new[Len(org) + pad + 1] = last
  BY <1>1, <1>2, PaddedFacts
<1>4. \A p \in 0 .. (Len(org) - 1) : p + 1 \in 1 .. Len(org)
  BY <1>3
<1>5. \A p \in Len(org) .. ((Len(org) + pad) - 1) : p + 1 \in (Len(org) + 1) .. (Len(org) + pad)
  BY <1>1, <1>3
<1> QED
  BY <1>3, <1>4, <1>5 DEF ExtendedBy, Match, last, zero, Pairs

LEMMA AppendedMatch ==
  ASSUME NEW f, NEW lay, NEW v, NEW n, NEW k, NEW al, NEW org, NEW pad, NEW new,
         Appended(f, lay, v, n, k, al, org, pad, new),
         NEW p \in 0 .. (Len(org) + pad), NEW c \in 0 .. k, Match(v, new, p, c)
  PROVE  \/ p = Len(org) + pad /\ c = k
         \/ p \in 0 .. (Len(org) - 1) /\ c \in 0 .. (k - 1) /\ Match(v, org, p, c)
<1>e. ExtendedBy(v, k, org, pad, new)
  BY AppendedFacts
<1>1. /\ IsModel(f) /\ Explored(f, lay, v, n, <<>>, Len(f)) /\ k \in 0 .. (n - 1)
      /\ Arranged(v, k, al, org) /\ pad \in Nat
  BY DEF Appended
<1>2. /\ n \in Nat
      /\ \A b \in 0 .. (n - 1) : v[b].tree \in Nat \ {0} /\ v[b].id \in Nat
      /\ \A b, d \in 0 .. (n - 1) : v[b].tree = v[d].tree /\ v[b].id = v[d].id => b = d
  BY <1>1, VisitedOnce
<1>3. k \in Nat /\ c \in 0 .. (n - 1) /\ 0 .. (k - 1) \subseteq 0 .. (n - 1)
  BY <1>1, <1>2
<1>4. Len(org) \in Nat
  BY <1>e DEF ExtendedBy
<1>5. CASE p \in 0 .. (Len(org) - 1)
  <2>1. org[p + 1] = <<v[c].tree, v[c].id>>
    BY <1>5, <1>e DEF ExtendedBy, Match
  <2>2. c # k
    <3>1. org[p + 1] = <<0, 0>> \/ \E b \in 0 .. (k - 1) : Match(v, org, p, b)
      BY <1>1, <1>5 DEF Arranged
    <3>2. org[p + 1] # <<0, 0>>
      BY <1>2, <1>3, <2>1
    <3>3. PICK b \in 0 .. (k - 1) : org[p + 1] = <<v[b].tree, v[b].id>>
      BY <3>1, <3>2 DEF Match
    <3>4. b = c
      BY <1>2, <1>3, <2>1, <3>3
    <3> QED
      BY <1>3, <3>3, <3>4
  <2> QED
    BY <1>3, <1>5, <2>1, <2>2 DEF Match
<1>6. CASE p \in Len(org) .. ((Len(org) + pad) - 1)
  BY <1>2, <1>3, <1>6, <1>e DEF ExtendedBy, Match
<1>7. CASE p = Len(org) + pad
  <2>1. Match(v, new, p, k)
    BY <1>7, <1>e DEF ExtendedBy
  <2>2. c = k
    BY <1>1, <1>2, <1>3, <2>1 DEF Match
  <2> QED
    BY <1>7, <2>2
<1> QED
  BY <1>1, <1>4, <1>5, <1>6, <1>7

LEMMA AppendedDistance ==
  ASSUME NEW f, NEW lay, NEW v, NEW n, NEW k, NEW al, NEW org, NEW pad, NEW new,
         Appended(f, lay, v, n, k, al, org, pad, new),
         NEW q \in 0 .. (Len(org) - 1), NEW d \in 0 .. (k - 1), Match(v, org, q, d),
         al = 0 \/ v[k].tree = v[d].tree
  PROVE  (Len(org) + pad) - q = k - d
<1>e. ExtendedBy(v, k, org, pad, new)
  BY AppendedFacts
<1>1. /\ IsModel(f) /\ Explored(f, lay, v, n, <<>>, Len(f)) /\ k \in 0 .. (n - 1)
      /\ al \in Nat /\ (al # 0 => lay # Layered)
      /\ Arranged(v, k, al, org)
      /\ pad \in Nat /\ (pad # 0 => v[k].id = 0 /\ al # 0)
  BY DEF Appended
<1>2. n \in Nat /\ \A c \in 0 .. (n - 1) : v[c].tree \in Nat \ {0}
  BY <1>1, VisitedOnce
<1>3. /\ k \in Nat /\ k # 0 /\ d \in 0 .. (n - 1) /\ k - 1 \in 0 .. (n - 1)
      /\ k - 1 \in 0 .. (k - 1) /\ d <= k - 1 /\ k - 1 <= k /\ d < k /\ Len(org) \in Nat
  BY <1>1, <1>2, <1>e DEF ExtendedBy
<1>4. al # 0 => /\ v[d].tree <= v[k - 1].tree /\ v[k - 1].tree <= v[k].tree
                /\ v[k].id = 0 => v[d].tree < v[k].tree
  BY <1>1, <1>3 DEF Explored, TreesInTurn
<1>5. al = 0 \/ v[k - 1].tree = v[d].tree
  BY <1>1, <1>2, <1>3, <1>4
<1>6. pad = 0
  BY <1>1, <1>2, <1>3, <1>4
<1>7. Match(v, org, Len(org) - 1, k - 1) /\ Len(org) - 1 \in 0 .. (Len(org) - 1)
  BY <1>1, <1>3 DEF Arranged
<1>8. (Len(org) - 1) - q = (k - 1) - d
  <2> DEFINE p == Len(org) - 1
             c == k - 1
  <2>1. /\ p \in 0 .. (Len(org) - 1) /\ c \in 0 .. (k - 1)
        /\ Match(v, org, p, c) /\ (al = 0 \/ v[c].tree = v[d].tree)
    BY <1>3, <1>5, <1>7
  <2> HIDE DEF p, c
  <2>2. \A i, j \in 0 .. (Len(org) - 1) : \A a, b \in 0 .. (k - 1) :
          Match(v, org, i, a) /\ Match(v, org, j, b) /\ (al = 0 \/ v[a].tree = v[b].tree) =>
            j - i = b - a
    BY <1>1 DEF Arranged
  <2>3. p - q = c - d
    BY <2>1, <2>2
  <2> QED
    BY <2>3 DEF p, c
<1> QED
  BY <1>3, <1>6, <1>8

LEMMA AppendedArranged ==
  ASSUME NEW f, NEW lay, NEW v, NEW n, NEW k, NEW al, NEW org, NEW pad, NEW new,
         Appended(f, lay, v, n, k, al, org, pad, new)
  PROVE  Arranged(v, k + 1, al, new)
<1>1. /\ k \in 0 .. (n - 1) /\ pad \in Nat /\ (k = 0 => pad = 0)
      /\ Arranged(v, k, al, org) /\ n \in Nat
  BY VisitedOnce DEF Appended
<1>a. /\ new \in Seq(Nat \X Nat) /\ Len(new) = Len(org) + pad + 1 /\ Len(org) \in Nat
      /\ \A p \in 0 .. (Len(org) - 1) : new[p + 1] = org[p + 1]
      /\ \A p \in Len(org) .. ((Len(org) + pad) - 1) : new[p + 1] = <<0, 0>>
      /\ Match(v, new, Len(org) + pad, k)
  <2>1. ExtendedBy(v, k, org, pad, new)
    BY AppendedFacts
  <2> QED
    BY <2>1 DEF ExtendedBy
<1> DEFINE w == Len(org) + pad
<1>2. /\ new \in Seq(Nat \X Nat) /\ Len(new) = w + 1 /\ Len(org) \in Nat
      /\ \A p \in 0 .. (Len(org) - 1) : new[p + 1] = org[p + 1]
      /\ \A p \in Len(org) .. (w - 1) : new[p + 1] = <<0, 0>>
      /\ Match(v, new, w, k)
  BY <1>a
<1>3. \A p \in 0 .. w : \A c \in 0 .. k : Match(v, new, p, c) =>
        \/ p = w /\ c = k
        \/ p \in 0 .. (Len(org) - 1) /\ c \in 0 .. (k - 1) /\ Match(v, org, p, c)
  BY AppendedMatch
<1>4. \A q \in 0 .. (Len(org) - 1) : \A d \in 0 .. (k - 1) :
        Match(v, org, q, d) /\ (al = 0 \/ v[k].tree = v[d].tree) => w - q = k - d
  <2> TAKE q \in 0 .. (Len(org) - 1)
  <2> TAKE d \in 0 .. (k - 1)
  <2> HAVE Match(v, org, q, d) /\ (al = 0 \/ v[k].tree = v[d].tree)
  <2>1. (Len(org) + pad) - q = k - d
    BY AppendedDistance
  <2> QED
    BY <2>1
<1> HIDE DEF w
<1>5. /\ k \in Nat /\ w \in Nat /\ Len(org) <= w /\ (k + 1) - 1 = k /\ Len(new) - 1 = w
      /\ k + 1 # 0 /\ w \in 0 .. w /\ k \in 0 .. k
      /\ 0 .. (k - 1) \subseteq 0 .. k /\ 0 .. (Len(org) - 1) \subseteq 0 .. w
      /\ \A c \in 0 .. k : c = k \/ c \in 0 .. (k - 1)
      /\ \A p \in 0 .. w : p = w \/ p \in Len(org) .. (w - 1) \/ p \in 0 .. (Len(org) - 1)
  <2> DEFINE m == Len(org)
  <2>1. k \in Nat /\ m \in Nat /\ w \in Nat /\ m <= w /\ Len(new) = w + 1
    BY <1>1, <1>2 DEF w
  <2> HIDE DEF m
  <2>2. /\ 0 .. (k - 1) \subseteq 0 .. k /\ 0 .. (m - 1) \subseteq 0 .. w
        /\ \A c \in 0 .. k : c = k \/ c \in 0 .. (k - 1)
    BY <2>1
  <2>3. \A p \in 0 .. w : p = w \/ p \in m .. (w - 1) \/ p \in 0 .. (m - 1)
    BY <2>1
  <2>4. /\ (k + 1) - 1 = k /\ Len(new) - 1 = w /\ k + 1 # 0 /\ w \in 0 .. w /\ k \in 0 .. k
    BY <2>1
  <2> QED
    BY <2>1, <2>2, <2>3, <2>4 DEF m
<1>6. ASSUME NEW p \in 0 .. (Len(org) - 1), NEW c \in 0 .. (k - 1)
      PROVE  Match(v, new, p, c) <=> Match(v, org, p, c)
  BY <1>2 DEF Match
<1>7. ASSUME NEW p \in 0 .. w
      PROVE  new[p + 1] = <<0, 0>> \/ \E c \in 0 .. k : Match(v, new, p, c)
  <2>1. CASE p = w
    BY <1>2, <1>5, <2>1
  <2>2. CASE p \in Len(org) .. (w - 1)
    BY <1>2, <2>2
  <2>3. CASE p \in 0 .. (Len(org) - 1)
    <3>1. org[p + 1] = <<0, 0>> \/ \E c \in 0 .. (k - 1) : Match(v, org, p, c)
      BY <1>1, <2>3 DEF Arranged
    <3>2. ASSUME NEW c \in 0 .. (k - 1), Match(v, org, p, c)
          PROVE  \E d \in 0 .. k : Match(v, new, p, d)
      <4>1. Match(v, new, p, c) /\ c \in 0 .. k
        BY <1>5, <1>6, <2>3, <3>2
      <4> QED
        BY <4>1
    <3>3. new[p + 1] = org[p + 1]
      BY <1>2, <2>3
    <3> QED
      BY <3>1, <3>2, <3>3
  <2> QED
    BY <1>5, <2>1, <2>2, <2>3
<1>8. ASSUME NEW c \in 0 .. k
      PROVE  \E p \in 0 .. w : Match(v, new, p, c)
  <2>1. CASE c = k
    BY <1>2, <1>5, <2>1
  <2>2. CASE c \in 0 .. (k - 1)
    <3>1. PICK p \in 0 .. (Len(org) - 1) : Match(v, org, p, c)
      BY <1>1, <2>2 DEF Arranged
    <3>2. Match(v, new, p, c)
      BY <1>6, <2>2, <3>1
    <3> QED
      BY <1>5, <3>2
  <2> QED
    BY <1>5, <2>1, <2>2
<1>9. ASSUME NEW p \in 0 .. w, NEW q \in 0 .. w, NEW c \in 0 .. k, NEW d \in 0 .. k,
             Match(v, new, p, c), Match(v, new, q, d), al = 0 \/ v[c].tree = v[d].tree
      PROVE  q - p = d - c
  <2>1. CASE p = w /\ c = k /\ q = w /\ d = k
    BY <1>5, <2>1
  <2>2. CASE p = w /\ c = k /\ q \in 0 .. (Len(org) - 1) /\ d \in 0 .. (k - 1) /\ Match(v, org, q, d)
    <3>1. w - q = k - d
      BY <1>4, <1>9, <2>2
    <3> QED
      BY <1>5, <2>2, <3>1
  <2>3. CASE q = w /\ d = k /\ p \in 0 .. (Len(org) - 1) /\ c \in 0 .. (k - 1) /\ Match(v, org, p, c)
    <3>1. w - p = k - c
      BY <1>4, <1>9, <2>3
    <3> QED
      BY <1>5, <2>3, <3>1
  <2>4. CASE /\ p \in 0 .. (Len(org) - 1) /\ c \in 0 .. (k - 1) /\ Match(v, org, p, c)
             /\ q \in 0 .. (Len(org) - 1) /\ d \in 0 .. (k - 1) /\ Match(v, org, q, d)
    BY <1>1, <1>9, <2>4, SMTT(40) DEF Arranged
  <2> QED
    BY <1>3, <1>9, <2>1, <2>2, <2>3, <2>4
<1>10. new # <<>> /\ Match(v, new, 0, 0)
  <2>1. new # <<>>
    <3>1. Len(new) # 0
      BY <1>2, <1>5
    <3> QED
      BY <3>1
  <2>2. CASE k = 0
    <3>1. w = 0
      BY <1>1, <2>2 DEF Arranged, w
    <3> QED
      BY <1>2, <2>1, <2>2, <3>1
  <2>3. CASE k # 0
    <3>1. org # <<>> /\ Match(v, org, 0, 0)
      BY <1>1, <2>3 DEF Arranged
    <3>2. org \in Seq(Nat \X Nat)
      BY <1>1 DEF Arranged
    <3>3. 0 \in 0 .. (Len(org) - 1) /\ 0 \in 0 .. (k - 1)
      BY <1>2, <1>5, <2>3, <3>1, <3>2
    <3> QED
      BY <1>6, <2>1, <3>1, <3>3
  <2> QED
    BY <2>2, <2>3
<1> QED
  BY <1>2, <1>5, <1>7, <1>8, <1>9, <1>10 DEF Arranged

(* Roots are built in the order of their trees. *)
LEMMA NextRoot ==
  ASSUME NEW f, NEW lay, NEW v, NEW n, NEW k, NEW al, NEW org, NEW pad, NEW new,
         Appended(f, lay, v, n, k, al, org, pad, new),
         NEW rts, RootsPlaced(v, k, al, org, rts), v[k].id = 0
  PROVE  v[k].tree = Len(rts) + 1
<1> DEFINE t == v[k].tree
           m == Len(rts)
<1>1. /\ IsModel(f) /\ Explored(f, lay, v, n, <<>>, Len(f)) /\ k \in 0 .. (n - 1)
      /\ Arranged(v, k, al, org)
  BY DEF Appended
<1>2. /\ n \in Nat /\ \A c \in 0 .. (n - 1) : v[c].tree \in Nat \ {0}
      /\ \A c, d \in 0 .. (n - 1) : v[c].tree = v[d].tree /\ v[c].id = v[d].id => c = d
  BY <1>1, VisitedOnce
<1>3. t \in Nat \ {0} /\ m \in Nat /\ k \in Nat /\ \A c \in 0 .. (k - 1) : c \in 0 .. (n - 1) /\ c # k
  BY <1>1, <1>2 DEF RootsPlaced
<1>4. ASSUME t <= m PROVE FALSE
  <2>1. t \in 1 .. m
    BY <1>3, <1>4
  <2>2. rts[t] \in 0 .. (Len(org) - 1) /\ org[rts[t] + 1] = <<t, 0>>
    BY <2>1 DEF RootsPlaced
  <2>3. \A p \in 0 .. (Len(org) - 1) :
          org[p + 1] = <<0, 0>> \/ \E c \in 0 .. (k - 1) : Match(v, org, p, c)
    BY <1>1 DEF Arranged
  <2>4. PICK c \in 0 .. (k - 1) : Match(v, org, rts[t], c)
    <3> HIDE DEF t
    <3>1. org[rts[t] + 1] # <<0, 0>>
      BY <1>3, <2>2
    <3> QED
      BY <2>2, <2>3, <3>1
  <2>5. v[c].tree = t /\ v[c].id = 0
    BY <2>2, <2>4 DEF Match
  <2> QED
    BY <1>1, <1>2, <1>3, <2>5
<1>5. ASSUME t > m + 1 PROVE FALSE
  <2>1. m + 1 \in 1 .. (t - 1)
    BY <1>3, <1>5
  <2>2. \A u \in 1 .. (t - 1) : \E b \in 0 .. (k - 1) : v[b].tree = u /\ v[b].id = 0
    BY <1>1 DEF Explored, RootsInTurn
  <2>3. PICK b \in 0 .. (k - 1) : v[b].tree = m + 1 /\ v[b].id = 0
    BY <2>1, <2>2
  <2>4. v[b].tree <= m
    BY <2>3 DEF RootsPlaced
  <2> QED
    BY <1>3, <2>3, <2>4
<1> HIDE DEF t, m
<1>6. t = m + 1
  BY <1>3, <1>4, <1>5
<1> QED
  BY <1>6 DEF t, m

LEMMA RootsAppended ==
  ASSUME NEW f, NEW lay, NEW v, NEW n, NEW k, NEW al, NEW org, NEW pad, NEW new,
         Appended(f, lay, v, n, k, al, org, pad, new),
         NEW rts, RootsPlaced(v, k, al, org, rts),
         v[k].id = 0 /\ al # 0 => (Len(org) + pad) % al = 0,
         NEW more, more = IF v[k].id = 0 THEN Append(rts, Len(org) + pad) ELSE rts
  PROVE  RootsPlaced(v, k + 1, al, new, more)
<1> DEFINE w == Len(org) + pad
           m == Len(rts)
<1> HIDE DEF w, m
<1>1. k \in Nat /\ pad \in Nat /\ rts \in Seq(Nat) /\ m \in Nat
  BY DEF Appended, RootsPlaced, m
<1>2. /\ new \in Seq(Nat \X Nat) /\ Len(new) = Len(org) + pad + 1 /\ Len(org) \in Nat
      /\ \A p \in 0 .. (Len(org) - 1) : new[p + 1] = org[p + 1]
      /\ Match(v, new, Len(org) + pad, k)
  <2>1. ExtendedBy(v, k, org, pad, new)
    BY AppendedFacts
  <2> QED
    BY <2>1 DEF ExtendedBy
<1>3. Len(new) = w + 1 /\ w \in Nat /\ Len(org) <= w /\ Match(v, new, w, k)
  BY <1>1, <1>2 DEF w
<1> USE DEF w, m
<1>4. ASSUME NEW t \in 1 .. m
      PROVE  /\ rts[t] \in 0 .. (Len(new) - 1)
             /\ new[rts[t] + 1] = <<t, 0>>
             /\ al # 0 => rts[t] % al = 0
  <2>1. rts[t] \in 0 .. (Len(org) - 1) /\ org[rts[t] + 1] = <<t, 0>> /\ (al # 0 => rts[t] % al = 0)
    BY DEF RootsPlaced
  <2>2. new[rts[t] + 1] = <<t, 0>>
    BY <1>2, <2>1
  <2> HIDE DEF w, m
  <2> QED
    BY <1>2, <1>3, <2>1, <2>2
<1>5. \A c \in 0 .. ((k + 1) - 1) : c = k \/ c \in 0 .. (k - 1)
  BY <1>1
<1>6. \A c \in 0 .. (k - 1) : v[c].id = 0 => v[c].tree <= m
  BY DEF RootsPlaced
<1>7. CASE v[k].id # 0
  <2>1. more = rts /\ \A c \in 0 .. ((k + 1) - 1) : v[c].id = 0 => v[c].tree <= m
    BY <1>5, <1>6, <1>7
  <2> QED
    BY <1>1, <1>4, <2>1 DEF RootsPlaced
<1>8. CASE v[k].id = 0
  <2>1. v[k].tree = m + 1
    BY <1>8, NextRoot
  <2>2. w % al = 0 \/ al = 0
    BY <1>8
  <2>3. more = Append(rts, w)
    BY <1>8
  <2>a. \A c \in 0 .. (n - 1) : v[c].tree \in Nat \ {0}
    BY VisitedOnce DEF Appended
  <2>b. \A c \in 0 .. (k - 1) : c \in 0 .. (n - 1)
    BY DEF Appended, Explored
  <2> HIDE DEF w, m
  <2>4. /\ more \in Seq(Nat) /\ Len(more) = m + 1 /\ more[m + 1] = w
        /\ \A t \in 1 .. m : more[t] = rts[t]
    BY <1>1, <1>3, <2>3 DEF m
  <2>5. ASSUME NEW t \in 1 .. (m + 1)
        PROVE  /\ more[t] \in 0 .. (Len(new) - 1)
               /\ new[more[t] + 1] = <<t, 0>>
               /\ al # 0 => more[t] % al = 0
    <3>1. CASE t = m + 1
      <4>1. new[w + 1] = <<t, 0>>
        BY <1>3, <1>8, <2>1, <3>1 DEF Match
      <4> QED
        BY <1>3, <2>2, <2>4, <3>1, <4>1, SMTT(40)
    <3>2. CASE t # m + 1
      <4>1. t \in 1 .. m
        BY <1>1, <3>2
      <4>2. more[t] = rts[t]
        BY <2>4, <4>1
      <4> QED
        BY <1>4, <4>1, <4>2
    <3> QED
      BY <3>1, <3>2
  <2>6. ASSUME NEW c \in 0 .. ((k + 1) - 1), v[c].id = 0 PROVE v[c].tree <= m + 1
    <3>1. CASE c = k
      BY <1>1, <2>1, <3>1
    <3>2. CASE c \in 0 .. (k - 1)
      <4>1. v[c].tree <= m /\ v[c].tree \in Nat
        BY <1>6, <2>6, <2>a, <2>b, <3>2
      <4> QED
        BY <1>1, <4>1
    <3> QED
      BY <1>5, <3>1, <3>2
  <2> QED
    BY <2>4, <2>5, <2>6 DEF RootsPlaced
<1> QED
  BY <1>7, <1>8

-----------------------------------------------------------------------------
(* Lists of categories *)

LEMMA GreatestFacts ==
  ASSUME NEW S \in SUBSET Nat, S # {}, NEW b \in Nat, \A c \in S : c <= b
  PROVE  Greatest(S) \in S /\ \A c \in S : c <= Greatest(S)
<1> DEFINE U == {n \in Nat : \A c \in S : c <= n}
<1>1. U \subseteq Nat /\ U # {}
  OBVIOUS
<1>2. PICK m \in U : \A n \in U : m <= n
  BY <1>1, LeastNat
<1>3. m \in Nat /\ \A c \in S : c \in Nat /\ c <= m
  BY <1>2
<1>4. m \in S
  <2>1. SUFFICES ASSUME m \notin S PROVE FALSE
    OBVIOUS
  <2>2. m # 0
    <3>1. PICK c \in S : TRUE
      OBVIOUS
    <3> QED
      BY <1>3, <2>1, <3>1
  <2>3. m - 1 \in Nat /\ \A c \in S : c <= m - 1
    <3>1. m - 1 \in Nat
      BY <1>3, <2>2
    <3>2. ASSUME NEW c \in S PROVE c <= m - 1
      <4>1. c \in Nat /\ c <= m
        BY <1>3
      <4>2. c # m
        BY <2>1
      <4> QED
        BY <1>3, <4>1, <4>2
    <3> QED
      BY <3>1, <3>2
  <2>4. m <= m - 1
    BY <1>2, <2>3
  <2> QED
    BY <1>3, <2>4
<1> QED
  BY <1>3, <1>4 DEF Greatest

Bins(cats) ==
  MaxPlusOne(cats) \div BinWidth + (IF MaxPlusOne(cats) % BinWidth # 0 THEN 1 ELSE 0)

LEMMA MaxPlusOneFacts ==
  ASSUME NEW cats \in SUBSET Nat, \A c \in cats : c < IndexLimit
  PROVE  /\ MaxPlusOne(cats) \in Nat \ {0} /\ MaxPlusOne(cats) <= IndexLimit
         /\ \A c \in cats : c < MaxPlusOne(cats)
         /\ cats # {} => /\ Greatest(cats) \in cats
                         /\ Greatest(cats) + 1 = MaxPlusOne(cats)
<1>1. IndexLimit \in Nat \ {0}
  BY SizesAssumption
<1>2. CASE cats = {}
  BY <1>1, <1>2 DEF MaxPlusOne
<1>3. CASE cats # {}
  <2>1. \A c \in cats : c \in Nat /\ c <= IndexLimit
    BY <1>1
  <2>2. Greatest(cats) \in cats /\ \A c \in cats : c <= Greatest(cats)
    BY <1>1, <1>3, <2>1, GreatestFacts
  <2>3. MaxPlusOne(cats) = Greatest(cats) + 1
    BY <1>3 DEF MaxPlusOne
  <2>4. Greatest(cats) \in Nat /\ Greatest(cats) < IndexLimit
    BY <2>1, <2>2
  <2> DEFINE g == Greatest(cats)
  <2> HIDE DEF g
  <2>5. \A c \in cats : c < g + 1
    BY <2>1, <2>2, <2>4 DEF g
  <2> QED
    BY <1>1, <2>2, <2>3, <2>4, <2>5 DEF g
<1> QED
  BY <1>2, <1>3

LEMMA BitsetFacts ==
  ASSUME NEW cats \in SUBSET Nat, \A c \in cats : c < IndexLimit
  PROVE  /\ Bitset(cats) \in Seq(Bin) /\ Len(Bitset(cats)) = Bins(cats) + 1 /\ Bins(cats) \in Nat
         /\ Bitset(cats)[1].count = MaxPlusOne(cats)
         /\ \A x \in Nat : x < MaxPlusOne(cats) =>
              /\ x \div BinWidth + 2 \in 1 .. (Bins(cats) + 1)
              /\ x % BinWidth \in Bitset(cats)[x \div BinWidth + 2].bin <=> x \in cats
<1> DEFINE size == MaxPlusOne(cats)
           bins == Bins(cats)
           head == [count |-> size, bin |-> {}]
           part(b) == {d \in cats : d \div BinWidth = b - 1}
           rest == [b \in 1 .. bins |-> [count |-> 0, bin |-> {c % BinWidth : c \in part(b)}]]
<1>1. size \in Nat \ {0} /\ BinWidth \in Nat \ {0}
  BY SizesAssumption, MaxPlusOneFacts
<1>2. bins \in Nat /\ size <= bins * BinWidth
  BY <1>1, RoundedUp, ZenonT(60) DEF Bins
<1>3. Bitset(cats) = <<head>> \o rest
  BY DEF Bitset, Bins
<1>4. head \in Bin /\ rest \in Seq(Bin) /\ Len(rest) = bins
  <2>1. head \in Bin
    <3> HIDE DEF size
    <3> QED
      BY <1>1 DEF Bin
  <2>2. ASSUME NEW b \in 1 .. bins
        PROVE  [count |-> 0, bin |-> {c % BinWidth : c \in part(b)}] \in Bin
    <3>1. \A c \in part(b) : c \in Nat
      OBVIOUS
    <3> HIDE DEF part
    <3>2. \A c \in part(b) : c % BinWidth \in Nat
      BY <1>1, <3>1
    <3> QED
      BY <3>2 DEF Bin
  <2> HIDE DEF part, bins
  <2>3. rest \in [1 .. bins -> Bin]
    BY <2>2
  <2> QED
    BY <1>2, <2>1, <2>3
<1>5. \A b \in 1 .. bins : rest[b].bin = {c % BinWidth : c \in part(b)}
  OBVIOUS
<1> HIDE DEF rest, bins
<1>6. /\ Bitset(cats) \in Seq(Bin) /\ Len(Bitset(cats)) = bins + 1
      /\ Bitset(cats)[1] = head
      /\ \A b \in 1 .. bins : Bitset(cats)[b + 1] = rest[b]
  <2> HIDE DEF head
  <2> QED
    BY <1>3, <1>4, HeadedFacts
<1>7. ASSUME NEW x \in Nat, x < size
      PROVE  /\ x \div BinWidth + 2 \in 1 .. (bins + 1)
             /\ x % BinWidth \in Bitset(cats)[x \div BinWidth + 2].bin <=> x \in cats
  <2> DEFINE q == x \div BinWidth
  <2>1. q \in Nat
    BY <1>1, DivMod
  <2>2. q < bins
    <3>1. bins * BinWidth \in Nat
      BY <1>1, <1>2, MulNat
    <3>2. x < bins * BinWidth
      <4> HIDE DEF size
      <4> QED
        BY <1>1, <1>2, <1>7, <3>1
    <3> QED
      BY <1>1, <1>2, <3>2, QuotientBelow
  <2>3. /\ q + 1 \in 1 .. bins /\ q + 2 \in 1 .. (bins + 1) /\ (q + 1) + 1 = q + 2 /\ (q + 1) - 1 = q
    <3> HIDE DEF q
    <3> QED
      BY <1>2, <2>1, <2>2
  <2>4. Bitset(cats)[q + 2].bin = {c % BinWidth : c \in part(q + 1)}
    <3> HIDE DEF q, part
    <3> QED
      BY <1>5, <1>6, <2>3
  <2>5. part(q + 1) = {d \in cats : d \div BinWidth = q}
    <3> HIDE DEF q
    <3> QED
      BY <2>3
  <2>6. ASSUME NEW d \in cats, d \div BinWidth = q, d % BinWidth = x % BinWidth
        PROVE  d = x
    <3>1. d \in Nat /\ d = (d \div BinWidth) * BinWidth + (d % BinWidth)
      BY <1>1, DivMod
    <3>2. x = q * BinWidth + (x % BinWidth)
      BY <1>1, DivMod
    <3> QED
      BY <2>6, <3>1, <3>2
  <2>7. x \in cats => x \in part(q + 1)
    BY <2>5
  <2> HIDE DEF part
  <2>8. x % BinWidth \in Bitset(cats)[q + 2].bin <=> x \in cats
    BY <2>4, <2>5, <2>6, <2>7
  <2> QED
    BY <2>3, <2>8
<1> HIDE DEF size
<1>8. Bitset(cats)[1].count = size
  BY <1>6
<1> QED
  BY <1>2, <1>6, <1>7, <1>8 DEF size, bins

-----------------------------------------------------------------------------
(* A node is built. *)

LEMMA StoredKept ==
  ASSUME NEW n \in Node, NEW offset, NEW node, NEW nonlocal,
         NEW vec, NEW sto, StoredAs(n, offset, node, nonlocal, vec, sto),
         NEW vec2, NEW sto2, Longer(vec, vec2), Longer(sto, sto2)
  PROVE  StoredAs(n, offset, node, nonlocal, vec2, sto2)
<1>1. Len(n.out) \in Nat
  BY DEF Node
<1>2. ASSUME StoredLeafAs(n, node, vec) PROVE StoredLeafAs(n, node, vec2)
  BY <1>1, <1>2, WithinLonger DEF StoredLeafAs
<1>3. ASSUME StoredCategoryAs(n, offset, node, nonlocal, sto)
      PROVE  StoredCategoryAs(n, offset, node, nonlocal, sto2)
  <2>1. n.cats \in SUBSET Nat /\ \A c \in n.cats : c < IndexLimit
    BY <1>3 DEF StoredCategoryAs, Representable, Node
  <2>2. Len(Bitset(n.cats)) \in Nat
    <3>1. Len(Bitset(n.cats)) = Bins(n.cats) + 1 /\ Bins(n.cats) \in Nat
      BY <2>1, BitsetFacts
    <3> QED
      BY <3>1
  <2>3. Within(Bitset(n.cats), sto, node.index) => Within(Bitset(n.cats), sto2, node.index)
    BY <2>2, WithinLonger
  <2> QED
    BY <1>3, <2>3 DEF StoredCategoryAs
<1> QED
  BY <1>2, <1>3 DEF StoredAs

LEMMA NodesAppended ==
  ASSUME NEW f, NEW lay, NEW v, NEW n, NEW k, NEW al, NEW org, NEW pad, NEW new,
         Appended(f, lay, v, n, k, al, org, pad, new),
         NEW idz, NEW nds, NEW offs, NEW nonlocal, NEW vec, NEW sto,
         NodesStored(f, v, k, org, idz, nds, offs, nonlocal, vec, sto),
         NEW vec2, NEW sto2, Longer(vec, vec2), Longer(sto, sto2),
         NEW filler \in StoredNode, NEW node \in StoredNode,
         NEW idz2, Padded(idz, pad, 0, v[k].id, idz2),
         NEW nds2, Padded(nds, pad, filler, node, nds2),
         StoredAs(At(f, v[k]), offs[k], node, nonlocal, vec2, sto2)
  PROVE  NodesStored(f, v, k + 1, new, idz2, nds2, offs, nonlocal, vec2, sto2)
<1>1. /\ IsModel(f) /\ Explored(f, lay, v, n, <<>>, Len(f)) /\ k \in 0 .. (n - 1)
      /\ pad \in Nat /\ n \in Nat
  BY VisitedOnce DEF Appended
<1>2. v[k].id \in Nat /\ 0 \in Nat
  BY <1>1, VisitedOnce
<1>3. /\ new \in Seq(Nat \X Nat) /\ Len(new) = Len(org) + pad + 1 /\ Len(org) \in Nat
      /\ \A p \in 0 .. (Len(org) - 1) : new[p + 1] = org[p + 1]
      /\ Match(v, new, Len(org) + pad, k)
  <2>1. ExtendedBy(v, k, org, pad, new)
    BY AppendedFacts
  <2> QED
    BY <2>1 DEF ExtendedBy
<1>4. /\ idz \in Seq(Nat) /\ Len(idz) = Len(org)
      /\ nds \in Seq(StoredNode) /\ Len(nds) = Len(org)
  BY DEF NodesStored
<1>5. /\ idz2 \in Seq(Nat) /\ Len(idz2) = Len(idz) + pad + 1
      /\ \A i \in 1 .. Len(idz) : idz2[i] = idz[i]
      /\ idz2[Len(idz) + pad + 1] = v[k].id
  <2> DEFINE last == v[k].id
             zero == 0
             Ids0 == Nat
  <2>1. last \in Ids0 /\ zero \in Ids0 /\ idz \in Seq(Ids0) /\ Padded(idz, pad, zero, last, idz2)
    BY <1>2, <1>4
  <2> HIDE DEF last, zero, Ids0
  <2>2. /\ idz2 \in Seq(Ids0) /\ Len(idz2) = Len(idz) + pad + 1 /\ Len(idz) \in Nat
        /\ \A i \in 1 .. Len(idz) : idz2[i] = idz[i]
        /\ \A i \in (Len(idz) + 1) .. (Len(idz) + pad) : idz2[i] = zero
        /\ idz2[Len(idz) + pad + 1] = last
    BY <1>1, <2>1, PaddedFacts
  <2> QED
    BY <2>2 DEF last, Ids0
<1>6. /\ nds2 \in Seq(StoredNode) /\ Len(nds2) = Len(nds) + pad + 1 /\ Len(nds) \in Nat
      /\ \A i \in 1 .. Len(nds) : nds2[i] = nds[i]
      /\ \A i \in (Len(nds) + 1) .. (Len(nds) + pad) : nds2[i] = filler
      /\ nds2[Len(nds) + pad + 1] = node
  <2> DEFINE Stored0 == StoredNode
  <2>1. filler \in Stored0 /\ node \in Stored0 /\ nds \in Seq(Stored0)
        /\ Padded(nds, pad, filler, node, nds2)
    BY <1>4
  <2> HIDE DEF Stored0
  <2>2. /\ nds2 \in Seq(Stored0) /\ Len(nds2) = Len(nds) + pad + 1 /\ Len(nds) \in Nat
        /\ \A i \in 1 .. Len(nds) : nds2[i] = nds[i]
        /\ \A i \in (Len(nds) + 1) .. (Len(nds) + pad) : nds2[i] = filler
        /\ nds2[Len(nds) + pad + 1] = node
    BY <1>1, <2>1, PaddedFacts
  <2> QED
    BY <2>2 DEF Stored0
<1>7. ASSUME NEW p \in 0 .. (Len(org) + pad), NEW c \in 0 .. k, Match(v, new, p, c)
      PROVE  /\ idz2[p + 1] = v[c].id
             /\ StoredAs(At(f, v[c]), offs[c], nds2[p + 1], nonlocal, vec2, sto2)
  <2>1. CASE p = Len(org) + pad /\ c = k
    BY <1>4, <1>5, <1>6, <2>1
  <2>2. CASE p \in 0 .. (Len(org) - 1) /\ c \in 0 .. (k - 1) /\ Match(v, org, p, c)
    <3>1. /\ idz[p + 1] = v[c].id
          /\ StoredAs(At(f, v[c]), offs[c], nds[p + 1], nonlocal, vec, sto)
      BY <2>2 DEF NodesStored
    <3>a. c \in 0 .. (n - 1)
      BY <1>1, <2>2
    <3>b. p + 1 \in 1 .. Len(org)
      BY <1>3, <2>2
    <3>2. p + 1 \in 1 .. Len(org) /\ c \in 0 .. (n - 1)
      BY <3>a, <3>b
    <3>3. idz2[p + 1] = idz[p + 1] /\ nds2[p + 1] = nds[p + 1]
      BY <1>4, <1>5, <1>6, <3>2
    <3>4. At(f, v[c]) \in Node
      BY <1>1, <3>2, VisitedNodes, AtFacts
    <3>5. StoredAs(At(f, v[c]), offs[c], nds[p + 1], nonlocal, vec2, sto2)
      BY <3>1, <3>4, StoredKept
    <3> QED
      BY <3>1, <3>3, <3>5
  <2>3. \/ p = Len(org) + pad /\ c = k
        \/ p \in 0 .. (Len(org) - 1) /\ c \in 0 .. (k - 1) /\ Match(v, org, p, c)
    BY <1>7, AppendedMatch
  <2> QED
    BY <2>1, <2>2, <2>3
<1>8. (k + 1) - 1 = k /\ Len(new) - 1 = Len(org) + pad /\ Len(idz2) = Len(new) /\ Len(nds2) = Len(new)
  <2>1. k \in Nat
    BY <1>1
  <2> QED
    BY <1>1, <1>3, <1>4, <1>5, <1>6, <2>1
<1> QED
  BY <1>5, <1>6, <1>7, <1>8 DEF NodesStored

-----------------------------------------------------------------------------
(* The builder's steps *)

LEMMA PaddingFills ==
  ASSUME NEW m \in Nat, NEW al \in Nat \ {0}
  PROVE  (m + (IF m % al = 0 THEN 0 ELSE al - (m % al))) % al = 0
<1> DEFINE q == m \div al
           r == m % al
           pad == IF r = 0 THEN 0 ELSE al - r
<1>1. q \in Nat /\ r \in 0 .. (al - 1) /\ m = q * al + r
  BY DivMod
<1> HIDE DEF q, r
<1>2. m + pad = (IF r = 0 THEN q ELSE q + 1) * al
  <2>1. CASE r = 0
    BY <1>1, <2>1
  <2>2. CASE r # 0
    <3>1. (q + 1) * al = q * al + al /\ q * al \in Nat
      BY <1>1, MulNat
    <3> QED
      BY <1>1, <2>2, <3>1
  <2> QED
    BY <2>1, <2>2
<1> DEFINE u == IF r = 0 THEN q ELSE q + 1
<1>3. u \in Nat /\ m + pad = u * al
  BY <1>1, <1>2
<1>4. u * al \in Nat
  BY <1>3, MulNat
<1> HIDE DEF u, pad
<1>5. 0 \in 0 .. (al - 1) /\ u * al + 0 = u * al
  BY <1>4
<1>6. (u * al) % al = 0
  BY <1>3, <1>5, DivUnique
<1> QED
  BY <1>3, <1>6 DEF pad, r

LEMMA AlignmentFacts ==
  ASSUME ArgumentsInv
  PROVE  Alignment \in Nat /\ (Alignment # 0 => layout # Layered)
  BY SizesAssumption DEF ArgumentsInv, Alignment, Layered

LEMMA AddNodeFacts ==
  ASSUME ArgumentsInv, TraversalInv, BuildInv, phase = "build", todo # <<>>,
         NEW stored, AddNode(Head(todo), stored), NEW pad, pad = Padding(Head(todo).depth),
         NEW v, v = Order(forest, layout)
  PROVE  /\ Appended(forest, layout, v, Size(forest), cur, Alignment, origin, pad, origin')
         /\ Padded(ids, pad, 0, v[cur].id, ids')
         /\ Padded(nodes, pad, StoredLeaf(0, 0), stored, nodes')
         /\ roots' = IF v[cur].id = 0 THEN Append(roots, Len(origin) + pad) ELSE roots
         /\ v[cur].id = 0 /\ Alignment # 0 => (Len(origin) + pad) % Alignment = 0
<1> DEFINE x == Head(todo)
           m == Len(nodes)
           al == Alignment
<1>1. /\ IsModel(forest) /\ cur \in 0 .. (Size(forest) - 1) /\ v[cur] = x
      /\ Explored(forest, layout, v, Size(forest), <<>>, Len(forest))
  BY BuildHead DEF WholePass, FirstPass
<1>2. al \in Nat /\ (al # 0 => layout # Layered)
  BY AlignmentFacts
<1>3. /\ Arranged(v, cur, al, origin)
      /\ NodesStored(forest, v, cur, origin, ids, nodes, offsets, Nonlocal, vector, storage)
  BY DEF BuildInv
<1>4. m = Len(origin) /\ m \in Nat /\ (cur = 0 => m = 0)
  <2>1. m = Len(origin) /\ nodes \in Seq(StoredNode)
    BY <1>3 DEF NodesStored
  <2>2. cur = 0 => origin = <<>>
    BY <1>3 DEF Arranged
  <2> QED
    BY <2>1, <2>2
<1>5. x.depth = 0 <=> x.id = 0
  <2>1. \A c \in 0 .. (Size(forest) - 1) : Placed(forest, v, c, c, v[c])
    BY <1>1 DEF Explored, ItemsPlaced
  <2> QED
    BY <1>1, <2>1 DEF Placed, IsItem
<1>6. pad = IF x.depth # 0 \/ al = 0 \/ m % al = 0 THEN 0 ELSE al - (m % al)
  BY DEF Padding
<1>7. /\ Padded(nodes, pad, StoredLeaf(0, 0), stored, nodes')
      /\ Padded(ids, pad, 0, x.id, ids')
      /\ Padded(origin, pad, <<0, 0>>, <<x.tree, x.id>>, origin')
      /\ roots' = IF x.depth = 0 THEN Append(roots, m + pad) ELSE roots
  BY DEF AddNode, Padded
<1> HIDE DEF x, m, al
<1>8. ASSUME al # 0 PROVE m % al \in 0 .. (al - 1) /\ (m < al => m % al = m)
  BY <1>2, <1>4, <1>8, DivMod
<1>9. pad \in Nat /\ (pad # 0 => x.id = 0 /\ al # 0 /\ cur # 0)
  <2>1. CASE x.depth # 0 \/ al = 0 \/ m % al = 0
    BY <1>6, <2>1
  <2>2. CASE ~(x.depth # 0 \/ al = 0 \/ m % al = 0)
    <3>1. m % al \in 0 .. (al - 1) /\ (m < al => m % al = m) /\ m % al # 0 /\ al # 0 /\ x.id = 0
      BY <1>5, <1>8, <2>2
    <3>2. cur # 0
      BY <1>2, <1>4, <3>1
    <3>3. pad = al - (m % al)
      BY <1>6, <2>2
    <3> DEFINE r == m % al
    <3> HIDE DEF r
    <3>4. pad \in Nat
      BY <1>2, <3>1, <3>3 DEF r
    <3> QED
      BY <3>1, <3>2, <3>4
  <2> QED
    BY <2>1, <2>2
<1>10. ASSUME x.id = 0, al # 0 PROVE (m + pad) % al = 0
  <2>1. pad = IF m % al = 0 THEN 0 ELSE al - (m % al)
    BY <1>5, <1>6, <1>10
  <2> QED
    BY <1>2, <1>4, <1>10, <2>1, PaddingFills
<1>11. Appended(forest, layout, v, Size(forest), cur, al, origin, pad, origin')
  BY <1>1, <1>2, <1>3, <1>7, <1>9 DEF Appended
<1> QED
  BY <1>1, <1>4, <1>5, <1>7, <1>10, <1>11 DEF al

LEMMA BuildAppended ==
  ASSUME ArgumentsInv, TraversalInv, BuildInv, BuildStep, align' = align,
         NEW stored \in StoredNode, AddNode(Head(todo), stored),
         Longer(vector, vector'), Longer(storage, storage'), OutputsStored', storage' \in Seq(Bin),
         StoredAs(NodeAt(Head(todo)), offsets[cur], stored, Nonlocal, vector', storage')
  PROVE  BuildInv'
<1> DEFINE v == Order(forest, layout)
           al == Alignment
           non == Nonlocal
           n == Size(forest)
           pad == Padding(Head(todo).depth)
           offs == offsets
<1>1. /\ phase = "build" /\ phase' = "build" /\ todo # <<>> /\ cur' = cur + 1
      /\ forest' = forest /\ layout' = layout /\ offsets' = offsets
  BY DEF BuildStep
<1>2. /\ Appended(forest, layout, v, n, cur, al, origin, pad, origin')
      /\ Padded(ids, pad, 0, v[cur].id, ids')
      /\ Padded(nodes, pad, StoredLeaf(0, 0), stored, nodes')
      /\ roots' = IF v[cur].id = 0 THEN Append(roots, Len(origin) + pad) ELSE roots
      /\ v[cur].id = 0 /\ al # 0 => (Len(origin) + pad) % al = 0
  BY <1>1, AddNodeFacts
<1>3. /\ RootsPlaced(v, cur, al, origin, roots)
      /\ NodesStored(forest, v, cur, origin, ids, nodes, offs, non, vector, storage)
  BY <1>1 DEF BuildInv
<1>4. v[cur] = Head(todo) /\ At(forest, v[cur]) = NodeAt(Head(todo))
  BY <1>1, BuildHead DEF At, NodeAt
<1>5. StoredLeaf(0, 0) \in StoredNode
  BY DEF StoredLeaf, Stored, StoredNode
<1>6. StoredAs(At(forest, v[cur]), offs[cur], stored, non, vector', storage')
  BY <1>4
<1> HIDE DEF v, al, non, n, pad, offs
<1>7. Arranged(v, cur + 1, al, origin')
  BY <1>2, AppendedArranged
<1>8. RootsPlaced(v, cur + 1, al, origin', roots')
  BY <1>2, <1>3, RootsAppended
<1>9. NodesStored(forest, v, cur + 1, origin', ids', nodes', offs, non, vector', storage')
  BY <1>2, <1>3, <1>5, <1>6, NodesAppended
<1>10. v = Order(forest', layout') /\ al = Alignment' /\ non = Nonlocal' /\ offs = offsets'
  BY <1>1 DEF v, al, non, offs, Alignment, Nonlocal, MaxNumCategories
<1> QED
  BY <1>1, <1>7, <1>8, <1>9, <1>10 DEF BuildInv

LEMMA BuildFacts ==
  ASSUME ArgumentsInv, TraversalInv, BuildInv, phase = "build", todo # <<>>
  PROVE  /\ NodeAt(Head(todo)) \in Node
         /\ cur \in 0 .. (Size(forest) - 1) /\ offsets[cur] \in Nat
         /\ storage \in Seq(Bin) /\ OutputsStored
<1>1. NodeAt(Head(todo)) \in Node
  BY HeadOfSource
<1>2. cur \in 0 .. (Size(forest) - 1) /\ offsets \in [0 .. (Size(forest) - 1) -> Nat]
  BY BuildHead DEF TraversalInv
<1>3. storage \in Seq(Bin) /\ OutputsStored
  BY DEF BuildInv
<1> QED
  BY <1>1, <1>2, <1>3

LEMMA NumericBuilt ==
  ASSUME ArgumentsInv, TraversalInv, BuildInv, BuildNumeric
  PROVE  BuildInv'
<1> DEFINE n == NodeAt(Head(todo))
           k == offsets[cur]
           bound == 2 * n.threshold + (IF IsInclusive(n) THEN 1 ELSE 0)
           stored == Stored(k, DefaultDistant(n), FALSE, bound, {}, 0, 0)
           non == Nonlocal
<1>1. /\ phase = "build" /\ todo # <<>> /\ n.kind \in Operators /\ AddNode(Head(todo), stored)
      /\ vector' = vector /\ storage' = storage /\ leaf_size' = leaf_size /\ align' = align
  BY DEF BuildNumeric
<1>2. n \in Node /\ k \in Nat /\ storage \in Seq(Bin) /\ OutputsStored
  BY <1>1, BuildFacts
<1>3. BuildStep
  BY BuildSteps
<1> HIDE DEF n, k, non
<1>4. bound \in Int /\ DefaultDistant(n) \in BOOLEAN
  BY <1>2 DEF Node, DefaultDistant
<1>5. stored \in StoredNode
  <2> HIDE DEF bound
  <2> QED
    BY <1>2, <1>4 DEF Stored, StoredNode
<1>6. StoredAs(n, k, stored, non, vector', storage')
  BY <1>1 DEF StoredAs, Operators, IsLeaf
<1>7. /\ Longer(vector, vector') /\ Longer(storage, storage')
      /\ OutputsStored' /\ storage' \in Seq(Bin)
  BY <1>1, <1>2, LongerSame DEF OutputsStored
<1> HIDE DEF stored
<1> QED
  BY <1>1, <1>3, <1>5, <1>6, <1>7, BuildAppended DEF n, k, non

LEMMA CategoryBuilt ==
  ASSUME ArgumentsInv, TraversalInv, BuildInv, BuildCategory
  PROVE  BuildInv'
<1> DEFINE n == NodeAt(Head(todo))
           k == offsets[cur]
           non == Nonlocal
           stored == Stored(k, DefaultDistant(n), TRUE, 0, IF non THEN {} ELSE n.cats,
                            IF non THEN Len(storage) ELSE 0, 0)
<1>1. /\ phase = "build" /\ todo # <<>> /\ n.kind = "category" /\ Representable(n)
      /\ AddNode(Head(todo), stored)
      /\ storage' = IF non THEN storage \o Bitset(n.cats) ELSE storage
      /\ vector' = vector /\ leaf_size' = leaf_size /\ align' = align
  BY DEF BuildCategory, Nonlocal
<1>2. n \in Node /\ k \in Nat /\ storage \in Seq(Bin) /\ OutputsStored
  BY <1>1, BuildFacts
<1>3. BuildStep
  BY BuildSteps
<1> HIDE DEF n, k, non
<1>4. n.cats \in SUBSET Nat /\ DefaultDistant(n) \in BOOLEAN /\ Len(storage) \in Nat
  BY <1>2 DEF Node, DefaultDistant
<1>5. stored \in StoredNode
  BY <1>2, <1>4 DEF Stored, StoredNode
<1>6. Bitset(n.cats) \in Seq(Bin)
  BY <1>1, <1>4, BitsetFacts DEF Representable
<1>7. /\ Longer(storage, storage') /\ storage' \in Seq(Bin)
      /\ non => Within(Bitset(n.cats), storage', Len(storage))
  <2>1. CASE non
    <3>1. Joined(storage, Bitset(n.cats), storage')
      BY <1>1, <2>1 DEF Joined
    <3> QED
      BY <1>2, <1>6, <3>1, LongerConcat
  <2>2. CASE ~non
    BY <1>1, <1>2, <2>2, LongerSame
  <2> QED
    BY <2>1, <2>2
<1>8. StoredAs(n, k, stored, non, vector', storage')
  <2>1. StoredCategoryAs(n, k, stored, non, storage')
    BY <1>1, <1>7 DEF StoredCategoryAs, Stored
  <2> QED
    BY <1>1, <2>1 DEF StoredAs, Operators, IsLeaf
<1>9. Longer(vector, vector') /\ OutputsStored'
  BY <1>1, <1>2, LongerSame DEF OutputsStored
<1> HIDE DEF stored
<1> QED
  BY <1>1, <1>3, <1>5, <1>7, <1>8, <1>9, BuildAppended DEF n, k, non

LEMMA LeafBuilt ==
  ASSUME ArgumentsInv, TraversalInv, BuildInv, BuildLeaf
  PROVE  BuildInv'
<1> DEFINE n == NodeAt(Head(todo))
           m == Len(n.out)
           i == Len(vector) \div m
           k == offsets[cur]
           non == Nonlocal
           stored == IF m > 1 THEN StoredLeaf(i, 0) ELSE StoredLeaf(0, n.out[1])
<1>1. /\ phase = "build" /\ todo # <<>> /\ IsLeaf(n) /\ SizeConsistent(n) /\ leaf_size' = m
      /\ AddNode(Head(todo), stored)
      /\ vector' = IF m > 1 THEN vector \o n.out ELSE vector
      /\ storage' = storage /\ align' = align
  BY DEF BuildLeaf
<1>2. n \in Node /\ k \in Nat /\ storage \in Seq(Bin) /\ OutputsStored
  BY <1>1, BuildFacts
<1>3. BuildStep
  BY BuildSteps
<1>4. n.out \in Seq(Nat) /\ m \in Nat /\ m > 0 /\ vector \in Seq(Nat) /\ leaf_size \in {1, m}
  BY <1>1, <1>2 DEF Node, SizeConsistent, OutputsStored
<1>a. m = Len(n.out) /\ i = Len(vector) \div m
  OBVIOUS
<1> HIDE DEF n, m, i, k, non
<1>5. /\ Len(vector) \in Nat /\ i \in Nat /\ i * m = Len(vector)
      /\ m = 1 => vector = <<>>
  <2>1. Len(vector) \in Nat
    BY <1>4
  <2>2. Len(vector) % m = 0 /\ (m = 1 => vector = <<>>)
    <3>1. CASE leaf_size = 1
      <4>1. vector = <<>>
        BY <1>2, <3>1 DEF OutputsStored
      <4>2. Len(vector) = 0
        BY <4>1
      <4> QED
        BY <1>4, <4>1, <4>2, DivMod
    <3>2. CASE leaf_size = m
      <4>1. Multiple(Len(vector), m) /\ (m = 1 => vector = <<>>)
        BY <1>2, <3>2 DEF OutputsStored
      <4> QED
        BY <4>1 DEF Multiple
    <3> QED
      BY <1>4, <3>1, <3>2
  <2>3. i \in Nat /\ Len(vector) = i * m + (Len(vector) % m)
    <3> DEFINE num == Len(vector)
    <3>1. num \in Nat /\ m \in Nat \ {0} /\ i = num \div m
      BY <1>4, <1>a, <2>1
    <3> HIDE DEF num
    <3>2. i \in Nat /\ num = i * m + (num % m)
      BY <3>1, DivMod
    <3> QED
      BY <3>2 DEF num
  <2>4. i * m \in Nat
    BY <1>4, <2>3, MulNat
  <2> QED
    BY <2>1, <2>2, <2>3, <2>4
<1>6. Longer(storage, storage') /\ storage' \in Seq(Bin)
  BY <1>1, <1>2, LongerSame
<1>7. CASE m > 1
  <2>1. stored = StoredLeaf(i, 0) /\ vector' = vector \o n.out
    BY <1>1, <1>7
  <2>2. Joined(vector, n.out, vector')
    BY <2>1 DEF Joined
  <2>3. /\ Longer(vector, vector') /\ vector' \in Seq(Nat)
        /\ Within(n.out, vector', Len(vector)) /\ Len(vector') = Len(vector) + Len(n.out)
    BY <1>4, <2>2, LongerConcat
  <2>4. Multiple(Len(vector'), m)
    <3>1. (i + 1) * m = i * m + m /\ i + 1 \in Nat
      BY <1>4, <1>5
    <3>2. Len(vector') = (i + 1) * m + 0 /\ 0 \in 0 .. (m - 1)
      <4> DEFINE num == Len(vector)
                 more == Len(vector')
      <4>1. more = num + m /\ num = i * m /\ num \in Nat
        BY <1>5, <1>a, <2>3
      <4> HIDE DEF num, more
      <4>2. more = (i + 1) * m + 0 /\ 0 \in 0 .. (m - 1)
        BY <1>4, <1>7, <3>1, <4>1
      <4> QED
        BY <4>2 DEF more
    <3>3. ((i + 1) * m + 0) % m = 0
      BY <1>4, <3>1, <3>2, DivUnique
    <3> QED
      BY <3>2, <3>3 DEF Multiple
  <2>5. OutputsStored'
    <3>1. leaf_size' \in Nat \ {0} /\ leaf_size' # 1 /\ Multiple(Len(vector'), leaf_size')
      BY <1>1, <1>4, <1>7, <2>4
    <3> QED
      BY <2>3, <3>1 DEF OutputsStored
  <2>6. stored \in StoredNode
    BY <1>5, <2>1 DEF StoredLeaf, Stored, StoredNode
  <2>7. StoredLeafAs(n, stored, vector')
    <3>1. stored.offset = 0 /\ stored.index = i
      BY <2>1 DEF StoredLeaf, Stored
    <3>2. Within(n.out, vector', stored.index * Len(n.out))
      BY <1>5, <1>a, <2>3, <3>1
    <3> QED
      <4>1. stored.index \in Nat
        BY <1>5, <3>1
      <4>2. m \in Nat \ {0} /\ m # 1
        BY <1>4, <1>7
      <4>3. Len(n.out) \in Nat \ {0} /\ Len(n.out) # 1
        BY <1>a, <4>2
      <4> HIDE DEF stored
      <4> QED
        BY <3>1, <3>2, <4>1, <4>3 DEF StoredLeafAs
  <2>8. StoredAs(n, k, stored, non, vector', storage')
    BY <1>1, <2>7 DEF StoredAs, Operators, IsLeaf
  <2> HIDE DEF stored
  <2> QED
    BY <1>1, <1>3, <1>6, <2>3, <2>5, <2>6, <2>8, BuildAppended DEF n, k, non
<1>8. CASE ~(m > 1)
  <2>1. m = 1 /\ stored = StoredLeaf(0, n.out[1]) /\ vector' = vector /\ vector = <<>>
    BY <1>1, <1>4, <1>5, <1>8
  <2>2. n.out[1] \in Nat
    BY <1>4, <2>1 DEF m
  <2>3. stored \in StoredNode
    BY <2>1, <2>2 DEF StoredLeaf, Stored, StoredNode
  <2>4. StoredLeafAs(n, stored, vector')
    <3>1. stored.offset = 0 /\ stored.output = n.out[1]
      BY <2>1 DEF StoredLeaf, Stored
    <3> QED
      BY <2>1, <3>1 DEF StoredLeafAs, m
  <2>5. StoredAs(n, k, stored, non, vector', storage')
    BY <1>1, <2>4 DEF StoredAs, Operators, IsLeaf
  <2>6. Longer(vector, vector')
    BY <1>4, <2>1, LongerSame
  <2>7. OutputsStored'
    <3>1. Multiple(Len(vector'), 1)
      BY <1>5, <2>1 DEF Multiple
    <3> QED
      BY <1>1, <1>4, <2>1, <3>1 DEF OutputsStored
  <2> HIDE DEF stored
  <2> QED
    BY <1>1, <1>3, <1>6, <2>3, <2>5, <2>6, <2>7, BuildAppended DEF n, k, non
<1> QED
  BY <1>7, <1>8

LEMMA BuildInvStep ==
  ASSUME ArgumentsInv, TraversalInv, BuildInv, [Next]_vars
  PROVE  BuildInv'
<1>1. CASE OffsetsDone
  <2>1. /\ phase = "offsets" /\ phase' = "build" /\ cur' = 0
        /\ nodes' = nodes /\ ids' = ids /\ roots' = roots /\ vector' = vector
        /\ storage' = storage /\ leaf_size' = leaf_size /\ origin' = origin
    BY <1>1 DEF OffsetsDone, builtVars
  <2>2. /\ nodes' = <<>> /\ ids' = <<>> /\ origin' = <<>> /\ roots' = <<>>
        /\ vector' = <<>> /\ storage' = <<>> /\ leaf_size' = 1
    BY <2>1 DEF ArgumentsInv
  <2> DEFINE v == Order(forest', layout')
  <2> HIDE DEF v
  <2>3. \A al : Arranged(v, 0, al, <<>>) /\ RootsPlaced(v, 0, al, <<>>, <<>>)
    BY DEF Arranged, RootsPlaced
  <2>4. \A f, offs, non : NodesStored(f, v, 0, <<>>, <<>>, <<>>, offs, non, <<>>, <<>>)
    BY DEF NodesStored
  <2>5. OutputsStored'
    BY <2>2 DEF OutputsStored, Multiple
  <2> QED
    BY <2>1, <2>2, <2>3, <2>4, <2>5 DEF BuildInv, v
<1>2. CASE UNCHANGED <<forest, layout, align, cur, offsets, builtVars>> /\ phase \in {"build", "ready"}
  BY <1>2 DEF BuildInv, builtVars, Alignment, Nonlocal, MaxNumCategories, OutputsStored
<1>3. CASE phase' \notin {"build", "ready"}
  BY <1>3 DEF BuildInv
<1>4. CASE Finish
  <2>1. /\ phase = "build" /\ forest' = forest /\ layout' = layout /\ align' = align
        /\ cur' = cur /\ offsets' = offsets /\ UNCHANGED builtVars
    BY <1>4 DEF Finish, passVars
  <2> QED
    BY <1>2, <2>1
<1>5. CASE StartTrees
  <2>1. /\ phase' = phase /\ forest' = forest /\ layout' = layout /\ align' = align
        /\ cur' = cur /\ offsets' = offsets /\ UNCHANGED builtVars
    BY <1>5 DEF StartTrees
  <2> QED
    BY <1>2, <1>3, <2>1
<1>6. CASE UNCHANGED importVars
  <2>1. /\ phase' = phase /\ forest' = forest /\ layout' = layout /\ align' = align
        /\ cur' = cur /\ offsets' = offsets /\ UNCHANGED builtVars
    BY <1>6 DEF importVars, passVars, builtVars
  <2> QED
    BY <1>2, <1>3, <2>1
<1>7. CASE Convert \/ VisitOffset \/ Fail
  BY <1>3, <1>7 DEF Convert, VisitOffset, Fail
<1> QED
  BY <1>1, <1>4, <1>5, <1>6, <1>7, NumericBuilt, CategoryBuilt, LeafBuilt
  DEF Next, Importing, Ask, Descend, Return, Over, vars

ImportInv == ArgumentsInv /\ TraversalInv /\ BuildInv

(* While the second traversal builds the array, every node visited is at one
   position, at the distances the first traversal found its children at, what
   is stored of it says what the node says, and the ids, the categories and
   the output vectors kept aside are in step with it (treelite_importer.hpp,
   decision_forest_builder.hpp), for every model, layout and alignment. *)
THEOREM ImportInvariant == Spec => []ImportInv
<1>1. Init => ImportInv
  BY ArgumentsInit DEF Init, BuildInv, ImportInv
<1>2. ImportInv /\ [Next]_vars => ImportInv'
  BY ArgumentsStep, TraversalStep, BuildInvStep DEF ImportInv
<1> QED
  BY <1>1, <1>2, PTL DEF Spec

-----------------------------------------------------------------------------
(* The finished array *)

LEMMA ReadyFacts ==
  ASSUME ImportInv, phase = "ready", NEW v, v = Order(forest, layout)
  PROVE  /\ IsModel(forest) /\ cur \in Nat /\ cur = Size(forest)
         /\ Explored(forest, layout, v, cur, <<>>, Len(forest))
         /\ OffsetsFound(forest, v, cur, offsets)
         /\ Arranged(v, cur, Alignment, origin)
         /\ RootsPlaced(v, cur, Alignment, origin, roots)
         /\ NodesStored(forest, v, cur, origin, ids, nodes, offsets, Nonlocal, vector, storage)
         /\ \A c \in 0 .. (cur - 1) : /\ v[c].tree \in TreesOf(forest) /\ v[c].tree \in Nat \ {0}
                                      /\ v[c].id \in Ids(forest[v[c].tree])
         /\ Positions = 0 .. (Len(origin) - 1) /\ Len(origin) \in Nat
<1>1. IsModel(forest) /\ cur = Size(forest) /\ cur \in Nat
  BY ForestFacts DEF ImportInv, TraversalInv
<1>2. /\ Explored(forest, layout, v, cur, <<>>, Len(forest))
      /\ OffsetsFound(forest, v, cur, offsets)
  BY <1>1 DEF ImportInv, TraversalInv, WholePass, FirstPass
<1>3. /\ Arranged(v, cur, Alignment, origin)
      /\ RootsPlaced(v, cur, Alignment, origin, roots)
      /\ NodesStored(forest, v, cur, origin, ids, nodes, offsets, Nonlocal, vector, storage)
  BY DEF ImportInv, BuildInv
<1>4. Positions = 0 .. (Len(origin) - 1)
  BY <1>3 DEF Positions, NodesStored
<1>5. Len(origin) \in Nat
  BY <1>3 DEF Arranged
<1>6. \A c \in 0 .. (cur - 1) : /\ v[c].tree \in TreesOf(forest) /\ v[c].tree \in Nat \ {0}
                                /\ v[c].id \in Ids(forest[v[c].tree])
  BY <1>1, <1>2, VisitedNodes, VisitedOnce
<1> QED
  BY <1>1, <1>2, <1>3, <1>4, <1>5, <1>6

LEMMA BuiltFacts ==
  ASSUME ImportInv, phase = "ready", NEW v, v = Order(forest, layout)
  PROVE  /\ \A p \in Built : p \in Positions /\ \E c \in 0 .. (cur - 1) : Match(v, origin, p, c)
         /\ \A p \in Positions : \A c \in 0 .. (cur - 1) : Match(v, origin, p, c) => p \in Built
<1>1. /\ \A p \in Positions :
           origin[p + 1] = <<0, 0>> \/ \E c \in 0 .. (cur - 1) : Match(v, origin, p, c)
      /\ \A c \in 0 .. (cur - 1) : v[c].tree \in Nat \ {0}
  BY ReadyFacts DEF Arranged
<1>2. \A p \in Positions : p \in Built <=> origin[p + 1] # <<0, 0>>
  BY DEF Built
<1>3. \A p \in Built : p \in Positions
  BY DEF Built
<1>4. ASSUME NEW p \in Positions, NEW c \in 0 .. (cur - 1), Match(v, origin, p, c)
      PROVE  p \in Built
  BY <1>1, <1>2, <1>4 DEF Match
<1> QED
  BY <1>1, <1>2, <1>3, <1>4

LEMMA BuiltOnce ==
  ASSUME ImportInv, phase = "ready"
  PROVE  \A p, q \in Built : origin[p + 1] = origin[q + 1] => p = q
<1> DEFINE v == Order(forest, layout)
<1>1. SUFFICES ASSUME NEW p \in Built, NEW q \in Built, origin[p + 1] = origin[q + 1]
               PROVE  p = q
  OBVIOUS
<1>2. /\ Arranged(v, cur, Alignment, origin) /\ cur \in Nat
      /\ Positions = 0 .. (Len(origin) - 1) /\ Len(origin) \in Nat
  BY ReadyFacts
<1>3. /\ p \in 0 .. (Len(origin) - 1) /\ q \in 0 .. (Len(origin) - 1)
      /\ \E c \in 0 .. (cur - 1) : Match(v, origin, p, c)
  BY <1>2, BuiltFacts
<1> HIDE DEF v
<1>4. PICK c \in 0 .. (cur - 1) : Match(v, origin, p, c) /\ Match(v, origin, q, c)
  BY <1>1, <1>3 DEF Match
<1>5. \A a, b \in 0 .. (Len(origin) - 1) : \A d, e \in 0 .. (cur - 1) :
        Match(v, origin, a, d) /\ Match(v, origin, b, e)
          /\ (Alignment = 0 \/ v[d].tree = v[e].tree) => b - a = e - d
  BY <1>2 DEF Arranged
<1>6. q - p = c - c
  BY <1>3, <1>4, <1>5
<1> QED
  BY <1>2, <1>3, <1>4, <1>6

LEMMA BuiltNodes ==
  ASSUME ImportInv, phase = "ready"
  PROVE  {origin[p + 1] : p \in Built} = NodesOf(forest)
<1> DEFINE v == Order(forest, layout)
<1>1. /\ IsModel(forest) /\ Explored(forest, layout, v, cur, <<>>, Len(forest))
      /\ Arranged(v, cur, Alignment, origin) /\ Positions = 0 .. (Len(origin) - 1)
      /\ \A p \in Built : p \in Positions /\ \E c \in 0 .. (cur - 1) : Match(v, origin, p, c)
      /\ \A p \in Positions : \A c \in 0 .. (cur - 1) : Match(v, origin, p, c) => p \in Built
  BY ReadyFacts, BuiltFacts
<1> HIDE DEF v
<1>2. ASSUME NEW p \in Built PROVE origin[p + 1] \in NodesOf(forest)
  <2>1. PICK c \in 0 .. (cur - 1) : Match(v, origin, p, c)
    BY <1>1
  <2>2. <<v[c].tree, v[c].id>> \in NodesOf(forest)
    BY <1>1, VisitedNodes
  <2> QED
    BY <2>1, <2>2 DEF Match
<1>3. ASSUME NEW u \in NodesOf(forest) PROVE \E p \in Built : origin[p + 1] = u
  <2>1. PICK t \in TreesOf(forest) : \E i \in Ids(forest[t]) : u = <<t, i>>
    BY DEF NodesOf
  <2>2. PICK i \in Ids(forest[t]) : u = <<t, i>>
    BY <2>1
  <2>a. \A a \in TreesOf(forest) : \A b \in Ids(forest[a]) :
          \E c \in 0 .. (cur - 1) : v[c].tree = a /\ v[c].id = b
    <3>1. IsModel(forest) /\ Explored(forest, layout, v, cur, <<>>, Len(forest))
      BY <1>1
    <3> QED
      BY <3>1, AllVisited
  <2>3. PICK c \in 0 .. (cur - 1) : v[c].tree = t /\ v[c].id = i
    BY <2>1, <2>2, <2>a
  <2>4. PICK p \in 0 .. (Len(origin) - 1) : Match(v, origin, p, c)
    BY <1>1 DEF Arranged
  <2>5. p \in Built
    BY <1>1, <2>4
  <2>6. origin[p + 1] = u
    BY <2>2, <2>3, <2>4 DEF Match
  <2> QED
    BY <2>5, <2>6
<1> QED
  BY <1>2, <1>3

LEMMA BuiltSize ==
  ASSUME ImportInv, phase = "ready"
  PROVE  Cardinality(Built) = Cardinality(NodesOf(forest))
<1> DEFINE g == [p \in Built |-> origin[p + 1]]
           N == NodesOf(forest)
<1>1. N = {origin[p + 1] : p \in Built}
  BY BuiltNodes
<1>2. \A p, q \in Built : origin[p + 1] = origin[q + 1] => p = q
  BY BuiltOnce
<1>3. IsFiniteSet(Built)
  <2>1. Positions = 0 .. (Len(origin) - 1) /\ Len(origin) \in Nat
    BY ReadyFacts
  <2>2. 0 \in Int /\ Len(origin) - 1 \in Int
    BY <2>1
  <2>3. IsFiniteSet(Positions)
    BY <2>1, <2>2, FS_Interval
  <2>4. Built \subseteq Positions
    BY DEF Built
  <2> QED
    BY <2>3, <2>4, FS_Subset
<1> HIDE DEF N
<1>4. \A p \in Built : g[p] = origin[p + 1]
  OBVIOUS
<1>5. g \in [Built -> N]
  BY <1>1
<1>a. DOMAIN g = Built
  OBVIOUS
<1> HIDE DEF g
<1>6. \A p, q \in Built : g[p] = g[q] => p = q
  BY <1>2, <1>4
<1>7. \A u \in N : \E p \in Built : g[p] = u
  BY <1>1, <1>4
<1>8. g \in Bijection(Built, N)
  BY <1>5, <1>6, <1>7, <1>a DEF Bijection, Injection, Surjection, IsInjective
<1>9. ExistsBijection(Built, N)
  BY <1>8 DEF ExistsBijection
<1> QED
  BY <1>3, <1>9, FS_Bijection DEF N

LEMMA RootsReady ==
  ASSUME ImportInv, phase = "ready"
  PROVE  /\ Len(roots) = Len(forest)
         /\ \A t \in TreesOf(forest) :
              /\ roots[t] \in Built
              /\ origin[roots[t] + 1] = <<t, 0>>
              /\ Alignment # 0 => roots[t] % Alignment = 0
         /\ Len(forest) > 0 => roots[1] = 0
<1> DEFINE v == Order(forest, layout)
           m == Len(roots)
           al == Alignment
<1>1. /\ IsModel(forest) /\ Explored(forest, layout, v, cur, <<>>, Len(forest))
      /\ Arranged(v, cur, al, origin) /\ Positions = 0 .. (Len(origin) - 1)
      /\ RootsPlaced(v, cur, al, origin, roots) /\ Len(origin) \in Nat /\ cur \in Nat
      /\ \A c \in 0 .. (cur - 1) : /\ v[c].tree \in TreesOf(forest) /\ v[c].tree \in Nat \ {0}
                                   /\ v[c].id \in Ids(forest[v[c].tree])
  BY ReadyFacts
<1>2. Len(forest) \in Nat /\ TreesOf(forest) = 1 .. Len(forest) /\ m \in Nat
  BY <1>1, ModelFacts DEF RootsPlaced
<1>3. \A t \in 1 .. m : /\ roots[t] \in 0 .. (Len(origin) - 1)
                        /\ origin[roots[t] + 1] = <<t, 0>>
                        /\ al # 0 => roots[t] % al = 0
  BY <1>1 DEF RootsPlaced
<1>4. \A p \in 0 .. (Len(origin) - 1) :
        origin[p + 1] = <<0, 0>> \/ \E c \in 0 .. (cur - 1) : Match(v, origin, p, c)
  BY <1>1 DEF Arranged
<1>5. \A c \in 0 .. (cur - 1) : v[c].id = 0 => v[c].tree <= m
  BY <1>1 DEF RootsPlaced
<1>6. \A t \in TreesOf(forest) : \E c \in 0 .. (cur - 1) : v[c].tree = t /\ v[c].id = 0
  BY <1>1, AllVisited, IdsFacts
<1> HIDE DEF v, m, al
<1>7. ASSUME NEW t \in 1 .. m PROVE t <= Len(forest)
  <2>1. origin[roots[t] + 1] # <<0, 0>> /\ t # 0
    BY <1>2, <1>3
  <2>2. PICK c \in 0 .. (cur - 1) : Match(v, origin, roots[t], c)
    BY <1>3, <1>4, <2>1
  <2>3. v[c].tree = t
    BY <1>3, <2>2 DEF Match
  <2> QED
    BY <1>1, <1>2, <2>3
<1>8. m <= Len(forest)
  BY <1>2, <1>7
<1>9. Len(forest) <= m
  <2>1. CASE Len(forest) = 0
    BY <1>2, <2>1
  <2>2. CASE Len(forest) # 0
    <3>1. Len(forest) \in TreesOf(forest)
      BY <1>2, <2>2
    <3>2. PICK c \in 0 .. (cur - 1) : v[c].tree = Len(forest) /\ v[c].id = 0
      BY <1>6, <3>1
    <3> QED
      BY <1>5, <3>2
  <2> QED
    BY <2>1, <2>2
<1>10. m = Len(forest)
  BY <1>2, <1>8, <1>9
<1>11. ASSUME NEW t \in TreesOf(forest) PROVE roots[t] \in Built
  <2>1. t \in 1 .. m /\ t # 0
    BY <1>2, <1>10
  <2>2. origin[roots[t] + 1] # <<0, 0>> /\ roots[t] \in Positions
    BY <1>1, <1>3, <2>1
  <2> QED
    BY <2>2 DEF Built
<1>12. ASSUME Len(forest) > 0 PROVE roots[1] = 0
  <2>1. 1 \in TreesOf(forest) /\ 1 \in 1 .. m
    BY <1>2, <1>10, <1>12
  <2>2. cur # 0
    BY <1>1, <1>6, <2>1
  <2>3. Match(v, origin, 0, 0) /\ 0 \in 0 .. (cur - 1) /\ origin # <<>>
    BY <1>1, <2>2 DEF Arranged
  <2>4. v[0].id = 0 /\ v[0].tree = 1
    <3>1. Placed(forest, v, 0, 0, v[0])
      BY <1>1, <2>3 DEF Explored, ItemsPlaced
    <3>2. v[0].id = 0
      BY <3>1 DEF Placed
    <3>3. \A t \in 1 .. (v[0].tree - 1) : \E b \in 0 .. (0 - 1) : v[b].tree = t /\ v[b].id = 0
      BY <1>1, <2>3, <3>2 DEF Explored, RootsInTurn
    <3>4. v[0].tree \in Nat \ {0}
      BY <1>1, <2>3
    <3>5. v[0].tree = 1
      <4>1. SUFFICES ASSUME v[0].tree # 1 PROVE FALSE
        OBVIOUS
      <4>2. 1 \in 1 .. (v[0].tree - 1)
        BY <3>4, <4>1
      <4>3. PICK b \in 0 .. (0 - 1) : v[b].tree = 1
        BY <3>3, <4>2
      <4> QED
        BY <4>3
    <3> QED
      BY <3>2, <3>5
  <2>5. origin[0 + 1] = <<1, 0>>
    BY <2>3, <2>4 DEF Match
  <2>6. origin[roots[1] + 1] = <<1, 0>> /\ roots[1] \in Built
    BY <1>3, <1>11, <2>1
  <2>7. 0 \in Built
    <3>1. Len(origin) # 0
      BY <1>1, <2>3 DEF Arranged
    <3>2. 0 \in Positions
      BY <1>1, <3>1
    <3> QED
      BY <2>5, <3>2 DEF Built
  <2> QED
    BY <2>5, <2>6, <2>7, BuiltOnce
<1> QED
  BY <1>2, <1>3, <1>10, <1>11, <1>12 DEF m, al

(* Every node of every tree is in the array once, and the root of each tree
   is where root_node_indexes_ says, aligned (decision_forest_builder.hpp's
   start_new_tree and add_node). *)
THEOREM NodesStoredOnce == Spec => []StoredOnce
<1>1. ImportInv => StoredOnce
  BY BuiltNodes, BuiltSize, RootsReady DEF StoredOnce
<1> QED
  BY <1>1, ImportInvariant, PTL

-----------------------------------------------------------------------------
(* Where evaluate_tree goes *)

LEMMA PlaceOf ==
  ASSUME ImportInv, phase = "ready", NEW v, v = Order(forest, layout),
         NEW p \in Positions, NEW c \in 0 .. (cur - 1), Match(v, origin, p, c),
         NEW d \in 0 .. (cur - 1), v[d].tree = v[c].tree
  PROVE  p + (d - c) \in Built /\ origin[p + (d - c) + 1] = <<v[d].tree, v[d].id>>
<1>1. /\ Arranged(v, cur, Alignment, origin) /\ Positions = 0 .. (Len(origin) - 1)
      /\ Len(origin) \in Nat /\ cur \in Nat
      /\ \A q \in Positions : \A e \in 0 .. (cur - 1) : Match(v, origin, q, e) => q \in Built
  BY ReadyFacts, BuiltFacts
<1>2. PICK q \in 0 .. (Len(origin) - 1) : Match(v, origin, q, d)
  BY <1>1 DEF Arranged
<1>3. \A a, b \in 0 .. (Len(origin) - 1) : \A i, j \in 0 .. (cur - 1) :
        Match(v, origin, a, i) /\ Match(v, origin, b, j)
          /\ (Alignment = 0 \/ v[i].tree = v[j].tree) => b - a = j - i
  BY <1>1 DEF Arranged
<1>4. q - p = d - c
  BY <1>1, <1>2, <1>3
<1>5. q = p + (d - c)
  BY <1>1, <1>2, <1>4
<1>6. q \in Built /\ origin[q + 1] = <<v[d].tree, v[d].id>>
  BY <1>1, <1>2 DEF Match
<1> QED
  BY <1>5, <1>6

LEMMA OffsetStored ==
  ASSUME NEW n \in Node, ~IsLeaf(n), NEW offset, NEW node, NEW nonlocal, NEW vec, NEW sto,
         StoredAs(n, offset, node, nonlocal, vec, sto)
  PROVE  n.kind \in Operators \union {"category"} /\ node.offset = offset
<1>1. n.kind \in Operators \union {"category"}
  BY DEF Node, IsLeaf
<1> QED
  BY <1>1 DEF StoredAs, Stored, StoredCategoryAs

(* The node at a position of the array, and what is stored there *)
LEMMA BuiltNode ==
  ASSUME ImportInv, phase = "ready", NEW v, v = Order(forest, layout), NEW p \in Built
  PROVE  \E c \in 0 .. (cur - 1) :
           /\ Match(v, origin, p, c) /\ p \in Positions
           /\ From(p) = At(forest, v[c]) /\ From(p) \in Node
           /\ ids[p + 1] = v[c].id
           /\ v[c].tree \in TreesOf(forest) /\ v[c].id \in Ids(forest[v[c].tree])
           /\ StoredAs(From(p), offsets[c], nodes[p + 1], Nonlocal, vector, storage)
<1>1. /\ IsModel(forest) /\ Positions = 0 .. (Len(origin) - 1)
      /\ NodesStored(forest, v, cur, origin, ids, nodes, offsets, Nonlocal, vector, storage)
      /\ \A c \in 0 .. (cur - 1) : /\ v[c].tree \in TreesOf(forest) /\ v[c].tree \in Nat \ {0}
                                   /\ v[c].id \in Ids(forest[v[c].tree])
  BY ReadyFacts
<1>2. PICK c \in 0 .. (cur - 1) : Match(v, origin, p, c) /\ p \in Positions
  BY BuiltFacts
<1>3. From(p) = At(forest, v[c])
  BY <1>2 DEF From, At, Match
<1>4. At(forest, v[c]) \in Node
  BY <1>1, <1>2, AtFacts
<1>5. /\ ids[p + 1] = v[c].id
      /\ StoredAs(At(forest, v[c]), offsets[c], nodes[p + 1], Nonlocal, vector, storage)
  BY <1>1, <1>2 DEF NodesStored
<1> QED
  BY <1>1, <1>2, <1>3, <1>4, <1>5

(* Whatever the condition, the next position is that of a child. *)
LEMMA NextPosition ==
  ASSUME ImportInv, phase = "ready", NEW p \in Built, ~IsLeaf(From(p)), NEW b \in BOOLEAN
  PROVE  /\ nodes[p + 1].offset # 0
         /\ p + ChildOffset(nodes[p + 1], b) \in Built
         /\ origin[p + ChildOffset(nodes[p + 1], b) + 1]
              = <<origin[p + 1][1], IF b THEN DistantChild(From(p)) ELSE HotChild(From(p))>>
<1> DEFINE v == Order(forest, layout)
           n == nodes[p + 1]
<1>1. PICK c \in 0 .. (cur - 1) :
        /\ Match(v, origin, p, c) /\ p \in Positions
        /\ From(p) = At(forest, v[c]) /\ From(p) \in Node
        /\ StoredAs(From(p), offsets[c], n, Nonlocal, vector, storage)
  BY BuiltNode
<1>2. /\ IsModel(forest) /\ Explored(forest, layout, v, cur, <<>>, Len(forest))
      /\ OffsetsFound(forest, v, cur, offsets) /\ cur \in Nat
      /\ Positions = 0 .. (Len(origin) - 1) /\ Len(origin) \in Nat
  BY ReadyFacts
<1> DEFINE m == offsets[c]
<1>3. n.offset = m
  BY <1>1, OffsetStored
<1>4. v = Order(forest, layout)
  OBVIOUS
<1> HIDE DEF v, n
<1>5. /\ m \in Nat \ {0} /\ c + m \in 0 .. (cur - 1)
      /\ IsDistant(forest, v[c], v[c + m])
      /\ layout = "depth_first" => c + 1 \in 0 .. (cur - 1) /\ IsHot(forest, v[c], v[c + 1])
      /\ layout # "depth_first" =>
           c + m - 1 \in 0 .. (cur - 1) /\ IsHot(forest, v[c], v[c + m - 1])
  BY <1>1, <1>2, ChildPlaces
<1>6. origin[p + 1][1] = v[c].tree /\ p \in Int /\ c \in Int
  BY <1>1, <1>2 DEF Match
<1> HIDE DEF m
<1>7. CASE b
  <2> DEFINE d == c + m
  <2>1. d \in 0 .. (cur - 1) /\ v[d].tree = v[c].tree /\ v[d].id = DistantChild(From(p))
    BY <1>1, <1>5 DEF IsDistant
  <2>2. d - c = m
    BY <1>5, <1>6
  <2> HIDE DEF d
  <2>3. p + m \in Built /\ origin[p + m + 1] = <<v[d].tree, v[d].id>>
    BY <1>1, <1>4, <2>1, <2>2, PlaceOf
  <2>4. ChildOffset(n, b) = m
    BY <1>3, <1>5, <1>7 DEF ChildOffset
  <2> QED
    BY <1>3, <1>5, <1>6, <1>7, <2>1, <2>3, <2>4 DEF n
<1>8. CASE ~b
  <2> DEFINE d == IF layout = "depth_first" THEN c + 1 ELSE c + m - 1
  <2>1. d \in 0 .. (cur - 1) /\ v[d].tree = v[c].tree /\ v[d].id = HotChild(From(p))
    BY <1>1, <1>5 DEF IsHot
  <2>2. d - c = ChildOffset(n, b)
    BY <1>3, <1>5, <1>6, <1>8 DEF ChildOffset
  <2> HIDE DEF d
  <2> DEFINE o == ChildOffset(n, b)
  <2> HIDE DEF o
  <2>3. p + o \in Built /\ origin[p + o + 1] = <<v[d].tree, v[d].id>>
    BY <1>1, <1>4, <2>1, <2>2, PlaceOf DEF o
  <2> QED
    BY <1>3, <1>5, <1>6, <1>8, <2>1, <2>3 DEF n, o
<1> QED
  BY <1>7, <1>8

(* Categories that were accepted do not wrap when they are counted. *)
LEMMA CategoriesCounted ==
  ASSUME IsModel(forest),
         \A u \in NodesOf(forest) : \A c \in forest[u[1]][u[2]].cats : c < IndexLimit,
         NEW w \in NodesOf(forest), forest[w[1]][w[2]].cats # {}
  PROVE  /\ MaxNumCategories \in Nat \ {0}
         /\ \A c \in forest[w[1]][w[2]].cats : c < MaxNumCategories
<1> DEFINE cats(u) == forest[u[1]][u[2]].cats
           lists == {cats(u) : u \in NodesOf(forest)} \ {{}}
           count(s) == (Greatest(s) + 1) % (IndexLimit + 1)
           S == {count(s) : s \in lists}
<1>1. IndexLimit \in Nat \ {0}
  BY SizesAssumption
<1>2. ASSUME NEW u \in NodesOf(forest) PROVE cats(u) \in SUBSET Nat /\ \A c \in cats(u) : c < IndexLimit
  <2>1. PICK t \in TreesOf(forest) : \E i \in Ids(forest[t]) : u = <<t, i>>
    BY DEF NodesOf
  <2>2. PICK i \in Ids(forest[t]) : u = <<t, i>>
    BY <2>1
  <2>3. forest[t][i] \in Node
    BY NodeFacts
  <2>4. cats(u) = forest[t][i].cats
    BY <2>2
  <2> QED
    BY <2>3, <2>4 DEF Node
<1>3. w \in NodesOf(forest) /\ cats(w) # {}
  OBVIOUS
<1>4. MaxNumCategories = IF lists = {} THEN 0 ELSE Greatest(S)
  BY DEF MaxNumCategories
<1> HIDE DEF cats
<1>5. ASSUME NEW s \in lists
      PROVE  count(s) \in Nat /\ count(s) <= IndexLimit /\ count(s) # 0
             /\ (\A c \in s : c < count(s))
  <2>1. s \in SUBSET Nat /\ s # {} /\ \A c \in s : c < IndexLimit
    BY <1>2
  <2>2. Greatest(s) \in s /\ Greatest(s) + 1 = MaxPlusOne(s)
        /\ MaxPlusOne(s) \in Nat \ {0} /\ MaxPlusOne(s) <= IndexLimit
        /\ \A c \in s : c < MaxPlusOne(s)
    BY <2>1, MaxPlusOneFacts
  <2> DEFINE a == MaxPlusOne(s)
             b == IndexLimit + 1
  <2>3. a \in Nat /\ b \in Nat \ {0} /\ a < b
    BY <1>1, <2>2
  <2> HIDE DEF a, b
  <2>4. a % b = a
    BY <2>3, DivMod
  <2>5. count(s) = a
    BY <2>2, <2>4 DEF a, b
  <2> QED
    BY <2>2, <2>5 DEF a
<1>6. cats(w) \in lists
  BY <1>3
<1> HIDE DEF lists, count
<1>7. S \in SUBSET Nat /\ S # {} /\ \A k \in S : k <= IndexLimit
  BY <1>5, <1>6
<1>8. count(cats(w)) \in S
  BY <1>6
<1> HIDE DEF S
<1>9. Greatest(S) \in S /\ \A k \in S : k <= Greatest(S)
  BY <1>1, <1>7, GreatestFacts
<1>10. MaxNumCategories = Greatest(S) /\ Greatest(S) \in Nat /\ count(cats(w)) <= Greatest(S)
  BY <1>4, <1>6, <1>7, <1>8, <1>9
<1>11. count(cats(w)) \in Nat /\ count(cats(w)) # 0 /\ \A c \in cats(w) : c < count(cats(w))
  BY <1>5, <1>6
<1>12. \A c \in cats(w) : c \in Nat
  BY <1>2, <1>3
<1> DEFINE g == Greatest(S)
           k == count(cats(w))
<1>13. g \in Nat /\ k \in Nat /\ k # 0 /\ k <= g /\ MaxNumCategories = g
       /\ \A c \in cats(w) : c \in Nat /\ c < k
  BY <1>10, <1>11, <1>12
<1> HIDE DEF g, k
<1>14. g \in Nat \ {0} /\ \A c \in cats(w) : c < g
  BY <1>13
<1> QED
  BY <1>13, <1>14 DEF cats

(* Every node of the finished array has been accepted. *)
LEMMA Accepted ==
  ASSUME ImportInv, phase = "ready", NEW u \in NodesOf(forest)
  PROVE  \A c \in forest[u[1]][u[2]].cats : c < IndexLimit
<1>1. PICK p \in Built : origin[p + 1] = u
  BY BuiltNodes
<1>2. From(p) = forest[u[1]][u[2]]
  BY <1>1 DEF From
<1> DEFINE v == Order(forest, layout)
           n == From(p)
<1>3. PICK c \in 0 .. (cur - 1) :
        n \in Node /\ StoredAs(n, offsets[c], nodes[p + 1], Nonlocal, vector, storage)
  BY BuiltNode
<1>4. CASE n.kind = "category"
  BY <1>2, <1>3, <1>4 DEF StoredAs, StoredCategoryAs, Representable
<1>5. CASE n.kind # "category"
  <2>1. PICK t \in TreesOf(forest) : \E i \in Ids(forest[t]) : u = <<t, i>>
    BY DEF NodesOf
  <2>2. PICK i \in Ids(forest[t]) : u = <<t, i>>
    BY <2>1
  <2>3. n = forest[t][i]
    BY <1>2, <2>2
  <2>4. IsTree(forest[t])
    BY ReadyFacts, ModelFacts
  <2>5. n.cats = {}
    BY <1>5, <2>2, <2>3, <2>4 DEF IsTree
  <2> QED
    BY <1>2, <2>5
<1> QED
  BY <1>4, <1>5

(* A model that lists a category has a node with categories only if its
   converted forest does, and then that lists one too. *)
LEMMA ListsKept ==
  ASSUME ImportInv, phase # "called"
  PROVE  /\ (\E u \in NodesOf(forest) : forest[u[1]][u[2]].kind = "category") =>
              (\E u \in NodesOf(source) : source[u[1]][u[2]].kind = "category")
         /\ (\E u \in NodesOf(source) : source[u[1]][u[2]].cats # {}) =>
              (\E u \in NodesOf(forest) : forest[u[1]][u[2]].cats # {})
<1>1. IsModel(source) /\ IsModel(forest) /\ forest = ConvertDegenerate(source)
  BY ForestFacts DEF ArgumentsInv, ImportInv
<1>2. TreesOf(forest) = TreesOf(source)
  BY <1>1, Converted
<1>3. ASSUME NEW u \in NodesOf(forest), forest[u[1]][u[2]].kind = "category"
      PROVE  \E w \in NodesOf(source) : source[w[1]][w[2]].kind = "category"
  <2>1. PICK t \in TreesOf(forest) : \E i \in Ids(forest[t]) : u = <<t, i>>
    BY DEF NodesOf
  <2>2. PICK i \in Ids(forest[t]) : u = <<t, i>>
    BY <2>1
  <2>3. forest[t][i].kind = "category"
    BY <1>3, <2>2
  <2>4. ~IsLeaf(source[t][0])
    <3>1. SUFFICES ASSUME IsLeaf(source[t][0]) PROVE FALSE
      OBVIOUS
    <3> DEFINE leaf == source[t][0]
    <3>2. forest[t] = Regrown(leaf) /\ leaf \in Node /\ leaf.cats = {} /\ IsLeaf(leaf)
      BY <1>1, <1>2, <3>1, Converted
    <3> HIDE DEF leaf
    <3>3. /\ Ids(Regrown(leaf)) = 0 .. 2 /\ Regrown(leaf)[0].kind = "kLE"
          /\ Regrown(leaf)[1] = leaf /\ Regrown(leaf)[2] = leaf
      BY <3>2, RegrownIsTree
    <3>4. i = 0 \/ i = 1 \/ i = 2
      BY <2>2, <3>2, <3>3
    <3> QED
      BY <2>3, <3>2, <3>3, <3>4 DEF IsLeaf
  <2>5. forest[t] = source[t]
    BY <1>1, <1>2, <2>4, Converted
  <2>6. <<t, i>> \in NodesOf(source)
    BY <1>2, <2>2, <2>5, NodesOfMember
  <2>7. source[<<t, i>>[1]][<<t, i>>[2]].kind = "category"
    BY <2>3, <2>5
  <2> QED
    BY <2>6, <2>7
<1>4. ASSUME NEW u \in NodesOf(source), source[u[1]][u[2]].cats # {}
      PROVE  \E w \in NodesOf(forest) : forest[w[1]][w[2]].cats # {}
  <2>1. PICK t \in TreesOf(source) : \E i \in Ids(source[t]) : u = <<t, i>>
    BY DEF NodesOf
  <2>2. PICK i \in Ids(source[t]) : u = <<t, i>>
    BY <2>1
  <2>3. source[t][i].cats # {}
    BY <1>4, <2>2
  <2>4. ~IsLeaf(source[t][0])
    <3>1. SUFFICES ASSUME IsLeaf(source[t][0]) PROVE FALSE
      OBVIOUS
    <3>2. source[t][0].cats = {}
      BY <1>1, <3>1, Converted
    <3>3. Children(source[t][0]) = {}
      BY <3>1 DEF Children
    <3> DEFINE tr == source[t]
               Z == {0}
    <3>4. /\ 0 \in Ids(tr)
          /\ \A S \in SUBSET Ids(tr) :
               0 \in S /\ (\A j \in S : Children(tr[j]) \subseteq S) => S = Ids(tr)
      BY <1>1, IdsFacts
    <3>5. Z \in SUBSET Ids(tr) /\ 0 \in Z /\ \A j \in Z : Children(tr[j]) \subseteq Z
      BY <3>3, <3>4
    <3> HIDE DEF tr, Z
    <3>6. Ids(tr) = Z
      BY <3>4, <3>5
    <3>7. i = 0
      BY <2>2, <3>6 DEF tr, Z
    <3> QED
      BY <2>3, <3>2, <3>7
  <2>5. forest[t] = source[t]
    BY <1>1, <2>4, Converted
  <2>6. <<t, i>> \in NodesOf(forest)
    BY <1>2, <2>2, <2>5, NodesOfMember
  <2>7. forest[<<t, i>>[1]][<<t, i>>[2]].cats # {}
    BY <2>3, <2>5
  <2> QED
    BY <2>6, <2>7
<1> QED
  BY <1>3, <1>4

LEMMA MissingChild ==
  ASSUME NEW n \in Node, ~IsLeaf(n)
  PROVE  (IF DefaultDistant(n) THEN DistantChild(n) ELSE HotChild(n)) = SourceChild(n, NaN)
<1>1. SourceChild(n, NaN) = IF n.default_left THEN n.left ELSE n.right
  BY DEF SourceChild, GoesLeft
<1>2. \/ HotChild(n) = n.left /\ DistantChild(n) = n.right
      \/ HotChild(n) = n.right /\ DistantChild(n) = n.left
  BY DEF HotChild, DistantChild
<1> QED
  BY <1>1, <1>2 DEF DefaultDistant

(* 2 * t + 1 is the least value above t; a test that goes left when it fails
   has its left child next to it. *)
LEMMA NumericChild ==
  ASSUME NEW n \in Node, n.kind \in Operators, NEW x \in Int
  PROVE  (IF 2 * x < 2 * n.threshold + (IF IsInclusive(n) THEN 1 ELSE 0)
          THEN DistantChild(n) ELSE HotChild(n)) = SourceChild(n, x)
<1> DEFINE t == n.threshold
           L == n.left
           R == n.right
<1>1. x # NaN /\ t \in Int
  BY NaNAssumption DEF Node
<1>2. n.kind # "category"
  BY DEF Operators
<1>3. CASE n.kind = "kLT"
  <2>1. SourceChild(n, x) = IF x < t THEN L ELSE R
    BY <1>1, <1>3 DEF SourceChild, GoesLeft
  <2>2. ~IsInclusive(n) /\ DistantChild(n) = L /\ HotChild(n) = R
    BY <1>2, <1>3 DEF IsInclusive, DistantChild, HotChild, LeftIsHot
  <2> HIDE DEF t, L, R
  <2> QED
    BY <1>1, <2>1, <2>2 DEF t
<1>4. CASE n.kind = "kLE"
  <2>1. SourceChild(n, x) = IF x <= t THEN L ELSE R
    BY <1>1, <1>4 DEF SourceChild, GoesLeft
  <2>2. IsInclusive(n) /\ DistantChild(n) = L /\ HotChild(n) = R
    BY <1>2, <1>4 DEF IsInclusive, DistantChild, HotChild, LeftIsHot
  <2> HIDE DEF t, L, R
  <2> QED
    BY <1>1, <2>1, <2>2 DEF t
<1>5. CASE n.kind = "kGT"
  <2>1. SourceChild(n, x) = IF x > t THEN L ELSE R
    BY <1>1, <1>5 DEF SourceChild, GoesLeft
  <2>2. IsInclusive(n) /\ DistantChild(n) = R /\ HotChild(n) = L
    BY <1>2, <1>5 DEF IsInclusive, DistantChild, HotChild, LeftIsHot
  <2> HIDE DEF t, L, R
  <2> QED
    BY <1>1, <2>1, <2>2 DEF t
<1>6. CASE n.kind = "kGE"
  <2>1. SourceChild(n, x) = IF x >= t THEN L ELSE R
    BY <1>1, <1>6 DEF SourceChild, GoesLeft
  <2>2. ~IsInclusive(n) /\ DistantChild(n) = R /\ HotChild(n) = L
    BY <1>2, <1>6 DEF IsInclusive, DistantChild, HotChild, LeftIsHot
  <2> HIDE DEF t, L, R
  <2> QED
    BY <1>1, <2>1, <2>2 DEF t
<1> QED
  BY <1>3, <1>4, <1>5, <1>6 DEF Operators

LEMMA ListedChild ==
  ASSUME NEW n \in Node, n.kind = "category", NEW x \in Int
  PROVE  (IF x \in n.cats THEN DistantChild(n) ELSE HotChild(n)) = SourceChild(n, x)
<1>1. x # NaN /\ n.list_right \in BOOLEAN
  BY NaNAssumption DEF Node
<1>2. GoesLeft(n, x) = ((x \in n.cats) # n.list_right)
  BY <1>1 DEF GoesLeft
<1>3. CASE n.list_right
  <2>1. DistantChild(n) = n.right /\ HotChild(n) = n.left
    BY <1>3 DEF DistantChild, HotChild, LeftIsHot
  <2> QED
    BY <1>1, <1>2, <1>3, <2>1 DEF SourceChild
<1>4. CASE ~n.list_right
  <2>1. DistantChild(n) = n.left /\ HotChild(n) = n.right
    BY <1>4 DEF DistantChild, HotChild, LeftIsHot
  <2>2. GoesLeft(n, x) <=> x \in n.cats
    <3>1. CASE x \in n.cats
      BY <1>2, <1>4, <3>1
    <3>2. CASE x \notin n.cats
      BY <1>1, <1>2, <1>4, <3>2
    <3> QED
      BY <3>1, <3>2
  <2> QED
    BY <2>1, <2>2 DEF SourceChild
<1> QED
  BY <1>3, <1>4

(* Both ways of keeping categories answer whether a value is in the list. *)
LEMMA InStoredCategories ==
  ASSUME NEW cats \in SUBSET Nat, \A c \in cats : c < IndexLimit, NEW x \in Int, NEW node,
         Nonlocal => Within(Bitset(cats), storage, node.index),
         ~Nonlocal => node.bits = cats /\ \A c \in cats : c < BinWidth
  PROVE  InCategories(node, x) <=> x \in cats
<1>1. BinWidth \in Nat \ {0}
  BY SizesAssumption
<1>2. CASE Nonlocal
  <2> DEFINE i == node.index
             size == MaxPlusOne(cats)
             set == Bitset(cats)
  <2>1. /\ Len(set) = Bins(cats) + 1 /\ Bins(cats) \in Nat /\ set[1].count = size
        /\ \A y \in Nat : y < size =>
             /\ y \div BinWidth + 2 \in 1 .. (Bins(cats) + 1)
             /\ y % BinWidth \in set[y \div BinWidth + 2].bin <=> y \in cats
    BY BitsetFacts
  <2>2. size \in Nat \ {0} /\ \A c \in cats : c < size
    BY MaxPlusOneFacts
  <2>3. i \in Nat /\ \A j \in 1 .. Len(set) : storage[i + j] = set[j]
    BY <1>2 DEF Within
  <2>4. storage[i + 1].count = size
    BY <2>1, <2>3
  <2>5. InCategories(node, x) <=>
          LET index == BitsetIndex(x, size)
          IN  index < size /\ index % BinWidth \in storage[i + 2 + index \div BinWidth].bin
    BY <1>2, <2>4 DEF InCategories, Nonlocal
  <2> HIDE DEF i, size, set
  <2>6. CASE x > -1 /\ x < size
    <3>1. x \in Nat /\ BitsetIndex(x, size) = x
      BY <2>6 DEF BitsetIndex
    <3> DEFINE q == x \div BinWidth
    <3>2. q \in Nat
      BY <1>1, <3>1, DivMod
    <3>3. q + 2 \in 1 .. Len(set) /\ (x % BinWidth \in set[q + 2].bin <=> x \in cats)
      BY <2>1, <2>6, <3>1
    <3>4. InCategories(node, x) <=> x % BinWidth \in storage[i + 2 + q].bin
      BY <2>5, <2>6, <3>1
    <3> HIDE DEF q
    <3>5. i + 2 + q = i + (q + 2)
      BY <2>3, <3>2
    <3>6. storage[i + (q + 2)] = set[q + 2]
      BY <2>3, <3>3
    <3> QED
      BY <3>3, <3>4, <3>5, <3>6
  <2>7. CASE ~(x > -1 /\ x < size)
    <3>1. BitsetIndex(x, size) = size
      BY <2>7 DEF BitsetIndex
    <3>2. ~InCategories(node, x)
      BY <2>2, <2>5, <3>1
    <3>3. x \notin cats
      BY <2>2, <2>7
    <3> QED
      BY <3>2, <3>3
  <2> QED
    BY <2>6, <2>7
<1>3. CASE ~Nonlocal
  <2>1. InCategories(node, x) <=> BitsetIndex(x, BinWidth) \in cats
    BY <1>3 DEF InCategories, Nonlocal
  <2>2. CASE x > -1 /\ x < BinWidth
    BY <2>1, <2>2 DEF BitsetIndex
  <2>3. CASE ~(x > -1 /\ x < BinWidth)
    <3>1. BitsetIndex(x, BinWidth) = BinWidth
      BY <2>3 DEF BitsetIndex
    <3>2. BinWidth \notin cats /\ x \notin cats
      BY <1>1, <1>3, <2>3
    <3> QED
      BY <2>1, <3>1, <3>2
  <2> QED
    BY <2>2, <2>3
<1> QED
  BY <1>2, <1>3

(* A forest with a category node, that is not one of empty lists only, is
   known to have categories. *)
LEMMA CategoriesKnown ==
  ASSUME ImportInv, phase = "ready", ~OnlyEmptyLists(source), NEW p \in Built,
         From(p).kind = "category"
  PROVE  /\ MaxNumCategories \in Nat \ {0}
         /\ \A c \in From(p).cats : c < MaxNumCategories /\ c < IndexLimit
<1>1. IsModel(forest)
  BY ReadyFacts
<1>2. PICK u \in NodesOf(forest) : From(p) = forest[u[1]][u[2]]
  <2>1. origin[p + 1] \in NodesOf(forest)
    BY BuiltNodes
  <2> QED
    BY <2>1 DEF From
<1>3. \A w \in NodesOf(forest) : \A c \in forest[w[1]][w[2]].cats : c < IndexLimit
  BY Accepted
<1>4. \E w \in NodesOf(source) : source[w[1]][w[2]].kind = "category"
  BY <1>2, ListsKept
<1>5. \E w \in NodesOf(source) : source[w[1]][w[2]].cats # {}
  BY <1>4 DEF OnlyEmptyLists
<1>6. PICK w \in NodesOf(forest) : forest[w[1]][w[2]].cats # {}
  BY <1>5, ListsKept
<1>7. MaxNumCategories \in Nat \ {0}
  BY <1>1, <1>3, <1>6, CategoriesCounted
<1>8. CASE From(p).cats = {}
  BY <1>7, <1>8
<1>9. CASE From(p).cats # {}
  BY <1>1, <1>2, <1>3, <1>7, <1>9, CategoriesCounted
<1> QED
  BY <1>8, <1>9

(* What the stored node says of a value is what the Treelite node says. *)
LEMMA ConditionFaithful ==
  ASSUME ImportInv, phase = "ready", ~OnlyEmptyLists(source), NEW p \in Built,
         ~IsLeaf(From(p)), NEW x \in Values
  PROVE  \E b \in BOOLEAN :
           /\ Condition(nodes[p + 1], x) <=> b
           /\ (IF b THEN DistantChild(From(p)) ELSE HotChild(From(p))) = SourceChild(From(p), x)
<1> DEFINE v == Order(forest, layout)
           n == From(p)
           node == nodes[p + 1]
<1>1. PICK c \in 0 .. (cur - 1) :
        n \in Node /\ StoredAs(n, offsets[c], node, Nonlocal, vector, storage)
  BY BuiltNode
<1>2. n.kind \in Operators \/ n.kind = "category"
  BY <1>1 DEF Node, IsLeaf
<1>3. n.kind \in Operators =>
        node = Stored(offsets[c], DefaultDistant(n), FALSE,
                      2 * n.threshold + (IF IsInclusive(n) THEN 1 ELSE 0), {}, 0, 0)
  BY <1>1 DEF StoredAs
<1>4. n.kind = "category" =>
        /\ node.default_distant = DefaultDistant(n) /\ node.categorical
        /\ IF Nonlocal THEN Within(Bitset(n.cats), storage, node.index) ELSE node.bits = n.cats
  BY <1>1 DEF StoredAs, StoredCategoryAs
<1>5. CASE x = NaN
  <2>1. node.default_distant = DefaultDistant(n) /\ DefaultDistant(n) \in BOOLEAN
    BY <1>2, <1>3, <1>4 DEF Stored, DefaultDistant
  <2>2. Condition(node, x) = DefaultDistant(n)
    BY <1>5, <2>1 DEF Condition
  <2>3. (IF DefaultDistant(n) THEN DistantChild(n) ELSE HotChild(n)) = SourceChild(n, x)
    BY <1>1, <1>5, MissingChild
  <2> HIDE DEF n, node
  <2> QED
    BY <2>1, <2>2, <2>3 DEF n, node
<1>6. CASE x # NaN /\ n.kind \in Operators
  <2>1. x \in Int
    BY <1>6, ValuesAssumption
  <2> DEFINE thr == 2 * n.threshold + (IF IsInclusive(n) THEN 1 ELSE 0)
  <2>2. ~node.categorical /\ node.threshold = thr
    BY <1>3, <1>6 DEF Stored
  <2>3. Condition(node, x) <=> 2 * x < thr
    BY <1>6, <2>2 DEF Condition
  <2>4. (IF 2 * x < thr THEN DistantChild(n) ELSE HotChild(n)) = SourceChild(n, x)
    BY <1>1, <1>6, <2>1, NumericChild
  <2> HIDE DEF thr, n, node
  <2> DEFINE b == 2 * x < thr
  <2>5. b \in BOOLEAN /\ (Condition(node, x) <=> b)
        /\ (IF b THEN DistantChild(n) ELSE HotChild(n)) = SourceChild(n, x)
    BY <2>3, <2>4
  <2> HIDE DEF b
  <2> QED
    BY <2>5 DEF n, node
<1>7. CASE x # NaN /\ n.kind = "category"
  <2>1. x \in Int
    BY <1>7, ValuesAssumption
  <2>2. /\ MaxNumCategories \in Nat \ {0}
        /\ \A d \in n.cats : d < MaxNumCategories /\ d < IndexLimit
    BY <1>7, CategoriesKnown
  <2>3. n.cats \in SUBSET Nat
    BY <1>1 DEF Node
  <2>4. Condition(node, x) = InCategories(node, x)
    BY <1>4, <1>7, <2>2 DEF Condition
  <2>5. InCategories(node, x) <=> x \in n.cats
    <3> HIDE DEF n, node
    <3>1. ~Nonlocal => \A d \in n.cats : d < BinWidth
      BY <2>2, <2>3, SizesAssumption DEF Nonlocal
    <3> QED
      BY <1>4, <1>7, <2>1, <2>2, <2>3, <3>1, InStoredCategories
  <2>6. (IF x \in n.cats THEN DistantChild(n) ELSE HotChild(n)) = SourceChild(n, x)
    BY <1>1, <1>7, <2>1, ListedChild
  <2> HIDE DEF n, node
  <2> DEFINE b == x \in n.cats
  <2>7. b \in BOOLEAN /\ (Condition(node, x) <=> b)
        /\ (IF b THEN DistantChild(n) ELSE HotChild(n)) = SourceChild(n, x)
    BY <2>4, <2>5, <2>6
  <2> HIDE DEF b
  <2> QED
    BY <2>7 DEF n, node
<1> QED
  BY <1>2, <1>5, <1>6, <1>7

(* The next position is that of the child the model names. *)
LEMMA ChildFaithful ==
  ASSUME ImportInv, phase = "ready", ~OnlyEmptyLists(source), NEW p \in Built,
         ~IsLeaf(From(p)), NEW x \in Values,
         NEW child, child = p + ChildOffset(nodes[p + 1], Condition(nodes[p + 1], x))
  PROVE  /\ nodes[p + 1].offset # 0
         /\ child \in Built
         /\ origin[child + 1] = <<origin[p + 1][1], SourceChild(From(p), x)>>
<1> DEFINE n == nodes[p + 1]
<1>1. PICK b \in BOOLEAN :
        /\ Condition(n, x) <=> b
        /\ (IF b THEN DistantChild(From(p)) ELSE HotChild(From(p))) = SourceChild(From(p), x)
  BY ConditionFaithful
<1>2. child = p + ChildOffset(n, b)
  BY <1>1 DEF ChildOffset
<1>3. /\ n.offset # 0
      /\ p + ChildOffset(n, b) \in Built
      /\ origin[p + ChildOffset(n, b) + 1]
           = <<origin[p + 1][1], IF b THEN DistantChild(From(p)) ELSE HotChild(From(p))>>
  BY NextPosition
<1> QED
  BY <1>1, <1>2, <1>3

LEMMA LeafStored ==
  ASSUME ImportInv, phase = "ready", NEW p \in Built, IsLeaf(From(p))
  PROVE  StoredLeafAs(From(p), nodes[p + 1], vector)
  BY BuiltNode DEF StoredAs

(* From any node of the finished array and for any feature value, evaluate_tree
   moves to the child the Treelite model names, and it stops at the leaves, for
   every model, layout, alignment, width of the index and list of categories
   (evaluate_tree.hpp's evaluate_tree_impl on what treelite_importer.hpp and
   decision_forest_builder.hpp have built).  The exception is a model whose
   category lists are all empty: the code takes it for one without
   categories. *)
THEOREM ChildrenAreFaithful == Spec => [](~OnlyEmptyLists(source) => ChildrenFaithful)
<1>1. ASSUME ImportInv, ~OnlyEmptyLists(source) PROVE ChildrenFaithful
  <2>1. SUFFICES ASSUME phase = "ready", NEW p \in Built, NEW x \in Values
                 PROVE  IF IsLeaf(From(p)) THEN nodes[p + 1].offset = 0
                        ELSE LET child == p + ChildOffset(nodes[p + 1], Condition(nodes[p + 1], x))
                             IN  /\ nodes[p + 1].offset # 0
                                 /\ child \in Built
                                 /\ origin[child + 1] = <<origin[p + 1][1], SourceChild(From(p), x)>>
    BY DEF ChildrenFaithful
  <2>2. IsLeaf(From(p)) => nodes[p + 1].offset = 0
    <3>1. SUFFICES ASSUME IsLeaf(From(p)) PROVE nodes[p + 1].offset = 0
      OBVIOUS
    <3>2. StoredLeafAs(From(p), nodes[p + 1], vector)
      BY <1>1, <2>1, <3>1, LeafStored
    <3> QED
      BY <3>2 DEF StoredLeafAs
  <2> DEFINE child == p + ChildOffset(nodes[p + 1], Condition(nodes[p + 1], x))
  <2>3. ~IsLeaf(From(p)) =>
          /\ nodes[p + 1].offset # 0
          /\ child \in Built
          /\ origin[child + 1] = <<origin[p + 1][1], SourceChild(From(p), x)>>
    BY <1>1, <2>1, ChildFaithful
  <2> QED
    BY <2>2, <2>3
<1>2. ImportInv => (~OnlyEmptyLists(source) => ChildrenFaithful)
  BY <1>1
<1> QED
  BY <1>2, ImportInvariant, PTL

-----------------------------------------------------------------------------
(* Evaluations *)

(* A leaf of the converted model is a leaf of the model. *)
LEMMA LeafOfSource ==
  ASSUME ImportInv, phase # "called", NEW t \in TreesOf(forest), NEW i \in Ids(forest[t]),
         IsLeaf(forest[t][i])
  PROVE  /\ forest[t][i] = IF IsLeaf(source[t][0]) THEN source[t][0] ELSE source[t][i]
         /\ \E u \in NodesOf(source) : source[u[1]][u[2]] = forest[t][i]
<1>1. IsModel(source) /\ IsModel(forest) /\ forest = ConvertDegenerate(source)
  BY ForestFacts DEF ArgumentsInv, ImportInv
<1>2. t \in TreesOf(source)
  BY <1>1, Converted
<1>3. CASE IsLeaf(source[t][0])
  <2> DEFINE leaf == source[t][0]
  <2>1. forest[t] = Regrown(leaf) /\ leaf \in Node /\ leaf.cats = {} /\ IsLeaf(leaf)
    BY <1>1, <1>2, <1>3, Converted
  <2>2. <<t, 0>> \in NodesOf(source)
    BY <1>1, <1>2, IdsFacts, NodesOfMember
  <2>3. source[<<t, 0>>[1]][<<t, 0>>[2]] = leaf
    OBVIOUS
  <2> HIDE DEF leaf
  <2>4. /\ Ids(Regrown(leaf)) = 0 .. 2 /\ Regrown(leaf)[0].kind = "kLE"
        /\ Regrown(leaf)[1] = leaf /\ Regrown(leaf)[2] = leaf
    BY <2>1, RegrownIsTree
  <2>5. i = 0 \/ i = 1 \/ i = 2
    BY <2>1, <2>4
  <2>6. forest[t][i] = leaf
    BY <2>1, <2>4, <2>5 DEF IsLeaf
  <2> QED
    BY <1>3, <2>2, <2>3, <2>6 DEF leaf
<1>4. CASE ~IsLeaf(source[t][0])
  <2>1. forest[t] = source[t]
    BY <1>1, <1>2, <1>4, Converted
  <2>2. <<t, i>> \in NodesOf(source)
    BY <1>2, <2>1, NodesOfMember
  <2>3. source[<<t, i>>[1]][<<t, i>>[2]] = forest[t][i]
    BY <2>1
  <2> QED
    BY <1>4, <2>1, <2>2, <2>3
<1> QED
  BY <1>3, <1>4

(* An evaluation is of a finished forest and at a node of its tree, and what
   it has returned is the id and, if the leaves of the model have as many
   outputs each, the output of one leaf. *)
WalkInv ==
  /\ status \in {"idle", "entered", "walking", "answered"}
  /\ status # "idle" =>
       /\ phase = "ready" /\ tree \in TreesOf(forest)
       /\ pos \in Built /\ origin[pos + 1][1] = tree
       /\ status = "entered" => pos = roots[tree]
       /\ status = "answered" =>
            /\ IsLeaf(From(pos)) /\ leaf_id = origin[pos + 1][2]
            /\ LeavesAgree(source) => answer = From(pos).out

(* Where an evaluation that goes on has come to *)
LEMMA WalkFacts ==
  ASSUME ImportInv, WalkInv, status # "idle"
  PROVE  /\ phase = "ready" /\ tree \in TreesOf(forest) /\ tree \in TreesOf(source)
         /\ pos \in Built /\ pos \in Nat
         /\ origin[pos + 1][2] \in Ids(forest[tree])
         /\ From(pos) = forest[tree][origin[pos + 1][2]] /\ From(pos) \in Node
         /\ ~IsLeaf(source[tree][0]) => forest[tree] = source[tree]
         /\ status = "entered" => origin[pos + 1][2] = 0 /\ ~IsLeaf(From(pos))
         /\ roots[1] = 0
<1>1. phase = "ready" /\ tree \in TreesOf(forest) /\ pos \in Built /\ origin[pos + 1][1] = tree
  BY DEF WalkInv
<1>2. IsModel(source) /\ IsModel(forest) /\ forest = ConvertDegenerate(source)
  BY <1>1, ForestFacts DEF ArgumentsInv, ImportInv
<1>3. /\ tree \in TreesOf(source)
      /\ ~IsLeaf(source[tree][0]) => forest[tree] = source[tree]
      /\ ~IsLeaf(forest[tree][0])
  BY <1>1, <1>2, Converted
<1>4. From(pos) = forest[tree][origin[pos + 1][2]]
  BY <1>1 DEF From
<1> DEFINE v == Order(forest, layout)
<1>5. PICK c \in 0 .. (cur - 1) :
        /\ Match(v, origin, pos, c) /\ pos \in Positions /\ From(pos) \in Node
        /\ v[c].tree \in TreesOf(forest) /\ v[c].id \in Ids(forest[v[c].tree])
  BY <1>1, BuiltNode
<1>6. pos \in Nat
  <2>1. Positions = 0 .. (Len(origin) - 1) /\ Len(origin) \in Nat
    BY <1>1, ReadyFacts
  <2> QED
    BY <1>5, <2>1
<1>7. origin[pos + 1][2] \in Ids(forest[tree])
  BY <1>1, <1>5 DEF Match
<1>8. ASSUME status = "entered" PROVE origin[pos + 1][2] = 0 /\ ~IsLeaf(From(pos))
  <2>1. pos = roots[tree]
    BY <1>8 DEF WalkInv
  <2>2. origin[roots[tree] + 1] = <<tree, 0>>
    BY <1>1, RootsReady
  <2> QED
    BY <1>3, <1>4, <2>1, <2>2
<1>9. roots[1] = 0
  <2>1. Len(forest) \in Nat /\ Len(forest) > 0
    BY <1>1, <1>2, ModelFacts
  <2> QED
    BY <1>1, <2>1, RootsReady
<1> QED
  BY <1>1, <1>3, <1>4, <1>5, <1>6, <1>7, <1>8, <1>9

(* Descend finds an inner node. *)
LEMMA DescendFacts ==
  ASSUME ImportInv, WalkInv, Descend
  PROVE  /\ status \in {"entered", "walking"} /\ status # "idle"
         /\ ~IsLeaf(From(pos)) /\ input' \in Values /\ status' = "walking"
         /\ pos' = pos + ChildOffset(nodes[pos + 1], Condition(nodes[pos + 1], input'))
         /\ UNCHANGED <<importVars, tree, answer, leaf_id>>
<1>1. /\ status = "entered" \/ (status = "walking" /\ nodes[pos + 1].offset # 0)
      /\ input' \in Values /\ status' = "walking"
      /\ pos' = pos + ChildOffset(nodes[pos + 1], Condition(nodes[pos + 1], input'))
      /\ UNCHANGED <<importVars, tree, answer, leaf_id>>
  BY DEF Descend
<1>2. status # "idle" /\ status \in {"entered", "walking"}
  BY <1>1
<1>3. ~IsLeaf(From(pos))
  <2>1. phase = "ready" /\ pos \in Built /\ (status = "entered" => ~IsLeaf(From(pos)))
    BY <1>2, WalkFacts
  <2>2. CASE status = "entered"
    BY <2>1, <2>2
  <2>3. CASE nodes[pos + 1].offset # 0
    <3>1. SUFFICES ASSUME IsLeaf(From(pos)) PROVE FALSE
      OBVIOUS
    <3>2. StoredLeafAs(From(pos), nodes[pos + 1], vector)
      BY <2>1, <3>1, LeafStored
    <3> QED
      BY <2>3, <3>2 DEF StoredLeafAs
  <2> QED
    BY <1>1, <2>2, <2>3
<1> QED
  BY <1>1, <1>2, <1>3

(* Return finds a leaf. *)
LEMMA ReturnFacts ==
  ASSUME ImportInv, WalkInv, Return
  PROVE  /\ status = "walking" /\ status' = "answered" /\ IsLeaf(From(pos))
         /\ answer' = IF vector = <<>> THEN <<nodes[pos + 1].output>>
                      ELSE SubSeq(vector, nodes[pos + 1].index * leaf_size + 1,
                                          (nodes[pos + 1].index + 1) * leaf_size)
         /\ leaf_id' = origin[pos + 1][2]
         /\ UNCHANGED <<importVars, tree, pos, input>>
<1>1. /\ status = "walking" /\ nodes[pos + 1].offset = 0 /\ status' = "answered"
      /\ answer' = IF vector = <<>> THEN <<nodes[pos + 1].output>>
                   ELSE SubSeq(vector, nodes[pos + 1].index * leaf_size + 1,
                                       (nodes[pos + 1].index + 1) * leaf_size)
      /\ leaf_id' = ids[(pos - roots[1]) + 1]
      /\ UNCHANGED <<importVars, tree, pos, input>>
  BY DEF Return
<1>2. phase = "ready" /\ pos \in Built /\ pos \in Nat /\ roots[1] = 0
  BY <1>1, WalkFacts
<1>3. IsLeaf(From(pos))
  <2>1. SUFFICES ASSUME ~IsLeaf(From(pos)) PROVE FALSE
    OBVIOUS
  <2>2. nodes[pos + 1].offset # 0
    <3>1. TRUE \in BOOLEAN
      OBVIOUS
    <3> QED
      BY <1>2, <2>1, <3>1, NextPosition
  <2> QED
    BY <1>1, <2>2
<1>4. leaf_id' = origin[pos + 1][2]
  <2>1. pos - roots[1] = pos
    BY <1>2
  <2>2. leaf_id' = ids[pos + 1]
    BY <1>1, <2>1
  <2> DEFINE v == Order(forest, layout)
  <2>3. PICK c \in 0 .. (cur - 1) : Match(v, origin, pos, c) /\ ids[pos + 1] = v[c].id
    BY <1>2, BuiltNode
  <2> QED
    BY <2>2, <2>3 DEF Match
<1> QED
  BY <1>1, <1>3, <1>4

LEMMA OneElement ==
  ASSUME NEW S, NEW o \in Seq(S), Len(o) = 1
  PROVE  <<o[1]>> = o
<1>1. o[1] \in S
  <2>1. 1 \in 1 .. Len(o)
    OBVIOUS
  <2> QED
    BY <2>1, ElementOfSeq
<1>2. <<o[1]>> \in Seq(S) /\ Len(<<o[1]>>) = 1 /\ <<o[1]>>[1] = o[1]
  BY <1>1
<1> DEFINE u == <<o[1]>>
<1>3. u \in Seq(S) /\ Len(u) = Len(o) /\ \A j \in 1 .. Len(u) : u[j] = o[j]
  BY <1>2
<1> HIDE DEF u
<1>4. u = o
  BY <1>3, SeqEqual
<1> QED
  BY <1>4 DEF u

LEMMA Slice ==
  ASSUME NEW S, NEW w \in Seq(S), NEW a \in Nat, NEW m \in Nat \ {0}, a + m <= Len(w)
  PROVE  /\ SubSeq(w, a + 1, a + m) \in Seq(S) /\ Len(SubSeq(w, a + 1, a + m)) = m
         /\ \A j \in 1 .. m : SubSeq(w, a + 1, a + m)[j] = w[a + j]
<1> DEFINE x == a + 1
           y == a + m
           u == SubSeq(w, x, y)
<1>1. x \in Int /\ y \in Int /\ x <= y /\ y - x + 1 = m /\ \A j \in Int : x + j - 1 = a + j
  OBVIOUS
<1>2. \A j \in x .. y : w[j] \in S
  <2>1. \A j \in x .. y : j \in 1 .. Len(w)
    OBVIOUS
  <2> QED
    BY <2>1
<1> HIDE DEF x, y
<1>3. /\ u \in Seq(S) /\ Len(u) = IF x <= y THEN y - x + 1 ELSE 0
      /\ \A j \in 1 .. y - x + 1 : u[j] = w[x + j - 1]
  BY <1>1, <1>2, SubSeqProperties
<1> HIDE DEF u
<1>4. u \in Seq(S) /\ Len(u) = m /\ \A j \in 1 .. m : u[j] = w[a + j]
  BY <1>1, <1>3, SMTT(40)
<1> QED
  BY <1>4 DEF u, x, y

(* Where evaluate_tree looks for the output of a leaf is where it was put. *)
LEMMA OutputFound ==
  ASSUME NEW n, n.out \in Seq(Nat), NEW node, StoredLeafAs(n, node, vector), OutputsStored,
         leaf_size = 1 \/ leaf_size = Len(n.out),
         NEW found, found = IF vector = <<>> THEN <<node.output>>
                            ELSE SubSeq(vector, node.index * leaf_size + 1,
                                                (node.index + 1) * leaf_size)
  PROVE  found = n.out
<1> DEFINE o == n.out
           m == Len(o)
           i == node.index
           a == i * m
<1>1. o \in Seq(Nat) /\ m \in Nat \ {0}
  BY DEF StoredLeafAs
<1>2. vector \in Seq(Nat) /\ (leaf_size = 1 => vector = <<>>)
  BY DEF OutputsStored
<1>3. IF m = 1 THEN node.output = o[1] ELSE i \in Nat /\ Within(o, vector, a)
  BY DEF StoredLeafAs
<1>4. leaf_size = 1 \/ leaf_size = m
  OBVIOUS
<1>5. found = IF vector = <<>> THEN <<node.output>>
              ELSE SubSeq(vector, i * leaf_size + 1, (i + 1) * leaf_size)
  OBVIOUS
<1>6. CASE m = 1
  <2>1. found = <<o[1]>>
    BY <1>2, <1>3, <1>4, <1>5, <1>6
  <2>2. <<o[1]>> = o
    BY <1>1, <1>6, OneElement
  <2> QED
    BY <2>1, <2>2
<1>7. CASE m # 1
  <2>1. i \in Nat /\ a \in Nat /\ a + m <= Len(vector) /\ \A j \in 1 .. m : vector[a + j] = o[j]
    BY <1>3, <1>7 DEF Within
  <2>2. (i + 1) * m = a + m
    BY <1>1, <2>1
  <2> HIDE DEF o, m, i, a
  <2>3. vector # <<>>
    BY <1>1, <2>1
  <2>4. leaf_size = m
    BY <1>2, <1>4, <2>3
  <2>5. found = SubSeq(vector, a + 1, a + m)
    BY <1>5, <2>2, <2>3, <2>4 DEF a
  <2>6. /\ SubSeq(vector, a + 1, a + m) \in Seq(Nat)
        /\ Len(SubSeq(vector, a + 1, a + m)) = m
        /\ \A j \in 1 .. m : SubSeq(vector, a + 1, a + m)[j] = vector[a + j]
    BY <1>1, <1>2, <2>1, Slice
  <2>7. found \in Seq(Nat) /\ Len(found) = m /\ \A j \in 1 .. m : found[j] = o[j]
    BY <2>1, <2>5, <2>6
  <2>8. o \in Seq(Nat) /\ m = Len(o)
    BY <1>1 DEF m
  <2>9. found = o
    BY <2>7, <2>8, SeqEqual
  <2> QED
    BY <2>9 DEF o
<1> QED
  BY <1>6, <1>7

LEMMA AnswerStored ==
  ASSUME ImportInv, LeafSizeInv, WalkInv, Return, LeavesAgree(source)
  PROVE  answer' = From(pos).out
<1> DEFINE n == From(pos)
           i == origin[pos + 1][2]
<1>1. /\ status = "walking" /\ IsLeaf(n)
      /\ answer' = IF vector = <<>> THEN <<nodes[pos + 1].output>>
                   ELSE SubSeq(vector, nodes[pos + 1].index * leaf_size + 1,
                                       (nodes[pos + 1].index + 1) * leaf_size)
  BY ReturnFacts
<1>2. phase = "ready" /\ pos \in Built /\ tree \in TreesOf(forest) /\ i \in Ids(forest[tree])
      /\ n = forest[tree][i] /\ n \in Node
  BY <1>1, WalkFacts
<1>3. OutputsStored
  BY <1>2 DEF ImportInv, BuildInv
<1>4. StoredLeafAs(n, nodes[pos + 1], vector)
  BY <1>1, <1>2, LeafStored
<1>5. PICK u \in NodesOf(source) : source[u[1]][u[2]] = n
  <2>1. phase # "called" /\ IsLeaf(forest[tree][i])
    BY <1>1, <1>2
  <2> QED
    BY <1>2, <2>1, LeafOfSource
<1>6. leaf_size = 1 \/ leaf_size = Len(n.out)
  BY <1>1, <1>5 DEF LeafSizeInv, LeavesAgree
<1>7. n.out \in Seq(Nat)
  BY <1>2 DEF Node
<1> QED
  BY <1>1, <1>3, <1>4, <1>6, <1>7, OutputFound

LEMMA WalkStep ==
  ASSUME ImportInv, LeafSizeInv, WalkInv, [Next]_vars
  PROVE  WalkInv'
<1>1. CASE UNCHANGED vars
  BY <1>1 DEF WalkInv, vars, importVars, builtVars, walkVars, Built, Positions, From
<1>2. CASE Importing
  <2>1. status = "idle" \/ phase \notin {"called", "offsets", "build"}
    BY DEF WalkInv
  <2>2. phase \in {"called", "offsets", "build"} /\ UNCHANGED walkVars
    BY <1>2 DEF Importing, Convert, StartTrees, VisitOffset, OffsetsDone, BuildLeaf, BuildNumeric,
                BuildCategory, Fail, Finish
  <2> QED
    BY <2>1, <2>2 DEF WalkInv, walkVars
<1>3. CASE Ask
  <2>1. /\ phase = "ready" /\ status' = "entered" /\ tree' \in TreesOf(forest)
        /\ pos' = roots[tree'] /\ UNCHANGED importVars
    BY <1>3 DEF Ask
  <2>2. UNCHANGED <<source, forest, phase, roots, origin, nodes>>
    BY <2>1 DEF importVars, builtVars
  <2>3. roots[tree'] \in Built /\ origin[roots[tree'] + 1] = <<tree', 0>>
    BY <2>1, RootsReady
  <2>4. Built' = Built
    BY <2>2 DEF Built, Positions
  <2> QED
    BY <2>1, <2>2, <2>3, <2>4 DEF WalkInv
<1>4. CASE Descend
  <2> DEFINE c == Condition(nodes[pos + 1], input')
             n == nodes[pos + 1]
  <2>1. /\ status # "idle" /\ ~IsLeaf(From(pos)) /\ status' = "walking"
        /\ pos' = pos + ChildOffset(n, c) /\ UNCHANGED <<importVars, tree>>
    BY <1>4, DescendFacts
  <2>2. UNCHANGED <<source, forest, phase, roots, origin, nodes>>
    BY <2>1 DEF importVars, builtVars
  <2>3. phase = "ready" /\ tree \in TreesOf(forest) /\ pos \in Built /\ origin[pos + 1][1] = tree
    BY <2>1 DEF WalkInv
  <2>4. PICK b \in BOOLEAN : ChildOffset(n, c) = ChildOffset(n, b)
    <3>1. ChildOffset(n, c) = ChildOffset(n, TRUE) \/ ChildOffset(n, c) = ChildOffset(n, FALSE)
      BY DEF ChildOffset
    <3> QED
      BY <3>1
  <2>5. /\ pos + ChildOffset(n, b) \in Built
        /\ origin[pos + ChildOffset(n, b) + 1]
             = <<origin[pos + 1][1], IF b THEN DistantChild(From(pos)) ELSE HotChild(From(pos))>>
    BY <2>1, <2>3, NextPosition
  <2>6. pos' \in Built /\ origin[pos' + 1][1] = tree
    BY <2>1, <2>3, <2>4, <2>5
  <2>7. Built' = Built
    BY <2>2 DEF Built, Positions
  <2> QED
    BY <2>1, <2>2, <2>3, <2>6, <2>7 DEF WalkInv
<1>5. CASE Return
  <2>1. /\ status = "walking" /\ status' = "answered" /\ IsLeaf(From(pos))
        /\ leaf_id' = origin[pos + 1][2] /\ UNCHANGED <<importVars, tree, pos>>
    BY <1>5, ReturnFacts
  <2>2. UNCHANGED <<source, forest, phase, roots, origin, nodes>>
    BY <2>1 DEF importVars, builtVars
  <2>3. phase = "ready" /\ tree \in TreesOf(forest) /\ pos \in Built /\ origin[pos + 1][1] = tree
    BY <2>1 DEF WalkInv
  <2>4. Built' = Built /\ From(pos)' = From(pos) /\ LeavesAgree(source)' = LeavesAgree(source)
    BY <2>1, <2>2 DEF Built, Positions, From
  <2>5. LeavesAgree(source) => answer' = From(pos).out
    BY <1>5, AnswerStored
  <2> QED
    BY <2>1, <2>2, <2>3, <2>4, <2>5 DEF WalkInv
<1> QED
  BY <1>1, <1>2, <1>3, <1>4, <1>5 DEF Next, Over

(* An evaluation stays in step with the array it was asked of. *)
THEOREM WalkInvariant == Spec => [](ImportInv /\ LeafSizeInv /\ WalkInv)
<1>1. Init => LeafSizeInv /\ WalkInv
  BY DEF Init, LeafSizeInv, WalkInv
<1>2. ImportInv /\ LeafSizeInv /\ WalkInv /\ [Next]_vars => LeafSizeInv' /\ WalkInv'
  BY LeafSizeStep, WalkStep DEF ImportInv
<1> QED
  BY <1>1, <1>2, ImportInvariant, PTL DEF Spec

(* An evaluation returns the id and the output of one leaf of the tree it was
   asked of: the id mapping, which is indexed from the root of the first tree,
   keeps step with the nodes over any padding, and an output vector is where
   its leaf says (evaluate_tree.hpp and infer_kind::leaf_id), for every model
   whose leaves have as many outputs each. *)
THEOREM LeafNamesItsOutput == Spec => [](LeavesAgree(source) => LeafIdNamesOutput)
<1>1. ASSUME ImportInv, WalkInv, LeavesAgree(source) PROVE LeafIdNamesOutput
  <2>1. SUFFICES ASSUME status = "answered"
                 PROVE  /\ leaf_id \in Ids(forest[tree])
                        /\ IsLeaf(forest[tree][leaf_id])
                        /\ forest[tree][leaf_id].out = answer
    BY DEF LeafIdNamesOutput
  <2>2. /\ IsLeaf(From(pos)) /\ leaf_id = origin[pos + 1][2] /\ answer = From(pos).out
    BY <1>1, <2>1 DEF WalkInv
  <2>3. origin[pos + 1][2] \in Ids(forest[tree]) /\ From(pos) = forest[tree][origin[pos + 1][2]]
    BY <1>1, <2>1, WalkFacts
  <2> QED
    BY <2>2, <2>3
<1>2. ImportInv /\ WalkInv => (LeavesAgree(source) => LeafIdNamesOutput)
  BY <1>1
<1> QED
  BY <1>2, WalkInvariant, PTL

-----------------------------------------------------------------------------
(* Evaluating the array implements evaluating the Treelite trees. *)

(* What a walk over the Treelite model has for an evaluation *)
PromisedStatus == IF status = "entered" THEN "walking" ELSE status
Alone(t) == IsLeaf(source[t][0])
PromisedNode == IF status = "idle" \/ Alone(tree) THEN 0 ELSE origin[pos + 1][2]
PromisedInput == IF Alone(tree) THEN NaN ELSE input

LEMMA PromisedActions ==
  /\ Promise!Ask <=>
       /\ PromisedStatus \in {"idle", "answered"}
       /\ PromisedStatus' = "walking"
       /\ tree' \in TreesOf(source)
       /\ PromisedNode' = 0 /\ PromisedInput' = NaN
       /\ UNCHANGED <<source, answer>>
  /\ Promise!Descend <=>
       /\ PromisedStatus = "walking"
       /\ ~IsLeaf(source[tree][PromisedNode])
       /\ PromisedInput' \in Values
       /\ PromisedNode' = SourceChild(source[tree][PromisedNode], PromisedInput')
       /\ UNCHANGED <<source, PromisedStatus, tree, answer>>
  /\ Promise!Answer <=>
       /\ PromisedStatus = "walking"
       /\ IsLeaf(source[tree][PromisedNode])
       /\ answer' = source[tree][PromisedNode].out
       /\ PromisedStatus' = "answered"
       /\ UNCHANGED <<source, tree, PromisedNode, PromisedInput>>
<1>1. /\ \A n : Promise!IsLeaf(n) <=> IsLeaf(n)
      /\ \A n, x : Promise!SourceChild(n, x) = SourceChild(n, x)
      /\ \A m : Promise!TreesOf(m) = TreesOf(m)
  BY DEF Promise!IsLeaf, IsLeaf, Promise!SourceChild, SourceChild, Promise!GoesLeft, GoesLeft,
         Promise!TreesOf, TreesOf
<1> QED
  BY <1>1 DEF Promise!Ask, Promise!Descend, Promise!Answer, PromisedStatus, PromisedNode,
              PromisedInput, Alone

LEMMA PromisedStutter ==
  ASSUME UNCHANGED <<source, answer, tree, PromisedStatus, PromisedNode, PromisedInput>>
  PROVE  UNCHANGED Promise!walkVars
  BY DEF Promise!walkVars, PromisedStatus, PromisedNode, PromisedInput, Alone

(* Where an evaluation is in the array is where the walk is in the tree; of a
   tree that was a single leaf the walk is at that leaf. *)
LEMMA PromisedPlace ==
  ASSUME ImportInv, WalkInv, status # "idle"
  PROVE  /\ IsLeaf(From(pos)) => source[tree][PromisedNode] = From(pos)
         /\ ~Alone(tree) => source[tree][PromisedNode] = From(pos)
         /\ Alone(tree) => IsLeaf(source[tree][PromisedNode])
<1>1. /\ phase = "ready" /\ tree \in TreesOf(forest) /\ origin[pos + 1][2] \in Ids(forest[tree])
      /\ From(pos) = forest[tree][origin[pos + 1][2]]
      /\ ~IsLeaf(source[tree][0]) => forest[tree] = source[tree]
  BY WalkFacts
<1>2. phase # "called"
  BY <1>1
<1>3. CASE Alone(tree)
  <2>1. PromisedNode = 0 /\ IsLeaf(source[tree][0])
    BY <1>3 DEF PromisedNode, Alone
  <2>2. ASSUME IsLeaf(From(pos)) PROVE From(pos) = source[tree][0]
    BY <1>1, <1>2, <2>1, <2>2, LeafOfSource
  <2> QED
    BY <1>3, <2>1, <2>2
<1>4. CASE ~Alone(tree)
  <2>1. PromisedNode = origin[pos + 1][2] /\ forest[tree] = source[tree]
    BY <1>1, <1>4 DEF PromisedNode, Alone
  <2> QED
    BY <1>1, <1>4, <2>1
<1> QED
  BY <1>3, <1>4

LEMMA PromisedInit ==
  ASSUME Init
  PROVE  Promise!Init
  BY DEF Init, Promise!Init

LEMMA PromisedAsk ==
  ASSUME ImportInv, Ask
  PROVE  Promise!Ask
<1>1. /\ phase = "ready" /\ status \in {"idle", "answered"} /\ status' = "entered"
      /\ tree' \in TreesOf(forest) /\ pos' = roots[tree'] /\ input' = NaN
      /\ UNCHANGED <<source, origin, answer>>
  BY DEF Ask, importVars, builtVars
<1>2. TreesOf(forest) = TreesOf(source)
  <2>1. IsModel(source) /\ forest = ConvertDegenerate(source)
    BY <1>1, ForestFacts DEF ArgumentsInv, ImportInv
  <2> QED
    BY <2>1, Converted
<1>3. origin[roots[tree'] + 1] = <<tree', 0>>
  BY <1>1, RootsReady
<1>4. PromisedNode' = 0
  BY <1>1, <1>3 DEF PromisedNode
<1>5. PromisedInput' = NaN /\ PromisedStatus \in {"idle", "answered"} /\ PromisedStatus' = "walking"
  BY <1>1 DEF PromisedInput, PromisedStatus
<1> QED
  BY <1>1, <1>2, <1>4, <1>5, PromisedActions

LEMMA PromisedDescend ==
  ASSUME ImportInv, WalkInv, Descend, ~OnlyEmptyLists(source)
  PROVE  Promise!Descend \/ UNCHANGED Promise!walkVars
<1>1. /\ status \in {"entered", "walking"} /\ status # "idle" /\ ~IsLeaf(From(pos))
      /\ input' \in Values /\ status' = "walking"
      /\ pos' = pos + ChildOffset(nodes[pos + 1], Condition(nodes[pos + 1], input'))
      /\ UNCHANGED <<source, origin, tree, answer>>
  BY DescendFacts DEF importVars, builtVars
<1>2. PromisedStatus = "walking" /\ PromisedStatus' = "walking"
  BY <1>1 DEF PromisedStatus
<1>3. CASE Alone(tree)
  <2>1. UNCHANGED <<PromisedNode, PromisedInput>>
    BY <1>1, <1>3 DEF PromisedNode, PromisedInput, Alone
  <2> QED
    BY <1>1, <1>2, <2>1, PromisedStutter
<1>4. CASE ~Alone(tree)
  <2>1. phase = "ready" /\ pos \in Built
    BY <1>1, WalkFacts
  <2> DEFINE x == input'
             child == pos + ChildOffset(nodes[pos + 1], Condition(nodes[pos + 1], x))
  <2>2. x \in Values /\ pos' = child
    BY <1>1
  <2> HIDE DEF x
  <2>3. origin[child + 1] = <<origin[pos + 1][1], SourceChild(From(pos), x)>>
    BY <1>1, <2>1, <2>2, ChildFaithful
  <2> HIDE DEF child
  <2>4. source[tree][PromisedNode] = From(pos)
    BY <1>1, <1>4, PromisedPlace
  <2>5. PromisedNode' = origin[child + 1][2] /\ PromisedInput' = x
    BY <1>1, <1>4, <2>2 DEF PromisedNode, PromisedInput, Alone, x
  <2>6. PromisedNode' = SourceChild(source[tree][PromisedNode], PromisedInput')
    BY <2>3, <2>4, <2>5
  <2> QED
    BY <1>1, <1>2, <2>2, <2>4, <2>5, <2>6, PromisedActions
<1> QED
  BY <1>3, <1>4

LEMMA PromisedReturn ==
  ASSUME ImportInv, LeafSizeInv, WalkInv, Return, LeavesAgree(source)
  PROVE  Promise!Answer
<1>1. /\ status = "walking" /\ status # "idle" /\ status' = "answered" /\ IsLeaf(From(pos))
      /\ UNCHANGED <<source, origin, tree, pos, input>>
  BY ReturnFacts DEF importVars, builtVars
<1>2. answer' = From(pos).out
  BY AnswerStored
<1>3. source[tree][PromisedNode] = From(pos)
  BY <1>1, PromisedPlace
<1>4. PromisedStatus = "walking" /\ PromisedStatus' = "answered"
  BY <1>1 DEF PromisedStatus
<1>5. UNCHANGED <<PromisedNode, PromisedInput>>
  BY <1>1 DEF PromisedNode, PromisedInput, Alone
<1> QED
  BY <1>1, <1>2, <1>3, <1>4, <1>5, PromisedActions

LEMMA PromisedStep ==
  ASSUME ImportInv, LeafSizeInv, WalkInv, ~OnlyEmptyLists(source), LeavesAgree(source),
         [Next]_vars
  PROVE  [Promise!Next]_(Promise!walkVars)
<1>1. CASE Ask
  BY <1>1, PromisedAsk DEF Promise!Next
<1>2. CASE Descend
  BY <1>2, PromisedDescend DEF Promise!Next
<1>3. CASE Return
  BY <1>3, PromisedReturn DEF Promise!Next
<1>4. CASE UNCHANGED vars
  <2>1. UNCHANGED <<source, origin, status, tree, pos, input, answer>>
    BY <1>4 DEF vars, importVars, builtVars, walkVars
  <2> QED
    BY <2>1, PromisedStutter DEF PromisedStatus, PromisedNode, PromisedInput, Alone
<1>5. CASE Importing
  <2>1. phase \in {"called", "offsets", "build"} /\ UNCHANGED <<source, walkVars>>
    BY <1>5 DEF Importing, Convert, StartTrees, VisitOffset, OffsetsDone, BuildLeaf, BuildNumeric,
                BuildCategory, Fail, Finish
  <2>2. status = "idle"
    BY <2>1 DEF WalkInv
  <2>3. UNCHANGED <<source, answer, tree, status, pos, input>>
    BY <2>1 DEF walkVars
  <2>4. UNCHANGED <<PromisedStatus, PromisedNode, PromisedInput>>
    BY <2>2, <2>3 DEF PromisedStatus, PromisedNode, PromisedInput, Alone
  <2> QED
    BY <2>3, <2>4, PromisedStutter
<1> QED
  BY <1>1, <1>2, <1>3, <1>4, <1>5 DEF Next, Over

(* Evaluating a tree of the array is a walk over the Treelite tree from its
   root to a leaf, whose output is the answer, for every set of models in
   which none has empty category lists only and the leaves of each have as
   many outputs (evaluate_tree.hpp on a forest that was imported).  An import,
   and the test that was added to a single leaf, are steps in which that walk
   stands still. *)
THEOREM ImplementsWalk ==
  ASSUME \A model \in Models : ~OnlyEmptyLists(model) /\ LeavesAgree(model)
  PROVE  Spec => Implements
<1>1. Init => Promise!Init
  BY PromisedInit
<1>2. ImportInv /\ LeafSizeInv /\ WalkInv /\ [Next]_vars => [Promise!Next]_(Promise!walkVars)
  <2>1. SUFFICES ASSUME ImportInv, LeafSizeInv, WalkInv, [Next]_vars
                 PROVE  [Promise!Next]_(Promise!walkVars)
    OBVIOUS
  <2>2. ~OnlyEmptyLists(source) /\ LeavesAgree(source)
    <3>1. source \in Models
      BY <2>1 DEF ImportInv, ArgumentsInv
    <3> QED
      BY <3>1
  <2> QED
    BY <2>1, <2>2, PromisedStep
<1> QED
  BY <1>1, <1>2, WalkInvariant, PTL DEF Implements, Promise!Spec, Spec

=============================================================================

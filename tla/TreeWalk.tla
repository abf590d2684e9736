------------------------------ MODULE TreeWalk ------------------------------
(***************************************************************************)
(* The promise of an imported forest: whenever a tree of it is evaluated,  *)
(* the answer is the output of the leaf that the Treelite tree reaches.    *)
(***************************************************************************)
EXTENDS SourceForest

VARIABLES
  source,   \* the Treelite model, a member of Models
  status,   \* "idle", "walking" or "answered"
  tree,     \* the tree being evaluated
  node,     \* the id of the node the walk has reached
  input,    \* the feature value that was tested to get there
  answer    \* the output vector returned last

walkVars == <<source, status, tree, node, input, answer>>

Init ==
  /\ source \in Models
  /\ status = "idle"
  /\ tree = 1
  /\ node = 0
  /\ input = NaN
  /\ answer = <<>>

Ask ==
  /\ status \in {"idle", "answered"}
  /\ status' = "walking"
  /\ tree' \in TreesOf(source)
  /\ node' = 0
  /\ input' = NaN
  /\ UNCHANGED <<source, answer>>

Descend ==
  /\ status = "walking"
  /\ ~IsLeaf(source[tree][node])
  /\ input' \in Values
  /\ node' = SourceChild(source[tree][node], input')
  /\ UNCHANGED <<source, status, tree, answer>>

Answer ==
  /\ status = "walking"
  /\ IsLeaf(source[tree][node])
  /\ answer' = source[tree][node].out
  /\ status' = "answered"
  /\ UNCHANGED <<source, tree, node, input>>

Next == Ask \/ Descend \/ Answer

Spec == Init /\ [][Next]_walkVars
=============================================================================

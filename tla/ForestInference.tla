--------------------------- MODULE ForestInference ---------------------------
(***************************************************************************)
(* The promise of an inference call, whatever the device and the kernel:   *)
(* either the call is refused before anything is written, or every row of  *)
(* the output is written exactly once, with the sum of the tree outputs    *)
(* that belong to it, each counted once, postprocessed once.               *)
(***************************************************************************)
EXTENDS InferenceRequest

VARIABLES
  request,   \* the call being served, a member of Calls
  status,    \* "running", "refused" or "returned"
  result     \* result[r][o]: output o of row r

absVars == <<request, status, result>>

(***************************************************************************)
(* The tree outputs that make up output o of row r.  With scalar leaves    *)
(* and default inference, tree t votes for output t % num_outputs (the     *)
(* round-robin class assignment the importer insists on).                  *)
(***************************************************************************)
Contributions(c, r, o) ==
  LET leaf(t, k) == [offset |-> r * c.col_count, tree |-> t, comp |-> k]
      n          == c.default_num_outputs
  IN  IF c.infer_type = "leaf_id" THEN {leaf(o, 0)}
      ELSE IF c.infer_type = "per_tree"
      THEN IF c.has_vector_leaves THEN {leaf(o \div n, o % n)} ELSE {leaf(o, 0)}
      ELSE IF c.has_vector_leaves
      THEN {leaf(t, o) : t \in Trees(c)}
      ELSE {leaf(t, 0) : t \in {u \in Trees(c) : u % n = o}}

(* v is the sum of the members of terms, each counted once. *)
IsSumOf(v, terms) ==
  /\ {v.sum[i] : i \in 1 .. Len(v.sum)} = terms
  /\ \A i, j \in 1 .. Len(v.sum) : v.sum[i] = v.sum[j] => i = j

IsResult(v, c, r, o) == v.post = 1 /\ IsSumOf(v, Contributions(c, r, o))

Unwritten(r) == \A o \in Outputs(request) : result[r][o] = Zero

Init ==
  /\ request \in Calls
  /\ status = "running"
  /\ result = [r \in Rows(request) |-> [o \in Outputs(request) |-> Zero]]

Refuse ==
  /\ status = "running"
  /\ \A r \in Rows(request) : Unwritten(r)
  /\ status' = "refused"
  /\ UNCHANGED <<request, result>>

WriteRow(r) ==
  /\ status = "running"
  /\ Unwritten(r)
  /\ result' = [result EXCEPT ![r] = result'[r]]
  /\ \A o \in Outputs(request) : IsResult(result'[r][o], request, r, o)
  /\ UNCHANGED <<request, status>>

Return ==
  /\ status = "running"
  /\ \A r \in Rows(request), o \in Outputs(request) :
        IsResult(result[r][o], request, r, o)
  /\ status' = "returned"
  /\ UNCHANGED <<request, result>>

Next == Refuse \/ (\E r \in Rows(request) : WriteRow(r)) \/ Return

Spec == Init /\ [][Next]_absVars
=============================================================================

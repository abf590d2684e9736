----------------------------- MODULE MCCpuInfer -----------------------------
(* Small instances of CpuInfer for TLC. *)
EXTENDS CpuInfer

(* Every kind of inference on small forests: up to 3 rows in chunks of 1 or
   2, up to 3 trees in groves of 1 or 2, 1 or 2 outputs. *)
SmallCalls ==
  {c \in [row_count : 0 .. 3, col_count : {2}, num_tree : {1, 3},
          default_num_outputs : {1, 2}, has_vector_leaves : BOOLEAN,
          infer_type : InferKind, chunk_size : {1, 2}, grove_size : {1, 2}] :
     /\ c.has_vector_leaves => c.default_num_outputs > 1
     /\ c.row_count = 3 => c.chunk_size = 2
     /\ c.row_count * c.num_tree * NumComp(c) <= 6}

(* Threads competing for the tasks of 2 row chunks and 2 groves. *)
ContendedCalls ==
  {c \in [row_count : {2}, col_count : {1}, num_tree : {2, 3},
          default_num_outputs : {1, 2}, has_vector_leaves : BOOLEAN,
          infer_type : InferKind, chunk_size : {1}, grove_size : {1, 2}] :
     /\ CeilDiv(c.num_tree, c.grove_size) = 2
     /\ c.has_vector_leaves => c.default_num_outputs = 2 /\ c.num_tree = 2}

(* Row counts at the bound of the size guard, one past it, and where the
   workspace would have as many elements as index_type has values. *)
GuardCalls ==
  {[row_count |-> rows, col_count |-> 1, num_tree |-> trees, default_num_outputs |-> 4,
    has_vector_leaves |-> FALSE, infer_type |-> "default", chunk_size |-> 2, grove_size |-> 2]
   : rows \in {4, 5, 8}, trees \in {1, 2}}

MCCalls == SmallCalls \cup ContendedCalls \cup GuardCalls

(* One call whose last chunk would end beyond the range of index_type. *)
LastChunkCalls ==
  {[row_count |-> 9, col_count |-> 1, num_tree |-> 1, default_num_outputs |-> 1,
    has_vector_leaves |-> FALSE, infer_type |-> "default",
    chunk_size |-> 8, grove_size |-> 1]}

(* One call whose input has more elements than index_type has values. *)
WideInputCalls ==
  {[row_count |-> 3, col_count |-> 9, num_tree |-> 1, default_num_outputs |-> 1,
    has_vector_leaves |-> FALSE, infer_type |-> "default",
    chunk_size |-> 2, grove_size |-> 1]}
=============================================================================

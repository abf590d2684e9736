----------------------------- MODULE MCGpuInfer -----------------------------
(* Small instances of GpuInfer for TLC.  Sizes are in elements (ItemBytes =
   1); a warp is 2 threads and a chunk at most 2 rows. *)
EXTENDS GpuInfer

Shape(rows, cols, trees, outputs) ==
  {c \in [row_count : rows, col_count : cols, num_tree : trees, default_num_outputs : outputs,
          has_vector_leaves : BOOLEAN, infer_type : InferKind, chunk_size : {1}, grove_size : {1}] :
     c.has_vector_leaves => c.default_num_outputs > 1}

(* A full and a partial chunk, fewer trees than threads and as many groves as
   there can be; outputs that fit in shared memory. *)
MCCalls == {c \in Shape({0, 1, 3}, {1, 2}, {2, 3, 5}, {1, 2}) : NumOutputs(c) <= 5}

DeviceOf(n) == [sm_count |-> 1, shared_per_block |-> n, shared_per_sm |-> n + 1, threads_per_sm |-> 16]

MCDevices == {DeviceOf(n) : n \in {10, 20}}

(* Two blocks that take one or more chunks each, and the leaf ids of more
   trees than fit in shared memory. *)
BlockCalls ==
  {c \in Shape({3, 4, 7}, {1}, {1, 3}, {1, 2}) :
     /\ c.row_count * NumOutputs(c) <= 12
     /\ c.infer_type = "per_tree" => c.num_tree = 1}
BlockDevices == {DeviceOf(n) : n \in {5, 20}}

(* Outputs per tree that do not fit in shared memory, with a chunk the caller
   chose. *)
PerTreeCalls == {c \in Shape({2}, {1}, {3}, {1}) : c.infer_type = "per_tree"}

(* Leaf ids that do not fit in shared memory, with a chunk the launch chose. *)
ManyTreesCalls == {c \in Shape({2}, {1}, {6}, {1}) : c.infer_type = "leaf_id"}

SmallDevices == {DeviceOf(5)}

(* As many rows as the size guard admits with a 4-bit index. *)
MostRowsCalls == {c \in Shape({12}, {1}, {1}, {1}) : c.infer_type = "default"}

LargeDevices == {DeviceOf(15)}
=============================================================================

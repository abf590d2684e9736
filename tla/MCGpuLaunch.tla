----------------------------- MODULE MCGpuLaunch -----------------------------
(* Small instances of GpuLaunch for TLC.  Sizes are in elements (ItemBytes =
   1); a warp is 4 threads and a block at most 32. *)
EXTENDS GpuLaunch

(* Requests from a few elements to more than a block's shared memory, in
   rows, outputs and both. *)
MCCalls ==
  {c \in [row_count : {0, 1, 4, 13, 124, 508, 4092, 4093}, col_count : {1, 5, 20, 65, 150},
          num_tree : {1, 3, 9, 40}, default_num_outputs : {1, 2, 5, 20, 80},
          has_vector_leaves : BOOLEAN, infer_type : InferKind,
          chunk_size : {1}, grove_size : {1}] :
     c.has_vector_leaves => c.default_num_outputs \in 2 .. 5}

(* The leaf ids of more trees than the shared memory of a block has elements. *)
ManyTreesCalls ==
  [row_count : {8}, col_count : {1, 5}, num_tree : {129, 160}, default_num_outputs : {1},
   has_vector_leaves : {FALSE}, infer_type : {"leaf_id"}, chunk_size : {1}, grove_size : {1}]

(* More outputs than the shared memory of a block has elements, of one tree:
   far fewer groves than threads. *)
ManyOutputsCalls ==
  [row_count : {4, 13, 40, 64}, col_count : {1}, num_tree : {1}, default_num_outputs : {130},
   has_vector_leaves : {TRUE}, infer_type : {"default"}, chunk_size : {1}, grove_size : {1}]

(* A multiprocessor has a little more shared memory than a block may use, as
   from Volta on, or twice as much, as before. *)
MCDevices ==
  [sm_count : {2}, shared_per_block : {64, 128}, shared_per_sm : {130},
   threads_per_sm : {256}]
=============================================================================

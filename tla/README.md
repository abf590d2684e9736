# A formal model of nvForest

nvForest evaluates forests of decision trees. A model trained elsewhere is read
by Treelite, imported into one flat array of nodes, copied to the memory of a
CPU or a GPU, and evaluated on batches of rows. This directory holds TLA+
modules for the parts of it whose correctness depends on more than one line of
code, TLC configurations that check them on small instances, and theorems that
TLAPS checks for every value of the constants.

Source paths below are relative to `src/cpp/include/nvforest/` unless they start
with `src/`.

## 1. The system

| component | state | operations | works with |
|---|---|---|---|
| Import (`treelite_importer.hpp`, `detail/traversal/`, `detail/integration/treelite.hpp`, `detail/degenerate_trees.hpp`) | the containers of nodes still to visit, their parents' indexes, `cur_index`, the vector of offsets | convert degenerate trees, traverse for the offsets, traverse again to hand nodes to the builder | reads Treelite, calls the builder |
| Builder (`detail/decision_forest_builder.hpp`) | `nodes_`, `root_node_indexes_`, `node_id_mapping_`, `vector_output_`, `categorical_storage_`, `output_size_` | `add_node`, `add_categorical_node`, `add_leaf_vector_node`, `set_output_size`, `get_decision_forest` | makes the `decision_forest` |
| Tree evaluation (`detail/node.hpp`, `detail/forest.hpp`, `detail/bitset.hpp`, `detail/evaluate_tree.hpp`) | the current node of a walk | `child_offset`, `test`, `evaluate_tree` | called by both kernels |
| CPU kernel (`detail/infer/cpu.hpp`, `detail/infer_kernel/cpu.hpp`) | workspace, output, the OpenMP team | infer loop over (grove, chunk) tasks, barrier, reduce loop over rows | evaluation, postprocessing |
| Postprocessing (`detail/postprocessor.hpp`) | none; a row of the workspace, in place | average, bias, element operation, softmax or max_index | called by both kernels |
| GPU kernel (`detail/infer_kernel/gpu.cuh`, `shared_memory_buffer.cuh`) | shared memory of a block, `requires_sync`, fallback workspace | fill, copy, sync, infer loop, warp reduction | evaluation, postprocessing |
| Choice of types (`decision_forest.hpp`, `detail/specialization_types.hpp`) | none | `get_forest_variant_index` | import |
| GPU launch (`detail/infer/gpu.cuh`) | none | threads, blocks, shared memory, chunk size, size guard | starts the GPU kernel |
| `forest_model`, `decision_forest` (`forest_model.hpp`, `decision_forest.hpp`, `detail/infer.hpp`) | the forest's buffers | `predict` with one stream or a pool of streams, partitions, choice of the variant | buffers, kernels |
| Buffers (`buffer.hpp`, `detail/copy`, `detail/owning_buffer`, `detail/non_owning_buffer`) | owned memory or a view | construct, move, copy between devices | everything above |
| Devices (`detail/device_setter`, `detail/device_initialization`, `detail/device_id`) | the current CUDA device | set and restore, initialise kernels' attributes | everything on GPU |
| Python (`src/python/nvforest/nvforest`) | the loaded model, its layout and default chunk size | `load_*`, `predict*`, `apply`, `optimize` | `forest_model` |

What is hard in it:

- **Concurrency.** The CPU kernel adds to a shared vector from many threads with
  no atomics and no locks; only index arithmetic and one implicit barrier keep
  the threads apart. The GPU kernel does the same with block-wide barriers it
  tries to save.
- **Two traversals that must agree.** The offset to a child is computed before
  padding is inserted and used after; one number stands for both children; leaf
  ids are looked up relative to the root of the first tree.
- **Unsigned arithmetic.** Indexes are 32 bits wide. Guards exist, and whether
  they cover every product and sum is not visible to a test on small data.
- **Floating point.** Sums are not associative: results are reproducible only if
  the order of additions is fixed, whatever the schedule.
- **Memory on several devices**, views whose owner may be gone, addresses cached
  beside the owner, streams that overlap, exceptions midway.
- **Types chosen per model.** One of twelve instantiations is picked from the sizes
  of a model before a node is made; a node drops the bits it has no room for, and
  thresholds are rounded and moved.

What makes each component correct is stated in `PROJECT.json` under `hazards`,
each at the line where it bites, with the property that covers it.

## 2. Modules

| module | what it is |
|---|---|
| `InferenceRequest` | the arguments of an inference call, number of outputs, and values; shared by the kernels |
| `ForestInference` | abstract: what a call promises, whatever device serves it |
| `CpuInfer` | the CPU kernel, detailed; implements `ForestInference` |
| `IntegerLemmas` | products, division with remainder, least elements; shared by the proofs |
| `RequestLemmas` | lemmas about calls, their outputs and groves; shared by the kernels' proofs |
| `CpuInferProofs` | theorems about `CpuInfer`: where its threads are, what its outputs are, and that it implements `ForestInference` |
| `MCCpuInfer` | calls for TLC |
| `SourceForest` | the Treelite model and the meaning of its nodes (external) |
| `TreeWalk` | abstract: evaluating a tree is walking the Treelite tree |
| `ForestImport` | traversals, builder and evaluation; implements `TreeWalk` |
| `MCForestImport` | forests for TLC |
| `ForestImportProofs` | theorems about `ForestImport`: traversals, the array they build, evaluation, and that it implements `TreeWalk` |
| `ThresholdCast` | float and double as ascending lists of values; narrowing and `nextafter` |
| `NodeStorage` | the twelve instantiations, what their fields hold, the choice among them |
| `Postprocess` | `postprocess` and its dispatch, from sums to outputs |
| `TreeliteModel` | what a Treelite model means, in terms of its trees (external) |
| `ModelImport` | the import of numbers and parameters, and predictions; extends the four above |
| `ModelImportProofs` | theorems: narrowing and `nextafter` keep the outcome of a comparison; `ThresholdsKept`, `RejectedForCause` and, where indexes reach, `NodesIntact` for every import; wide indexes are never chosen for a model; answers are those of the Treelite model |
| `MCModelImport` | models for TLC |
| `GpuLaunch` | the launch configuration of the GPU kernel; extended by `GpuInfer` |
| `MCGpuLaunch` | requests and devices for TLC |
| `GpuInfer` | the GPU kernel, detailed; implements `ForestInference` |
| `MCGpuInfer` | requests and devices for TLC |
| `GpuInferProofs` | theorems about `GpuLaunch` and `GpuInfer`: sizes, where threads are, what its outputs are, and that it implements `ForestInference` |
| `PredictRouting` | `forest_model::predict`: temporaries, partitions, streams |
| `MCPredictRouting` | placements for TLC |
| `PredictRoutingProofs` | theorems about `PredictRouting` |
| `DeviceMemory` | `buffer`: owners, views, copies, moves, over devices and streams |
| `ForestLifetime` | forests in that memory: import, inference, destruction; extends `DeviceMemory` |
| `MCDeviceMemory` | devices and shapes of forests for TLC |
| `ForestLifetimeProofs` | theorems about `DeviceMemory` and `ForestLifetime` |

### CpuInfer

`request` is one call: sizes, kind of inference, chunk and grove size.
`phase` follows the function: `called`, then `refused` by the size guard or
`infer` (first loop), `reduce` (second loop), `done`. `pending` holds the
iterations of the current loop that OpenMP has not handed out; a thread that is
`idle` may take any of them (`ClaimTask`, `ClaimRow`), which includes every
static, dynamic and guided schedule. `pc`, `at` and `reg` are a thread's place in
the code, its loop indexes and the value it has loaded.

| action | code in `detail/infer_kernel/cpu.hpp` |
|---|---|
| `Refuse`, `Launch` | size guard 104-119, workspace and parallel region 121-127 |
| `ClaimTask` | one iteration of the first loop begins, 128-137 |
| `Evaluate` | `evaluate_tree`, and the load of `+=` (for a leaf id there is none) |
| `Accumulate` | the store of `+=` or of the leaf id, and the step to the next component, tree or row |
| `Barrier` | end of the first `omp for` |
| `ClaimRow`, `SumGrove`, `StoreSum` | one iteration of the second loop, `std::accumulate` element by element, 178-187 |
| `PostProcess` | the call of `postproc`, 188-193 |
| `Finish` | end of the parallel region |

`+=` is two steps, so that a shared element would lose an update. A value is the
list of tree outputs summed to get it, in order, with the number of times it was
postprocessed: equal lists are equal bits, permuted lists are equal up to
rounding. A tree output is identified by the offset of the row it was evaluated
on, the tree and the component of the leaf vector: reading the wrong row gives a
different value. Index arithmetic is modulo `IndexMod`, 2^32 in the code.

The postprocessor's formulas are one opaque operation per element here;
`Postprocess` has them.

### ForestImport

A model is a sequence of trees, a tree a function from node ids to nodes
(`IsModel`: finite trees whose nodes but the root have one parent each and are
reached from the root, which `ModelsAssumption` asks of every model). An
import is `Convert` (degenerate trees), a traversal with `VisitOffset`,
`OffsetsDone`, and a traversal with `BuildLeaf`, `BuildNumeric`,
`BuildCategory` or `Fail`, then `Finish` with the builder's checks. `todo`
stands for `to_be_visited` together with the container of parent indexes, which
the code keeps in step with it; its head is the next node, and it is a stack or
a queue according to the layout. Once the forest is ready its trees are
evaluated, any number of times: `Ask`, `Descend`, `Return`. The feature value a
node reads is chosen when it is read; `input` remembers the last one, so that
`Implements` ties every move to the value it was made on.

Thresholds are doubled, so that an odd number can stand for `nextafter`.
`origin` is a history variable: the Treelite node each array element came from.
Bits of a node's metadata are fields of a record. A node's `index` and `value`
are separate fields although they share a union: no path of the code reads the
member it did not write.

### ModelImport

`ForestImport` is about where nodes go. `ModelImport` is about what becomes of
their numbers: whether they fit the types that were chosen, and whether the sums,
the average, the bias and the transformation are those of Treelite. A node's place
is its position in the traversal, and a row is known by the leaf it ends in.

| action | code |
|---|---|
| `Reject` | the checks of the model, `treelite_importer.hpp:388-422` and `validate_model_shape`, 90-107 |
| `Choose` | `treelite_importer.hpp:425-447`, `get_forest_variant_index` at `decision_forest.hpp:434-481` |
| `AddLeaf`, `AddNumeric`, `AddCategorical` | one node handed to the builder, `treelite_importer.hpp:282-332` and the builder's `add_` functions |
| `RejectNode` | the exceptions of the builder and of `node::construct_metadata` |
| `Finish`, `RejectForest` | `treelite_importer.hpp:334-342`, `get_postproc_params`, `get_decision_forest` |
| `SetRow` | `forest_model.hpp:80-86` |
| `Predict` | `decision_forest.hpp:249-301`, down to the postprocessor |

A floating-point type is an ascending list of values whose ends are the
infinities; a node and an input hold positions in it. The conversion from double
to float may round either way (`Rounded`). Fields of a node are taken modulo their
width, as the conversions of the code do. An element of the storage is one number, held as
a count and the bits that were set in it; only behind an index that has wrapped is it
both (`NumberIn`, `BitsIn`). In `Postprocess` a number is an integer,
an infinity or NaN; `exp` and its kin are not computed but applied symbolically,
and the constant a formula takes is kept with it. `TreeliteModel` states what a
prediction of the model is without any of that: which trees are for which output,
mean, base score, transformation. `params` are the postprocessor's members;
`AnswersAsTreelite` compares outputs with that meaning.

### GpuLaunch

`Configuration` is the body of `infer` in `detail/infer/gpu.cuh` up to the
launch, one `LET` binding per variable of the code, in its order and modulo
`IndexMod`; `Threads0`, `Halve`, `KernelChunk`, `MaxNumRow` are the four choices of
threads, the do-while loop, the dispatch on the chunk and the size guard. The
constants of `gpu_introspection.hpp` are parameters. `Refuse` also stands for the
error CUDA reports for a grid of no blocks, which `cuda_check` throws.

### GpuInfer

A thread is a pair of a block and an index. Threads interleave freely between
barriers; the lanes of a warp meet at each shuffle.

| action | code in `detail/infer_kernel/gpu.cuh` |
|---|---|
| `LaunchKernel` | the launch: nothing has been written to any workspace yet |
| `Stage` | `clear`, `fill`, `copy` by one thread, 100-108, and the test of `requires_sync` |
| `SyncBarrier` | the barrier in `sync`, 118 |
| `Evaluate`, `Accumulate` | one tree output, load and store of `+=`, 126-176 |
| `InferredBarrier` | 178 |
| `WarpSum` | one batch of groves: 32 loads and the shuffles, 186-195 |
| `StoreSum`, `PostProcess` | lane 0, 196-205 |
| `ReducedBarrier` | 207, and the step of the loop at 97 |
| `Finish` | the grid is done |

`ShuffleSum` is `__shfl_down_sync` round by round, so that the order of the
additions is the one of the code. `staged` holds, for each element of the copy in
shared memory, which element of the input it came from. `requires_sync`
is not initialized by the constructor: `SyncRequired` is any Boolean where neither
fill nor copy sets it before the first `sync`. A workspace in global memory starts
with either zeros or sums of an earlier call (`Leftover`).

The launch is asynchronous: `returned` in `ForestInference` is the end of the grid,
which the caller waits for on its stream. Each block has a part of the global
workspace of its own in this model; `FallbackForAllBlocks` of `GpuLaunch` says when
that is so.

### PredictRouting

`pc` and `i` are the host thread's place in the loop over partitions. The overload
with one stream and the branch where nothing is copied are a single partition.
`queue` holds what was submitted to each stream; `Run(s)` executes the head of one.
`stream_pool_next` may answer any stream. Temporaries begin as `Garbage` and end as
`Freed`, on a device in the order of the stream they were made on, on the host at
once. `cudaMemcpyAsync` waits for the stream if its destination is pageable host
memory, and has read its source on return if that is pageable: temporaries on the
host are pageable, the caller's memory is or is not (`pinned`). The kernel is one
step that writes right results for rows that are whole, and `Garbage` for rows that
are not; what it does inside is `CpuInfer` and `GpuInfer`.

| action | code in `forest_model.hpp` |
|---|---|
| `Start` | 230-232 |
| `NextPartition` | 254-262, 276-287 |
| `CopyInput`, `CopyOutput` | 263-268, 290-297 |
| `Refuse`, `Infer` | 288, with `decision_forest.hpp:255-261`, `validate_stream` and the kernel's size guard |
| `Release` | end of the loop body: destructors of the temporaries |

### DeviceMemory and ForestLifetime

A block of memory has a place, one value, and is live or not. A buffer has what
`buffer.hpp` gives it: memory type, device, the variant (`owns`, `data`), the stream
its memory was allocated on, and the address it cached. `buffer`'s four kinds of
constructors, two assignments, swap and destruction are operators on
`[blocks, queue]`, so that `ForestLifetime` composes them: `WithArray` is the move
of a temporary view into a forest's array, `WithArrays` the three groups of
constructor arguments in their order, `Without` the destruction of members in the
opposite order, `Destroyed` what a destructor submits.
Work on a device waits in the queue of a stream; `Run(s)` executes its head.
Copies with a host side are done when the call returns, as pageable memory makes
them. A block that was released is given out again only when no pointer to it is
left, so that a dangling pointer stays visible.

A program uses buffers of its own or a forest. What it must do itself is in the
guards: it waits before it uses a buffer on another stream
(`src/docs/source/getting_started.rst:293`), it does nothing with a moved-from
buffer but assign to it or destroy it, it does not destroy what it views, and it
makes a device current before it names that device's default stream
(`CallersSetDevice`; without that, see `MCDeviceDefault.cfg`). The same duty holds at
destruction, and the models take it as done: memory from a default stream goes back
in the order of its own device's default stream there (`Destroyed`), while in the code
`device_setter` is in the constructor only (`src/cpp/src/detail/device_buffer.cu:38`), and
the destructor at line 46 uses the default stream of whichever device is current.

`Import` makes a forest from a builder's vectors, which are one block. It may fail
after any of the three groups of arrays (`made`) or in the preparation of the device (`ready`);
the exception then destroys what there is. `Predict` submits the kernel that
`infer` picks by null pointers, with the addresses it reads; an inference on the
host changes nothing here and is part of an invariant only. `nodes` stands for the
arrays every forest has.

## 3. Runs

| run | bounds | shows |
|---|---|---|
| `cpu_kernel` | 2 threads, 5-bit indexes, 0-3 rows, chunks of 1 or 2, 1 to 3 trees, groves of 1 or 2, 1 or 2 outputs, scalar and vector leaves, all kinds; and 4, 5 and 8 rows of 4 outputs, on both sides of the size guard | `TypeOK`, `KernelInv` (the invariant of the proofs), `NoRace`, `InBounds`, `ScheduleIndependent`, `RefusedOnlyIfLarge`; `Termination` and `Implements` under fairness |
| `cpu_wide_input` | one call, 4-bit indexes | a violation of `ResultsCorrect`, see 4.1 |
| `forest_import` | 54 models of 1-3 trees with 3-7 nodes, 3 layouts, alignments 0, 2, 3, 2-bit bins, values -1..4 and NaN | `ChildrenFaithful`, `StoredOnce`, `FailsForCause`, `LeafIdNamesOutput`; `ImportEnds` and `Implements` under fairness |
| `forest_empty_list` | models whose category lists are all empty | a violation of `ChildrenFaithful`, see 4.2 |
| `model_import` | floats of 7 and doubles of 17 values, 4- and 8-bit indexes, 2- and 4-bit offsets, 5 and 7 bits of metadata of which 3 reserved; every threshold in both tests and precisions, features 0..16, chains of depth 1 to 7, category lists below, at and beyond every width, storage and leaf vectors up to the last bin and element a small index reaches, and beyond with large indexes, up to 14 trees, every task, shape, average and transformation, and models that are refused | `ThresholdsKept`, `NodesIntact`, `AnswersAsTreelite`, `RejectedForCause` |
| `model_targets` | regressors for two targets, trees of one after those of the other | a violation of `AnswersAsTreelite`, see 4.4 |
| `gpu_kernel` | 1 block of 2 warps of 2 threads, chunks of 1 or 2, 0-3 rows, 2-5 trees, 10 or 20 elements of shared memory | `NoRace`, `SyncAgreed`, `Reproducible`; `Termination` and `Implements` under fairness |
| `gpu_blocks` | 2 blocks of 1 warp, 3-7 rows, 1 or 3 trees, 5 or 20 elements of shared memory | `InBounds`, `ResultsCorrect` |
| `gpu_fallback` | outputs per tree of 3 trees, chunk of 2, 5 elements of shared memory | a violation of `ResultsCorrect`, see 4.3 |
| `gpu_launch` | warps of 4, blocks of up to 32, chunks up to 4, 12-bit sizes, 64 or 128 elements of shared memory; 26,880 combinations of request, device and chunk | `SharedWorkspaceFits`, `ChunkLargest`, `OffsetsRepresentable` |
| `predict_routing` | 2 streams, up to 5 partitions of 1 to 3 rows, 2 features, 1 or 3 outputs, 3 placements each for model, input and output; 6,300 calls | `ResultsInPlace`, `WrittenOnce`, `HostReady`, `RefusedUntouched`, `NoUseAfterFree`; `StreamsDrain` under fairness |
| `device_memory` | 2 devices of 2 streams, 4 blocks in use, 2 entries waiting in a stream, 2 buffers of the program, forests of all 6 shapes, chunks of 1 and 32, failures after every array | `OneOwner`, `PointerValid`, `ValuesKept`, `ForestReadable`, `KernelPrepared` |

Four more configurations check the invariants of proofs on the constants of a run:
`MCPredictInv.cfg` the `RoutingInv` of `PredictRouting`, `MCGpuInv.cfg` and
`MCGpuBlocksInv.cfg` the `GridInv` and the `ResultInv` of `GpuInfer` (with devices wide
enough, `MIN_BLOCKS_PER_SM = 4`, that calls are `Supported`), `MCDeviceInv.cfg` the
`OwnershipInv`, the `InferenceInv` and the `KeptInv` of `ForestLifetime`.

Why the bounds are enough. In the kernels the cases are: full and partial chunks
and groves, one or several of each, more threads than tasks and fewer, one or
several outputs and components; all of them occur, and two threads suffice to
meet on one element, which is all `NoRace` forbids. A 5-bit index (4 bits in the
violation runs) puts the CPU size guard and every wrap within reach of a handful of
rows. In the import the cases
are: depth on the hot side, on the distant side and on both, trees of different
sizes one after the other so that padding is needed, is not needed and is
different per alignment, category lists that fit a node and that do not, lists
with members in the second bin, values below, at and above each threshold, between
categories and outside the bitset.

On the GPU: two warps, so that one can be ahead of the other; two lanes, so that
a batch of groves can be partial and a second batch needed (5 trees); as much
shared memory as holds workspace and rows, only the workspace, or neither; blocks
that take one chunk and more than one. The launch run scales the code's
constants (warp 32, block 256, chunk 32) down by 8 and keeps their order. Its
devices have up to about twice as much shared memory per multiprocessor as per
block, which is what hardware has; `SharedWorkspaceFits` would fail for a device
with more than about three times as much, where a launch may stop halving at one
row with the workspace of two and still divide shared memory too finely.

In the import of numbers: doubles between floats, on floats and infinite, so that
rounding goes both ways and past either end; for every field a model at the last
value the narrow type holds, the first it does not, and the limit of the wide type;
category lists that fill 16 bins exactly and leaf vectors of 16 elements, the most a
4-bit index reaches, which small indexes have to serve, as wide ones are not chosen
for them (`IndexesNeverWiden`). The three reserved bits and the order of the widths are those of the
code.

In memory: two devices, so that one can be current while the other is used; two
streams each, so that an allocation and a use differ; as many blocks as the largest
forest and its builder need, and as two buffers, a view's owner and a copy need.

In routing: no partition, one, several, a last one that is shorter, more than
there are streams, so that a stream is reused; each of the four combinations of
copying in and out on either side.

Fairness. `CpuInfer!Fairness` is weak fairness of the calling thread and of each
thread of the team: OpenMP runs started threads to the end of the region, and no
step of a thread waits for anything but the barrier. `ForestImport` has weak
fairness of the import only, which is a single-threaded loop; evaluations need
not happen. `GpuInfer!Fairness` is weak fairness of each block: a grid ends only
when its blocks do, and a block with a thread that can run is run. A block where
every thread waits at barriers that differ cannot run, so a divergent
barrier would still be found. `PredictRouting` has weak fairness of the host and of
each stream. `ModelImport` and `DeviceMemory` are checked for safety only: neither
waits for anything but the streams, whose progress is the hardware's. All systems but
the last stop when the call is over, which the models show as
an explicit stuttering action or, where a program can always go on, a further call,
so that deadlock is checked in all runs.

## 4. Disagreements between the code and what is said of it

1. **Wide inputs wrap** (`cpu_wide_input`). The comment at
   `detail/infer_kernel/cpu.hpp:101` says that inputs that would overflow are
   refused. `row_index * col_count` at line 148 wraps when the input has more
   than 2^32 elements; the guard does not look at `col_count`.
2. **Empty category lists** (`forest_empty_list`). `has_categorical_nodes` is
   documented as whether there are any (`decision_forest.hpp:125`), and computed
   as whether a list has a member (`detail/decision_forest_builder.hpp:324`). In
   a model whose lists are all empty, a negative value goes to the child of the
   members of the list.
3. **Fallback workspace is never cleared** (`gpu_fallback`). A workspace that does
   not fit in shared memory is taken from global memory that is allocated
   uninitialized, and `fill` returns it as it is. The kernel adds to it
   (`detail/infer_kernel/gpu.cuh:163`, `173`). Leaf ids are stored, not added, and
   are not affected.
4. **Trees of several targets in blocks** (`model_targets`). The importer checks which
   output each tree is for (`treelite_importer.hpp:397`) for multi-class models only.
   The kernels add tree `t` to output `t % num_outputs` for every model with scalar
   leaves, so that a regressor for several targets whose trees come target by
   target is accepted and answered wrongly.

Further configurations show counterexamples that need very large or very rare
inputs, or that a reader may call intended:

- `MCGpuFallbackSize.cfg`: `detail/infer/gpu.cuh:183` raises the rows per iteration to
  32 after the workspace was sized, and line 186 skips sizing it again if it is in
  global memory, which is then too small.
- `MCPredictHost.cfg`: a model on the CPU has device index -1, a host buffer has
  index 0 unless told otherwise, or that of the current CUDA device in the pointer
  overloads with one side on a GPU; `decision_forest.hpp:259` compares them and
  throws, although `forest_model.hpp:200` promises to copy.
- `MCDeviceDefault.cfg`: a default stream is that of the device that is current when
  it is used. `validate_stream` (`detail/infer/gpu.cuh:49`) accepts it whatever device
  the model is on, and the import's copies and the inference are then on different
  streams.
- `MCModelLists.cfg`, `MCModelVectors.cfg`: the comment at `decision_forest.hpp:456-457` says
  that 64-bit indexes are used where 32 bits do not reach every bin of categories or
  vector leaf. All operands at lines 460-464 are 32-bit themselves
  (`detail/index_type.hpp:8`, `detail/specialization_types.hpp:37`): the sum wraps, and no 32-bit
  number is greater than the greatest one, so that no model ever gets wide indexes for
  its size (`IndexesNeverWiden`). Beyond what an index reaches, the index of a list, or
  the place of a value in `vector_output_` (`detail/infer_kernel/cpu.hpp:162`), wraps, and
  `NodesIntact` is violated.
- `MCModelInfinite.cfg`: `detail/postprocessor.hpp:89` multiplies a flag with an output
  to avoid a branch; `0 * inf` is NaN, and `max_index` misses greater outputs after an
  infinite one.
- `MCCpuLastChunk.cfg`: `start_row + chunk_size` (`detail/infer_kernel/cpu.hpp:132`)
  wraps for row counts within `chunk_size` of 2^32, and the last rows are skipped.
- `MCGpuRowWrap.cfg`: the comment at `detail/infer/gpu.cuh:213` says that inputs that would
  overflow are refused. The loop of the kernel steps past the last row by the chunks of
  all blocks, `i += chunk_size * gridDim.x` (`detail/infer_kernel/gpu.cuh:97`), in 32 bits. With
  one output and one grove the guard admits row counts so close to 2^32 that the step
  wraps, and the block goes back to rows it has done: `Forward` is violated.
- `MCGpuSync.cfg`: where nothing fits in shared memory, threads decide on a
  barrier by an uninitialized flag (`shared_memory_buffer.cuh:142`).
- `MCGpuFallbackTotal.cfg`: `output_workspace_size * num_blocks`
  (`detail/infer/gpu.cuh:209`) wraps, and blocks share their workspaces.
- `MCForestLeafId.cfg`: a tree that is a single leaf in Treelite is regrown to
  three nodes and answers leaf id 1 or 2 (`detail/degenerate_trees.hpp:48`).

## 5. Theorems

Every theorem holds for all values of the constants that satisfy the named
assumptions of the modules. Hypotheses beyond those are part of the statement, and
each is there because a configuration shows what happens without it, or, where the text
below says so, because Treelite's models have it.

| theorem | states | hypotheses |
|---|---|---|
| `RaceInvariant`, `TypeCorrect`, `AccessInBounds`, `RaceFreedom` | `[]RaceInv`, `[]TypeOK`, `[]InBounds`, `[]NoRace` of `CpuInfer` | calls are `Representable` |
| `RefusalJustified` | `[]RefusedOnlyIfLarge` | none |
| `KernelInvariant`, `ScheduleIndependence`, `ResultsAreCorrect` | `[]KernelInv`, `[]ScheduleIndependent`, `[]ResultsCorrect` | calls are `Representable` |
| `KernelImplements` | `Implements`: `CpuInfer` implements `ForestInference` | calls are `Representable` |
| `RoutingInvariant`, `ResultsArrive`, `HostOutputReady`, `RefusalWritesNothing`, `TemporariesLive`, `OutputsWrittenOnce` | `[]RoutingInv`, and every safety property of the run `predict_routing` | sizes fit the index type |
| `OffsetsFit` | `[]OffsetsRepresentable` of `GpuLaunch` | row sizes are `Representable` |
| `SharedWorkspaces`, `ChunksAreLargest` | `[]SharedWorkspaceFits`, `[]ChunkLargest` | the call is `Supported` |
| `GridInvariant`, `BlocksAreRaceFree` | `[]GridInv`, `[]NoRace` of `GpuInfer` | row sizes are `Representable` |
| `AccessesInside` | `InBounds` wherever `WorkspaceHolds` | row sizes are `Representable` |
| `SyncsAgree` | `SyncAgreed` wherever `SyncDecided` | row sizes are `Representable` |
| `SharedBlocksAreSafe` | `InBounds`, `SyncAgreed` of every launch with its workspace in shared memory | the call is `Supported` |
| `SumsInvariant`, `ResultsInvariant`, `ResultsAreReproducible`, `GridResultsAreCorrect` | `[]ExactInv`, `[]ResultInv`, `[]Reproducible`, `[]ResultsCorrect` of `GpuInfer` | `SharedLaunch` |
| `GridImplements` | `Implements`: `GpuInfer` implements `ForestInference` | `SharedLaunch` |
| `OwnershipInvariant`, `OneOwnerEach`, `PointersAreValid` | `[]OwnershipInv`, `[]OneOwner`, `[]PointerValid` of `ForestLifetime` | none |
| `ValuesInvariant`, `ValuesAreKept` | `[]KeptInv`, `[]ValuesKept` of `ForestLifetime` | none |
| `InferenceInvariant`, `ForestsAreReadable`, `KernelsArePrepared` | `[]InferenceInv`, `[]ForestReadable`, `[]KernelPrepared` | `CallersSetDevice` |
| `TraversalInvariant`, `ImportInvariant` | `[](ArgumentsInv /\ TraversalInv)`, `[]ImportInv` of `ForestImport` | none |
| `ImportFailsForCause`, `NodesStoredOnce` | `[]FailsForCause`, `[]StoredOnce` | none |
| `ChildrenAreFaithful` | `[]ChildrenFaithful` | not all category lists are empty |
| `WalkInvariant` | `[]WalkInv` | none |
| `LeafNamesItsOutput` | `[]LeafIdNamesOutput` | leaves have as many outputs each |
| `ImplementsWalk` | `Implements`: `ForestImport` implements `TreeWalk` | both |
| `ComparisonKept`, `ThresholdsAlwaysKept` | what a node stores decides as the model's test; `[]ThresholdsKept` | none |
| `RejectionsHaveCause` | `[]RejectedForCause` of `ModelImport` | none |
| `IndexesNeverWiden` | types are wide exactly if that was asked for, or thresholds are double | none |
| `NodesAlwaysIntact`, `IntactIfListsFit` | `[]NodesIntact` | `OutputsHeld`, and `ListsIndexed` or `ListsFit` |
| `AnswersMeanTreelite` | `[]AnswersAsTreelite` | `Answerable` |

### CpuInfer

**Where threads are.** The first four theorems stand under
`ASSUME \A c \in Calls : Representable(c)`: the end of the last chunk, the end of the last
grove and the size of the input fit the index type. This is what the code's guard
does not check; `MCCpuLastChunk.cfg` and the run `cpu_wide_input` show that results
are wrong without it. The other assumptions are `CallsAssumption` (sizes are natural
numbers, and all but the number of rows are positive, which the importer and the
constants guarantee), `MaxThreadsAssumption` and `IndexModAssumption`.

`NoRace` is not inductive. `RaceInv` adds to `TypeOK` that a thread's indexes lie in
the ranges of the iteration it has claimed (`Positions`), that no two threads hold
one iteration (`Exclusive`), and that work exists only past the guard (`Loops`).
`GuardFits` shows that the guard gives `row_count * num_outputs * num_grove < IndexMod`,
`NoWrap` and `SlotExact` that index arithmetic is then exact, and `SlotUnique`, by the
uniqueness of division with remainder, that a slot determines its row, output and
grove. `TaskUnique` shows that the row and the grove determine the task. So two
threads on one slot are on one task, which `Exclusive` excludes.

`RefusalJustified` needs none of this, and no representable sizes: `RefusalInv` says
that the threads of a call that was not accepted are absent, so that nothing writes
its output, and `GuardTight` that a row count beyond the bound would not fit with 3
more rows, by the division the bound is computed with.

**What they compute.** `KernelInv` strengthens `RaceInv` with `SumInv`. In the first
loop every element of the workspace holds the sum of the terms of its row, output and
grove that have been added so far, in the order of the trees (`Accumulated`): none
where the task is pending, all of the grove where it is done, and those before the
thread's position where a thread is at work. A thread between the load and the store
of `+=` holds the same sum in its register, and here `NoRace` is what is needed: no
other store may come between. In the second loop the first groves of a row have been
added into the first (`Reducing`), and a row that was finished has its outputs
(`Answered`). As the terms are a sequence and not a set, `ScheduleIndependence` says that
the order of the additions is one and the same whatever the schedule: grove after
grove, tree after tree. For `KernelImplements` the step that finishes a row maps to
`ForestInference`'s answer of that row, the guard to its refusal, and every other step
to a stutter.

### PredictRouting

The theorems are about a call whose sizes fit the kernels' index type, which is also
the width a copy takes its size in (`detail/copy.hpp:38`): a partition beyond that is
copied in part, a hazard listed in `PROJECT.json`. Number of rows, number and choice of
streams, chunk and placements are arbitrary.

The partitions cover the rows and are apart, by the rounding of `ceildiv`. `RoutingInv`
then relates the host thread's place, the queues and the memory of each partition:
operations of a partition wait in one stream, in their order (`OrderInv`); each is one
that the host thread has submitted, and finds the temporaries it uses, or will after
those before it (`EntryInv`); the same holds for the host thread at its own partition
(`WorkInv`); and an output is there as soon as the thread is past its partition and
nothing that will write it waits, and untouched before (`OutputInv`). A call can be
refused only at its first partition, because the checks look at what all partitions
share and at a row count that is greatest in the first.

### GpuLaunch and GpuInfer

`Representable` says that a row of input and a row of outputs have a size in bytes that
the index type can hold: the launch divides by both. `Supported` adds what the launch
is made for: a chunk size that the documentation of `predict` admits
(`forest_model.hpp:326-333`: a power of two up to 32), byte sizes of a full block that
do not wrap, and a multiprocessor that has at least as much shared memory as a block
may use and at most `(MIN_BLOCKS_PER_SM - 1) / 2` times as much, 3.5 with the constants
of the code and about 2 in hardware. `KernelAssumption` is about the constants alone:
the largest chunk is one that kernels exist for, and a warp is a multiple of each.

For the launch, `TrialsExist` shows that the loop that halves the rows ends: the
recursive function `Halve` exists, by the least number of rows for which it would not
(`LeastNat`), since the induction theorems of the library take an operator as a
parameter. A second argument of that form carries a statement about its last round
through all rounds, from which the size of the workspace, what fits beside it, and
the bound of the size guard follow.

For the kernel, `NoRace` is not inductive either. `GridInv` says that each thread is
inside its loops (`InRange`) and that any two threads of a block are `Together`: in the
same chunk, in the same part of the loop body, and on the same side of `sync` if
something is staged for that chunk. It is the barriers that keep threads together,
and a step of one thread can only move it within its part. Two threads that accumulate
are on different tasks, hence, as the number of threads is a multiple of the chunk, on
different rows or groves; lanes that reduce are of different warps, hence on different
rows or outputs.

`AccessesInside` and `SyncsAgree` carry a hypothesis that the code does not establish in
all cases, and each case is a configuration of section 4: `WorkspaceHolds` fails in
`MCGpuFallbackSize.cfg`, `SyncDecided` in `MCGpuSync.cfg`. `SharedBlocksAreSafe` says when
neither is needed: in every supported launch whose workspace is in shared memory.

**What they compute.** The theorems from `SumsInvariant` on are about a `SharedLaunch`: a supported call whose
workspace is in shared memory, whose loop variable can step past the last row
(`LastStepFits`) and whose input elements have indexes that do not wrap
(`InputFits`). All four are conditions on the arguments of the call, so they hold
throughout if they hold at the start. Launches without them go wrong, and the
configurations of section 4 show how: `gpu_fallback` and `MCGpuFallbackSize.cfg` with a
workspace in global memory, `MCGpuRowWrap.cfg` without `LastStepFits`; `InputFits`
is what `cpu_wide_input` violates on the CPU.

First come the sums themselves. `TreeSum`, `ShuffleSum` and `BatchSum` are recursive
functions whose existence has to be shown (`TreeRoundsExist`, `ShufflesExist`,
`BatchRoundsExist`), again from a least counterexample. `Collects(v, S)` says
that a value is the sum of the members of a set, each counted once. After the shuffle
by `w` a lane has collected what the lanes from it up to `2 * w` beyond had
(`LanesMerge`), for any warp that is a power of 2 (`WarpAssumption`), so that lane 0 ends
with all of them and nothing twice, whatever lanes beyond the warp answer
(`ShuffleCollects`). A grove has the trees that feed it (`TreeSumCollects`), a batch its
groves (`BatchCollects`), and together they are the contributions that
`ForestInference` names (`SumIsResult`).

`SumInv` then tells what memory holds by the threads that are at work on it. Each element
of the workspace is served by one thread (`Server`), which alone adds to it (`TaskServer`,
`TargetServer`); it holds the sum of the trees before the thread's task (`Added`, with
`Frontier`). What a thread has cleared and copied is there when it waits in `sync`, and
what all threads have is there behind it (`Cleared`, `Copied`): this is the
barrier's purpose, and `SyncBarrierSums` is the step where it is used. At the
barrier in the middle, what each thread knows of its own elements becomes what every
warp knows of its rows (`InferredBarrierSums`); from there lane 0 of a warp answers
for the rows of the warp (`Reduced`, `Loaded`), element by element, batch by batch.
At the barrier at the end the next chunk is one that is congruent to the block
(`NextChunkExact`), so that `Answerer` names the one block and lane that ever answers
a row, and `Answered` is decided by where that lane is. A step of one thread leaves what
others know alone because no element it writes is one they hold: `NoRace`, by
`HeldApart`, is needed here as on the CPU. For `GridImplements` the step that
postprocesses a row maps to the row's answer, the launch's refusal to the refusal, the
end of the grid to the return, and every other step to a stutter.

### ForestImport

The theorems hold for every set of models that are models (`ModelsAssumption`), every
layout, alignment, width of a bin and limit of an index. Two hypotheses are added where
they are needed. `~OnlyEmptyLists` is about the defect that `forest_empty_list` shows.
`LeavesAgree` leaves out models in which a leaf with one output comes before leaves
with several: the builder accepts them (`decision_forest_builder.hpp:224`), as the size
it starts from is 1, and evaluation then looks for that one output among the vectors.

**One traversal for both passes.** What is to be visited, after each number of nodes, is
a function of the forest and the layout alone (`Traversal`); both passes follow it
(`Follows`), so the second visits in the order of the first. `Explored` is the
induction hypothesis about its prefixes: nodes visited and nodes waiting are distinct,
children of visited nodes are one or the other, and the node that waits is, in every
layout, at the place that its parent's offset will say (`HotFirst`, `HotNext`, `DistantNext`).
That it visits everything follows from the assumption that each tree is reached from its
root: a set closed under children is the tree. That it ends, as many steps as there are
nodes, follows from counting the distinct ones. `TraversalInv` adds what the passes have
written of offsets (`OffsetsFound`).

**The array.** `BuildInv` is about the second pass. `Arranged` says that every visited
node is at one place and that two nodes of one tree are as far apart as their turns in
the traversal, whatever padding was put between trees; so an offset measured without
padding is right with it. Padding comes before roots only, and with alignment the
traversals finish a tree before the next begins (`TreesInTurn`), which the layered
traversal does not do: it must not be aligned, as the code sees to. `RootsPlaced`
and `NodesStored` tie the other arrays to the same places, and `StoredAs` says what a
stored node says of its source: the test or its negation with the children exchanged,
the categories in the node or in the shared storage at the place it names (`BitsetFacts`,
by division with remainder), the output or where its vector is. What is stored stays
when the vectors grow (`Longer`). `StoredOnce` is a consequence: nodes in the array
are those visited, and those are all. For `ChildrenFaithful`, `PlaceOf` finds the
position of a node, `NextPosition` shows that its offset leads to the child, and
`ConditionFaithful` that the outcome of the stored test chooses the same child.

**Evaluation.** `WalkInv` says where an evaluation is. For `ImplementsWalk` the steps of
an import are stutters, for nothing has been asked; asking, each move and the return are
`TreeWalk`'s, and a move from the test that was put above a single leaf is a stutter as
well, since both its children have that leaf's output.

### DeviceMemory and ForestLifetime

The theorems stand under `MemoryAssumption` and `LifetimeAssumption`, which say that
devices are natural numbers and that names are apart: any number of devices, of
blocks, of buffers and of entries that wait, any streams. Those about ownership
and about the values of buffers hold with or without `CallersSetDevice`.

Neither `OneOwner` nor `PointerValid` is inductive: a block has an owner until its
destructor runs, and between that and the end of the stream's work an entry that
frees it. `Ledger` says that a block is live if and only if one buffer holds it or
one entry frees it, and never two of these; `Rooted` that what a buffer points to is
held, by it or by the one it is a view of, and is where the buffer says. Every
operation is an exchange (`LedgerExchanged`): a buffer gives up what it held, at once
or to a queue, and takes a block that was not live. Moves and `swap` exchange holders
only (`LedgerMoved`).

An import is made of as many exchanges as there are arrays, in one step. While it
runs, the builder's vectors are live although no buffer owns them: the ledger is
stated of memory with that block hidden (`Hidden`), and `HiddenExchanged` shows that
the exchanges do not touch it. That an array can be allocated follows from counting
the blocks that are left (`OneFewer`). If an exception is thrown instead, the arrays
made so far are destroyed, and what is left is the memory before the import with work
still to be done (`WithoutUnmade`). So nothing leaks and nothing is released twice,
wherever the exception is thrown.

What the program's buffers hold is about work that is still to be done: `ValuesKept`
speaks of a block once nothing waits that concerns it. `KeptInv` says that there is a
forecast, a value for every entry that waits to write, which is right about fills,
and about a copy if its source will hold that value when the copy's turn comes
(`EntryForetold`); and that each buffer's block will hold what the program meant,
which is the forecast of the last entry that writes it, or what it holds by now
(`WillHold`). This is inductive because all that concerns a block waits in one stream
(`Home`), its release last: the copies of two streams are not ordered, and do not have
to be. What is submitted extends the forecast (`SubmitKnown`), a stream that runs its
first entry writes what was forecast (`FirstWritten`) and shifts the rest (`RunKnown`),
and a block that is released is one that no other buffer points to
(`ReleasableKnown`). That blocks of buffers in use are not about to be released comes
from `Ledger`. What the program has to do for this is in the guards of the operations:
to wait for other streams before it uses a buffer on its own, and not to release what
it views (`Settled`, `Releasable`).

What inferences read is about time as well: `ForestReadable` speaks of the entry that runs
next, and what makes it true is where the entry stood when it was submitted.
`InferenceInv` says of every inference that waits (`ReadsWell`) that each block it
reads is live and on the device of its stream, that it holds the model or will before
the inference's turn comes (`Imported`), and that an entry which frees it comes later
in the same stream. Of every array of a forest it says that it holds the model, or
will at the end of the stream it was imported on. An import adds to the ends of
queues and takes blocks that nothing waits to read (`WithArrayImports`); an inference
is admitted behind the copies, on the stream of the import or on another once that is
empty (`PredictWaits`); a destructor adds a release behind the inferences that read
(`DestroyForestWaits`); and a stream that runs its first entry brings the others one
place forward (`ProgressWaits`). A release cannot be first while an inference
waits to read the block. The hypothesis is `CallersSetDevice`: without it the streams
of the import and of the inference are not those of the forest's device, as
`MCDeviceDefault.cfg` shows.

### Thresholds

`ModelImportProofs` proves `ComparisonKept`: for every pair of ascending lists of
values that share their ends, every threshold in the wider list and every input, a
comparison with what is stored after rounding, `cast_threshold` and `nextafter`
has the outcome of the comparison with the threshold itself, except for an
infinite input against an inclusive test with the same infinity. `RoundedBetween`
places the rounded value among the neighbours of the threshold, `PositionOrder`
turns comparisons of values into comparisons of positions, and `StoredBeside`
shows that what is stored separates the inputs below the threshold from the
others. The assumption is `TypesAssumption`: both types are ascending and have the
same infinities; the rounding direction is left open.

The same module proves `ThresholdsAlwaysKept`: `Spec => []ThresholdsKept`, for
every set of imports, rows, types and widths (`ImportsAssumption`,
`BitsAssumption`, `TypesAssumption`). `ThresholdsKept` is not inductive, as a
threshold that was added in one precision and read in another would be wrong:
`IInv` adds that nodes are added in the order of the model (`TestsStored`), that
there are none before the types are chosen, and that a precision is one of two.
`NodeAdded` is the step of an action that adds a node, `StoredDecides` ends the
argument with `ComparisonKept`.

### What is imported, and what is refused

`ModelImportProofs` goes on from there. `RejectionsHaveCause` is
`Spec => []RejectedForCause`, with no hypothesis: for every width and every model, an
import that throws does so for what a message of it says. The part that could be
wrong is that the types are chosen before the first node and checked after: a
feature beyond the mask (`FeatureCause`: the limit that `LargeTreesRequired`
compares with is that mask, `FeatureLimit`, for every width, as `TwoToSum` says of
powers of two), a category beyond the count (`CategoryCause`), or a list that does
not lie within the storage (`StorageIsConsistent`). `ImportInv` is the inductive
invariant: the types are the `Chosen` ones, every node keeps the fields of the
model's node at its place (`NodeKept`), and what a number in the storage counts
lies within it (`StorageKept`); `NodesStillKept` and `ListAdded` are the steps.

`IndexesNeverWiden` holds for every width and every model: types are wide
exactly if the caller asked for double precision, or did not ask and the thresholds
are double. `CountsNeverExceed` is the reason: counts and their sum are taken in the
narrow type, whose greatest value nothing exceeds.

`NodesAlwaysIntact` is `NodesIntact` under two hypotheses about the state.
`OutputsHeld`: leaves have one output or as many as the model has, all of them, as
Treelite has it, and the index that was chosen reaches every element of the leaf
vectors. `ListsIndexed`: where categories are stored apart from the nodes, the index
that was chosen reaches the end of the storage. The widths that are chosen see to
offsets and features (`FieldsExact`) by themselves. A leaf's index is the number of
leaves with several outputs before it (`VectorIndexed`, `OutputsStillKept`), and the place
of its values is computed in the type of the index (`ElementIndexed`). For categories,
`ListRead` says that a list is read from where it was put, and that putting it leaves
the others as they were.

The two hypotheses are needed: `MCModelLists.cfg` and `MCModelVectors.cfg` are models
without them. `IntactIfListsFit` says what is enough for lists: the storage is never
longer than the number of categorical tests times one more than the bins of the
longest list (`StorageBounded`), so a product of the two that an index counts to
(`ListsFit`). `get_forest_variant_index` takes its estimate for too large
(`decision_forest.hpp:459`), which that product would be; it computes a sum, in a type
that cannot exceed the limit it is compared with. `RejectionsHaveCause` needs neither hypothesis. An index that has wrapped
still lies inside the storage; what it leads to may be a count, or bits, or both
in one number (`NumberIn`), which the check of the storage reads as a count.
`WrappedPlace` and `NumberFacts` show that the bins this count asks for are there.

The assumptions are those above; of a model, `IsImportable` asks for the widths its
fields have in Treelite and the importer, and that tests are on features it has.

### What is answered

`AnswersMeanTreelite` is `AnswersAsTreelite` of every state in which the model is
`Answerable`, for the three kinds of inference and whatever `set_row_postprocessing`
has been called with. `Answerable` has four parts, all about the model and the rows:

- `LeavesShaped`: leaves have one number, or one for each output, and the index that was
  chosen reaches every element of the leaf vectors. The importer relies on it when it
  indexes `vector_output_`.
- `TreesInTurn`: trees with scalar leaves are for one target after another.
  `MCModelTargets.cfg` is what happens otherwise; for the classes of a classifier the
  importer checks it, and the theorem has it from that check
  (`AssignmentSupported`). An average needs as many trees for each output, and a
  binary classifier has one output; the importer checks neither.
- There is a base score for every output, as in every Treelite model, and every row
  ends in a leaf of every tree.
- Margins are numbers between the lowest and infinity; `MCModelInfinite.cfg` is what
  happens otherwise.

Every import of `MCModelImport.cfg` that succeeds is `Answerable`.

The invariant, `AnswerInv`, keeps what the import has checked, the ids of the nodes,
the members of the postprocessor, and that an answer is `AnswerTo` a kind and a row
by the present forest, since `SetRow` is the one thing that changes what an answer
would be and it takes the answer back. What is left is about one state.
`LeafReads` takes a leaf of the model from the node it was stored in or from
`vector_output_` (`LeafReadBack`, of the theorems above). `AddedInTurn` shows that the
trees that are added to an output are those that are for it, `AverageIsMean`
that `(x * outputs) / trees` is the mean over them: `EveryNth` counts them and
`CommonFactor` cancels. `SumsAsMeant` puts the two together; that a total of integers is one
(`TotalIsInteger`) is an induction on the size of a set by `LeastNat`, as is the
existence of the functions that define sums and the loop of `postprocess`.
`TransformedAsNamed` is about `get_postproc_params`: each name gets the operations,
the constant and the results of its meaning, and finite margins have results that
can be compared. `DispatchedAsTold` is the switch: no combination of operations
ends in the code of another. `BestIsFirstGreatest` is the first loop of `postprocess`:
with flags multiplied instead of branches, it ends at the first of the greatest
values (`IsBest`, carried from one output to the next by `BestAdvances`).

### Where properties stop

- `FailsForCause` is about what is refused. Leaves of several sizes are accepted where
  the scalar ones come first (`detail/decision_forest_builder.hpp:224`), and are then read
  with the stride of the vectors. No property says what such a forest means:
  `LeafNamesItsOutput` and `ImplementsWalk` are about leaves that agree, `NodesAlwaysIntact`
  about `OutputsHeld`.
- Values of features in `ForestImport` are integers and NaN. The truncation at
  `detail/evaluate_tree.hpp:43` is exercised at both ends of a bitset, between categories and
  below 0, and not for fractions, of which those between -1 and 0 become category 0.

### Only model-checked

- Liveness (`Termination`, `ImportEnds`, `StreamsDrain`): proofs need `ENABLED`, which the
  prover does not have.
- The results of `GpuInfer` with leaf ids in a workspace in global memory, which are
  stored and not added; `SharedLaunch` leaves all of global memory out.
- The answers for infinite margins, of which `MCModelInfinite.cfg` shows one that is wrong.

## 6. Plan

Every component of the C++ library that keeps state is modelled, and every safety
property of the runs is a theorem, under the hypotheses of the table. What is left
is liveness, which is out of the prover's reach.

Not modelled, and why:

- The Python classes (`src/python/nvforest/nvforest`). Their state is the handle of a
  model, a device and a few attributes; what could go wrong is in the conversions
  of arrays by cuML, cupy and numpy, whose promises would be the larger part of a
  model. `optimize` chooses by wall-clock time. The stream that is handed to
  `predict`, and the wait after it, are in `PredictRouting`.
- The cache of device attributes in `gpu_introspection.hpp` and hardware constants
  of the host: written once, and parameters of `GpuLaunch` and `CpuInfer`.
- Template instantiation (`detail/specializations`): macros without run-time state;
  which kernels exist is in `KernelPrepared`, which types in `NodeStorage`.
- The bounds check of a copy, which debug builds only have.
- Benchmark scripts, loading of the shared library, build, CI and docs. Nothing in
  them keeps state the rest depends on.

## 7. Running

    tlc -config MCCpuInfer.cfg MCCpuInfer        # and the other configurations
    tlapm IntegerLemmas.tla
    tlapm RequestLemmas.tla
    tlapm CpuInferProofs.tla
    tlapm PredictRoutingProofs.tla
    tlapm GpuInferProofs.tla
    tlapm ForestImportProofs.tla
    tlapm ModelImportProofs.tla
    tlapm ForestLifetimeProofs.tla

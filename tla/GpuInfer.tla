------------------------------ MODULE GpuInfer ------------------------------
(***************************************************************************)
(* The GPU inference kernel (infer_kernel/gpu.cuh) under the configuration *)
(* GpuLaunch picks.  A block of threads takes a chunk of rows at a time:   *)
(* it clears its output workspace and copies its rows to shared memory,    *)
(* accumulates tree outputs, reduces the groves of each output with one    *)
(* warp per row, and goes on to its next chunk.                            *)
(*                                                                         *)
(* Threads meet at three block-wide barriers (shared_memory_buffer::sync,  *)
(* which is skipped if it is not required, and two __syncthreads) and the  *)
(* lanes of a warp at each shuffle.  Between them they interleave freely,  *)
(* and += is a load (Evaluate) and a store (Accumulate).                   *)
(***************************************************************************)
EXTENDS GpuLaunch

(* A warp is a power of 2, so that shuffles by halves reach every lane. *)
ASSUME WarpAssumption == \A d \in 2 .. WARP_SIZE : WARP_SIZE % d = 0 => d % 2 = 0

VARIABLES
  workspace,   \* workspace[b]: the output workspace of block b
  staged,      \* staged[b]: the input elements copied to shared memory, by
               \* their index in the input
  output,      \* the caller's output buffer
  pc,          \* what each thread does next
  at,          \* the loop indexes of each thread
  reg          \* a loaded value, or class_sum

kernelVars == <<workspace, staged, output, pc, at, reg>>
vars == <<request, device, specified, phase, launch, workspace, staged, output, pc, at, reg>>

-----------------------------------------------------------------------------
(* Blocks, threads and the chunk of rows at i *)

Blocks == 0 .. (launch.num_blocks - 1)
Lanes  == 0 .. (launch.threads_per_block - 1)
Threads == Blocks \X Lanes

BlockOf(th) == th[1]
IdxOf(th)   == th[2]   \* threadIdx.x
Team(b)     == {b} \X Lanes
WarpOf(th)  == IdxOf(th) \div WARP_SIZE
IsFirstLane(th) == IdxOf(th) % WARP_SIZE = 0

(* Where a thread is: at chunk i, in the first loop on component comp of a
   task, in the second on output comp of a row, at a batch of groves. *)
At(i, task, row, comp, grove) ==
  [i |-> i, task |-> task, row |-> row, comp |-> comp, grove |-> grove]

Place(label, p) == [label |-> label, at |-> p]

(* The head of the loop over the chunks of a block. *)
Chunk(i) == Place(IF i < request.row_count THEN "stage" ELSE "exit", At(i, 0, 0, 0, 0))

RowsAt(i) == Least(launch.chunk_size, request.row_count - i)

FillFits == U(launch.output_workspace_size * ItemBytes) <= launch.shared_mem

CopyFits(i) ==
  RowsAt(i) * request.col_count * ItemBytes
    <= launch.shared_mem - (IF FillFits THEN launch.output_workspace_size * ItemBytes ELSE 0)

(* The tasks of a thread that are real: they have a tree and a row. *)
RealTasks(th, i) ==
  {t \in 0 .. (launch.chunk_size * request.num_tree - 1) :
     /\ t % launch.threads_per_block = IdxOf(th)
     /\ t % launch.chunk_size < RowsAt(i)}

(* Mutant of Slot: all groves of an output share one element. *)
SlotShared(row, out, grove) ==
  U(row * NumOutputs(request) * launch.num_grove + out * launch.num_grove)

Slot(row, out, grove) ==
  U(row * NumOutputs(request) * launch.num_grove + out * launch.num_grove + grove)

TaskRow(p)  == p.task % launch.chunk_size
TaskTree(p) == p.task \div launch.chunk_size

TargetSlot(th) ==
  Slot(TaskRow(at[th]), OutputOf(request, TaskTree(at[th]), at[th].comp),
       IF request.infer_type = "default" THEN IdxOf(th) \div launch.chunk_size ELSE 0)

(* The offset in the input of the row a task reads: the row itself, or what
   shared memory holds of it.  A row with elements of several rows is no row. *)
Torn == IndexMod
RowOffset(th) ==
  LET p == at[th]
      first == TaskRow(p) * request.col_count
      copy  == staged[BlockOf(th)]
  IN  IF ~CopyFits(p.i) THEN U(p.i * request.col_count) + first
      ELSE IF \A k \in 0 .. (request.col_count - 1) : copy[first + k] = copy[first] + k
      THEN copy[first] ELSE Torn

TreeOutput(th) ==
  [offset |-> RowOffset(th), tree |-> TaskTree(at[th]), comp |-> at[th].comp]

-----------------------------------------------------------------------------
Init ==
  /\ LaunchInit
  /\ workspace = <<>>
  /\ staged = <<>>
  /\ output = [k \in 0 .. (request.row_count * NumOutputs(request) - 1) |-> Zero]
  /\ pc = <<>>
  /\ at = <<>>
  /\ reg = <<>>

(* The call as ForestInference sees it: the output buffer by rows. *)
Status == IF phase = "refused" THEN "refused" ELSE IF phase = "done" THEN "returned" ELSE "running"
Result == [r \in Rows(request) |-> [o \in Outputs(request) |-> output[r * NumOutputs(request) + o]]]

Promise == INSTANCE ForestInference WITH status <- Status, result <- Result

(* What memory nobody has written may hold: zeros, or sums of an earlier call. *)
Leftover == [sum |-> <<[offset |-> 0, tree |-> 0, comp |-> 0]>>, post |-> 1]

(* The size guard or CUDA refuses the launch. *)
RefuseCall == Refuse /\ UNCHANGED kernelVars

(* The grid starts; nobody has written its memory yet. *)
LaunchKernel ==
  /\ Launch
  /\ \E old \in {Zero, Leftover} :
        workspace' = [b \in Blocks |-> [k \in 0 .. (launch.output_workspace_size - 1) |-> old]]
  /\ staged' = [b \in Blocks |-> [k \in 0 .. (launch.chunk_size * request.col_count - 1) |-> Torn]]
  /\ pc' = [th \in Threads |-> Chunk(BlockOf(th) * launch.chunk_size).label]
  /\ at' = [th \in Threads |-> Chunk(BlockOf(th) * launch.chunk_size).at]
  /\ reg' = [th \in Threads |-> Zero]
  /\ UNCHANGED output

-----------------------------------------------------------------------------
(* Fill, copy and infer *)

Goto(th, place) ==
  /\ pc' = [pc EXCEPT ![th] = place.label]
  /\ at' = [at EXCEPT ![th] = place.at]

(* The first real task of a thread from task t on, or the barrier at the end
   of the loop. *)
TaskFrom(th, t) ==
  LET i == at[th].i
      left == {u \in RealTasks(th, i) : u >= t}
      next == CHOOSE u \in left : \A v \in left : u <= v
  IN  IF left = {} THEN Place("inferred", At(i, 0, 0, 0, 0))
      ELSE Place("evaluate", At(i, next, 0, 0, 0))

(* Mutant of SyncRequired: filling the workspace does not require a sync. *)
SyncRequiredByCopy(th) == {CopyFits(at[th].i)}

(* Mutant of SyncRequired: it is set by threads that wrote something. *)
SyncRequiredIfWrote(th) ==
  {\/ FillFits /\ IdxOf(th) < launch.output_workspace_size
   \/ CopyFits(at[th].i) /\ IdxOf(th) < RowsAt(at[th].i) * request.col_count}

(***************************************************************************)
(* The values requires_sync may have in a thread when sync() reads it.  It *)
(* is set by a fill or copy that was done, and cleared by sync(); the      *)
(* constructor leaves it uninitialized, so in the first chunk of the block *)
(* it is anything if nothing was done.                                     *)
(***************************************************************************)
SyncRequired(th) ==
  IF FillFits \/ CopyFits(at[th].i) THEN {TRUE}
  ELSE IF at[th].i = BlockOf(th) * launch.chunk_size THEN BOOLEAN ELSE {FALSE}

(* Mutant of Stage: the workspace is cleared for the first chunk only. *)
StageOnce(th) ==
  LET b == BlockOf(th)
      i == at[th].i
      mine(k) == k % launch.threads_per_block = IdxOf(th)
      fill == FillFits /\ i = b * launch.chunk_size
  IN
  /\ pc[th] = "stage"
  /\ workspace' =
       [workspace EXCEPT ![b] = [k \in DOMAIN @ |-> IF fill /\ mine(k) THEN Zero ELSE @[k]]]
  /\ staged' =
       [staged EXCEPT ![b] =
          [k \in DOMAIN @ |-> IF /\ CopyFits(i) /\ mine(k)
                                 /\ k < RowsAt(i) * request.col_count
                              THEN U(i * request.col_count) + k ELSE @[k]]]
  /\ \E required \in SyncRequired(th) :
        Goto(th, IF required THEN Place("sync", at[th]) ELSE TaskFrom(th, 0))
  /\ UNCHANGED <<request, device, specified, phase, launch, output, reg>>

(* The thread clears its share of the workspace and copies its share of the
   rows, each only if it fits, and goes to sync(). *)
Stage(th) ==
  LET b == BlockOf(th)
      i == at[th].i
      mine(k) == k % launch.threads_per_block = IdxOf(th)
  IN
  /\ pc[th] = "stage"
  /\ workspace' =
       [workspace EXCEPT ![b] = [k \in DOMAIN @ |-> IF FillFits /\ mine(k) THEN Zero ELSE @[k]]]
  /\ staged' =
       [staged EXCEPT ![b] =
          [k \in DOMAIN @ |-> IF /\ CopyFits(i) /\ mine(k)
                                 /\ k < RowsAt(i) * request.col_count
                              THEN U(i * request.col_count) + k ELSE @[k]]]
  /\ \E required \in SyncRequired(th) :
        Goto(th, IF required THEN Place("sync", at[th]) ELSE TaskFrom(th, 0))
  /\ UNCHANGED <<request, device, specified, phase, launch, output, reg>>

(* Evaluate the tree; unless the result just replaces it, load the element. *)
Evaluate(th) ==
  /\ pc[th] = "evaluate"
  /\ reg' = [reg EXCEPT ![th] = IF request.infer_type = "leaf_id" THEN Zero
                                ELSE workspace[BlockOf(th)][TargetSlot(th)]]
  /\ pc' = [pc EXCEPT ![th] = "accumulate"]
  /\ UNCHANGED <<request, device, specified, phase, launch, workspace, staged, output, at>>

Accumulate(th) ==
  LET p == at[th] IN
  /\ pc[th] = "accumulate"
  /\ workspace' = [workspace EXCEPT ![BlockOf(th)][TargetSlot(th)] =
                     AddTerm(reg[th], TreeOutput(th))]
  /\ reg' = [reg EXCEPT ![th] = Zero]
  /\ Goto(th, IF p.comp + 1 < NumComp(request)
              THEN Place("evaluate", At(p.i, p.task, 0, p.comp + 1, 0))
              ELSE TaskFrom(th, p.task + 1))
  /\ UNCHANGED <<request, device, specified, phase, launch, staged, output>>

-----------------------------------------------------------------------------
(* Sum over groves and postprocess: a warp takes a row at a time. *)

(* The output or row after the one a lane is at, or the barrier at the end. *)
NextSum(p) ==
  LET warps == launch.threads_per_block \div WARP_SIZE
  IN  IF p.comp + 1 < NumOutputs(request)
      THEN Place("reduce", At(p.i, 0, p.row, p.comp + 1, 0))
      ELSE IF p.row + warps < RowsAt(p.i)
      THEN Place("reduce", At(p.i, 0, p.row + warps, 0, 0))
      ELSE Place("reduced", At(p.i, 0, 0, 0, 0))

(* Mutant of StartSum: a warp without a row leaves the kernel. *)
StartSumOrExit(th, i) ==
  IF WarpOf(th) < RowsAt(i) THEN Place("reduce", At(i, 0, WarpOf(th), 0, 0))
  ELSE Place("exit", At(i, 0, 0, 0, 0))

StartSum(th, i) ==
  IF WarpOf(th) < RowsAt(i) THEN Place("reduce", At(i, 0, WarpOf(th), 0, 0))
  ELSE Place("reduced", At(i, 0, 0, 0, 0))

(* __shfl_down_sync by WARP_SIZE / 2, ..., 2, 1: what lane 0 ends up with, where
   round[w] is what the lanes hold after the shuffle by w.  A lane beyond the
   end of the warp answers with the value of the lane that asked. *)
ShuffleSum(v) ==
  LET round[w \in 1 .. WARP_SIZE] ==
        [lane \in 0 .. (WARP_SIZE - 1) |->
           IF 2 * w > WARP_SIZE THEN v[lane]
           ELSE LET before == round[2 * w]
                    other  == IF lane + w < WARP_SIZE THEN lane + w ELSE lane
                IN  Plus(before[lane], before[other])]
  IN  round[1][0]

(***************************************************************************)
(* The lanes of warp w of block b have met at the same batch of groves:    *)
(* they load an element each, lanes without a grove load nothing, and      *)
(* shuffle.  Lane 0 adds the batch to its class_sum, the others forget     *)
(* theirs.  After the last batch lane 0 goes on to store the sum.          *)
(***************************************************************************)
WarpSum(b, w) ==
  LET lane(l) == <<b, w * WARP_SIZE + l>>
      lanes   == {lane(l) : l \in 0 .. (WARP_SIZE - 1)}
      p       == at[lane(0)]
      loaded  == [l \in 0 .. (WARP_SIZE - 1) |->
                    IF p.grove + l < launch.num_grove
                    THEN workspace[b][Slot(p.row, p.comp, p.grove + l)] ELSE Zero]
      own     == [loaded EXCEPT ![0] = Plus(reg[lane(0)], @)]
      last    == p.grove + WARP_SIZE >= PaddedSize(launch.num_grove, WARP_SIZE)
      target(th) == IF ~last THEN Place("reduce", [p EXCEPT !.grove = @ + WARP_SIZE])
                    ELSE IF th = lane(0) THEN Place("store", p)
                    ELSE NextSum(p)
  IN
  /\ \A th \in lanes : pc[th] = "reduce" /\ at[th] = p
  /\ pc' = [th \in Threads |-> IF th \in lanes THEN target(th).label ELSE pc[th]]
  /\ at' = [th \in Threads |-> IF th \in lanes THEN target(th).at ELSE at[th]]
  /\ reg' = [reg EXCEPT ![lane(0)] = ShuffleSum(own)]
  /\ UNCHANGED <<request, device, specified, phase, launch, workspace, staged, output>>

(* Lane 0 stores the sum in the element of the first grove. *)
StoreSum(th) ==
  LET p == at[th] IN
  /\ pc[th] = "store"
  /\ workspace' = [workspace EXCEPT ![BlockOf(th)][Slot(p.row, p.comp, 0)] = reg[th]]
  /\ reg' = [reg EXCEPT ![th] = Zero]
  /\ Goto(th, IF p.comp + 1 < NumOutputs(request) THEN NextSum(p) ELSE Place("postprocess", p))
  /\ UNCHANGED <<request, device, specified, phase, launch, staged, output>>

(* Lane 0 transforms the row's sums in place and copies them out. *)
PostProcess(th) ==
  LET p == at[th]
      b == BlockOf(th)
      reduced(o) == Slot(p.row, o, 0)
      index(o)   == U((p.i + p.row) * NumOutputs(request) + o)
  IN
  /\ pc[th] = "postprocess"
  /\ workspace' = [workspace EXCEPT ![b] =
                     [k \in DOMAIN @ |-> IF \E o \in Outputs(request) : k = reduced(o)
                                         THEN Transform(@[k]) ELSE @[k]]]
  /\ output' = [k \in DOMAIN output |->
                  IF \E o \in Outputs(request) : k = index(o)
                  THEN Transform(workspace[b][reduced(k - index(0))])
                  ELSE output[k]]
  /\ Goto(th, NextSum(p))
  /\ UNCHANGED <<request, device, specified, phase, launch, staged, reg>>

-----------------------------------------------------------------------------
(* Barriers *)

Waiting(b, label) == \A th \in Team(b) : pc[th] = label

(* The threads of block b go on from a barrier to where next says. *)
Release(b, next) ==
  /\ pc' = [th \in Threads |-> IF th \in Team(b) THEN next[th].label ELSE pc[th]]
  /\ at' = [th \in Threads |-> IF th \in Team(b) THEN next[th].at ELSE at[th]]
  /\ UNCHANGED <<request, device, specified, phase, launch, workspace, staged, output, reg>>

(* __syncthreads in sync() *)
SyncBarrier(b) ==
  LET first == [th \in Team(b) |-> TaskFrom(th, 0)]
  IN  Waiting(b, "sync") /\ Release(b, first)

(* Mutant of InferredBarrier: a warp goes on once its own lanes are ready. *)
InferredBarrierOfWarp(b) ==
  LET start == [th \in Team(b) |-> IF pc[th] = "inferred" THEN StartSum(th, at[th].i)
                                   ELSE Place(pc[th], at[th])]
  IN  /\ \E w \in 0 .. (launch.threads_per_block \div WARP_SIZE - 1) :
            \A th \in Team(b) : WarpOf(th) = w => pc[th] = "inferred"
      /\ Release(b, start)

(* __syncthreads between the two loops *)
InferredBarrier(b) ==
  LET start == [th \in Team(b) |-> StartSum(th, at[th].i)]
  IN  Waiting(b, "inferred") /\ Release(b, start)

NextChunk(i) == U(i + launch.chunk_size * launch.num_blocks)

(* __syncthreads at the end of an iteration *)
ReducedBarrier(b) ==
  LET next == [th \in Team(b) |-> Chunk(NextChunk(at[th].i))]
  IN  Waiting(b, "reduced") /\ Release(b, next)

(* The grid is done. *)
Finish ==
  /\ phase = "launched"
  /\ \A th \in Threads : pc[th] = "exit"
  /\ phase' = "done"
  /\ UNCHANGED <<request, device, specified, launch, kernelVars>>

BlockStep(b) ==
  \/ \E th \in Team(b) :
        Stage(th) \/ Evaluate(th) \/ Accumulate(th) \/ StoreSum(th) \/ PostProcess(th)
  \/ \E w \in 0 .. (launch.threads_per_block \div WARP_SIZE - 1) : WarpSum(b, w)
  \/ SyncBarrier(b) \/ InferredBarrier(b) \/ ReducedBarrier(b)

Over ==
  /\ phase \in {"refused", "done"}
  /\ UNCHANGED vars

Running == phase = "launched"

Next ==
  \/ RefuseCall \/ LaunchKernel \/ Finish \/ Over
  \/ Running /\ \E b \in Blocks : BlockStep(b)

Spec == Init /\ [][Next]_vars

(* The grid ends only when every block does, and a block that can run is
   never forgotten; its threads stop only at barriers. *)
Fairness ==
  /\ WF_vars(RefuseCall \/ LaunchKernel \/ Finish)
  /\ \A b \in 0 .. (MAX_BLOCKS - 1) : WF_vars(Running /\ b \in Blocks /\ BlockStep(b))

FairSpec == Spec /\ Fairness

-----------------------------------------------------------------------------
(* Properties *)

(* The workspace elements a thread is about to read or write, or holds a
   loaded copy of. *)
Held(th) ==
  LET p == at[th] IN
  CASE pc[th] = "stage" ->
         {k \in DOMAIN workspace[BlockOf(th)] :
            FillFits /\ k % launch.threads_per_block = IdxOf(th)}
    [] pc[th] \in {"evaluate", "accumulate"} -> {TargetSlot(th)}
    [] pc[th] = "reduce" ->
         {Slot(p.row, p.comp, g) : g \in {g \in 0 .. (launch.num_grove - 1) :
                                            g % WARP_SIZE = IdxOf(th) % WARP_SIZE}}
    [] pc[th] = "store" -> {Slot(p.row, p.comp, 0)}
    [] pc[th] = "postprocess" -> {Slot(p.row, o, 0) : o \in Outputs(request)}
    [] OTHER -> {}

(* Two threads of a block never touch the same workspace element at the same
   time: the grove of a thread follows from its index, the row from its task
   because the block is a multiple of the chunk, and the barriers keep
   clearing, accumulating and reducing apart. *)
NoRace ==
  Running =>
    \A b \in Blocks : \A th1, th2 \in Team(b) : th1 # th2 => Held(th1) \cap Held(th2) = {}

(* Every workspace element accessed lies inside the block's own workspace. *)
InBounds ==
  Running => \A th \in Threads : Held(th) \subseteq DOMAIN workspace[BlockOf(th)]

(* While a thread waits in sync(), no thread of its block has gone past it:
   every thread agrees on whether a sync is required. *)
SyncAgreed ==
  Running =>
    \A b \in Blocks :
      (\E th \in Team(b) : pc[th] = "sync") => \A th \in Team(b) : pc[th] \in {"stage", "sync"}

(* A block never goes back to rows it has done: the size guard, which is to
   refuse inputs that would cause integer overflow, keeps the loop variable
   from wrapping.  It does not, as MCGpuRowWrap.cfg shows: the guard looks at
   the sizes of the workspace and of the output only, and the loop steps past
   the last row by the chunks of all blocks. *)
Forward ==
  [][Running => \A th \in Threads :
       pc[th] = "reduced" /\ pc'[th] = "stage" => at'[th].i > at[th].i]_vars

(* When the kernel is done, every output of every row is the sum of the tree
   outputs that belong to it. *)
ResultsCorrect ==
  phase = "done" =>
    \A r \in Rows(request), o \in Outputs(request) :
      Promise!IsResult(output[r * NumOutputs(request) + o], request, r, o)

(***************************************************************************)
(* The order of the additions.  Tree t is evaluated on the row at index    *)
(* row of a chunk by thread ServerOf(t, row), and added to output o of the *)
(* row, in the grove of that thread, if it has a value for it.             *)
(***************************************************************************)
CompOf(o) ==
  IF request.has_vector_leaves /\ request.infer_type # "leaf_id"
  THEN o % request.default_num_outputs ELSE 0

ServerOf(t, row) == (t * launch.chunk_size + row) % launch.threads_per_block

GroveOf(t, row) ==
  IF request.infer_type = "default" THEN ServerOf(t, row) \div launch.chunk_size ELSE 0

Feeds(t, row, o, g) == OutputOf(request, t, CompOf(o)) = o /\ g = GroveOf(t, row)

TermOf(r, t, o) == [offset |-> r * request.col_count, tree |-> t, comp |-> CompOf(o)]

(* What grove g has for output o of row r when the trees before n are added up. *)
TreeSum(r, o, g, n) ==
  LET upto[k \in 0 .. request.num_tree] ==
        IF k = 0 THEN Zero
        ELSE IF Feeds(k - 1, r % launch.chunk_size, o, g)
        THEN AddTerm(upto[k - 1], TermOf(r, k - 1, o))
        ELSE upto[k - 1]
  IN  upto[n]

(* The sum of the first n batches of WARP_SIZE groves: batch after batch, each
   with shuffles. *)
BatchSum(r, o, n) ==
  LET grove(g) == IF g < launch.num_grove THEN TreeSum(r, o, g, request.num_tree) ELSE Zero
      upto[k \in 0 .. launch.num_grove] ==
        IF k = 0 THEN Zero
        ELSE ShuffleSum([[l \in 0 .. (WARP_SIZE - 1) |-> grove((k - 1) * WARP_SIZE + l)]
                           EXCEPT ![0] = Plus(upto[k - 1], @)])
  IN  upto[n]

SumOfGroves(r, o) == BatchSum(r, o, CeilDiv(launch.num_grove, WARP_SIZE))

(* Outputs are added up in an order that only the configuration decides: the
   trees of a grove in ascending order, then the groves as the warp pairs
   them.  Predictions are reproducible bit by bit, whatever thread or block
   ran when. *)
Reproducible ==
  phase = "done" =>
    \A r \in Rows(request), o \in Outputs(request) :
      output[r * NumOutputs(request) + o] = Transform(SumOfGroves(r, o))

(* The kernel ends: no thread is left at a barrier the others do not reach. *)
Termination == <>(phase \in {"refused", "done"})

(* The kernel implements ForestInference: every row is written once, in one
   go, when it is complete. *)
Implements == Promise!Spec

-----------------------------------------------------------------------------
(* The invariant of the proofs: where the threads of a block can be at the
   same time. *)

Labels == {"stage", "sync", "evaluate", "accumulate", "inferred",
           "reduce", "store", "postprocess", "reduced", "exit"}

Position == [i : Nat, task : Nat, row : Nat, comp : Nat, grove : Nat]

Clearing(label) == label \in {"stage", "sync"}

(* The part of the loop body a thread is in: before the barrier in the middle,
   behind it, or out of the loop. *)
Part(label) ==
  IF label \in {"stage", "sync", "evaluate", "accumulate", "inferred"} THEN "infer"
  ELSE IF label = "exit" THEN "exit" ELSE "reduce"

Warps == launch.threads_per_block \div WARP_SIZE

FirstChunk(b) == b * launch.chunk_size

LaunchInv ==
  /\ request \in Calls /\ device \in Devices /\ specified \in ChunkSizes
  /\ launch = Configuration(request, device, specified)
  /\ phase \in {"called", "refused", "launched", "done"}
  /\ phase = "launched" => Acceptable(request, launch)

(* Thread th may be at label, with loop indexes p: these are in their ranges,
   and it waits in sync() for a reason. *)
InRange(th, label, p) ==
  /\ label # "exit" => p.i < request.row_count
  /\ label = "sync" => FillFits \/ CopyFits(p.i) \/ p.i = FirstChunk(BlockOf(th))
  /\ label \in {"evaluate", "accumulate"} =>
       p.task \in RealTasks(th, p.i) /\ p.comp < NumComp(request)
  /\ label \in {"reduce", "store", "postprocess"} =>
       /\ p.row < RowsAt(p.i) /\ p.row % Warps = WarpOf(th)
       /\ p.comp < NumOutputs(request)
  /\ label \in {"store", "postprocess"} => IsFirstLane(th)

(* Two threads of a block may be at these places at once: they are in the same
   chunk and part of the loop body, and if something is cleared or copied, on
   one side of sync(). *)
Together(label1, p1, label2, p2) ==
  /\ p1.i = p2.i
  /\ Part(label1) = Part(label2)
  /\ FillFits \/ CopyFits(p1.i) => (Clearing(label1) <=> Clearing(label2))

GridInv ==
  /\ LaunchInv
  /\ Running =>
       /\ pc \in [Threads -> Labels]
       /\ at \in [Threads -> Position]
       /\ DOMAIN workspace = Blocks
       /\ \A b \in Blocks : DOMAIN workspace[b] = 0 .. (launch.output_workspace_size - 1)
       /\ \A th \in Threads : InRange(th, pc[th], at[th])
       /\ \A b \in Blocks : \A th1, th2 \in Team(b) :
            Together(pc[th1], at[th1], pc[th2], at[th2])

(* The workspace of a block has the elements that its threads work on. *)
WorkspaceHolds == KernelWorkspace <= launch.output_workspace_size

(* Something is cleared or copied for the first chunk of a block, so that
   requires_sync has a value when it is read first. *)
SyncDecided ==
  \A b \in Blocks :
    FirstChunk(b) < request.row_count => FillFits \/ CopyFits(FirstChunk(b))

(* The loop variable of a block can step past the last row. *)
LastStepFits ==
  request.row_count + launch.chunk_size * launch.num_blocks <= IndexMod

-----------------------------------------------------------------------------
(* The invariant of the proofs about outputs: what the memory of a block
   holds, told by the threads that are at work on it. *)

(* The elements of the input have indexes that do not wrap. *)
InputFits == request.row_count * request.col_count < IndexMod

(* The launches in which every step is exact: see Supported. *)
SharedLaunch == Supported /\ ~launch.in_global /\ LastStepFits /\ InputFits

Groves == 0 .. (launch.num_grove - 1)
ChunkRows(i) == 0 .. (RowsAt(i) - 1)

(* The one thread that adds to an element of the workspace. *)
Server(row, o, g) ==
  IF request.infer_type = "default" THEN g * launch.chunk_size + row
  ELSE ServerOf(IF request.infer_type = "per_tree" /\ request.has_vector_leaves
                THEN o \div request.default_num_outputs ELSE o, row)

Working(label) == label \in {"evaluate", "accumulate", "inferred"}

(* The trees before this one have been added to the elements of output o that
   the thread serves. *)
Frontier(label, p, o) ==
  IF label = "inferred" THEN request.num_tree
  ELSE TaskTree(p) + (IF CompOf(o) < p.comp THEN 1 ELSE 0)

(* A block goes through every num_blocks-th chunk, until there is none left, and
   a warp through the outputs of a row until it is complete. *)
Aligned(th, label, p) ==
  /\ p.i % launch.chunk_size = 0
  /\ (p.i \div launch.chunk_size) % launch.num_blocks = BlockOf(th)
  /\ label = "exit" => p.i >= request.row_count
  /\ label = "postprocess" => p.comp + 1 = NumOutputs(request)

(* What the thread has cleared and copied is there when it waits in sync(), and
   everything is behind it. *)
Cleared(th, label, w) ==
  label = "sync" =>
    \A k \in DOMAIN w : k % launch.threads_per_block = IdxOf(th) => w[k] = Zero

Copied(th, label, p, s) ==
  CopyFits(p.i) =>
    \A k \in 0 .. (RowsAt(p.i) * request.col_count - 1) :
      Working(label) \/ (label = "sync" /\ k % launch.threads_per_block = IdxOf(th))
        => s[k] = p.i * request.col_count + k

(* The elements a thread serves hold what it has added to them. *)
Added(th, label, p, w) ==
  Working(label) =>
    \A row \in ChunkRows(p.i), o \in Outputs(request), g \in Groves :
      Server(row, o, g) = IdxOf(th) =>
        w[Slot(row, o, g)] = TreeSum(p.i + row, o, g, Frontier(label, p, o))

(* The first lane of a warp reduces the rows of the warp: those it has not come
   to hold sums of trees, the one it is at has sums of groves for the outputs
   before. *)
Reduced(th, label, p, w) ==
  IsFirstLane(th) /\ label \in {"reduce", "store", "postprocess"} =>
    \A row \in ChunkRows(p.i), o \in Outputs(request) :
      /\ row % Warps = WarpOf(th)
             /\ \/ row > p.row
                \/ row = p.row /\ o > p.comp
                \/ row = p.row /\ o = p.comp /\ label = "reduce"
           => \A g \in Groves : w[Slot(row, o, g)] = TreeSum(p.i + row, o, g, request.num_tree)
      /\ row = p.row /\ (o < p.comp \/ label = "postprocess")
           => w[Slot(row, o, 0)] = SumOfGroves(p.i + row, o)

(* A register holds the sum that will be stored, as far as it is known. *)
Loaded(th, label, p, r) ==
  /\ label = "accumulate" =>
       \A o \in Outputs(request), g \in Groves :
         Server(TaskRow(p), o, g) = IdxOf(th) /\ OutputOf(request, TaskTree(p), p.comp) = o
           => r = TreeSum(p.i + TaskRow(p), o, g, TaskTree(p))
  /\ IsFirstLane(th) =>
       CASE label = "reduce" ->
              /\ p.grove % WARP_SIZE = 0 /\ p.grove < launch.num_grove
              /\ r = BatchSum(p.i + p.row, p.comp, p.grove \div WARP_SIZE)
         [] label = "store" -> r = SumOfGroves(p.i + p.row, p.comp)
         [] label = "accumulate" -> TRUE
         [] OTHER -> r = Zero

ThreadSums(th, label, p, r, w, s) ==
  /\ Aligned(th, label, p)
  /\ Cleared(th, label, w) /\ Copied(th, label, p, s)
  /\ Added(th, label, p, w) /\ Reduced(th, label, p, w)
  /\ Loaded(th, label, p, r)

(* The lane that answers row r, and whether it has. *)
Answerer(r) ==
  <<(r \div launch.chunk_size) % launch.num_blocks,
    ((r % launch.chunk_size) % Warps) * WARP_SIZE>>

Answered(r, label, p) ==
  LET row == r % launch.chunk_size
  IN  \/ p.i > r - row
      \/ p.i = r - row /\ label = "reduced"
      \/ p.i = r - row /\ Part(label) = "reduce" /\ p.row > row

RowHolds(r, values) ==
  \A o \in Outputs(request) :
    values[r * NumOutputs(request) + o] =
      IF phase = "done" \/ (Running /\ Answered(r, pc[Answerer(r)], at[Answerer(r)]))
      THEN Transform(SumOfGroves(r, o)) ELSE Zero

SumInv ==
  /\ DOMAIN output = 0 .. (request.row_count * NumOutputs(request) - 1)
  /\ \A r \in Rows(request) : RowHolds(r, output)
  /\ Running =>
       /\ DOMAIN reg = Threads /\ DOMAIN staged = Blocks
       /\ \A b \in Blocks : DOMAIN staged[b] = 0 .. (launch.chunk_size * request.col_count - 1)
       /\ \A th \in Threads :
            ThreadSums(th, pc[th], at[th], reg[th], workspace[BlockOf(th)], staged[BlockOf(th)])

ResultInv == SharedLaunch => SumInv
=============================================================================

------------------------------ MODULE GpuLaunch ------------------------------
(***************************************************************************)
(* How a GPU inference call picks the launch configuration of its kernel   *)
(* (detail/infer/gpu.cuh): threads per block, rows per block iteration,    *)
(* dynamic shared memory, blocks, and where the output workspace lives.    *)
(*                                                                         *)
(* Sizes are of type index_type and wrap at IndexMod (2^32 in the code).   *)
(* The constants of gpu_introspection.hpp are parameters, so that their    *)
(* ratios can be kept with small numbers.                                  *)
(***************************************************************************)
EXTENDS InferenceRequest

CONSTANTS
  Devices,                 \* the devices considered
  ChunkSizes,              \* the values of specified_chunk_size considered
  ItemBytes,               \* sizeof(io_type) and sizeof(output_t)
  IndexMod,                \* number of values of index_type
  WARP_SIZE,               \* 32 in the code
  MAX_THREADS_PER_BLOCK,   \* 256
  MIN_BLOCKS_PER_SM,       \* 8
  MAX_BLOCKS,              \* 65536
  MAX_CHUNK                \* 32, the largest chunk the kernel is compiled for

Device == [sm_count           : Nat \ {0},
           shared_per_block   : Nat \ {0},
           shared_per_sm      : Nat \ {0},
           threads_per_sm     : Nat \ {0}]

Unspecified == 0   \* std::nullopt as a chunk size

ASSUME LaunchAssumption ==
  /\ Devices \subseteq Device
  /\ ChunkSizes \subseteq Nat
  /\ {ItemBytes, IndexMod, WARP_SIZE, MAX_THREADS_PER_BLOCK,
      MIN_BLOCKS_PER_SM, MAX_BLOCKS, MAX_CHUNK} \subseteq Nat \ {0}
  /\ MAX_THREADS_PER_BLOCK % WARP_SIZE = 0

(* The kernel is compiled for these chunk sizes: powers of 2, which have no odd
   divisor but 1.  They divide a warp. *)
KernelChunks == {n \in 1 .. MAX_CHUNK : \A d \in 2 .. n : n % d = 0 => d % 2 = 0}

ASSUME KernelAssumption ==
  MAX_CHUNK \in KernelChunks /\ \A n \in KernelChunks : WARP_SIZE % n = 0

VARIABLES
  request,     \* the arguments of the call that every device takes
  device,      \* the attributes of the device
  specified,   \* specified_chunk_size
  phase,       \* "called", "refused" or "launched"
  launch       \* the configuration of the launch

launchVars == <<request, device, specified, phase, launch>>

-----------------------------------------------------------------------------
U(x) == x % IndexMod

RowSizeBytes(c)       == U(ItemBytes * c.col_count)
RowOutputSizeBytes(c) == U(ItemBytes * NumOutputs(c))
MaxOverallSharedMem(d) == Least(d.shared_per_block, d.shared_per_sm)

DownpaddedSize(v, alignment) == v - (v % alignment)
PaddedSize(v, alignment)     == CeilDiv(v, alignment) * alignment

ThreadsFor(bytes, item) ==
  Least(MAX_THREADS_PER_BLOCK, DownpaddedSize(bytes \div item, WARP_SIZE))

(***************************************************************************)
(* threads_per_block: as many as outputs fit beside one input row; if that *)
(* is less than a warp, without the input row, then without the outputs,   *)
(* then regardless of shared memory.  Only the second choice gives up      *)
(* input rows in shared memory for good (row_size_bytes = 0).              *)
(***************************************************************************)
Threads0(c, d) ==
  LET row_size_bytes == RowSizeBytes(c)
      beside_input == ThreadsFor(U(d.shared_per_block - row_size_bytes), RowOutputSizeBytes(c))
      only_outputs == ThreadsFor(d.shared_per_block, RowOutputSizeBytes(c))
      only_input   == ThreadsFor(d.shared_per_block, row_size_bytes)
      choice(threads, bytes) == [threads_per_block |-> threads, row_size_bytes |-> bytes]
  IN  IF beside_input >= WARP_SIZE THEN choice(beside_input, row_size_bytes)
      ELSE IF only_outputs >= WARP_SIZE THEN choice(only_outputs, 0)
      ELSE IF only_input >= WARP_SIZE THEN choice(only_input, row_size_bytes)
      ELSE choice(MAX_THREADS_PER_BLOCK, row_size_bytes)

ComputeOutputSize(c, threads, rows) ==
  U(U(NumOutputs(c) * rows) * (IF c.infer_type = "default" THEN CeilDiv(threads, rows) ELSE 1))

(* Mutant of Halve: the trial stops at a chunk that leaves room for the
   outputs alone. *)
HalveOutputsOnly(c, d, t, rows) ==
  LET trial[r \in 0 .. rows] ==
        LET size   == ComputeOutputSize(c, t.threads_per_block, r)
            shared == U(ItemBytes * size)
            result(n) == [rows |-> n, output_workspace_size |-> size, shared_mem |-> shared]
        IN  IF shared <= MaxOverallSharedMem(d) THEN result(r)
            ELSE IF r \div 2 > 1 THEN trial[r \div 2] ELSE result(r \div 2)
  IN  trial[rows]

(***************************************************************************)
(* The do-while loop: rows per block iteration are halved until they and   *)
(* their outputs fit.  When it ends at one row, the sizes it leaves behind *)
(* are those of its last trial.                                            *)
(***************************************************************************)
Halve(c, d, t, rows) ==
  LET trial[r \in 0 .. rows] ==
        LET size   == ComputeOutputSize(c, t.threads_per_block, r)
            shared == U(r * t.row_size_bytes + U(ItemBytes * size))
            result(n) == [rows |-> n, output_workspace_size |-> size, shared_mem |-> shared]
        IN  IF shared <= MaxOverallSharedMem(d) THEN result(r)
            ELSE IF r \div 2 > 1 THEN trial[r \div 2] ELSE result(r \div 2)
  IN  trial[rows]

(* Mutant of KernelChunk: the dispatch compares with < instead of <=. *)
KernelChunkBelow(rows) ==
  LET enough == {n \in KernelChunks : rows < n}
  IN  IF enough = {} THEN MAX_CHUNK ELSE CHOOSE n \in enough : \A m \in enough : n <= m

(* The smallest chunk that is enough is run. *)
KernelChunk(rows) ==
  LET enough == {n \in KernelChunks : rows <= n}
  IN  IF enough = {} THEN MAX_CHUNK ELSE CHOOSE n \in enough : \A m \in enough : n <= m

(* num_grove, in the size guard as in the kernel *)
KernelGroves(c, threads, chunk) ==
  IF c.infer_type = "default"
  THEN CeilDiv(Least(threads, chunk * c.num_tree), chunk) ELSE 1

(* Mutant of MaxNumRow: the groves are left out. *)
MaxNumRowOneGrove(c, threads, chunk) ==
  LET bound == (IndexMod - 1) \div NumOutputs(c)
  IN  IF bound >= 3 THEN bound - 3 ELSE bound

MaxNumRow(c, threads, chunk) ==
  LET bound == (IndexMod - 1) \div (NumOutputs(c) * KernelGroves(c, threads, chunk))
  IN  IF bound >= 3 THEN bound - 3 ELSE bound

(***************************************************************************)
(* The configuration for a request c on device d with chunk size s.  If    *)
(* the outputs alone do not fit in shared memory, the workspace is taken   *)
(* from global memory (in_global).                                         *)
(***************************************************************************)
Configuration(c, d, s) ==
  LET t            == Threads0(c, d)
      max_overall  == MaxOverallSharedMem(d)
      max_resident == d.sm_count * (d.threads_per_sm \div t.threads_per_block)
      minimal_rows == IF s = Unspecified THEN 1 ELSE s
      minimal_size == ComputeOutputSize(c, t.threads_per_block, minimal_rows)
      in_global    == U(ItemBytes * minimal_size) > d.shared_per_block
      minimal_shared ==
        Least(U(minimal_rows * t.row_size_bytes
                  + (IF in_global THEN 0 ELSE U(ItemBytes * minimal_size))),
              max_overall)
      resident     == Least(CeilDiv(d.shared_per_sm, minimal_shared), max_resident)
      wanted_rows  == IF s = Unspecified /\ resident >= MIN_BLOCKS_PER_SM
                      THEN MAX_CHUNK ELSE minimal_rows
      fit          == IF ~in_global /\ wanted_rows > 1 THEN Halve(c, d, t, wanted_rows)
                      ELSE [rows |-> wanted_rows, output_workspace_size |-> minimal_size,
                            shared_mem |-> minimal_shared]
      shared       == Least(fit.shared_mem, max_overall)
      chunk        == KernelChunk(fit.rows)
      num_blocks   == Least(CeilDiv(c.row_count, fit.rows), MAX_BLOCKS)
  IN  [threads_per_block     |-> t.threads_per_block,
       row_size_bytes        |-> t.row_size_bytes,
       rows                  |-> fit.rows,
       chunk_size            |-> chunk,
       output_workspace_size |-> fit.output_workspace_size,
       in_global             |-> in_global,
       shared_mem            |-> Least(max_overall, d.shared_per_sm \div (d.shared_per_sm \div shared)),
       num_blocks            |-> num_blocks,
       global_size           |-> IF in_global THEN U(fit.output_workspace_size * num_blocks) ELSE 0,
       num_grove             |-> KernelGroves(c, t.threads_per_block, chunk),
       max_num_row           |-> MaxNumRow(c, t.threads_per_block, chunk)]

-----------------------------------------------------------------------------
LaunchInit ==
  /\ request \in Calls
  /\ device \in Devices
  /\ specified \in ChunkSizes
  /\ phase = "called"
  /\ launch = Configuration(request, device, specified)

(* The size guard lets the call pass, and CUDA accepts the grid: one of no
   blocks is an error that cuda_check throws. *)
Acceptable(c, l) == c.row_count \in 1 .. l.max_num_row

Refuse ==
  /\ phase = "called"
  /\ ~Acceptable(request, launch)
  /\ phase' = "refused"
  /\ UNCHANGED <<request, device, specified, launch>>

Launch ==
  /\ phase = "called"
  /\ Acceptable(request, launch)
  /\ phase' = "launched"
  /\ UNCHANGED <<request, device, specified, launch>>

(* What the launch itself does; the kernel is GpuInfer. *)
LaunchOver ==
  /\ phase \in {"refused", "launched"}
  /\ UNCHANGED launchVars

LaunchSpec == LaunchInit /\ [][Refuse \/ Launch \/ LaunchOver]_launchVars

-----------------------------------------------------------------------------
(* Properties *)

(* The workspace elements one block of the kernel works on. *)
KernelWorkspace == launch.chunk_size * NumOutputs(request) * launch.num_grove

(* A workspace in shared memory really is there: the kernel's fill finds
   room for it, since there is no fallback buffer to return, and it holds
   every element of every grove although the launch sized it before the
   kernel's chunk and groves were known. *)
SharedWorkspaceFits ==
  phase = "launched" /\ ~launch.in_global =>
    /\ U(launch.output_workspace_size * ItemBytes) <= launch.shared_mem
    /\ KernelWorkspace <= launch.output_workspace_size

(* What the documentation of the kernel's fallback buffer asks of it: the
   part of each block holds the elements the block works on. *)
FallbackFits ==
  phase = "launched" /\ launch.in_global => KernelWorkspace <= launch.output_workspace_size

(* The size guard is to refuse inputs that would overflow: then a workspace in
   global memory has a part for each block. *)
FallbackForAllBlocks ==
  phase = "launched" /\ launch.in_global =>
    launch.global_size = launch.num_blocks * launch.output_workspace_size

(* Whether n rows and their outputs fit in the shared memory of a block. *)
RowsFit(n) ==
  n * launch.row_size_bytes
    + ItemBytes * ComputeOutputSize(request, launch.threads_per_block, n)
      <= MaxOverallSharedMem(device)

(* A chunk that was shrunk is as large as shared memory allows: it is one
   row or fits, and twice the chunk does not. *)
ChunkLargest ==
  phase = "launched" /\ ~launch.in_global /\ launch.rows > 1 =>
    /\ RowsFit(launch.rows)
    /\ launch.rows < (IF specified = Unspecified THEN MAX_CHUNK ELSE specified) =>
         ~RowsFit(2 * launch.rows)

(* The size of a row and of its outputs in bytes fits the index type.  The
   launch divides by both: one that wraps to 0 is undefined behaviour. *)
Representable(c) ==
  ItemBytes * c.col_count < IndexMod /\ ItemBytes * NumOutputs(c) < IndexMod

(***************************************************************************)
(* What the launch is made for: what a block may have to hold in shared    *)
(* memory has a size that the index type can represent, the chunk size is  *)
(* one of those documented for predict, and a multiprocessor has as much   *)
(* shared memory as a block may use, but not so much more that blocks are  *)
(* plenty which fill their shared memory half.                             *)
(***************************************************************************)
Supported ==
  /\ MAX_CHUNK * ItemBytes * request.col_count
       + MAX_THREADS_PER_BLOCK * ItemBytes * NumOutputs(request) < IndexMod
  /\ specified = Unspecified \/ specified \in KernelChunks
  /\ device.shared_per_block <= device.shared_per_sm
  /\ 2 * device.shared_per_sm <= (MIN_BLOCKS_PER_SM - 1) * device.shared_per_block

(* Neither the last workspace offset of a chunk nor the index of an output
   wraps, at the bound the guard admits too. *)
OffsetsRepresentable ==
  phase = "launched" =>
    request.row_count * NumOutputs(request) * launch.num_grove < IndexMod

=============================================================================

--------------------------- MODULE PredictRouting ---------------------------
(***************************************************************************)
(* forest_model::predict: how a call brings input, model and output        *)
(* together.  If all of them are in one kind of memory the kernel works on *)
(* the caller's buffers.  Otherwise input or output or both go through     *)
(* temporary buffers next to the model; with a pool of streams the rows    *)
(* are split into partitions, each on a stream of its own.                 *)
(*                                                                         *)
(* The host thread submits copies, kernels and the release of device       *)
(* memory to streams, which run them in order, each at its own pace.       *)
(*                                                                         *)
(* An input element is its index in the input.  The result for an output   *)
(* is right if it is the index of that output.                             *)
(***************************************************************************)
EXTENDS Integers, Sequences, FiniteSets

CONSTANTS
  Predictions,                \* the calls considered
  Streams,                    \* the streams of the pool
  IndexMod,                   \* number of values of index_type and uint32_t
  MaxRows,                    \* the most rows a kernel takes (its size guard)
  MIN_CHUNKS_PER_PARTITION,   \* 64 in the code
  MAX_CHUNK_SIZE              \* 64 in the code

DeviceType == {"cpu", "gpu"}
NoDevice    == -1             \* the device index of a model on the CPU
Unspecified == 0              \* std::nullopt as a chunk size

(* Where a buffer is, and the index of the device it is said to be on. *)
Place == [mem : DeviceType, device : Int]

Prediction ==
  [overload      : {"buffers", "pointers"},
   pooled        : BOOLEAN,     \* a pool of streams, or one stream
   pool_size     : Nat,
   stream_device : Nat,         \* the device the streams are on
   current       : Nat,         \* the current CUDA device
   model         : Place,
   input         : Place,
   output        : Place,
   pinned        : BOOLEAN,     \* the caller's host memory is page-locked
   rows          : Nat,
   num_features  : Nat \ {0},
   num_outputs   : Nat \ {0},
   chunk         : Nat]

ASSUME RoutingAssumption ==
  /\ Predictions \subseteq Prediction
  /\ \A c \in Predictions : c.model.mem = "cpu" => c.model.device = NoDevice
  /\ {IndexMod, MaxRows, MIN_CHUNKS_PER_PARTITION, MAX_CHUNK_SIZE} \subseteq Nat \ {0}

VARIABLES
  call,      \* the call being served
  pc,        \* what the host thread does next
  i,         \* the partition it is at
  stream,    \* the stream of that partition
  queue,     \* queue[s]: what was submitted to stream s and has not run
  temp_in,   \* temp_in[i], temp_out[i]: the temporary buffers of partition i
  temp_out,
  output     \* the caller's output buffer

vars == <<call, pc, i, stream, queue, temp_in, temp_out, output>>

-----------------------------------------------------------------------------
(* Partitions *)

U(x) == x % IndexMod
CeilDiv(a, b) == a \div b + (IF a % b # 0 THEN 1 ELSE 0)
Larger(a, b)  == IF a > b THEN a ELSE b
Smaller(a, b) == IF a < b THEN a ELSE b

CopiesIn  == call.input.mem # call.model.mem
CopiesOut == call.output.mem # call.model.mem
Whole     == ~call.pooled \/ ~(CopiesIn \/ CopiesOut)

PartitionSize ==
  IF Whole THEN call.rows
  ELSE Larger(CeilDiv(call.rows, call.pool_size),
              MIN_CHUNKS_PER_PARTITION
                * (IF call.chunk = Unspecified THEN MAX_CHUNK_SIZE ELSE call.chunk))

(* Mutant of PartitionCount: the partition that is not full is left out. *)
PartitionCountFull == IF Whole THEN 1 ELSE call.rows \div PartitionSize

PartitionCount == IF Whole THEN 1 ELSE CeilDiv(call.rows, PartitionSize)

RowsIn(p)      == Smaller(PartitionSize, call.rows - p * PartitionSize)
FirstInput(p)  == p * PartitionSize * call.num_features

(* Mutant of FirstOutput: the stride of the input is used for the output. *)
FirstOutputByFeatures(p) == p * PartitionSize * call.num_features

FirstOutput(p) == p * PartitionSize * call.num_outputs

Partitions == 0 .. call.rows

-----------------------------------------------------------------------------
(* Buffers.  What nobody has written, or was freed, is Garbage. *)

Garbage   == -1
Unwritten == -2
Freed     == <<>>
Allocated(size) == [k \in 0 .. (size - 1) |-> Garbage]

Complete == \A k \in DOMAIN output : output[k] = k

(* The device index the buffer made for an argument carries: that of the
   caller's buffer, or for pointers the current device, whatever they are. *)
IndexOf(place) ==
  IF call.overload = "buffers" THEN place.device
  ELSE IF "gpu" \in {call.input.mem, call.output.mem} THEN call.current ELSE NoDevice

(* nvforest::copy of n elements of src: its size parameter is a uint32_t. *)
Copied(src, dst, n) ==
  [k \in DOMAIN dst |-> IF k >= U(n) THEN dst[k]
                        ELSE IF k \in DOMAIN src THEN src[k] ELSE Garbage]

CopyIn(p) ==
  Copied([k \in 0 .. (RowsIn(p) * call.num_features - 1) |-> FirstInput(p) + k],
         temp_in[p], RowsIn(p) * call.num_features)

CopyOut(p, src) ==
  LET n == RowsIn(p) * call.num_outputs
  IN  [k \in DOMAIN output |->
         LET j == k - FirstOutput(p)
         IN  IF j \notin 0 .. (U(n) - 1) THEN output[k]
             ELSE IF j \in DOMAIN src THEN src[j] ELSE Garbage]

(* The element at k of the input a kernel on partition p is given. *)
InputElement(p, k) ==
  IF ~CopiesIn THEN FirstInput(p) + k
  ELSE IF k \in DOMAIN temp_in[p] THEN temp_in[p][k] ELSE Garbage

(* The results of a kernel on partition p.  A row that is not the whole of a
   row of the caller's input gives Garbage. *)
Results(p) ==
  LET f == call.num_features
      n == call.num_outputs
      first(r) == InputElement(p, r * f)
      whole(r) == /\ first(r) >= 0 /\ first(r) % f = 0
                  /\ \A k \in 0 .. (f - 1) : InputElement(p, r * f + k) = first(r) + k
  IN  [j \in 0 .. (U(RowsIn(p)) * n - 1) |->
         IF whole(j \div n) THEN (first(j \div n) \div f) * n + (j % n) ELSE Garbage]

RunKernel(p) ==
  IF CopiesOut
  THEN /\ temp_out' = [temp_out EXCEPT ![p] =
                         [k \in DOMAIN @ |-> IF k \in DOMAIN Results(p) THEN Results(p)[k] ELSE @[k]]]
       /\ UNCHANGED output
  ELSE /\ output' = CopyOut(p, Results(p))
       /\ UNCHANGED temp_out

-----------------------------------------------------------------------------
(* The host thread *)

Init ==
  /\ call \in Predictions
  /\ pc = "start"
  /\ i = 0
  /\ stream \in Streams
  /\ queue = [s \in Streams |-> <<>>]
  /\ temp_in = [p \in Partitions |-> Freed]
  /\ temp_out = [p \in Partitions |-> Freed]
  /\ output = [k \in 0 .. (call.rows * call.num_outputs - 1) |-> Unwritten]

Submit(op) == queue' = [queue EXCEPT ![stream] = Append(@, op)]
Op(do)     == [do |-> do, part |-> i]

Start ==
  /\ pc = "start"
  /\ pc' = IF call.pooled /\ call.pool_size = 0 THEN "refused" ELSE "partition"
  /\ UNCHANGED <<call, i, stream, queue, temp_in, temp_out, output>>

(* The next stream of the pool is taken, buffers are made for a partition. *)
NextPartition ==
  /\ pc = "partition"
  /\ IF i < PartitionCount
     THEN /\ \E s \in Streams : stream' = s
          /\ pc' = IF CopiesIn THEN "copy_in" ELSE "infer"
          /\ temp_in' = [temp_in EXCEPT ![i] =
               IF CopiesIn THEN Allocated(RowsIn(i) * call.num_features) ELSE @]
          /\ temp_out' = [temp_out EXCEPT ![i] =
               IF CopiesOut THEN Allocated(RowsIn(i) * call.num_outputs) ELSE @]
     ELSE pc' = "returned" /\ UNCHANGED <<stream, temp_in, temp_out>>
  /\ UNCHANGED <<call, i, queue, output>>

(***************************************************************************)
(* cudaMemcpyAsync.  A copy to pageable host memory has been done when it  *)
(* returns; one from pageable host memory has read its source by then.     *)
(* Temporary buffers on the host are pageable.                             *)
(***************************************************************************)
CopyInput ==
  /\ pc = "copy_in"
  /\ pc' = "infer"
  /\ IF call.model.mem = "gpu"
     THEN Submit(Op("copy_in")) /\ UNCHANGED temp_in
     ELSE /\ queue[stream] = <<>>
          /\ temp_in' = [temp_in EXCEPT ![i] = CopyIn(i)]
          /\ UNCHANGED queue
  /\ UNCHANGED <<call, i, stream, temp_out, output>>

(* What decision_forest::predict and the kernel's launch check. *)
SameDevice ==
  /\ CopiesIn \/ IndexOf(call.input) = call.model.device
  /\ CopiesOut \/ IndexOf(call.output) = call.model.device

KernelAccepts ==
  /\ U(RowsIn(i)) <= MaxRows
  /\ call.model.mem = "gpu" => call.stream_device = call.model.device /\ U(RowsIn(i)) > 0

(* Buffers of a partition are destroyed: those on a device in stream order. *)
FreeTemporaries ==
  IF call.model.mem = "gpu"
  THEN Submit(Op("free")) /\ UNCHANGED <<temp_in, temp_out>>
  ELSE /\ temp_in' = [temp_in EXCEPT ![i] = Freed]
       /\ temp_out' = [temp_out EXCEPT ![i] = Freed]
       /\ UNCHANGED queue

Refuse ==
  /\ pc = "infer"
  /\ ~(SameDevice /\ KernelAccepts)
  /\ pc' = "refused"
  /\ FreeTemporaries
  /\ UNCHANGED <<call, i, stream, output>>

(* Mutant of Infer: the kernel is submitted to another stream. *)
InferElsewhere ==
  /\ pc = "infer"
  /\ SameDevice /\ KernelAccepts
  /\ pc' = IF CopiesOut THEN "copy_out" ELSE "release"
  /\ IF call.model.mem = "gpu"
     THEN /\ \E s \in Streams : queue' = [queue EXCEPT ![s] = Append(@, Op("infer"))]
          /\ UNCHANGED <<temp_out, output>>
     ELSE RunKernel(i) /\ UNCHANGED queue
  /\ UNCHANGED <<call, i, stream, temp_in>>

(* Mutant of Infer: devices are compared only once the kernel has started. *)
InferUnchecked ==
  /\ pc = "infer"
  /\ KernelAccepts
  /\ pc' = IF ~SameDevice THEN "refused" ELSE IF CopiesOut THEN "copy_out" ELSE "release"
  /\ IF call.model.mem = "gpu"
     THEN Submit(Op("infer")) /\ UNCHANGED <<temp_out, output>>
     ELSE RunKernel(i) /\ UNCHANGED queue
  /\ UNCHANGED <<call, i, stream, temp_in>>

Infer ==
  /\ pc = "infer"
  /\ SameDevice /\ KernelAccepts
  /\ pc' = IF CopiesOut THEN "copy_out" ELSE "release"
  /\ IF call.model.mem = "gpu"
     THEN Submit(Op("infer")) /\ UNCHANGED <<temp_out, output>>
     ELSE RunKernel(i) /\ UNCHANGED queue
  /\ UNCHANGED <<call, i, stream, temp_in>>

CopyOutput ==
  /\ pc = "copy_out"
  /\ pc' = "release"
  /\ IF call.model.mem = "gpu" /\ ~call.pinned
     THEN /\ queue[stream] = <<>>
          /\ output' = CopyOut(i, temp_out[i])
          /\ UNCHANGED queue
     ELSE /\ Submit(IF call.model.mem = "gpu" THEN Op("copy_out")
                    ELSE [do |-> "staged", part |-> i, data |-> temp_out[i]])
          /\ UNCHANGED output
  /\ UNCHANGED <<call, i, stream, temp_in, temp_out>>

(* Mutant of Release: device memory is freed at once. *)
ReleaseAtOnce ==
  /\ pc = "release"
  /\ temp_in' = [temp_in EXCEPT ![i] = Freed]
  /\ temp_out' = [temp_out EXCEPT ![i] = Freed]
  /\ i' = i + 1
  /\ pc' = "partition"
  /\ UNCHANGED <<call, stream, queue, output>>

(* Mutant of Release: the loop does not advance. *)
ReleaseAndRepeat ==
  /\ pc = "release"
  /\ FreeTemporaries
  /\ pc' = "partition"
  /\ UNCHANGED <<call, i, stream, output>>

Release ==
  /\ pc = "release"
  /\ FreeTemporaries
  /\ i' = i + 1
  /\ pc' = "partition"
  /\ UNCHANGED <<call, stream, output>>

-----------------------------------------------------------------------------
(* The streams *)

Run(s) ==
  LET op == Head(queue[s]) IN
  /\ queue[s] # <<>>
  /\ queue' = [queue EXCEPT ![s] = Tail(@)]
  /\ \/ /\ op.do = "copy_in"
        /\ temp_in' = [temp_in EXCEPT ![op.part] = CopyIn(op.part)]
        /\ UNCHANGED <<temp_out, output>>
     \/ /\ op.do = "infer"
        /\ RunKernel(op.part)
        /\ UNCHANGED temp_in
     \/ /\ op.do = "copy_out"
        /\ output' = CopyOut(op.part, temp_out[op.part])
        /\ UNCHANGED <<temp_in, temp_out>>
     \/ /\ op.do = "staged"
        /\ output' = CopyOut(op.part, op.data)
        /\ UNCHANGED <<temp_in, temp_out>>
     \/ /\ op.do = "free"
        /\ temp_in' = [temp_in EXCEPT ![op.part] = Freed]
        /\ temp_out' = [temp_out EXCEPT ![op.part] = Freed]
        /\ UNCHANGED output
  /\ UNCHANGED <<call, pc, i, stream>>

Host == Start \/ NextPartition \/ CopyInput \/ Refuse \/ Infer \/ CopyOutput \/ Release

Drained == \A s \in Streams : queue[s] = <<>>
Ended   == pc \in {"returned", "refused"} /\ Drained

Over == Ended /\ UNCHANGED vars

Next == Host \/ (\E s \in Streams : Run(s)) \/ Over

Spec == Init /\ [][Next]_vars

(* The host thread runs, and a stream runs what was submitted to it. *)
FairSpec == Spec /\ WF_vars(Host) /\ \A s \in Streams : WF_vars(Run(s))

-----------------------------------------------------------------------------
(* Properties *)

(* Once the call has returned and its streams are drained, every output holds
   its own result: partitions cover all rows, their copies go where they
   belong, and no temporary was gone too early. *)
ResultsInPlace == pc = "returned" /\ Drained => Complete

(* An output element changes at most once, to its result: no partition ever
   writes to the rows of another, and nothing unfinished is copied out. *)
WrittenOnce ==
  [][\A k \in DOMAIN output : output'[k] # output[k] =>
       output[k] = Unwritten /\ output'[k] = k]_vars

(* If the output is in pageable host memory, it is complete when predict
   returns: the caller need not wait for streams it may not even know. *)
HostReady ==
  pc = "returned" /\ call.output.mem = "cpu" /\ ~call.pinned => Complete

(* A call that is refused leaves the output as it was, whatever it submitted
   before: a partition is only ever refused if the first is. *)
RefusedUntouched ==
  pc = "refused" => \A k \in DOMAIN output : output[k] = Unwritten

(* No kernel and no copy that a stream is about to run uses a temporary that
   was freed, or that was not made yet. *)
NoUseAfterFree ==
  \A s \in Streams :
    LET op == Head(queue[s])
    IN  queue[s] # <<>> /\ RowsIn(op.part) > 0 =>
          /\ op.do \in {"copy_in", "infer"} /\ CopiesIn => temp_in[op.part] # Freed
          /\ op.do \in {"infer", "copy_out"} /\ CopiesOut => temp_out[op.part] # Freed

(* Every call ends, and what it submitted is run. *)
StreamsDrain == <>Ended

(***************************************************************************)
(* What the documentation of predict promises: input and output may be on  *)
(* the host while the model is on a device, or vice versa.  A call is      *)
(* refused only for its pool, its number of rows, its streams or memory on *)
(* another device than a model on a device.                                *)
(***************************************************************************)
PlacementServed ==
  pc = "refused" =>
    \/ call.pooled /\ call.pool_size = 0
    \/ call.rows \notin 1 .. MaxRows
    \/ /\ call.model.mem = "gpu"
       /\ \/ call.stream_device # call.model.device
          \/ \E p \in {call.input, call.output} : p.mem = "gpu" /\ p.device # call.model.device
          \/ call.current # call.model.device

-----------------------------------------------------------------------------
(***************************************************************************)
(* The invariant of the proofs: how far the host thread and each operation *)
(* that waits in a stream are with a partition, and what its buffers and   *)
(* its outputs hold by then.                                               *)
(***************************************************************************)

(* What fits the size parameter of a copy and the kernels' index_type: what
   the code takes for granted of every call. *)
Representable(c) == c.rows * c.num_features < IndexMod /\ c.rows * c.num_outputs < IndexMod

Unserved == call.pooled /\ call.pool_size = 0
Parts    == 0 .. (PartitionCount - 1)

(* The rows of partition p in a temporary, its results in another, and the
   outputs these are for. *)
InputOf(p)   == [k \in 0 .. (RowsIn(p) * call.num_features - 1) |-> FirstInput(p) + k]
ResultOf(p)  == [k \in 0 .. (RowsIn(p) * call.num_outputs - 1) |-> FirstOutput(p) + k]
OutputsOf(p) == FirstOutput(p) .. (FirstOutput(p) + RowsIn(p) * call.num_outputs - 1)

Untouched(p) == \A k \in OutputsOf(p) : output[k] = Unwritten

(* The temporaries of partition p have been made and not been freed. *)
HasRoom(p) ==
  /\ CopiesIn => DOMAIN temp_in[p] = DOMAIN InputOf(p)
  /\ CopiesOut => DOMAIN temp_out[p] = DOMAIN ResultOf(p)

(* The order in which a partition is worked on. *)
Stage(do) == IF do = "copy_in" THEN 1 ELSE IF do = "infer" THEN 2
             ELSE IF do \in {"copy_out", "staged"} THEN 3 ELSE 4

Working == pc \in {"copy_in", "infer", "copy_out", "release"}

Operations ==
  [do : {"copy_in", "infer", "copy_out", "free"}, part : Parts]
    \cup {[do |-> "staged", part |-> p, data |-> ResultOf(p)] : p \in Parts}

(* Something is to be done with partition p in the first n entries of s. *)
Pending(s, n, do, p) == \E k \in 1 .. n : queue[s][k].do = do /\ queue[s][k].part = p

Writes(op) == op.do \in {"copy_out", "staged"} \/ (op.do = "infer" /\ ~CopiesOut)

(* Entry j of stream s, for partition p, is behind the host thread, is one the
   call has use for, and finds its buffers, or will after the entries before. *)
EntryInv(s, j, p) ==
  LET do == queue[s][j].do IN
  /\ \/ p < i
     \/ p = i /\ Working /\ s = stream /\ Stage(do) < Stage(pc)
     \/ p = i /\ pc = "refused" /\ do \in {"copy_in", "free"}
  /\ do = "staged" <=> call.model.mem = "cpu"
  /\ do = "copy_in" => CopiesIn
  /\ do \in {"copy_out", "staged"} => CopiesOut
  /\ do = "copy_out" => call.pinned
  /\ do \in {"copy_in", "infer", "copy_out"} => HasRoom(p)
  /\ do = "infer" /\ CopiesIn => temp_in[p] = InputOf(p) \/ Pending(s, j - 1, "copy_in", p)
  /\ do = "copy_out" => temp_out[p] = ResultOf(p) \/ Pending(s, j - 1, "infer", p)
  /\ Writes(queue[s][j]) => Untouched(p)

EntriesInv == \A s \in Streams : \A j \in 1 .. Len(queue[s]) : \A p \in Parts :
  queue[s][j].part = p => EntryInv(s, j, p)

(* A partition has one stream, where its operations wait in their order. *)
OrderInv == \A s, t \in Streams : \A j \in 1 .. Len(queue[s]), k \in 1 .. Len(queue[t]) :
  queue[s][j].part = queue[t][k].part =>
    /\ s = t
    /\ j < k => Stage(queue[s][j].do) < Stage(queue[t][k].do)

(* So does the host thread while it is at partition p. *)
WorkInv(p) ==
  /\ HasRoom(p)
  /\ pc = "infer" /\ CopiesIn =>
       temp_in[p] = InputOf(p) \/ Pending(stream, Len(queue[stream]), "copy_in", p)
  /\ pc = "copy_out" =>
       temp_out[p] = ResultOf(p) \/ Pending(stream, Len(queue[stream]), "infer", p)

(* A partition is refused only if it is the first: what the checks look at is
   no greater in the others. *)
HostInv ==
  /\ i \in Nat /\ i <= PartitionCount
  /\ Working => i < PartitionCount
  /\ pc \in {"start", "refused"} => i = 0
  /\ pc = "copy_in" => CopiesIn
  /\ pc = "copy_out" => CopiesOut
  /\ pc = "returned" => i = PartitionCount
  /\ \A p \in Parts : Working /\ p = i => WorkInv(p)
  /\ i > 0 \/ pc \in {"copy_out", "release"} =>
       /\ SameDevice
       /\ RowsIn(0) <= MaxRows
       /\ call.model.mem = "gpu" => call.stream_device = call.model.device /\ RowsIn(0) > 0

(* The outputs of a partition are there once the host thread has passed it and
   nothing that will write them waits; before, they are as they were. *)
OutputInv == \A p \in Parts :
  IF p < i \/ (p = i /\ pc = "release")
  THEN \/ \A k \in OutputsOf(p) : output[k] = k
       \/ \E s \in Streams : \E j \in 1 .. Len(queue[s]) :
            queue[s][j].part = p /\ Writes(queue[s][j])
  ELSE Untouched(p)

ShapeInv ==
  /\ call \in Predictions
  /\ stream \in Streams
  /\ DOMAIN temp_in = Partitions /\ DOMAIN temp_out = Partitions
  /\ DOMAIN output = 0 .. (call.rows * call.num_outputs - 1)

(* A call that is given no stream does nothing. *)
IdleInv ==
  /\ pc \in {"start", "refused"}
  /\ queue = [s \in Streams |-> <<>>]
  /\ \A k \in DOMAIN output : output[k] = Unwritten

ServedInv ==
  /\ pc \in {"start", "partition", "copy_in", "infer", "copy_out", "release",
             "returned", "refused"}
  /\ queue \in [Streams -> Seq(Operations)]
  /\ EntriesInv /\ OrderInv /\ HostInv /\ OutputInv

RoutingInv == ShapeInv /\ IF Unserved THEN IdleInv ELSE ServedInv
=============================================================================

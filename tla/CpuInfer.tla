------------------------------ MODULE CpuInfer ------------------------------
(***************************************************************************)
(* The CPU inference kernel (infer_kernel_cpu): a team of OpenMP threads   *)
(* accumulates tree outputs into a shared workspace, waits at the implicit *)
(* barrier of the first loop, then reduces and postprocesses row by row.   *)
(*                                                                         *)
(* The read-modify-write of a workspace element is two steps (Evaluate     *)
(* loads it, Accumulate stores it), so that two threads that shared an     *)
(* element would lose an update.  OpenMP may hand any unclaimed iteration  *)
(* to any idle thread: every static or dynamic schedule is a behaviour.    *)
(* Indexes are of type index_type and wrap at IndexMod (2^32 in the code). *)
(***************************************************************************)
EXTENDS InferenceRequest

CONSTANTS
  MaxThreads,   \* omp_get_max_threads()
  IndexMod      \* number of values of index_type

ASSUME MaxThreadsAssumption == MaxThreads \in Nat \ {0}
ASSUME IndexModAssumption   == IndexMod \in Nat \ {0}

VARIABLES
  request,     \* the arguments of the call
  phase,       \* "called", "refused", "infer", "reduce", "done"
  workspace,   \* output_workspace, a flat array of values
  output,      \* the caller's output buffer
  pending,     \* iterations of the current loop not handed to a thread yet
  pc,          \* what each thread does next
  at,          \* the loop indexes of each thread
  reg          \* the value each thread holds between a load and a store

vars == <<request, phase, workspace, output, pending, pc, at, reg>>

Threads == 1 .. MaxThreads

-----------------------------------------------------------------------------
(* Sizes and indexes *)

U(x) == x % IndexMod

NumChunkFloor(c) == c.row_count \div c.chunk_size   \* mutant: the last partial chunk is lost

NumGrove(c) == CeilDiv(c.num_tree, c.grove_size)
NumChunk(c) == CeilDiv(c.row_count, c.chunk_size)
TaskCount(c) == U(NumGrove(c) * NumChunk(c))
Tasks(c) == 0 .. (TaskCount(c) - 1)

(* Mutant of MaxNumRow: the workspace is taken to hold one output per row. *)
MaxNumRowOneOutput(c) ==
  LET bound == (IndexMod - 1) \div NumGrove(c)
  IN  IF bound >= 3 THEN bound - 3 ELSE bound

(* The 64-bit bound on row_count that is to keep indexes from wrapping. *)
MaxNumRow(c) ==
  LET bound == (IndexMod - 1) \div (NumOutputs(c) * NumGrove(c))
  IN  IF bound >= 3 THEN bound - 3 ELSE bound

(* What MaxNumRow does not check: the end of the last chunk and of the last
   grove, and the index of the last input element. *)
Representable(c) ==
  /\ c.row_count + c.chunk_size <= IndexMod
  /\ c.num_tree + c.grove_size <= IndexMod
  /\ c.row_count * c.col_count <= IndexMod

WorkspaceSize(c) == U(c.row_count * NumOutputs(c) * NumGrove(c))

GroveOf(c, task)   == task \div NumChunk(c)
StartRow(c, task)  == U((task % NumChunk(c)) * c.chunk_size)
EndRow(c, task)    == Least(U(StartRow(c, task) + c.chunk_size), c.row_count)
StartTree(c, task) == U(GroveOf(c, task) * c.grove_size)
EndTree(c, task)   == Least(U(StartTree(c, task) + c.grove_size), c.num_tree)

(* Mutant of Slot: the groves of an output share one element. *)
SlotShared(c, row, out, grove) ==
  U(row * NumOutputs(c) * NumGrove(c) + out * NumGrove(c))

Slot(c, row, out, grove) ==
  U(row * NumOutputs(c) * NumGrove(c) + out * NumGrove(c) + grove)

OutputIndex(c, row, out) == U(row * NumOutputs(c) + out)

TargetSlot(c, p) ==
  Slot(c, p.row, OutputOf(c, p.tree, p.comp), GroveOf(c, p.task))

(* evaluate_tree on the row at input + row_index * col_count *)
TreeOutput(c, p) ==
  [offset |-> U(p.row * c.col_count), tree |-> p.tree, comp |-> p.comp]

-----------------------------------------------------------------------------
(* Where a thread is: in the first loop on component comp of a tree for a row
   of a task, in the second loop on output comp of a row, at a grove. *)
Position == [task : Nat, row : Nat, tree : Nat, comp : Nat, grove : Nat]

At(task, row, tree, comp, grove) ==
  [task |-> task, row |-> row, tree |-> tree, comp |-> comp, grove |-> grove]

Init ==
  /\ request \in Calls
  /\ phase = "called"
  /\ workspace = <<>>
  /\ output = [i \in 0 .. (request.row_count * NumOutputs(request) - 1) |-> Zero]
  /\ pending = {}
  /\ pc = [th \in Threads |-> "absent"]
  /\ at = [th \in Threads |-> At(0, 0, 0, 0, 0)]
  /\ reg = [th \in Threads |-> Zero]

(* The call as ForestInference sees it: the output buffer by rows. *)
Status == IF phase = "refused" THEN "refused" ELSE IF phase = "done" THEN "returned" ELSE "running"
Result == [r \in Rows(request) |-> [o \in Outputs(request) |-> output[r * NumOutputs(request) + o]]]

Promise == INSTANCE ForestInference WITH status <- Status, result <- Result

(* Mutant of Refuse: the bound itself is refused too. *)
RefuseAtBound ==
  /\ phase = "called"
  /\ request.row_count >= MaxNumRow(request)
  /\ phase' = "refused"
  /\ UNCHANGED <<request, workspace, output, pending, pc, at, reg>>

(* The size guard throws. *)
Refuse ==
  /\ phase = "called"
  /\ request.row_count > MaxNumRow(request)
  /\ phase' = "refused"
  /\ UNCHANGED <<request, workspace, output, pending, pc, at, reg>>

(* Mutant of Launch: the workspace has no room for the groves. *)
LaunchWithoutGroves ==
  /\ phase = "called"
  /\ request.row_count <= MaxNumRow(request)
  /\ phase' = "infer"
  /\ workspace' = [i \in 0 .. (request.row_count * NumOutputs(request) - 1) |-> Zero]
  /\ pending' = Tasks(request)
  /\ pc' = [th \in Threads |-> "idle"]
  /\ UNCHANGED <<request, output, at, reg>>

(***************************************************************************)
(* The workspace is allocated and the parallel region starts with          *)
(* min(max_threads, task_count) threads.  With no row the request is for   *)
(* 0 threads, for which OpenMP leaves the team size open.                  *)
(***************************************************************************)
Launch ==
  /\ phase = "called"
  /\ request.row_count <= MaxNumRow(request)
  /\ phase' = "infer"
  /\ workspace' = [i \in 0 .. (WorkspaceSize(request) - 1) |-> Zero]
  /\ pending' = Tasks(request)
  /\ \E team \in Threads :
        /\ TaskCount(request) > 0 => team = Least(MaxThreads, TaskCount(request))
        /\ pc' = [th \in Threads |-> IF th <= team THEN "idle" ELSE "absent"]
  /\ UNCHANGED <<request, output, at, reg>>

-----------------------------------------------------------------------------
(* First loop: infer on each grove and chunk *)

(* Mutant of ClaimTask: a thread takes a task without claiming it. *)
ClaimTaskShared(th) ==
  /\ phase = "infer"
  /\ pc[th] = "idle"
  /\ \E task \in pending :
        at' = [at EXCEPT ![th] = At(task, StartRow(request, task), StartTree(request, task), 0, 0)]
  /\ pc' = [pc EXCEPT ![th] = "evaluate"]
  /\ UNCHANGED <<request, phase, workspace, output, pending, reg>>

ClaimTask(th) ==
  /\ phase = "infer"
  /\ pc[th] = "idle"
  /\ \E task \in pending :
        /\ pending' = pending \ {task}
        /\ at' = [at EXCEPT ![th] = At(task, StartRow(request, task), StartTree(request, task), 0, 0)]
        /\ IF /\ StartRow(request, task) < EndRow(request, task)
              /\ StartTree(request, task) < EndTree(request, task)
           THEN pc' = [pc EXCEPT ![th] = "evaluate"]
           ELSE UNCHANGED pc
  /\ UNCHANGED <<request, phase, workspace, output, reg>>

(* Evaluate the tree; unless the result just replaces it, load the element. *)
Evaluate(th) ==
  /\ pc[th] = "evaluate"
  /\ reg' = [reg EXCEPT ![th] = IF request.infer_type = "leaf_id" THEN Zero
                                ELSE workspace[TargetSlot(request, at[th])]]
  /\ pc' = [pc EXCEPT ![th] = "accumulate"]
  /\ UNCHANGED <<request, phase, workspace, output, pending, at>>

(* The next component, tree or row of the task, or the end of the task. *)
Advance(th) ==
  LET p    == at[th]
      goto(q) == at' = [at EXCEPT ![th] = q] /\ pc' = [pc EXCEPT ![th] = "evaluate"]
  IN  \/ /\ p.comp + 1 < NumComp(request)
         /\ goto(At(p.task, p.row, p.tree, p.comp + 1, 0))
      \/ /\ p.comp + 1 = NumComp(request)
         /\ p.tree + 1 < EndTree(request, p.task)
         /\ goto(At(p.task, p.row, p.tree + 1, 0, 0))
      \/ /\ p.comp + 1 = NumComp(request)
         /\ p.tree + 1 = EndTree(request, p.task)
         /\ p.row + 1 < EndRow(request, p.task)
         /\ goto(At(p.task, p.row + 1, StartTree(request, p.task), 0, 0))
      \/ /\ p.comp + 1 = NumComp(request)
         /\ p.tree + 1 = EndTree(request, p.task)
         /\ p.row + 1 = EndRow(request, p.task)
         /\ pc' = [pc EXCEPT ![th] = "idle"]
         /\ UNCHANGED at

Accumulate(th) ==
  /\ pc[th] = "accumulate"
  /\ workspace' = [workspace EXCEPT ![TargetSlot(request, at[th])] =
                     AddTerm(reg[th], TreeOutput(request, at[th]))]
  /\ reg' = [reg EXCEPT ![th] = Zero]
  /\ Advance(th)
  /\ UNCHANGED <<request, phase, output, pending>>

(* Mutant of AllIdle: the barrier waits for threads outside the team. *)
AllThreadsIdle == \A th \in Threads : pc[th] = "idle"

AllIdle == \A th \in Threads : pc[th] \in {"idle", "absent"}

(* Mutant of Barrier: the first loop is declared nowait. *)
BarrierNoWait ==
  /\ phase = "infer"
  /\ pending = {}
  /\ phase' = "reduce"
  /\ pending' = Rows(request)
  /\ UNCHANGED <<request, workspace, output, pc, at, reg>>

(* The implicit barrier at the end of the first loop. *)
Barrier ==
  /\ phase = "infer"
  /\ pending = {}
  /\ AllIdle
  /\ phase' = "reduce"
  /\ pending' = Rows(request)
  /\ UNCHANGED <<request, workspace, output, pc, at, reg>>

-----------------------------------------------------------------------------
(* Second loop: sum over groves and postprocess.  comp is output_index. *)

ClaimRow(th) ==
  /\ phase = "reduce"
  /\ pc[th] = "idle"
  /\ \E row \in pending :
        /\ pending' = pending \ {row}
        /\ at' = [at EXCEPT ![th] = At(0, row, 0, 0, 0)]
  /\ reg' = [reg EXCEPT ![th] = Zero]
  /\ pc' = [pc EXCEPT ![th] = "sum"]
  /\ UNCHANGED <<request, phase, workspace, output>>

(* One iteration of std::accumulate *)
SumGrove(th) ==
  LET p == at[th] IN
  /\ pc[th] = "sum"
  /\ p.grove < NumGrove(request)
  /\ reg' = [reg EXCEPT ![th] = Plus(@, workspace[Slot(request, p.row, p.comp, p.grove)])]
  /\ at' = [at EXCEPT ![th] = At(0, p.row, 0, p.comp, p.grove + 1)]
  /\ UNCHANGED <<request, phase, workspace, output, pending, pc>>

(* The sum replaces the element of the first grove. *)
StoreSum(th) ==
  LET p == at[th] IN
  /\ pc[th] = "sum"
  /\ p.grove = NumGrove(request)
  /\ workspace' = [workspace EXCEPT ![Slot(request, p.row, p.comp, 0)] = reg[th]]
  /\ reg' = [reg EXCEPT ![th] = Zero]
  /\ IF p.comp + 1 < NumOutputs(request)
     THEN /\ at' = [at EXCEPT ![th] = At(0, p.row, 0, p.comp + 1, 0)]
          /\ UNCHANGED pc
     ELSE /\ pc' = [pc EXCEPT ![th] = "postprocess"]
          /\ UNCHANGED at
  /\ UNCHANGED <<request, phase, output, pending>>

(* postproc transforms the row's sums in place and copies them out. *)
PostProcess(th) ==
  LET row == at[th].row
      reduced(o) == Slot(request, row, o, 0)
  IN
  /\ pc[th] = "postprocess"
  /\ workspace' = [i \in DOMAIN workspace |->
                     IF \E o \in Outputs(request) : i = reduced(o)
                     THEN Transform(workspace[i]) ELSE workspace[i]]
  /\ output' = [i \in DOMAIN output |->
                  IF \E o \in Outputs(request) : i = OutputIndex(request, row, o)
                  THEN Transform(workspace[reduced(i - OutputIndex(request, row, 0))])
                  ELSE output[i]]
  /\ pc' = [pc EXCEPT ![th] = "idle"]
  /\ UNCHANGED <<request, phase, pending, at, reg>>

(* The end of the parallel region: the kernel returns. *)
Finish ==
  /\ phase = "reduce"
  /\ pending = {}
  /\ AllIdle
  /\ phase' = "done"
  /\ UNCHANGED <<request, workspace, output, pending, pc, at, reg>>

Step(th) ==
  \/ ClaimTask(th) \/ Evaluate(th) \/ Accumulate(th)
  \/ ClaimRow(th) \/ SumGrove(th) \/ StoreSum(th) \/ PostProcess(th)

(* The call is over; nothing happens any more. *)
Over ==
  /\ phase \in {"refused", "done"}
  /\ UNCHANGED vars

Next ==
  Refuse \/ Launch \/ Barrier \/ Finish \/ Over \/ \E th \in Threads : Step(th)

Spec == Init /\ [][Next]_vars

(* A started thread is never suspended for ever, nor is the calling one. *)
Fairness ==
  /\ WF_vars(Refuse \/ Launch \/ Barrier \/ Finish)
  /\ \A th \in Threads : WF_vars(Step(th))

FairSpec == Spec /\ Fairness

-----------------------------------------------------------------------------
(* Properties *)

(* The state has the shape the code gives it: the workspace and the output
   are arrays of values, loop indexes are unsigned. *)
TypeOK ==
  /\ request \in Calls
  /\ phase \in {"called", "refused", "infer", "reduce", "done"}
  /\ IF phase \in {"called", "refused"} THEN workspace = <<>>
     ELSE workspace \in [0 .. (WorkspaceSize(request) - 1) -> Value]
  /\ output \in [0 .. (request.row_count * NumOutputs(request) - 1) -> Value]
  /\ pending \in SUBSET Nat
  /\ pc \in [Threads -> {"absent", "idle", "evaluate", "accumulate", "sum", "postprocess"}]
  /\ at \in [Threads -> Position]
  /\ reg \in [Threads -> Value]

(* The workspace elements a thread is about to read or write, or holds a
   loaded copy of. *)
Held(th) ==
  LET p == at[th] IN
  IF pc[th] \in {"evaluate", "accumulate"} THEN {TargetSlot(request, p)}
  ELSE IF pc[th] = "sum"
  THEN {Slot(request, p.row, p.comp, g) : g \in 0 .. (NumGrove(request) - 1)}
  ELSE IF pc[th] = "postprocess"
  THEN {Slot(request, p.row, o, 0) : o \in Outputs(request)}
  ELSE {}

(* Two threads never touch the same workspace element at the same time: the
   grove index in the offset keeps the tasks of one row chunk apart, the row
   index the others, and the barrier keeps the two loops apart.  The code
   has neither atomics nor locks, so this is all that makes += safe. *)
NoRace ==
  \A th1, th2 \in Threads : th1 # th2 => Held(th1) \cap Held(th2) = {}

(* Every workspace element accessed lies inside the vector, in spite of the
   32-bit index arithmetic: what the size guard is for. *)
InBounds == \A th \in Threads : Held(th) \subseteq DOMAIN workspace

(* Where a thread can be: a thread of the first loop is inside the row and
   tree ranges of a task it has claimed, one of the second loop on a row it
   has claimed, and neither outlives its loop. *)
Positions ==
  \A th \in Threads :
    LET p == at[th] IN
    /\ pc[th] \in {"evaluate", "accumulate"} =>
         /\ phase = "infer"
         /\ p.task \in Tasks(request) \ pending
         /\ p.row \in StartRow(request, p.task) .. (EndRow(request, p.task) - 1)
         /\ p.tree \in StartTree(request, p.task) .. (EndTree(request, p.task) - 1)
         /\ p.comp \in 0 .. (NumComp(request) - 1)
    /\ pc[th] \in {"sum", "postprocess"} =>
         /\ phase = "reduce"
         /\ p.row \in Rows(request) \ pending
         /\ p.comp \in Outputs(request)
         /\ p.grove \in 0 .. NumGrove(request)

(* No iteration of either loop is in the hands of two threads. *)
Exclusive ==
  \A th1, th2 \in Threads : th1 # th2 =>
    /\ (pc[th1] \in {"evaluate", "accumulate"} /\ pc[th2] \in {"evaluate", "accumulate"})
         => at[th1].task # at[th2].task
    /\ (pc[th1] \in {"sum", "postprocess"} /\ pc[th2] \in {"sum", "postprocess"})
         => at[th1].row # at[th2].row

(* Past the size guard, and what the two loops still have to hand out. *)
Loops ==
  /\ phase \notin {"called", "refused"} => request.row_count <= MaxNumRow(request)
  /\ phase = "infer" => pending \subseteq Tasks(request)
  /\ phase = "reduce" => pending \subseteq Rows(request)

(* The inductive invariant behind TypeOK, NoRace and InBounds. *)
RaceInv == TypeOK /\ Positions /\ Exclusive /\ Loops

(* When the kernel returns, every output of every row is the sum of the tree
   outputs that belong to it: no lost update, no tree or row skipped, no tree
   counted twice by the reduction over groves. *)
ResultsCorrect ==
  phase = "done" =>
    \A r \in Rows(request), o \in Outputs(request) :
      Promise!IsResult(output[r * NumOutputs(request) + o], request, r, o)

(* The terms of a value are in ascending order of their trees. *)
InOrder(v) == \A j, k \in 1 .. Len(v.sum) : j < k => v.sum[j].tree < v.sum[k].tree

(* An output always adds its trees in ascending order, whatever thread ran
   which task when: predictions are reproducible bit by bit although
   floating-point addition is not associative. *)
ScheduleIndependent == \A i \in DOMAIN output : InOrder(output[i])

(* A refused call has not touched the output, and a call is refused only if
   it is within 3 rows of not fitting 32-bit workspace indexes. *)
RefusedOnlyIfLarge ==
  phase = "refused" =>
    /\ \A i \in DOMAIN output : output[i] = Zero
    /\ (request.row_count + 3) * NumOutputs(request) * NumGrove(request) >= IndexMod

-----------------------------------------------------------------------------
(* The inductive invariant behind ScheduleIndependent, ResultsCorrect and
   Implements: what every element of the workspace and the output has added
   up so far. *)

FirstLoop(th)  == pc[th] \in {"evaluate", "accumulate"}
SecondLoop(th) == pc[th] \in {"sum", "postprocess"}

(* v is the sum of the members of terms, in order, not postprocessed yet. *)
Adds(v, terms) ==
  /\ v.post = 0
  /\ {v.sum[k] : k \in 1 .. Len(v.sum)} = terms
  /\ InOrder(v)

Contributions(row, out) == Promise!Contributions(request, row, out)

GroveOfTree(tree) == tree \div request.grove_size

GroveTerms(row, out, grove) ==
  {t \in Contributions(row, out) : GroveOfTree(t.tree) = grove}

(* A task adds the terms of its trees to its rows, row by row. *)
Covers(task, row, tree) ==
  /\ row \in StartRow(request, task) .. (EndRow(request, task) - 1)
  /\ tree \in StartTree(request, task) .. (EndTree(request, task) - 1)

(* A thread at position p has added term t to its row. *)
Before(row, t, p) ==
  \/ row < p.row
  \/ row = p.row /\ (t.tree < p.tree \/ (t.tree = p.tree /\ t.comp < p.comp))

(* Term t is still to be added to its row. *)
Outstanding(row, t) ==
  \/ \E task \in pending : Covers(task, row, t.tree)
  \/ \E th \in Threads : FirstLoop(th) /\ Covers(at[th].task, row, t.tree)
                          /\ ~Before(row, t, at[th])

(* The first loop: every element has the terms that are not outstanding, and
   what a thread has loaded is current. *)
Accumulated ==
  phase = "infer" =>
    /\ \A row \in Rows(request), out \in Outputs(request), grove \in 0 .. (NumGrove(request) - 1) :
         Adds(workspace[Slot(request, row, out, grove)],
              {t \in GroveTerms(row, out, grove) : ~Outstanding(row, t)})
    /\ \A th \in Threads : pc[th] = "accumulate" =>
         reg[th] = IF request.infer_type = "leaf_id" THEN Zero
                   ELSE workspace[TargetSlot(request, at[th])]

(* The elements of output out of a row have the sums of their groves, or the
   first has the sum of all. *)
GrovesAdded(row, out) ==
  \A grove \in 0 .. (NumGrove(request) - 1) :
    Adds(workspace[Slot(request, row, out, grove)], GroveTerms(row, out, grove))
Reduced(row, out) == Adds(workspace[Slot(request, row, out, 0)], Contributions(row, out))

(* The row a thread has claimed is half reduced, or reduced. *)
RowProgress(th) ==
  LET p == at[th] IN
  /\ pc[th] = "sum" =>
       /\ \A out \in Outputs(request) :
            IF out < p.comp THEN Reduced(p.row, out) ELSE GrovesAdded(p.row, out)
       /\ Adds(reg[th], {t \in Contributions(p.row, p.comp) : GroveOfTree(t.tree) < p.grove})
  /\ pc[th] = "postprocess" => \A out \in Outputs(request) : Reduced(p.row, out)

(* The second loop: the rows to be claimed are as the first loop left them. *)
Reducing ==
  phase = "reduce" =>
    /\ \A row \in pending, out \in Outputs(request) : GrovesAdded(row, out)
    /\ \A th \in Threads : RowProgress(th)

(* A row of the output is untouched until its result is there. *)
Unfinished(row) ==
  \/ phase \in {"called", "refused", "infer"}
  \/ phase = "reduce" /\ (row \in pending \/ \E th \in Threads : SecondLoop(th) /\ at[th].row = row)
Answered ==
  \A row \in Rows(request), out \in Outputs(request) :
    LET v == output[row * NumOutputs(request) + out]
    IN  IF Unfinished(row) THEN v = Zero
        ELSE Promise!IsResult(v, request, row, out) /\ InOrder(v)

SumInv == Accumulated /\ Reducing /\ Answered

(* The inductive invariant of the kernel: where every thread is, and what
   every element of the workspace and the output is the sum of. *)
KernelInv == RaceInv /\ SumInv

-----------------------------------------------------------------------------
(* The kernel returns: no schedule leaves a thread waiting at a barrier. *)
Termination == <>(phase \in {"refused", "done"})

(* The kernel implements ForestInference: a row of the output is written in
   one go, once, when it is complete. *)
Implements == Promise!Spec
=============================================================================

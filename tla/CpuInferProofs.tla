--------------------------- MODULE CpuInferProofs ---------------------------
(***************************************************************************)
(* Proofs about the CPU kernel, for any number of threads, any width of    *)
(* index_type and any set of calls whose indexes are representable.        *)
(***************************************************************************)
EXTENDS CpuInfer, RequestLemmas

-----------------------------------------------------------------------------
(* The sizes of an accepted call *)

Accepted(c) == c \in Call /\ Representable(c) /\ c.row_count <= MaxNumRow(c)

(* Arithmetic of index_type is exact as long as the result fits. *)
LEMMA NoWrap ==
  ASSUME NEW x \in Nat
  PROVE  /\ U(x) \in Nat
         /\ U(x) <= x
         /\ U(x) < IndexMod
         /\ x < IndexMod => U(x) = x
  BY DivMod, IndexModAssumption DEF U

(* The numbers computed from them. *)
LEMMA Sizes ==
  ASSUME NEW c \in Call
  PROVE  /\ NumOutputs(c) \in Nat \ {0}
         /\ NumGrove(c) \in Nat \ {0}
         /\ NumChunk(c) \in Nat
         /\ NumComp(c) \in Nat \ {0}
<1> USE CallFields
<1>1. NumOutputs(c) \in Nat \ {0} /\ NumComp(c) \in Nat \ {0}
  BY OutputSizes
<1>2. NumGrove(c) \in Nat \ {0}
  <2>1. CeilDiv(c.num_tree, c.grove_size) \in Nat
        /\ CeilDiv(c.num_tree, c.grove_size) > 0
    BY CeilDivBounds
  <2> QED
    BY <2>1 DEF NumGrove
<1>3. NumChunk(c) \in Nat
  BY CeilDivBounds DEF NumChunk
<1> QED
  BY <1>1, <1>2, <1>3

(* The size guard: no workspace or output index of an accepted call wraps. *)
LEMMA GuardFits ==
  ASSUME NEW c, Accepted(c)
  PROVE  /\ c.row_count * NumOutputs(c) * NumGrove(c) < IndexMod
         /\ c.row_count * NumOutputs(c) < IndexMod
         /\ WorkspaceSize(c) = c.row_count * NumOutputs(c) * NumGrove(c)
<1> DEFINE n == NumOutputs(c)
           g == NumGrove(c)
           bound == (IndexMod - 1) \div (n * g)
<1>1. c \in Call /\ c.row_count \in Nat /\ n \in Nat \ {0} /\ g \in Nat \ {0}
  BY Sizes DEF Accepted, Call
<1>2. n * g \in Nat \ {0} /\ IndexMod - 1 \in Nat
  BY <1>1, IndexModAssumption
<1>3. bound \in Nat /\ bound * (n * g) <= IndexMod - 1
  <2> DEFINE k == n * g
             m == IndexMod - 1
  <2>1. k \in Nat \ {0} /\ m \in Nat
    BY <1>2
  <2> HIDE DEF k, m
  <2>2. m \div k \in Nat /\ (m \div k) * k <= m
    BY <2>1, DivMod, MulNat
  <2> QED
    BY <2>2 DEF k, m
<1>4. c.row_count <= bound
  <2>1. c.row_count <= IF bound >= 3 THEN bound - 3 ELSE bound
    BY DEF Accepted, MaxNumRow
  <2> QED
    BY <1>1, <1>3, <2>1
<1> HIDE DEF n, g, bound
<1>5. c.row_count * (n * g) <= bound * (n * g)
  BY <1>1, <1>2, <1>3, <1>4, MulMono
<1>6. c.row_count * (n * g) = c.row_count * n * g
  BY <1>1
<1>7. c.row_count * n * g < IndexMod
  BY <1>1, <1>2, <1>3, <1>5, <1>6, MulNat, IndexModAssumption
<1>8. c.row_count * n \in Nat /\ c.row_count * n <= c.row_count * n * g
  BY <1>1, MulNat
<1>9. c.row_count * n * g \in Nat
  BY <1>1, <1>8, MulNat
<1>10. U(c.row_count * n * g) = c.row_count * n * g
  BY <1>7, <1>9, NoWrap
<1>11. IndexMod \in Nat
  BY IndexModAssumption
<1> QED
  BY <1>7, <1>8, <1>9, <1>10, <1>11 DEF n, g, WorkspaceSize
-----------------------------------------------------------------------------
(* The flat indexes *)

(* A workspace offset is exact. *)
LEMMA SlotExact ==
  ASSUME NEW c, Accepted(c), NEW row \in Rows(c), NEW out \in Outputs(c),
         NEW grove \in 0 .. (NumGrove(c) - 1)
  PROVE  /\ Slot(c, row, out, grove)
               = (row * NumOutputs(c) + out) * NumGrove(c) + grove
         /\ Slot(c, row, out, grove) \in 0 .. (WorkspaceSize(c) - 1)
<1> DEFINE n == NumOutputs(c)
           g == NumGrove(c)
           m == c.row_count
           k == row * n + out
<1>1. m \in Nat /\ n \in Nat \ {0} /\ g \in Nat \ {0} /\ row \in 0 .. (m - 1)
      /\ out \in 0 .. (n - 1) /\ grove \in 0 .. (g - 1)
  BY CallFields, Sizes DEF Accepted, Rows, Outputs
<1>2. m * n * g < IndexMod /\ WorkspaceSize(c) = m * n * g
  BY GuardFits
<1>3. Slot(c, row, out, grove) = U(row * n * g + out * g + grove)
  BY DEF Slot
<1> HIDE DEF n, g, m
<1>4. k \in Nat /\ k < m * n
  BY <1>1, BlockOrder, MulNat
<1>5. k * g + grove < (m * n) * g /\ k * g \in Nat /\ (m * n) * g \in Nat
  <2>1. m * n \in Nat
    BY <1>1, MulNat
  <2> HIDE DEF k
  <2> QED
    BY <1>1, <1>4, <2>1, BlockOrder, MulNat
<1>6. row * n * g + out * g + grove = k * g + grove
  BY <1>1
<1> HIDE DEF k
<1>7. k * g + grove \in 0 .. (m * n * g - 1)
  BY <1>1, <1>5
<1>8. U(k * g + grove) = k * g + grove
  BY <1>1, <1>2, <1>5, <1>7, NoWrap, IndexModAssumption
<1> QED
  BY <1>2, <1>3, <1>6, <1>7, <1>8 DEF n, g, m, k

(* It is for one row, output and grove. *)
LEMMA SlotUnique ==
  ASSUME NEW c, Accepted(c),
         NEW row1 \in Rows(c), NEW out1 \in Outputs(c), NEW grove1 \in 0 .. (NumGrove(c) - 1),
         NEW row2 \in Rows(c), NEW out2 \in Outputs(c), NEW grove2 \in 0 .. (NumGrove(c) - 1),
         Slot(c, row1, out1, grove1) = Slot(c, row2, out2, grove2)
  PROVE  row1 = row2 /\ out1 = out2 /\ grove1 = grove2
<1> DEFINE n == NumOutputs(c)
           g == NumGrove(c)
           k1 == row1 * n + out1
           k2 == row2 * n + out2
<1>1. n \in Nat \ {0} /\ g \in Nat \ {0} /\ row1 \in Nat /\ row2 \in Nat
      /\ out1 \in 0 .. (n - 1) /\ out2 \in 0 .. (n - 1)
      /\ grove1 \in 0 .. (g - 1) /\ grove2 \in 0 .. (g - 1)
  BY CallFields, Sizes DEF Accepted, Rows, Outputs
<1>2. k1 * g + grove1 = k2 * g + grove2
  BY SlotExact
<1> HIDE DEF n, g
<1>3. k1 \in Nat /\ k2 \in Nat
  BY <1>1, MulNat
<1>4. k1 = k2 /\ grove1 = grove2
  <2> HIDE DEF k1, k2
  <2> QED
    BY <1>1, <1>2, <1>3, BlockUnique
<1> QED
  BY <1>1, <1>4, BlockUnique

(* The index of an output is exact, and inside the output. *)
LEMMA OutputIndexExact ==
  ASSUME NEW c, Accepted(c), NEW row \in Rows(c), NEW out \in Outputs(c)
  PROVE  /\ OutputIndex(c, row, out) = row * NumOutputs(c) + out
         /\ OutputIndex(c, row, out) \in 0 .. (c.row_count * NumOutputs(c) - 1)
<1> DEFINE n == NumOutputs(c)
           m == c.row_count
<1>1. m \in Nat /\ n \in Nat \ {0} /\ row \in 0 .. (m - 1) /\ out \in 0 .. (n - 1)
  BY CallFields, Sizes DEF Accepted, Rows, Outputs
<1>2. m * n < IndexMod
  BY GuardFits
<1>3. OutputIndex(c, row, out) = U(row * n + out)
  BY DEF OutputIndex
<1> HIDE DEF n, m
<1>4. row * n + out \in Nat /\ m * n \in Nat /\ row * n + out < m * n
  BY <1>1, BlockOrder, MulNat
<1>5. U(row * n + out) = row * n + out
  BY <1>2, <1>4, NoWrap, IndexModAssumption
<1> QED
  BY <1>3, <1>4, <1>5 DEF n, m

-----------------------------------------------------------------------------
(* Tasks *)

(* A task is one of a grove and a chunk of rows. *)
LEMMA TaskRange ==
  ASSUME NEW c, Accepted(c), NEW task \in Tasks(c)
  PROVE  /\ task \in Nat
         /\ NumChunk(c) > 0
         /\ GroveOf(c, task) \in 0 .. (NumGrove(c) - 1)
         /\ task % NumChunk(c) \in 0 .. (NumChunk(c) - 1)
         /\ task = GroveOf(c, task) * NumChunk(c) + (task % NumChunk(c))
<1> DEFINE g == NumGrove(c)
           h == NumChunk(c)
           q == task \div h
           r == task % h
<1>1. c \in Call /\ g \in Nat \ {0} /\ h \in Nat
  BY Sizes DEF Accepted
<1>2. task \in Nat /\ task < g * h
  BY <1>1, NoWrap, MulNat DEF Tasks, TaskCount
<1> HIDE DEF g, h
<1>3. h > 0
  BY <1>1, <1>2
<1>4. q \in Nat /\ r \in 0 .. (h - 1) /\ task = q * h + r
  <2>1. task \in Nat /\ h \in Nat \ {0}
    BY <1>1, <1>2, <1>3
  <2> QED
    BY <2>1, DivMod
<1>5. q < g
  <2> HIDE DEF q, r
  <2>1. SUFFICES ASSUME g <= q PROVE FALSE
    BY <1>1, <1>4
  <2>2. g * h <= q * h
    BY <2>1, <1>1, <1>4, MulMono
  <2> QED
    BY <2>2, <1>1, <1>2, <1>4, MulNat
<1> QED
  <2>1. q \in 0 .. (g - 1)
    BY <1>1, <1>4, <1>5
  <2> QED
    BY <1>2, <1>3, <1>4, <2>1 DEF g, h, GroveOf

(* The rows and trees of a task lie in the input and in the forest, and the
   rows of a task start at a multiple of chunk_size. *)
LEMMA TaskBounds ==
  ASSUME NEW c, Accepted(c), NEW task \in Tasks(c)
  PROVE  /\ StartRow(c, task) = (task % NumChunk(c)) * c.chunk_size
         /\ StartRow(c, task) \in Rows(c)
         /\ EndRow(c, task) \in Nat
         /\ EndRow(c, task) <= c.row_count
         /\ EndRow(c, task) = Least(StartRow(c, task) + c.chunk_size, c.row_count)
         /\ EndRow(c, task) <= StartRow(c, task) + c.chunk_size
         /\ StartRow(c, task) < EndRow(c, task)
         /\ StartTree(c, task) = GroveOf(c, task) * c.grove_size
         /\ StartTree(c, task) \in Trees(c)
         /\ EndTree(c, task) \in Nat
         /\ EndTree(c, task) <= c.num_tree
         /\ EndTree(c, task) = Least(StartTree(c, task) + c.grove_size, c.num_tree)
         /\ EndTree(c, task) <= StartTree(c, task) + c.grove_size
         /\ StartTree(c, task) < EndTree(c, task)
<1> DEFINE k == task % NumChunk(c)
           h == GroveOf(c, task)
           cs == c.chunk_size
           gs == c.grove_size
           m == c.row_count
           t == c.num_tree
<1>1. m \in Nat /\ t \in Nat \ {0} /\ cs \in Nat \ {0} /\ gs \in Nat \ {0}
  BY CallFields DEF Accepted
<1>2. m + cs <= IndexMod /\ t + gs <= IndexMod /\ IndexMod \in Nat
  BY IndexModAssumption DEF Accepted, Representable
<1>3. k \in Nat /\ k < CeilDiv(m, cs) /\ h \in Nat /\ h < CeilDiv(t, gs)
  <2>1. NumChunk(c) \in Nat /\ NumGrove(c) \in Nat
    BY Sizes DEF Accepted
  <2>2. k \in 0 .. (NumChunk(c) - 1) /\ h \in 0 .. (NumGrove(c) - 1)
    BY TaskRange
  <2>3. NumChunk(c) = CeilDiv(m, cs) /\ NumGrove(c) = CeilDiv(t, gs)
    BY DEF NumChunk, NumGrove
  <2> HIDE DEF k, h
  <2> QED
    BY <2>1, <2>2, <2>3
<1>4. StartRow(c, task) = U(k * cs) /\ EndRow(c, task) = Least(U(StartRow(c, task) + cs), m)
  BY DEF StartRow, EndRow
<1>5. StartTree(c, task) = U(h * gs) /\ EndTree(c, task) = Least(U(StartTree(c, task) + gs), t)
  BY DEF StartTree, EndTree
<1>6. Rows(c) = 0 .. (m - 1) /\ Trees(c) = 0 .. (t - 1)
  BY DEF Rows, Trees
<1> HIDE DEF k, h, cs, gs, m, t
<1>7. k * cs \in Nat /\ k * cs < m /\ h * gs \in Nat /\ h * gs < t
  BY <1>1, <1>3, CeilDivBounds, MulNat
<1>8. StartRow(c, task) = k * cs /\ StartTree(c, task) = h * gs
  BY <1>1, <1>2, <1>4, <1>5, <1>7, NoWrap
<1>9. U(k * cs + cs) = k * cs + cs /\ U(h * gs + gs) = h * gs + gs
  BY <1>1, <1>2, <1>7, NoWrap
<1> QED
  BY <1>1, <1>4, <1>5, <1>6, <1>7, <1>8, <1>9 DEF Least, k, h, cs, gs, m, t

(* Two tasks that share a row and a grove are the same task. *)
LEMMA TaskUnique ==
  ASSUME NEW c, Accepted(c), NEW t1 \in Tasks(c), NEW t2 \in Tasks(c),
         GroveOf(c, t1) = GroveOf(c, t2),
         NEW row \in StartRow(c, t1) .. (EndRow(c, t1) - 1),
         row \in StartRow(c, t2) .. (EndRow(c, t2) - 1)
  PROVE  t1 = t2
<1> DEFINE k1 == t1 % NumChunk(c)
           k2 == t2 % NumChunk(c)
           cs == c.chunk_size
<1>1. cs \in Nat /\ k1 \in Nat /\ k2 \in Nat
  BY CallFields, TaskRange DEF Accepted
<1>2. /\ StartRow(c, t1) = k1 * cs /\ StartRow(c, t2) = k2 * cs
      /\ EndRow(c, t1) \in Nat /\ EndRow(c, t1) <= k1 * cs + cs
      /\ EndRow(c, t2) \in Nat /\ EndRow(c, t2) <= k2 * cs + cs
  BY TaskBounds
<1> HIDE DEF k1, k2, cs
<1>3. k1 * cs \in Nat /\ k2 * cs \in Nat
  BY <1>1, MulNat
<1> DEFINE i1 == row - k1 * cs
           i2 == row - k2 * cs
<1>4. i1 \in Nat /\ i1 < cs /\ i2 \in Nat /\ i2 < cs /\ k1 * cs + i1 = k2 * cs + i2
  BY <1>1, <1>2, <1>3
<1> HIDE DEF i1, i2
<1>5. k1 = k2
  BY <1>1, <1>4, BlockUnique
<1> QED
  <2>1. t1 = GroveOf(c, t1) * NumChunk(c) + k1
    BY TaskRange DEF k1
  <2>2. t2 = GroveOf(c, t2) * NumChunk(c) + k2
    BY TaskRange DEF k2
  <2> QED
    BY <1>5, <2>1, <2>2

-----------------------------------------------------------------------------
(* The inductive invariant *)

(* What a request is known to be once its size is accepted. *)
LEMMA RequestAccepted ==
  ASSUME \A c \in Calls : Representable(c), RaceInv, phase \notin {"called", "refused"}
  PROVE  /\ Accepted(request)
         /\ workspace \in [0 .. (WorkspaceSize(request) - 1) -> Value]
  BY CallsAssumption DEF RaceInv, TypeOK, Loops, Accepted

(* What a thread of the first loop works on. *)
LEMMA TargetRange ==
  ASSUME \A c \in Calls : Representable(c), RaceInv,
         NEW th \in Threads, pc[th] \in {"evaluate", "accumulate"}
  PROVE  LET p == at[th] IN
         /\ phase = "infer"
         /\ p.task \in Tasks(request)
         /\ p.row \in Rows(request)
         /\ p.tree \in Trees(request)
         /\ OutputOf(request, p.tree, p.comp) \in Outputs(request)
         /\ GroveOf(request, p.task) \in 0 .. (NumGrove(request) - 1)
         /\ TargetSlot(request, p) \in 0 .. (WorkspaceSize(request) - 1)
         /\ TreeOutput(request, p) \in Term
<1> DEFINE p == at[th]
           c == request
<1>1. /\ phase = "infer"
      /\ p.task \in Tasks(c)
      /\ p.row \in StartRow(c, p.task) .. (EndRow(c, p.task) - 1)
      /\ p.tree \in StartTree(c, p.task) .. (EndTree(c, p.task) - 1)
      /\ p.comp \in 0 .. (NumComp(c) - 1)
  BY DEF RaceInv, Positions
<1>2. Accepted(c) /\ c \in Call
  BY <1>1, RequestAccepted DEF Accepted
<1>3. NumComp(c) \in Nat
  BY <1>2, Sizes
<1> HIDE DEF c, p
<1>4. p.row \in Rows(c) /\ p.tree \in Trees(c) /\ p.row \in Nat /\ p.tree \in Nat
  BY <1>1, <1>2, TaskBounds, CallFields DEF Rows, Trees
<1>5. OutputOf(c, p.tree, p.comp) \in Outputs(c)
  BY <1>1, <1>2, <1>4, OutputOfRange
<1>6. GroveOf(c, p.task) \in 0 .. (NumGrove(c) - 1)
  BY <1>1, <1>2, TaskRange
<1>7. TargetSlot(c, p) \in 0 .. (WorkspaceSize(c) - 1)
  BY <1>2, <1>4, <1>5, <1>6, SlotExact DEF TargetSlot
<1>8. TreeOutput(c, p) \in Term
  <2>1. c.col_count \in Nat
    BY <1>2, CallFields
  <2>2. p.row * c.col_count \in Nat
    BY <1>4, <2>1, MulNat
  <2>3. U(p.row * c.col_count) \in Nat
    BY <2>2, NoWrap
  <2> QED
    BY <1>1, <1>3, <1>4, <2>3 DEF TreeOutput, Term
<1> QED
  BY <1>1, <1>4, <1>5, <1>6, <1>7, <1>8 DEF c, p

(* What a thread of the second loop works on. *)
LEMMA ReduceRange ==
  ASSUME \A c \in Calls : Representable(c), RaceInv,
         NEW th \in Threads, pc[th] \in {"sum", "postprocess"}
  PROVE  /\ phase = "reduce"
         /\ at[th].row \in Rows(request)
         /\ \A o \in Outputs(request), g \in 0 .. (NumGrove(request) - 1) :
               Slot(request, at[th].row, o, g) \in 0 .. (WorkspaceSize(request) - 1)
<1>1. phase = "reduce" /\ at[th].row \in Rows(request)
  BY DEF RaceInv, Positions
<1>2. Accepted(request)
  BY <1>1, RequestAccepted
<1> QED
  BY <1>1, <1>2, SlotExact

(* Positions are records of naturals, and At makes them. *)
LEMMA PositionFields ==
  /\ \A p \in Position : /\ p.task \in Nat /\ p.row \in Nat /\ p.tree \in Nat
                         /\ p.comp \in Nat /\ p.grove \in Nat
  /\ \A task, row, tree, comp, grove \in Nat :
        /\ At(task, row, tree, comp, grove) \in Position
        /\ At(task, row, tree, comp, grove).task = task
        /\ At(task, row, tree, comp, grove).row = row
        /\ At(task, row, tree, comp, grove).tree = tree
        /\ At(task, row, tree, comp, grove).comp = comp
        /\ At(task, row, tree, comp, grove).grove = grove
  BY DEF Position, At

(* Nobody works before the loops begin. *)
LEMMA RaceInvInit == Init => RaceInv
<1> SUFFICES ASSUME Init PROVE RaceInv
  OBVIOUS
<1>1. TypeOK
  BY ValueTypes DEF Init, TypeOK, At, Position, Threads
<1>2. Positions /\ Exclusive /\ Loops
  BY DEF Init, Positions, Exclusive, Loops
<1> QED
  BY <1>1, <1>2 DEF RaceInv

(* Every step keeps the invariant. *)
LEMMA RaceInvStep ==
  ASSUME \A c \in Calls : Representable(c), RaceInv, [Next]_vars
  PROVE  RaceInv'
<1> USE DEF RaceInv
<1>1. CASE Refuse
  <2>1. TypeOK'
    BY <1>1 DEF TypeOK, Refuse
  <2>2. Positions' /\ Exclusive' /\ Loops'
    BY <1>1 DEF Refuse, Positions, Exclusive, Loops
  <2> QED
    BY <2>1, <2>2
<1>2. CASE Launch
  <2>1. TypeOK'
    BY <1>2, ValueTypes DEF TypeOK, Launch, Tasks
  <2>2. Positions' /\ Exclusive' /\ Loops'
    BY <1>2 DEF Launch, Positions, Exclusive, Loops
  <2> QED
    BY <2>1, <2>2
<1>3. CASE Barrier
  <2>1. TypeOK'
    BY <1>3 DEF TypeOK, Barrier, Rows
  <2>2. Positions' /\ Exclusive' /\ Loops'
    BY <1>3 DEF Barrier, AllIdle, Positions, Exclusive, Loops
  <2> QED
    BY <2>1, <2>2
<1>4. CASE Finish
  <2>1. TypeOK'
    BY <1>4 DEF TypeOK, Finish
  <2>2. Positions' /\ Exclusive' /\ Loops'
    BY <1>4 DEF Finish, AllIdle, Positions, Exclusive, Loops
  <2> QED
    BY <2>1, <2>2
<1>5. ASSUME NEW th \in Threads, ClaimTask(th) PROVE RaceInv'
  <2> DEFINE c == request
  <2>1. PICK task \in pending :
          /\ pending' = pending \ {task}
          /\ at' = [at EXCEPT ![th] = At(task, StartRow(c, task), StartTree(c, task), 0, 0)]
    BY <1>5 DEF ClaimTask
  <2>2. phase = "infer" /\ pc[th] = "idle" /\ task \in Tasks(c)
        /\ UNCHANGED <<request, phase, workspace, output, reg>>
    BY <1>5 DEF ClaimTask, Loops
  <2>3. Accepted(c) /\ NumComp(c) \in Nat \ {0}
    BY <2>2, RequestAccepted, Sizes DEF Accepted
  <2>4. pc' = [pc EXCEPT ![th] = "evaluate"]
    BY <1>5, <2>1, <2>2, <2>3, TaskBounds DEF ClaimTask
  <2>5. /\ task \in Nat /\ StartRow(c, task) \in Nat /\ StartTree(c, task) \in Nat
        /\ StartRow(c, task) \in StartRow(c, task) .. (EndRow(c, task) - 1)
        /\ StartTree(c, task) \in StartTree(c, task) .. (EndTree(c, task) - 1)
    BY <2>2, <2>3, TaskRange, TaskBounds DEF Rows, Trees
  <2>6. /\ at'[th].task = task /\ at'[th].row = StartRow(c, task)
        /\ at'[th].tree = StartTree(c, task) /\ at'[th].comp = 0
        /\ \A other \in Threads \ {th} : at'[other] = at[other] /\ pc'[other] = pc[other]
        /\ pc'[th] = "evaluate"
    BY <2>1, <2>4 DEF TypeOK, At
  <2>7. TypeOK'
    BY <2>1, <2>2, <2>4, <2>5 DEF TypeOK, At, Position
  <2>8. Positions'
    BY <2>1, <2>2, <2>3, <2>5, <2>6 DEF Positions
  <2>9. Exclusive'
    BY <2>1, <2>2, <2>6 DEF Positions, Exclusive
  <2>10. Loops'
    BY <2>1, <2>2 DEF Loops
  <2> QED
    BY <2>7, <2>8, <2>9, <2>10
<1>6. ASSUME NEW th \in Threads, Evaluate(th) PROVE RaceInv'
  <2>1. pc[th] = "evaluate"
        /\ TargetSlot(request, at[th]) \in 0 .. (WorkspaceSize(request) - 1)
        /\ phase = "infer"
    BY <1>6, TargetRange DEF Evaluate
  <2>2. workspace \in [0 .. (WorkspaceSize(request) - 1) -> Value]
    BY <2>1, RequestAccepted
  <2>3. TypeOK'
    BY <1>6, <2>1, <2>2, ValueTypes DEF TypeOK, Evaluate
  <2>4. Positions' /\ Exclusive' /\ Loops'
    BY <1>6, <2>1 DEF TypeOK, Evaluate, Positions, Exclusive, Loops
  <2> QED
    BY <2>3, <2>4
<1>7. ASSUME NEW th \in Threads, Accumulate(th) PROVE RaceInv'
  <2> DEFINE c == request
             p == at[th]
  <2>1. /\ pc[th] = "accumulate" /\ phase = "infer"
        /\ TargetSlot(c, p) \in 0 .. (WorkspaceSize(c) - 1)
        /\ TreeOutput(c, p) \in Term
    BY <1>7, TargetRange DEF Accumulate
  <2>2. Accepted(c) /\ c \in Call /\ NumComp(c) \in Nat \ {0}
        /\ workspace \in [0 .. (WorkspaceSize(c) - 1) -> Value]
    BY <2>1, RequestAccepted, Sizes DEF Accepted
  <2>3. /\ p.task \in Tasks(c) \ pending
        /\ p.row \in StartRow(c, p.task) .. (EndRow(c, p.task) - 1)
        /\ p.tree \in StartTree(c, p.task) .. (EndTree(c, p.task) - 1)
        /\ p.comp \in 0 .. (NumComp(c) - 1)
        /\ p \in Position
    BY <2>1 DEF Positions, TypeOK
  <2>4. /\ StartRow(c, p.task) \in Nat /\ EndRow(c, p.task) \in Nat
        /\ StartTree(c, p.task) \in Nat /\ EndTree(c, p.task) \in Nat
    BY <2>2, <2>3, TaskBounds DEF Rows, Trees
  <2>5. UNCHANGED <<request, phase, output, pending>>
        /\ workspace' \in [0 .. (WorkspaceSize(c) - 1) -> Value]
        /\ reg' \in [Threads -> Value]
    BY <1>7, <2>1, <2>2, ValueTypes DEF Accumulate, TypeOK
  <2>6. /\ at'[th] \in Position
        /\ at'[th].task = p.task
        /\ at'[th].row \in StartRow(c, p.task) .. (EndRow(c, p.task) - 1)
        /\ at'[th].tree \in StartTree(c, p.task) .. (EndTree(c, p.task) - 1)
        /\ at'[th].comp \in 0 .. (NumComp(c) - 1)
        /\ at' = [at EXCEPT ![th] = at'[th]]
        /\ pc'[th] \in {"evaluate", "idle"}
        /\ pc' = [pc EXCEPT ![th] = pc'[th]]
    <3> DEFINE q1 == At(p.task, p.row, p.tree, p.comp + 1, 0)
               q2 == At(p.task, p.row, p.tree + 1, 0, 0)
               q3 == At(p.task, p.row + 1, StartTree(c, p.task), 0, 0)
    <3>1. \/ /\ p.comp + 1 < NumComp(c)
             /\ at' = [at EXCEPT ![th] = q1] /\ pc' = [pc EXCEPT ![th] = "evaluate"]
          \/ /\ p.comp + 1 = NumComp(c) /\ p.tree + 1 < EndTree(c, p.task)
             /\ at' = [at EXCEPT ![th] = q2] /\ pc' = [pc EXCEPT ![th] = "evaluate"]
          \/ /\ p.comp + 1 = NumComp(c) /\ p.row + 1 < EndRow(c, p.task)
             /\ at' = [at EXCEPT ![th] = q3] /\ pc' = [pc EXCEPT ![th] = "evaluate"]
          \/ at' = at /\ pc' = [pc EXCEPT ![th] = "idle"]
      BY <1>7 DEF Accumulate, Advance
    <3>2. at \in [Threads -> Position]
          /\ DOMAIN pc = Threads
      BY DEF TypeOK
    <3>3. /\ q1.task = p.task /\ q1.row = p.row /\ q1.tree = p.tree /\ q1.comp = p.comp + 1
          /\ q2.task = p.task /\ q2.row = p.row /\ q2.tree = p.tree + 1 /\ q2.comp = 0
          /\ q3.task = p.task /\ q3.row = p.row + 1 /\ q3.tree = StartTree(c, p.task)
          /\ q3.comp = 0
      BY DEF At
    <3>4. q1 \in Position /\ q2 \in Position /\ q3 \in Position
      
      <4>1. /\ p.task \in Nat /\ p.row \in Nat /\ p.tree \in Nat /\ p.comp \in Nat
        BY <2>3, PositionFields
      <4> HIDE DEF p, c
      <4>2. p.row + 1 \in Nat /\ p.tree + 1 \in Nat /\ p.comp + 1 \in Nat /\ 0 \in Nat
        BY <4>1
      <4>3. q1 \in Position
        BY <4>1, <4>2 DEF Position, At
      <4>4. q2 \in Position
        BY <4>1, <4>2, PositionFields
      <4>5. q3 \in Position
        BY <4>1, <4>2, <2>4, PositionFields
      <4> QED
        BY <4>3, <4>4, <4>5
    <3> HIDE DEF q1, q2, q3
    <3>5. CASE p.comp + 1 < NumComp(c) /\ at' = [at EXCEPT ![th] = q1]
               /\ pc' = [pc EXCEPT ![th] = "evaluate"]
      BY <3>2, <3>3, <3>4, <3>5, <2>2, <2>3
    <3>6. CASE p.comp + 1 = NumComp(c) /\ p.tree + 1 < EndTree(c, p.task)
               /\ at' = [at EXCEPT ![th] = q2] /\ pc' = [pc EXCEPT ![th] = "evaluate"]
      BY <3>2, <3>3, <3>4, <3>6, <2>2, <2>3, <2>4
    <3>7. CASE p.comp + 1 = NumComp(c) /\ p.row + 1 < EndRow(c, p.task)
               /\ at' = [at EXCEPT ![th] = q3] /\ pc' = [pc EXCEPT ![th] = "evaluate"]
      
      <4>1. /\ StartTree(c, p.task) \in StartTree(c, p.task) .. (EndTree(c, p.task) - 1)
            /\ p.row + 1 \in StartRow(c, p.task) .. (EndRow(c, p.task) - 1)
            /\ 0 \in 0 .. (NumComp(c) - 1)
        BY <2>2, <2>3, <2>4, <3>7
      <4>2. at'[th] = q3 /\ pc'[th] = "evaluate"
        BY <3>2, <3>7
      <4> QED
        BY <3>3, <3>4, <3>7, <4>1, <4>2
    <3>8. CASE at' = at /\ pc' = [pc EXCEPT ![th] = "idle"]
      BY <3>2, <3>8, <2>3
    <3> QED
      BY <3>1, <3>5, <3>6, <3>7, <3>8 DEF q1, q2, q3
  <2>7. \A other \in Threads \ {th} : at'[other] = at[other] /\ pc'[other] = pc[other]
    BY <2>6 DEF TypeOK
  <2>8. TypeOK'
    BY <2>1, <2>5, <2>6 DEF TypeOK
  <2>9. Positions'
    BY <2>1, <2>3, <2>5, <2>6, <2>7 DEF Positions
  <2>10. Exclusive'
    BY <2>1, <2>6, <2>7 DEF Exclusive
  <2>11. Loops'
    BY <2>5 DEF Loops
  <2> QED
    BY <2>8, <2>9, <2>10, <2>11
<1>8. ASSUME NEW th \in Threads, ClaimRow(th) PROVE RaceInv'
  <2>1. PICK row \in pending :
          /\ pending' = pending \ {row}
          /\ at' = [at EXCEPT ![th] = At(0, row, 0, 0, 0)]
    BY <1>8 DEF ClaimRow
  <2>2. /\ phase = "reduce" /\ pc[th] = "idle" /\ row \in Rows(request)
        /\ pc' = [pc EXCEPT ![th] = "sum"] /\ reg' = [reg EXCEPT ![th] = Zero]
        /\ UNCHANGED <<request, phase, workspace, output>>
    BY <1>8 DEF ClaimRow, Loops
  <2>3. NumOutputs(request) \in Nat \ {0} /\ NumGrove(request) \in Nat \ {0} /\ row \in Nat
    BY <2>2, RequestAccepted, Sizes DEF Accepted, Rows
  <2>4. /\ at'[th].row = row /\ at'[th].comp = 0 /\ at'[th].grove = 0 /\ pc'[th] = "sum"
        /\ \A other \in Threads \ {th} : at'[other] = at[other] /\ pc'[other] = pc[other]
    BY <2>1, <2>2 DEF TypeOK, At
  <2>5. TypeOK'
    BY <2>1, <2>2, <2>3, ValueTypes DEF TypeOK, At, Position
  <2>6. Positions'
    BY <2>1, <2>2, <2>3, <2>4 DEF Positions, Outputs
  <2>7. Exclusive'
    BY <2>1, <2>2, <2>4 DEF Positions, Exclusive
  <2>8. Loops'
    BY <2>1, <2>2 DEF Loops
  <2> QED
    BY <2>5, <2>6, <2>7, <2>8
<1>9. ASSUME NEW th \in Threads, SumGrove(th) PROVE RaceInv'
  <2> DEFINE slot == Slot(request, at[th].row, at[th].comp, at[th].grove)
  <2>1. /\ pc[th] = "sum" /\ at[th].grove < NumGrove(request)
        /\ reg' = [reg EXCEPT ![th] = Plus(@, workspace[slot])]
        /\ at' = [at EXCEPT ![th] = At(0, at[th].row, 0, at[th].comp, at[th].grove + 1)]
        /\ UNCHANGED <<request, phase, workspace, output, pending, pc>>
    BY <1>9 DEF SumGrove
  <2>2. phase = "reduce" /\ at[th].comp \in Outputs(request) /\ at[th].grove \in Nat
    BY <2>1 DEF Positions, TypeOK
  <2>3. Accepted(request) /\ NumGrove(request) \in Nat
        /\ workspace \in [0 .. (WorkspaceSize(request) - 1) -> Value]
    BY <2>2, RequestAccepted, Sizes DEF Accepted
  <2>4. slot \in 0 .. (WorkspaceSize(request) - 1)
    BY <2>1, <2>2, <2>3, ReduceRange
  <2> HIDE DEF slot
  <2>5. /\ at'[th].row = at[th].row /\ at'[th].comp = at[th].comp
        /\ at'[th].grove = at[th].grove + 1
        /\ \A other \in Threads \ {th} : at'[other] = at[other]
    BY <2>1 DEF TypeOK, At
  <2>6. Plus(reg[th], workspace[slot]) \in Value
    BY <2>3, <2>4, ValueTypes DEF TypeOK
  <2>7. TypeOK'
    <3>1. At(0, at[th].row, 0, at[th].comp, at[th].grove + 1) \in Position
      BY <2>2 DEF TypeOK, Position, At
    <3>2. at' \in [Threads -> Position]
      BY <2>1, <3>1 DEF TypeOK
    <3>3. reg' \in [Threads -> Value]
      BY <2>1, <2>6 DEF TypeOK
    <3> QED
      BY <2>1, <2>2, <2>3, <3>2, <3>3 DEF TypeOK
  <2>8. Positions'
    BY <2>1, <2>2, <2>3, <2>5 DEF Positions
  <2>9. Exclusive'
    BY <2>1, <2>5 DEF Exclusive
  <2>10. Loops'
    BY <2>1 DEF Loops
  <2> QED
    BY <2>7, <2>8, <2>9, <2>10
<1>10. ASSUME NEW th \in Threads, StoreSum(th) PROVE RaceInv'
  <2> DEFINE slot == Slot(request, at[th].row, at[th].comp, 0)
             p == at[th]
  <2>1. /\ pc[th] = "sum"
        /\ workspace' = [workspace EXCEPT ![slot] = reg[th]]
        /\ reg' = [reg EXCEPT ![th] = Zero]
        /\ UNCHANGED <<request, phase, output, pending>>
    BY <1>10 DEF StoreSum
  <2>2. /\ phase = "reduce" /\ p.comp \in Outputs(request)
        /\ p \in Position
    BY <2>1 DEF Positions, TypeOK
  <2>3. /\ NumGrove(request) \in Nat /\ NumOutputs(request) \in Nat
        /\ workspace \in [0 .. (WorkspaceSize(request) - 1) -> Value]
    BY <2>2, RequestAccepted, Sizes DEF Accepted
  <2>4. \/ /\ p.comp + 1 < NumOutputs(request) /\ pc' = pc
           /\ at' = [at EXCEPT ![th] = At(0, p.row, 0, p.comp + 1, 0)]
        \/ at' = at /\ pc' = [pc EXCEPT ![th] = "postprocess"]
    BY <1>10 DEF StoreSum
  <2>5. /\ at'[th].row = p.row /\ at'[th].comp \in Outputs(request)
        /\ at'[th].grove \in 0 .. NumGrove(request)
        /\ at'[th] \in Position
        /\ at' = [at EXCEPT ![th] = at'[th]]
        /\ pc'[th] \in {"sum", "postprocess"}
        /\ pc' = [pc EXCEPT ![th] = pc'[th]]
    <3>1. at \in [Threads -> Position]
          /\ pc \in [Threads -> {"absent", "idle", "evaluate", "accumulate", "sum", "postprocess"}]
          /\ p.grove \in 0 .. NumGrove(request)
      BY <2>1 DEF TypeOK, Positions
    <3> DEFINE q == At(0, p.row, 0, p.comp + 1, 0)
    <3>2. q \in Position /\ q.row = p.row /\ q.comp = p.comp + 1 /\ q.grove = 0
      BY <2>2 DEF Position, At
    <3> HIDE DEF q
    <3>3. CASE p.comp + 1 < NumOutputs(request) /\ pc' = pc /\ at' = [at EXCEPT ![th] = q]
      <4>1. p.comp + 1 \in Outputs(request) /\ 0 \in 0 .. NumGrove(request)
        BY <2>2, <2>3, <3>3 DEF Outputs
      <4>2. at'[th] = q /\ pc' = [pc EXCEPT ![th] = pc'[th]] /\ pc'[th] = "sum"
        BY <2>1, <3>1, <3>3
      <4> QED
        BY <3>2, <3>3, <4>1, <4>2
    <3>4. CASE at' = at /\ pc' = [pc EXCEPT ![th] = "postprocess"]
      BY <2>1, <2>2, <2>3, <3>1, <3>4
    <3> QED
      BY <2>4, <3>3, <3>4 DEF q
  <2>6. \A other \in Threads \ {th} : at'[other] = at[other] /\ pc'[other] = pc[other]
    BY <2>5 DEF TypeOK
  <2>7. TypeOK'
    BY <2>1, <2>2, <2>3, <2>5, ValueTypes DEF TypeOK
  <2>8. Positions'
    BY <2>1, <2>2, <2>5, <2>6 DEF Positions
  <2>9. Exclusive'
    BY <2>1, <2>5, <2>6 DEF Exclusive
  <2>10. Loops'
    BY <2>1 DEF Loops
  <2> QED
    BY <2>7, <2>8, <2>9, <2>10
<1>11. ASSUME NEW th \in Threads, PostProcess(th) PROVE RaceInv'
  <2> DEFINE row == at[th].row
             base == OutputIndex(request, row, 0)
  <2>1. /\ pc[th] = "postprocess" /\ pc' = [pc EXCEPT ![th] = "idle"]
        /\ UNCHANGED <<request, phase, pending, at, reg>>
    BY <1>11 DEF PostProcess
  <2>2. phase = "reduce" /\ row \in Rows(request)
    BY <2>1, ReduceRange
  <2>3. /\ Accepted(request) /\ request \in Call
        /\ workspace \in [0 .. (WorkspaceSize(request) - 1) -> Value]
        /\ NumOutputs(request) \in Nat \ {0} /\ NumGrove(request) \in Nat \ {0}
    BY <2>2, RequestAccepted, Sizes DEF Accepted
  <2>4. workspace' \in [0 .. (WorkspaceSize(request) - 1) -> Value]
    BY <1>11, <2>3, ValueTypes DEF PostProcess
  <2>5. ASSUME NEW i \in DOMAIN output, NEW o \in Outputs(request),
               i = OutputIndex(request, row, o)
        PROVE  /\ i - base = o
               /\ Slot(request, row, i - base, 0) \in 0 .. (WorkspaceSize(request) - 1)
    <3>1. row \in Nat /\ o \in Nat /\ 0 \in Outputs(request) /\ 0 \in 0 .. (NumGrove(request) - 1)
      BY <2>2, <2>3, CallFields DEF Rows, Outputs
    <3>2. i = row * NumOutputs(request) + o /\ base = row * NumOutputs(request) + 0
      BY <2>2, <2>3, <2>5, <3>1, OutputIndexExact
    <3>3. row * NumOutputs(request) \in Nat
      BY <2>3, <3>1, MulNat
    <3>4. i - base = o
      BY <3>1, <3>2, <3>3
    <3> QED
      BY <2>1, <3>1, <3>4, ReduceRange
  <2>6. output' \in [0 .. (request.row_count * NumOutputs(request) - 1) -> Value]
    <3>1. output \in [0 .. (request.row_count * NumOutputs(request) - 1) -> Value]
      BY DEF TypeOK
    <3>2. output' = [i \in DOMAIN output |->
                      IF \E o \in Outputs(request) : i = OutputIndex(request, row, o)
                      THEN Transform(workspace[Slot(request, row, i - base, 0)])
                      ELSE output[i]]
      BY <1>11 DEF PostProcess
    <3>3. ASSUME NEW i \in DOMAIN output PROVE output'[i] \in Value
      <4>1. CASE \E o \in Outputs(request) : i = OutputIndex(request, row, o)
        <5>1. Slot(request, row, i - base, 0) \in 0 .. (WorkspaceSize(request) - 1)
          BY <4>1, <2>5
        <5> QED
          BY <4>1, <5>1, <2>3, <3>2, ValueTypes
      <4> QED
        BY <4>1, <3>1, <3>2
    <3> QED
      BY <3>1, <3>2, <3>3
  <2>7. TypeOK'
    BY <2>1, <2>2, <2>4, <2>6 DEF TypeOK
  <2>8. Positions' /\ Exclusive' /\ Loops'
    BY <2>1, <2>2 DEF TypeOK, Positions, Exclusive, Loops
  <2> QED
    BY <2>7, <2>8
<1>12. CASE UNCHANGED vars
  BY <1>12 DEF vars, TypeOK, Positions, Exclusive, Loops
<1>13. CASE Over
  BY <1>12, <1>13 DEF Over
<1> QED
  BY <1>1, <1>2, <1>3, <1>4, <1>5, <1>6, <1>7, <1>8, <1>9, <1>10, <1>11, <1>12, <1>13
     DEF Next, Step

(* Where threads are keeps the elements they hold apart: distinct tasks have
   distinct groves or distinct row chunks, distinct rows distinct elements. *)
LEMMA RaceInvNoRace ==
  ASSUME \A c \in Calls : Representable(c), RaceInv
  PROVE  NoRace
<1> SUFFICES ASSUME NEW th1 \in Threads, NEW th2 \in Threads, th1 # th2,
                    NEW slot, slot \in Held(th1), slot \in Held(th2)
             PROVE  FALSE
  BY DEF NoRace
<1> DEFINE c == request
           First(th)  == pc[th] \in {"evaluate", "accumulate"}
           Second(th) == pc[th] \in {"sum", "postprocess"}
<1>1. (First(th1) \/ Second(th1)) /\ (First(th2) \/ Second(th2))
  BY DEF Held
<1>2. \A th \in Threads : (First(th) => phase = "infer") /\ (Second(th) => phase = "reduce")
  BY DEF RaceInv, Positions
<1>3. Accepted(c) /\ NumGrove(c) \in Nat \ {0}
  BY <1>1, <1>2, RequestAccepted, Sizes DEF Accepted
<1>4. CASE First(th1) /\ First(th2)
  <2> DEFINE p1 == at[th1]
             p2 == at[th2]
  <2>1. /\ p1.row \in Rows(c) /\ p2.row \in Rows(c)
        /\ OutputOf(c, p1.tree, p1.comp) \in Outputs(c)
        /\ OutputOf(c, p2.tree, p2.comp) \in Outputs(c)
        /\ GroveOf(c, p1.task) \in 0 .. (NumGrove(c) - 1)
        /\ GroveOf(c, p2.task) \in 0 .. (NumGrove(c) - 1)
        /\ p1.task \in Tasks(c) /\ p2.task \in Tasks(c)
    BY <1>4, TargetRange
  <2>2. /\ slot = Slot(c, p1.row, OutputOf(c, p1.tree, p1.comp), GroveOf(c, p1.task))
        /\ slot = Slot(c, p2.row, OutputOf(c, p2.tree, p2.comp), GroveOf(c, p2.task))
    BY <1>4 DEF Held, TargetSlot
  <2>3. p1.row = p2.row /\ GroveOf(c, p1.task) = GroveOf(c, p2.task)
    <3> DEFINE o1 == OutputOf(c, p1.tree, p1.comp)
               o2 == OutputOf(c, p2.tree, p2.comp)
               g1 == GroveOf(c, p1.task)
               g2 == GroveOf(c, p2.task)
    <3>1. /\ p1.row \in Rows(c) /\ o1 \in Outputs(c) /\ g1 \in 0 .. (NumGrove(c) - 1)
          /\ p2.row \in Rows(c) /\ o2 \in Outputs(c) /\ g2 \in 0 .. (NumGrove(c) - 1)
          /\ Slot(c, p1.row, o1, g1) = Slot(c, p2.row, o2, g2)
      BY <2>1, <2>2
    <3> HIDE DEF o1, o2, g1, g2, c, p1, p2
    <3>2. p1.row = p2.row /\ g1 = g2
      BY <1>3, <3>1, SlotUnique
    <3> QED
      BY <3>2 DEF g1, g2
  <2>4. /\ p1.row \in StartRow(c, p1.task) .. (EndRow(c, p1.task) - 1)
        /\ p2.row \in StartRow(c, p2.task) .. (EndRow(c, p2.task) - 1)
        /\ p1.task # p2.task
    BY <1>4 DEF RaceInv, Positions, Exclusive
  <2> QED
    BY <1>3, <2>1, <2>3, <2>4, TaskUnique
<1>5. CASE Second(th1) /\ Second(th2)
  <2>1. \A th \in {th1, th2} : \E o \in Outputs(c), g \in 0 .. (NumGrove(c) - 1) :
          slot = Slot(c, at[th].row, o, g)
    <3>1. 0 \in 0 .. (NumGrove(c) - 1)
      BY <1>3
    <3>2. \A th \in {th1, th2} : at[th].comp \in Outputs(c)
      BY <1>5 DEF RaceInv, Positions
    <3> QED
      BY <1>5, <3>1, <3>2 DEF Held
  <2>2. at[th1].row # at[th2].row /\ at[th1].row \in Rows(c) /\ at[th2].row \in Rows(c)
    BY <1>5, ReduceRange DEF RaceInv, Exclusive
  <2> QED
    BY <1>3, <2>1, <2>2, SlotUnique
<1> QED
  BY <1>1, <1>2, <1>4, <1>5

-----------------------------------------------------------------------------
(* Theorems *)

(* The inductive invariant holds in every reachable state of every call that
   is Representable: threads stay inside the iterations they claimed. *)
THEOREM RaceInvariant ==
  ASSUME \A c \in Calls : Representable(c)
  PROVE  Spec => []RaceInv
<1>1. Init => RaceInv
  BY RaceInvInit
<1>2. RaceInv /\ [Next]_vars => RaceInv'
  BY RaceInvStep
<1> QED
  BY <1>1, <1>2, PTL DEF Spec

(* The kernel's data keep the shape the code gives them. *)
THEOREM TypeCorrect ==
  ASSUME \A c \in Calls : Representable(c)
  PROVE  Spec => []TypeOK
<1>1. RaceInv => TypeOK
  BY DEF RaceInv
<1> QED
  BY <1>1, RaceInvariant, PTL

(* Every workspace access is inside the vector allocated at cpu.hpp:121, for
   every size the guard of cpu.hpp:104-119 lets through. *)
THEOREM AccessInBounds ==
  ASSUME \A c \in Calls : Representable(c)
  PROVE  Spec => []InBounds
<1>1. RaceInv => InBounds
  <2> SUFFICES ASSUME RaceInv, NEW th \in Threads, NEW slot \in Held(th)
               PROVE  slot \in DOMAIN workspace
    BY DEF InBounds
  <2>1. phase \notin {"called", "refused"} => DOMAIN workspace = 0 .. (WorkspaceSize(request) - 1)
    BY RequestAccepted
  <2>2. CASE pc[th] \in {"evaluate", "accumulate"}
    BY <2>1, <2>2, TargetRange DEF Held
  <2>3. CASE pc[th] = "sum"
    <3>1. phase = "reduce" /\ at[th].comp \in Outputs(request)
      BY <2>3 DEF RaceInv, Positions
    <3> QED
      BY <2>1, <2>3, <3>1, ReduceRange DEF Held
  <2>4. CASE pc[th] = "postprocess"
    <3>1. phase = "reduce" /\ 0 \in 0 .. (NumGrove(request) - 1)
      BY <2>4, ReduceRange, RequestAccepted, Sizes DEF Accepted
    <3> QED
      BY <2>1, <2>4, <3>1, ReduceRange DEF Held
  <2> QED
    BY <2>2, <2>3, <2>4 DEF Held
<1> QED
  BY <1>1, RaceInvariant, PTL

(* No two threads ever hold the same workspace element: distinct tasks have
   distinct groves or distinct row chunks, distinct rows have distinct
   elements, and the barrier of cpu.hpp:175 keeps the loops apart. *)
THEOREM RaceFreedom ==
  ASSUME \A c \in Calls : Representable(c)
  PROVE  Spec => []NoRace
<1>1. RaceInv => NoRace
  BY RaceInvNoRace
<1> QED
  BY <1>1, RaceInvariant, PTL
-----------------------------------------------------------------------------
(* The size guard *)

(* Nothing has happened yet in a call that was not accepted. *)
RefusalInv ==
  /\ request \in Calls
  /\ phase \in {"called", "refused"} =>
       /\ \A th \in Threads : pc[th] = "absent"
       /\ \A i \in DOMAIN output : output[i] = Zero
  /\ phase = "refused" => request.row_count > MaxNumRow(request)

(* The bound is the largest row count whose indexes fit, less 3 at most. *)
LEMMA GuardTight ==
  ASSUME NEW c \in Call, c.row_count > MaxNumRow(c)
  PROVE  (c.row_count + 3) * NumOutputs(c) * NumGrove(c) >= IndexMod
<1> DEFINE n == NumOutputs(c)
           g == NumGrove(c)
           k == n * g
           m == IndexMod - 1
           rows == c.row_count + 3
<1>1. n \in Nat \ {0} /\ g \in Nat \ {0} /\ c.row_count \in Nat /\ rows \in Nat
  BY CallFields, Sizes
<1>2. k \in Nat \ {0} /\ m \in Nat /\ IndexMod = m + 1
  BY <1>1, IndexModAssumption
<1>3. c.row_count > IF m \div k >= 3 THEN m \div k - 3 ELSE m \div k
  BY DEF MaxNumRow
<1>4. rows * n * g = rows * k
  <2> HIDE DEF n, g, rows
  <2> QED
    BY <1>1
<1> HIDE DEF k, m
<1>5. m \div k \in Nat /\ m % k \in 0 .. (k - 1) /\ m = (m \div k) * k + (m % k)
  BY <1>2, DivMod
<1>6. m \div k < rows
  BY <1>1, <1>3, <1>5
<1> HIDE DEF rows
<1>7. (m \div k) * k + (m % k) < rows * k
  <2> DEFINE q == m \div k
             r == m % k
  <2>1. k \in Nat /\ q \in Nat /\ r \in Nat /\ r < k /\ q < rows
    BY <1>2, <1>5, <1>6
  <2> HIDE DEF q, r
  <2>2. q * k + r < rows * k
    BY <1>1, <2>1, BlockOrder
  <2> QED
    BY <2>2 DEF q, r
<1>8. rows * k \in Nat
  BY <1>1, <1>2, MulNat
<1> QED
  BY <1>2, <1>4, <1>5, <1>7, <1>8 DEF rows, n, g

(* The output is untouched at first. *)
LEMMA RefusalInitial == Init => RefusalInv
  BY DEF Init, RefusalInv

(* Every step keeps it: only the threads of an accepted request write. *)
LEMMA RefusalInductive == RefusalInv /\ [Next]_vars => RefusalInv'
<1> SUFFICES ASSUME RefusalInv, [Next]_vars PROVE RefusalInv'
  OBVIOUS
<1>1. CASE Refuse
  BY <1>1 DEF Refuse, RefusalInv, MaxNumRow
<1>2. CASE Launch
  BY <1>2 DEF Launch, RefusalInv
<1>3. CASE Barrier \/ Finish
  BY <1>3 DEF Barrier, Finish, RefusalInv
<1>4. CASE Over \/ UNCHANGED vars
  BY <1>4 DEF Over, vars, RefusalInv
<1>5. ASSUME NEW th \in Threads, Step(th) PROVE RefusalInv'
  <2>1. pc[th] # "absent" /\ phase' = phase /\ request' = request
    BY <1>5 DEF Step, ClaimTask, Evaluate, Accumulate, ClaimRow, SumGrove, StoreSum, PostProcess
  <2>2. phase \notin {"called", "refused"}
    BY <2>1 DEF RefusalInv
  <2> QED
    BY <2>1, <2>2 DEF RefusalInv
<1> QED
  BY <1>1, <1>2, <1>3, <1>4, <1>5 DEF Next

(* A refused call has left the output alone, and its indexes would not have
   fitted with 3 more rows: infer_kernel/cpu.hpp:104-119.  Nothing about the
   sizes is assumed. *)
THEOREM RefusalJustified == Spec => []RefusedOnlyIfLarge
<1>1. RefusalInv => RefusedOnlyIfLarge
  <2> SUFFICES ASSUME RefusalInv, phase = "refused"
               PROVE  /\ \A i \in DOMAIN output : output[i] = Zero
                      /\ (request.row_count + 3) * NumOutputs(request) * NumGrove(request)
                           >= IndexMod
    BY DEF RefusedOnlyIfLarge
  <2>1. request \in Call
    BY CallsAssumption DEF RefusalInv
  <2> QED
    BY <2>1, GuardTight DEF RefusalInv
<1> QED
  BY <1>1, RefusalInitial, RefusalInductive, PTL DEF Spec

-----------------------------------------------------------------------------
(***************************************************************************)
(* Results.  What the kernel writes is what ForestInference promises, in   *)
(* the same order under every schedule: SumInv, which says what every      *)
(* element has added up so far, is carried through both loops.             *)
(***************************************************************************)

-----------------------------------------------------------------------------
(* The terms of an output *)

LeafTerm(c, row, tree, comp) == [offset |-> row * c.col_count, tree |-> tree, comp |-> comp]

(* The terms of output out are the components that go to it. *)
LEMMA TermsOfOutput ==
  ASSUME NEW c \in Call, NEW row \in Rows(c), NEW out \in Outputs(c), NEW t
  PROVE  t \in Promise!Contributions(c, row, out)
           <=> \E tree \in Trees(c), comp \in 0 .. (NumComp(c) - 1) :
                 t = LeafTerm(c, row, tree, comp) /\ OutputOf(c, tree, comp) = out
<1> DEFINE n == c.default_num_outputs
           m == c.num_tree
<1>1. n \in Nat \ {0} /\ m \in Nat \ {0} /\ c.has_vector_leaves \in BOOLEAN
      /\ c.infer_type \in {"default", "per_tree", "leaf_id"}
  BY CallFields DEF InferKind
<1> USE DEF Promise!Contributions, Promise!Trees, LeafTerm, Trees, OutputOf, NumComp
<1>2. CASE c.infer_type = "leaf_id"
  <2>1. out \in 0 .. (m - 1)
    BY <1>2 DEF Outputs, NumOutputs
  <2> QED
    BY <1>1, <1>2, <2>1
<1>3. CASE c.infer_type = "per_tree" /\ c.has_vector_leaves
  <2>1. out \in 0 .. (m * n - 1)
    BY <1>3 DEF Outputs, NumOutputs
  <2> DEFINE q == out \div n
             r == out % n
  <2>2. q \in Nat /\ r \in 0 .. (n - 1) /\ out = q * n + r
    <3> HIDE DEF m, n
    <3>1. m * n \in Nat
      BY <1>1, MulNat
    <3>2. out \in Nat
      BY <2>1, <3>1
    <3> QED
      BY <1>1, <3>2, DivMod
  <2>3. q < m
    <3> HIDE DEF m, n, q, r
    <3>1. m * n \in Nat /\ q * n \in Nat /\ out < m * n
      BY <1>1, <2>1, <2>2, MulNat
    <3>2. SUFFICES ASSUME m <= q PROVE FALSE
      BY <1>1, <2>2
    <3>3. m * n <= q * n
      BY <1>1, <2>2, <3>2, MulMono
    <3> QED
      BY <1>1, <2>2, <3>1, <3>3
  <2>4. \A tree \in 0 .. (m - 1), comp \in 0 .. (n - 1) :
          comp + tree * n = out <=> tree = q /\ comp = r
    <3> HIDE DEF m, n, q, r
    <3> TAKE tree \in 0 .. (m - 1), comp \in 0 .. (n - 1)
    <3>1. tree \in Nat /\ comp \in Nat /\ comp < n /\ tree * n \in Nat /\ q * n \in Nat
      BY <1>1, <2>2, MulNat
    <3>2. ASSUME comp + tree * n = out PROVE tree = q /\ comp = r
      <4>1. tree * n + comp = q * n + r
        BY <2>2, <3>1, <3>2
      <4> QED
        BY <1>1, <2>2, <3>1, <4>1, BlockUnique
    <3>3. tree = q /\ comp = r => comp + tree * n = out
      BY <2>2, <3>1
    <3> QED
      BY <3>2, <3>3
  <2>5. q \in 0 .. (m - 1)
    BY <1>1, <2>2, <2>3
  <2>6. Promise!Contributions(c, row, out) = {LeafTerm(c, row, q, r)}
    BY <1>3
  <2>7. \A tree, comp : OutputOf(c, tree, comp) = comp + tree * n
    BY <1>3
  <2>8. NumComp(c) = n /\ Trees(c) = 0 .. (m - 1)
    BY <1>3
  <2> HIDE DEF q, r, m, n, Promise!Contributions, LeafTerm, Trees, OutputOf, NumComp
  <2> QED
    BY <2>2, <2>4, <2>5, <2>6, <2>7, <2>8
<1>4. CASE c.infer_type = "per_tree" /\ ~c.has_vector_leaves
  <2>1. out \in 0 .. (m - 1)
    BY <1>4 DEF Outputs, NumOutputs
  <2> QED
    BY <1>1, <1>4, <2>1
<1>5. CASE c.infer_type = "default" /\ c.has_vector_leaves
  <2>1. out \in 0 .. (n - 1)
    BY <1>5 DEF Outputs, NumOutputs
  <2> QED
    BY <1>1, <1>5, <2>1
<1>6. CASE c.infer_type = "default" /\ ~c.has_vector_leaves
  BY <1>1, <1>6
<1> QED
  BY <1>1, <1>2, <1>3, <1>4, <1>5, <1>6

(* What a term of an output is, and that no tree has two in it. *)
LEMMA TermFields ==
  ASSUME NEW c \in Call, NEW row \in Rows(c), NEW out \in Outputs(c),
         NEW t \in Promise!Contributions(c, row, out)
  PROVE  /\ t.tree \in Trees(c)
         /\ t.comp \in 0 .. (NumComp(c) - 1)
         /\ t = LeafTerm(c, row, t.tree, t.comp)
         /\ OutputOf(c, t.tree, t.comp) = out
         /\ \A u \in Promise!Contributions(c, row, out) : u.tree = t.tree => u = t
<1>1. \A u \in Promise!Contributions(c, row, out) :
        /\ u.tree \in Trees(c) /\ u.comp \in 0 .. (NumComp(c) - 1)
        /\ u = LeafTerm(c, row, u.tree, u.comp) /\ OutputOf(c, u.tree, u.comp) = out
  BY TermsOfOutput DEF LeafTerm
<1> QED
  BY <1>1, ComponentUnique

-----------------------------------------------------------------------------
(* Values *)

(* Adds element by element. *)
LEMMA AddsMembers ==
  ASSUME NEW v, NEW S
  PROVE  Adds(v, S) <=> /\ v.post = 0
                        /\ \A k \in 1 .. Len(v.sum) : v.sum[k] \in S
                        /\ \A t \in S : \E k \in 1 .. Len(v.sum) : v.sum[k] = t
                        /\ InOrder(v)
<1> DEFINE D == 1 .. Len(v.sum)
<1>1. {v.sum[k] : k \in D} = S
        <=> /\ \A k \in D : v.sum[k] \in S
            /\ \A t \in S : \E k \in D : v.sum[k] = t
  <2> HIDE DEF D
  <2> QED
    OBVIOUS
<1> QED
  BY <1>1 DEF Adds

(* Zero is the sum of nothing. *)
LEMMA ZeroAdds == Adds(Zero, {})
  BY DEF Adds, Zero, InOrder

(* A term of a later tree is added at the end. *)
LEMMA TermAdded ==
  ASSUME NEW v \in Value, NEW S, Adds(v, S), NEW t \in Term,
         \A s \in S : s.tree < t.tree
  PROVE  Adds(AddTerm(v, t), S \cup {t})
<1> DEFINE s == v.sum
           w == Append(s, t)
           n == Len(s)
<1>1. /\ s \in Seq(Term) /\ v.post = 0
      /\ \A k \in 1 .. n : s[k] \in S
      /\ \A u \in S : \E k \in 1 .. n : s[k] = u
      /\ \A j, k \in 1 .. n : j < k => s[j].tree < s[k].tree
  BY AddsMembers DEF Value, InOrder
<1>2. AddTerm(v, t).sum = w /\ AddTerm(v, t).post = 0
  BY <1>1 DEF AddTerm
<1> HIDE DEF s
<1>3. n \in Nat /\ Len(w) = n + 1 /\ w[n + 1] = t /\ \A k \in 1 .. n : w[k] = s[k]
  BY <1>1
<1> HIDE DEF n, w
<1>4. \A k \in 1 .. (n + 1) : w[k] \in S \cup {t}
  BY <1>1, <1>3
<1>5. \A u \in S \cup {t} : \E k \in 1 .. (n + 1) : w[k] = u
  <2>1. ASSUME NEW u \in S PROVE \E k \in 1 .. (n + 1) : w[k] = u
    <3>1. PICK k \in 1 .. n : s[k] = u
      BY <1>1
    <3> QED
      BY <1>3, <3>1
  <2>2. n + 1 \in 1 .. (n + 1)
    BY <1>3
  <2> QED
    BY <1>3, <2>1, <2>2
<1>6. \A j, k \in 1 .. (n + 1) : j < k => w[j].tree < w[k].tree
  <2> SUFFICES ASSUME NEW j \in 1 .. (n + 1), NEW k \in 1 .. (n + 1), j < k
               PROVE  w[j].tree < w[k].tree
    OBVIOUS
  <2>1. CASE k = n + 1
    BY <1>1, <1>3, <2>1
  <2>2. CASE k \in 1 .. n
    BY <1>1, <1>3, <2>2
  <2> QED
    BY <1>3, <2>1, <2>2
<1> DEFINE r == AddTerm(v, t)
<1>7. r.post = 0 /\ r.sum = w /\ Len(r.sum) = n + 1
  BY <1>2, <1>3
<1> HIDE DEF r
<1>8. Adds(r, S \cup {t})
  BY <1>4, <1>5, <1>6, <1>7, AddsMembers DEF InOrder
<1> QED
  BY <1>8 DEF r

(* A sum of later trees is added behind. *)
LEMMA SumAdded ==
  ASSUME NEW v \in Value, NEW w \in Value, NEW S, NEW T, Adds(v, S), Adds(w, T),
         \A s \in S, t \in T : s.tree < t.tree
  PROVE  Adds(Plus(v, w), S \cup T)
<1> DEFINE a == v.sum
           b == w.sum
           m == Len(a)
           n == Len(b)
           u == a \o b
<1>1. /\ a \in Seq(Term) /\ v.post = 0
      /\ \A k \in 1 .. m : a[k] \in S
      /\ \A x \in S : \E k \in 1 .. m : a[k] = x
      /\ \A j, k \in 1 .. m : j < k => a[j].tree < a[k].tree
  BY AddsMembers DEF Value, InOrder
<1>2. /\ b \in Seq(Term) /\ w.post = 0
      /\ \A k \in 1 .. n : b[k] \in T
      /\ \A x \in T : \E k \in 1 .. n : b[k] = x
      /\ \A j, k \in 1 .. n : j < k => b[j].tree < b[k].tree
  BY AddsMembers DEF Value, InOrder
<1>3. Plus(v, w).sum = u /\ Plus(v, w).post = 0
  <2>1. v.post = 0 /\ w.post = 0
    BY <1>1, <1>2
  <2>2. Plus(v, w).sum = u
    BY DEF Plus
  <2>3. Plus(v, w).post = 0
    BY <2>1 DEF Plus
  <2> QED
    BY <2>2, <2>3
<1> HIDE DEF a, b
<1>4. /\ m \in Nat /\ n \in Nat /\ Len(u) = m + n
      /\ \A k \in 1 .. m : u[k] = a[k]
  BY <1>1, <1>2
<1>5. \A k \in 1 .. (m + n) : k > m => k - m \in 1 .. n /\ u[k] = b[k - m]
  BY <1>1, <1>2
<1> HIDE DEF m, n, u
<1>6. \A k \in 1 .. (m + n) : \/ k \in 1 .. m /\ u[k] = a[k]
                              \/ k > m /\ k - m \in 1 .. n /\ u[k] = b[k - m]
  BY <1>4, <1>5
<1>7. \A k \in 1 .. (m + n) : u[k] \in S \cup T
  BY <1>1, <1>2, <1>6
<1>8. \A x \in S \cup T : \E k \in 1 .. (m + n) : u[k] = x
  <2>1. ASSUME NEW x \in S PROVE \E k \in 1 .. (m + n) : u[k] = x
    <3>1. PICK k \in 1 .. m : a[k] = x
      BY <1>1
    <3> QED
      BY <1>4, <3>1
  <2>2. ASSUME NEW x \in T PROVE \E k \in 1 .. (m + n) : u[k] = x
    <3>1. PICK k \in 1 .. n : b[k] = x
      BY <1>2
    <3>2. m + k \in 1 .. (m + n) /\ m + k > m /\ (m + k) - m = k
      BY <1>4, <3>1
    <3> QED
      BY <1>5, <3>1, <3>2
  <2> QED
    BY <2>1, <2>2
<1>9. \A j, k \in 1 .. (m + n) : j < k => u[j].tree < u[k].tree
  <2> SUFFICES ASSUME NEW j \in 1 .. (m + n), NEW k \in 1 .. (m + n), j < k
               PROVE  u[j].tree < u[k].tree
    OBVIOUS
  <2>1. CASE k \in 1 .. m
    <3>1. j \in 1 .. m
      BY <1>4, <2>1
    <3> QED
      BY <1>1, <1>4, <2>1, <3>1
  <2>2. CASE k > m /\ j \in 1 .. m
    BY <1>1, <1>2, <1>4, <1>5, <2>2
  <2>3. CASE k > m /\ j > m
    <3>1. j - m \in 1 .. n /\ k - m \in 1 .. n /\ u[j] = b[j - m] /\ u[k] = b[k - m]
      BY <1>5, <2>3
    <3>2. j - m < k - m
      BY <1>4
    <3> QED
      BY <1>2, <3>1, <3>2
  <2> QED
    BY <1>4, <2>1, <2>2, <2>3
<1> DEFINE r == Plus(v, w)
<1>10. r.post = 0 /\ r.sum = u /\ Len(r.sum) = m + n
  BY <1>3, <1>4
<1> HIDE DEF r
<1>11. Adds(r, S \cup T)
  BY <1>7, <1>8, <1>9, <1>10, AddsMembers DEF InOrder
<1> QED
  BY <1>11 DEF r

(* A complete sum is a result once it is postprocessed. *)
LEMMA ResultOfSum ==
  ASSUME NEW c, NEW row, NEW out, NEW v \in Value,
         Adds(v, Promise!Contributions(c, row, out)),
         \A t \in Promise!Contributions(c, row, out) : t.tree \in Int
  PROVE  Promise!IsResult(Transform(v), c, row, out) /\ InOrder(Transform(v))
<1>1. Transform(v).sum = v.sum /\ Transform(v).post = 1
  BY DEF Transform, Value, Adds
<1>2. InOrder(Transform(v))
  BY <1>1 DEF Adds, InOrder
<1>3. Len(v.sum) \in Nat
  BY DEF Value
<1>4. \A j, k \in 1 .. Len(v.sum) : v.sum[j] = v.sum[k] => j = k
  <2> SUFFICES ASSUME NEW j \in 1 .. Len(v.sum), NEW k \in 1 .. Len(v.sum), j < k
               PROVE  v.sum[j] # v.sum[k]
    BY <1>3
  <2>1. v.sum[j].tree < v.sum[k].tree /\ v.sum[j].tree \in Int
    BY AddsMembers DEF InOrder
  <2> QED
    BY <2>1
<1> QED
  BY <1>1, <1>2, <1>4 DEF Adds, Promise!IsResult, Promise!IsSumOf

-----------------------------------------------------------------------------
(* Tasks cover the rows and trees *)

(* A tree belongs to the grove of the task that has it, and to no task of
   another grove. *)
LEMMA TaskTrees ==
  ASSUME NEW c, Accepted(c), NEW task \in Tasks(c), NEW tree \in Trees(c)
  PROVE  tree \in StartTree(c, task) .. (EndTree(c, task) - 1)
           <=> tree \div c.grove_size = GroveOf(c, task)
<1> DEFINE h == GroveOf(c, task)
           gs == c.grove_size
           q == tree \div gs
           r == tree % gs
<1>1. gs \in Nat \ {0} /\ h \in Nat /\ tree \in Nat /\ tree < c.num_tree /\ c.num_tree \in Nat
  BY CallFields, TaskRange DEF Accepted, Trees
<1>2. StartTree(c, task) = h * gs /\ EndTree(c, task) = Least(h * gs + gs, c.num_tree)
  BY TaskBounds
<1>3. q \in Nat /\ r \in 0 .. (gs - 1) /\ tree = q * gs + r
  BY <1>1, DivMod
<1> HIDE DEF h, gs, r
<1>4. h * gs \in Nat
  BY <1>1, MulNat
<1>5. ASSUME tree \in StartTree(c, task) .. (EndTree(c, task) - 1) PROVE q = h
  <2>1. tree - h * gs \in 0 .. (gs - 1) /\ h * gs + (tree - h * gs) = tree
    BY <1>1, <1>2, <1>4, <1>5 DEF Least
  <2> QED
    BY <1>1, <2>1, DivUnique
<1>6. ASSUME q = h PROVE tree \in StartTree(c, task) .. (EndTree(c, task) - 1)
  BY <1>1, <1>2, <1>3, <1>4, <1>6 DEF Least
<1> QED
  BY <1>5, <1>6 DEF h, gs

(* Every tree is evaluated on every row by some task. *)
LEMMA TaskExists ==
  ASSUME NEW c, Accepted(c), NEW row \in Rows(c), NEW tree \in Trees(c)
  PROVE  \E task \in Tasks(c) : /\ row \in StartRow(c, task) .. (EndRow(c, task) - 1)
                                /\ tree \in StartTree(c, task) .. (EndTree(c, task) - 1)
<1> DEFINE m == c.row_count
           cs == c.chunk_size
           gs == c.grove_size
           g == NumGrove(c)
           n == NumChunk(c)
           k == row \div cs
           h == tree \div gs
           task == h * n + k
<1>1. /\ c \in Call /\ m \in Nat /\ cs \in Nat \ {0} /\ gs \in Nat \ {0} /\ c.num_tree \in Nat
      /\ row \in Nat /\ row < m /\ tree \in Nat /\ tree < c.num_tree
  BY CallFields DEF Accepted, Rows, Trees
<1>2. g \in Nat \ {0} /\ n \in Nat
  BY <1>1, Sizes
<1>3. k \in Nat /\ row % cs \in 0 .. (cs - 1) /\ row = k * cs + (row % cs)
  BY <1>1, DivMod
<1>4. h \in Nat /\ tree % gs \in 0 .. (gs - 1) /\ tree = h * gs + (tree % gs)
  BY <1>1, DivMod
<1>5. k < n /\ m <= n * cs
  <2>1. m <= n * cs
    BY <1>1, CeilDivBounds DEF NumChunk
  <2> HIDE DEF n, k, m, cs
  <2>2. SUFFICES ASSUME n <= k PROVE FALSE
    BY <1>2, <1>3, <2>1
  <2>3. n * cs <= k * cs /\ n * cs \in Nat /\ k * cs \in Nat
    BY <1>1, <1>2, <1>3, <2>2, MulMono, MulNat
  <2> QED
    BY <1>1, <1>3, <2>1, <2>3
<1>6. h < g
  <2>1. c.num_tree <= g * gs
    BY <1>1, CeilDivBounds DEF NumGrove
  <2> HIDE DEF g, h, gs
  <2>2. SUFFICES ASSUME g <= h PROVE FALSE
    BY <1>2, <1>4, <2>1
  <2>3. g * gs <= h * gs /\ g * gs \in Nat /\ h * gs \in Nat
    BY <1>1, <1>2, <1>4, <2>2, MulMono, MulNat
  <2> QED
    BY <1>1, <1>4, <2>1, <2>3
<1>7. n <= m
  <2> HIDE DEF n, m
  <2>1. SUFFICES ASSUME m < n PROVE FALSE
    BY <1>1, <1>2
  <2>2. m * cs < m
    BY <1>1, <2>1, CeilDivBounds DEF NumChunk, n, m
  <2>3. m * 1 <= m * cs
    BY <1>1
  <2> QED
    BY <1>1, <2>2, <2>3, MulNat
<1>8. TaskCount(c) = g * n /\ g * n \in Nat
  <2>1. m * NumOutputs(c) * g < IndexMod /\ NumOutputs(c) \in Nat \ {0}
    BY <1>1, GuardFits, Sizes
  <2>2. TaskCount(c) = U(g * n)
    BY DEF TaskCount
  <2> HIDE DEF m, g, n
  <2>3. n * g <= m * g
    BY <1>1, <1>2, <1>7, MulMono
  <2>4. m * g <= m * NumOutputs(c) * g
    <3>1. m <= m * NumOutputs(c) /\ m * NumOutputs(c) \in Nat
      BY <1>1, <2>1
    <3> QED
      BY <1>1, <1>2, <3>1, MulMono
  <2>5. g * n \in Nat /\ n * g = g * n /\ m * g \in Nat
    BY <1>1, <1>2, MulNat
  <2>6. m * NumOutputs(c) * g \in Nat
    BY <1>1, <1>2, <2>1, MulNat
  <2>7. g * n < IndexMod
    BY <2>1, <2>3, <2>4, <2>5, <2>6, IndexModAssumption
  <2> QED
    BY <2>2, <2>5, <2>7, NoWrap
<1>9. task \in Tasks(c)
  <2>1. Tasks(c) = 0 .. (g * n - 1)
    BY <1>8 DEF Tasks
  <2> HIDE DEF g, n, h, k
  <2>2. h * n + k < g * n /\ h * n \in Nat
    BY <1>2, <1>3, <1>4, <1>5, <1>6, BlockOrder, MulNat
  <2> QED
    BY <1>3, <1>8, <2>1, <2>2
<1>10. GroveOf(c, task) = h /\ task % n = k
  <2>1. task = GroveOf(c, task) * n + (task % n) /\ task % n \in 0 .. (n - 1)
        /\ GroveOf(c, task) \in Nat
    BY <1>9, TaskRange
  <2> DEFINE u == GroveOf(c, task)
             v == task % n
  <2>2. h * n + k = u * n + v /\ u \in Nat /\ v \in Nat /\ v < n
    BY <1>2, <2>1
  <2> HIDE DEF n, h, k, u, v
  <2>3. h = u /\ k = v
    BY <1>2, <1>3, <1>4, <1>5, <2>2, BlockUnique
  <2> QED
    BY <2>3 DEF u, v
<1>11. tree \in StartTree(c, task) .. (EndTree(c, task) - 1)
  BY <1>9, <1>10, TaskTrees
<1>12. row \in StartRow(c, task) .. (EndRow(c, task) - 1)
  <2>1. StartRow(c, task) = k * cs /\ EndRow(c, task) = Least(k * cs + cs, m)
    BY <1>9, <1>10, TaskBounds
  <2> HIDE DEF task, k, cs, m
  <2> QED
    BY <1>1, <1>3, <2>1, MulNat DEF Least
<1> QED
  BY <1>9, <1>11, <1>12

-----------------------------------------------------------------------------
(* The first loop *)

(* The terms of the call that is served. *)
LEMMA RequestTerms ==
  ASSUME RaceInv, NEW row \in Rows(request), NEW out \in Outputs(request),
         NEW t \in Contributions(row, out)
  PROVE  /\ t.tree \in Trees(request) /\ t.tree \in Nat
         /\ t.comp \in 0 .. (NumComp(request) - 1) /\ t.comp \in Nat
         /\ t = LeafTerm(request, row, t.tree, t.comp)
         /\ OutputOf(request, t.tree, t.comp) = out
         /\ \A u \in Contributions(row, out) : u.tree = t.tree => u = t
<1>1. request \in Call
  BY CallsAssumption DEF RaceInv, TypeOK
<1>2. t \in Promise!Contributions(request, row, out)
  BY DEF Contributions
<1> QED
  BY <1>1, <1>2, TermFields, CallFields, Sizes DEF Contributions, Trees

(* The grove of a term is one of the groves of the workspace. *)
LEMMA GroveRange ==
  ASSUME NEW c, Accepted(c), NEW row \in Rows(c), NEW tree \in Trees(c)
  PROVE  tree \div c.grove_size \in 0 .. (NumGrove(c) - 1)
BY TaskExists, TaskTrees, TaskRange

(* Every term is outstanding when the first loop starts. *)
LEMMA SumLaunch ==
  ASSUME \A c \in Calls : Representable(c), RaceInv, SumInv, Launch
  PROVE  SumInv'
<1> DEFINE c == request
<1>1. /\ phase = "called" /\ phase' = "infer"
      /\ workspace' = [i \in 0 .. (WorkspaceSize(c) - 1) |-> Zero]
      /\ pending' = Tasks(c)
      /\ \A th \in Threads : pc'[th] \in {"idle", "absent"}
      /\ UNCHANGED <<request, output, at, reg>>
  BY DEF Launch
<1>2. Accepted(c)
  BY CallsAssumption DEF Launch, Accepted, RaceInv, TypeOK
<1>3. Accumulated'
  <2>1. SUFFICES ASSUME NEW row \in Rows(c), NEW out \in Outputs(c), NEW grove \in 0 .. (NumGrove(c) - 1)
                 PROVE  Adds(workspace'[Slot(c, row, out, grove)],
                             {t \in GroveTerms(row, out, grove)' : ~Outstanding(row, t)'})
    BY <1>1 DEF Accumulated
  <2>2. workspace'[Slot(c, row, out, grove)] = Zero
    BY <1>1, <1>2, SlotExact
  <2>3. ASSUME NEW t \in GroveTerms(row, out, grove)' PROVE Outstanding(row, t)'
    <3>1. t \in Contributions(row, out)
      BY <1>1, <2>3 DEF GroveTerms, Contributions
    <3>2. t.tree \in Trees(c)
      BY <3>1, RequestTerms
    <3> QED
      BY <1>1, <1>2, <3>2, TaskExists DEF Outstanding, Covers
  <2>4. {t \in GroveTerms(row, out, grove)' : ~Outstanding(row, t)'} = {}
    BY <2>3
  <2> QED
    BY <2>2, <2>4, ZeroAdds
<1>4. Reducing'
  BY <1>1 DEF Reducing
<1>5. Answered'
  BY <1>1 DEF SumInv, Answered, Unfinished
<1> QED
  BY <1>3, <1>4, <1>5 DEF SumInv

(* A step of the first loop that writes nothing and after which the same
   terms are outstanding. *)
LEMMA SumKept ==
  ASSUME SumInv, phase = "infer", UNCHANGED <<request, phase, workspace, output>>,
         \A row \in Rows(request), out \in Outputs(request) : \A t \in Contributions(row, out) :
           Outstanding(row, t)' <=> Outstanding(row, t),
         \A th \in Threads : pc'[th] = "accumulate" =>
           reg'[th] = IF request.infer_type = "leaf_id" THEN Zero
                      ELSE workspace[TargetSlot(request, at'[th])]
  PROVE  SumInv'
<1> DEFINE c == request
<1>1. Accumulated'
  <2>1. SUFFICES ASSUME NEW row \in Rows(c), NEW out \in Outputs(c), NEW grove \in 0 .. (NumGrove(c) - 1)
                 PROVE  Adds(workspace[Slot(c, row, out, grove)],
                             {t \in GroveTerms(row, out, grove)' : ~Outstanding(row, t)'})
    BY DEF Accumulated
  <2>2. GroveTerms(row, out, grove)' = GroveTerms(row, out, grove)
    BY DEF GroveTerms, Contributions, GroveOfTree
  <2>3. \A t \in GroveTerms(row, out, grove) : Outstanding(row, t)' <=> Outstanding(row, t)
    BY DEF GroveTerms
  <2>4. {t \in GroveTerms(row, out, grove)' : ~Outstanding(row, t)'}
          = {t \in GroveTerms(row, out, grove) : ~Outstanding(row, t)}
    BY <2>2, <2>3
  <2> QED
    BY <2>4 DEF SumInv, Accumulated
<1>2. Reducing' /\ Answered'
  BY DEF Reducing, SumInv, Answered, Unfinished
<1> QED
  BY <1>1, <1>2 DEF SumInv

(* The terms of a claimed task pass from the schedule to the thread. *)
LEMMA SumClaimTask ==
  ASSUME \A c \in Calls : Representable(c), RaceInv, SumInv, NEW th \in Threads, ClaimTask(th)
  PROVE  SumInv'
<1> DEFINE c == request
<1>1. PICK task \in pending :
        /\ pending' = pending \ {task}
        /\ at' = [at EXCEPT ![th] = At(task, StartRow(c, task), StartTree(c, task), 0, 0)]
        /\ IF /\ StartRow(c, task) < EndRow(c, task)
              /\ StartTree(c, task) < EndTree(c, task)
           THEN pc' = [pc EXCEPT ![th] = "evaluate"]
           ELSE UNCHANGED pc
  BY DEF ClaimTask
<1>2. /\ phase = "infer" /\ pc[th] = "idle" /\ task \in Tasks(c)
      /\ UNCHANGED <<request, phase, workspace, output, reg>>
  BY DEF ClaimTask, RaceInv, Loops
<1>3. Accepted(c)
  BY <1>2, RequestAccepted
<1>4. /\ pc' = [pc EXCEPT ![th] = "evaluate"]
      /\ StartRow(c, task) \in Nat /\ StartTree(c, task) \in Nat /\ task \in Nat
      /\ EndRow(c, task) \in Nat /\ EndTree(c, task) \in Nat
  BY <1>1, <1>2, <1>3, TaskBounds, TaskRange DEF Rows, Trees
<1>5. /\ at'[th].task = task /\ at'[th].row = StartRow(c, task)
      /\ at'[th].tree = StartTree(c, task) /\ at'[th].comp = 0
      /\ FirstLoop(th)' /\ ~FirstLoop(th)
      /\ \A other \in Threads \ {th} : at'[other] = at[other] /\ pc'[other] = pc[other]
  BY <1>1, <1>2, <1>4 DEF RaceInv, TypeOK, At, FirstLoop
<1>6. ASSUME NEW row \in Rows(c), NEW out \in Outputs(c), NEW t \in Contributions(row, out)
      PROVE  Outstanding(row, t)' <=> Outstanding(row, t)
  <2>1. t.tree \in Nat /\ t.comp \in Nat /\ row \in Nat
    BY RequestTerms DEF Rows
  <2>2. Covers(task, row, t.tree) => ~Before(row, t, at'[th])
    BY <1>4, <1>5, <2>1 DEF Covers, Before
  <2>3. \A k : Covers(k, row, t.tree)' <=> Covers(k, row, t.tree)
    BY <1>2 DEF Covers
  <2>4. Outstanding(row, t)'
          <=> \/ \E k \in pending' : Covers(k, row, t.tree)
              \/ \E other \in Threads : FirstLoop(other)' /\ Covers(at'[other].task, row, t.tree)
                                         /\ ~Before(row, t, at'[other])
    BY <2>3 DEF Outstanding, Before
  <2>5. \A other \in Threads \ {th} : FirstLoop(other)' <=> FirstLoop(other)
    BY <1>5 DEF FirstLoop
  <2> HIDE DEF c
  <2> QED
    BY <1>1, <1>5, <2>2, <2>4, <2>5 DEF Outstanding
<1>7. \A other \in Threads : pc'[other] = "accumulate" =>
        pc[other] = "accumulate" /\ at'[other] = at[other] /\ reg'[other] = reg[other]
  BY <1>2, <1>4, <1>5 DEF RaceInv, TypeOK
<1> QED
  BY <1>2, <1>6, <1>7, SumKept DEF SumInv, Accumulated

(* What a thread loads is current. *)
LEMMA SumEvaluate ==
  ASSUME \A c \in Calls : Representable(c), RaceInv, SumInv, NEW th \in Threads, Evaluate(th)
  PROVE  SumInv'
<1>1. /\ pc[th] = "evaluate" /\ pc' = [pc EXCEPT ![th] = "accumulate"]
      /\ reg' = [reg EXCEPT ![th] = IF request.infer_type = "leaf_id" THEN Zero
                                    ELSE workspace[TargetSlot(request, at[th])]]
      /\ UNCHANGED <<request, phase, workspace, output, pending, at>>
  BY DEF Evaluate
<1>2. phase = "infer"
  BY <1>1, TargetRange
<1>3. \A other \in Threads : FirstLoop(other)' <=> FirstLoop(other)
  BY <1>1 DEF FirstLoop, RaceInv, TypeOK
<1>4. \A row, t : Outstanding(row, t)' <=> Outstanding(row, t)
  BY <1>1, <1>3 DEF Outstanding, Covers, Before
<1>5. \A other \in Threads : pc'[other] = "accumulate" =>
        \/ other = th
        \/ pc[other] = "accumulate" /\ reg'[other] = reg[other]
  BY <1>1 DEF RaceInv, TypeOK
<1>6. reg'[th] = IF request.infer_type = "leaf_id" THEN Zero
                 ELSE workspace[TargetSlot(request, at[th])]
  BY <1>1 DEF RaceInv, TypeOK
<1> QED
  BY <1>1, <1>2, <1>4, <1>5, <1>6, SumKept DEF SumInv, Accumulated

(* A thread that advances has one more term behind it: the one it was at. *)
LEMMA AdvanceTerm ==
  ASSUME \A c \in Calls : Representable(c), RaceInv, NEW th \in Threads, Accumulate(th),
         NEW row \in Nat, NEW t, t.tree \in Nat, t.comp \in 0 .. (NumComp(request) - 1)
  PROVE  (FirstLoop(th)' /\ Covers(at'[th].task, row, t.tree) /\ ~Before(row, t, at'[th]))
           <=> /\ Covers(at[th].task, row, t.tree) /\ ~Before(row, t, at[th])
               /\ ~(row = at[th].row /\ t.tree = at[th].tree /\ t.comp = at[th].comp)
<1> DEFINE c == request
           p == at[th]
           q == at'[th]
<1>1. /\ pc[th] = "accumulate" /\ UNCHANGED <<request, phase, output, pending>>
      /\ p \in Position
  BY DEF Accumulate, RaceInv, TypeOK
<1>2. /\ p.task \in Tasks(c)
      /\ p.row \in StartRow(c, p.task) .. (EndRow(c, p.task) - 1)
      /\ p.tree \in StartTree(c, p.task) .. (EndTree(c, p.task) - 1)
      /\ p.comp \in 0 .. (NumComp(c) - 1)
  BY <1>1 DEF RaceInv, Positions
<1>3. Accepted(c) /\ NumComp(c) \in Nat
  BY <1>1, TargetRange, RequestAccepted, Sizes DEF Accepted
<1> DEFINE sr == StartRow(c, p.task)
           er == EndRow(c, p.task)
           st == StartTree(c, p.task)
           et == EndTree(c, p.task)
           n  == NumComp(c)
<1>4. sr \in Nat /\ er \in Nat /\ st \in Nat /\ et \in Nat
  BY <1>2, <1>3, TaskBounds DEF Rows, Trees
<1>5. /\ p.row \in Nat /\ p.tree \in Nat /\ p.comp \in Nat /\ p.task \in Nat
      /\ at \in [Threads -> Position]
      /\ pc \in [Threads -> {"absent", "idle", "evaluate", "accumulate", "sum", "postprocess"}]
  BY <1>1 DEF Position, RaceInv, TypeOK
<1>6. Covers(p.task, row, t.tree) <=> row \in sr .. (er - 1) /\ t.tree \in st .. (et - 1)
  BY DEF Covers
<1>7. \A x \in {p, q} :
        Before(row, t, x)
          <=> (row < x.row \/ (row = x.row /\ (t.tree < x.tree \/ (t.tree = x.tree /\ t.comp < x.comp))))
  BY DEF Before
<1>8. \/ /\ p.comp + 1 < n /\ FirstLoop(th)' /\ q.task = p.task
         /\ q.row = p.row /\ q.tree = p.tree /\ q.comp = p.comp + 1
      \/ /\ p.comp + 1 = n /\ p.tree + 1 < et /\ FirstLoop(th)' /\ q.task = p.task
         /\ q.row = p.row /\ q.tree = p.tree + 1 /\ q.comp = 0
      \/ /\ p.comp + 1 = n /\ p.tree + 1 = et /\ p.row + 1 < er /\ FirstLoop(th)' /\ q.task = p.task
         /\ q.row = p.row + 1 /\ q.tree = st /\ q.comp = 0
      \/ p.comp + 1 = n /\ p.tree + 1 = et /\ p.row + 1 = er /\ ~FirstLoop(th)'
  <2> HIDE DEF c
  <2> USE DEF At, FirstLoop
  <2>1. Advance(th)
    BY DEF Accumulate
  <2> QED
    BY <1>5, <2>1 DEF Advance, c
<1>9. t.comp \in 0 .. (n - 1) /\ n \in Nat
  BY <1>3
<1> HIDE DEF sr, er, st, et, n, q, p, c
<1>10. Covers(p.task, row, t.tree) => t.tree < et /\ t.tree >= st /\ row < er /\ row >= sr
  BY <1>4, <1>6
<1>11. (FirstLoop(th)' /\ Covers(q.task, row, t.tree) /\ ~Before(row, t, q))
           <=> /\ Covers(p.task, row, t.tree) /\ ~Before(row, t, p)
               /\ ~(row = p.row /\ t.tree = p.tree /\ t.comp = p.comp)
  <2>1. CASE p.comp + 1 < n
    BY <1>5, <1>7, <1>8, <1>9, <2>1
  <2>2. CASE p.comp + 1 = n /\ p.tree + 1 < et
    BY <1>4, <1>5, <1>7, <1>8, <1>9, <2>2
  <2>3. CASE p.comp + 1 = n /\ p.tree + 1 = et /\ p.row + 1 < er
    BY <1>4, <1>5, <1>7, <1>8, <1>9, <1>10, <2>3
  <2>4. CASE p.comp + 1 = n /\ p.tree + 1 = et /\ p.row + 1 = er
    BY <1>4, <1>5, <1>7, <1>8, <1>9, <1>10, <2>4
  <2> QED
    BY <1>8, <2>1, <2>2, <2>3, <2>4
<1> QED
  BY <1>11 DEF p, q

(* The term a thread has evaluated, and the element it belongs to. *)
LEMMA CurrentTerm ==
  ASSUME \A c \in Calls : Representable(c), RaceInv, NEW th \in Threads, FirstLoop(th)
  PROVE  LET p == at[th]
             out == OutputOf(request, p.tree, p.comp)
             grove == GroveOf(request, p.task)
             t == TreeOutput(request, p)
         IN  /\ t = LeafTerm(request, p.row, p.tree, p.comp)
             /\ t.tree = p.tree /\ t.comp = p.comp
             /\ p.row \in Rows(request) /\ p.tree \in Trees(request) /\ p.tree \in Nat
             /\ p.comp \in 0 .. (NumComp(request) - 1) /\ p.comp \in Nat
             /\ out \in Outputs(request)
             /\ grove \in 0 .. (NumGrove(request) - 1)
             /\ GroveOfTree(p.tree) = grove
             /\ Covers(p.task, p.row, p.tree)
             /\ t \in GroveTerms(p.row, out, grove)
             /\ Outstanding(p.row, t)
<1> DEFINE c == request
           p == at[th]
           out == OutputOf(c, p.tree, p.comp)
           grove == GroveOf(c, p.task)
           t == TreeOutput(c, p)
<1>1. /\ p.task \in Tasks(c) /\ p.row \in Rows(c) /\ p.tree \in Trees(c)
      /\ out \in Outputs(c) /\ grove \in 0 .. (NumGrove(c) - 1)
      /\ phase = "infer"
  BY TargetRange DEF FirstLoop
<1>2. /\ p.row \in StartRow(c, p.task) .. (EndRow(c, p.task) - 1)
      /\ p.tree \in StartTree(c, p.task) .. (EndTree(c, p.task) - 1)
      /\ p.comp \in 0 .. (NumComp(c) - 1)
  BY DEF FirstLoop, RaceInv, Positions
<1>3. Accepted(c) /\ c \in Call
  BY <1>1, RequestAccepted DEF Accepted
<1>4. /\ NumComp(c) \in Nat /\ p.comp \in Nat /\ p.tree \in Nat /\ p.row \in Nat
      /\ c.row_count \in Nat /\ c.col_count \in Nat \ {0} /\ p.row < c.row_count
  BY <1>1, <1>2, <1>3, Sizes, CallFields DEF Rows, Trees
<1>5. U(p.row * c.col_count) = p.row * c.col_count
  <2>1. c.row_count * c.col_count <= IndexMod /\ IndexMod \in Nat
    BY <1>3, IndexModAssumption DEF Accepted, Representable
  <2> DEFINE r == p.row
             m == c.row_count
             k == c.col_count
  <2>2. r * k + 0 < m * k
    BY <1>4, BlockOrder
  <2>3. r * k \in Nat /\ m * k \in Nat
    BY <1>4, MulNat
  <2>4. r * k < IndexMod
    BY <2>1, <2>2, <2>3
  <2> QED
    BY <2>3, <2>4, NoWrap
<1>6. t = LeafTerm(c, p.row, p.tree, p.comp) /\ t.tree = p.tree /\ t.comp = p.comp
  BY <1>5 DEF TreeOutput, LeafTerm
<1>7. p.tree \div c.grove_size = grove
  BY <1>1, <1>2, <1>3, TaskTrees
<1>8. t \in Contributions(p.row, out)
  BY <1>1, <1>2, <1>3, <1>6, TermsOfOutput DEF Contributions
<1>9. t \in GroveTerms(p.row, out, grove)
  BY <1>6, <1>7, <1>8 DEF GroveTerms, GroveOfTree
<1>10. Covers(p.task, p.row, p.tree)
  BY <1>2 DEF Covers
<1>11. ~Before(p.row, t, p)
  BY <1>4, <1>6 DEF Before
<1>12. Outstanding(p.row, t)
  BY <1>6, <1>10, <1>11 DEF Outstanding
<1> QED
  BY <1>1, <1>2, <1>4, <1>6, <1>7, <1>9, <1>10, <1>12 DEF GroveOfTree

(* Only the task of a thread has its trees on its rows. *)
LEMMA OnlyTask ==
  ASSUME \A c \in Calls : Representable(c), RaceInv, NEW th \in Threads, FirstLoop(th),
         NEW task \in Tasks(request), NEW row, NEW tree,
         Covers(at[th].task, row, tree), Covers(task, row, tree)
  PROVE  task = at[th].task
<1> DEFINE c == request
           k == at[th].task
<1>1. phase = "infer" /\ k \in Tasks(c)
  BY TargetRange DEF FirstLoop
<1>2. Accepted(c)
  BY <1>1, RequestAccepted
<1>3. /\ row \in StartRow(c, k) .. (EndRow(c, k) - 1) /\ tree \in StartTree(c, k) .. (EndTree(c, k) - 1)
      /\ row \in StartRow(c, task) .. (EndRow(c, task) - 1)
      /\ tree \in StartTree(c, task) .. (EndTree(c, task) - 1)
  BY DEF Covers
<1>4. tree \in Trees(c)
  BY <1>1, <1>2, <1>3, TaskBounds, CallFields DEF Trees, Accepted
<1>5. GroveOf(c, k) = GroveOf(c, task)
  BY <1>1, <1>2, <1>3, <1>4, TaskTrees
<1> QED
  BY <1>1, <1>2, <1>3, <1>5, TaskUnique

(* Storing an element takes one term, the current one, off what is
   outstanding. *)
LEMMA StoredTerm ==
  ASSUME \A c \in Calls : Representable(c), RaceInv, NEW th \in Threads, Accumulate(th),
         NEW row \in Rows(request), NEW out \in Outputs(request), NEW t \in Contributions(row, out)
  PROVE  Outstanding(row, t)'
           <=> Outstanding(row, t) /\ ~(row = at[th].row /\ t = TreeOutput(request, at[th]))
<1> DEFINE c == request
           p == at[th]
           Now(other)  == FirstLoop(other) /\ Covers(at[other].task, row, t.tree) /\ ~Before(row, t, at[other])
           Then(other) == FirstLoop(other)' /\ Covers(at'[other].task, row, t.tree) /\ ~Before(row, t, at'[other])
           Here == row = p.row /\ t.tree = p.tree /\ t.comp = p.comp
<1>1. /\ pc[th] = "accumulate" /\ FirstLoop(th) /\ UNCHANGED <<request, phase, output, pending>>
      /\ phase = "infer"
  BY TargetRange DEF Accumulate, FirstLoop
<1>2. /\ t.tree \in Nat /\ t.comp \in 0 .. (NumComp(c) - 1) /\ row \in Nat
      /\ t = LeafTerm(c, row, t.tree, t.comp)
  BY RequestTerms DEF Rows
<1>3. Here <=> row = p.row /\ t = TreeOutput(c, p)
  BY <1>1, <1>2, CurrentTerm
<1>4. \A other \in Threads \ {th} : pc'[other] = pc[other] /\ at'[other] = at[other]
  BY DEF Accumulate, Advance, RaceInv, TypeOK
<1>5. \A other \in Threads \ {th} : Then(other) <=> Now(other)
  BY <1>1, <1>4 DEF FirstLoop
<1>6. Then(th) <=> Now(th) /\ ~Here
  BY <1>1, <1>2, AdvanceTerm
<1>7. Outstanding(row, t)' <=> (\E task \in pending : Covers(task, row, t.tree)) \/ \E other \in Threads : Then(other)
  BY <1>1 DEF Outstanding, Covers, Before
<1>8. Outstanding(row, t) <=> (\E task \in pending : Covers(task, row, t.tree)) \/ \E other \in Threads : Now(other)
  BY DEF Outstanding
<1>9. ASSUME Here
      PROVE  /\ ~\E task \in pending : Covers(task, row, t.tree)
             /\ ~\E other \in Threads \ {th} : Now(other)
  <2>1. Covers(p.task, row, t.tree)
    BY <1>1, <1>9, CurrentTerm
  <2>2. p.task \notin pending /\ pending \subseteq Tasks(c)
    BY <1>1 DEF RaceInv, Positions, Loops
  <2>3. \A task \in Tasks(c) : Covers(task, row, t.tree) => task = p.task
    BY <1>1, <2>1, OnlyTask
  <2>4. \A other \in Threads \ {th} : FirstLoop(other) => at[other].task \in Tasks(c) /\ at[other].task # p.task
    BY <1>1, TargetRange DEF FirstLoop, RaceInv, Exclusive
  <2> QED
    BY <2>2, <2>3, <2>4
<1> HIDE DEF Now, Then, Here
<1> QED
  BY <1>3, <1>5, <1>6, <1>7, <1>8, <1>9

(* The current term comes behind those its element has already. *)
LEMMA ElementGrows ==
  ASSUME \A c \in Calls : Representable(c), RaceInv, SumInv, NEW th \in Threads, Accumulate(th)
  PROVE  LET p == at[th]
             out == OutputOf(request, p.tree, p.comp)
             grove == GroveOf(request, p.task)
             t == TreeOutput(request, p)
         IN  Adds(AddTerm(reg[th], t),
                  {u \in GroveTerms(p.row, out, grove) : ~Outstanding(p.row, u)} \cup {t})
<1> DEFINE c == request
           p == at[th]
           out == OutputOf(c, p.tree, p.comp)
           grove == GroveOf(c, p.task)
           t == TreeOutput(c, p)
           S == {u \in GroveTerms(p.row, out, grove) : ~Outstanding(p.row, u)}
           slot == Slot(c, p.row, out, grove)
<1>1. pc[th] = "accumulate" /\ FirstLoop(th) /\ phase = "infer"
  BY TargetRange DEF Accumulate, FirstLoop
<1>2. Accepted(c) /\ c \in Call /\ t \in Term /\ slot \in 0 .. (WorkspaceSize(c) - 1)
      /\ workspace \in [0 .. (WorkspaceSize(c) - 1) -> Value]
  BY <1>1, RequestAccepted, TargetRange DEF Accepted, TargetSlot
<1>3. /\ p.row \in Rows(c) /\ out \in Outputs(c) /\ grove \in 0 .. (NumGrove(c) - 1)
      /\ t \in GroveTerms(p.row, out, grove) /\ Outstanding(p.row, t)
      /\ Covers(p.task, p.row, p.tree) /\ t.tree = p.tree /\ t.comp = p.comp /\ p.tree \in Nat /\ p.comp \in Nat
  BY <1>1, CurrentTerm
<1>4. Adds(workspace[slot], S)
  BY <1>1, <1>3 DEF SumInv, Accumulated
<1>5. Adds(reg[th], S) /\ reg[th] \in Value
  <2>1. reg[th] = IF c.infer_type = "leaf_id" THEN Zero ELSE workspace[slot]
    BY <1>1 DEF SumInv, Accumulated, TargetSlot
  <2>2. workspace[slot] \in Value
    BY <1>2
  <2>3. CASE c.infer_type = "leaf_id"
    <3>1. Contributions(p.row, out) = {t}
      <4>1. \E x : Contributions(p.row, out) = {x}
        BY <2>3 DEF Contributions, Promise!Contributions
      <4>2. t \in Contributions(p.row, out)
        BY <1>3 DEF GroveTerms
      <4> HIDE DEF t
      <4> QED
        BY <4>1, <4>2
    <3>2. S = {}
      BY <1>3, <3>1 DEF GroveTerms
    <3> QED
      BY <2>1, <2>3, <3>2, ZeroAdds, ValueTypes
  <2>4. CASE c.infer_type # "leaf_id"
    BY <1>4, <2>1, <2>2, <2>4
  <2> QED
    BY <2>3, <2>4
<1>6. ASSUME NEW u \in S PROVE u.tree < t.tree
  <2>1. u \in Contributions(p.row, out) /\ GroveOfTree(u.tree) = grove /\ ~Outstanding(p.row, u)
        /\ t \in Contributions(p.row, out)
    BY <1>3 DEF GroveTerms
  <2>2. u.tree \in Trees(c) /\ u.tree \in Nat /\ u.comp \in Nat /\ (u.tree = t.tree => u = t)
    BY <1>3, <2>1, RequestTerms
  <2>3. Covers(p.task, p.row, u.tree)
    <3>1. p.task \in Tasks(c)
      BY <1>1, TargetRange
    <3> QED
      BY <1>2, <1>3, <2>1, <2>2, <3>1, TaskTrees DEF Covers, GroveOfTree
  <2>4. Before(p.row, u, p)
    BY <1>1, <2>1, <2>3 DEF Outstanding
  <2>5. p.row \in Nat
    BY <1>3 DEF Rows
  <2>6. u.tree < p.tree \/ (u.tree = p.tree /\ u.comp < p.comp)
    BY <2>4, <2>5 DEF Before
  <2> QED
    BY <1>3, <2>2, <2>6
<1> HIDE DEF S, t
<1>7. Adds(AddTerm(reg[th], t), S \cup {t})
  BY <1>2, <1>5, <1>6, TermAdded
<1> QED
  BY <1>7 DEF S, t

(* An element grows by the current term, and no other changes. *)
LEMMA SumAccumulate ==
  ASSUME \A c \in Calls : Representable(c), RaceInv, SumInv, NEW th \in Threads, Accumulate(th)
  PROVE  SumInv'
<1> DEFINE c == request
           p == at[th]
           out0 == OutputOf(c, p.tree, p.comp)
           grove0 == GroveOf(c, p.task)
           t0 == TreeOutput(c, p)
           slot0 == Slot(c, p.row, out0, grove0)
           Kept(row, out, grove) == {t \in GroveTerms(row, out, grove) : ~Outstanding(row, t)}
<1>1. /\ pc[th] = "accumulate" /\ FirstLoop(th) /\ phase = "infer"
      /\ workspace' = [workspace EXCEPT ![slot0] = AddTerm(reg[th], t0)]
      /\ reg' = [reg EXCEPT ![th] = Zero]
      /\ UNCHANGED <<request, phase, output, pending>>
  BY TargetRange DEF Accumulate, FirstLoop, TargetSlot
<1>2. /\ Accepted(c) /\ slot0 \in 0 .. (WorkspaceSize(c) - 1)
      /\ workspace \in [0 .. (WorkspaceSize(c) - 1) -> Value]
  BY <1>1, RequestAccepted, TargetRange DEF Accepted, TargetSlot
<1>3. /\ p.row \in Rows(c) /\ out0 \in Outputs(c) /\ grove0 \in 0 .. (NumGrove(c) - 1)
      /\ t0 \in GroveTerms(p.row, out0, grove0)
      /\ t0.tree = p.tree /\ t0.comp = p.comp /\ GroveOfTree(p.tree) = grove0
  BY <1>1, CurrentTerm
<1>4. \A other \in Threads : pc'[other] = "accumulate" =>
        other # th /\ pc[other] = "accumulate" /\ at'[other] = at[other]
  BY DEF Accumulate, Advance, RaceInv, TypeOK
<1>5. ASSUME NEW row \in Rows(c), NEW out \in Outputs(c), NEW grove \in 0 .. (NumGrove(c) - 1)
      PROVE  Adds(workspace'[Slot(c, row, out, grove)],
                  {t \in GroveTerms(row, out, grove)' : ~Outstanding(row, t)'})
  <2> DEFINE slot == Slot(c, row, out, grove)
             Terms == {t \in GroveTerms(row, out, grove)' : ~Outstanding(row, t)'}
  <2>1. GroveTerms(row, out, grove)' = GroveTerms(row, out, grove)
    BY <1>1 DEF GroveTerms, Contributions, GroveOfTree
  <2>2. \A t \in GroveTerms(row, out, grove) :
          Outstanding(row, t)' <=> Outstanding(row, t) /\ ~(row = p.row /\ t = t0)
    BY StoredTerm DEF GroveTerms
  <2>3. slot \in 0 .. (WorkspaceSize(c) - 1)
    BY <1>2, SlotExact
  <2>4. CASE row = p.row /\ out = out0 /\ grove = grove0
    <3>1. Terms = Kept(row, out, grove) \cup {t0}
      <4> HIDE DEF t0, out0, grove0
      <4> QED
        BY <1>3, <2>1, <2>2, <2>4
    <3>2. workspace'[slot] = AddTerm(reg[th], t0)
      BY <1>1, <1>2, <2>4
    <3>3. Adds(AddTerm(reg[th], t0), Kept(p.row, out0, grove0) \cup {t0})
      BY ElementGrows
    <3> HIDE DEF Kept, t0, out0, grove0, Terms
    <3> QED
      BY <2>4, <3>1, <3>2, <3>3 DEF Terms
  <2>5. CASE ~(row = p.row /\ out = out0 /\ grove = grove0)
    <3>1. \A t \in GroveTerms(row, out, grove) : ~(row = p.row /\ t = t0)
      <4>1. SUFFICES ASSUME row = p.row, t0 \in GroveTerms(row, out, grove) PROVE FALSE
        OBVIOUS
      <4>2. GroveOfTree(t0.tree) = grove /\ t0 \in Contributions(row, out)
        BY <4>1 DEF GroveTerms
      <4>3. OutputOf(c, t0.tree, t0.comp) = out
        BY <4>2, RequestTerms
      <4> QED
        BY <1>3, <2>5, <4>1, <4>2, <4>3
    <3>2. Terms = Kept(row, out, grove)
      BY <2>1, <2>2, <3>1
    <3>3. slot # slot0
      <4> HIDE DEF out0, grove0, p, c
      <4> QED
        BY <1>2, <1>3, <2>5, SlotUnique
    <3>4. workspace'[slot] = workspace[slot]
      BY <1>1, <1>2, <2>3, <3>3
    <3>5. Adds(workspace[slot], Kept(row, out, grove))
      BY <1>1 DEF SumInv, Accumulated
    <3> HIDE DEF Terms, Kept
    <3> QED
      BY <3>2, <3>4, <3>5 DEF Terms
  <2> QED
    BY <2>4, <2>5
<1>6. ASSUME NEW other \in Threads, pc'[other] = "accumulate"
      PROVE  reg'[other] = IF c.infer_type = "leaf_id" THEN Zero
                           ELSE workspace'[TargetSlot(c, at'[other])]
  <2>1. other # th /\ pc[other] = "accumulate" /\ at'[other] = at[other]
    BY <1>4, <1>6
  <2>2. TargetSlot(c, at[other]) # slot0
    BY <1>1, <2>1, RaceInvNoRace DEF NoRace, Held, TargetSlot
  <2>3. TargetSlot(c, at[other]) \in 0 .. (WorkspaceSize(c) - 1)
    BY <2>1, TargetRange
  <2>4. reg[other] = IF c.infer_type = "leaf_id" THEN Zero ELSE workspace[TargetSlot(c, at[other])]
    BY <1>1, <2>1 DEF SumInv, Accumulated
  <2>5. reg'[other] = reg[other]
    BY <1>1, <2>1 DEF RaceInv, TypeOK
  <2>6. workspace'[TargetSlot(c, at[other])] = workspace[TargetSlot(c, at[other])]
    BY <1>1, <1>2, <2>2, <2>3
  <2> QED
    BY <2>1, <2>4, <2>5, <2>6
<1>7. Accumulated'
  BY <1>1, <1>5, <1>6 DEF Accumulated
<1>8. Reducing' /\ Answered'
  BY <1>1 DEF Reducing, SumInv, Answered, Unfinished
<1> QED
  BY <1>7, <1>8 DEF SumInv

(* Nothing is outstanding at the barrier: every element is the sum of its
   terms. *)
LEMMA SumBarrier ==
  ASSUME RaceInv, SumInv, Barrier
  PROVE  SumInv'
<1> DEFINE c == request
<1>1. /\ phase = "infer" /\ phase' = "reduce" /\ pending = {} /\ pending' = Rows(c)
      /\ \A th \in Threads : pc[th] \in {"idle", "absent"}
      /\ UNCHANGED <<request, workspace, output, pc, at, reg>>
  BY DEF Barrier, AllIdle
<1>2. \A row, t : ~Outstanding(row, t)
  BY <1>1 DEF Outstanding, FirstLoop
<1>3. ASSUME NEW row \in Rows(c), NEW out \in Outputs(c) PROVE GrovesAdded(row, out)'
  <2>1. SUFFICES ASSUME NEW grove \in 0 .. (NumGrove(c) - 1)
                 PROVE  Adds(workspace[Slot(c, row, out, grove)], GroveTerms(row, out, grove)')
    BY <1>1 DEF GrovesAdded
  <2>2. GroveTerms(row, out, grove)' = GroveTerms(row, out, grove)
    BY <1>1 DEF GroveTerms, Contributions, GroveOfTree
  <2>3. {t \in GroveTerms(row, out, grove) : ~Outstanding(row, t)} = GroveTerms(row, out, grove)
    BY <1>2
  <2> QED
    BY <1>1, <2>2, <2>3 DEF SumInv, Accumulated
<1>4. Reducing'
  <2>1. \A th \in Threads : RowProgress(th)'
    BY <1>1 DEF RowProgress
  <2> QED
    BY <1>1, <1>3, <2>1 DEF Reducing
<1>5. Accumulated'
  BY <1>1 DEF Accumulated
<1>6. Answered'
  BY <1>1 DEF SumInv, Answered, Unfinished
<1> QED
  BY <1>4, <1>5, <1>6 DEF SumInv

-----------------------------------------------------------------------------
(* The second loop *)

(* What a step of the second loop must keep and establish: nothing about the
   first loop is left to show. *)
LEMMA SecondLoopSum ==
  ASSUME phase = "reduce", UNCHANGED <<request, phase>>, Reducing', Answered'
  PROVE  SumInv'
<1>1. Accumulated'
  BY DEF Accumulated
<1> QED
  BY <1>1 DEF SumInv

(* Where the threads of the second loop are: each on a row of its own that
   has been claimed. *)
LEMMA RowOwner ==
  ASSUME RaceInv, NEW th \in Threads, SecondLoop(th)
  PROVE  /\ phase = "reduce"
         /\ at[th].row \in Rows(request) \ pending
         /\ at[th].comp \in Outputs(request)
         /\ at[th].grove \in 0 .. NumGrove(request)
         /\ \A other \in Threads \ {th} : SecondLoop(other) => at[other].row # at[th].row
BY DEF RaceInv, Positions, Exclusive, SecondLoop

(* What has been added up for a row stays as long as its elements do. *)
LEMMA RowKept ==
  ASSUME RaceInv, UNCHANGED request, NEW row,
         \A o \in Outputs(request), g \in 0 .. (NumGrove(request) - 1) :
           workspace'[Slot(request, row, o, g)] = workspace[Slot(request, row, o, g)]
  PROVE  \A o \in Outputs(request) : /\ GrovesAdded(row, o)' <=> GrovesAdded(row, o)
                                     /\ Reduced(row, o)' <=> Reduced(row, o)
<1>1. 0 \in 0 .. (NumGrove(request) - 1)
  BY Sizes, CallsAssumption DEF RaceInv, TypeOK
<1>2. \A o : Contributions(row, o)' = Contributions(row, o)
  BY DEF Contributions
<1>3. \A o, g : GroveTerms(row, o, g)' = GroveTerms(row, o, g)
  BY DEF GroveTerms, Contributions, GroveOfTree
<1> QED
  BY <1>1, <1>2, <1>3 DEF GrovesAdded, Reduced

(* What a thread has added up stays as long as the elements of its row do. *)
LEMMA ProgressKept ==
  ASSUME RaceInv, UNCHANGED request, NEW th \in Threads, RowProgress(th),
         at'[th] = at[th], pc'[th] = pc[th], reg'[th] = reg[th],
         \A o \in Outputs(request), g \in 0 .. (NumGrove(request) - 1) :
           workspace'[Slot(request, at[th].row, o, g)] = workspace[Slot(request, at[th].row, o, g)]
  PROVE  RowProgress(th)'
<1> DEFINE c == request
           p == at[th]
           row == at[th].row
           Low == {t \in Contributions(row, p.comp) : GroveOfTree(t.tree) < p.grove}
           Sums(o) == IF o < p.comp THEN Reduced(row, o) ELSE GrovesAdded(row, o)
<1>1. \A o \in Outputs(c) : /\ GrovesAdded(row, o)' <=> GrovesAdded(row, o)
                            /\ Reduced(row, o)' <=> Reduced(row, o)
  <2>1. \A o \in Outputs(c) : /\ GrovesAdded(at[th].row, o)' <=> GrovesAdded(at[th].row, o)
                              /\ Reduced(at[th].row, o)' <=> Reduced(at[th].row, o)
    BY RowKept
  <2> QED
    BY <2>1
<1>2. ASSUME NEW o \in Outputs(c), Sums(o) PROVE Sums(o)'
  <2>1. CASE o < p.comp
    BY <1>1, <1>2, <2>1
  <2>2. CASE ~(o < p.comp)
    BY <1>1, <1>2, <2>2
  <2> QED
    BY <2>1, <2>2
<1>3. Low' = Low
  BY DEF GroveOfTree, Contributions
<1>4. /\ pc[th] = "sum" => (\A o \in Outputs(c) : Sums(o)) /\ Adds(reg[th], Low)
      /\ pc[th] = "postprocess" => \A o \in Outputs(c) : Reduced(row, o)
  BY DEF RowProgress
<1>5. /\ pc'[th] = "sum" => (\A o \in Outputs(c) : Sums(o)') /\ Adds(reg'[th], Low')
      /\ pc'[th] = "postprocess" => \A o \in Outputs(c) : Reduced(row, o)'
  <2> HIDE DEF Sums, Low
  <2> QED
    BY <1>1, <1>2, <1>3, <1>4
<1> QED
  BY <1>5 DEF RowProgress

(* A step of one thread that leaves the rows of the others and those to be
   claimed alone. *)
LEMMA OthersKept ==
  ASSUME RaceInv, SumInv, phase = "reduce", UNCHANGED <<request, phase>>, pending' \subseteq pending,
         NEW th \in Threads, SecondLoop(th),
         \A other \in Threads \ {th} :
           at'[other] = at[other] /\ pc'[other] = pc[other] /\ reg'[other] = reg[other],
         \A row \in Rows(request) \ {at[th].row}, o \in Outputs(request), g \in 0 .. (NumGrove(request) - 1) :
           workspace'[Slot(request, row, o, g)] = workspace[Slot(request, row, o, g)],
         RowProgress(th)'
  PROVE  Reducing'
<1> DEFINE c == request
<1>1. at[th].row \notin pending /\ pending \subseteq Rows(c)
  BY RowOwner DEF RaceInv, Loops
<1>2. ASSUME NEW row \in pending' PROVE \A o \in Outputs(c) : GrovesAdded(row, o)'
  <2>1. row \in Rows(c) \ {at[th].row} /\ row \in pending
    BY <1>1, <1>2
  <2>2. \A o \in Outputs(c) : GrovesAdded(row, o)' <=> GrovesAdded(row, o)
    BY <2>1, RowKept
  <2> QED
    BY <2>1, <2>2 DEF SumInv, Reducing
<1>3. ASSUME NEW other \in Threads \ {th} PROVE RowProgress(other)'
  <2>1. CASE SecondLoop(other)
    <3>1. at[other].row \in Rows(c) \ {at[th].row}
      BY <2>1, RowOwner
    <3>2. RowProgress(other)
      BY DEF SumInv, Reducing
    <3> QED
      BY <3>1, <3>2, ProgressKept
  <2>2. CASE ~SecondLoop(other)
    BY <2>2 DEF SecondLoop, RowProgress
  <2> QED
    BY <2>1, <2>2
<1>4. \A other \in Threads : RowProgress(other)'
  BY <1>3
<1> QED
  BY <1>2, <1>4 DEF Reducing

(* A claimed row is as the first loop left it, and nothing of it is in the
   register yet. *)
LEMMA SumClaimRow ==
  ASSUME RaceInv, SumInv, NEW th \in Threads, ClaimRow(th)
  PROVE  SumInv'
<1> DEFINE c == request
<1>1. PICK row \in pending : /\ pending' = pending \ {row}
                             /\ at' = [at EXCEPT ![th] = At(0, row, 0, 0, 0)]
  BY DEF ClaimRow
<1>2. /\ phase = "reduce" /\ pc[th] = "idle" /\ row \in Rows(c)
      /\ reg' = [reg EXCEPT ![th] = Zero] /\ pc' = [pc EXCEPT ![th] = "sum"]
      /\ UNCHANGED <<request, phase, workspace, output>>
  BY DEF ClaimRow, RaceInv, Loops
<1>3. /\ at'[th].row = row /\ at'[th].comp = 0 /\ at'[th].grove = 0 /\ pc'[th] = "sum" /\ reg'[th] = Zero
      /\ \A other \in Threads \ {th} :
           at'[other] = at[other] /\ pc'[other] = pc[other] /\ reg'[other] = reg[other]
  BY <1>1, <1>2 DEF RaceInv, TypeOK, At
<1>4. c \in Call /\ 0 \in Outputs(c) /\ \A o \in Outputs(c) : ~(o < 0)
  BY Sizes, CallsAssumption DEF RaceInv, TypeOK, Outputs
<1>5. \A r : \A o \in Outputs(c) : GrovesAdded(r, o)' <=> GrovesAdded(r, o)
  BY <1>2, RowKept
<1>6. {t \in Contributions(row, 0)' : GroveOfTree(t.tree)' < 0} = {}
  <2>1. \A t \in Contributions(row, 0) : t.tree \in Nat
    BY <1>2, <1>4, RequestTerms
  <2>2. c.grove_size \in Nat \ {0}
    BY <1>4, CallFields
  <2>3. \A t \in Contributions(row, 0) : t.tree \div c.grove_size \in Nat
    BY <2>1, <2>2, DivMod
  <2>4. Contributions(row, 0)' = Contributions(row, 0)
    BY <1>2 DEF Contributions
  <2> QED
    BY <1>2, <2>3, <2>4 DEF GroveOfTree
<1>7. RowProgress(th)'
  <2>1. \A o \in Outputs(c) : ~(o < 0) /\ GrovesAdded(row, o)'
    BY <1>2, <1>4, <1>5 DEF SumInv, Reducing
  <2>2. Adds(reg'[th], {t \in Contributions(row, 0)' : GroveOfTree(t.tree)' < 0})
    BY <1>3, <1>6, ZeroAdds
  <2> QED
    BY <1>2, <1>3, <2>1, <2>2 DEF RowProgress
<1>8. ASSUME NEW other \in Threads \ {th} PROVE RowProgress(other)'
  BY <1>2, <1>3, ProgressKept DEF SumInv, Reducing
<1>9. Reducing'
  <2>1. \A other \in Threads : RowProgress(other)'
    BY <1>7, <1>8
  <2> QED
    BY <1>1, <1>2, <1>5, <2>1 DEF Reducing, SumInv
<1>10. Answered'
  <2>1. \A r \in Rows(c) : Unfinished(r)' <=> Unfinished(r)
    <3>1. ~SecondLoop(th) /\ SecondLoop(th)'
          /\ \A other \in Threads \ {th} : SecondLoop(other)' <=> SecondLoop(other)
      BY <1>2, <1>3 DEF SecondLoop
    <3> QED
      BY <1>1, <1>2, <1>3, <3>1 DEF Unfinished
  <2> QED
    BY <1>2, <2>1 DEF SumInv, Answered
<1> QED
  BY <1>2, <1>9, <1>10, SecondLoopSum

(* Steps that leave the rows claimed as they are leave the output alone. *)
LEMMA AnsweredKept ==
  ASSUME Answered, phase = "reduce", UNCHANGED <<request, phase, output, pending>>,
         \A th \in Threads : at'[th].row = at[th].row /\ (SecondLoop(th)' <=> SecondLoop(th))
  PROVE  Answered'
<1>1. \A row : Unfinished(row)' <=> Unfinished(row)
  BY DEF Unfinished
<1> QED
  BY <1>1 DEF Answered

(* The sum in the register takes in the next grove. *)
LEMMA SumSumGrove ==
  ASSUME \A c \in Calls : Representable(c), RaceInv, SumInv, NEW th \in Threads, SumGrove(th)
  PROVE  SumInv'
<1> DEFINE c == request
           p == at[th]
           element == workspace[Slot(c, p.row, p.comp, p.grove)]
           Low  == {t \in Contributions(p.row, p.comp) : GroveOfTree(t.tree) < p.grove}
           Upto == {t \in Contributions(p.row, p.comp) : GroveOfTree(t.tree) < p.grove + 1}
           Terms == GroveTerms(p.row, p.comp, p.grove)
<1>1. /\ pc[th] = "sum" /\ p.grove < NumGrove(c)
      /\ reg' = [reg EXCEPT ![th] = Plus(reg[th], element)]
      /\ at' = [at EXCEPT ![th] = At(0, p.row, 0, p.comp, p.grove + 1)]
      /\ UNCHANGED <<request, phase, workspace, output, pending, pc>>
  BY DEF SumGrove
<1>2. /\ SecondLoop(th) /\ phase = "reduce" /\ p.row \in Rows(c) /\ p.comp \in Outputs(c)
      /\ p.grove \in 0 .. NumGrove(c)
  BY <1>1, RowOwner DEF SecondLoop
<1>3. /\ Accepted(c) /\ c \in Call /\ NumGrove(c) \in Nat
      /\ workspace \in [0 .. (WorkspaceSize(c) - 1) -> Value]
  BY <1>2, RequestAccepted, Sizes DEF Accepted
<1>4. p.grove \in 0 .. (NumGrove(c) - 1) /\ p.grove \in Nat
  BY <1>1, <1>2, <1>3
<1>5. element \in Value /\ reg[th] \in Value
  BY <1>2, <1>3, <1>4, SlotExact DEF RaceInv, TypeOK
<1>6. /\ at'[th].row = p.row /\ at'[th].comp = p.comp /\ at'[th].grove = p.grove + 1
      /\ reg'[th] = Plus(reg[th], element)
      /\ \A other \in Threads \ {th} : at'[other] = at[other] /\ reg'[other] = reg[other]
  BY <1>1 DEF RaceInv, TypeOK, At
<1>7. RowProgress(th)
  BY <1>2 DEF SumInv, Reducing
<1>8. \A t \in Contributions(p.row, p.comp) : t.tree \in Nat /\ GroveOfTree(t.tree) \in Nat
  <2>1. \A t \in Contributions(p.row, p.comp) : t.tree \in Nat
    BY <1>2, RequestTerms
  <2> QED
    BY <1>3, <2>1, CallFields, DivMod DEF GroveOfTree
<1>9. Adds(Plus(reg[th], element), Low \cup Terms)
  <2>1. Adds(reg[th], Low)
    BY <1>1, <1>7 DEF RowProgress
  <2>2. GrovesAdded(p.row, p.comp)
    <3>1. ~(p.comp < p.comp)
      BY <1>2 DEF Outputs
    <3> QED
      BY <1>1, <1>2, <1>7, <3>1 DEF RowProgress
  <2>3. Adds(element, Terms)
    BY <1>4, <2>2 DEF GrovesAdded
  <2>4. ASSUME NEW s \in Low, NEW t \in Terms PROVE s.tree < t.tree
    <3>1. s.tree \div c.grove_size < t.tree \div c.grove_size /\ s.tree \in Nat /\ t.tree \in Nat
      BY <1>8 DEF GroveTerms, GroveOfTree
    <3> QED
      BY <1>3, <3>1, CallFields, DivOrder
  <2> HIDE DEF Low, Terms, element
  <2> QED
    BY <1>5, <2>1, <2>3, <2>4, SumAdded
<1>10. Upto = Low \cup Terms
  BY <1>4, <1>8 DEF GroveTerms
<1>11. RowProgress(th)'
  <2>1. {t \in Contributions(p.row, p.comp)' : GroveOfTree(t.tree)' < p.grove + 1} = Upto
    BY <1>1, <1>6 DEF Contributions, GroveOfTree
  <2>2. \A o \in Outputs(c) : IF o < p.comp THEN Reduced(p.row, o) ELSE GrovesAdded(p.row, o)
    BY <1>1, <1>7 DEF RowProgress
  <2>3. \A o \in Outputs(c) : /\ GrovesAdded(p.row, o)' <=> GrovesAdded(p.row, o)
                              /\ Reduced(p.row, o)' <=> Reduced(p.row, o)
    <3> DEFINE Same(row) == \A o \in Outputs(c) : /\ GrovesAdded(row, o)' <=> GrovesAdded(row, o)
                                                  /\ Reduced(row, o)' <=> Reduced(row, o)
    <3>1. \A row : Same(row)
      BY <1>1, RowKept
    <3> QED
      BY <1>6, <3>1
  <2> QED
    BY <1>1, <1>6, <1>9, <1>10, <2>1, <2>2, <2>3 DEF RowProgress
<1>12. Reducing'
  BY <1>1, <1>2, <1>6, <1>11, OthersKept
<1>13. Answered'
  BY <1>1, <1>2, <1>6, AnsweredKept DEF SumInv, SecondLoop
<1> QED
  BY <1>1, <1>2, <1>12, <1>13, SecondLoopSum

(* The sum of the groves of an output replaces the first of them; the next
   output of the row is begun, or the row is reduced. *)
LEMMA SumStoreSum ==
  ASSUME \A c \in Calls : Representable(c), RaceInv, SumInv, NEW th \in Threads, StoreSum(th)
  PROVE  SumInv'
<1> DEFINE c == request
           p == at[th]
           slot == Slot(c, p.row, p.comp, 0)
           n == NumOutputs(c)
<1>1. /\ pc[th] = "sum" /\ p.grove = NumGrove(c)
      /\ workspace' = [workspace EXCEPT ![slot] = reg[th]]
      /\ reg' = [reg EXCEPT ![th] = Zero]
      /\ \/ /\ p.comp + 1 < n /\ pc' = pc
            /\ at' = [at EXCEPT ![th] = At(0, p.row, 0, p.comp + 1, 0)]
         \/ p.comp + 1 >= n /\ at' = at /\ pc' = [pc EXCEPT ![th] = "postprocess"]
      /\ UNCHANGED <<request, phase, output, pending>>
  <2>1. n \in Nat /\ p.comp \in Nat
    BY Sizes, CallsAssumption DEF RaceInv, TypeOK, Position
  <2> QED
    BY <2>1 DEF StoreSum
<1>2. /\ SecondLoop(th) /\ phase = "reduce" /\ p.row \in Rows(c) /\ p.comp \in Outputs(c)
  BY <1>1, RowOwner DEF SecondLoop
<1>3. /\ Accepted(c) /\ c \in Call /\ NumGrove(c) \in Nat \ {0} /\ n \in Nat
      /\ workspace \in [0 .. (WorkspaceSize(c) - 1) -> Value]
  BY <1>2, RequestAccepted, Sizes DEF Accepted
<1>4. 0 \in 0 .. (NumGrove(c) - 1) /\ slot \in 0 .. (WorkspaceSize(c) - 1)
  BY <1>2, <1>3, SlotExact
<1>5. /\ p.comp \in Nat /\ p.comp < n /\ \A o \in Outputs(c) : o \in Nat /\ o < n
  BY <1>2, <1>3 DEF Outputs
<1>6. /\ at'[th].row = p.row
      /\ \/ pc'[th] = "sum" /\ at'[th].comp = p.comp + 1 /\ at'[th].grove = 0 /\ p.comp + 1 < n
         \/ pc'[th] = "postprocess" /\ p.comp + 1 >= n
      /\ reg'[th] = Zero
      /\ \A other \in Threads \ {th} :
           at'[other] = at[other] /\ pc'[other] = pc[other] /\ reg'[other] = reg[other]
  BY <1>1 DEF RaceInv, TypeOK, At
<1>7. \A row \in Rows(c), o \in Outputs(c), g \in 0 .. (NumGrove(c) - 1) :
        ~(row = p.row /\ o = p.comp) => workspace'[Slot(c, row, o, g)] = workspace[Slot(c, row, o, g)]
  <2> TAKE row \in Rows(c), o \in Outputs(c), g \in 0 .. (NumGrove(c) - 1)
  <2> HAVE ~(row = p.row /\ o = p.comp)
  <2>1. Slot(c, row, o, g) # slot
    BY <1>2, <1>3, <1>4, SlotUnique
  <2>2. Slot(c, row, o, g) \in 0 .. (WorkspaceSize(c) - 1)
    BY <1>3, SlotExact
  <2> QED
    BY <1>1, <1>3, <2>1, <2>2
<1>8. RowProgress(th)
  BY <1>2 DEF SumInv, Reducing
<1>9. \A o : Contributions(p.row, o)' = Contributions(at'[th].row, o)
  BY <1>1, <1>6 DEF Contributions
<1> DEFINE DoneNow(row, o)  == Adds(workspace'[Slot(c, row, o, 0)], Contributions(row, o))
           OpenNow(row, o) == \A g \in 0 .. (NumGrove(c) - 1) :
                                Adds(workspace'[Slot(c, row, o, g)], GroveTerms(row, o, g))
<1>10. \A row, o : /\ Reduced(row, o)' <=> DoneNow(row, o)
                   /\ GrovesAdded(row, o)' <=> OpenNow(row, o)
  BY <1>1 DEF Reduced, GrovesAdded, Contributions, GroveTerms, GroveOfTree
<1>11. DoneNow(p.row, p.comp)
  <2>1. {t \in Contributions(p.row, p.comp) : GroveOfTree(t.tree) < p.grove} = Contributions(p.row, p.comp)
    <3>1. \A t \in Contributions(p.row, p.comp) : t.tree \div c.grove_size \in 0 .. (NumGrove(c) - 1)
      BY <1>2, <1>3, RequestTerms, GroveRange
    <3> QED
      BY <1>1, <1>3, <3>1 DEF GroveOfTree
  <2>2. workspace'[slot] = reg[th]
    BY <1>1, <1>3, <1>4
  <2> QED
    BY <1>1, <1>8, <2>1, <2>2 DEF RowProgress
<1>12. ASSUME NEW o \in Outputs(c), o < p.comp PROVE DoneNow(p.row, o)
  <2>1. Reduced(p.row, o)
    BY <1>1, <1>8, <1>12 DEF RowProgress
  <2>2. workspace'[Slot(c, p.row, o, 0)] = workspace[Slot(c, p.row, o, 0)]
    BY <1>2, <1>4, <1>5, <1>7, <1>12
  <2> QED
    BY <2>1, <2>2 DEF Reduced
<1>13. ASSUME NEW o \in Outputs(c), p.comp < o PROVE OpenNow(p.row, o)
  <2>1. GrovesAdded(p.row, o)
    BY <1>1, <1>5, <1>8, <1>13 DEF RowProgress
  <2>2. \A g \in 0 .. (NumGrove(c) - 1) : workspace'[Slot(c, p.row, o, g)] = workspace[Slot(c, p.row, o, g)]
    BY <1>2, <1>5, <1>7, <1>13
  <2> QED
    BY <2>1, <2>2 DEF GrovesAdded
<1> HIDE DEF DoneNow, OpenNow
<1>14. \A o \in Outputs(c) : o < p.comp + 1 => DoneNow(p.row, o)
  BY <1>5, <1>11, <1>12
<1>15. RowProgress(th)'
  <2>1. CASE pc'[th] = "sum" /\ at'[th].comp = p.comp + 1 /\ at'[th].grove = 0 /\ p.comp + 1 < n
    <3>1. \A o \in Outputs(c) : IF o < p.comp + 1 THEN DoneNow(p.row, o) ELSE OpenNow(p.row, o)
      BY <1>5, <1>13, <1>14
    <3>2. p.comp + 1 \in Outputs(c)
      BY <1>3, <1>5, <2>1 DEF Outputs
    <3>3. {t \in Contributions(p.row, p.comp + 1) : t.tree \div c.grove_size < 0} = {}
      <4>1. \A t \in Contributions(p.row, p.comp + 1) : t.tree \div c.grove_size \in 0 .. (NumGrove(c) - 1)
        BY <1>2, <1>3, <3>2, RequestTerms, GroveRange
      <4> QED
        BY <4>1
    <3>4. {t \in Contributions(p.row, p.comp)' : GroveOfTree(t.tree)' < at'[th].grove} = {}
      BY <1>1, <1>6, <2>1, <3>3 DEF GroveOfTree, Contributions
    <3>5. Adds(reg'[th], {t \in Contributions(p.row, p.comp)' : GroveOfTree(t.tree)' < at'[th].grove})
      BY <1>6, <3>4, ZeroAdds
    <3>6. \A o \in Outputs(c) : IF o < at'[th].comp THEN Reduced(p.row, o)' ELSE GrovesAdded(p.row, o)'
      BY <1>6, <1>10, <2>1, <3>1
    <3> QED
      BY <1>1, <2>1, <3>5, <3>6 DEF RowProgress
  <2>2. CASE pc'[th] = "postprocess" /\ p.comp + 1 >= n
    <3>1. \A o \in Outputs(c) : DoneNow(p.row, o)
      BY <1>3, <1>5, <1>14, <2>2
    <3>2. \A o \in Outputs(c) : Reduced(p.row, o)'
      BY <1>6, <1>10, <3>1
    <3> QED
      BY <1>1, <2>2, <3>2 DEF RowProgress
  <2> QED
    BY <1>6, <2>1, <2>2
<1>16. Reducing'
  BY <1>1, <1>2, <1>6, <1>7, <1>15, OthersKept
<1>17. Answered'
  <2>1. \A k \in Threads : at'[k].row = at[k].row /\ (SecondLoop(k)' <=> SecondLoop(k))
    BY <1>1, <1>6 DEF SecondLoop
  <2> QED
    BY <1>1, <1>2, <2>1, AnsweredKept DEF SumInv
<1> QED
  BY <1>1, <1>2, <1>16, <1>17, SecondLoopSum

(* What postprocessing a row writes: the results of the row, and nothing
   else in the output or the elements of other rows. *)
LEMMA RowWritten ==
  ASSUME \A c \in Calls : Representable(c), RaceInv, SumInv, NEW th \in Threads, PostProcess(th)
  PROVE  LET n == NumOutputs(request) IN
         /\ \A o \in Outputs(request) :
              /\ output'[at[th].row * n + o] = Transform(workspace[Slot(request, at[th].row, o, 0)])
              /\ Promise!IsResult(output'[at[th].row * n + o], request, at[th].row, o)
              /\ InOrder(output'[at[th].row * n + o])
         /\ \A row \in Rows(request) \ {at[th].row}, o \in Outputs(request) :
              /\ output'[row * n + o] = output[row * n + o]
              /\ \A g \in 0 .. (NumGrove(request) - 1) :
                   workspace'[Slot(request, row, o, g)] = workspace[Slot(request, row, o, g)]
<1> DEFINE c == request
           mine == at[th].row
           n == NumOutputs(c)
           base == OutputIndex(c, mine, 0)
<1>1. /\ pc[th] = "postprocess"
      /\ workspace' = [i \in DOMAIN workspace |->
                         IF \E o \in Outputs(c) : i = Slot(c, mine, o, 0)
                         THEN Transform(workspace[i]) ELSE workspace[i]]
      /\ output' = [i \in DOMAIN output |->
                      IF \E o \in Outputs(c) : i = OutputIndex(c, mine, o)
                      THEN Transform(workspace[Slot(c, mine, i - base, 0)])
                      ELSE output[i]]
  BY DEF PostProcess
<1>2. SecondLoop(th) /\ phase = "reduce" /\ mine \in Rows(c)
  BY <1>1, RowOwner DEF SecondLoop
<1>3. /\ Accepted(c) /\ c \in Call /\ NumGrove(c) \in Nat \ {0} /\ n \in Nat \ {0}
      /\ workspace \in [0 .. (WorkspaceSize(c) - 1) -> Value]
      /\ output \in [0 .. (c.row_count * n - 1) -> Value]
  BY <1>2, RequestAccepted, Sizes DEF Accepted, RaceInv, TypeOK
<1>4. 0 \in 0 .. (NumGrove(c) - 1) /\ 0 \in Outputs(c)
  BY <1>3 DEF Outputs
<1>5. \A row \in Rows(c), o \in Outputs(c) :
        /\ OutputIndex(c, row, o) = row * n + o
        /\ row * n + o \in DOMAIN output
        /\ row \in Nat /\ row * n \in Nat /\ o \in Nat /\ o < n
  <2> TAKE row \in Rows(c), o \in Outputs(c)
  <2>1. row \in Nat /\ o \in Nat /\ o < n
    BY <1>3, CallFields DEF Rows, Outputs
  <2>2. row * n \in Nat
    BY <1>3, <2>1, MulNat
  <2>3. OutputIndex(c, row, o) = row * n + o /\ row * n + o \in 0 .. (c.row_count * n - 1)
    BY <1>3, OutputIndexExact
  <2> QED
    BY <1>3, <2>1, <2>2, <2>3
<1>6. ASSUME NEW o \in Outputs(c)
      PROVE  /\ output'[mine * n + o] = Transform(workspace[Slot(c, mine, o, 0)])
             /\ Promise!IsResult(output'[mine * n + o], c, mine, o)
             /\ InOrder(output'[mine * n + o])
  <2> DEFINE i == mine * n + o
             v == workspace[Slot(c, mine, o, 0)]
  <2>1. base = mine * n + 0 /\ i = OutputIndex(c, mine, o) /\ i \in DOMAIN output
        /\ mine * n \in Nat /\ o \in Nat
    BY <1>2, <1>4, <1>5
  <2>2. i - base = o
    BY <2>1
  <2>3. output'[i] = Transform(v)
    BY <1>1, <2>1, <2>2
  <2>4. v \in Value
    BY <1>2, <1>3, <1>4, SlotExact
  <2>5. Adds(v, Promise!Contributions(c, mine, o))
    BY <1>1, <1>2 DEF SumInv, Reducing, RowProgress, Reduced, Contributions
  <2>6. \A t \in Promise!Contributions(c, mine, o) : t.tree \in Int
    BY <1>2, RequestTerms DEF Contributions
  <2> HIDE DEF v, i, c, mine
  <2>7. Promise!IsResult(Transform(v), c, mine, o) /\ InOrder(Transform(v))
    BY <2>4, <2>5, <2>6, ResultOfSum
  <2> QED
    BY <2>3, <2>7 DEF v, i
<1>7. ASSUME NEW row \in Rows(c) \ {mine}, NEW o \in Outputs(c)
      PROVE  output'[row * n + o] = output[row * n + o]
  <2>1. ASSUME NEW u \in Outputs(c), row * n + o = OutputIndex(c, mine, u) PROVE FALSE
    <3>1. row * n + o = mine * n + u
      BY <1>2, <1>5, <2>1
    <3>2. /\ row \in Nat /\ mine \in Nat /\ o \in Nat /\ o < n /\ u \in Nat /\ u < n
          /\ row # mine
      BY <1>2, <1>5, <1>7
    <3> HIDE DEF mine, n, c
    <3>3. n \in Nat
      BY <1>3
    <3> QED
      BY <3>1, <3>2, <3>3, BlockUnique
  <2> QED
    BY <1>1, <1>5, <2>1
<1>8. ASSUME NEW row \in Rows(c) \ {mine}, NEW o \in Outputs(c), NEW g \in 0 .. (NumGrove(c) - 1)
      PROVE  workspace'[Slot(c, row, o, g)] = workspace[Slot(c, row, o, g)]
  <2>1. \A u \in Outputs(c) : Slot(c, row, o, g) # Slot(c, mine, u, 0)
    BY <1>2, <1>3, <1>4, SlotUnique
  <2>2. Slot(c, row, o, g) \in DOMAIN workspace
    BY <1>3, SlotExact
  <2> QED
    BY <1>1, <2>1, <2>2
<1> QED
  BY <1>6, <1>7, <1>8

(* A postprocessed row has its results; the other rows stay as they are. *)
LEMMA SumPostProcess ==
  ASSUME \A c \in Calls : Representable(c), RaceInv, SumInv, NEW th \in Threads, PostProcess(th)
  PROVE  SumInv'
<1> DEFINE c == request
           mine == at[th].row
           n == NumOutputs(c)
<1>1. /\ pc[th] = "postprocess" /\ pc' = [pc EXCEPT ![th] = "idle"]
      /\ UNCHANGED <<request, phase, pending, at, reg>>
  BY DEF PostProcess
<1>2. /\ SecondLoop(th) /\ phase = "reduce" /\ mine \in Rows(c) \ pending
      /\ \A other \in Threads \ {th} : SecondLoop(other) => at[other].row # mine
  BY <1>1, RowOwner DEF SecondLoop
<1>3. pc'[th] = "idle" /\ \A other \in Threads \ {th} : pc'[other] = pc[other]
  BY <1>1 DEF RaceInv, TypeOK
<1>4. RowProgress(th)'
  BY <1>3 DEF RowProgress
<1>5. \A row \in Rows(c) \ {mine}, o \in Outputs(c), g \in 0 .. (NumGrove(c) - 1) :
        workspace'[Slot(c, row, o, g)] = workspace[Slot(c, row, o, g)]
  BY RowWritten
<1>6. Reducing'
  BY <1>1, <1>2, <1>3, <1>4, <1>5, OthersKept
<1>7. \A other \in Threads : SecondLoop(other)' <=> other # th /\ SecondLoop(other)
  BY <1>3 DEF SecondLoop
<1>8. ASSUME NEW row \in Rows(c), NEW o \in Outputs(c)
      PROVE  LET v == output'[row * n + o] IN
             IF Unfinished(row)' THEN v = Zero ELSE Promise!IsResult(v, c, row, o) /\ InOrder(v)
  <2>1. CASE row = mine
    <3>1. ~Unfinished(row)'
      BY <1>1, <1>2, <1>7, <2>1 DEF Unfinished
    <3>2. Promise!IsResult(output'[row * n + o], c, row, o) /\ InOrder(output'[row * n + o])
      BY <2>1, RowWritten
    <3> QED
      BY <3>1, <3>2
  <2>2. CASE row # mine
    <3>1. Unfinished(row)' <=> Unfinished(row)
      BY <1>1, <1>2, <1>7, <2>2 DEF Unfinished
    <3>2. output'[row * n + o] = output[row * n + o]
      BY <2>2, RowWritten
    <3>3. LET v == output[row * n + o] IN
          IF Unfinished(row) THEN v = Zero ELSE Promise!IsResult(v, c, row, o) /\ InOrder(v)
      BY DEF SumInv, Answered
    <3> QED
      BY <3>1, <3>2, <3>3
  <2> QED
    BY <2>1, <2>2
<1>9. Answered'
  BY <1>1, <1>8 DEF Answered
<1> QED
  BY <1>1, <1>2, <1>6, <1>9, SecondLoopSum

-----------------------------------------------------------------------------
(* The inductive invariant *)

(* The output has an element for every output of every row. *)
LEMMA OutputIndexed ==
  ASSUME NEW c \in Call
  PROVE  /\ \A row \in Rows(c), o \in Outputs(c) :
              row * NumOutputs(c) + o \in 0 .. (c.row_count * NumOutputs(c) - 1)
         /\ \A i \in 0 .. (c.row_count * NumOutputs(c) - 1) :
              \E row \in Rows(c), o \in Outputs(c) : i = row * NumOutputs(c) + o
<1> DEFINE n == NumOutputs(c)
           m == c.row_count
<1>1. n \in Nat \ {0} /\ m \in Nat /\ Rows(c) = 0 .. (m - 1) /\ Outputs(c) = 0 .. (n - 1)
  BY Sizes, CallFields DEF Rows, Outputs
<1> HIDE DEF n, m
<1>2. m * n \in Nat
  BY <1>1, MulNat
<1>3. ASSUME NEW row \in 0 .. (m - 1), NEW o \in 0 .. (n - 1)
      PROVE  row * n + o \in 0 .. (m * n - 1)
  <2>1. row * n + o < m * n /\ row * n \in Nat
    BY <1>1, BlockOrder, MulNat
  <2> QED
    BY <1>1, <1>2, <2>1
<1>4. ASSUME NEW i \in 0 .. (m * n - 1)
      PROVE  \E row \in 0 .. (m - 1), o \in 0 .. (n - 1) : i = row * n + o
  <2> DEFINE q == i \div n
             r == i % n
  <2>1. i \in Nat /\ i < m * n
    BY <1>2
  <2>2. q \in Nat /\ r \in 0 .. (n - 1) /\ i = q * n + r
    BY <1>1, <2>1, DivMod
  <2> HIDE DEF q, r
  <2>3. q < m
    <3>1. SUFFICES ASSUME m <= q PROVE FALSE
      BY <1>1, <2>2
    <3>2. m * n <= q * n /\ q * n \in Nat
      BY <1>1, <2>2, <3>1, MulMono, MulNat
    <3> QED
      BY <1>1, <1>2, <2>1, <2>2, <3>2
  <2>4. q \in 0 .. (m - 1)
    BY <1>1, <2>2, <2>3
  <2> QED
    BY <2>2, <2>4
<1> QED
  BY <1>1, <1>3, <1>4 DEF n, m

(* Nothing has been added before the loops begin. *)
LEMMA SumInvInit == Init => SumInv
<1> SUFFICES ASSUME Init PROVE SumInv
  OBVIOUS
<1>1. request \in Call /\ phase = "called"
  BY CallsAssumption DEF Init
<1>2. Accumulated /\ Reducing
  BY <1>1 DEF Accumulated, Reducing
<1>3. Answered
  BY <1>1, OutputIndexed DEF Init, Answered, Unfinished
<1> QED
  BY <1>2, <1>3 DEF SumInv

(* When the second loop is over, every row has been answered. *)
LEMMA SumFinish ==
  ASSUME SumInv, Finish
  PROVE  SumInv'
<1>1. /\ phase = "reduce" /\ phase' = "done" /\ pending = {}
      /\ \A th \in Threads : ~SecondLoop(th)
      /\ UNCHANGED <<request, workspace, output, pending, pc, at, reg>>
  BY DEF Finish, AllIdle, SecondLoop
<1>2. \A row : ~Unfinished(row) /\ ~Unfinished(row)'
  BY <1>1 DEF Unfinished
<1>3. Answered'
  BY <1>1, <1>2 DEF SumInv, Answered
<1>4. Accumulated' /\ Reducing'
  BY <1>1 DEF Accumulated, Reducing
<1> QED
  BY <1>3, <1>4 DEF SumInv

(* A refusal leaves the sums alone. *)
LEMMA SumRefuse ==
  ASSUME SumInv, Refuse
  PROVE  SumInv'
<1>1. /\ phase = "called" /\ phase' = "refused"
      /\ UNCHANGED <<request, workspace, output, pending, pc, at, reg>>
  BY DEF Refuse
<1>2. Answered'
  BY <1>1 DEF SumInv, Answered, Unfinished
<1>3. Accumulated' /\ Reducing'
  BY <1>1 DEF Accumulated, Reducing
<1> QED
  BY <1>2, <1>3 DEF SumInv

(* So does a step that changes nothing. *)
LEMMA SumStutter ==
  ASSUME RaceInv, SumInv, UNCHANGED vars
  PROVE  SumInv'
<1>1. UNCHANGED <<request, phase, workspace, output, pending, pc, at, reg>>
  BY DEF vars
<1>2. CASE phase = "infer"
  <2>1. \A row, t : Outstanding(row, t)' <=> Outstanding(row, t)
    BY <1>1 DEF Outstanding, FirstLoop, Covers, Before
  <2> QED
    BY <1>1, <1>2, <2>1, SumKept DEF SumInv, Accumulated
<1>3. CASE phase # "infer"
  <2>1. Accumulated'
    BY <1>1, <1>3 DEF Accumulated
  <2>2. Reducing'
    <3>1. SUFFICES ASSUME phase = "reduce" PROVE Reducing'
      BY <1>1 DEF Reducing
    <3>2. \A row : \A o \in Outputs(request) : GrovesAdded(row, o)' <=> GrovesAdded(row, o)
      BY <1>1, RowKept
    <3>3. \A th \in Threads : RowProgress(th)'
      BY <1>1, <3>1, ProgressKept DEF SumInv, Reducing
    <3> QED
      BY <1>1, <3>1, <3>2, <3>3 DEF SumInv, Reducing
  <2>3. Answered'
    BY <1>1 DEF SumInv, Answered, Unfinished, SecondLoop
  <2> QED
    BY <2>1, <2>2, <2>3 DEF SumInv
<1> QED
  BY <1>2, <1>3

(* Every step keeps the sums what they are to be. *)
LEMMA SumInvStep ==
  ASSUME \A c \in Calls : Representable(c), RaceInv, SumInv, [Next]_vars
  PROVE  SumInv'
<1>1. CASE Refuse
  BY <1>1, SumRefuse
<1>2. CASE Launch
  BY <1>2, SumLaunch
<1>3. CASE Barrier
  BY <1>3, SumBarrier
<1>4. CASE Finish
  BY <1>4, SumFinish
<1>5. ASSUME NEW th \in Threads, Step(th) PROVE SumInv'
  BY <1>5, SumClaimTask, SumEvaluate, SumAccumulate, SumClaimRow, SumSumGrove, SumStoreSum, SumPostProcess
     DEF Step
<1>6. CASE UNCHANGED vars
  BY <1>6, SumStutter
<1>7. CASE Over
  BY <1>6, <1>7 DEF Over
<1> QED
  BY <1>1, <1>2, <1>3, <1>4, <1>5, <1>6, <1>7 DEF Next

-----------------------------------------------------------------------------
(* Theorems *)

(* In every reachable state every element of the workspace and the output of
   infer_kernel_cpu is the sum, in the order of the trees, of exactly the
   tree outputs added to it so far. *)
THEOREM KernelInvariant ==
  ASSUME \A c \in Calls : Representable(c)
  PROVE  Spec => []KernelInv
<1>1. Init => KernelInv
  BY RaceInvInit, SumInvInit DEF KernelInv
<1>2. KernelInv /\ [Next]_vars => KernelInv'
  BY RaceInvStep, SumInvStep DEF KernelInv
<1> QED
  BY <1>1, <1>2, PTL DEF Spec

(* Whatever thread runs which task when, an output adds its trees in
   ascending order: floating-point results are reproducible although the
   schedule is not. *)
THEOREM ScheduleIndependence ==
  ASSUME \A c \in Calls : Representable(c)
  PROVE  Spec => []ScheduleIndependent
<1>1. KernelInv => ScheduleIndependent
  <2> SUFFICES ASSUME KernelInv, NEW i \in DOMAIN output PROVE InOrder(output[i])
    BY DEF ScheduleIndependent
  <2>1. request \in Call /\ i \in 0 .. (request.row_count * NumOutputs(request) - 1)
    BY CallsAssumption DEF KernelInv, RaceInv, TypeOK
  <2>2. PICK row \in Rows(request), o \in Outputs(request) : i = row * NumOutputs(request) + o
    BY <2>1, OutputIndexed
  <2>3. output[i] = Zero \/ InOrder(output[i])
    BY <2>2 DEF KernelInv, SumInv, Answered
  <2>4. InOrder(Zero)
    BY ZeroAdds DEF Adds
  <2> QED
    BY <2>3, <2>4
<1> QED
  BY <1>1, KernelInvariant, PTL

(* When the kernel returns, every output of every row is the sum of its tree
   outputs, each counted once and postprocessed once. *)
THEOREM ResultsAreCorrect ==
  ASSUME \A c \in Calls : Representable(c)
  PROVE  Spec => []ResultsCorrect
<1>1. KernelInv => ResultsCorrect
  <2> SUFFICES ASSUME KernelInv, phase = "done", NEW r \in Rows(request), NEW o \in Outputs(request)
               PROVE  Promise!IsResult(output[r * NumOutputs(request) + o], request, r, o)
    BY DEF ResultsCorrect
  <2>1. ~Unfinished(r)
    BY DEF Unfinished
  <2> QED
    BY <2>1 DEF KernelInv, SumInv, Answered
<1> QED
  BY <1>1, KernelInvariant, PTL

-----------------------------------------------------------------------------
(* Refinement *)

(* ForestInference is about the same requests and values. *)
LEMMA SameRequest ==
  /\ Promise!Zero = Zero
  /\ \A c : Promise!Rows(c) = Rows(c) /\ Promise!Outputs(c) = Outputs(c)
<1>1. \A c : Promise!NumOutputs(c) = NumOutputs(c)
  BY DEF Promise!NumOutputs, NumOutputs
<1> QED
  BY <1>1 DEF Promise!Zero, Zero, Promise!Rows, Rows, Promise!Outputs, Outputs

(* A call starts with an output of zeros. *)
LEMMA InitRefines == Init => Promise!Init
<1> SUFFICES ASSUME Init PROVE Promise!Init
  OBVIOUS
<1>1. request \in Call /\ phase = "called" /\ request \in Calls
  BY CallsAssumption DEF Init
<1>2. Status = "running"
  BY <1>1 DEF Status
<1>3. \A row \in Rows(request), o \in Outputs(request) : output[row * NumOutputs(request) + o] = Zero
  BY <1>1, OutputIndexed DEF Init
<1>4. Result = [row \in Rows(request) |-> [o \in Outputs(request) |-> Zero]]
  BY <1>3 DEF Result
<1> HIDE DEF Result, Status, Promise!Rows, Promise!Outputs, Promise!Zero
<1> QED
  BY <1>1, <1>2, <1>4, SameRequest DEF Promise!Init

(* Before a row is finished the output has nothing of it. *)
LEMMA UnfinishedUnwritten ==
  ASSUME SumInv, NEW row \in Rows(request), Unfinished(row)
  PROVE  Promise!Unwritten(row)
<1>1. \A o \in Outputs(request) : Result[row][o] = Zero
  BY DEF Result, SumInv, Answered
<1> HIDE DEF Result
<1> QED
  BY <1>1, SameRequest DEF Promise!Unwritten

(* A refused call has written nothing. *)
LEMMA RefuseRefines ==
  ASSUME SumInv, Refuse
  PROVE  Promise!Refuse
<1>1. phase = "called" /\ phase' = "refused" /\ UNCHANGED <<request, output>>
  BY DEF Refuse
<1>2. Status = "running" /\ Status' = "refused"
  BY <1>1 DEF Status
<1>3. Result' = Result
  BY <1>1 DEF Result
<1>4. \A row \in Rows(request) : Promise!Unwritten(row)
  BY <1>1, UnfinishedUnwritten DEF Unfinished
<1> HIDE DEF Result, Status
<1> QED
  BY <1>1, <1>2, <1>3, <1>4, SameRequest DEF Promise!Refuse

(* Postprocessing a row writes it: it had not been written, it gets its
   results, and the other rows keep theirs. *)
LEMMA PostProcessRefines ==
  ASSUME \A c \in Calls : Representable(c), RaceInv, SumInv, NEW th \in Threads, PostProcess(th)
  PROVE  \E row \in Rows(request) : Promise!WriteRow(row)
<1> DEFINE c == request
           mine == at[th].row
           n == NumOutputs(c)
<1>1. /\ pc[th] = "postprocess" /\ UNCHANGED <<request, phase, at>>
      /\ SecondLoop(th) /\ phase = "reduce" /\ mine \in Rows(c)
  BY RowOwner DEF PostProcess, SecondLoop
<1>2. Status = "running" /\ Status' = Status
  BY <1>1 DEF Status
<1>3. Promise!Unwritten(mine)
  BY <1>1, UnfinishedUnwritten DEF Unfinished
<1>4. /\ Result = [r \in Rows(c) |-> [o \in Outputs(c) |-> output[r * n + o]]]
      /\ Result' = [r \in Rows(c) |-> [o \in Outputs(c) |-> output'[r * n + o]]]
  BY <1>1 DEF Result
<1>5. \A r \in Rows(c) \ {mine}, o \in Outputs(c) : output'[r * n + o] = output[r * n + o]
  BY RowWritten
<1>6. \A o \in Outputs(c) : Promise!IsResult(output'[mine * n + o], c, mine, o)
  BY RowWritten
<1> HIDE DEF Result, Status, c, n
<1>7. \A r \in Rows(c) \ {mine} : Result'[r] = Result[r]
  BY <1>4, <1>5
<1>8. Result' = [Result EXCEPT ![mine] = Result'[mine]]
  BY <1>1, <1>4, <1>7
<1>9. \A o \in Outputs(c) : Result'[mine][o] = output'[mine * n + o]
  BY <1>1, <1>4 DEF c
<1>10. \A o \in Outputs(c) : Promise!IsResult(Result'[mine][o], c, mine, o)
  BY <1>6, <1>9
<1>11. Promise!WriteRow(mine)
  BY <1>1, <1>2, <1>3, <1>8, <1>10, SameRequest DEF Promise!WriteRow, c
<1> QED
  BY <1>1, <1>11 DEF c

(* The kernel returns when every row has its results. *)
LEMMA FinishRefines ==
  ASSUME SumInv, Finish
  PROVE  Promise!Return
<1>1. /\ phase = "reduce" /\ phase' = "done" /\ pending = {} /\ UNCHANGED <<request, output>>
      /\ \A th \in Threads : ~SecondLoop(th)
  BY DEF Finish, AllIdle, SecondLoop
<1>2. Status = "running" /\ Status' = "returned"
  BY <1>1 DEF Status
<1>3. Result' = Result
  BY <1>1 DEF Result
<1>4. \A row \in Rows(request), o \in Outputs(request) : Promise!IsResult(Result[row][o], request, row, o)
  <2>1. \A row \in Rows(request) : ~Unfinished(row)
    BY <1>1 DEF Unfinished
  <2>2. \A row \in Rows(request), o \in Outputs(request) :
          /\ Result[row][o] = output[row * NumOutputs(request) + o]
          /\ Promise!IsResult(output[row * NumOutputs(request) + o], request, row, o)
    BY <2>1 DEF Result, SumInv, Answered
  <2> QED
    BY <2>2
<1> HIDE DEF Result, Status
<1> QED
  BY <1>1, <1>2, <1>3, <1>4, SameRequest DEF Promise!Return

(* Nothing else is seen of the kernel from outside. *)
LEMMA InnerStep ==
  ASSUME RaceInv, Launch \/ Barrier \/ Over \/ UNCHANGED vars
                    \/ \E th \in Threads : ClaimTask(th) \/ Evaluate(th) \/ Accumulate(th)
                                           \/ ClaimRow(th) \/ SumGrove(th) \/ StoreSum(th)
  PROVE  UNCHANGED <<request, Status, Result>>
<1>1. UNCHANGED <<request, output>>
  BY DEF Launch, Barrier, Over, vars, ClaimTask, Evaluate, Accumulate, ClaimRow, SumGrove, StoreSum
<1>2. Result' = Result
  BY <1>1 DEF Result
<1>3. Status' = Status
  <2>1. phase' = phase \/ (phase \in {"called", "infer"} /\ phase' \in {"infer", "reduce"})
    BY DEF Launch, Barrier, Over, vars, ClaimTask, Evaluate, Accumulate, ClaimRow, SumGrove, StoreSum
  <2> QED
    BY <2>1 DEF Status
<1> QED
  BY <1>1, <1>2, <1>3

(* infer_kernel_cpu implements ForestInference: under every schedule a row of
   the output is written in one go, once, with its results, and a call that
   is refused has written nothing. *)
THEOREM KernelImplements ==
  ASSUME \A c \in Calls : Representable(c)
  PROVE  Spec => Implements
<1>1. Init => Promise!Init
  BY InitRefines
<1>2. KernelInv /\ [Next]_vars => [Promise!Next]_(Promise!absVars)
  <2> SUFFICES ASSUME RaceInv, SumInv, [Next]_vars PROVE [Promise!Next]_(Promise!absVars)
    BY DEF KernelInv
  <2>1. CASE Refuse
    BY <2>1, RefuseRefines DEF Promise!Next
  <2>2. CASE Finish
    BY <2>2, FinishRefines DEF Promise!Next
  <2>3. ASSUME NEW th \in Threads, PostProcess(th) PROVE Promise!Next
    <3>1. \E row \in Rows(request) : Promise!WriteRow(row)
      BY <2>3, PostProcessRefines
    <3> QED
      BY <3>1, SameRequest DEF Promise!Next
  <2>4. CASE Launch \/ Barrier \/ Over \/ UNCHANGED vars
               \/ \E th \in Threads : ClaimTask(th) \/ Evaluate(th) \/ Accumulate(th)
                                      \/ ClaimRow(th) \/ SumGrove(th) \/ StoreSum(th)
    <3>1. UNCHANGED <<request, Status, Result>>
      BY <2>4, InnerStep
    <3> QED
      BY <3>1 DEF Promise!absVars
  <2> QED
    BY <2>1, <2>2, <2>3, <2>4 DEF Next, Step
<1> QED
  BY <1>1, <1>2, KernelInvariant, PTL DEF Spec, Implements, Promise!Spec
=============================================================================

---------------------------- MODULE GpuInferProofs ----------------------------
(***************************************************************************)
(* Proofs about the GPU kernel and its launch, for any request, device and *)
(* chunk size whose rows have a size the index type can represent: the     *)
(* types, where the threads of a block are and that they never meet.       *)
(*                                                                         *)
(* The second half is about results: what a grid writes is what            *)
(* ForestInference promises, added up in the one order its configuration   *)
(* decides.  There SumInv, which says what the memory of a block holds, is *)
(* carried through every step of a thread, a warp and a block.  First come *)
(* the sums themselves: which tree outputs a grove, a shuffle and a batch  *)
(* of groves collect.                                                      *)
(***************************************************************************)
EXTENDS GpuInfer, RequestLemmas

-----------------------------------------------------------------------------
(* Index arithmetic *)

(* Arithmetic of index_type is exact as long as the result fits. *)
LEMMA NoWrap ==
  ASSUME NEW x \in Int
  PROVE  /\ U(x) \in Nat
         /\ U(x) < IndexMod
         /\ x \in Nat /\ x < IndexMod => U(x) = x
<1>1. IndexMod \in Nat \ {0}
  BY LaunchAssumption
<1>2. x % IndexMod \in 0 .. (IndexMod - 1)
  BY <1>1
<1>3. x \in Nat /\ x < IndexMod => x % IndexMod = x
  BY <1>1, DivMod
<1> QED
  BY <1>1, <1>2, <1>3 DEF U

(* A size that is a multiple of a is one of each divisor of a. *)
LEMMA MultipleOf ==
  ASSUME NEW x \in Nat, NEW a \in Nat \ {0}, NEW b \in Nat \ {0}, x % a = 0, a % b = 0
  PROVE  \E q \in Nat : x = q * b
<1> DEFINE m == x \div a
           n == a \div b
<1>1. m \in Nat /\ n \in Nat
  BY DivMod
<1>2. x = m * a + 0
  BY DivMod
<1>3. a = n * b + 0
  BY DivMod
<1> HIDE DEF m, n
<1>4. m * a \in Nat /\ n * b \in Nat
  BY <1>1, MulNat
<1>5. x = m * (n * b)
  BY <1>2, <1>3, <1>4
<1>6. m * (n * b) = (m * n) * b /\ m * n \in Nat
  BY <1>1, MulNat
<1> QED
  BY <1>5, <1>6

-----------------------------------------------------------------------------
(* The launch configuration *)

(* The threads of a block are whole warps, of which there is at least one. *)
LEMMA ThreadsOf ==
  ASSUME NEW v \in Nat, NEW n, n = Least(MAX_THREADS_PER_BLOCK, DownpaddedSize(v, WARP_SIZE)),
         n >= WARP_SIZE
  PROVE  n \in Nat \ {0} /\ n % WARP_SIZE = 0 /\ n <= MAX_THREADS_PER_BLOCK
<1>1. WARP_SIZE \in Nat \ {0} /\ MAX_THREADS_PER_BLOCK \in Nat \ {0}
      /\ MAX_THREADS_PER_BLOCK % WARP_SIZE = 0
  BY LaunchAssumption
<1> DEFINE q == v \div WARP_SIZE
           r == v % WARP_SIZE
<1>2. q \in Nat /\ r \in 0 .. (WARP_SIZE - 1) /\ v = q * WARP_SIZE + r
  BY <1>1, DivMod
<1>3. DownpaddedSize(v, WARP_SIZE) = v - r
  BY DEF DownpaddedSize
<1> HIDE DEF q, r
<1>4. q * WARP_SIZE \in Nat /\ v - r = q * WARP_SIZE + 0
  BY <1>1, <1>2, MulNat
<1>5. 0 \in 0 .. (WARP_SIZE - 1)
  BY <1>1
<1>6. (q * WARP_SIZE + 0) % WARP_SIZE = 0
  BY <1>1, <1>2, <1>5, DivUnique
<1>7. (v - r) % WARP_SIZE = 0 /\ v - r \in Nat
  BY <1>4, <1>6
<1> DEFINE m == v - r
<1>8. IF MAX_THREADS_PER_BLOCK < m THEN n = MAX_THREADS_PER_BLOCK ELSE n = m
  BY <1>3 DEF Least
<1>9. m \in Nat /\ m % WARP_SIZE = 0
  BY <1>7
<1> HIDE DEF m
<1> QED
  BY <1>1, <1>8, <1>9

(* The threads of a block, and the bytes of a row it keeps in shared memory. *)
LEMMA BlockSize ==
  ASSUME NEW c \in Call, NEW d \in Device, Representable(c), NEW t, t = Threads0(c, d)
  PROVE  /\ t.threads_per_block \in Nat \ {0}
         /\ t.threads_per_block % WARP_SIZE = 0
         /\ t.threads_per_block <= MAX_THREADS_PER_BLOCK
         /\ t.row_size_bytes \in {0, ItemBytes * c.col_count}
<1> DEFINE size  == RowSizeBytes(c)
           osize == RowOutputSizeBytes(c)
           choice(threads, bytes) == [threads_per_block |-> threads, row_size_bytes |-> bytes]
           x == U(d.shared_per_block - size) \div osize
           y == d.shared_per_block \div osize
           z == d.shared_per_block \div size
           fit(v) == Least(MAX_THREADS_PER_BLOCK, DownpaddedSize(v, WARP_SIZE))
<1>1. /\ IndexMod \in Nat \ {0} /\ ItemBytes \in Nat \ {0}
      /\ WARP_SIZE \in Nat \ {0} /\ MAX_THREADS_PER_BLOCK \in Nat \ {0}
      /\ MAX_THREADS_PER_BLOCK % WARP_SIZE = 0
  BY LaunchAssumption
<1>2. size \in Nat \ {0} /\ osize \in Nat \ {0} /\ size = ItemBytes * c.col_count
  <2>1. \A n \in Nat \ {0} : ItemBytes * n \in Nat \ {0}
    BY <1>1
  <2>2. \A n \in Nat \ {0} : ItemBytes * n < IndexMod => U(ItemBytes * n) = ItemBytes * n
    BY <2>1, NoWrap
  <2>3. c.col_count \in Nat \ {0} /\ NumOutputs(c) \in Nat \ {0}
    BY CallFields, OutputSizes
  <2> QED
    BY <2>1, <2>2, <2>3 DEF RowSizeBytes, RowOutputSizeBytes, Representable
<1>3. x \in Nat /\ y \in Nat /\ z \in Nat
  <2>1. d.shared_per_block \in Nat
    BY DEF Device
  <2> HIDE DEF size, osize
  <2>2. U(d.shared_per_block - size) \in Nat
    BY <1>2, <2>1, NoWrap
  <2> QED
    BY <1>2, <2>1, <2>2, DivMod
<1>4. t = IF fit(x) >= WARP_SIZE THEN choice(fit(x), size)
          ELSE IF fit(y) >= WARP_SIZE THEN choice(fit(y), 0)
          ELSE IF fit(z) >= WARP_SIZE THEN choice(fit(z), size)
          ELSE choice(MAX_THREADS_PER_BLOCK, size)
  BY DEF Threads0, ThreadsFor
<1> HIDE DEF x, y, z, size, osize, fit
<1>5. \A v \in Nat : fit(v) >= WARP_SIZE =>
        fit(v) \in Nat \ {0} /\ fit(v) % WARP_SIZE = 0 /\ fit(v) <= MAX_THREADS_PER_BLOCK
  BY ThreadsOf DEF fit
<1> QED
  BY <1>1, <1>2, <1>3, <1>4, <1>5

(* What a block iteration needs for its outputs is a size. *)
LEMMA OutputSizeNat ==
  ASSUME NEW c \in Call, NEW threads \in Nat, NEW rows \in Nat \ {0}
  PROVE  ComputeOutputSize(c, threads, rows) \in Nat
<1> DEFINE n == IF c.infer_type = "default" THEN CeilDiv(threads, rows) ELSE 1
           m == U(NumOutputs(c) * rows)
<1>1. n \in Nat
  BY CeilDivBounds
<1>2. NumOutputs(c) \in Nat
  BY OutputSizes
<1>3. m \in Nat
  BY <1>2, MulNat, NoWrap
<1> HIDE DEF n, m
<1>4. m * n \in Nat
  BY <1>1, <1>3, MulNat
<1>5. U(m * n) \in Nat
  BY <1>4, NoWrap
<1> QED
  BY <1>5 DEF ComputeOutputSize, n, m

-----------------------------------------------------------------------------
(* The loop that halves the rows of a block iteration *)

(* One round of Halve with r rows, whose next round is trial[r \div 2]. *)
Round(c, d, t, trial, r) ==
  LET size   == ComputeOutputSize(c, t.threads_per_block, r)
      shared == U(r * t.row_size_bytes + U(ItemBytes * size))
      result(n) == [rows |-> n, output_workspace_size |-> size, shared_mem |-> shared]
  IN  IF shared <= MaxOverallSharedMem(d) THEN result(r)
      ELSE IF r \div 2 > 1 THEN trial[r \div 2] ELSE result(r \div 2)

Trials(c, d, t, n, trial) == trial = [r \in 0 .. n |-> Round(c, d, t, trial, r)]

(* The rounds before r rows are reached do not matter. *)
LEMMA SameRound ==
  ASSUME NEW c, NEW d, NEW t, NEW r \in Nat, NEW f, NEW g,
         r \div 2 > 1 => f[r \div 2] = g[r \div 2]
  PROVE  Round(c, d, t, f, r) = Round(c, d, t, g, r)
  BY DEF Round

(* The recursion is well-founded: there are such rounds. *)
LEMMA TrialsExist ==
  ASSUME NEW c, NEW d, NEW t, NEW rows \in Nat
  PROVE  \E trial : Trials(c, d, t, rows, trial)
<1> DEFINE Fail == {n \in Nat : ~ \E trial : Trials(c, d, t, n, trial)}
<1>1. SUFFICES ASSUME Fail # {} PROVE FALSE
  OBVIOUS
<1>2. PICK n \in Fail : \A m \in Fail : n <= m
  BY <1>1, LeastNat
<1>3. n \in Nat /\ ~ \E trial : Trials(c, d, t, n, trial)
  BY <1>2
<1>4. PICK g : n > 0 => Trials(c, d, t, n - 1, g)
  <2>1. CASE n > 0
    <3>1. n - 1 \in Nat /\ ~(n <= n - 1)
      BY <1>3, <2>1
    <3>2. n - 1 \notin Fail
      BY <1>2, <3>1
    <3> QED
      BY <3>1, <3>2
  <2> QED
    BY <2>1
<1> DEFINE h == [r \in 0 .. n |-> IF r = n THEN Round(c, d, t, g, n) ELSE g[r]]
<1>5. ASSUME NEW r \in 0 .. n PROVE h[r] = Round(c, d, t, h, r)
  <2>1. r \in Nat /\ (r \div 2 > 1 => r \div 2 \in 0 .. n /\ r \div 2 < n /\ r \div 2 # n)
    BY <1>3
  <2>2. r \div 2 > 1 => h[r \div 2] = g[r \div 2]
    BY <2>1
  <2>3. Round(c, d, t, h, r) = Round(c, d, t, g, r)
    <3> HIDE DEF h
    <3> QED
      BY <2>1, <2>2, SameRound
  <2>4. CASE r = n
    BY <2>3, <2>4
  <2>5. CASE r # n
    <3>1. n > 0 /\ r \in 0 .. (n - 1)
      BY <1>3, <2>5
    <3>2. g[r] = Round(c, d, t, g, r)
      BY <1>4, <3>1 DEF Trials
    <3> QED
      BY <2>3, <2>5, <3>2
  <2> QED
    BY <2>4, <2>5
<1>6. Trials(c, d, t, n, h)
  BY <1>5 DEF Trials
<1> QED
  BY <1>3, <1>6

(* The loop ends with rows to work on. *)
LEMMA HalveResult ==
  ASSUME NEW c \in Call, NEW d, NEW t, t.threads_per_block \in Nat, NEW rows \in Nat, rows > 1,
         NEW fit, fit = Halve(c, d, t, rows)
  PROVE  fit.rows \in Nat \ {0} /\ fit.output_workspace_size \in Nat
<1> DEFINE trial == CHOOSE g : Trials(c, d, t, rows, g)
           Ends(f) == f.rows \in Nat \ {0} /\ f.output_workspace_size \in Nat
           Fail == {r \in 0 .. rows : r > 1 /\ ~Ends(trial[r])}
<1>1. fit = trial[rows]
  BY DEF Halve, Trials, Round
<1>2. Trials(c, d, t, rows, trial)
  BY TrialsExist
<1> HIDE DEF trial
<1>3. SUFFICES ASSUME Fail # {} PROVE FALSE
  BY <1>1
<1>4. PICK r \in Fail : \A m \in Fail : r <= m
  <2>1. Fail \subseteq Nat
    OBVIOUS
  <2> HIDE DEF Fail
  <2> QED
    BY <1>3, <2>1, LeastNat
<1>5. r \in 0 .. rows /\ r \in Nat \ {0} /\ r > 1 /\ ~Ends(trial[r])
  BY <1>4
<1>6. trial[r] = Round(c, d, t, trial, r)
  BY <1>2, <1>5 DEF Trials
<1>7. r \div 2 \in Nat \ {0} /\ r \div 2 < r
  BY <1>5
<1>8. r \div 2 > 1 => Ends(trial[r \div 2])
  BY <1>4, <1>5, <1>7
<1> DEFINE size == ComputeOutputSize(c, t.threads_per_block, r)
<1>9. size \in Nat
  BY <1>5, OutputSizeNat
<1>10. \/ trial[r].rows = r /\ trial[r].output_workspace_size = size
       \/ r \div 2 > 1 /\ trial[r] = trial[r \div 2]
       \/ trial[r].rows = r \div 2 /\ trial[r].output_workspace_size = size
  BY <1>6 DEF Round
<1> HIDE DEF size
<1> QED
  BY <1>5, <1>7, <1>8, <1>9, <1>10

(* The chunk that is run is one the kernel is compiled for, and divides a
   block. *)
LEMMA ChunkCompiled ==
  ASSUME NEW rows, NEW k, k = KernelChunk(rows)
  PROVE  k \in KernelChunks /\ k \in Nat \ {0} /\ WARP_SIZE % k = 0
<1> DEFINE enough == {n \in KernelChunks : rows <= n}
<1>1. KernelChunks \subseteq Nat \ {0}
  BY LaunchAssumption DEF KernelChunks
<1>2. k \in KernelChunks
  <2>1. CASE enough = {}
    BY <2>1, KernelAssumption DEF KernelChunk
  <2>2. CASE enough # {}
    <3>1. k = CHOOSE n \in enough : \A m \in enough : n <= m
      BY <2>2 DEF KernelChunk
    <3>2. enough \subseteq Nat
      BY <1>1
    <3> HIDE DEF enough
    <3>3. k \in enough
      BY <2>2, <3>1, <3>2, LeastNat
    <3> QED
      BY <3>3 DEF enough
  <2> QED
    BY <2>1, <2>2
<1> QED
  BY <1>1, <1>2, KernelAssumption

(* What infer passes to the kernel. *)
LEMMA LaunchSizes ==
  ASSUME NEW c \in Calls, NEW d \in Devices, NEW s \in ChunkSizes, Representable(c),
         NEW l, l = Configuration(c, d, s)
  PROVE  /\ l.threads_per_block \in Nat \ {0} /\ l.threads_per_block % WARP_SIZE = 0
         /\ l.chunk_size \in Nat \ {0} /\ WARP_SIZE % l.chunk_size = 0
         /\ l.num_grove = KernelGroves(c, l.threads_per_block, l.chunk_size)
         /\ l.max_num_row = MaxNumRow(c, l.threads_per_block, l.chunk_size)
         /\ l.num_blocks \in Nat
         /\ c.row_count > 0 => l.num_blocks > 0
         /\ l.output_workspace_size \in Nat
<1> DEFINE t         == Threads0(c, d)
           minimal   == IF s = Unspecified THEN 1 ELSE s
           size      == ComputeOutputSize(c, t.threads_per_block, minimal)
<1>1. c \in Call /\ d \in Device /\ s \in Nat
  BY CallsAssumption, LaunchAssumption
<1>2. /\ t.threads_per_block \in Nat \ {0}
      /\ t.threads_per_block % WARP_SIZE = 0
  BY <1>1, BlockSize
<1>3. minimal \in Nat \ {0}
  BY <1>1 DEF Unspecified
<1>4. MAX_CHUNK \in Nat \ {0} /\ MAX_BLOCKS \in Nat \ {0}
  BY LaunchAssumption
<1> HIDE DEF t, minimal
<1>5. size \in Nat
  BY <1>1, <1>2, <1>3, OutputSizeNat
<1>6. /\ l.threads_per_block = t.threads_per_block
      /\ l.chunk_size = KernelChunk(l.rows)
      /\ l.num_grove = KernelGroves(c, t.threads_per_block, l.chunk_size)
      /\ l.max_num_row = MaxNumRow(c, t.threads_per_block, l.chunk_size)
      /\ l.num_blocks = Least(CeilDiv(c.row_count, l.rows), MAX_BLOCKS)
  BY DEF Configuration, t
<1> HIDE DEF size
<1> DEFINE in_global == U(ItemBytes * size) > d.shared_per_block
           minimal_shared ==
             Least(U(minimal * t.row_size_bytes
                       + (IF in_global THEN 0 ELSE U(ItemBytes * size))),
                   MaxOverallSharedMem(d))
           max_resident == d.sm_count * (d.threads_per_sm \div t.threads_per_block)
           resident == Least(CeilDiv(d.shared_per_sm, minimal_shared), max_resident)
           wanted == IF s = Unspecified /\ resident >= MIN_BLOCKS_PER_SM
                     THEN MAX_CHUNK ELSE minimal
           fit == IF ~in_global /\ wanted > 1 THEN Halve(c, d, t, wanted)
                  ELSE [rows |-> wanted, output_workspace_size |-> size,
                        shared_mem |-> minimal_shared]
<1>7. l.rows = fit.rows /\ l.output_workspace_size = fit.output_workspace_size
  BY DEF Configuration, t, minimal, size
<1>8. l.rows \in Nat \ {0} /\ l.output_workspace_size \in Nat
  <2>1. wanted \in Nat \ {0}
    BY <1>3, <1>4
  <2>2. \/ wanted > 1 /\ fit = Halve(c, d, t, wanted)
        \/ fit.rows = wanted /\ fit.output_workspace_size = size
    <3> HIDE DEF in_global, wanted, minimal_shared
    <3> QED
      OBVIOUS
  <2> HIDE DEF wanted, fit
  <2>3. CASE wanted > 1 /\ fit = Halve(c, d, t, wanted)
    BY <1>1, <1>2, <1>7, <2>1, <2>3, HalveResult
  <2>4. CASE fit.rows = wanted /\ fit.output_workspace_size = size
    BY <1>5, <1>7, <2>1, <2>4
  <2> QED
    BY <2>2, <2>3, <2>4
<1>9. l.chunk_size \in Nat \ {0} /\ WARP_SIZE % l.chunk_size = 0
  BY <1>6, ChunkCompiled
<1>10. l.num_blocks \in Nat /\ (c.row_count > 0 => l.num_blocks > 0)
  <2>1. /\ CeilDiv(c.row_count, l.rows) \in Nat
        /\ c.row_count > 0 => CeilDiv(c.row_count, l.rows) > 0
    BY <1>1, <1>8, CallFields, CeilDivBounds
  <2> QED
    BY <1>4, <1>6, <2>1 DEF Least
<1> QED
  BY <1>2, <1>6, <1>8, <1>9, <1>10

-----------------------------------------------------------------------------
(* The size guard *)

(* A block has groves. *)
LEMMA GrovesPositive ==
  ASSUME NEW c \in Call, NEW threads \in Nat \ {0}, NEW chunk \in Nat \ {0}
  PROVE  KernelGroves(c, threads, chunk) \in Nat \ {0}
<1> DEFINE m == chunk * c.num_tree
<1>1. m \in Nat \ {0}
  BY CallFields
<1> HIDE DEF m
<1> DEFINE a == Least(threads, m)
<1>2. a \in Nat /\ a > 0
  BY <1>1 DEF Least
<1> HIDE DEF a
<1>3. CeilDiv(a, chunk) \in Nat /\ CeilDiv(a, chunk) > 0
  BY <1>2, CeilDivBounds
<1>4. KernelGroves(c, threads, chunk) \in {CeilDiv(a, chunk), 1}
  BY DEF KernelGroves, m, a
<1> QED
  BY <1>3, <1>4

(* As many rows as the guard admits have outputs and groves the index type can
   count. *)
LEMMA GuardFits ==
  ASSUME NEW c \in Call, NEW threads \in Nat \ {0}, NEW chunk \in Nat \ {0},
         c.row_count <= MaxNumRow(c, threads, chunk)
  PROVE  c.row_count * NumOutputs(c) * KernelGroves(c, threads, chunk) < IndexMod
<1> DEFINE n == NumOutputs(c)
           g == KernelGroves(c, threads, chunk)
           m == c.row_count
           k == n * g
           most == IndexMod - 1
           bound == most \div k
<1>1. n \in Nat \ {0} /\ g \in Nat \ {0} /\ m \in Nat
  BY CallFields, OutputSizes, GrovesPositive
<1>2. most \in Nat
  BY LaunchAssumption
<1>3. m <= IF bound >= 3 THEN bound - 3 ELSE bound
  BY DEF MaxNumRow
<1> HIDE DEF n, g, m
<1>4. k \in Nat \ {0}
  BY <1>1
<1>5. m * n * g = m * k
  BY <1>1
<1> HIDE DEF k, most
<1>6. bound \in Nat /\ bound * k \in Nat /\ bound * k <= most
  <2>1. bound \in Nat /\ most = bound * k + (most % k) /\ most % k \in Nat
    <3>1. most % k \in 0 .. (k - 1)
      BY <1>2, <1>4, DivMod
    <3>2. most % k \in Nat
      BY <3>1, <1>4
    <3>3. bound \in Nat /\ most = bound * k + (most % k)
      BY <1>2, <1>4, DivMod
    <3> QED
      BY <3>2, <3>3
  <2> HIDE DEF bound
  <2>2. bound * k \in Nat
    BY <1>4, <2>1, MulNat
  <2> DEFINE r == most % k
             v == bound * k
  <2>3. r \in Nat /\ v \in Nat /\ most = v + r
    BY <2>1, <2>2
  <2> HIDE DEF r
  <2> QED
    BY <1>2, <2>1, <2>3
<1> HIDE DEF bound
<1>7. m <= bound
  BY <1>1, <1>3, <1>6
<1>8. m * k <= bound * k /\ m * k \in Nat
  BY <1>1, <1>4, <1>6, <1>7, MulMono, MulNat
<1> QED
  BY <1>2, <1>5, <1>6, <1>8, LaunchAssumption DEF n, g, m, most

(* The sizes of a grid that runs. *)
LEMMA Launched ==
  ASSUME LaunchInv, Representable(request), Running
  PROVE  /\ request \in Call /\ request.row_count \in Nat
         /\ NumOutputs(request) \in Nat \ {0} /\ NumComp(request) \in Nat \ {0}
         /\ launch.threads_per_block \in Nat \ {0}
         /\ WARP_SIZE \in Nat \ {0} /\ launch.threads_per_block % WARP_SIZE = 0
         /\ launch.chunk_size \in Nat \ {0}
         /\ \E q \in Nat : launch.threads_per_block = q * launch.chunk_size
         /\ launch.num_grove = KernelGroves(request, launch.threads_per_block, launch.chunk_size)
         /\ launch.num_grove \in Nat \ {0}
         /\ launch.num_blocks \in Nat \ {0}
         /\ launch.output_workspace_size \in Nat
         /\ request.row_count * NumOutputs(request) * launch.num_grove < IndexMod
<1> DEFINE c == request
           l == launch
<1>1. /\ c \in Calls /\ device \in Devices /\ specified \in ChunkSizes
      /\ l = Configuration(c, device, specified)
      /\ c.row_count <= l.max_num_row /\ c.row_count > 0
  <2>1. c.row_count \in 1 .. l.max_num_row
    BY DEF LaunchInv, Running, Acceptable
  <2>2. c.row_count <= l.max_num_row /\ c.row_count > 0
    BY <2>1
  <2> QED
    BY <2>2 DEF LaunchInv
<1>2. c \in Call /\ WARP_SIZE \in Nat \ {0}
  BY <1>1, CallsAssumption, LaunchAssumption
<1> HIDE DEF c, l
<1>3. Representable(c)
  BY DEF c
<1>4. /\ l.threads_per_block \in Nat \ {0} /\ l.threads_per_block % WARP_SIZE = 0
      /\ l.chunk_size \in Nat \ {0} /\ WARP_SIZE % l.chunk_size = 0
      /\ l.num_grove = KernelGroves(c, l.threads_per_block, l.chunk_size)
      /\ l.max_num_row = MaxNumRow(c, l.threads_per_block, l.chunk_size)
      /\ l.num_blocks \in Nat \ {0}
      /\ l.output_workspace_size \in Nat
  <2>1. l.num_blocks \in Nat /\ (c.row_count > 0 => l.num_blocks > 0)
    BY <1>1, <1>3, LaunchSizes
  <2>2. l.num_blocks \in Nat \ {0}
    BY <1>1, <2>1
  <2> QED
    BY <1>1, <1>3, <2>2, LaunchSizes
<1>5. \E q \in Nat : l.threads_per_block = q * l.chunk_size
  BY <1>2, <1>4, MultipleOf
<1>6. l.num_grove \in Nat \ {0}
  BY <1>2, <1>4, GrovesPositive
<1>7. c.row_count * NumOutputs(c) * l.num_grove < IndexMod
  BY <1>1, <1>2, <1>4, GuardFits
<1> QED
  BY <1>2, <1>4, <1>5, <1>6, <1>7, CallFields, OutputSizes DEF c, l

(* A workspace offset is exact, and inside the elements of the block's rows. *)
LEMMA SlotExact ==
  ASSUME LaunchInv, Representable(request), Running, NEW row \in Nat, row < request.row_count,
         NEW out \in Outputs(request), NEW grove \in 0 .. (launch.num_grove - 1)
  PROVE  /\ Slot(row, out, grove) = (row * NumOutputs(request) + out) * launch.num_grove + grove
         /\ row < launch.chunk_size => Slot(row, out, grove) \in 0 .. (KernelWorkspace - 1)
<1> DEFINE n == NumOutputs(request)
           g == launch.num_grove
           m == request.row_count
           k == launch.chunk_size
           x == (row * n + out) * g + grove
<1>1. /\ n \in Nat /\ g \in Nat /\ m \in Nat /\ k \in Nat /\ m * n * g < IndexMod
      /\ out \in 0 .. (n - 1) /\ grove \in 0 .. (g - 1)
  BY Launched DEF Outputs
<1>2. Slot(row, out, grove) = U(row * n * g + out * g + grove)
  BY DEF Slot
<1>3. KernelWorkspace = k * n * g
  BY DEF KernelWorkspace
<1> HIDE DEF n, g, m, k
<1>4. row \in 0 .. (m - 1)
  BY <1>1 DEF m
<1>5. x \in 0 .. (m * n * g - 1) /\ row * n * g + out * g + grove = x
  BY <1>1, <1>4, NestedIndex
<1>6. row < k => x \in 0 .. (k * n * g - 1)
  <2>1. ASSUME row < k PROVE row \in 0 .. (k - 1)
    BY <1>1, <2>1
  <2> QED
    BY <1>1, <2>1, NestedIndex
<1>7. IndexMod \in Nat
  BY LaunchAssumption
<1> DEFINE y == m * n * g
<1>8. y \in Nat
  BY <1>1, MulNat
<1> HIDE DEF x, y
<1>9. U(x) = x
  <2>1. x \in Nat /\ x < IndexMod
    BY <1>1, <1>5, <1>7, <1>8 DEF y
  <2> QED
    BY <2>1, NoWrap
<1>10. Slot(row, out, grove) = x
  BY <1>2, <1>5, <1>9
<1> QED
  BY <1>3, <1>6, <1>10 DEF x, n, g, k

(* It is for one row, output and grove. *)
LEMMA SlotUnique ==
  ASSUME LaunchInv, Representable(request), Running,
         NEW row1 \in Nat, row1 < request.row_count, NEW out1 \in Outputs(request),
         NEW grove1 \in 0 .. (launch.num_grove - 1),
         NEW row2 \in Nat, row2 < request.row_count, NEW out2 \in Outputs(request),
         NEW grove2 \in 0 .. (launch.num_grove - 1),
         Slot(row1, out1, grove1) = Slot(row2, out2, grove2)
  PROVE  row1 = row2 /\ out1 = out2 /\ grove1 = grove2
<1> DEFINE n == NumOutputs(request)
           g == launch.num_grove
<1>1. /\ n \in Nat /\ g \in Nat
      /\ out1 \in 0 .. (n - 1) /\ out2 \in 0 .. (n - 1)
      /\ grove1 \in 0 .. (g - 1) /\ grove2 \in 0 .. (g - 1)
  BY Launched DEF Outputs
<1>2. (row1 * n + out1) * g + grove1 = (row2 * n + out2) * g + grove2
  BY SlotExact
<1> HIDE DEF n, g
<1> DEFINE k1 == row1 * n + out1
           k2 == row2 * n + out2
<1>3. k1 \in Nat /\ k2 \in Nat
  BY <1>1, MulNat
<1>4. k1 = k2 /\ grove1 = grove2
  <2> HIDE DEF k1, k2
  <2>1. k1 * g + grove1 = k2 * g + grove2
    BY <1>2 DEF k1, k2
  <2> QED
    BY <1>1, <1>3, <2>1, BlockUnique
<1> QED
  BY <1>1, <1>4, BlockUnique

-----------------------------------------------------------------------------
(* Workspaces in shared memory *)

(* A block may have to hold this much. *)
Countable(c) ==
  MAX_CHUNK * ItemBytes * c.col_count
    + MAX_THREADS_PER_BLOCK * ItemBytes * NumOutputs(c) < IndexMod

(* Half a chunk is a chunk. *)
LEMMA ChunkHalves ==
  ASSUME NEW r \in KernelChunks, r > 1, NEW h, h = r \div 2
  PROVE  h \in KernelChunks /\ r = 2 * h
<1>1. r \in 1 .. MAX_CHUNK /\ MAX_CHUNK \in Nat /\ r \in Nat
      /\ \A d \in 2 .. r : r % d = 0 => d % 2 = 0
  BY LaunchAssumption DEF KernelChunks
<1>2. r % 2 = 0
  <2>1. r % r = 0 /\ r \in 2 .. r
    <3>1. (1 * r + 0) % r = 0
      BY <1>1, DivUnique
    <3> QED
      BY <1>1, <3>1
  <2> QED
    BY <1>1, <2>1
<1>3. r = 2 * h /\ h \in 1 .. MAX_CHUNK /\ h \in Nat
  BY <1>1, <1>2
<1>4. ASSUME NEW d \in 2 .. h, h % d = 0 PROVE d % 2 = 0
  <2> DEFINE q == h \div d
  <2>1. d \in Nat \ {0} /\ d <= h
    BY <1>3
  <2>2. q \in Nat /\ h = q * d + (h % d)
    BY <1>3, <2>1, DivMod
  <2> HIDE DEF q
  <2>3. h = q * d
    BY <1>4, <2>1, <2>2
  <2>4. r = (2 * q) * d + 0
    BY <1>3, <2>1, <2>2, <2>3
  <2> DEFINE k == 2 * q
  <2>5. k \in Nat /\ 0 \in 0 .. (d - 1)
    BY <2>1, <2>2
  <2> HIDE DEF k
  <2>6. (k * d + 0) % d = 0
    BY <2>1, <2>5, DivUnique
  <2>7. r % d = 0
    BY <2>4, <2>6 DEF k
  <2>8. d \in 2 .. r
    BY <1>3, <2>1
  <2> QED
    BY <1>1, <2>7, <2>8
<1> QED
  BY <1>3, <1>4 DEF KernelChunks

(* The kernel runs the chunk the launch has sized, if it is compiled for it. *)
LEMMA ChunkRuns ==
  ASSUME NEW r \in KernelChunks
  PROVE  KernelChunk(r) = r
<1> DEFINE enough == {n \in KernelChunks : r <= n}
           k == CHOOSE n \in enough : \A m \in enough : n <= m
<1>1. KernelChunks \subseteq Nat
  BY LaunchAssumption DEF KernelChunks
<1>2. r \in enough /\ enough \subseteq Nat
  <2>1. r \in Nat /\ r <= r
    BY <1>1
  <2> QED
    BY <1>1, <2>1
<1>3. KernelChunk(r) = k
  BY <1>2 DEF KernelChunk
<1>4. k \in enough /\ \A m \in enough : k <= m
  <2> HIDE DEF enough
  <2> QED
    BY <1>2, LeastNat
<1>5. k <= r /\ r <= k /\ k \in Nat /\ r \in Nat
  BY <1>1, <1>2, <1>4
<1> QED
  BY <1>3, <1>5

(* The outputs of a chunk of rows: one per thread, or one per row. *)
LEMMA SizesFit ==
  ASSUME NEW c \in Call, Countable(c), NEW T \in Nat \ {0}, T % WARP_SIZE = 0,
         T <= MAX_THREADS_PER_BLOCK, NEW bytes \in {0, ItemBytes * c.col_count},
         NEW r \in KernelChunks,
         NEW size, size = IF c.infer_type = "default" THEN NumOutputs(c) * T ELSE NumOutputs(c) * r
  PROVE  /\ size \in Nat \ {0} /\ ItemBytes * size \in Nat \ {0} /\ r * bytes \in Nat
         /\ ComputeOutputSize(c, T, r) = size
         /\ U(ItemBytes * size) = ItemBytes * size
         /\ U(r * bytes + U(ItemBytes * size)) = r * bytes + ItemBytes * size
<1> DEFINE n == NumOutputs(c)
           cols == c.col_count
           a == MAX_CHUNK * ItemBytes * cols
           b == MAX_THREADS_PER_BLOCK * ItemBytes * n
           most == n * T
<1>1. /\ n \in Nat \ {0} /\ cols \in Nat \ {0}
      /\ ItemBytes \in Nat \ {0} /\ IndexMod \in Nat /\ WARP_SIZE \in Nat \ {0}
      /\ MAX_CHUNK \in Nat /\ MAX_THREADS_PER_BLOCK \in Nat
  BY CallFields, OutputSizes, LaunchAssumption
<1>2. r \in Nat \ {0} /\ r <= MAX_CHUNK /\ WARP_SIZE % r = 0
  <2>1. r \in 1 .. MAX_CHUNK
    BY DEF KernelChunks
  <2> QED
    BY <1>1, <2>1, KernelAssumption
<1>3. PICK q \in Nat : T = q * r
  BY <1>1, <1>2, MultipleOf
<1>4. a + b < IndexMod
  BY DEF Countable
<1>5. size = IF c.infer_type = "default" THEN most ELSE n * r
  OBVIOUS
<1> HIDE DEF n, cols
<1>6. a \in Nat /\ b \in Nat /\ most \in Nat /\ n * r \in Nat
  BY <1>1, <1>2
<1>7. r <= T
  <2>1. q >= 1
    BY <1>2, <1>3
  <2>2. 1 * r <= q * r
    BY <1>2, <2>1, MulMono
  <2> QED
    BY <1>2, <1>3, <2>2
<1>8. n * r <= most
  <2>1. r * n <= T * n
    BY <1>1, <1>2, <1>7, MulMono
  <2> QED
    BY <1>1, <1>2, <2>1
<1>9. most * ItemBytes <= b
  <2> DEFINE k == ItemBytes * n
  <2>1. k \in Nat
    BY <1>1
  <2>2. most * ItemBytes = T * k /\ b = MAX_THREADS_PER_BLOCK * k
    BY <1>1
  <2> HIDE DEF k, most, b
  <2> QED
    BY <1>1, <2>1, <2>2, MulMono
<1>10. r * bytes \in Nat /\ r * bytes <= a
  <2> DEFINE k == ItemBytes * cols
  <2>1. k \in Nat /\ bytes \in {0, k}
    BY <1>1 DEF cols
  <2>2. a = MAX_CHUNK * k
    BY <1>1
  <2> HIDE DEF k, a
  <2>3. r * k <= MAX_CHUNK * k /\ r * k \in Nat
    BY <1>1, <1>2, <2>1, MulMono
  <2>4. r * 0 = 0
    BY <1>2
  <2> QED
    BY <1>6, <2>1, <2>2, <2>3, <2>4
<1>11. size \in Nat \ {0} /\ size <= most
  <2>1. n * r # 0 /\ most # 0
    BY <1>1, <1>2
  <2> HIDE DEF most
  <2> QED
    BY <1>5, <1>6, <1>8, <2>1
<1> HIDE DEF most, a, b
<1>12. /\ ItemBytes * size \in Nat \ {0} /\ ItemBytes * size <= b
       /\ size <= ItemBytes * size
  <2>1. size * ItemBytes <= most * ItemBytes /\ 1 * size <= ItemBytes * size
    BY <1>1, <1>6, <1>11, MulMono
  <2>2. size * ItemBytes \in Nat \ {0} /\ size * ItemBytes = ItemBytes * size /\ most * ItemBytes \in Nat
    BY <1>1, <1>6, <1>11
  <2> QED
    BY <1>6, <1>9, <1>11, <2>1, <2>2
<1>13. U(ItemBytes * size) = ItemBytes * size
  BY <1>1, <1>4, <1>6, <1>12, NoWrap
<1>14. U(r * bytes + ItemBytes * size) = r * bytes + ItemBytes * size
  <2> DEFINE x == r * bytes
             y == ItemBytes * size
  <2>1. x \in Nat /\ x <= a /\ y \in Nat /\ y <= b
    BY <1>10, <1>12
  <2> HIDE DEF x, y
  <2>2. x + y \in Nat /\ x + y < IndexMod
    BY <1>1, <1>4, <1>6, <2>1
  <2> QED
    BY <2>2, NoWrap DEF x, y
<1>15. ComputeOutputSize(c, T, r) = size
  <2>1. n * r < IndexMod /\ most < IndexMod
    <3>1. most <= most * ItemBytes /\ most * ItemBytes \in Nat
      <4>1. 1 * most <= ItemBytes * most
        BY <1>1, <1>6, MulMono
      <4> QED
        BY <1>1, <1>6, <4>1
    <3> QED
      BY <1>1, <1>4, <1>6, <1>8, <1>9, <3>1
  <2>2. U(n * r) = n * r /\ U(most) = most
    BY <1>6, <2>1, NoWrap
  <2>3. CeilDiv(T, r) = q
    <3>1. 0 \in 0 .. (r - 1)
      BY <1>2
    <3>2. (q * r + 0) \div r = q /\ (q * r + 0) % r = 0
      BY <1>2, <3>1, DivUnique
    <3>3. q * r + 0 = T
      BY <1>2, <1>3
    <3> QED
      BY <3>2, <3>3 DEF CeilDiv
  <2>4. ComputeOutputSize(c, T, r) = U(U(n * r) * (IF c.infer_type = "default" THEN CeilDiv(T, r) ELSE 1))
    BY DEF ComputeOutputSize, n
  <2>5. n * r * q = most /\ n * r * 1 = n * r
    <3>1. n * r * q = n * (q * r)
      BY <1>1, <1>2
    <3> QED
      BY <1>1, <1>2, <1>3, <3>1 DEF most
  <2> QED
    BY <1>5, <2>2, <2>3, <2>4, <2>5
<1> QED
  BY <1>10, <1>11, <1>12, <1>13, <1>14, <1>15

(* n rows and their outputs take this much. *)
ChunkBytes(c, t, n) ==
  n * t.row_size_bytes + ItemBytes * ComputeOutputSize(c, t.threads_per_block, n)

(* f is what the halving of r rows ends with: rows that fit, twice of which do
   not, or one row with the sizes of the last chunk that was tried. *)
HalvedTo(c, d, t, r, f) ==
  /\ f.rows \in KernelChunks
  /\ \E n \in KernelChunks :
       /\ f.rows <= n /\ n <= r
       /\ f.output_workspace_size = ComputeOutputSize(c, t.threads_per_block, n)
       /\ f.shared_mem = ChunkBytes(c, t, n)
       /\ ChunkBytes(c, t, n) <= MaxOverallSharedMem(d) \/ n = 2
  /\ f.rows > 1 =>
       /\ ChunkBytes(c, t, f.rows) <= MaxOverallSharedMem(d)
       /\ f.rows < r => ~(ChunkBytes(c, t, 2 * f.rows) <= MaxOverallSharedMem(d))

(* The loop that halves the rows does what HalvedTo says. *)
LEMMA HalveExact ==
  ASSUME NEW c \in Call, Countable(c), NEW d, NEW t,
         t.threads_per_block \in Nat \ {0}, t.threads_per_block % WARP_SIZE = 0,
         t.threads_per_block <= MAX_THREADS_PER_BLOCK,
         t.row_size_bytes \in {0, ItemBytes * c.col_count},
         NEW rows \in KernelChunks, rows > 1
  PROVE  HalvedTo(c, d, t, rows, Halve(c, d, t, rows))
<1> DEFINE trial == CHOOSE g : Trials(c, d, t, rows, g)
           Fail == {r \in KernelChunks : r > 1 /\ r <= rows /\ ~HalvedTo(c, d, t, r, trial[r])}
           M == MaxOverallSharedMem(d)
<1>1. KernelChunks \subseteq Nat \ {0}
  BY LaunchAssumption DEF KernelChunks
<1>2. Halve(c, d, t, rows) = trial[rows]
  BY DEF Halve, Trials, Round
<1>3. Trials(c, d, t, rows, trial)
  BY <1>1, TrialsExist
<1> HIDE DEF trial
<1>4. SUFFICES ASSUME Fail # {} PROVE FALSE
  BY <1>1, <1>2
<1>5. PICK r \in Fail : \A m \in Fail : r <= m
  <2>1. Fail \subseteq Nat
    BY <1>1
  <2> HIDE DEF Fail
  <2> QED
    BY <1>4, <2>1, LeastNat
<1>6. /\ r \in KernelChunks /\ r > 1 /\ r <= rows /\ r \in Nat /\ rows \in Nat
      /\ ~HalvedTo(c, d, t, r, trial[r])
  BY <1>1, <1>5
<1> DEFINE h == r \div 2
           size(n) == ComputeOutputSize(c, t.threads_per_block, n)
           result(n) == [rows |-> n, output_workspace_size |-> size(r),
                         shared_mem |-> ChunkBytes(c, t, r)]
<1>7. h \in KernelChunks /\ r = 2 * h /\ h \in Nat \ {0}
  BY <1>1, <1>6, ChunkHalves
<1>8. U(r * t.row_size_bytes + U(ItemBytes * size(r))) = ChunkBytes(c, t, r)
  BY <1>6, SizesFit DEF ChunkBytes
<1>9. trial[r] = Round(c, d, t, trial, r)
  BY <1>3, <1>6 DEF Trials
<1>10. trial[r] = IF ChunkBytes(c, t, r) <= M THEN result(r)
                  ELSE IF h > 1 THEN trial[h] ELSE result(h)
  BY <1>8, <1>9 DEF Round
<1> HIDE DEF h, M
<1>11. CASE ChunkBytes(c, t, r) <= M
  <2>1. trial[r] = result(r)
    BY <1>10, <1>11
  <2> QED
    BY <1>6, <1>11, <2>1 DEF HalvedTo, M
<1>12. CASE ~(ChunkBytes(c, t, r) <= M) /\ h > 1
  <2>1. trial[r] = trial[h]
    BY <1>10, <1>12
  <2>2. h < r /\ h <= rows /\ h \notin Fail
    BY <1>5, <1>6, <1>7
  <2>3. HalvedTo(c, d, t, h, trial[h])
    BY <1>7, <1>12, <2>2
  <2> DEFINE f == trial[h]
  <2>4. f.rows \in Nat /\ f.rows <= h
    <3>1. f.rows \in KernelChunks /\ \E n \in KernelChunks : f.rows <= n /\ n <= h
      BY <2>3 DEF HalvedTo
    <3>2. PICK n \in KernelChunks : f.rows <= n /\ n <= h
      BY <3>1
    <3>3. f.rows \in Nat /\ n \in Nat
      BY <1>1, <3>1
    <3> HIDE DEF f
    <3> QED
      BY <1>7, <3>2, <3>3
  <2>5. f.rows > 1 /\ f.rows < r => ~(ChunkBytes(c, t, 2 * f.rows) <= M)
    <3>1. CASE f.rows < h
      BY <2>3, <3>1 DEF HalvedTo, M
    <3>2. CASE f.rows = h
      BY <1>7, <1>12, <3>2
    <3> QED
      BY <1>7, <2>4, <3>1, <3>2
  <2>6. \A n \in KernelChunks : n <= h => n <= r
    BY <1>1, <1>6, <1>7, <2>2
  <2> HIDE DEF f
  <2>7. HalvedTo(c, d, t, r, f)
    BY <2>3, <2>5, <2>6 DEF HalvedTo, M, f
  <2> QED
    BY <1>6, <2>1, <2>7 DEF f
<1>13. CASE ~(ChunkBytes(c, t, r) <= M) /\ ~(h > 1)
  <2>1. trial[r] = result(h)
    BY <1>10, <1>13
  <2>2. h = 1 /\ r = 2
    BY <1>7, <1>13
  <2> QED
    BY <1>6, <1>7, <2>1, <2>2 DEF HalvedTo
<1> QED
  BY <1>11, <1>12, <1>13

(* If what a block may have to hold can be counted, so can a row. *)
LEMMA CountableRows ==
  ASSUME NEW c \in Call, Countable(c)
  PROVE  Representable(c)
<1> DEFINE x == ItemBytes * c.col_count
           y == ItemBytes * NumOutputs(c)
           a == MAX_CHUNK * x
           b == MAX_THREADS_PER_BLOCK * y
<1>1. /\ c.col_count \in Nat /\ NumOutputs(c) \in Nat /\ ItemBytes \in Nat /\ IndexMod \in Nat
      /\ MAX_CHUNK \in Nat \ {0} /\ MAX_THREADS_PER_BLOCK \in Nat \ {0}
  BY CallFields, OutputSizes, LaunchAssumption
<1>2. x \in Nat /\ y \in Nat
  BY <1>1
<1>3. a + b < IndexMod
  BY <1>1 DEF Countable
<1> HIDE DEF x, y
<1>4. 1 * x <= a /\ 1 * y <= b /\ a \in Nat /\ b \in Nat
  BY <1>1, <1>2, MulMono
<1> HIDE DEF a, b
<1>5. x < IndexMod /\ y < IndexMod
  BY <1>1, <1>2, <1>3, <1>4
<1> QED
  BY <1>5 DEF x, y, Representable

(* The groves of a chunk take no more than the threads of a block. *)
LEMMA GrovesFit ==
  ASSUME NEW c \in Call, c.infer_type = "default", NEW T \in Nat \ {0},
         NEW r \in Nat \ {0}, NEW q \in Nat, T = q * r
  PROVE  r * KernelGroves(c, T, r) <= T
<1> DEFINE m == r * c.num_tree
           a == Least(T, m)
           g == KernelGroves(c, T, r)
<1>1. m \in Nat
  BY CallFields, MulNat
<1> HIDE DEF m
<1>2. a \in Nat /\ a <= T
  BY <1>1 DEF Least
<1>3. g = CeilDiv(a, r)
  BY DEF KernelGroves, m
<1> HIDE DEF a, g
<1>4. g \in Nat /\ \A k \in Nat : k < g => k * r < a
  BY <1>2, <1>3, CeilDivBounds
<1>5. ~(q < g)
  <2>1. q < g => q * r < a
    BY <1>4
  <2> QED
    BY <1>2, <2>1
<1>6. g * r <= q * r
  BY <1>4, <1>5, MulMono
<1> QED
  BY <1>4, <1>6 DEF g

(* A workspace in shared memory is there, and large enough for the chunk and
   the groves of the kernel; the chunk is as large as shared memory allows. *)
LEMMA SharedSizes ==
  ASSUME NEW c \in Calls, Countable(c), NEW d \in Devices,
         d.shared_per_block <= d.shared_per_sm,
         2 * d.shared_per_sm <= (MIN_BLOCKS_PER_SM - 1) * d.shared_per_block,
         NEW s \in ChunkSizes, s = Unspecified \/ s \in KernelChunks,
         NEW l, l = Configuration(c, d, s), ~l.in_global,
         NEW most, most = IF s = Unspecified THEN MAX_CHUNK ELSE s
  PROVE  /\ U(l.output_workspace_size * ItemBytes) <= l.shared_mem
         /\ l.chunk_size * NumOutputs(c) * l.num_grove <= l.output_workspace_size
         /\ l.rows \in Nat
         /\ l.rows > 1 =>
              /\ ChunkBytes(c, l, l.rows) <= MaxOverallSharedMem(d)
              /\ l.rows < most => ~(ChunkBytes(c, l, 2 * l.rows) <= MaxOverallSharedMem(d))
<1> DEFINE t        == Threads0(c, d)
           T        == t.threads_per_block
           bytes    == t.row_size_bytes
           P        == d.shared_per_block
           S        == d.shared_per_sm
           M        == MaxOverallSharedMem(d)
           minimal  == IF s = Unspecified THEN 1 ELSE s
           size(n)  == ComputeOutputSize(c, T, n)
           room     == Least(U(minimal * bytes + U(ItemBytes * size(minimal))), M)
           resident == Least(CeilDiv(S, room), d.sm_count * (d.threads_per_sm \div T))
           wanted   == IF s = Unspecified /\ resident >= MIN_BLOCKS_PER_SM
                       THEN MAX_CHUNK ELSE minimal
           fit      == IF wanted > 1 THEN Halve(c, d, t, wanted)
                       ELSE [rows |-> wanted, output_workspace_size |-> size(minimal),
                             shared_mem |-> room]
           shared   == Least(fit.shared_mem, M)
<1>1. /\ l.threads_per_block = T /\ l.row_size_bytes = bytes
      /\ l.rows = fit.rows /\ l.chunk_size = KernelChunk(fit.rows)
      /\ l.output_workspace_size = fit.output_workspace_size
      /\ l.shared_mem = Least(M, S \div (S \div shared))
      /\ l.num_grove = KernelGroves(c, T, l.chunk_size)
      /\ ~(U(ItemBytes * size(minimal)) > P)
  <2>1. l.in_global = (U(ItemBytes * size(minimal)) > P)
    BY DEF Configuration
  <2>2. ~(U(ItemBytes * size(minimal)) > P)
    BY <2>1
  <2> QED
    BY <2>2 DEF Configuration
<1>2. /\ c \in Call /\ d \in Device /\ s \in Nat
      /\ {ItemBytes, WARP_SIZE, MAX_THREADS_PER_BLOCK, MIN_BLOCKS_PER_SM, MAX_CHUNK} \subseteq Nat \ {0}
      /\ KernelChunks \subseteq Nat \ {0} /\ \A n \in KernelChunks : n <= MAX_CHUNK
  BY CallsAssumption, LaunchAssumption DEF KernelChunks
<1>3. P \in Nat \ {0} /\ S \in Nat \ {0} /\ M = P /\ P <= S
  <2>1. P \in Nat \ {0} /\ S \in Nat \ {0}
    BY <1>2 DEF Device
  <2> QED
    BY <2>1 DEF MaxOverallSharedMem, Least
<1>4. /\ T \in Nat \ {0} /\ T % WARP_SIZE = 0 /\ T <= MAX_THREADS_PER_BLOCK
      /\ bytes \in {0, ItemBytes * c.col_count}
  <2>1. Representable(c)
    BY <1>2, CountableRows
  <2> QED
    BY <1>2, <2>1, BlockSize
<1>5. ASSUME NEW n \in KernelChunks
      PROVE  /\ size(n) = (IF c.infer_type = "default" THEN NumOutputs(c) * T ELSE NumOutputs(c) * n)
             /\ size(n) \in Nat \ {0} /\ ItemBytes * size(n) \in Nat \ {0}
             /\ U(ItemBytes * size(n)) = ItemBytes * size(n)
             /\ U(n * bytes + U(ItemBytes * size(n))) = n * bytes + ItemBytes * size(n)
             /\ n * bytes \in Nat
             /\ ChunkBytes(c, t, n) = n * bytes + ItemBytes * size(n)
             /\ ChunkBytes(c, l, n) = ChunkBytes(c, t, n)
  BY <1>1, <1>2, <1>4, <1>5, SizesFit DEF ChunkBytes
<1>6. /\ minimal \in KernelChunks /\ wanted \in KernelChunks
      /\ s = Unspecified => minimal = 1
      /\ s # Unspecified => wanted = s /\ minimal = s
      /\ wanted > 1 /\ s = Unspecified => wanted = MAX_CHUNK /\ resident >= MIN_BLOCKS_PER_SM
  <2>1. 1 \in KernelChunks /\ MAX_CHUNK \in KernelChunks
    BY <1>2, KernelAssumption DEF KernelChunks
  <2> HIDE DEF resident
  <2> QED
    BY <2>1
<1>7. /\ ItemBytes * size(minimal) <= P
      /\ room \in Nat \ {0} /\ ItemBytes * size(minimal) <= room
  <2>1. ItemBytes * size(minimal) <= P
    BY <1>1, <1>3, <1>5, <1>6
  <2> DEFINE x == minimal * bytes
             y == ItemBytes * size(minimal)
  <2>2. room = Least(x + y, M) /\ x \in Nat /\ y \in Nat \ {0} /\ y <= P
    BY <1>5, <1>6, <2>1
  <2> HIDE DEF x, room
  <2>3. y \in Nat \ {0} /\ y <= P
    BY <2>2
  <2> HIDE DEF y
  <2>4. room \in Nat \ {0} /\ y <= room
    BY <1>3, <2>2, <2>3 DEF Least
  <2> QED
    BY <2>1, <2>4 DEF y
<1> HIDE DEF t, P, S, M, size, minimal, room, wanted
(* The last chunk that is tried fits without its rows. *)
<1>8. ASSUME wanted > 1, 2 \in KernelChunks, 2 <= wanted
      PROVE  ItemBytes * size(2) <= P
  <2> DEFINE n == NumOutputs(c)
  <2>1. n \in Nat \ {0}
    BY <1>2, OutputSizes
  <2>2. CASE c.infer_type = "default"
    BY <1>5, <1>6, <1>7, <1>8, <2>2
  <2>3. CASE c.infer_type # "default" /\ s # Unspecified
    <3>1. size(2) = n * 2 /\ size(minimal) = n * s /\ 2 <= s
      BY <1>5, <1>6, <1>8, <2>3
    <3>2. ItemBytes * (n * 2) <= ItemBytes * (n * s)
      <4> DEFINE k == ItemBytes * n
      <4>1. k \in Nat /\ ItemBytes * (n * 2) = 2 * k /\ ItemBytes * (n * s) = s * k
        BY <1>2, <2>1
      <4> HIDE DEF k, n
      <4> QED
        BY <1>2, <3>1, <4>1, MulMono
    <3> QED
      <4> DEFINE x == ItemBytes * (n * 2)
                 y == ItemBytes * (n * s)
      <4>1. y <= P /\ x <= y /\ x \in Nat /\ y \in Nat
        BY <1>2, <1>7, <2>1, <3>1, <3>2
      <4> HIDE DEF x, y
      <4>2. x <= P
        BY <1>3, <4>1
      <4> QED
        BY <3>1, <4>2 DEF x
  <2>4. CASE c.infer_type # "default" /\ s = Unspecified
    <3> DEFINE k == ItemBytes * n
               m == MIN_BLOCKS_PER_SM - 1
    <3>1. k \in Nat /\ size(2) = n * 2 /\ ItemBytes * size(2) = 2 * k /\ k <= room
      BY <1>2, <1>5, <1>6, <1>7, <1>8, <2>1, <2>4
    <3>2. m \in Nat
      BY <1>2
    <3>3. CeilDiv(S, room) >= MIN_BLOCKS_PER_SM
      <4> DEFINE x == CeilDiv(S, room)
                 y == d.sm_count * (d.threads_per_sm \div T)
      <4>1. x \in Nat
        BY <1>3, <1>7, CeilDivBounds
      <4>2. y \in Nat
        <5>1. d.threads_per_sm \in Nat /\ d.sm_count \in Nat
          BY <1>2 DEF Device
        <5>2. d.threads_per_sm \div T \in Nat
          BY <1>4, <5>1, DivMod
        <5> QED
          BY <5>1, <5>2, MulNat
      <4>3. Least(x, y) >= MIN_BLOCKS_PER_SM
        BY <1>6, <1>8, <2>4
      <4> HIDE DEF x, y
      <4>4. x >= MIN_BLOCKS_PER_SM
        BY <1>2, <4>1, <4>2, <4>3 DEF Least
      <4> QED
        BY <4>4 DEF x
    <3>4. m * room < S
      <4>1. m < CeilDiv(S, room)
        BY <1>2, <1>3, <1>7, <3>3, CeilDivBounds
      <4> QED
        BY <1>3, <1>7, <3>2, <4>1, CeilDivBounds
    <3>5. 2 * S <= m * P
      BY DEF P, S
    <3> HIDE DEF k, m
    <3>6. k * m <= room * m
      BY <1>7, <3>1, <3>2, MulMono
    <3>7. (2 * k) * m < P * m
      <4> DEFINE x == k * m
                 y == room * m
                 z == P * m
      <4>1. x \in Nat /\ y \in Nat /\ z \in Nat
        BY <1>3, <1>7, <3>1, <3>2, MulNat
      <4>2. x <= y /\ y < S /\ 2 * S <= z
        BY <1>3, <1>7, <3>2, <3>4, <3>5, <3>6
      <4>3. (2 * k) * m = 2 * x
        BY <3>1, <3>2
      <4> HIDE DEF x, y, z
      <4> QED
        BY <1>3, <4>1, <4>2, <4>3 DEF z
    <3>8. ~(P <= 2 * k)
      <4> DEFINE x == 2 * k
      <4>1. x \in Nat
        BY <3>1
      <4> HIDE DEF x
      <4>2. P <= x => P * m <= x * m
        BY <1>3, <3>2, <4>1, MulMono
      <4>3. P * m \in Nat /\ x * m \in Nat /\ x * m < P * m
        BY <1>3, <3>2, <3>7, <4>1, MulNat DEF x
      <4>4. ~(P <= x)
        BY <4>2, <4>3
      <4> QED
        BY <4>4 DEF x
    <3> QED
      BY <1>3, <3>1, <3>8
  <2> QED
    BY <2>2, <2>3, <2>4
<1>9. PICK n \in KernelChunks :
        /\ fit.rows \in KernelChunks /\ fit.rows <= n
        /\ fit.output_workspace_size = size(n)
        /\ ItemBytes * size(n) <= P
        /\ fit.shared_mem \in Nat /\ ItemBytes * size(n) <= fit.shared_mem
  <2>1. CASE wanted > 1
    <3>1. fit = Halve(c, d, t, wanted)
      BY <2>1
    <3>2. HalvedTo(c, d, t, wanted, fit)
      BY <1>2, <1>4, <1>6, <2>1, <3>1, HalveExact
    <3>3. PICK n \in KernelChunks :
            /\ fit.rows <= n /\ n <= wanted
            /\ fit.output_workspace_size = size(n)
            /\ fit.shared_mem = ChunkBytes(c, t, n)
            /\ ChunkBytes(c, t, n) <= M \/ n = 2
      BY <3>2 DEF HalvedTo, size, M
    <3>4. fit.rows \in KernelChunks
      BY <3>2 DEF HalvedTo
    <3> HIDE DEF fit
    <3> DEFINE x == n * bytes
               y == ItemBytes * size(n)
    <3>5. x \in Nat /\ y \in Nat /\ fit.shared_mem = x + y
      BY <1>5, <3>3
    <3>6. x + y <= M \/ n = 2
      BY <1>5, <3>3
    <3>7. n = 2 => y <= P
      BY <1>2, <1>6, <1>8, <2>1, <3>3
    <3> HIDE DEF x, y
    <3>8. y <= P /\ fit.shared_mem \in Nat /\ y <= fit.shared_mem
      BY <1>3, <3>5, <3>6, <3>7
    <3> QED
      BY <3>3, <3>4, <3>8 DEF y
  <2>2. CASE ~(wanted > 1)
    <3>1. wanted = minimal
      <4>1. wanted = 1
        BY <1>2, <1>6, <2>2
      <4> QED
        BY <1>6, <4>1
    <3>2. fit = [rows |-> minimal, output_workspace_size |-> size(minimal), shared_mem |-> room]
      BY <2>2, <3>1
    <3> HIDE DEF fit
    <3> QED
      BY <1>2, <1>6, <1>7, <3>2
  <2> QED
    BY <2>1, <2>2
<1>10. /\ n \in Nat \ {0} /\ fit.rows \in Nat \ {0}
       /\ size(n) \in Nat \ {0} /\ ItemBytes * size(n) \in Nat \ {0}
       /\ U(ItemBytes * size(n)) = ItemBytes * size(n)
       /\ size(n) = (IF c.infer_type = "default" THEN NumOutputs(c) * T ELSE NumOutputs(c) * n)
  BY <1>2, <1>5, <1>9
<1>11. U(l.output_workspace_size * ItemBytes) <= l.shared_mem
  <2> DEFINE x == ItemBytes * size(n)
  <2>1. x \in Nat \ {0} /\ x <= P /\ x <= fit.shared_mem /\ fit.shared_mem \in Nat
    BY <1>9, <1>10
  <2>2. l.output_workspace_size * ItemBytes = x /\ U(x) = x
    BY <1>1, <1>2, <1>9, <1>10
  <2> HIDE DEF x, fit
  <2>3. shared \in Nat \ {0} /\ x <= shared /\ shared <= S
    BY <1>3, <2>1 DEF Least
  <2> HIDE DEF shared
  <2>4. S \div (S \div shared) \in Nat /\ shared <= S \div (S \div shared)
    BY <1>3, <2>3, EvenParts
  <2> DEFINE part == S \div (S \div shared)
  <2>5. l.shared_mem = Least(M, part) /\ part \in Nat /\ shared <= part
    BY <1>1, <2>4 DEF shared, fit
  <2> HIDE DEF part
  <2> QED
    BY <1>3, <2>1, <2>2, <2>3, <2>5 DEF Least
<1>12. l.chunk_size * NumOutputs(c) * l.num_grove <= l.output_workspace_size
  <2> DEFINE r == fit.rows
             o == NumOutputs(c)
             g == KernelGroves(c, T, r)
  <2>1. l.chunk_size = r /\ l.num_grove = g /\ l.output_workspace_size = size(n)
    BY <1>1, <1>9, ChunkRuns
  <2>2. /\ r \in Nat \ {0} /\ r <= n /\ o \in Nat \ {0}
        /\ WARP_SIZE \in Nat \ {0} /\ WARP_SIZE % r = 0
    BY <1>2, <1>9, <1>10, OutputSizes, KernelAssumption
  <2>3. g \in Nat
    BY <1>2, <1>4, <2>2, GrovesPositive
  <2>4. r * o * g <= size(n)
    <3>1. CASE c.infer_type = "default"
      <4>1. PICK q \in Nat : T = q * r
        <5> DEFINE w == WARP_SIZE
        <5>1. T \in Nat /\ T % w = 0 /\ w \in Nat \ {0} /\ w % r = 0 /\ r \in Nat \ {0}
          BY <1>4, <2>2
        <5> HIDE DEF r, T, w
        <5> QED
          BY <5>1, MultipleOf
      <4>2. r * g <= T
        BY <1>2, <1>4, <2>2, <3>1, <4>1, GrovesFit
      <4>3. size(n) = o * T
        BY <1>10, <3>1
      <4> HIDE DEF r, o, g, T
      <4> DEFINE k == r * g
      <4>4. k \in Nat /\ r * o * g = k * o /\ o * T = T * o
        BY <1>4, <2>2, <2>3
      <4>5. k <= T
        BY <4>2
      <4> HIDE DEF k
      <4>6. k * o <= T * o
        BY <1>4, <2>2, <4>4, <4>5, MulMono
      <4> QED
        BY <4>3, <4>4, <4>6
    <3>2. CASE c.infer_type # "default"
      <4>1. g = 1
        BY <3>2 DEF KernelGroves
      <4>2. size(n) = o * n
        BY <1>10, <3>2
      <4> HIDE DEF r, o, g
      <4>3. r * o <= n * o
        BY <1>10, <2>2, MulMono
      <4>4. r * o * g = r * o /\ o * n = n * o
        BY <1>10, <2>2, <4>1
      <4> QED
        BY <4>2, <4>3, <4>4
    <3> QED
      BY <3>1, <3>2
  <2> QED
    BY <2>1, <2>4
<1>13. \A x : ChunkBytes(c, l, x) = ChunkBytes(c, t, x)
  BY <1>1 DEF ChunkBytes, t
<1>14. ASSUME l.rows > 1
       PROVE  /\ ChunkBytes(c, l, l.rows) <= MaxOverallSharedMem(d)
              /\ l.rows < most => ~(ChunkBytes(c, l, 2 * l.rows) <= MaxOverallSharedMem(d))
  <2>1. wanted > 1
    <3>1. ~(wanted > 1) => fit.rows = wanted
      OBVIOUS
    <3> QED
      BY <1>1, <1>14, <3>1
  <2>2. HalvedTo(c, d, t, wanted, fit)
    <3>1. fit = Halve(c, d, t, wanted)
      BY <2>1
    <3> QED
      BY <1>2, <1>4, <1>6, <2>1, <3>1, HalveExact
  <2>3. most = wanted
    BY <1>6, <2>1
  <2>4. l.rows = fit.rows
    BY <1>1
  <2> QED
    BY <1>13, <1>14, <2>2, <2>3, <2>4 DEF HalvedTo
<1> QED
  BY <1>1, <1>10, <1>11, <1>12, <1>14

-----------------------------------------------------------------------------
(* The grid *)

(* The threads of the grid are those of its blocks. *)
LEMMA TeamThreads ==
  /\ \A b \in Blocks : Team(b) \subseteq Threads /\ \A th \in Team(b) : BlockOf(th) = b
  /\ \A th \in Threads : BlockOf(th) \in Blocks /\ IdxOf(th) \in Lanes /\ th \in Team(BlockOf(th))
  /\ \A b1, b2 \in Blocks : b1 # b2 => Team(b1) \cap Team(b2) = {}
  /\ \A b \in Blocks : \A th1, th2 \in Team(b) : IdxOf(th1) = IdxOf(th2) => th1 = th2
  BY DEF Team, Threads, BlockOf, IdxOf

(* A step of a block changes neither the request nor the configuration. *)
LEMMA SameLaunch ==
  ASSUME UNCHANGED launchVars
  PROVE  /\ LaunchInv' <=> LaunchInv
         /\ Representable(request)' <=> Representable(request)
         /\ Running' <=> Running
         /\ Blocks' = Blocks /\ Threads' = Threads
         /\ \A b : Team(b)' = Team(b)
         /\ \A th, label, p : InRange(th, label, p)' <=> InRange(th, label, p)
         /\ \A l1, p1, l2, p2 : Together(l1, p1, l2, p2)' <=> Together(l1, p1, l2, p2)
<1>1. request' = request /\ device' = device /\ specified' = specified
      /\ phase' = phase /\ launch' = launch
  BY DEF launchVars
<1>2. LaunchInv' <=> LaunchInv
  BY <1>1 DEF LaunchInv, Acceptable
<1>3. Representable(request)' <=> Representable(request)
  BY <1>1 DEF Representable
<1>4. Running' <=> Running
  BY <1>1 DEF Running
<1>5. Blocks' = Blocks /\ Lanes' = Lanes
  BY <1>1 DEF Blocks, Lanes
<1>6. Threads' = Threads /\ \A b : Team(b)' = Team(b)
  BY <1>5 DEF Threads, Team
<1>7. FillFits' = FillFits /\ Warps' = Warps
  BY <1>1 DEF FillFits, Warps, U
<1>8. \A i : RowsAt(i)' = RowsAt(i) /\ FirstChunk(i)' = FirstChunk(i)
  BY <1>1 DEF RowsAt, FirstChunk
<1>9. \A i : CopyFits(i)' = CopyFits(i)
  BY <1>1, <1>7, <1>8 DEF CopyFits
<1>10. \A th, i : RealTasks(th, i)' = RealTasks(th, i)
  BY <1>1, <1>8 DEF RealTasks
<1>11. \A th, label, p : InRange(th, label, p)' <=> InRange(th, label, p)
  BY <1>1, <1>7, <1>8, <1>9, <1>10 DEF InRange
<1>12. \A l1, p1, l2, p2 : Together(l1, p1, l2, p2)' <=> Together(l1, p1, l2, p2)
  BY <1>7, <1>9 DEF Together
<1> QED
  BY <1>2, <1>3, <1>4, <1>5, <1>6, <1>11, <1>12

(* Together is an equivalence: threads that stay with those of their block
   stay with each other. *)
LEMMA TogetherLinks ==
  ASSUME NEW l1, NEW p1, NEW l2, NEW p2, Together(l1, p1, l2, p2)
  PROVE  /\ Together(l2, p2, l1, p1)
         /\ \A l3, p3 : Together(l2, p2, l3, p3) => Together(l1, p1, l3, p3)
  BY DEF Together

(* Some threads of a block move to where next says. *)
Moves(movers, next) ==
  /\ pc' = [th \in Threads |-> IF th \in movers THEN next[th].label ELSE pc[th]]
  /\ at' = [th \in Threads |-> IF th \in movers THEN next[th].at ELSE at[th]]

Workspaces ==
  /\ DOMAIN workspace = Blocks
  /\ \A b \in Blocks : DOMAIN workspace[b] = 0 .. (launch.output_workspace_size - 1)

IsPlace(th, place) ==
  place.label \in Labels /\ place.at \in Position /\ InRange(th, place.label, place.at)

(* Moves that keep the threads of the block together keep the invariant. *)
LEMMA GridMoves ==
  ASSUME GridInv, Running, UNCHANGED launchVars, Workspaces',
         NEW b \in Blocks, NEW movers \in SUBSET Team(b), NEW next, Moves(movers, next),
         \A th \in movers : IsPlace(th, next[th]),
         \A th1, th2 \in Team(b) : Together(pc'[th1], at'[th1], pc'[th2], at'[th2])
  PROVE  GridInv'
<1>1. /\ LaunchInv' /\ (Running' <=> Running)
      /\ Blocks' = Blocks /\ Threads' = Threads
      /\ \A d : Team(d)' = Team(d)
      /\ \A th, label, p : InRange(th, label, p)' <=> InRange(th, label, p)
      /\ \A l1, p1, l2, p2 : Together(l1, p1, l2, p2)' <=> Together(l1, p1, l2, p2)
  BY SameLaunch DEF GridInv
<1>2. movers \subseteq Threads /\ \A d \in Blocks \ {b} : Team(d) \cap movers = {}
  BY TeamThreads
<1>3. /\ \A th \in movers : pc'[th] = next[th].label /\ at'[th] = next[th].at
      /\ \A th \in Threads \ movers : pc'[th] = pc[th] /\ at'[th] = at[th]
  BY <1>2 DEF Moves
<1>4. pc' \in [Threads -> Labels] /\ at' \in [Threads -> Position]
  BY <1>2 DEF Moves, IsPlace, GridInv
<1>5. ASSUME NEW th \in Threads PROVE InRange(th, pc'[th], at'[th])
  <2>1. CASE th \in movers
    BY <1>3, <2>1 DEF IsPlace
  <2>2. CASE th \notin movers
    BY <1>3, <2>2 DEF GridInv
  <2> QED
    BY <2>1, <2>2
<1>6. ASSUME NEW d \in Blocks, NEW th1 \in Team(d), NEW th2 \in Team(d)
      PROVE  Together(pc'[th1], at'[th1], pc'[th2], at'[th2])
  <2>1. CASE d = b
    BY <2>1
  <2>2. CASE d # b
    <3>1. th1 \in Threads \ movers /\ th2 \in Threads \ movers
      BY <1>2, <2>2, TeamThreads
    <3>2. Together(pc[th1], at[th1], pc[th2], at[th2])
      BY DEF GridInv
    <3> QED
      BY <1>3, <3>1, <3>2
  <2> QED
    BY <2>1, <2>2
<1> QED
  BY <1>1, <1>4, <1>5, <1>6 DEF GridInv, Workspaces

(* Threads that go on in the same chunk and part of the loop body. *)
LEMMA ThreadsGoOn ==
  ASSUME GridInv, Running, UNCHANGED launchVars, Workspaces',
         NEW b \in Blocks, NEW movers \in SUBSET Team(b), NEW next, Moves(movers, next),
         \A th \in movers : /\ IsPlace(th, next[th])
                            /\ Together(pc[th], at[th], next[th].label, next[th].at)
  PROVE  GridInv'
<1>1. Team(b) \subseteq Threads
  BY TeamThreads
<1>2. /\ \A th \in movers : pc'[th] = next[th].label /\ at'[th] = next[th].at
      /\ \A th \in Threads \ movers : pc'[th] = pc[th] /\ at'[th] = at[th]
  BY <1>1 DEF Moves
<1>3. ASSUME NEW th \in Team(b) PROVE Together(pc[th], at[th], pc'[th], at'[th])
  <2>1. CASE th \in movers
    BY <1>2, <2>1
  <2>2. CASE th \notin movers
    BY <1>1, <1>2, <2>2 DEF Together
  <2> QED
    BY <2>1, <2>2
<1>4. ASSUME NEW th1 \in Team(b), NEW th2 \in Team(b)
      PROVE  Together(pc'[th1], at'[th1], pc'[th2], at'[th2])
  <2>1. Together(pc'[th1], at'[th1], pc[th1], at[th1])
    BY <1>3, TogetherLinks
  <2>2. Together(pc[th1], at[th1], pc[th2], at[th2])
    BY DEF GridInv
  <2>3. Together(pc[th2], at[th2], pc'[th2], at'[th2])
    BY <1>3
  <2> QED
    BY <2>1, <2>2, <2>3, TogetherLinks
<1> QED
  BY <1>4, GridMoves

(* All threads of a block leave a barrier together. *)
LEMMA TeamLeaves ==
  ASSUME GridInv, Running, UNCHANGED launchVars, Workspaces',
         NEW b \in Blocks, NEW next, Moves(Team(b), next),
         \A th \in Team(b) : IsPlace(th, next[th]),
         \A th1, th2 \in Team(b) : Together(next[th1].label, next[th1].at, next[th2].label, next[th2].at)
  PROVE  GridInv'
<1>1. \A th \in Team(b) : pc'[th] = next[th].label /\ at'[th] = next[th].at
  BY TeamThreads DEF Moves
<1>2. \A th1, th2 \in Team(b) : Together(pc'[th1], at'[th1], pc'[th2], at'[th2])
  BY <1>1
<1> QED
  BY <1>2, GridMoves

-----------------------------------------------------------------------------
(* Where threads go *)

(* A block is whole warps. *)
LEMMA WarpNumbers ==
  ASSUME LaunchInv, Representable(request), Running
  PROVE  /\ Warps \in Nat \ {0}
         /\ launch.threads_per_block = Warps * WARP_SIZE
         /\ \A th \in Threads : /\ IdxOf(th) \in Nat /\ IdxOf(th) < launch.threads_per_block
                                /\ WarpOf(th) \in 0 .. (Warps - 1)
                                /\ WarpOf(th) % Warps = WarpOf(th)
<1> DEFINE T == launch.threads_per_block
           W == WARP_SIZE
           n == T \div W
<1>1. T \in Nat \ {0} /\ W \in Nat \ {0} /\ T % W = 0
  BY Launched
<1>2. Warps = n
  BY DEF Warps
<1>3. \A th \in Threads : IdxOf(th) \in 0 .. (T - 1) /\ WarpOf(th) = IdxOf(th) \div W
  BY DEF Threads, Lanes, IdxOf, WarpOf
<1> HIDE DEF T, W
<1>4. n \in Nat /\ T = n * W + 0
  BY <1>1, DivMod
<1> HIDE DEF n
<1>5. n # 0 /\ T = n * W
  BY <1>1, <1>4
<1>6. ASSUME NEW th \in Threads
      PROVE  /\ IdxOf(th) \in Nat /\ IdxOf(th) < T
             /\ WarpOf(th) \in 0 .. (n - 1)
             /\ WarpOf(th) % n = WarpOf(th)
  <2> DEFINE x == IdxOf(th)
             w == x \div W
  <2>1. x \in Nat /\ x < T
    BY <1>1, <1>3
  <2> HIDE DEF x
  <2>2. w \in Nat /\ x % W \in 0 .. (W - 1) /\ x = w * W + (x % W)
    BY <1>1, <2>1, DivMod
  <2>3. WarpOf(th) = w
    BY <1>3 DEF x
  <2>4. w < n
    BY <1>1, <1>4, <1>5, <2>1, QuotientBelow DEF w
  <2> HIDE DEF w
  <2>5. w % n = w
    BY <1>4, <1>5, <2>2, <2>4, DivMod
  <2> QED
    BY <1>4, <2>1, <2>2, <2>3, <2>4, <2>5 DEF x
<1> QED
  BY <1>2, <1>4, <1>5, <1>6 DEF T, W

(* The indexes of a loop are a position. *)
LEMMA AtPosition ==
  ASSUME NEW i \in Nat, NEW task \in Nat, NEW row \in Nat, NEW comp \in Nat, NEW grove \in Nat
  PROVE  At(i, task, row, comp, grove) \in Position
  BY DEF At, Position

(* The loop indexes of a thread are numbers. *)
LEMMA PositionFields ==
  ASSUME GridInv, Running, NEW th \in Threads
  PROVE  /\ at[th].i \in Nat /\ at[th].task \in Nat /\ at[th].row \in Nat
         /\ at[th].comp \in Nat /\ at[th].grove \in Nat
         /\ at[th] \in Position /\ pc[th] \in Labels
  BY DEF GridInv, Position

(* A thread takes a task of its own, or waits for the end of the first loop. *)
LEMMA TaskFromPlace ==
  ASSUME GridInv, Representable(request), Running, NEW th \in Threads, pc[th] # "exit", NEW t,
         NEW place, place = TaskFrom(th, t)
  PROVE  /\ place.label \in {"evaluate", "inferred"}
         /\ place.at.i = at[th].i
         /\ IsPlace(th, place)
<1> DEFINE i == at[th].i
           left == {u \in RealTasks(th, i) : u >= t}
           next == CHOOSE u \in left : \A v \in left : u <= v
<1>1. i \in Nat /\ i < request.row_count
  BY PositionFields DEF GridInv, InRange
<1>2. RealTasks(th, i) \subseteq Nat
  BY DEF RealTasks
<1>3. left # {} => next \in RealTasks(th, i)
  <2>1. left \subseteq Nat /\ left \subseteq RealTasks(th, i)
    BY <1>2
  <2> HIDE DEF left
  <2> QED
    BY <2>1, LeastNat
<1>4. place = IF left = {} THEN Place("inferred", At(i, 0, 0, 0, 0))
              ELSE Place("evaluate", At(i, next, 0, 0, 0))
  BY DEF TaskFrom
<1>5. NumComp(request) \in Nat \ {0}
  BY Launched DEF GridInv
<1> HIDE DEF i, left, next
<1>6. CASE left = {}
  <2>1. place = Place("inferred", At(i, 0, 0, 0, 0))
    BY <1>4, <1>6
  <2>2. At(i, 0, 0, 0, 0) \in Position
    BY <1>1, AtPosition
  <2> QED
    BY <1>1, <2>1, <2>2 DEF Place, At, IsPlace, InRange, Labels, i
<1>7. CASE left # {}
  <2>1. place = Place("evaluate", At(i, next, 0, 0, 0)) /\ next \in RealTasks(th, i) /\ next \in Nat
    BY <1>2, <1>3, <1>4, <1>7
  <2>2. At(i, next, 0, 0, 0) \in Position
    BY <1>1, <2>1, AtPosition
  <2> QED
    BY <1>1, <1>5, <2>1, <2>2 DEF Place, At, IsPlace, InRange, Labels, i
<1> QED
  BY <1>6, <1>7

(* A lane takes the next output or row of its warp, or waits for the end. *)
LEMMA NextSumPlace ==
  ASSUME LaunchInv, Representable(request), Running, NEW th \in Threads, NEW p \in Position,
         p.i < request.row_count, p.row % Warps = WarpOf(th),
         p.comp < NumOutputs(request), p.row < RowsAt(p.i),
         NEW place, place = NextSum(p)
  PROVE  /\ place.label \in {"reduce", "reduced"}
         /\ place.at.i = p.i
         /\ IsPlace(th, place)
<1>1. p.i \in Nat /\ p.row \in Nat /\ p.comp \in Nat
  BY DEF Position
<1>2. NumOutputs(request) \in Nat \ {0} /\ Warps \in Nat \ {0}
  BY Launched, WarpNumbers
<1>3. (p.row + Warps) % Warps = WarpOf(th)
  <2> DEFINE q == p.row \div Warps
             r == p.row % Warps
  <2>1. q \in Nat /\ r \in 0 .. (Warps - 1) /\ p.row = q * Warps + r
    BY <1>1, <1>2, DivMod
  <2>2. r = WarpOf(th)
    OBVIOUS
  <2> HIDE DEF q, r
  <2>3. p.row + Warps = (q + 1) * Warps + r
    <3>1. (q + 1) * Warps = q * Warps + Warps /\ q * Warps \in Nat
      BY <1>2, <2>1, MulNat
    <3> QED
      BY <1>2, <2>1, <3>1
  <2>4. ((q + 1) * Warps + r) % Warps = r
    <3> DEFINE n == q + 1
    <3>1. n \in Nat
      BY <2>1
    <3> HIDE DEF n
    <3>2. (n * Warps + r) % Warps = r
      BY <1>2, <2>1, <3>1, DivUnique
    <3> QED
      BY <3>2 DEF n
  <2> QED
    BY <2>2, <2>3, <2>4
<1>4. CASE p.comp + 1 < NumOutputs(request)
  <2>1. place = Place("reduce", At(p.i, 0, p.row, p.comp + 1, 0))
    BY <1>4 DEF NextSum
  <2>2. At(p.i, 0, p.row, p.comp + 1, 0) \in Position
    BY <1>1, AtPosition
  <2> QED
    BY <1>4, <2>1, <2>2 DEF Place, At, IsPlace, InRange, Labels
<1>5. CASE ~(p.comp + 1 < NumOutputs(request)) /\ p.row + Warps < RowsAt(p.i)
  <2>1. place = Place("reduce", At(p.i, 0, p.row + Warps, 0, 0))
    BY <1>5 DEF NextSum, Warps
  <2>2. At(p.i, 0, p.row + Warps, 0, 0) \in Position
    BY <1>1, <1>2, AtPosition
  <2> QED
    BY <1>2, <1>3, <1>5, <2>1, <2>2 DEF Place, At, IsPlace, InRange, Labels
<1>6. CASE ~(p.comp + 1 < NumOutputs(request)) /\ ~(p.row + Warps < RowsAt(p.i))
  <2>1. place = Place("reduced", At(p.i, 0, 0, 0, 0))
    BY <1>6 DEF NextSum, Warps
  <2>2. At(p.i, 0, 0, 0, 0) \in Position
    BY <1>1, AtPosition
  <2> QED
    BY <2>1, <2>2 DEF Place, At, IsPlace, InRange, Labels
<1> QED
  BY <1>4, <1>5, <1>6

(* A warp begins with the row of its number. *)
LEMMA StartSumPlace ==
  ASSUME LaunchInv, Representable(request), Running, NEW th \in Threads,
         NEW i \in Nat, i < request.row_count, NEW place, place = StartSum(th, i)
  PROVE  /\ place.label \in {"reduce", "reduced"}
         /\ place.at.i = i
         /\ IsPlace(th, place)
<1>1. /\ NumOutputs(request) \in Nat \ {0}
      /\ WarpOf(th) \in Nat /\ WarpOf(th) % Warps = WarpOf(th)
  BY Launched, WarpNumbers
<1>2. At(i, 0, WarpOf(th), 0, 0) \in Position /\ At(i, 0, 0, 0, 0) \in Position
  BY <1>1, AtPosition
<1>3. CASE WarpOf(th) < RowsAt(i)
  <2>1. place = Place("reduce", At(i, 0, WarpOf(th), 0, 0))
    BY <1>3 DEF StartSum
  <2> QED
    BY <1>1, <1>2, <1>3, <2>1 DEF Place, At, IsPlace, InRange, Labels
<1>4. CASE ~(WarpOf(th) < RowsAt(i))
  <2>1. place = Place("reduced", At(i, 0, 0, 0, 0))
    BY <1>4 DEF StartSum
  <2> QED
    BY <1>2, <2>1 DEF Place, At, IsPlace, InRange, Labels
<1> QED
  BY <1>3, <1>4

(* A block begins with a chunk, or leaves the loop. *)
LEMMA ChunkPlace ==
  ASSUME NEW th, NEW i \in Nat, NEW place, place = Chunk(i)
  PROVE  /\ place.label = (IF i < request.row_count THEN "stage" ELSE "exit")
         /\ place.at.i = i
         /\ IsPlace(th, place)
<1>1. At(i, 0, 0, 0, 0) \in Position
  BY AtPosition
<1> QED
  BY <1>1 DEF Chunk, Place, At, IsPlace, InRange, Labels

-----------------------------------------------------------------------------
(* The steps of a block *)

(* A thread that goes on alone. *)
LEMMA ThreadGoesOn ==
  ASSUME GridInv, Running, UNCHANGED launchVars, Workspaces',
         NEW b \in Blocks, NEW th \in Team(b), NEW place, Goto(th, place),
         IsPlace(th, place), Together(pc[th], at[th], place.label, place.at)
  PROVE  GridInv'
<1> DEFINE next == [t \in {th} |-> place]
<1>1. pc \in [Threads -> Labels] /\ at \in [Threads -> Position]
  BY DEF GridInv
<1>2. Moves({th}, next)
  BY <1>1 DEF Moves, Goto
<1>3. \A t \in {th} : IsPlace(t, next[t]) /\ Together(pc[t], at[t], next[t].label, next[t].at)
  OBVIOUS
<1>4. {th} \in SUBSET Team(b)
  OBVIOUS
<1> HIDE DEF next
<1> QED
  BY <1>2, <1>3, <1>4, ThreadsGoOn

(* A step that stores in the workspace leaves its shape. *)
LEMMA WorkspacesKept ==
  ASSUME GridInv, Running, UNCHANGED launchVars,
         \/ workspace' = workspace
         \/ \E b \in Blocks : \E f : /\ workspace' = [workspace EXCEPT ![b] = f]
                                     /\ DOMAIN f = DOMAIN workspace[b]
  PROVE  Workspaces'
<1>1. Workspaces /\ Blocks' = Blocks /\ launch' = launch
  BY SameLaunch DEF GridInv, Workspaces, launchVars
<1> QED
  BY <1>1 DEF Workspaces

(* A thread that has cleared and copied its share waits in sync(), or goes on. *)
LEMMA StageStep ==
  ASSUME GridInv, Representable(request), Running, NEW b \in Blocks, NEW th \in Team(b), Stage(th)
  PROVE  GridInv'
<1>1. th \in Threads /\ BlockOf(th) = b
  BY TeamThreads
<1>2. pc[th] = "stage" /\ UNCHANGED launchVars
  BY DEF Stage, launchVars
<1>3. Workspaces'
  <2> DEFINE f == [k \in DOMAIN workspace[b] |->
                     IF FillFits /\ k % launch.threads_per_block = IdxOf(th) THEN Zero
                     ELSE workspace[b][k]]
  <2>1. workspace' = [workspace EXCEPT ![b] = f]
    BY <1>1 DEF Stage
  <2>2. DOMAIN f = DOMAIN workspace[b]
    OBVIOUS
  <2> HIDE DEF f
  <2> QED
    BY <1>2, <2>1, <2>2, WorkspacesKept
<1> DEFINE i == at[th].i
<1>4. at[th] \in Position /\ i < request.row_count
  BY <1>1, <1>2, PositionFields DEF GridInv, InRange
<1>5. PICK required \in SyncRequired(th) :
        Goto(th, IF required THEN Place("sync", at[th]) ELSE TaskFrom(th, 0))
  BY DEF Stage
<1>6. /\ FillFits \/ CopyFits(i) => required
      /\ required => FillFits \/ CopyFits(i) \/ i = FirstChunk(b)
  BY <1>1, <1>5 DEF SyncRequired, FirstChunk
<1>7. CASE required
  <2>1. Goto(th, Place("sync", at[th]))
    BY <1>5, <1>7
  <2>2. IsPlace(th, Place("sync", at[th]))
    BY <1>1, <1>4, <1>6, <1>7 DEF IsPlace, Place, Labels, InRange
  <2>3. Together(pc[th], at[th], Place("sync", at[th]).label, Place("sync", at[th]).at)
    BY <1>2 DEF Together, Place, Part, Clearing
  <2> QED
    BY <1>2, <1>3, <2>1, <2>2, <2>3, ThreadGoesOn
<1>8. CASE ~required
  <2> DEFINE place == TaskFrom(th, 0)
  <2>1. Goto(th, place)
    BY <1>5, <1>8
  <2>2. place.label \in {"evaluate", "inferred"} /\ place.at.i = i /\ IsPlace(th, place)
    BY <1>1, <1>2, TaskFromPlace
  <2> HIDE DEF place
  <2>3. Together(pc[th], at[th], place.label, place.at)
    BY <1>2, <1>6, <1>8, <2>2 DEF Together, Part
  <2> QED
    BY <1>2, <1>3, <2>1, <2>2, <2>3, ThreadGoesOn
<1> QED
  BY <1>7, <1>8

(* A thread that has loaded an element goes on to add to it. *)
LEMMA EvaluateStep ==
  ASSUME GridInv, Representable(request), Running, NEW b \in Blocks, NEW th \in Team(b), Evaluate(th)
  PROVE  GridInv'
<1>1. th \in Threads
  BY TeamThreads
<1>2. pc[th] = "evaluate" /\ UNCHANGED launchVars
  BY DEF Evaluate, launchVars
<1>3. Workspaces'
  BY <1>2, WorkspacesKept DEF Evaluate
<1> DEFINE place == Place("accumulate", at[th])
<1>4. Goto(th, place)
  BY <1>1 DEF Evaluate, Goto, Place, GridInv
<1>5. IsPlace(th, place)
  BY <1>1, <1>2, PositionFields DEF GridInv, IsPlace, Place, Labels, InRange
<1>6. Together(pc[th], at[th], place.label, place.at)
  BY <1>2 DEF Together, Place, Part, Clearing
<1> HIDE DEF place
<1> QED
  BY <1>2, <1>3, <1>4, <1>5, <1>6, ThreadGoesOn

(* A thread that has added goes on with its task or takes the next. *)
LEMMA AccumulateStep ==
  ASSUME GridInv, Representable(request), Running, NEW b \in Blocks, NEW th \in Team(b), Accumulate(th)
  PROVE  GridInv'
<1>1. th \in Threads /\ BlockOf(th) = b
  BY TeamThreads
<1>2. pc[th] = "accumulate" /\ UNCHANGED launchVars
  BY DEF Accumulate, launchVars
<1>3. Workspaces'
  <2> DEFINE f == [workspace[b] EXCEPT ![TargetSlot(th)] = AddTerm(reg[th], TreeOutput(th))]
  <2>1. workspace' = [workspace EXCEPT ![b] = f]
    BY <1>1 DEF Accumulate
  <2>2. DOMAIN f = DOMAIN workspace[b]
    OBVIOUS
  <2> HIDE DEF f
  <2> QED
    BY <1>2, <2>1, <2>2, WorkspacesKept
<1> DEFINE p == at[th]
           place == IF p.comp + 1 < NumComp(request)
                    THEN Place("evaluate", At(p.i, p.task, 0, p.comp + 1, 0))
                    ELSE TaskFrom(th, p.task + 1)
<1>4. Goto(th, place)
  BY DEF Accumulate
<1>5. place.label \in {"evaluate", "inferred"} /\ place.at.i = p.i /\ IsPlace(th, place)
  <2>1. CASE p.comp + 1 < NumComp(request)
    <3>1. At(p.i, p.task, 0, p.comp + 1, 0) \in Position
      <4>1. p.i \in Nat /\ p.task \in Nat /\ p.comp + 1 \in Nat
        BY <1>1, PositionFields
      <4> QED
        BY <4>1, AtPosition
    <3>2. p.i < request.row_count /\ p.task \in RealTasks(th, p.i)
      BY <1>1, <1>2 DEF GridInv, InRange
    <3> QED
      BY <2>1, <3>1, <3>2 DEF Place, At, IsPlace, Labels, InRange
  <2>2. CASE ~(p.comp + 1 < NumComp(request))
    BY <1>1, <1>2, <2>2, TaskFromPlace
  <2> QED
    BY <2>1, <2>2
<1> HIDE DEF place
<1>6. Together(pc[th], at[th], place.label, place.at)
  BY <1>2, <1>5 DEF Together, Part, Clearing
<1> QED
  BY <1>2, <1>3, <1>4, <1>5, <1>6, ThreadGoesOn

(* A first lane that has stored a sum goes on with its row. *)
LEMMA StoreSumStep ==
  ASSUME GridInv, Representable(request), Running, NEW b \in Blocks, NEW th \in Team(b), StoreSum(th)
  PROVE  GridInv'
<1>1. th \in Threads /\ BlockOf(th) = b
  BY TeamThreads
<1>2. pc[th] = "store" /\ UNCHANGED launchVars
  BY DEF StoreSum, launchVars
<1> DEFINE p == at[th]
           place == IF p.comp + 1 < NumOutputs(request) THEN NextSum(p) ELSE Place("postprocess", p)
<1>3. Workspaces'
  <2> DEFINE f == [workspace[b] EXCEPT ![Slot(p.row, p.comp, 0)] = reg[th]]
  <2>1. workspace' = [workspace EXCEPT ![b] = f]
    BY <1>1 DEF StoreSum
  <2>2. DOMAIN f = DOMAIN workspace[b]
    OBVIOUS
  <2> HIDE DEF f
  <2> QED
    BY <1>2, <2>1, <2>2, WorkspacesKept
<1>4. Goto(th, place)
  BY DEF StoreSum
<1>5. /\ p \in Position /\ p.i < request.row_count
      /\ p.row % Warps = WarpOf(th) /\ p.comp < NumOutputs(request) /\ p.row < RowsAt(p.i)
      /\ IsFirstLane(th)
  BY <1>1, <1>2, PositionFields DEF GridInv, InRange
<1>6. /\ place.label \in {"reduce", "reduced", "postprocess"}
      /\ place.at.i = p.i
      /\ IsPlace(th, place)
  <2>1. CASE p.comp + 1 < NumOutputs(request)
    BY <1>1, <1>5, <2>1, NextSumPlace DEF GridInv
  <2>2. CASE ~(p.comp + 1 < NumOutputs(request))
    BY <1>5, <2>2 DEF Place, IsPlace, Labels, InRange
  <2> QED
    BY <2>1, <2>2
<1> HIDE DEF place
<1>7. Together(pc[th], at[th], place.label, place.at)
  BY <1>2, <1>6 DEF Together, Part, Clearing
<1> QED
  BY <1>2, <1>3, <1>4, <1>6, <1>7, ThreadGoesOn

(* A first lane that has copied out a row goes on with the next. *)
LEMMA PostProcessStep ==
  ASSUME GridInv, Representable(request), Running, NEW b \in Blocks, NEW th \in Team(b), PostProcess(th)
  PROVE  GridInv'
<1>1. th \in Threads /\ BlockOf(th) = b
  BY TeamThreads
<1>2. pc[th] = "postprocess" /\ UNCHANGED launchVars
  BY DEF PostProcess, launchVars
<1> DEFINE p == at[th]
           place == NextSum(p)
<1>3. Workspaces'
  <2> DEFINE f == [k \in DOMAIN workspace[b] |->
                     IF \E o \in Outputs(request) : k = Slot(p.row, o, 0)
                     THEN Transform(workspace[b][k]) ELSE workspace[b][k]]
  <2>1. workspace' = [workspace EXCEPT ![b] = f]
    BY <1>1 DEF PostProcess
  <2>2. DOMAIN f = DOMAIN workspace[b]
    OBVIOUS
  <2> HIDE DEF f
  <2> QED
    BY <1>2, <2>1, <2>2, WorkspacesKept
<1>4. Goto(th, place)
  BY DEF PostProcess
<1>5. /\ p \in Position /\ p.i < request.row_count
      /\ p.row % Warps = WarpOf(th) /\ p.comp < NumOutputs(request) /\ p.row < RowsAt(p.i)
  BY <1>1, <1>2, PositionFields DEF GridInv, InRange
<1>6. place.label \in {"reduce", "reduced"} /\ place.at.i = p.i /\ IsPlace(th, place)
  BY <1>1, <1>5, NextSumPlace DEF GridInv
<1> HIDE DEF place
<1>7. Together(pc[th], at[th], place.label, place.at)
  BY <1>2, <1>6 DEF Together, Part, Clearing
<1> QED
  BY <1>2, <1>3, <1>4, <1>6, <1>7, ThreadGoesOn

(* A warp goes on with its batches, then its first lane stores the sum. *)
LEMMA WarpSumStep ==
  ASSUME GridInv, Representable(request), Running, NEW b \in Blocks,
         NEW w \in 0 .. (launch.threads_per_block \div WARP_SIZE - 1), WarpSum(b, w)
  PROVE  GridInv'
<1> DEFINE lane(l) == <<b, w * WARP_SIZE + l>>
           lanes   == {lane(l) : l \in 0 .. (WARP_SIZE - 1)}
           p       == at[lane(0)]
           last    == p.grove + WARP_SIZE >= PaddedSize(launch.num_grove, WARP_SIZE)
           target(th) == IF ~last THEN Place("reduce", [p EXCEPT !.grove = @ + WARP_SIZE])
                         ELSE IF th = lane(0) THEN Place("store", p)
                         ELSE NextSum(p)
           next == [th \in lanes |-> target(th)]
<1>1. /\ \A th \in lanes : pc[th] = "reduce" /\ at[th] = p
      /\ Moves(lanes, next)
      /\ workspace' = workspace
      /\ UNCHANGED launchVars
  BY DEF WarpSum, Moves, launchVars
<1>2. /\ Warps \in Nat \ {0} /\ WARP_SIZE \in Nat \ {0}
      /\ launch.threads_per_block = Warps * WARP_SIZE
      /\ w \in 0 .. (Warps - 1)
  BY WarpNumbers, LaunchAssumption DEF GridInv, Warps
<1>3. \A l \in 0 .. (WARP_SIZE - 1) :
        w * WARP_SIZE + l < Warps * WARP_SIZE /\ w * WARP_SIZE + l \in Nat
  <2> TAKE l \in 0 .. (WARP_SIZE - 1)
  <2>1. w \in Nat /\ w < Warps /\ l \in Nat /\ l < WARP_SIZE
    BY <1>2
  <2> QED
    BY <1>2, <2>1, BlockOrder, MulNat
<1>4. lanes \in SUBSET Team(b)
  <2>1. \A l \in 0 .. (WARP_SIZE - 1) : w * WARP_SIZE + l \in Lanes
    BY <1>2, <1>3 DEF Lanes
  <2> QED
    BY <2>1 DEF Team
<1>5. lanes \subseteq Threads
  BY <1>4, TeamThreads
<1>6. lane(0) \in lanes /\ IsFirstLane(lane(0))
  <2>1. 0 \in 0 .. (WARP_SIZE - 1) /\ w \in Nat
    BY <1>2
  <2>2. (w * WARP_SIZE + 0) % WARP_SIZE = 0
    BY <1>2, <2>1, DivUnique
  <2> QED
    BY <2>1, <2>2 DEF IsFirstLane, IdxOf
<1>7. Workspaces'
  BY <1>1, WorkspacesKept
<1> HIDE DEF lanes
<1>8. /\ p \in Position /\ p.i < request.row_count
      /\ p.comp < NumOutputs(request) /\ p.row < RowsAt(p.i)
      /\ \A th \in lanes : p.row % Warps = WarpOf(th)
  <2>1. p \in Position /\ pc[lane(0)] = "reduce"
    BY <1>1, <1>5, <1>6, PositionFields
  <2>2. InRange(lane(0), "reduce", p)
    BY <1>5, <1>6, <2>1 DEF GridInv
  <2>3. \A th \in lanes : InRange(th, "reduce", p)
    BY <1>1, <1>5 DEF GridInv
  <2> HIDE DEF p
  <2> QED
    BY <2>1, <2>2, <2>3 DEF InRange
<1> HIDE DEF lane, p
<1>9. ASSUME NEW th \in lanes
      PROVE  IsPlace(th, next[th]) /\ Together(pc[th], at[th], next[th].label, next[th].at)
  <2>1. pc[th] = "reduce" /\ at[th] = p /\ th \in Threads /\ p.row % Warps = WarpOf(th)
    BY <1>1, <1>5, <1>8
  <2>2. next[th] = target(th)
    OBVIOUS
  <2>3. CASE ~last
    <3> DEFINE q == [p EXCEPT !.grove = @ + WARP_SIZE]
    <3>1. q \in Position /\ q.i = p.i /\ q.row = p.row /\ q.comp = p.comp
      BY <1>2, <1>8 DEF Position
    <3>2. next[th] = Place("reduce", q)
      BY <2>2, <2>3
    <3> HIDE DEF q, last, next
    <3> QED
      BY <1>8, <2>1, <3>1, <3>2 DEF IsPlace, Place, Labels, InRange, Together
  <2>4. CASE last /\ th = lane(0)
    <3>1. next[th] = Place("store", p)
      BY <2>2, <2>4
    <3> HIDE DEF last, next
    <3> QED
      BY <1>6, <1>8, <2>1, <2>4, <3>1 DEF IsPlace, Place, Labels, InRange, Together, Part, Clearing
  <2>5. CASE last /\ th # lane(0)
    <3> DEFINE place == NextSum(p)
    <3>1. next[th] = place
      BY <2>2, <2>5
    <3>2. place.label \in {"reduce", "reduced"} /\ place.at.i = p.i /\ IsPlace(th, place)
      BY <1>8, <2>1, NextSumPlace DEF GridInv
    <3> HIDE DEF last, next, place
    <3> QED
      BY <2>1, <3>1, <3>2 DEF Together, Part, Clearing
  <2> QED
    BY <2>3, <2>4, <2>5
<1> HIDE DEF next
<1> QED
  BY <1>1, <1>4, <1>7, <1>9, ThreadsGoOn

(* The threads that wait in sync() begin with their tasks. *)
LEMMA SyncBarrierStep ==
  ASSUME GridInv, Representable(request), Running, NEW b \in Blocks, SyncBarrier(b)
  PROVE  GridInv'
<1> DEFINE next == [th \in Team(b) |-> TaskFrom(th, 0)]
<1>1. /\ \A th \in Team(b) : pc[th] = "sync"
      /\ Moves(Team(b), next)
      /\ workspace' = workspace /\ UNCHANGED launchVars
  BY DEF SyncBarrier, Waiting, Release, Moves, launchVars
<1>2. Workspaces'
  BY <1>1, WorkspacesKept
<1>3. Team(b) \subseteq Threads
  BY TeamThreads
<1>4. ASSUME NEW th \in Team(b)
      PROVE  /\ next[th].label \in {"evaluate", "inferred"}
             /\ next[th].at.i = at[th].i
             /\ IsPlace(th, next[th])
  BY <1>1, <1>3, TaskFromPlace
<1> HIDE DEF next
<1>5. ASSUME NEW th1 \in Team(b), NEW th2 \in Team(b)
      PROVE  Together(next[th1].label, next[th1].at, next[th2].label, next[th2].at)
  <2>1. at[th1].i = at[th2].i
    BY DEF GridInv, Together
  <2> QED
    BY <1>4, <2>1 DEF Together, Part, Clearing
<1> QED
  BY <1>1, <1>2, <1>4, <1>5, TeamLeaves

(* The threads that wait in the middle of the loop body begin with their rows. *)
LEMMA InferredBarrierStep ==
  ASSUME GridInv, Representable(request), Running, NEW b \in Blocks, InferredBarrier(b)
  PROVE  GridInv'
<1> DEFINE next == [th \in Team(b) |-> StartSum(th, at[th].i)]
<1>1. /\ \A th \in Team(b) : pc[th] = "inferred"
      /\ Moves(Team(b), next)
      /\ workspace' = workspace /\ UNCHANGED launchVars
  BY DEF InferredBarrier, Waiting, Release, Moves, launchVars
<1>2. Workspaces'
  BY <1>1, WorkspacesKept
<1>3. Team(b) \subseteq Threads
  BY TeamThreads
<1>4. ASSUME NEW th \in Team(b)
      PROVE  /\ next[th].label \in {"reduce", "reduced"}
             /\ next[th].at.i = at[th].i
             /\ IsPlace(th, next[th])
  <2>1. at[th].i \in Nat /\ at[th].i < request.row_count
    BY <1>1, <1>3, PositionFields DEF GridInv, InRange
  <2> QED
    BY <1>3, <2>1, StartSumPlace DEF GridInv
<1> HIDE DEF next
<1>5. ASSUME NEW th1 \in Team(b), NEW th2 \in Team(b)
      PROVE  Together(next[th1].label, next[th1].at, next[th2].label, next[th2].at)
  <2>1. at[th1].i = at[th2].i
    BY DEF GridInv, Together
  <2> QED
    BY <1>4, <2>1 DEF Together, Part, Clearing
<1> QED
  BY <1>1, <1>2, <1>4, <1>5, TeamLeaves

(* The threads that wait at the end of the loop body begin the next chunk. *)
LEMMA ReducedBarrierStep ==
  ASSUME GridInv, Representable(request), Running, NEW b \in Blocks, ReducedBarrier(b)
  PROVE  GridInv'
<1> DEFINE next == [th \in Team(b) |-> Chunk(NextChunk(at[th].i))]
<1>1. /\ Moves(Team(b), next)
      /\ workspace' = workspace /\ UNCHANGED launchVars
  BY DEF ReducedBarrier, Release, Moves, launchVars
<1>2. Workspaces'
  BY <1>1, WorkspacesKept
<1>3. Team(b) \subseteq Threads
  BY TeamThreads
<1>4. ASSUME NEW th \in Team(b) PROVE NextChunk(at[th].i) \in Nat
  <2> DEFINE n == at[th].i + launch.chunk_size * launch.num_blocks
  <2>1. n \in Nat
    <3>1. launch.chunk_size \in Nat /\ launch.num_blocks \in Nat
      BY Launched DEF GridInv
    <3>2. launch.chunk_size * launch.num_blocks \in Nat
      BY <3>1, MulNat
    <3>3. at[th].i \in Nat
      BY <1>3, PositionFields
    <3> QED
      BY <3>2, <3>3
  <2> HIDE DEF n
  <2>2. U(n) \in Nat
    BY <2>1, NoWrap
  <2> QED
    BY <2>2 DEF NextChunk, n
<1>5. ASSUME NEW th \in Team(b)
      PROVE  /\ next[th].label = (IF NextChunk(at[th].i) < request.row_count THEN "stage" ELSE "exit")
             /\ next[th].at.i = NextChunk(at[th].i)
             /\ IsPlace(th, next[th])
  BY <1>4, ChunkPlace
<1> HIDE DEF next
<1>6. ASSUME NEW th1 \in Team(b), NEW th2 \in Team(b)
      PROVE  Together(next[th1].label, next[th1].at, next[th2].label, next[th2].at)
  <2>1. at[th1].i = at[th2].i
    BY DEF GridInv, Together
  <2> QED
    BY <1>5, <2>1 DEF Together
<1> QED
  BY <1>1, <1>2, <1>5, <1>6, TeamLeaves

(* The threads of a grid that starts are at the first chunks of their blocks. *)
LEMMA LaunchKernelStep ==
  ASSUME GridInv, Representable(request), LaunchKernel
  PROVE  GridInv'
<1>1. /\ phase' = "launched" /\ Acceptable(request, launch)
      /\ UNCHANGED <<request, device, specified, launch>>
  BY DEF LaunchKernel, Launch
<1>2. LaunchInv'
  BY <1>1 DEF GridInv, LaunchInv, Acceptable
<1>3. Representable(request)' /\ Running'
  BY <1>1 DEF Representable, Running
<1>4. launch.chunk_size \in Nat
  <2> DEFINE c == request
             l == launch
             d == device
             s == specified
  <2>1. /\ c \in Calls /\ d \in Devices /\ s \in ChunkSizes /\ Representable(c)
        /\ l = Configuration(c, d, s)
    BY DEF GridInv, LaunchInv
  <2> HIDE DEF c, l, d, s
  <2>2. l.chunk_size \in Nat \ {0}
    BY <2>1, LaunchSizes
  <2> QED
    BY <2>2 DEF l
<1>5. Blocks' = Blocks /\ Threads' = Threads /\ \A b : Team(b)' = Team(b)
  BY <1>1 DEF Blocks, Threads, Lanes, Team
<1>6. /\ DOMAIN workspace' = Blocks
      /\ \A b \in Blocks : DOMAIN workspace'[b] = 0 .. (launch.output_workspace_size - 1)
  <2>1. PICK old : workspace' =
          [b \in Blocks |-> [k \in 0 .. (launch.output_workspace_size - 1) |-> old]]
    BY DEF LaunchKernel
  <2> QED
    BY <2>1
<1> DEFINE place(th) == Chunk(FirstChunk(BlockOf(th)))
<1>7. /\ pc' = [th \in Threads |-> place(th).label]
      /\ at' = [th \in Threads |-> place(th).at]
  BY DEF LaunchKernel, FirstChunk
<1>8. \A th \in Threads : FirstChunk(BlockOf(th)) \in Nat
  <2> TAKE th \in Threads
  <2>1. BlockOf(th) \in Nat
    BY TeamThreads DEF Blocks
  <2> QED
    BY <1>4, <2>1, MulNat DEF FirstChunk
<1>9. ASSUME NEW th \in Threads
      PROVE  /\ place(th).label = (IF FirstChunk(BlockOf(th)) < request.row_count
                                   THEN "stage" ELSE "exit")
             /\ place(th).at.i = FirstChunk(BlockOf(th))
             /\ place(th).label \in Labels /\ place(th).at \in Position
  <2> DEFINE start == FirstChunk(BlockOf(th))
  <2>1. start \in Nat
    BY <1>8
  <2> HIDE DEF start
  <2>2. At(start, 0, 0, 0, 0) \in Position
    BY <2>1, AtPosition
  <2> QED
    BY <2>2 DEF start, Chunk, Place, At, Labels
<1> HIDE DEF place
<1>10. pc' \in [Threads -> Labels] /\ at' \in [Threads -> Position]
  BY <1>7, <1>9
<1>11. ASSUME NEW th \in Threads PROVE InRange(th, pc[th], at[th])'
  <2>1. pc'[th] \in {"stage", "exit"} /\ (pc'[th] # "exit" => at'[th].i < request'.row_count)
    BY <1>1, <1>7, <1>9
  <2> QED
    BY <2>1 DEF InRange
<1>12. ASSUME NEW b \in Blocks, NEW th1 \in Team(b), NEW th2 \in Team(b)
       PROVE  Together(pc[th1], at[th1], pc[th2], at[th2])'
  <2>1. th1 \in Threads /\ th2 \in Threads /\ BlockOf(th1) = b /\ BlockOf(th2) = b
    BY TeamThreads
  <2>2. pc'[th1] = pc'[th2] /\ at'[th1].i = at'[th2].i
    BY <1>7, <1>9, <2>1
  <2> QED
    BY <2>2 DEF Together
<1> QED
  BY <1>1, <1>2, <1>5, <1>6, <1>10, <1>11, <1>12 DEF GridInv

(* Before the launch there is no grid. *)
LEMMA GridInit ==
  Init => GridInv
  BY DEF Init, LaunchInit, GridInv, LaunchInv, Running

(* Every step of a block keeps the invariant and the configuration. *)
LEMMA BlockStepKeeps ==
  ASSUME GridInv, Representable(request), Running, NEW b \in Blocks, BlockStep(b)
  PROVE  GridInv' /\ UNCHANGED launchVars
<1>1. ASSUME NEW th \in Team(b),
             Stage(th) \/ Evaluate(th) \/ Accumulate(th) \/ StoreSum(th) \/ PostProcess(th)
      PROVE  GridInv' /\ UNCHANGED launchVars
  <2>1. UNCHANGED launchVars
    BY <1>1 DEF launchVars, Stage, Evaluate, Accumulate, StoreSum, PostProcess
  <2> QED
    BY <1>1, <2>1, StageStep, EvaluateStep, AccumulateStep, StoreSumStep, PostProcessStep
<1>2. ASSUME NEW w \in 0 .. (launch.threads_per_block \div WARP_SIZE - 1), WarpSum(b, w)
      PROVE  GridInv' /\ UNCHANGED launchVars
  <2>1. UNCHANGED launchVars
    BY <1>2 DEF launchVars, WarpSum
  <2> QED
    BY <1>2, <2>1, WarpSumStep
<1>3. ASSUME SyncBarrier(b) \/ InferredBarrier(b) \/ ReducedBarrier(b)
      PROVE  GridInv' /\ UNCHANGED launchVars
  <2>1. UNCHANGED launchVars
    BY <1>3 DEF launchVars, SyncBarrier, InferredBarrier, ReducedBarrier, Release
  <2> QED
    BY <1>3, <2>1, SyncBarrierStep, InferredBarrierStep, ReducedBarrierStep
<1> QED
  BY <1>1, <1>2, <1>3 DEF BlockStep

(* Every step keeps the invariant and the request. *)
LEMMA GridStep ==
  ASSUME GridInv, Representable(request), [Next]_vars
  PROVE  GridInv' /\ Representable(request)'
<1>1. CASE RefuseCall
  <2>1. request' = request /\ device' = device /\ specified' = specified
        /\ launch' = launch /\ phase' = "refused"
    BY <1>1 DEF RefuseCall, Refuse
  <2> QED
    BY <2>1 DEF GridInv, LaunchInv, Running, Representable
<1>2. CASE LaunchKernel
  <2>1. request' = request
    BY <1>2 DEF LaunchKernel, Launch
  <2> QED
    BY <1>2, <2>1, LaunchKernelStep DEF Representable
<1>3. CASE Finish
  <2>1. request' = request /\ device' = device /\ specified' = specified
        /\ launch' = launch /\ phase' = "done"
    BY <1>3 DEF Finish
  <2> QED
    BY <2>1 DEF GridInv, LaunchInv, Running, Representable
<1>4. CASE UNCHANGED vars
  <2>1. /\ UNCHANGED launchVars /\ launch' = launch
        /\ pc' = pc /\ at' = at /\ workspace' = workspace
    BY <1>4 DEF vars, launchVars
  <2>2. LaunchInv
    BY DEF GridInv
  <2>3. /\ LaunchInv' /\ (Running' <=> Running) /\ Blocks' = Blocks /\ Threads' = Threads
        /\ \A b : Team(b)' = Team(b)
        /\ \A th, label, p : InRange(th, label, p)' <=> InRange(th, label, p)
        /\ \A l1, p1, l2, p2 : Together(l1, p1, l2, p2)' <=> Together(l1, p1, l2, p2)
        /\ Representable(request)'
    BY <2>1, <2>2, SameLaunch
  <2> QED
    BY <2>1, <2>3 DEF GridInv
<1>5. ASSUME Running, NEW b \in Blocks, BlockStep(b)
      PROVE  GridInv' /\ Representable(request)'
  BY <1>5, BlockStepKeeps, SameLaunch
<1> QED
  BY <1>1, <1>2, <1>3, <1>4, <1>5 DEF Next, Over

-----------------------------------------------------------------------------
(* The elements threads work on *)

(* The row, output and grove of a thread that accumulates. *)
LEMMA TargetOf ==
  ASSUME GridInv, Representable(request), Running, NEW th \in Threads,
         pc[th] \in {"evaluate", "accumulate"},
         NEW row, row = TaskRow(at[th]), NEW tree, tree = TaskTree(at[th]),
         NEW out, out = OutputOf(request, tree, at[th].comp),
         NEW grove, grove = IF request.infer_type = "default"
                            THEN IdxOf(th) \div launch.chunk_size ELSE 0
  PROVE  /\ row \in Nat /\ row < request.row_count /\ row < launch.chunk_size
         /\ tree \in Trees(request) /\ at[th].comp \in 0 .. (NumComp(request) - 1)
         /\ out \in Outputs(request)
         /\ grove \in 0 .. (launch.num_grove - 1)
         /\ TargetSlot(th) = Slot(row, out, grove)
         /\ at[th].task = tree * launch.chunk_size + row
         /\ at[th].task % launch.threads_per_block = IdxOf(th)
         /\ row = IdxOf(th) % launch.chunk_size
<1> DEFINE T == launch.threads_per_block
           k == launch.chunk_size
           n == request.num_tree
           x == IdxOf(th)
           t == at[th].task
           i == at[th].i
           m == k * n
           a == Least(T, m)
           G == launch.num_grove
<1>1. /\ T \in Nat \ {0} /\ k \in Nat \ {0} /\ request \in Call /\ request.row_count \in Nat
      /\ NumComp(request) \in Nat /\ G \in Nat \ {0}
      /\ G = KernelGroves(request, T, k)
      /\ \E q \in Nat : T = q * k
  BY Launched DEF GridInv
<1>2. n \in Nat \ {0} /\ m \in Nat
  BY <1>1, CallFields, MulNat
<1>3. /\ t \in RealTasks(th, i) /\ at[th].comp < NumComp(request) /\ i < request.row_count
      /\ i \in Nat /\ at[th].comp \in Nat /\ t \in Nat
  BY PositionFields DEF GridInv, InRange
<1>4. /\ t < m /\ t % T = x /\ row < RowsAt(i) /\ row = t % k
  BY <1>2, <1>3 DEF RealTasks, TaskRow
<1>5. at[th].comp \in 0 .. (NumComp(request) - 1)
  BY <1>1, <1>3
<1>6. x \in Nat /\ x < T
  BY WarpNumbers DEF GridInv
<1>7. TargetSlot(th) = Slot(row, out, grove)
  BY DEF TargetSlot
<1>8. RowsAt(i) \in Int /\ RowsAt(i) <= k /\ RowsAt(i) <= request.row_count - i
  BY <1>1, <1>3 DEF RowsAt, Least
<1>9. tree = t \div k
  BY DEF TaskTree
<1>10. Trees(request) = 0 .. (n - 1)
  BY DEF Trees
<1> HIDE DEF T, k, n, x, t, i, G
<1>11. row \in Nat /\ row < request.row_count /\ row < k
  <2>1. t % k \in 0 .. (k - 1)
    BY <1>1, <1>3, DivMod
  <2>2. row \in Nat /\ row < k
    BY <1>1, <1>4, <2>1
  <2> QED
    BY <1>1, <1>3, <1>4, <1>8, <2>2
<1>12. t = tree * k + row /\ tree \in Nat
  <2>1. t \div k \in Nat /\ t = (t \div k) * k + (t % k)
    BY <1>1, <1>3, DivMod
  <2> QED
    BY <1>4, <1>9, <2>1
<1>13. tree \in Trees(request)
  <2>1. t < n * k
    BY <1>1, <1>2, <1>4
  <2>2. tree < n
    BY <1>1, <1>2, <1>3, <1>9, <2>1, QuotientBelow
  <2> QED
    BY <1>2, <1>10, <1>12, <2>2
<1>14. row = x % k
  <2>1. PICK q \in Nat : T = q * k
    BY <1>1
  <2>2. T \in Nat \ {0} /\ k \in Nat \ {0} /\ t \in Nat
    BY <1>1, <1>3
  <2>3. (t % T) % k = t % k
    BY <2>1, <2>2, ModOfMultiple
  <2> QED
    BY <1>4, <2>3
<1>15. out \in Outputs(request)
  BY <1>1, <1>5, <1>13, OutputOfRange
<1>16. grove \in 0 .. (G - 1)
  <2>1. CASE request.infer_type = "default"
    <3>1. grove = x \div k
      BY <2>1 DEF x, k
    <3>2. x < a /\ a \in Nat
      <4>1. x <= t
        BY <1>1, <1>3, <1>4, DivMod
      <4> HIDE DEF m
      <4> QED
        BY <1>1, <1>2, <1>3, <1>4, <1>6, <4>1 DEF Least
    <3>3. G = CeilDiv(a, k)
      BY <1>1, <2>1 DEF KernelGroves, n
    <3> HIDE DEF a
    <3>4. a <= G * k /\ G * k \in Nat
      BY <1>1, <3>2, <3>3, CeilDivBounds, MulNat
    <3>5. x < G * k
      BY <1>6, <3>2, <3>4
    <3>6. x \div k < G /\ x \div k \in Nat
      BY <1>1, <1>6, <3>5, QuotientBelow, DivMod
    <3> QED
      BY <1>1, <3>1, <3>6
  <2>2. CASE request.infer_type # "default"
    BY <1>1, <2>2
  <2> QED
    BY <2>1, <2>2
<1> QED
  BY <1>4, <1>5, <1>7, <1>11, <1>12, <1>13, <1>14, <1>15, <1>16 DEF T, k, x, t, G

(* What a thread works on: its share of the workspace while it is cleared,
   then one element, then those of its lane in a row of its warp. *)
LEMMA HeldSlots ==
  ASSUME GridInv, Representable(request), Running, NEW th \in Threads, NEW k \in Held(th),
         NEW p, p = at[th]
  PROVE  \/ /\ pc[th] = "stage" /\ FillFits
            /\ k \in DOMAIN workspace[BlockOf(th)]
            /\ k % launch.threads_per_block = IdxOf(th)
         \/ pc[th] \in {"evaluate", "accumulate"} /\ k = TargetSlot(th)
         \/ /\ pc[th] \in {"reduce", "store", "postprocess"}
            /\ p.row \in Nat /\ p.row < request.row_count /\ p.row < launch.chunk_size
            /\ p.row % Warps = WarpOf(th)
            /\ \E o \in Outputs(request), g \in 0 .. (launch.num_grove - 1) :
                  k = Slot(p.row, o, g) /\ g % WARP_SIZE = IdxOf(th) % WARP_SIZE
<1>1. /\ launch.num_grove \in Nat \ {0} /\ launch.chunk_size \in Nat /\ WARP_SIZE \in Nat \ {0}
      /\ NumOutputs(request) \in Nat \ {0} /\ request.row_count \in Nat
  BY Launched DEF GridInv
<1>2. p.row \in Nat /\ p.comp \in Nat /\ p.i \in Nat
  BY PositionFields
<1>3. CASE pc[th] = "stage"
  BY <1>3 DEF Held
<1>4. CASE pc[th] \in {"evaluate", "accumulate"}
  BY <1>4 DEF Held
<1>5. CASE pc[th] \in {"reduce", "store", "postprocess"}
  <2>1. /\ p.row < RowsAt(p.i) /\ p.row % Warps = WarpOf(th) /\ p.comp < NumOutputs(request)
        /\ pc[th] \in {"store", "postprocess"} => IdxOf(th) % WARP_SIZE = 0
    BY <1>5 DEF GridInv, InRange, IsFirstLane
  <2>2. p.row < request.row_count /\ p.row < launch.chunk_size
    BY <1>1, <1>2, <2>1 DEF RowsAt, Least
  <2>3. p.comp \in Outputs(request)
    BY <1>1, <1>2, <2>1 DEF Outputs
  <2>4. 0 \in 0 .. (launch.num_grove - 1) /\ 0 % WARP_SIZE = 0
    <3>1. 0 % WARP_SIZE = 0
      BY <1>1, DivMod
    <3> QED
      BY <1>1, <3>1
  <2>5. \E o \in Outputs(request), g \in 0 .. (launch.num_grove - 1) :
           k = Slot(p.row, o, g) /\ g % WARP_SIZE = IdxOf(th) % WARP_SIZE
    <3>1. CASE pc[th] = "reduce"
      BY <2>3, <3>1 DEF Held
    <3>2. CASE pc[th] = "store"
      BY <2>1, <2>3, <2>4, <3>2 DEF Held
    <3>3. CASE pc[th] = "postprocess"
      BY <2>1, <2>4, <3>3 DEF Held
    <3> QED
      BY <1>5, <3>1, <3>2, <3>3
  <2> QED
    BY <1>2, <1>5, <2>1, <2>2, <2>5
<1>6. CASE pc[th] \in {"sync", "inferred", "reduced", "exit"}
  BY <1>6 DEF Held
<1>7. pc[th] \in Labels
  BY PositionFields
<1> QED
  BY <1>3, <1>4, <1>5, <1>6, <1>7 DEF Labels

(* Two threads of a block hold no element in common. *)
LEMMA HeldApart ==
  ASSUME GridInv, Representable(request), Running,
         NEW b \in Blocks, NEW th1 \in Team(b), NEW th2 \in Team(b), th1 # th2
  PROVE  Held(th1) \cap Held(th2) = {}
<1> SUFFICES ASSUME NEW k \in Held(th1), k \in Held(th2)
             PROVE  FALSE
  OBVIOUS
<1> DEFINE p1 == at[th1]
           p2 == at[th2]
<1>1. /\ th1 \in Threads /\ th2 \in Threads /\ BlockOf(th1) = b /\ BlockOf(th2) = b
      /\ LaunchInv
  BY TeamThreads DEF GridInv
<1>2. IdxOf(th1) # IdxOf(th2)
  BY TeamThreads
<1>3. /\ Part(pc[th1]) = Part(pc[th2])
      /\ FillFits => (Clearing(pc[th1]) <=> Clearing(pc[th2]))
  BY DEF GridInv, Together
<1> DEFINE clears(th)      == pc[th] = "stage" /\ FillFits /\ k % launch.threads_per_block = IdxOf(th)
           accumulates(th) == pc[th] \in {"evaluate", "accumulate"} /\ k = TargetSlot(th)
           reduces(th) ==
             /\ pc[th] \in {"reduce", "store", "postprocess"}
             /\ at[th].row \in Nat /\ at[th].row < request.row_count
             /\ at[th].row % Warps = WarpOf(th)
             /\ \E o \in Outputs(request), g \in 0 .. (launch.num_grove - 1) :
                   k = Slot(at[th].row, o, g) /\ g % WARP_SIZE = IdxOf(th) % WARP_SIZE
<1>4. /\ clears(th1) \/ accumulates(th1) \/ reduces(th1)
      /\ clears(th2) \/ accumulates(th2) \/ reduces(th2)
  BY <1>1, HeldSlots
<1>5. \/ clears(th1) /\ clears(th2)
      \/ accumulates(th1) /\ accumulates(th2)
      \/ reduces(th1) /\ reduces(th2)
  BY <1>3, <1>4 DEF Part, Clearing
<1>6. CASE clears(th1) /\ clears(th2)
  BY <1>2, <1>6
<1>7. CASE accumulates(th1) /\ accumulates(th2)
  <2> DEFINE row(th)   == TaskRow(at[th])
             tree(th)  == TaskTree(at[th])
             out(th)   == OutputOf(request, tree(th), at[th].comp)
             grove(th) == IF request.infer_type = "default"
                          THEN IdxOf(th) \div launch.chunk_size ELSE 0
  <2>1. ASSUME NEW th \in {th1, th2}
        PROVE  /\ row(th) \in Nat /\ row(th) < request.row_count
               /\ tree(th) \in Trees(request) /\ at[th].comp \in 0 .. (NumComp(request) - 1)
               /\ out(th) \in Outputs(request)
               /\ grove(th) \in 0 .. (launch.num_grove - 1)
               /\ TargetSlot(th) = Slot(row(th), out(th), grove(th))
               /\ at[th].task = tree(th) * launch.chunk_size + row(th)
               /\ at[th].task % launch.threads_per_block = IdxOf(th)
               /\ row(th) = IdxOf(th) % launch.chunk_size
    BY <1>1, <1>7, TargetOf
  <2>2. CASE request.infer_type = "default"
    <3>1. grove(th1) = IdxOf(th1) \div launch.chunk_size
          /\ grove(th2) = IdxOf(th2) \div launch.chunk_size
      BY <2>2
    <3> HIDE DEF row, tree, out, grove
    <3>2. row(th1) = row(th2) /\ grove(th1) = grove(th2)
      <4>1. Slot(row(th1), out(th1), grove(th1)) = Slot(row(th2), out(th2), grove(th2))
        BY <1>7, <2>1
      <4> QED
        BY <1>1, <2>1, <4>1, SlotUnique
    <3> DEFINE x == IdxOf(th1)
               y == IdxOf(th2)
               c == launch.chunk_size
    <3>3. x \in Nat /\ y \in Nat /\ c \in Nat \ {0}
      BY <1>1, WarpNumbers, Launched DEF GridInv
    <3>4. x \div c = y \div c /\ x % c = y % c
      BY <2>1, <3>1, <3>2
    <3> HIDE DEF x, y, c
    <3>5. x = y
      <4>1. x = (x \div c) * c + (x % c) /\ y = (y \div c) * c + (y % c)
        BY <3>3, DivMod
      <4> QED
        BY <3>4, <4>1
    <3> QED
      BY <1>2, <3>5 DEF x, y
  <2>3. CASE request.infer_type # "default"
    <3> HIDE DEF row, grove
    <3>1. row(th1) = row(th2) /\ out(th1) = out(th2)
      <4> HIDE DEF tree, out
      <4>1. Slot(row(th1), out(th1), grove(th1)) = Slot(row(th2), out(th2), grove(th2))
        BY <1>7, <2>1
      <4> QED
        BY <1>1, <2>1, <4>1, SlotUnique
    <3> HIDE DEF tree
    <3>2. tree(th1) = tree(th2)
      BY <2>1, <2>3, <3>1, TreeUnique, Launched DEF GridInv
    <3>3. at[th1].task = at[th2].task
      BY <2>1, <3>1, <3>2
    <3> QED
      BY <1>2, <2>1, <3>3
  <2> QED
    BY <2>2, <2>3
<1>8. CASE reduces(th1) /\ reduces(th2)
  <2>1. PICK o1 \in Outputs(request), g1 \in 0 .. (launch.num_grove - 1) :
           k = Slot(p1.row, o1, g1) /\ g1 % WARP_SIZE = IdxOf(th1) % WARP_SIZE
    BY <1>8
  <2>2. PICK o2 \in Outputs(request), g2 \in 0 .. (launch.num_grove - 1) :
           k = Slot(p2.row, o2, g2) /\ g2 % WARP_SIZE = IdxOf(th2) % WARP_SIZE
    BY <1>8
  <2>3. p1.row = p2.row /\ g1 = g2
    <3>1. Slot(p1.row, o1, g1) = Slot(p2.row, o2, g2)
      BY <2>1, <2>2
    <3>2. /\ p1.row \in Nat /\ p1.row < request.row_count
          /\ p2.row \in Nat /\ p2.row < request.row_count
      BY <1>8
    <3> HIDE DEF p1, p2
    <3> QED
      BY <1>1, <3>1, <3>2, SlotUnique
  <2>4. WarpOf(th1) = WarpOf(th2) /\ IdxOf(th1) % WARP_SIZE = IdxOf(th2) % WARP_SIZE
    BY <1>8, <2>1, <2>2, <2>3
  <2> DEFINE x == IdxOf(th1)
             y == IdxOf(th2)
             w == WARP_SIZE
  <2>5. x \in Nat /\ y \in Nat /\ w \in Nat \ {0}
    BY <1>1, WarpNumbers, Launched DEF GridInv
  <2>6. x \div w = y \div w /\ x % w = y % w
    BY <2>4 DEF WarpOf
  <2> HIDE DEF x, y, w
  <2>7. x = y
    <3>1. x = (x \div w) * w + (x % w) /\ y = (y \div w) * w + (y % w)
      BY <2>5, DivMod
    <3> QED
      BY <2>6, <3>1
  <2> QED
    BY <1>2, <2>7 DEF x, y
<1> QED
  BY <1>5, <1>6, <1>7, <1>8

(* If the workspace has the elements of a block's rows, threads stay in it. *)
LEMMA HeldInside ==
  ASSUME GridInv, Representable(request), Running, WorkspaceHolds, NEW th \in Threads
  PROVE  Held(th) \subseteq DOMAIN workspace[BlockOf(th)]
<1> SUFFICES ASSUME NEW k \in Held(th)
             PROVE  k \in DOMAIN workspace[BlockOf(th)]
  OBVIOUS
<1>1. DOMAIN workspace[BlockOf(th)] = 0 .. (launch.output_workspace_size - 1)
  BY TeamThreads DEF GridInv
<1>2. /\ launch.output_workspace_size \in Nat /\ launch.chunk_size \in Nat
      /\ NumOutputs(request) \in Nat /\ launch.num_grove \in Nat
  BY Launched DEF GridInv
<1>3. 0 .. (KernelWorkspace - 1) \subseteq 0 .. (launch.output_workspace_size - 1)
  <2>1. KernelWorkspace \in Nat
    BY <1>2, MulNat DEF KernelWorkspace
  <2> QED
    BY <1>2, <2>1 DEF WorkspaceHolds
<1>4. CASE pc[th] \in {"evaluate", "accumulate"} /\ k = TargetSlot(th)
  <2> DEFINE row == TaskRow(at[th])
             tree == TaskTree(at[th])
             out == OutputOf(request, tree, at[th].comp)
             grove == IF request.infer_type = "default" THEN IdxOf(th) \div launch.chunk_size ELSE 0
  <2>1. /\ row \in Nat /\ row < request.row_count /\ row < launch.chunk_size
        /\ out \in Outputs(request) /\ grove \in 0 .. (launch.num_grove - 1)
        /\ k = Slot(row, out, grove)
    BY <1>4, TargetOf
  <2> HIDE DEF row, tree, out, grove
  <2> QED
    BY <1>1, <1>3, <2>1, SlotExact DEF GridInv
<1>5. ASSUME at[th].row \in Nat, at[th].row < request.row_count, at[th].row < launch.chunk_size,
             NEW o \in Outputs(request), NEW g \in 0 .. (launch.num_grove - 1),
             k = Slot(at[th].row, o, g)
      PROVE  k \in DOMAIN workspace[BlockOf(th)]
  BY <1>1, <1>3, <1>5, SlotExact DEF GridInv
<1> QED
  BY <1>4, <1>5, HeldSlots

(* If something is cleared or copied, nobody is past sync() while others wait
   in it. *)
LEMMA SyncTogether ==
  ASSUME GridInv, Running, SyncDecided,
         NEW b \in Blocks, NEW th1 \in Team(b), NEW th2 \in Team(b), pc[th1] = "sync"
  PROVE  pc[th2] \in {"stage", "sync"}
<1> DEFINE p == at[th1]
<1>1. th1 \in Threads /\ BlockOf(th1) = b
  BY TeamThreads
<1>2. p.i < request.row_count /\ (FillFits \/ CopyFits(p.i) \/ p.i = FirstChunk(b))
  BY <1>1 DEF GridInv, InRange
<1>3. FillFits \/ CopyFits(p.i)
  BY <1>2 DEF SyncDecided
<1>4. Together(pc[th1], p, pc[th2], at[th2])
  BY DEF GridInv
<1> QED
  BY <1>3, <1>4 DEF Together, Clearing

-----------------------------------------------------------------------------
(* Supported calls *)

(* What the launch achieves for a call it is made for. *)
LEMMA SupportedSizes ==
  ASSUME LaunchInv, Supported
  PROVE  /\ Representable(request)
         /\ SharedWorkspaceFits /\ ChunkLargest
         /\ ~launch.in_global => FillFits /\ WorkspaceHolds
<1> DEFINE c == request
           d == device
           s == specified
           l == launch
           most == IF s = Unspecified THEN MAX_CHUNK ELSE s
<1>1. /\ c \in Calls /\ d \in Devices /\ s \in ChunkSizes
      /\ l = Configuration(c, d, s)
      /\ Countable(c)
      /\ d.shared_per_block <= d.shared_per_sm
      /\ 2 * d.shared_per_sm <= (MIN_BLOCKS_PER_SM - 1) * d.shared_per_block
      /\ s = Unspecified \/ s \in KernelChunks
  BY DEF LaunchInv, Supported, Countable
<1>2. Representable(c)
  BY <1>1, CallsAssumption, CountableRows
<1> HIDE DEF c, d, s, l, most
<1>3. ~l.in_global =>
        /\ U(l.output_workspace_size * ItemBytes) <= l.shared_mem
        /\ l.chunk_size * NumOutputs(c) * l.num_grove <= l.output_workspace_size
        /\ l.rows > 1 =>
             /\ ChunkBytes(c, l, l.rows) <= MaxOverallSharedMem(d)
             /\ l.rows < most => ~(ChunkBytes(c, l, 2 * l.rows) <= MaxOverallSharedMem(d))
  BY <1>1, SharedSizes DEF most
<1>4. \A n : RowsFit(n) <=> ChunkBytes(c, l, n) <= MaxOverallSharedMem(d)
  BY DEF RowsFit, ChunkBytes, c, d, l
<1>5. SharedWorkspaceFits /\ (~launch.in_global => FillFits /\ WorkspaceHolds)
  BY <1>3 DEF SharedWorkspaceFits, FillFits, WorkspaceHolds, KernelWorkspace, c, l
<1>6. ChunkLargest
  BY <1>3, <1>4 DEF ChunkLargest, most, l, s
<1> QED
  BY <1>2, <1>5, <1>6 DEF c

(* A call stays the one it is. *)
LEMMA SameSupport ==
  ASSUME UNCHANGED <<request, device, specified>>
  PROVE  Supported' <=> Supported
  BY DEF Supported

(* The launch keeps its invariant and the call. *)
LEMMA LaunchStep ==
  ASSUME LaunchInv, [Refuse \/ Launch \/ LaunchOver]_launchVars
  PROVE  LaunchInv' /\ UNCHANGED <<request, device, specified>>
<1>1. CASE Refuse
  BY <1>1 DEF Refuse, LaunchInv
<1>2. CASE Launch
  BY <1>2 DEF Launch, LaunchInv, Acceptable
<1>3. CASE UNCHANGED launchVars
  BY <1>3, SameLaunch DEF launchVars
<1> QED
  BY <1>1, <1>2, <1>3 DEF LaunchOver

-----------------------------------------------------------------------------
(* Theorems *)

(* Neither the last workspace offset of a chunk nor the index of an output
   wraps: the size guard of the launch bounds rows, outputs and groves
   together, for every device and chunk size. *)
THEOREM OffsetsFit == LaunchSpec /\ Representable(request) => []OffsetsRepresentable
<1>1. LaunchInit => LaunchInv
  BY DEF LaunchInit, LaunchInv
<1>2. LaunchInv /\ Representable(request) /\ [Refuse \/ Launch \/ LaunchOver]_launchVars
        => (LaunchInv /\ Representable(request))'
  BY LaunchStep DEF Representable
<1>3. LaunchInv /\ Representable(request) => OffsetsRepresentable
  BY Launched DEF OffsetsRepresentable, Running
<1> QED
  BY <1>1, <1>2, <1>3, PTL DEF LaunchSpec

(* Of a call the launch is made for, a workspace in shared memory is there,
   and holds every element of the kernel's chunk and groves, although the
   launch sizes it before the kernel's chunk and groves are known. *)
THEOREM SharedWorkspaces == LaunchSpec /\ Supported => []SharedWorkspaceFits
<1>1. LaunchInit => LaunchInv
  BY DEF LaunchInit, LaunchInv
<1>2. LaunchInv /\ Supported /\ [Refuse \/ Launch \/ LaunchOver]_launchVars
        => (LaunchInv /\ Supported)'
  BY LaunchStep, SameSupport
<1>3. LaunchInv /\ Supported => SharedWorkspaceFits
  BY SupportedSizes
<1> QED
  BY <1>1, <1>2, <1>3, PTL DEF LaunchSpec

(* Of such a call, the loop that halves the rows of an iteration ends with as
   many as fit in shared memory. *)
THEOREM ChunksAreLargest == LaunchSpec /\ Supported => []ChunkLargest
<1>1. LaunchInit => LaunchInv
  BY DEF LaunchInit, LaunchInv
<1>2. LaunchInv /\ Supported /\ [Refuse \/ Launch \/ LaunchOver]_launchVars
        => (LaunchInv /\ Supported)'
  BY LaunchStep, SameSupport
<1>3. LaunchInv /\ Supported => ChunkLargest
  BY SupportedSizes
<1> QED
  BY <1>1, <1>2, <1>3, PTL DEF LaunchSpec

(* The threads of a block are always in the same chunk, on the same side of
   the barrier in the middle of the loop body, and on the same side of sync()
   if something is cleared or copied; each is inside its loops. *)
THEOREM GridInvariant == Spec /\ Representable(request) => [](GridInv /\ Representable(request))
<1>1. Init /\ Representable(request) => GridInv /\ Representable(request)
  BY GridInit
<1>2. GridInv /\ Representable(request) /\ [Next]_vars => (GridInv /\ Representable(request))'
  BY GridStep
<1> QED
  BY <1>1, <1>2, PTL DEF Spec

(* Two threads of a block never work on the same element of its workspace:
   what the barriers, the tasks and the warps of the kernel are laid out for,
   for every request, block and chunk size. *)
THEOREM BlocksAreRaceFree == Spec /\ Representable(request) => []NoRace
<1>1. GridInv /\ Representable(request) => NoRace
  BY HeldApart DEF NoRace
<1> QED
  BY <1>1, GridInvariant, PTL

(* As long as the workspace that infer sized has the elements of the kernel's
   chunk and groves, the kernel does not leave it.  Without that it does:
   a workspace in global memory can be too small. *)
THEOREM AccessesInside ==
  Spec /\ Representable(request) => [](WorkspaceHolds => InBounds)
<1>1. GridInv /\ Representable(request) => (WorkspaceHolds => InBounds)
  BY HeldInside DEF InBounds
<1> QED
  BY <1>1, GridInvariant, PTL

(* As long as the first chunk of a block clears or copies something, the
   threads of a block agree on each sync().  Without that they need not: the
   flag they decide by is not initialized. *)
THEOREM SyncsAgree ==
  Spec /\ Representable(request) => [](SyncDecided => SyncAgreed)
<1>1. GridInv /\ Representable(request) => (SyncDecided => SyncAgreed)
  BY SyncTogether DEF SyncAgreed
<1> QED
  BY <1>1, GridInvariant, PTL

(* Of a call the launch is made for whose workspace is in shared memory, the
   kernel does not leave its workspace, and the threads of a block agree on
   each sync(). *)
THEOREM SharedBlocksAreSafe ==
  Spec /\ Supported => [](~launch.in_global => InBounds /\ SyncAgreed)
<1>1. Init /\ Supported => GridInv /\ Supported
  BY GridInit
<1>2. GridInv /\ Supported => /\ Representable(request)
                              /\ ~launch.in_global => FillFits /\ WorkspaceHolds
  BY SupportedSizes DEF GridInv
<1>3. GridInv /\ Supported /\ [Next]_vars => (GridInv /\ Supported)'
  <2> SUFFICES ASSUME GridInv, Supported, [Next]_vars
               PROVE  GridInv' /\ Supported'
    OBVIOUS
  <2>1. GridInv'
    BY <1>2, GridStep
  <2>2. UNCHANGED <<request, device, specified>>
    <3>1. ASSUME Running, NEW b \in Blocks, BlockStep(b) PROVE UNCHANGED launchVars
      BY <1>2, <3>1, BlockStepKeeps
    <3> QED
      BY <3>1 DEF Next, vars, launchVars, RefuseCall, Refuse, LaunchKernel, Launch, Finish, Over
  <2> QED
    BY <2>1, <2>2, SameSupport
<1>4. GridInv /\ Supported => (~launch.in_global => InBounds /\ SyncAgreed)
  <2> SUFFICES ASSUME GridInv, Supported, ~launch.in_global
               PROVE  InBounds /\ SyncAgreed
    OBVIOUS
  <2>1. InBounds
    BY <1>2, HeldInside DEF InBounds
  <2>2. SyncDecided
    BY <1>2 DEF SyncDecided
  <2> QED
    BY <2>1, <2>2, SyncTogether DEF SyncAgreed
<1> QED
  BY <1>1, <1>3, <1>4, PTL DEF Spec

-----------------------------------------------------------------------------
(* Sizes of a launch that the operators below rest on. *)
Layout ==
  /\ request \in Call
  /\ launch.threads_per_block \in Nat \ {0} /\ launch.chunk_size \in Nat \ {0}
  /\ \E q \in Nat : launch.threads_per_block = q * launch.chunk_size
  /\ launch.num_grove = KernelGroves(request, launch.threads_per_block, launch.chunk_size)
  /\ launch.num_grove \in Nat \ {0}
  /\ WARP_SIZE \in Nat \ {0}

LEMMA LayoutHolds ==
  ASSUME LaunchInv, Representable(request)
  PROVE  Layout
<1>1. request \in Call /\ request \in Calls /\ device \in Devices /\ specified \in ChunkSizes
  BY CallsAssumption DEF LaunchInv
<1>2. /\ launch.threads_per_block \in Nat \ {0} /\ launch.threads_per_block % WARP_SIZE = 0
      /\ launch.chunk_size \in Nat \ {0} /\ WARP_SIZE % launch.chunk_size = 0
      /\ launch.num_grove = KernelGroves(request, launch.threads_per_block, launch.chunk_size)
  BY <1>1, LaunchSizes DEF LaunchInv
<1>3. WARP_SIZE \in Nat \ {0}
  BY LaunchAssumption
<1>4. \E q \in Nat : launch.threads_per_block = q * launch.chunk_size
  BY <1>2, <1>3, MultipleOf
<1>5. launch.num_grove \in Nat \ {0}
  BY <1>1, <1>2, GrovesPositive
<1> QED
  BY <1>1, <1>2, <1>3, <1>4, <1>5 DEF Layout

-----------------------------------------------------------------------------
(* Sums *)

(* v is the sum of the members of S, each counted once, before postprocessing. *)
Collects(v, S) == v \in Value /\ v.post = 0 /\ Promise!IsSumOf(v, S)

(* The same, without a set of indexes. *)
LEMMA CollectsMembers ==
  ASSUME NEW v \in Value, NEW S
  PROVE  Collects(v, S) <=> /\ v.post = 0
                            /\ \A k \in 1 .. Len(v.sum) : v.sum[k] \in S
                            /\ \A t \in S : \E k \in 1 .. Len(v.sum) : v.sum[k] = t
                            /\ \A j, k \in 1 .. Len(v.sum) : v.sum[j] = v.sum[k] => j = k
<1> DEFINE D == 1 .. Len(v.sum)
<1>1. {v.sum[k] : k \in D} = S
        <=> /\ \A k \in D : v.sum[k] \in S
            /\ \A t \in S : \E k \in D : v.sum[k] = t
  <2> HIDE DEF D
  <2> QED
    OBVIOUS
<1> QED
  BY <1>1 DEF Collects, Promise!IsSumOf

LEMMA ZeroCollects == Collects(Zero, {})
  BY ValueTypes DEF Collects, Promise!IsSumOf, Zero

(* One more term is one more member. *)
LEMMA TermCollects ==
  ASSUME NEW v, NEW S, Collects(v, S), NEW t \in Term, t \notin S
  PROVE  Collects(AddTerm(v, t), S \cup {t})
<1> DEFINE s == v.sum
           w == Append(s, t)
           n == Len(s)
<1>1. /\ v \in Value /\ v.post = 0 /\ s \in Seq(Term) /\ n \in Nat
      /\ \A k \in 1 .. n : s[k] \in S
      /\ \A x \in S : \E k \in 1 .. n : s[k] = x
      /\ \A j, k \in 1 .. n : s[j] = s[k] => j = k
  BY CollectsMembers DEF Value, Collects
<1>2. AddTerm(v, t) \in Value /\ AddTerm(v, t).sum = w /\ AddTerm(v, t).post = 0
  BY <1>1, ValueTypes DEF AddTerm
<1>3. Len(w) = n + 1 /\ w[n + 1] = t /\ \A k \in 1 .. n : w[k] = s[k]
  BY <1>1
<1> HIDE DEF s, w, n
<1>4. \A k \in 1 .. Len(w) : w[k] \in S \cup {t}
  BY <1>1, <1>3
<1>5. \A u \in S \cup {t} : \E k \in 1 .. Len(w) : w[k] = u
  <2> SUFFICES ASSUME NEW u \in S \cup {t} PROVE \E k \in 1 .. Len(w) : w[k] = u
    OBVIOUS
  <2>1. CASE u = t
    BY <2>1, <1>1, <1>3
  <2>2. CASE u \in S
    <3>0. \E k \in 1 .. n : s[k] = u
      BY <2>2, <1>1
    <3>1. PICK k \in 1 .. n : s[k] = u
      BY <3>0
    <3> QED
      BY <3>1, <1>1, <1>3
  <2> QED
    BY <2>1, <2>2
<1>6. \A j, k \in 1 .. Len(w) : w[j] = w[k] => j = k
  <2> SUFFICES ASSUME NEW j \in 1 .. Len(w), NEW k \in 1 .. Len(w), w[j] = w[k] PROVE j = k
    OBVIOUS
  <2>1. (j = n + 1 \/ j \in 1 .. n) /\ (k = n + 1 \/ k \in 1 .. n)
    BY <1>1, <1>3
  <2> QED
    BY <2>1, <1>1, <1>3
<1> QED
  BY <1>2, <1>4, <1>5, <1>6, CollectsMembers DEF w

(* Two sums of different members are one sum of both. *)
LEMMA PlusCollects ==
  ASSUME NEW v, NEW w, NEW S, NEW T, Collects(v, S), Collects(w, T), S \cap T = {}
  PROVE  Collects(Plus(v, w), S \cup T)
<1> DEFINE a == v.sum
           b == w.sum
           m == Len(a)
           n == Len(b)
           u == a \o b
<1>1. /\ v \in Value /\ v.post = 0 /\ a \in Seq(Term) /\ m \in Nat
      /\ \A k \in 1 .. m : a[k] \in S
      /\ \A x \in S : \E k \in 1 .. m : a[k] = x
      /\ \A j, k \in 1 .. m : a[j] = a[k] => j = k
  BY CollectsMembers DEF Value, Collects
<1>2. /\ w \in Value /\ w.post = 0 /\ b \in Seq(Term) /\ n \in Nat
      /\ \A k \in 1 .. n : b[k] \in T
      /\ \A x \in T : \E k \in 1 .. n : b[k] = x
      /\ \A j, k \in 1 .. n : b[j] = b[k] => j = k
  BY CollectsMembers DEF Value, Collects
<1>3. Plus(v, w) \in Value /\ Plus(v, w).sum = u /\ Plus(v, w).post = 0
  <2>1. Plus(v, w) \in Value
    BY <1>1, <1>2, ValueTypes
  <2>2. Plus(v, w).sum = u
    BY DEF Plus
  <2>3. Plus(v, w).post = 0
    BY <1>1, <1>2 DEF Plus
  <2> QED
    BY <2>1, <2>2, <2>3
<1> HIDE DEF a, b
<1>4. /\ Len(u) = m + n
      /\ \A k \in 1 .. m : u[k] = a[k]
      /\ \A k \in 1 .. n : u[m + k] = b[k]
  BY <1>1, <1>2
<1> HIDE DEF a, b, m, n, u
<1>5. \A k \in 1 .. Len(u) : k \in 1 .. m \/ (k - m \in 1 .. n /\ k = m + (k - m))
  BY <1>1, <1>2, <1>4
<1>6. \A k \in 1 .. Len(u) : u[k] \in S \cup T
  <2> SUFFICES ASSUME NEW k \in 1 .. Len(u) PROVE u[k] \in S \cup T
    OBVIOUS
  <2>1. CASE k \in 1 .. m
    BY <2>1, <1>1, <1>4
  <2>2. CASE k - m \in 1 .. n /\ k = m + (k - m)
    BY <2>2, <1>2, <1>4
  <2> QED
    BY <2>1, <2>2, <1>5
<1>7. \A x \in S \cup T : \E k \in 1 .. Len(u) : u[k] = x
  <2> SUFFICES ASSUME NEW x \in S \cup T PROVE \E k \in 1 .. Len(u) : u[k] = x
    OBVIOUS
  <2>1. CASE x \in S
    <3>1. PICK k \in 1 .. m : a[k] = x
      BY <2>1, <1>1
    <3> QED
      BY <3>1, <1>1, <1>2, <1>4
  <2>2. CASE x \in T
    <3>1. PICK k \in 1 .. n : b[k] = x
      BY <2>2, <1>2
    <3>2. m + k \in 1 .. Len(u)
      BY <3>1, <1>1, <1>2, <1>4
    <3> QED
      BY <3>1, <3>2, <1>4
  <2> QED
    BY <2>1, <2>2
<1>8. \A j, k \in 1 .. Len(u) : u[j] = u[k] => j = k
  <2> SUFFICES ASSUME NEW j \in 1 .. Len(u), NEW k \in 1 .. Len(u), u[j] = u[k] PROVE j = k
    OBVIOUS
  <2>1. CASE j \in 1 .. m /\ k \in 1 .. m
    BY <2>1, <1>1, <1>4
  <2>2. CASE j - m \in 1 .. n /\ j = m + (j - m) /\ k - m \in 1 .. n /\ k = m + (k - m)
    <3>1. b[j - m] = b[k - m]
      BY <2>2, <1>4
    <3>2. j - m = k - m
      BY <2>2, <3>1, <1>2
    <3> QED
      BY <2>2, <3>2
  <2>3. CASE j \in 1 .. m /\ k - m \in 1 .. n /\ k = m + (k - m)
    <3>1. u[j] \in S /\ u[k] \in T
      BY <2>3, <1>1, <1>2, <1>4
    <3> QED
      BY <3>1
  <2>4. CASE k \in 1 .. m /\ j - m \in 1 .. n /\ j = m + (j - m)
    <3>1. u[k] \in S /\ u[j] \in T
      BY <2>4, <1>1, <1>2, <1>4
    <3> QED
      BY <3>1
  <2> QED
    BY <2>1, <2>2, <2>3, <2>4, <1>5
<1> DEFINE r == Plus(v, w)
<1>9. r \in Value /\ r.post = 0 /\ r.sum = u
  BY <1>3
<1> HIDE DEF r
<1>10. Collects(r, S \cup T)
  BY <1>6, <1>7, <1>8, <1>9, CollectsMembers
<1> QED
  BY <1>10 DEF r

-----------------------------------------------------------------------------
(* Shuffles *)

(* What the lanes hold after the shuffle by w. *)
ShuffleRound(v, f, w) ==
  [lane \in 0 .. (WARP_SIZE - 1) |->
     IF 2 * w > WARP_SIZE THEN v[lane]
     ELSE LET before == f[2 * w]
              other  == IF lane + w < WARP_SIZE THEN lane + w ELSE lane
          IN  Plus(before[lane], before[other])]

ShuffleRounds(v, low, f) == f = [w \in low .. WARP_SIZE |-> ShuffleRound(v, f, w)]

(* There are such rounds, from the widest shuffle down. *)
LEMMA ShufflesExist ==
  ASSUME NEW v
  PROVE  \E f : ShuffleRounds(v, 1, f) /\ ShuffleSum(v) = f[1][0]
<1> DEFINE W == WARP_SIZE
           Fail == {n \in Nat : n <= W /\ ~ \E f : ShuffleRounds(v, W + 1 - n, f)}
<1>0. W \in Nat \ {0}
  BY LaunchAssumption
<1>1. Fail = {}
  <2>1. SUFFICES ASSUME Fail # {} PROVE FALSE
    OBVIOUS
  <2>2. PICK n \in Fail : \A m \in Fail : n <= m
    <3>1. Fail \subseteq Nat
      OBVIOUS
    <3> HIDE DEF Fail
    <3> QED
      BY <2>1, <3>1, LeastNat
  <2>3. n \in Nat /\ n <= W /\ ~ \E f : ShuffleRounds(v, W + 1 - n, f)
    BY <2>2
  <2> DEFINE low == W + 1 - n
  <2>4. low \in 1 .. (W + 1) /\ low \in Nat
    BY <1>0, <2>3
  <2>5. PICK g : n > 0 => ShuffleRounds(v, low + 1, g)
    <3>1. CASE n > 0
      <4>1. n - 1 \in Nat /\ n - 1 <= W /\ ~(n <= n - 1) /\ W + 1 - (n - 1) = low + 1
        BY <1>0, <2>3, <3>1
      <4>2. n - 1 \notin Fail
        BY <2>2, <4>1
      <4> QED
        BY <4>1, <4>2
    <3> QED
      BY <3>1
  <2> HIDE DEF Fail
  <2> DEFINE h == [w \in low .. W |-> IF w = low THEN ShuffleRound(v, g, w) ELSE g[w]]
  <2>6. ASSUME NEW w \in low .. W PROVE h[w] = ShuffleRound(v, h, w)
    <3>1. w \in Nat /\ w >= 1 /\ w >= low /\ w <= W
      BY <2>4, <1>0
    <3>2. 2 * w <= W => 2 * w \in low .. W /\ 2 * w # low
      BY <3>1, <2>4, <1>0
    <3>3. 2 * w <= W => h[2 * w] = g[2 * w]
      BY <3>2
    <3>4. ~(2 * w > W) => 2 * w <= W
      BY <3>1, <1>0
    <3>5. ShuffleRound(v, h, w) = ShuffleRound(v, g, w)
      <4> HIDE DEF h
      <4> QED
        BY <3>3, <3>4 DEF ShuffleRound
    <3>6. CASE w = low
      BY <3>5, <3>6
    <3>7. CASE w # low
      <4>1. n > 0 /\ w \in (low + 1) .. W
        BY <3>1, <3>7, <2>3, <2>4, <1>0
      <4>2. g[w] = ShuffleRound(v, g, w)
        BY <2>5, <4>1 DEF ShuffleRounds
      <4> QED
        BY <3>5, <3>7, <4>2
    <3> QED
      BY <3>6, <3>7
  <2>7. ShuffleRounds(v, low, h)
    BY <2>6 DEF ShuffleRounds
  <2> QED
    BY <2>3, <2>7
<1>2. \E f : ShuffleRounds(v, 1, f)
  <2>1. W \notin Fail /\ W + 1 - W = 1 /\ W <= W /\ W \in Nat
    BY <1>0, <1>1
  <2> QED
    BY <2>1
<1> DEFINE round == CHOOSE f : ShuffleRounds(v, 1, f)
<1>3. ShuffleSum(v) = round[1][0]
  BY DEF ShuffleSum, ShuffleRounds, ShuffleRound
<1>4. ShuffleRounds(v, 1, round)
  BY <1>2
<1> QED
  BY <1>3, <1>4

(* A stride that is not the warp can be doubled. *)
LEMMA StrideDoubles ==
  ASSUME NEW w \in 1 .. WARP_SIZE, WARP_SIZE % w = 0, w # WARP_SIZE
  PROVE  2 * w \in 1 .. WARP_SIZE /\ WARP_SIZE % (2 * w) = 0
<1> DEFINE W == WARP_SIZE
           q == W \div w
           k == q \div 2
<1>1. W \in Nat \ {0} /\ w \in Nat \ {0} /\ w < W
  BY LaunchAssumption
<1>2. q \in Nat /\ W = q * w
  BY <1>1, DivMod
<1> HIDE DEF q
<1>3. q # 0 /\ q # 1
  BY <1>1, <1>2
<1>4. q <= W
  <2>1. 1 * q <= w * q
    BY <1>1, <1>2, MulMono
  <2> QED
    BY <2>1, <1>1, <1>2
<1>5. W % q = 0
  <2>1. W = w * q + 0 /\ 0 \in 0 .. (q - 1)
    BY <1>1, <1>2, <1>3
  <2> QED
    BY <2>1, <1>1, <1>2, <1>3, DivUnique
<1>6. q % 2 = 0
  <2>1. q \in 2 .. W
    BY <1>2, <1>3, <1>4, <1>1
  <2> QED
    BY <2>1, <1>5, WarpAssumption
<1>7. k \in Nat /\ q = k * 2 + 0 /\ k >= 1
  BY <1>2, <1>3, <1>6, DivMod
<1> HIDE DEF k
<1>8. W = k * (2 * w) + 0
  BY <1>1, <1>2, <1>7
<1>9. W % (2 * w) = 0
  <2> DEFINE z == 2 * w
  <2>1. z \in Nat \ {0} /\ 0 \in 0 .. (z - 1) /\ W = k * z + 0
    BY <1>1, <1>8
  <2> HIDE DEF z
  <2>2. W % z = 0
    BY <2>1, <1>7, DivUnique
  <2> QED
    BY <2>2 DEF z
<1>10. 2 * w <= W
  <2>1. 1 * (2 * w) <= k * (2 * w)
    BY <1>1, <1>7, MulMono
  <2> QED
    BY <2>1, <1>1, <1>7, <1>8
<1> QED
  BY <1>1, <1>9, <1>10

(* The lanes that end up in lane after the shuffle by w. *)
LanesOf(w, lane) == {l \in 0 .. (WARP_SIZE - 1) : l % w = lane}

LEMMA LanesMerge ==
  ASSUME NEW w \in Nat \ {0}, NEW lane \in 0 .. (w - 1), NEW z, z = 2 * w
  PROVE  /\ LanesOf(w, lane) = LanesOf(z, lane) \cup LanesOf(z, lane + w)
         /\ LanesOf(z, lane) \cap LanesOf(z, lane + w) = {}
<1>0. z \in Nat \ {0}
  OBVIOUS
<1>1. ASSUME NEW l \in Nat
      PROVE  l % w = lane <=> l % z = lane \/ l % z = lane + w
  <2> DEFINE m == l % z
  <2>1. m \in 0 .. (z - 1)
    BY <1>0, DivMod
  <2>2. m % w = l % w
    BY <1>0, ModOfMultiple
  <2> HIDE DEF m
  <2>3. m < w => m % w = m
    BY <2>1, DivMod
  <2>4. m >= w => m % w = m - w
    <3>1. SUFFICES ASSUME m >= w PROVE m % w = m - w
      OBVIOUS
    <3>2. m - w \in 0 .. (w - 1) /\ m = 1 * w + (m - w)
      BY <3>1, <2>1
    <3>3. (1 * w + (m - w)) % w = m - w
      BY <3>2, DivUnique
    <3> QED
      BY <3>2, <3>3
  <2> QED
    BY <2>1, <2>2, <2>3, <2>4 DEF m
<1>2. LanesOf(z, lane) \cap LanesOf(z, lane + w) = {}
  BY DEF LanesOf
<1>3. WARP_SIZE \in Nat
  BY LaunchAssumption
<1>4. ASSUME NEW l
      PROVE  l \in LanesOf(w, lane) <=> l \in LanesOf(z, lane) \/ l \in LanesOf(z, lane + w)
  <2>1. CASE l \in 0 .. (WARP_SIZE - 1)
    <3>1. l \in Nat
      BY <2>1, <1>3
    <3> QED
      BY <3>1, <1>1, <2>1 DEF LanesOf
  <2>2. CASE l \notin 0 .. (WARP_SIZE - 1)
    BY <2>2 DEF LanesOf
  <2> QED
    BY <2>1, <2>2
<1> QED
  BY <1>2, <1>4

(* The members of the lanes L. *)
OfLanes(S, L) == UNION {S[l] : l \in L}

(* A shuffle adds up every lane of the warp, each once, whatever the order. *)
LEMMA ShuffleCollects ==
  ASSUME NEW v, NEW S,
         \A l \in 0 .. (WARP_SIZE - 1) : Collects(v[l], S[l]),
         \A k, l \in 0 .. (WARP_SIZE - 1) : k # l => S[k] \cap S[l] = {}
  PROVE  Collects(ShuffleSum(v), OfLanes(S, 0 .. (WARP_SIZE - 1)))
<1> DEFINE W == WARP_SIZE
<1>0. W \in Nat \ {0}
  BY LaunchAssumption
<1>1. PICK round : ShuffleRounds(v, 1, round) /\ ShuffleSum(v) = round[1][0]
  BY ShufflesExist
<1> DEFINE Claim(w) == \A lane \in 0 .. (w - 1) : Collects(round[w][lane], OfLanes(S, LanesOf(w, lane)))
           Fail == {m \in Nat : m < W /\ W % (W - m) = 0 /\ ~Claim(W - m)}
<1>2. ASSUME NEW w \in 1 .. W, NEW lane \in 0 .. (w - 1)
      PROVE  round[w][lane] = IF 2 * w > W THEN v[lane]
                              ELSE Plus(round[2 * w][lane], round[2 * w][IF lane + w < W THEN lane + w ELSE lane])
  <2>1. round[w] = ShuffleRound(v, round, w)
    BY <1>1 DEF ShuffleRounds
  <2>2. lane \in 0 .. (WARP_SIZE - 1)
    BY <1>0
  <2> QED
    BY <2>1, <2>2 DEF ShuffleRound
<1>3. Claim(W)
  <2> SUFFICES ASSUME NEW lane \in 0 .. (W - 1) PROVE Collects(round[W][lane], OfLanes(S, LanesOf(W, lane)))
    OBVIOUS
  <2>1. W \in 1 .. W /\ 2 * W > W
    BY <1>0
  <2>2. round[W][lane] = v[lane]
    BY <1>2, <2>1
  <2>3. \A l \in 0 .. (W - 1) : l % W = l
    BY <1>0, DivMod
  <2>4. LanesOf(W, lane) = {lane}
    BY <2>3 DEF LanesOf
  <2>5. OfLanes(S, LanesOf(W, lane)) = S[lane]
    BY <2>4 DEF OfLanes
  <2> QED
    BY <2>2, <2>5
<1>4. ASSUME NEW w \in 1 .. W, W % w = 0, w # W, Claim(2 * w) PROVE Claim(w)
  <2> SUFFICES ASSUME NEW lane \in 0 .. (w - 1) PROVE Collects(round[w][lane], OfLanes(S, LanesOf(w, lane)))
    OBVIOUS
  <2>1. 2 * w \in 1 .. W
    BY <1>4, StrideDoubles
  <2>2. /\ lane \in 0 .. (2 * w - 1) /\ lane + w \in 0 .. (2 * w - 1)
        /\ ~(2 * w > W) /\ lane + w < W
    BY <2>1, <1>0
  <2>3. round[w][lane] = Plus(round[2 * w][lane], round[2 * w][lane + w])
    BY <1>2, <2>2
  <2> DEFINE A == LanesOf(2 * w, lane)
             B == LanesOf(2 * w, lane + w)
  <2>4. Collects(round[2 * w][lane], OfLanes(S, A)) /\ Collects(round[2 * w][lane + w], OfLanes(S, B))
    BY <1>4, <2>2
  <2>5. LanesOf(w, lane) = A \cup B /\ A \cap B = {}
    <3>1. w \in Nat \ {0} /\ 2 * w <= WARP_SIZE
      BY <2>1, <1>0
    <3> QED
      BY <3>1, LanesMerge
  <2>6. A \subseteq 0 .. (W - 1) /\ B \subseteq 0 .. (W - 1)
    BY DEF LanesOf
  <2> HIDE DEF A, B, Claim
  <2>7. OfLanes(S, A) \cap OfLanes(S, B) = {}
    <3>1. ASSUME NEW a \in A, NEW b \in B PROVE S[a] \cap S[b] = {}
      BY <2>5, <2>6
    <3> QED
      BY <3>1 DEF OfLanes
  <2>8. OfLanes(S, LanesOf(w, lane)) = OfLanes(S, A) \cup OfLanes(S, B)
    BY <2>5 DEF OfLanes
  <2> QED
    BY <2>3, <2>4, <2>7, <2>8, PlusCollects
<1> HIDE DEF Claim
<1>5. Fail = {}
  <2>1. SUFFICES ASSUME Fail # {} PROVE FALSE
    OBVIOUS
  <2>2. PICK m \in Fail : \A n \in Fail : m <= n
    <3>1. Fail \subseteq Nat
      OBVIOUS
    <3> HIDE DEF Fail
    <3> QED
      BY <2>1, <3>1, LeastNat
  <2> DEFINE w == W - m
  <2>3. m \in Nat /\ m < W /\ W % w = 0 /\ ~Claim(w)
    BY <2>2
  <2>4. w \in 1 .. W
    BY <2>3, <1>0
  <2>5. CASE w = W
    BY <2>3, <2>5, <1>3
  <2>6. CASE w # W
    <3>1. 2 * w \in 1 .. W /\ W % (2 * w) = 0
      BY <2>3, <2>4, <2>6, StrideDoubles
    <3>2. W - 2 * w \in Nat /\ W - 2 * w < W /\ W - (W - 2 * w) = 2 * w /\ ~(m <= W - 2 * w)
      BY <3>1, <2>3, <2>4, <1>0
    <3>3. Claim(2 * w)
      BY <2>2, <3>1, <3>2
    <3> QED
      BY <1>4, <2>3, <2>4, <2>6, <3>3
  <2> QED
    BY <2>5, <2>6
<1>6. Claim(1)
  <2>1. W - 1 \in Nat /\ W - 1 < W /\ W - (W - 1) = 1
    BY <1>0
  <2>2. W % 1 = 0
    <3>1. W % 1 \in 0 .. (1 - 1)
      BY <1>0, DivMod
    <3> QED
      BY <3>1
  <2> QED
    BY <2>1, <2>2, <1>5
<1>7. \A l \in 0 .. (W - 1) : l % 1 = 0
  <2> SUFFICES ASSUME NEW l \in 0 .. (W - 1) PROVE l % 1 = 0
    OBVIOUS
  <2>1. l % 1 \in 0 .. (1 - 1)
    BY <1>0, DivMod
  <2> QED
    BY <2>1
<1>8. LanesOf(1, 0) = 0 .. (W - 1)
  BY <1>7 DEF LanesOf
<1> QED
  BY <1>1, <1>6, <1>8 DEF Claim

-----------------------------------------------------------------------------
(* The terms of an output *)

(* An output is of one component of the trees that have a value for it. *)
LEMMA CompOfRange ==
  ASSUME request \in Call, NEW o \in Outputs(request)
  PROVE  CompOf(o) \in 0 .. (NumComp(request) - 1) /\ CompOf(o) \in Nat
<1>1. o \in Nat /\ request.default_num_outputs \in Nat \ {0}
  BY CallFields, OutputSizes DEF Outputs
<1>2. o % request.default_num_outputs \in 0 .. (request.default_num_outputs - 1)
  BY <1>1, DivMod
<1> QED
  BY <1>1, <1>2 DEF CompOf, NumComp

LEMMA CompOfOutput ==
  ASSUME request \in Call, NEW t \in Trees(request), NEW comp \in 0 .. (NumComp(request) - 1)
  PROVE  CompOf(OutputOf(request, t, comp)) = comp
<1> DEFINE n == request.default_num_outputs
<1>1. n \in Nat \ {0} /\ t \in Nat /\ comp \in Nat
  BY CallFields, OutputSizes DEF Trees
<1>2. CASE request.has_vector_leaves /\ request.infer_type # "leaf_id"
  <2>1. comp \in 0 .. (n - 1)
    BY <1>2 DEF NumComp
  <2>2. OutputOf(request, t, comp) = comp + (IF request.infer_type = "per_tree" THEN t * n ELSE 0)
    BY <1>2 DEF OutputOf
  <2> HIDE DEF n
  <2>3. (t * n + comp) % n = comp /\ (0 * n + comp) % n = comp
    BY <1>1, <2>1, DivUnique
  <2>4. t * n \in Nat
    BY <1>1, MulNat
  <2>5. OutputOf(request, t, comp) \in {t * n + comp, 0 * n + comp}
    BY <1>1, <2>2, <2>4
  <2>6. OutputOf(request, t, comp) % n = comp
    BY <2>3, <2>5
  <2> QED
    BY <1>2, <2>6 DEF CompOf, n
<1>3. CASE ~(request.has_vector_leaves /\ request.infer_type # "leaf_id")
  BY <1>3 DEF CompOf, NumComp
<1> QED
  BY <1>2, <1>3

(* The tree that has a value for an output, if only one has. *)
LEMMA OutputTree ==
  ASSUME request \in Call, NEW o \in Outputs(request), NEW t \in Trees(request),
         request.infer_type = "per_tree", request.has_vector_leaves
  PROVE  /\ OutputOf(request, t, CompOf(o)) = o <=> t = o \div request.default_num_outputs
         /\ o \div request.default_num_outputs \in Trees(request)
<1> DEFINE n == request.default_num_outputs
           m == request.num_tree
           q == o \div n
           r == o % n
<1>1. n \in Nat \ {0} /\ m \in Nat \ {0} /\ t \in Nat
  BY CallFields DEF Trees
<1>2. o \in 0 .. (m * n - 1) /\ NumComp(request) = n
  BY DEF Outputs, NumOutputs, NumComp
<1>3. OutputOf(request, t, CompOf(o)) = r + t * n
  BY DEF OutputOf, CompOf
<1>4. m * n \in Nat
  BY <1>1, MulNat
<1>5. o \in Nat /\ o < m * n
  BY <1>2, <1>4
<1>6. q \in Nat /\ r \in 0 .. (n - 1) /\ o = q * n + r
  BY <1>1, <1>5, DivMod
<1>7. q < m
  BY <1>1, <1>5, QuotientBelow
<1> HIDE DEF n, m, q, r
<1>8. r + t * n = o <=> t = q
  <2>1. t * n \in Nat /\ q * n \in Nat
    BY <1>1, <1>6, MulNat
  <2>2. ASSUME r + t * n = o PROVE t = q
    <3>1. t * n + r = q * n + r /\ r < n /\ r \in Nat
      BY <1>1, <1>6, <2>1, <2>2
    <3> QED
      BY <1>1, <1>6, <3>1, BlockUnique
  <2>3. t = q => r + t * n = o
    BY <1>6, <2>1
  <2> QED
    BY <2>2, <2>3
<1>9. q \in Trees(request)
  BY <1>1, <1>6, <1>7 DEF Trees, m
<1> QED
  BY <1>3, <1>8, <1>9 DEF n, q

(* The contributions to an output, one for each tree that has a value for it. *)
LEMMA ContributionsOf ==
  ASSUME request \in Call, NEW r, NEW o \in Outputs(request)
  PROVE  Promise!Contributions(request, r, o)
           = {TermOf(r, t, o) : t \in {t \in Trees(request) : OutputOf(request, t, CompOf(o)) = o}}
<1> DEFINE n == request.default_num_outputs
           m == request.num_tree
<1>1. n \in Nat \ {0} /\ m \in Nat \ {0} /\ request.has_vector_leaves \in BOOLEAN
      /\ request.infer_type \in {"default", "per_tree", "leaf_id"} /\ o \in Nat
  BY CallFields, OutputSizes DEF InferKind, Outputs
<1> USE DEF Promise!Contributions, Promise!Trees, TermOf
<1>2. CASE request.infer_type = "leaf_id" \/ (request.infer_type = "per_tree" /\ ~request.has_vector_leaves)
  <2>1. o \in Trees(request) /\ CompOf(o) = 0
    BY <1>2 DEF Outputs, NumOutputs, Trees, CompOf
  <2>2. {t \in Trees(request) : OutputOf(request, t, CompOf(o)) = o} = {o}
    BY <1>2, <2>1 DEF OutputOf
  <2> QED
    BY <1>2, <2>1, <2>2
<1>3. CASE request.infer_type = "per_tree" /\ request.has_vector_leaves
  <2>1. {t \in Trees(request) : OutputOf(request, t, CompOf(o)) = o} = {o \div n}
    <3>1. \E t : t \in Trees(request)
      BY <1>1 DEF Trees
    <3>2. /\ \A t \in Trees(request) : OutputOf(request, t, CompOf(o)) = o <=> t = o \div n
          /\ o \div n \in Trees(request)
      BY <1>3, <3>1, OutputTree
    <3> QED
      BY <3>2
  <2>2. CompOf(o) = o % n
    BY <1>3 DEF CompOf
  <2>3. Promise!Contributions(request, r, o)
          = {[offset |-> r * request.col_count, tree |-> o \div n, comp |-> o % n]}
    BY <1>3
  <2> DEFINE q == o \div n
             k == o % n
             S == {t \in Trees(request) : OutputOf(request, t, CompOf(o)) = o}
  <2>4. S = {q} /\ CompOf(o) = k
        /\ Promise!Contributions(request, r, o) = {[offset |-> r * request.col_count, tree |-> q, comp |-> k]}
    BY <2>1, <2>2, <2>3
  <2> HIDE DEF q, k, S, Promise!Contributions
  <2> QED
    BY <2>4 DEF S
<1>4. CASE request.infer_type = "default" /\ request.has_vector_leaves
  <2>1. o \in 0 .. (n - 1)
    BY <1>4 DEF Outputs, NumOutputs
  <2>2. CompOf(o) = o
    <3>1. o % n = o
      <4>1. o < n /\ n \in Nat \ {0} /\ o \in Nat
        BY <1>1, <2>1
      <4> HIDE DEF n
      <4> QED
        BY <4>1, DivMod
    <3> QED
      BY <1>4, <3>1 DEF CompOf
  <2>3. {t \in Trees(request) : OutputOf(request, t, CompOf(o)) = o} = Trees(request)
    BY <1>1, <1>4, <2>2 DEF OutputOf
  <2> QED
    BY <1>4, <2>2, <2>3 DEF Trees
<1>5. CASE request.infer_type = "default" /\ ~request.has_vector_leaves
  <2>1. CompOf(o) = 0
    BY <1>5 DEF CompOf
  <2>2. {t \in Trees(request) : OutputOf(request, t, CompOf(o)) = o} = {t \in Trees(request) : t % n = o}
    BY <1>5, <2>1 DEF OutputOf
  <2> QED
    BY <1>5, <2>1, <2>2 DEF Trees
<1> QED
  BY <1>1, <1>2, <1>3, <1>4, <1>5

-----------------------------------------------------------------------------
(* The sum of the trees of a grove *)

TreeRound(r, o, g, f, k) ==
  IF k = 0 THEN Zero
  ELSE IF Feeds(k - 1, r % launch.chunk_size, o, g) THEN AddTerm(f[k - 1], TermOf(r, k - 1, o))
  ELSE f[k - 1]

TreeRounds(r, o, g, n, f) == f = [k \in 0 .. n |-> TreeRound(r, o, g, f, k)]

(* There is a sum of the trees before each. *)
LEMMA TreeRoundsExist ==
  ASSUME NEW r, NEW o, NEW g, NEW num \in Nat
  PROVE  \E f : TreeRounds(r, o, g, num, f)
<1> DEFINE Fail == {n \in Nat : ~ \E f : TreeRounds(r, o, g, n, f)}
<1>1. SUFFICES ASSUME Fail # {} PROVE FALSE
  OBVIOUS
<1>2. PICK n \in Fail : \A m \in Fail : n <= m
  BY <1>1, LeastNat
<1>3. n \in Nat /\ ~ \E f : TreeRounds(r, o, g, n, f)
  BY <1>2
<1>4. PICK f : n > 0 => TreeRounds(r, o, g, n - 1, f)
  <2>1. CASE n > 0
    <3>1. n - 1 \in Nat /\ ~(n <= n - 1)
      BY <1>3, <2>1
    <3>2. n - 1 \notin Fail
      BY <1>2, <3>1
    <3> QED
      BY <3>1, <3>2
  <2> QED
    BY <2>1
<1> DEFINE h == [k \in 0 .. n |-> IF k = n THEN TreeRound(r, o, g, f, n) ELSE f[k]]
<1>5. ASSUME NEW k \in 0 .. n PROVE h[k] = TreeRound(r, o, g, h, k)
  <2>1. k \in Nat /\ (k # 0 => k - 1 \in 0 .. n /\ k - 1 # n)
    BY <1>3
  <2>2. k # 0 => h[k - 1] = f[k - 1]
    BY <2>1
  <2>3. TreeRound(r, o, g, h, k) = TreeRound(r, o, g, f, k)
    <3> HIDE DEF h
    <3> QED
      BY <2>1, <2>2 DEF TreeRound
  <2>4. CASE k = n
    BY <2>3, <2>4
  <2>5. CASE k # n
    <3>1. n > 0 /\ k \in 0 .. (n - 1)
      BY <1>3, <2>5
    <3>2. f[k] = TreeRound(r, o, g, f, k)
      BY <1>4, <3>1 DEF TreeRounds
    <3> QED
      BY <2>3, <2>5, <3>2
  <2> QED
    BY <2>4, <2>5
<1>6. TreeRounds(r, o, g, n, h)
  BY <1>5 DEF TreeRounds
<1> QED
  BY <1>3, <1>6

(* Tree after tree is added, if it feeds the grove. *)
LEMMA TreeSums ==
  ASSUME request \in Call, NEW r, NEW o, NEW g
  PROVE  /\ TreeSum(r, o, g, 0) = Zero
         /\ \A n \in Trees(request) :
              TreeSum(r, o, g, n + 1) =
                IF Feeds(n, r % launch.chunk_size, o, g)
                THEN AddTerm(TreeSum(r, o, g, n), TermOf(r, n, o)) ELSE TreeSum(r, o, g, n)
<1> DEFINE m == request.num_tree
           upto == CHOOSE f : TreeRounds(r, o, g, m, f)
<1>1. m \in Nat
  BY CallFields
<1>2. \A n : TreeSum(r, o, g, n) = upto[n]
  BY DEF TreeSum, TreeRounds, TreeRound
<1>3. TreeRounds(r, o, g, m, upto)
  BY <1>1, TreeRoundsExist
<1> HIDE DEF upto
<1>4. \A k \in 0 .. m : upto[k] = TreeRound(r, o, g, upto, k)
  BY <1>3 DEF TreeRounds
<1>5. TreeSum(r, o, g, 0) = Zero
  <2>1. 0 \in 0 .. m
    BY <1>1
  <2> QED
    BY <1>2, <1>4, <2>1 DEF TreeRound
<1>6. ASSUME NEW n \in Trees(request)
      PROVE  TreeSum(r, o, g, n + 1) =
               IF Feeds(n, r % launch.chunk_size, o, g)
               THEN AddTerm(TreeSum(r, o, g, n), TermOf(r, n, o)) ELSE TreeSum(r, o, g, n)
  <2>1. n + 1 \in 0 .. m /\ n + 1 # 0 /\ (n + 1) - 1 = n
    BY <1>1 DEF Trees
  <2>2. upto[n + 1] = TreeRound(r, o, g, upto, n + 1)
    BY <1>4, <2>1
  <2> QED
    BY <1>2, <2>1, <2>2 DEF TreeRound
<1> QED
  BY <1>5, <1>6

(* Trees that do not feed the grove make no difference. *)
LEMMA TreeSumGap ==
  ASSUME request \in Call, NEW r, NEW o, NEW g,
         NEW m \in 0 .. request.num_tree, NEW n \in 0 .. request.num_tree, m <= n,
         \A t \in m .. (n - 1) : ~Feeds(t, r % launch.chunk_size, o, g)
  PROVE  TreeSum(r, o, g, m) = TreeSum(r, o, g, n)
<1> DEFINE Fail == {k \in Nat : k >= m /\ k <= n /\ TreeSum(r, o, g, k) # TreeSum(r, o, g, m)}
<1>0. request.num_tree \in Nat /\ m \in Nat /\ n \in Nat
  BY CallFields
<1>1. SUFFICES ASSUME Fail # {} PROVE FALSE
  BY <1>0
<1>2. PICK k \in Fail : \A j \in Fail : k <= j
  <2>1. Fail \subseteq Nat
    OBVIOUS
  <2> HIDE DEF Fail
  <2> QED
    BY <1>1, <2>1, LeastNat
<1>3. k \in Nat /\ k >= m /\ k <= n /\ TreeSum(r, o, g, k) # TreeSum(r, o, g, m)
  BY <1>2
<1>4. k > m
  BY <1>0, <1>3
<1> DEFINE t == k - 1
<1>5. t \in m .. (n - 1) /\ t \in Trees(request) /\ t + 1 = k /\ t \in Nat /\ ~(k <= t)
  BY <1>0, <1>3, <1>4 DEF Trees
<1>6. TreeSum(r, o, g, t) = TreeSum(r, o, g, m)
  BY <1>0, <1>2, <1>3, <1>5
<1>7. TreeSum(r, o, g, k) = TreeSum(r, o, g, t)
  <2> HIDE DEF t
  <2> QED
    BY <1>5, TreeSums
<1> QED
  BY <1>3, <1>6, <1>7

(* The terms of the trees before n that feed a grove. *)
TermsBefore(r, o, g, n) ==
  {TermOf(r, t, o) : t \in {t \in 0 .. (n - 1) : Feeds(t, r % launch.chunk_size, o, g)}}

LEMMA TreeSumCollects ==
  ASSUME request \in Call, NEW r \in Nat, NEW o \in Outputs(request), NEW g,
         NEW n \in 0 .. request.num_tree
  PROVE  Collects(TreeSum(r, o, g, n), TermsBefore(r, o, g, n))
<1> DEFINE m == request.num_tree
           Fail == {k \in Nat : k <= m /\ ~Collects(TreeSum(r, o, g, k), TermsBefore(r, o, g, k))}
<1>0. m \in Nat /\ request.col_count \in Nat /\ n \in Nat /\ n <= m
  BY CallFields
<1>1. SUFFICES ASSUME Fail # {} PROVE FALSE
  BY <1>0
<1>2. PICK k \in Fail : \A j \in Fail : k <= j
  <2>1. Fail \subseteq Nat
    OBVIOUS
  <2> HIDE DEF Fail
  <2> QED
    BY <1>1, <2>1, LeastNat
<1>3. k \in Nat /\ k <= m /\ ~Collects(TreeSum(r, o, g, k), TermsBefore(r, o, g, k))
  BY <1>2
<1>4. CASE k = 0
  <2>1. TermsBefore(r, o, g, 0) = {}
    BY DEF TermsBefore
  <2> QED
    BY <1>3, <1>4, <2>1, TreeSums, ZeroCollects
<1>5. CASE k # 0
  <2> DEFINE t == k - 1
             T == TermsBefore(r, o, g, t)
             term == TermOf(r, t, o)
  <2>1. t \in Nat /\ t + 1 = k /\ t \in Trees(request) /\ ~(k <= t) /\ t <= m
    BY <1>0, <1>3, <1>5 DEF Trees
  <2>2. Collects(TreeSum(r, o, g, t), T)
    BY <1>2, <2>1
  <2>3. \A u : u \in 0 .. (k - 1) <=> u \in 0 .. (t - 1) \/ u = t
    BY <1>3, <2>1
  <2>4. CASE Feeds(t, r % launch.chunk_size, o, g)
    <3>1. TermsBefore(r, o, g, k) = T \cup {term}
      <4>1. \A u : u \in 0 .. (k - 1) /\ Feeds(u, r % launch.chunk_size, o, g)
                    <=> (u \in 0 .. (t - 1) /\ Feeds(u, r % launch.chunk_size, o, g)) \/ u = t
        BY <2>3, <2>4
      <4> HIDE DEF t
      <4> QED
        BY <4>1 DEF TermsBefore
    <3>2. term \notin T
      <4>1. \A u \in 0 .. (t - 1) : TermOf(r, u, o).tree # term.tree
        BY <2>1 DEF TermOf
      <4> QED
        BY <4>1 DEF TermsBefore
    <3>3. term \in Term
      <4>1. r * request.col_count \in Nat
        BY <1>0, MulNat
      <4>2. CompOf(o) \in Nat
        BY CompOfRange
      <4> QED
        BY <2>1, <4>1, <4>2 DEF Term, TermOf
    <3>4. TreeSum(r, o, g, k) = AddTerm(TreeSum(r, o, g, t), term)
      <4> HIDE DEF t
      <4> QED
        BY <2>1, <2>4, TreeSums
    <3> QED
      BY <1>3, <2>2, <3>1, <3>2, <3>3, <3>4, TermCollects
  <2>5. CASE ~Feeds(t, r % launch.chunk_size, o, g)
    <3>1. TermsBefore(r, o, g, k) = T
      <4> HIDE DEF t
      <4> QED
        BY <2>3, <2>5 DEF TermsBefore
    <3>2. TreeSum(r, o, g, k) = TreeSum(r, o, g, t)
      <4> HIDE DEF t
      <4> QED
        BY <2>1, <2>5, TreeSums
    <3> QED
      BY <1>3, <2>2, <3>1, <3>2
  <2> QED
    BY <2>4, <2>5
<1> QED
  BY <1>4, <1>5

-----------------------------------------------------------------------------
(* The sum of the groves *)

(* A thread only serves one row of a chunk. *)
LEMMA ServerRow ==
  ASSUME Layout
  PROVE  \A x \in Nat : (x % launch.threads_per_block) % launch.chunk_size = x % launch.chunk_size
<1>1. /\ launch.threads_per_block \in Nat \ {0} /\ launch.chunk_size \in Nat \ {0}
      /\ \E q \in Nat : launch.threads_per_block = q * launch.chunk_size
  BY DEF Layout
<1>2. PICK q \in Nat : launch.threads_per_block = q * launch.chunk_size
  BY <1>1
<1> QED
  BY <1>1, <1>2, ModOfMultiple

(* The grove of a tree is one of them. *)
LEMMA GroveInside ==
  ASSUME Layout, NEW t \in Trees(request), NEW row \in Nat, row < launch.chunk_size
  PROVE  /\ GroveOf(t, row) \in Groves /\ GroveOf(t, row) \in Nat
         /\ ServerOf(t, row) \in Lanes /\ ServerOf(t, row) \in Nat
         /\ ServerOf(t, row) % launch.chunk_size = row
<1> DEFINE T == launch.threads_per_block
           n == launch.chunk_size
           m == request.num_tree
           x == ServerOf(t, row)
           e == t * n + row
<1>1. /\ T \in Nat \ {0} /\ n \in Nat \ {0} /\ \E q \in Nat : T = q * n
      /\ launch.num_grove = KernelGroves(request, T, n) /\ launch.num_grove \in Nat \ {0}
      /\ m \in Nat \ {0} /\ t \in Nat /\ t < m /\ row < n
  BY CallFields DEF Layout, Trees
<1> HIDE DEF T, n, m
<1>2. e \in Nat /\ e < m * n /\ m * n \in Nat
  BY <1>1, MulNat, BlockOrder
<1>3. x = e % T
  BY DEF ServerOf, T, n
<1>4. x \in 0 .. (T - 1) /\ x <= e /\ x \in Nat
  <2>1. T \in Nat \ {0} /\ e \in Nat
    BY <1>1, <1>2
  <2> HIDE DEF e, x
  <2>2. e % T \in 0 .. (T - 1) /\ e % T <= e
    BY <2>1, DivMod
  <2> QED
    BY <1>3, <2>1, <2>2
<1>5. e % n = row
  <2>1. row \in 0 .. (n - 1) /\ n \in Nat \ {0} /\ t \in Nat
    BY <1>1
  <2> QED
    BY <2>1, DivUnique
<1>6. x % n = row
  <2>1. e \in Nat
    BY <1>2
  <2>2. (e % T) % n = e % n
    BY <2>1, ServerRow DEF T, n
  <2> QED
    BY <1>3, <1>5, <2>2
<1>7. GroveOf(t, row) \in Groves /\ GroveOf(t, row) \in Nat
  <2>1. CASE request.infer_type = "default"
    <3> DEFINE L == Least(T, n * m)
    <3>1. x < L /\ L \in Nat
      <4>1. n * m = m * n
        BY <1>1
      <4> QED
        BY <1>1, <1>2, <1>4, <4>1 DEF Least
    <3>2. launch.num_grove = CeilDiv(L, n)
      BY <1>1, <2>1 DEF KernelGroves, m
    <3>3. L <= CeilDiv(L, n) * n /\ CeilDiv(L, n) \in Nat
      <4> HIDE DEF L
      <4> QED
        BY <1>1, <3>1, CeilDivBounds
    <3> HIDE DEF L
    <3>4. x < launch.num_grove * n
      <4>1. launch.num_grove * n \in Nat
        BY <1>1, MulNat
      <4> QED
        BY <1>4, <3>1, <3>2, <3>3, <4>1
    <3>5. x \div n < launch.num_grove /\ x \div n \in Nat
      <4> HIDE DEF x
      <4> QED
        BY <1>1, <1>4, <3>4, QuotientBelow, DivMod
    <3>6. GroveOf(t, row) = x \div n
      BY <2>1 DEF GroveOf, n
    <3> QED
      BY <1>1, <3>5, <3>6 DEF Groves
  <2>2. CASE request.infer_type # "default"
    BY <1>1, <2>2 DEF GroveOf, Groves
  <2> QED
    BY <2>1, <2>2
<1> QED
  BY <1>4, <1>6, <1>7 DEF Lanes, T, n

GroveSum(r, o, g) == IF g < launch.num_grove THEN TreeSum(r, o, g, request.num_tree) ELSE Zero

(* What the lanes hold when the shuffles of batch n begin, if the batches
   before have come to v. *)
BatchLanes(r, o, v, n) ==
  [[l \in 0 .. (WARP_SIZE - 1) |-> GroveSum(r, o, n * WARP_SIZE + l)] EXCEPT ![0] = Plus(v, @)]

BatchRound(r, o, f, k) ==
  IF k = 0 THEN Zero ELSE ShuffleSum(BatchLanes(r, o, f[k - 1], k - 1))

BatchRounds(r, o, n, f) == f = [k \in 0 .. n |-> BatchRound(r, o, f, k)]

(* There is a sum of the batches before each. *)
LEMMA BatchRoundsExist ==
  ASSUME NEW r, NEW o, NEW num \in Nat
  PROVE  \E f : BatchRounds(r, o, num, f)
<1> DEFINE Fail == {n \in Nat : ~ \E f : BatchRounds(r, o, n, f)}
<1>1. SUFFICES ASSUME Fail # {} PROVE FALSE
  OBVIOUS
<1>2. PICK n \in Fail : \A m \in Fail : n <= m
  BY <1>1, LeastNat
<1>3. n \in Nat /\ ~ \E f : BatchRounds(r, o, n, f)
  BY <1>2
<1>4. PICK f : n > 0 => BatchRounds(r, o, n - 1, f)
  <2>1. CASE n > 0
    <3>1. n - 1 \in Nat /\ ~(n <= n - 1)
      BY <1>3, <2>1
    <3>2. n - 1 \notin Fail
      BY <1>2, <3>1
    <3> QED
      BY <3>1, <3>2
  <2> QED
    BY <2>1
<1> DEFINE h == [k \in 0 .. n |-> IF k = n THEN BatchRound(r, o, f, n) ELSE f[k]]
<1>5. ASSUME NEW k \in 0 .. n PROVE h[k] = BatchRound(r, o, h, k)
  <2>1. k \in Nat /\ (k # 0 => k - 1 \in 0 .. n /\ k - 1 # n)
    BY <1>3
  <2>2. k # 0 => h[k - 1] = f[k - 1]
    BY <2>1
  <2>3. BatchRound(r, o, h, k) = BatchRound(r, o, f, k)
    <3> HIDE DEF h
    <3> QED
      BY <2>1, <2>2 DEF BatchRound
  <2>4. CASE k = n
    BY <2>3, <2>4
  <2>5. CASE k # n
    <3>1. n > 0 /\ k \in 0 .. (n - 1)
      BY <1>3, <2>5
    <3>2. f[k] = BatchRound(r, o, f, k)
      BY <1>4, <3>1 DEF BatchRounds
    <3> QED
      BY <2>3, <2>5, <3>2
  <2> QED
    BY <2>4, <2>5
<1>6. BatchRounds(r, o, n, h)
  BY <1>5 DEF BatchRounds
<1> QED
  BY <1>3, <1>6

(* Batch after batch is shuffled, the first lane with the sum so far. *)
LEMMA BatchSums ==
  ASSUME launch.num_grove \in Nat, NEW r, NEW o
  PROVE  /\ BatchSum(r, o, 0) = Zero
         /\ \A n \in Groves :
              BatchSum(r, o, n + 1) = ShuffleSum(BatchLanes(r, o, BatchSum(r, o, n), n))
<1> DEFINE m == launch.num_grove
           upto == CHOOSE f : BatchRounds(r, o, m, f)
<1>1. m \in Nat
  OBVIOUS
<1>2. \A n : BatchSum(r, o, n) = upto[n]
  BY DEF BatchSum, BatchRounds, BatchRound, BatchLanes, GroveSum
<1>3. BatchRounds(r, o, m, upto)
  BY <1>1, BatchRoundsExist
<1> HIDE DEF upto
<1>4. \A k \in 0 .. m : upto[k] = BatchRound(r, o, upto, k)
  BY <1>3 DEF BatchRounds
<1>5. BatchSum(r, o, 0) = Zero
  <2>1. 0 \in 0 .. m
    BY <1>1
  <2> QED
    BY <1>2, <1>4, <2>1 DEF BatchRound
<1>6. ASSUME NEW n \in Groves
      PROVE  BatchSum(r, o, n + 1) = ShuffleSum(BatchLanes(r, o, BatchSum(r, o, n), n))
  <2>1. n + 1 \in 0 .. m /\ n + 1 # 0 /\ (n + 1) - 1 = n
    BY <1>1 DEF Groves
  <2>2. upto[n + 1] = BatchRound(r, o, upto, n + 1)
    BY <1>4, <2>1
  <2>3. upto[n + 1] = ShuffleSum(BatchLanes(r, o, upto[n], n))
    BY <2>1, <2>2 DEF BatchRound
  <2> QED
    BY <1>2, <2>3
<1> QED
  BY <1>5, <1>6

(* The terms of the groves before x. *)
TermsOfGroves(r, o, x) ==
  {TermOf(r, t, o) : t \in {t \in Trees(request) :
     OutputOf(request, t, CompOf(o)) = o /\ GroveOf(t, r % launch.chunk_size) < x}}

LEMMA TermsOfGrove ==
  ASSUME Layout, NEW r \in Nat, NEW o, NEW g, NEW term
  PROVE  term \in TermsBefore(r, o, g, request.num_tree)
           <=> \E t \in Trees(request) :
                 /\ OutputOf(request, t, CompOf(o)) = o
                 /\ GroveOf(t, r % launch.chunk_size) = g
                 /\ term = TermOf(r, t, o)
  BY DEF TermsBefore, Feeds, Trees

(* The batches before n have added up their groves, each once. *)
LEMMA BatchCollects ==
  ASSUME Layout, NEW r \in Nat, NEW o \in Outputs(request), NEW n \in 0 .. launch.num_grove
  PROVE  Collects(BatchSum(r, o, n), TermsOfGroves(r, o, n * WARP_SIZE))
<1> DEFINE m == launch.num_grove
           W == WARP_SIZE
           row == r % launch.chunk_size
           Fail == {k \in Nat : k <= m /\ ~Collects(BatchSum(r, o, k), TermsOfGroves(r, o, k * W))}
<1>0. /\ m \in Nat /\ n \in Nat /\ n <= m /\ W \in Nat \ {0} /\ request \in Call
      /\ request.num_tree \in Nat
  BY CallFields DEF Layout
<1>1. SUFFICES ASSUME Fail # {} PROVE FALSE
  BY <1>0
<1>2. PICK k \in Fail : \A j \in Fail : k <= j
  <2>1. Fail \subseteq Nat
    OBVIOUS
  <2> HIDE DEF Fail
  <2> QED
    BY <1>1, <2>1, LeastNat
<1>3. k \in Nat /\ k <= m /\ ~Collects(BatchSum(r, o, k), TermsOfGroves(r, o, k * W))
  BY <1>2
<1>4. \A t \in Trees(request) : GroveOf(t, row) \in Nat /\ GroveOf(t, row) < m
  <2>1. row \in Nat /\ row < launch.chunk_size
    <3>1. launch.chunk_size \in Nat \ {0}
      BY DEF Layout
    <3>2. r % launch.chunk_size \in 0 .. (launch.chunk_size - 1)
      BY <3>1, DivMod
    <3> QED
      BY <3>1, <3>2
  <2> HIDE DEF row
  <2>2. \A t \in Trees(request) : GroveOf(t, row) \in Groves /\ GroveOf(t, row) \in Nat
    BY <2>1, GroveInside
  <2> QED
    BY <1>0, <2>2 DEF Groves
<1>5. CASE k = 0
  <2>1. TermsOfGroves(r, o, 0 * W) = {}
    <3>1. 0 * W = 0
      BY <1>0
    <3> QED
      BY <1>4, <3>1 DEF TermsOfGroves
  <2> QED
    BY <1>0, <1>3, <1>5, <2>1, BatchSums, ZeroCollects
<1>6. CASE k # 0
  <2> DEFINE j == k - 1
             base == j * W
             v == BatchSum(r, o, j)
             before == TermsOfGroves(r, o, base)
             lanes == BatchLanes(r, o, v, j)
             T(l) == TermsBefore(r, o, base + l, request.num_tree)
             S == [l \in 0 .. (W - 1) |-> IF l = 0 THEN before \cup T(0) ELSE T(l)]
  <2>1. j \in Nat /\ j + 1 = k /\ j \in Groves /\ ~(k <= j) /\ j <= m
    BY <1>0, <1>3, <1>6 DEF Groves
  <2>2. Collects(v, before)
    BY <1>2, <2>1
  <2>3. BatchSum(r, o, k) = ShuffleSum(lanes)
    <3> HIDE DEF j
    <3> QED
      BY <1>0, <2>1, BatchSums
  <2>4. base \in Nat /\ k * W = base + W
    <3> HIDE DEF j
    <3>1. base \in Nat
      BY <1>0, <2>1, MulNat
    <3>2. k * W = j * W + W
      BY <1>0, <2>1
    <3> QED
      BY <3>1, <3>2
  <2> HIDE DEF j, base
  <2>5. \A l \in 0 .. (W - 1) : Collects(GroveSum(r, o, base + l), T(l))
    <3> SUFFICES ASSUME NEW l \in 0 .. (W - 1) PROVE Collects(GroveSum(r, o, base + l), T(l))
      OBVIOUS
    <3>1. CASE base + l < m
      <4>1. GroveSum(r, o, base + l) = TreeSum(r, o, base + l, request.num_tree)
        BY <3>1 DEF GroveSum
      <4>2. request.num_tree \in 0 .. request.num_tree
        BY <1>0
      <4> QED
        BY <1>0, <4>1, <4>2, TreeSumCollects
    <3>2. CASE ~(base + l < m)
      <4>1. GroveSum(r, o, base + l) = Zero
        BY <3>2 DEF GroveSum
      <4>2. \A t \in Trees(request) : GroveOf(t, row) # base + l
        BY <1>4, <3>2
      <4>3. T(l) = {}
        BY <4>2, TermsOfGrove
      <4> QED
        BY <4>1, <4>3, ZeroCollects
    <3> QED
      BY <3>1, <3>2
  <2>6. \A term : term \in before
           <=> \E t \in Trees(request) : /\ OutputOf(request, t, CompOf(o)) = o
                                          /\ GroveOf(t, row) < base
                                          /\ term = TermOf(r, t, o)
    BY DEF TermsOfGroves
  <2>7. \A l : \A term : term \in T(l)
           <=> \E t \in Trees(request) : /\ OutputOf(request, t, CompOf(o)) = o
                                          /\ GroveOf(t, row) = base + l
                                          /\ term = TermOf(r, t, o)
    BY TermsOfGrove
  <2>8. \A t, u : TermOf(r, t, o) = TermOf(r, u, o) => t = u
    <3>1. \A t : TermOf(r, t, o).tree = t
      BY DEF TermOf
    <3> QED
      BY <3>1
  <2> HIDE DEF before, T, row
  <2>9. \A l \in 0 .. (W - 1) : before \cap T(l) = {}
    <3> SUFFICES ASSUME NEW l \in 0 .. (W - 1), NEW term, term \in before, term \in T(l) PROVE FALSE
      OBVIOUS
    <3>1. PICK t \in Trees(request) : GroveOf(t, row) < base /\ term = TermOf(r, t, o)
      BY <2>6
    <3>2. PICK u \in Trees(request) : GroveOf(u, row) = base + l /\ term = TermOf(r, u, o)
      BY <2>7
    <3>3. t = u
      BY <3>1, <3>2, <2>8
    <3> QED
      BY <3>1, <3>2, <3>3, <1>4, <2>4
  <2>10. \A a, b \in 0 .. (W - 1) : a # b => T(a) \cap T(b) = {}
    <3> SUFFICES ASSUME NEW a \in 0 .. (W - 1), NEW b \in 0 .. (W - 1), a # b,
                        NEW term, term \in T(a), term \in T(b)
                 PROVE FALSE
      OBVIOUS
    <3>1. PICK t \in Trees(request) : GroveOf(t, row) = base + a /\ term = TermOf(r, t, o)
      BY <2>7
    <3>2. PICK u \in Trees(request) : GroveOf(u, row) = base + b /\ term = TermOf(r, u, o)
      BY <2>7
    <3>3. t = u
      BY <3>1, <3>2, <2>8
    <3>4. base + a = base + b
      BY <3>1, <3>2, <3>3
    <3> QED
      BY <3>4, <2>4
  <2>11. \A l \in 0 .. (W - 1) : Collects(lanes[l], S[l])
    <3> SUFFICES ASSUME NEW l \in 0 .. (W - 1) PROVE Collects(lanes[l], S[l])
      OBVIOUS
    <3>1. lanes[l] = IF l = 0 THEN Plus(v, GroveSum(r, o, base + l)) ELSE GroveSum(r, o, base + l)
      BY DEF BatchLanes, base
    <3>2. CASE l = 0
      <4>1. S[l] = before \cup T(l)
        BY <3>2
      <4> QED
        BY <3>1, <3>2, <4>1, <2>2, <2>5, <2>9, PlusCollects
    <3>3. CASE l # 0
      BY <3>1, <3>3, <2>5
    <3> QED
      BY <3>2, <3>3
  <2>12. \A a, b \in 0 .. (W - 1) : a # b => S[a] \cap S[b] = {}
    <3> SUFFICES ASSUME NEW a \in 0 .. (W - 1), NEW b \in 0 .. (W - 1), a # b
                 PROVE  S[a] \cap S[b] = {}
      OBVIOUS
    <3>1. T(a) \cap T(b) = {} /\ before \cap T(a) = {} /\ before \cap T(b) = {}
      BY <2>9, <2>10
    <3>2. S[a] \in {T(a), before \cup T(a)} /\ S[b] \in {T(b), before \cup T(b)}
      OBVIOUS
    <3>3. S[a] = T(a) \/ S[b] = T(b)
      OBVIOUS
    <3> QED
      BY <3>1, <3>2, <3>3
  <2>13. OfLanes(S, 0 .. (W - 1)) = TermsOfGroves(r, o, k * W)
    <3>1. ASSUME NEW term
          PROVE  term \in OfLanes(S, 0 .. (W - 1)) <=> term \in before \/ \E l \in 0 .. (W - 1) : term \in T(l)
      <4>1. 0 \in 0 .. (W - 1)
        BY <1>0
      <4>2. \A l \in 0 .. (W - 1) : term \in S[l] <=> term \in T(l) \/ (l = 0 /\ term \in before)
        OBVIOUS
      <4>3. term \in OfLanes(S, 0 .. (W - 1)) <=> \E l \in 0 .. (W - 1) : term \in S[l]
        BY DEF OfLanes
      <4> HIDE DEF S
      <4> QED
        BY <4>1, <4>2, <4>3
    <3>2. ASSUME NEW t \in Trees(request)
          PROVE  GroveOf(t, row) < k * W
                   <=> GroveOf(t, row) < base \/ \E l \in 0 .. (W - 1) : GroveOf(t, row) = base + l
      <4> DEFINE g == GroveOf(t, row)
      <4>1. g \in Nat
        BY <1>4
      <4> HIDE DEF g
      <4>2. ASSUME g < k * W, ~(g < base) PROVE \E l \in 0 .. (W - 1) : g = base + l
        <5>1. g - base \in 0 .. (W - 1) /\ g = base + (g - base)
          BY <1>0, <2>4, <4>1, <4>2
        <5> QED
          BY <5>1
      <4>3. ASSUME g < base \/ \E l \in 0 .. (W - 1) : g = base + l PROVE g < k * W
        BY <1>0, <2>4, <4>1, <4>3
      <4> QED
        BY <4>2, <4>3 DEF g
    <3>3. \A term : term \in TermsOfGroves(r, o, k * W)
             <=> \E t \in Trees(request) : /\ OutputOf(request, t, CompOf(o)) = o
                                            /\ GroveOf(t, row) < k * W
                                            /\ term = TermOf(r, t, o)
      BY DEF TermsOfGroves, row
    <3>4. ASSUME NEW term
          PROVE  term \in TermsOfGroves(r, o, k * W) <=> term \in before \/ \E l \in 0 .. (W - 1) : term \in T(l)
      BY <3>2, <3>3, <2>6, <2>7
    <3> QED
      BY <3>1, <3>4
  <2> HIDE DEF lanes, S
  <2>14. Collects(ShuffleSum(lanes), OfLanes(S, 0 .. (W - 1)))
    BY <2>11, <2>12, ShuffleCollects
  <2> QED
    BY <1>3, <2>3, <2>13, <2>14
<1> QED
  BY <1>5, <1>6

(* The batches cover the groves, in at most as many rounds as there are groves. *)
LEMMA BatchCount ==
  ASSUME Layout
  PROVE  /\ CeilDiv(launch.num_grove, WARP_SIZE) \in 1 .. launch.num_grove
         /\ launch.num_grove <= CeilDiv(launch.num_grove, WARP_SIZE) * WARP_SIZE
         /\ \A k \in Nat : k < CeilDiv(launch.num_grove, WARP_SIZE) <=> k * WARP_SIZE < launch.num_grove
<1> DEFINE m == launch.num_grove
           n == CeilDiv(m, WARP_SIZE)
           W == WARP_SIZE
<1>1. m \in Nat \ {0} /\ W \in Nat \ {0}
  BY DEF Layout
<1>2. n \in Nat /\ n > 0 /\ m <= n * W /\ \A k \in Nat : k < n => k * W < m
  <2> HIDE DEF m, W
  <2>1. m \in Nat /\ m > 0 /\ W \in Nat \ {0} /\ n = CeilDiv(m, W)
    BY <1>1 DEF W
  <2> HIDE DEF n
  <2> QED
    BY <2>1, CeilDivBounds
<1> HIDE DEF m, n, W
<1>3. n <= m
  <2>1. SUFFICES ASSUME m < n PROVE FALSE
    BY <1>1, <1>2
  <2>2. m * W < m
    BY <1>1, <1>2, <2>1
  <2>3. 1 * m <= W * m /\ W * m = m * W /\ m * W \in Nat
    BY <1>1, MulMono, MulNat
  <2> QED
    BY <1>1, <2>2, <2>3
<1>4. ASSUME NEW k \in Nat, k * W < m PROVE k < n
  <2>1. SUFFICES ASSUME n <= k PROVE FALSE
    BY <1>2
  <2>2. n * W <= k * W /\ n * W \in Nat /\ k * W \in Nat
    BY <1>1, <1>2, <2>1, MulMono, MulNat
  <2> QED
    BY <1>1, <1>2, <1>4, <2>2
<1>5. n \in 1 .. m
  BY <1>1, <1>2, <1>3
<1> QED
  BY <1>2, <1>4, <1>5 DEF m, n, W

(* Every sum of groves, postprocessed, is the result that is promised. *)
LEMMA SumIsResult ==
  ASSUME Layout, NEW r \in Nat, NEW o \in Outputs(request)
  PROVE  Promise!IsResult(Transform(SumOfGroves(r, o)), request, r, o)
<1> DEFINE n == CeilDiv(launch.num_grove, WARP_SIZE)
           v == BatchSum(r, o, n)
<1>1. /\ launch.num_grove \in Nat /\ WARP_SIZE \in Nat /\ request \in Call
      /\ launch.chunk_size \in Nat \ {0}
  BY DEF Layout
<1>2. n \in 0 .. launch.num_grove /\ launch.num_grove <= n * WARP_SIZE /\ n \in Nat
  <2>1. n \in 1 .. launch.num_grove /\ launch.num_grove <= n * WARP_SIZE
    BY BatchCount
  <2> HIDE DEF n
  <2> QED
    BY <1>1, <2>1
<1> HIDE DEF n
<1>3. Collects(v, TermsOfGroves(r, o, n * WARP_SIZE))
  BY <1>2, BatchCollects
<1>4. TermsOfGroves(r, o, n * WARP_SIZE) = Promise!Contributions(request, r, o)
  <2> DEFINE row == r % launch.chunk_size
  <2>1. row \in Nat /\ row < launch.chunk_size
    <3>1. r % launch.chunk_size \in 0 .. (launch.chunk_size - 1)
      BY <1>1, DivMod
    <3> QED
      BY <1>1, <3>1
  <2>2. n * WARP_SIZE \in Nat
    BY <1>1, <1>2, MulNat
  <2>3. \A t \in Trees(request) : GroveOf(t, row) < n * WARP_SIZE
    <3> SUFFICES ASSUME NEW t \in Trees(request) PROVE GroveOf(t, row) < n * WARP_SIZE
      OBVIOUS
    <3> HIDE DEF row
    <3>1. GroveOf(t, row) \in Nat /\ GroveOf(t, row) < launch.num_grove
      BY <1>1, <2>1, GroveInside DEF Groves
    <3> QED
      BY <1>1, <1>2, <2>2, <3>1
  <2>4. TermsOfGroves(r, o, n * WARP_SIZE)
          = {TermOf(r, t, o) : t \in {t \in Trees(request) : OutputOf(request, t, CompOf(o)) = o}}
    BY <2>3 DEF TermsOfGroves
  <2> QED
    BY <1>1, <2>4, ContributionsOf
<1> HIDE DEF v
<1>5. v \in Value /\ v.post = 0 /\ Promise!IsSumOf(v, Promise!Contributions(request, r, o))
  BY <1>3, <1>4 DEF Collects
<1>6. Transform(v).sum = v.sum /\ Transform(v).post = 1
  BY <1>5 DEF Transform, Value
<1>7. Promise!IsSumOf(Transform(v), Promise!Contributions(request, r, o))
  BY <1>5, <1>6 DEF Promise!IsSumOf
<1>8. SumOfGroves(r, o) = v
  BY DEF SumOfGroves, v, n
<1> QED
  BY <1>6, <1>7, <1>8 DEF Promise!IsResult

-----------------------------------------------------------------------------
(* A step of the kernel leaves the call as it is *)

LEMMA SameSums ==
  ASSUME UNCHANGED launchVars
  PROVE  /\ \A r, o, g, n : TreeSum(r, o, g, n)' = TreeSum(r, o, g, n)
         /\ \A r, o, n : BatchSum(r, o, n)' = BatchSum(r, o, n)
         /\ \A r, o : SumOfGroves(r, o)' = SumOfGroves(r, o)
<1> USE DEF launchVars, TreeSum, Feeds, GroveOf, ServerOf, TermOf, CompOf, OutputOf, Zero, AddTerm
<1>1. \A r, o, g, n : TreeSum(r, o, g, n)' = TreeSum(r, o, g, n)
  OBVIOUS
<1>2. \A r, o, n : BatchSum(r, o, n)' = BatchSum(r, o, n)
  BY DEF BatchSum
<1>3. CeilDiv(launch.num_grove, WARP_SIZE)' = CeilDiv(launch.num_grove, WARP_SIZE)
  OBVIOUS
<1>4. \A r, o : SumOfGroves(r, o)' = BatchSum(r, o, CeilDiv(launch.num_grove, WARP_SIZE))'
  BY <1>3 DEF SumOfGroves
<1> HIDE DEF TreeSum, CeilDiv
<1>5. \A r, o : SumOfGroves(r, o)' = SumOfGroves(r, o)
  BY <1>2, <1>3, <1>4 DEF SumOfGroves
<1> QED
  BY <1>1, <1>2, <1>5

LEMMA SameCall ==
  ASSUME UNCHANGED launchVars
  PROVE  /\ request' = request /\ launch' = launch /\ phase' = phase
         /\ Layout' <=> Layout
         /\ SharedLaunch' <=> SharedLaunch
         /\ LaunchInv' <=> LaunchInv
         /\ Outputs(request)' = Outputs(request) /\ Rows(request)' = Rows(request)
         /\ NumOutputs(request)' = NumOutputs(request)
         /\ Groves' = Groves /\ Warps' = Warps /\ Threads' = Threads
         /\ Running' <=> Running
         /\ FillFits' <=> FillFits
         /\ \A i : CopyFits(i)' <=> CopyFits(i)
         /\ \A i : RowsAt(i)' = RowsAt(i) /\ ChunkRows(i)' = ChunkRows(i)
         /\ \A row, o, g : Slot(row, o, g)' = Slot(row, o, g)
         /\ \A row, o, g : Server(row, o, g)' = Server(row, o, g)
         /\ \A label, p, o : Frontier(label, p, o)' = Frontier(label, p, o)
         /\ \A r : Answerer(r)' = Answerer(r)
         /\ \A r, label, p : Answered(r, label, p)' <=> Answered(r, label, p)
<1>1. request' = request /\ launch' = launch /\ phase' = phase /\ device' = device /\ specified' = specified
  BY DEF launchVars
<1>2. /\ Layout' <=> Layout
      /\ LaunchInv' <=> LaunchInv
      /\ Outputs(request)' = Outputs(request) /\ Rows(request)' = Rows(request)
      /\ NumOutputs(request)' = NumOutputs(request)
      /\ Groves' = Groves /\ Warps' = Warps /\ Threads' = Threads
      /\ Running' <=> Running
  BY <1>1 DEF Layout, LaunchInv, Groves, Warps, Threads, Blocks, Lanes, Running
<1>3. SharedLaunch' <=> SharedLaunch
  BY <1>1 DEF SharedLaunch, Supported, LastStepFits, InputFits
<1>4. /\ FillFits' <=> FillFits
      /\ \A i : CopyFits(i)' <=> CopyFits(i)
      /\ \A i : RowsAt(i)' = RowsAt(i) /\ ChunkRows(i)' = ChunkRows(i)
      /\ \A row, o, g : Slot(row, o, g)' = Slot(row, o, g)
  BY <1>1 DEF FillFits, CopyFits, RowsAt, ChunkRows, Slot
<1>5. /\ \A row, o, g : Server(row, o, g)' = Server(row, o, g)
      /\ \A label, p, o : Frontier(label, p, o)' = Frontier(label, p, o)
      /\ \A r : Answerer(r)' = Answerer(r)
      /\ \A r, label, p : Answered(r, label, p)' <=> Answered(r, label, p)
  BY <1>1 DEF Server, ServerOf, Frontier, TaskTree, CompOf, Answerer, Answered, Warps
<1> QED
  BY <1>1, <1>2, <1>3, <1>4, <1>5

LEMMA SameThreadSums ==
  ASSUME UNCHANGED launchVars
  PROVE  \A th, label, p, r, w, s : ThreadSums(th, label, p, r, w, s)' <=> ThreadSums(th, label, p, r, w, s)
<1> SUFFICES ASSUME NEW th, NEW label, NEW p, NEW r, NEW w, NEW s
             PROVE  ThreadSums(th, label, p, r, w, s)' <=> ThreadSums(th, label, p, r, w, s)
  OBVIOUS
<1>1. request' = request /\ launch' = launch
  BY DEF launchVars
<1>2. Aligned(th, label, p)' <=> Aligned(th, label, p)
  BY <1>1 DEF Aligned
<1>3. Cleared(th, label, w)' <=> Cleared(th, label, w)
  BY <1>1 DEF Cleared
<1>4. Copied(th, label, p, s)' <=> Copied(th, label, p, s)
  BY <1>1, SameCall DEF Copied
<1>5. Added(th, label, p, w)' <=> Added(th, label, p, w)
  BY <1>1, SameCall, SameSums DEF Added
<1>6. Reduced(th, label, p, w)' <=> Reduced(th, label, p, w)
  BY <1>1, SameCall, SameSums DEF Reduced
<1>7. Loaded(th, label, p, r)' <=> Loaded(th, label, p, r)
  BY <1>1, SameCall, SameSums DEF Loaded, TaskRow, TaskTree, OutputOf
<1> QED
  BY <1>2, <1>3, <1>4, <1>5, <1>6, <1>7 DEF ThreadSums

-----------------------------------------------------------------------------
(* The thread that serves an element of the workspace *)

(* It is the one that evaluates the trees that feed the element. *)
LEMMA ServerOfFeeder ==
  ASSUME Layout, NEW t \in Trees(request), NEW row \in Nat, row < launch.chunk_size,
         NEW o \in Outputs(request), NEW g, Feeds(t, row, o, g)
  PROVE  Server(row, o, g) = ServerOf(t, row)
<1> DEFINE x == ServerOf(t, row)
           n == launch.chunk_size
<1>1. n \in Nat \ {0} /\ request \in Call /\ request.has_vector_leaves \in BOOLEAN
      /\ request.infer_type \in {"default", "per_tree", "leaf_id"}
  BY CallFields DEF Layout, InferKind
<1>2. CASE request.infer_type = "default"
  <2>1. x \in Nat /\ x % n = row
    BY GroveInside
  <2>2. g = x \div n
    BY <1>2 DEF Feeds, GroveOf
  <2>3. x = (x \div n) * n + (x % n)
    <3> HIDE DEF x, n
    <3> QED
      BY <1>1, <2>1, DivMod
  <2> QED
    BY <1>2, <2>1, <2>2, <2>3 DEF Server
<1>3. CASE request.infer_type = "per_tree" /\ request.has_vector_leaves
  <2>1. t = o \div request.default_num_outputs
    BY <1>1, <1>3, OutputTree DEF Feeds
  <2> QED
    BY <1>3, <2>1 DEF Server
<1>4. CASE request.infer_type = "leaf_id" \/ (request.infer_type = "per_tree" /\ ~request.has_vector_leaves)
  <2>1. t = o
    BY <1>4 DEF Feeds, OutputOf
  <2> QED
    BY <1>4, <2>1 DEF Server
<1> QED
  BY <1>1, <1>2, <1>3, <1>4

(* Every element has a server, which serves one row only. *)
LEMMA ServerInside ==
  ASSUME Layout, NEW row \in Nat, row < launch.chunk_size,
         NEW o \in Outputs(request), NEW g \in Groves
  PROVE  /\ Server(row, o, g) \in Lanes /\ Server(row, o, g) \in Nat
         /\ Server(row, o, g) % launch.chunk_size = row
<1> DEFINE n == launch.chunk_size
           T == launch.threads_per_block
           x == g * n + row
<1>1. /\ n \in Nat \ {0} /\ T \in Nat \ {0} /\ request \in Call
      /\ request.has_vector_leaves \in BOOLEAN
      /\ request.infer_type \in {"default", "per_tree", "leaf_id"}
      /\ launch.num_grove \in Nat \ {0} /\ launch.num_grove = KernelGroves(request, T, n)
      /\ \E q \in Nat : T = q * n
  BY CallFields DEF Layout, InferKind
<1>2. CASE request.infer_type = "default"
  <2>1. g \in Nat /\ g < launch.num_grove
    BY <1>1 DEF Groves
  <2>2. x \in Nat /\ x % n = row
    <3>1. row \in 0 .. (n - 1) /\ n \in Nat \ {0}
      BY <1>1
    <3>2. g * n \in Nat
      BY <1>1, <2>1, MulNat
    <3> HIDE DEF n
    <3>3. (g * n + row) % n = row
      BY <2>1, <3>1, DivUnique
    <3> QED
      BY <3>2, <3>3
  <2>3. n * launch.num_grove <= T
    <3>1. PICK q \in Nat : T = q * n
      BY <1>1
    <3> HIDE DEF T, n
    <3>2. n * KernelGroves(request, T, n) <= T
      BY <1>1, <1>2, <3>1, GrovesFit
    <3> QED
      BY <1>1, <3>2
  <2>4. x < launch.num_grove * n
    <3>1. row < n
      OBVIOUS
    <3> HIDE DEF n
    <3> QED
      BY <1>1, <2>1, <3>1, BlockOrder
  <2>5. x < T
    <3>1. launch.num_grove * n \in Nat /\ launch.num_grove * n = n * launch.num_grove
      <4> HIDE DEF n
      <4> QED
        BY <1>1, MulNat
    <3> HIDE DEF x, n, T
    <3> QED
      BY <1>1, <2>2, <2>3, <2>4, <3>1
  <2>6. Server(row, o, g) = x
    BY <1>2 DEF Server
  <2> QED
    BY <1>1, <2>2, <2>5, <2>6 DEF Lanes, T, n
<1>3. CASE request.infer_type # "default"
  <2> DEFINE t == IF request.infer_type = "per_tree" /\ request.has_vector_leaves
                  THEN o \div request.default_num_outputs ELSE o
  <2>1. t \in Trees(request)
    <3>1. CASE request.infer_type = "per_tree" /\ request.has_vector_leaves
      <4>1. \E u : u \in Trees(request)
        <5>1. request.num_tree \in Nat \ {0}
          BY <1>1, CallFields
        <5> QED
          BY <5>1 DEF Trees
      <4> QED
        BY <1>1, <3>1, <4>1, OutputTree
    <3>2. CASE ~(request.infer_type = "per_tree" /\ request.has_vector_leaves)
      BY <1>1, <1>3, <3>2 DEF Trees, Outputs, NumOutputs
    <3> QED
      BY <3>1, <3>2
  <2>2. Server(row, o, g) = ServerOf(t, row)
    BY <1>3 DEF Server
  <2> HIDE DEF t
  <2> QED
    BY <2>1, <2>2, GroveInside
<1> QED
  BY <1>2, <1>3

(* A task of a thread, and what it adds to. *)
LEMMA TaskServer ==
  ASSUME Layout, NEW t \in Trees(request), NEW row \in Nat, row < launch.chunk_size,
         NEW comp \in 0 .. (NumComp(request) - 1), NEW o, o = OutputOf(request, t, comp)
  PROVE  /\ o \in Outputs(request) /\ CompOf(o) = comp
         /\ \A g : Feeds(t, row, o, g) <=> g = GroveOf(t, row)
         /\ \A g \in Groves : Server(row, o, g) = ServerOf(t, row) => g = GroveOf(t, row)
<1>1. request \in Call
  BY DEF Layout
<1>2. o \in Outputs(request) /\ CompOf(o) = comp
  BY <1>1, OutputOfRange, CompOfOutput
<1>3. \A g : Feeds(t, row, o, g) <=> g = GroveOf(t, row)
  BY <1>2 DEF Feeds
<1>4. ASSUME NEW g \in Groves, Server(row, o, g) = ServerOf(t, row) PROVE g = GroveOf(t, row)
  <2> DEFINE n == launch.chunk_size
  <2>1. CASE request.infer_type = "default"
    <3>1. g * n + row = ServerOf(t, row)
      BY <1>4, <2>1 DEF Server
    <3>2. (g * n + row) \div n = g
      <4>1. n \in Nat \ {0} /\ row \in 0 .. (n - 1) /\ g \in Nat
        BY DEF Layout, Groves
      <4> HIDE DEF n
      <4> QED
        BY <4>1, DivUnique
    <3> QED
      BY <2>1, <3>1, <3>2 DEF GroveOf
  <2>2. CASE request.infer_type # "default"
    <3>1. launch.num_grove = 1
      BY <2>2 DEF Layout, KernelGroves
    <3> QED
      BY <2>2, <3>1 DEF GroveOf, Groves
  <2> QED
    BY <2>1, <2>2
<1> QED
  BY <1>2, <1>3, <1>4

-----------------------------------------------------------------------------
(* The launches in which every step is exact *)

LEMMA SharedFacts ==
  ASSUME LaunchInv, SharedLaunch, Running
  PROVE  /\ Representable(request) /\ Layout /\ FillFits /\ WorkspaceHolds
         /\ request \in Call /\ request.row_count \in Nat /\ request.col_count \in Nat \ {0}
         /\ NumOutputs(request) \in Nat \ {0} /\ NumComp(request) \in Nat \ {0}
         /\ launch.chunk_size \in Nat \ {0} /\ launch.threads_per_block \in Nat \ {0}
         /\ launch.num_grove \in Nat \ {0} /\ WARP_SIZE \in Nat \ {0}
         /\ launch.num_blocks \in Nat \ {0} /\ launch.output_workspace_size \in Nat
         /\ request.num_tree \in Nat \ {0}
<1>1. Representable(request) /\ FillFits /\ WorkspaceHolds
  BY SupportedSizes DEF SharedLaunch
<1>2. Layout
  BY <1>1, LayoutHolds
<1> QED
  BY <1>1, <1>2, Launched, CallFields

(* The rows of an aligned chunk. *)
LEMMA AlignedRows ==
  ASSUME Layout, NEW i \in Nat, i % launch.chunk_size = 0, NEW row \in ChunkRows(i)
  PROVE  /\ row \in Nat /\ row < launch.chunk_size /\ row < RowsAt(i)
         /\ i + row < request.row_count
         /\ i + row \in Rows(request)
         /\ (i + row) % launch.chunk_size = row
         /\ (i + row) \div launch.chunk_size = i \div launch.chunk_size
         /\ row < request.row_count
<1> DEFINE n == launch.chunk_size
           q == i \div n
<1>1. n \in Nat \ {0} /\ request.row_count \in Nat
  BY CallFields DEF Layout
<1>2. RowsAt(i) \in Int /\ RowsAt(i) <= n /\ RowsAt(i) <= request.row_count - i
  BY <1>1 DEF RowsAt, Least
<1>3. row \in Nat /\ row < n /\ row < RowsAt(i) /\ i + row < request.row_count
  BY <1>1, <1>2 DEF ChunkRows
<1> HIDE DEF n, q
<1>4. q \in Nat /\ i = q * n + (i % n)
  BY <1>1, DivMod DEF q
<1>5. i = q * n
  <2>1. q * n \in Nat
    BY <1>1, <1>4, MulNat
  <2>2. i % n = 0
    BY DEF n
  <2> QED
    BY <1>4, <2>1, <2>2
<1>6. row \in 0 .. (n - 1)
  BY <1>1, <1>3
<1>7. (q * n + row) \div n = q /\ (q * n + row) % n = row
  BY <1>1, <1>4, <1>6, DivUnique
<1> QED
  BY <1>1, <1>3, <1>5, <1>7 DEF n, q, Rows

(* The index of the first element of a row. *)
LEMMA RowIndex ==
  ASSUME LaunchInv, SharedLaunch, Running, NEW i \in Nat, NEW row \in Nat, i + row < request.row_count
  PROVE  /\ U(i * request.col_count) = i * request.col_count
         /\ i * request.col_count + row * request.col_count = (i + row) * request.col_count
         /\ i * request.col_count \in Nat /\ row * request.col_count \in Nat
<1> DEFINE c == request.col_count
           n == request.row_count
<1>1. c \in Nat /\ n \in Nat /\ n * c < IndexMod
  BY SharedFacts DEF SharedLaunch, InputFits
<1> HIDE DEF c, n
<1>2. IndexMod \in Nat
  BY LaunchAssumption
<1>3. i <= n
  BY <1>1 DEF n
<1>4. i * c <= n * c /\ i * c \in Nat /\ n * c \in Nat /\ row * c \in Nat
  BY <1>1, <1>3, MulMono, MulNat
<1>5. U(i * c) = i * c
  BY <1>1, <1>2, <1>4, NoWrap
<1>6. i * c + row * c = (i + row) * c
  BY <1>1
<1> QED
  BY <1>4, <1>5, <1>6 DEF c

-----------------------------------------------------------------------------
(* The first loop *)

(* The tasks that a thread skips do not add to what it serves. *)
LEMMA TaskSums ==
  ASSUME Layout, NEW th \in Threads, NEW i \in Nat, i = at[th].i, i % launch.chunk_size = 0,
         NEW t \in Nat, NEW place, place = TaskFrom(th, t),
         NEW row \in ChunkRows(i), NEW o \in Outputs(request), NEW g \in Groves,
         Server(row, o, g) = IdxOf(th),
         NEW n \in 0 .. request.num_tree,
         \A u \in Trees(request) : u >= n <=> u * launch.chunk_size + row >= t
  PROVE  /\ Frontier(place.label, place.at, o) \in 0 .. request.num_tree
         /\ TreeSum(i + row, o, g, n) = TreeSum(i + row, o, g, Frontier(place.label, place.at, o))
<1> DEFINE k == launch.chunk_size
           T == launch.threads_per_block
           m == request.num_tree
           left == {u \in RealTasks(th, i) : u >= t}
           next == CHOOSE u \in left : \A v \in left : u <= v
           f == Frontier(place.label, place.at, o)
<1>1. /\ k \in Nat \ {0} /\ T \in Nat \ {0} /\ request \in Call /\ m \in Nat \ {0}
      /\ k * m \in Nat /\ m * k = k * m
  BY CallFields, MulNat DEF Layout
<1>2. row \in Nat /\ row < k /\ row < RowsAt(i) /\ (i + row) % k = row
  BY AlignedRows
<1>3. IdxOf(th) % k = row
  BY <1>2, ServerInside
<1>4. ASSUME NEW u \in Trees(request), u >= n, Feeds(u, (i + row) % k, o, g)
      PROVE  u * k + row \in left
  <2>1. ServerOf(u, row) = IdxOf(th)
    BY <1>2, <1>4, ServerOfFeeder
  <2>2. (u * k + row) % T = IdxOf(th)
    BY <2>1 DEF ServerOf
  <2>3. u \in Nat /\ u < m
    BY <1>1 DEF Trees
  <2>4. u * k + row \in 0 .. (k * m - 1) /\ (u * k + row) % k = row
    <3>1. row \in 0 .. (k - 1)
      BY <1>1, <1>2
    <3> HIDE DEF k, m
    <3>2. u * k + row < m * k /\ u * k \in Nat
      BY <1>1, <1>2, <2>3, BlockOrder, MulNat
    <3>3. (u * k + row) % k = row
      BY <1>1, <2>3, <3>1, DivUnique
    <3>4. u * k + row < k * m
      BY <1>1, <3>2
    <3> QED
      BY <1>1, <1>2, <3>2, <3>3, <3>4
  <2>5. u * k + row >= t
    BY <1>4
  <2> QED
    BY <1>2, <2>2, <2>4, <2>5 DEF RealTasks
<1>5. CASE left = {}
  <2>1. place = Place("inferred", At(i, 0, 0, 0, 0))
    BY <1>5 DEF TaskFrom
  <2>2. f = m
    BY <2>1 DEF Frontier, Place, At
  <2>3. \A u \in n .. (m - 1) : ~Feeds(u, (i + row) % k, o, g)
    <3> SUFFICES ASSUME NEW u \in n .. (m - 1), Feeds(u, (i + row) % k, o, g) PROVE FALSE
      OBVIOUS
    <3>1. u \in Trees(request) /\ u >= n
      BY <1>1 DEF Trees
    <3> QED
      BY <1>4, <1>5, <3>1
  <2>4. m \in 0 .. m /\ n <= m
    BY <1>1
  <2>5. TreeSum(i + row, o, g, n) = TreeSum(i + row, o, g, m)
    BY <1>1, <2>3, <2>4, TreeSumGap
  <2> QED
    BY <2>2, <2>4, <2>5
<1>6. CASE left # {}
  <2>1. place = Place("evaluate", At(i, next, 0, 0, 0))
    BY <1>6 DEF TaskFrom
  <2>2. next \in left /\ \A v \in left : next <= v
    <3>1. left \subseteq Nat
      <4>1. RealTasks(th, i) \subseteq Nat
        BY <1>1 DEF RealTasks
      <4> QED
        BY <4>1
    <3> HIDE DEF left
    <3> QED
      BY <1>6, <3>1, LeastNat
  <2> HIDE DEF next
  <2>3. /\ next \in 0 .. (k * m - 1) /\ next \in Nat /\ next % T = IdxOf(th) /\ next >= t
        /\ next < m * k
    BY <1>1, <2>2 DEF RealTasks
  <2> DEFINE q == next \div k
  <2>4. q \in Nat /\ next = q * k + row /\ q < m
    <3>1. next % k = row
      BY <1>3, <2>3, ServerRow
    <3> HIDE DEF k, m, T
    <3>2. q \in Nat /\ next = (next \div k) * k + (next % k)
      BY <1>1, <2>3, DivMod
    <3>3. q < m
      BY <1>1, <2>3, QuotientBelow
    <3> QED
      BY <3>1, <3>2, <3>3
  <2>5. f = q
    <3>1. f = q + (IF CompOf(o) < 0 THEN 1 ELSE 0)
      BY <2>1 DEF Frontier, Place, At, TaskTree
    <3>2. CompOf(o) \in Nat
      BY <1>1, CompOfRange
    <3> QED
      BY <2>4, <3>1, <3>2
  <2> HIDE DEF q
  <2>6. q \in Trees(request) /\ q \in 0 .. m
    BY <1>1, <2>4 DEF Trees
  <2>7. n <= q
    BY <2>3, <2>4, <2>6
  <2>8. \A u \in n .. (q - 1) : ~Feeds(u, (i + row) % k, o, g)
    <3> SUFFICES ASSUME NEW u \in n .. (q - 1), Feeds(u, (i + row) % k, o, g) PROVE FALSE
      OBVIOUS
    <3>1. u \in Trees(request) /\ u >= n /\ u \in Nat /\ u < q
      BY <1>1, <2>4 DEF Trees
    <3>2. q * k + row <= u * k + row
      BY <1>4, <2>2, <2>4, <3>1
    <3>3. u * k + 0 < q * k /\ u * k \in Nat /\ q * k \in Nat
      <4>0. 0 < k
        BY <1>1
      <4> HIDE DEF k
      <4> QED
        BY <1>1, <2>4, <3>1, <4>0, BlockOrder, MulNat
    <3> QED
      BY <1>2, <3>2, <3>3
  <2>9. TreeSum(i + row, o, g, n) = TreeSum(i + row, o, g, q)
    BY <1>1, <2>6, <2>7, <2>8, TreeSumGap
  <2> QED
    BY <2>5, <2>6, <2>9
<1> QED
  BY <1>5, <1>6

(* What a thread is about to add, and where. *)
LEMMA TargetServer ==
  ASSUME GridInv, SharedLaunch, Running, NEW th \in Threads,
         pc[th] \in {"evaluate", "accumulate"},
         NEW row, row = TaskRow(at[th]), NEW tree, tree = TaskTree(at[th]),
         NEW out, out = OutputOf(request, tree, at[th].comp)
  PROVE  /\ row \in Nat /\ row < request.row_count /\ row < launch.chunk_size
         /\ row \in ChunkRows(at[th].i)
         /\ tree \in Trees(request) /\ at[th].comp \in 0 .. (NumComp(request) - 1)
         /\ out \in Outputs(request) /\ CompOf(out) = at[th].comp
         /\ GroveOf(tree, row) \in Groves
         /\ TargetSlot(th) = Slot(row, out, GroveOf(tree, row))
         /\ at[th].task = tree * launch.chunk_size + row
         /\ ServerOf(tree, row) = IdxOf(th)
         /\ Server(row, out, GroveOf(tree, row)) = IdxOf(th)
         /\ row = IdxOf(th) % launch.chunk_size
<1> DEFINE comp == at[th].comp
           grove == IF request.infer_type = "default" THEN IdxOf(th) \div launch.chunk_size ELSE 0
<1>1. Representable(request) /\ Layout
  BY SharedFacts DEF GridInv
<1>2. /\ row \in Nat /\ row < request.row_count /\ row < launch.chunk_size
      /\ tree \in Trees(request) /\ comp \in 0 .. (NumComp(request) - 1)
      /\ out \in Outputs(request)
      /\ TargetSlot(th) = Slot(row, out, grove)
      /\ at[th].task = tree * launch.chunk_size + row
      /\ at[th].task % launch.threads_per_block = IdxOf(th)
      /\ row = IdxOf(th) % launch.chunk_size
  BY <1>1, TargetOf
<1>3. ServerOf(tree, row) = IdxOf(th)
  BY <1>2 DEF ServerOf
<1>4. grove = GroveOf(tree, row)
  BY <1>3 DEF GroveOf
<1>5. CompOf(out) = comp /\ Feeds(tree, row, out, grove)
  BY <1>1, <1>2, <1>4, TaskServer
<1>6. Server(row, out, grove) = IdxOf(th)
  BY <1>1, <1>2, <1>3, <1>5, ServerOfFeeder
<1>7. GroveOf(tree, row) \in Groves
  BY <1>1, <1>2, GroveInside
<1>8. row \in ChunkRows(at[th].i)
  <2>1. row < RowsAt(at[th].i)
    BY DEF GridInv, InRange, RealTasks, TaskRow
  <2>2. at[th].i \in Nat /\ request.row_count \in Nat /\ launch.chunk_size \in Nat
    BY PositionFields, SharedFacts DEF GridInv
  <2>3. RowsAt(at[th].i) \in Int
    BY <2>2 DEF RowsAt, Least
  <2> QED
    BY <1>2, <2>1, <2>3 DEF ChunkRows
<1> QED
  BY <1>2, <1>3, <1>4, <1>5, <1>6, <1>7, <1>8

(* Different elements are in different places, which the workspace has. *)
LEMMA SlotsApart ==
  ASSUME LaunchInv, SharedLaunch, Running
  PROVE  /\ \A row1, row2 \in Rows(request), o1, o2 \in Outputs(request), g1, g2 \in Groves :
              Slot(row1, o1, g1) = Slot(row2, o2, g2) => row1 = row2 /\ o1 = o2 /\ g1 = g2
         /\ \A row \in Rows(request), o \in Outputs(request), g \in Groves :
              row < launch.chunk_size => Slot(row, o, g) \in 0 .. (launch.output_workspace_size - 1)
<1>1. Representable(request) /\ WorkspaceHolds /\ request.row_count \in Nat
      /\ launch.output_workspace_size \in Nat
  BY SharedFacts
<1>2. ASSUME NEW row1 \in Rows(request), NEW row2 \in Rows(request),
             NEW o1 \in Outputs(request), NEW o2 \in Outputs(request), NEW g1 \in Groves, NEW g2 \in Groves,
             Slot(row1, o1, g1) = Slot(row2, o2, g2)
      PROVE  row1 = row2 /\ o1 = o2 /\ g1 = g2
  <2>1. /\ row1 \in Nat /\ row1 < request.row_count /\ row2 \in Nat /\ row2 < request.row_count
        /\ g1 \in 0 .. (launch.num_grove - 1) /\ g2 \in 0 .. (launch.num_grove - 1)
    BY <1>1 DEF Rows, Groves
  <2> QED
    BY <1>1, <1>2, <2>1, SlotUnique
<1>3. ASSUME NEW row \in Rows(request), NEW o \in Outputs(request), NEW g \in Groves,
             row < launch.chunk_size
      PROVE  Slot(row, o, g) \in 0 .. (launch.output_workspace_size - 1)
  <2>1. row \in Nat /\ row < request.row_count /\ g \in 0 .. (launch.num_grove - 1)
    BY <1>1 DEF Rows, Groves
  <2>2. Slot(row, o, g) \in 0 .. (KernelWorkspace - 1)
    BY <1>1, <1>3, <2>1, SlotExact
  <2>3. KernelWorkspace \in Int
    <3>1. launch.chunk_size \in Nat /\ NumOutputs(request) \in Nat /\ launch.num_grove \in Nat
      BY SharedFacts
    <3> QED
      BY <3>1, MulNat DEF KernelWorkspace
  <2> QED
    BY <1>1, <2>2, <2>3 DEF WorkspaceHolds
<1> QED
  BY <1>2, <1>3

-----------------------------------------------------------------------------
(* The elements of the workspace that the invariant of a thread is about *)

Watches(th, label, p, k) ==
  \/ label = "sync" /\ k % launch.threads_per_block = IdxOf(th)
  \/ /\ Working(label)
     /\ \E row \in ChunkRows(p.i), o \in Outputs(request), g \in Groves :
          Server(row, o, g) = IdxOf(th) /\ k = Slot(row, o, g)
  \/ /\ IsFirstLane(th) /\ label \in {"reduce", "store", "postprocess"}
     /\ \E row \in ChunkRows(p.i), o \in Outputs(request), g \in Groves :
          row % Warps = WarpOf(th) /\ k = Slot(row, o, g)

(* It still holds when others are written. *)
LEMMA WatchedKept ==
  ASSUME GridInv, SharedLaunch, Running, NEW th \in Threads, NEW label, NEW p, label = pc[th], p = at[th],
         NEW r, NEW w, NEW s, ThreadSums(th, label, p, r, w, s),
         DOMAIN w = 0 .. (launch.output_workspace_size - 1),
         NEW f, DOMAIN f = DOMAIN w, \A k \in DOMAIN w : Watches(th, label, p, k) => f[k] = w[k],
         NEW t, Copied(th, label, p, t)
  PROVE  ThreadSums(th, label, p, r, f, t)
<1>0. \A row \in ChunkRows(p.i), o \in Outputs(request), g \in Groves : Slot(row, o, g) \in DOMAIN w
  <2>1. Layout
    BY SharedFacts DEF GridInv
  <2>2. p.i \in Nat /\ p.i % launch.chunk_size = 0
    BY PositionFields DEF ThreadSums, Aligned
  <2>3. \A row \in ChunkRows(p.i) : row \in Rows(request) /\ row < launch.chunk_size
    <3> SUFFICES ASSUME NEW row \in ChunkRows(p.i) PROVE row \in Rows(request) /\ row < launch.chunk_size
      OBVIOUS
    <3>1. row \in Nat /\ row < launch.chunk_size /\ row < request.row_count
      BY <2>1, <2>2, AlignedRows
    <3>2. request.row_count \in Nat
      BY SharedFacts DEF GridInv
    <3> QED
      BY <3>1, <3>2 DEF Rows
  <2>4. \A row \in Rows(request), o \in Outputs(request), g \in Groves :
          row < launch.chunk_size => Slot(row, o, g) \in 0 .. (launch.output_workspace_size - 1)
    BY SlotsApart DEF GridInv
  <2> QED
    BY <2>3, <2>4
<1>1. Cleared(th, label, f)
  BY DEF ThreadSums, Cleared, Watches
<1>2. Added(th, label, p, f)
  <2> SUFFICES ASSUME Working(label), NEW row \in ChunkRows(p.i), NEW o \in Outputs(request), NEW g \in Groves,
                      Server(row, o, g) = IdxOf(th)
               PROVE  f[Slot(row, o, g)] = TreeSum(p.i + row, o, g, Frontier(label, p, o))
    BY DEF Added
  <2>1. Watches(th, label, p, Slot(row, o, g))
    BY DEF Watches
  <2> QED
    BY <1>0, <2>1 DEF ThreadSums, Added
<1>3. Reduced(th, label, p, f)
  <2> SUFFICES ASSUME IsFirstLane(th), label \in {"reduce", "store", "postprocess"},
                      NEW row \in ChunkRows(p.i), NEW o \in Outputs(request)
               PROVE  /\ row % Warps = WarpOf(th)
                             /\ \/ row > p.row
                                \/ row = p.row /\ o > p.comp
                                \/ row = p.row /\ o = p.comp /\ label = "reduce"
                           => \A g \in Groves : f[Slot(row, o, g)] = TreeSum(p.i + row, o, g, request.num_tree)
                      /\ row = p.row /\ (o < p.comp \/ label = "postprocess")
                           => f[Slot(row, o, 0)] = SumOfGroves(p.i + row, o)
    BY DEF Reduced
  <2>1. row % Warps = WarpOf(th) => \A g \in Groves : f[Slot(row, o, g)] = w[Slot(row, o, g)]
    BY <1>0 DEF Watches
  <2>2. p.row % Warps = WarpOf(th)
    BY DEF GridInv, InRange
  <2>3. 0 \in Groves
    <3>1. launch.num_grove \in Nat \ {0}
      BY SharedFacts DEF GridInv
    <3> QED
      BY <3>1 DEF Groves
  <2>4. /\ row % Warps = WarpOf(th)
                /\ \/ row > p.row
                   \/ row = p.row /\ o > p.comp
                   \/ row = p.row /\ o = p.comp /\ label = "reduce"
              => \A g \in Groves : w[Slot(row, o, g)] = TreeSum(p.i + row, o, g, request.num_tree)
        /\ row = p.row /\ (o < p.comp \/ label = "postprocess")
              => w[Slot(row, o, 0)] = SumOfGroves(p.i + row, o)
    BY DEF ThreadSums, Reduced
  <2> QED
    BY <2>1, <2>2, <2>3, <2>4
<1> QED
  BY <1>1, <1>2, <1>3 DEF ThreadSums

(* Others do not write what a thread watches. *)
LEMMA WatchedApart ==
  ASSUME GridInv, SharedLaunch, Running,
         NEW b \in Blocks, NEW th1 \in Team(b), NEW th2 \in Team(b), th1 # th2,
         pc[th1] \in {"stage", "accumulate", "store", "postprocess"},
         NEW k \in Held(th1)
  PROVE  ~Watches(th2, pc[th2], at[th2], k)
<1> SUFFICES ASSUME Watches(th2, pc[th2], at[th2], k) PROVE FALSE
  OBVIOUS
<1> DEFINE p1 == at[th1]
           p2 == at[th2]
           l1 == pc[th1]
           l2 == pc[th2]
<1>1. /\ Representable(request) /\ Layout /\ FillFits /\ LaunchInv
      /\ th1 \in Threads /\ th2 \in Threads /\ IdxOf(th1) # IdxOf(th2)
  BY SharedFacts, TeamThreads DEF GridInv
<1>2. /\ p1.i = p2.i /\ Part(l1) = Part(l2) /\ (Clearing(l1) <=> Clearing(l2))
  BY <1>1 DEF GridInv, Together
<1>3. p2.i \in Nat
  BY <1>1, PositionFields
<1>4. \A row \in ChunkRows(p2.i) : row \in Rows(request)
  <2>1. request.row_count \in Nat /\ launch.chunk_size \in Nat
    BY <1>1, SharedFacts
  <2>2. RowsAt(p2.i) \in Int /\ RowsAt(p2.i) <= request.row_count
    BY <1>3, <2>1 DEF RowsAt, Least
  <2> QED
    BY <2>1, <2>2 DEF ChunkRows, Rows
<1>5. CASE l1 = "stage"
  <2>1. k % launch.threads_per_block = IdxOf(th1)
    BY <1>1, <1>5, HeldSlots
  <2>2. l2 \in {"stage", "sync"}
    BY <1>2, <1>5 DEF Clearing
  <2> QED
    BY <1>1, <2>1, <2>2 DEF Watches, Working
<1>6. CASE l1 = "accumulate"
  <2> DEFINE row1 == TaskRow(p1)
             tree == TaskTree(p1)
             out == OutputOf(request, tree, p1.comp)
             grove == GroveOf(tree, row1)
  <2>1. k = TargetSlot(th1)
    BY <1>1, <1>6, HeldSlots
  <2>2. /\ row1 \in Rows(request)
        /\ out \in Outputs(request) /\ grove \in Groves
        /\ TargetSlot(th1) = Slot(row1, out, grove)
        /\ Server(row1, out, grove) = IdxOf(th1)
    BY <1>1, <1>6, TargetServer, SharedFacts DEF Rows
  <2>3. Working(l2) /\ l2 # "sync" /\ l2 \notin {"reduce", "store", "postprocess"}
    BY <1>2, <1>6, <1>1, PositionFields DEF Clearing, Part, Working, Labels
  <2>4. PICK row \in ChunkRows(p2.i), o \in Outputs(request), g \in Groves :
               Server(row, o, g) = IdxOf(th2) /\ k = Slot(row, o, g)
    BY <2>3 DEF Watches
  <2> HIDE DEF row1, tree, out, grove
  <2>5. row1 = row /\ out = o /\ grove = g
    <3>1. row \in Rows(request)
      BY <1>4
    <3>2. Slot(row1, out, grove) = Slot(row, o, g)
      BY <2>1, <2>2, <2>4
    <3>3. \A r1, r2 \in Rows(request), o3, o2 \in Outputs(request), g3, g2 \in Groves :
            Slot(r1, o3, g3) = Slot(r2, o2, g2) => r1 = r2 /\ o3 = o2 /\ g3 = g2
      BY <1>1, SlotsApart
    <3> QED
      BY <2>2, <3>1, <3>2, <3>3
  <2> QED
    BY <1>1, <2>2, <2>4, <2>5
<1>7. CASE l1 \in {"store", "postprocess"}
  <2>1. /\ p1.row \in Rows(request)
        /\ p1.row % Warps = WarpOf(th1)
        /\ \E o \in Outputs(request), g \in Groves : k = Slot(p1.row, o, g)
    BY <1>1, <1>7, HeldSlots, SharedFacts DEF Groves, Rows
  <2>2. PICK o1 \in Outputs(request), g1 \in Groves : k = Slot(p1.row, o1, g1)
    BY <2>1
  <2>3. IsFirstLane(th2) /\ \E row \in ChunkRows(p2.i), o \in Outputs(request), g \in Groves :
               row % Warps = WarpOf(th2) /\ k = Slot(row, o, g)
    BY <1>2, <1>7 DEF Watches, Part, Working
  <2>4. PICK row \in ChunkRows(p2.i), o \in Outputs(request), g \in Groves :
               row % Warps = WarpOf(th2) /\ k = Slot(row, o, g)
    BY <2>3
  <2>5. p1.row = row
    <3>1. row \in Rows(request)
      BY <1>4
    <3>2. Slot(p1.row, o1, g1) = Slot(row, o, g)
      BY <2>2, <2>4
    <3>3. \A r1, r2 \in Rows(request), o3, o2 \in Outputs(request), g3, g2 \in Groves :
            Slot(r1, o3, g3) = Slot(r2, o2, g2) => r1 = r2 /\ o3 = o2 /\ g3 = g2
      BY <1>1, SlotsApart
    <3> QED
      BY <2>1, <3>1, <3>2, <3>3
  <2>6. WarpOf(th1) = WarpOf(th2)
    BY <2>1, <2>4, <2>5
  <2>7. IsFirstLane(th1)
    BY <1>1, <1>7 DEF GridInv, InRange
  <2>8. \A th \in {th1, th2} : IdxOf(th) = WarpOf(th) * WARP_SIZE + (IdxOf(th) % WARP_SIZE)
    <3>1. WARP_SIZE \in Nat \ {0} /\ IdxOf(th1) \in Nat /\ IdxOf(th2) \in Nat
      BY <1>1, WarpNumbers, LaunchAssumption
    <3> QED
      BY <3>1, DivMod DEF WarpOf
  <2> QED
    BY <1>1, <2>3, <2>6, <2>7, <2>8 DEF IsFirstLane
<1> QED
  BY <1>5, <1>6, <1>7

-----------------------------------------------------------------------------
(* The rows that have been answered *)

(* The rows of the call are those of the chunks that the blocks go through. *)
LEMMA RowChunk ==
  ASSUME Layout, launch.num_blocks \in Nat \ {0}, launch.threads_per_block = Warps * WARP_SIZE,
         Warps \in Nat \ {0}, NEW r \in Rows(request),
         NEW row, row = r % launch.chunk_size, NEW c, c = r \div launch.chunk_size
  PROVE  /\ r \in Nat /\ r < request.row_count
         /\ row \in Nat /\ row < launch.chunk_size
         /\ c \in Nat /\ r = c * launch.chunk_size + row /\ r - row = c * launch.chunk_size
         /\ c * launch.chunk_size \in Nat
         /\ Answerer(r) \in Threads
         /\ BlockOf(Answerer(r)) = c % launch.num_blocks
         /\ WarpOf(Answerer(r)) = row % Warps
         /\ IsFirstLane(Answerer(r))
<1> DEFINE k == launch.chunk_size
           nb == launch.num_blocks
           W == WARP_SIZE
           v == row % Warps
           idx == v * W
<1>1. k \in Nat \ {0} /\ nb \in Nat \ {0} /\ W \in Nat \ {0} /\ request.row_count \in Nat
  BY CallFields DEF Layout
<1>2. r \in Nat /\ r < request.row_count
  BY <1>1 DEF Rows
<1>3. row \in 0 .. (k - 1) /\ c \in Nat /\ r = c * k + row
  BY <1>1, <1>2, DivMod
<1>4. c * k \in Nat /\ row \in Nat /\ row < k
  BY <1>1, <1>3, MulNat
<1>5. c % nb \in 0 .. (nb - 1)
  BY <1>1, <1>3, DivMod
<1>6. v \in 0 .. (Warps - 1) /\ v \in Nat /\ v < Warps
  <2>1. v \in 0 .. (Warps - 1)
    BY <1>4, DivMod
  <2> QED
    BY <2>1
<1>7. idx \in Nat /\ idx < launch.threads_per_block
  <2>1. 0 < W /\ 0 \in Nat
    BY <1>1
  <2> HIDE DEF v, W
  <2>2. v * W + 0 < Warps * W /\ v * W \in Nat
    BY <1>1, <1>6, <2>1, BlockOrder, MulNat
  <2> QED
    BY <2>2 DEF W
<1>8. idx \div W = v /\ idx % W = 0
  <2>1. 0 \in 0 .. (W - 1)
    BY <1>1
  <2> HIDE DEF v, W
  <2>2. (v * W + 0) \div W = v /\ (v * W + 0) % W = 0
    BY <1>1, <1>6, <2>1, DivUnique
  <2>3. v * W + 0 = v * W
    BY <1>1, <1>6
  <2> QED
    BY <2>2, <2>3
<1>9. Answerer(r) = <<c % nb, idx>>
  BY DEF Answerer
<1>10. Answerer(r) \in Threads /\ BlockOf(Answerer(r)) = c % nb /\ IdxOf(Answerer(r)) = idx
  <2>1. launch.threads_per_block \in Nat
    BY DEF Layout
  <2> HIDE DEF idx, nb
  <2> QED
    BY <1>1, <1>5, <1>7, <1>9, <2>1 DEF Threads, Blocks, Lanes, BlockOf, IdxOf, nb
<1> QED
  BY <1>2, <1>3, <1>4, <1>8, <1>10 DEF WarpOf, IsFirstLane

(* The chunk that the thread which answers a row is at. *)
LEMMA AnswererAt ==
  ASSUME GridInv, SharedLaunch, Running, NEW r \in Rows(request),
         NEW th, th = Answerer(r), NEW row, row = r % launch.chunk_size
  PROVE  /\ th \in Threads /\ IsFirstLane(th) /\ WarpOf(th) = row % Warps
         /\ r \in Nat /\ row \in Nat /\ row < launch.chunk_size
         /\ r - row \in Nat /\ (r - row) % launch.chunk_size = 0
         /\ (r - row) \div launch.chunk_size = r \div launch.chunk_size
         /\ BlockOf(th) = (r \div launch.chunk_size) % launch.num_blocks
         /\ r < request.row_count /\ row < RowsAt(r - row)
<1> DEFINE c == r \div launch.chunk_size
           k == launch.chunk_size
<1>1. /\ Representable(request) /\ Layout /\ launch.num_blocks \in Nat \ {0} /\ k \in Nat \ {0}
      /\ request.row_count \in Nat
  BY SharedFacts DEF GridInv
<1>2. Warps \in Nat \ {0} /\ launch.threads_per_block = Warps * WARP_SIZE
  BY <1>1, WarpNumbers DEF GridInv
<1>3. /\ r \in Nat /\ r < request.row_count
      /\ row \in Nat /\ row < k
      /\ c \in Nat /\ r = c * k + row /\ r - row = c * k
      /\ c * k \in Nat
      /\ th \in Threads /\ BlockOf(th) = c % launch.num_blocks
      /\ WarpOf(th) = row % Warps /\ IsFirstLane(th)
  BY <1>1, <1>2, RowChunk
<1>4. (c * k + 0) % k = 0 /\ (c * k + 0) \div k = c
  <2>1. 0 \in 0 .. (k - 1)
    BY <1>1
  <2> HIDE DEF c, k
  <2> QED
    BY <1>1, <1>3, <2>1, DivUnique
<1>5. c * k + 0 = r - row
  BY <1>3
<1>6. row < RowsAt(r - row)
  <2> DEFINE left == request.row_count - (r - row)
  <2>1. row < left /\ row < k /\ row \in Nat
    BY <1>1, <1>3
  <2>2. RowsAt(r - row) = IF k < left THEN k ELSE left
    BY DEF RowsAt, Least
  <2> HIDE DEF left
  <2> QED
    BY <2>1, <2>2
<1>7. (r - row) % k = 0 /\ (r - row) \div k = c /\ r - row \in Nat
  <2> HIDE DEF c, k
  <2> QED
    BY <1>3, <1>4, <1>5
<1> QED
  BY <1>3, <1>6, <1>7

(* A step of a block that keeps what its threads know. *)
LEMMA BlockSums ==
  ASSUME SumInv, Running, UNCHANGED launchVars, NEW b \in Blocks,
         \A th \in Threads \ Team(b) : pc'[th] = pc[th] /\ at'[th] = at[th] /\ reg'[th] = reg[th],
         \A c \in Blocks : c # b => workspace'[c] = workspace[c] /\ staged'[c] = staged[c],
         DOMAIN reg' = Threads, DOMAIN staged' = Blocks, DOMAIN staged'[b] = DOMAIN staged[b],
         \A th \in Team(b) : ThreadSums(th, pc'[th], at'[th], reg'[th], workspace'[b], staged'[b]),
         DOMAIN output' = DOMAIN output, \A r \in Rows(request) : RowHolds(r, output)'
  PROVE  SumInv'
<1>1. /\ request' = request /\ launch' = launch
      /\ Rows(request)' = Rows(request) /\ Threads' = Threads /\ NumOutputs(request)' = NumOutputs(request)
  BY SameCall
<1>2. Blocks' = Blocks
  BY <1>1 DEF Blocks
<1>3. DOMAIN output' = 0 .. (request.row_count * NumOutputs(request) - 1)
  BY DEF SumInv
<1>4. \A c \in Blocks : DOMAIN staged'[c] = 0 .. (launch.chunk_size * request.col_count - 1)
  BY DEF SumInv
<1>5. ASSUME NEW th \in Threads
      PROVE  ThreadSums(th, pc'[th], at'[th], reg'[th], workspace'[BlockOf(th)], staged'[BlockOf(th)])
  <2>1. CASE th \in Team(b)
    BY <2>1, TeamThreads
  <2>2. CASE th \notin Team(b)
    <3>1. BlockOf(th) \in Blocks /\ BlockOf(th) # b
      BY <2>2, TeamThreads
    <3>2. ThreadSums(th, pc[th], at[th], reg[th], workspace[BlockOf(th)], staged[BlockOf(th)])
      BY DEF SumInv
    <3> QED
      BY <2>2, <3>1, <3>2
  <2> QED
    BY <2>1, <2>2
<1>6. ASSUME NEW th \in Threads
      PROVE  ThreadSums(th, pc[th], at[th], reg[th], workspace[BlockOf(th)], staged[BlockOf(th)])'
  BY <1>5, SameThreadSums DEF BlockOf
<1> QED
  BY <1>1, <1>2, <1>3, <1>4, <1>6 DEF SumInv

(* As long as no more rows are answered, the output is as it was. *)
LEMMA RowsKept ==
  ASSUME SumInv, Running, UNCHANGED launchVars, output' = output,
         \A r \in Rows(request) :
           Answered(r, pc'[Answerer(r)], at'[Answerer(r)]) <=> Answered(r, pc[Answerer(r)], at[Answerer(r)])
  PROVE  DOMAIN output' = DOMAIN output /\ \A r \in Rows(request) : RowHolds(r, output)'
<1> SUFFICES ASSUME NEW r \in Rows(request) PROVE RowHolds(r, output)'
  OBVIOUS
<1>1. /\ request' = request /\ phase' = phase /\ Outputs(request)' = Outputs(request)
      /\ NumOutputs(request)' = NumOutputs(request) /\ (Running' <=> Running)
      /\ Answerer(r)' = Answerer(r)
      /\ \A o : SumOfGroves(r, o)' = SumOfGroves(r, o)
      /\ \A label, p : Answered(r, label, p)' <=> Answered(r, label, p)
  BY SameCall, SameSums
<1>2. Answered(r, pc[Answerer(r)], at[Answerer(r)])' <=> Answered(r, pc[Answerer(r)], at[Answerer(r)])
  BY <1>1
<1>3. RowHolds(r, output)
  BY DEF SumInv
<1> QED
  BY <1>1, <1>2, <1>3 DEF RowHolds, Zero, Transform

(* A thread that stays in the first loop answers nothing, nor does one that
   stays at its row in the second. *)
LEMMA AnsweredSame ==
  ASSUME NEW r, NEW l1, NEW p1, NEW l2, NEW p2, p1.i = p2.i,
         \/ Part(l1) = "infer" /\ Part(l2) = "infer"
         \/ /\ Part(l1) = "reduce" /\ Part(l2) = "reduce" /\ p1.row = p2.row
            /\ (l1 = "reduced" <=> l2 = "reduced")
  PROVE  Answered(r, l1, p1) <=> Answered(r, l2, p2)
  BY DEF Answered, Part

(* A thread leaves f in the workspace of its block, s in the rows that are
   copied, and v in its register. *)
Writes(b, th, f, s, v) ==
  /\ workspace'[b] = f /\ staged'[b] = s /\ reg'[th] = v
  /\ \A c \in Blocks : c # b => workspace'[c] = workspace[c] /\ staged'[c] = staged[c]
  /\ \A u \in Threads : u # th => reg'[u] = reg[u]
  /\ DOMAIN reg' = Threads /\ DOMAIN staged' = Blocks

(* One thread goes on, and writes nothing but what it holds. *)
LEMMA ThreadSumsGoOn ==
  ASSUME GridInv, SharedLaunch, SumInv, Running, UNCHANGED launchVars,
         NEW b \in Blocks, NEW th \in Team(b), NEW place, Goto(th, place),
         NEW f, NEW s, NEW v, Writes(b, th, f, s, v),
         DOMAIN f = DOMAIN workspace[b], DOMAIN s = DOMAIN staged[b],
         \/ f = workspace[b]
         \/ /\ pc[th] \in {"stage", "accumulate", "store", "postprocess"}
            /\ \A k \in DOMAIN f : k \notin Held(th) => f[k] = workspace[b][k],
         \A th2 \in Team(b) : th2 # th => Copied(th2, pc[th2], at[th2], s),
         ThreadSums(th, place.label, place.at, v, f, s),
         DOMAIN output' = DOMAIN output, \A r \in Rows(request) : RowHolds(r, output)'
  PROVE  SumInv'
<1>1. /\ Team(b) \subseteq Threads
      /\ pc \in [Threads -> Labels] /\ at \in [Threads -> Position]
      /\ DOMAIN workspace = Blocks /\ DOMAIN staged = Blocks /\ DOMAIN reg = Threads
      /\ DOMAIN workspace[b] = 0 .. (launch.output_workspace_size - 1)
  BY TeamThreads DEF GridInv, SumInv
<1>2. /\ pc'[th] = place.label /\ at'[th] = place.at /\ reg'[th] = v
      /\ workspace'[b] = f /\ staged'[b] = s
      /\ \A u \in Threads : u # th => pc'[u] = pc[u] /\ at'[u] = at[u] /\ reg'[u] = reg[u]
      /\ \A c \in Blocks : c # b => workspace'[c] = workspace[c] /\ staged'[c] = staged[c]
      /\ DOMAIN reg' = Threads /\ DOMAIN staged' = Blocks
  BY <1>1 DEF Goto, Writes
<1>3. ASSUME NEW u \in Team(b)
      PROVE  ThreadSums(u, pc'[u], at'[u], reg'[u], workspace'[b], staged'[b])
  <2>1. CASE u = th
    BY <2>1, <1>2
  <2>2. CASE u # th
    <3>1. /\ pc'[u] = pc[u] /\ at'[u] = at[u] /\ reg'[u] = reg[u] /\ u \in Threads
      BY <2>2, <1>1, <1>2
    <3>2. ThreadSums(u, pc[u], at[u], reg[u], workspace[b], staged[b])
      BY <3>1, TeamThreads DEF SumInv
    <3>3. \A k \in DOMAIN workspace[b] : Watches(u, pc[u], at[u], k) => f[k] = workspace[b][k]
      <4>1. CASE f = workspace[b]
        BY <4>1
      <4>2. CASE /\ pc[th] \in {"stage", "accumulate", "store", "postprocess"}
                 /\ \A k \in DOMAIN f : k \notin Held(th) => f[k] = workspace[b][k]
        <5>1. \A k \in Held(th) : ~Watches(u, pc[u], at[u], k)
          BY <2>2, <4>2, WatchedApart
        <5> QED
          BY <4>2, <5>1
      <4> QED
        BY <4>1, <4>2
    <3>4. Copied(u, pc[u], at[u], s)
      BY <2>2
    <3>5. ThreadSums(u, pc[u], at[u], reg[u], f, s)
      BY <1>1, <3>1, <3>2, <3>3, <3>4, WatchedKept
    <3> QED
      BY <1>2, <3>1, <3>5
  <2> QED
    BY <2>1, <2>2
<1>4. \A u \in Threads \ Team(b) : pc'[u] = pc[u] /\ at'[u] = at[u] /\ reg'[u] = reg[u]
  BY <1>2
<1>5. DOMAIN staged'[b] = DOMAIN staged[b]
  BY <1>2
<1> QED
  BY <1>2, <1>3, <1>4, <1>5, BlockSums

(* What has been copied stays. *)
LEMMA CopiesKept ==
  ASSUME SumInv, Running, NEW b \in Blocks
  PROVE  \A th \in Team(b) : Copied(th, pc[th], at[th], staged[b])
  BY TeamThreads DEF SumInv, ThreadSums

(* The thread that moves leaves the rows answered that are. *)
LEMMA AnswersKept ==
  ASSUME GridInv, SharedLaunch, SumInv, Running, UNCHANGED launchVars, output' = output,
         NEW b \in Blocks, NEW th \in Team(b), NEW place, Goto(th, place),
         \/ ~IsFirstLane(th)
         \/ \A r \in Rows(request) : Answerer(r) = th =>
              (Answered(r, place.label, place.at) <=> Answered(r, pc[th], at[th]))
  PROVE  DOMAIN output' = DOMAIN output /\ \A r \in Rows(request) : RowHolds(r, output)'
<1>1. /\ th \in Threads /\ pc \in [Threads -> Labels] /\ at \in [Threads -> Position]
  BY TeamThreads DEF GridInv
<1>2. ASSUME NEW r \in Rows(request)
      PROVE  Answered(r, pc'[Answerer(r)], at'[Answerer(r)]) <=> Answered(r, pc[Answerer(r)], at[Answerer(r)])
  <2>1. Answerer(r) \in Threads /\ IsFirstLane(Answerer(r))
    BY AnswererAt
  <2>2. CASE Answerer(r) = th
    BY <1>1, <2>1, <2>2 DEF Goto
  <2>3. CASE Answerer(r) # th
    BY <1>1, <2>1, <2>3 DEF Goto
  <2> QED
    BY <2>2, <2>3
<1> QED
  BY <1>2, RowsKept

-----------------------------------------------------------------------------
(* The steps of a block *)

(* A thread that has cleared and copied its share waits for the others. *)
LEMMA StageSums ==
  ASSUME GridInv, SharedLaunch, SumInv, Running, NEW b \in Blocks, NEW th \in Team(b), Stage(th)
  PROVE  SumInv'
<1> DEFINE p == at[th]
           T == launch.threads_per_block
           w == workspace[b]
           mine(k) == k % T = IdxOf(th)
           f == [k \in DOMAIN w |-> IF FillFits /\ mine(k) THEN Zero ELSE w[k]]
           s == [k \in DOMAIN staged[b] |->
                   IF CopyFits(p.i) /\ mine(k) /\ k < RowsAt(p.i) * request.col_count
                   THEN U(p.i * request.col_count) + k ELSE staged[b][k]]
           place == Place("sync", p)
<1>1. /\ th \in Threads /\ BlockOf(th) = b
      /\ FillFits /\ Layout /\ launch.threads_per_block \in Nat \ {0}
      /\ DOMAIN workspace = Blocks /\ DOMAIN staged = Blocks /\ DOMAIN reg = Threads
      /\ DOMAIN staged[b] = 0 .. (launch.chunk_size * request.col_count - 1)
      /\ DOMAIN w = 0 .. (launch.output_workspace_size - 1)
  BY TeamThreads, SharedFacts DEF GridInv, SumInv
<1>2. /\ pc[th] = "stage"
      /\ workspace' = [workspace EXCEPT ![b] = f]
      /\ staged' = [staged EXCEPT ![b] = s]
      /\ Goto(th, place)
      /\ output' = output /\ reg' = reg /\ UNCHANGED launchVars
  BY <1>1 DEF Stage, SyncRequired, launchVars
<1>3. Writes(b, th, f, s, reg[th])
  <2> HIDE DEF f, s
  <2> QED
    BY <1>1, <1>2 DEF Writes
<1>4. /\ place.label = "sync" /\ place.at = p
  BY DEF Place
<1>5. ThreadSums(th, "stage", p, reg[th], w, staged[b])
  BY <1>1, <1>2 DEF SumInv
<1>6. \A k \in DOMAIN f : k \notin Held(th) => f[k] = w[k]
  BY <1>1, <1>2 DEF Held
<1>7. p.i \in Nat /\ p.i < request.row_count
  BY <1>1, <1>2, PositionFields DEF GridInv, InRange
<1>8. \A k \in 0 .. (RowsAt(p.i) * request.col_count - 1) : k \in DOMAIN staged[b] /\ k < RowsAt(p.i) * request.col_count
  <2>1. launch.chunk_size \in Nat /\ request.col_count \in Nat /\ request.row_count \in Nat
    BY SharedFacts DEF GridInv
  <2>2. RowsAt(p.i) \in Nat /\ RowsAt(p.i) <= launch.chunk_size
    BY <1>7, <2>1 DEF RowsAt, Least
  <2>3. RowsAt(p.i) * request.col_count <= launch.chunk_size * request.col_count
        /\ RowsAt(p.i) * request.col_count \in Nat /\ launch.chunk_size * request.col_count \in Nat
    BY <2>1, <2>2, MulMono, MulNat
  <2> QED
    BY <1>1, <2>3
<1>9. U(p.i * request.col_count) = p.i * request.col_count
  <2>1. p.i + 0 < request.row_count
    BY <1>7
  <2> QED
    BY <1>7, <2>1, RowIndex DEF GridInv
<1>10. ThreadSums(th, "sync", p, reg[th], f, s)
  <2>1. Aligned(th, "sync", p)
    BY <1>5 DEF ThreadSums, Aligned
  <2>2. Cleared(th, "sync", f)
    BY <1>1 DEF Cleared
  <2>3. Copied(th, "sync", p, s)
    BY <1>8, <1>9 DEF Copied, Working
  <2>4. Added(th, "sync", p, f) /\ Reduced(th, "sync", p, f)
    BY DEF Added, Reduced, Working
  <2>5. Loaded(th, "sync", p, reg[th])
    BY <1>5 DEF ThreadSums, Loaded
  <2> QED
    BY <2>1, <2>2, <2>3, <2>4, <2>5 DEF ThreadSums
<1>11. ASSUME NEW u \in Team(b), u # th PROVE Copied(u, pc[u], at[u], s)
  <2>1. Copied(u, pc[u], at[u], staged[b])
    BY CopiesKept
  <2>2. IdxOf(u) # IdxOf(th) /\ u \in Threads
    BY <1>11, TeamThreads
  <2>3. at[u].i = p.i /\ (CopyFits(p.i) => Clearing(pc[u]))
    BY <1>1, <1>2 DEF GridInv, Together, Clearing
  <2>4. \A k \in DOMAIN staged[b] : k % T = IdxOf(u) => s[k] = staged[b][k]
    BY <2>2
  <2> QED
    BY <1>8, <2>1, <2>2, <2>3, <2>4 DEF Copied, Working, Clearing
<1>12. DOMAIN output' = DOMAIN output /\ \A r \in Rows(request) : RowHolds(r, output)'
  <2>1. \A r \in Rows(request) : Answered(r, place.label, place.at) <=> Answered(r, pc[th], at[th])
    BY <1>2, <1>4, AnsweredSame DEF Part
  <2> QED
    BY <1>2, <2>1, AnswersKept
<1>13. DOMAIN f = DOMAIN w /\ DOMAIN s = DOMAIN staged[b]
  OBVIOUS
<1> HIDE DEF f, s, place, w
<1>14. ThreadSums(th, place.label, place.at, reg[th], f, s)
  BY <1>4, <1>10
<1> QED
  BY <1>2, <1>3, <1>6, <1>11, <1>12, <1>13, <1>14, ThreadSumsGoOn DEF w

(* The element that a thread is to add to holds the trees before. *)
LEMMA EvaluateSums ==
  ASSUME GridInv, SharedLaunch, SumInv, Running, NEW b \in Blocks, NEW th \in Team(b), Evaluate(th)
  PROVE  SumInv'
<1> DEFINE p == at[th]
           w == workspace[b]
           s == staged[b]
           row == TaskRow(p)
           tree == TaskTree(p)
           out == OutputOf(request, tree, p.comp)
           grove == GroveOf(tree, row)
           v == IF request.infer_type = "leaf_id" THEN Zero ELSE w[TargetSlot(th)]
           place == Place("accumulate", p)
<1>1. /\ th \in Threads /\ BlockOf(th) = b /\ Layout /\ request \in Call
      /\ pc \in [Threads -> Labels] /\ at \in [Threads -> Position]
      /\ DOMAIN staged = Blocks /\ DOMAIN reg = Threads
  BY TeamThreads, SharedFacts DEF GridInv, SumInv
<1>2. /\ pc[th] = "evaluate"
      /\ workspace' = workspace /\ staged' = staged /\ output' = output
      /\ reg' = [reg EXCEPT ![th] = v] /\ UNCHANGED launchVars
      /\ pc' = [pc EXCEPT ![th] = "accumulate"] /\ at' = at
  BY <1>1 DEF Evaluate, launchVars
<1>3. place.label = "accumulate" /\ place.at = p
  BY DEF Place
<1>4. Goto(th, place)
  BY <1>1, <1>2, <1>3 DEF Goto
<1>5. Writes(b, th, w, s, v)
  <2> HIDE DEF v
  <2> QED
    BY <1>1, <1>2 DEF Writes
<1>6. ThreadSums(th, "evaluate", p, reg[th], w, s)
  BY <1>1, <1>2 DEF SumInv
<1>7. /\ row \in ChunkRows(p.i)
      /\ tree \in Trees(request) /\ p.comp \in 0 .. (NumComp(request) - 1)
      /\ out \in Outputs(request) /\ CompOf(out) = p.comp
      /\ grove \in Groves
      /\ TargetSlot(th) = Slot(row, out, grove)
      /\ ServerOf(tree, row) = IdxOf(th)
      /\ Server(row, out, grove) = IdxOf(th)
      /\ row \in Nat /\ row < launch.chunk_size
  BY <1>1, <1>2, TargetServer
<1>8. request.infer_type # "leaf_id" => v = TreeSum(p.i + row, out, grove, tree)
  <2>1. w[Slot(row, out, grove)] = TreeSum(p.i + row, out, grove, Frontier("evaluate", p, out))
    BY <1>6, <1>7 DEF ThreadSums, Added, Working
  <2>2. p.comp \in Nat /\ tree \in Nat
    BY <1>1, PositionFields, CallFields, <1>7 DEF Trees
  <2>3. Frontier("evaluate", p, out) = tree
    <3>1. Frontier("evaluate", p, out) = tree + (IF p.comp < p.comp THEN 1 ELSE 0)
      BY <1>7 DEF Frontier
    <3> HIDE DEF tree
    <3> QED
      BY <2>2, <3>1
  <2> QED
    BY <1>7, <2>1, <2>3
<1>9. request.infer_type = "leaf_id" => v = TreeSum(p.i + row, out, grove, tree)
  <2>1. SUFFICES ASSUME request.infer_type = "leaf_id" PROVE TreeSum(p.i + row, out, grove, tree) = Zero
    OBVIOUS
  <2>2. \A t : ~(t # tree /\ Feeds(t, (p.i + row) % launch.chunk_size, out, grove))
    BY <2>1 DEF Feeds, OutputOf
  <2>3. tree \in 0 .. request.num_tree /\ 0 \in 0 .. request.num_tree /\ 0 <= tree
    BY <1>1, <1>7, CallFields DEF Trees
  <2>4. \A t \in 0 .. (tree - 1) : ~Feeds(t, (p.i + row) % launch.chunk_size, out, grove)
    BY <2>2, <2>3
  <2>5. TreeSum(p.i + row, out, grove, 0) = TreeSum(p.i + row, out, grove, tree)
    <3> HIDE DEF tree, out, grove, row
    <3> QED
      BY <1>1, <2>3, <2>4, TreeSumGap
  <2> QED
    BY <1>1, <2>5, TreeSums
<1>10. Loaded(th, "accumulate", p, v)
  <2> SUFFICES ASSUME NEW o \in Outputs(request), NEW g \in Groves,
                      Server(TaskRow(p), o, g) = IdxOf(th), OutputOf(request, TaskTree(p), p.comp) = o
               PROVE  v = TreeSum(p.i + TaskRow(p), o, g, TaskTree(p))
    BY DEF Loaded
  <2>1. o = out /\ g = grove
    BY <1>1, <1>7, TaskServer
  <2> QED
    BY <1>8, <1>9, <2>1
<1>11. ThreadSums(th, "accumulate", p, v, w, s)
  <2> HIDE DEF v
  <2> QED
    BY <1>6, <1>10 DEF ThreadSums, Aligned, Cleared, Copied, Added, Reduced, Working, Frontier
<1>12. DOMAIN output' = DOMAIN output /\ \A r \in Rows(request) : RowHolds(r, output)'
  <2>1. \A r \in Rows(request) : Answered(r, place.label, place.at) <=> Answered(r, pc[th], at[th])
    BY <1>2, <1>3, AnsweredSame DEF Part
  <2> QED
    BY <1>2, <1>4, <2>1, AnswersKept
<1> HIDE DEF place, v
<1>13. ThreadSums(th, place.label, place.at, v, w, s)
  BY <1>3, <1>11
<1> QED
  BY <1>2, <1>4, <1>5, <1>12, <1>13, CopiesKept, ThreadSumsGoOn

(* What a thread adds is the term of the row it stands for, from the input or
   from its copy. *)
LEMMA TreeOutputTerm ==
  ASSUME GridInv, SharedLaunch, SumInv, Running, NEW th \in Threads, pc[th] = "accumulate",
         NEW p, p = at[th], NEW out, out = OutputOf(request, TaskTree(p), p.comp)
  PROVE  TreeOutput(th) = TermOf(p.i + TaskRow(p), TaskTree(p), out)
<1> DEFINE row == TaskRow(p)
           c == request.col_count
           b == BlockOf(th)
           s == staged[b]
           base == p.i * c
           first == row * c
<1>1. /\ row \in Nat /\ row \in ChunkRows(p.i) /\ CompOf(out) = p.comp
      /\ p.i \in Nat /\ request.row_count \in Nat /\ c \in Nat \ {0} /\ launch.chunk_size \in Nat
  BY TargetServer, PositionFields, SharedFacts DEF GridInv
<1>2. row < RowsAt(p.i) /\ RowsAt(p.i) \in Nat /\ p.i + row < request.row_count
  <2>1. p.i < request.row_count
    BY DEF GridInv, InRange
  <2>2. RowsAt(p.i) \in Nat /\ RowsAt(p.i) <= request.row_count - p.i
    BY <1>1, <2>1 DEF RowsAt, Least
  <2> HIDE DEF row
  <2> QED
    BY <1>1, <2>2 DEF ChunkRows
<1>3. U(base) = base /\ base + first = (p.i + row) * c /\ base \in Nat /\ first \in Nat
  <2> HIDE DEF row
  <2> QED
    BY <1>1, <1>2, RowIndex DEF GridInv
<1>4. RowOffset(th) = (p.i + row) * c
  <2>1. CASE ~CopyFits(p.i)
    BY <1>3, <2>1 DEF RowOffset
  <2>2. CASE CopyFits(p.i)
    <3>1. \A k \in 0 .. (RowsAt(p.i) * c - 1) : s[k] = base + k
      BY <2>2, TeamThreads DEF SumInv, ThreadSums, Copied, Working
    <3>2. \A k \in 0 .. (c - 1) : first + k \in 0 .. (RowsAt(p.i) * c - 1)
      <4> SUFFICES ASSUME NEW k \in 0 .. (c - 1) PROVE first + k \in 0 .. (RowsAt(p.i) * c - 1)
        OBVIOUS
      <4>1. k \in Nat /\ k < c
        BY <1>1
      <4> HIDE DEF row, c
      <4>2. row * c + k < RowsAt(p.i) * c /\ row * c \in Nat /\ RowsAt(p.i) * c \in Nat
        BY <1>1, <1>2, <4>1, BlockOrder, MulNat
      <4> QED
        BY <4>1, <4>2
    <3>3. 0 \in 0 .. (c - 1)
      BY <1>1
    <3> HIDE DEF base, first, s, c
    <3>4. first + 0 \in 0 .. (RowsAt(p.i) * c - 1) /\ first + 0 = first
      BY <1>3, <3>2, <3>3
    <3>5. s[first] = base + first
      BY <3>1, <3>4
    <3>6. \A k \in 0 .. (c - 1) : s[first + k] = s[first] + k
      <4> SUFFICES ASSUME NEW k \in 0 .. (c - 1) PROVE s[first + k] = s[first] + k
        OBVIOUS
      <4>1. s[first + k] = base + (first + k)
        BY <3>1, <3>2
      <4>2. k \in Int
        OBVIOUS
      <4> QED
        BY <1>3, <3>5, <4>1, <4>2
    <3>7. RowOffset(th) = s[first]
      BY <2>2, <3>6 DEF RowOffset, first, s, c
    <3> QED
      BY <1>3, <3>5, <3>7 DEF c
  <2> QED
    BY <2>1, <2>2
<1> QED
  BY <1>1, <1>4 DEF TreeOutput, TermOf

(* What a thread serves, once it has added its term. *)
LEMMA AddedOne ==
  ASSUME GridInv, SharedLaunch, SumInv, Running, NEW b \in Blocks, NEW th \in Team(b),
         pc[th] = "accumulate", NEW p, p = at[th],
         NEW f, f[TargetSlot(th)] = AddTerm(reg[th], TreeOutput(th)),
         \A k \in DOMAIN workspace[b] : k # TargetSlot(th) => f[k] = workspace[b][k],
         NEW row2 \in ChunkRows(p.i), NEW o2 \in Outputs(request), NEW g2 \in Groves,
         Server(row2, o2, g2) = IdxOf(th)
  PROVE  f[Slot(row2, o2, g2)] =
           TreeSum(p.i + row2, o2, g2, TaskTree(p) + (IF CompOf(o2) < p.comp + 1 THEN 1 ELSE 0))
<1> DEFINE w == workspace[b]
           s == staged[b]
           row == TaskRow(p)
           tree == TaskTree(p)
           out == OutputOf(request, tree, p.comp)
           grove == GroveOf(tree, row)
           n == launch.chunk_size
<1>1. /\ th \in Threads /\ BlockOf(th) = b /\ Layout /\ request \in Call /\ LaunchInv
      /\ ThreadSums(th, "accumulate", p, reg[th], w, s)
      /\ DOMAIN w = 0 .. (launch.output_workspace_size - 1)
      /\ p.i \in Nat /\ p.comp \in Nat
  BY TeamThreads, SharedFacts, PositionFields DEF GridInv, SumInv
<1>2. /\ row \in Nat /\ row < request.row_count /\ row < n /\ row \in ChunkRows(p.i)
      /\ tree \in Trees(request) /\ p.comp \in 0 .. (NumComp(request) - 1)
      /\ out \in Outputs(request) /\ CompOf(out) = p.comp
      /\ grove \in Groves
      /\ TargetSlot(th) = Slot(row, out, grove)
      /\ ServerOf(tree, row) = IdxOf(th)
      /\ Server(row, out, grove) = IdxOf(th)
      /\ row = IdxOf(th) % n
  BY <1>1, TargetServer
<1>3. p.i % n = 0
  BY <1>1 DEF ThreadSums, Aligned
<1>4. row2 \in Nat /\ row2 < n /\ row2 \in Rows(request) /\ (p.i + row) % n = row
  <2>1. row2 \in Nat /\ row2 < n /\ row2 < request.row_count
    BY <1>1, <1>3, AlignedRows
  <2>2. (p.i + row) % n = row
    <3> HIDE DEF row
    <3> QED
      BY <1>1, <1>2, <1>3, AlignedRows
  <2>3. request.row_count \in Nat
    BY <1>1, CallFields
  <2> QED
    BY <2>1, <2>2, <2>3 DEF Rows
<1>5. row2 = row
  BY <1>1, <1>2, <1>4, ServerInside
<1>6. TreeOutput(th) = TermOf(p.i + row, tree, out)
  BY <1>1, TreeOutputTerm
<1>7. reg[th] = TreeSum(p.i + row, out, grove, tree)
  BY <1>1, <1>2 DEF ThreadSums, Loaded
<1>8. \A g : Feeds(tree, row, out, g) <=> g = grove
  BY <1>1, <1>2, TaskServer
<1>9. tree \in Nat /\ CompOf(o2) \in Nat /\ CompOf(o2) \in 0 .. (NumComp(request) - 1)
  BY <1>1, <1>2, CallFields, CompOfRange DEF Trees
<1>10. TreeSum(p.i + row, o2, g2, tree + 1) =
         IF Feeds(tree, row, o2, g2)
         THEN AddTerm(TreeSum(p.i + row, o2, g2, tree), TermOf(p.i + row, tree, o2))
         ELSE TreeSum(p.i + row, o2, g2, tree)
  BY <1>1, <1>2, <1>4, TreeSums
<1>11. CASE o2 = out /\ g2 = grove
  <2>2. f[Slot(row2, o2, g2)] = AddTerm(TreeSum(p.i + row, out, grove, tree), TermOf(p.i + row, tree, out))
    BY <1>2, <1>5, <1>6, <1>7, <1>11
  <2>3. tree + (IF CompOf(o2) < p.comp + 1 THEN 1 ELSE 0) = tree + 1
    BY <1>1, <1>2, <1>11
  <2> HIDE DEF row, tree, out, grove
  <2> QED
    BY <1>5, <1>8, <1>10, <1>11, <2>2, <2>3 DEF tree
<1>12. CASE ~(o2 = out /\ g2 = grove)
  <2>1. Slot(row2, o2, g2) # TargetSlot(th)
    <3>1. row \in Rows(request)
      BY <1>4, <1>5
    <3>2. \A r1, r2 \in Rows(request), o1, o3 \in Outputs(request), g1, g3 \in Groves :
            Slot(r1, o1, g1) = Slot(r2, o3, g3) => r1 = r2 /\ o1 = o3 /\ g1 = g3
      BY <1>1, SlotsApart
    <3> HIDE DEF row, out, grove
    <3> QED
      BY <1>2, <1>4, <1>12, <3>1, <3>2
  <2>2. f[Slot(row2, o2, g2)] = w[Slot(row2, o2, g2)]
    BY <1>1, <1>4, <2>1, SlotsApart
  <2>3. w[Slot(row2, o2, g2)] = TreeSum(p.i + row2, o2, g2, Frontier("accumulate", p, o2))
    BY <1>1 DEF ThreadSums, Added, Working
  <2>4. Frontier("accumulate", p, o2) = tree + (IF CompOf(o2) < p.comp THEN 1 ELSE 0)
    BY DEF Frontier
  <2>5. CASE CompOf(o2) # p.comp
    <3>1. CompOf(o2) < p.comp <=> CompOf(o2) < p.comp + 1
      BY <1>1, <1>9, <2>5
    <3> HIDE DEF tree
    <3> QED
      BY <2>2, <2>3, <2>4, <3>1 DEF tree
  <2>6. CASE CompOf(o2) = p.comp
    <3>1. ~Feeds(tree, row, o2, g2)
      <4>1. SUFFICES ASSUME Feeds(tree, row, o2, g2) PROVE FALSE
        OBVIOUS
      <4>2. o2 = out /\ g2 = grove
        BY <2>6, <4>1 DEF Feeds
      <4> QED
        BY <1>12, <4>2
    <3>2. ~(CompOf(o2) < p.comp) /\ CompOf(o2) < p.comp + 1
      BY <1>1, <2>6
    <3> HIDE DEF row, tree
    <3>3. f[Slot(row2, o2, g2)] = TreeSum(p.i + row, o2, g2, tree + 0)
      BY <1>5, <2>2, <2>3, <2>4, <3>2
    <3>4. tree + 0 = tree
      BY <1>9
    <3> QED
      BY <1>5, <1>10, <3>1, <3>2, <3>3, <3>4 DEF tree
  <2> QED
    BY <2>5, <2>6
<1> QED
  BY <1>11, <1>12

(* A thread goes on with the next component or task: what is between adds
   nothing to what it serves. *)
LEMMA AccumulateSums ==
  ASSUME GridInv, SharedLaunch, SumInv, Running, NEW b \in Blocks, NEW th \in Team(b), Accumulate(th)
  PROVE  SumInv'
<1> DEFINE p == at[th]
           w == workspace[b]
           s == staged[b]
           f == [w EXCEPT ![TargetSlot(th)] = AddTerm(reg[th], TreeOutput(th))]
           n == launch.chunk_size
           place == IF p.comp + 1 < NumComp(request)
                    THEN Place("evaluate", At(p.i, p.task, 0, p.comp + 1, 0))
                    ELSE TaskFrom(th, p.task + 1)
<1>1. /\ th \in Threads /\ BlockOf(th) = b /\ Layout /\ request \in Call /\ Representable(request)
      /\ DOMAIN workspace = Blocks /\ DOMAIN staged = Blocks /\ DOMAIN reg = Threads
      /\ p.i \in Nat /\ p.comp \in Nat /\ p.task \in Nat
      /\ n \in Nat \ {0} /\ NumComp(request) \in Nat
  BY TeamThreads, SharedFacts, PositionFields DEF GridInv, SumInv
<1>2. /\ pc[th] = "accumulate"
      /\ workspace' = [workspace EXCEPT ![b] = f]
      /\ staged' = staged /\ output' = output
      /\ reg' = [reg EXCEPT ![th] = Zero] /\ UNCHANGED launchVars
      /\ Goto(th, place)
  <2>1. workspace' = [workspace EXCEPT ![b][TargetSlot(th)] = AddTerm(reg[th], TreeOutput(th))]
    BY <1>1 DEF Accumulate
  <2> QED
    BY <1>1, <2>1 DEF Accumulate, launchVars
<1>3. Writes(b, th, f, s, Zero)
  <2> HIDE DEF f
  <2> QED
    BY <1>1, <1>2 DEF Writes
<1>4. ThreadSums(th, "accumulate", p, reg[th], w, s)
  BY <1>1, <1>2 DEF SumInv
<1>5. p.i % n = 0
  BY <1>4 DEF ThreadSums, Aligned
<1>6. /\ place.label \in {"evaluate", "inferred"} /\ place.at.i = p.i
      /\ p.comp + 1 < NumComp(request) => place.label = "evaluate" /\ place.at.comp = p.comp + 1
                                          /\ place.at.task = p.task
  <2>1. CASE p.comp + 1 < NumComp(request)
    BY <2>1 DEF Place, At
  <2>2. CASE ~(p.comp + 1 < NumComp(request))
    BY <1>1, <1>2, <2>2, TaskFromPlace
  <2> QED
    BY <2>1, <2>2
<1>7. /\ TaskRow(p) \in Nat /\ TaskRow(p) < n /\ TaskRow(p) = IdxOf(th) % n
      /\ TaskTree(p) \in Trees(request) /\ p.task = TaskTree(p) * n + TaskRow(p)
      /\ p.comp \in 0 .. (NumComp(request) - 1)
  <2> DEFINE row == TaskRow(p)
             tree == TaskTree(p)
             out == OutputOf(request, tree, p.comp)
  <2>1. row = TaskRow(p) /\ tree = TaskTree(p) /\ out = OutputOf(request, tree, p.comp)
    OBVIOUS
  <2> HIDE DEF row, tree, out
  <2> QED
    BY <1>1, <1>2, <2>1, TargetServer
<1>8. TargetSlot(th) \in DOMAIN w
  <2>1. TargetSlot(th) \in Held(th)
    BY <1>2 DEF Held
  <2> QED
    BY <1>1, <2>1, SharedFacts, HeldInside DEF GridInv
<1>8a. \A row \in ChunkRows(p.i), o \in Outputs(request), g \in Groves :
        Server(row, o, g) = IdxOf(th) =>
          f[Slot(row, o, g)] = TreeSum(p.i + row, o, g, Frontier(place.label, place.at, o))
  <2> SUFFICES ASSUME NEW row \in ChunkRows(p.i), NEW o \in Outputs(request), NEW g \in Groves,
                      Server(row, o, g) = IdxOf(th)
               PROVE  f[Slot(row, o, g)] = TreeSum(p.i + row, o, g, Frontier(place.label, place.at, o))
    OBVIOUS
  <2> DEFINE tree == TaskTree(p)
  <2>1. f[Slot(row, o, g)] = TreeSum(p.i + row, o, g, tree + (IF CompOf(o) < p.comp + 1 THEN 1 ELSE 0))
    <3>1. pc[th] = "accumulate"
      BY <1>2
    <3> HIDE DEF f, p
    <3>2. p = at[th] /\ \A k \in DOMAIN workspace[b] : k # TargetSlot(th) => f[k] = workspace[b][k]
      BY DEF f, p
    <3>3. f[TargetSlot(th)] = AddTerm(reg[th], TreeOutput(th))
      BY <1>8 DEF f
    <3> QED
      BY <3>1, <3>2, <3>3, AddedOne
  <2>2. CASE p.comp + 1 < NumComp(request)
    <3>1. Frontier(place.label, place.at, o) = tree + (IF CompOf(o) < p.comp + 1 THEN 1 ELSE 0)
      BY <1>6, <2>2 DEF Frontier, TaskTree
    <3> HIDE DEF f, place, tree
    <3> QED
      BY <2>1, <3>1
  <2>3. CASE ~(p.comp + 1 < NumComp(request))
    <3>1. place = TaskFrom(th, p.task + 1)
      BY <2>3
    <3>2. CompOf(o) < p.comp + 1
      <4>1. CompOf(o) \in 0 .. (NumComp(request) - 1) /\ CompOf(o) \in Nat
        BY <1>1, CompOfRange
      <4> QED
        BY <1>1, <1>7, <2>3, <4>1
    <3>3. f[Slot(row, o, g)] = TreeSum(p.i + row, o, g, tree + 1)
      <4> HIDE DEF f, tree
      <4> QED
        BY <2>1, <3>2
    <3>4. tree + 1 \in 0 .. request.num_tree /\ tree \in Nat /\ p.task + 1 \in Nat
      BY <1>1, <1>7, CallFields DEF Trees
    <3>5. row \in Nat /\ row < n /\ row = TaskRow(p)
      <4>1. row \in Nat /\ row < n
        BY <1>1, <1>5, AlignedRows
      <4>2. row = IdxOf(th) % n
        BY <1>1, <4>1, ServerInside
      <4> QED
        BY <1>7, <4>1, <4>2
    <3>6. \A u \in Trees(request) : u >= tree + 1 <=> u * n + row >= p.task + 1
      <4> SUFFICES ASSUME NEW u \in Trees(request) PROVE u >= tree + 1 <=> u * n + row >= p.task + 1
        OBVIOUS
      <4>1. u \in Nat
        BY <1>1, CallFields DEF Trees
      <4>2. p.task = tree * n + row
        BY <1>7, <3>5
      <4> HIDE DEF tree, n
      <4>3. u * n \in Nat /\ tree * n \in Nat
        BY <1>1, <3>4, <4>1, MulNat
      <4>4. tree < u => tree * n + row < u * n + 0
        BY <1>1, <3>4, <3>5, <4>1, <4>3, BlockOrder
      <4>5. u <= tree => u * n <= tree * n
        BY <1>1, <3>4, <4>1, MulMono
      <4> QED
        BY <1>1, <3>4, <3>5, <4>1, <4>2, <4>3, <4>4, <4>5
    <3> DEFINE i == p.i
               t == p.task + 1
               m == tree + 1
    <3>7. TreeSum(p.i + row, o, g, tree + 1) = TreeSum(p.i + row, o, g, Frontier(place.label, place.at, o))
      <4>1. /\ i \in Nat /\ i = at[th].i /\ i % launch.chunk_size = 0 /\ t \in Nat
            /\ row \in ChunkRows(i) /\ m \in 0 .. request.num_tree
            /\ \A u \in Trees(request) : u >= m <=> u * launch.chunk_size + row >= t
            /\ place = TaskFrom(th, t)
        BY <1>1, <1>5, <3>1, <3>4, <3>6
      <4> HIDE DEF i, t, m, place
      <4>2. TreeSum(i + row, o, g, m) = TreeSum(i + row, o, g, Frontier(place.label, place.at, o))
        BY <1>1, <4>1, TaskSums
      <4> QED
        BY <4>2 DEF i, m
    <3> QED
      BY <3>3, <3>7
  <2> QED
    BY <2>2, <2>3
<1> HIDE DEF place, f
<1>9. ThreadSums(th, place.label, place.at, Zero, f, s)
  <2>1. Aligned(th, place.label, place.at)
    BY <1>4, <1>6 DEF ThreadSums, Aligned
  <2>2. Cleared(th, place.label, f)
    BY <1>6 DEF Cleared
  <2>3. Copied(th, place.label, place.at, s)
    BY <1>4, <1>6 DEF ThreadSums, Copied, Working
  <2>4. Added(th, place.label, place.at, f)
    BY <1>6, <1>8a DEF Added
  <2>5. Reduced(th, place.label, place.at, f)
    BY <1>6 DEF Reduced
  <2>6. Loaded(th, place.label, place.at, Zero)
    BY <1>6 DEF Loaded
  <2> QED
    BY <2>1, <2>2, <2>3, <2>4, <2>5, <2>6 DEF ThreadSums
<1>10. \A k \in DOMAIN f : k \notin Held(th) => f[k] = w[k]
  BY <1>2 DEF Held, f
<1>11. DOMAIN output' = DOMAIN output /\ \A r \in Rows(request) : RowHolds(r, output)'
  <2>1. \A r \in Rows(request) : Answered(r, place.label, place.at) <=> Answered(r, pc[th], at[th])
    BY <1>2, <1>6, AnsweredSame DEF Part
  <2> QED
    BY <1>2, <2>1, AnswersKept
<1>12. DOMAIN f = DOMAIN w
  BY DEF f
<1>13. \A th2 \in Team(b) : th2 # th => Copied(th2, pc[th2], at[th2], s)
  BY CopiesKept
<1> QED
  BY <1>2, <1>3, <1>9, <1>10, <1>11, <1>12, <1>13, ThreadSumsGoOn

(* The batch that a lane is at is the last one, or there is another. *)
LEMMA NextBatch ==
  ASSUME Layout, NEW grove \in Nat, grove % WARP_SIZE = 0, grove < launch.num_grove,
         NEW q, q = grove \div WARP_SIZE
  PROVE  /\ q \in Groves /\ q \in Nat /\ grove = q * WARP_SIZE
         /\ grove + WARP_SIZE >= PaddedSize(launch.num_grove, WARP_SIZE) =>
              q + 1 = CeilDiv(launch.num_grove, WARP_SIZE)
         /\ ~(grove + WARP_SIZE >= PaddedSize(launch.num_grove, WARP_SIZE)) =>
              /\ (grove + WARP_SIZE) % WARP_SIZE = 0 /\ grove + WARP_SIZE < launch.num_grove
              /\ (grove + WARP_SIZE) \div WARP_SIZE = q + 1
<1> DEFINE m == launch.num_grove
           n == CeilDiv(m, WARP_SIZE)
           W == WARP_SIZE
<1>1. /\ m \in Nat \ {0} /\ W \in Nat \ {0} /\ n \in Nat
      /\ \A k \in Nat : k < n <=> k * W < m
  BY BatchCount DEF Layout
<1>2. PaddedSize(m, W) = n * W
  BY DEF PaddedSize
<1>3. grove \in Nat /\ grove % W = 0 /\ grove < m /\ q = grove \div W
  OBVIOUS
<1> HIDE DEF m, W, n
<1>4. q \in Nat /\ grove = q * W + (grove % W) /\ q * W \in Nat
  <2>1. grove \div W \in Nat /\ grove = (grove \div W) * W + (grove % W)
    BY <1>1, DivMod
  <2> QED
    BY <1>1, <1>3, <2>1, MulNat
<1>5. grove = q * W
  BY <1>3, <1>4
<1>6. q < n
  BY <1>1, <1>3, <1>4, <1>5
<1>7. q < m
  <2>1. 1 * q <= W * q /\ W * q = q * W
    BY <1>1, <1>4, MulMono
  <2> QED
    BY <1>1, <1>3, <1>4, <1>5, <2>1
<1> DEFINE q1 == q + 1
<1>8. q1 \in Nat /\ q1 * W = grove + W
  <2>1. (q + 1) * W = q * W + W
    BY <1>1, <1>4
  <2> QED
    BY <1>4, <1>5, <2>1
<1>9. (q1 * W + 0) % W = 0 /\ (q1 * W + 0) \div W = q1
  <2>1. 0 \in 0 .. (W - 1)
    BY <1>1
  <2> HIDE DEF q1
  <2> QED
    BY <1>1, <1>8, <2>1, DivUnique
<1>10. ASSUME grove + W >= n * W PROVE q + 1 = n
  <2>1. SUFFICES ASSUME q1 < n PROVE FALSE
    BY <1>1, <1>4, <1>6
  <2> HIDE DEF q1
  <2>2. q1 * W + 0 < n * W
    BY <1>1, <1>8, <2>1, BlockOrder
  <2> QED
    BY <1>1, <1>8, <1>10, <2>2, MulNat
<1>11. ASSUME ~(grove + W >= n * W)
       PROVE  (grove + W) % W = 0 /\ grove + W < m /\ (grove + W) \div W = q + 1
  <2>1. q1 < n
    <3>1. SUFFICES ASSUME n <= q1 PROVE FALSE
      BY <1>1, <1>8
    <3> HIDE DEF q1
    <3>2. n * W <= q1 * W
      BY <1>1, <1>8, <3>1, MulMono
    <3> QED
      BY <1>1, <1>8, <1>11, <3>2, MulNat
  <2>2. q1 * W < m
    BY <1>1, <1>8, <2>1
  <2>3. q1 * W + 0 = grove + W
    BY <1>1, <1>3, <1>8
  <2>4. (grove + W) % W = 0 /\ (grove + W) \div W = q1
    BY <1>9, <2>3
  <2> QED
    BY <1>8, <2>2, <2>4
<1> QED
  BY <1>2, <1>4, <1>5, <1>7, <1>10, <1>11, <1>1 DEF Groves, m, W, n

(* The lanes of a warp are threads of the block, one of them first. *)
LEMMA WarpLanes ==
  ASSUME LaunchInv, SharedLaunch, Running, NEW b \in Blocks, NEW w \in 0 .. (Warps - 1),
         NEW lanes, lanes = {<<b, w * WARP_SIZE + l>> : l \in 0 .. (WARP_SIZE - 1)}
  PROVE  /\ lanes \subseteq Team(b)
         /\ <<b, w * WARP_SIZE + 0>> \in lanes /\ IsFirstLane(<<b, w * WARP_SIZE + 0>>)
         /\ WarpOf(<<b, w * WARP_SIZE + 0>>) = w
         /\ \A th \in lanes : th # <<b, w * WARP_SIZE + 0>> => ~IsFirstLane(th)
<1>1. /\ Warps \in Nat \ {0} /\ WARP_SIZE \in Nat \ {0}
      /\ launch.threads_per_block = Warps * WARP_SIZE /\ w \in Nat /\ w < Warps
      /\ 0 \in 0 .. (WARP_SIZE - 1)
  BY WarpNumbers, LaunchAssumption, SharedFacts
<1>2. \A l \in 0 .. (WARP_SIZE - 1) :
        /\ w * WARP_SIZE + l < Warps * WARP_SIZE /\ w * WARP_SIZE + l \in Nat
        /\ (w * WARP_SIZE + l) % WARP_SIZE = l /\ (w * WARP_SIZE + l) \div WARP_SIZE = w
  <2> TAKE l \in 0 .. (WARP_SIZE - 1)
  <2>1. l \in Nat /\ l < WARP_SIZE
    BY <1>1
  <2> QED
    BY <1>1, <2>1, BlockOrder, MulNat, DivUnique
<1>3. lanes \subseteq Team(b)
  <2>1. \A l \in 0 .. (WARP_SIZE - 1) : w * WARP_SIZE + l \in Lanes
    BY <1>1, <1>2 DEF Lanes
  <2> QED
    BY <2>1 DEF Team
<1>4. \A l \in 0 .. (WARP_SIZE - 1) :
        IdxOf(<<b, w * WARP_SIZE + l>>) % WARP_SIZE = l /\ IdxOf(<<b, w * WARP_SIZE + l>>) \div WARP_SIZE = w
  BY <1>2 DEF IdxOf
<1>5. IsFirstLane(<<b, w * WARP_SIZE + 0>>) /\ WarpOf(<<b, w * WARP_SIZE + 0>>) = w
  BY <1>1, <1>4 DEF IsFirstLane, WarpOf
<1>6. ASSUME NEW th \in lanes, th # <<b, w * WARP_SIZE + 0>> PROVE ~IsFirstLane(th)
  <2>1. PICK l \in 0 .. (WARP_SIZE - 1) : th = <<b, w * WARP_SIZE + l>>
    OBVIOUS
  <2>2. l # 0
    BY <1>6, <2>1
  <2> QED
    BY <1>4, <2>1, <2>2 DEF IsFirstLane
<1> QED
  BY <1>1, <1>3, <1>5, <1>6

(* Lane 0 has added a batch in the order of the sum of the groves. *)
LEMMA WarpSumSums ==
  ASSUME GridInv, SharedLaunch, SumInv, Running, NEW b \in Blocks,
         NEW w \in 0 .. (launch.threads_per_block \div WARP_SIZE - 1), WarpSum(b, w)
  PROVE  SumInv'
<1> DEFINE lane(l) == <<b, w * WARP_SIZE + l>>
           first   == lane(0)
           lanes   == {lane(l) : l \in 0 .. (WARP_SIZE - 1)}
           p       == at[first]
           wk      == workspace[b]
           s       == staged[b]
           last    == p.grove + WARP_SIZE >= PaddedSize(launch.num_grove, WARP_SIZE)
           loaded  == [l \in 0 .. (WARP_SIZE - 1) |->
                         IF p.grove + l < launch.num_grove
                         THEN wk[Slot(p.row, p.comp, p.grove + l)] ELSE Zero]
           own     == [loaded EXCEPT ![0] = Plus(reg[first], @)]
           target(th) == IF ~last THEN Place("reduce", [p EXCEPT !.grove = @ + WARP_SIZE])
                         ELSE IF th = first THEN Place("store", p)
                         ELSE NextSum(p)
           r == p.i + p.row
           q == p.grove \div WARP_SIZE
<1>1. /\ \A th \in lanes : pc[th] = "reduce" /\ at[th] = p
      /\ pc' = [th \in Threads |-> IF th \in lanes THEN target(th).label ELSE pc[th]]
      /\ at' = [th \in Threads |-> IF th \in lanes THEN target(th).at ELSE at[th]]
      /\ reg' = [reg EXCEPT ![first] = ShuffleSum(own)]
      /\ workspace' = workspace /\ staged' = staged /\ output' = output
      /\ UNCHANGED launchVars
  BY DEF WarpSum, launchVars
<1>2. /\ LaunchInv /\ Layout /\ Representable(request)
      /\ DOMAIN staged = Blocks /\ DOMAIN reg = Threads /\ DOMAIN workspace = Blocks
      /\ launch.num_grove \in Nat \ {0} /\ WARP_SIZE \in Nat \ {0}
  BY SharedFacts DEF GridInv, SumInv
<1>3. /\ lanes \subseteq Team(b) /\ lanes \subseteq Threads /\ first \in lanes /\ IsFirstLane(first)
      /\ \A th \in lanes : th # first => ~IsFirstLane(th)
      /\ BlockOf(first) = b
  <2>1. w \in 0 .. (Warps - 1) /\ lanes = {<<b, w * WARP_SIZE + l>> : l \in 0 .. (WARP_SIZE - 1)}
    BY DEF Warps
  <2> HIDE DEF lanes
  <2>2. /\ lanes \subseteq Team(b)
        /\ first \in lanes /\ IsFirstLane(first)
        /\ \A th \in lanes : th # first => ~IsFirstLane(th)
    BY <1>2, <2>1, WarpLanes
  <2> QED
    BY <2>2, TeamThreads DEF BlockOf
<1>4. pc[first] = "reduce" /\ ThreadSums(first, "reduce", p, reg[first], wk, s)
  BY <1>1, <1>3 DEF SumInv
<1>5. /\ p.i \in Nat /\ p.row \in Nat /\ p.comp \in Nat /\ p.grove \in Nat /\ p \in Position
      /\ p.comp < NumOutputs(request) /\ p.row < RowsAt(p.i) /\ p.row % Warps = WarpOf(first)
      /\ p.i < request.row_count
  BY <1>3, <1>4, PositionFields DEF GridInv, InRange
<1>6. p.comp \in Outputs(request) /\ p.row \in ChunkRows(p.i)
  <2>1. NumOutputs(request) \in Nat /\ launch.chunk_size \in Nat /\ request.row_count \in Nat
    BY <1>2, SharedFacts
  <2>2. RowsAt(p.i) \in Int
    BY <1>5, <2>1 DEF RowsAt, Least
  <2> HIDE DEF p
  <2> QED
    BY <1>5, <2>1, <2>2 DEF Outputs, ChunkRows
<1>7. /\ p.grove % WARP_SIZE = 0 /\ p.grove < launch.num_grove
      /\ reg[first] = BatchSum(r, p.comp, q)
  BY <1>3, <1>4 DEF ThreadSums, Loaded
<1>8. /\ q \in Groves /\ q \in Nat /\ p.grove = q * WARP_SIZE
      /\ last => q + 1 = CeilDiv(launch.num_grove, WARP_SIZE)
      /\ ~last => /\ (p.grove + WARP_SIZE) % WARP_SIZE = 0 /\ p.grove + WARP_SIZE < launch.num_grove
                  /\ (p.grove + WARP_SIZE) \div WARP_SIZE = q + 1
  BY <1>2, <1>5, <1>7, NextBatch
<1>9. \A g \in Groves : wk[Slot(p.row, p.comp, g)] = TreeSum(r, p.comp, g, request.num_tree)
  BY <1>3, <1>4, <1>5, <1>6 DEF ThreadSums, Reduced
<1>10. own = BatchLanes(r, p.comp, BatchSum(r, p.comp, q), q)
  <2>1. loaded = [l \in 0 .. (WARP_SIZE - 1) |-> GroveSum(r, p.comp, q * WARP_SIZE + l)]
    <3> SUFFICES ASSUME NEW l \in 0 .. (WARP_SIZE - 1)
                 PROVE  loaded[l] = GroveSum(r, p.comp, q * WARP_SIZE + l)
      OBVIOUS
    <3>1. loaded[l] = IF p.grove + l < launch.num_grove
                      THEN wk[Slot(p.row, p.comp, p.grove + l)] ELSE Zero
      OBVIOUS
    <3>2. p.grove + l < launch.num_grove => p.grove + l \in Groves
      BY <1>2, <1>5 DEF Groves
    <3> HIDE DEF loaded, q, r, wk, p
    <3> QED
      BY <1>8, <1>9, <3>1, <3>2 DEF GroveSum
  <2> HIDE DEF loaded
  <2> QED
    BY <1>7, <2>1 DEF BatchLanes
<1>11. ShuffleSum(own) = BatchSum(r, p.comp, q + 1)
  <2> HIDE DEF own, q, r, p
  <2> QED
    BY <1>2, <1>8, <1>10, BatchSums
<1> DEFINE v == ShuffleSum(own)
<1> HIDE DEF own
<1>12. /\ reg'[first] = v /\ \A u \in Threads : u # first => reg'[u] = reg[u]
       /\ DOMAIN reg' = Threads
  <2> HIDE DEF v
  <2> QED
    BY <1>1, <1>2, <1>3 DEF v
<1>13. ASSUME ~last PROVE ThreadSums(first, target(first).label, target(first).at, v, wk, s)
  <2> DEFINE p2 == [p EXCEPT !.grove = @ + WARP_SIZE]
  <2>1. target(first) = Place("reduce", p2)
    BY <1>13
  <2>2. p2.i = p.i /\ p2.row = p.row /\ p2.comp = p.comp /\ p2.grove = p.grove + WARP_SIZE
    BY <1>5 DEF Position
  <2>3. target(first).label = "reduce" /\ target(first).at = p2
    BY <2>1 DEF Place
  <2> HIDE DEF p2, p, q, v, last
  <2>4. Loaded(first, "reduce", p2, v)
    BY <1>8, <1>11, <1>13, <2>2 DEF Loaded, v
  <2>5. Reduced(first, "reduce", p2, wk)
    BY <1>4, <2>2 DEF ThreadSums, Reduced
  <2>6. Copied(first, "reduce", p2, s) /\ Cleared(first, "reduce", wk) /\ Added(first, "reduce", p2, wk)
    BY <2>2 DEF Copied, Cleared, Added, Working
  <2>7. Aligned(first, "reduce", p2)
    BY <1>4, <2>2 DEF ThreadSums, Aligned
  <2> QED
    BY <2>3, <2>4, <2>5, <2>6, <2>7 DEF ThreadSums
<1>14. ASSUME last PROVE ThreadSums(first, target(first).label, target(first).at, v, wk, s)
  <2>1. target(first).label = "store" /\ target(first).at = p
    BY <1>14 DEF Place
  <2> HIDE DEF p, q, v, last
  <2>2. Loaded(first, "store", p, v)
    BY <1>8, <1>11, <1>14 DEF Loaded, v, SumOfGroves, r
  <2>3. Reduced(first, "store", p, wk)
    BY <1>4 DEF ThreadSums, Reduced
  <2>4. Copied(first, "store", p, s) /\ Cleared(first, "store", wk) /\ Added(first, "store", p, wk)
    BY DEF Copied, Cleared, Added, Working
  <2>5. Aligned(first, "store", p)
    BY <1>4 DEF ThreadSums, Aligned
  <2> QED
    BY <2>1, <2>2, <2>3, <2>4, <2>5 DEF ThreadSums
<1>15. ASSUME NEW th \in lanes
       PROVE  target(th).at.i = p.i /\ target(th).label \in {"reduce", "store", "reduced"}
              /\ (th = first => target(th).label \in {"reduce", "store"} /\ target(th).at.row = p.row)
  <2>1. CASE ~last
    BY <1>5, <2>1 DEF Place, Position
  <2>2. CASE last
    BY <2>2 DEF Place, NextSum, At
  <2> QED
    BY <2>1, <2>2
<1> HIDE DEF target, v, lanes, last
<1>16. ASSUME NEW th \in Team(b)
       PROVE  ThreadSums(th, pc'[th], at'[th], reg'[th], wk, s)
  <2>1. th \in Threads /\ BlockOf(th) = b
    BY TeamThreads
  <2>2. CASE th = first
    BY <1>1, <1>3, <1>12, <1>13, <1>14, <2>1, <2>2
  <2>3. CASE th \in lanes /\ th # first
    <3>1. /\ pc'[th] = target(th).label /\ at'[th] = target(th).at
          /\ pc'[th] \in {"reduce", "store", "reduced"} /\ at'[th].i = p.i /\ ~IsFirstLane(th)
      BY <1>1, <1>3, <1>15, <2>1, <2>3
    <3>2. Aligned(th, pc'[th], at'[th])
      BY <1>4, <1>3, <2>1, <3>1 DEF ThreadSums, Aligned
    <3> QED
      BY <3>1, <3>2 DEF ThreadSums, Cleared, Copied, Added, Reduced, Loaded, Working
  <2>4. CASE th \notin lanes
    <3>1. pc'[th] = pc[th] /\ at'[th] = at[th] /\ reg'[th] = reg[th]
      BY <1>1, <1>3, <1>12, <2>1, <2>4
    <3>2. ThreadSums(th, pc[th], at[th], reg[th], wk, s)
      BY <2>1 DEF SumInv
    <3> QED
      BY <3>1, <3>2
  <2> QED
    BY <2>2, <2>3, <2>4
<1>17. DOMAIN output' = DOMAIN output /\ \A row \in Rows(request) : RowHolds(row, output)'
  <2>1. ASSUME NEW row \in Rows(request)
        PROVE  Answered(row, pc'[Answerer(row)], at'[Answerer(row)])
                 <=> Answered(row, pc[Answerer(row)], at[Answerer(row)])
    <3>1. Answerer(row) \in Threads /\ IsFirstLane(Answerer(row))
      BY AnswererAt
    <3>2. CASE Answerer(row) = first
      <4>1. /\ pc'[first] = target(first).label /\ at'[first] = target(first).at
            /\ pc'[first] \in {"reduce", "store"} /\ at'[first].i = p.i /\ at'[first].row = p.row
        BY <1>1, <1>3, <1>15
      <4> QED
        BY <1>4, <3>2, <4>1, AnsweredSame DEF Part
    <3>3. CASE Answerer(row) # first
      <4>1. Answerer(row) \notin lanes
        BY <1>3, <3>1, <3>3
      <4> QED
        BY <1>1, <3>1, <4>1
    <3> QED
      BY <3>2, <3>3
  <2> QED
    BY <1>1, <2>1, RowsKept
<1>18. \A th \in Threads \ Team(b) : pc'[th] = pc[th] /\ at'[th] = at[th] /\ reg'[th] = reg[th]
  BY <1>1, <1>3, <1>12
<1> QED
  BY <1>1, <1>2, <1>12, <1>16, <1>17, <1>18, BlockSums

(* Where a first lane stands in the second loop. *)
LEMMA FirstLaneAt ==
  ASSUME GridInv, SharedLaunch, SumInv, Running, NEW th \in Threads,
         pc[th] \in {"reduce", "store", "postprocess"}, NEW p, p = at[th]
  PROVE  /\ p \in Position /\ p.i \in Nat /\ p.row \in Nat /\ p.comp \in Nat
         /\ p.i < request.row_count /\ p.i % launch.chunk_size = 0
         /\ p.row < RowsAt(p.i) /\ p.row % Warps = WarpOf(th)
         /\ p.row \in ChunkRows(p.i) /\ p.row \in Rows(request) /\ p.row < launch.chunk_size
         /\ p.i + p.row \in Rows(request)
         /\ p.comp \in Outputs(request) /\ p.comp < NumOutputs(request)
         /\ \A row \in ChunkRows(p.i) : row \in Rows(request) /\ row \in Nat
         /\ 0 \in Groves /\ Warps \in Nat \ {0} /\ RowsAt(p.i) \in Nat
<1>1. /\ LaunchInv /\ Layout /\ NumOutputs(request) \in Nat \ {0} /\ launch.chunk_size \in Nat \ {0}
      /\ request.row_count \in Nat /\ launch.num_grove \in Nat \ {0} /\ Representable(request)
  BY SharedFacts DEF GridInv
<1>2. /\ p \in Position /\ p.i \in Nat /\ p.row \in Nat /\ p.comp \in Nat
  BY PositionFields
<1>3. /\ p.i < request.row_count /\ p.row < RowsAt(p.i) /\ p.row % Warps = WarpOf(th)
      /\ p.comp < NumOutputs(request)
  BY DEF GridInv, InRange
<1>4. p.i % launch.chunk_size = 0
  BY DEF SumInv, ThreadSums, Aligned
<1>5. RowsAt(p.i) \in Nat
  BY <1>1, <1>2, <1>3 DEF RowsAt, Least
<1>6. p.row \in ChunkRows(p.i) /\ p.comp \in Outputs(request) /\ 0 \in Groves
  BY <1>1, <1>2, <1>3, <1>5 DEF ChunkRows, Outputs, Groves
<1>7. ASSUME NEW row \in ChunkRows(p.i)
      PROVE  row \in Nat /\ row \in Rows(request) /\ row < launch.chunk_size /\ p.i + row \in Rows(request)
  <2>1. row \in Nat /\ row < launch.chunk_size /\ row < request.row_count /\ p.i + row \in Rows(request)
    BY <1>1, <1>2, <1>4, AlignedRows
  <2> QED
    BY <1>1, <2>1 DEF Rows
<1>8. Warps \in Nat \ {0}
  BY <1>1, WarpNumbers
<1> QED
  BY <1>1, <1>2, <1>3, <1>4, <1>5, <1>6, <1>7, <1>8

(* The sum of a row's output replaces its first grove. *)
LEMMA StoreSumSums ==
  ASSUME GridInv, SharedLaunch, SumInv, Running, NEW b \in Blocks, NEW th \in Team(b), StoreSum(th)
  PROVE  SumInv'
<1> DEFINE p == at[th]
           wk == workspace[b]
           s == staged[b]
           slot == Slot(p.row, p.comp, 0)
           f == [wk EXCEPT ![slot] = reg[th]]
           next == At(p.i, 0, p.row, p.comp + 1, 0)
           place == IF p.comp + 1 < NumOutputs(request) THEN NextSum(p) ELSE Place("postprocess", p)
           r == p.i + p.row
<1>1. /\ th \in Threads /\ BlockOf(th) = b /\ LaunchInv
      /\ DOMAIN workspace = Blocks /\ DOMAIN staged = Blocks /\ DOMAIN reg = Threads
      /\ DOMAIN wk = 0 .. (launch.output_workspace_size - 1)
      /\ launch.num_grove \in Nat \ {0} /\ WARP_SIZE \in Nat \ {0} /\ NumOutputs(request) \in Nat
  BY TeamThreads, SharedFacts DEF GridInv, SumInv
<1>2. /\ pc[th] = "store"
      /\ workspace' = [workspace EXCEPT ![b] = f]
      /\ staged' = staged /\ output' = output
      /\ reg' = [reg EXCEPT ![th] = Zero] /\ UNCHANGED launchVars
      /\ Goto(th, place)
  <2>1. workspace' = [workspace EXCEPT ![b][slot] = reg[th]]
    BY <1>1 DEF StoreSum
  <2> QED
    BY <1>1, <2>1 DEF StoreSum, launchVars
<1>3. Writes(b, th, f, s, Zero)
  <2> HIDE DEF f
  <2> QED
    BY <1>1, <1>2 DEF Writes
<1>4. ThreadSums(th, "store", p, reg[th], wk, s) /\ IsFirstLane(th)
  BY <1>1, <1>2 DEF SumInv, GridInv, InRange
<1>5. /\ p.i \in Nat /\ p.row \in Nat /\ p.comp \in Nat
      /\ p.row \in Rows(request) /\ p.row < launch.chunk_size
      /\ p.comp \in Outputs(request) /\ p.comp < NumOutputs(request)
      /\ \A row \in ChunkRows(p.i) : row \in Rows(request) /\ row \in Nat
      /\ p.row % Warps = WarpOf(th) /\ p.row \in ChunkRows(p.i)
      /\ 0 \in Groves
  BY <1>1, <1>2, FirstLaneAt
<1>6. /\ slot \in DOMAIN wk
      /\ \A row \in Rows(request), o \in Outputs(request), g \in Groves :
           Slot(row, o, g) = slot => row = p.row /\ o = p.comp /\ g = 0
  BY <1>1, <1>5, SlotsApart
<1>7. /\ f[slot] = SumOfGroves(r, p.comp)
      /\ \A k \in DOMAIN wk : k # slot => f[k] = wk[k]
      /\ DOMAIN f = DOMAIN wk
  <2>1. reg[th] = SumOfGroves(r, p.comp)
    BY <1>4 DEF ThreadSums, Loaded
  <2> QED
    BY <1>6, <2>1
<1>8. /\ place.at.i = p.i /\ place.at.row = p.row
      /\ \/ place.label = "reduce" /\ place.at.comp = p.comp + 1 /\ place.at.grove = 0
         \/ place.label = "postprocess" /\ place.at.comp = p.comp /\ p.comp + 1 = NumOutputs(request)
  <2>1. CASE p.comp + 1 < NumOutputs(request)
    BY <2>1 DEF NextSum, Place, At
  <2>2. CASE ~(p.comp + 1 < NumOutputs(request))
    BY <1>1, <1>5, <2>2 DEF Place
  <2> QED
    BY <2>1, <2>2
<1> HIDE DEF place, f, slot
<1>9. Reduced(th, place.label, place.at, f)
  <2> SUFFICES ASSUME NEW row \in ChunkRows(p.i), NEW o \in Outputs(request)
               PROVE  /\ row % Warps = WarpOf(th)
                             /\ \/ row > p.row
                                \/ row = p.row /\ o > place.at.comp
                                \/ row = p.row /\ o = place.at.comp /\ place.label = "reduce"
                           => \A g \in Groves : f[Slot(row, o, g)] = TreeSum(p.i + row, o, g, request.num_tree)
                      /\ row = p.row /\ (o < place.at.comp \/ place.label = "postprocess")
                           => f[Slot(row, o, 0)] = SumOfGroves(p.i + row, o)
    BY <1>8 DEF Reduced
  <2>1. /\ row \in Rows(request) /\ row \in Nat /\ o \in Nat /\ o < NumOutputs(request)
        /\ \A g \in Groves : Slot(row, o, g) \in DOMAIN wk
    <3>1. row \in Rows(request) /\ row \in Nat /\ row < launch.chunk_size
      <4>1. Layout /\ p.i % launch.chunk_size = 0
        BY <1>1, <1>2, SharedFacts, FirstLaneAt
      <4> QED
        BY <1>5, <4>1, AlignedRows
    <3>2. \A g \in Groves : Slot(row, o, g) \in 0 .. (launch.output_workspace_size - 1)
      BY <1>1, <3>1, SlotsApart
    <3>3. o \in Nat /\ o < NumOutputs(request)
      BY <1>1 DEF Outputs
    <3> QED
      BY <1>1, <3>1, <3>2, <3>3
  <2>2. /\ row % Warps = WarpOf(th)
               /\ (row > p.row \/ (row = p.row /\ o > p.comp))
             => \A g \in Groves : wk[Slot(row, o, g)] = TreeSum(p.i + row, o, g, request.num_tree)
        /\ row = p.row /\ o < p.comp => wk[Slot(row, o, 0)] = SumOfGroves(p.i + row, o)
    BY <1>4 DEF ThreadSums, Reduced
  <2>3. ~(row = p.row /\ o = p.comp) => \A g \in Groves : f[Slot(row, o, g)] = wk[Slot(row, o, g)]
    BY <1>6, <1>7, <2>1
  <2> HIDE DEF wk, p
  <2>4. ASSUME row % Warps = WarpOf(th),
               \/ row > p.row
               \/ row = p.row /\ o > place.at.comp
               \/ row = p.row /\ o = place.at.comp /\ place.label = "reduce"
        PROVE  \A g \in Groves : f[Slot(row, o, g)] = TreeSum(p.i + row, o, g, request.num_tree)
    <3>1. row > p.row \/ (row = p.row /\ o > p.comp)
      BY <1>5, <1>8, <2>1, <2>4
    <3>2. ~(row = p.row /\ o = p.comp)
      BY <1>5, <2>1, <3>1
    <3> QED
      BY <2>2, <2>3, <2>4, <3>1, <3>2
  <2>5. ASSUME row = p.row, o < place.at.comp \/ place.label = "postprocess"
        PROVE  f[Slot(row, o, 0)] = SumOfGroves(p.i + row, o)
    <3>1. o < p.comp \/ o = p.comp
      BY <1>1, <1>5, <1>8, <2>1, <2>5
    <3>2. CASE o = p.comp
      BY <1>7, <2>5, <3>2 DEF slot, r
    <3>3. CASE o # p.comp
      BY <1>5, <2>2, <2>3, <2>5, <3>1, <3>3
    <3> QED
      BY <3>2, <3>3
  <2> QED
    BY <2>4, <2>5
<1>10. Loaded(th, place.label, place.at, Zero)
  <2>1. BatchSum(r, p.comp + 1, 0) = Zero
    BY <1>1, BatchSums
  <2>2. 0 % WARP_SIZE = 0 /\ 0 < launch.num_grove /\ 0 \div WARP_SIZE = 0
    BY <1>1
  <2> HIDE DEF p
  <2> QED
    BY <1>8, <2>1, <2>2 DEF Loaded, r
<1>11. ThreadSums(th, place.label, place.at, Zero, f, s)
  <2>1. Aligned(th, place.label, place.at)
    BY <1>4, <1>8 DEF ThreadSums, Aligned
  <2>2. Cleared(th, place.label, f) /\ Copied(th, place.label, place.at, s)
        /\ Added(th, place.label, place.at, f)
    BY <1>8 DEF Cleared, Copied, Added, Working
  <2> QED
    BY <1>9, <1>10, <2>1, <2>2 DEF ThreadSums
<1>12. \A k \in DOMAIN f : k \notin Held(th) => f[k] = wk[k]
  BY <1>2, <1>7 DEF Held, slot
<1>13. DOMAIN output' = DOMAIN output /\ \A row \in Rows(request) : RowHolds(row, output)'
  <2>1. \A row \in Rows(request) : Answered(row, place.label, place.at) <=> Answered(row, pc[th], at[th])
    BY <1>2, <1>8, AnsweredSame DEF Part
  <2> QED
    BY <1>2, <2>1, AnswersKept
<1>14. \A th2 \in Team(b) : th2 # th => Copied(th2, pc[th2], at[th2], s)
  BY CopiesKept
<1> QED
  BY <1>2, <1>3, <1>7, <1>11, <1>12, <1>13, <1>14, ThreadSumsGoOn

(* Numbers with the same remainder are n apart, or the same. *)
LEMMA RemainderGap ==
  ASSUME NEW n \in Nat \ {0}, NEW x \in Nat, NEW y \in Nat, x % n = y % n, x < y + n
  PROVE  x <= y
<1> DEFINE q == x \div n
           r == x % n
           u == y \div n
<1>1. q \in Nat /\ r \in 0 .. (n - 1) /\ x = q * n + r
  BY DivMod
<1>2. u \in Nat /\ y = u * n + r
  BY DivMod
<1> HIDE DEF q, r, u
<1>3. q * n \in Nat /\ u * n \in Nat /\ r \in Nat
  BY <1>1, <1>2, MulNat
<1>4. SUFFICES ASSUME u < q PROVE FALSE
  <2>1. q <= u => q * n <= u * n
    BY <1>1, <1>2, MulMono
  <2> QED
    BY <1>1, <1>2, <1>3, <2>1
<1> DEFINE u1 == u + 1
<1>5. u1 \in Nat /\ u1 <= q /\ u1 * n = u * n + n
  BY <1>1, <1>2, <1>4
<1> HIDE DEF u1
<1>6. u1 * n <= q * n
  BY <1>1, <1>5, MulMono
<1> QED
  BY <1>1, <1>2, <1>3, <1>5, <1>6

(* The outputs of the rows have places of their own in the buffer. *)
LEMMA OutputIndex ==
  ASSUME LaunchInv, SharedLaunch, Running
  PROVE  /\ \A r \in Rows(request), o \in Outputs(request) :
              /\ U(r * NumOutputs(request) + o) = r * NumOutputs(request) + o
              /\ r * NumOutputs(request) + o \in 0 .. (request.row_count * NumOutputs(request) - 1)
         /\ \A r1, r2 \in Rows(request), o1, o2 \in Outputs(request) :
              r1 * NumOutputs(request) + o1 = r2 * NumOutputs(request) + o2 => r1 = r2 /\ o1 = o2
<1> DEFINE n == NumOutputs(request)
           m == request.row_count
           g == launch.num_grove
<1>1. n \in Nat \ {0} /\ m \in Nat /\ g \in Nat \ {0} /\ m * n * g < IndexMod /\ IndexMod \in Nat
  BY SharedFacts, Launched, LaunchAssumption
<1>2. \A r \in Rows(request) : r \in Nat /\ r < m
  BY <1>1 DEF Rows
<1>3. \A o \in Outputs(request) : o \in Nat /\ o < n
  BY <1>1 DEF Outputs
<1> HIDE DEF n, m, g
<1>4. m * n \in Nat /\ m * n < IndexMod
  <2> DEFINE x == m * n
  <2>1. x \in Nat
    BY <1>1, MulNat
  <2> HIDE DEF x
  <2>2. 1 * x <= g * x /\ g * x = x * g /\ x * g \in Nat
    BY <1>1, <2>1, MulMono, MulNat
  <2>3. x * g < IndexMod
    BY <1>1 DEF x
  <2>4. x < IndexMod
    BY <1>1, <2>1, <2>2, <2>3
  <2> QED
    BY <2>1, <2>4 DEF x
<1>5. ASSUME NEW r \in Rows(request), NEW o \in Outputs(request)
      PROVE  U(r * n + o) = r * n + o /\ r * n + o \in 0 .. (m * n - 1)
  <2>1. r * n + o < m * n /\ r * n \in Nat
    BY <1>1, <1>2, <1>3, BlockOrder, MulNat
  <2> DEFINE x == r * n + o
  <2>2. x \in Nat /\ x < IndexMod /\ x < m * n
    BY <1>1, <1>3, <1>4, <2>1
  <2> HIDE DEF x
  <2>3. U(x) = x
    BY <1>1, <2>2, NoWrap
  <2>4. x \in 0 .. (m * n - 1)
    BY <1>4, <2>2
  <2> QED
    BY <2>3, <2>4 DEF x
<1>6. ASSUME NEW r1 \in Rows(request), NEW r2 \in Rows(request),
             NEW o1 \in Outputs(request), NEW o2 \in Outputs(request), r1 * n + o1 = r2 * n + o2
      PROVE  r1 = r2 /\ o1 = o2
  BY <1>1, <1>2, <1>3, <1>6, BlockUnique
<1> QED
  BY <1>5, <1>6 DEF n, m

(* A row that is not the one a warp has completed is answered by now if it was
   before. *)
LEMMA NextRowAnswers ==
  ASSUME GridInv, SharedLaunch, SumInv, Running, NEW th \in Threads, pc[th] = "postprocess",
         NEW p, p = at[th], NEW place, place = NextSum(p), NEW r \in Rows(request), th = Answerer(r),
         r # p.i + p.row
  PROVE  Answered(r, place.label, place.at) <=> Answered(r, "postprocess", p)
<1> DEFINE row == r % launch.chunk_size
<1>1. /\ p.i \in Nat /\ p.row \in Nat /\ p.comp \in Nat /\ p.row % Warps = WarpOf(th) /\ Warps \in Nat \ {0}
      /\ RowsAt(p.i) \in Nat
  BY FirstLaneAt
<1>2. /\ row \in Nat /\ WarpOf(th) = row % Warps /\ r - row \in Nat /\ row < RowsAt(r - row) /\ r \in Nat
  BY AnswererAt
<1>3. p.comp + 1 = NumOutputs(request)
  BY DEF SumInv, ThreadSums, Aligned
<1>4. place = IF p.row + Warps < RowsAt(p.i)
              THEN Place("reduce", At(p.i, 0, p.row + Warps, 0, 0))
              ELSE Place("reduced", At(p.i, 0, 0, 0, 0))
  <2>1. ~(p.comp + 1 < NumOutputs(request))
    BY <1>1, <1>3
  <2> QED
    BY <2>1 DEF NextSum, Warps
<1> HIDE DEF row
<1>5. /\ Answered(r, "postprocess", p) <=> p.i > r - row \/ (p.i = r - row /\ p.row > row)
      /\ Answered(r, place.label, place.at) <=>
           p.i > r - row \/ (p.i = r - row /\ (p.row + Warps < RowsAt(p.i) => p.row + Warps > row))
  BY <1>4 DEF Answered, Part, Place, At, row
<1>6. ASSUME p.i = r - row
      PROVE  p.row > row <=> (p.row + Warps < RowsAt(p.i) => p.row + Warps > row)
  <2>1. row # p.row
    BY <1>1, <1>2, <1>6
  <2>2. row < p.row + Warps => row <= p.row
    BY <1>1, <1>2, RemainderGap
  <2>3. row < RowsAt(p.i)
    BY <1>2, <1>6
  <2> QED
    BY <1>1, <1>2, <2>1, <2>2, <2>3
<1> QED
  BY <1>5, <1>6

(* The row that a warp has completed is in the output, as promised. *)
LEMMA PostProcessOutputs ==
  ASSUME GridInv, SharedLaunch, SumInv, Running, NEW b \in Blocks, NEW th \in Team(b), PostProcess(th),
         NEW p, p = at[th], NEW place, place = NextSum(p)
  PROVE  /\ DOMAIN output' = DOMAIN output
         /\ \A r \in Rows(request) : RowHolds(r, output)'
         /\ \A r \in Rows(request), o \in Outputs(request) :
              output'[r * NumOutputs(request) + o] =
                IF r = p.i + p.row THEN Transform(SumOfGroves(r, o))
                ELSE output[r * NumOutputs(request) + o]
         /\ th = Answerer(p.i + p.row) /\ ~Answered(p.i + p.row, pc[th], p)
         /\ p.i + p.row \in Rows(request)
<1> DEFINE wk == workspace[b]
           n == NumOutputs(request)
           rp == p.i + p.row
           index(o) == U(rp * n + o)
<1>1. /\ th \in Threads /\ BlockOf(th) = b /\ LaunchInv /\ Layout /\ Representable(request)
      /\ pc \in [Threads -> Labels] /\ at \in [Threads -> Position]
  BY TeamThreads, SharedFacts DEF GridInv
<1>2. /\ pc[th] = "postprocess"
      /\ output' = [k \in DOMAIN output |->
                      IF \E o \in Outputs(request) : k = index(o)
                      THEN Transform(wk[Slot(p.row, k - index(0), 0)])
                      ELSE output[k]]
      /\ Goto(th, place)
      /\ UNCHANGED launchVars
  BY <1>1 DEF PostProcess, launchVars
<1>3. DOMAIN output' = DOMAIN output /\ DOMAIN output = 0 .. (request.row_count * n - 1)
  BY <1>2 DEF SumInv
<1>4. /\ p.i \in Nat /\ p.row \in Nat /\ p.comp \in Nat /\ p.row % Warps = WarpOf(th) /\ Warps \in Nat \ {0}
      /\ rp \in Rows(request) /\ p.row \in ChunkRows(p.i) /\ p.i % launch.chunk_size = 0
      /\ p.row < launch.chunk_size /\ IsFirstLane(th) /\ p.i < request.row_count
  BY <1>1, <1>2, FirstLaneAt DEF GridInv, InRange
<1>5. \A o \in Outputs(request) : wk[Slot(p.row, o, 0)] = SumOfGroves(rp, o)
  BY <1>1, <1>2, <1>4 DEF SumInv, ThreadSums, Reduced
<1>6. /\ 0 \in Outputs(request) /\ n \in Nat
      /\ \A o \in Outputs(request) : o \in Nat
      /\ \A r \in Rows(request) : r \in Nat
  <2>1. n \in Nat \ {0} /\ request.row_count \in Nat
    BY <1>1, SharedFacts
  <2> QED
    BY <2>1 DEF Outputs, Rows
<1>7. /\ \A o \in Outputs(request) : index(o) = rp * n + o
      /\ \A r \in Rows(request), o \in Outputs(request) : r * n + o \in DOMAIN output
      /\ \A r1, r2 \in Rows(request), o1, o2 \in Outputs(request) :
           r1 * n + o1 = r2 * n + o2 => r1 = r2 /\ o1 = o2
  BY <1>1, <1>3, <1>4, OutputIndex
<1>8. ASSUME NEW r \in Rows(request), NEW o \in Outputs(request)
      PROVE  output'[r * n + o] =
               IF r = rp THEN Transform(SumOfGroves(r, o)) ELSE output[r * n + o]
  <2> DEFINE k1 == r * n + o
  <2>1. \A k \in DOMAIN output :
          output'[k] = IF \E o2 \in Outputs(request) : k = index(o2)
                       THEN Transform(wk[Slot(p.row, k - index(0), 0)]) ELSE output[k]
    BY <1>2
  <2>2. k1 \in DOMAIN output
    BY <1>7
  <2>3. r = rp => k1 - index(0) = o /\ k1 = index(o)
    <3> HIDE DEF index, n, rp
    <3>1. index(0) = rp * n + 0 /\ rp * n \in Nat /\ o \in Nat /\ index(o) = rp * n + o
      BY <1>4, <1>6, <1>7, MulNat
    <3> QED
      BY <3>1
  <2>4. r # rp => ~ \E o2 \in Outputs(request) : k1 = index(o2)
    <3> HIDE DEF index, n, rp
    <3> QED
      BY <1>4, <1>7
  <2>5. output'[k1] = IF r = rp THEN Transform(SumOfGroves(r, o)) ELSE output[k1]
    <3> HIDE DEF k1, index, rp, wk
    <3> QED
      BY <1>5, <2>1, <2>2, <2>3, <2>4
  <2> QED
    BY <2>5
<1>9. th = Answerer(rp) /\ rp % launch.chunk_size = p.row /\ rp - p.row = p.i
  <2>1. rp % launch.chunk_size = p.row /\ rp \div launch.chunk_size = p.i \div launch.chunk_size
    BY <1>1, <1>4, AlignedRows
  <2>2. (p.i \div launch.chunk_size) % launch.num_blocks = BlockOf(th)
    BY <1>1 DEF SumInv, ThreadSums, Aligned
  <2>3. IdxOf(th) = (p.row % Warps) * WARP_SIZE
    <3>1. IdxOf(th) \in Nat /\ WARP_SIZE \in Nat \ {0}
      BY <1>1, WarpNumbers, SharedFacts
    <3>2. IdxOf(th) = WarpOf(th) * WARP_SIZE + (IdxOf(th) % WARP_SIZE) /\ WarpOf(th) \in Nat
      BY <3>1, DivMod DEF WarpOf
    <3>3. WarpOf(th) * WARP_SIZE \in Nat
      BY <3>1, <3>2, MulNat
    <3>4. IdxOf(th) % WARP_SIZE = 0
      BY <1>4 DEF IsFirstLane
    <3> QED
      BY <1>4, <3>2, <3>3, <3>4
  <2>4. th = <<BlockOf(th), IdxOf(th)>>
    BY <1>1 DEF Threads, BlockOf, IdxOf
  <2> HIDE DEF rp
  <2>5. Answerer(rp) = <<(p.i \div launch.chunk_size) % launch.num_blocks, (p.row % Warps) * WARP_SIZE>>
    BY <2>1 DEF Answerer
  <2>6. rp - p.row = p.i
    BY <1>4 DEF rp
  <2> QED
    BY <2>1, <2>2, <2>3, <2>4, <2>5, <2>6
<1>10. ~Answered(rp, "postprocess", p) /\ Answered(rp, place.label, place.at)
  <2>1. ~Answered(rp, "postprocess", p)
    <3> HIDE DEF rp
    <3> QED
      BY <1>4, <1>9 DEF Answered, Part
  <2>2. p.comp + 1 = NumOutputs(request)
    BY <1>1, <1>2 DEF SumInv, ThreadSums, Aligned
  <2>3. \/ place = Place("reduce", At(p.i, 0, p.row + Warps, 0, 0))
        \/ place = Place("reduced", At(p.i, 0, 0, 0, 0))
    <3>1. ~(p.comp + 1 < NumOutputs(request))
      BY <1>4, <2>2
    <3> QED
      BY <3>1 DEF NextSum, Warps
  <2> HIDE DEF rp
  <2>4. Answered(rp, place.label, place.at)
    BY <1>4, <1>9, <2>3 DEF Answered, Part, Place, At
  <2> QED
    BY <2>1, <2>4
<1> HIDE DEF rp, index, wk, n
<1>11. ASSUME NEW r \in Rows(request) PROVE RowHolds(r, output)'
  <2>1. /\ request' = request /\ phase' = phase /\ Outputs(request)' = Outputs(request)
        /\ NumOutputs(request)' = n /\ (Running' <=> Running)
        /\ Answerer(r)' = Answerer(r)
        /\ \A o : SumOfGroves(r, o)' = SumOfGroves(r, o)
        /\ \A label, p2 : Answered(r, label, p2)' <=> Answered(r, label, p2)
    BY <1>2, SameCall, SameSums DEF n
  <2>2. RowHolds(r, output) /\ phase = "launched" /\ Answerer(r) \in Threads
    BY AnswererAt DEF SumInv, Running
  <2>3. pc'[th] = place.label /\ at'[th] = place.at
        /\ \A u \in Threads : u # th => pc'[u] = pc[u] /\ at'[u] = at[u]
    BY <1>1, <1>2 DEF Goto
  <2>4. CASE r = rp
    <3>1. Answered(r, pc[Answerer(r)], at[Answerer(r)])'
      BY <1>9, <1>10, <2>1, <2>3, <2>4
    <3>2. \A o \in Outputs(request) : output'[r * n + o] = Transform(SumOfGroves(r, o))
      BY <1>8, <2>4
    <3> QED
      BY <2>1, <3>1, <3>2 DEF RowHolds, Transform
  <2>5. CASE r # rp
    <3>1. Answered(r, pc'[Answerer(r)], at'[Answerer(r)]) <=> Answered(r, pc[Answerer(r)], at[Answerer(r)])
      <4>1. CASE Answerer(r) = th
        <5>1. Answered(r, place.label, place.at) <=> Answered(r, "postprocess", p)
          BY <1>1, <1>2, <2>5, <4>1, NextRowAnswers DEF rp
        <5> QED
          BY <1>2, <2>3, <4>1, <5>1
      <4>2. CASE Answerer(r) # th
        BY <2>2, <2>3, <4>2
      <4> QED
        BY <4>1, <4>2
    <3>2. \A o \in Outputs(request) : output'[r * n + o] = output[r * n + o]
      BY <1>8, <2>5
    <3>3. Answered(r, pc[Answerer(r)], at[Answerer(r)])' <=> Answered(r, pc[Answerer(r)], at[Answerer(r)])
      BY <2>1, <3>1
    <3> QED
      BY <2>1, <2>2, <3>2, <3>3 DEF RowHolds, Zero, Transform, n
  <2> QED
    BY <2>4, <2>5
<1>12. \A r \in Rows(request), o \in Outputs(request) :
         output'[r * n + o] = IF r = rp THEN Transform(SumOfGroves(r, o)) ELSE output[r * n + o]
  BY <1>8
<1>13. th = Answerer(rp) /\ ~Answered(rp, pc[th], p)
  BY <1>2, <1>9, <1>10
<1> QED
  BY <1>3, <1>4, <1>11, <1>12, <1>13 DEF rp, n

(* A warp goes on with its next row, of which nothing has been reduced. *)
LEMMA PostProcessSums ==
  ASSUME GridInv, SharedLaunch, SumInv, Running, NEW b \in Blocks, NEW th \in Team(b), PostProcess(th)
  PROVE  SumInv'
<1> DEFINE p == at[th]
           wk == workspace[b]
           s == staged[b]
           f == [k \in DOMAIN wk |-> IF \E o \in Outputs(request) : k = Slot(p.row, o, 0)
                                     THEN Transform(wk[k]) ELSE wk[k]]
           place == NextSum(p)
<1>1. /\ th \in Threads /\ BlockOf(th) = b /\ LaunchInv /\ Layout
      /\ DOMAIN workspace = Blocks /\ DOMAIN staged = Blocks /\ DOMAIN reg = Threads
      /\ DOMAIN wk = 0 .. (launch.output_workspace_size - 1)
      /\ launch.num_grove \in Nat \ {0} /\ WARP_SIZE \in Nat \ {0} /\ NumOutputs(request) \in Nat
  BY TeamThreads, SharedFacts DEF GridInv, SumInv
<1>2. /\ pc[th] = "postprocess"
      /\ workspace' = [workspace EXCEPT ![b] = f]
      /\ staged' = staged /\ reg' = reg /\ UNCHANGED launchVars
      /\ Goto(th, place)
  BY <1>1 DEF PostProcess, launchVars
<1>3. Writes(b, th, f, s, reg[th])
  <2> HIDE DEF f
  <2> QED
    BY <1>1, <1>2 DEF Writes
<1>4. ThreadSums(th, "postprocess", p, reg[th], wk, s) /\ IsFirstLane(th)
  BY <1>1, <1>2 DEF SumInv, GridInv, InRange
<1>5. /\ p.i \in Nat /\ p.row \in Nat /\ p.comp \in Nat /\ p.i % launch.chunk_size = 0
      /\ p.row \in Rows(request)
      /\ \A row \in ChunkRows(p.i) : row \in Rows(request) /\ row \in Nat
      /\ p.row % Warps = WarpOf(th) /\ 0 \in Groves /\ Warps \in Nat \ {0}
  BY <1>1, <1>2, FirstLaneAt
<1>6. p.comp + 1 = NumOutputs(request) /\ reg[th] = Zero
  BY <1>4 DEF ThreadSums, Aligned, Loaded
<1>7. /\ place.at.i = p.i
      /\ \/ /\ place.label = "reduce" /\ place.at.row = p.row + Warps
            /\ place.at.comp = 0 /\ place.at.grove = 0
         \/ place.label = "reduced"
  <2>1. ~(p.comp + 1 < NumOutputs(request))
    BY <1>1, <1>6
  <2> QED
    BY <2>1 DEF NextSum, Place, At, Warps
<1>8. DOMAIN f = DOMAIN wk /\ \A k \in DOMAIN wk : k \notin {Slot(p.row, o, 0) : o \in Outputs(request)} => f[k] = wk[k]
  OBVIOUS
<1> HIDE DEF place, f
<1>9. Reduced(th, place.label, place.at, f)
  <2> SUFFICES ASSUME place.label = "reduce", NEW row \in ChunkRows(p.i), NEW o \in Outputs(request)
               PROVE  /\ row % Warps = WarpOf(th)
                             /\ \/ row > place.at.row
                                \/ row = place.at.row /\ o > place.at.comp
                                \/ row = place.at.row /\ o = place.at.comp /\ place.label = "reduce"
                           => \A g \in Groves : f[Slot(row, o, g)] = TreeSum(p.i + row, o, g, request.num_tree)
                      /\ row = place.at.row /\ (o < place.at.comp \/ place.label = "postprocess")
                           => f[Slot(row, o, 0)] = SumOfGroves(p.i + row, o)
    BY <1>7 DEF Reduced
  <2>1. /\ row \in Rows(request) /\ row \in Nat /\ o \in Nat
        /\ \A g \in Groves : Slot(row, o, g) \in DOMAIN wk
    <3>1. row \in Rows(request) /\ row \in Nat /\ row < launch.chunk_size
      BY <1>1, <1>5, AlignedRows
    <3>2. \A g \in Groves : Slot(row, o, g) \in 0 .. (launch.output_workspace_size - 1)
      BY <1>1, <3>1, SlotsApart
    <3>3. o \in Nat
      BY <1>1 DEF Outputs
    <3> QED
      BY <1>1, <3>1, <3>2, <3>3
  <2>2. row % Warps = WarpOf(th) /\ row > p.row =>
          \A g \in Groves : wk[Slot(row, o, g)] = TreeSum(p.i + row, o, g, request.num_tree)
    BY <1>4 DEF ThreadSums, Reduced
  <2>3. row # p.row => \A g \in Groves : f[Slot(row, o, g)] = wk[Slot(row, o, g)]
    <3>1. row # p.row => \A g \in Groves : \A o2 \in Outputs(request) : Slot(row, o, g) # Slot(p.row, o2, 0)
      BY <1>1, <1>5, <2>1, SlotsApart
    <3> QED
      BY <1>8, <2>1, <3>1
  <2> HIDE DEF wk, p
  <2>4. ASSUME row % Warps = WarpOf(th),
               \/ row > place.at.row
               \/ row = place.at.row /\ o > place.at.comp
               \/ row = place.at.row /\ o = place.at.comp /\ place.label = "reduce"
        PROVE  \A g \in Groves : f[Slot(row, o, g)] = TreeSum(p.i + row, o, g, request.num_tree)
    <3>1. row > p.row /\ row # p.row
      BY <1>5, <1>7, <2>1, <2>4
    <3> QED
      BY <2>2, <2>3, <2>4, <3>1
  <2>5. ~(o < place.at.comp)
    BY <1>7, <2>1
  <2> QED
    BY <2>4, <2>5
<1>10. Loaded(th, place.label, place.at, Zero)
  <2>1. \A r : BatchSum(r, 0, 0) = Zero
    BY <1>1, BatchSums
  <2>2. 0 % WARP_SIZE = 0 /\ 0 < launch.num_grove /\ 0 \div WARP_SIZE = 0
    BY <1>1
  <2> HIDE DEF p
  <2> QED
    BY <1>7, <2>1, <2>2 DEF Loaded
<1>11. ThreadSums(th, place.label, place.at, reg[th], f, s)
  <2>1. Aligned(th, place.label, place.at)
    BY <1>4, <1>7 DEF ThreadSums, Aligned
  <2>2. Cleared(th, place.label, f) /\ Copied(th, place.label, place.at, s)
        /\ Added(th, place.label, place.at, f)
    BY <1>7 DEF Cleared, Copied, Added, Working
  <2> QED
    BY <1>6, <1>9, <1>10, <2>1, <2>2 DEF ThreadSums
<1>12. \A k \in DOMAIN f : k \notin Held(th) => f[k] = wk[k]
  BY <1>2, <1>8 DEF Held
<1>13. DOMAIN output' = DOMAIN output /\ \A row \in Rows(request) : RowHolds(row, output)'
  BY PostProcessOutputs DEF place
<1>14. \A th2 \in Team(b) : th2 # th => Copied(th2, pc[th2], at[th2], s)
  BY CopiesKept
<1> QED
  BY <1>2, <1>3, <1>8, <1>11, <1>12, <1>13, <1>14, ThreadSumsGoOn

-----------------------------------------------------------------------------
(* The barriers *)

(* The threads of a block go on together, and write nothing. *)
LEMMA TeamSumsGoOn ==
  ASSUME GridInv, SharedLaunch, SumInv, Running, NEW b \in Blocks, NEW next, Release(b, next),
         \A th \in Team(b) :
           ThreadSums(th, next[th].label, next[th].at, reg[th], workspace[b], staged[b]),
         \A r \in Rows(request) : \A th \in Team(b) : th = Answerer(r) =>
           (Answered(r, next[th].label, next[th].at) <=> Answered(r, pc[th], at[th]))
  PROVE  SumInv'
<1>1. /\ Team(b) \subseteq Threads
      /\ DOMAIN staged = Blocks /\ DOMAIN reg = Threads
  BY TeamThreads DEF SumInv
<1>2. /\ \A th \in Team(b) : pc'[th] = next[th].label /\ at'[th] = next[th].at
      /\ \A th \in Threads \ Team(b) : pc'[th] = pc[th] /\ at'[th] = at[th]
      /\ workspace' = workspace /\ staged' = staged /\ output' = output /\ reg' = reg
      /\ UNCHANGED launchVars
  BY <1>1 DEF Release, launchVars
<1>3. DOMAIN output' = DOMAIN output /\ \A r \in Rows(request) : RowHolds(r, output)'
  <2>1. ASSUME NEW r \in Rows(request)
        PROVE  Answered(r, pc'[Answerer(r)], at'[Answerer(r)]) <=> Answered(r, pc[Answerer(r)], at[Answerer(r)])
    <3>1. Answerer(r) \in Threads
      BY AnswererAt
    <3>2. CASE Answerer(r) \in Team(b)
      BY <1>2, <3>2
    <3>3. CASE Answerer(r) \notin Team(b)
      BY <1>2, <3>1, <3>3
    <3> QED
      BY <3>2, <3>3
  <2> QED
    BY <1>2, <2>1, RowsKept
<1>4. \A th \in Team(b) : ThreadSums(th, pc'[th], at'[th], reg'[th], workspace'[b], staged'[b])
  BY <1>2
<1> QED
  BY <1>1, <1>2, <1>3, <1>4, BlockSums

(* Behind sync(), the whole workspace is clear and the rows are there. *)
LEMMA SyncBarrierSums ==
  ASSUME GridInv, SharedLaunch, SumInv, Running, NEW b \in Blocks, SyncBarrier(b)
  PROVE  SumInv'
<1> DEFINE next == [th \in Team(b) |-> TaskFrom(th, 0)]
           wk == workspace[b]
           s == staged[b]
           T == launch.threads_per_block
           n == launch.chunk_size
<1>1. /\ \A th \in Team(b) : pc[th] = "sync"
      /\ Release(b, next)
  BY DEF SyncBarrier, Waiting
<1>2. /\ LaunchInv /\ Layout /\ Representable(request) /\ request \in Call
      /\ T \in Nat \ {0} /\ request.num_tree \in Nat /\ n \in Nat
      /\ launch.output_workspace_size \in Nat
      /\ DOMAIN wk = 0 .. (launch.output_workspace_size - 1)
      /\ Team(b) \subseteq Threads
      /\ \A th \in Team(b) : BlockOf(th) = b /\ ThreadSums(th, "sync", at[th], reg[th], wk, s)
  BY <1>1, SharedFacts, TeamThreads DEF GridInv, SumInv
<1>3. \A k \in Nat : <<b, k % T>> \in Team(b) /\ IdxOf(<<b, k % T>>) = k % T
  <2> TAKE k \in Nat
  <2>1. k % T \in 0 .. (T - 1)
    BY <1>2, DivMod
  <2> QED
    BY <2>1 DEF Team, Lanes, IdxOf
<1>4. \A k \in DOMAIN wk : wk[k] = Zero
  <2> TAKE k \in DOMAIN wk
  <2>1. k \in Nat
    BY <1>2
  <2>2. Cleared(<<b, k % T>>, "sync", wk)
    BY <1>2, <1>3, <2>1 DEF ThreadSums
  <2> QED
    BY <1>3, <2>1, <2>2 DEF Cleared
<1>5. ASSUME NEW th \in Team(b)
      PROVE  /\ next[th].label \in {"evaluate", "inferred"} /\ next[th].at.i = at[th].i
             /\ at[th].i \in Nat /\ at[th].i % n = 0
  <2>1. next[th] = TaskFrom(th, 0) /\ pc[th] # "exit" /\ th \in Threads
    BY <1>1, <1>2
  <2>2. at[th].i \in Nat /\ at[th].i % n = 0
    BY <1>2, <2>1, PositionFields DEF ThreadSums, Aligned
  <2> HIDE DEF next
  <2> QED
    BY <1>2, <2>1, <2>2, TaskFromPlace
<1>6. ASSUME NEW th \in Team(b), CopyFits(at[th].i), NEW k \in 0 .. (RowsAt(at[th].i) * request.col_count - 1)
      PROVE  s[k] = at[th].i * request.col_count + k
  <2>1. k \in Nat
    OBVIOUS
  <2> DEFINE u == <<b, k % T>>
  <2>2. u \in Team(b) /\ IdxOf(u) = k % T
    BY <1>3, <2>1
  <2> HIDE DEF u
  <2>3. at[u].i = at[th].i
    BY <2>2 DEF GridInv, Together
  <2>4. Copied(u, "sync", at[u], s)
    BY <1>2, <2>2 DEF ThreadSums
  <2> QED
    BY <1>6, <2>2, <2>3, <2>4 DEF Copied
<1>7. ASSUME NEW th \in Team(b) PROVE Added(th, next[th].label, next[th].at, wk)
  <2> DEFINE place == next[th]
             i == at[th].i
  <2>0. place = TaskFrom(th, 0) /\ place.at.i = i /\ i \in Nat /\ i % n = 0 /\ i = at[th].i /\ th \in Threads
    BY <1>2, <1>5
  <2> HIDE DEF place, i
  <2> SUFFICES ASSUME NEW row \in ChunkRows(i), NEW o \in Outputs(request), NEW g \in Groves,
                      Server(row, o, g) = IdxOf(th)
               PROVE  wk[Slot(row, o, g)] = TreeSum(i + row, o, g, Frontier(place.label, place.at, o))
    BY <2>0 DEF Added, place
  <2>1. row \in Nat /\ row < n /\ row \in Rows(request)
    <3>1. row \in Nat /\ row < n /\ row < request.row_count
      BY <1>2, <2>0, AlignedRows
    <3>2. request.row_count \in Nat
      BY <1>2, CallFields
    <3> QED
      BY <3>1, <3>2 DEF Rows
  <2>2. wk[Slot(row, o, g)] = Zero
    BY <1>2, <1>4, <2>1, SlotsApart
  <2>3. TreeSum(i + row, o, g, 0) = Zero
    BY <1>2, TreeSums
  <2>4. \A u \in Trees(request) : u >= 0 <=> u * n + row >= 0
    <3> SUFFICES ASSUME NEW u \in Trees(request) PROVE u >= 0 /\ u * n + row >= 0
      OBVIOUS
    <3>1. u \in Nat
      BY <1>2 DEF Trees
    <3>2. u * n \in Nat
      BY <1>2, <3>1, MulNat
    <3> QED
      BY <2>1, <3>1, <3>2
  <2>5. 0 \in Nat /\ 0 \in 0 .. request.num_tree
    BY <1>2
  <2>6. TreeSum(i + row, o, g, 0) = TreeSum(i + row, o, g, Frontier(place.label, place.at, o))
    BY <1>2, <2>0, <2>4, <2>5, TaskSums
  <2> QED
    BY <2>2, <2>3, <2>6
<1> HIDE DEF next
<1>8. ASSUME NEW th \in Team(b)
      PROVE  ThreadSums(th, next[th].label, next[th].at, reg[th], wk, s)
  <2>1. Aligned(th, next[th].label, next[th].at)
    BY <1>2, <1>5 DEF ThreadSums, Aligned
  <2>2. Copied(th, next[th].label, next[th].at, s)
    BY <1>5, <1>6 DEF Copied
  <2>3. /\ Cleared(th, next[th].label, wk) /\ Reduced(th, next[th].label, next[th].at, wk)
    BY <1>5 DEF Cleared, Reduced
  <2>4. Loaded(th, next[th].label, next[th].at, reg[th])
    BY <1>2, <1>5 DEF ThreadSums, Loaded
  <2> QED
    BY <1>7, <2>1, <2>2, <2>3, <2>4 DEF ThreadSums
<1>9. \A r \in Rows(request) : \A th \in Team(b) :
        Answered(r, next[th].label, next[th].at) <=> Answered(r, pc[th], at[th])
  BY <1>1, <1>5, AnsweredSame DEF Part
<1> QED
  BY <1>1, <1>8, <1>9, TeamSumsGoOn

(* Between the loops, every element of the workspace holds all its trees. *)
LEMMA InferredBarrierSums ==
  ASSUME GridInv, SharedLaunch, SumInv, Running, NEW b \in Blocks, InferredBarrier(b)
  PROVE  SumInv'
<1> DEFINE next == [th \in Team(b) |-> StartSum(th, at[th].i)]
           wk == workspace[b]
           s == staged[b]
           n == launch.chunk_size
<1>1. /\ \A th \in Team(b) : pc[th] = "inferred"
      /\ Release(b, next)
  BY DEF InferredBarrier, Waiting
<1>2. /\ LaunchInv /\ Layout /\ Representable(request) /\ launch.num_grove \in Nat \ {0}
      /\ WARP_SIZE \in Nat \ {0} /\ Warps \in Nat \ {0} /\ NumOutputs(request) \in Nat
      /\ Team(b) \subseteq Threads
      /\ \A th \in Team(b) : BlockOf(th) = b /\ ThreadSums(th, "inferred", at[th], reg[th], wk, s)
  BY <1>1, SharedFacts, TeamThreads, WarpNumbers DEF GridInv, SumInv
<1>3. ASSUME NEW th \in Team(b)
      PROVE  /\ next[th].at.i = at[th].i /\ at[th].i \in Nat /\ at[th].i % n = 0
             /\ WarpOf(th) \in Nat
             /\ IF WarpOf(th) < RowsAt(at[th].i)
                THEN /\ next[th].label = "reduce" /\ next[th].at.row = WarpOf(th)
                     /\ next[th].at.comp = 0 /\ next[th].at.grove = 0
                ELSE next[th].label = "reduced" /\ next[th].at.row = 0
  <2>1. next[th] = StartSum(th, at[th].i) /\ th \in Threads
    BY <1>2
  <2>2. at[th].i \in Nat /\ at[th].i % n = 0 /\ WarpOf(th) \in Nat
    BY <1>2, <2>1, PositionFields, WarpNumbers DEF ThreadSums, Aligned
  <2> HIDE DEF next
  <2> QED
    BY <2>1, <2>2 DEF StartSum, Place, At
<1> HIDE DEF next
<1>4. ASSUME NEW th \in Team(b), NEW row \in ChunkRows(at[th].i), NEW o \in Outputs(request), NEW g \in Groves
      PROVE  wk[Slot(row, o, g)] = TreeSum(at[th].i + row, o, g, request.num_tree)
  <2> DEFINE u == <<b, Server(row, o, g)>>
  <2>1. row \in Nat /\ row < n
    BY <1>2, <1>3, AlignedRows
  <2>2. u \in Team(b) /\ IdxOf(u) = Server(row, o, g)
    BY <1>2, <2>1, ServerInside DEF Team, IdxOf
  <2> HIDE DEF u
  <2>3. at[u].i = at[th].i
    BY <2>2 DEF GridInv, Together
  <2>4. Added(u, "inferred", at[u], wk)
    BY <1>2, <2>2 DEF ThreadSums
  <2> QED
    BY <2>2, <2>3, <2>4 DEF Added, Working, Frontier
<1>5. ASSUME NEW th \in Team(b)
      PROVE  ThreadSums(th, next[th].label, next[th].at, reg[th], wk, s)
  <2>1. Aligned(th, next[th].label, next[th].at)
    BY <1>2, <1>3 DEF ThreadSums, Aligned
  <2>2. /\ Copied(th, next[th].label, next[th].at, s) /\ Cleared(th, next[th].label, wk)
        /\ Added(th, next[th].label, next[th].at, wk)
    BY <1>3 DEF Cleared, Copied, Added, Working
  <2>3. Reduced(th, next[th].label, next[th].at, wk)
    <3>1. next[th].label = "reduce" => next[th].at.comp = 0
      BY <1>3
    <3>2. \A o \in Outputs(request) : ~(o < 0)
      BY <1>2 DEF Outputs
    <3>3. next[th].label \in {"reduce", "reduced"} /\ next[th].at.i = at[th].i
      BY <1>3
    <3> QED
      BY <1>4, <3>1, <3>2, <3>3 DEF Reduced
  <2>4. Loaded(th, next[th].label, next[th].at, reg[th])
    <3>1. \A r : BatchSum(r, 0, 0) = Zero
      BY <1>2, BatchSums
    <3>2. 0 % WARP_SIZE = 0 /\ 0 < launch.num_grove /\ 0 \div WARP_SIZE = 0
      BY <1>2
    <3>3. IsFirstLane(th) => reg[th] = Zero
      BY <1>2 DEF ThreadSums, Loaded
    <3> QED
      BY <1>3, <3>1, <3>2, <3>3 DEF Loaded
  <2> QED
    BY <2>1, <2>2, <2>3, <2>4 DEF ThreadSums
<1>6. ASSUME NEW r \in Rows(request), NEW th \in Team(b), th = Answerer(r)
      PROVE  Answered(r, next[th].label, next[th].at) <=> Answered(r, pc[th], at[th])
  <2> DEFINE row == r % launch.chunk_size
             p == at[th]
  <2>1. row \in Nat /\ WarpOf(th) = row % Warps /\ r - row \in Nat /\ row < RowsAt(r - row)
    BY <1>6, AnswererAt
  <2>2. row % Warps <= row
    BY <1>2, <2>1, DivMod
  <2>3. p.i \in Nat /\ next[th].at.i = p.i /\ WarpOf(th) \in Nat
    BY <1>3
  <2>4. Answered(r, pc[th], p) <=> p.i > r - row
    BY <1>1 DEF Answered, Part
  <2>5. ASSUME p.i = r - row PROVE ~Answered(r, next[th].label, next[th].at)
    <3>1. RowsAt(p.i) \in Int
      <4>1. launch.chunk_size \in Nat /\ request.row_count \in Nat
        BY SharedFacts DEF GridInv
      <4> QED
        BY <2>3, <4>1 DEF RowsAt, Least
    <3>2. WarpOf(th) <= row /\ WarpOf(th) < RowsAt(p.i)
      <4> HIDE DEF row
      <4> QED
        BY <2>1, <2>2, <2>3, <2>5, <3>1
    <3>3. next[th].label = "reduce" /\ next[th].at.row = WarpOf(th)
      BY <1>3, <3>2
    <3>4. ~(next[th].at.i > r - row) /\ ~(WarpOf(th) > row)
      <4> HIDE DEF row, p
      <4> QED
        BY <2>1, <2>3, <2>5, <3>2
    <3> QED
      BY <3>3, <3>4 DEF Answered
  <2>6. p.i # r - row => (Answered(r, next[th].label, next[th].at) <=> p.i > r - row)
    BY <2>3 DEF Answered
  <2> QED
    <3>1. p.i = r - row => ~(p.i > r - row)
      <4> HIDE DEF row, p
      <4> QED
        BY <2>1, <2>3
    <3> QED
      BY <2>4, <2>5, <2>6, <3>1
<1> QED
  BY <1>1, <1>5, <1>6, TeamSumsGoOn

(* The next chunk of a block is num_blocks chunks on, exactly. *)
LEMMA NextChunkExact ==
  ASSUME LaunchInv, SharedLaunch, Running, NEW i \in Nat, i < request.row_count,
         i % launch.chunk_size = 0
  PROVE  /\ NextChunk(i) = i + launch.chunk_size * launch.num_blocks
         /\ NextChunk(i) \in Nat /\ NextChunk(i) > i
         /\ NextChunk(i) % launch.chunk_size = 0
         /\ (NextChunk(i) \div launch.chunk_size) % launch.num_blocks
              = (i \div launch.chunk_size) % launch.num_blocks
         /\ \A a \in Nat : /\ a % launch.chunk_size = 0
                           /\ (a \div launch.chunk_size) % launch.num_blocks
                                = (i \div launch.chunk_size) % launch.num_blocks
                           => (NextChunk(i) > a <=> i >= a)
<1> DEFINE k == launch.chunk_size
           nb == launch.num_blocks
           d == i \div k
           d2 == d + nb
           x == i + k * nb
<1>1. /\ k \in Nat \ {0} /\ nb \in Nat \ {0} /\ request.row_count \in Nat
      /\ request.row_count + k * nb <= IndexMod /\ IndexMod \in Nat
  BY SharedFacts, LaunchAssumption DEF SharedLaunch, LastStepFits
<1>2. NextChunk(i) = U(x)
  BY DEF NextChunk
<1>3. i % k = 0
  OBVIOUS
<1> HIDE DEF k, nb
<1>4. k * nb \in Nat /\ k * nb = nb * k /\ k * nb > 0
  <2>1. 1 * nb <= k * nb
    BY <1>1, MulMono
  <2> QED
    BY <1>1, <2>1, MulNat
<1>5. x \in Nat /\ x < IndexMod
  BY <1>1, <1>4
<1>6. NextChunk(i) = x
  <2> HIDE DEF x
  <2> QED
    BY <1>1, <1>2, <1>5, NoWrap
<1>7. d \in Nat /\ i = d * k + (i % k) /\ d * k \in Nat
  BY <1>1, DivMod, MulNat
<1>8. i = d * k
  BY <1>3, <1>7
<1> HIDE DEF d
<1>9. d2 \in Nat /\ d2 * k = d * k + nb * k
  <2>1. (d + nb) * k = d * k + nb * k
    BY <1>1, <1>7
  <2> QED
    BY <1>1, <1>7, <2>1
<1>10. x = d2 * k + 0
  BY <1>4, <1>7, <1>8, <1>9
<1>11. 0 \in 0 .. (k - 1)
  BY <1>1
<1> HIDE DEF d2, x
<1>12. x % k = 0 /\ x \div k = d2
  BY <1>1, <1>9, <1>10, <1>11, DivUnique
<1>13. d2 % nb = d % nb
  <2> DEFINE u == d \div nb
             v == d % nb
             u1 == u + 1
  <2>1. u \in Nat /\ v \in 0 .. (nb - 1) /\ d = u * nb + v
    BY <1>1, <1>7, DivMod
  <2> HIDE DEF u, v
  <2>2. u1 \in Nat /\ u1 * nb = u * nb + nb /\ u * nb \in Nat
    BY <1>1, <2>1, MulNat
  <2>3. d2 = u1 * nb + v
    BY <1>1, <2>1, <2>2 DEF d2
  <2> HIDE DEF u1
  <2>4. d2 % nb = v
    BY <1>1, <2>1, <2>2, <2>3, DivUnique
  <2> QED
    BY <2>4 DEF v
<1>14. ASSUME NEW a \in Nat, a % k = 0, (a \div k) % nb = d % nb
       PROVE  x > a <=> i >= a
  <2> DEFINE c == a \div k
  <2>1. c \in Nat /\ a = c * k + (a % k) /\ c * k \in Nat
    BY <1>1, DivMod, MulNat
  <2>2. a = c * k /\ c % nb = d % nb
    BY <1>14, <2>1
  <2> HIDE DEF c
  <2>3. i >= a => x > a
    BY <1>4, <1>8, <1>9, <1>10, <1>7
  <2>4. ASSUME x > a PROVE i >= a
    <3>1. c < d2
      <4>1. SUFFICES ASSUME d2 <= c PROVE FALSE
        BY <1>9, <2>1
      <4>2. d2 * k <= c * k /\ d2 * k \in Nat
        BY <1>1, <1>9, <2>1, <4>1, MulMono, MulNat
      <4> QED
        BY <1>10, <2>1, <2>2, <2>4, <4>2
    <3>2. c <= d
      <4>1. c < d + nb
        BY <3>1 DEF d2
      <4> QED
        BY <1>1, <1>7, <2>1, <2>2, <4>1, RemainderGap
    <3>3. c * k <= d * k
      BY <1>1, <1>7, <2>1, <3>2, MulMono
    <3> QED
      BY <1>8, <2>2, <3>3
  <2> QED
    BY <2>3, <2>4
<1>15. x > i
  BY <1>4, <1>7, <1>8, <1>9, <1>10
<1> QED
  BY <1>5, <1>6, <1>12, <1>13, <1>14, <1>15 DEF k, nb, d, x

(* When a block takes its next chunk, its rows have been answered. *)
LEMMA ReducedBarrierSums ==
  ASSUME GridInv, SharedLaunch, SumInv, Running, NEW b \in Blocks, ReducedBarrier(b)
  PROVE  SumInv'
<1> DEFINE next == [th \in Team(b) |-> Chunk(NextChunk(at[th].i))]
           wk == workspace[b]
           s == staged[b]
           k == launch.chunk_size
           nb == launch.num_blocks
<1>1. /\ \A th \in Team(b) : pc[th] = "reduced"
      /\ Release(b, next)
  BY DEF ReducedBarrier, Waiting
<1>2. /\ LaunchInv /\ Team(b) \subseteq Threads /\ request.row_count \in Nat
      /\ \A th \in Team(b) : BlockOf(th) = b /\ ThreadSums(th, "reduced", at[th], reg[th], wk, s)
  BY <1>1, SharedFacts, TeamThreads DEF GridInv, SumInv
<1>3. ASSUME NEW th \in Team(b)
      PROVE  /\ at[th].i \in Nat /\ at[th].i < request.row_count /\ at[th].i % k = 0
             /\ (at[th].i \div k) % nb = b
             /\ next[th].at.i = NextChunk(at[th].i)
             /\ \/ next[th].label = "stage"
                \/ next[th].label = "exit" /\ NextChunk(at[th].i) >= request.row_count
             /\ next[th].at.row = 0
  <2>1. th \in Threads /\ next[th] = Chunk(NextChunk(at[th].i)) /\ pc[th] # "exit"
    BY <1>1, <1>2
  <2>2. /\ at[th].i \in Nat /\ at[th].i < request.row_count /\ at[th].i % k = 0
        /\ (at[th].i \div k) % nb = b
    BY <1>2, <2>1, PositionFields DEF GridInv, InRange, ThreadSums, Aligned
  <2>3. NextChunk(at[th].i) \in Nat
    BY <1>2, <2>2, NextChunkExact
  <2> HIDE DEF next
  <2> QED
    BY <1>2, <2>1, <2>2, <2>3 DEF Chunk, Place, At
<1> HIDE DEF next
<1>4. ASSUME NEW th \in Team(b)
      PROVE  ThreadSums(th, next[th].label, next[th].at, reg[th], wk, s)
  <2>1. Aligned(th, next[th].label, next[th].at)
    <3>1. NextChunk(at[th].i) % k = 0 /\ (NextChunk(at[th].i) \div k) % nb = b /\ BlockOf(th) = b
      BY <1>2, <1>3, NextChunkExact
    <3> QED
      BY <1>3, <3>1 DEF Aligned
  <2>2. /\ Copied(th, next[th].label, next[th].at, s) /\ Cleared(th, next[th].label, wk)
        /\ Added(th, next[th].label, next[th].at, wk) /\ Reduced(th, next[th].label, next[th].at, wk)
    BY <1>3 DEF Cleared, Copied, Added, Reduced, Working
  <2>3. Loaded(th, next[th].label, next[th].at, reg[th])
    BY <1>2, <1>3 DEF ThreadSums, Loaded
  <2> QED
    BY <2>1, <2>2, <2>3 DEF ThreadSums
<1>5. ASSUME NEW r \in Rows(request), NEW th \in Team(b), th = Answerer(r)
      PROVE  Answered(r, next[th].label, next[th].at) <=> Answered(r, pc[th], at[th])
  <2> DEFINE row == r % k
             a == r - row
             i == at[th].i
  <2>1. /\ a \in Nat /\ a % k = 0 /\ (a \div k) % nb = b
    <3>1. /\ r - row \in Nat /\ (r - row) % k = 0 /\ (r - row) \div k = r \div k
          /\ BlockOf(th) = (r \div k) % nb
      BY <1>5, AnswererAt
    <3> QED
      BY <1>2, <3>1
  <2>2. NextChunk(i) > a <=> i >= a
    BY <1>2, <1>3, <2>1, NextChunkExact
  <2>3. Answered(r, pc[th], at[th]) <=> i > a \/ i = a
    BY <1>1 DEF Answered, Part
  <2>4. Answered(r, next[th].label, next[th].at) <=> NextChunk(i) > a
    BY <1>3 DEF Answered, Part
  <2>5. i >= a <=> i > a \/ i = a
    BY <1>3, <2>1
  <2> QED
    BY <2>2, <2>3, <2>4, <2>5
<1> QED
  BY <1>1, <1>4, <1>5, TeamSumsGoOn

-----------------------------------------------------------------------------
(* The call before the grid starts and after it has ended *)

LEMMA KeptSums ==
  ASSUME request' = request, launch' = launch
  PROVE  /\ \A r, o, g, n : TreeSum(r, o, g, n)' = TreeSum(r, o, g, n)
         /\ \A r, o : SumOfGroves(r, o)' = SumOfGroves(r, o)
         /\ Outputs(request)' = Outputs(request) /\ Rows(request)' = Rows(request)
         /\ NumOutputs(request)' = NumOutputs(request)
         /\ Threads' = Threads /\ Blocks' = Blocks /\ Warps' = Warps
         /\ \A r : Answerer(r)' = Answerer(r)
         /\ \A r, label, p : Answered(r, label, p)' <=> Answered(r, label, p)
<1>1. \A r, o, g, n : TreeSum(r, o, g, n)' = TreeSum(r, o, g, n)
  BY DEF TreeSum, Feeds, GroveOf, ServerOf, TermOf, CompOf, OutputOf, Zero, AddTerm
<1>2. \A r, o, n : BatchSum(r, o, n)' = BatchSum(r, o, n)
  BY <1>1 DEF BatchSum, Zero, TreeSum, Feeds, GroveOf, ServerOf, TermOf, CompOf, OutputOf, AddTerm
<1>3. CeilDiv(launch.num_grove, WARP_SIZE)' = CeilDiv(launch.num_grove, WARP_SIZE)
  OBVIOUS
<1> HIDE DEF CeilDiv
<1>4. \A r, o : SumOfGroves(r, o)' = SumOfGroves(r, o)
  <2>1. \A r, o : SumOfGroves(r, o)' = BatchSum(r, o, CeilDiv(launch.num_grove, WARP_SIZE))'
    BY DEF SumOfGroves
  <2> QED
    BY <1>2, <1>3, <2>1 DEF SumOfGroves
<1>5. /\ Outputs(request)' = Outputs(request) /\ Rows(request)' = Rows(request)
      /\ NumOutputs(request)' = NumOutputs(request)
      /\ Threads' = Threads /\ Blocks' = Blocks /\ Warps' = Warps
  BY DEF Threads, Blocks, Lanes, Warps
<1>6. /\ \A r : Answerer(r)' = Answerer(r)
      /\ \A r, label, p : Answered(r, label, p)' <=> Answered(r, label, p)
  BY DEF Answerer, Answered, Warps
<1> QED
  BY <1>1, <1>4, <1>5, <1>6

(* Every output of every row is in the buffer. *)
LEMMA OutputPlace ==
  ASSUME request \in Call, NEW r \in Rows(request), NEW o \in Outputs(request)
  PROVE  r * NumOutputs(request) + o \in 0 .. (request.row_count * NumOutputs(request) - 1)
<1> DEFINE n == NumOutputs(request)
           m == request.row_count
<1>1. n \in Nat \ {0} /\ m \in Nat
  BY OutputSizes, CallFields
<1>2. r \in Nat /\ r < m /\ o \in Nat /\ o < n
  BY <1>1 DEF Rows, Outputs
<1> HIDE DEF n, m
<1>3. r * n + o < m * n /\ r * n \in Nat /\ m * n \in Nat
  BY <1>1, <1>2, BlockOrder, MulNat
<1>4. r * n + o \in 0 .. (m * n - 1)
  BY <1>2, <1>3
<1> QED
  BY <1>4 DEF n, m

(* A call starts with an output of zeros. *)
LEMMA InitSums ==
  ASSUME Init
  PROVE  SumInv
<1>1. /\ request \in Call /\ phase = "called"
      /\ output = [k \in 0 .. (request.row_count * NumOutputs(request) - 1) |-> Zero]
  BY CallsAssumption DEF Init, LaunchInit
<1>2. \A r \in Rows(request), o \in Outputs(request) : output[r * NumOutputs(request) + o] = Zero
  BY <1>1, OutputPlace
<1>3. \A r \in Rows(request) : RowHolds(r, output)
  BY <1>1, <1>2 DEF RowHolds, Running
<1> QED
  BY <1>1, <1>3 DEF SumInv, Running

(* A call that is refused, or over, has no grid. *)
LEMMA IdleSums ==
  ASSUME SumInv, request' = request, launch' = launch, output' = output,
         ~Running, phase # "done", phase' \notin {"launched", "done"}
  PROVE  SumInv'
<1>1. DOMAIN output' = 0 .. (request'.row_count * NumOutputs(request)' - 1)
  BY KeptSums DEF SumInv
<1>2. ASSUME NEW r \in Rows(request) PROVE RowHolds(r, output)'
  <2>1. \A o \in Outputs(request) : output[r * NumOutputs(request) + o] = Zero
    BY DEF SumInv, RowHolds
  <2>2. ~Running' /\ phase' # "done"
    BY DEF Running
  <2> QED
    BY <2>1, <2>2, KeptSums DEF RowHolds, Zero
<1> QED
  BY <1>1, <1>2, KeptSums DEF SumInv, Running

(* The grid ends when every block has gone past its last chunk: all rows have
   been answered. *)
LEMMA FinishSums ==
  ASSUME GridInv, SharedLaunch, SumInv, Finish
  PROVE  /\ \A r \in Rows(request), o \in Outputs(request) :
              output[r * NumOutputs(request) + o] = Transform(SumOfGroves(r, o))
         /\ SumInv'
<1>1. /\ phase = "launched" /\ phase' = "done" /\ \A th \in Threads : pc[th] = "exit"
      /\ request' = request /\ launch' = launch /\ output' = output
  BY DEF Finish, kernelVars
<1>2. Running /\ at \in [Threads -> Position]
  BY <1>1 DEF GridInv, Running
<1>3. ASSUME NEW r \in Rows(request)
      PROVE  Answered(r, pc[Answerer(r)], at[Answerer(r)])
  <2> DEFINE th == Answerer(r)
             row == r % launch.chunk_size
  <2>1. th \in Threads /\ r \in Nat /\ row \in Nat /\ r < request.row_count /\ request.row_count \in Nat
    BY <1>2, AnswererAt, SharedFacts DEF GridInv
  <2>2. at[th].i \in Nat /\ at[th].i >= request.row_count
    BY <1>1, <1>2, <2>1, PositionFields DEF SumInv, ThreadSums, Aligned
  <2>3. at[th].i > r - row
    <3> HIDE DEF th, row
    <3> QED
      BY <2>1, <2>2
  <2> QED
    BY <2>3 DEF Answered
<1>4. \A r \in Rows(request), o \in Outputs(request) :
        output[r * NumOutputs(request) + o] = Transform(SumOfGroves(r, o))
  BY <1>2, <1>3 DEF SumInv, RowHolds
<1>5. \A r \in Rows(request) : RowHolds(r, output)'
  BY <1>1, <1>4, KeptSums DEF RowHolds, Transform
<1>6. DOMAIN output' = 0 .. (request'.row_count * NumOutputs(request)' - 1)
  BY <1>1, KeptSums DEF SumInv
<1> QED
  BY <1>1, <1>4, <1>5, <1>6, KeptSums DEF SumInv, Running

(* The sizes of a launch, as it starts. *)
LEMMA StartSizes ==
  ASSUME LaunchInv, Representable(request), Acceptable(request, launch)
  PROVE  /\ Layout /\ launch.num_blocks \in Nat \ {0} /\ request.row_count \in Nat
         /\ launch.threads_per_block = Warps * WARP_SIZE /\ Warps \in Nat \ {0}
<1> DEFINE c == request
           l == launch
           d == device
           s == specified
           T == launch.threads_per_block
           W == WARP_SIZE
           n == T \div W
<1>1. /\ c \in Calls /\ d \in Devices /\ s \in ChunkSizes /\ Representable(c)
      /\ l = Configuration(c, d, s)
  BY DEF LaunchInv
<1>2. c.row_count > 0 /\ c.row_count \in Nat
  <2>1. c.row_count \in 1 .. l.max_num_row
    BY DEF Acceptable
  <2>2. c.row_count \in Nat
    BY <1>1, CallsAssumption, CallFields
  <2> HIDE DEF c, l
  <2> QED
    BY <2>1, <2>2
<1>3. Layout
  BY LayoutHolds
<1> HIDE DEF c, l, d, s
<1>4. /\ l.num_blocks \in Nat /\ l.num_blocks > 0
      /\ l.threads_per_block \in Nat \ {0} /\ l.threads_per_block % WARP_SIZE = 0
  BY <1>1, <1>2, LaunchSizes
<1>5. W \in Nat \ {0} /\ T \in Nat \ {0} /\ T % W = 0
  BY <1>4, LaunchAssumption DEF l
<1> HIDE DEF W, T
<1>6. n \in Nat /\ T = n * W
  <2>1. n \in Nat /\ T = n * W + (T % W)
    BY <1>5, DivMod
  <2>2. n * W \in Nat
    BY <1>5, <2>1, MulNat
  <2> HIDE DEF n
  <2> QED
    BY <1>5, <2>1, <2>2
<1>7. n # 0
  BY <1>5, <1>6
<1>8. Warps = n
  BY DEF Warps, n, T, W
<1> QED
  BY <1>2, <1>3, <1>4, <1>6, <1>7, <1>8 DEF c, l, T, W

(* The first chunk of a block is one that it goes through. *)
LEMMA FirstAligned ==
  ASSUME Layout, launch.num_blocks \in Nat \ {0}, NEW b \in Blocks
  PROVE  /\ FirstChunk(b) \in Nat
         /\ FirstChunk(b) % launch.chunk_size = 0
         /\ (FirstChunk(b) \div launch.chunk_size) % launch.num_blocks = b
         /\ \A r \in Nat : (r \div launch.chunk_size) % launch.num_blocks = b
              => FirstChunk(b) <= r - (r % launch.chunk_size)
<1> DEFINE k == launch.chunk_size
           nb == launch.num_blocks
           x == b * k
<1>1. k \in Nat \ {0} /\ nb \in Nat \ {0}
  BY DEF Layout
<1>2. b \in Nat /\ b < nb
  BY <1>1 DEF Blocks
<1>3. FirstChunk(b) = x
  BY DEF FirstChunk
<1> HIDE DEF k, nb
<1>4. x \in Nat
  BY <1>1, <1>2, MulNat
<1>5. x % k = 0 /\ x \div k = b
  <2>1. 0 \in 0 .. (k - 1)
    BY <1>1
  <2>2. (b * k + 0) \div k = b /\ (b * k + 0) % k = 0
    BY <1>1, <1>2, <2>1, DivUnique
  <2>3. b * k + 0 = x
    BY <1>4
  <2> QED
    BY <2>2, <2>3
<1>6. b % nb = b
  BY <1>1, <1>2, DivMod
<1>7. ASSUME NEW r \in Nat, (r \div k) % nb = b
      PROVE  x <= r - (r % k)
  <2> DEFINE q == r \div k
             row == r % k
  <2>1. q \in Nat /\ row \in 0 .. (k - 1) /\ r = q * k + row
    BY <1>1, DivMod
  <2>2. q % nb <= q
    BY <1>1, <2>1, DivMod
  <2>3. q % nb = b
    BY <1>7
  <2> HIDE DEF q, row
  <2>4. b * k <= q * k /\ q * k \in Nat
    BY <1>1, <1>2, <2>1, <2>2, <2>3, MulMono, MulNat
  <2>5. x <= r - row
    BY <1>1, <1>4, <2>1, <2>4 DEF x
  <2> QED
    BY <2>5 DEF row
<1> HIDE DEF x
<1> QED
  BY <1>3, <1>4, <1>5, <1>6, <1>7 DEF k, nb

(* The grid starts at the first chunks, before anything is known of its
   memory. *)
LEMMA LaunchSums ==
  ASSUME GridInv, SharedLaunch, SumInv, LaunchKernel
  PROVE  SumInv'
<1> DEFINE place(th) == Chunk(FirstChunk(BlockOf(th)))
<1>1. /\ phase = "called" /\ phase' = "launched" /\ Acceptable(request, launch)
      /\ request' = request /\ launch' = launch /\ output' = output
  BY DEF LaunchKernel, Launch
<1>2. Representable(request) /\ LaunchInv
  BY SupportedSizes DEF SharedLaunch, GridInv
<1>3. /\ Layout /\ launch.num_blocks \in Nat \ {0} /\ request.row_count \in Nat
      /\ launch.threads_per_block = Warps * WARP_SIZE /\ Warps \in Nat \ {0}
  BY <1>1, <1>2, StartSizes
<1>4. /\ pc' = [th \in Threads |-> place(th).label]
      /\ at' = [th \in Threads |-> place(th).at]
      /\ reg' = [th \in Threads |-> Zero]
      /\ staged' = [b \in Blocks |-> [k \in 0 .. (launch.chunk_size * request.col_count - 1) |-> Torn]]
  BY DEF LaunchKernel, FirstChunk
<1>5. ASSUME NEW th \in Threads
      PROVE  /\ pc'[th] \in {"stage", "exit"} /\ reg'[th] = Zero
             /\ at'[th].i = FirstChunk(BlockOf(th)) /\ BlockOf(th) \in Blocks
             /\ FirstChunk(BlockOf(th)) \in Nat
             /\ pc'[th] = "exit" => at'[th].i >= request.row_count
  <2> DEFINE i == FirstChunk(BlockOf(th))
  <2>1. BlockOf(th) \in Blocks
    BY TeamThreads
  <2>2. i \in Nat
    BY <1>3, <2>1, FirstAligned
  <2>3. pc'[th] = Chunk(i).label /\ at'[th] = Chunk(i).at /\ reg'[th] = Zero
    BY <1>4
  <2> HIDE DEF i
  <2>4. Chunk(i).label = (IF i < request.row_count THEN "stage" ELSE "exit") /\ Chunk(i).at.i = i
    BY DEF Chunk, Place, At
  <2> QED
    BY <1>3, <2>1, <2>2, <2>3, <2>4 DEF i
<1>6. ASSUME NEW th \in Threads PROVE Aligned(th, pc'[th], at'[th])
  <2>1. /\ FirstChunk(BlockOf(th)) % launch.chunk_size = 0
        /\ (FirstChunk(BlockOf(th)) \div launch.chunk_size) % launch.num_blocks = BlockOf(th)
    BY <1>3, <1>5, FirstAligned
  <2> QED
    BY <1>5, <2>1 DEF Aligned
<1>7. ASSUME NEW th \in Threads
      PROVE  ThreadSums(th, pc[th], at[th], reg[th], workspace[BlockOf(th)], staged[BlockOf(th)])'
  <2>1. Aligned(th, pc[th], at[th])'
    BY <1>1, <1>6 DEF Aligned
  <2>2. pc'[th] \in {"stage", "exit"} /\ reg'[th] = Zero
    BY <1>5
  <2>3. Cleared(th, pc[th], workspace[BlockOf(th)])' /\ Copied(th, pc[th], at[th], staged[BlockOf(th)])'
    BY <2>2 DEF Cleared, Copied, Working
  <2>4. Added(th, pc[th], at[th], workspace[BlockOf(th)])' /\ Reduced(th, pc[th], at[th], workspace[BlockOf(th)])'
    BY <2>2 DEF Added, Reduced, Working
  <2>5. Loaded(th, pc[th], at[th], reg[th])'
    BY <2>2 DEF Loaded, Zero
  <2> QED
    BY <2>1, <2>3, <2>4, <2>5 DEF ThreadSums
<1>8. ASSUME NEW r \in Rows(request)
      PROVE  ~Answered(r, pc'[Answerer(r)], at'[Answerer(r)])
  <2> DEFINE th == Answerer(r)
             row == r % launch.chunk_size
  <2>1. /\ r \in Nat /\ th \in Threads /\ row \in Nat
        /\ BlockOf(th) = (r \div launch.chunk_size) % launch.num_blocks
    BY <1>3, RowChunk
  <2>2. BlockOf(th) \in Blocks
    BY <2>1, TeamThreads
  <2>3. FirstChunk(BlockOf(th)) <= r - row /\ FirstChunk(BlockOf(th)) \in Nat
    BY <1>3, <2>1, <2>2, FirstAligned
  <2>4. at'[th].i = FirstChunk(BlockOf(th)) /\ pc'[th] \in {"stage", "exit"}
    BY <1>5, <2>1
  <2>5. ~(at'[th].i > r - row)
    <3> HIDE DEF th, row
    <3> QED
      BY <2>1, <2>3, <2>4
  <2> QED
    BY <2>4, <2>5 DEF Answered, Part
<1>9. \A r \in Rows(request) : RowHolds(r, output)'
  <2> SUFFICES ASSUME NEW r \in Rows(request) PROVE RowHolds(r, output)'
    OBVIOUS
  <2>1. \A o \in Outputs(request) : output[r * NumOutputs(request) + o] = Zero
    BY <1>1 DEF SumInv, RowHolds, Running
  <2>2. phase' # "done" /\ ~Answered(r, pc[Answerer(r)], at[Answerer(r)])'
    BY <1>1, <1>8, KeptSums
  <2> QED
    BY <1>1, <2>1, <2>2, KeptSums DEF RowHolds, Zero
<1>10. DOMAIN output' = 0 .. (request'.row_count * NumOutputs(request)' - 1)
  BY <1>1, KeptSums DEF SumInv
<1>11. /\ DOMAIN reg' = Threads /\ DOMAIN staged' = Blocks
       /\ \A b \in Blocks : DOMAIN staged'[b] = 0 .. (launch.chunk_size * request.col_count - 1)
  BY <1>4
<1> HIDE DEF place
<1> QED
  BY <1>1, <1>7, <1>9, <1>10, <1>11, KeptSums DEF SumInv

-----------------------------------------------------------------------------
(* Every step keeps the invariant *)

LEMMA BlockStepSums ==
  ASSUME GridInv, SharedLaunch, SumInv, Running, NEW b \in Blocks, BlockStep(b)
  PROVE  SumInv'
<1>1. ASSUME NEW th \in Team(b),
             Stage(th) \/ Evaluate(th) \/ Accumulate(th) \/ StoreSum(th) \/ PostProcess(th)
      PROVE  SumInv'
  BY <1>1, StageSums, EvaluateSums, AccumulateSums, StoreSumSums, PostProcessSums
<1>2. ASSUME NEW w \in 0 .. (launch.threads_per_block \div WARP_SIZE - 1), WarpSum(b, w)
      PROVE  SumInv'
  <2>1. w \in 0 .. (Warps - 1)
    BY DEF Warps
  <2> QED
    BY <1>2, <2>1, WarpSumSums
<1>3. CASE SyncBarrier(b) \/ InferredBarrier(b) \/ ReducedBarrier(b)
  BY <1>3, SyncBarrierSums, InferredBarrierSums, ReducedBarrierSums
<1> QED
  BY <1>1, <1>2, <1>3 DEF BlockStep

LEMMA StutterSums ==
  ASSUME SumInv, UNCHANGED vars
  PROVE  SumInv'
<1>1. /\ UNCHANGED launchVars
      /\ output' = output /\ pc' = pc /\ at' = at /\ reg' = reg /\ workspace' = workspace /\ staged' = staged
  BY DEF vars, launchVars
<1>2. request' = request /\ launch' = launch /\ phase' = phase /\ (Running' <=> Running)
  BY <1>1 DEF launchVars, Running
<1>3. \A r \in Rows(request) : RowHolds(r, output)'
  <2> SUFFICES ASSUME NEW r \in Rows(request) PROVE RowHolds(r, output)'
    OBVIOUS
  <2>1. RowHolds(r, output)
    BY DEF SumInv
  <2>2. Answered(r, pc[Answerer(r)], at[Answerer(r)])' <=> Answered(r, pc[Answerer(r)], at[Answerer(r)])
    BY <1>1, <1>2, KeptSums
  <2> QED
    BY <1>1, <1>2, <2>1, <2>2, KeptSums DEF RowHolds, Zero, Transform
<1>4. DOMAIN output' = 0 .. (request'.row_count * NumOutputs(request)' - 1)
  BY <1>1, <1>2, KeptSums DEF SumInv
<1>5. ASSUME Running
      PROVE  /\ DOMAIN reg' = Threads /\ DOMAIN staged' = Blocks
             /\ \A b \in Blocks : DOMAIN staged'[b] = 0 .. (launch.chunk_size * request.col_count - 1)
             /\ \A th \in Threads :
                  ThreadSums(th, pc[th], at[th], reg[th], workspace[BlockOf(th)], staged[BlockOf(th)])'
  <2>1. \A th \in Threads :
          ThreadSums(th, pc[th], at[th], reg[th], workspace[BlockOf(th)], staged[BlockOf(th)])
    BY <1>5 DEF SumInv
  <2>2. \A th \in Threads :
          ThreadSums(th, pc'[th], at'[th], reg'[th], workspace'[BlockOf(th)], staged'[BlockOf(th)])
    BY <1>1, <2>1
  <2>3. \A th \in Threads :
          ThreadSums(th, pc[th], at[th], reg[th], workspace[BlockOf(th)], staged[BlockOf(th)])'
    BY <1>1, <2>2, SameThreadSums DEF BlockOf
  <2> QED
    BY <1>1, <1>5, <2>3 DEF SumInv
<1> QED
  BY <1>2, <1>3, <1>4, <1>5, KeptSums DEF SumInv

(* The call and its launch stay as they are. *)
LEMMA StepKeepsCall ==
  ASSUME GridInv, SharedLaunch, [Next]_vars
  PROVE  UNCHANGED <<request, device, specified, launch>>
<1>1. Representable(request)
  BY SupportedSizes DEF SharedLaunch, GridInv
<1>2. ASSUME Running, NEW b \in Blocks, BlockStep(b) PROVE UNCHANGED launchVars
  BY <1>1, <1>2, BlockStepKeeps
<1> QED
  BY <1>2 DEF Next, vars, launchVars, RefuseCall, Refuse, LaunchKernel, Launch, Finish, Over

(* What is proved about outputs, as an invariant of the calls it is about. *)
ExactInv == GridInv /\ SharedLaunch /\ SumInv

LEMMA ExactInit ==
  Init /\ SharedLaunch => ExactInv
  BY GridInit, InitSums DEF ExactInv

LEMMA ExactStep ==
  ASSUME ExactInv, [Next]_vars
  PROVE  ExactInv'
<1>1. GridInv /\ SharedLaunch /\ SumInv
  BY DEF ExactInv
<1>2. Representable(request)
  BY <1>1, SupportedSizes DEF SharedLaunch, GridInv
<1>3. GridInv'
  BY <1>1, <1>2, GridStep
<1>4. SharedLaunch'
  BY <1>1, StepKeepsCall DEF SharedLaunch, Supported, LastStepFits, InputFits
<1>5. SumInv'
  <2>1. CASE RefuseCall
    <3>1. /\ phase = "called" /\ phase' = "refused"
          /\ request' = request /\ launch' = launch /\ output' = output
      BY <2>1 DEF RefuseCall, Refuse, kernelVars
    <3> QED
      BY <1>1, <3>1, IdleSums DEF Running
  <2>2. CASE LaunchKernel
    BY <1>1, <2>2, LaunchSums
  <2>3. CASE Finish
    BY <1>1, <2>3, FinishSums
  <2>4. CASE Over \/ UNCHANGED vars
    BY <1>1, <2>4, StutterSums DEF Over
  <2>5. ASSUME Running, NEW b \in Blocks, BlockStep(b) PROVE SumInv'
    BY <1>1, <2>5, BlockStepSums
  <2> QED
    BY <2>1, <2>2, <2>3, <2>4, <2>5 DEF Next
<1> QED
  BY <1>3, <1>4, <1>5 DEF ExactInv

-----------------------------------------------------------------------------
(* Theorems *)

(* Of a launch in which every step is exact, the elements of the workspace
   hold what the threads have told so far, and the rows that are answered are
   in the output. *)
THEOREM SumsInvariant == Spec /\ SharedLaunch => []ExactInv
<1>1. ExactInv /\ [Next]_vars => ExactInv'
  BY ExactStep
<1> QED
  BY <1>1, ExactInit, PTL DEF Spec

(* The same, for the run that checks it. *)
THEOREM ResultsInvariant == Spec /\ SharedLaunch => []ResultInv
<1>1. ExactInv => ResultInv
  BY DEF ExactInv, ResultInv
<1> QED
  BY <1>1, SumsInvariant, PTL

(* Outputs are reproducible bit by bit, whatever thread or block ran when:
   each is added up in the one order that the configuration decides. *)
THEOREM ResultsAreReproducible == Spec /\ SharedLaunch => []Reproducible
<1>1. ExactInv => Reproducible
  BY DEF ExactInv, SumInv, RowHolds, Reproducible
<1> QED
  BY <1>1, SumsInvariant, PTL

LEMMA ExactLayout ==
  ASSUME ExactInv
  PROVE  Layout /\ Representable(request) /\ \A r \in Rows(request) : r \in Nat
<1>1. LaunchInv /\ Representable(request)
  BY SupportedSizes DEF ExactInv, SharedLaunch, GridInv
<1>2. Layout
  BY <1>1, LayoutHolds
<1>3. request.row_count \in Nat
  BY <1>2, CallFields DEF Layout
<1> QED
  BY <1>1, <1>2, <1>3 DEF Rows

(* When the kernel is done, every output of every row is the sum of the tree
   outputs that belong to it, each counted once and postprocessed once. *)
THEOREM GridResultsAreCorrect == Spec /\ SharedLaunch => []ResultsCorrect
<1>1. ExactInv => ResultsCorrect
  <2> SUFFICES ASSUME ExactInv, phase = "done", NEW r \in Rows(request), NEW o \in Outputs(request)
               PROVE  Promise!IsResult(output[r * NumOutputs(request) + o], request, r, o)
    BY DEF ResultsCorrect
  <2>1. output[r * NumOutputs(request) + o] = Transform(SumOfGroves(r, o))
    BY DEF ExactInv, SumInv, RowHolds
  <2>2. Layout /\ r \in Nat
    BY ExactLayout
  <2> QED
    BY <2>1, <2>2, SumIsResult
<1> QED
  BY <1>1, SumsInvariant, PTL

-----------------------------------------------------------------------------
(* Refinement *)

(* ForestInference is about the same requests and values. *)
LEMMA SamePromise ==
  /\ Promise!Zero = Zero
  /\ \A c : Promise!Rows(c) = Rows(c) /\ Promise!Outputs(c) = Outputs(c)
<1>1. \A c : Promise!NumOutputs(c) = NumOutputs(c)
  BY DEF Promise!NumOutputs, NumOutputs
<1> QED
  BY <1>1 DEF Promise!Zero, Zero, Promise!Rows, Rows, Promise!Outputs, Outputs

LEMMA InitPromise == Init => Promise!Init
<1> SUFFICES ASSUME Init PROVE Promise!Init
  OBVIOUS
<1>1. /\ request \in Call /\ request \in Calls /\ phase = "called"
      /\ output = [k \in 0 .. (request.row_count * NumOutputs(request) - 1) |-> Zero]
  BY CallsAssumption DEF Init, LaunchInit
<1>2. Status = "running"
  BY <1>1 DEF Status
<1>3. \A r \in Rows(request), o \in Outputs(request) : output[r * NumOutputs(request) + o] = Zero
  BY <1>1, OutputPlace
<1>4. Result = [r \in Rows(request) |-> [o \in Outputs(request) |-> Zero]]
  BY <1>3 DEF Result
<1> HIDE DEF Result, Status, Promise!Rows, Promise!Outputs, Promise!Zero
<1> QED
  BY <1>1, <1>2, <1>4, SamePromise DEF Promise!Init

(* A row that is not answered has nothing in the output. *)
LEMMA UnansweredUnwritten ==
  ASSUME SumInv, NEW r \in Rows(request), phase # "done",
         ~(Running /\ Answered(r, pc[Answerer(r)], at[Answerer(r)]))
  PROVE  Promise!Unwritten(r)
<1>1. \A o \in Outputs(request) : Result[r][o] = Zero
  BY DEF Result, SumInv, RowHolds
<1> HIDE DEF Result
<1> QED
  BY <1>1, SamePromise DEF Promise!Unwritten

(* A refused call has written nothing. *)
LEMMA RefusePromise ==
  ASSUME ExactInv, RefuseCall
  PROVE  Promise!Refuse
<1>1. phase = "called" /\ phase' = "refused" /\ request' = request /\ output' = output
  BY DEF RefuseCall, Refuse, kernelVars
<1>2. Status = "running" /\ Status' = "refused"
  BY <1>1 DEF Status
<1>3. Result' = Result
  BY <1>1 DEF Result
<1>4. \A r \in Rows(request) : Promise!Unwritten(r)
  BY <1>1, UnansweredUnwritten DEF Running, ExactInv
<1> HIDE DEF Result, Status
<1> QED
  BY <1>1, <1>2, <1>3, <1>4, SamePromise DEF Promise!Refuse

(* Postprocessing a row writes it: it had not been written, it gets its
   results, and the other rows keep theirs. *)
LEMMA PostProcessPromise ==
  ASSUME ExactInv, Running, NEW b \in Blocks, NEW th \in Team(b), PostProcess(th)
  PROVE  \E r \in Rows(request) : Promise!WriteRow(r)
<1> DEFINE mine == at[th].i + at[th].row
           n == NumOutputs(request)
<1>1. GridInv /\ SharedLaunch /\ SumInv /\ Layout /\ \A r \in Rows(request) : r \in Nat
  BY ExactLayout DEF ExactInv
<1>2. request' = request /\ phase' = phase /\ phase = "launched"
  BY DEF PostProcess, Running
<1>3. /\ \A r \in Rows(request), o \in Outputs(request) :
           output'[r * n + o] = IF r = mine THEN Transform(SumOfGroves(r, o)) ELSE output[r * n + o]
      /\ th = Answerer(mine) /\ ~Answered(mine, pc[th], at[th]) /\ mine \in Rows(request)
  BY <1>1, PostProcessOutputs
<1>4. Status = "running" /\ Status' = Status
  BY <1>2 DEF Status
<1>5. Promise!Unwritten(mine)
  BY <1>1, <1>2, <1>3, UnansweredUnwritten
<1>6. /\ Result = [r \in Rows(request) |-> [o \in Outputs(request) |-> output[r * n + o]]]
      /\ Result' = [r \in Rows(request) |-> [o \in Outputs(request) |-> output'[r * n + o]]]
  BY <1>2 DEF Result
<1>7. \A o \in Outputs(request) : Promise!IsResult(output'[mine * n + o], request, mine, o)
  BY <1>1, <1>3, SumIsResult
<1> HIDE DEF Result, Status, mine, n
<1>8. \A r \in Rows(request) \ {mine} : Result'[r] = Result[r]
  BY <1>3, <1>6
<1>9. Result' = [Result EXCEPT ![mine] = Result'[mine]]
  BY <1>3, <1>6, <1>8
<1>10. \A o \in Outputs(request) : Promise!IsResult(Result'[mine][o], request, mine, o)
  BY <1>3, <1>6, <1>7
<1>11. Promise!WriteRow(mine)
  BY <1>2, <1>4, <1>5, <1>9, <1>10, SamePromise DEF Promise!WriteRow
<1> QED
  BY <1>3, <1>11

(* The kernel is done when every row has its results. *)
LEMMA FinishPromise ==
  ASSUME ExactInv, Finish
  PROVE  Promise!Return
<1>1. phase = "launched" /\ phase' = "done" /\ request' = request /\ output' = output
  BY DEF Finish, kernelVars
<1>2. Status = "running" /\ Status' = "returned"
  BY <1>1 DEF Status
<1>3. Result' = Result
  BY <1>1 DEF Result
<1>4. \A r \in Rows(request), o \in Outputs(request) : Promise!IsResult(Result[r][o], request, r, o)
  <2>1. \A r \in Rows(request), o \in Outputs(request) :
          output[r * NumOutputs(request) + o] = Transform(SumOfGroves(r, o))
    BY FinishSums DEF ExactInv
  <2>2. \A r \in Rows(request), o \in Outputs(request) :
          Promise!IsResult(output[r * NumOutputs(request) + o], request, r, o)
    BY <2>1, ExactLayout, SumIsResult
  <2> QED
    BY <2>2 DEF Result
<1> HIDE DEF Result, Status
<1> QED
  BY <1>1, <1>2, <1>3, <1>4, SamePromise DEF Promise!Return

(* Nothing else is seen of the kernel from outside. *)
LEMMA UnseenStep ==
  ASSUME LaunchKernel \/ Over \/ UNCHANGED vars
           \/ \E b \in Blocks :
                \/ \E th \in Team(b) : Stage(th) \/ Evaluate(th) \/ Accumulate(th) \/ StoreSum(th)
                \/ \E w \in 0 .. (launch.threads_per_block \div WARP_SIZE - 1) : WarpSum(b, w)
                \/ SyncBarrier(b) \/ InferredBarrier(b) \/ ReducedBarrier(b)
  PROVE  UNCHANGED <<request, Status, Result>>
<1>1. UNCHANGED <<request, output>>
  BY DEF LaunchKernel, Launch, Over, vars, Stage, Evaluate, Accumulate, StoreSum, WarpSum,
         SyncBarrier, InferredBarrier, ReducedBarrier, Release
<1>2. Result' = Result
  BY <1>1 DEF Result
<1>3. phase' = phase \/ (phase = "called" /\ phase' = "launched")
  BY DEF LaunchKernel, Launch, Over, vars, Stage, Evaluate, Accumulate, StoreSum, WarpSum,
         SyncBarrier, InferredBarrier, ReducedBarrier, Release
<1>4. Status' = Status
  BY <1>3 DEF Status
<1> QED
  BY <1>1, <1>2, <1>4

(* The grid implements ForestInference, if every step of its launch is exact:
   whatever its threads, warps and blocks do when, a row of the output is
   written in one go, once, with its results, and a call that is refused has
   written nothing. *)
THEOREM GridImplements == Spec /\ SharedLaunch => Implements
<1>1. Init => Promise!Init
  BY InitPromise
<1>2. ExactInv /\ [Next]_vars => [Promise!Next]_(Promise!absVars)
  <2> SUFFICES ASSUME ExactInv, [Next]_vars PROVE [Promise!Next]_(Promise!absVars)
    OBVIOUS
  <2>1. CASE RefuseCall
    BY <2>1, RefusePromise DEF Promise!Next
  <2>2. CASE Finish
    BY <2>2, FinishPromise DEF Promise!Next
  <2>3. ASSUME Running, NEW b \in Blocks, NEW th \in Team(b), PostProcess(th) PROVE Promise!Next
    <3>1. \E r \in Rows(request) : Promise!WriteRow(r)
      BY <2>3, PostProcessPromise
    <3> QED
      BY <3>1, SamePromise DEF Promise!Next
  <2>4. CASE LaunchKernel \/ Over \/ UNCHANGED vars
               \/ \E b \in Blocks :
                    \/ \E th \in Team(b) : Stage(th) \/ Evaluate(th) \/ Accumulate(th) \/ StoreSum(th)
                    \/ \E w \in 0 .. (launch.threads_per_block \div WARP_SIZE - 1) : WarpSum(b, w)
                    \/ SyncBarrier(b) \/ InferredBarrier(b) \/ ReducedBarrier(b)
    <3>1. UNCHANGED <<request, Status, Result>>
      BY <2>4, UnseenStep
    <3> QED
      BY <3>1 DEF Promise!absVars
  <2> QED
    BY <2>1, <2>2, <2>3, <2>4 DEF Next, BlockStep
<1> QED
  BY <1>1, <1>2, SumsInvariant, PTL DEF Spec, Implements, Promise!Spec

=============================================================================

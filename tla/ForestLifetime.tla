--------------------------- MODULE ForestLifetime ---------------------------
(***************************************************************************)
(* The life of a forest in memory: a builder's vectors are copied to the   *)
(* buffers of a decision_forest, its constructor prepares the device,      *)
(* inferences read the buffers, and destruction releases them, on a host   *)
(* with several devices whose streams run at their own pace.               *)
(*                                                                         *)
(* The vectors of a builder are one block, as they live and die together.  *)
(* "nodes" stands for the four arrays that every forest has.  An inference *)
(* on the host reads at once and changes none of this, so it has no action *)
(* of its own.                                                             *)
(***************************************************************************)
EXTENDS DeviceMemory

CONSTANTS
  Shapes,        \* of forests: whether they have vector leaves, categorical
                 \* nodes, and category lists outside the nodes
  Chunks         \* the chunk sizes kernels are instantiated for

ASSUME LifetimeAssumption ==
  /\ Arrays = {"nodes", "vector_output", "categorical_storage"}
  /\ Shapes \subseteq {s \in [vector : BOOLEAN, categorical : BOOLEAN, external : BOOLEAN] :
                         s.external => s.categorical}
  /\ Chunks \subseteq {1, 2, 4, 8, 16, 32}

VARIABLES
  program,       \* what the program works with: "buffers" of its own, or a "forest"
  forest,        \* the forest, apart from its arrays
  initialized    \* the kernels prepared on each device

forestVars == <<program, forest, initialized>>
vars == <<memoryVars, forestVars>>

NoForest == [mem |-> "none"]
Model    == "model"

Init ==
  /\ MemoryInit
  /\ program \in {"buffers", "forest"}
  /\ forest = NoForest
  /\ initialized = [d \in Devices |-> {}]

-----------------------------------------------------------------------------
(* Kernels are told apart by their template arguments. *)
Kernels == [categorical : BOOLEAN, vector : BOOLEAN, external : BOOLEAN, chunk : Chunks]

(* Mutant of InitializedKernels: one group of six is missing. *)
InitializedKernelsButLast ==
  {k \in Kernels : (k.external => k.categorical) /\ ~(k.external /\ k.vector)}

(* The kernels initialize_device gives the shared memory of the device. *)
InitializedKernels == {k \in Kernels : k.external => k.categorical}

(* The kernel that infer chooses by which pointers are null. *)
Dispatched(shape, chunk) ==
  [categorical |-> shape.external \/ shape.categorical,
   vector |-> shape.vector, external |-> shape.external, chunk |-> chunk]

-----------------------------------------------------------------------------
ArraysOf(shape) ==
  {"nodes"} \cup {a \in {"vector_output"} : shape.vector}
            \cup {a \in {"categorical_storage"} : shape.external}

(* The arrays that there are once n of the constructor's three groups of
   arguments are made, which is done in the order they are declared in. *)
Order == [nodes |-> 1, vector_output |-> 2, categorical_storage |-> 3]
FirstOf(shape, n) == {a \in ArraysOf(shape) : Order[a] <= n}

(* Mutant of ModelDevice: the caller's device is taken for the host too. *)
ModelDeviceAsAsked(mem, device) == device

(* get_decision_forest: models on the host are on no device *)
ModelDevice(mem, device) == IF mem = "cpu" THEN NoDevice ELSE device

(* buffer{buffer{data, size}, mem, device, stream}, moved into the forest:
   the temporary is a view of the builder's vectors.  r is [memory, buffers]. *)
WithArray(r, array, vectors, mem, device, stream) ==
  LET b == Next1(Unused(r.memory, r.buffers))
      made   == MoveTo(r.memory, View("cpu", 0, vectors), mem, device, b, stream)
      member == MoveTo(made.memory, made.buffer, mem, device, Null, stream)
  IN  [memory |-> member.memory, buffers |-> [r.buffers EXCEPT ![array] = member.buffer]]

WithArrays(r, names, vectors, mem, device, stream) ==
  LET with(q, a) == IF a \in names THEN WithArray(q, a, vectors, mem, device, stream) ELSE q
  IN  with(with(with(r, "nodes"), "vector_output"), "categorical_storage")

WithoutArray(r, array) ==
  [memory |-> Destroyed(r.memory, r.buffers[array]), buffers |-> [r.buffers EXCEPT ![array] = NoBuffer]]

(* They are destroyed in the opposite order. *)
Without(r, names) ==
  LET without(q, a) == IF a \in names THEN WithoutArray(q, a) ELSE q
  IN  without(without(without(r, "categorical_storage"), "vector_output"), "nodes")

(* Some arrays are allocated and filled.  If the next cannot be, or the device
   cannot be prepared, the exception destroys them.  The vectors go with the
   builder either way. *)
Built(names, ready, mem, device, stream) ==
  LET vectors == Next1(Unused(Now, buffers))
      builder == [memory  |-> [Now EXCEPT !.blocks[vectors] = Block("cpu", NoDevice, Model)],
                  buffers |-> buffers]
      done == WithArrays(builder, names, vectors, mem, device, stream)
      kept == IF ready THEN done ELSE Without(done, names)
  IN  [memory |-> [kept.memory EXCEPT !.blocks[vectors] = NoBlock], buffers |-> kept.buffers]

(* A stream the program may use for work on a device: one of that device, or
   the default stream while the device is current. *)
StreamsFor(device) == {<<device, 1>>} \cup {s \in {Default} : OnCurrent(<<"gpu", device>>)}

(* get_decision_forest, and the constructor of decision_forest *)
Import(shape, mem, device, stream, made, ready) ==
  /\ program = "forest" /\ forest = NoForest /\ Room
  /\ Cardinality(Unused(Now, buffers)) > Cardinality(ArraysOf(shape))
  /\ ready => made = 3
  /\ LET on    == ModelDevice(mem, device)
         built == Built(FirstOf(shape, made), ready, mem, on, stream)
     IN  /\ Become(built.memory)
         /\ buffers' = built.buffers
         /\ forest' = IF ready THEN [mem |-> mem, device |-> on, shape |-> shape, stream |-> stream]
                      ELSE NoForest
         /\ initialized' = IF ready /\ mem = "gpu"
                           THEN [initialized EXCEPT ![on] = InitializedKernels] ELSE initialized
  /\ UNCHANGED <<current, meant, program>>

(* predict, on a device.  The program reuses the stream of the import or has
   waited for it.  A stream of another device is refused by validate_stream,
   and one whose device is not current by the launch. *)
Ordered(stream) ==
  \/ stream = forest.stream
  \/ queue[IF forest.stream = Default THEN <<forest.device, 0>> ELSE forest.stream] = <<>>
Predict(stream, chunk) ==
  /\ program = "forest" /\ forest.mem = "gpu" /\ Room
  /\ stream \in StreamsFor(forest.device)
  /\ stream # Default => stream[1] = current
  /\ Ordered(stream)
  /\ Become(Submit(Now, Resolve(stream),
                   [do |-> "infer", kernel |-> Dispatched(forest.shape, chunk),
                    reads |-> [a \in ArraysOf(forest.shape) |-> buffers[a].cached_ptr]]))
  /\ UNCHANGED <<current, buffers, meant, forestVars>>

(* ~decision_forest.  The program waits for inferences on other streams than
   those that will release the arrays. *)
DestroyForest ==
  /\ program = "forest" /\ forest # NoForest /\ Room
  /\ \A s \in Streams : \A i \in DOMAIN queue[s] :
       queue[s][i].do = "infer" => s = buffers["nodes"].stream
  /\ LET r == Without([memory |-> Now, buffers |-> buffers], ArraysOf(forest.shape))
     IN  Become(r.memory) /\ buffers' = r.buffers
  /\ forest' = NoForest
  /\ UNCHANGED <<current, meant, program, initialized>>

UseForest ==
  \/ \E shape \in Shapes, mem \in {"cpu", "gpu"}, device \in Devices, made \in 0 .. 3, ready \in BOOLEAN :
       \E stream \in StreamsFor(device) : Import(shape, mem, device, stream, made, ready)
  \/ \E stream \in {Default} \cup (Devices \X {1}), chunk \in Chunks : Predict(stream, chunk)
  \/ DestroyForest

Next ==
  \/ program = "buffers" /\ UseBuffers /\ UNCHANGED forestVars
  \/ UseForest
  \/ \E s \in Streams : Run(s) /\ UNCHANGED forestVars
  \/ \E d \in Devices : SetDevice(d) /\ UNCHANGED forestVars

Spec == Init /\ [][Next]_vars

-----------------------------------------------------------------------------
(* What an inference is about to read. *)
ReadableOn(device, reads) == \A a \in DOMAIN reads :
  LET b == blocks[reads[a]]
  IN  /\ b.live /\ b.value = Model
      /\ IF device = NoDevice THEN b.mem = "cpu" ELSE b.mem = "gpu" /\ b.device = device

NextUp(s, do) == queue[s] # <<>> /\ Head(queue[s]).do = do

(* An inference that is about to run, or may be called on the host, finds the
   arrays of its forest live, as they were imported, and on the device it runs
   on: copies are done before, releases come after, and no array still views
   the builder's vectors (decision_forest_builder.hpp:255 and 300-329,
   device_buffer.cu:21-38). *)
ForestReadable ==
  /\ \A s \in Streams : NextUp(s, "infer") => ReadableOn(s[1], Head(queue[s]).reads)
  /\ forest.mem = "cpu" =>
       ReadableOn(NoDevice, [a \in ArraysOf(forest.shape) |-> buffers[a].cached_ptr])

(* The kernel that is about to run was given the shared memory of the device it
   runs on: the kernels infer.hpp:68-160 can choose are among those that
   device_initialization/gpu.cuh:40-200 lists one by one. *)
KernelPrepared ==
  \A s \in Streams : NextUp(s, "infer") => Head(queue[s]).kernel \in initialized[s[1]]

-----------------------------------------------------------------------------
(* The invariant of the proofs. *)

Operation ==
       [do : {"fill"}, to : Numbers, value : Contents]
  \cup [do : {"copy"}, to : Numbers, from : Numbers]
  \cup [do : {"free"}, to : Numbers]
  \cup [do : {"infer"}, kernel : Kernels, reads : UNION {[names -> Numbers] : names \in SUBSET Arrays}]

Typed(m) ==
  /\ m \in [blocks : [Numbers -> BlockType], queue : [Streams -> Seq(Operation)]]

(* A forest has the arrays of its shape, all in one place and made by one stream. *)
StreamOf(device, stream) == IF stream = Default THEN <<device, 0>> ELSE stream
IsArray(x) ==
  /\ x \in BufferType /\ x.owns /\ ~x.moved
  /\ x.mem = forest.mem /\ x.device = forest.device /\ x.stream = StreamOf(forest.device, forest.stream)

ForestInv ==
  /\ program \in {"buffers", "forest"}
  /\ program = "buffers" => forest = NoForest
  /\ program = "forest" => \A n \in Slots : buffers[n] = NoBuffer
  /\ forest = NoForest => \A a \in Arrays : buffers[a] = NoBuffer
  /\ forest # NoForest =>
       /\ forest.shape \in Shapes /\ forest.mem \in {"cpu", "gpu"}
       /\ forest.device \in Devices \cup {NoDevice} /\ (forest.mem = "gpu" => forest.device \in Devices)
       /\ \A a \in Arrays : IF a \in ArraysOf(forest.shape) THEN IsArray(buffers[a]) ELSE buffers[a] = NoBuffer

OwnershipInv ==
  /\ current \in Devices
  /\ Typed(Now)
  /\ buffers \in [Slots \cup Arrays -> BufferType \cup {NoBuffer}]
  /\ Ledger(Now, buffers)
  /\ Rooted(Now, buffers)
  /\ ForestInv

(* What is written to b before entry i of stream s is run is the model. *)
Imported(m, b, s, i) ==
  \/ m.blocks[b].value = Model
  \/ \E j \in DOMAIN m.queue[s] : j < i /\ m.queue[s][j].do = "fill" /\ m.queue[s][j].to = b
AtEnd(m, b, s) == Imported(m, b, s, Len(m.queue[s]) + 1)

(* Entry i of stream s, which reads b, comes after what fills b and before what
   frees it. *)
ReadsWell(m, b, s, i) ==
  /\ m.blocks[b].live /\ m.blocks[b].mem = "gpu" /\ m.blocks[b].device = s[1]
  /\ Imported(m, b, s, i)
  /\ \A t \in Streams : \A j \in DOMAIN m.queue[t] : Freed(m, t, j) = b => t = s /\ i < j

(* Nothing but the model is written for a forest, and inferences wait where
   their device has been prepared. *)
WaitsWell(m, s, i, prepared) ==
  LET op == m.queue[s][i]
  IN  /\ op.do # "copy"
      /\ op.do = "fill" => op.value = Model
      /\ op.do = "infer" =>
           /\ op.kernel \in InitializedKernels /\ prepared[s[1]] = InitializedKernels
           /\ \A a \in DOMAIN op.reads : ReadsWell(m, op.reads[a], s, i)
AllWaitWell(m, prepared) == \A s \in Streams : \A i \in DOMAIN m.queue[s] : WaitsWell(m, s, i, prepared)

NoInference(m) == \A s \in Streams : \A i \in DOMAIN m.queue[s] : m.queue[s][i].do # "infer"

ArrayImported(m, x) ==
  IF x.mem = "cpu" THEN m.blocks[x.data].value = Model ELSE AtEnd(m, x.data, x.stream)

InferenceInv ==
  /\ initialized \in [Devices -> {{}, InitializedKernels}]
  /\ program = "buffers" => NoInference(Now)
  /\ program = "forest" => AllWaitWell(Now, initialized)
  /\ forest # NoForest =>
       /\ forest.mem = "gpu" => initialized[forest.device] = InitializedKernels
       /\ \A a \in ArraysOf(forest.shape) : ArrayImported(Now, buffers[a])

(* What waits writes what the program means its buffers to hold. *)
KeptInv ==
  /\ meant \in [Slots -> Contents]
  /\ program = "buffers" => NoInference(Now) /\ Kept(Now, buffers, meant)

=============================================================================

---------------------------- MODULE DeviceMemory ----------------------------
(***************************************************************************)
(* buffer, and the memory of a host and its devices.                       *)
(*                                                                         *)
(* A buffer owns a block of memory or views one, and caches the address.   *)
(* What concerns a device is submitted to streams, which run at their own  *)
(* pace: copies to and on a device, kernels, and the release of device     *)
(* memory, which is done by the stream the memory was allocated on.        *)
(*                                                                         *)
(* A block holds one value; offsets and sizes of copies are the subject of *)
(* PredictRouting.                                                         *)
(***************************************************************************)
EXTENDS Integers, Sequences, FiniteSets

CONSTANTS
  Devices,            \* the CUDA devices
  MaxBlocks,          \* bound on blocks that are in use at a time
  MaxQueued,          \* bound on what waits in a stream
  Slots,              \* the program's own buffers
  Arrays,             \* the buffers of a forest
  CallersSetDevice    \* the program makes a device current before it uses that
                      \* device's default stream

ASSUME MemoryAssumption ==
  /\ Devices \subseteq Nat /\ IsFiniteSet(Devices)
  /\ MaxBlocks \in Nat \ {0} /\ MaxQueued \in Nat \ {0}
  /\ Slots \cap Arrays = {}
  /\ CallersSetDevice \in BOOLEAN

VARIABLES
  current,       \* the current device
  blocks,        \* blocks[b]: where it is, what it holds, and whether it is live
  queue,         \* queue[s]: what was submitted to stream s and has not run
  buffers,       \* the buffers by name
  meant          \* history: what the program's buffers should hold

memoryVars == <<current, blocks, queue, buffers, meant>>

NoDevice == -1
NoBlock  == [mem |-> "cpu", device |-> NoDevice, value |-> "garbage", live |-> FALSE]
NoBuffer == [mem |-> "none"]
Null     == 0
Garbage  == "garbage"

(* <<d, 0>> is the default stream of device d, which cuda_stream{} names when
   d is current.  Other streams are of one device. *)
Streams == Devices \X {0, 1}
Default == <<NoDevice, 0>>
Resolve(stream) == IF stream = Default THEN <<current, 0>> ELSE stream

MemoryInit ==
  /\ current \in Devices
  /\ blocks = [b \in 1 .. MaxBlocks |-> NoBlock]
  /\ queue = [s \in Streams |-> <<>>]
  /\ buffers = [n \in Slots \cup Arrays |-> NoBuffer]
  /\ meant = [n \in Slots |-> Garbage]

-----------------------------------------------------------------------------
(* Memory: m is [blocks, queue].  Whatever may throw returns a set. *)

Now == [blocks |-> blocks, queue |-> queue]
Become(m) == blocks' = m.blocks /\ queue' = m.queue

Submit(m, stream, op) == [m EXCEPT !.queue[stream] = Append(@, op)]

MentionedBy(op) ==
  CASE op.do = "infer" -> {op.reads[a] : a \in DOMAIN op.reads}
    [] op.do = "copy"  -> {op.from, op.to}
    [] OTHER           -> {op.to}  \* fill, free

(* A block that is free and that no pointer is left to, which a new allocation
   can have. *)
Unused(m, bufs) ==
  {b \in 1 .. MaxBlocks :
     /\ ~m.blocks[b].live
     /\ \A n \in DOMAIN bufs : bufs[n] # NoBuffer => b \notin {bufs[n].data, bufs[n].cached_ptr}
     /\ \A s \in Streams : \A i \in DOMAIN m.queue[s] : b \notin MentionedBy(m.queue[s][i])}
Next1(S) == CHOOSE b \in S : \A c \in S : b <= c

Block(mem, device, value) ==
  [mem |-> mem, device |-> IF mem = "cpu" THEN NoDevice ELSE device, value |-> value, live |-> TRUE]

(* An owning buffer of new memory; owning_device_buffer_type_erased makes its
   device current, so that a default stream is the device's. *)
Owning(mem, device, b, stream) ==
  [mem |-> mem, device |-> device, owns |-> TRUE, data |-> b, cached_ptr |-> b, moved |-> FALSE,
   stream |-> IF stream = Default THEN <<device, 0>> ELSE stream]
View(mem, device, b) ==
  [mem |-> mem, device |-> device, owns |-> FALSE, data |-> b, cached_ptr |-> b, moved |-> FALSE,
   stream |-> Default]

(* cudaMemcpyAsync from one block to another.  A copy from host memory has
   read it when the call returns, one to host memory has written it. *)
Copied(m, from, to, stream) ==
  IF m.blocks[to].mem = "cpu" THEN [m EXCEPT !.blocks[to].value = m.blocks[from].value]
  ELSE Submit(m, Resolve(stream),
              IF m.blocks[from].mem = "cpu"
              THEN [do |-> "fill", to |-> to, value |-> m.blocks[from].value]
              ELSE [do |-> "copy", to |-> to, from |-> from])
Copyable(m, from, mem, stream) ==
  m.blocks[from].mem = "gpu" /\ mem = "cpu" => m.queue[Resolve(stream)] = <<>>

(* buffer(buffer const&, mem, device, stream): a new block with the same value *)
CopyTo(m, other, mem, device, b, stream) ==
  [memory |-> Copied([m EXCEPT !.blocks[b] = Block(mem, device, Garbage)], other.cached_ptr, b, stream),
   buffer |-> Owning(mem, device, b, stream),
   other  |-> other]

(* Mutant of MovedFrom: the address that was moved is not cleared. *)
MovedFromKeeping(other) == [other EXCEPT !.moved = TRUE]

(* A unique_ptr that was moved from is null, a view still views.  The buffer's
   own fields stay as they are. *)
MovedFrom(other) ==
  [other EXCEPT !.data = IF other.owns THEN Null ELSE @, !.moved = TRUE]

(* buffer(buffer&&, mem, device, stream): the other's data if it is already in
   place, else a copy.  The address that was cached stays behind. *)
MoveTo(m, other, mem, device, b, stream) ==
  IF mem = other.mem /\ device = other.device
  THEN [memory |-> m, other |-> MovedFrom(other),
        buffer |-> [other EXCEPT !.cached_ptr = other.data]]
  ELSE CopyTo(m, other, mem, device, b, stream)

(* Mutant of Destroyed: device memory is released at once. *)
DestroyedAtOnce(m, buf) ==
  IF buf = NoBuffer \/ ~buf.owns \/ buf.data = Null THEN m
  ELSE [m EXCEPT !.blocks[buf.data] = NoBlock]

(* ~buffer: only what it still owns is freed. *)
Destroyed(m, buf) ==
  IF buf = NoBuffer \/ ~buf.owns \/ buf.data = Null THEN m
  ELSE IF buf.mem = "cpu" THEN [m EXCEPT !.blocks[buf.data] = NoBlock]
  ELSE Submit(m, buf.stream, [do |-> "free", to |-> buf.data])

-----------------------------------------------------------------------------
(* Buffers of the program.  It works on default streams, and has no use for a
   buffer that was moved from but to assign to it or to destroy it. *)

Values     == {"one", "other"}
Places     == {<<"cpu", 0>>} \cup ({"gpu"} \X Devices)
Present(n) == buffers[n] # NoBuffer
Usable(n)  == Present(n) /\ ~buffers[n].moved
OnCurrent(place) == place[1] = "gpu" /\ CallersSetDevice => place[2] = current
Reachable(n) == OnCurrent(<<buffers[n].mem, buffers[n].device>>)
Viewed(n) == buffers[n].owns /\ buffers[n].data # Null
             /\ \E k \in Slots \ {n} : Present(k) /\ buffers[k].cached_ptr = buffers[n].cached_ptr

(* What other streams have to do with a buffer is waited for. *)
Settled(n, stream) == \A s \in Streams \ {stream} : \A i \in DOMAIN queue[s] :
                        buffers[n].cached_ptr \notin MentionedBy(queue[s][i])
Room == \A s \in Streams : Len(queue[s]) < MaxQueued

Program(bufs, values) ==
  /\ Room
  /\ buffers' = bufs
  /\ meant' = values
  /\ UNCHANGED current

(* buffer(size, mem, device) *)
Make(n, place) ==
  /\ ~Present(n) /\ OnCurrent(place) /\ Unused(Now, buffers) # {}
  /\ LET b == Next1(Unused(Now, buffers))
     IN  /\ Become([Now EXCEPT !.blocks[b] = Block(place[1], place[2], Garbage)])
         /\ Program([buffers EXCEPT ![n] = Owning(place[1], place[2], b, Default)],
                    [meant EXCEPT ![n] = Garbage])

(* buffer(pointer, size, mem, device), of data of another buffer *)
MakeView(n, of) ==
  /\ ~Present(n) /\ of # n /\ Usable(of) /\ buffers[of].owns
  /\ Program([buffers EXCEPT ![n] = View(buffers[of].mem, buffers[of].device, buffers[of].cached_ptr)],
             [meant EXCEPT ![n] = meant[of]])
  /\ UNCHANGED <<blocks, queue>>

(* Something is written through an owning buffer nobody views. *)
Write(n, value) ==
  /\ Usable(n) /\ Reachable(n) /\ Settled(n, Resolve(Default)) /\ buffers[n].owns /\ ~Viewed(n)
  /\ meant[n] = Garbage
  /\ Become(IF buffers[n].mem = "cpu"
            THEN [Now EXCEPT !.blocks[buffers[n].cached_ptr].value = value]
            ELSE Submit(Now, Resolve(Default),
                        [do |-> "fill", to |-> buffers[n].cached_ptr, value |-> value]))
  /\ Program(buffers, [meant EXCEPT ![n] = value])

CopyOrMove(Construct(_, _, _, _, _, _), n, from, place) ==
  /\ n # from /\ ~Present(n) /\ Usable(from) /\ Settled(from, Resolve(Default)) /\ OnCurrent(place)
  /\ Copyable(Now, buffers[from].cached_ptr, place[1], Default)
  /\ Unused(Now, buffers) # {}
  /\ LET r == Construct(Now, buffers[from], place[1], place[2], Next1(Unused(Now, buffers)), Default)
     IN  /\ Become(r.memory)
         /\ Program([buffers EXCEPT ![n] = r.buffer, ![from] = r.other],
                    [meant EXCEPT ![n] = meant[from]])

MakeCopy(n, from, place) == CopyOrMove(CopyTo, n, from, place)
MakeMove(n, from, place) == CopyOrMove(MoveTo, n, from, place)

(* The program does not release what it views, or what a stream uses that is
   not the one to release it. *)
Releasable(n) == ~Viewed(n) /\ (buffers[n].owns => Settled(n, buffers[n].stream))

(* operator=(buffer const&): a copy is made and swapped in, then what was held
   before is destroyed. *)
AssignCopy(n, from) ==
  /\ n # from /\ Present(n) /\ Releasable(n)
  /\ Usable(from) /\ Settled(from, Resolve(Default)) /\ Reachable(from)
  /\ Copyable(Now, buffers[from].cached_ptr, buffers[from].mem, Default)
  /\ Unused(Now, buffers) # {}
  /\ LET r == CopyTo(Now, buffers[from], buffers[from].mem, buffers[from].device,
                     Next1(Unused(Now, buffers)), Default)
     IN  /\ Become(Destroyed(r.memory, buffers[n]))
         /\ Program([buffers EXCEPT ![n] = r.buffer], [meant EXCEPT ![n] = meant[from]])

(* Mutant of AssignMove: the address that was cached is not taken over. *)
AssignMoveData(n, from) ==
  /\ n # from /\ Present(n) /\ Releasable(n) /\ Usable(from)
  /\ Become(Destroyed(Now, buffers[n]))
  /\ Program([buffers EXCEPT ![n] = [buffers[from] EXCEPT !.cached_ptr = buffers[n].cached_ptr],
                             ![from] = MovedFrom(@)],
             [meant EXCEPT ![n] = meant[from]])

(* operator=(buffer&&) *)
AssignMove(n, from) ==
  /\ n # from /\ Present(n) /\ Releasable(n) /\ Usable(from)
  /\ Become(Destroyed(Now, buffers[n]))
  /\ Program([buffers EXCEPT ![n] = buffers[from], ![from] = MovedFrom(@)],
             [meant EXCEPT ![n] = meant[from]])

Swap(n, k) ==
  /\ n # k /\ Present(n) /\ Present(k)
  /\ Program([buffers EXCEPT ![n] = buffers[k], ![k] = buffers[n]],
             [meant EXCEPT ![n] = meant[k], ![k] = meant[n]])
  /\ UNCHANGED <<blocks, queue>>

(* ~buffer *)
Destroy(n) ==
  /\ Present(n) /\ Releasable(n)
  /\ Become(Destroyed(Now, buffers[n]))
  /\ Program([buffers EXCEPT ![n] = NoBuffer], [meant EXCEPT ![n] = Garbage])

UseBuffers ==
  \E n \in Slots :
    \/ \E place \in Places : Make(n, place)
    \/ \E value \in Values : Write(n, value)
    \/ Destroy(n)
    \/ \E k \in Slots :
         \/ MakeView(n, k)
         \/ \E place \in Places : MakeCopy(n, k, place) \/ MakeMove(n, k, place)
         \/ AssignCopy(n, k)
         \/ AssignMove(n, k)
         \/ Swap(n, k)

-----------------------------------------------------------------------------
SetDevice(d) ==
  /\ d # current
  /\ current' = d
  /\ UNCHANGED <<blocks, queue, buffers, meant>>

(* A stream does the next thing that was submitted to it. *)
Run(s) ==
  /\ queue[s] # <<>>
  /\ queue' = [queue EXCEPT ![s] = Tail(@)]
  /\ LET op == Head(queue[s])
     IN  blocks' = CASE op.do = "fill"  -> [blocks EXCEPT ![op.to].value = op.value]
                     [] op.do = "copy"  -> [blocks EXCEPT ![op.to].value = blocks[op.from].value]
                     [] op.do = "free"  -> [blocks EXCEPT ![op.to] = NoBlock]
                     [] op.do = "infer" -> blocks
  /\ UNCHANGED <<current, buffers, meant>>

-----------------------------------------------------------------------------
(* Every block that is live has one owner that will release it, or is about to
   be released, once, and nobody owns a block that is not live: no move,
   assignment or exception leaks memory or frees it twice (the variant of
   buffer, the unique_ptr of its alternatives, buffer.hpp:245-256). *)
Owners(b) == {n \in DOMAIN buffers : Present(n) /\ buffers[n].owns /\ buffers[n].data = b}
FreesIn(s, b) == {i \in DOMAIN queue[s] : queue[s][i].do = "free" /\ queue[s][i].to = b}
Frees(b)  == UNION {{s} \X FreesIn(s, b) : s \in Streams}
OneOwner == \A b \in DOMAIN blocks :
  Cardinality(Owners(b)) + Cardinality(Frees(b)) = IF blocks[b].live THEN 1 ELSE 0

(* The address a buffer has cached is that of live memory, of the kind and on
   the device the buffer says, unless the buffer was moved from (data(),
   memory_type() and device_index(), buffer.hpp:287-309). *)
PointerValid == \A n \in DOMAIN buffers : Usable(n) =>
  LET b == blocks[buffers[n].cached_ptr]
  IN  /\ b.live /\ b.mem = buffers[n].mem
      /\ b.mem = "gpu" => b.device = buffers[n].device

(* A buffer of the program holds what was last written to it or to the one it
   was copied, moved or assigned from, once nothing is left to do that concerns
   its memory (the constructors and assignments of buffer.hpp:118-256). *)
ValuesKept == \A n \in Slots : Usable(n) =>
  LET b == buffers[n].cached_ptr
  IN  \/ \E s \in Streams : \E i \in DOMAIN queue[s] : b \in MentionedBy(queue[s][i])
      \/ blocks[b].value = meant[n]

-----------------------------------------------------------------------------
(* What the proofs need to know of memory m and buffers bufs, at every step and
   between the calls an operation is made of. *)

Numbers  == 1 .. MaxBlocks
Contents == Values \cup {Garbage, "model"}

BlockType == [mem : {"cpu", "gpu"}, device : Devices \cup {NoDevice}, value : Contents, live : BOOLEAN]

(* The stream of device memory is one that can run. *)
BufferType ==
  {x \in [mem : {"cpu", "gpu"}, device : Devices \cup {NoDevice, 0}, owns : BOOLEAN,
          data : {Null} \cup Numbers, cached_ptr : {Null} \cup Numbers, moved : BOOLEAN,
          stream : (Devices \cup {NoDevice, 0}) \X {0, 1}] :
     x.mem = "gpu" => x.device \in Devices /\ (x.owns => x.stream \in Streams)}

(* The block that n will release, and the one that entry i of stream s will. *)
Held(bufs, n)  == IF n \in DOMAIN bufs /\ bufs[n] # NoBuffer /\ bufs[n].owns THEN bufs[n].data ELSE Null
Freed(m, s, i) == IF i \in DOMAIN m.queue[s] /\ m.queue[s][i].do = "free" THEN m.queue[s][i].to ELSE Null

(* A block is live if and only if one buffer holds it or one entry frees it. *)
Ledger(m, bufs) ==
  /\ \A n \in DOMAIN bufs : Held(bufs, n) # Null => m.blocks[Held(bufs, n)].live
  /\ \A s \in Streams : \A i \in DOMAIN m.queue[s] :
       Freed(m, s, i) # Null => m.blocks[Freed(m, s, i)].live
  /\ \A b \in Numbers : m.blocks[b].live =>
       \/ \E n \in DOMAIN bufs : Held(bufs, n) = b
       \/ \E s \in Streams : \E i \in DOMAIN m.queue[s] : Freed(m, s, i) = b
  /\ \A n, k \in DOMAIN bufs : Held(bufs, n) = Held(bufs, k) /\ n # k => Held(bufs, n) = Null
  /\ \A n \in DOMAIN bufs, s \in Streams : \A i \in DOMAIN m.queue[s] :
       Held(bufs, n) = Freed(m, s, i) => Held(bufs, n) = Null
  /\ \A s, t \in Streams : \A i \in DOMAIN m.queue[s], j \in DOMAIN m.queue[t] :
       Freed(m, s, i) = Freed(m, t, j) /\ <<s, i>> # <<t, j>> => Freed(m, s, i) = Null

(* What a buffer points to is held by it, or by the one it is a view of, and is
   where the buffer says; a buffer that was moved from holds nothing. *)
Rooted(m, bufs) == \A n \in DOMAIN bufs : bufs[n] # NoBuffer =>
  /\ bufs[n].moved /\ bufs[n].owns => bufs[n].data = Null
  /\ ~bufs[n].moved =>
       LET b == bufs[n].cached_ptr
       IN  /\ b # Null /\ b = bufs[n].data
           /\ \E k \in DOMAIN bufs : Held(bufs, k) = b
           /\ m.blocks[b].mem = bufs[n].mem
           /\ m.blocks[b].mem = "gpu" => m.blocks[b].device = bufs[n].device

-----------------------------------------------------------------------------
(* What blocks will hold, for the proofs *)

Entries(m) == UNION {{s} \X DOMAIN m.queue[s] : s \in Streams}

(* All that waits and concerns block b is in stream s. *)
Home(m, b, s) == \A t \in Streams \ {s} : \A i \in DOMAIN m.queue[t] : b \notin MentionedBy(m.queue[t][i])

Writes(m, s, i, b) == m.queue[s][i].do \in {"fill", "copy"} /\ m.queue[s][i].to = b

(* When it is the turn of entry i of stream s, block b holds v: what the last
   entry that writes b has written, w[e] being what entry e will write. *)
HoldsAt(m, w, s, i, b, v) ==
  \/ m.blocks[b].value = v /\ \A j \in DOMAIN m.queue[s] : j < i => ~Writes(m, s, j, b)
  \/ \E j \in DOMAIN m.queue[s] :
       /\ j < i /\ Writes(m, s, j, b) /\ w[<<s, j>>] = v
       /\ \A k \in DOMAIN m.queue[s] : k < i /\ Writes(m, s, k, b) => k <= j

WillHold(m, w, b, v) == \E s \in Streams : Home(m, b, s) /\ HoldsAt(m, w, s, Len(m.queue[s]) + 1, b, v)

(* w foretells what an entry writes.  All that concerns its blocks waits in the
   same stream, their release last, and they are on a device. *)
EntryForetold(m, w, s, i) ==
  LET op == m.queue[s][i]
  IN  /\ op.do = "fill" => w[<<s, i>>] = op.value
      /\ op.do = "copy" => HoldsAt(m, w, s, i, op.from, w[<<s, i>>])
      /\ \A b \in MentionedBy(op) : Home(m, b, s) /\ m.blocks[b].mem = "gpu"
      /\ \A j \in DOMAIN m.queue[s] : Freed(m, s, i) \in MentionedBy(m.queue[s][j]) => j <= i
Foretold(m, w) == \A s \in Streams : \A i \in DOMAIN m.queue[s] : EntryForetold(m, w, s, i)

(* Buffers hold what they should, or will. *)
Kept(m, bufs, values) == \E w \in [Entries(m) -> Contents] :
  /\ Foretold(m, w)
  /\ \A n \in Slots : bufs[n] # NoBuffer /\ ~bufs[n].moved =>
       WillHold(m, w, bufs[n].cached_ptr, values[n])

=============================================================================

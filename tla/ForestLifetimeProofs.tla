------------------------ MODULE ForestLifetimeProofs ------------------------
(***************************************************************************)
(* Proofs about buffers and forests in memory, for any number of devices,  *)
(* of blocks of memory and of buffers of the program.                      *)
(***************************************************************************)
EXTENDS ForestLifetime, IntegerLemmas, SequenceTheorems, FiniteSetTheorems, TLAPS

-----------------------------------------------------------------------------
(* Streams and queues *)

(* The names of streams, buffers and blocks are apart. *)
LEMMA Apart ==
  /\ NoDevice \notin Devices /\ Default \notin Streams /\ Null \notin Numbers
  /\ Numbers \subseteq Nat
  /\ NoBuffer \notin BufferType
<1>1. NoBuffer \notin BufferType
  <2> SUFFICES ASSUME NoBuffer \in BufferType PROVE FALSE
    OBVIOUS
  <2>1. NoBuffer.mem \in {"cpu", "gpu"}
    BY DEF BufferType
  <2> QED
    BY <2>1 DEF NoBuffer
<1>2. NoDevice \notin Devices
  BY MemoryAssumption DEF NoDevice
<1> QED
  BY <1>1, <1>2, MemoryAssumption DEF Default, Streams, Null, Numbers

(* Where the work on a stream is done. *)
LEMMA Resolved ==
  ASSUME current \in Devices, NEW s \in Streams \cup {Default}
  PROVE  Resolve(s) \in Streams
  BY DEF Resolve, Streams

(* What is typed of memory. *)
LEMMA MemoryFields ==
  ASSUME NEW m, Typed(m)
  PROVE  /\ m.blocks \in [Numbers -> BlockType] /\ m.queue \in [Streams -> Seq(Operation)]
         /\ m = [blocks |-> m.blocks, queue |-> m.queue]
         /\ \A s \in Streams : DOMAIN m.queue[s] = 1 .. Len(m.queue[s]) /\ Len(m.queue[s]) \in Nat
  BY DEF Typed

(* An operation has one of four forms. *)
LEMMA OperationForms ==
  ASSUME NEW op \in Operation
  PROVE  /\ op.do \in {"fill", "copy", "free", "infer"}
         /\ op.do = "fill" => op.to \in Numbers /\ op.value \in Contents
         /\ op.do = "copy" => op.to \in Numbers /\ op.from \in Numbers
         /\ op.do = "free" => op.to \in Numbers
         /\ op.do = "infer" => \A a \in DOMAIN op.reads : op.reads[a] \in Numbers
  BY DEF Operation

(* What is submitted comes last. *)
LEMMA Submitted ==
  ASSUME NEW m, Typed(m), NEW s \in Streams, NEW op \in Operation, NEW m2, m2 = Submit(m, s, op)
  PROVE  /\ Typed(m2)
         /\ m2.blocks = m.blocks
         /\ Len(m2.queue[s]) = Len(m.queue[s]) + 1
         /\ m2.queue[s][Len(m.queue[s]) + 1] = op
         /\ \A t \in Streams \ {s} : m2.queue[t] = m.queue[t]
         /\ \A t \in Streams : \A i \in DOMAIN m.queue[t] :
              i \in DOMAIN m2.queue[t] /\ m2.queue[t][i] = m.queue[t][i]
<1>1. m2 = [blocks |-> m.blocks, queue |-> [m.queue EXCEPT ![s] = Append(m.queue[s], op)]]
  <2>1. m \in [blocks : [Numbers -> BlockType], queue : [Streams -> Seq(Operation)]]
    BY DEF Typed
  <2> QED
    BY <2>1 DEF Submit
<1> DEFINE q == m.queue[s]
<1>2. q \in Seq(Operation)
  BY MemoryFields
<1>3. /\ Append(q, op) \in Seq(Operation) /\ Len(Append(q, op)) = Len(q) + 1
      /\ Append(q, op)[Len(q) + 1] = op
      /\ \A i \in 1 .. Len(q) : Append(q, op)[i] = q[i]
      /\ DOMAIN Append(q, op) = 1 .. Len(q) + 1
  BY <1>2, AppendProperties
<1>4. /\ m2.blocks = m.blocks /\ m2.queue = [m.queue EXCEPT ![s] = Append(q, op)]
  BY <1>1
<1> QED
  BY <1>1, <1>3, <1>4, MemoryFields DEF Typed

(* Only the last place of the queue is new, for entries that free a block. *)
LEMMA SubmittedFrees ==
  ASSUME NEW m, Typed(m), NEW s \in Streams, NEW op \in Operation, NEW m2, m2 = Submit(m, s, op),
         NEW last, last = Len(m.queue[s]) + 1
  PROVE  /\ last \in Nat
         /\ Freed(m, s, last) = Null
         /\ Freed(m2, s, last) = IF op.do = "free" THEN op.to ELSE Null
         /\ \A t \in Streams, i \in Nat : <<t, i>> # <<s, last>> => Freed(m2, t, i) = Freed(m, t, i)
<1>1. /\ Typed(m2) /\ Len(m2.queue[s]) = last /\ m2.queue[s][last] = op
      /\ \A t \in Streams \ {s} : m2.queue[t] = m.queue[t]
      /\ \A i \in DOMAIN m.queue[s] : m2.queue[s][i] = m.queue[s][i]
  BY Submitted
<1>2. /\ DOMAIN m.queue[s] = 1 .. Len(m.queue[s]) /\ Len(m.queue[s]) \in Nat
      /\ DOMAIN m2.queue[s] = 1 .. Len(m2.queue[s])
  BY <1>1, MemoryFields
<1>3. \A i \in Nat : i # last => (i \in DOMAIN m2.queue[s] <=> i \in DOMAIN m.queue[s])
  BY <1>1, <1>2
<1>4. last \in DOMAIN m2.queue[s] /\ last \notin DOMAIN m.queue[s] /\ last \in Nat
  BY <1>1, <1>2
<1>5. \A t \in Streams, i \in Nat : <<t, i>> # <<s, last>> => Freed(m2, t, i) = Freed(m, t, i)
  <2> SUFFICES ASSUME NEW t \in Streams, NEW i \in Nat, <<t, i>> # <<s, last>>
               PROVE  Freed(m2, t, i) = Freed(m, t, i)
    OBVIOUS
  <2>1. CASE t = s
    BY <1>1, <1>3, <2>1 DEF Freed
  <2>2. CASE t # s
    BY <1>1, <2>2 DEF Freed
  <2> QED
    BY <2>1, <2>2
<1> QED
  BY <1>1, <1>4, <1>5 DEF Freed

(* m2 has the blocks of m where they were, whatever they hold. *)
SamePlaces(m, m2, others) == \A b \in Numbers \ others :
  m2.blocks[b].live = m.blocks[b].live /\ m2.blocks[b].mem = m.blocks[b].mem
  /\ m2.blocks[b].device = m.blocks[b].device

(* The same entries free the same blocks. *)
SameFrees(m, m2) == \A s \in Streams, i \in Nat : Freed(m2, s, i) = Freed(m, s, i)

(* There is one entry more, which frees b. *)
FreesAlso(m, m2, b) == \E t \in Streams, k \in Nat :
  /\ Freed(m, t, k) = Null /\ Freed(m2, t, k) = b
  /\ \A s \in Streams, i \in Nat : <<s, i>> # <<t, k>> => Freed(m2, s, i) = Freed(m, s, i)

(* The block a buffer will release. *)
HeldBy(x) == IF x # NoBuffer /\ x.owns THEN x.data ELSE Null

(* A destructor gives up what the buffer holds and no more: the block is free
   at once, or an entry of a queue will free it. *)
LEMMA DestroyedGivesUp ==
  ASSUME NEW m, Typed(m), NEW x \in BufferType \cup {NoBuffer}, NEW m2, m2 = Destroyed(m, x)
  PROVE  /\ Typed(m2)
         /\ \A b \in Numbers : b # HeldBy(x) => m2.blocks[b] = m.blocks[b]
         /\ HeldBy(x) = Null => m2 = m
         /\ HeldBy(x) # Null =>
              \/ m2.blocks[HeldBy(x)] = NoBlock /\ m2.queue = m.queue
              \/ m2.blocks = m.blocks /\ FreesAlso(m, m2, HeldBy(x))
                 /\ m2 = Submit(m, x.stream, [do |-> "free", to |-> HeldBy(x)]) /\ x.stream \in Streams
<1>1. CASE HeldBy(x) = Null
  BY <1>1 DEF Destroyed, HeldBy
<1>2. CASE HeldBy(x) # Null
  <2>1. /\ x \in BufferType /\ x # NoBuffer /\ x.owns /\ x.data = HeldBy(x) /\ HeldBy(x) \in Numbers
        /\ x.mem = "gpu" => x.stream \in Streams
        /\ x.mem \in {"cpu", "gpu"}
    BY <1>2, Apart DEF HeldBy, BufferType
  <2>2. CASE x.mem = "cpu"
    <3>1. m \in [blocks : [Numbers -> BlockType], queue : [Streams -> Seq(Operation)]]
      BY DEF Typed
    <3>2. m2 = [m EXCEPT !.blocks[x.data] = NoBlock]
      BY <2>1, <2>2, <1>2 DEF Destroyed
    <3>3. m2.blocks = [m.blocks EXCEPT ![x.data] = NoBlock] /\ m2.queue = m.queue
          /\ m2 = [blocks |-> m2.blocks, queue |-> m2.queue]
      BY <3>1, <3>2
    <3>4. NoBlock \in BlockType
      BY DEF NoBlock, BlockType, Contents, Garbage
    <3> QED
      BY <2>1, <3>1, <3>3, <3>4, <1>2 DEF Typed
  <2>3. CASE x.mem = "gpu"
    <3> DEFINE op == [do |-> "free", to |-> x.data]
    <3>1. op \in Operation
      BY <2>1 DEF Operation
    <3>2. m2 = Submit(m, x.stream, op)
      BY <2>1, <2>3, <1>2 DEF Destroyed
    <3>3. Typed(m2) /\ m2.blocks = m.blocks
      BY <2>1, <2>3, <3>1, <3>2, Submitted
    <3>4. FreesAlso(m, m2, x.data)
      <4> DEFINE last == Len(m.queue[x.stream]) + 1
      <4>1. /\ last \in Nat /\ Freed(m, x.stream, last) = Null /\ Freed(m2, x.stream, last) = x.data
            /\ \A t \in Streams, i \in Nat :
                 <<t, i>> # <<x.stream, last>> => Freed(m2, t, i) = Freed(m, t, i)
        BY <2>1, <2>3, <3>1, <3>2, SubmittedFrees
      <4> HIDE DEF last
      <4> QED
        BY <2>1, <2>3, <4>1 DEF FreesAlso
    <3> QED
      BY <2>1, <2>3, <3>2, <3>3, <3>4, <1>2
  <2> QED
    BY <2>1, <2>2, <2>3
<1> QED
  BY <1>1, <1>2

(* Work that frees nothing. *)
LEMMA SubmittedQuiet ==
  ASSUME NEW m, Typed(m), NEW s \in Streams, NEW op \in Operation, op.do # "free",
         NEW m2, m2 = Submit(m, s, op)
  PROVE  Typed(m2) /\ m2.blocks = m.blocks /\ SamePlaces(m, m2, {}) /\ SameFrees(m, m2)
<1> DEFINE last == Len(m.queue[s]) + 1
<1>1. /\ Freed(m, s, last) = Null /\ Freed(m2, s, last) = Null
      /\ \A t \in Streams, i \in Nat : <<t, i>> # <<s, last>> => Freed(m2, t, i) = Freed(m, t, i)
  BY SubmittedFrees
<1>2. Typed(m2) /\ m2.blocks = m.blocks
  BY Submitted
<1> HIDE DEF last
<1>3. SameFrees(m, m2)
  BY <1>1 DEF SameFrees
<1> QED
  BY <1>2, <1>3 DEF SamePlaces

WithValue(m, b, v) == [m EXCEPT !.blocks[b].value = v]
WithBlock(m, b, x) == [m EXCEPT !.blocks[b] = x]

(* Another value in a block. *)
LEMMA ValueChanged ==
  ASSUME NEW m, Typed(m), NEW b \in Numbers, NEW v \in Contents,
         NEW m2, m2 = WithValue(m, b, v)
  PROVE  /\ Typed(m2) /\ m2.queue = m.queue
         /\ SamePlaces(m, m2, {}) /\ SameFrees(m, m2)
         /\ m2.blocks[b].value = v
         /\ \A c \in Numbers \ {b} : m2.blocks[c] = m.blocks[c]
<1>1. m \in [blocks : [Numbers -> BlockType], queue : [Streams -> Seq(Operation)]]
  BY DEF Typed
<1>2. /\ m2.blocks = [m.blocks EXCEPT ![b] = [m.blocks[b] EXCEPT !.value = v]] /\ m2.queue = m.queue
      /\ m2 = [blocks |-> m2.blocks, queue |-> m2.queue]
  BY <1>1 DEF WithValue
<1>3. m.blocks[b] \in BlockType
  BY <1>1
<1> DEFINE x == [m.blocks[b] EXCEPT !.value = v]
<1>4. /\ x \in BlockType /\ x.value = v /\ x.live = m.blocks[b].live /\ x.mem = m.blocks[b].mem
      /\ x.device = m.blocks[b].device
  BY <1>3 DEF BlockType
<1> HIDE DEF x
<1>5. /\ m2.blocks = [m.blocks EXCEPT ![b] = x]
  BY <1>2 DEF x
<1>6. /\ m2.blocks[b] = x /\ \A c \in Numbers \ {b} : m2.blocks[c] = m.blocks[c]
      /\ m2.blocks \in [Numbers -> BlockType]
  BY <1>1, <1>4, <1>5
<1>7. SamePlaces(m, m2, {})
  BY <1>4, <1>6 DEF SamePlaces
<1>8. SameFrees(m, m2)
  BY <1>2 DEF SameFrees, Freed
<1>9. Typed(m2)
  BY <1>1, <1>2, <1>6 DEF Typed
<1> QED
  BY <1>2, <1>4, <1>6, <1>7, <1>8, <1>9

(* A block in another state. *)
BlockPut(m, b, x, m2) ==
  /\ Typed(m2) /\ m2.queue = m.queue
  /\ SamePlaces(m, m2, {b}) /\ SameFrees(m, m2)
  /\ m2.blocks[b] = x
  /\ \A c \in Numbers \ {b} : m2.blocks[c] = m.blocks[c]

(* A block put in another state leaves all the rest. *)
LEMMA BlockChanged ==
  ASSUME NEW m, Typed(m), NEW b \in Numbers, NEW x \in BlockType
  PROVE  BlockPut(m, b, x, WithBlock(m, b, x))
<1> DEFINE m2 == WithBlock(m, b, x)
<1>1. m \in [blocks : [Numbers -> BlockType], queue : [Streams -> Seq(Operation)]]
  BY DEF Typed
<1>2. /\ m2.blocks = [m.blocks EXCEPT ![b] = x] /\ m2.queue = m.queue
      /\ m2 = [blocks |-> m2.blocks, queue |-> m2.queue]
  BY <1>1 DEF WithBlock
<1> HIDE DEF m2
<1>3. /\ m2.blocks[b] = x /\ \A c \in Numbers \ {b} : m2.blocks[c] = m.blocks[c]
      /\ m2.blocks \in [Numbers -> BlockType]
  BY <1>1, <1>2
<1>4. SamePlaces(m, m2, {b})
  BY <1>3 DEF SamePlaces
<1>5. SameFrees(m, m2)
  BY <1>2 DEF SameFrees, Freed
<1>6. Typed(m2)
  BY <1>1, <1>2, <1>3 DEF Typed
<1> QED
  BY <1>2, <1>3, <1>4, <1>5, <1>6 DEF m2, BlockPut

(* A copy moves a value, now or later. *)
LEMMA CopiedQuiet ==
  ASSUME NEW m, Typed(m), NEW from \in Numbers, NEW to \in Numbers, NEW stream,
         Resolve(stream) \in Streams, NEW m2, m2 = Copied(m, from, to, stream)
  PROVE  /\ Typed(m2) /\ SamePlaces(m, m2, {}) /\ SameFrees(m, m2)
         /\ m.blocks[to].mem = "cpu" =>
              /\ m2.queue = m.queue /\ m2.blocks[to].value = m.blocks[from].value
              /\ \A c \in Numbers \ {to} : m2.blocks[c] = m.blocks[c]
         /\ m.blocks[to].mem = "gpu" /\ m.blocks[from].mem = "cpu" =>
              /\ [do |-> "fill", to |-> to, value |-> m.blocks[from].value] \in Operation
              /\ m2 = Submit(m, Resolve(stream),
                             [do |-> "fill", to |-> to, value |-> m.blocks[from].value])
<1>1. m.blocks[from] \in BlockType /\ m.blocks[to] \in BlockType
  BY MemoryFields
<1>2. m.blocks[from].value \in Contents /\ m.blocks[from].mem \in {"cpu", "gpu"}
      /\ m.blocks[to].mem \in {"cpu", "gpu"}
  BY <1>1 DEF BlockType
<1>3. CASE m.blocks[to].mem = "cpu"
  <2> DEFINE v == m.blocks[from].value
  <2>1. m2 = WithValue(m, to, v) /\ v \in Contents
    BY <1>2, <1>3 DEF Copied, WithValue
  <2> HIDE DEF v
  <2>2. /\ Typed(m2) /\ m2.queue = m.queue /\ SamePlaces(m, m2, {}) /\ SameFrees(m, m2)
        /\ m2.blocks[to].value = v
        /\ \A c \in Numbers \ {to} : m2.blocks[c] = m.blocks[c]
    BY <2>1, ValueChanged
  <2> QED
    BY <1>3, <2>2 DEF v
<1>4. CASE m.blocks[to].mem = "gpu" /\ m.blocks[from].mem = "cpu"
  <2> DEFINE op == [do |-> "fill", to |-> to, value |-> m.blocks[from].value]
  <2>1. op \in Operation /\ op.do # "free"
    BY <1>2 DEF Operation
  <2>2. m2 = Submit(m, Resolve(stream), op)
    BY <1>4 DEF Copied
  <2>3. Typed(m2) /\ SamePlaces(m, m2, {}) /\ SameFrees(m, m2)
    BY <2>1, <2>2, SubmittedQuiet
  <2> QED
    BY <1>4, <2>1, <2>2, <2>3
<1>5. CASE m.blocks[to].mem = "gpu" /\ m.blocks[from].mem = "gpu"
  <2> DEFINE op == [do |-> "copy", to |-> to, from |-> from]
  <2>1. op \in Operation /\ op.do # "free"
    BY DEF Operation
  <2>2. m2 = Submit(m, Resolve(stream), op)
    BY <1>5 DEF Copied
  <2>3. Typed(m2) /\ SamePlaces(m, m2, {}) /\ SameFrees(m, m2)
    BY <2>1, <2>2, SubmittedQuiet
  <2> QED
    BY <1>5, <2>3
<1> QED
  BY <1>2, <1>3, <1>4, <1>5

(* What a new allocation can have: a block that is free and that nothing refers to. *)
LEMMA UnusedBlock ==
  ASSUME NEW m, NEW bufs, Unused(m, bufs) # {}, NEW b, b = Next1(Unused(m, bufs))
  PROVE  /\ b \in Unused(m, bufs) /\ b \in Numbers /\ ~m.blocks[b].live
         /\ \A n \in DOMAIN bufs : bufs[n] # NoBuffer => bufs[n].data # b /\ bufs[n].cached_ptr # b
         /\ \A s \in Streams : \A i \in DOMAIN m.queue[s] : b \notin MentionedBy(m.queue[s][i])
<1>1. PICK c \in Unused(m, bufs) : \A d \in Unused(m, bufs) : c <= d
  <2>1. Unused(m, bufs) \subseteq Nat
    BY MemoryAssumption DEF Unused
  <2> HIDE DEF Unused
  <2> QED
    BY <2>1, LeastNat
<1>2. b \in Unused(m, bufs)
  <2> HIDE DEF Unused
  <2> QED
    BY <1>1 DEF Next1
<1> QED
  BY <1>2 DEF Unused, Numbers

(* No entry frees it. *)
LEMMA UnusedNotFreed ==
  ASSUME NEW m, Typed(m), NEW b \in Numbers,
         \A s \in Streams : \A i \in DOMAIN m.queue[s] : b \notin MentionedBy(m.queue[s][i])
  PROVE  \A s \in Streams, i \in Nat : Freed(m, s, i) # b
<1> SUFFICES ASSUME NEW s \in Streams, NEW i \in Nat, Freed(m, s, i) = b PROVE FALSE
  OBVIOUS
<1>1. b # Null
  BY Apart
<1>2. i \in DOMAIN m.queue[s] /\ m.queue[s][i].do = "free" /\ m.queue[s][i].to = b
  BY <1>1 DEF Freed
<1>3. MentionedBy(m.queue[s][i]) = {b}
  BY <1>2 DEF MentionedBy
<1> QED
  BY <1>2, <1>3

-----------------------------------------------------------------------------
(* The ledger *)

(* Positions of queues can be any number. *)
LEMMA LedgerFacts ==
  ASSUME NEW m, Typed(m), NEW bufs
  PROVE  Ledger(m, bufs) <=>
    /\ \A n \in DOMAIN bufs : Held(bufs, n) # Null => m.blocks[Held(bufs, n)].live
    /\ \A s \in Streams, i \in Nat : Freed(m, s, i) # Null => m.blocks[Freed(m, s, i)].live
    /\ \A b \in Numbers : m.blocks[b].live =>
         \/ \E n \in DOMAIN bufs : Held(bufs, n) = b
         \/ \E s \in Streams, i \in Nat : Freed(m, s, i) = b
    /\ \A n, k \in DOMAIN bufs : Held(bufs, n) = Held(bufs, k) /\ n # k => Held(bufs, n) = Null
    /\ \A n \in DOMAIN bufs, s \in Streams, i \in Nat :
         Held(bufs, n) = Freed(m, s, i) => Held(bufs, n) = Null
    /\ \A s, t \in Streams, i, j \in Nat :
         Freed(m, s, i) = Freed(m, t, j) /\ <<s, i>> # <<t, j>> => Freed(m, s, i) = Null
<1>1. \A s \in Streams : DOMAIN m.queue[s] \subseteq Nat
  BY MemoryFields
<1>2. \A s \in Streams, i \in Nat : Freed(m, s, i) # Null => i \in DOMAIN m.queue[s]
  BY DEF Freed
<1>3. Null \notin Numbers
  BY Apart
<1> HIDE DEF Freed, Held
<1> QED
  BY <1>1, <1>2, <1>3 DEF Ledger

(* Blocks that are held or freed have numbers. *)
LEMMA FreedNumber ==
  ASSUME NEW m, Typed(m), NEW s \in Streams, NEW i \in Nat
  PROVE  Freed(m, s, i) \in Numbers \cup {Null}
<1> SUFFICES ASSUME Freed(m, s, i) # Null PROVE Freed(m, s, i) \in Numbers
  OBVIOUS
<1>1. i \in DOMAIN m.queue[s] /\ m.queue[s][i].do = "free" /\ Freed(m, s, i) = m.queue[s][i].to
  BY DEF Freed
<1>2. m.queue[s][i] \in Operation
  BY <1>1, MemoryFields
<1> QED
  BY <1>1, <1>2, OperationForms

Bufs == [Slots \cup Arrays -> BufferType \cup {NoBuffer}]

(* What a buffer holds is a block or none. *)
LEMMA HeldNumber ==
  ASSUME NEW bufs \in Bufs
  PROVE  /\ DOMAIN bufs = Slots \cup Arrays
         /\ \A n \in DOMAIN bufs : Held(bufs, n) = HeldBy(bufs[n]) /\ Held(bufs, n) \in Numbers \cup {Null}
<1>1. \A x \in BufferType : x.data \in Numbers \cup {Null}
  BY DEF BufferType
<1> QED
  BY <1>1 DEF Bufs, Held, HeldBy

(* Two buffers change places, or one takes over what the other held. *)
HoldersMove(bufs, bufs2, n, k) ==
  /\ n \in DOMAIN bufs /\ k \in DOMAIN bufs
  /\ Held(bufs2, n) = Held(bufs, k) /\ Held(bufs2, k) = Held(bufs, n)
  /\ \A l \in DOMAIN bufs \ {n, k} : Held(bufs2, l) = Held(bufs, l)

(* The ledger does not ask which buffer holds a block. *)
LEMMA LedgerMoved ==
  ASSUME NEW m, Typed(m), NEW bufs \in Bufs, NEW bufs2 \in Bufs, Ledger(m, bufs),
         NEW n, NEW k, HoldersMove(bufs, bufs2, n, k)
  PROVE  Ledger(m, bufs2)
<1> DEFINE h(l) == Held(bufs, l)
           h2(l) == Held(bufs2, l)
           D == DOMAIN bufs
<1>1. DOMAIN bufs2 = D
  BY HeldNumber
<1>2. \A l \in D : h(l) \in Numbers \cup {Null} /\ h2(l) \in Numbers \cup {Null}
  BY <1>1, HeldNumber
<1>5. n \in D /\ k \in D /\ h2(n) = h(k) /\ h2(k) = h(n) /\ \A l \in D \ {n, k} : h2(l) = h(l)
  BY DEF HoldersMove
<1> DEFINE swap(l) == IF l = n THEN k ELSE IF l = k THEN n ELSE l
<1>6. \A l \in D : swap(l) \in D /\ h2(l) = h(swap(l)) /\ h(l) = h2(swap(l))
  BY <1>5
<1>7. \A l, j \in D : l # j => swap(l) # swap(j)
  OBVIOUS
<1>8. /\ \A l \in D : h(l) # Null => m.blocks[h(l)].live
      /\ \A s \in Streams, i \in Nat : Freed(m, s, i) # Null => m.blocks[Freed(m, s, i)].live
      /\ \A b \in Numbers : m.blocks[b].live =>
           (\E l \in D : h(l) = b) \/ (\E s \in Streams, i \in Nat : Freed(m, s, i) = b)
      /\ \A l, j \in D : h(l) = h(j) /\ l # j => h(l) = Null
      /\ \A l \in D, s \in Streams, i \in Nat : h(l) = Freed(m, s, i) => h(l) = Null
      /\ \A s, t \in Streams, i, j \in Nat :
           Freed(m, s, i) = Freed(m, t, j) /\ <<s, i>> # <<t, j>> => Freed(m, s, i) = Null
  BY LedgerFacts
<1> HIDE DEF h, h2, swap, D
<1>9. \A l \in D : h2(l) # Null => m.blocks[h2(l)].live
  BY <1>2, <1>6, <1>8
<1>10. \A b \in Numbers : m.blocks[b].live =>
           (\E l \in D : h2(l) = b) \/ (\E s \in Streams, i \in Nat : Freed(m, s, i) = b)
  BY <1>6, <1>8
<1>11. \A l, j \in D : h2(l) = h2(j) /\ l # j => h2(l) = Null
  BY <1>6, <1>7, <1>8
<1>12. \A l \in D, s \in Streams, i \in Nat : h2(l) = Freed(m, s, i) => h2(l) = Null
  BY <1>6, <1>8
<1> QED
  BY <1>1, <1>8, <1>9, <1>10, <1>11, <1>12, LedgerFacts DEF h2, D

(* One buffer gives up what it held, if anything, and takes a block that was
   not live, or none. *)
Exchanged(m, m2, old, new) ==
  /\ SamePlaces(m, m2, {old, new})
  /\ new # Null => ~m.blocks[new].live /\ m2.blocks[new].live
  /\ \/ old = Null /\ SameFrees(m, m2)
     \/ old # Null /\ ~m2.blocks[old].live /\ SameFrees(m, m2)
     \/ old # Null /\ m2.blocks[old].live /\ FreesAlso(m, m2, old)

HolderChanges(bufs, bufs2, n) ==
  n \in DOMAIN bufs /\ \A l \in DOMAIN bufs \ {n} : Held(bufs2, l) = Held(bufs, l)

(* Blocks taken and given up in step with the buffers keep the ledger. *)
LEMMA LedgerExchanged ==
  ASSUME NEW m, Typed(m), NEW m2, Typed(m2), NEW bufs \in Bufs, NEW bufs2 \in Bufs, Ledger(m, bufs),
         NEW n, HolderChanges(bufs, bufs2, n), Exchanged(m, m2, Held(bufs, n), Held(bufs2, n))
  PROVE  Ledger(m2, bufs2)
<1> DEFINE old == Held(bufs, n)
           new == Held(bufs2, n)
           h(l) == Held(bufs, l)
           h2(l) == Held(bufs2, l)
           D == DOMAIN bufs
           f(s, i) == Freed(m, s, i)
           f2(s, i) == Freed(m2, s, i)
           live(b) == m.blocks[b].live
           live2(b) == m2.blocks[b].live
<1>1. DOMAIN bufs2 = D
  BY HeldNumber
<1>2. \A l \in D : h(l) \in Numbers \cup {Null} /\ h2(l) \in Numbers \cup {Null}
  BY <1>1, HeldNumber
<1>3. \A s \in Streams, i \in Nat : f2(s, i) \in Numbers \cup {Null} /\ f(s, i) \in Numbers \cup {Null}
  BY FreedNumber
<1>4. \A b \in Numbers \ {old, new} : live2(b) = live(b)
  BY DEF Exchanged, SamePlaces
<1>5. h(n) = old /\ h2(n) = new /\ n \in D /\ \A l \in D \ {n} : h2(l) = h(l)
  BY DEF HolderChanges
<1>6. new # Null => ~live(new) /\ live2(new)
  BY DEF Exchanged
<1>7. \/ old = Null /\ \A s \in Streams, i \in Nat : f2(s, i) = f(s, i)
      \/ old # Null /\ ~live2(old) /\ \A s \in Streams, i \in Nat : f2(s, i) = f(s, i)
      \/ old # Null /\ live2(old) /\ \E t \in Streams, k \in Nat :
           /\ f(t, k) = Null /\ f2(t, k) = old
           /\ \A s \in Streams, i \in Nat : <<s, i>> # <<t, k>> => f2(s, i) = f(s, i)
  BY DEF Exchanged, SameFrees, FreesAlso
<1>8. /\ \A l \in D : h(l) # Null => live(h(l))
      /\ \A s \in Streams, i \in Nat : f(s, i) # Null => live(f(s, i))
      /\ \A b \in Numbers : live(b) =>
           (\E l \in D : h(l) = b) \/ (\E s \in Streams, i \in Nat : f(s, i) = b)
      /\ \A l, j \in D : h(l) = h(j) /\ l # j => h(l) = Null
      /\ \A l \in D, s \in Streams, i \in Nat : h(l) = f(s, i) => h(l) = Null
      /\ \A s, t \in Streams, i, j \in Nat : f(s, i) = f(t, j) /\ <<s, i>> # <<t, j>> => f(s, i) = Null
  BY LedgerFacts
<1> HIDE DEF h, h2, D, f, f2, live, live2, old, new
<1>9. old # Null => live(old) /\ old # new
  BY <1>5, <1>6, <1>8
<1>10. \A l \in D : h2(l) # Null => live2(h2(l))
  BY <1>2, <1>4, <1>5, <1>6, <1>8, <1>9
<1>11. \A s \in Streams, i \in Nat : f(s, i) # Null => f(s, i) # old /\ f(s, i) # new
  BY <1>3, <1>5, <1>6, <1>8, <1>9
<1>12. \A s \in Streams, i \in Nat : f2(s, i) # Null => live2(f2(s, i))
  <2> SUFFICES ASSUME NEW s \in Streams, NEW i \in Nat, f2(s, i) # Null PROVE live2(f2(s, i))
    OBVIOUS
  <2>1. CASE f2(s, i) = f(s, i)
    BY <1>3, <1>4, <1>8, <1>11, <2>1
  <2>2. CASE f2(s, i) # f(s, i)
    BY <1>7, <2>2
  <2> QED
    BY <2>1, <2>2
<1>13. \A b \in Numbers : live2(b) =>
           (\E l \in D : h2(l) = b) \/ (\E s \in Streams, i \in Nat : f2(s, i) = b)
  <2> SUFFICES ASSUME NEW b \in Numbers, live2(b), b # new
               PROVE  (\E l \in D : h2(l) = b) \/ (\E s \in Streams, i \in Nat : f2(s, i) = b)
    BY <1>5
  <2>1. CASE b = old
    <3>1. live2(old) /\ old # Null
      BY <2>1, Apart
    <3>2. \E t \in Streams, k \in Nat : f2(t, k) = old
      BY <1>7, <3>1
    <3> QED
      BY <2>1, <3>2
  <2>2. CASE b # old
    <3>1. live(b)
      BY <1>4, <2>2
    <3>2. CASE \E l \in D : h(l) = b
      BY <1>5, <2>2, <3>2
    <3>3. CASE \E s \in Streams, i \in Nat : f(s, i) = b
      <4>1. PICK s \in Streams, i \in Nat : f(s, i) = b
        BY <3>3
      <4>2. b # Null
        BY Apart
      <4>3. f2(s, i) = f(s, i)
        BY <1>7, <4>1, <4>2
      <4> QED
        BY <4>1, <4>3
    <3> QED
      BY <1>8, <3>1, <3>2, <3>3
  <2> QED
    BY <2>1, <2>2
<1>14. \A l, j \in D : h2(l) = h2(j) /\ l # j => h2(l) = Null
  BY <1>2, <1>5, <1>6, <1>8
<1>15. \A l \in D, s \in Streams, i \in Nat : h2(l) = f2(s, i) => h2(l) = Null
  <2> SUFFICES ASSUME NEW l \in D, NEW s \in Streams, NEW i \in Nat, h2(l) = f2(s, i), h2(l) # Null PROVE FALSE
    OBVIOUS
  <2>1. f2(s, i) = f(s, i) \/ f2(s, i) = old
    BY <1>7
  <2>2. CASE l = n
    BY <1>5, <1>9, <1>11, <2>1, <2>2
  <2>3. CASE l # n
    BY <1>5, <1>8, <2>1, <2>3
  <2> QED
    BY <2>2, <2>3
<1>16. \A s, t \in Streams, i, j \in Nat : f2(s, i) = f2(t, j) /\ <<s, i>> # <<t, j>> => f2(s, i) = Null
  <2> SUFFICES ASSUME NEW s \in Streams, NEW t \in Streams, NEW i \in Nat, NEW j \in Nat,
                      f2(s, i) = f2(t, j), <<s, i>> # <<t, j>>, f2(s, i) # Null
               PROVE  FALSE
    OBVIOUS
  <2>1. CASE f2(s, i) = f(s, i) /\ f2(t, j) = f(t, j)
    <3>1. f(s, i) = f(t, j) /\ f(s, i) # Null
      BY <2>1
    <3>2. \A u, v \in Streams, k, l \in Nat : f(u, k) = f(v, l) /\ <<u, k>> # <<v, l>> => f(u, k) = Null
      BY <1>8
    <3>3. f(s, i) = Null
      BY <3>1, <3>2
    <3> QED
      BY <3>1, <3>3
  <2>2. CASE f2(s, i) # f(s, i) \/ f2(t, j) # f(t, j)
    <3>1. PICK u \in Streams, k \in Nat :
            /\ f2(u, k) = old /\ old # Null
            /\ \A v \in Streams, l \in Nat : <<v, l>> # <<u, k>> => f2(v, l) = f(v, l)
      BY <1>7, <2>2
    <3>2. CASE <<s, i>> = <<u, k>>
      BY <1>11, <3>1, <3>2
    <3>3. CASE <<s, i>> # <<u, k>>
      BY <1>11, <2>2, <3>1, <3>3
    <3> QED
      BY <3>2, <3>3
  <2> QED
    BY <2>1, <2>2
<1> QED
  BY <1>1, <1>10, <1>12, <1>13, <1>14, <1>15, <1>16, LedgerFacts DEF h2, D, f2, live2

-----------------------------------------------------------------------------
(* Changes of buffers *)

(* A buffer gives up what it held, which no other points to, for a new block
   or for nothing. *)
Unpointed(bufs, n) == \A l \in DOMAIN bufs \ {n} :
  bufs[l] # NoBuffer /\ ~bufs[l].moved => bufs[l].cached_ptr # HeldBy(bufs[n])

(* A buffer of memory m that nothing was done with yet, or none. *)
Fresh(m, x) == x # NoBuffer =>
  /\ x.owns /\ ~x.moved /\ x.data # Null /\ x.cached_ptr = x.data
  /\ m.blocks[x.data].mem = x.mem
  /\ x.mem = "gpu" => m.blocks[x.data].device = x.device

(* One buffer for another, with memory that follows. *)
LEMMA Replaced ==
  ASSUME NEW m, Typed(m), NEW m2, Typed(m2), NEW bufs \in Bufs, Ledger(m, bufs), Rooted(m, bufs),
         NEW n \in DOMAIN bufs, NEW x \in BufferType \cup {NoBuffer},
         NEW bufs2, bufs2 = [bufs EXCEPT ![n] = x],
         Unpointed(bufs, n), Fresh(m2, x), Exchanged(m, m2, HeldBy(bufs[n]), HeldBy(x))
  PROVE  bufs2 \in Bufs /\ Ledger(m2, bufs2) /\ Rooted(m2, bufs2)
<1> DEFINE old == HeldBy(bufs[n])
           new == HeldBy(x)
<1>1. /\ bufs2 \in Bufs /\ DOMAIN bufs2 = DOMAIN bufs /\ bufs2[n] = x
      /\ \A l \in DOMAIN bufs \ {n} : bufs2[l] = bufs[l]
  BY DEF Bufs
<1>2. /\ Held(bufs, n) = old /\ Held(bufs2, n) = new
      /\ \A l \in DOMAIN bufs \ {n} : Held(bufs2, l) = Held(bufs, l)
      /\ \A l \in DOMAIN bufs : Held(bufs, l) \in Numbers \cup {Null}
  BY <1>1, HeldNumber
<1>3. Ledger(m2, bufs2)
  <2>1. HolderChanges(bufs, bufs2, n)
    BY <1>2 DEF HolderChanges
  <2> QED
    BY <1>1, <1>2, <2>1, LedgerExchanged
<1>a. SamePlaces(m, m2, {old, new}) /\ (new # Null => ~m.blocks[new].live)
  BY DEF Exchanged
<1>b. \A l \in DOMAIN bufs \ {n} : bufs[l] # NoBuffer /\ ~bufs[l].moved => bufs[l].cached_ptr # old
  BY DEF Unpointed
<1>c. x # NoBuffer =>
        /\ new # Null /\ ~x.moved /\ x.cached_ptr = new /\ x.data = new
        /\ m2.blocks[new].mem = x.mem
        /\ x.mem = "gpu" => m2.blocks[new].device = x.device
  BY DEF Fresh, HeldBy
<1> HIDE DEF old, new
<1>4. ASSUME NEW l \in DOMAIN bufs2, bufs2[l] # NoBuffer
      PROVE  /\ bufs2[l].moved /\ bufs2[l].owns => bufs2[l].data = Null
             /\ ~bufs2[l].moved =>
                  /\ bufs2[l].cached_ptr # Null /\ bufs2[l].cached_ptr = bufs2[l].data
                  /\ \E k \in DOMAIN bufs2 : Held(bufs2, k) = bufs2[l].cached_ptr
                  /\ m2.blocks[bufs2[l].cached_ptr].mem = bufs2[l].mem
                  /\ m2.blocks[bufs2[l].cached_ptr].mem = "gpu" =>
                       m2.blocks[bufs2[l].cached_ptr].device = bufs2[l].device
  <2>1. CASE l = n
    BY <1>1, <1>2, <1>c, <1>4, <2>1
  <2>2. CASE l # n
    <3> DEFINE b == bufs[l].cached_ptr
    <3>1. bufs2[l] = bufs[l] /\ l \in DOMAIN bufs /\ bufs[l] # NoBuffer
      BY <1>1, <1>4, <2>2
    <3>2. /\ bufs[l].moved /\ bufs[l].owns => bufs[l].data = Null
          /\ ~bufs[l].moved =>
               /\ b # Null /\ b = bufs[l].data
               /\ \E k \in DOMAIN bufs : Held(bufs, k) = b
               /\ m.blocks[b].mem = bufs[l].mem
               /\ m.blocks[b].mem = "gpu" => m.blocks[b].device = bufs[l].device
      BY <3>1 DEF Rooted
    <3>3. ASSUME ~bufs[l].moved
          PROVE  /\ \E k \in DOMAIN bufs2 : Held(bufs2, k) = b
                 /\ m2.blocks[b].mem = m.blocks[b].mem /\ m2.blocks[b].device = m.blocks[b].device
      <4>1. b # old
        BY <1>b, <2>2, <3>1, <3>3
      <4>2. PICK k \in DOMAIN bufs : Held(bufs, k) = b
        BY <3>2, <3>3
      <4>3. k # n /\ Held(bufs2, k) = b /\ b \in Numbers
        BY <1>2, <3>2, <3>3, <4>1, <4>2
      <4>4. m.blocks[b].live
        BY <3>2, <3>3, <4>2 DEF Ledger
      <4>5. b # new
        BY <1>a, <4>3, <4>4, Apart
      <4> HIDE DEF b
      <4> QED
        BY <1>1, <1>a, <4>1, <4>3, <4>5 DEF SamePlaces
    <3> QED
      BY <3>1, <3>2, <3>3
  <2> QED
    BY <2>1, <2>2
<1>5. Rooted(m2, bufs2)
  BY <1>4 DEF Rooted
<1> QED
  BY <1>1, <1>3, <1>5

(* A buffer takes over what another held. *)
LEMMA TakenOver ==
  ASSUME NEW m, Typed(m), NEW bufs \in Bufs, Ledger(m, bufs), Rooted(m, bufs),
         NEW n \in DOMAIN bufs, NEW k \in DOMAIN bufs, n # k,
         bufs[n] = NoBuffer, bufs[k] # NoBuffer, ~bufs[k].moved,
         NEW bufs2, bufs2 = [bufs EXCEPT ![n] = bufs[k], ![k] = MovedFrom(bufs[k])]
  PROVE  bufs2 \in Bufs /\ Ledger(m, bufs2) /\ Rooted(m, bufs2)
<1> DEFINE x == bufs[k]
           y == MovedFrom(x)
<1>1. x \in BufferType
  BY DEF Bufs
<1>2. /\ y \in BufferType /\ y # NoBuffer /\ y.moved /\ y.owns = x.owns
      /\ y.owns => y.data = Null
  BY <1>1, Apart DEF MovedFrom, BufferType
<1> HIDE DEF y
<1>3. /\ bufs2 \in Bufs /\ DOMAIN bufs2 = DOMAIN bufs /\ bufs2[n] = x /\ bufs2[k] = y
      /\ \A l \in DOMAIN bufs \ {n, k} : bufs2[l] = bufs[l]
  BY <1>1, <1>2 DEF Bufs, y
<1>4. /\ Held(bufs2, n) = Held(bufs, k) /\ Held(bufs2, k) = Held(bufs, n) /\ Held(bufs, n) = Null
      /\ \A l \in DOMAIN bufs \ {n, k} : Held(bufs2, l) = Held(bufs, l)
  BY <1>2, <1>3 DEF Held
<1>5. Ledger(m, bufs2)
  <2>1. HoldersMove(bufs, bufs2, n, k)
    BY <1>4 DEF HoldersMove
  <2> QED
    BY <1>3, <2>1, LedgerMoved
<1>6. \A b : b # Null /\ (\E l \in DOMAIN bufs : Held(bufs, l) = b) => \E l \in DOMAIN bufs2 : Held(bufs2, l) = b
  BY <1>3, <1>4
<1>7. ASSUME NEW l \in DOMAIN bufs2, bufs2[l] # NoBuffer
      PROVE  /\ bufs2[l].moved /\ bufs2[l].owns => bufs2[l].data = Null
             /\ ~bufs2[l].moved =>
                  /\ bufs2[l].cached_ptr # Null /\ bufs2[l].cached_ptr = bufs2[l].data
                  /\ \E j \in DOMAIN bufs2 : Held(bufs2, j) = bufs2[l].cached_ptr
                  /\ m.blocks[bufs2[l].cached_ptr].mem = bufs2[l].mem
                  /\ m.blocks[bufs2[l].cached_ptr].mem = "gpu" =>
                       m.blocks[bufs2[l].cached_ptr].device = bufs2[l].device
  <2>1. CASE l = k
    BY <1>2, <1>3, <2>1
  <2>2. CASE l # k
    <3>1. PICK j \in DOMAIN bufs : bufs2[l] = bufs[j] /\ bufs[j] # NoBuffer
      BY <1>3, <1>7, <2>2
    <3>2. /\ bufs[j].moved /\ bufs[j].owns => bufs[j].data = Null
          /\ ~bufs[j].moved =>
               /\ bufs[j].cached_ptr # Null /\ bufs[j].cached_ptr = bufs[j].data
               /\ \E i \in DOMAIN bufs : Held(bufs, i) = bufs[j].cached_ptr
               /\ m.blocks[bufs[j].cached_ptr].mem = bufs[j].mem
               /\ m.blocks[bufs[j].cached_ptr].mem = "gpu" =>
                    m.blocks[bufs[j].cached_ptr].device = bufs[j].device
      BY <3>1 DEF Rooted
    <3> QED
      BY <1>6, <3>1, <3>2
  <2> QED
    BY <2>1, <2>2
<1>8. Rooted(m, bufs2)
  BY <1>7 DEF Rooted
<1> QED
  BY <1>3, <1>5, <1>8

(* Two buffers change places. *)
LEMMA Swapped ==
  ASSUME NEW m, Typed(m), NEW bufs \in Bufs, Ledger(m, bufs), Rooted(m, bufs),
         NEW n \in DOMAIN bufs, NEW k \in DOMAIN bufs, n # k,
         NEW bufs2, bufs2 = [bufs EXCEPT ![n] = bufs[k], ![k] = bufs[n]]
  PROVE  bufs2 \in Bufs /\ Ledger(m, bufs2) /\ Rooted(m, bufs2)
<1>1. /\ bufs2 \in Bufs /\ DOMAIN bufs2 = DOMAIN bufs /\ bufs2[n] = bufs[k] /\ bufs2[k] = bufs[n]
      /\ \A l \in DOMAIN bufs \ {n, k} : bufs2[l] = bufs[l]
  BY DEF Bufs
<1>2. /\ Held(bufs2, n) = Held(bufs, k) /\ Held(bufs2, k) = Held(bufs, n)
      /\ \A l \in DOMAIN bufs \ {n, k} : Held(bufs2, l) = Held(bufs, l)
  BY <1>1 DEF Held
<1>3. Ledger(m, bufs2)
  <2>1. HoldersMove(bufs, bufs2, n, k)
    BY <1>2 DEF HoldersMove
  <2> QED
    BY <1>1, <2>1, LedgerMoved
<1>4. \A b : (\E l \in DOMAIN bufs : Held(bufs, l) = b) => \E l \in DOMAIN bufs2 : Held(bufs2, l) = b
  BY <1>1, <1>2
<1>5. \A l \in DOMAIN bufs2 : \E j \in DOMAIN bufs : bufs2[l] = bufs[j]
  BY <1>1
<1>6. Rooted(m, bufs2)
  <2> SUFFICES ASSUME NEW l \in DOMAIN bufs2, bufs2[l] # NoBuffer
               PROVE  /\ bufs2[l].moved /\ bufs2[l].owns => bufs2[l].data = Null
                      /\ ~bufs2[l].moved =>
                           /\ bufs2[l].cached_ptr # Null /\ bufs2[l].cached_ptr = bufs2[l].data
                           /\ \E j \in DOMAIN bufs2 : Held(bufs2, j) = bufs2[l].cached_ptr
                           /\ m.blocks[bufs2[l].cached_ptr].mem = bufs2[l].mem
                           /\ m.blocks[bufs2[l].cached_ptr].mem = "gpu" =>
                                m.blocks[bufs2[l].cached_ptr].device = bufs2[l].device
    BY DEF Rooted
  <2>1. PICK j \in DOMAIN bufs : bufs2[l] = bufs[j]
    BY <1>5
  <2>2. /\ bufs[j].moved /\ bufs[j].owns => bufs[j].data = Null
        /\ ~bufs[j].moved =>
             /\ bufs[j].cached_ptr # Null /\ bufs[j].cached_ptr = bufs[j].data
             /\ \E i \in DOMAIN bufs : Held(bufs, i) = bufs[j].cached_ptr
             /\ m.blocks[bufs[j].cached_ptr].mem = bufs[j].mem
             /\ m.blocks[bufs[j].cached_ptr].mem = "gpu" =>
                  m.blocks[bufs[j].cached_ptr].device = bufs[j].device
    BY <2>1 DEF Rooted
  <2> HIDE DEF Held
  <2> QED
    BY <1>4, <2>1, <2>2
<1> QED
  BY <1>1, <1>3, <1>6

(* Memory in which everything is where it was, and in which nothing is freed
   that was not about to be. *)
LEMMA Undisturbed ==
  ASSUME NEW m, Typed(m), NEW m2, Typed(m2), NEW bufs \in Bufs, Ledger(m, bufs), Rooted(m, bufs),
         SamePlaces(m, m2, {}), SameFrees(m, m2)
  PROVE  Ledger(m2, bufs) /\ Rooted(m2, bufs)
<1>1. \A s \in Streams, i \in Nat : Freed(m2, s, i) = Freed(m, s, i) /\ Freed(m, s, i) \in Numbers \cup {Null}
  BY FreedNumber DEF SameFrees
<1>2. \A n \in DOMAIN bufs : Held(bufs, n) \in Numbers \cup {Null}
  BY HeldNumber
<1>3. \A b \in Numbers : /\ m2.blocks[b].live = m.blocks[b].live /\ m2.blocks[b].mem = m.blocks[b].mem
                         /\ m2.blocks[b].device = m.blocks[b].device
  BY DEF SamePlaces
<1> HIDE DEF Held, Freed
<1>4. Ledger(m2, bufs)
  BY <1>1, <1>2, <1>3, LedgerFacts
<1>5. Rooted(m2, bufs)
  <2> SUFFICES ASSUME NEW n \in DOMAIN bufs, bufs[n] # NoBuffer, ~bufs[n].moved
               PROVE  /\ m2.blocks[bufs[n].cached_ptr].mem = m.blocks[bufs[n].cached_ptr].mem
                      /\ m2.blocks[bufs[n].cached_ptr].device = m.blocks[bufs[n].cached_ptr].device
    BY DEF Rooted
  <2>1. \E k \in DOMAIN bufs : Held(bufs, k) = bufs[n].cached_ptr /\ bufs[n].cached_ptr # Null
    BY DEF Rooted
  <2> QED
    BY <1>2, <1>3, <2>1
<1> QED
  BY <1>4, <1>5

(* What can be asked of the memory allocators. *)
Placeable(mem, device) ==
  mem \in {"cpu", "gpu"} /\ device \in Devices \cup {NoDevice, 0} /\ (mem = "gpu" => device \in Devices)

(* A copy owns a block that was not live. *)
LEMMA CopiedTo ==
  ASSUME NEW m, Typed(m), current \in Devices, NEW mem, NEW device, Placeable(mem, device),
         NEW b \in Numbers, ~m.blocks[b].live, NEW other, other.cached_ptr \in Numbers,
         NEW stream \in Streams \cup {Default},
         NEW r, r = CopyTo(m, other, mem, device, b, stream)
  PROVE  /\ r.other = other
         /\ r.buffer = Owning(mem, device, b, stream)
         /\ r.memory = Copied(WithBlock(m, b, Block(mem, device, Garbage)), other.cached_ptr, b, stream)
         /\ r.buffer \in BufferType /\ HeldBy(r.buffer) = b
         /\ Block(mem, device, Garbage) \in BlockType
         /\ Typed(r.memory) /\ Fresh(r.memory, r.buffer)
         /\ Exchanged(m, r.memory, Null, b)
<1> DEFINE x == Block(mem, device, Garbage)
           m1 == WithBlock(m, b, x)
<1>1. r = [memory |-> Copied(m1, other.cached_ptr, b, stream),
           buffer |-> Owning(mem, device, b, stream), other |-> other]
  BY DEF CopyTo, WithBlock
<1>2. x \in BlockType /\ x.live /\ x.mem = mem /\ (mem = "gpu" => x.device = device)
  BY DEF Block, BlockType, Contents, Placeable
<1> HIDE DEF x
<1>0. BlockPut(m, b, x, m1)
  BY <1>2, BlockChanged
<1> HIDE DEF m1
<1>3. /\ Typed(m1) /\ m1.queue = m.queue /\ m1.blocks[b] = x /\ SameFrees(m, m1)
      /\ SamePlaces(m, m1, {b})
  BY <1>0 DEF BlockPut
<1>4. Resolve(stream) \in Streams
  BY Resolved
<1>5. Typed(r.memory) /\ SamePlaces(m1, r.memory, {}) /\ SameFrees(m1, r.memory)
  <2> DEFINE m2 == r.memory
  <2>1. m2 = Copied(m1, other.cached_ptr, b, stream)
    BY <1>1
  <2> HIDE DEF m2
  <2>2. Typed(m2) /\ SamePlaces(m1, m2, {}) /\ SameFrees(m1, m2)
    BY <1>3, <1>4, <2>1, CopiedQuiet
  <2> QED
    BY <2>2 DEF m2
<1>6. /\ r.memory.blocks[b].live /\ r.memory.blocks[b].mem = mem
      /\ mem = "gpu" => r.memory.blocks[b].device = device
  BY <1>2, <1>3, <1>5 DEF SamePlaces
<1>7. Exchanged(m, r.memory, Null, b)
  <2>1. SameFrees(m, r.memory)
    BY <1>3, <1>5 DEF SameFrees
  <2>2. SamePlaces(m, r.memory, {Null, b})
    BY <1>3, <1>5 DEF SamePlaces
  <2> QED
    BY <1>6, <2>1, <2>2 DEF Exchanged
<1>8. b # Null
  BY Apart
<1>9. r.buffer = [mem |-> mem, device |-> device, owns |-> TRUE, data |-> b, cached_ptr |-> b, moved |-> FALSE,
                  stream |-> IF stream = Default THEN <<device, 0>> ELSE stream]
  BY <1>1 DEF Owning
<1>10. r.buffer \in BufferType
  <2> DEFINE s == IF stream = Default THEN <<device, 0>> ELSE stream
  <2>1. /\ s \in (Devices \cup {NoDevice, 0}) \X {0, 1}
        /\ mem = "gpu" => s \in Streams
    BY DEF Streams, Placeable
  <2> HIDE DEF s
  <2>2. r.buffer = [mem |-> mem, device |-> device, owns |-> TRUE, data |-> b, cached_ptr |-> b,
                    moved |-> FALSE, stream |-> s]
    BY <1>9 DEF s
  <2> QED
    BY <2>1, <2>2 DEF BufferType, Placeable
<1>11. r.buffer # NoBuffer /\ HeldBy(r.buffer) = b
  <2>1. r.buffer # NoBuffer
    BY <1>10, Apart
  <2> QED
    BY <1>9, <2>1 DEF HeldBy
<1>12. Fresh(r.memory, r.buffer)
  BY <1>6, <1>8, <1>9 DEF Fresh
<1> QED
  BY <1>1, <1>2, <1>5, <1>7, <1>10, <1>11, <1>12 DEF m1, x

(* Then a destructor gives up what another buffer holds. *)
LEMMA ExchangedByDestroying ==
  ASSUME NEW m, Typed(m), NEW m1, Typed(m1), NEW new \in Numbers \cup {Null}, Exchanged(m, m1, Null, new),
         NEW x \in BufferType \cup {NoBuffer}, HeldBy(x) # Null => m.blocks[HeldBy(x)].live,
         NEW m2, m2 = Destroyed(m1, x)
  PROVE  /\ Typed(m2) /\ Exchanged(m, m2, HeldBy(x), new)
         /\ new # Null => m2.blocks[new] = m1.blocks[new]
<1> DEFINE old == HeldBy(x)
<1>1. /\ Typed(m2)
      /\ \A b \in Numbers : b # old => m2.blocks[b] = m1.blocks[b]
      /\ old = Null => m2 = m1
      /\ old # Null =>
           \/ m2.blocks[old] = NoBlock /\ m2.queue = m1.queue
           \/ m2.blocks = m1.blocks /\ FreesAlso(m1, m2, old)
  <2>1. /\ Typed(m2)
        /\ \A b \in Numbers : b # HeldBy(x) => m2.blocks[b] = m1.blocks[b]
        /\ HeldBy(x) = Null => m2 = m1
        /\ HeldBy(x) # Null =>
             \/ m2.blocks[HeldBy(x)] = NoBlock /\ m2.queue = m1.queue
             \/ m2.blocks = m1.blocks /\ FreesAlso(m1, m2, HeldBy(x))
                /\ m2 = Submit(m1, x.stream, [do |-> "free", to |-> HeldBy(x)]) /\ x.stream \in Streams
    BY DestroyedGivesUp
  <2> QED
    BY <2>1
<1>2. old \in Numbers \cup {Null}
  BY DEF HeldBy, BufferType
<1>3. old # Null => m.blocks[old].live
  OBVIOUS
<1> HIDE DEF old
<1>4. /\ SamePlaces(m, m1, {Null, new}) /\ SameFrees(m, m1)
      /\ new # Null => ~m.blocks[new].live /\ m1.blocks[new].live
  BY DEF Exchanged
<1>5. old # Null => old # new
  BY <1>3, <1>4
<1>6. new # Null => m2.blocks[new] = m1.blocks[new]
  BY <1>1, <1>5
<1>7. SamePlaces(m, m2, {old, new})
  BY <1>1, <1>4, Apart DEF SamePlaces
<1>8. CASE old = Null
  BY <1>1, <1>4, <1>7, <1>8 DEF Exchanged, old
<1>9. CASE old # Null /\ m2.blocks[old] = NoBlock /\ m2.queue = m1.queue
  <2>1. SameFrees(m, m2) /\ ~m2.blocks[old].live
    BY <1>4, <1>9 DEF SameFrees, Freed, NoBlock
  <2> QED
    BY <1>1, <1>4, <1>6, <1>7, <1>9, <2>1 DEF Exchanged, old
<1>10. CASE old # Null /\ m2.blocks = m1.blocks /\ FreesAlso(m1, m2, old)
  <2>1. FreesAlso(m, m2, old)
    BY <1>4, <1>10 DEF FreesAlso, SameFrees
  <2>2. m2.blocks[old].live
    BY <1>2, <1>3, <1>4, <1>5, <1>10, Apart DEF SamePlaces
  <2> QED
    BY <1>1, <1>4, <1>6, <1>7, <1>10, <2>1, <2>2 DEF Exchanged, old
<1> QED
  BY <1>1, <1>8, <1>9, <1>10

-----------------------------------------------------------------------------
(* Operations on the program's buffers *)

MemoryInv ==
  /\ current \in Devices
  /\ Typed(Now)
  /\ buffers \in Bufs
  /\ Ledger(Now, buffers)
  /\ Rooted(Now, buffers)

(* The buffers of the program are all there are. *)
OwnBuffers == MemoryInv /\ Slots \cap Arrays = {} /\ \A a \in Arrays : buffers[a] = NoBuffer

(* What an operation leaves in memory is memory again. *)
LEMMA NextMemory ==
  ASSUME NEW m, Typed(m), Become(m)
  PROVE  Now' = m
  BY MemoryFields DEF Become, Now

(* The memory of a state has the types of memory. *)
LEMMA NowFields ==
  Now.blocks = blocks /\ Now.queue = queue
  BY DEF Now

(* The program may release a buffer that no other points to. *)
LEMMA ReleasableUnpointed ==
  ASSUME OwnBuffers, NEW n \in Slots, Present(n), Releasable(n)
  PROVE  Unpointed(buffers, n)
<1> SUFFICES ASSUME NEW l \in DOMAIN buffers \ {n}, buffers[l] # NoBuffer, ~buffers[l].moved,
                    buffers[l].cached_ptr = HeldBy(buffers[n])
             PROVE  FALSE
  BY DEF Unpointed
<1>1. DOMAIN buffers = Slots \cup Arrays
  BY HeldNumber DEF OwnBuffers, MemoryInv
<1>2. l \in Slots
  BY <1>1 DEF OwnBuffers
<1>3. buffers[l].cached_ptr # Null
  BY DEF OwnBuffers, MemoryInv, Rooted
<1>4. buffers[n].owns /\ buffers[n].data = buffers[l].cached_ptr /\ buffers[n].data # Null
  BY <1>3 DEF HeldBy
<1>5. buffers[n].cached_ptr = buffers[n].data
  BY <1>1, <1>4 DEF OwnBuffers, MemoryInv, Rooted, Present, Bufs, BufferType
<1>6. Viewed(n)
  BY <1>2, <1>4, <1>5 DEF Viewed, Present
<1> QED
  BY <1>6 DEF Releasable

(* A buffer that can be used points to a block that is live. *)
LEMMA UsableBlock ==
  ASSUME MemoryInv, NEW n \in DOMAIN buffers, Usable(n)
  PROVE  /\ buffers[n] \in BufferType /\ buffers[n] # NoBuffer /\ ~buffers[n].moved
         /\ buffers[n].cached_ptr \in Numbers /\ buffers[n].cached_ptr = buffers[n].data
         /\ Placeable(buffers[n].mem, buffers[n].device)
         /\ blocks[buffers[n].cached_ptr].live
         /\ blocks[buffers[n].cached_ptr].mem = buffers[n].mem
         /\ buffers[n].mem = "gpu" => blocks[buffers[n].cached_ptr].device = buffers[n].device
<1>1. buffers[n] \in BufferType /\ buffers[n] # NoBuffer /\ ~buffers[n].moved
  BY DEF MemoryInv, Bufs, Usable, Present
<1>2. /\ buffers[n].cached_ptr # Null /\ buffers[n].cached_ptr = buffers[n].data
      /\ \E k \in DOMAIN buffers : Held(buffers, k) = buffers[n].cached_ptr
      /\ blocks[buffers[n].cached_ptr].mem = buffers[n].mem
      /\ buffers[n].mem = "gpu" => blocks[buffers[n].cached_ptr].device = buffers[n].device
  BY <1>1, NowFields DEF MemoryInv, Rooted
<1>3. blocks[buffers[n].cached_ptr].live
  BY <1>2, NowFields DEF MemoryInv, Ledger
<1>4. buffers[n].cached_ptr \in Numbers /\ Placeable(buffers[n].mem, buffers[n].device)
  BY <1>1, <1>2 DEF BufferType, Placeable
<1> QED
  BY <1>1, <1>2, <1>3, <1>4

(* A buffer that is not there holds nothing. *)
LEMMA AbsentUnpointed ==
  ASSUME MemoryInv, NEW n, buffers[n] = NoBuffer
  PROVE  HeldBy(buffers[n]) = Null /\ Unpointed(buffers, n)
<1>1. HeldBy(buffers[n]) = Null
  BY DEF HeldBy
<1> QED
  BY <1>1 DEF MemoryInv, Rooted, Unpointed

PlacesAreThere(place) == place \in Places => Placeable(place[1], place[2])
(* What Places describes is a place there is. *)
LEMMA PlacePlaceable == \A place : PlacesAreThere(place)
  BY DEF PlacesAreThere, Places, Placeable

(* The invariant of the next state, of which memory is m. *)
LEMMA Restated ==
  ASSUME NEW m, Now' = m, Typed(m), buffers' \in Bufs, Ledger(m, buffers'), Rooted(m, buffers'),
         current' \in Devices
  PROVE  MemoryInv'
<1>1. Typed(Now)' /\ Ledger(Now, buffers)' /\ Rooted(Now, buffers)'
  BY DEF Typed, Ledger, Rooted, Freed, Held
<1> QED
  BY <1>1 DEF MemoryInv, Bufs

(* The invariant of memory after an operation that replaces one buffer. *)
LEMMA ReplacedNext ==
  ASSUME MemoryInv, NEW n \in Slots \cup Arrays, NEW m, Typed(m), Become(m),
         NEW x \in BufferType \cup {NoBuffer}, buffers' = [buffers EXCEPT ![n] = x],
         Unpointed(buffers, n), Fresh(m, x), Exchanged(Now, m, HeldBy(buffers[n]), HeldBy(x)),
         UNCHANGED current
  PROVE  MemoryInv'
<1>1. Typed(Now) /\ buffers \in Bufs /\ Ledger(Now, buffers) /\ Rooted(Now, buffers)
      /\ DOMAIN buffers = Slots \cup Arrays
  BY HeldNumber DEF MemoryInv
<1>2. Now' = m
  BY NextMemory
<1>3. buffers' \in Bufs /\ Ledger(m, buffers') /\ Rooted(m, buffers')
  BY <1>1, Replaced
<1>4. current' \in Devices
  BY DEF MemoryInv
<1>5. Typed(Now)' /\ Ledger(Now, buffers)' /\ Rooted(Now, buffers)'
  BY <1>2, <1>3 DEF Typed, Ledger, Rooted, Freed, Held
<1> QED
  BY <1>3, <1>4, <1>5 DEF MemoryInv, Bufs

(* A buffer of a size: the block it allocates is held by nobody else. *)
LEMMA MakeKeeps ==
  ASSUME OwnBuffers, NEW n \in Slots, NEW place \in Places, Make(n, place)
  PROVE  MemoryInv'
<1> DEFINE b == Next1(Unused(Now, buffers))
           m == WithBlock(Now, b, Block(place[1], place[2], Garbage))
           x == Owning(place[1], place[2], b, Default)
<1>1. MemoryInv /\ Typed(Now)
  BY DEF OwnBuffers, MemoryInv
<1>2. b \in Numbers /\ ~Now.blocks[b].live
  BY UnusedBlock DEF Make
<1>3. Placeable(place[1], place[2])
  BY PlacePlaceable DEF PlacesAreThere
<1>4. Become(m) /\ buffers' = [buffers EXCEPT ![n] = x] /\ UNCHANGED current /\ buffers[n] = NoBuffer
  BY DEF Make, Program, WithBlock, Present
<1> DEFINE y == Block(place[1], place[2], Garbage)
<1>5. y \in BlockType /\ m = WithBlock(Now, b, y)
      /\ y.live /\ y.mem = place[1] /\ (place[1] = "gpu" => y.device = place[2])
  BY <1>3 DEF Block, BlockType, Contents, Placeable
<1> HIDE DEF b, m, y
<1>6. /\ Typed(m) /\ SamePlaces(Now, m, {b}) /\ SameFrees(Now, m)
      /\ m.blocks[b] = y
  <2>1. BlockPut(Now, b, y, m)
    BY <1>1, <1>2, <1>5, BlockChanged
  <2> QED
    BY <2>1 DEF BlockPut
<1>7. Exchanged(Now, m, Null, b)
  BY <1>2, <1>5, <1>6 DEF Exchanged, SamePlaces
<1>8. b # Null
  BY <1>2, Apart
<1>9. x = [mem |-> place[1], device |-> place[2], owns |-> TRUE, data |-> b, cached_ptr |-> b,
           moved |-> FALSE, stream |-> <<place[2], 0>>]
  BY DEF Owning
<1>10. x \in BufferType
  BY <1>2, <1>3, <1>9 DEF BufferType, Placeable, Streams
<1>11. HeldBy(x) = b /\ Fresh(m, x)
  <2>1. x # NoBuffer
    BY <1>10, Apart
  <2>2. m.blocks[b].mem = place[1] /\ (place[1] = "gpu" => m.blocks[b].device = place[2])
    BY <1>5, <1>6
  <2> QED
    BY <1>8, <1>9, <2>1, <2>2 DEF HeldBy, Fresh
<1> HIDE DEF x
<1>12. HeldBy(buffers[n]) = Null /\ Unpointed(buffers, n)
  BY <1>1, <1>4, AbsentUnpointed
<1> QED
  BY <1>1, <1>4, <1>6, <1>7, <1>10, <1>11, <1>12, ReplacedNext

(* A view points to what an owner holds. *)
LEMMA MakeViewKeeps ==
  ASSUME OwnBuffers, NEW n \in Slots, NEW of \in Slots, MakeView(n, of)
  PROVE  MemoryInv'
<1> DEFINE b == buffers[of].cached_ptr
           x == View(buffers[of].mem, buffers[of].device, b)
<1>1. /\ buffers[n] = NoBuffer /\ of # n /\ Usable(of) /\ buffers[of].owns
      /\ buffers' = [buffers EXCEPT ![n] = x] /\ UNCHANGED <<current, blocks, queue>>
  BY DEF MakeView, Program, Present
<1>2. MemoryInv /\ DOMAIN buffers = Slots \cup Arrays
  BY HeldNumber DEF OwnBuffers, MemoryInv
<1>3. /\ buffers[of] \in BufferType /\ buffers[of] # NoBuffer
      /\ b \in Numbers /\ b = buffers[of].data /\ Placeable(buffers[of].mem, buffers[of].device)
      /\ blocks[b].mem = buffers[of].mem
      /\ buffers[of].mem = "gpu" => blocks[b].device = buffers[of].device
  BY <1>1, <1>2, UsableBlock
<1>4. x = [mem |-> buffers[of].mem, device |-> buffers[of].device, owns |-> FALSE, data |-> b,
           cached_ptr |-> b, moved |-> FALSE, stream |-> Default]
  BY DEF View
<1>5. x \in BufferType /\ x # NoBuffer
  <2>1. x \in BufferType
    BY <1>3, <1>4 DEF BufferType, Placeable, Default, NoDevice
  <2> QED
    BY <2>1, Apart
<1> HIDE DEF x
<1>6. /\ buffers' \in Bufs /\ DOMAIN buffers' = DOMAIN buffers /\ buffers'[n] = x
      /\ \A l \in DOMAIN buffers \ {n} : buffers'[l] = buffers[l]
  BY <1>1, <1>2, <1>5 DEF MemoryInv, Bufs
<1>7. HeldBy(buffers[n]) = Null /\ HeldBy(x) = Null /\ buffers'[of] = buffers[of]
  BY <1>1, <1>2, <1>4, <1>6 DEF HeldBy
<1>8. Now' = Now
  BY <1>1 DEF Now
<1>9. \A l \in DOMAIN buffers : Held(buffers', l) = Held(buffers, l)
  BY <1>1, <1>4, <1>6 DEF Held
<1>10. Ledger(Now, buffers')
  <2>1. HoldersMove(buffers, buffers', n, n)
    BY <1>2, <1>9 DEF HoldersMove
  <2> QED
    BY <1>2, <1>6, <2>1, LedgerMoved DEF MemoryInv
<1>11. Rooted(Now, buffers')
  <2> SUFFICES ASSUME NEW l \in DOMAIN buffers, buffers'[l] # NoBuffer
               PROVE  /\ buffers'[l].moved /\ buffers'[l].owns => buffers'[l].data = Null
                      /\ ~buffers'[l].moved =>
                           /\ buffers'[l].cached_ptr # Null /\ buffers'[l].cached_ptr = buffers'[l].data
                           /\ \E j \in DOMAIN buffers : Held(buffers', j) = buffers'[l].cached_ptr
                           /\ blocks[buffers'[l].cached_ptr].mem = buffers'[l].mem
                           /\ blocks[buffers'[l].cached_ptr].mem = "gpu" =>
                                blocks[buffers'[l].cached_ptr].device = buffers'[l].device
    BY <1>6, NowFields DEF Rooted
  <2>1. CASE l = n
    <3>1. of \in DOMAIN buffers /\ Held(buffers, of) = b /\ b # Null
      BY <1>1, <1>2, <1>3, Apart DEF Held
    <3> QED
      BY <1>3, <1>4, <1>6, <1>9, <2>1, <3>1
  <2>2. CASE l # n
    <3>1. buffers'[l] = buffers[l] /\ buffers[l] # NoBuffer
      BY <1>6, <2>2
    <3>2. /\ buffers[l].moved /\ buffers[l].owns => buffers[l].data = Null
          /\ ~buffers[l].moved =>
               /\ buffers[l].cached_ptr # Null /\ buffers[l].cached_ptr = buffers[l].data
               /\ \E i \in DOMAIN buffers : Held(buffers, i) = buffers[l].cached_ptr
               /\ blocks[buffers[l].cached_ptr].mem = buffers[l].mem
               /\ blocks[buffers[l].cached_ptr].mem = "gpu" =>
                    blocks[buffers[l].cached_ptr].device = buffers[l].device
      BY <1>2, <3>1, NowFields DEF MemoryInv, Rooted
    <3> QED
      BY <1>9, <3>1, <3>2
  <2> QED
    BY <2>1, <2>2
<1>12. Ledger(Now, buffers)' /\ Rooted(Now, buffers)' /\ Typed(Now)'
  BY <1>2, <1>8, <1>10, <1>11 DEF Ledger, Rooted, Freed, Held, Typed, MemoryInv
<1> QED
  BY <1>1, <1>2, <1>6, <1>12 DEF MemoryInv, Bufs

(* What changes values only, or submits what frees nothing. *)
LEMMA UndisturbedNext ==
  ASSUME MemoryInv, NEW m, Typed(m), Become(m), SamePlaces(Now, m, {}), SameFrees(Now, m),
         UNCHANGED <<current, buffers>>
  PROVE  MemoryInv'
<1>1. Typed(Now) /\ buffers \in Bufs /\ Ledger(Now, buffers) /\ Rooted(Now, buffers)
  BY DEF MemoryInv
<1>2. Ledger(m, buffers) /\ Rooted(m, buffers)
  BY <1>1, Undisturbed
<1>3. Now' = m
  BY NextMemory
<1>4. Ledger(Now, buffers)' /\ Rooted(Now, buffers)' /\ Typed(Now)'
  BY <1>2, <1>3 DEF Ledger, Rooted, Freed, Held, Typed
<1> QED
  BY <1>4 DEF MemoryInv, Bufs

(* Filling a buffer changes what a block holds, not who holds it. *)
LEMMA WriteKeeps ==
  ASSUME OwnBuffers, NEW n \in Slots, NEW value \in Values, Write(n, value)
  PROVE  MemoryInv'
<1> DEFINE b == buffers[n].cached_ptr
           op == [do |-> "fill", to |-> b, value |-> value]
           s == Resolve(Default)
<1>1. MemoryInv /\ Typed(Now) /\ n \in DOMAIN buffers /\ current \in Devices
  BY HeldNumber DEF OwnBuffers, MemoryInv
<1>2. Usable(n) /\ UNCHANGED <<current, buffers>>
      /\ Become(IF buffers[n].mem = "cpu" THEN WithValue(Now, b, value) ELSE Submit(Now, s, op))
  BY DEF Write, Program, WithValue
<1>3. b \in Numbers
  BY <1>1, <1>2, UsableBlock
<1>4. value \in Contents
  BY DEF Contents
<1>5. CASE buffers[n].mem = "cpu"
  <2> DEFINE m == WithValue(Now, b, value)
  <2>1. Become(m)
    BY <1>2, <1>5
  <2> HIDE DEF b
  <2>2. Typed(m) /\ SamePlaces(Now, m, {}) /\ SameFrees(Now, m)
    BY <1>1, <1>3, <1>4, ValueChanged
  <2> HIDE DEF m
  <2> QED
    BY <1>1, <1>2, <2>1, <2>2, UndisturbedNext
<1>6. CASE buffers[n].mem # "cpu"
  <2> DEFINE m == Submit(Now, s, op)
  <2>1. Become(m)
    BY <1>2, <1>6
  <2>2. s \in Streams /\ op \in Operation /\ op.do # "free"
    BY <1>1, <1>3, <1>4, Resolved DEF Operation
  <2> HIDE DEF s, op
  <2>3. Typed(m) /\ SamePlaces(Now, m, {}) /\ SameFrees(Now, m)
    BY <1>1, <2>2, SubmittedQuiet
  <2> HIDE DEF m
  <2> QED
    BY <1>1, <1>2, <2>1, <2>3, UndisturbedNext
<1> QED
  BY <1>5, <1>6

(* What an in-place move or copy construction of n from another asks. *)
LEMMA CopyOrMoveNext ==
  ASSUME OwnBuffers, NEW n \in Slots, NEW from \in Slots, NEW place \in Places,
         n # from, buffers[n] = NoBuffer, Usable(from), Unused(Now, buffers) # {}, UNCHANGED current,
         NEW r, r = CopyTo(Now, buffers[from], place[1], place[2], Next1(Unused(Now, buffers)), Default),
         Become(r.memory), buffers' = [buffers EXCEPT ![n] = r.buffer, ![from] = r.other]
  PROVE  MemoryInv'
<1> DEFINE b == Next1(Unused(Now, buffers))
<1>1. MemoryInv /\ Typed(Now) /\ n \in DOMAIN buffers /\ from \in DOMAIN buffers /\ current \in Devices
      /\ buffers \in Bufs
  BY HeldNumber DEF OwnBuffers, MemoryInv
<1>2. b \in Numbers /\ ~Now.blocks[b].live
  BY UnusedBlock
<1>3. Placeable(place[1], place[2])
  BY PlacePlaceable DEF PlacesAreThere
<1>4. buffers[from].cached_ptr \in Numbers
  BY <1>1, UsableBlock
<1>5. r = CopyTo(Now, buffers[from], place[1], place[2], b, Default)
  OBVIOUS
<1> HIDE DEF b
<1>6. /\ r.other = buffers[from] /\ r.buffer \in BufferType /\ HeldBy(r.buffer) = b
      /\ Typed(r.memory) /\ Fresh(r.memory, r.buffer) /\ Exchanged(Now, r.memory, Null, b)
  BY <1>1, <1>2, <1>3, <1>4, <1>5, CopiedTo
<1>7. buffers' = [buffers EXCEPT ![n] = r.buffer]
  BY <1>1, <1>6 DEF Bufs
<1>8. HeldBy(buffers[n]) = Null /\ Unpointed(buffers, n)
  BY <1>1, AbsentUnpointed
<1> DEFINE m == r.memory
           x == r.buffer
<1>9. Typed(m) /\ Become(m) /\ x \in BufferType \cup {NoBuffer} /\ buffers' = [buffers EXCEPT ![n] = x]
      /\ Fresh(m, x) /\ Exchanged(Now, m, HeldBy(buffers[n]), HeldBy(x))
  BY <1>6, <1>7, <1>8
<1> HIDE DEF m, x
<1> QED
  BY <1>1, <1>8, <1>9, ReplacedNext

(* A copy holds a block of its own. *)
LEMMA MakeCopyKeeps ==
  ASSUME OwnBuffers, NEW n \in Slots, NEW from \in Slots, NEW place \in Places, MakeCopy(n, from, place)
  PROVE  MemoryInv'
<1> DEFINE r == CopyTo(Now, buffers[from], place[1], place[2], Next1(Unused(Now, buffers)), Default)
<1>1. /\ n # from /\ buffers[n] = NoBuffer /\ Usable(from) /\ Unused(Now, buffers) # {} /\ UNCHANGED current
      /\ Become(r.memory) /\ buffers' = [buffers EXCEPT ![n] = r.buffer, ![from] = r.other]
  BY DEF MakeCopy, CopyOrMove, Program, Present
<1> QED
  BY <1>1, CopyOrMoveNext

(* What a buffer has cached is what it holds or views, so that nothing is to
   be corrected when it is moved in place. *)
LEMMA CachedAlready ==
  ASSUME NEW x \in BufferType, x.cached_ptr = x.data
  PROVE  [x EXCEPT !.cached_ptr = x.data] = x
<1> DEFINE T == [mem : {"cpu", "gpu"}, device : Devices \cup {NoDevice, 0}, owns : BOOLEAN,
                 data : {Null} \cup Numbers, cached_ptr : {Null} \cup Numbers, moved : BOOLEAN,
                 stream : (Devices \cup {NoDevice, 0}) \X {0, 1}]
<1>1. x \in T
  BY DEF BufferType
<1> QED
  BY <1>1

(* A buffer takes over what another of the program's holds. *)
LEMMA TakenOverNext ==
  ASSUME MemoryInv, NEW n \in Slots, NEW from \in Slots, n # from, buffers[n] = NoBuffer, Usable(from),
         UNCHANGED <<current, blocks, queue>>,
         buffers' = [buffers EXCEPT ![n] = buffers[from], ![from] = MovedFrom(buffers[from])]
  PROVE  MemoryInv'
<1>1. Typed(Now) /\ n \in DOMAIN buffers /\ from \in DOMAIN buffers /\ current \in Devices
      /\ buffers \in Bufs /\ Ledger(Now, buffers) /\ Rooted(Now, buffers)
  BY HeldNumber DEF MemoryInv
<1>2. buffers[from] # NoBuffer /\ ~buffers[from].moved
  BY DEF Usable, Present
<1>3. buffers' \in Bufs /\ Ledger(Now, buffers') /\ Rooted(Now, buffers')
  BY <1>1, <1>2, TakenOver
<1>4. Now' = Now
  BY DEF Now
<1> QED
  BY <1>1, <1>3, <1>4, Restated

(* A move to the same kind of memory hands the block over; any other copies. *)
LEMMA MakeMoveKeeps ==
  ASSUME OwnBuffers, NEW n \in Slots, NEW from \in Slots, NEW place \in Places, MakeMove(n, from, place)
  PROVE  MemoryInv'
<1> DEFINE r == MoveTo(Now, buffers[from], place[1], place[2], Next1(Unused(Now, buffers)), Default)
<1>1. /\ n # from /\ buffers[n] = NoBuffer /\ Usable(from) /\ Unused(Now, buffers) # {} /\ UNCHANGED current
      /\ Become(r.memory) /\ buffers' = [buffers EXCEPT ![n] = r.buffer, ![from] = r.other]
  BY DEF MakeMove, CopyOrMove, Program, Present
<1>2. MemoryInv /\ from \in DOMAIN buffers
  BY HeldNumber DEF OwnBuffers, MemoryInv
<1>3. CASE place[1] = buffers[from].mem /\ place[2] = buffers[from].device
  <2>1. r = [memory |-> Now, other |-> MovedFrom(buffers[from]),
             buffer |-> [buffers[from] EXCEPT !.cached_ptr = buffers[from].data]]
    BY <1>3 DEF MoveTo
  <2>2. [buffers[from] EXCEPT !.cached_ptr = buffers[from].data] = buffers[from]
    BY <1>1, <1>2, UsableBlock, CachedAlready
  <2>3. r.memory = Now /\ r.buffer = buffers[from] /\ r.other = MovedFrom(buffers[from])
    BY <2>1, <2>2
  <2>4. buffers' = [buffers EXCEPT ![n] = buffers[from], ![from] = MovedFrom(buffers[from])]
    BY <1>1, <2>3
  <2>5. UNCHANGED <<current, blocks, queue>>
    BY <1>1, <2>3, NowFields DEF Become
  <2> HIDE DEF r
  <2> QED
    BY <1>1, <1>2, <2>4, <2>5, TakenOverNext
<1>4. CASE ~(place[1] = buffers[from].mem /\ place[2] = buffers[from].device)
  <2>1. r = CopyTo(Now, buffers[from], place[1], place[2], Next1(Unused(Now, buffers)), Default)
    BY <1>4 DEF MoveTo
  <2> HIDE DEF r
  <2> QED
    BY <1>1, <2>1, CopyOrMoveNext
<1> QED
  BY <1>3, <1>4

(* A buffer that is destroyed may be replaced by one that took a new block. *)
LEMMA ReleasableHeld ==
  ASSUME MemoryInv, NEW n \in DOMAIN buffers
  PROVE  /\ buffers[n] \in BufferType \cup {NoBuffer}
         /\ HeldBy(buffers[n]) # Null => Now.blocks[HeldBy(buffers[n])].live
<1>1. Held(buffers, n) = HeldBy(buffers[n]) /\ DOMAIN buffers = Slots \cup Arrays
  BY HeldNumber DEF MemoryInv
<1> QED
  BY <1>1 DEF MemoryInv, Ledger, Bufs

(* Assignment makes a copy, swaps and destroys what was there. *)
LEMMA AssignCopyKeeps ==
  ASSUME OwnBuffers, NEW n \in Slots, NEW from \in Slots, AssignCopy(n, from)
  PROVE  MemoryInv'
<1> DEFINE b == Next1(Unused(Now, buffers))
           r == CopyTo(Now, buffers[from], buffers[from].mem, buffers[from].device, b, Default)
           m == Destroyed(r.memory, buffers[n])
<1>1. /\ n # from /\ Present(n) /\ Releasable(n) /\ Usable(from) /\ Unused(Now, buffers) # {}
      /\ Become(m) /\ buffers' = [buffers EXCEPT ![n] = r.buffer] /\ UNCHANGED current
  BY DEF AssignCopy, Program
<1>2. MemoryInv /\ Typed(Now) /\ n \in DOMAIN buffers /\ from \in DOMAIN buffers /\ current \in Devices
  BY HeldNumber DEF OwnBuffers, MemoryInv
<1>3. b \in Numbers /\ ~Now.blocks[b].live
  BY <1>1, UnusedBlock
<1>4. buffers[from].cached_ptr \in Numbers /\ Placeable(buffers[from].mem, buffers[from].device)
  BY <1>1, <1>2, UsableBlock
<1>5. r = CopyTo(Now, buffers[from], buffers[from].mem, buffers[from].device, b, Default)
  OBVIOUS
<1> HIDE DEF b, r
<1>6. /\ r.buffer \in BufferType /\ HeldBy(r.buffer) = b
      /\ Typed(r.memory) /\ Fresh(r.memory, r.buffer) /\ Exchanged(Now, r.memory, Null, b)
  BY <1>2, <1>3, <1>4, <1>5, CopiedTo
<1>7. buffers[n] \in BufferType \cup {NoBuffer}
      /\ (HeldBy(buffers[n]) # Null => Now.blocks[HeldBy(buffers[n])].live)
  BY <1>2, ReleasableHeld
<1> DEFINE m1 == r.memory
           x == r.buffer
<1>8. m = Destroyed(m1, buffers[n])
  OBVIOUS
<1>9. Typed(m1) /\ Exchanged(Now, m1, Null, b) /\ x \in BufferType \cup {NoBuffer} /\ HeldBy(x) = b
      /\ Fresh(m1, x) /\ buffers' = [buffers EXCEPT ![n] = x] /\ x # NoBuffer
  BY <1>1, <1>6, Apart
<1> HIDE DEF m1, x, m
<1>10. Typed(m) /\ Exchanged(Now, m, HeldBy(buffers[n]), b) /\ (b # Null => m.blocks[b] = m1.blocks[b])
  BY <1>2, <1>3, <1>7, <1>8, <1>9, ExchangedByDestroying
<1>11. Fresh(m, x)
  BY <1>3, <1>9, <1>10, Apart DEF Fresh, HeldBy
<1>12. Unpointed(buffers, n)
  BY <1>1, ReleasableUnpointed
<1> QED
  BY <1>1, <1>2, <1>9, <1>10, <1>11, <1>12, ReplacedNext

(* A destructor, and what it leaves to others. *)
LEMMA DestroyedLeaves ==
  ASSUME MemoryInv, NEW n \in DOMAIN buffers, Unpointed(buffers, n),
         NEW m, m = Destroyed(Now, buffers[n]), NEW bufs, bufs = [buffers EXCEPT ![n] = NoBuffer]
  PROVE  Typed(m) /\ bufs \in Bufs /\ Ledger(m, bufs) /\ Rooted(m, bufs)
<1>1. Typed(Now) /\ buffers \in Bufs /\ Ledger(Now, buffers) /\ Rooted(Now, buffers)
  BY DEF MemoryInv
<1>2. buffers[n] \in BufferType \cup {NoBuffer}
      /\ (HeldBy(buffers[n]) # Null => Now.blocks[HeldBy(buffers[n])].live)
  BY ReleasableHeld
<1>3. Exchanged(Now, Now, Null, Null)
  BY DEF Exchanged, SamePlaces, SameFrees
<1>4. Typed(m) /\ Exchanged(Now, m, HeldBy(buffers[n]), Null)
  BY <1>1, <1>2, <1>3, ExchangedByDestroying
<1>5. HeldBy(NoBuffer) = Null /\ Fresh(m, NoBuffer)
  BY DEF HeldBy, Fresh
<1> DEFINE x == NoBuffer
<1>6. x \in BufferType \cup {NoBuffer} /\ HeldBy(x) = Null /\ Fresh(m, x) /\ bufs = [buffers EXCEPT ![n] = x]
  BY <1>5
<1> HIDE DEF x
<1> QED
  BY <1>1, <1>4, <1>6, Replaced

(* A destructor hands the block to a queue, or releases it. *)
LEMMA DestroyKeeps ==
  ASSUME OwnBuffers, NEW n \in Slots, Destroy(n)
  PROVE  MemoryInv'
<1> DEFINE m == Destroyed(Now, buffers[n])
           bufs == [buffers EXCEPT ![n] = NoBuffer]
<1>1. Present(n) /\ Releasable(n) /\ Become(m) /\ buffers' = bufs /\ UNCHANGED current
  BY DEF Destroy, Program
<1>2. MemoryInv /\ n \in DOMAIN buffers
  BY HeldNumber DEF OwnBuffers, MemoryInv
<1>3. Unpointed(buffers, n)
  BY <1>1, ReleasableUnpointed
<1> HIDE DEF m
<1>4. m = Destroyed(Now, buffers[n]) /\ buffers' = [buffers EXCEPT ![n] = NoBuffer]
  BY <1>1 DEF m
<1>5. Typed(m) /\ buffers' \in Bufs /\ Ledger(m, buffers') /\ Rooted(m, buffers')
  BY <1>2, <1>3, <1>4, DestroyedLeaves
<1>6. Now' = m
  BY <1>1, <1>5, NextMemory
<1>7. Typed(Now)' /\ Ledger(Now, buffers)' /\ Rooted(Now, buffers)'
  BY <1>5, <1>6 DEF Typed, Ledger, Rooted, Freed, Held
<1> QED
  BY <1>1, <1>2, <1>5, <1>7 DEF MemoryInv, Bufs

(* Assignment from a temporary destroys first and takes over then. *)
LEMMA AssignMoveKeeps ==
  ASSUME OwnBuffers, NEW n \in Slots, NEW from \in Slots, AssignMove(n, from)
  PROVE  MemoryInv'
<1> DEFINE m == Destroyed(Now, buffers[n])
           bufs == [buffers EXCEPT ![n] = NoBuffer]
<1>1. /\ n # from /\ Present(n) /\ Releasable(n) /\ Usable(from) /\ Become(m) /\ UNCHANGED current
      /\ buffers' = [buffers EXCEPT ![n] = buffers[from], ![from] = MovedFrom(buffers[from])]
  BY DEF AssignMove, Program
<1>2. MemoryInv /\ n \in DOMAIN buffers /\ from \in DOMAIN buffers
  BY HeldNumber DEF OwnBuffers, MemoryInv
<1>3. Unpointed(buffers, n)
  BY <1>1, ReleasableUnpointed
<1> HIDE DEF m, bufs
<1>4. m = Destroyed(Now, buffers[n]) /\ bufs = [buffers EXCEPT ![n] = NoBuffer]
  BY DEF m, bufs
<1>5. Typed(m) /\ bufs \in Bufs /\ Ledger(m, bufs) /\ Rooted(m, bufs)
  BY <1>2, <1>3, <1>4, DestroyedLeaves
<1>6. /\ bufs[n] = NoBuffer /\ bufs[from] = buffers[from] /\ DOMAIN bufs = DOMAIN buffers
      /\ buffers' = [bufs EXCEPT ![n] = bufs[from], ![from] = MovedFrom(bufs[from])]
  BY <1>1, <1>2, <1>4 DEF MemoryInv, Bufs
<1>7. buffers' \in Bufs /\ Ledger(m, buffers') /\ Rooted(m, buffers')
  BY <1>1, <1>2, <1>5, <1>6, TakenOver DEF Usable, Present
<1>8. Now' = m
  BY <1>1, <1>5, NextMemory
<1>9. Typed(Now)' /\ Ledger(Now, buffers)' /\ Rooted(Now, buffers)'
  BY <1>5, <1>7, <1>8 DEF Typed, Ledger, Rooted, Freed, Held
<1> QED
  BY <1>1, <1>2, <1>7, <1>9 DEF MemoryInv, Bufs

(* Two owners exchange their blocks. *)
LEMMA SwapKeeps ==
  ASSUME OwnBuffers, NEW n \in Slots, NEW k \in Slots, Swap(n, k)
  PROVE  MemoryInv'
<1>1. /\ n # k /\ UNCHANGED <<current, blocks, queue>>
      /\ buffers' = [buffers EXCEPT ![n] = buffers[k], ![k] = buffers[n]]
  BY DEF Swap, Program
<1>2. Typed(Now) /\ n \in DOMAIN buffers /\ k \in DOMAIN buffers /\ current \in Devices
      /\ buffers \in Bufs /\ Ledger(Now, buffers) /\ Rooted(Now, buffers)
  BY HeldNumber DEF OwnBuffers, MemoryInv
<1>3. buffers' \in Bufs /\ Ledger(Now, buffers') /\ Rooted(Now, buffers')
  BY <1>1, <1>2, Swapped
<1>4. Now' = Now
  BY <1>1 DEF Now
<1>5. Typed(Now)' /\ Ledger(Now, buffers)' /\ Rooted(Now, buffers)'
  BY <1>2, <1>3, <1>4 DEF Typed, Ledger, Rooted, Freed, Held
<1> QED
  BY <1>1, <1>2, <1>3, <1>5 DEF MemoryInv, Bufs

(* The program's operations on buffers keep memory in order, and touch none of
   a forest's. *)
LEMMA UseBuffersKeeps ==
  ASSUME OwnBuffers, UseBuffers
  PROVE  MemoryInv' /\ \A a \in Arrays : buffers'[a] = NoBuffer
<1>1. MemoryInv'
  BY MakeKeeps, WriteKeeps, DestroyKeeps, MakeViewKeeps, MakeCopyKeeps, MakeMoveKeeps, AssignCopyKeeps,
     AssignMoveKeeps, SwapKeeps DEF UseBuffers
<1>2. DOMAIN buffers = Slots \cup Arrays
  BY HeldNumber DEF OwnBuffers, MemoryInv
<1>3. \A a \in Arrays : buffers'[a] = buffers[a]
  <2> SUFFICES ASSUME NEW n \in Slots, NEW a \in Arrays, a # n, NEW k \in Slots, a # k,
                      \/ \E place \in Places : Make(n, place)
                      \/ \E value \in Values : Write(n, value)
                      \/ Destroy(n) \/ MakeView(n, k) \/ AssignCopy(n, k) \/ AssignMove(n, k) \/ Swap(n, k)
                      \/ \E place \in Places : MakeCopy(n, k, place)
                      \/ \E place \in Places : MakeMove(n, k, place)
               PROVE  buffers'[a] = buffers[a]
    BY MemoryAssumption DEF UseBuffers
  <2>1. CASE \E place \in Places : Make(n, place)
    BY <1>2, <2>1 DEF Make, Program
  <2>2. CASE \E value \in Values : Write(n, value)
    BY <1>2, <2>2 DEF Write, Program
  <2>3. CASE Destroy(n)
    BY <1>2, <2>3 DEF Destroy, Program
  <2>4. CASE MakeView(n, k)
    BY <1>2, <2>4 DEF MakeView, Program
  <2>5. CASE \E place \in Places : MakeCopy(n, k, place)
    BY <1>2, <2>5 DEF MakeCopy, CopyOrMove, Program
  <2>6. CASE \E place \in Places : MakeMove(n, k, place)
    BY <1>2, <2>6 DEF MakeMove, CopyOrMove, Program
  <2>7. CASE AssignCopy(n, k)
    BY <1>2, <2>7 DEF AssignCopy, Program
  <2>8. CASE AssignMove(n, k) \/ Swap(n, k)
    BY <1>2, <2>8 DEF AssignMove, Swap, Program
  <2> QED
    BY <2>1, <2>2, <2>3, <2>4, <2>5, <2>6, <2>7, <2>8
<1> QED
  BY <1>1, <1>3 DEF OwnBuffers

-----------------------------------------------------------------------------
(* Streams at work *)

(* The first entry of s is done: what it frees, if anything, is free. *)
HeadDone(m, m2, s) ==
  LET done == Freed(m, s, 1)
  IN  /\ \A i \in Nat : Freed(m2, s, i) = IF i = 0 THEN Null ELSE Freed(m, s, i + 1)
      /\ \A t \in Streams \ {s}, i \in Nat : Freed(m2, t, i) = Freed(m, t, i)
      /\ SamePlaces(m, m2, {done})
      /\ done # Null => ~m2.blocks[done].live

(* What a stream is done with leaves the ledger and the roots in order. *)
LEMMA HeadDoneKeeps ==
  ASSUME NEW m, Typed(m), NEW m2, Typed(m2), NEW bufs \in Bufs, Ledger(m, bufs), Rooted(m, bufs),
         NEW s \in Streams, HeadDone(m, m2, s)
  PROVE  Ledger(m2, bufs) /\ Rooted(m2, bufs)
<1> DEFINE done == Freed(m, s, 1)
           h(l) == Held(bufs, l)
           D == DOMAIN bufs
           f(t, i) == Freed(m, t, i)
           f2(t, i) == Freed(m2, t, i)
           live(b) == m.blocks[b].live
           live2(b) == m2.blocks[b].live
<1>1. \A l \in D : h(l) \in Numbers \cup {Null}
  BY HeldNumber
<1>2. \A t \in Streams, i \in Nat : f(t, i) \in Numbers \cup {Null}
  BY FreedNumber
<1>3. \A t \in Streams : f(t, 0) = Null
  BY MemoryFields DEF Freed
<1>4. /\ \A l \in D : h(l) # Null => live(h(l))
      /\ \A t \in Streams, i \in Nat : f(t, i) # Null => live(f(t, i))
      /\ \A b \in Numbers : live(b) =>
           (\E l \in D : h(l) = b) \/ (\E t \in Streams, i \in Nat : f(t, i) = b)
      /\ \A l, j \in D : h(l) = h(j) /\ l # j => h(l) = Null
      /\ \A l \in D, t \in Streams, i \in Nat : h(l) = f(t, i) => h(l) = Null
      /\ \A t, u \in Streams, i, j \in Nat : f(t, i) = f(u, j) /\ <<t, i>> # <<u, j>> => f(t, i) = Null
  BY LedgerFacts
<1>5. /\ \A i \in Nat : f2(s, i) = IF i = 0 THEN Null ELSE f(s, i + 1)
      /\ \A t \in Streams \ {s}, i \in Nat : f2(t, i) = f(t, i)
      /\ \A b \in Numbers \ {done} : live2(b) = live(b) /\ m2.blocks[b].mem = m.blocks[b].mem
                                     /\ m2.blocks[b].device = m.blocks[b].device
      /\ done # Null => ~live2(done)
      /\ done = f(s, 1)
  BY DEF HeadDone, SamePlaces
<1> HIDE DEF done, h, D, f, f2, live, live2
<1> DEFINE old(t, i) == IF t = s THEN i + 1 ELSE i
<1>6. \A t \in Streams, i \in Nat : f2(t, i) # Null =>
        old(t, i) \in Nat /\ <<t, old(t, i)>> # <<s, 1>> /\ f2(t, i) = f(t, old(t, i))
  BY <1>5
<1>7. \A t \in Streams, i \in Nat : f(t, i) # Null /\ f(t, i) # done => \E j \in Nat : f2(t, j) = f(t, i)
  <2> SUFFICES ASSUME NEW t \in Streams, NEW i \in Nat, f(t, i) # Null, f(t, i) # done
               PROVE  \E j \in Nat : f2(t, j) = f(t, i)
    OBVIOUS
  <2>1. CASE t = s
    <3>1. i # 0 /\ i # 1
      BY <1>3, <1>5, <2>1
    <3>2. i - 1 \in Nat /\ i - 1 # 0 /\ (i - 1) + 1 = i
      BY <3>1
    <3> QED
      BY <1>5, <2>1, <3>2
  <2>2. CASE t # s
    BY <1>5, <2>2
  <2> QED
    BY <2>1, <2>2
<1>8. \A l \in D : h(l) # Null => h(l) # done /\ live2(h(l))
  BY <1>1, <1>4, <1>5
<1>9. \A t \in Streams, i \in Nat : f2(t, i) # Null => live2(f2(t, i))
  <2> SUFFICES ASSUME NEW t \in Streams, NEW i \in Nat, f2(t, i) # Null PROVE live2(f2(t, i))
    OBVIOUS
  <2> DEFINE j == old(t, i)
  <2>1. j \in Nat /\ <<t, j>> # <<s, 1>> /\ f2(t, i) = f(t, j)
    BY <1>6
  <2> HIDE DEF j
  <2>2. f(t, j) # done
    BY <1>4, <1>5, <2>1
  <2> QED
    BY <1>2, <1>4, <1>5, <2>1, <2>2
<1>10. \A b \in Numbers : live2(b) =>
           (\E l \in D : h(l) = b) \/ (\E t \in Streams, i \in Nat : f2(t, i) = b)
  <2> SUFFICES ASSUME NEW b \in Numbers, live2(b), ~\E l \in D : h(l) = b
               PROVE  \E t \in Streams, i \in Nat : f2(t, i) = b
    OBVIOUS
  <2>1. b # Null /\ b # done
    BY <1>5, Apart
  <2>2. PICK t \in Streams, i \in Nat : f(t, i) = b
    BY <1>4, <1>5, <2>1
  <2> QED
    BY <1>7, <2>1, <2>2
<1>11. \A l \in D, t \in Streams, i \in Nat : h(l) = f2(t, i) => h(l) = Null
  BY <1>4, <1>6
<1>12. \A t, u \in Streams, i, j \in Nat : f2(t, i) = f2(u, j) /\ <<t, i>> # <<u, j>> => f2(t, i) = Null
  <2> SUFFICES ASSUME NEW t \in Streams, NEW u \in Streams, NEW i \in Nat, NEW j \in Nat,
                      f2(t, i) = f2(u, j), <<t, i>> # <<u, j>>, f2(t, i) # Null
               PROVE  FALSE
    OBVIOUS
  <2>1. <<t, old(t, i)>> # <<u, old(u, j)>>
    OBVIOUS
  <2>2. old(t, i) \in Nat /\ old(u, j) \in Nat /\ f2(t, i) = f(t, old(t, i)) /\ f2(u, j) = f(u, old(u, j))
    BY <1>6
  <2> HIDE DEF old
  <2>3. f(t, old(t, i)) = f(u, old(u, j)) /\ f(t, old(t, i)) # Null
    BY <2>2
  <2> DEFINE p == old(t, i)
             q == old(u, j)
  <2>4. p \in Nat /\ q \in Nat /\ f(t, p) = f(u, q) /\ f(t, p) # Null /\ <<t, p>> # <<u, q>>
    BY <2>1, <2>2, <2>3
  <2> HIDE DEF p, q
  <2>5. \A v, w \in Streams, k, l \in Nat : f(v, k) = f(w, l) /\ <<v, k>> # <<w, l>> => f(v, k) = Null
    BY <1>4
  <2>6. f(t, p) = f(u, q) /\ <<t, p>> # <<u, q>> => f(t, p) = Null
    BY <2>4, <2>5
  <2> QED
    BY <2>4, <2>6
<1>13. Ledger(m2, bufs)
  <2>1. \A l, j \in D : h(l) = h(j) /\ l # j => h(l) = Null
    BY <1>4
  <2> QED
    BY <1>8, <1>9, <1>10, <1>11, <1>12, <2>1, LedgerFacts DEF h, D, f2, live2
<1>14. Rooted(m2, bufs)
  <2> SUFFICES ASSUME NEW n \in DOMAIN bufs, bufs[n] # NoBuffer, ~bufs[n].moved
               PROVE  /\ m2.blocks[bufs[n].cached_ptr].mem = m.blocks[bufs[n].cached_ptr].mem
                      /\ m2.blocks[bufs[n].cached_ptr].device = m.blocks[bufs[n].cached_ptr].device
    BY DEF Rooted
  <2>1. \E k \in D : h(k) = bufs[n].cached_ptr /\ bufs[n].cached_ptr # Null
    BY DEF Rooted, h, D
  <2> QED
    BY <1>1, <1>5, <1>8, <2>1
<1> QED
  BY <1>13, <1>14

(* What is left of a queue. *)
LEMMA TailOfQueue ==
  ASSUME NEW q \in Seq(Operation), q # <<>>
  PROVE  /\ Head(q) = q[1] /\ q[1] \in Operation /\ 1 \in DOMAIN q
         /\ Tail(q) \in Seq(Operation) /\ Len(Tail(q)) = Len(q) - 1 /\ Len(q) \in Nat \ {0}
         /\ DOMAIN Tail(q) = 1 .. Len(q) - 1 /\ DOMAIN q = 1 .. Len(q)
         /\ \A i \in 1 .. Len(q) - 1 : Tail(q)[i] = q[i + 1]
<1>1. /\ Len(q) \in Nat /\ Len(q) > 0 /\ Head(q) = q[1] /\ Tail(q) \in Seq(Operation)
      /\ Len(Tail(q)) = Len(q) - 1 /\ \A i \in 1 .. Len(q) - 1 : Tail(q)[i] = q[i + 1]
  BY EmptySeq, HeadTailProperties, LenProperties
<1> QED
  BY <1>1, LenProperties

(* A stream runs the head of its queue. *)
LEMMA RunKeeps ==
  ASSUME MemoryInv, NEW s \in Streams, Run(s)
  PROVE  MemoryInv'
<1> DEFINE q == queue[s]
           op == Head(q)
           m == Now'
<1>1. Typed(Now) /\ buffers \in Bufs /\ Ledger(Now, buffers) /\ Rooted(Now, buffers) /\ current \in Devices
      /\ blocks \in [Numbers -> BlockType] /\ queue \in [Streams -> Seq(Operation)]
  BY NowFields, MemoryFields DEF MemoryInv
<1>2. q \in Seq(Operation) /\ q # <<>>
  BY <1>1 DEF Run
<1>3. /\ op = q[1] /\ op \in Operation /\ 1 \in DOMAIN q
      /\ Tail(q) \in Seq(Operation) /\ Len(Tail(q)) = Len(q) - 1 /\ Len(q) \in Nat \ {0}
      /\ DOMAIN Tail(q) = 1 .. Len(q) - 1 /\ DOMAIN q = 1 .. Len(q)
      /\ \A i \in 1 .. Len(q) - 1 : Tail(q)[i] = q[i + 1]
  BY <1>2, TailOfQueue
<1>4. queue' = [queue EXCEPT ![s] = Tail(q)] /\ UNCHANGED <<current, buffers>>
  BY DEF Run
<1>5. blocks' = CASE op.do = "fill"  -> [blocks EXCEPT ![op.to].value = op.value]
                  [] op.do = "copy"  -> [blocks EXCEPT ![op.to].value = blocks[op.from].value]
                  [] op.do = "free"  -> [blocks EXCEPT ![op.to] = NoBlock]
                  [] op.do = "infer" -> blocks
  BY DEF Run
<1> DEFINE done == Freed(Now, s, 1)
<1>6. done = IF op.do = "free" THEN op.to ELSE Null
  BY <1>3, NowFields DEF Freed
<1> HIDE DEF done, op
<1>7. op.do \in {"fill", "copy", "free", "infer"} /\ (op.do \in {"fill", "copy", "free"} => op.to \in Numbers)
      /\ (op.do = "fill" => op.value \in Contents) /\ (op.do = "copy" => op.from \in Numbers)
  BY <1>3, OperationForms
<1>8. /\ blocks' \in [Numbers -> BlockType]
      /\ \A b \in Numbers \ {done} : blocks'[b].live = blocks[b].live /\ blocks'[b].mem = blocks[b].mem
                                     /\ blocks'[b].device = blocks[b].device
      /\ done # Null => ~blocks'[done].live
  <2>1. CASE op.do = "free"
    <3>1. blocks' = [blocks EXCEPT ![op.to] = NoBlock] /\ done = op.to
      BY <1>5, <1>6, <2>1
    <3>2. NoBlock \in BlockType /\ ~NoBlock.live
      BY DEF NoBlock, BlockType, Contents, Garbage
    <3> HIDE DEF NoBlock
    <3> QED
      BY <1>1, <1>7, <2>1, <3>1, <3>2
  <2>2. ASSUME NEW v \in Contents, op.to \in Numbers, blocks' = [blocks EXCEPT ![op.to].value = v], done = Null
        PROVE  /\ blocks' \in [Numbers -> BlockType]
               /\ \A b \in Numbers : blocks'[b].live = blocks[b].live /\ blocks'[b].mem = blocks[b].mem
                                     /\ blocks'[b].device = blocks[b].device
    <3> DEFINE x == [blocks[op.to] EXCEPT !.value = v]
    <3>1. blocks' = [blocks EXCEPT ![op.to] = x]
      BY <1>1, <2>2
    <3>2. /\ x \in BlockType /\ x.live = blocks[op.to].live /\ x.mem = blocks[op.to].mem
          /\ x.device = blocks[op.to].device
      <4>1. blocks[op.to] \in BlockType
        BY <1>1, <2>2
      <4> QED
        BY <2>2, <4>1 DEF BlockType
    <3> HIDE DEF x
    <3> QED
      BY <1>1, <2>2, <3>1, <3>2
  <2>3. CASE op.do = "fill"
    BY <1>5, <1>6, <1>7, <2>2, <2>3
  <2>4. CASE op.do = "copy"
    <3>1. blocks[op.from].value \in Contents
      BY <1>1, <1>7, <2>4 DEF BlockType
    <3> QED
      BY <1>5, <1>6, <1>7, <2>2, <2>4, <3>1
  <2>5. CASE op.do = "infer"
    BY <1>1, <1>5, <1>6, <2>5
  <2> QED
    BY <1>7, <2>1, <2>3, <2>4, <2>5
<1>9. m.blocks = blocks' /\ m.queue = queue' /\ m = [blocks |-> blocks', queue |-> queue']
  BY DEF Now
<1>10. Typed(m)
  BY <1>1, <1>3, <1>4, <1>8, <1>9 DEF Typed
<1> HIDE DEF m
<1>11. HeadDone(Now, m, s)
  <2>1. SamePlaces(Now, m, {done}) /\ (done # Null => ~m.blocks[done].live)
    BY <1>8, <1>9, NowFields DEF SamePlaces
  <2>2. \A t \in Streams \ {s}, i \in Nat : Freed(m, t, i) = Freed(Now, t, i)
    BY <1>1, <1>4, <1>9, NowFields DEF Freed
  <2>3. \A i \in Nat : Freed(m, s, i) = IF i = 0 THEN Null ELSE Freed(Now, s, i + 1)
    <3> SUFFICES ASSUME NEW i \in Nat PROVE Freed(m, s, i) = IF i = 0 THEN Null ELSE Freed(Now, s, i + 1)
      OBVIOUS
    <3>1. m.queue[s] = Tail(q) /\ Now.queue[s] = q
      BY <1>1, <1>4, <1>9, NowFields
    <3>2. CASE i \in 1 .. Len(q) - 1
      <4>1. i \in DOMAIN Tail(q) /\ i + 1 \in DOMAIN q /\ Tail(q)[i] = q[i + 1] /\ i # 0
        BY <1>3, <3>2
      <4> QED
        BY <3>1, <4>1 DEF Freed
    <3>3. CASE i \notin 1 .. Len(q) - 1
      <4>1. i \notin DOMAIN Tail(q) /\ (i = 0 \/ i + 1 \notin DOMAIN q)
        BY <1>3, <3>3
      <4> QED
        BY <3>1, <4>1 DEF Freed
    <3> QED
      BY <3>2, <3>3
  <2> QED
    BY <2>1, <2>2, <2>3 DEF HeadDone, done
<1>12. Ledger(m, buffers) /\ Rooted(m, buffers)
  BY <1>1, <1>10, <1>11, HeadDoneKeeps
<1> QED
  BY <1>1, <1>4, <1>10, <1>12, Restated DEF m

-----------------------------------------------------------------------------
(* The arrays of a forest *)

(* Memory without the builder's vectors, which no buffer owns. *)
Hidden(m, v) == IF v = Null THEN m ELSE WithBlock(m, v, NoBlock)

(* All but the vectors stays as it is. *)
LEMMA HiddenMemory ==
  ASSUME NEW m, Typed(m), NEW v \in Numbers \cup {Null}
  PROVE  /\ Typed(Hidden(m, v)) /\ Hidden(m, v).queue = m.queue
         /\ \A c \in Numbers \ {v} : Hidden(m, v).blocks[c] = m.blocks[c]
         /\ v # Null => ~Hidden(m, v).blocks[v].live
<1>1. CASE v = Null
  BY <1>1 DEF Hidden
<1>2. CASE v # Null
  <2>1. v \in Numbers /\ NoBlock \in BlockType /\ ~NoBlock.live
    BY <1>2 DEF NoBlock, BlockType, Contents, Garbage
  <2>2. /\ m.blocks \in [Numbers -> BlockType] /\ m.queue \in [Streams -> Seq(Operation)]
        /\ m = [blocks |-> m.blocks, queue |-> m.queue]
    BY MemoryFields
  <2>3. Hidden(m, v) = [blocks |-> [m.blocks EXCEPT ![v] = NoBlock], queue |-> m.queue]
    BY <1>2, <2>2 DEF Hidden, WithBlock
  <2> HIDE DEF NoBlock
  <2> QED
    BY <2>1, <2>2, <2>3 DEF Typed
<1> QED
  BY <1>1, <1>2

(* While the vectors are hidden, a change of one buffer restores the ledger of the rest. *)
LEMMA HiddenExchanged ==
  ASSUME NEW m, Typed(m), NEW m2, Typed(m2), NEW v \in Numbers \cup {Null},
         NEW old \in Numbers \cup {Null}, NEW new \in Numbers \cup {Null}, Exchanged(m, m2, old, new),
         v # Null => v # old /\ v # new
  PROVE  Exchanged(Hidden(m, v), Hidden(m2, v), old, new)
<1> DEFINE h == Hidden(m, v)
           h2 == Hidden(m2, v)
<1>1. CASE v = Null
  BY <1>1 DEF Hidden
<1>2. CASE v # Null
  <2>1. /\ h.queue = m.queue /\ h2.queue = m2.queue
        /\ \A c \in Numbers \ {v} : h.blocks[c] = m.blocks[c] /\ h2.blocks[c] = m2.blocks[c]
        /\ h.blocks[v] = NoBlock /\ h2.blocks[v] = NoBlock
    <3>1. v \in Numbers /\ h = WithBlock(m, v, NoBlock) /\ h2 = WithBlock(m2, v, NoBlock)
      BY <1>2 DEF Hidden
    <3>2. m.blocks \in [Numbers -> BlockType] /\ m2.blocks \in [Numbers -> BlockType]
      BY MemoryFields
    <3>3. /\ h.blocks = [m.blocks EXCEPT ![v] = NoBlock] /\ h.queue = m.queue
          /\ h2.blocks = [m2.blocks EXCEPT ![v] = NoBlock] /\ h2.queue = m2.queue
      BY <3>1, MemoryFields DEF WithBlock
    <3> QED
      BY <3>1, <3>2, <3>3
  <2> HIDE DEF h, h2
  <2>2. SamePlaces(h, h2, {old, new})
    BY <2>1 DEF Exchanged, SamePlaces
  <2>3. \A s \in Streams, i \in Nat : Freed(h, s, i) = Freed(m, s, i) /\ Freed(h2, s, i) = Freed(m2, s, i)
    BY <2>1 DEF Freed
  <2>4. /\ SameFrees(m, m2) => SameFrees(h, h2)
        /\ FreesAlso(m, m2, old) => FreesAlso(h, h2, old)
    BY <2>3 DEF SameFrees, FreesAlso
  <2>5. /\ new # Null => h.blocks[new] = m.blocks[new] /\ h2.blocks[new] = m2.blocks[new]
        /\ old # Null => h2.blocks[old] = m2.blocks[old]
    BY <1>2, <2>1
  <2> QED
    BY <2>2, <2>4, <2>5 DEF Exchanged, h, h2
<1> QED
  BY <1>1, <1>2

(* Who is there owns what it points to. *)
OnlyOwners(bufs) == \A n \in DOMAIN bufs : bufs[n] # NoBuffer => bufs[n].owns /\ ~bufs[n].moved

(* Where every buffer is an owner, none but itself points to what it holds. *)
LEMMA OwnersUnpointed ==
  ASSUME NEW m, Typed(m), NEW bufs \in Bufs, Ledger(m, bufs), Rooted(m, bufs), OnlyOwners(bufs),
         NEW n \in DOMAIN bufs
  PROVE  Unpointed(bufs, n)
<1> SUFFICES ASSUME NEW l \in DOMAIN bufs \ {n}, bufs[l] # NoBuffer, ~bufs[l].moved,
                    bufs[l].cached_ptr = HeldBy(bufs[n])
             PROVE  FALSE
  BY DEF Unpointed
<1>1. bufs[l].owns /\ bufs[l].cached_ptr = bufs[l].data /\ bufs[l].cached_ptr # Null
  BY DEF OnlyOwners, Rooted
<1>2. Held(bufs, l) = HeldBy(bufs[l]) /\ Held(bufs, n) = HeldBy(bufs[n])
  BY HeldNumber
<1>3. Held(bufs, l) = Held(bufs, n) /\ Held(bufs, l) # Null
  BY <1>1, <1>2 DEF HeldBy
<1> QED
  BY <1>3 DEF Ledger

(* Arrays r are being made from vectors v, or destroyed. *)
Building(r, v) ==
  /\ Typed(r.memory) /\ r.buffers \in Bufs
  /\ Ledger(Hidden(r.memory, v), r.buffers) /\ Rooted(Hidden(r.memory, v), r.buffers)
  /\ OnlyOwners(r.buffers)
  /\ v # Null => r.memory.blocks[v].live /\ r.memory.blocks[v].mem = "cpu"

(* An array's place is one where buffers can be. *)
LEMMA BuildingPlaces ==
  ASSUME NEW r, NEW v \in Numbers \cup {Null}, Building(r, v), NEW n \in DOMAIN r.buffers
  PROVE  /\ r.buffers[n] \in BufferType \cup {NoBuffer} /\ DOMAIN r.buffers = Slots \cup Arrays
         /\ HeldBy(r.buffers[n]) \in Numbers \cup {Null}
         /\ HeldBy(r.buffers[n]) # Null =>
              HeldBy(r.buffers[n]) # v /\ r.memory.blocks[HeldBy(r.buffers[n])].live
<1> DEFINE b == HeldBy(r.buffers[n])
<1>1. b = Held(r.buffers, n) /\ b \in Numbers \cup {Null} /\ DOMAIN r.buffers = Slots \cup Arrays
  BY HeldNumber DEF Building
<1>2. r.buffers[n] \in BufferType \cup {NoBuffer}
  BY <1>1 DEF Building, Bufs
<1>3. b # Null => Hidden(r.memory, v).blocks[b].live
  BY <1>1 DEF Building, Ledger
<1> DEFINE m == r.memory
           h == Hidden(m, v)
<1>4. /\ \A c \in Numbers \ {v} : h.blocks[c] = m.blocks[c]
      /\ v # Null => ~h.blocks[v].live
  <2>1. Typed(m)
    BY DEF Building
  <2> HIDE DEF m
  <2> QED
    BY <2>1, HiddenMemory
<1>5. b # Null => b # v /\ m.blocks[b].live
  <2> HIDE DEF b, m
  <2> QED
    BY <1>1, <1>3, <1>4 DEF m
<1> QED
  BY <1>1, <1>2, <1>5

(* An array is destroyed. *)
LEMMA WithoutArrayKeeps ==
  ASSUME NEW r, NEW v \in Numbers \cup {Null}, Building(r, v), NEW a \in Arrays,
         NEW r2, r2 = WithoutArray(r, a)
  PROVE  Building(r2, v) /\ r2.buffers = [r.buffers EXCEPT ![a] = NoBuffer]
<1> DEFINE m == r.memory
           m2 == r2.memory
           x == r.buffers[a]
           y == NoBuffer
<1>1. m2 = Destroyed(m, x) /\ r2.buffers = [r.buffers EXCEPT ![a] = y]
  BY DEF WithoutArray
<1>2. /\ Typed(m) /\ r.buffers \in Bufs /\ a \in DOMAIN r.buffers /\ x \in BufferType \cup {NoBuffer}
      /\ HeldBy(x) \in Numbers \cup {Null}
      /\ HeldBy(x) # Null => HeldBy(x) # v /\ m.blocks[HeldBy(x)].live
  <2>1. DOMAIN r.buffers = Slots \cup Arrays
    BY HeldNumber DEF Building
  <2> QED
    BY <2>1, BuildingPlaces DEF Building
<1>3. Exchanged(m, m, Null, Null)
  BY DEF Exchanged, SamePlaces, SameFrees
<1> HIDE DEF m2
<1>4. Typed(m2) /\ Exchanged(m, m2, HeldBy(x), Null)
  <2> HIDE DEF m, x
  <2> QED
    BY <1>1, <1>2, <1>3, ExchangedByDestroying
<1> DEFINE h == Hidden(m, v)
           h2 == Hidden(m2, v)
<1>5. Exchanged(h, h2, HeldBy(x), Null)
  BY <1>2, <1>4, HiddenExchanged
<1>6. Typed(h) /\ Typed(h2)
  BY <1>2, <1>4, HiddenMemory
<1>7. Ledger(h, r.buffers) /\ Rooted(h, r.buffers) /\ OnlyOwners(r.buffers)
  BY DEF Building
<1> HIDE DEF h, h2
<1>8. Unpointed(r.buffers, a)
  BY <1>2, <1>6, <1>7, OwnersUnpointed
<1>9. HeldBy(y) = Null /\ Fresh(h2, y) /\ y \in BufferType \cup {NoBuffer}
  BY DEF HeldBy, Fresh
<1> DEFINE bufs == r.buffers
           bufs2 == r2.buffers
<1>10. bufs2 = [bufs EXCEPT ![a] = y] /\ a \in DOMAIN bufs /\ bufs \in Bufs /\ HeldBy(bufs[a]) = HeldBy(x)
       /\ Ledger(h, bufs) /\ Rooted(h, bufs) /\ Unpointed(bufs, a)
  BY <1>1, <1>2, <1>7, <1>8
<1> HIDE DEF bufs, bufs2, y, x
<1>11. bufs2 \in Bufs /\ Ledger(h2, bufs2) /\ Rooted(h2, bufs2)
  BY <1>5, <1>6, <1>9, <1>10, Replaced
<1>12. OnlyOwners(bufs2)
  BY <1>7, <1>10 DEF OnlyOwners, bufs, Bufs, y
<1>13. v # Null => m2.blocks[v].live /\ m2.blocks[v].mem = "cpu"
  BY <1>2, <1>4 DEF Building, Exchanged, SamePlaces
<1> QED
  BY <1>1, <1>4, <1>11, <1>12, <1>13 DEF Building, bufs2, h2, m2, y

(* Models are on a device of the GPU, or on none. *)
ImportPlace(mem, device) ==
  mem \in {"cpu", "gpu"} /\ IF mem = "cpu" THEN device = NoDevice ELSE device \in Devices

(* A view of the vectors is copied, and the copy is moved into its place. *)
CopiedIn(r, v, a, mem, device, stream, b) ==
  /\ WithArray(r, a, v, mem, device, stream).memory =
       CopyTo(r.memory, View("cpu", 0, v), mem, device, b, stream).memory
  /\ WithArray(r, a, v, mem, device, stream).buffers =
       [r.buffers EXCEPT ![a] = Owning(mem, device, b, stream)]

(* The place is never that of the view, so that the first of the moves copies. *)
LEMMA WithArrayCopies ==
  ASSUME NEW r, NEW v \in Numbers, NEW a, NEW mem, NEW device, ImportPlace(mem, device), NEW stream,
         NEW b, b = Next1(Unused(r.memory, r.buffers)), b \in Numbers,
         Owning(mem, device, b, stream) \in BufferType
  PROVE  CopiedIn(r, v, a, mem, device, stream, b)
<1> DEFINE other == View("cpu", 0, v)
           made == MoveTo(r.memory, other, mem, device, b, stream)
           copy == CopyTo(r.memory, other, mem, device, b, stream)
           x == Owning(mem, device, b, stream)
<1>1. made = copy
  <2>1. ~(mem = other.mem /\ device = other.device)
    <3>1. other.mem = "cpu" /\ other.device = 0
      BY DEF View
    <3> QED
      BY <3>1, Apart, MemoryAssumption DEF ImportPlace, NoDevice
  <2> QED
    BY <2>1 DEF MoveTo
<1>2. made.memory = copy.memory /\ made.buffer = x
  BY <1>1 DEF CopyTo
<1>3. x.mem = mem /\ x.device = device /\ x.cached_ptr = x.data
  BY DEF Owning
<1>4. MoveTo(made.memory, x, mem, device, Null, stream) =
        [memory |-> made.memory, other |-> MovedFrom(x), buffer |-> [x EXCEPT !.cached_ptr = x.data]]
  BY <1>3 DEF MoveTo
<1>5. [x EXCEPT !.cached_ptr = x.data] = x
  BY <1>3, CachedAlready
<1>6. WithArray(r, a, v, mem, device, stream) =
        [memory |-> MoveTo(made.memory, made.buffer, mem, device, Null, stream).memory,
         buffers |-> [r.buffers EXCEPT ![a] = MoveTo(made.memory, made.buffer, mem, device, Null, stream).buffer]]
  BY DEF WithArray
<1> HIDE DEF made, copy, x
<1> QED
  BY <1>2, <1>4, <1>5, <1>6 DEF copy, x, CopiedIn

(* What is allocated is no more to be had, all the rest is. *)
LEMMA WithArrayKeeps ==
  ASSUME NEW r, NEW v \in Numbers, Building(r, v), NEW a \in Arrays, r.buffers[a] = NoBuffer,
         Unused(r.memory, r.buffers) # {}, NEW mem, NEW device, ImportPlace(mem, device),
         NEW stream \in Streams \cup {Default}, current \in Devices,
         NEW r2, r2 = WithArray(r, a, v, mem, device, stream),
         NEW b, b = Next1(Unused(r.memory, r.buffers))
  PROVE  /\ Building(r2, v)
         /\ b \in Numbers /\ Owning(mem, device, b, stream) \in BufferType
         /\ r2.buffers = [r.buffers EXCEPT ![a] = Owning(mem, device, b, stream)]
         /\ Unused(r.memory, r.buffers) \ {b} \subseteq Unused(r2.memory, r2.buffers)
<1> DEFINE m == r.memory
           bufs == r.buffers
           other == View("cpu", 0, v)
           c == CopyTo(m, other, mem, device, b, stream)
           x == Owning(mem, device, b, stream)
           y == Block(mem, device, Garbage)
           m1 == WithBlock(m, b, y)
           m2 == r2.memory
<1>1. /\ b \in Unused(m, bufs) /\ b \in Numbers /\ ~m.blocks[b].live
      /\ \A n \in DOMAIN bufs : bufs[n] # NoBuffer => bufs[n].data # b /\ bufs[n].cached_ptr # b
      /\ \A s \in Streams : \A i \in DOMAIN m.queue[s] : b \notin MentionedBy(m.queue[s][i])
  <2> HIDE DEF m, bufs
  <2>1. Unused(m, bufs) # {} /\ b = Next1(Unused(m, bufs))
    BY DEF m, bufs
  <2> QED
    BY <2>1, UnusedBlock
<1>2. Typed(m) /\ bufs \in Bufs /\ m.blocks[v].live /\ m.blocks[v].mem = "cpu" /\ a \in DOMAIN bufs
      /\ DOMAIN bufs = Slots \cup Arrays
  <2>1. v # Null
    BY Apart
  <2> QED
    BY <2>1, HeldNumber DEF Building
<1>3. b # v /\ other.cached_ptr = v /\ Placeable(mem, device)
  BY <1>1, <1>2 DEF View, ImportPlace, Placeable
<1> HIDE DEF m, other
<1>4. /\ c.buffer = x /\ x \in BufferType /\ HeldBy(x) = b
      /\ c.memory = Copied(m1, v, b, stream)
      /\ y \in BlockType
      /\ Typed(c.memory) /\ Fresh(c.memory, x) /\ Exchanged(m, c.memory, Null, b)
  <2> DEFINE q == c
  <2>0. q = CopyTo(m, other, mem, device, b, stream)
    OBVIOUS
  <2> HIDE DEF q
  <2>1. /\ q.buffer = Owning(mem, device, b, stream) /\ q.buffer \in BufferType /\ HeldBy(q.buffer) = b
        /\ q.memory = Copied(WithBlock(m, b, Block(mem, device, Garbage)), other.cached_ptr, b, stream)
        /\ Block(mem, device, Garbage) \in BlockType
        /\ Typed(q.memory) /\ Fresh(q.memory, q.buffer) /\ Exchanged(m, q.memory, Null, b)
    BY <1>1, <1>2, <1>3, <2>0, CopiedTo
  <2> QED
    BY <1>3, <2>1 DEF q
<1>5. m2 = c.memory /\ r2.buffers = [bufs EXCEPT ![a] = x]
  <2>1. CopiedIn(r, v, a, mem, device, stream, b)
    BY <1>1, <1>4, WithArrayCopies DEF m
  <2> QED
    BY <2>1 DEF CopiedIn, m, other
<1> HIDE DEF c, x, m2, m1, bufs
<1>6. Exchanged(m, m2, Null, b) /\ Typed(m2) /\ Fresh(m2, x)
  BY <1>4, <1>5
<1> DEFINE h == Hidden(m, v)
           h2 == Hidden(m2, v)
<1>7. Exchanged(h, h2, Null, b) /\ Typed(h) /\ Typed(h2)
  BY <1>1, <1>2, <1>3, <1>6, HiddenExchanged, HiddenMemory
<1>8. Fresh(h2, x)
  <2>1. \A d \in Numbers \ {v} : h2.blocks[d] = m2.blocks[d]
    BY <1>6, HiddenMemory
  <2>2. x # NoBuffer => x.data = b
    BY <1>6, <1>4 DEF Fresh, HeldBy
  <2> HIDE DEF h2
  <2> QED
    BY <1>1, <1>3, <1>6, <2>1, <2>2 DEF Fresh
<1>9. Ledger(h, bufs) /\ Rooted(h, bufs) /\ OnlyOwners(bufs)
  BY DEF Building, m, bufs
<1> HIDE DEF h, h2
<1> DEFINE bufs2 == r2.buffers
<1>10. /\ bufs2 = [bufs EXCEPT ![a] = x] /\ bufs[a] = NoBuffer /\ HeldBy(bufs[a]) = Null
       /\ x \in BufferType \cup {NoBuffer}
  BY <1>4, <1>5 DEF HeldBy, bufs
<1> HIDE DEF bufs2
<1>11. Unpointed(bufs, a)
  BY <1>2, <1>7, <1>9, OwnersUnpointed
<1>12. bufs2 \in Bufs /\ Ledger(h2, bufs2) /\ Rooted(h2, bufs2)
  <2>1. Exchanged(h, h2, HeldBy(bufs[a]), HeldBy(x))
    BY <1>4, <1>7, <1>10
  <2>2. /\ Typed(h) /\ Typed(h2) /\ bufs \in Bufs /\ a \in DOMAIN bufs
        /\ Ledger(h, bufs) /\ Rooted(h, bufs)
    BY <1>2, <1>7, <1>9
  <2> QED
    BY <1>8, <1>10, <1>11, <2>1, <2>2, Replaced
<1>13. OnlyOwners(bufs2)
  <2>1. x # NoBuffer => x.owns /\ ~x.moved
    BY <1>6 DEF Fresh
  <2> QED
    BY <1>2, <1>9, <1>10, <2>1 DEF OnlyOwners, Bufs
<1>14. m2.blocks[v].live /\ m2.blocks[v].mem = "cpu"
  <2>1. v # Null
    BY Apart
  <2> QED
    BY <1>2, <1>3, <1>6, <2>1 DEF Exchanged, SamePlaces
<1>15. Building(r2, v)
  BY <1>6, <1>12, <1>13, <1>14 DEF Building, m2, bufs2, h2
<1>16. ASSUME NEW d \in Unused(m, bufs) \ {b} PROVE d \in Unused(m2, bufs2)
  <2>1. /\ d \in Numbers /\ ~m.blocks[d].live
        /\ \A n \in DOMAIN bufs : bufs[n] # NoBuffer => d \notin {bufs[n].data, bufs[n].cached_ptr}
        /\ \A s \in Streams : \A i \in DOMAIN m.queue[s] : d \notin MentionedBy(m.queue[s][i])
    BY <1>16 DEF Unused, Numbers
  <2>2. ~m2.blocks[d].live
    <3>1. d # Null
      BY <2>1, Apart
    <3> QED
      BY <1>6, <1>16, <2>1, <3>1 DEF Exchanged, SamePlaces
  <2>3. \A n \in DOMAIN bufs2 : bufs2[n] # NoBuffer => d \notin {bufs2[n].data, bufs2[n].cached_ptr}
    <3>1. x.data = b /\ x.cached_ptr = b
      BY DEF x, Owning
    <3> QED
      BY <1>2, <1>10, <1>16, <2>1, <3>1 DEF Bufs
  <2>4. \A s \in Streams : \A i \in DOMAIN m2.queue[s] : d \notin MentionedBy(m2.queue[s][i])
    <3>1. /\ Typed(m1) /\ m1.queue = m.queue /\ m1.blocks[b] = y
          /\ m1.blocks[v].mem = "cpu"
      <4> HIDE DEF y
      <4>0. Typed(m) /\ b \in Numbers /\ y \in BlockType /\ m1 = WithBlock(m, b, y)
        BY <1>1, <1>2, <1>4 DEF m1
      <4>1. Typed(m1) /\ m1.queue = m.queue /\ SamePlaces(m, m1, {b}) /\ m1.blocks[b] = y
        <5>1. BlockPut(m, b, y, m1)
          BY <4>0, BlockChanged
        <5> QED
          BY <5>1 DEF BlockPut
      <4> QED
        BY <1>2, <1>3, <4>1 DEF SamePlaces
    <3>2. Resolve(stream) \in Streams
      BY Resolved
    <3>3. m2 = Copied(m1, v, b, stream)
      BY <1>4, <1>5
    <3>4. y.mem \in {"cpu", "gpu"}
      BY <1>4 DEF BlockType
    <3> HIDE DEF y
    <3> DEFINE op == [do |-> "fill", to |-> b, value |-> m1.blocks[v].value]
    <3>5. /\ y.mem = "cpu" => m2.queue = m1.queue
          /\ y.mem = "gpu" => op \in Operation /\ m2 = Submit(m1, Resolve(stream), op)
      <4>1. /\ m1.blocks[b].mem = "cpu" => m2.queue = m1.queue
            /\ m1.blocks[b].mem = "gpu" /\ m1.blocks[v].mem = "cpu" =>
                 /\ [do |-> "fill", to |-> b, value |-> m1.blocks[v].value] \in Operation
                 /\ m2 = Submit(m1, Resolve(stream),
                                [do |-> "fill", to |-> b, value |-> m1.blocks[v].value])
        BY <1>1, <3>1, <3>2, <3>3, CopiedQuiet
      <4> QED
        BY <3>1, <4>1
    <3>6. CASE y.mem = "cpu"
      BY <2>1, <3>1, <3>5, <3>6
    <3>7. CASE y.mem = "gpu"
      <4> DEFINE s == Resolve(stream)
      <4>1. MentionedBy(op) = {b}
        BY DEF MentionedBy
      <4>0. op \in Operation /\ m2 = Submit(m1, s, op)
        BY <3>5, <3>7
      <4> HIDE DEF op, s
      <4>2. /\ Len(m2.queue[s]) = Len(m1.queue[s]) + 1 /\ m2.queue[s][Len(m1.queue[s]) + 1] = op
            /\ \A t \in Streams \ {s} : m2.queue[t] = m1.queue[t]
            /\ \A t \in Streams : \A i \in DOMAIN m1.queue[t] : m2.queue[t][i] = m1.queue[t][i]
        BY <3>1, <3>2, <4>0, Submitted DEF s
      <4>3. /\ DOMAIN m2.queue[s] = 1 .. Len(m2.queue[s]) /\ DOMAIN m1.queue[s] = 1 .. Len(m1.queue[s])
            /\ Len(m1.queue[s]) \in Nat
        BY <1>6, <3>1, <3>2, MemoryFields DEF s
      <4>4. \A i \in DOMAIN m2.queue[s] : i \in DOMAIN m1.queue[s] \/ m2.queue[s][i] = op
        BY <4>2, <4>3
      <4> QED
        BY <1>16, <2>1, <3>1, <4>1, <4>2, <4>4
    <3> QED
      BY <3>4, <3>6, <3>7
  <2> QED
    BY <2>1, <2>2, <2>3, <2>4 DEF Unused, Numbers
<1> QED
  BY <1>1, <1>4, <1>5, <1>15, <1>16 DEF m, bufs, m2, bufs2, x

(* What is left for allocations can be counted. *)
LEMMA UnusedFinite ==
  ASSUME NEW m, NEW bufs
  PROVE  IsFiniteSet(Unused(m, bufs)) /\ Unused(m, bufs) \subseteq Numbers
         /\ Cardinality(Unused(m, bufs)) \in Nat
<1>1. Unused(m, bufs) \subseteq Numbers
  BY DEF Unused, Numbers
<1>2. IsFiniteSet(Numbers)
  BY MemoryAssumption, FS_Interval DEF Numbers
<1> HIDE DEF Unused
<1>3. IsFiniteSet(Unused(m, bufs))
  BY <1>1, <1>2, FS_Subset
<1> QED
  BY <1>1, <1>3, FS_CardinalityType

(* An array that is made takes one block from those that are unused. *)
LEMMA OneFewer ==
  ASSUME NEW S, NEW T, IsFiniteSet(S), IsFiniteSet(T), NEW b \in S, S \ {b} \subseteq T
  PROVE  Cardinality(T) >= Cardinality(S) - 1 /\ Cardinality(S) \in Nat /\ Cardinality(T) \in Nat
<1>1. IsFiniteSet(S \ {b}) /\ Cardinality(S \ {b}) = Cardinality(S) - 1
  BY FS_RemoveElement
<1>2. Cardinality(S \ {b}) <= Cardinality(T)
  BY FS_Subset
<1>3. Cardinality(S) \in Nat /\ Cardinality(T) \in Nat /\ Cardinality(S \ {b}) \in Nat
  BY <1>1, FS_CardinalityType
<1> QED
  BY <1>1, <1>2, <1>3

(* An array of a forest that is at a place, made by a stream. *)
Made(x, mem, device, stream) ==
  /\ x \in BufferType /\ x.owns /\ ~x.moved
  /\ x.mem = mem /\ x.device = device /\ x.stream = StreamOf(device, stream)

Making(r, v, mem, device, stream, made, left) ==
  /\ Building(r, v)
  /\ \A n \in Slots : r.buffers[n] = NoBuffer
  /\ \A a \in Arrays : IF a \in made THEN Made(r.buffers[a], mem, device, stream) ELSE r.buffers[a] = NoBuffer
  /\ Cardinality(Unused(r.memory, r.buffers)) >= left

(* As long as there is a block left, one more array can be made. *)
LEMMA MakingOne ==
  ASSUME NEW r, NEW v \in Numbers, NEW mem, NEW device, ImportPlace(mem, device),
         NEW stream \in Streams \cup {Default}, current \in Devices, NEW made, NEW left \in Nat \ {0},
         NEW a \in Arrays \ made, Making(r, v, mem, device, stream, made, left),
         NEW r2, r2 = WithArray(r, a, v, mem, device, stream)
  PROVE  Making(r2, v, mem, device, stream, made \cup {a}, left - 1)
<1> DEFINE U == Unused(r.memory, r.buffers)
           U2 == Unused(r2.memory, r2.buffers)
           b == Next1(U)
           x == Owning(mem, device, b, stream)
<1>1. /\ IsFiniteSet(U) /\ IsFiniteSet(U2) /\ Cardinality(U) \in Nat /\ Cardinality(U2) \in Nat
  BY UnusedFinite
<1>2. Cardinality(U) >= left /\ Building(r, v) /\ r.buffers[a] = NoBuffer
  BY DEF Making
<1>3. U # {}
  <2> HIDE DEF U
  <2> QED
    BY <1>1, <1>2, FS_EmptySet
<1>4. b \in U
  BY <1>3, UnusedBlock
<1>5. /\ Building(r2, v) /\ x \in BufferType /\ r2.buffers = [r.buffers EXCEPT ![a] = x]
      /\ U \ {b} \subseteq U2
  <2> HIDE DEF U2
  <2>1. /\ Building(r2, v) /\ Owning(mem, device, b, stream) \in BufferType
        /\ r2.buffers = [r.buffers EXCEPT ![a] = Owning(mem, device, b, stream)]
        /\ Unused(r.memory, r.buffers) \ {b} \subseteq Unused(r2.memory, r2.buffers)
    BY <1>2, <1>3, WithArrayKeeps
  <2> QED
    BY <2>1 DEF U2
<1> HIDE DEF U, U2, b
<1>6. Cardinality(U2) >= left - 1
  <2>1. Cardinality(U2) >= Cardinality(U) - 1
    BY <1>1, <1>4, <1>5, OneFewer
  <2> QED
    BY <1>1, <1>2, <2>1
<1>7. Made(x, mem, device, stream)
  <2>1. x.owns /\ ~x.moved /\ x.mem = mem /\ x.device = device /\ x.stream = StreamOf(device, stream)
    BY DEF Owning, StreamOf
  <2> QED
    BY <1>5, <2>1 DEF Made
<1> HIDE DEF x
<1>8. DOMAIN r.buffers = Slots \cup Arrays /\ a \notin Slots
  BY <1>2, HeldNumber, MemoryAssumption DEF Building
<1>9. \A n \in Slots : r2.buffers[n] = NoBuffer
  BY <1>5, <1>8 DEF Making
<1>10. \A c \in Arrays : IF c \in made \cup {a} THEN Made(r2.buffers[c], mem, device, stream)
                         ELSE r2.buffers[c] = NoBuffer
  BY <1>5, <1>7, <1>8 DEF Making
<1> QED
  BY <1>5, <1>6, <1>9, <1>10 DEF Making, U2

(* The arrays that are left to make can be counted. *)
LEMMA LeftToMake ==
  ASSUME NEW names \in SUBSET Arrays, NEW past, NEW a \in names \ past
  PROVE  /\ Cardinality(names \ past) \in Nat \ {0}
         /\ Cardinality((names \ past) \ {a}) = Cardinality(names \ past) - 1
<1>1. IsFiniteSet(Arrays)
  <2>1. IsFiniteSet({"nodes"}) /\ IsFiniteSet({"vector_output"}) /\ IsFiniteSet({"categorical_storage"})
    BY FS_Singleton
  <2>2. IsFiniteSet({"nodes"} \cup {"vector_output"})
    BY <2>1, FS_Union
  <2>3. IsFiniteSet(({"nodes"} \cup {"vector_output"}) \cup {"categorical_storage"})
    BY <2>1, <2>2, FS_Union
  <2>4. Arrays = ({"nodes"} \cup {"vector_output"}) \cup {"categorical_storage"}
    BY LifetimeAssumption
  <2> QED
    BY <2>3, <2>4
<1>2. IsFiniteSet(names \ past)
  BY <1>1, FS_Subset
<1>3. Cardinality((names \ past) \ {a}) = Cardinality(names \ past) - 1 /\ IsFiniteSet((names \ past) \ {a})
  BY <1>2, FS_RemoveElement
<1>4. Cardinality(names \ past) \in Nat /\ Cardinality((names \ past) \ {a}) \in Nat
  BY <1>2, <1>3, FS_CardinalityType
<1> QED
  BY <1>3, <1>4

(* One array after the other, if it is one of those to be made. *)
LEMMA MakingNext ==
  ASSUME NEW r, NEW v \in Numbers, NEW mem, NEW device, ImportPlace(mem, device),
         NEW stream \in Streams \cup {Default}, current \in Devices,
         NEW names \in SUBSET Arrays, NEW past, NEW a \in Arrays \ past,
         Making(r, v, mem, device, stream, names \cap past, Cardinality(names \ past)),
         NEW r2, r2 = IF a \in names THEN WithArray(r, a, v, mem, device, stream) ELSE r
  PROVE  Making(r2, v, mem, device, stream, names \cap (past \cup {a}), Cardinality(names \ (past \cup {a})))
<1>1. CASE a \in names
  <2> DEFINE made == names \cap past
             left == Cardinality(names \ past)
  <2>2. Cardinality((names \ past) \ {a}) = left - 1 /\ left \in Nat \ {0}
    BY <1>1, LeftToMake
  <2>3. (names \ past) \ {a} = names \ (past \cup {a}) /\ names \cap (past \cup {a}) = made \cup {a}
    BY <1>1
  <2>4. r2 = WithArray(r, a, v, mem, device, stream) /\ a \in Arrays \ made
    BY <1>1
  <2>5. Making(r, v, mem, device, stream, made, left)
    OBVIOUS
  <2> HIDE DEF made, left
  <2>6. Making(r2, v, mem, device, stream, made \cup {a}, left - 1)
    BY <2>2, <2>4, <2>5, MakingOne
  <2> QED
    BY <2>2, <2>3, <2>6
<1>2. CASE a \notin names
  <2>1. names \cap (past \cup {a}) = names \cap past /\ names \ (past \cup {a}) = names \ past /\ r2 = r
    BY <1>2
  <2> QED
    BY <2>1
<1> QED
  BY <1>1, <1>2

(* All arrays that are asked for are there, in their place, and no other. *)
LEMMA WithArraysMade ==
  ASSUME NEW r, NEW v \in Numbers, NEW mem, NEW device, ImportPlace(mem, device),
         NEW stream \in Streams \cup {Default}, current \in Devices,
         NEW names \in SUBSET Arrays, Making(r, v, mem, device, stream, {}, Cardinality(names)),
         NEW r2, r2 = WithArrays(r, names, v, mem, device, stream)
  PROVE  Making(r2, v, mem, device, stream, names, 0)
<1> DEFINE with(q, a) == IF a \in names THEN WithArray(q, a, v, mem, device, stream) ELSE q
           q1 == with(r, "nodes")
           q2 == with(q1, "vector_output")
           q3 == with(q2, "categorical_storage")
           p1 == {} \cup {"nodes"}
           p2 == p1 \cup {"vector_output"}
           p3 == p2 \cup {"categorical_storage"}
<1>1. Arrays = p3 /\ "nodes" \in Arrays \ {} /\ "vector_output" \in Arrays \ p1 /\ "categorical_storage" \in Arrays \ p2
  BY LifetimeAssumption
<1>2. r2 = q3
  BY DEF WithArrays
<1>3. Making(r, v, mem, device, stream, names \cap {}, Cardinality(names \ {}))
  <2>1. names \cap {} = {} /\ names \ {} = names
    OBVIOUS
  <2> QED
    BY <2>1
<1>4. /\ q1 = IF "nodes" \in names THEN WithArray(r, "nodes", v, mem, device, stream) ELSE r
      /\ q2 = IF "vector_output" \in names THEN WithArray(q1, "vector_output", v, mem, device, stream) ELSE q1
      /\ q3 = IF "categorical_storage" \in names
              THEN WithArray(q2, "categorical_storage", v, mem, device, stream) ELSE q2
  OBVIOUS
<1> HIDE DEF q1, q2, q3
<1>5. Making(q1, v, mem, device, stream, names \cap p1, Cardinality(names \ p1))
  BY <1>1, <1>3, <1>4, MakingNext
<1> HIDE DEF p1
<1>6. Making(q2, v, mem, device, stream, names \cap p2, Cardinality(names \ p2))
  BY <1>1, <1>4, <1>5, MakingNext
<1> HIDE DEF p2
<1>7. Making(q3, v, mem, device, stream, names \cap p3, Cardinality(names \ p3))
  <2> DEFINE a == "categorical_storage"
  <2>1. a \in Arrays \ p2 /\ q3 = IF a \in names THEN WithArray(q2, a, v, mem, device, stream) ELSE q2
    BY <1>1, <1>4
  <2>2. p3 = p2 \cup {a}
    OBVIOUS
  <2> HIDE DEF a, p3
  <2>3. Making(q3, v, mem, device, stream, names \cap (p2 \cup {a}), Cardinality(names \ (p2 \cup {a})))
    BY <1>6, <2>1, MakingNext
  <2> QED
    BY <2>2, <2>3
<1>8. names \cap p3 = names /\ names \ p3 = {}
  BY <1>1
<1> QED
  BY <1>2, <1>7, <1>8, FS_EmptySet

(* Arrays are destroyed one after the other. *)
Unmaking(r, v, left) == Building(r, v) /\ \A n \in (Slots \cup Arrays) \ left : r.buffers[n] = NoBuffer

(* One array is destroyed, if it is one of those made. *)
LEMMA UnmakingNext ==
  ASSUME NEW r, NEW v \in Numbers \cup {Null}, NEW names, NEW left, NEW a \in Arrays,
         a \in left => a \in names, Unmaking(r, v, left),
         NEW r2, r2 = IF a \in names THEN WithoutArray(r, a) ELSE r
  PROVE  Unmaking(r2, v, left \ {a})
<1>1. CASE a \in names
  <2>1. r2 = WithoutArray(r, a) /\ Building(r, v)
    BY <1>1 DEF Unmaking
  <2>2. Building(r2, v) /\ r2.buffers = [r.buffers EXCEPT ![a] = NoBuffer]
    BY <2>1, WithoutArrayKeeps
  <2>3. DOMAIN r.buffers = Slots \cup Arrays
    BY <2>1, HeldNumber DEF Building
  <2> QED
    BY <2>2, <2>3 DEF Unmaking
<1>2. CASE a \notin names
  BY <1>2 DEF Unmaking
<1> QED
  BY <1>1, <1>2

(* What an exception destroys was made, and no array is left. *)
LEMMA WithoutUnmade ==
  ASSUME NEW r, NEW v \in Numbers \cup {Null}, NEW names \in SUBSET Arrays, Unmaking(r, v, names),
         NEW r2, r2 = Without(r, names)
  PROVE  Unmaking(r2, v, {})
<1> DEFINE without(q, a) == IF a \in names THEN WithoutArray(q, a) ELSE q
           q1 == without(r, "categorical_storage")
           q2 == without(q1, "vector_output")
           q3 == without(q2, "nodes")
           l1 == names \ {"categorical_storage"}
           l2 == l1 \ {"vector_output"}
           l3 == l2 \ {"nodes"}
<1>1. /\ "nodes" \in Arrays /\ "vector_output" \in Arrays /\ "categorical_storage" \in Arrays
      /\ l3 = {} /\ l1 \subseteq names /\ l2 \subseteq names
  BY LifetimeAssumption
<1>2. r2 = q3
  BY DEF Without
<1>3. /\ q1 = IF "categorical_storage" \in names THEN WithoutArray(r, "categorical_storage") ELSE r
      /\ q2 = IF "vector_output" \in names THEN WithoutArray(q1, "vector_output") ELSE q1
      /\ q3 = IF "nodes" \in names THEN WithoutArray(q2, "nodes") ELSE q2
  OBVIOUS
<1> HIDE DEF q1, q2, q3
<1>4. Unmaking(q1, v, l1)
  BY <1>1, <1>3, UnmakingNext
<1> HIDE DEF l1
<1>5. Unmaking(q2, v, l2)
  BY <1>1, <1>3, <1>4, UnmakingNext
<1> HIDE DEF l2
<1>6. Unmaking(q3, v, l3)
  BY <1>1, <1>3, <1>5, UnmakingNext
<1> QED
  BY <1>1, <1>2, <1>6

-----------------------------------------------------------------------------
(* Forests *)

(* The invariant is about memory on one side, the forest on the other. *)
LEMMA OwnershipMemory == OwnershipInv <=> MemoryInv /\ ForestInv
  BY DEF OwnershipInv, MemoryInv, Bufs

(* A shape has at most three arrays. *)
LEMMA ArraysOfShape ==
  ASSUME NEW shape
  PROVE  /\ ArraysOf(shape) \subseteq Arrays /\ IsFiniteSet(ArraysOf(shape))
         /\ \A n : FirstOf(shape, n) \subseteq ArraysOf(shape)
         /\ FirstOf(shape, 3) = ArraysOf(shape)
<1>1. ArraysOf(shape) \subseteq Arrays
  BY LifetimeAssumption DEF ArraysOf
<1>2. IsFiniteSet(ArraysOf(shape))
  <2>1. IsFiniteSet({"nodes"}) /\ IsFiniteSet({a \in {"vector_output"} : shape.vector})
        /\ IsFiniteSet({a \in {"categorical_storage"} : shape.external})
    BY FS_Singleton, FS_Subset
  <2>2. IsFiniteSet({"nodes"} \cup {a \in {"vector_output"} : shape.vector})
    BY <2>1, FS_Union
  <2> QED
    BY <2>1, <2>2, FS_Union DEF ArraysOf
<1>3. \A a \in Arrays : Order[a] <= 3
  BY LifetimeAssumption DEF Order
<1> QED
  BY <1>1, <1>2, <1>3 DEF FirstOf

(* The memory in which a builder's vectors are. *)
LEMMA VectorsHidden ==
  ASSUME NEW m, Typed(m), NEW bufs \in Bufs, Ledger(m, bufs), Rooted(m, bufs),
         NEW v \in Numbers, ~m.blocks[v].live, NEW x \in BlockType, NEW h, h = Hidden(WithBlock(m, v, x), v)
  PROVE  Typed(h) /\ Ledger(h, bufs) /\ Rooted(h, bufs)
<1>0. v # Null
  BY Apart
<1> DEFINE m1 == WithBlock(m, v, x)
<1>1. BlockPut(m, v, x, m1)
  BY BlockChanged
<1> HIDE DEF m1
<1>2. /\ Typed(m1) /\ m1.queue = m.queue /\ \A c \in Numbers \ {v} : m1.blocks[c] = m.blocks[c]
  BY <1>1 DEF BlockPut
<1>3. /\ Typed(h) /\ h.queue = m1.queue /\ ~h.blocks[v].live
      /\ \A c \in Numbers \ {v} : h.blocks[c] = m1.blocks[c]
  <2>1. /\ Typed(Hidden(m1, v)) /\ Hidden(m1, v).queue = m1.queue
        /\ \A c \in Numbers \ {v} : Hidden(m1, v).blocks[c] = m1.blocks[c]
        /\ v # Null => ~Hidden(m1, v).blocks[v].live
    BY <1>2, HiddenMemory
  <2> QED
    BY <1>0, <2>1 DEF m1
<1>4. /\ h.queue = m.queue /\ \A c \in Numbers \ {v} : h.blocks[c] = m.blocks[c]
  BY <1>2, <1>3
<1>5. \A s \in Streams, i \in Nat : Freed(h, s, i) = Freed(m, s, i) /\ Freed(m, s, i) \in Numbers \cup {Null}
  BY <1>4, FreedNumber DEF Freed
<1>6. \A n \in DOMAIN bufs : Held(bufs, n) \in Numbers \cup {Null}
  BY HeldNumber
<1>7. \A b \in Numbers : h.blocks[b].live <=> m.blocks[b].live
  BY <1>3, <1>4
<1>8. Ledger(h, bufs)
  <2> HIDE DEF Held, Freed
  <2>1. /\ \A n \in DOMAIN bufs : Held(bufs, n) # Null => m.blocks[Held(bufs, n)].live
        /\ \A s \in Streams, i \in Nat : Freed(m, s, i) # Null => m.blocks[Freed(m, s, i)].live
        /\ \A b \in Numbers : m.blocks[b].live =>
             \/ \E n \in DOMAIN bufs : Held(bufs, n) = b
             \/ \E s \in Streams, i \in Nat : Freed(m, s, i) = b
        /\ \A n, k \in DOMAIN bufs : Held(bufs, n) = Held(bufs, k) /\ n # k => Held(bufs, n) = Null
        /\ \A n \in DOMAIN bufs, s \in Streams, i \in Nat :
             Held(bufs, n) = Freed(m, s, i) => Held(bufs, n) = Null
        /\ \A s, t \in Streams, i, j \in Nat :
             Freed(m, s, i) = Freed(m, t, j) /\ <<s, i>> # <<t, j>> => Freed(m, s, i) = Null
    BY LedgerFacts
  <2>2. /\ \A n \in DOMAIN bufs : Held(bufs, n) # Null => h.blocks[Held(bufs, n)].live
        /\ \A s \in Streams, i \in Nat : Freed(h, s, i) # Null => h.blocks[Freed(h, s, i)].live
    BY <1>5, <1>6, <1>7, <2>1
  <2>3. /\ \A b \in Numbers : h.blocks[b].live =>
             \/ \E n \in DOMAIN bufs : Held(bufs, n) = b
             \/ \E s \in Streams, i \in Nat : Freed(h, s, i) = b
        /\ \A n \in DOMAIN bufs, s \in Streams, i \in Nat :
             Held(bufs, n) = Freed(h, s, i) => Held(bufs, n) = Null
        /\ \A s, t \in Streams, i, j \in Nat :
             Freed(h, s, i) = Freed(h, t, j) /\ <<s, i>> # <<t, j>> => Freed(h, s, i) = Null
    BY <1>5, <1>7, <2>1
  <2> QED
    BY <1>3, <2>1, <2>2, <2>3, LedgerFacts
<1>9. Rooted(h, bufs)
  <2> SUFFICES ASSUME NEW n \in DOMAIN bufs, bufs[n] # NoBuffer, ~bufs[n].moved
               PROVE  h.blocks[bufs[n].cached_ptr] = m.blocks[bufs[n].cached_ptr]
    BY DEF Rooted
  <2>1. PICK k \in DOMAIN bufs : Held(bufs, k) = bufs[n].cached_ptr /\ bufs[n].cached_ptr # Null
    BY DEF Rooted
  <2>2. m.blocks[Held(bufs, k)].live
    BY <2>1 DEF Ledger
  <2> QED
    BY <1>4, <1>6, <2>1, <2>2
<1> QED
  BY <1>3, <1>8, <1>9

(* Memory is in order and holds the arrays of a forest, or none. *)
InOrder(r, names, ready, mem, on, stream) ==
  /\ Typed(r.memory) /\ r.buffers \in Bufs /\ Ledger(r.memory, r.buffers) /\ Rooted(r.memory, r.buffers)
  /\ \A n \in Slots : r.buffers[n] = NoBuffer
  /\ \A a \in Arrays : IF ready /\ a \in names THEN Made(r.buffers[a], mem, on, stream)
                       ELSE r.buffers[a] = NoBuffer

(* The builder's vectors are made, and there is memory for all arrays. *)
BuilderMade(v, names, builder, mem, on, stream) ==
  /\ v \in Unused(Now, buffers) /\ v \in Numbers /\ ~Now.blocks[v].live
  /\ BlockPut(Now, v, Block("cpu", NoDevice, Model), builder.memory) /\ builder.buffers = buffers
  /\ Making(builder, v, mem, on, stream, {}, Cardinality(names))

(* One block is for the vectors, and as many are left as there are arrays. *)
LEMMA VectorsMade ==
  ASSUME MemoryInv, \A n \in Slots \cup Arrays : buffers[n] = NoBuffer, NEW shape, NEW names,
         names \subseteq ArraysOf(shape), Cardinality(Unused(Now, buffers)) > Cardinality(ArraysOf(shape)),
         NEW mem, NEW on, NEW stream, NEW v, v = Next1(Unused(Now, buffers)),
         NEW builder, builder = [memory |-> WithBlock(Now, v, Block("cpu", NoDevice, Model)), buffers |-> buffers]
  PROVE  BuilderMade(v, names, builder, mem, on, stream)
<1> DEFINE U == Unused(Now, buffers)
           x == Block("cpu", NoDevice, Model)
<1>1. /\ Typed(Now) /\ buffers \in Bufs /\ Ledger(Now, buffers) /\ Rooted(Now, buffers) /\ current \in Devices
      /\ DOMAIN buffers = Slots \cup Arrays
  BY HeldNumber DEF MemoryInv
<1>2. names \in SUBSET Arrays /\ Cardinality(U) > Cardinality(names) /\ IsFiniteSet(U)
      /\ Cardinality(names) \in Nat /\ Cardinality(U) \in Nat
  <2>1. Cardinality(names) <= Cardinality(ArraysOf(shape)) /\ IsFiniteSet(names)
    BY ArraysOfShape, FS_Subset
  <2>2. Cardinality(ArraysOf(shape)) \in Nat /\ Cardinality(names) \in Nat
    BY <2>1, ArraysOfShape, FS_CardinalityType
  <2>3. IsFiniteSet(U) /\ Cardinality(U) \in Nat
    BY UnusedFinite
  <2> QED
    BY <2>1, <2>2, <2>3, ArraysOfShape
<1>3. /\ v \in U /\ v \in Numbers /\ ~Now.blocks[v].live
  <2>1. U # {}
    <3> HIDE DEF U
    <3> QED
      BY <1>2, FS_EmptySet
  <2> QED
    BY <2>1, UnusedBlock
<1>4. x \in BlockType /\ x.live /\ x.mem = "cpu"
  BY DEF Block, BlockType, Contents, Model
<1>5. BlockPut(Now, v, x, builder.memory) /\ builder.buffers = buffers
  BY <1>1, <1>3, <1>4, BlockChanged
<1> HIDE DEF x
<1>6. Building(builder, v) /\ Cardinality(Unused(builder.memory, builder.buffers)) >= Cardinality(names)
  <2> DEFINE m1 == builder.memory
             h == Hidden(m1, v)
             U1 == Unused(m1, buffers)
  <2>1. m1 = WithBlock(Now, v, x) /\ builder.buffers = buffers
    BY DEF x
  <2>2. BlockPut(Now, v, x, m1)
    BY <1>1, <1>3, <1>4, <2>1, BlockChanged
  <2>3. Typed(h) /\ Ledger(h, buffers) /\ Rooted(h, buffers)
    <3>1. h = Hidden(WithBlock(Now, v, x), v)
      BY <2>1
    <3> HIDE DEF h
    <3> QED
      BY <1>1, <1>3, <1>4, <3>1, VectorsHidden
  <2> HIDE DEF m1
  <2>4. /\ Typed(m1) /\ m1.queue = queue /\ m1.blocks[v] = x
        /\ \A c \in Numbers \ {v} : m1.blocks[c] = Now.blocks[c]
    BY <2>2, NowFields DEF BlockPut
  <2>5. OnlyOwners(buffers)
    BY <1>1 DEF OnlyOwners
  <2>6. Building(builder, v)
    BY <1>1, <1>4, <2>1, <2>3, <2>4, <2>5 DEF Building, m1
  <2>7. U \ {v} \subseteq U1
    BY <2>4, NowFields DEF Unused, Numbers
  <2>8. IsFiniteSet(U1)
    BY UnusedFinite
  <2> HIDE DEF U, U1
  <2>9. Cardinality(U1) >= Cardinality(U) - 1 /\ Cardinality(U1) \in Nat
    BY <1>2, <1>3, <2>7, <2>8, OneFewer
  <2>10. Cardinality(U1) >= Cardinality(names)
    BY <1>2, <2>9
  <2> QED
    BY <2>1, <2>6, <2>10 DEF U1, m1
<1>7. Making(builder, v, mem, on, stream, {}, Cardinality(names))
  BY <1>6 DEF Making
<1> QED
  BY <1>3, <1>5, <1>7 DEF BuilderMade, x

(* Whether a forest is made or an exception is thrown. *)
LEMMA BuiltForest ==
  ASSUME MemoryInv, \A n \in Slots \cup Arrays : buffers[n] = NoBuffer, NEW shape, NEW names,
         names \subseteq ArraysOf(shape), Cardinality(Unused(Now, buffers)) > Cardinality(ArraysOf(shape)),
         NEW ready \in BOOLEAN, NEW mem, NEW on, ImportPlace(mem, on), NEW stream \in Streams \cup {Default},
         NEW r, r = Built(names, ready, mem, on, stream)
  PROVE  InOrder(r, names, ready, mem, on, stream)
<1> DEFINE U == Unused(Now, buffers)
           v == Next1(U)
           x == Block("cpu", NoDevice, Model)
           builder == [memory |-> WithBlock(Now, v, x), buffers |-> buffers]
           done == WithArrays(builder, names, v, mem, on, stream)
           kept == IF ready THEN done ELSE Without(done, names)
<1>1. names \in SUBSET Arrays /\ current \in Devices
  BY ArraysOfShape DEF MemoryInv
<1>2. BuilderMade(v, names, builder, mem, on, stream)
  BY VectorsMade
<1>3. v \in Numbers
  BY <1>2 DEF BuilderMade
<1>4. r = [memory |-> [kept.memory EXCEPT !.blocks[v] = NoBlock], buffers |-> kept.buffers]
  BY DEF Built, WithBlock
<1> HIDE DEF v, x, kept, done
<1>7. Making(builder, v, mem, on, stream, {}, Cardinality(names))
  BY <1>2 DEF BuilderMade
<1> HIDE DEF builder
<1>8. Making(done, v, mem, on, stream, names, 0)
  BY <1>1, <1>3, <1>7, WithArraysMade DEF done
<1>9. /\ Building(kept, v) /\ \A n \in Slots : kept.buffers[n] = NoBuffer
      /\ \A a \in Arrays : IF ready /\ a \in names THEN Made(kept.buffers[a], mem, on, stream)
                           ELSE kept.buffers[a] = NoBuffer
  <2>1. CASE ready
    BY <1>8, <2>1 DEF Making, kept
  <2>2. CASE ~ready
    <3>1. Unmaking(done, v, names)
      BY <1>8 DEF Making, Unmaking
    <3>2. kept = Without(done, names)
      BY <2>2 DEF kept
    <3>3. Unmaking(kept, v, {})
      BY <1>1, <1>3, <3>1, <3>2, WithoutUnmade
    <3> QED
      BY <2>2, <3>3 DEF Unmaking
  <2> QED
    BY <2>1, <2>2
<1>10. r.memory = Hidden(kept.memory, v) /\ r.buffers = kept.buffers
  <2>1. v # Null
    BY <1>3, Apart
  <2> QED
    BY <1>4, <2>1 DEF Hidden, WithBlock
<1>11. Typed(Hidden(kept.memory, v))
  <2> DEFINE m == kept.memory
  <2>1. Typed(m)
    BY <1>9 DEF Building
  <2> HIDE DEF m
  <2>2. Typed(Hidden(m, v))
    BY <1>3, <2>1, HiddenMemory
  <2> QED
    BY <2>2 DEF m
<1> QED
  BY <1>9, <1>10, <1>11 DEF Building, InOrder

(* Where an import puts its arrays there is room for buffers. *)
LEMMA ImportPlaces ==
  ASSUME NEW mem \in {"cpu", "gpu"}, NEW device \in Devices
  PROVE  /\ ImportPlace(mem, ModelDevice(mem, device))
         /\ StreamsFor(device) \subseteq Streams \cup {Default}
  BY DEF ImportPlace, ModelDevice, StreamsFor, Streams

(* An import keeps the invariant, whether it succeeds or throws. *)
LEMMA ImportKeeps ==
  ASSUME OwnershipInv, NEW shape \in Shapes, NEW mem \in {"cpu", "gpu"}, NEW device \in Devices,
         NEW made \in 0 .. 3, NEW ready \in BOOLEAN, NEW stream \in StreamsFor(device),
         Import(shape, mem, device, stream, made, ready)
  PROVE  OwnershipInv'
<1> DEFINE on == ModelDevice(mem, device)
           names == FirstOf(shape, made)
           r == Built(names, ready, mem, on, stream)
<1>1. /\ program = "forest" /\ forest = NoForest /\ Cardinality(Unused(Now, buffers)) > Cardinality(ArraysOf(shape))
      /\ ready => made = 3
      /\ Become(r.memory) /\ buffers' = r.buffers
      /\ forest' = IF ready THEN [mem |-> mem, device |-> on, shape |-> shape, stream |-> stream] ELSE NoForest
      /\ UNCHANGED <<current, program>>
  BY DEF Import
<1>2. MemoryInv /\ ForestInv
  BY OwnershipMemory
<1>3. \A n \in Slots \cup Arrays : buffers[n] = NoBuffer
  BY <1>1, <1>2 DEF ForestInv
<1>4. ImportPlace(mem, on) /\ stream \in Streams \cup {Default}
  BY ImportPlaces
<1>5. names \subseteq ArraysOf(shape) /\ ArraysOf(shape) \subseteq Arrays /\ (ready => names = ArraysOf(shape))
  BY <1>1, ArraysOfShape
<1>6. r = Built(names, ready, mem, on, stream)
  OBVIOUS
<1> HIDE DEF r, on, names
<1>7. InOrder(r, names, ready, mem, on, stream)
  <2>1. Cardinality(Unused(Now, buffers)) > Cardinality(ArraysOf(shape)) /\ names \subseteq ArraysOf(shape)
    BY <1>1, <1>5
  <2> QED
    BY <1>2, <1>3, <1>4, <1>6, <2>1, BuiltForest
<1>8. MemoryInv'
  <2> DEFINE m == r.memory
  <2>1. Typed(m) /\ Become(m) /\ buffers' \in Bufs /\ Ledger(m, buffers') /\ Rooted(m, buffers')
    BY <1>1, <1>7 DEF InOrder
  <2> HIDE DEF m
  <2>2. Now' = m
    BY <2>1, NextMemory
  <2>3. current' \in Devices
    BY <1>1, <1>2 DEF MemoryInv
  <2> QED
    BY <2>1, <2>2, <2>3, Restated
<1>9. ForestInv'
  <2>1. program' = "forest" /\ \A n \in Slots : buffers'[n] = NoBuffer
    BY <1>1, <1>7 DEF InOrder
  <2>2. CASE ~ready
    <3>1. forest' = NoForest /\ \A a \in Arrays : buffers'[a] = NoBuffer
      BY <1>1, <1>7, <2>2 DEF InOrder
    <3> QED
      BY <2>1, <3>1 DEF ForestInv
  <2>3. CASE ready
    <3>1. /\ forest'.mem = mem /\ forest'.device = on /\ forest'.shape = shape /\ forest'.stream = stream
      BY <1>1, <2>3
    <3>2. forest' # NoForest
      BY <3>1 DEF NoForest
    <3>3. \A a \in Arrays : IF a \in ArraysOf(shape) THEN Made(buffers'[a], mem, on, stream)
                            ELSE buffers'[a] = NoBuffer
      BY <1>1, <1>5, <1>7, <2>3 DEF InOrder
    <3>4. \A a \in Arrays : IF a \in ArraysOf(forest'.shape) THEN IsArray(buffers[a])'
                            ELSE buffers'[a] = NoBuffer
      BY <3>1, <3>3 DEF Made, IsArray
    <3>5. forest'.device \in Devices \cup {NoDevice} /\ (forest'.mem = "gpu" => forest'.device \in Devices)
      BY <1>4, <3>1 DEF ImportPlace
    <3> QED
      BY <2>1, <3>1, <3>2, <3>4, <3>5 DEF ForestInv
  <2> QED
    BY <2>2, <2>3
<1> QED
  BY <1>8, <1>9, OwnershipMemory, PTL

(* An array has a block. *)
LEMMA ArrayBlock ==
  ASSUME OwnershipInv, forest # NoForest, NEW a \in ArraysOf(forest.shape)
  PROVE  /\ IsArray(buffers[a]) /\ a \in Arrays /\ a \in DOMAIN buffers
         /\ buffers[a].cached_ptr \in Numbers /\ buffers[a].cached_ptr = buffers[a].data
         /\ Held(buffers, a) = buffers[a].cached_ptr
         /\ blocks[buffers[a].cached_ptr].live
         /\ blocks[buffers[a].cached_ptr].mem = forest.mem
         /\ forest.mem = "gpu" => blocks[buffers[a].cached_ptr].device = forest.device
<1>1. MemoryInv /\ ForestInv
  BY OwnershipMemory
<1>2. a \in Arrays /\ IsArray(buffers[a])
  BY <1>1, ArraysOfShape DEF ForestInv
<1>3. a \in DOMAIN buffers /\ buffers[a] \in BufferType /\ ~buffers[a].moved /\ buffers[a].owns
      /\ buffers[a].mem = forest.mem /\ buffers[a].device = forest.device
  BY <1>1, <1>2, HeldNumber DEF IsArray, MemoryInv
<1>4. Usable(a) /\ buffers[a] # NoBuffer
  BY <1>3, Apart DEF Usable, Present
<1>5. /\ buffers[a].cached_ptr \in Numbers /\ buffers[a].cached_ptr = buffers[a].data
      /\ blocks[buffers[a].cached_ptr].live
      /\ blocks[buffers[a].cached_ptr].mem = buffers[a].mem
      /\ buffers[a].mem = "gpu" => blocks[buffers[a].cached_ptr].device = buffers[a].device
  BY <1>1, <1>3, <1>4, UsableBlock
<1>6. Held(buffers, a) = buffers[a].cached_ptr
  BY <1>3, <1>4, <1>5 DEF Held
<1> QED
  BY <1>2, <1>3, <1>5, <1>6

(* What an inference is submitted as. *)
Inference(chunk) ==
  [do |-> "infer", kernel |-> Dispatched(forest.shape, chunk),
   reads |-> [a \in ArraysOf(forest.shape) |-> buffers[a].cached_ptr]]

(* The operation that an inference submits has the type of operations. *)
LEMMA InferenceTyped ==
  ASSUME OwnershipInv, forest # NoForest, NEW chunk \in Chunks
  PROVE  Inference(chunk) \in Operation
<1> DEFINE reads == [a \in ArraysOf(forest.shape) |-> buffers[a].cached_ptr]
           kernel == Dispatched(forest.shape, chunk)
<1>1. forest.shape \in Shapes
  BY OwnershipMemory DEF ForestInv
<1>2. kernel \in Kernels
  BY <1>1, LifetimeAssumption DEF Dispatched, Kernels
<1>3. reads \in [ArraysOf(forest.shape) -> Numbers] /\ ArraysOf(forest.shape) \in SUBSET Arrays
  BY ArrayBlock, ArraysOfShape
<1> HIDE DEF reads, kernel
<1> DEFINE T == UNION {[names -> Numbers] : names \in SUBSET Arrays}
<1>4. reads \in T
  BY <1>3
<1> HIDE DEF T
<1>5. [do |-> "infer", kernel |-> kernel, reads |-> reads] \in [do : {"infer"}, kernel : Kernels, reads : T]
  BY <1>2, <1>4
<1> QED
  BY <1>5 DEF Operation, T, Inference, reads, kernel

(* An inference prepares nothing, frees nothing and holds nothing. *)
LEMMA PredictKeeps ==
  ASSUME OwnershipInv, NEW stream \in {Default} \cup (Devices \X {1}), NEW chunk \in Chunks, Predict(stream, chunk)
  PROVE  OwnershipInv'
<1> DEFINE op == Inference(chunk)
           s == Resolve(stream)
           m == Submit(Now, s, op)
<1>1. Become(m) /\ forest.mem = "gpu" /\ UNCHANGED <<current, buffers, forest, program>>
  BY DEF Predict, Inference, forestVars
<1>2. MemoryInv /\ ForestInv /\ forest # NoForest /\ Typed(Now) /\ current \in Devices
  BY <1>1, OwnershipMemory DEF MemoryInv, NoForest
<1>3. s \in Streams
  BY <1>2, Resolved DEF Streams
<1>4. op \in Operation /\ op.do # "free"
  BY <1>2, InferenceTyped DEF Inference
<1>5. m = Submit(Now, s, op)
  OBVIOUS
<1> HIDE DEF op, s, m
<1>6. Typed(m) /\ SamePlaces(Now, m, {}) /\ SameFrees(Now, m)
  BY <1>2, <1>3, <1>4, <1>5, SubmittedQuiet
<1>7. MemoryInv'
  BY <1>1, <1>2, <1>6, UndisturbedNext
<1>8. ForestInv'
  BY <1>1, <1>2 DEF ForestInv, IsArray
<1> QED
  BY <1>7, <1>8, OwnershipMemory, PTL

(* A forest gives up its arrays, last made first. *)
LEMMA DestroyForestKeeps ==
  ASSUME OwnershipInv, DestroyForest
  PROVE  OwnershipInv'
<1> DEFINE names == ArraysOf(forest.shape)
           q == [memory |-> Now, buffers |-> buffers]
           r == Without(q, names)
<1>1. /\ program = "forest" /\ forest # NoForest /\ Become(r.memory) /\ buffers' = r.buffers
      /\ forest' = NoForest /\ UNCHANGED <<current, program>>
  BY DEF DestroyForest
<1>2. /\ MemoryInv /\ ForestInv /\ Typed(Now) /\ buffers \in Bufs /\ Ledger(Now, buffers) /\ Rooted(Now, buffers)
      /\ current \in Devices /\ DOMAIN buffers = Slots \cup Arrays
  BY OwnershipMemory, HeldNumber DEF MemoryInv
<1>3. names \in SUBSET Arrays /\ \A n \in (Slots \cup Arrays) \ names : buffers[n] = NoBuffer
  BY <1>1, <1>2, ArraysOfShape DEF ForestInv
<1>4. OnlyOwners(buffers)
  BY <1>1, <1>2, <1>3 DEF OnlyOwners, ForestInv, IsArray
<1>5. Unmaking(q, Null, names)
  BY <1>2, <1>3, <1>4 DEF Unmaking, Building, Hidden
<1>6. r = Without(q, names)
  OBVIOUS
<1> HIDE DEF q, r, names
<1>7. Unmaking(r, Null, {})
  BY <1>3, <1>5, <1>6, WithoutUnmade
<1>8. /\ Typed(r.memory) /\ r.buffers \in Bufs /\ Ledger(r.memory, r.buffers) /\ Rooted(r.memory, r.buffers)
      /\ \A n \in Slots \cup Arrays : r.buffers[n] = NoBuffer
  BY <1>7 DEF Unmaking, Building, Hidden
<1>9. MemoryInv'
  <2> DEFINE m == r.memory
  <2>1. Typed(m) /\ Become(m) /\ buffers' \in Bufs /\ Ledger(m, buffers') /\ Rooted(m, buffers')
    BY <1>1, <1>8
  <2> HIDE DEF m
  <2>2. Now' = m
    BY <2>1, NextMemory
  <2>3. current' \in Devices
    BY <1>1, <1>2
  <2> QED
    BY <2>1, <2>2, <2>3, Restated
<1>10. ForestInv'
  BY <1>1, <1>8 DEF ForestInv
<1> QED
  BY <1>9, <1>10, OwnershipMemory, PTL

(* At first there are neither buffers nor work. *)
LEMMA OwnershipInit == Init => OwnershipInv
<1> SUFFICES ASSUME Init PROVE OwnershipInv
  OBVIOUS
<1>1. /\ current \in Devices /\ blocks = [b \in Numbers |-> NoBlock] /\ queue = [s \in Streams |-> <<>>]
      /\ buffers = [n \in Slots \cup Arrays |-> NoBuffer] /\ forest = NoForest /\ program \in {"buffers", "forest"}
  BY DEF Init, MemoryInit, Numbers
<1>2. NoBlock \in BlockType /\ ~NoBlock.live
  BY DEF NoBlock, BlockType, Contents, Garbage
<1>3. Typed(Now)
  <2>1. <<>> \in Seq(Operation)
    BY EmptySeq
  <2> HIDE DEF NoBlock
  <2> QED
    BY <1>1, <1>2, <2>1 DEF Typed, Now
<1>4. buffers \in Bufs /\ DOMAIN buffers = Slots \cup Arrays /\ \A n \in DOMAIN buffers : buffers[n] = NoBuffer
  BY <1>1 DEF Bufs
<1>5. \A n \in DOMAIN buffers : Held(buffers, n) = Null
  BY <1>4 DEF Held
<1>6. \A s \in Streams, i \in Nat : Freed(Now, s, i) = Null
  BY <1>1, NowFields DEF Freed
<1>7. Ledger(Now, buffers)
  <2>1. \A b \in Numbers : ~Now.blocks[b].live
    BY <1>1, <1>2, NowFields
  <2> QED
    BY <1>3, <1>5, <1>6, <2>1, LedgerFacts
<1>8. Rooted(Now, buffers)
  BY <1>4 DEF Rooted
<1>9. ForestInv
  BY <1>1, <1>4 DEF ForestInv
<1> QED
  BY <1>1, <1>3, <1>4, <1>7, <1>8, <1>9, OwnershipMemory DEF MemoryInv

(* One case for each action. *)
LEMMA OwnershipNext == OwnershipInv /\ [Next]_vars => OwnershipInv'
<1> SUFFICES ASSUME OwnershipInv, [Next]_vars PROVE OwnershipInv'
  OBVIOUS
<1>0. MemoryInv /\ ForestInv
  BY OwnershipMemory
<1>1. ASSUME program = "buffers", UseBuffers, UNCHANGED forestVars PROVE OwnershipInv'
  <2>1. OwnBuffers
    BY <1>0, <1>1, MemoryAssumption DEF OwnBuffers, ForestInv
  <2>2. MemoryInv' /\ \A a \in Arrays : buffers'[a] = NoBuffer
    BY <1>1, <2>1, UseBuffersKeeps
  <2>3. ForestInv'
    BY <1>0, <1>1, <2>2 DEF ForestInv, forestVars
  <2> QED
    BY <2>2, <2>3, OwnershipMemory, PTL
<1>2. ASSUME UseForest PROVE OwnershipInv'
  BY <1>2, ImportKeeps, PredictKeeps, DestroyForestKeeps DEF UseForest
<1>3. ASSUME NEW s \in Streams, Run(s), UNCHANGED forestVars PROVE OwnershipInv'
  <2>1. MemoryInv'
    BY <1>0, <1>3, RunKeeps
  <2>2. ForestInv'
    BY <1>0, <1>3 DEF ForestInv, forestVars, Run, IsArray
  <2> QED
    BY <2>1, <2>2, OwnershipMemory, PTL
<1>4. ASSUME NEW d \in Devices, SetDevice(d), UNCHANGED forestVars PROVE OwnershipInv'
  <2>1. Now' = Now /\ buffers' = buffers /\ current' \in Devices
    BY <1>4 DEF SetDevice, Now
  <2>2. MemoryInv'
    BY <1>0, <2>1, Restated DEF MemoryInv
  <2>3. ForestInv'
    BY <1>0, <1>4, <2>1 DEF ForestInv, forestVars, IsArray
  <2> QED
    BY <2>2, <2>3, OwnershipMemory, PTL
<1>5. ASSUME UNCHANGED vars PROVE OwnershipInv'
  <2>1. Now' = Now /\ buffers' = buffers /\ current' \in Devices
    BY <1>0, <1>5 DEF vars, memoryVars, Now, MemoryInv
  <2>2. MemoryInv'
    BY <1>0, <2>1, Restated DEF MemoryInv
  <2>3. ForestInv'
    BY <1>0, <1>5, <2>1 DEF ForestInv, vars, forestVars, IsArray
  <2> QED
    BY <2>2, <2>3, OwnershipMemory, PTL
<1> QED
  BY <1>1, <1>2, <1>3, <1>4, <1>5 DEF Next

(* Ownership of memory is in order: a block is live if and only if one buffer
   or one release that waits holds it, buffers point to what they or others
   hold, and a forest has the arrays of its shape. *)
THEOREM OwnershipInvariant == Spec => []OwnershipInv
<1>1. Init => OwnershipInv
  BY OwnershipInit
<1>2. OwnershipInv /\ [Next]_vars => OwnershipInv'
  BY OwnershipNext
<1> QED
  BY <1>1, <1>2, PTL DEF Spec

(* The address a buffer has cached is that of live memory of its kind and on
   its device, unless the buffer was moved from: no sequence of copies, moves,
   assignments, swaps and destructions of buffers, imports that succeed or
   throw, and work of streams leaves a buffer that is used with an address that
   was released. *)
THEOREM PointersAreValid == Spec => []PointerValid
<1>1. OwnershipInv => PointerValid
  <2> SUFFICES ASSUME OwnershipInv, NEW n \in DOMAIN buffers, Usable(n)
               PROVE  /\ blocks[buffers[n].cached_ptr].live
                      /\ blocks[buffers[n].cached_ptr].mem = buffers[n].mem
                      /\ blocks[buffers[n].cached_ptr].mem = "gpu" =>
                           blocks[buffers[n].cached_ptr].device = buffers[n].device
    BY DEF PointerValid
  <2>1. MemoryInv
    BY OwnershipMemory
  <2> QED
    BY <2>1, UsableBlock
<1> QED
  BY <1>1, OwnershipInvariant, PTL

(* Owners of a block and entries that free it, as the ledger counts them. *)
LEMMA OwnersAndFrees ==
  ASSUME MemoryInv, NEW b \in Numbers
  PROVE  /\ \A n : n \in Owners(b) <=> n \in DOMAIN buffers /\ Held(buffers, n) = b
         /\ \A x : x \in Frees(b) <=> \E s \in Streams, i \in Nat : x = <<s, i>> /\ Freed(Now, s, i) = b
<1>1. b # Null
  BY Apart
<1>2. \A n : n \in Owners(b) <=> n \in DOMAIN buffers /\ Held(buffers, n) = b
  BY <1>1 DEF Owners, Held, Present
<1>3. \A s \in Streams : DOMAIN queue[s] \subseteq Nat
  BY MemoryFields, NowFields DEF MemoryInv
<1>4. \A s \in Streams : \A i : i \in FreesIn(s, b) <=> i \in Nat /\ Freed(Now, s, i) = b
  BY <1>1, <1>3, NowFields DEF FreesIn, Freed
<1>5. \A x : x \in Frees(b) <=> \E s \in Streams : \E i \in FreesIn(s, b) : x = <<s, i>>
  BY DEF Frees
<1> QED
  BY <1>2, <1>4, <1>5

(* Every live block has one owner, which is a buffer or a release that waits in
   a stream, and no other block has any: nothing is leaked and nothing is freed
   twice, whatever constructor or assignment a buffer goes through and whether
   or not an import throws half way. *)
THEOREM OneOwnerEach == Spec => []OneOwner
<1>1. OwnershipInv => OneOwner
  <2> SUFFICES ASSUME OwnershipInv, NEW b \in DOMAIN blocks
               PROVE  Cardinality(Owners(b)) + Cardinality(Frees(b)) = IF blocks[b].live THEN 1 ELSE 0
    BY DEF OneOwner
  <2>1. MemoryInv /\ Typed(Now) /\ Ledger(Now, buffers) /\ blocks \in [Numbers -> BlockType]
    BY OwnershipMemory, MemoryFields, NowFields DEF MemoryInv
  <2>2. b \in Numbers
    BY <2>1
  <2>3. /\ \A n : n \in Owners(b) <=> n \in DOMAIN buffers /\ Held(buffers, n) = b
        /\ \A x : x \in Frees(b) <=> \E s \in Streams, i \in Nat : x = <<s, i>> /\ Freed(Now, s, i) = b
    BY <2>1, <2>2, OwnersAndFrees
  <2>4. /\ \A n \in DOMAIN buffers : Held(buffers, n) # Null => blocks[Held(buffers, n)].live
        /\ \A s \in Streams, i \in Nat : Freed(Now, s, i) # Null => blocks[Freed(Now, s, i)].live
        /\ blocks[b].live =>
             \/ \E n \in DOMAIN buffers : Held(buffers, n) = b
             \/ \E s \in Streams, i \in Nat : Freed(Now, s, i) = b
        /\ \A n, k \in DOMAIN buffers : Held(buffers, n) = Held(buffers, k) /\ n # k => Held(buffers, n) = Null
        /\ \A n \in DOMAIN buffers, s \in Streams, i \in Nat :
             Held(buffers, n) = Freed(Now, s, i) => Held(buffers, n) = Null
        /\ \A s, t \in Streams, i, j \in Nat :
             Freed(Now, s, i) = Freed(Now, t, j) /\ <<s, i>> # <<t, j>> => Freed(Now, s, i) = Null
    BY <2>1, <2>2, LedgerFacts, NowFields
  <2>5. b # Null
    BY <2>2, Apart
  <2> HIDE DEF Owners, Frees, Held, Freed
  <2>6. Cardinality({}) = 0 /\ \A x : Cardinality({x}) = 1
    BY FS_EmptySet, FS_Singleton
  <2>7. CASE ~blocks[b].live
    <3>1. Owners(b) = {} /\ Frees(b) = {}
      BY <2>3, <2>4, <2>5, <2>7
    <3> QED
      BY <2>6, <2>7, <3>1
  <2>8. ASSUME NEW n \in DOMAIN buffers, Held(buffers, n) = b, blocks[b].live
        PROVE  Owners(b) = {n} /\ Frees(b) = {}
    <3>1. \A k \in DOMAIN buffers : Held(buffers, k) = b => k = n
      BY <2>4, <2>5, <2>8
    <3>2. \A s \in Streams, i \in Nat : Freed(Now, s, i) # b
      BY <2>4, <2>5, <2>8
    <3> QED
      BY <2>3, <2>8, <3>1, <3>2
  <2>9. ASSUME NEW s \in Streams, NEW i \in Nat, Freed(Now, s, i) = b, blocks[b].live
        PROVE  Owners(b) = {} /\ Frees(b) = {<<s, i>>}
    <3>1. \A k \in DOMAIN buffers : Held(buffers, k) # b
      BY <2>4, <2>5, <2>9
    <3>2. \A t \in Streams, j \in Nat : Freed(Now, t, j) = b => <<t, j>> = <<s, i>>
      BY <2>4, <2>5, <2>9
    <3>3. Owners(b) = {}
      BY <2>3, <3>1
    <3>4. \A x : x \in Frees(b) <=> x = <<s, i>>
      BY <2>3, <2>9, <3>2
    <3> QED
      BY <3>3, <3>4
  <2>10. CASE blocks[b].live
    <3>1. CASE \E n \in DOMAIN buffers : Held(buffers, n) = b
      <4>1. PICK n \in DOMAIN buffers : Held(buffers, n) = b
        BY <3>1
      <4>2. Owners(b) = {n} /\ Frees(b) = {}
        BY <2>8, <2>10, <4>1
      <4>3. Cardinality(Owners(b)) = 1 /\ Cardinality(Frees(b)) = 0
        BY <2>6, <4>2
      <4> QED
        BY <2>10, <4>3
    <3>2. CASE \E s \in Streams, i \in Nat : Freed(Now, s, i) = b
      <4>1. PICK s \in Streams, i \in Nat : Freed(Now, s, i) = b
        BY <3>2
      <4>2. Owners(b) = {} /\ Frees(b) = {<<s, i>>}
        BY <2>9, <2>10, <4>1
      <4>3. Cardinality(Owners(b)) = 0 /\ Cardinality(Frees(b)) = 1
        BY <2>6, <4>2
      <4> QED
        BY <2>10, <4>3
    <3> QED
      BY <2>4, <2>10, <3>1, <3>2
  <2> QED
    BY <2>7, <2>10
<1> QED
  BY <1>1, OwnershipInvariant, PTL

-----------------------------------------------------------------------------
(* Inferences that wait *)

(* The streams with an inference that reads b. *)
ReadsIt(m, b, s, i) ==
  m.queue[s][i].do = "infer" /\ \E a \in DOMAIN m.queue[s][i].reads : m.queue[s][i].reads[a] = b
Readers(m, b) == {s \in Streams : \E i \in DOMAIN m.queue[s] : ReadsIt(m, b, s, i)}
NoNewReaders(m, m2) == \A b : Readers(m2, b) \subseteq Readers(m, b)
StillAtEnd(m, m2, but) == \A b \in Numbers \ but, s \in Streams : AtEnd(m, b, s) => AtEnd(m2, b, s)

(* What an inference reads is a block. *)
LEMMA ReadsBlocks ==
  ASSUME NEW m, Typed(m), NEW s \in Streams, NEW i \in DOMAIN m.queue[s], m.queue[s][i].do = "infer",
         NEW a \in DOMAIN m.queue[s][i].reads
  PROVE  m.queue[s][i].reads[a] \in Numbers /\ s \in Readers(m, m.queue[s][i].reads[a]) /\ i \in Nat
<1>1. m.queue[s][i] \in Operation /\ i \in Nat
  BY MemoryFields
<1>2. m.queue[s][i].reads[a] \in Numbers
  BY <1>1, OperationForms
<1> QED
  BY <1>1, <1>2 DEF Readers, ReadsIt

(* The queues stay and blocks change that no inference reads, or they come to
   hold the model. *)
LEMMA BlocksChange ==
  ASSUME NEW m, Typed(m), NEW m2, Typed(m2), m2.queue = m.queue, NEW prepared, AllWaitWell(m, prepared),
         NEW b \in Numbers, \A c \in Numbers \ {b} : m2.blocks[c] = m.blocks[c],
         \/ Readers(m, b) = {}
         \/ SamePlaces(m, m2, {}) /\ m2.blocks[b].value = Model
  PROVE  AllWaitWell(m2, prepared) /\ NoNewReaders(m, m2)
<1>2. NoNewReaders(m, m2)
  BY DEF NoNewReaders, Readers, ReadsIt
<1>3. ASSUME NEW s \in Streams, NEW i \in DOMAIN m.queue[s], m.queue[s][i].do = "infer",
             NEW a \in DOMAIN m.queue[s][i].reads, ReadsWell(m, m.queue[s][i].reads[a], s, i)
      PROVE  ReadsWell(m2, m.queue[s][i].reads[a], s, i)
  <2> DEFINE c == m.queue[s][i].reads[a]
  <2>1. c \in Numbers /\ s \in Readers(m, c)
    BY <1>3, ReadsBlocks
  <2> HIDE DEF c
  <2>2. /\ m2.blocks[c].live = m.blocks[c].live /\ m2.blocks[c].mem = m.blocks[c].mem
        /\ m2.blocks[c].device = m.blocks[c].device
        /\ m.blocks[c].value = Model => m2.blocks[c].value = Model
    BY <2>1 DEF SamePlaces
  <2>3. \A t \in Streams : \A j \in DOMAIN m.queue[t] : Freed(m2, t, j) = Freed(m, t, j)
    BY DEF Freed
  <2>4. ReadsWell(m, c, s, i)
    BY <1>3 DEF c
  <2>5. ReadsWell(m2, c, s, i)
    BY <2>2, <2>3, <2>4 DEF ReadsWell, Imported
  <2> QED
    BY <2>5 DEF c
<1>4. AllWaitWell(m2, prepared)
  BY <1>3 DEF AllWaitWell, WaitsWell
<1> QED
  BY <1>2, <1>4

(* All blocks but b hold what they held. *)
LEMMA BlocksChangeEnd ==
  ASSUME NEW m, NEW m2, m2.queue = m.queue, NEW b, \A c \in Numbers \ {b} : m2.blocks[c] = m.blocks[c]
  PROVE  StillAtEnd(m, m2, {b})
  BY DEF StillAtEnd, AtEnd, Imported

(* What an operation asks for to be submitted to stream s. *)
Admitted(m, s, op, prepared) ==
  /\ op.do # "copy"
  /\ op.do = "fill" => op.value = Model
  /\ op.do = "free" => Readers(m, op.to) \subseteq {s}
  /\ op.do = "infer" =>
       /\ op.kernel \in InitializedKernels /\ prepared[s[1]] = InitializedKernels
       /\ \A a \in DOMAIN op.reads :
            LET b == op.reads[a]
            IN  /\ m.blocks[b].live /\ m.blocks[b].mem = "gpu" /\ m.blocks[b].device = s[1]
                /\ AtEnd(m, b, s)
                /\ \A t \in Streams, j \in Nat : Freed(m, t, j) # b

(* The end of a queue moves on. *)
LEMMA SubmittedEnd ==
  ASSUME NEW m, Typed(m), NEW s \in Streams, NEW op \in Operation, NEW m2, m2 = Submit(m, s, op)
  PROVE  /\ StillAtEnd(m, m2, {})
         /\ \A b, t, i : t \in Streams /\ i \in DOMAIN m.queue[t] /\ Imported(m, b, t, i) => Imported(m2, b, t, i)
         /\ \A b : AtEnd(m, b, s) => Imported(m2, b, s, Len(m2.queue[s]))
         /\ op.do = "fill" => AtEnd(m2, op.to, s)
<1>1. /\ Typed(m2) /\ m2.blocks = m.blocks /\ Len(m2.queue[s]) = Len(m.queue[s]) + 1
      /\ m2.queue[s][Len(m.queue[s]) + 1] = op
      /\ \A t \in Streams \ {s} : m2.queue[t] = m.queue[t]
      /\ \A t \in Streams : \A i \in DOMAIN m.queue[t] : i \in DOMAIN m2.queue[t] /\ m2.queue[t][i] = m.queue[t][i]
  BY Submitted
<1>2. /\ \A t \in Streams : DOMAIN m.queue[t] = 1 .. Len(m.queue[t]) /\ Len(m.queue[t]) \in Nat
      /\ \A t \in Streams : DOMAIN m2.queue[t] = 1 .. Len(m2.queue[t]) /\ Len(m2.queue[t]) \in Nat
  BY <1>1, MemoryFields
<1>3. \A b, i : \A t \in Streams : Imported(m, b, t, i) => Imported(m2, b, t, i)
  BY <1>1 DEF Imported
<1>4. \A b : \A t \in Streams : AtEnd(m, b, t) => AtEnd(m2, b, t)
  <2> SUFFICES ASSUME NEW b, NEW t \in Streams, AtEnd(m, b, t) PROVE AtEnd(m2, b, t)
    OBVIOUS
  <2>1. CASE t = s
    BY <1>1, <1>2, <2>1 DEF AtEnd, Imported
  <2>2. CASE t # s
    BY <1>1, <2>2 DEF AtEnd, Imported
  <2> QED
    BY <2>1, <2>2
<1>5. op.do = "fill" => AtEnd(m2, op.to, s)
  <2>1. Len(m2.queue[s]) \in DOMAIN m2.queue[s] /\ Len(m2.queue[s]) < Len(m2.queue[s]) + 1
    BY <1>1, <1>2
  <2> QED
    BY <1>1, <2>1 DEF AtEnd, Imported
<1>6. \A b : AtEnd(m, b, s) => Imported(m2, b, s, Len(m2.queue[s]))
  BY <1>1, <1>3 DEF AtEnd
<1> QED
  BY <1>3, <1>4, <1>5, <1>6 DEF StillAtEnd

(* What is submitted leaves what waits before it as it is. *)
LEMMA SubmittedWaits ==
  ASSUME NEW m, Typed(m), NEW s \in Streams, NEW op \in Operation, NEW m2, m2 = Submit(m, s, op),
         NEW prepared, AllWaitWell(m, prepared), Admitted(m, s, op, prepared)
  PROVE  AllWaitWell(m2, prepared) /\ (op.do # "infer" => NoNewReaders(m, m2))
<1> DEFINE last == Len(m.queue[s]) + 1
<1>1. /\ Typed(m2) /\ m2.blocks = m.blocks /\ Len(m2.queue[s]) = last /\ m2.queue[s][last] = op
      /\ \A t \in Streams \ {s} : m2.queue[t] = m.queue[t]
      /\ \A t \in Streams : \A i \in DOMAIN m.queue[t] : i \in DOMAIN m2.queue[t] /\ m2.queue[t][i] = m.queue[t][i]
  BY Submitted
<1>2. /\ \A t \in Streams : DOMAIN m.queue[t] = 1 .. Len(m.queue[t]) /\ Len(m.queue[t]) \in Nat
      /\ DOMAIN m2.queue[s] = 1 .. last /\ last \in Nat
      /\ \A t \in Streams : DOMAIN m2.queue[t] \subseteq Nat
  BY <1>1, MemoryFields
<1>3. \A t \in Streams : \A i \in DOMAIN m2.queue[t] : i \in DOMAIN m.queue[t] \/ (t = s /\ i = last)
  <2> SUFFICES ASSUME NEW t \in Streams, NEW i \in DOMAIN m2.queue[t], i \notin DOMAIN m.queue[t]
               PROVE  t = s /\ i = last
    OBVIOUS
  <2>1. t = s
    BY <1>1
  <2> QED
    BY <1>2, <2>1
<1>4. /\ \A t \in Streams, i \in Nat : <<t, i>> # <<s, last>> => Freed(m2, t, i) = Freed(m, t, i)
      /\ Freed(m2, s, last) = IF op.do = "free" THEN op.to ELSE Null
  BY SubmittedFrees
<1>5. \A b, t, i : t \in Streams /\ i \in DOMAIN m.queue[t] /\ Imported(m, b, t, i) => Imported(m2, b, t, i)
  BY SubmittedEnd
<1>6. \A b : AtEnd(m, b, s) => Imported(m2, b, s, last)
  BY <1>1, SubmittedEnd
<1> HIDE DEF last
<1>7. ASSUME NEW t \in Streams, NEW i \in DOMAIN m.queue[t], m.queue[t][i].do = "infer",
             NEW a \in DOMAIN m.queue[t][i].reads, ReadsWell(m, m.queue[t][i].reads[a], t, i)
      PROVE  ReadsWell(m2, m.queue[t][i].reads[a], t, i)
  <2> DEFINE b == m.queue[t][i].reads[a]
  <2>1. b \in Numbers /\ t \in Readers(m, b) /\ i \in Nat /\ b # Null
    BY <1>7, ReadsBlocks, Apart
  <2>2. ReadsWell(m, b, t, i)
    BY <1>7
  <2> HIDE DEF b
  <2>3. Imported(m2, b, t, i)
    BY <1>5, <2>2 DEF ReadsWell
  <2>4. ASSUME NEW u \in Streams, NEW j \in DOMAIN m2.queue[u], Freed(m2, u, j) = b
        PROVE  u = t /\ i < j
    <3>1. CASE j \in DOMAIN m.queue[u] /\ <<u, j>> # <<s, last>>
      BY <1>2, <1>4, <2>2, <2>4, <3>1 DEF ReadsWell
    <3>2. CASE u = s /\ j = last
      <4>1. op.do = "free" /\ op.to = b
        BY <1>4, <2>1, <2>4, <3>2
      <4>2. t = s
        BY <2>1, <4>1 DEF Admitted
      <4>3. i < last
        BY <1>2, <4>2 DEF last
      <4> QED
        BY <3>2, <4>2, <4>3
    <3> QED
      BY <1>3, <3>1, <3>2
  <2>5. ReadsWell(m2, b, t, i)
    BY <1>1, <2>2, <2>3, <2>4 DEF ReadsWell
  <2> QED
    BY <2>5 DEF b
<1>8. ASSUME op.do = "infer", NEW a \in DOMAIN op.reads
      PROVE  ReadsWell(m2, op.reads[a], s, last)
  <2> DEFINE b == op.reads[a]
  <2>1. /\ m.blocks[b].live /\ m.blocks[b].mem = "gpu" /\ m.blocks[b].device = s[1]
        /\ AtEnd(m, b, s) /\ \A t \in Streams, j \in Nat : Freed(m, t, j) # b
    BY <1>8 DEF Admitted
  <2>2. b # Null
    BY <1>8, OperationForms, Apart
  <2> HIDE DEF b
  <2>3. \A t \in Streams : \A j \in DOMAIN m2.queue[t] : Freed(m2, t, j) # b
    BY <1>2, <1>4, <1>8, <2>1, <2>2
  <2>4. ReadsWell(m2, b, s, last)
    BY <1>1, <1>6, <2>1, <2>3 DEF ReadsWell
  <2> QED
    BY <2>4 DEF b
<1>9. AllWaitWell(m2, prepared)
  <2> SUFFICES ASSUME NEW t \in Streams, NEW i \in DOMAIN m2.queue[t] PROVE WaitsWell(m2, t, i, prepared)
    BY DEF AllWaitWell
  <2>1. CASE i \in DOMAIN m.queue[t]
    <3>1. WaitsWell(m, t, i, prepared) /\ m2.queue[t][i] = m.queue[t][i]
      BY <1>1, <2>1 DEF AllWaitWell
    <3> QED
      BY <1>7, <2>1, <3>1 DEF WaitsWell
  <2>2. CASE t = s /\ i = last
    BY <1>1, <1>8, <2>2 DEF WaitsWell, Admitted
  <2> QED
    BY <1>3, <2>1, <2>2
<1>10. op.do # "infer" => NoNewReaders(m, m2)
  <2> SUFFICES ASSUME op.do # "infer", NEW b, NEW t \in Streams,
                      NEW i \in DOMAIN m2.queue[t], ReadsIt(m2, b, t, i)
               PROVE  i \in DOMAIN m.queue[t] /\ ReadsIt(m, b, t, i)
    BY DEF NoNewReaders, Readers
  <2>1. i \in DOMAIN m.queue[t]
    BY <1>1, <1>3 DEF ReadsIt
  <2>2. m2.queue[t][i] = m.queue[t][i]
    BY <1>1, <2>1
  <2> QED
    BY <2>1, <2>2 DEF ReadsIt
<1> QED
  BY <1>9, <1>10

(* Arrays can be destroyed: only the stream that will free one may have an
   inference left that reads it. *)
Clean(r, v, prepared) ==
  /\ AllWaitWell(r.memory, prepared)
  /\ v # Null => Readers(r.memory, v) = {}
  /\ \A a \in Arrays : r.buffers[a] # NoBuffer =>
       Readers(r.memory, r.buffers[a].data) \subseteq
         IF r.buffers[a].mem = "gpu" THEN {r.buffers[a].stream} ELSE {}

(* An array is destroyed, now or after the inferences that read it. *)
LEMMA WithoutArrayWaits ==
  ASSUME NEW r, NEW v \in Numbers \cup {Null}, Building(r, v), NEW a \in Arrays,
         NEW prepared, Clean(r, v, prepared), NEW r2, r2 = WithoutArray(r, a)
  PROVE  Clean(r2, v, prepared)
<1> DEFINE m == r.memory
           m2 == r2.memory
           x == r.buffers[a]
           b == x.data
<1>1. m2 = Destroyed(m, x) /\ r2.buffers = [r.buffers EXCEPT ![a] = NoBuffer]
  BY DEF WithoutArray
<1>2. Typed(m) /\ Typed(m2) /\ DOMAIN r.buffers = Slots \cup Arrays /\ x \in BufferType \cup {NoBuffer}
  <2>1. Building(r2, v)
    BY WithoutArrayKeeps
  <2> QED
    BY <2>1, BuildingPlaces, HeldNumber DEF Building
<1>3. AllWaitWell(m, prepared)
  BY DEF Clean
<1>4. AllWaitWell(m2, prepared) /\ NoNewReaders(m, m2)
  <2>1. CASE x = NoBuffer \/ ~x.owns \/ b = Null
    <3>1. m2 = m
      BY <1>1, <2>1 DEF Destroyed
    <3> QED
      BY <1>3, <3>1 DEF NoNewReaders
  <2>2. CASE ~(x = NoBuffer \/ ~x.owns \/ b = Null)
    <3>1. /\ b \in Numbers /\ x.mem \in {"cpu", "gpu"} /\ (x.mem = "gpu" => x.stream \in Streams)
      BY <1>2, <2>2 DEF BufferType
    <3>2. Readers(m, b) \subseteq IF x.mem = "gpu" THEN {x.stream} ELSE {}
      BY <2>2 DEF Clean
    <3>3. CASE x.mem = "cpu"
      <4>1. m2 = WithBlock(m, b, NoBlock)
        BY <1>1, <2>2, <3>3 DEF Destroyed, WithBlock
      <4>2. NoBlock \in BlockType
        BY DEF NoBlock, BlockType, Contents, Garbage
      <4> HIDE DEF m, m2, b
      <4>3. BlockPut(m, b, NoBlock, m2)
        BY <1>2, <3>1, <4>1, <4>2, BlockChanged
      <4>4. m2.queue = m.queue /\ \A c \in Numbers \ {b} : m2.blocks[c] = m.blocks[c]
        BY <4>3 DEF BlockPut
      <4> QED
        BY <1>2, <1>3, <3>1, <3>2, <3>3, <4>4, BlocksChange
    <3>4. CASE x.mem = "gpu"
      <4> DEFINE op == [do |-> "free", to |-> b]
                 s == x.stream
      <4>1. m2 = Submit(m, s, op)
        BY <1>1, <2>2, <3>4 DEF Destroyed
      <4>2. op \in Operation /\ op.do = "free" /\ op.to = b
        BY <3>1 DEF Operation
      <4>3. s \in Streams /\ Readers(m, b) \subseteq {s}
        BY <3>1, <3>2, <3>4
      <4> HIDE DEF m, m2, b, op, s
      <4>4. Admitted(m, s, op, prepared)
        BY <4>2, <4>3 DEF Admitted
      <4> QED
        BY <1>2, <1>3, <4>1, <4>2, <4>3, <4>4, SubmittedWaits
    <3> QED
      BY <3>1, <3>3, <3>4
  <2> QED
    BY <2>1, <2>2
<1> HIDE DEF m2, x
<1>5. \A c \in Arrays : r2.buffers[c] # NoBuffer => r2.buffers[c] = r.buffers[c]
  BY <1>1, <1>2
<1>6. v # Null => Readers(m2, v) = {}
  BY <1>4 DEF Clean, NoNewReaders
<1>7. \A c \in Arrays : r2.buffers[c] # NoBuffer =>
        Readers(m2, r2.buffers[c].data) \subseteq
          IF r2.buffers[c].mem = "gpu" THEN {r2.buffers[c].stream} ELSE {}
  BY <1>4, <1>5 DEF Clean, NoNewReaders
<1> QED
  BY <1>4, <1>6, <1>7 DEF Clean, m2

(* All of them. *)
LEMMA WithoutWaits ==
  ASSUME NEW r, NEW v \in Numbers \cup {Null}, Building(r, v), NEW names,
         NEW prepared, Clean(r, v, prepared), NEW r2, r2 = Without(r, names)
  PROVE  Clean(r2, v, prepared)
<1> DEFINE without(q, a) == IF a \in names THEN WithoutArray(q, a) ELSE q
           q1 == without(r, "categorical_storage")
           q2 == without(q1, "vector_output")
           q3 == without(q2, "nodes")
<1>1. "nodes" \in Arrays /\ "vector_output" \in Arrays /\ "categorical_storage" \in Arrays
  BY LifetimeAssumption
<1>2. ASSUME NEW q, Building(q, v), Clean(q, v, prepared), NEW a \in Arrays
      PROVE  Building(without(q, a), v) /\ Clean(without(q, a), v, prepared)
  <2>1. CASE a \in names
    BY <1>2, <2>1, WithoutArrayKeeps, WithoutArrayWaits
  <2>2. CASE a \notin names
    BY <1>2, <2>2
  <2> QED
    BY <2>1, <2>2
<1>3. r2 = q3
  BY DEF Without
<1> HIDE DEF without
<1>4. Building(q1, v) /\ Clean(q1, v, prepared)
  BY <1>1, <1>2
<1> HIDE DEF q1
<1>5. Building(q2, v) /\ Clean(q2, v, prepared)
  BY <1>1, <1>2, <1>4
<1> HIDE DEF q2
<1>6. Clean(q3, v, prepared)
  BY <1>1, <1>2, <1>5
<1> QED
  BY <1>3, <1>6

(* Arrays are being made from vectors v, which no inference reads. *)
Importing(r, v, prepared) ==
  /\ AllWaitWell(r.memory, prepared)
  /\ Readers(r.memory, v) = {} /\ r.memory.blocks[v].value = Model
  /\ \A a \in Arrays : r.buffers[a] # NoBuffer =>
       Readers(r.memory, r.buffers[a].data) = {} /\ ArrayImported(r.memory, r.buffers[a])

(* Memory m2 is m with the model in b, now or at the end of stream s. *)
HoldsModel(m, m2, b, mem, s, prepared) ==
  /\ Typed(m2) /\ AllWaitWell(m2, prepared) /\ NoNewReaders(m, m2) /\ StillAtEnd(m, m2, {b})
  /\ \A c \in Numbers \ {b} : m2.blocks[c] = m.blocks[c]
  /\ IF mem = "cpu" THEN m2.blocks[b].value = Model ELSE AtEnd(m2, b, s)

(* An unused block comes to hold the model, now or at the end of a stream. *)
LEMMA ModelCopied ==
  ASSUME NEW m, Typed(m), NEW v \in Numbers, m.blocks[v].mem = "cpu", m.blocks[v].value = Model,
         NEW b \in Numbers \ {v}, Readers(m, b) = {}, NEW mem, NEW device, ImportPlace(mem, device),
         NEW stream, NEW s \in Streams, mem = "gpu" => Resolve(stream) = s,
         NEW prepared, AllWaitWell(m, prepared),
         NEW m2, m2 = Copied(WithBlock(m, b, Block(mem, device, Garbage)), v, b, stream)
  PROVE  HoldsModel(m, m2, b, mem, s, prepared)
<1> DEFINE y == Block(mem, device, Garbage)
           m1 == WithBlock(m, b, y)
<1>1. y \in BlockType /\ y.mem = mem /\ mem \in {"cpu", "gpu"}
  BY DEF Block, BlockType, Contents, ImportPlace
<1>2. BlockPut(m, b, y, m1)
  BY <1>1, BlockChanged
<1>3. m2 = Copied(m1, v, b, stream)
  OBVIOUS
<1> HIDE DEF m1, y
<1>4. /\ Typed(m1) /\ m1.queue = m.queue /\ m1.blocks[b] = y
      /\ \A c \in Numbers \ {b} : m1.blocks[c] = m.blocks[c]
  BY <1>2 DEF BlockPut
<1>5. AllWaitWell(m1, prepared) /\ NoNewReaders(m, m1) /\ StillAtEnd(m, m1, {b})
  BY <1>4, BlocksChange, BlocksChangeEnd
<1>6. m1.blocks[v].mem = "cpu" /\ m1.blocks[v].value = Model /\ Model \in Contents
  BY <1>4 DEF Contents, Model
<1>7. CASE mem = "cpu"
  <2>1. m2 = WithValue(m1, b, Model)
    BY <1>1, <1>3, <1>4, <1>6, <1>7 DEF Copied, WithValue
  <2>2. /\ Typed(m2) /\ m2.queue = m1.queue /\ SamePlaces(m1, m2, {}) /\ m2.blocks[b].value = Model
        /\ \A c \in Numbers \ {b} : m2.blocks[c] = m1.blocks[c]
    BY <1>4, <1>6, <2>1, ValueChanged
  <2>3. AllWaitWell(m2, prepared) /\ NoNewReaders(m1, m2)
    <3>1. AllWaitWell(m1, prepared) /\ Typed(m1) /\ b \in Numbers
      BY <1>4, <1>5
    <3> QED
      BY <2>2, <3>1, BlocksChange
  <2>4. StillAtEnd(m1, m2, {b})
    BY <2>2, BlocksChangeEnd
  <2> QED
    BY <1>4, <1>5, <1>7, <2>2, <2>3, <2>4 DEF HoldsModel, NoNewReaders, StillAtEnd
<1>8. CASE mem = "gpu"
  <2> DEFINE op == [do |-> "fill", to |-> b, value |-> Model]
  <2>1. m2 = Submit(m1, s, op)
    BY <1>1, <1>3, <1>4, <1>6, <1>8 DEF Copied
  <2>2. op \in Operation /\ op.do = "fill" /\ op.to = b /\ op.value = Model
    BY <1>6 DEF Operation
  <2> HIDE DEF op
  <2>3. Admitted(m1, s, op, prepared)
    BY <2>2 DEF Admitted
  <2>4. AllWaitWell(m2, prepared) /\ NoNewReaders(m1, m2)
    BY <1>4, <1>5, <2>1, <2>2, <2>3, SubmittedWaits
  <2>5. StillAtEnd(m1, m2, {}) /\ AtEnd(m2, b, s)
    BY <1>4, <2>1, <2>2, SubmittedEnd
  <2>6. Typed(m2) /\ m2.blocks = m1.blocks
    BY <1>4, <2>1, <2>2, Submitted
  <2> QED
    BY <1>4, <1>5, <1>8, <2>4, <2>5, <2>6 DEF HoldsModel, NoNewReaders, StillAtEnd
<1> QED
  BY <1>1, <1>7, <1>8

(* What is not mentioned in a queue is not read. *)
LEMMA UnusedUnread ==
  ASSUME NEW m, Typed(m), NEW bufs, NEW b \in Unused(m, bufs)
  PROVE  Readers(m, b) = {}
  BY DEF Unused, MentionedBy, Readers, ReadsIt

(* The arrays of a builder hold what they are to hold, and no inference reads
   them yet. *)
LEMMA WithArrayImports ==
  ASSUME NEW r, NEW v \in Numbers, Building(r, v), NEW a \in Arrays, r.buffers[a] = NoBuffer,
         Unused(r.memory, r.buffers) # {}, NEW mem, NEW device, ImportPlace(mem, device),
         NEW stream \in Streams \cup {Default}, current \in Devices,
         mem = "gpu" => Resolve(stream) = StreamOf(device, stream),
         NEW prepared, Importing(r, v, prepared),
         NEW r2, r2 = WithArray(r, a, v, mem, device, stream)
  PROVE  Importing(r2, v, prepared)
<1> DEFINE m == r.memory
           bufs == r.buffers
           b == Next1(Unused(m, bufs))
           x == Owning(mem, device, b, stream)
           m2 == r2.memory
           s == Resolve(stream)
<1>1. b \in Unused(m, bufs) /\ b \in Numbers /\ ~m.blocks[b].live
      /\ \A n \in DOMAIN bufs : bufs[n] # NoBuffer => bufs[n].data # b
  <2> HIDE DEF m, bufs
  <2> QED
    BY UnusedBlock DEF m, bufs
<1>2. /\ Typed(m) /\ m.blocks[v].live /\ m.blocks[v].mem = "cpu" /\ DOMAIN bufs = Slots \cup Arrays
      /\ bufs \in Bufs /\ OnlyOwners(bufs) /\ Rooted(Hidden(m, v), bufs)
  BY Apart, HeldNumber DEF Building
<1>3. Readers(m, b) = {} /\ b # v /\ s \in Streams
  BY <1>1, <1>2, UnusedUnread, Resolved
<1>4. x \in BufferType /\ r2.buffers = [bufs EXCEPT ![a] = x]
  BY WithArrayKeeps
<1>5. m2 = CopyTo(m, View("cpu", 0, v), mem, device, b, stream).memory
  <2>1. b = Next1(Unused(r.memory, r.buffers)) /\ b \in Numbers /\ Owning(mem, device, b, stream) \in BufferType
    BY <1>1, <1>4
  <2> HIDE DEF b
  <2>2. CopiedIn(r, v, a, mem, device, stream, b)
    BY <2>1, WithArrayCopies
  <2> QED
    BY <2>2 DEF CopiedIn
<1>6. m2 = Copied(WithBlock(m, b, Block(mem, device, Garbage)), v, b, stream)
  BY <1>5 DEF CopyTo, View, WithBlock
<1>7. x.mem = mem /\ x.data = b /\ (mem = "gpu" => x.stream = s)
  BY DEF Owning, StreamOf
<1>8. AllWaitWell(m, prepared) /\ m.blocks[v].value = Model
  BY DEF Importing
<1> HIDE DEF m, m2, b, s, x
<1>9. /\ Typed(m2) /\ AllWaitWell(m2, prepared) /\ NoNewReaders(m, m2) /\ StillAtEnd(m, m2, {b})
      /\ \A c \in Numbers \ {b} : m2.blocks[c] = m.blocks[c]
      /\ IF mem = "cpu" THEN m2.blocks[b].value = Model ELSE AtEnd(m2, b, s)
  <2>1. b \in Numbers \ {v} /\ (mem = "gpu" => Resolve(stream) = s)
    BY <1>1, <1>3 DEF s
  <2>2. HoldsModel(m, m2, b, mem, s, prepared)
    BY <1>2, <1>3, <1>6, <1>8, <2>1, ModelCopied
  <2> QED
    BY <2>2 DEF HoldsModel
<1>10. ArrayImported(m2, x) /\ Readers(m2, x.data) = {}
  BY <1>3, <1>7, <1>9 DEF ArrayImported, ImportPlace, NoNewReaders
<1>11. ASSUME NEW c \in Arrays \ {a}, bufs[c] # NoBuffer
       PROVE  Readers(m2, bufs[c].data) = {} /\ ArrayImported(m2, bufs[c])
  <2> DEFINE y == bufs[c]
  <2>1. /\ y \in BufferType /\ y.data # Null /\ y.data # b
        /\ Readers(m, y.data) = {} /\ ArrayImported(m, y)
    <3>1. c \in DOMAIN bufs /\ bufs[c] \in BufferType
      BY <1>2, <1>11 DEF Bufs
    <3>2. bufs[c].data # Null
      BY <1>2, <1>11, <3>1 DEF OnlyOwners, Rooted
    <3>3. Readers(m, bufs[c].data) = {} /\ ArrayImported(m, bufs[c])
      BY <1>11 DEF Importing, m
    <3> QED
      BY <1>1, <1>11, <3>1, <3>2, <3>3
  <2> HIDE DEF y
  <2>2. y.data \in Numbers \ {b} /\ (y.mem # "cpu" => y.stream \in Streams \/ ~y.owns)
    BY <2>1 DEF BufferType
  <2>3. y.owns
    BY <1>2, <1>11 DEF OnlyOwners, y
  <2>4. ArrayImported(m2, y)
    BY <1>9, <2>1, <2>2, <2>3 DEF ArrayImported, StillAtEnd
  <2>5. Readers(m2, y.data) = {}
    BY <1>9, <2>1 DEF NoNewReaders
  <2> QED
    BY <2>4, <2>5 DEF y
<1>12. \A c \in Arrays : r2.buffers[c] # NoBuffer =>
         Readers(m2, r2.buffers[c].data) = {} /\ ArrayImported(m2, r2.buffers[c])
  BY <1>2, <1>4, <1>10, <1>11
<1>13. Readers(m2, v) = {} /\ m2.blocks[v].value = Model
  BY <1>3, <1>8, <1>9 DEF Importing, NoNewReaders, m
<1> QED
  BY <1>9, <1>12, <1>13 DEF Importing, m2

(* One array after the other, as MakingNext. *)
LEMMA ImportingNext ==
  ASSUME NEW r, NEW v \in Numbers, NEW mem, NEW device, ImportPlace(mem, device),
         NEW stream \in Streams \cup {Default}, current \in Devices,
         mem = "gpu" => Resolve(stream) = StreamOf(device, stream),
         NEW names \in SUBSET Arrays, NEW past, NEW a \in Arrays \ past,
         Making(r, v, mem, device, stream, names \cap past, Cardinality(names \ past)),
         NEW prepared, Importing(r, v, prepared),
         NEW r2, r2 = IF a \in names THEN WithArray(r, a, v, mem, device, stream) ELSE r
  PROVE  Importing(r2, v, prepared)
<1>1. CASE a \in names
  <2> DEFINE U == Unused(r.memory, r.buffers)
             left == Cardinality(names \ past)
  <2>1. left \in Nat \ {0}
    BY <1>1, LeftToMake
  <2>2. Cardinality(U) >= left /\ Building(r, v) /\ r.buffers[a] = NoBuffer
    BY DEF Making
  <2>3. U # {}
    <3>1. Cardinality(U) \in Nat
      BY UnusedFinite
    <3> HIDE DEF U, left
    <3> QED
      BY <2>1, <2>2, <3>1, FS_EmptySet
  <2>4. r2 = WithArray(r, a, v, mem, device, stream)
    BY <1>1
  <2> QED
    BY <2>2, <2>3, <2>4, WithArrayImports
<1>2. CASE a \notin names
  <2>1. r2 = r
    BY <1>2
  <2> QED
    BY <2>1
<1> QED
  BY <1>1, <1>2

(* All arrays hold what they are to hold. *)
LEMMA WithArraysImports ==
  ASSUME NEW r, NEW v \in Numbers, NEW mem, NEW device, ImportPlace(mem, device),
         NEW stream \in Streams \cup {Default}, current \in Devices,
         mem = "gpu" => Resolve(stream) = StreamOf(device, stream),
         NEW names \in SUBSET Arrays, Making(r, v, mem, device, stream, {}, Cardinality(names)),
         NEW prepared, Importing(r, v, prepared),
         NEW r2, r2 = WithArrays(r, names, v, mem, device, stream)
  PROVE  Importing(r2, v, prepared)
<1> DEFINE with(q, a) == IF a \in names THEN WithArray(q, a, v, mem, device, stream) ELSE q
           q1 == with(r, "nodes")
           q2 == with(q1, "vector_output")
           q3 == with(q2, "categorical_storage")
           p1 == {} \cup {"nodes"}
           p2 == p1 \cup {"vector_output"}
<1>1. "nodes" \in Arrays \ {} /\ "vector_output" \in Arrays \ p1 /\ "categorical_storage" \in Arrays \ p2
  BY LifetimeAssumption
<1>2. r2 = q3
  BY DEF WithArrays
<1>3. Making(r, v, mem, device, stream, names \cap {}, Cardinality(names \ {}))
  <2>1. names \cap {} = {} /\ names \ {} = names
    OBVIOUS
  <2> QED
    BY <2>1
<1>4. /\ q1 = IF "nodes" \in names THEN WithArray(r, "nodes", v, mem, device, stream) ELSE r
      /\ q2 = IF "vector_output" \in names THEN WithArray(q1, "vector_output", v, mem, device, stream) ELSE q1
      /\ q3 = IF "categorical_storage" \in names
              THEN WithArray(q2, "categorical_storage", v, mem, device, stream) ELSE q2
  OBVIOUS
<1> HIDE DEF q1, q2, q3
<1>5. Making(q1, v, mem, device, stream, names \cap p1, Cardinality(names \ p1))
  BY <1>1, <1>3, <1>4, MakingNext
<1>6. Importing(q1, v, prepared)
  BY <1>1, <1>3, <1>4, ImportingNext
<1> HIDE DEF p1
<1>7. Making(q2, v, mem, device, stream, names \cap p2, Cardinality(names \ p2))
  BY <1>1, <1>4, <1>5, MakingNext
<1>8. Importing(q2, v, prepared)
  BY <1>1, <1>4, <1>5, <1>6, ImportingNext
<1> HIDE DEF p2
<1>9. Importing(q3, v, prepared)
  BY <1>1, <1>4, <1>7, <1>8, ImportingNext
<1> QED
  BY <1>2, <1>9

(* An import leaves inferences that wait alone, and the model in every array. *)
ModelIn(r, names, ready, prepared) ==
  /\ AllWaitWell(r.memory, prepared)
  /\ ready => \A a \in names : ArrayImported(r.memory, r.buffers[a])

(* Whether a forest is made or an exception is thrown. *)
LEMMA BuiltWaits ==
  ASSUME MemoryInv, \A n \in Slots \cup Arrays : buffers[n] = NoBuffer, NEW shape, NEW names,
         names \subseteq ArraysOf(shape), Cardinality(Unused(Now, buffers)) > Cardinality(ArraysOf(shape)),
         NEW ready \in BOOLEAN, NEW mem, NEW on, ImportPlace(mem, on), NEW stream \in Streams \cup {Default},
         mem = "gpu" => Resolve(stream) = StreamOf(on, stream), NEW prepared, AllWaitWell(Now, prepared),
         NEW r, r = Built(names, ready, mem, on, stream)
  PROVE  ModelIn(r, names, ready, prepared)
<1> DEFINE v == Next1(Unused(Now, buffers))
           x == Block("cpu", NoDevice, Model)
           builder == [memory |-> WithBlock(Now, v, x), buffers |-> buffers]
           done == WithArrays(builder, names, v, mem, on, stream)
           kept == IF ready THEN done ELSE Without(done, names)
<1>1. names \in SUBSET Arrays /\ current \in Devices /\ Typed(Now)
  BY ArraysOfShape DEF MemoryInv
<1>2. BuilderMade(v, names, builder, mem, on, stream)
  BY VectorsMade
<1>3. r.memory = WithBlock(kept.memory, v, NoBlock) /\ r.buffers = kept.buffers
  BY DEF Built, WithBlock
<1>4. x.value = Model
  BY DEF Block
<1> HIDE DEF v, x, kept, done
<1>5. /\ v \in Numbers /\ Readers(Now, v) = {}
      /\ BlockPut(Now, v, x, builder.memory) /\ builder.buffers = buffers
      /\ Making(builder, v, mem, on, stream, {}, Cardinality(names))
  BY <1>1, <1>2, UnusedUnread DEF BuilderMade, x
<1> HIDE DEF builder
<1>6. Importing(builder, v, prepared)
  <2> DEFINE m == builder.memory
  <2>1. BlockPut(Now, v, x, m)
    BY <1>5
  <2> HIDE DEF m
  <2>2. Typed(m) /\ m.queue = Now.queue /\ m.blocks[v] = x /\ \A c \in Numbers \ {v} : m.blocks[c] = Now.blocks[c]
    BY <2>1 DEF BlockPut
  <2>3. AllWaitWell(m, prepared) /\ NoNewReaders(Now, m)
    BY <1>1, <1>5, <2>2, BlocksChange
  <2>4. Readers(m, v) = {}
    BY <1>5, <2>3 DEF NoNewReaders
  <2> QED
    BY <1>4, <1>5, <2>2, <2>3, <2>4 DEF Importing, m
<1>7. Making(done, v, mem, on, stream, names, 0) /\ Importing(done, v, prepared)
  BY <1>1, <1>5, <1>6, WithArraysMade, WithArraysImports DEF done
<1>8. /\ Building(kept, v) /\ AllWaitWell(kept.memory, prepared) /\ Readers(kept.memory, v) = {}
  <2>1. CASE ready
    BY <1>7, <2>1 DEF Making, Importing, kept
  <2>2. CASE ~ready
    <3>1. Unmaking(done, v, names)
      BY <1>7 DEF Making, Unmaking
    <3>2. kept = Without(done, names)
      BY <2>2 DEF kept
    <3>3. Building(kept, v)
      BY <1>1, <1>5, <3>1, <3>2, WithoutUnmade DEF Unmaking
    <3>4. Clean(done, v, prepared)
      BY <1>7 DEF Importing, Clean
    <3>5. Clean(kept, v, prepared)
      BY <1>5, <3>1, <3>2, <3>4, WithoutWaits DEF Unmaking
    <3>6. v # Null
      BY <1>5, Apart
    <3> QED
      BY <3>3, <3>5, <3>6 DEF Clean
  <2> QED
    BY <2>1, <2>2
<1> DEFINE m == kept.memory
           m2 == r.memory
<1>9. BlockPut(m, v, NoBlock, m2)
  <2>1. NoBlock \in BlockType
    BY DEF NoBlock, BlockType, Contents, Garbage
  <2>2. Typed(m) /\ m2 = WithBlock(m, v, NoBlock)
    BY <1>3, <1>8 DEF Building
  <2> HIDE DEF m, m2
  <2> QED
    BY <1>5, <2>1, <2>2, BlockChanged
<1>10. Typed(m) /\ AllWaitWell(m, prepared) /\ Readers(m, v) = {}
  BY <1>8 DEF Building
<1> HIDE DEF m, m2
<1>11. Typed(m2) /\ m2.queue = m.queue /\ \A c \in Numbers \ {v} : m2.blocks[c] = m.blocks[c]
  BY <1>9 DEF BlockPut
<1>12. AllWaitWell(m2, prepared) /\ StillAtEnd(m, m2, {v})
  BY <1>5, <1>10, <1>11, BlocksChange, BlocksChangeEnd
<1>13. ASSUME ready, NEW a \in names PROVE ArrayImported(m2, r.buffers[a])
  <2> DEFINE y == r.buffers[a]
  <2>1. y = done.buffers[a] /\ kept = done
    BY <1>3, <1>13 DEF kept
  <2>2. Made(y, mem, on, stream)
    BY <1>1, <1>7, <2>1 DEF Making
  <2>3. y \in BufferType /\ y.owns /\ y # NoBuffer
    BY <2>2, Apart DEF Made
  <2>4. ArrayImported(m, y)
    BY <1>1, <1>7, <2>1, <2>3 DEF Importing, m
  <2>5. y.data \in Numbers \ {v}
    <3>1. a \in DOMAIN kept.buffers /\ y = kept.buffers[a]
      BY <1>1, <1>8, <2>1, HeldNumber DEF Building
    <3>2. HeldBy(y) = y.data
      BY <2>3 DEF HeldBy
    <3>3. y.data # Null
      BY <1>8, <2>3, <3>1 DEF Building, OnlyOwners, Rooted
    <3>4. HeldBy(y) \in Numbers \cup {Null} /\ (HeldBy(y) # Null => HeldBy(y) # v)
      BY <1>5, <1>8, <3>1, BuildingPlaces
    <3> QED
      BY <3>2, <3>3, <3>4
  <2>6. y.mem # "cpu" => y.stream \in Streams
    BY <2>3 DEF BufferType
  <2> HIDE DEF y
  <2>7. ArrayImported(m2, y)
    BY <1>11, <1>12, <2>4, <2>5, <2>6 DEF ArrayImported, StillAtEnd
  <2> QED
    BY <2>7 DEF y
<1> QED
  BY <1>12, <1>13 DEF ModelIn, m2

(* InferenceInv in the next state, from what is known of its memory. *)
LEMMA InferenceRestated ==
  ASSUME NEW m, Now' = m, NEW p, initialized' = p, p \in [Devices -> {{}, InitializedKernels}],
         program' = "buffers" => NoInference(m),
         program' = "forest" => AllWaitWell(m, p),
         forest' # NoForest =>
           /\ forest'.mem = "gpu" => p[forest'.device] = InitializedKernels
           /\ \A a \in ArraysOf(forest'.shape) : ArrayImported(m, buffers'[a])
  PROVE  InferenceInv'
<1>1. /\ program' = "buffers" => NoInference(Now)'
      /\ program' = "forest" => AllWaitWell(Now, initialized)'
  <2>1. NoInference(m) => NoInference(Now)'
    BY DEF NoInference
  <2>2. \A b, s, i : ReadsWell(m, b, s, i) => ReadsWell(Now, b, s, i)'
    BY DEF ReadsWell, Imported, Freed
  <2>3. AllWaitWell(m, p) => AllWaitWell(Now, initialized)'
    BY <2>2 DEF AllWaitWell, WaitsWell
  <2> QED
    BY <2>1, <2>3
<1>2. forest' # NoForest => \A a \in ArraysOf(forest'.shape) : ArrayImported(Now, buffers[a])'
  BY DEF ArrayImported, AtEnd, Imported
<1>3. ArraysOf(forest.shape)' = ArraysOf(forest'.shape)
  BY DEF ArraysOf
<1> QED
  BY <1>1, <1>2, <1>3 DEF InferenceInv

(* More devices are prepared. *)
LEMMA PreparedMore ==
  ASSUME NEW m, NEW p, NEW p2, \A s \in Streams : p[s[1]] = InitializedKernels => p2[s[1]] = InitializedKernels,
         AllWaitWell(m, p)
  PROVE  AllWaitWell(m, p2)
  BY DEF AllWaitWell, WaitsWell

(* A default stream is used while its device is current. *)
LEMMA StreamInUse ==
  ASSUME CallersSetDevice, current \in Devices, NEW device \in Devices, NEW stream \in StreamsFor(device)
  PROVE  Resolve(stream) = StreamOf(device, stream) /\ Resolve(stream)[1] = device /\ Resolve(stream) \in Streams
<1>1. CASE stream = <<device, 1>>
  <2>1. stream # Default /\ stream \in Streams
    BY <1>1, Apart DEF Streams
  <2> QED
    BY <1>1, <2>1 DEF Resolve, StreamOf
<1>2. CASE stream = Default /\ device = current
  BY <1>2 DEF Resolve, StreamOf, Streams
<1> QED
  BY <1>1, <1>2 DEF StreamsFor, OnCurrent

(* What an import leaves in queues and arrays. *)
LEMMA ImportWaits ==
  ASSUME CallersSetDevice, OwnershipInv, InferenceInv,
         NEW shape \in Shapes, NEW mem \in {"cpu", "gpu"}, NEW device \in Devices,
         NEW made \in 0 .. 3, NEW ready \in BOOLEAN, NEW stream \in StreamsFor(device),
         Import(shape, mem, device, stream, made, ready)
  PROVE  InferenceInv'
<1> DEFINE on == ModelDevice(mem, device)
           names == FirstOf(shape, made)
           r == Built(names, ready, mem, on, stream)
<1>1. /\ program = "forest" /\ forest = NoForest /\ Cardinality(Unused(Now, buffers)) > Cardinality(ArraysOf(shape))
      /\ ready => made = 3
      /\ Become(r.memory) /\ buffers' = r.buffers
      /\ forest' = IF ready THEN [mem |-> mem, device |-> on, shape |-> shape, stream |-> stream] ELSE NoForest
      /\ initialized' = IF ready /\ mem = "gpu" THEN [initialized EXCEPT ![on] = InitializedKernels] ELSE initialized
      /\ UNCHANGED <<current, program>>
  BY DEF Import
<1>2. MemoryInv /\ ForestInv /\ current \in Devices
  BY OwnershipMemory DEF MemoryInv
<1>3. \A n \in Slots \cup Arrays : buffers[n] = NoBuffer
  BY <1>1, <1>2 DEF ForestInv
<1>4. ImportPlace(mem, on) /\ stream \in Streams \cup {Default} /\ (mem = "gpu" => on = device)
  BY ImportPlaces DEF ModelDevice
<1>5. names \subseteq ArraysOf(shape) /\ (ready => names = ArraysOf(shape))
  BY <1>1, ArraysOfShape
<1>6. mem = "gpu" => Resolve(stream) = StreamOf(on, stream)
  BY <1>2, <1>4, StreamInUse
<1>7. r = Built(names, ready, mem, on, stream)
  OBVIOUS
<1> HIDE DEF r, on, names
<1>8. AllWaitWell(Now, initialized) /\ initialized \in [Devices -> {{}, InitializedKernels}]
  BY <1>1 DEF InferenceInv
<1>9. InOrder(r, names, ready, mem, on, stream) /\ ModelIn(r, names, ready, initialized)
  <2>1. Cardinality(Unused(Now, buffers)) > Cardinality(ArraysOf(shape)) /\ names \subseteq ArraysOf(shape)
    BY <1>1, <1>5
  <2>2. InOrder(r, names, ready, mem, on, stream)
    BY <1>2, <1>3, <1>4, <1>7, <2>1, BuiltForest
  <2>3. ModelIn(r, names, ready, initialized)
    BY <1>2, <1>3, <1>4, <1>6, <1>7, <1>8, <2>1, BuiltWaits
  <2> QED
    BY <2>2, <2>3
<1> DEFINE m == r.memory
<1>10. Typed(m) /\ Become(m) /\ AllWaitWell(m, initialized)
       /\ (ready => \A a \in names : ArrayImported(m, buffers'[a]))
  BY <1>1, <1>9 DEF InOrder, ModelIn
<1> HIDE DEF m
<1>11. Now' = m
  BY <1>10, NextMemory
<1> DEFINE p == initialized'
<1>12. /\ p \in [Devices -> {{}, InitializedKernels}]
       /\ \A d \in Devices : initialized[d] = InitializedKernels => p[d] = InitializedKernels
       /\ ready /\ mem = "gpu" => p[on] = InitializedKernels
  <2>1. on \in Devices \/ mem # "gpu"
    BY <1>4
  <2> HIDE DEF InitializedKernels
  <2> QED
    BY <1>1, <1>8, <2>1
<1> HIDE DEF p
<1>13. AllWaitWell(m, p)
  <2>1. \A s \in Streams : s[1] \in Devices
    BY DEF Streams
  <2> QED
    BY <1>10, <1>12, <2>1, PreparedMore
<1>14. forest' # NoForest =>
         /\ forest'.mem = "gpu" => p[forest'.device] = InitializedKernels
         /\ \A a \in ArraysOf(forest'.shape) : ArrayImported(m, buffers'[a])
  BY <1>1, <1>5, <1>10, <1>12
<1>15. program' # "buffers" /\ initialized' = p
  BY <1>1 DEF p
<1> QED
  BY <1>11, <1>12, <1>13, <1>14, <1>15, InferenceRestated

(* An inference finds its forest imported and its device prepared. *)
LEMMA PredictWaits ==
  ASSUME CallersSetDevice, OwnershipInv, InferenceInv,
         NEW stream \in {Default} \cup (Devices \X {1}), NEW chunk \in Chunks, Predict(stream, chunk)
  PROVE  InferenceInv'
<1> DEFINE op == Inference(chunk)
           s == Resolve(stream)
           m == Submit(Now, s, op)
           fs == StreamOf(forest.device, forest.stream)
<1>1. /\ Become(m) /\ forest.mem = "gpu" /\ program = "forest" /\ stream \in StreamsFor(forest.device)
      /\ (stream = forest.stream \/ queue[fs] = <<>>)
      /\ UNCHANGED <<current, buffers, forest, program, initialized>>
  BY DEF Predict, Inference, forestVars, Ordered, StreamOf
<1>2. MemoryInv /\ ForestInv /\ forest # NoForest /\ Typed(Now) /\ current \in Devices /\ forest.device \in Devices
  BY <1>1, OwnershipMemory DEF MemoryInv, ForestInv, NoForest
<1>3. s = StreamOf(forest.device, stream) /\ s[1] = forest.device /\ s \in Streams
  BY <1>1, <1>2, StreamInUse
<1>4. op \in Operation /\ op.do = "infer" /\ op.kernel = Dispatched(forest.shape, chunk)
      /\ op.reads = [a \in ArraysOf(forest.shape) |-> buffers[a].cached_ptr]
  BY <1>2, InferenceTyped DEF Inference
<1>5. m = Submit(Now, s, op)
  OBVIOUS
<1> HIDE DEF op, s, m, fs
<1>6. AllWaitWell(Now, initialized) /\ initialized[forest.device] = InitializedKernels
      /\ \A a \in ArraysOf(forest.shape) : ArrayImported(Now, buffers[a])
  BY <1>1, <1>2 DEF InferenceInv
<1>7. op.kernel \in InitializedKernels
  <2>1. forest.shape \in [vector : BOOLEAN, categorical : BOOLEAN, external : BOOLEAN]
    BY <1>2, LifetimeAssumption DEF ForestInv
  <2> QED
    BY <1>4, <2>1 DEF InitializedKernels, Kernels, Dispatched
<1>8. ASSUME NEW a \in ArraysOf(forest.shape)
      PROVE  LET b == buffers[a].cached_ptr
             IN  /\ Now.blocks[b].live /\ Now.blocks[b].mem = "gpu" /\ Now.blocks[b].device = s[1]
                 /\ AtEnd(Now, b, s)
                 /\ \A t \in Streams, j \in Nat : Freed(Now, t, j) # b
  <2> DEFINE b == buffers[a].cached_ptr
  <2>1. /\ IsArray(buffers[a]) /\ b \in Numbers /\ b = buffers[a].data /\ Held(buffers, a) = b
        /\ a \in DOMAIN buffers /\ Now.blocks[b].live /\ Now.blocks[b].mem = "gpu" /\ Now.blocks[b].device = s[1]
    BY <1>1, <1>2, <1>3, ArrayBlock, NowFields
  <2>2. AtEnd(Now, b, fs)
    <3>1. ArrayImported(Now, buffers[a]) /\ buffers[a].mem = "gpu" /\ buffers[a].stream = fs
      BY <1>1, <1>6, <2>1 DEF IsArray, fs
    <3> QED
      BY <2>1, <3>1 DEF ArrayImported
  <2>3. b # Null
    BY <2>1, Apart
  <2> HIDE DEF b
  <2>4. AtEnd(Now, b, s)
    <3>1. CASE s = fs
      BY <2>2, <3>1
    <3>2. CASE queue[fs] = <<>>
      <4>1. DOMAIN Now.queue[fs] = {}
        BY <3>2, NowFields
      <4> QED
        BY <2>2, <4>1 DEF AtEnd, Imported
    <3>3. s = fs \/ queue[fs] = <<>>
      BY <1>1, <1>3 DEF fs
    <3> QED
      BY <3>1, <3>2, <3>3
  <2>5. \A t \in Streams, j \in Nat : Freed(Now, t, j) # b
    <3>1. Ledger(Now, buffers)
      BY <1>2 DEF MemoryInv
    <3> QED
      BY <1>2, <2>1, <2>3, <3>1, LedgerFacts
  <2> QED
    BY <2>1, <2>4, <2>5 DEF b
<1>9. Admitted(Now, s, op, initialized)
  <2>1. \A a \in DOMAIN op.reads :
          LET b == op.reads[a]
          IN  /\ Now.blocks[b].live /\ Now.blocks[b].mem = "gpu" /\ Now.blocks[b].device = s[1]
              /\ AtEnd(Now, b, s)
              /\ \A t \in Streams, j \in Nat : Freed(Now, t, j) # b
    BY <1>4, <1>8
  <2> QED
    BY <1>3, <1>4, <1>6, <1>7, <2>1 DEF Admitted
<1>10. AllWaitWell(m, initialized)
  BY <1>2, <1>3, <1>4, <1>5, <1>6, <1>9, SubmittedWaits
<1>11. StillAtEnd(Now, m, {}) /\ m.blocks = Now.blocks /\ Typed(m)
  BY <1>2, <1>3, <1>4, <1>5, SubmittedEnd, Submitted
<1>12. ASSUME NEW a \in ArraysOf(forest.shape) PROVE ArrayImported(m, buffers[a])
  <2>1. /\ buffers[a].data \in Numbers /\ buffers[a].stream = fs /\ buffers[a].mem = "gpu"
        /\ ArrayImported(Now, buffers[a])
    BY <1>1, <1>2, <1>6, ArrayBlock DEF IsArray, fs
  <2>2. fs \in Streams
    BY <1>1, <1>2, <2>1, ArrayBlock DEF IsArray, BufferType
  <2> QED
    BY <1>11, <2>1, <2>2 DEF ArrayImported, StillAtEnd
<1>13. Now' = m
  BY <1>1, <1>11, NextMemory
<1>14. /\ initialized' = initialized /\ initialized \in [Devices -> {{}, InitializedKernels}]
       /\ program' # "buffers"
       /\ forest' # NoForest =>
           /\ forest'.mem = "gpu" => initialized[forest'.device] = InitializedKernels
           /\ \A a \in ArraysOf(forest'.shape) : ArrayImported(m, buffers'[a])
  BY <1>1, <1>6, <1>12 DEF InferenceInv
<1> QED
  BY <1>10, <1>13, <1>14, InferenceRestated

(* Inferences that read an array are on the stream that will release it when
   its forest is destroyed, and arrays on the host are not read by any. *)
LEMMA DestroyForestWaits ==
  ASSUME OwnershipInv, InferenceInv, DestroyForest
  PROVE  InferenceInv'
<1> DEFINE names == ArraysOf(forest.shape)
           q == [memory |-> Now, buffers |-> buffers]
           r == Without(q, names)
<1>1. /\ program = "forest" /\ forest # NoForest /\ Become(r.memory) /\ forest' = NoForest
      /\ \A s \in Streams : \A i \in DOMAIN queue[s] : queue[s][i].do = "infer" => s = buffers["nodes"].stream
      /\ UNCHANGED <<program, initialized>>
  BY DEF DestroyForest
<1>2. /\ MemoryInv /\ ForestInv /\ Typed(Now) /\ buffers \in Bufs /\ Ledger(Now, buffers) /\ Rooted(Now, buffers)
      /\ current \in Devices /\ DOMAIN buffers = Slots \cup Arrays
  BY OwnershipMemory, HeldNumber DEF MemoryInv
<1>3. names \in SUBSET Arrays /\ (\A n \in (Slots \cup Arrays) \ names : buffers[n] = NoBuffer) /\ "nodes" \in names
  BY <1>1, <1>2, ArraysOfShape DEF ForestInv, ArraysOf
<1>4. OnlyOwners(buffers)
  BY <1>1, <1>2, <1>3 DEF OnlyOwners, ForestInv, IsArray
<1>5. Unmaking(q, Null, names)
  BY <1>2, <1>3, <1>4 DEF Unmaking, Building, Hidden
<1>6. AllWaitWell(Now, initialized) /\ initialized \in [Devices -> {{}, InitializedKernels}]
  BY <1>1 DEF InferenceInv
<1>7. ASSUME NEW a \in names, NEW s \in Readers(Now, buffers[a].data)
      PROVE  buffers[a].mem = "gpu" /\ s = buffers[a].stream
  <2>1. PICK i \in DOMAIN queue[s] : ReadsIt(Now, buffers[a].data, s, i)
    BY <1>7, NowFields DEF Readers
  <2>2. PICK c \in DOMAIN queue[s][i].reads : queue[s][i].reads[c] = buffers[a].data
    BY <2>1, NowFields DEF ReadsIt
  <2>3. queue[s][i].do = "infer" /\ s \in Streams
    BY <1>7, <2>1, NowFields DEF ReadsIt, Readers
  <2>4. ReadsWell(Now, buffers[a].data, s, i)
    BY <1>6, <2>2, <2>3, NowFields DEF AllWaitWell, WaitsWell
  <2>5. /\ IsArray(buffers[a]) /\ IsArray(buffers["nodes"])
        /\ blocks[buffers[a].data].mem = forest.mem
    BY <1>1, <1>3, <1>7, ArrayBlock
  <2> QED
    BY <1>1, <2>3, <2>4, <2>5, NowFields DEF IsArray, ReadsWell
<1>8. Clean(q, Null, initialized)
  BY <1>3, <1>6, <1>7 DEF Clean
<1>9. r = Without(q, names)
  OBVIOUS
<1> HIDE DEF q, r, names
<1>10. Unmaking(r, Null, {}) /\ Clean(r, Null, initialized)
  BY <1>3, <1>5, <1>8, <1>9, WithoutUnmade, WithoutWaits DEF Unmaking
<1> DEFINE m == r.memory
<1>11. Typed(m) /\ Become(m) /\ AllWaitWell(m, initialized)
  BY <1>1, <1>10 DEF Unmaking, Building, Clean
<1> HIDE DEF m
<1>12. Now' = m
  BY <1>11, NextMemory
<1>13. program' # "buffers" /\ ~(forest' # NoForest) /\ initialized' = initialized
  BY <1>1
<1> QED
  BY <1>6, <1>11, <1>12, <1>13, InferenceRestated

-----------------------------------------------------------------------------
(* Streams and inferences *)

(* Stream s has run the first of what waited there. *)
Progress(m, m2, s) ==
  /\ \A t \in Streams \ {s} : m2.queue[t] = m.queue[t]
  /\ Len(m2.queue[s]) = Len(m.queue[s]) - 1
  /\ \A i \in DOMAIN m2.queue[s] : m2.queue[s][i] = m.queue[s][i + 1]
  /\ \A b \in Numbers \ {Freed(m, s, 1)} :
       /\ m2.blocks[b].live = m.blocks[b].live /\ m2.blocks[b].mem = m.blocks[b].mem
       /\ m2.blocks[b].device = m.blocks[b].device
       /\ m.blocks[b].value = Model => m2.blocks[b].value = Model
  /\ m.queue[s][1].do = "fill" => m2.blocks[m.queue[s][1].to].value = Model

(* What Run does to memory. *)
LEMMA RunProgress ==
  ASSUME MemoryInv, NEW prepared, AllWaitWell(Now, prepared), NEW s \in Streams, Run(s)
  PROVE  Progress(Now, Now', s) /\ queue[s] # <<>>
<1> DEFINE q == queue[s]
           op == q[1]
<1>1. Typed(Now) /\ blocks \in [Numbers -> BlockType] /\ queue \in [Streams -> Seq(Operation)]
  BY NowFields, MemoryFields DEF MemoryInv
<1>2. q \in Seq(Operation) /\ q # <<>>
  BY <1>1 DEF Run
<1>3. /\ Head(q) = op /\ op \in Operation /\ 1 \in DOMAIN q
      /\ Len(Tail(q)) = Len(q) - 1 /\ Len(q) \in Nat \ {0}
      /\ DOMAIN Tail(q) = 1 .. Len(q) - 1
      /\ \A i \in 1 .. Len(q) - 1 : Tail(q)[i] = q[i + 1]
  BY <1>2, TailOfQueue
<1>4. queue' = [queue EXCEPT ![s] = Tail(q)]
  BY DEF Run
<1>5. blocks' = CASE op.do = "fill"  -> [blocks EXCEPT ![op.to].value = op.value]
                  [] op.do = "copy"  -> [blocks EXCEPT ![op.to].value = blocks[op.from].value]
                  [] op.do = "free"  -> [blocks EXCEPT ![op.to] = NoBlock]
                  [] op.do = "infer" -> blocks
  BY <1>3 DEF Run
<1>6. WaitsWell(Now, s, 1, prepared)
  BY <1>3, NowFields DEF AllWaitWell
<1>7. op.do # "copy" /\ (op.do = "fill" => op.value = Model)
  BY <1>6, NowFields DEF WaitsWell
<1>8. Freed(Now, s, 1) = IF op.do = "free" THEN op.to ELSE Null
  BY <1>3, NowFields DEF Freed
<1>9. Now'.blocks = blocks' /\ Now'.queue = queue'
  BY DEF Now
<1> HIDE DEF op
<1>10. op.do \in {"fill", "free", "infer"} /\ (op.do \in {"fill", "free"} => op.to \in Numbers)
  BY <1>3, <1>7, OperationForms
<1>11. /\ \A b \in Numbers \ {Freed(Now, s, 1)} :
            /\ blocks'[b].live = blocks[b].live /\ blocks'[b].mem = blocks[b].mem
            /\ blocks'[b].device = blocks[b].device
            /\ blocks[b].value = Model => blocks'[b].value = Model
       /\ op.do = "fill" => blocks'[op.to].value = Model
  <2>1. CASE op.do = "fill"
    <3>1. blocks' = [blocks EXCEPT ![op.to] = [blocks[op.to] EXCEPT !.value = Model]]
      BY <1>1, <1>5, <1>7, <2>1
    <3>2. blocks[op.to] \in BlockType
      BY <1>1, <1>10, <2>1
    <3> DEFINE x == [blocks[op.to] EXCEPT !.value = Model]
    <3>3. /\ x.live = blocks[op.to].live /\ x.mem = blocks[op.to].mem
          /\ x.device = blocks[op.to].device /\ x.value = Model
      BY <3>2 DEF BlockType
    <3> HIDE DEF x
    <3>4. blocks' = [blocks EXCEPT ![op.to] = x]
      BY <3>1 DEF x
    <3> QED
      BY <1>1, <1>10, <2>1, <3>3, <3>4
  <2>2. CASE op.do = "free"
    <3>1. blocks' = [blocks EXCEPT ![op.to] = NoBlock] /\ Freed(Now, s, 1) = op.to
      BY <1>5, <1>8, <2>2
    <3> QED
      BY <1>1, <1>10, <2>2, <3>1
  <2>3. CASE op.do = "infer"
    <3>1. blocks' = blocks
      BY <1>5, <2>3
    <3> QED
      BY <2>3, <3>1
  <2> QED
    BY <1>10, <2>1, <2>2, <2>3
<1>12. /\ \A t \in Streams \ {s} : queue'[t] = queue[t]
       /\ Len(queue'[s]) = Len(queue[s]) - 1
       /\ \A i \in DOMAIN queue'[s] : queue'[s][i] = queue[s][i + 1]
  BY <1>1, <1>3, <1>4
<1> QED
  BY <1>2, <1>9, <1>11, <1>12, NowFields DEF Progress, op

(* A place in a queue, one step later. *)
Later(s, t, i) == IF t = s THEN i - 1 ELSE i

(* What was imported before a place in a queue still is. *)
LEMMA ImportedLater ==
  ASSUME NEW m, Typed(m), NEW m2, Typed(m2), NEW s \in Streams, m.queue[s] # <<>>, Progress(m, m2, s),
         NEW b \in Numbers, Freed(m, s, 1) # b, NEW t \in Streams, NEW i \in Nat, Imported(m, b, t, i)
  PROVE  Imported(m2, b, t, Later(s, t, i))
<1>1. CASE m.blocks[b].value = Model
  BY <1>1 DEF Progress, Imported
<1>2. ASSUME NEW j \in DOMAIN m.queue[t], j < i, m.queue[t][j].do = "fill", m.queue[t][j].to = b
      PROVE  Imported(m2, b, t, Later(s, t, i))
  <2>1. CASE t # s
    BY <1>2, <2>1 DEF Progress, Imported, Later
  <2>2. CASE t = s /\ j = 1
    BY <1>2, <2>2 DEF Progress, Imported
  <2>3. CASE t = s /\ j # 1
    <3>1. /\ DOMAIN m.queue[s] = 1 .. Len(m.queue[s]) /\ DOMAIN m2.queue[s] = 1 .. Len(m2.queue[s])
          /\ Len(m.queue[s]) \in Nat /\ Len(m2.queue[s]) \in Nat /\ Len(m2.queue[s]) = Len(m.queue[s]) - 1
      BY MemoryFields DEF Progress
    <3>2. j - 1 \in DOMAIN m2.queue[s] /\ j - 1 < i - 1 /\ (j - 1) + 1 = j
      BY <1>2, <2>3, <3>1
    <3>3. m2.queue[s][j - 1] = m.queue[s][j]
      BY <3>2 DEF Progress
    <3> QED
      BY <1>2, <2>3, <3>2, <3>3 DEF Imported, Later
  <2> QED
    BY <2>1, <2>2, <2>3
<1> QED
  BY <1>1, <1>2 DEF Imported

(* What waits well still does when a stream has run its first entry. *)
LEMMA ProgressWaits ==
  ASSUME NEW m, Typed(m), NEW m2, Typed(m2), NEW s \in Streams, m.queue[s] # <<>>, Progress(m, m2, s),
         NEW prepared, AllWaitWell(m, prepared)
  PROVE  AllWaitWell(m2, prepared)
<1> DEFINE before(t, i) == IF t = s THEN i + 1 ELSE i
<1>1. /\ \A t \in Streams : DOMAIN m.queue[t] = 1 .. Len(m.queue[t]) /\ Len(m.queue[t]) \in Nat
      /\ \A t \in Streams : DOMAIN m2.queue[t] = 1 .. Len(m2.queue[t]) /\ Len(m2.queue[t]) \in Nat
      /\ Len(m2.queue[s]) = Len(m.queue[s]) - 1
      /\ \A t \in Streams \ {s} : m2.queue[t] = m.queue[t]
  BY MemoryFields DEF Progress
<1>2. 1 \in DOMAIN m.queue[s]
  <2>1. Len(m.queue[s]) \in Nat \ {0}
    BY <1>1
  <2> QED
    BY <1>1, <2>1
<1>3. \A t \in Streams : \A i \in DOMAIN m2.queue[t] :
        /\ before(t, i) \in DOMAIN m.queue[t] /\ m2.queue[t][i] = m.queue[t][before(t, i)]
        /\ i \in Nat /\ before(t, i) \in Nat /\ Later(s, t, before(t, i)) = i
        /\ Freed(m2, t, i) = Freed(m, t, before(t, i))
        /\ (t = s => before(t, i) # 1)
  <2> SUFFICES ASSUME NEW t \in Streams, NEW i \in DOMAIN m2.queue[t]
               PROVE  /\ before(t, i) \in DOMAIN m.queue[t] /\ m2.queue[t][i] = m.queue[t][before(t, i)]
                      /\ i \in Nat /\ before(t, i) \in Nat /\ Later(s, t, before(t, i)) = i
                      /\ Freed(m2, t, i) = Freed(m, t, before(t, i))
                      /\ (t = s => before(t, i) # 1)
    OBVIOUS
  <2>1. CASE t = s
    <3>1. i + 1 \in DOMAIN m.queue[s] /\ i \in Nat /\ i + 1 \in Nat /\ (i + 1) - 1 = i /\ i + 1 # 1
      BY <1>1, <2>1
    <3>2. m2.queue[s][i] = m.queue[s][i + 1]
      BY <2>1 DEF Progress
    <3> QED
      BY <2>1, <3>1, <3>2 DEF Later, Freed
  <2>2. CASE t # s
    BY <1>1, <2>2 DEF Later, Freed
  <2> QED
    BY <2>1, <2>2
<1> HIDE DEF before
<1>4. ASSUME NEW t \in Streams, NEW i \in DOMAIN m2.queue[t], NEW b \in Numbers,
             ReadsWell(m, b, t, before(t, i))
      PROVE  ReadsWell(m2, b, t, i)
  <2>1. Freed(m, s, 1) # b
    <3> SUFFICES ASSUME Freed(m, s, 1) = b PROVE FALSE
      OBVIOUS
    <3>1. t = s /\ before(t, i) < 1
      BY <1>2, <1>4 DEF ReadsWell
    <3> QED
      BY <1>1, <1>3, <3>1
  <2>2. Imported(m2, b, t, i)
    BY <1>3, <1>4, <2>1, ImportedLater DEF ReadsWell
  <2>3. m2.blocks[b].live /\ m2.blocks[b].mem = "gpu" /\ m2.blocks[b].device = t[1]
    BY <1>4, <2>1 DEF ReadsWell, Progress
  <2>4. ASSUME NEW u \in Streams, NEW j \in DOMAIN m2.queue[u], Freed(m2, u, j) = b
        PROVE  u = t /\ i < j
    <3>1. u = t /\ before(t, i) < before(u, j)
      BY <1>3, <1>4, <2>4 DEF ReadsWell
    <3> QED
      BY <1>3, <3>1 DEF before
  <2> QED
    BY <2>2, <2>3, <2>4 DEF ReadsWell
<1> SUFFICES ASSUME NEW t \in Streams, NEW i \in DOMAIN m2.queue[t] PROVE WaitsWell(m2, t, i, prepared)
  BY DEF AllWaitWell
<1>5. WaitsWell(m, t, before(t, i), prepared) /\ m2.queue[t][i] = m.queue[t][before(t, i)]
      /\ before(t, i) \in DOMAIN m.queue[t]
  BY <1>3 DEF AllWaitWell
<1>6. ASSUME m2.queue[t][i].do = "infer", NEW a \in DOMAIN m2.queue[t][i].reads
      PROVE  ReadsWell(m2, m2.queue[t][i].reads[a], t, i)
  <2> DEFINE b == m2.queue[t][i].reads[a]
  <2>1. b \in Numbers
    BY <1>6, ReadsBlocks
  <2>2. ReadsWell(m, b, t, before(t, i))
    BY <1>5, <1>6 DEF WaitsWell
  <2> HIDE DEF b
  <2>3. ReadsWell(m2, b, t, i)
    BY <1>4, <2>1, <2>2
  <2> QED
    BY <2>3 DEF b
<1> QED
  BY <1>5, <1>6 DEF WaitsWell

(* Streams bring imports on and spoil none, whether they have inferences to run
   or only the work of the program's buffers. *)
LEMMA RunWaits ==
  ASSUME OwnershipInv, InferenceInv, NEW s \in Streams, Run(s), UNCHANGED forestVars
  PROVE  InferenceInv'
<1>1. MemoryInv /\ ForestInv /\ MemoryInv' /\ Typed(Now) /\ Ledger(Now, buffers)
  BY OwnershipMemory, RunKeeps DEF MemoryInv
<1>2. Typed(Now')
  BY <1>1 DEF MemoryInv, Typed
<1>3. /\ UNCHANGED <<buffers, program, forest, initialized>>
      /\ initialized \in [Devices -> {{}, InitializedKernels}] /\ program \in {"buffers", "forest"}
  BY <1>1 DEF Run, forestVars, InferenceInv, ForestInv
<1> DEFINE m == Now'
<1>4. CASE program = "forest"
  <2>1. AllWaitWell(Now, initialized)
    BY <1>4 DEF InferenceInv
  <2>2. Progress(Now, m, s) /\ Now.queue[s] # <<>>
    BY <1>1, <2>1, RunProgress, NowFields
  <2> HIDE DEF m
  <2>3. AllWaitWell(m, initialized)
    BY <1>1, <1>2, <2>1, <2>2, ProgressWaits DEF m
  <2>4. ASSUME forest # NoForest, NEW a \in ArraysOf(forest.shape)
        PROVE  ArrayImported(m, buffers[a])
    <3> DEFINE b == buffers[a].data
               fs == buffers[a].stream
    <3>1. /\ IsArray(buffers[a]) /\ b \in Numbers /\ Held(buffers, a) = b /\ a \in DOMAIN buffers
      BY <2>4, ArrayBlock
    <3>2. Freed(Now, s, 1) # b
      <4>1. b # Null
        BY <3>1, Apart
      <4> QED
        BY <1>1, <3>1, <4>1, LedgerFacts
    <3>3. ArrayImported(Now, buffers[a])
      BY <2>4 DEF InferenceInv
    <3>4. CASE buffers[a].mem = "cpu"
      <4>1. m.blocks[b].value = Model
        BY <2>2, <3>1, <3>2, <3>3, <3>4 DEF ArrayImported, Progress
      <4> QED
        BY <3>4, <4>1 DEF ArrayImported
    <3>5. CASE buffers[a].mem # "cpu"
      <4>1. fs \in Streams
        BY <3>1, <3>5 DEF IsArray, BufferType
      <4>2. AtEnd(Now, b, fs)
        BY <3>3, <3>5 DEF ArrayImported
      <4> DEFINE end == Len(Now.queue[fs]) + 1
      <4>3. end \in Nat
        BY <1>1, <4>1, MemoryFields
      <4>4. Imported(Now, b, fs, end)
        BY <4>2 DEF AtEnd
      <4>5. Later(s, fs, end) = Len(m.queue[fs]) + 1
        <5>1. Len(Now.queue[fs]) \in Nat
          BY <1>1, <4>1, MemoryFields
        <5>2. CASE fs = s
          <6>1. Len(m.queue[s]) = Len(Now.queue[s]) - 1
            BY <2>2 DEF Progress
          <6> QED
            BY <5>1, <5>2, <6>1 DEF Later
        <5>3. CASE fs # s
          <6>1. m.queue[fs] = Now.queue[fs]
            BY <2>2, <4>1, <5>3 DEF Progress
          <6> QED
            BY <5>3, <6>1 DEF Later
        <5> QED
          BY <5>2, <5>3
      <4> HIDE DEF end, b, fs
      <4>6. Imported(m, b, fs, Later(s, fs, end))
        BY <1>1, <1>2, <2>2, <3>1, <3>2, <4>1, <4>3, <4>4, ImportedLater DEF m
      <4>7. AtEnd(m, b, fs)
        BY <4>5, <4>6 DEF AtEnd
      <4> QED
        BY <3>5, <4>7 DEF ArrayImported, b, fs
    <3> QED
      BY <3>4, <3>5
  <2>5. forest' # NoForest =>
          /\ forest'.mem = "gpu" => initialized[forest'.device] = InitializedKernels
          /\ \A a \in ArraysOf(forest'.shape) : ArrayImported(m, buffers'[a])
    BY <1>3, <2>4 DEF InferenceInv
  <2>6. Now' = m /\ initialized' = initialized /\ program' # "buffers"
    BY <1>3, <1>4 DEF m
  <2> QED
    BY <1>3, <2>3, <2>5, <2>6, InferenceRestated
<1>5. CASE program = "buffers"
  <2>1. NoInference(Now) /\ forest = NoForest
    BY <1>1, <1>5 DEF InferenceInv, ForestInv
  <2>2. queue \in [Streams -> Seq(Operation)] /\ queue[s] # <<>> /\ queue' = [queue EXCEPT ![s] = Tail(@)]
    BY <1>1, MemoryFields, NowFields DEF Run
  <2>3. /\ Len(queue[s]) \in Nat \ {0} /\ DOMAIN Tail(queue[s]) = 1 .. Len(queue[s]) - 1
        /\ DOMAIN queue[s] = 1 .. Len(queue[s])
        /\ \A i \in 1 .. Len(queue[s]) - 1 : Tail(queue[s])[i] = queue[s][i + 1]
    BY <2>2, TailOfQueue
  <2>4. ASSUME NEW t \in Streams, NEW i \in DOMAIN queue'[t] PROVE queue'[t][i].do # "infer"
    <3>1. CASE t = s
      <4>1. queue'[t] = Tail(queue[s]) /\ i \in 1 .. Len(queue[s]) - 1
        BY <2>2, <2>3, <2>4, <3>1
      <4>2. i + 1 \in DOMAIN queue[s] /\ queue'[t][i] = queue[s][i + 1]
        BY <2>3, <4>1
      <4> QED
        BY <2>1, <4>2, NowFields DEF NoInference
    <3>2. CASE t # s
      BY <2>1, <2>2, <2>4, <3>2, NowFields DEF NoInference
    <3> QED
      BY <3>1, <3>2
  <2>5. NoInference(m)
    BY <2>4 DEF NoInference, Now
  <2>6. Now' = m /\ initialized' = initialized /\ program' # "forest" /\ ~(forest' # NoForest)
    BY <1>3, <1>5, <2>1
  <2> HIDE DEF m
  <2> QED
    BY <1>3, <2>5, <2>6, InferenceRestated
<1> QED
  BY <1>3, <1>4, <1>5

-----------------------------------------------------------------------------
(* A program with buffers of its own infers nothing *)

InfersNot(m) == Typed(m) /\ NoInference(m)

(* Work that is no inference. *)
LEMMA SubmitInfersNot ==
  ASSUME NEW m, InfersNot(m), NEW s \in Streams, NEW op \in Operation, op.do # "infer", NEW m2, m2 = Submit(m, s, op)
  PROVE  InfersNot(m2)
<1>1. /\ Typed(m) /\ Typed(m2) /\ NoInference(m) /\ Len(m2.queue[s]) = Len(m.queue[s]) + 1
      /\ m2.queue[s][Len(m.queue[s]) + 1] = op
      /\ \A t \in Streams \ {s} : m2.queue[t] = m.queue[t]
      /\ \A t \in Streams : \A i \in DOMAIN m.queue[t] : m2.queue[t][i] = m.queue[t][i]
  BY Submitted DEF InfersNot
<1>2. /\ DOMAIN m.queue[s] = 1 .. Len(m.queue[s]) /\ Len(m.queue[s]) \in Nat
      /\ DOMAIN m2.queue[s] = 1 .. Len(m2.queue[s])
  BY <1>1, MemoryFields
<1>3. ASSUME NEW t \in Streams, NEW i \in DOMAIN m2.queue[t] PROVE m2.queue[t][i].do # "infer"
  <2>1. CASE i \in DOMAIN m.queue[t]
    BY <1>1, <2>1 DEF NoInference
  <2>2. CASE i \notin DOMAIN m.queue[t]
    <3>1. t = s
      BY <1>1, <1>3, <2>2
    <3>2. i = Len(m.queue[s]) + 1
      BY <1>1, <1>2, <1>3, <2>2, <3>1
    <3> QED
      BY <1>1, <3>1, <3>2
  <2> QED
    BY <2>1, <2>2
<1> QED
  BY <1>1, <1>3 DEF InfersNot, NoInference

(* A block in another state. *)
LEMMA PutInfersNot ==
  ASSUME NEW m, InfersNot(m), NEW b \in Numbers, NEW x \in BlockType, NEW m2, m2 = WithBlock(m, b, x)
  PROVE  InfersNot(m2)
<1>1. BlockPut(m, b, x, m2)
  BY BlockChanged DEF InfersNot
<1> QED
  BY <1>1 DEF BlockPut, InfersNot, NoInference

(* A destructor. *)
LEMMA DestroyedInfersNot ==
  ASSUME NEW m, InfersNot(m), NEW x \in BufferType \cup {NoBuffer}, NEW m2, m2 = Destroyed(m, x)
  PROVE  InfersNot(m2)
<1> DEFINE b == HeldBy(x)
<1>1. Typed(m)
  BY DEF InfersNot
<1>2. /\ Typed(m2) /\ (b = Null => m2 = m)
      /\ b # Null => \/ m2.queue = m.queue
                     \/ m2 = Submit(m, x.stream, [do |-> "free", to |-> b]) /\ x.stream \in Streams
  BY <1>1, DestroyedGivesUp
<1>3. CASE b = Null \/ m2.queue = m.queue
  BY <1>2, <1>3 DEF InfersNot, NoInference
<1>4. CASE b # Null /\ m2 = Submit(m, x.stream, [do |-> "free", to |-> b]) /\ x.stream \in Streams
  <2> DEFINE op == [do |-> "free", to |-> b]
  <2>1. b \in Numbers
    BY <1>4 DEF HeldBy, BufferType
  <2>2. op \in Operation /\ op.do # "infer"
    BY <2>1 DEF Operation
  <2> QED
    BY <1>4, <2>2, SubmitInfersNot
<1> QED
  BY <1>2, <1>3, <1>4

(* A copy. *)
LEMMA CopyInfersNot ==
  ASSUME NEW m, InfersNot(m), current \in Devices, NEW mem, NEW device, Placeable(mem, device),
         NEW b \in Numbers, NEW other, other.cached_ptr \in Numbers,
         NEW m2, m2 = CopyTo(m, other, mem, device, b, Default).memory
  PROVE  InfersNot(m2)
<1> DEFINE x == Block(mem, device, Garbage)
           m1 == WithBlock(m, b, x)
           from == other.cached_ptr
           s == Resolve(Default)
<1>1. m2 = Copied(m1, from, b, Default)
  BY DEF CopyTo, WithBlock
<1>2. x \in BlockType
  BY DEF Block, BlockType, Contents, Placeable
<1> HIDE DEF x
<1>3. InfersNot(m1)
  BY <1>2, PutInfersNot
<1>4. s \in Streams
  BY Resolved
<1> HIDE DEF m1, from, s
<1>5. from \in Numbers /\ Typed(m1) /\ NoInference(m1)
  BY <1>3 DEF from, InfersNot
<1>6. m1.blocks[from] \in BlockType /\ m1.blocks[from].value \in Contents
  BY <1>5, MemoryFields DEF BlockType
<1>7. CASE m1.blocks[b].mem = "cpu"
  <2> DEFINE v == m1.blocks[from].value
  <2>1. m2 = WithValue(m1, b, v) /\ v \in Contents
    BY <1>1, <1>6, <1>7 DEF Copied, WithValue
  <2> HIDE DEF v
  <2>2. Typed(m2) /\ m2.queue = m1.queue
    BY <1>5, <2>1, ValueChanged
  <2> QED
    BY <1>5, <2>2 DEF InfersNot, NoInference
<1>8. CASE m1.blocks[b].mem # "cpu"
  <2> DEFINE op == IF m1.blocks[from].mem = "cpu"
                   THEN [do |-> "fill", to |-> b, value |-> m1.blocks[from].value]
                   ELSE [do |-> "copy", to |-> b, from |-> from]
  <2>1. op \in Operation /\ op.do # "infer"
    BY <1>5, <1>6 DEF Operation
  <2>2. m2 = Submit(m1, s, op)
    BY <1>1, <1>8 DEF Copied, s
  <2> HIDE DEF op
  <2> QED
    BY <1>3, <1>4, <2>1, <2>2, SubmitInfersNot
<1> QED
  BY <1>7, <1>8

(* What an operation on the program's buffers leaves in the queues. *)
LEMMA BuffersInferNot ==
  ASSUME OwnBuffers, NoInference(Now), UseBuffers
  PROVE  \E m : Become(m) /\ InfersNot(m)
<1>1. MemoryInv /\ InfersNot(Now) /\ current \in Devices
  BY DEF OwnBuffers, MemoryInv, InfersNot
<1>2. \A n \in Slots : n \in DOMAIN buffers /\ buffers[n] \in BufferType \cup {NoBuffer}
  BY HeldNumber DEF OwnBuffers, MemoryInv, Bufs
<1>3. \A n \in Slots : Usable(n) =>
        buffers[n].cached_ptr \in Numbers /\ Placeable(buffers[n].mem, buffers[n].device)
  BY <1>1, <1>2, UsableBlock
<1> DEFINE b == Next1(Unused(Now, buffers))
<1>4. Unused(Now, buffers) # {} => b \in Numbers
  BY UnusedBlock
<1>5. \A place \in Places : Placeable(place[1], place[2])
  BY PlacePlaceable DEF PlacesAreThere
<1>6. UNCHANGED <<blocks, queue>> => Become(Now)
  BY DEF Become, Now
<1>7. ASSUME NEW n \in Slots, NEW place \in Places, Make(n, place) PROVE \E m : Become(m) /\ InfersNot(m)
  <2> DEFINE x == Block(place[1], place[2], Garbage)
             m == WithBlock(Now, b, x)
  <2>1. Become(m) /\ Unused(Now, buffers) # {}
    BY <1>7 DEF Make, WithBlock
  <2>2. x \in BlockType
    BY <1>5 DEF Block, BlockType, Contents, Placeable
  <2> HIDE DEF b, x
  <2>3. InfersNot(m)
    BY <1>1, <1>4, <2>1, <2>2, PutInfersNot
  <2> QED
    BY <2>1, <2>3
<1>8. ASSUME NEW n \in Slots, NEW value \in Values, Write(n, value) PROVE \E m : Become(m) /\ InfersNot(m)
  <2> DEFINE c == buffers[n].cached_ptr
             op == [do |-> "fill", to |-> c, value |-> value]
             s == Resolve(Default)
  <2>1. Usable(n) /\ Become(IF buffers[n].mem = "cpu" THEN WithValue(Now, c, value) ELSE Submit(Now, s, op))
    BY <1>8 DEF Write, WithValue
  <2>2. c \in Numbers /\ value \in Contents
    BY <1>3, <2>1 DEF Contents
  <2>3. op \in Operation /\ op.do # "infer" /\ s \in Streams
    BY <1>1, <2>2, Resolved DEF Operation
  <2> HIDE DEF c, op, s
  <2>4. InfersNot(WithValue(Now, c, value))
    <3> DEFINE m == WithValue(Now, c, value)
    <3>1. Typed(m) /\ m.queue = Now.queue
      BY <1>1, <2>2, ValueChanged DEF InfersNot
    <3> HIDE DEF m
    <3>2. InfersNot(m)
      BY <1>1, <3>1 DEF InfersNot, NoInference
    <3> QED
      BY <3>2 DEF m
  <2>5. InfersNot(Submit(Now, s, op))
    BY <1>1, <2>3, SubmitInfersNot
  <2> QED
    BY <2>1, <2>4, <2>5
<1>9. ASSUME NEW n \in Slots PROVE InfersNot(Destroyed(Now, buffers[n]))
  BY <1>1, <1>2, DestroyedInfersNot
<1>10. ASSUME NEW from \in Slots, Usable(from), Unused(Now, buffers) # {},
              NEW mem, NEW device, Placeable(mem, device)
       PROVE  /\ InfersNot(CopyTo(Now, buffers[from], mem, device, b, Default).memory)
              /\ InfersNot(MoveTo(Now, buffers[from], mem, device, b, Default).memory)
  <2>1. b \in Numbers /\ buffers[from].cached_ptr \in Numbers
    BY <1>3, <1>4, <1>10
  <2> HIDE DEF b
  <2>2. InfersNot(CopyTo(Now, buffers[from], mem, device, b, Default).memory)
    BY <1>1, <1>10, <2>1, CopyInfersNot
  <2>3. CASE mem = buffers[from].mem /\ device = buffers[from].device
    <3>1. MoveTo(Now, buffers[from], mem, device, b, Default).memory = Now
      BY <2>3 DEF MoveTo
    <3> QED
      BY <1>1, <2>2, <3>1
  <2>4. CASE ~(mem = buffers[from].mem /\ device = buffers[from].device)
    <3>1. MoveTo(Now, buffers[from], mem, device, b, Default) = CopyTo(Now, buffers[from], mem, device, b, Default)
      BY <2>4 DEF MoveTo
    <3> QED
      BY <2>2, <3>1
  <2> QED
    BY <2>3, <2>4
<1>11. ASSUME NEW n \in Slots, NEW from \in Slots, NEW place \in Places, MakeCopy(n, from, place)
       PROVE  \E m : Become(m) /\ InfersNot(m)
  <2>1. /\ Usable(from) /\ Unused(Now, buffers) # {}
        /\ Become(CopyTo(Now, buffers[from], place[1], place[2], b, Default).memory)
    BY <1>11 DEF MakeCopy, CopyOrMove
  <2> HIDE DEF b
  <2> QED
    BY <1>5, <1>10, <2>1
<1>12. ASSUME NEW n \in Slots, NEW from \in Slots, NEW place \in Places, MakeMove(n, from, place)
       PROVE  \E m : Become(m) /\ InfersNot(m)
  <2>1. /\ Usable(from) /\ Unused(Now, buffers) # {}
        /\ Become(MoveTo(Now, buffers[from], place[1], place[2], b, Default).memory)
    BY <1>12 DEF MakeMove, CopyOrMove
  <2> HIDE DEF b
  <2> QED
    BY <1>5, <1>10, <2>1
<1>13. ASSUME NEW n \in Slots, NEW from \in Slots, AssignCopy(n, from)
       PROVE  \E m : Become(m) /\ InfersNot(m)
  <2> DEFINE m1 == CopyTo(Now, buffers[from], buffers[from].mem, buffers[from].device, b, Default).memory
  <2>1. Usable(from) /\ Unused(Now, buffers) # {} /\ Become(Destroyed(m1, buffers[n]))
    BY <1>13 DEF AssignCopy
  <2>2. InfersNot(m1)
    BY <1>3, <1>10, <2>1
  <2> HIDE DEF m1
  <2>3. InfersNot(Destroyed(m1, buffers[n]))
    BY <1>2, <2>2, DestroyedInfersNot
  <2> QED
    BY <2>1, <2>3
<1>14. ASSUME NEW n \in Slots, NEW k \in Slots,
              Destroy(n) \/ AssignMove(n, k) \/ MakeView(n, k) \/ Swap(n, k)
       PROVE  \E m : Become(m) /\ InfersNot(m)
  <2>1. Become(Destroyed(Now, buffers[n])) \/ UNCHANGED <<blocks, queue>>
    BY <1>14 DEF Destroy, AssignMove, MakeView, Swap
  <2> QED
    BY <1>1, <1>6, <1>9, <2>1
<1> QED
  BY <1>7, <1>8, <1>11, <1>12, <1>13, <1>14 DEF UseBuffers

-----------------------------------------------------------------------------
(* Every inference reads what was imported *)

(* One case for each action. *)
LEMMA InferenceNext ==
  ASSUME CallersSetDevice, OwnershipInv, InferenceInv, [Next]_vars
  PROVE  InferenceInv'
<1>1. MemoryInv /\ ForestInv /\ initialized \in [Devices -> {{}, InitializedKernels}]
  BY OwnershipMemory DEF InferenceInv
<1>2. ASSUME program = "buffers", UseBuffers, UNCHANGED forestVars PROVE InferenceInv'
  <2>1. OwnBuffers /\ forest = NoForest /\ NoInference(Now)
    BY <1>1, <1>2, MemoryAssumption DEF OwnBuffers, ForestInv, InferenceInv
  <2>2. PICK m : Become(m) /\ InfersNot(m)
    BY <1>2, <2>1, BuffersInferNot
  <2>3. Now' = m /\ NoInference(m)
    BY <2>2, NextMemory DEF InfersNot
  <2>4. initialized' = initialized /\ program' # "forest" /\ ~(forest' # NoForest)
    BY <1>2, <2>1 DEF forestVars
  <2> QED
    BY <1>1, <2>3, <2>4, InferenceRestated
<1>3. ASSUME UseForest PROVE InferenceInv'
  BY <1>3, ImportWaits, PredictWaits, DestroyForestWaits DEF UseForest
<1>4. ASSUME NEW s \in Streams, Run(s), UNCHANGED forestVars PROVE InferenceInv'
  BY <1>4, RunWaits
<1>5. ASSUME UNCHANGED <<blocks, queue, buffers, program, forest, initialized>> PROVE InferenceInv'
  <2> DEFINE m == Now
  <2>1. Now' = m
    BY <1>5 DEF Now
  <2>2. /\ program' = "buffers" => NoInference(m)
        /\ program' = "forest" => AllWaitWell(m, initialized)
        /\ forest' # NoForest =>
             /\ forest'.mem = "gpu" => initialized[forest'.device] = InitializedKernels
             /\ \A a \in ArraysOf(forest'.shape) : ArrayImported(m, buffers'[a])
    BY <1>5 DEF InferenceInv
  <2> HIDE DEF m
  <2> QED
    BY <1>1, <1>5, <2>1, <2>2, InferenceRestated
<1>6. ASSUME NEW d \in Devices, SetDevice(d), UNCHANGED forestVars PROVE InferenceInv'
  BY <1>5, <1>6 DEF SetDevice, forestVars
<1>7. ASSUME UNCHANGED vars PROVE InferenceInv'
  BY <1>5, <1>7 DEF vars, memoryVars, forestVars
<1> QED
  BY <1>2, <1>3, <1>4, <1>6, <1>7 DEF Next

(* At first nothing waits and no device is prepared. *)
LEMMA InferenceInit == Init => InferenceInv
<1> SUFFICES ASSUME Init PROVE InferenceInv
  OBVIOUS
<1>1. /\ \A s \in Streams : DOMAIN Now.queue[s] = {}
      /\ forest = NoForest /\ initialized = [d \in Devices |-> {}]
  BY DEF Init, MemoryInit, Now
<1> QED
  BY <1>1 DEF InferenceInv, NoInference, AllWaitWell

(* If the program makes a device current before it uses the device's default
   stream, every inference that waits comes after the copies of what it reads
   and before its release, and waits on a device that has been prepared. *)
THEOREM InferenceInvariant == ASSUME CallersSetDevice PROVE Spec => []InferenceInv
<1>1. Init => InferenceInv
  BY InferenceInit
<1>2. OwnershipInv /\ InferenceInv /\ [Next]_vars => InferenceInv'
  BY InferenceNext
<1> QED
  BY <1>1, <1>2, OwnershipInvariant, PTL DEF Spec

(* What is about to be read is there. *)
LEMMA InferenceAtHead ==
  ASSUME OwnershipInv, InferenceInv, NEW s \in Streams, NextUp(s, "infer")
  PROVE  /\ WaitsWell(Now, s, 1, initialized)
         /\ Head(queue[s]) = queue[s][1] /\ queue[s][1].do = "infer" /\ Typed(Now) /\ 1 \in DOMAIN queue[s]
<1>1. Typed(Now) /\ program \in {"buffers", "forest"}
  BY OwnershipMemory DEF MemoryInv, ForestInv
<1>2. queue[s] \in Seq(Operation) /\ queue[s] # <<>>
  BY <1>1, MemoryFields, NowFields DEF NextUp
<1>3. Head(queue[s]) = queue[s][1] /\ 1 \in DOMAIN queue[s]
  BY <1>2, TailOfQueue
<1>4. queue[s][1].do = "infer"
  BY <1>3 DEF NextUp
<1>5. program = "forest"
  BY <1>1, <1>3, <1>4, NowFields DEF InferenceInv, NoInference
<1>6. WaitsWell(Now, s, 1, initialized)
  BY <1>3, <1>5, NowFields DEF InferenceInv, AllWaitWell
<1> QED
  BY <1>1, <1>3, <1>4, <1>6

(* An inference that is about to run finds every array of its forest live, on
   its device and filled, although copies, kernels and releases wait in streams
   and the builder's vectors are long gone; so does one on the host. *)
THEOREM ForestsAreReadable == ASSUME CallersSetDevice PROVE Spec => []ForestReadable
<1>1. OwnershipInv /\ InferenceInv => ForestReadable
  <2> SUFFICES ASSUME OwnershipInv, InferenceInv PROVE ForestReadable
    OBVIOUS
  <2>1. ASSUME NEW s \in Streams, NextUp(s, "infer") PROVE ReadableOn(s[1], Head(queue[s]).reads)
    <3>1. /\ WaitsWell(Now, s, 1, initialized)
          /\ Head(queue[s]) = queue[s][1] /\ queue[s][1].do = "infer" /\ Typed(Now) /\ 1 \in DOMAIN queue[s]
      BY <2>1, InferenceAtHead
    <3>2. \A j \in DOMAIN queue[s] : ~(j < 1)
      BY <3>1, MemoryFields, NowFields
    <3>3. s[1] # NoDevice
      BY Apart DEF Streams
    <3>4. ASSUME NEW a \in DOMAIN queue[s][1].reads
          PROVE  LET b == blocks[queue[s][1].reads[a]]
                 IN  b.live /\ b.value = Model /\ b.mem = "gpu" /\ b.device = s[1]
      <4>1. ReadsWell(Now, queue[s][1].reads[a], s, 1)
        BY <3>1, NowFields DEF WaitsWell
      <4> QED
        BY <3>2, <4>1, NowFields DEF ReadsWell, Imported
    <3> QED
      BY <3>1, <3>3, <3>4 DEF ReadableOn
  <2>2. ASSUME forest.mem = "cpu", NEW a \in ArraysOf(forest.shape)
        PROVE  LET b == blocks[buffers[a].cached_ptr]
               IN  b.live /\ b.value = Model /\ b.mem = "cpu"
    <3>1. forest # NoForest
      BY <2>2 DEF NoForest
    <3>2. /\ IsArray(buffers[a]) /\ buffers[a].cached_ptr = buffers[a].data
          /\ blocks[buffers[a].cached_ptr].live /\ blocks[buffers[a].cached_ptr].mem = "cpu"
      BY <2>2, <3>1, ArrayBlock
    <3>3. ArrayImported(Now, buffers[a])
      BY <2>2, <3>1 DEF InferenceInv
    <3>4. blocks[buffers[a].data].value = Model
      BY <2>2, <3>2, <3>3, NowFields DEF ArrayImported, IsArray
    <3> QED
      BY <3>2, <3>4
  <2>3. forest.mem = "cpu" =>
          ReadableOn(NoDevice, [a \in ArraysOf(forest.shape) |-> buffers[a].cached_ptr])
    BY <2>2 DEF ReadableOn
  <2> QED
    BY <2>1, <2>3 DEF ForestReadable
<1> QED
  BY <1>1, OwnershipInvariant, InferenceInvariant, PTL

(* The kernel that is about to run is one of those the device it runs on was
   prepared for: what infer chooses by the arrays a forest has is among what
   initialize_device lists, for any shapes and any chunk sizes. *)
THEOREM KernelsArePrepared == ASSUME CallersSetDevice PROVE Spec => []KernelPrepared
<1>1. OwnershipInv /\ InferenceInv => KernelPrepared
  <2> SUFFICES ASSUME OwnershipInv, InferenceInv, NEW s \in Streams, NextUp(s, "infer")
               PROVE  Head(queue[s]).kernel \in initialized[s[1]]
    BY DEF KernelPrepared
  <2>1. WaitsWell(Now, s, 1, initialized) /\ Head(queue[s]) = queue[s][1] /\ queue[s][1].do = "infer"
    BY InferenceAtHead
  <2> QED
    BY <2>1, NowFields DEF WaitsWell
<1> QED
  BY <1>1, OwnershipInvariant, InferenceInvariant, PTL

-----------------------------------------------------------------------------
(* What entries write *)

Idle(m, b) == \A s \in Streams : \A i \in DOMAIN m.queue[s] : b \notin MentionedBy(m.queue[s][i])

(* What waits is known to write w. *)
Good(m, w) == InfersNot(m) /\ w \in [Entries(m) -> Contents] /\ Foretold(m, w)

(* What is said of m and w, of blocks other than some. *)
Passes(m, w, m2, w2, others) ==
  \A b \in Numbers \ others, v \in Contents : WillHold(m, w, b, v) => WillHold(m2, w2, b, v)
StaysHome(m, m2, others) == \A b \in Numbers \ others, t \in Streams : Home(m, b, t) => Home(m2, b, t)

(* An entry is a stream and a position. *)
LEMMA EntryOf ==
  ASSUME NEW m, Typed(m), NEW t, NEW i
  PROVE  /\ <<t, i>> \in Entries(m) <=> t \in Streams /\ i \in DOMAIN m.queue[t]
         /\ \A e \in Entries(m) : e[1] \in Streams /\ e[2] \in DOMAIN m.queue[e[1]] /\ e = <<e[1], e[2]>>
  BY DEF Entries

(* What an entry writes is among what it mentions, all of it a block. *)
LEMMA Mentioned ==
  ASSUME NEW m, InfersNot(m), NEW s \in Streams, NEW i \in DOMAIN m.queue[s]
  PROVE  /\ i \in Nat /\ m.queue[s][i] \in Operation /\ m.queue[s][i].do \in {"fill", "copy", "free"}
         /\ MentionedBy(m.queue[s][i]) \subseteq Numbers
         /\ \A b : Writes(m, s, i, b) => b \in MentionedBy(m.queue[s][i])
<1> DEFINE op == m.queue[s][i]
<1>1. i \in Nat /\ op \in Operation
  BY MemoryFields DEF InfersNot
<1>2. op.do \in {"fill", "copy", "free"}
  BY <1>1, OperationForms DEF InfersNot, NoInference
<1>3. op.do = "copy" => MentionedBy(op) = {op.from, op.to}
  BY DEF MentionedBy
<1>4. op.do \in {"fill", "free"} => MentionedBy(op) = {op.to}
  BY DEF MentionedBy
<1>5. MentionedBy(op) \subseteq Numbers
  BY <1>1, <1>2, <1>3, <1>4, OperationForms
<1> HIDE DEF op
<1>6. op.to \in MentionedBy(op)
  BY <1>2, <1>3, <1>4
<1> QED
  BY <1>1, <1>2, <1>5, <1>6 DEF op, Writes

(* What entries before i make of b depends on them and on b. *)
LEMMA HoldsAtSame ==
  ASSUME NEW m, NEW m2, NEW w, NEW w2, NEW s, NEW i, NEW b, NEW v,
         m2.blocks[b].value = m.blocks[b].value,
         \A j \in DOMAIN m2.queue[s] : j < i => j \in DOMAIN m.queue[s],
         \A j \in DOMAIN m.queue[s] : j < i =>
           j \in DOMAIN m2.queue[s] /\ m2.queue[s][j] = m.queue[s][j] /\ w2[<<s, j>>] = w[<<s, j>>],
         HoldsAt(m, w, s, i, b, v)
  PROVE  HoldsAt(m2, w2, s, i, b, v)
<1>1. \A j \in DOMAIN m.queue[s] : j < i => (Writes(m2, s, j, b) <=> Writes(m, s, j, b))
  BY DEF Writes
<1> QED
  BY <1>1 DEF HoldsAt

(* Once more entry is done. *)
LEMMA HoldsAtNext ==
  ASSUME NEW m, Typed(m), NEW w, NEW s \in Streams, NEW i \in DOMAIN m.queue[s], NEW b, NEW v
  PROVE  /\ HoldsAt(m, w, s, i, b, v) /\ ~Writes(m, s, i, b) => HoldsAt(m, w, s, i + 1, b, v)
         /\ w[<<s, i>>] = v /\ Writes(m, s, i, b) => HoldsAt(m, w, s, i + 1, b, v)
<1>1. \A j \in DOMAIN m.queue[s] : j \in Nat
  BY MemoryFields
<1>2. i \in Nat
  BY <1>1
<1>3. \A j \in DOMAIN m.queue[s] : (j < i + 1 <=> j <= i) /\ (j < i => j < i + 1) /\ (j < i + 1 => j < i \/ j = i)
  BY <1>1, <1>2
<1>4. ASSUME HoldsAt(m, w, s, i, b, v), ~Writes(m, s, i, b) PROVE HoldsAt(m, w, s, i + 1, b, v)
  BY <1>3, <1>4 DEF HoldsAt
<1>5. ASSUME w[<<s, i>>] = v, Writes(m, s, i, b) PROVE HoldsAt(m, w, s, i + 1, b, v)
  BY <1>2, <1>3, <1>5 DEF HoldsAt
<1> QED
  BY <1>4, <1>5

(* Streams that do not concern a block leave it as it is. *)
LEMMA HomeElsewhere ==
  ASSUME NEW m, InfersNot(m), NEW s \in Streams, NEW t \in Streams, s # t, NEW b, Home(m, b, s)
  PROVE  \A j \in DOMAIN m.queue[t] : ~Writes(m, t, j, b)
  BY Mentioned DEF Home

(* What a block will hold can be told at the end of any stream that is its home. *)
LEMMA HeldAtHome ==
  ASSUME NEW m, InfersNot(m), NEW w, NEW s \in Streams, NEW b, NEW v, Home(m, b, s)
  PROVE  WillHold(m, w, b, v) <=> HoldsAt(m, w, s, Len(m.queue[s]) + 1, b, v)
<1>1. ASSUME NEW t \in Streams, t # s, Home(m, b, t), HoldsAt(m, w, t, Len(m.queue[t]) + 1, b, v)
      PROVE  HoldsAt(m, w, s, Len(m.queue[s]) + 1, b, v)
  <2>1. \A j \in DOMAIN m.queue[t] : ~Writes(m, t, j, b)
    BY <1>1, HomeElsewhere
  <2>2. \A j \in DOMAIN m.queue[s] : ~Writes(m, s, j, b)
    BY <1>1, HomeElsewhere
  <2>3. m.blocks[b].value = v
    BY <1>1, <2>1 DEF HoldsAt
  <2> QED
    BY <2>2, <2>3 DEF HoldsAt
<1> QED
  BY <1>1 DEF WillHold

(* A block that nothing concerns holds what it will. *)
LEMMA HeldIdle ==
  ASSUME NEW m, InfersNot(m), current \in Devices, NEW w, NEW b, NEW v, Idle(m, b)
  PROVE  WillHold(m, w, b, v) <=> m.blocks[b].value = v
<1>1. <<current, 0>> \in Streams
  BY DEF Streams
<1> DEFINE s == <<current, 0>>
<1>2. \A t \in Streams : Home(m, b, t)
  BY DEF Idle, Home
<1>3. \A j \in DOMAIN m.queue[s] : ~Writes(m, s, j, b)
  BY <1>1, Mentioned DEF Idle
<1>4. HoldsAt(m, w, s, Len(m.queue[s]) + 1, b, v) <=> m.blocks[b].value = v
  BY <1>3 DEF HoldsAt
<1> HIDE DEF s
<1> QED
  BY <1>1, <1>2, <1>4, HeldAtHome DEF s

(* What concerns a block on the host is done at once. *)
LEMMA HostIdle ==
  ASSUME NEW m, NEW w, Good(m, w), NEW b, m.blocks[b].mem = "cpu"
  PROVE  Idle(m, b)
  BY DEF Good, Foretold, EntryForetold, Idle

-----------------------------------------------------------------------------
(* A block that nothing waiting concerns is put in another state. *)
LEMMA PutKnown ==
  ASSUME NEW m, NEW w, Good(m, w), current \in Devices, NEW b \in Numbers, Idle(m, b), NEW x \in BlockType,
         NEW m2, m2 = WithBlock(m, b, x)
  PROVE  /\ Good(m2, w) /\ Passes(m, w, m2, w, {b}) /\ StaysHome(m, m2, {}) /\ WillHold(m2, w, b, x.value)
         /\ Idle(m2, b)
<1>1. BlockPut(m, b, x, m2) /\ InfersNot(m2)
  BY BlockChanged, PutInfersNot DEF Good, InfersNot
<1>2. m2.queue = m.queue /\ m2.blocks[b] = x /\ \A c \in Numbers \ {b} : m2.blocks[c] = m.blocks[c]
  BY <1>1 DEF BlockPut
<1>3. InfersNot(m) /\ Typed(m) /\ w \in [Entries(m) -> Contents] /\ Foretold(m, w)
  BY DEF Good, InfersNot
<1>4. ASSUME NEW s, NEW i, NEW c \in Numbers, c # b, NEW v, HoldsAt(m, w, s, i, c, v)
      PROVE  HoldsAt(m2, w, s, i, c, v)
  BY <1>2, <1>4, HoldsAtSame
<1>5. \A c, t : Home(m2, c, t) <=> Home(m, c, t)
  BY <1>2 DEF Home
<1>6. ASSUME NEW s \in Streams, NEW i \in DOMAIN m2.queue[s] PROVE EntryForetold(m2, w, s, i)
  <2> DEFINE op == m.queue[s][i]
  <2>1. m2.queue[s][i] = op /\ i \in DOMAIN m.queue[s]
    BY <1>2, <1>6
  <2>2. EntryForetold(m, w, s, i) /\ MentionedBy(op) \subseteq Numbers /\ b \notin MentionedBy(op)
    BY <1>3, <2>1, Mentioned DEF Foretold, Idle
  <2>3. ASSUME NEW c \in MentionedBy(op) PROVE Home(m2, c, s) /\ m2.blocks[c].mem = "gpu"
    BY <1>2, <1>5, <2>2, <2>3 DEF EntryForetold
  <2>4. op.do = "copy" => HoldsAt(m2, w, s, i, op.from, w[<<s, i>>])
    <3> SUFFICES ASSUME op.do = "copy" PROVE HoldsAt(m2, w, s, i, op.from, w[<<s, i>>])
      OBVIOUS
    <3>1. op.from \in MentionedBy(op)
      BY DEF MentionedBy
    <3>2. op.from \in Numbers /\ op.from # b
      BY <2>2, <3>1
    <3> QED
      BY <1>4, <2>2, <3>2 DEF EntryForetold
  <2>5. \A j \in DOMAIN m2.queue[s] : Freed(m2, s, i) \in MentionedBy(m2.queue[s][j]) => j <= i
    BY <1>2, <2>2 DEF EntryForetold, Freed
  <2> QED
    BY <2>1, <2>2, <2>3, <2>4, <2>5 DEF EntryForetold
<1>7. Good(m2, w)
  <2>1. Entries(m2) = Entries(m)
    BY <1>2 DEF Entries
  <2> QED
    BY <1>1, <1>3, <1>6, <2>1 DEF Good, Foretold
<1>8. Passes(m, w, m2, w, {b})
  BY <1>2, <1>4, <1>5 DEF Passes, WillHold
<1>9. StaysHome(m, m2, {})
  BY <1>5 DEF StaysHome
<1>10. Idle(m2, b)
  BY <1>2 DEF Idle
<1>11. WillHold(m2, w, b, x.value)
  BY <1>1, <1>2, <1>10, HeldIdle
<1> QED
  BY <1>7, <1>8, <1>9, <1>10, <1>11

(* Work that may be submitted to stream s, where op writes v. *)
Admissible(m, w, s, op, v) ==
  /\ op.do # "infer"
  /\ \A b \in MentionedBy(op) :
       Home(m, b, s) /\ m.blocks[b].mem = "gpu" /\ \A t \in Streams, i \in Nat : Freed(m, t, i) # b
  /\ op.do = "fill" => v = op.value
  /\ op.do = "copy" => HoldsAt(m, w, s, Len(m.queue[s]) + 1, op.from, v)

(* What is submitted writes w at the end of stream s, and the others what they did. *)
Extended(m, w, m2, s, v) ==
  [e \in Entries(m2) |-> IF e = <<s, Len(m.queue[s]) + 1>> THEN v ELSE w[e]]

(* The queue and what is known of it, once there is one more entry. *)
LEMMA ExtendedEntries ==
  ASSUME NEW m, InfersNot(m), NEW w \in [Entries(m) -> Contents], NEW s \in Streams, NEW op \in Operation,
         NEW v \in Contents, NEW m2, m2 = Submit(m, s, op), NEW w2, w2 = Extended(m, w, m2, s, v),
         NEW last, last = Len(m.queue[s]) + 1
  PROVE  /\ w2 \in [Entries(m2) -> Contents] /\ w2[<<s, last>>] = v
         /\ \A t \in Streams : \A i \in DOMAIN m.queue[t] : w2[<<t, i>>] = w[<<t, i>>]
         /\ last \in Nat /\ last \in DOMAIN m2.queue[s] /\ Len(m2.queue[s]) = last
         /\ \A t \in Streams : \A i \in DOMAIN m2.queue[t] :
              i \in DOMAIN m.queue[t] \/ (t = s /\ i = last)
         /\ \A i \in DOMAIN m.queue[s] : i \in Nat /\ i < last
<1>1. /\ Typed(m2) /\ Len(m2.queue[s]) = last
      /\ \A t \in Streams \ {s} : m2.queue[t] = m.queue[t]
      /\ \A t \in Streams : \A i \in DOMAIN m.queue[t] : i \in DOMAIN m2.queue[t]
  BY Submitted DEF InfersNot
<1>2. /\ DOMAIN m.queue[s] = 1 .. Len(m.queue[s]) /\ Len(m.queue[s]) \in Nat
      /\ DOMAIN m2.queue[s] = 1 .. Len(m2.queue[s])
  BY <1>1, MemoryFields DEF InfersNot
<1>3. \A i \in DOMAIN m.queue[s] : i \in Nat /\ i < last
  BY <1>2
<1>4. last \in Nat /\ last \in DOMAIN m2.queue[s] /\ last \notin DOMAIN m.queue[s]
  BY <1>1, <1>2
<1>5. ASSUME NEW t \in Streams, NEW i \in DOMAIN m2.queue[t]
      PROVE  i \in DOMAIN m.queue[t] \/ (t = s /\ i = last)
  <2>1. CASE t = s
    BY <1>1, <1>2, <1>5, <2>1
  <2>2. CASE t # s
    BY <1>1, <1>5, <2>2
  <2> QED
    BY <2>1, <2>2
<1>6. ASSUME NEW e \in Entries(m2), e # <<s, last>> PROVE e \in Entries(m)
  <2>1. e[1] \in Streams /\ e[2] \in DOMAIN m2.queue[e[1]] /\ e = <<e[1], e[2]>>
    BY <1>1, EntryOf
  <2>2. e[2] \in DOMAIN m.queue[e[1]]
    BY <1>5, <1>6, <2>1
  <2> QED
    BY <2>1, <2>2, EntryOf DEF InfersNot
<1>7. w2 = [e \in Entries(m2) |-> IF e = <<s, last>> THEN v ELSE w[e]]
  BY DEF Extended
<1>8. w2 \in [Entries(m2) -> Contents]
  BY <1>6, <1>7
<1>9. w2[<<s, last>>] = v
  <2>1. <<s, last>> \in Entries(m2)
    BY <1>1, <1>4, EntryOf
  <2> QED
    BY <1>7, <2>1
<1>10. ASSUME NEW t \in Streams, NEW i \in DOMAIN m.queue[t] PROVE w2[<<t, i>>] = w[<<t, i>>]
  <2>1. <<t, i>> \in Entries(m2)
    BY <1>1, EntryOf
  <2>2. <<t, i>> # <<s, last>>
    BY <1>4
  <2> QED
    BY <1>7, <2>1, <2>2
<1> QED
  BY <1>1, <1>3, <1>4, <1>5, <1>8, <1>9, <1>10

(* What waits, op among it, is known, and op will write v. *)
SubmittedKnown(m, w, m2, op, v) == \E w2 :
  /\ Good(m2, w2) /\ Passes(m, w, m2, w2, {op.to})
  /\ op.do # "free" => WillHold(m2, w2, op.to, v)

(* Work that is submitted leaves what is known of the rest, and will write v. *)
LEMMA SubmitKnown ==
  ASSUME NEW m, NEW w, Good(m, w), NEW s \in Streams, NEW op \in Operation, NEW v \in Contents,
         Admissible(m, w, s, op, v), NEW m2, m2 = Submit(m, s, op)
  PROVE  SubmittedKnown(m, w, m2, op, v) /\ StaysHome(m, m2, MentionedBy(op))
<1> DEFINE last == Len(m.queue[s]) + 1
           w2 == Extended(m, w, m2, s, v)
<1>1. /\ InfersNot(m) /\ Typed(m) /\ w \in [Entries(m) -> Contents] /\ Foretold(m, w)
      /\ op.do \in {"fill", "copy", "free"}
  BY OperationForms DEF Good, InfersNot, Admissible
<1>2. Typed(m2) /\ InfersNot(m2)
  BY <1>1, Submitted, SubmitInfersNot DEF Admissible
<1>3. /\ m2.blocks = m.blocks /\ m2.queue[s][last] = op
      /\ \A t \in Streams \ {s} : m2.queue[t] = m.queue[t]
      /\ \A t \in Streams : \A i \in DOMAIN m.queue[t] : i \in DOMAIN m2.queue[t] /\ m2.queue[t][i] = m.queue[t][i]
  BY <1>1, Submitted
<1>4. /\ w2 \in [Entries(m2) -> Contents] /\ w2[<<s, last>>] = v
      /\ \A t \in Streams : \A i \in DOMAIN m.queue[t] : w2[<<t, i>>] = w[<<t, i>>]
      /\ last \in Nat /\ last \in DOMAIN m2.queue[s] /\ Len(m2.queue[s]) = last
      /\ \A t \in Streams : \A i \in DOMAIN m2.queue[t] : i \in DOMAIN m.queue[t] \/ (t = s /\ i = last)
      /\ \A i \in DOMAIN m.queue[s] : i \in Nat /\ i < last
  BY <1>1, ExtendedEntries
<1>5. /\ op.do = "copy" => MentionedBy(op) = {op.from, op.to}
      /\ op.do # "copy" => MentionedBy(op) = {op.to}
      /\ op.to \in MentionedBy(op) /\ MentionedBy(op) \subseteq Numbers
  BY <1>1, OperationForms DEF MentionedBy
<1>6. \A t \in Streams, i \in Nat : <<t, i>> # <<s, last>> => Freed(m2, t, i) = Freed(m, t, i)
  BY <1>1, SubmittedFrees
<1>7. last = Len(m.queue[s]) + 1
  OBVIOUS
<1> HIDE DEF last, w2
<1>8. ASSUME NEW t \in Streams, NEW i, i \in DOMAIN m.queue[t] \/ (t = s /\ i = last) \/ t # s,
             NEW b, NEW u, HoldsAt(m, w, t, i, b, u)
      PROVE  HoldsAt(m2, w2, t, i, b, u)
  <2>1. \A j \in DOMAIN m2.queue[t] : j < i => j \in DOMAIN m.queue[t]
    BY <1>1, <1>3, <1>4, <1>8, MemoryFields
  <2>2. \A j \in DOMAIN m.queue[t] : j < i =>
          j \in DOMAIN m2.queue[t] /\ m2.queue[t][j] = m.queue[t][j] /\ w2[<<t, j>>] = w[<<t, j>>]
    BY <1>3, <1>4
  <2> QED
    BY <1>3, <1>8, <2>1, <2>2, HoldsAtSame
<1>9. ASSUME NEW b, NEW t \in Streams, Home(m, b, t), b \notin MentionedBy(op) \/ t = s
      PROVE  Home(m2, b, t)
  <2> SUFFICES ASSUME NEW q \in Streams \ {t}, NEW i \in DOMAIN m2.queue[q] PROVE b \notin MentionedBy(m2.queue[q][i])
    BY DEF Home
  <2>1. CASE i \in DOMAIN m.queue[q]
    BY <1>3, <1>9, <2>1 DEF Home
  <2>2. CASE q = s /\ i = last
    BY <1>3, <1>9, <2>2
  <2> QED
    BY <1>4, <2>1, <2>2
<1>10. StaysHome(m, m2, MentionedBy(op))
  BY <1>9 DEF StaysHome
<1>11. EntryForetold(m2, w2, s, last)
  <2>1. \A b \in MentionedBy(op) : Home(m2, b, s) /\ m2.blocks[b].mem = "gpu"
    BY <1>3, <1>9 DEF Admissible
  <2>2. op.do = "copy" => HoldsAt(m2, w2, s, last, op.from, v)
    BY <1>7, <1>8 DEF Admissible
  <2>3. \A j \in DOMAIN m2.queue[s] : j <= last
    BY <1>4
  <2> QED
    BY <1>3, <1>4, <2>1, <2>2, <2>3 DEF EntryForetold, Admissible
<1>12. ASSUME NEW t \in Streams, NEW i \in DOMAIN m.queue[t] PROVE EntryForetold(m2, w2, t, i)
  <2> DEFINE o == m.queue[t][i]
  <2>1. m2.queue[t][i] = o /\ w2[<<t, i>>] = w[<<t, i>>] /\ EntryForetold(m, w, t, i) /\ i \in Nat
        /\ <<t, i>> # <<s, last>>
    BY <1>1, <1>3, <1>4, Mentioned DEF Foretold
  <2>2. ASSUME NEW b \in MentionedBy(o) PROVE Home(m2, b, t) /\ m2.blocks[b].mem = "gpu"
    <3>1. Home(m, b, t) /\ m.blocks[b].mem = "gpu"
      BY <2>1, <2>2 DEF EntryForetold
    <3>2. b \notin MentionedBy(op) \/ t = s
      BY <2>2 DEF Admissible, Home
    <3> QED
      BY <1>3, <1>9, <3>1, <3>2
  <2>3. ASSUME o.do = "copy" PROVE HoldsAt(m2, w2, t, i, o.from, w[<<t, i>>])
    <3>1. HoldsAt(m, w, t, i, o.from, w[<<t, i>>])
      BY <2>1, <2>3 DEF EntryForetold
    <3> QED
      BY <1>8, <3>1
  <2>4. ASSUME NEW j \in DOMAIN m2.queue[t], Freed(m2, t, i) \in MentionedBy(m2.queue[t][j]) PROVE j <= i
    <3>1. Freed(m2, t, i) = Freed(m, t, i)
      BY <1>6, <2>1
    <3>2. CASE j \in DOMAIN m.queue[t]
      BY <1>3, <2>1, <2>4, <3>1, <3>2 DEF EntryForetold
    <3>3. CASE t = s /\ j = last
      <4>1. Freed(m, t, i) \in MentionedBy(op)
        BY <1>3, <2>4, <3>1, <3>3
      <4> QED
        BY <2>1, <4>1 DEF Admissible
    <3> QED
      BY <1>4, <3>2, <3>3
  <2>5. o.do = "fill" => w[<<t, i>>] = o.value
    BY <2>1 DEF EntryForetold
  <2> HIDE DEF o
  <2> QED
    BY <2>1, <2>2, <2>3, <2>4, <2>5 DEF EntryForetold
<1>13. Good(m2, w2)
  BY <1>2, <1>4, <1>11, <1>12 DEF Good, Foretold
<1>14. ASSUME NEW b \in Numbers \ {op.to}, NEW u \in Contents, WillHold(m, w, b, u) PROVE WillHold(m2, w2, b, u)
  <2>1. ~Writes(m2, s, last, b)
    BY <1>3, <1>14 DEF Writes
  <2>2. CASE Home(m, b, s)
    <3>1. HoldsAt(m, w, s, last, b, u)
      BY <1>1, <1>7, <1>14, <2>2, HeldAtHome
    <3>2. HoldsAt(m2, w2, s, last, b, u)
      BY <1>8, <3>1
    <3>3. HoldsAt(m2, w2, s, Len(m2.queue[s]) + 1, b, u)
      BY <1>2, <1>4, <2>1, <3>2, HoldsAtNext
    <3> QED
      BY <1>9, <2>2, <3>3 DEF WillHold
  <2>3. CASE ~Home(m, b, s)
    <3>1. PICK t \in Streams : Home(m, b, t) /\ HoldsAt(m, w, t, Len(m.queue[t]) + 1, b, u)
      BY <1>14 DEF WillHold
    <3>2. t # s /\ b \notin MentionedBy(op) /\ m2.queue[t] = m.queue[t]
      BY <1>3, <2>3, <3>1 DEF Admissible
    <3>3. HoldsAt(m2, w2, t, Len(m2.queue[t]) + 1, b, u)
      BY <1>8, <3>1, <3>2
    <3> QED
      BY <1>9, <3>1, <3>2, <3>3 DEF WillHold
  <2> QED
    BY <2>2, <2>3
<1>15. ASSUME op.do # "free" PROVE WillHold(m2, w2, op.to, v)
  <2>1. Writes(m2, s, last, op.to) /\ Home(m, op.to, s)
    BY <1>1, <1>3, <1>5, <1>15 DEF Writes, Admissible
  <2>2. HoldsAt(m2, w2, s, Len(m2.queue[s]) + 1, op.to, v)
    BY <1>2, <1>4, <2>1, HoldsAtNext
  <2> QED
    BY <1>9, <2>1, <2>2 DEF WillHold
<1> QED
  BY <1>10, <1>13, <1>14, <1>15 DEF SubmittedKnown, Passes

-----------------------------------------------------------------------------
(* A stream has run its first entry. *)

(* What running the first entry of stream s does. *)
Ran(m, m2, s) ==
  LET op == m.queue[s][1]
  IN  /\ \A t \in Streams \ {s} : m2.queue[t] = m.queue[t]
      /\ Len(m2.queue[s]) = Len(m.queue[s]) - 1
      /\ \A i \in DOMAIN m2.queue[s] : m2.queue[s][i] = m.queue[s][i + 1]
      /\ \A b \in Numbers \ {op.to} : m2.blocks[b] = m.blocks[b]
      /\ op.do # "free" => m2.blocks[op.to].mem = m.blocks[op.to].mem
      /\ op.do = "fill" => m2.blocks[op.to].value = op.value
      /\ op.do = "copy" => m2.blocks[op.to].value = m.blocks[op.from].value

(* That is what Run does to memory. *)
LEMMA RunRan ==
  ASSUME MemoryInv, NoInference(Now), NEW s \in Streams, Run(s)
  PROVE  Ran(Now, Now', s) /\ queue[s] # <<>> /\ NoInference(Now')
<1> DEFINE q == queue[s]
           op == q[1]
<1>1. InfersNot(Now) /\ blocks \in [Numbers -> BlockType] /\ queue \in [Streams -> Seq(Operation)]
  BY NowFields, MemoryFields DEF MemoryInv, InfersNot
<1>2. q \in Seq(Operation) /\ q # <<>>
  BY <1>1 DEF Run
<1>3. /\ Head(q) = op /\ op \in Operation /\ 1 \in DOMAIN q
      /\ Len(Tail(q)) = Len(q) - 1 /\ Len(q) \in Nat \ {0}
      /\ DOMAIN Tail(q) = 1 .. Len(q) - 1 /\ DOMAIN q = 1 .. Len(q)
      /\ \A i \in 1 .. Len(q) - 1 : Tail(q)[i] = q[i + 1]
  BY <1>2, TailOfQueue
<1>4. queue' = [queue EXCEPT ![s] = Tail(q)]
  BY DEF Run
<1>5. blocks' = CASE op.do = "fill"  -> [blocks EXCEPT ![op.to].value = op.value]
                  [] op.do = "copy"  -> [blocks EXCEPT ![op.to].value = blocks[op.from].value]
                  [] op.do = "free"  -> [blocks EXCEPT ![op.to] = NoBlock]
                  [] op.do = "infer" -> blocks
  BY <1>3 DEF Run
<1>6. Now'.blocks = blocks' /\ Now'.queue = queue'
  BY DEF Now
<1>7. op.do \in {"fill", "copy", "free"}
  BY <1>1, <1>3, NowFields, Mentioned
<1> HIDE DEF op
<1>8. op.to \in Numbers
  BY <1>3, <1>7, OperationForms
<1>9. /\ \A b \in Numbers \ {op.to} : blocks'[b] = blocks[b]
      /\ op.do # "free" => blocks'[op.to].mem = blocks[op.to].mem
      /\ op.do = "fill" => blocks'[op.to].value = op.value
      /\ op.do = "copy" => blocks'[op.to].value = blocks[op.from].value
  <2>1. CASE op.do = "free"
    <3>1. blocks' = [blocks EXCEPT ![op.to] = NoBlock]
      BY <1>5, <2>1
    <3> QED
      BY <1>1, <2>1, <3>1
  <2>2. CASE op.do # "free"
    <3> DEFINE v == IF op.do = "fill" THEN op.value ELSE blocks[op.from].value
               x == [blocks[op.to] EXCEPT !.value = v]
    <3>1. blocks' = [blocks EXCEPT ![op.to] = x]
      BY <1>5, <1>7, <2>2
    <3>2. x.mem = blocks[op.to].mem /\ x.value = v
      BY <1>1, <1>8 DEF BlockType
    <3> HIDE DEF x
    <3>3. blocks'[op.to] = x /\ \A b \in Numbers \ {op.to} : blocks'[b] = blocks[b]
      BY <1>1, <1>8, <3>1
    <3> QED
      BY <1>7, <2>2, <3>2, <3>3
  <2> QED
    BY <2>1, <2>2
<1>10. /\ \A t \in Streams \ {s} : queue'[t] = queue[t]
       /\ queue'[s] = Tail(q) /\ Len(queue'[s]) = Len(queue[s]) - 1
       /\ \A i \in DOMAIN queue'[s] : queue'[s][i] = queue[s][i + 1] /\ i + 1 \in DOMAIN queue[s]
  BY <1>1, <1>3, <1>4
<1>11. ASSUME NEW t \in Streams, NEW i \in DOMAIN queue'[t] PROVE queue'[t][i].do # "infer"
  <2>1. CASE t = s
    BY <1>10, <1>11, <2>1, NowFields DEF NoInference
  <2>2. CASE t # s
    BY <1>10, <1>11, <2>2, NowFields DEF NoInference
  <2> QED
    BY <2>1, <2>2
<1>12. NoInference(Now')
  BY <1>6, <1>11 DEF NoInference
<1> QED
  BY <1>2, <1>6, <1>9, <1>10, <1>12, NowFields DEF Ran, op

(* Entries of stream s are one place further to the front. *)
Shifted(w, m2, s) == [e \in Entries(m2) |-> IF e[1] = s THEN w[<<s, e[2] + 1>>] ELSE w[e]]
Sooner(s, t, i) == IF t = s THEN i + 1 ELSE i

(* The queues and what is known of them, once there is one entry less. *)
LEMMA ShiftedEntries ==
  ASSUME NEW m, InfersNot(m), NEW m2, InfersNot(m2), NEW w \in [Entries(m) -> Contents], NEW s \in Streams,
         m.queue[s] # <<>>, Ran(m, m2, s), NEW w2, w2 = Shifted(w, m2, s)
  PROVE  /\ w2 \in [Entries(m2) -> Contents]
         /\ 1 \in DOMAIN m.queue[s]
         /\ \A t \in Streams : \A i \in DOMAIN m2.queue[t] :
              /\ i \in Nat /\ Sooner(s, t, i) \in Nat /\ Sooner(s, t, i) \in DOMAIN m.queue[t]
              /\ m2.queue[t][i] = m.queue[t][Sooner(s, t, i)]
              /\ w2[<<t, i>>] = w[<<t, Sooner(s, t, i)>>]
         /\ \A i \in DOMAIN m.queue[s] : i \in Nat /\ (i # 1 => i - 1 \in DOMAIN m2.queue[s])
         /\ \A t \in Streams : Later(s, t, Len(m.queue[t]) + 1) = Len(m2.queue[t]) + 1
<1>1. \A t \in Streams :
        /\ DOMAIN m.queue[t] = 1 .. Len(m.queue[t]) /\ DOMAIN m2.queue[t] = 1 .. Len(m2.queue[t])
        /\ Len(m.queue[t]) \in Nat /\ Len(m2.queue[t]) \in Nat
  BY MemoryFields DEF InfersNot
<1>2. m.queue[s] \in Seq(Operation)
  BY MemoryFields DEF InfersNot
<1>3. 1 \in DOMAIN m.queue[s]
  BY <1>2, TailOfQueue
<1>4. ASSUME NEW t \in Streams, NEW i \in DOMAIN m2.queue[t]
      PROVE  /\ i \in Nat /\ Sooner(s, t, i) \in Nat /\ Sooner(s, t, i) \in DOMAIN m.queue[t]
             /\ m2.queue[t][i] = m.queue[t][Sooner(s, t, i)]
  <2>1. CASE t = s
    <3>1. Sooner(s, t, i) = i + 1 /\ m2.queue[s][i] = m.queue[s][i + 1]
      BY <1>4, <2>1 DEF Sooner, Ran
    <3>2. i \in Nat /\ i + 1 \in DOMAIN m.queue[s]
      BY <1>1, <1>4, <2>1 DEF Ran
    <3> QED
      BY <2>1, <3>1, <3>2
  <2>2. CASE t # s
    BY <1>1, <1>4, <2>2 DEF Sooner, Ran
  <2> QED
    BY <2>1, <2>2
<1>5. ASSUME NEW e \in Entries(m2)
      PROVE  /\ e[1] \in Streams /\ e[2] \in DOMAIN m2.queue[e[1]] /\ e = <<e[1], e[2]>>
             /\ <<e[1], Sooner(s, e[1], e[2])>> \in Entries(m)
             /\ w2[e] = w[<<e[1], Sooner(s, e[1], e[2])>>]
  <2>1. e[1] \in Streams /\ e[2] \in DOMAIN m2.queue[e[1]] /\ e = <<e[1], e[2]>>
    BY EntryOf DEF InfersNot
  <2>2. <<e[1], Sooner(s, e[1], e[2])>> \in Entries(m)
    BY <1>4, <2>1, EntryOf DEF InfersNot
  <2>3. w2[e] = IF e[1] = s THEN w[<<s, e[2] + 1>>] ELSE w[e]
    BY DEF Shifted
  <2> QED
    BY <2>1, <2>2, <2>3 DEF Sooner
<1>6. w2 \in [Entries(m2) -> Contents]
  <2>1. w2 = [e \in Entries(m2) |-> w2[e]]
    BY DEF Shifted
  <2>2. \A e \in Entries(m2) : w2[e] \in Contents
    BY <1>5
  <2> QED
    BY <2>1, <2>2
<1>7. ASSUME NEW t \in Streams, NEW i \in DOMAIN m2.queue[t] PROVE w2[<<t, i>>] = w[<<t, Sooner(s, t, i)>>]
  <2>1. <<t, i>> \in Entries(m2)
    BY EntryOf DEF InfersNot
  <2> QED
    BY <1>5, <2>1
<1>8. \A i \in DOMAIN m.queue[s] : i \in Nat /\ (i # 1 => i - 1 \in DOMAIN m2.queue[s])
  BY <1>1 DEF Ran
<1>9. ASSUME NEW t \in Streams PROVE Later(s, t, Len(m.queue[t]) + 1) = Len(m2.queue[t]) + 1
  <2>1. CASE t = s
    <3>1. Later(s, t, Len(m.queue[t]) + 1) = (Len(m.queue[s]) + 1) - 1
      BY <2>1 DEF Later
    <3> QED
      BY <1>1, <2>1, <3>1 DEF Ran
  <2>2. CASE t # s
    BY <2>2 DEF Ran, Later
  <2> QED
    BY <2>1, <2>2
<1> QED
  BY <1>3, <1>4, <1>6, <1>7, <1>8, <1>9

(* What the first entry wrote is what it was known to write. *)
LEMMA FirstWritten ==
  ASSUME NEW m, NEW w, Good(m, w), NEW m2, NEW s \in Streams, 1 \in DOMAIN m.queue[s], Ran(m, m2, s),
         NEW b, Writes(m, s, 1, b)
  PROVE  m2.blocks[b].value = w[<<s, 1>>]
<1> DEFINE op == m.queue[s][1]
<1>1. EntryForetold(m, w, s, 1)
  BY DEF Good, Foretold
<1>2. op.do \in {"fill", "copy"} /\ b = op.to
  BY DEF Writes
<1>3. CASE op.do = "fill"
  BY <1>1, <1>2, <1>3 DEF EntryForetold, Ran
<1>4. CASE op.do = "copy"
  <2>1. HoldsAt(m, w, s, 1, op.from, w[<<s, 1>>])
    BY <1>1, <1>4 DEF EntryForetold
  <2>2. \A j \in DOMAIN m.queue[s] : ~(j < 1)
    BY MemoryFields DEF Good, InfersNot
  <2>3. m.blocks[op.from].value = w[<<s, 1>>]
    BY <2>1, <2>2 DEF HoldsAt
  <2> QED
    BY <1>2, <1>4, <2>3 DEF Ran
<1> QED
  BY <1>2, <1>3, <1>4

(* The first entry concerns block b no more than the others of its stream. *)
Beside(m, s, t, b) == t # s => b \notin MentionedBy(m.queue[s][1])

(* What a block holds at the turn of an entry it holds at that turn one step later. *)
LEMMA HoldsAtLater ==
  ASSUME NEW m, NEW w, Good(m, w), NEW m2, InfersNot(m2), NEW s \in Streams, m.queue[s] # <<>>,
         Ran(m, m2, s), NEW w2, w2 = Shifted(w, m2, s),
         NEW b \in Numbers, Freed(m, s, 1) # b, NEW t \in Streams, Beside(m, s, t, b),
         NEW i \in Nat, t = s => i > 1, NEW v, HoldsAt(m, w, t, i, b, v)
  PROVE  HoldsAt(m2, w2, t, Later(s, t, i), b, v)
<1>1. InfersNot(m) /\ w \in [Entries(m) -> Contents]
  BY DEF Good
<1>2. /\ 1 \in DOMAIN m.queue[s]
      /\ \A q \in Streams : \A j \in DOMAIN m2.queue[q] :
           /\ j \in Nat /\ Sooner(s, q, j) \in DOMAIN m.queue[q]
           /\ m2.queue[q][j] = m.queue[q][Sooner(s, q, j)]
           /\ w2[<<q, j>>] = w[<<q, Sooner(s, q, j)>>]
      /\ \A j \in DOMAIN m.queue[s] : j \in Nat /\ (j # 1 => j - 1 \in DOMAIN m2.queue[s])
  BY <1>1, ShiftedEntries
<1>3. /\ m.queue[s][1].do \in {"fill", "copy", "free"}
      /\ \A c : Writes(m, s, 1, c) => c \in MentionedBy(m.queue[s][1])
  BY <1>1, <1>2, Mentioned
<1>4. m.queue[s][1].do = "free" => m.queue[s][1].to # b
  BY <1>2 DEF Freed
<1>5. ~Writes(m, s, 1, b) => m2.blocks[b] = m.blocks[b]
  BY <1>3, <1>4 DEF Writes, Ran
<1>6. CASE t # s
  <2>1. m2.blocks[b] = m.blocks[b]
    BY <1>3, <1>5, <1>6 DEF Beside
  <2>2. m2.queue[t] = m.queue[t]
    BY <1>6 DEF Ran
  <2>3. \A j \in DOMAIN m.queue[t] : w2[<<t, j>>] = w[<<t, j>>]
    BY <1>2, <1>6, <2>2 DEF Sooner
  <2>4. Later(s, t, i) = i
    BY <1>6 DEF Later
  <2> QED
    BY <2>1, <2>2, <2>3, <2>4, HoldsAtSame
<1>7. CASE t = s
  <2>1. Later(s, t, i) = i - 1 /\ i > 1
    BY <1>7 DEF Later
  <2>2. ASSUME NEW j \in DOMAIN m2.queue[s]
        PROVE  /\ j \in Nat /\ j + 1 \in DOMAIN m.queue[s] /\ w2[<<s, j>>] = w[<<s, j + 1>>]
               /\ \A c : Writes(m2, s, j, c) <=> Writes(m, s, j + 1, c)
               /\ (j < i - 1 <=> j + 1 < i)
    BY <1>2, <2>2 DEF Sooner, Writes
  <2>3. CASE m.blocks[b].value = v /\ \A j \in DOMAIN m.queue[s] : j < i => ~Writes(m, s, j, b)
    <3>1. m2.blocks[b].value = v
      BY <1>2, <1>5, <2>1, <2>3
    <3>2. \A j \in DOMAIN m2.queue[s] : j < i - 1 => ~Writes(m2, s, j, b)
      BY <2>2, <2>3
    <3> QED
      BY <1>7, <2>1, <3>1, <3>2 DEF HoldsAt
  <2>4. ASSUME NEW j \in DOMAIN m.queue[s], j < i, Writes(m, s, j, b), w[<<s, j>>] = v,
               \A k \in DOMAIN m.queue[s] : k < i /\ Writes(m, s, k, b) => k <= j
        PROVE  HoldsAt(m2, w2, s, i - 1, b, v)
    <3>1. CASE j = 1
      <4>1. m2.blocks[b].value = v
        BY <1>2, <2>4, <3>1, FirstWritten
      <4>2. ASSUME NEW k \in DOMAIN m2.queue[s], k < i - 1, Writes(m2, s, k, b) PROVE FALSE
        <5>1. k \in Nat /\ k + 1 \in DOMAIN m.queue[s] /\ k + 1 < i /\ Writes(m, s, k + 1, b)
          BY <2>2, <4>2
        <5>2. k + 1 <= 1
          BY <2>4, <3>1, <5>1
        <5>3. k = 0
          BY <5>1, <5>2
        <5> QED
          BY <4>2, <5>3, <1>1, MemoryFields DEF InfersNot
      <4> QED
        BY <4>1, <4>2 DEF HoldsAt
    <3>2. CASE j # 1
      <4> DEFINE l == j - 1
      <4>1. l \in DOMAIN m2.queue[s] /\ j \in Nat /\ l + 1 = j
        BY <1>2, <2>4, <3>2
      <4> HIDE DEF l
      <4>2. l \in Nat /\ l < i - 1 /\ Writes(m2, s, l, b) /\ w2[<<s, l>>] = v
        BY <2>2, <2>4, <4>1
      <4>3. ASSUME NEW k \in DOMAIN m2.queue[s], k < i - 1, Writes(m2, s, k, b) PROVE k <= l
        <5>1. k \in Nat /\ k + 1 \in DOMAIN m.queue[s] /\ k + 1 < i /\ Writes(m, s, k + 1, b)
          BY <2>2, <4>3
        <5>2. k + 1 <= j
          BY <2>4, <5>1
        <5> QED
          BY <4>1, <4>2, <5>1, <5>2
      <4> QED
        BY <4>1, <4>2, <4>3 DEF HoldsAt
    <3> QED
      BY <3>1, <3>2
  <2> QED
    BY <1>7, <2>1, <2>3, <2>4 DEF HoldsAt
<1> QED
  BY <1>6, <1>7

(* What waits is known to write the same when a stream has run its first entry. *)
LEMMA RunKnown ==
  ASSUME NEW m, NEW w, Good(m, w), NEW m2, InfersNot(m2), NEW s \in Streams, m.queue[s] # <<>>,
         Ran(m, m2, s)
  PROVE  \E w2 : Good(m2, w2) /\ Passes(m, w, m2, w2, {Freed(m, s, 1)})
<1> DEFINE w2 == Shifted(w, m2, s)
           head == m.queue[s][1]
           gone == Freed(m, s, 1)
<1>1. InfersNot(m) /\ w \in [Entries(m) -> Contents] /\ Foretold(m, w)
  BY DEF Good
<1>2. /\ w2 \in [Entries(m2) -> Contents]
      /\ 1 \in DOMAIN m.queue[s]
      /\ \A t \in Streams : \A i \in DOMAIN m2.queue[t] :
           /\ i \in Nat /\ Sooner(s, t, i) \in Nat /\ Sooner(s, t, i) \in DOMAIN m.queue[t]
           /\ m2.queue[t][i] = m.queue[t][Sooner(s, t, i)]
           /\ w2[<<t, i>>] = w[<<t, Sooner(s, t, i)>>]
      /\ \A t \in Streams : Later(s, t, Len(m.queue[t]) + 1) = Len(m2.queue[t]) + 1
  BY <1>1, ShiftedEntries
<1>3. w2 = Shifted(w, m2, s)
  OBVIOUS
<1> HIDE DEF w2
<1>4. ASSUME NEW b, NEW t \in Streams, Home(m, b, t) PROVE Home(m2, b, t) /\ Beside(m, s, t, b)
  <2>1. ASSUME NEW q \in Streams \ {t}, NEW i \in DOMAIN m2.queue[q] PROVE b \notin MentionedBy(m2.queue[q][i])
    <3>1. Sooner(s, q, i) \in DOMAIN m.queue[q] /\ m2.queue[q][i] = m.queue[q][Sooner(s, q, i)]
      BY <1>2
    <3> QED
      BY <1>4, <3>1 DEF Home
  <2>2. t # s => b \notin MentionedBy(m.queue[s][1])
    BY <1>2, <1>4 DEF Home
  <2> QED
    BY <2>1, <2>2 DEF Home, Beside
<1>5. head.do \in {"fill", "copy", "free"} /\ head.to \in MentionedBy(head)
  <2>1. head.do \in {"fill", "copy", "free"}
    BY <1>1, <1>2, Mentioned
  <2>2. head.do = "copy" => MentionedBy(head) = {head.from, head.to}
    BY DEF MentionedBy
  <2>3. head.do # "copy" => MentionedBy(head) = {head.to}
    BY <2>1 DEF MentionedBy
  <2> QED
    BY <2>1, <2>2, <2>3
<1>6. EntryForetold(m, w, s, 1)
  BY <1>1, <1>2 DEF Foretold
<1>7. gone = IF head.do = "free" THEN head.to ELSE Null
  BY <1>2 DEF Freed
<1> HIDE DEF head, gone
<1>8. \A b \in Numbers \ {gone} : m2.blocks[b].mem = m.blocks[b].mem
  BY <1>5, <1>7 DEF Ran, head
<1>9. ASSUME NEW t \in Streams, NEW i \in DOMAIN m2.queue[t] PROVE EntryForetold(m2, w2, t, i)
  <2> DEFINE k == Sooner(s, t, i)
             o == m.queue[t][k]
  <2>1. /\ i \in Nat /\ k \in Nat /\ k \in DOMAIN m.queue[t] /\ m2.queue[t][i] = o
        /\ w2[<<t, i>>] = w[<<t, k>>]
    BY <1>2
  <2>2. EntryForetold(m, w, t, k)
    BY <1>1, <2>1 DEF Foretold
  <2>3. (t = s => k > 1) /\ Later(s, t, k) = i
    <3>1. i # 0
      BY <1>9, MemoryFields DEF InfersNot
    <3> QED
      BY <2>1, <3>1 DEF Sooner, Later
  <2>4. MentionedBy(o) \subseteq Numbers
    BY <1>1, <2>1, Mentioned
  <2>5. o.do = "fill" => w[<<t, k>>] = o.value
    BY <2>2 DEF EntryForetold
  <2>6. o.do = "copy" => HoldsAt(m, w, t, k, o.from, w[<<t, k>>])
    BY <2>2 DEF EntryForetold
  <2>7. \A b \in MentionedBy(o) : Home(m, b, t) /\ m.blocks[b].mem = "gpu"
    BY <2>2 DEF EntryForetold
  <2>8. \A j \in DOMAIN m.queue[t] : Freed(m, t, k) \in MentionedBy(m.queue[t][j]) => j <= k
    BY <2>2 DEF EntryForetold
  <2>9. o.do = "copy" => o.from \in MentionedBy(o)
    BY DEF MentionedBy
  <2>10. ASSUME NEW b \in MentionedBy(o) PROVE b # gone
    <3>1. CASE t = s
      <4>1. gone \in MentionedBy(m.queue[s][k]) => k <= 1
        BY <1>6, <2>1, <3>1 DEF EntryForetold, gone
      <4> QED
        BY <2>1, <2>3, <2>10, <3>1, <4>1
    <3>2. CASE t # s
      <4>1. Null \notin Numbers
        BY Apart
      <4>2. b \notin MentionedBy(head)
        BY <1>4, <2>7, <2>10, <3>2 DEF Beside, head
      <4> QED
        BY <1>5, <1>7, <2>4, <2>10, <4>1, <4>2
    <3> QED
      BY <3>1, <3>2
  <2>11. \A b \in MentionedBy(o) : Home(m2, b, t) /\ m2.blocks[b].mem = "gpu"
    BY <1>4, <1>8, <2>4, <2>7, <2>10
  <2>12. ASSUME o.do = "copy" PROVE HoldsAt(m2, w2, t, i, o.from, w2[<<t, i>>])
    <3>1. o.from \in Numbers /\ o.from # gone /\ Beside(m, s, t, o.from)
      BY <1>4, <2>4, <2>7, <2>9, <2>10, <2>12
    <3>2. HoldsAt(m2, w2, t, Later(s, t, k), o.from, w[<<t, k>>])
      BY <1>3, <2>1, <2>3, <2>6, <2>12, <3>1, HoldsAtLater DEF gone
    <3> QED
      BY <2>1, <2>3, <3>2
  <2>13. Freed(m2, t, i) = Freed(m, t, k)
    BY <2>1 DEF Freed
  <2>14. ASSUME NEW j \in DOMAIN m2.queue[t], Freed(m2, t, i) \in MentionedBy(m2.queue[t][j]) PROVE j <= i
    <3>1. j \in Nat /\ Sooner(s, t, j) \in DOMAIN m.queue[t] /\ m2.queue[t][j] = m.queue[t][Sooner(s, t, j)]
      BY <1>2
    <3>2. Sooner(s, t, j) <= Sooner(s, t, i)
      BY <2>8, <2>13, <2>14, <3>1
    <3> QED
      BY <2>1, <3>1, <3>2 DEF Sooner
  <2> HIDE DEF o, k
  <2> QED
    BY <2>1, <2>5, <2>11, <2>12, <2>14 DEF EntryForetold
<1>10. Good(m2, w2)
  BY <1>2, <1>9 DEF Good, Foretold
<1>11. ASSUME NEW b \in Numbers \ {gone}, NEW v \in Contents, WillHold(m, w, b, v) PROVE WillHold(m2, w2, b, v)
  <2>1. PICK t \in Streams : Home(m, b, t) /\ HoldsAt(m, w, t, Len(m.queue[t]) + 1, b, v)
    BY <1>11 DEF WillHold
  <2> DEFINE i == Len(m.queue[t]) + 1
  <2>2. i \in Nat /\ (t = s => i > 1)
    BY <1>1, <1>2, MemoryFields DEF InfersNot
  <2>3. HoldsAt(m, w, t, i, b, v) /\ Later(s, t, i) = Len(m2.queue[t]) + 1
    BY <1>2, <2>1
  <2> HIDE DEF i
  <2>4. HoldsAt(m2, w2, t, Later(s, t, i), b, v)
    BY <1>3, <1>4, <1>11, <2>1, <2>2, <2>3, HoldsAtLater DEF gone
  <2> QED
    BY <1>4, <2>1, <2>3, <2>4 DEF WillHold
<1> QED
  BY <1>10, <1>11 DEF Passes, gone

-----------------------------------------------------------------------------
(* Destructors and copies *)

(* What is known of blocks is still known after two changes. *)
LEMMA PassesOn ==
  ASSUME NEW m, NEW m1, NEW m2, NEW w, NEW w1, NEW w2, NEW others,
         Passes(m, w, m1, w1, others), Passes(m1, w1, m2, w2, others)
  PROVE  Passes(m, w, m2, w2, others)
  BY DEF Passes

(* What a buffer holds may be released by its stream. *)
ReleasedLast(m, x) == HeldBy(x) # Null =>
  /\ x.mem = "gpu" => Home(m, HeldBy(x), x.stream)
  /\ m.blocks[HeldBy(x)].mem = x.mem
  /\ \A t \in Streams, i \in Nat : Freed(m, t, i) # HeldBy(x)

(* A destructor leaves what is known of all but the block it gives up. *)
LEMMA DestroyedKnown ==
  ASSUME NEW m, NEW w, Good(m, w), current \in Devices, NEW x \in BufferType \cup {NoBuffer},
         ReleasedLast(m, x), NEW m2, m2 = Destroyed(m, x)
  PROVE  \E w2 : Good(m2, w2) /\ Passes(m, w, m2, w2, {HeldBy(x)})
<1> DEFINE b == HeldBy(x)
<1>1. CASE b = Null
  <2>1. m2 = m
    BY <1>1 DEF Destroyed, HeldBy
  <2> QED
    BY <2>1 DEF Passes
<1>2. CASE b # Null
  <2>1. /\ x \in BufferType /\ x # NoBuffer /\ x.owns /\ x.data = b /\ b \in Numbers
        /\ x.mem = "gpu" => x.stream \in Streams
        /\ x.mem \in {"cpu", "gpu"}
    BY <1>2, Apart DEF HeldBy, BufferType
  <2>2. CASE x.mem = "cpu"
    <3>1. m2 = WithBlock(m, b, NoBlock)
      BY <1>2, <2>1, <2>2 DEF Destroyed, WithBlock
    <3>2. NoBlock \in BlockType
      BY DEF NoBlock, BlockType, Contents, Garbage
    <3>3. Idle(m, b)
      BY <1>2, <2>2, HostIdle DEF ReleasedLast
    <3> HIDE DEF b
    <3>4. Good(m2, w) /\ Passes(m, w, m2, w, {b})
      BY <2>1, <3>1, <3>2, <3>3, PutKnown
    <3> QED
      BY <3>4 DEF b
  <2>3. CASE x.mem = "gpu"
    <3> DEFINE op == [do |-> "free", to |-> b]
    <3>1. m2 = Submit(m, x.stream, op) /\ op \in Operation /\ op.to = b /\ op.do = "free"
      BY <1>2, <2>1, <2>3 DEF Destroyed, Operation
    <3>2. MentionedBy(op) = {b}
      BY DEF MentionedBy
    <3> HIDE DEF op
    <3>3. Admissible(m, w, x.stream, op, Garbage)
      BY <1>2, <2>3, <3>1, <3>2 DEF Admissible, ReleasedLast
    <3>4. Garbage \in Contents
      BY DEF Contents
    <3>5. SubmittedKnown(m, w, m2, op, Garbage)
      BY <2>1, <2>3, <3>1, <3>3, <3>4, SubmitKnown
    <3> QED
      BY <3>1, <3>5 DEF SubmittedKnown
  <2> QED
    BY <2>1, <2>2, <2>3
<1> QED
  BY <1>1, <1>2

(* What waits is known, and block b will hold v. *)
CopyKnown(m, w, m2, b, v) == \E w2 : Good(m2, w2) /\ Passes(m, w, m2, w2, {b}) /\ WillHold(m2, w2, b, v)

(* Block from may be copied to b, which is free, by stream s. *)
MayCopy(m, from, b, s) ==
  /\ Idle(m, b) /\ b # from /\ Home(m, from, s)
  /\ \A t \in Streams, i \in Nat : Freed(m, t, i) # from

(* A copy will hold what is copied from. *)
LEMMA CopiedKnown ==
  ASSUME NEW m, NEW w, Good(m, w), current \in Devices, NEW from \in Numbers, NEW b \in Numbers,
         NEW s, s = Resolve(Default), MayCopy(m, from, b, s), NEW v \in Contents, WillHold(m, w, from, v),
         NEW mem, NEW device, Placeable(mem, device), NEW other, other.cached_ptr = from,
         m.blocks[from].mem = "gpu" /\ mem = "cpu" => m.queue[s] = <<>>,
         NEW m2, m2 = CopyTo(m, other, mem, device, b, Default).memory
  PROVE  CopyKnown(m, w, m2, b, v) /\ StaysHome(m, m2, {b, from}) /\ Typed(m2)
<1> DEFINE x == Block(mem, device, Garbage)
           m1 == WithBlock(m, b, x)
<1>1. m2 = Copied(m1, from, b, Default)
  BY DEF CopyTo, WithBlock
<1>2. x \in BlockType /\ x.mem = mem /\ mem \in {"cpu", "gpu"}
  BY DEF Block, BlockType, Contents, Placeable
<1> HIDE DEF x
<1>3. s \in Streams /\ Typed(m)
  BY Resolved DEF Good, InfersNot
<1>4. BlockPut(m, b, x, m1)
  BY <1>2, <1>3, BlockChanged
<1>5. /\ Good(m1, w) /\ Passes(m, w, m1, w, {b}) /\ StaysHome(m, m1, {}) /\ Idle(m1, b)
  BY <1>2, PutKnown DEF MayCopy
<1> HIDE DEF m1
<1>6. /\ InfersNot(m1) /\ Typed(m1) /\ m1.queue = m.queue /\ m1.blocks[b] = x /\ m1.blocks[from] = m.blocks[from]
      /\ m1.blocks[from] \in BlockType
  BY <1>4, <1>5, MemoryFields DEF BlockPut, Good, InfersNot, MayCopy
<1>7. WillHold(m1, w, from, v) /\ Home(m1, from, s) /\ Home(m1, b, s)
  BY <1>3, <1>5 DEF Passes, StaysHome, MayCopy, Idle, Home
<1>8. \A t \in Streams, i \in Nat : Freed(m1, t, i) \notin {from, b}
  <2>1. \A t \in Streams, i \in Nat : Freed(m1, t, i) # b
    BY <1>5, <1>6, UnusedNotFreed DEF Idle
  <2>2. \A t \in Streams, i \in Nat : Freed(m1, t, i) = Freed(m, t, i)
    BY <1>4 DEF BlockPut, SameFrees
  <2> QED
    BY <2>1, <2>2 DEF MayCopy
<1>9. ASSUME mem = "cpu" \/ m.blocks[from].mem # "gpu" PROVE m1.blocks[from].value = v
  <2>1. Idle(m1, from)
    <3>1. CASE m.blocks[from].mem # "gpu"
      <4>1. m1.blocks[from].mem = "cpu"
        BY <1>6, <3>1 DEF BlockType
      <4> QED
        BY <1>5, <4>1, HostIdle
    <3>2. CASE m.blocks[from].mem = "gpu"
      <4>1. m1.queue[s] = <<>>
        BY <1>6, <1>9, <3>2
      <4>2. DOMAIN m1.queue[s] = {}
        BY <4>1
      <4> QED
        BY <1>7, <4>2 DEF Idle, Home
    <3> QED
      BY <3>1, <3>2
  <2> QED
    BY <1>6, <1>7, <2>1, HeldIdle
<1>10. CASE mem = "cpu"
  <2> DEFINE y == [x EXCEPT !.value = v]
  <2>1. m1.blocks[from].value = v
    BY <1>9, <1>10
  <2>2. y \in BlockType /\ y.value = v
    BY <1>2 DEF BlockType
  <2>3. m2 = WithBlock(m1, b, y)
    <3>1. m1 \in [blocks : [Numbers -> BlockType], queue : [Streams -> Seq(Operation)]]
      BY <1>6 DEF Typed
    <3>2. m2 = [m1 EXCEPT !.blocks[b].value = v]
      BY <1>1, <1>2, <1>6, <1>10, <2>1 DEF Copied
    <3>3. m2 = [m1 EXCEPT !.blocks = [m1.blocks EXCEPT ![b] = [m1.blocks[b] EXCEPT !.value = v]]]
      BY <3>1, <3>2
    <3>4. WithBlock(m1, b, y) = [m1 EXCEPT !.blocks = [m1.blocks EXCEPT ![b] = y]]
      BY <3>1 DEF WithBlock
    <3> QED
      BY <1>6, <3>3, <3>4
  <2> HIDE DEF y
  <2>4. Good(m2, w) /\ Passes(m1, w, m2, w, {b}) /\ StaysHome(m1, m2, {}) /\ WillHold(m2, w, b, v)
    BY <1>5, <2>2, <2>3, PutKnown
  <2>5. Passes(m, w, m2, w, {b})
    BY <1>5, <2>4, PassesOn
  <2>6. StaysHome(m, m2, {b, from})
    BY <1>5, <2>4 DEF StaysHome
  <2> QED
    BY <2>4, <2>5, <2>6 DEF CopyKnown, Good, InfersNot
<1>11. CASE mem = "gpu"
  <2> DEFINE op == IF m1.blocks[from].mem = "cpu"
                   THEN [do |-> "fill", to |-> b, value |-> m1.blocks[from].value]
                   ELSE [do |-> "copy", to |-> b, from |-> from]
  <2>1. m2 = Submit(m1, s, op)
    BY <1>1, <1>2, <1>6, <1>11 DEF Copied
  <2>2. op \in Operation /\ op.to = b /\ op.do \in {"fill", "copy"}
    BY <1>6 DEF Operation, BlockType
  <2>3. ASSUME m1.blocks[from].mem = "cpu" PROVE Admissible(m1, w, s, op, v)
    <3>1. op.do = "fill" /\ op.value = v /\ MentionedBy(op) = {b}
      BY <1>6, <1>9, <2>3 DEF MentionedBy
    <3> HIDE DEF op
    <3>2. Admissible(m1, w, s, op, v)
      BY <1>2, <1>6, <1>7, <1>8, <1>11, <3>1 DEF Admissible
    <3> QED
      BY <3>2 DEF op
  <2>4. ASSUME m1.blocks[from].mem # "cpu" PROVE Admissible(m1, w, s, op, v)
    <3>1. op.do = "copy" /\ op.from = from /\ MentionedBy(op) = {from, b} /\ m1.blocks[from].mem = "gpu"
      BY <1>6, <2>4 DEF MentionedBy, BlockType
    <3> HIDE DEF op
    <3>2. HoldsAt(m1, w, s, Len(m1.queue[s]) + 1, from, v)
      BY <1>3, <1>6, <1>7, HeldAtHome
    <3>3. Admissible(m1, w, s, op, v)
      BY <1>2, <1>6, <1>7, <1>8, <1>11, <3>1, <3>2 DEF Admissible
    <3> QED
      BY <3>3 DEF op
  <2>5. Admissible(m1, w, s, op, v) /\ MentionedBy(op) \subseteq {b, from}
    <3>1. MentionedBy(op) \subseteq {b, from}
      BY DEF MentionedBy
    <3> QED
      BY <2>3, <2>4, <3>1
  <2> HIDE DEF op
  <2>6. SubmittedKnown(m1, w, m2, op, v) /\ StaysHome(m1, m2, MentionedBy(op))
    BY <1>3, <1>5, <2>1, <2>2, <2>5, SubmitKnown
  <2>7. PICK w2 : Good(m2, w2) /\ Passes(m1, w, m2, w2, {b}) /\ WillHold(m2, w2, b, v)
    BY <2>2, <2>6 DEF SubmittedKnown
  <2>8. Passes(m, w, m2, w2, {b})
    BY <1>5, <2>7, PassesOn
  <2>9. StaysHome(m, m2, {b, from})
    BY <1>5, <2>5, <2>6 DEF StaysHome
  <2> QED
    BY <2>7, <2>8, <2>9 DEF CopyKnown, Good, InfersNot
<1> QED
  BY <1>2, <1>10, <1>11

-----------------------------------------------------------------------------
(* The program's buffers hold what they should *)

Holding(m, w, bufs, values) ==
  /\ Good(m, w) /\ values \in [Slots -> Contents]
  /\ \A n \in Slots : bufs[n] # NoBuffer /\ ~bufs[n].moved => WillHold(m, w, bufs[n].cached_ptr, values[n])

(* They do again after an operation. *)
StillHolding == \E m, w : Become(m) /\ Holding(m, w, buffers', meant')

(* A buffer in use points to a block that is not about to be released. *)
LEMMA UsableKnown ==
  ASSUME OwnBuffers, NEW w, Holding(Now, w, buffers, meant), NEW n \in Slots, Usable(n)
  PROVE  /\ n \in DOMAIN buffers /\ buffers[n] \in BufferType
         /\ buffers[n].cached_ptr \in Numbers /\ buffers[n].cached_ptr = buffers[n].data
         /\ Placeable(buffers[n].mem, buffers[n].device)
         /\ Now.blocks[buffers[n].cached_ptr].mem = buffers[n].mem
         /\ \A t \in Streams, i \in Nat : Freed(Now, t, i) # buffers[n].cached_ptr
         /\ WillHold(Now, w, buffers[n].cached_ptr, meant[n]) /\ meant[n] \in Contents
<1>1. MemoryInv /\ n \in DOMAIN buffers /\ Typed(Now) /\ Ledger(Now, buffers) /\ Rooted(Now, buffers)
  BY HeldNumber DEF OwnBuffers, MemoryInv, Bufs
<1> DEFINE b == buffers[n].cached_ptr
<1>2. /\ buffers[n] \in BufferType /\ buffers[n] # NoBuffer /\ ~buffers[n].moved
      /\ b \in Numbers /\ b = buffers[n].data
      /\ Placeable(buffers[n].mem, buffers[n].device) /\ blocks[b].mem = buffers[n].mem
  BY <1>1, UsableBlock
<1>3. PICK k \in DOMAIN buffers : Held(buffers, k) = b
  BY <1>1, <1>2 DEF Rooted
<1>4. b # Null
  BY <1>2, Apart
<1>5. \A t \in Streams, i \in Nat : Freed(Now, t, i) # b
  BY <1>1, <1>3, <1>4, LedgerFacts
<1> QED
  BY <1>1, <1>2, <1>5, NowFields DEF Holding

(* What waits leaves a free block alone. *)
LEMMA UnusedKnown ==
  ASSUME OwnBuffers, Unused(Now, buffers) # {}, NEW b, b = Next1(Unused(Now, buffers))
  PROVE  /\ b \in Numbers /\ Idle(Now, b)
         /\ \A n \in Slots : Present(n) => buffers[n].cached_ptr # b /\ buffers[n].data # b
<1>1. \A n \in Slots : n \in DOMAIN buffers
  BY DEF OwnBuffers, MemoryInv, Bufs
<1> QED
  BY <1>1, UnusedBlock DEF Present, Idle

(* A buffer that may be released is in no use elsewhere. *)
LEMMA ReleasableKnown ==
  ASSUME OwnBuffers, NEW w, Holding(Now, w, buffers, meant), NEW n \in Slots, Present(n), Releasable(n)
  PROVE  /\ buffers[n] \in BufferType /\ ReleasedLast(Now, buffers[n])
         /\ HeldBy(buffers[n]) \in Numbers \cup {Null}
         /\ \A k \in Slots \ {n} : Usable(k) => buffers[k].cached_ptr # HeldBy(buffers[n])
<1> DEFINE b == HeldBy(buffers[n])
<1>1. n \in DOMAIN buffers /\ buffers[n] \in BufferType /\ buffers[n] # NoBuffer /\ Rooted(Now, buffers)
      /\ b \in Numbers \cup {Null}
  BY HeldNumber DEF OwnBuffers, MemoryInv, Bufs, Present
<1>2. ASSUME b # Null
      PROVE  /\ Usable(n) /\ buffers[n].owns /\ b = buffers[n].data /\ b = buffers[n].cached_ptr
             /\ buffers[n].data # Null
  <2>1. buffers[n].owns /\ b = buffers[n].data
    BY <1>2 DEF HeldBy
  <2>2. ~buffers[n].moved
    BY <1>1, <1>2, <2>1 DEF Rooted, BufferType
  <2>3. Usable(n)
    BY <1>1, <2>2 DEF Usable, Present
  <2> QED
    BY <1>2, <2>1, <2>3, UsableKnown
<1>3. ReleasedLast(Now, buffers[n])
  <2> SUFFICES ASSUME b # Null PROVE ReleasedLast(Now, buffers[n])
    BY DEF ReleasedLast
  <2>1. Settled(n, buffers[n].stream)
    BY <1>2 DEF Releasable
  <2>2. Home(Now, b, buffers[n].stream)
    BY <1>2, <2>1, NowFields DEF Settled, Home
  <2>3. /\ Now.blocks[b].mem = buffers[n].mem
        /\ \A t \in Streams, i \in Nat : Freed(Now, t, i) # b
    BY <1>2, UsableKnown
  <2> QED
    BY <2>2, <2>3 DEF ReleasedLast
<1>4. ASSUME NEW k \in Slots \ {n}, Usable(k) PROVE buffers[k].cached_ptr # b
  <2>1. buffers[k].cached_ptr # Null
    BY <1>4, UsableKnown, Apart
  <2>2. b # Null => buffers[k].cached_ptr # buffers[n].cached_ptr
    BY <1>2, <1>4 DEF Releasable, Viewed, Usable
  <2> QED
    BY <1>2, <2>1, <2>2
<1> QED
  BY <1>1, <1>3, <1>4

(* A new buffer holds nothing that matters. *)
LEMMA MakeHolds ==
  ASSUME OwnBuffers, NEW w, Holding(Now, w, buffers, meant), NEW n \in Slots, NEW place \in Places,
         Make(n, place)
  PROVE  StillHolding
<1> DEFINE b == Next1(Unused(Now, buffers))
           x == Block(place[1], place[2], Garbage)
           m == WithBlock(Now, b, x)
           new == Owning(place[1], place[2], b, Default)
<1>1. /\ Become(m) /\ Unused(Now, buffers) # {}
      /\ buffers' = [buffers EXCEPT ![n] = new] /\ meant' = [meant EXCEPT ![n] = Garbage]
  BY DEF Make, Program, WithBlock
<1>2. /\ b \in Numbers /\ Idle(Now, b)
      /\ \A k \in Slots : Present(k) => buffers[k].cached_ptr # b
  BY <1>1, UnusedKnown
<1>3. x \in BlockType /\ x.value = Garbage
  <2>1. Placeable(place[1], place[2])
    BY PlacePlaceable DEF PlacesAreThere
  <2> QED
    BY <2>1 DEF Block, BlockType, Contents, Placeable
<1>4. new.cached_ptr = b
  BY DEF Owning
<1>5. Good(Now, w) /\ current \in Devices /\ meant \in [Slots -> Contents] /\ \A k \in Slots : k \in DOMAIN buffers
  BY DEF Holding, OwnBuffers, MemoryInv, Bufs
<1> HIDE DEF b, x, new
<1>6. Good(m, w) /\ Passes(Now, w, m, w, {b}) /\ WillHold(m, w, b, Garbage)
  BY <1>2, <1>3, <1>5, PutKnown
<1> HIDE DEF m
<1>7. ASSUME NEW k \in Slots, buffers'[k] # NoBuffer, ~buffers'[k].moved
      PROVE  WillHold(m, w, buffers'[k].cached_ptr, meant'[k])
  <2>1. CASE k = n
    BY <1>1, <1>4, <1>5, <1>6, <2>1
  <2>2. CASE k # n
    <3>1. Usable(k) /\ buffers'[k] = buffers[k] /\ meant'[k] = meant[k]
      BY <1>1, <1>5, <1>7, <2>2 DEF Usable, Present
    <3> QED
      BY <1>2, <1>6, <3>1, UsableKnown DEF Passes, Usable
  <2> QED
    BY <2>1, <2>2
<1>8. meant' \in [Slots -> Contents]
  BY <1>1, <1>5 DEF Contents
<1> QED
  BY <1>1, <1>6, <1>7, <1>8 DEF StillHolding, Holding

(* A view holds what it is a view of, and buffers that are swapped hold what the
   other did. *)
LEMMA ViewOrSwapHolds ==
  ASSUME OwnBuffers, NEW w, Holding(Now, w, buffers, meant), NEW n \in Slots, NEW k \in Slots,
         MakeView(n, k) \/ Swap(n, k)
  PROVE  StillHolding
<1>1. Become(Now)
  BY DEF MakeView, Swap, Become, Now
<1>2. Good(Now, w) /\ meant \in [Slots -> Contents] /\ \A l \in Slots : l \in DOMAIN buffers
  BY DEF Holding, OwnBuffers, MemoryInv, Bufs
<1>3. ASSUME NEW l \in Slots, buffers'[l] # NoBuffer, ~buffers'[l].moved
      PROVE  WillHold(Now, w, buffers'[l].cached_ptr, meant'[l])
  <2>1. CASE MakeView(n, k)
    <3>1. /\ buffers' = [buffers EXCEPT ![n] = View(buffers[k].mem, buffers[k].device, buffers[k].cached_ptr)]
          /\ meant' = [meant EXCEPT ![n] = meant[k]] /\ buffers[k] # NoBuffer /\ ~buffers[k].moved
      BY <2>1 DEF MakeView, Program, Usable, Present
    <3>2. CASE l = n
      BY <1>2, <3>1, <3>2 DEF View, Holding
    <3>3. CASE l # n
      BY <1>2, <1>3, <3>1, <3>3 DEF Holding
    <3> QED
      BY <3>2, <3>3
  <2>2. CASE Swap(n, k)
    <3>1. /\ buffers' = [buffers EXCEPT ![n] = buffers[k], ![k] = buffers[n]]
          /\ meant' = [meant EXCEPT ![n] = meant[k], ![k] = meant[n]] /\ n # k
      BY <2>2 DEF Swap, Program
    <3>2. PICK p \in Slots : buffers'[l] = buffers[p] /\ meant'[l] = meant[p]
      BY <1>2, <3>1
    <3> QED
      BY <1>3, <3>2 DEF Holding
  <2> QED
    BY <2>1, <2>2
<1>4. meant' \in [Slots -> Contents]
  BY <1>2 DEF MakeView, Swap, Program
<1> QED
  BY <1>1, <1>2, <1>3, <1>4 DEF StillHolding, Holding

(* What is left when a buffer is destroyed still holds what it should. *)
LEMMA DestroyHolds ==
  ASSUME OwnBuffers, NEW w, Holding(Now, w, buffers, meant), NEW n \in Slots, Destroy(n)
  PROVE  StillHolding
<1> DEFINE m == Destroyed(Now, buffers[n])
<1>1. /\ Become(m) /\ Present(n) /\ Releasable(n)
      /\ buffers' = [buffers EXCEPT ![n] = NoBuffer] /\ meant' = [meant EXCEPT ![n] = Garbage]
  BY DEF Destroy, Program
<1>2. Good(Now, w) /\ current \in Devices /\ meant \in [Slots -> Contents] /\ \A k \in Slots : k \in DOMAIN buffers
  BY DEF Holding, OwnBuffers, MemoryInv, Bufs
<1>3. /\ buffers[n] \in BufferType /\ ReleasedLast(Now, buffers[n])
      /\ \A k \in Slots \ {n} : Usable(k) => buffers[k].cached_ptr # HeldBy(buffers[n])
  BY <1>1, ReleasableKnown
<1>4. PICK w2 : Good(m, w2) /\ Passes(Now, w, m, w2, {HeldBy(buffers[n])})
  BY <1>2, <1>3, DestroyedKnown
<1> HIDE DEF m
<1>5. ASSUME NEW k \in Slots, buffers'[k] # NoBuffer, ~buffers'[k].moved
      PROVE  WillHold(m, w2, buffers'[k].cached_ptr, meant'[k])
  <2>1. k # n
    BY <1>1, <1>2, <1>5
  <2>2. Usable(k) /\ buffers'[k] = buffers[k] /\ meant'[k] = meant[k]
    BY <1>1, <1>2, <1>5, <2>1 DEF Usable, Present
  <2>3. /\ buffers[k].cached_ptr \in Numbers \ {HeldBy(buffers[n])}
        /\ WillHold(Now, w, buffers[k].cached_ptr, meant[k]) /\ meant[k] \in Contents
    BY <1>3, <2>1, <2>2, UsableKnown
  <2> QED
    BY <1>4, <2>2, <2>3 DEF Passes
<1>6. meant' \in [Slots -> Contents]
  BY <1>1, <1>2 DEF Contents
<1> QED
  BY <1>1, <1>4, <1>5, <1>6 DEF StillHolding, Holding

(* A buffer holds what the one that was moved into it did. *)
LEMMA AssignMoveHolds ==
  ASSUME OwnBuffers, NEW w, Holding(Now, w, buffers, meant), NEW n \in Slots, NEW from \in Slots,
         AssignMove(n, from)
  PROVE  StillHolding
<1> DEFINE m == Destroyed(Now, buffers[n])
<1>1. /\ Become(m) /\ Present(n) /\ Releasable(n) /\ n # from /\ Usable(from)
      /\ buffers' = [buffers EXCEPT ![n] = buffers[from], ![from] = MovedFrom(@)]
      /\ meant' = [meant EXCEPT ![n] = meant[from]]
  BY DEF AssignMove, Program
<1>2. Good(Now, w) /\ current \in Devices /\ meant \in [Slots -> Contents] /\ \A k \in Slots : k \in DOMAIN buffers
  BY DEF Holding, OwnBuffers, MemoryInv, Bufs
<1>3. /\ buffers[n] \in BufferType /\ ReleasedLast(Now, buffers[n])
      /\ \A k \in Slots \ {n} : Usable(k) => buffers[k].cached_ptr # HeldBy(buffers[n])
  BY <1>1, ReleasableKnown
<1>4. PICK w2 : Good(m, w2) /\ Passes(Now, w, m, w2, {HeldBy(buffers[n])})
  BY <1>2, <1>3, DestroyedKnown
<1> HIDE DEF m
<1>5. ASSUME NEW k \in Slots \ {n}, Usable(k) PROVE WillHold(m, w2, buffers[k].cached_ptr, meant[k])
  <2>1. /\ buffers[k].cached_ptr \in Numbers \ {HeldBy(buffers[n])}
        /\ WillHold(Now, w, buffers[k].cached_ptr, meant[k]) /\ meant[k] \in Contents
    BY <1>3, <1>5, UsableKnown
  <2> QED
    BY <1>4, <2>1 DEF Passes
<1>6. buffers'[from].moved
  <2>1. buffers[from] \in BufferType
    BY <1>1, UsableKnown
  <2>2. MovedFrom(buffers[from]).moved
    BY <2>1 DEF MovedFrom, BufferType
  <2> QED
    BY <1>1, <1>2, <2>2
<1>7. ASSUME NEW k \in Slots, buffers'[k] # NoBuffer, ~buffers'[k].moved
      PROVE  WillHold(m, w2, buffers'[k].cached_ptr, meant'[k])
  <2>1. CASE k = n
    <3>1. buffers'[k] = buffers[from] /\ meant'[k] = meant[from]
      BY <1>1, <1>2, <2>1
    <3> QED
      BY <1>1, <1>5, <3>1
  <2>2. CASE k # n
    <3>1. k # from
      BY <1>6, <1>7
    <3>2. Usable(k) /\ buffers'[k] = buffers[k] /\ meant'[k] = meant[k]
      BY <1>1, <1>2, <1>7, <2>2, <3>1 DEF Usable, Present
    <3> QED
      BY <1>5, <2>2, <3>2
  <2> QED
    BY <2>1, <2>2
<1>8. meant' \in [Slots -> Contents]
  BY <1>1, <1>2
<1> QED
  BY <1>1, <1>4, <1>7, <1>8 DEF StillHolding, Holding

(* What is written is held, now or once the stream has done it. *)
LEMMA WriteHolds ==
  ASSUME OwnBuffers, NEW w, Holding(Now, w, buffers, meant), NEW n \in Slots, NEW value \in Values,
         Write(n, value)
  PROVE  StillHolding
<1> DEFINE b == buffers[n].cached_ptr
           s == Resolve(Default)
           op == [do |-> "fill", to |-> b, value |-> value]
           m == IF buffers[n].mem = "cpu" THEN WithValue(Now, b, value) ELSE Submit(Now, s, op)
<1>1. /\ Become(m) /\ Usable(n) /\ Settled(n, s) /\ buffers[n].owns /\ ~Viewed(n)
      /\ buffers' = buffers /\ meant' = [meant EXCEPT ![n] = value]
  BY DEF Write, Program, WithValue
<1>2. Good(Now, w) /\ current \in Devices /\ meant \in [Slots -> Contents]
  BY DEF Holding, OwnBuffers, MemoryInv
<1>3. /\ buffers[n] \in BufferType /\ b \in Numbers /\ b = buffers[n].data
      /\ Now.blocks[b].mem = buffers[n].mem
      /\ \A t \in Streams, i \in Nat : Freed(Now, t, i) # b
  BY <1>1, UsableKnown
<1>4. ASSUME NEW k \in Slots \ {n}, Usable(k) PROVE buffers[k].cached_ptr # b
  <2>1. buffers[n].data # Null
    BY <1>3, Apart
  <2> QED
    BY <1>1, <1>4, <2>1 DEF Viewed, Usable
<1>5. Home(Now, b, s) /\ s \in Streams /\ value \in Contents
  BY <1>1, <1>2, NowFields, Resolved DEF Settled, Home, Contents
<1>6. \E w2 : Good(m, w2) /\ Passes(Now, w, m, w2, {b}) /\ WillHold(m, w2, b, value)
  <2>1. CASE buffers[n].mem = "cpu"
    <3> DEFINE y == [Now.blocks[b] EXCEPT !.value = value]
    <3>1. Typed(Now) /\ Now.blocks[b] \in BlockType
      BY <1>2, <1>3, MemoryFields DEF Good, InfersNot
    <3>2. y \in BlockType /\ y.value = value
      BY <1>5, <3>1 DEF BlockType
    <3>3. m = WithBlock(Now, b, y)
      <4>1. m = [Now EXCEPT !.blocks[b].value = value]
        BY <2>1 DEF WithValue
      <4> QED
        BY <4>1 DEF WithBlock, Now
    <3>4. Idle(Now, b)
      BY <1>2, <1>3, <2>1, HostIdle
    <3> HIDE DEF y, b
    <3>5. Good(m, w) /\ Passes(Now, w, m, w, {b}) /\ WillHold(m, w, b, value)
      BY <1>2, <1>3, <3>2, <3>3, <3>4, PutKnown
    <3> QED
      BY <3>5
  <2>2. CASE buffers[n].mem # "cpu"
    <3>1. op \in Operation /\ op.to = b /\ op.do = "fill" /\ op.value = value
      BY <1>3, <1>5 DEF Operation
    <3>2. MentionedBy(op) = {b} /\ m = Submit(Now, s, op) /\ Now.blocks[b].mem = "gpu"
      BY <1>3, <2>2 DEF MentionedBy, BufferType
    <3> HIDE DEF op, b, s, m
    <3>3. Admissible(Now, w, s, op, value)
      BY <1>3, <1>5, <3>1, <3>2 DEF Admissible
    <3>4. SubmittedKnown(Now, w, m, op, value)
      BY <1>2, <1>5, <3>1, <3>2, <3>3, SubmitKnown
    <3> QED
      BY <3>1, <3>4 DEF SubmittedKnown
  <2> QED
    BY <2>1, <2>2
<1>7. PICK w2 : Good(m, w2) /\ Passes(Now, w, m, w2, {b}) /\ WillHold(m, w2, b, value)
  BY <1>6
<1> HIDE DEF m
<1>8. ASSUME NEW k \in Slots, buffers[k] # NoBuffer, ~buffers[k].moved
      PROVE  WillHold(m, w2, buffers[k].cached_ptr, meant'[k])
  <2>1. CASE k = n
    BY <1>1, <1>2, <1>7, <2>1
  <2>2. CASE k # n
    <3>1. Usable(k) /\ meant'[k] = meant[k]
      BY <1>1, <1>2, <1>8, <2>2 DEF Usable, Present
    <3>2. /\ buffers[k].cached_ptr \in Numbers \ {b}
          /\ WillHold(Now, w, buffers[k].cached_ptr, meant[k]) /\ meant[k] \in Contents
      BY <1>4, <2>2, <3>1, UsableKnown
    <3> QED
      BY <1>7, <3>1, <3>2 DEF Passes
  <2> QED
    BY <2>1, <2>2
<1>9. meant' \in [Slots -> Contents]
  BY <1>1, <1>2, <1>5
<1> QED
  BY <1>1, <1>7, <1>8, <1>9 DEF StillHolding, Holding

(* What a copy of a buffer is, and what memory is after it. *)
CopyMade(w, from, b, r) ==
  /\ CopyKnown(Now, w, r.memory, b, meant[from]) /\ Typed(r.memory)
  /\ StaysHome(Now, r.memory, {b, buffers[from].cached_ptr})
  /\ SamePlaces(Now, r.memory, {Null, b}) /\ SameFrees(Now, r.memory)
  /\ r.buffer.cached_ptr = b /\ r.other = buffers[from]
  /\ b \in Numbers
  /\ \A k \in Slots : Present(k) => buffers[k].cached_ptr # b /\ buffers[k].data # b

(* A buffer in use can be copied to a free block. *)
LEMMA CopyMakes ==
  ASSUME OwnBuffers, NEW w, Holding(Now, w, buffers, meant), NEW from \in Slots, Usable(from),
         Settled(from, Resolve(Default)), NEW mem, NEW device, Placeable(mem, device),
         Copyable(Now, buffers[from].cached_ptr, mem, Default), Unused(Now, buffers) # {},
         NEW b, b = Next1(Unused(Now, buffers)),
         NEW r, r = CopyTo(Now, buffers[from], mem, device, b, Default)
  PROVE  CopyMade(w, from, b, r)
<1> DEFINE c == buffers[from].cached_ptr
           s == Resolve(Default)
<1>1. Good(Now, w) /\ current \in Devices /\ Typed(Now)
  BY DEF Holding, OwnBuffers, MemoryInv
<1>2. /\ b \in Numbers /\ Idle(Now, b)
      /\ \A k \in Slots : Present(k) => buffers[k].cached_ptr # b /\ buffers[k].data # b
  BY UnusedKnown
<1>3. /\ c \in Numbers /\ c # b /\ \A t \in Streams, i \in Nat : Freed(Now, t, i) # c
      /\ WillHold(Now, w, c, meant[from]) /\ meant[from] \in Contents
  BY <1>2, UsableKnown DEF Usable
<1>4. Home(Now, c, s)
  BY NowFields DEF Settled, Home
<1>5. Now.blocks[c].mem = "gpu" /\ mem = "cpu" => Now.queue[s] = <<>>
  BY DEF Copyable
<1>6. ~Now.blocks[b].live
  BY UnusedBlock
<1>7. /\ r.other = buffers[from] /\ r.buffer = Owning(mem, device, b, Default)
      /\ Typed(r.memory) /\ Exchanged(Now, r.memory, Null, b)
  BY <1>1, <1>2, <1>3, <1>6, CopiedTo
<1>8. r.buffer.cached_ptr = b
  BY <1>7 DEF Owning
<1>9. SamePlaces(Now, r.memory, {Null, b}) /\ SameFrees(Now, r.memory)
  BY <1>7 DEF Exchanged
<1> HIDE DEF c, s
<1>10. MayCopy(Now, c, b, s)
  BY <1>2, <1>3, <1>4 DEF MayCopy
<1>11. CopyKnown(Now, w, r.memory, b, meant[from]) /\ StaysHome(Now, r.memory, {b, c})
  BY <1>1, <1>2, <1>3, <1>5, <1>10, CopiedKnown DEF c, s
<1> QED
  BY <1>2, <1>7, <1>8, <1>9, <1>11 DEF CopyMade, c

(* A copy holds what was copied. *)
LEMMA CopyHolds ==
  ASSUME OwnBuffers, NEW w, Holding(Now, w, buffers, meant), NEW n \in Slots, NEW from \in Slots,
         n # from, ~Present(n), Usable(from), NEW b, NEW r, CopyMade(w, from, b, r), Become(r.memory),
         buffers' = [buffers EXCEPT ![n] = r.buffer, ![from] = r.other],
         meant' = [meant EXCEPT ![n] = meant[from]]
  PROVE  StillHolding
<1> DEFINE m == r.memory
<1>1. meant \in [Slots -> Contents] /\ \A k \in Slots : k \in DOMAIN buffers
  BY DEF Holding, OwnBuffers, MemoryInv, Bufs
<1>2. PICK w2 : Good(m, w2) /\ Passes(Now, w, m, w2, {b}) /\ WillHold(m, w2, b, meant[from])
  BY DEF CopyMade, CopyKnown
<1>3. /\ r.buffer.cached_ptr = b /\ r.other = buffers[from]
      /\ \A k \in Slots : Present(k) => buffers[k].cached_ptr # b
  BY DEF CopyMade
<1> HIDE DEF m
<1>4. ASSUME NEW k \in Slots, buffers'[k] # NoBuffer, ~buffers'[k].moved
      PROVE  WillHold(m, w2, buffers'[k].cached_ptr, meant'[k])
  <2>1. CASE k = n
    <3>1. buffers'[k] = r.buffer /\ meant'[k] = meant[from]
      BY <1>1, <2>1
    <3> QED
      BY <1>2, <1>3, <3>1
  <2>2. CASE k # n
    <3>1. Usable(k) /\ buffers'[k] = buffers[k] /\ meant'[k] = meant[k]
      BY <1>1, <1>3, <1>4, <2>2 DEF Usable, Present
    <3>2. /\ buffers[k].cached_ptr \in Numbers \ {b}
          /\ WillHold(Now, w, buffers[k].cached_ptr, meant[k]) /\ meant[k] \in Contents
      BY <1>3, <3>1, UsableKnown DEF Usable
    <3> QED
      BY <1>2, <3>1, <3>2 DEF Passes
  <2> QED
    BY <2>1, <2>2
<1>5. meant' \in [Slots -> Contents]
  BY <1>1
<1> QED
  BY <1>2, <1>4, <1>5 DEF StillHolding, Holding, m

(* buffer(buffer const&, ...) *)
LEMMA MakeCopyHolds ==
  ASSUME OwnBuffers, NEW w, Holding(Now, w, buffers, meant), NEW n \in Slots, NEW from \in Slots,
         NEW place \in Places, MakeCopy(n, from, place)
  PROVE  StillHolding
<1> DEFINE b == Next1(Unused(Now, buffers))
           r == CopyTo(Now, buffers[from], place[1], place[2], b, Default)
<1>1. /\ n # from /\ ~Present(n) /\ Usable(from) /\ Settled(from, Resolve(Default))
      /\ Copyable(Now, buffers[from].cached_ptr, place[1], Default) /\ Unused(Now, buffers) # {}
      /\ Become(r.memory) /\ buffers' = [buffers EXCEPT ![n] = r.buffer, ![from] = r.other]
      /\ meant' = [meant EXCEPT ![n] = meant[from]]
  BY DEF MakeCopy, CopyOrMove, Program
<1>2. Placeable(place[1], place[2])
  BY PlacePlaceable DEF PlacesAreThere
<1>3. CopyMade(w, from, b, r)
  BY <1>1, <1>2, CopyMakes
<1> HIDE DEF b, r
<1> QED
  BY <1>1, <1>3, CopyHolds

(* buffer(buffer&&, ...) *)
LEMMA MakeMoveHolds ==
  ASSUME OwnBuffers, NEW w, Holding(Now, w, buffers, meant), NEW n \in Slots, NEW from \in Slots,
         NEW place \in Places, MakeMove(n, from, place)
  PROVE  StillHolding
<1> DEFINE b == Next1(Unused(Now, buffers))
           r == MoveTo(Now, buffers[from], place[1], place[2], b, Default)
           c == CopyTo(Now, buffers[from], place[1], place[2], b, Default)
<1>1. /\ n # from /\ ~Present(n) /\ Usable(from) /\ Settled(from, Resolve(Default))
      /\ Copyable(Now, buffers[from].cached_ptr, place[1], Default) /\ Unused(Now, buffers) # {}
      /\ Become(r.memory) /\ buffers' = [buffers EXCEPT ![n] = r.buffer, ![from] = r.other]
      /\ meant' = [meant EXCEPT ![n] = meant[from]]
  BY DEF MakeMove, CopyOrMove, Program
<1>2. CASE place[1] = buffers[from].mem /\ place[2] = buffers[from].device
  <2>1. /\ buffers[from] \in BufferType /\ buffers[from].cached_ptr = buffers[from].data
        /\ \A k \in Slots : k \in DOMAIN buffers
    BY <1>1, UsableKnown DEF OwnBuffers, MemoryInv, Bufs
  <2>2. /\ r.memory = Now /\ r.other = MovedFrom(buffers[from])
        /\ r.buffer = [buffers[from] EXCEPT !.cached_ptr = buffers[from].data]
    BY <1>2 DEF MoveTo
  <2>3. r.buffer = buffers[from] /\ r.other.moved
    <3>1. MovedFrom(buffers[from]).moved
      BY <2>1 DEF MovedFrom, BufferType
    <3> QED
      BY <2>1, <2>2, <3>1, CachedAlready
  <2> HIDE DEF r
  <2>4. Good(Now, w) /\ meant \in [Slots -> Contents]
    BY DEF Holding
  <2>5. ASSUME NEW k \in Slots, buffers'[k] # NoBuffer, ~buffers'[k].moved
        PROVE  WillHold(Now, w, buffers'[k].cached_ptr, meant'[k])
    <3>1. k # from
      BY <1>1, <2>1, <2>3, <2>5
    <3>2. PICK p \in Slots : buffers'[k] = buffers[p] /\ meant'[k] = meant[p]
      BY <1>1, <2>1, <2>3, <2>4, <3>1
    <3> QED
      BY <2>5, <3>2 DEF Holding
  <2>6. meant' \in [Slots -> Contents]
    BY <1>1, <2>4
  <2> QED
    BY <1>1, <2>2, <2>4, <2>5, <2>6 DEF StillHolding, Holding
<1>3. CASE ~(place[1] = buffers[from].mem /\ place[2] = buffers[from].device)
  <2>1. r = c
    BY <1>3 DEF MoveTo
  <2>2. Placeable(place[1], place[2])
    BY PlacePlaceable DEF PlacesAreThere
  <2>3. CopyMade(w, from, b, c)
    BY <1>1, <2>2, CopyMakes
  <2> HIDE DEF b, r, c
  <2> QED
    BY <1>1, <2>1, <2>3, CopyHolds
<1> QED
  BY <1>2, <1>3

(* operator=(buffer const&): what is destroyed afterwards is not the copy, nor
   what was copied. *)
LEMMA AssignCopyHolds ==
  ASSUME OwnBuffers, NEW w, Holding(Now, w, buffers, meant), NEW n \in Slots, NEW from \in Slots,
         AssignCopy(n, from)
  PROVE  StillHolding
<1> DEFINE b == Next1(Unused(Now, buffers))
           r == CopyTo(Now, buffers[from], buffers[from].mem, buffers[from].device, b, Default)
           m1 == r.memory
           m == Destroyed(m1, buffers[n])
           old == HeldBy(buffers[n])
<1>1. /\ n # from /\ Present(n) /\ Releasable(n) /\ Usable(from) /\ Settled(from, Resolve(Default))
      /\ Copyable(Now, buffers[from].cached_ptr, buffers[from].mem, Default) /\ Unused(Now, buffers) # {}
      /\ Become(m) /\ buffers' = [buffers EXCEPT ![n] = r.buffer]
      /\ meant' = [meant EXCEPT ![n] = meant[from]]
  BY DEF AssignCopy, Program
<1>2. Placeable(buffers[from].mem, buffers[from].device)
  BY <1>1, UsableKnown
<1>3. CopyMade(w, from, b, r)
  BY <1>1, <1>2, CopyMakes
<1> HIDE DEF b, r
<1>4. /\ r.buffer.cached_ptr = b /\ b \in Numbers
      /\ StaysHome(Now, m1, {b, buffers[from].cached_ptr})
      /\ SamePlaces(Now, m1, {Null, b}) /\ SameFrees(Now, m1)
      /\ \A k \in Slots : Present(k) => buffers[k].cached_ptr # b /\ buffers[k].data # b
  BY <1>3 DEF CopyMade
<1>5. PICK w1 : Good(m1, w1) /\ Passes(Now, w, m1, w1, {b}) /\ WillHold(m1, w1, b, meant[from])
  BY <1>3 DEF CopyMade, CopyKnown
<1> HIDE DEF m1
<1>6. /\ current \in Devices /\ meant \in [Slots -> Contents] /\ \A k \in Slots : k \in DOMAIN buffers
  BY DEF Holding, OwnBuffers, MemoryInv, Bufs
<1>7. /\ buffers[n] \in BufferType /\ ReleasedLast(Now, buffers[n]) /\ old \in Numbers \cup {Null}
      /\ \A k \in Slots \ {n} : Usable(k) => buffers[k].cached_ptr # old
  BY <1>1, ReleasableKnown
<1>8. old # b
  <2>1. b # Null
    BY <1>4, Apart
  <2> QED
    BY <1>1, <1>4, <2>1 DEF HeldBy
<1>9. ReleasedLast(m1, buffers[n])
  <2> SUFFICES ASSUME old # Null PROVE ReleasedLast(m1, buffers[n])
    BY DEF ReleasedLast
  <2>1. old \in Numbers \ {Null, b} /\ old # buffers[from].cached_ptr
    BY <1>1, <1>7, <1>8
  <2>2. buffers[n].mem = "gpu" => buffers[n].stream \in Streams
    BY <1>7 DEF HeldBy, BufferType
  <2>3. buffers[n].mem = "gpu" => Home(m1, old, buffers[n].stream)
    BY <1>4, <1>7, <2>1, <2>2 DEF ReleasedLast, StaysHome
  <2>4. m1.blocks[old].mem = buffers[n].mem
    BY <1>4, <1>7, <2>1 DEF ReleasedLast, SamePlaces
  <2>5. \A t \in Streams, i \in Nat : Freed(m1, t, i) # old
    BY <1>4, <1>7 DEF ReleasedLast, SameFrees
  <2> QED
    BY <2>3, <2>4, <2>5 DEF ReleasedLast
<1>10. PICK w2 : Good(m, w2) /\ Passes(m1, w1, m, w2, {old})
  BY <1>5, <1>6, <1>7, <1>9, DestroyedKnown
<1> HIDE DEF m, old
<1>11. ASSUME NEW k \in Slots, buffers'[k] # NoBuffer, ~buffers'[k].moved
       PROVE  WillHold(m, w2, buffers'[k].cached_ptr, meant'[k])
  <2>1. CASE k = n
    <3>1. buffers'[k].cached_ptr = b /\ meant'[k] = meant[from] /\ meant[from] \in Contents
      BY <1>1, <1>4, <1>6, <2>1
    <3> QED
      BY <1>4, <1>5, <1>8, <1>10, <3>1 DEF Passes
  <2>2. CASE k # n
    <3>1. Usable(k) /\ buffers'[k] = buffers[k] /\ meant'[k] = meant[k]
      BY <1>1, <1>6, <1>11, <2>2 DEF Usable, Present
    <3>2. /\ buffers[k].cached_ptr \in Numbers \ {b, old}
          /\ WillHold(Now, w, buffers[k].cached_ptr, meant[k]) /\ meant[k] \in Contents
      BY <1>4, <1>7, <2>2, <3>1, UsableKnown DEF Usable
    <3>3. WillHold(m1, w1, buffers[k].cached_ptr, meant[k])
      BY <1>5, <3>2 DEF Passes
    <3> QED
      BY <1>10, <3>1, <3>2, <3>3 DEF Passes
  <2> QED
    BY <2>1, <2>2
<1>12. meant' \in [Slots -> Contents]
  BY <1>1, <1>6
<1> QED
  BY <1>1, <1>10, <1>11, <1>12 DEF StillHolding, Holding

-----------------------------------------------------------------------------
(* Values are kept *)

(* Every operation on the program's buffers. *)
LEMMA UseBuffersHolds ==
  ASSUME OwnBuffers, NEW w, Holding(Now, w, buffers, meant), UseBuffers
  PROVE  StillHolding
  BY MakeHolds, ViewOrSwapHolds, DestroyHolds, AssignMoveHolds, WriteHolds, MakeCopyHolds, MakeMoveHolds,
     AssignCopyHolds DEF UseBuffers

(* The invariant of the next state, in terms of what it is made of. *)
LEMMA KeptRestated ==
  ASSUME NEW m, Now' = m, NEW bufs, buffers' = bufs, NEW values, meant' = values,
         values \in [Slots -> Contents], program' = "buffers" => NoInference(m) /\ Kept(m, bufs, values)
  PROVE  KeptInv'
  BY DEF KeptInv

(* To be kept is to be held, for some forecast. *)
LEMMA HoldingKept ==
  ASSUME NEW m, Typed(m), NEW bufs, NEW values \in [Slots -> Contents]
  PROVE  NoInference(m) /\ Kept(m, bufs, values) <=> \E w : Holding(m, w, bufs, values)
  BY DEF Kept, Holding, Good, InfersNot

(* A stream that runs makes true what was known. *)
LEMMA RunHolds ==
  ASSUME OwnBuffers, NEW w, Holding(Now, w, buffers, meant), NEW s \in Streams, Run(s)
  PROVE  \E w2 : Holding(Now', w2, buffers, meant)
<1>1. MemoryInv /\ Good(Now, w) /\ meant \in [Slots -> Contents] /\ NoInference(Now)
  BY DEF OwnBuffers, Holding, Good, InfersNot
<1>2. Ran(Now, Now', s) /\ queue[s] # <<>> /\ NoInference(Now')
  BY <1>1, RunRan
<1>3. MemoryInv'
  BY <1>1, RunKeeps
<1> DEFINE m == Now'
<1>4. InfersNot(m) /\ Now.queue[s] # <<>>
  BY <1>2, <1>3, NowFields DEF MemoryInv, InfersNot, Typed
<1> HIDE DEF m
<1>5. PICK w2 : Good(m, w2) /\ Passes(Now, w, m, w2, {Freed(Now, s, 1)})
  <2>1. Ran(Now, m, s)
    BY <1>2 DEF m
  <2> QED
    BY <1>1, <1>4, <2>1, RunKnown
<1>6. ASSUME NEW n \in Slots, buffers[n] # NoBuffer, ~buffers[n].moved
      PROVE  WillHold(m, w2, buffers[n].cached_ptr, meant[n])
  <2>1. Usable(n)
    BY <1>6 DEF Usable, Present
  <2>2. /\ buffers[n].cached_ptr \in Numbers \ {Freed(Now, s, 1)}
        /\ WillHold(Now, w, buffers[n].cached_ptr, meant[n]) /\ meant[n] \in Contents
    BY <2>1, UsableKnown
  <2> QED
    BY <1>5, <2>2 DEF Passes
<1>7. Holding(m, w2, buffers, meant)
  BY <1>1, <1>5, <1>6 DEF Holding
<1> QED
  BY <1>7 DEF m

(* One case for each action. *)
LEMMA KeptNext == OwnershipInv /\ KeptInv /\ [Next]_vars => KeptInv'
<1> SUFFICES ASSUME OwnershipInv, KeptInv, [Next]_vars PROVE KeptInv'
  OBVIOUS
<1>1. /\ MemoryInv /\ ForestInv /\ Typed(Now) /\ meant \in [Slots -> Contents]
      /\ program = "buffers" => NoInference(Now) /\ Kept(Now, buffers, meant)
  BY OwnershipMemory DEF MemoryInv, KeptInv
<1>2. ASSUME program = "buffers"
      PROVE  OwnBuffers /\ \E w : Holding(Now, w, buffers, meant)
  <2>1. OwnBuffers
    BY <1>1, <1>2, MemoryAssumption DEF OwnBuffers, ForestInv
  <2> QED
    BY <1>1, <1>2, <2>1, HoldingKept
<1>3. ASSUME program = "buffers", UseBuffers, UNCHANGED forestVars PROVE KeptInv'
  <2>1. StillHolding
    BY <1>2, <1>3, UseBuffersHolds
  <2> DEFINE bufs == buffers'
             values == meant'
  <2>2. PICK m, w : Become(m) /\ Holding(m, w, bufs, values)
    BY <2>1 DEF StillHolding
  <2>3. Typed(m) /\ values \in [Slots -> Contents]
    BY <2>2 DEF Holding, Good, InfersNot
  <2>4. Now' = m
    BY <2>2, <2>3, NextMemory
  <2>5. buffers' = bufs /\ meant' = values
    OBVIOUS
  <2> HIDE DEF bufs, values
  <2>6. NoInference(m) /\ Kept(m, bufs, values)
    BY <2>2, <2>3, HoldingKept
  <2> QED
    BY <2>3, <2>4, <2>5, <2>6, KeptRestated
<1>4. ASSUME program' = program, meant' = meant, program # "buffers" PROVE KeptInv'
  BY <1>1, <1>4 DEF KeptInv
<1>5. ASSUME UseForest PROVE KeptInv'
  <2>1. program' = program /\ meant' = meant /\ program # "buffers"
    <3>1. ASSUME NEW shape, NEW mem, NEW device, NEW stream, NEW made, NEW ready,
                 Import(shape, mem, device, stream, made, ready)
          PROVE  program' = program /\ meant' = meant /\ program # "buffers"
      BY <3>1 DEF Import
    <3>2. ASSUME NEW stream, NEW chunk, Predict(stream, chunk)
          PROVE  program' = program /\ meant' = meant /\ program # "buffers"
      BY <3>2 DEF Predict, forestVars
    <3>3. DestroyForest => program' = program /\ meant' = meant /\ program # "buffers"
      BY DEF DestroyForest
    <3> QED
      BY <1>5, <3>1, <3>2, <3>3 DEF UseForest
  <2> QED
    BY <1>4, <2>1
<1>6. ASSUME NEW s \in Streams, Run(s), UNCHANGED forestVars PROVE KeptInv'
  <2>1. program' = program /\ meant' = meant /\ buffers' = buffers
    BY <1>6 DEF Run, forestVars
  <2>2. CASE program = "buffers"
    <3> DEFINE m == Now'
    <3>1. \E w : Holding(m, w, buffers, meant)
      BY <1>2, <1>6, <2>2, RunHolds
    <3>2. Now' = m
      OBVIOUS
    <3> HIDE DEF m
    <3>3. Typed(m)
      BY <3>1 DEF Holding, Good, InfersNot
    <3>4. NoInference(m) /\ Kept(m, buffers, meant)
      BY <1>1, <3>1, <3>3, HoldingKept
    <3> QED
      BY <1>1, <2>1, <3>2, <3>4, KeptRestated
  <2> QED
    BY <1>4, <2>1, <2>2
<1>7. ASSUME UNCHANGED <<blocks, queue, buffers, meant, program>> PROVE KeptInv'
  <2> DEFINE m == Now
  <2>1. Now' = m
    BY <1>7 DEF Now
  <2>2. program' = "buffers" => NoInference(m) /\ Kept(m, buffers, meant)
    BY <1>1, <1>7
  <2> HIDE DEF m
  <2> QED
    BY <1>1, <1>7, <2>1, <2>2, KeptRestated
<1>8. ASSUME NEW d \in Devices, SetDevice(d), UNCHANGED forestVars PROVE KeptInv'
  BY <1>7, <1>8 DEF SetDevice, forestVars
<1>9. ASSUME UNCHANGED vars PROVE KeptInv'
  BY <1>7, <1>9 DEF vars, memoryVars, forestVars
<1> QED
  BY <1>3, <1>5, <1>6, <1>8, <1>9 DEF Next

(* At first there are no buffers. *)
LEMMA KeptInit == Init => KeptInv
<1> SUFFICES ASSUME Init PROVE KeptInv
  OBVIOUS
<1>1. /\ \A s \in Streams : DOMAIN Now.queue[s] = {}
      /\ buffers = [n \in Slots \cup Arrays |-> NoBuffer]
      /\ meant = [n \in Slots |-> Garbage]
  BY DEF Init, MemoryInit, Now
<1>2. meant \in [Slots -> Contents]
  BY <1>1 DEF Contents
<1> DEFINE w == [e \in Entries(Now) |-> Garbage]
<1>3. w \in [Entries(Now) -> Contents] /\ Foretold(Now, w) /\ NoInference(Now)
  BY <1>1 DEF Foretold, NoInference, Contents
<1> HIDE DEF w
<1>4. Kept(Now, buffers, meant)
  BY <1>1, <1>3 DEF Kept
<1> QED
  BY <1>2, <1>3, <1>4 DEF KeptInv

(* While streams run at their own pace, every buffer of the program holds what
   it was meant to, or what waits in the one stream that concerns its block will
   write that: copies read what was there when they were asked for, and nothing
   is released before the last use.  It holds whether or not the program makes a
   device current before it uses the device's default stream. *)
THEOREM ValuesInvariant == Spec => []KeptInv
<1>1. Init => KeptInv
  BY KeptInit
<1>2. OwnershipInv /\ KeptInv /\ [Next]_vars => KeptInv'
  BY KeptNext
<1> QED
  BY <1>1, <1>2, OwnershipInvariant, PTL DEF Spec

(* A buffer that nothing waiting concerns holds what was last written to it, or
   to the one it was copied, moved or assigned from, through any sequence of
   copies, moves, assignments, swaps, views and destructions on any devices. *)
THEOREM ValuesAreKept == Spec => []ValuesKept
<1>1. OwnershipInv /\ KeptInv => ValuesKept
  <2> SUFFICES ASSUME OwnershipInv, KeptInv, NEW n \in Slots, Usable(n), Idle(Now, buffers[n].cached_ptr)
               PROVE  blocks[buffers[n].cached_ptr].value = meant[n]
    BY NowFields DEF ValuesKept, Idle
  <2>1. MemoryInv /\ ForestInv /\ Typed(Now) /\ current \in Devices /\ meant \in [Slots -> Contents]
    BY OwnershipMemory DEF MemoryInv, KeptInv
  <2>2. program = "buffers"
    BY <2>1 DEF ForestInv, Usable, Present
  <2>3. PICK w : Holding(Now, w, buffers, meant)
    BY <2>1, <2>2, HoldingKept DEF KeptInv
  <2>4. WillHold(Now, w, buffers[n].cached_ptr, meant[n]) /\ InfersNot(Now)
    BY <2>3 DEF Holding, Good, Usable, Present
  <2> QED
    BY <2>1, <2>4, HeldIdle, NowFields
<1> QED
  BY <1>1, OwnershipInvariant, ValuesInvariant, PTL

=============================================================================

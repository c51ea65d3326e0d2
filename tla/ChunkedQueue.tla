---------------------------- MODULE ChunkedQueue ----------------------------
(***************************************************************************)
(* The chunked queue of utilities/src/common/chunkedqueue.c: an array of   *)
(* independent rings of Alignment slots, each with its own head and tail.  *)
(* One action is one atomic access; the memcpy of an item is one access,   *)
(* after the compare-and-swap that hands the slot out.                     *)
(***************************************************************************)
EXTENDS Integers, Sequences

CONSTANTS
  Pushers, Takers,   \* threads that call Push and Take
  Length, Alignment, \* the arguments of mcmpChunkedQueueCreate
  Items,             \* the items callers push
  Uninit             \* what malloc leaves in a slot, or a caller in its variable

ASSUME SizeAssumption == Length \in Nat \ {0} /\ Alignment \in Nat \ {0}
ASSUME UninitAssumption == Uninit \notin Items

VARIABLES
  head, tail,  \* of every chunk
  items,       \* the slots of every chunk
  pc, chunk,   \* a thread's next access and the chunk it works on
  item,        \* the argument of a push
  index,       \* a thread's copy of head (push) or tail (take)
  out,         \* the variable a caller of take passes by reference
  ret          \* the status a thread's last call returned, until its next call

shared == <<head, tail, items>>
vars   == <<shared, pc, chunk, item, index, out, ret>>

Threads == Pushers \union Takers

\* mcmpChunkedQueueCreate: the length is rounded up to whole chunks.
TotalChunks == (Length + (Alignment - 1)) \div Alignment
Chunks      == 0 .. TotalChunks - 1
Slots       == 0 .. Alignment - 1

\* Mutant: the end of the chunk is forgotten.
BadNextIndex(i) == i + 1

NextIndex(i) == (i + 1) % Alignment

Init ==
  /\ head = [c \in Chunks |-> 0] /\ tail = [c \in Chunks |-> 0]
  /\ items = [c \in Chunks |-> [s \in Slots |-> Uninit]]
  /\ pc = [t \in Threads |-> "idle"]
  /\ chunk = [t \in Threads |-> 0]
  /\ item = [t \in Threads |-> Uninit]
  /\ index = [t \in Threads |-> 0]
  /\ out = [t \in Takers |-> Uninit]
  /\ ret = [t \in Threads |-> "none"]

Goto(t, state) == pc' = [pc EXCEPT ![t] = state]

\* MCMPST_RETURN: the caller has the status and the locals are gone.
Return(t, status) ==
  /\ Goto(t, "idle")
  /\ ret' = [ret EXCEPT ![t] = status]
  /\ chunk' = [chunk EXCEPT ![t] = 0]
  /\ item' = [item EXCEPT ![t] = Uninit]
  /\ index' = [index EXCEPT ![t] = 0]

Begin(t, c, state) ==
  /\ pc[t] = "idle"
  /\ chunk' = [chunk EXCEPT ![t] = c]
  /\ ret' = [ret EXCEPT ![t] = "none"]
  /\ Goto(t, state)
  /\ UNCHANGED <<shared, index, out>>

-----------------------------------------------------------------------------
(* mcmpChunkedQueuePush *)

PushCall(p, c, v) ==
  /\ item' = [item EXCEPT ![p] = v]
  /\ Begin(p, c, "push_load_head")

PushLoadHead(p) ==
  /\ pc[p] = "push_load_head"
  /\ index' = [index EXCEPT ![p] = head[chunk[p]]]
  /\ Goto(p, "push_load_tail")
  /\ UNCHANGED <<shared, chunk, item, out, ret>>

PushFull(p) ==
  /\ pc[p] = "push_load_tail"
  /\ tail[chunk[p]] = NextIndex(index[p])
  /\ Return(p, "OVERFLOW")
  /\ UNCHANGED <<shared, out>>

\* Mutant: the test for a full chunk is gone.
BadPushLoadTail(p) ==
  /\ pc[p] = "push_load_tail"
  /\ Goto(p, "push_cas")
  /\ UNCHANGED <<shared, chunk, item, index, out, ret>>

PushLoadTail(p) ==
  /\ pc[p] = "push_load_tail"
  /\ tail[chunk[p]] # NextIndex(index[p])
  /\ Goto(p, "push_cas")
  /\ UNCHANGED <<shared, chunk, item, index, out, ret>>

PushCas(p) ==
  /\ pc[p] = "push_cas"
  /\ head[chunk[p]] = index[p]
  /\ head' = [head EXCEPT ![chunk[p]] = NextIndex(index[p])]
  /\ Goto(p, "store_item")
  /\ UNCHANGED <<tail, items, chunk, item, index, out, ret>>

\* The compare-and-swap is a weak one: it may fail although head is unchanged.
PushCasFails(p) ==
  /\ pc[p] = "push_cas"
  /\ Goto(p, "push_load_head")
  /\ UNCHANGED <<shared, chunk, item, index, out, ret>>

PushStoreItem(p) ==
  /\ pc[p] = "store_item"
  /\ items' = [items EXCEPT ![chunk[p]][index[p]] = item[p]]
  /\ Return(p, "SUCCESS")
  /\ UNCHANGED <<head, tail, out>>

-----------------------------------------------------------------------------
(* mcmpChunkedQueueTake *)

TakeCall(t, c) ==
  /\ UNCHANGED item
  /\ Begin(t, c, "take_load_tail")

TakeLoadTail(t) ==
  /\ pc[t] = "take_load_tail"
  /\ index' = [index EXCEPT ![t] = tail[chunk[t]]]
  /\ Goto(t, "take_load_head")
  /\ UNCHANGED <<shared, chunk, item, out, ret>>

\* An empty chunk is reported as MCMPST_OVERFLOW.
TakeEmpty(t) ==
  /\ pc[t] = "take_load_head"
  /\ head[chunk[t]] = index[t]
  /\ Return(t, "OVERFLOW")
  /\ UNCHANGED <<shared, out>>

\* Mutant: the test for an empty chunk is gone.
BadTakeLoadHead(t) ==
  /\ pc[t] = "take_load_head"
  /\ Goto(t, "take_cas")
  /\ UNCHANGED <<shared, chunk, item, index, out, ret>>

TakeLoadHead(t) ==
  /\ pc[t] = "take_load_head"
  /\ head[chunk[t]] # index[t]
  /\ Goto(t, "take_cas")
  /\ UNCHANGED <<shared, chunk, item, index, out, ret>>

TakeCas(t) ==
  /\ pc[t] = "take_cas"
  /\ tail[chunk[t]] = index[t]
  /\ tail' = [tail EXCEPT ![chunk[t]] = NextIndex(index[t])]
  /\ Goto(t, "read_item")
  /\ UNCHANGED <<head, items, chunk, item, index, out, ret>>

TakeCasFails(t) ==
  /\ pc[t] = "take_cas"
  /\ Goto(t, "take_load_tail")
  /\ UNCHANGED <<shared, chunk, item, index, out, ret>>

TakeReadItem(t) ==
  /\ pc[t] = "read_item"
  /\ out' = [out EXCEPT ![t] = items[chunk[t]][index[t]]]
  /\ Return(t, "SUCCESS")
  /\ UNCHANGED shared

-----------------------------------------------------------------------------
PushStep(p) ==
  \/ PushLoadHead(p) \/ PushFull(p) \/ PushLoadTail(p)
  \/ PushCas(p) \/ PushCasFails(p) \/ PushStoreItem(p)

TakeStep(t) ==
  \/ TakeLoadTail(t) \/ TakeEmpty(t) \/ TakeLoadHead(t)
  \/ TakeCas(t) \/ TakeCasFails(t) \/ TakeReadItem(t)

Next ==
  \/ \E p \in Pushers : PushStep(p) \/ \E c \in Chunks, v \in Items : PushCall(p, c, v)
  \/ \E t \in Takers : TakeStep(t) \/ \E c \in Chunks : TakeCall(t, c)

Spec == Init /\ [][Next]_vars

\* Calls on one chunk do not overlap; calls on different chunks may.
CallsApart ==
  \A t, u \in Threads : t # u => pc[t] = "idle" \/ pc[u] = "idle" \/ chunk[t] # chunk[u]

\* The queue with callers that see to that.
ApartSpec == Init /\ [][Next /\ CallsApart']_vars

-----------------------------------------------------------------------------
(* Properties *)

\* Every variable has its type: no index leaves the chunk it belongs to.
TypeOK ==
  /\ head \in [Chunks -> Slots] /\ tail \in [Chunks -> Slots]
  /\ items \in [Chunks -> [Slots -> Items \union {Uninit}]]
  /\ pc \in [Threads -> {"idle", "push_load_head", "push_load_tail", "push_cas",
                         "store_item", "take_load_tail", "take_load_head",
                         "take_cas", "read_item"}]
  /\ chunk \in [Threads -> Chunks]
  /\ item \in [Threads -> Items \union {Uninit}]
  /\ index \in [Threads -> Slots]
  /\ out \in [Takers -> Items \union {Uninit}]
  /\ ret \in [Threads -> {"none", "SUCCESS", "OVERFLOW"}]

\* The slot k places after slot t, and how many places h is after t.
SlotFrom(t, k) == IF t + k < Alignment THEN t + k ELSE t + k - Alignment
Span(t, h)     == IF t <= h THEN h - t ELSE h - t + Alignment

\* A push in chunk c has claimed its slot and not stored its item yet.
Storing(c) == \E p \in Pushers : pc[p] = "store_item" /\ chunk[p] = c

\* How many items chunk c holds.
ChunkLength(c) == Span(tail[c], head[c]) - (IF Storing(c) THEN 1 ELSE 0)

AbsQueue(c) == [k \in 1 .. ChunkLength(c) |-> items[c][SlotFrom(tail[c], k - 1)]]
AbsQueues   == [c \in Chunks |-> AbsQueue(c)]

AbsTaken ==
  [t \in Takers |-> IF pc[t] = "read_item" THEN items[chunk[t]][index[t]] ELSE out[t]]

Abs == INSTANCE FifoChunks WITH
         Capacity <- Alignment - 1, Nothing <- Uninit,
         queues <- AbsQueues, taken <- AbsTaken

\* While the calls on a chunk do not overlap, every chunk behaves like a FIFO queue of
\* Alignment - 1 places of its own: a push to one chunk never reaches another.
ImplementsFifoChunks == Abs!AbsSpec

\* A take that returns MCMPST_SUCCESS hands its caller an item some push stored,
\* not what was in the slot before.
TakenWasPushed ==
  [][\A t \in Takers : pc[t] = "read_item" /\ pc'[t] = "idle"
        => out'[t] \in Items]_vars
=============================================================================

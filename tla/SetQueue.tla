------------------------------ MODULE SetQueue ------------------------------
(***************************************************************************)
(* The lock-free set queue of utilities/src/common/setqueue.c: a ring of   *)
(* Length slots with two bitmaps beside it.  A bit of the values bitmap    *)
(* says that a value is queued, a bit of the ready bitmap that the item of *)
(* a slot has been stored.  The values are the numbers 0 .. Length - 1.    *)
(*                                                                         *)
(* One action is one atomic access of the C code; what a thread computes   *)
(* between two accesses happens with the first of them.  The retry loops   *)
(* at lines 86, 131 and 141 end in one atomic update of a bitmap word and  *)
(* are that update.  Memory is sequentially consistent.                    *)
(***************************************************************************)
EXTENDS Integers, FiniteSets, Sequences

CONSTANTS
  Pushers,   \* threads that call mcmpSetQueuePush
  Takers,    \* threads that call mcmpSetQueueTake
  Length,    \* argument of mcmpSetQueueCreate
  WordBits   \* bits of a bitmap word (8 in the code)

ASSUME LengthAssumption == Length \in Nat \ {0}
ASSUME WordBitsAssumption == WordBits \in Nat \ {0}

VARIABLES
  values,  \* the values bitmap, as the set of the enabled bits
  ready,   \* the ready bitmap, as the set of the enabled bits
  items,   \* the ring
  head,    \* the next slot to claim for a push
  tail,    \* the next slot to take from
  pc,      \* the access a thread makes next
  ind,     \* the argument of a push
  word,    \* a push's copy of the values word, for its compare-and-swap
  seen,    \* a push's copy of tail
  index,   \* a thread's copy of head (push) or of tail (take)
  out,     \* the variable a caller of take passes by reference
  ret      \* the status a thread's last call returned, until its next call

shared == <<values, ready, items, head, tail>>
locals == <<ind, word, seen, index>>
vars   == <<shared, pc, locals, out, ret>>

Threads == Pushers \union Takers
Slots   == 0 .. Length - 1
Uninit  == -1   \* what malloc leaves in a slot, or a caller in its variable

PushStates == {"cas_set", "load_tail", "load_head", "check_ready", "undo",
               "cas_head", "store_item", "set_ready"}
TakeStates == {"take_load_tail", "take_load_head", "load_ready", "cas_tail",
               "read_item", "clear_set", "clear_ready"}

\* Mutant: the end of the ring is forgotten.
BadNextIndex(i) == i + 1

NextIndex(i) == (i + 1) % Length

\* The word of bitmap S that holds the bit of v.
WordOf(S, v) == {u \in S : u \div WordBits = v \div WordBits}

Init ==
  /\ values = {} /\ ready = {}
  /\ items = [s \in Slots |-> Uninit]
  /\ head = 0 /\ tail = 0
  /\ pc = [t \in Threads |-> "idle"]
  /\ ind = [t \in Threads |-> 0]
  /\ word = [t \in Threads |-> {}]
  /\ seen = [t \in Threads |-> 0]
  /\ index = [t \in Threads |-> 0]
  /\ out = [t \in Takers |-> Uninit]
  /\ ret = [t \in Threads |-> "none"]

Goto(t, state) == pc' = [pc EXCEPT ![t] = state]

\* MCMPST_RETURN: the caller has the status and the locals are gone.
Return(t, status) ==
  /\ Goto(t, "idle")
  /\ ret' = [ret EXCEPT ![t] = status]
  /\ ind' = [ind EXCEPT ![t] = 0]
  /\ word' = [word EXCEPT ![t] = {}]
  /\ seen' = [seen EXCEPT ![t] = 0]
  /\ index' = [index EXCEPT ![t] = 0]

-----------------------------------------------------------------------------
(* mcmpSetQueuePush *)

\* Line 47: an argument of Length or more is refused.
PushOutOfRange(p) ==
  /\ pc[p] = "idle"
  /\ Return(p, "OVERFLOW")
  /\ UNCHANGED <<shared, out>>

PushPresent(p, v) ==
  /\ pc[p] = "idle"
  /\ v \in values
  /\ Return(p, "ALROP")
  /\ UNCHANGED <<shared, out>>

PushLoadSet(p, v) ==
  /\ pc[p] = "idle"
  /\ v \notin values
  /\ ind' = [ind EXCEPT ![p] = v]
  /\ word' = [word EXCEPT ![p] = WordOf(values, v)]
  /\ ret' = [ret EXCEPT ![p] = "none"]
  /\ Goto(p, "cas_set")
  /\ UNCHANGED <<shared, seen, index, out>>

PushCasSet(p) ==
  /\ pc[p] = "cas_set"
  /\ WordOf(values, ind[p]) = word[p]
  /\ values' = values \union {ind[p]}
  /\ Goto(p, "load_tail")
  /\ UNCHANGED <<ready, items, head, tail, locals, out, ret>>

PushSetLost(p) ==
  /\ pc[p] = "cas_set"
  /\ WordOf(values, ind[p]) # word[p]
  /\ Return(p, "RETRYOP")
  /\ UNCHANGED <<shared, out>>

PushLoadTail(p) ==
  /\ pc[p] = "load_tail"
  /\ seen' = [seen EXCEPT ![p] = tail]
  /\ Goto(p, "load_head")
  /\ UNCHANGED <<shared, ind, word, index, out, ret>>

\* Mutants: no full test, and one that is a slot too early.
NeverFull(i, t) == FALSE
FullTooEarly(i, t) == NextIndex(NextIndex(i)) = t \/ NextIndex(i) = t

LooksFull(i, t) == NextIndex(i) = t

PushLoadHead(p) ==
  /\ pc[p] = "load_head"
  /\ index' = [index EXCEPT ![p] = head]
  /\ Goto(p, IF LooksFull(head, seen[p]) THEN "check_ready" ELSE "cas_head")
  /\ UNCHANGED <<shared, ind, word, seen, out, ret>>

\* Mutant: the full test trusts head and tail alone.
BadPushCheckReady(p) ==
  /\ pc[p] = "check_ready"
  /\ Goto(p, "cas_head")
  /\ UNCHANGED <<shared, locals, out, ret>>

\* mcmpAtomicBitmapIsEnabledBit(ready bitmap, tail)
PushCheckReady(p) ==
  /\ pc[p] = "check_ready"
  /\ Goto(p, IF seen[p] \in ready THEN "undo" ELSE "cas_head")
  /\ UNCHANGED <<shared, locals, out, ret>>

\* Mutant: the push gives up and leaves its value bit set.
BadPushUndo(p) ==
  /\ pc[p] = "undo"
  /\ Return(p, "OVERFLOW")
  /\ UNCHANGED <<shared, out>>

PushUndo(p) ==
  /\ pc[p] = "undo"
  /\ values' = values \ {ind[p]}
  /\ Return(p, "OVERFLOW")
  /\ UNCHANGED <<ready, items, head, tail, out>>

\* Mutant: the slot is published before its item is stored.
BadPushCasHead(p) ==
  /\ pc[p] = "cas_head"
  /\ head = index[p]
  /\ head' = NextIndex(index[p])
  /\ Goto(p, "set_ready")
  /\ UNCHANGED <<values, ready, items, tail, locals, out, ret>>

PushCasHead(p) ==
  /\ pc[p] = "cas_head"
  /\ head = index[p]
  /\ head' = NextIndex(index[p])
  /\ Goto(p, "store_item")
  /\ UNCHANGED <<values, ready, items, tail, locals, out, ret>>

PushHeadLost(p) ==
  /\ pc[p] = "cas_head"
  /\ head # index[p]
  /\ Goto(p, "load_tail")
  /\ UNCHANGED <<shared, locals, out, ret>>

PushStoreItem(p) ==
  /\ pc[p] = "store_item"
  /\ items' = [items EXCEPT ![index[p]] = ind[p]]
  /\ Goto(p, "set_ready")
  /\ UNCHANGED <<values, ready, head, tail, locals, out, ret>>

PushSetReady(p) ==
  /\ pc[p] = "set_ready"
  /\ ready' = ready \union {index[p]}
  /\ Return(p, "SUCCESS")
  /\ UNCHANGED <<values, items, head, tail, out>>

-----------------------------------------------------------------------------
(* mcmpSetQueueTake *)

TakeLoadTail(t) ==
  /\ pc[t] \in {"idle", "take_load_tail"}
  /\ index' = [index EXCEPT ![t] = tail]
  /\ ret' = [ret EXCEPT ![t] = "none"]
  /\ Goto(t, "take_load_head")
  /\ UNCHANGED <<shared, ind, word, seen, out>>

\* Mutant: a take from an empty queue goes round its loop instead of returning.
BadTakeEmpty(t) ==
  /\ pc[t] = "take_load_head"
  /\ head = index[t]
  /\ Goto(t, "take_load_tail")
  /\ UNCHANGED <<shared, locals, out, ret>>

TakeEmpty(t) ==
  /\ pc[t] = "take_load_head"
  /\ head = index[t]
  /\ Return(t, "ISEMPTY")
  /\ UNCHANGED <<shared, out>>

TakeLoadHead(t) ==
  /\ pc[t] = "take_load_head"
  /\ head # index[t]
  /\ Goto(t, "load_ready")
  /\ UNCHANGED <<shared, locals, out, ret>>

TakeNotReady(t) ==
  /\ pc[t] = "load_ready"
  /\ index[t] \notin ready
  /\ Return(t, "RETRYOP")
  /\ UNCHANGED <<shared, out>>

TakeLoadReady(t) ==
  /\ pc[t] = "load_ready"
  /\ index[t] \in ready
  /\ Goto(t, "cas_tail")
  /\ UNCHANGED <<shared, locals, out, ret>>

TakeCasTail(t) ==
  /\ pc[t] = "cas_tail"
  /\ tail = index[t]
  /\ tail' = NextIndex(index[t])
  /\ Goto(t, "read_item")
  /\ UNCHANGED <<values, ready, items, head, locals, out, ret>>

TakeTailLost(t) ==
  /\ pc[t] = "cas_tail"
  /\ tail # index[t]
  /\ Goto(t, "take_load_tail")
  /\ UNCHANGED <<shared, locals, out, ret>>

\* Mutant: the item is read from where tail is now.
BadTakeReadItem(t) ==
  /\ pc[t] = "read_item"
  /\ out' = [out EXCEPT ![t] = items[tail]]
  /\ Goto(t, "clear_set")
  /\ UNCHANGED <<shared, locals, ret>>

TakeReadItem(t) ==
  /\ pc[t] = "read_item"
  /\ out' = [out EXCEPT ![t] = items[index[t]]]
  /\ Goto(t, "clear_set")
  /\ UNCHANGED <<shared, locals, ret>>

\* Mutant: the value bit stays set.
BadTakeClearSet(t) ==
  /\ pc[t] = "clear_set"
  /\ Goto(t, "clear_ready")
  /\ UNCHANGED <<shared, locals, out, ret>>

TakeClearSet(t) ==
  /\ pc[t] = "clear_set"
  /\ values' = values \ {out[t]}
  /\ Goto(t, "clear_ready")
  /\ UNCHANGED <<ready, items, head, tail, locals, out, ret>>

\* Mutant: the ready bit of the slot stays set.
BadTakeClearReady(t) ==
  /\ pc[t] = "clear_ready"
  /\ Return(t, "SUCCESS")
  /\ UNCHANGED <<shared, out>>

TakeClearReady(t) ==
  /\ pc[t] = "clear_ready"
  /\ ready' = ready \ {index[t]}
  /\ Return(t, "SUCCESS")
  /\ UNCHANGED <<values, items, head, tail, out>>

-----------------------------------------------------------------------------
PushCall(p) ==
  \/ PushOutOfRange(p)
  \/ \E v \in Slots : PushPresent(p, v) \/ PushLoadSet(p, v)

PushStep(p) ==
  \/ PushCasSet(p) \/ PushSetLost(p)
  \/ PushLoadTail(p) \/ PushLoadHead(p) \/ PushCheckReady(p) \/ PushUndo(p)
  \/ PushCasHead(p) \/ PushHeadLost(p) \/ PushStoreItem(p) \/ PushSetReady(p)

TakeStep(t) ==
  \/ TakeLoadTail(t) \/ TakeEmpty(t) \/ TakeLoadHead(t)
  \/ TakeNotReady(t) \/ TakeLoadReady(t)
  \/ TakeCasTail(t) \/ TakeTailLost(t)
  \/ TakeReadItem(t) \/ TakeClearSet(t) \/ TakeClearReady(t)

Next ==
  \/ \E p \in Pushers : PushCall(p) \/ PushStep(p)
  \/ \E t \in Takers : TakeStep(t)

Spec == Init /\ [][Next]_vars

\* A push that has begun goes on; whoever takes polls the queue for ever.
Fairness ==
  /\ \A p \in Pushers : WF_vars(PushStep(p))
  /\ \A t \in Takers : WF_vars(TakeStep(t))

FairSpec == Spec /\ Fairness
-----------------------------------------------------------------------------
(* What the accesses in progress say about the shared state *)

Claiming(p)  == pc[p] \in {"store_item", "set_ready"}
Draining(t)  == pc[t] \in {"read_item", "clear_set", "clear_ready"}
Holding(t)   == pc[t] \in {"read_item", "clear_set"}
Inserting(p) == pc[p] \in PushStates \ {"cas_set"}

\* The slots from t up to h, around the end of the ring.
Arc(t, h) == {s \in Slots : IF t <= h THEN t <= s /\ s < h ELSE t <= s \/ s < h}

\* The slots that are claimed for a push and not yet for a take.
Ring == Arc(tail, head)

\* Slots claimed by a push that has not published its item yet.
Claimed == {index[p] : p \in {q \in Pushers : Claiming(q)}}

\* Slots a take has claimed and not released yet.
Drained == {index[t] : t \in {u \in Takers : Draining(u)}}

\* Slots whose item a take is delivering: its value bit is still set.
Delivering == {index[t] : t \in {u \in Takers : Holding(u)}}

\* Slots with an item whose value bit has not been cleared yet.
Held == (Ring \ Claimed) \union Delivering

\* Values whose push has set the value bit and has not returned.
InFlight == {ind[p] : p \in {q \in Pushers : Inserting(q)}}

-----------------------------------------------------------------------------
(* Properties *)

\* Every variable has its type: head, tail and the threads' copies of them
\* never leave the ring, whatever the number of pushers and takers.
TypeOK ==
  /\ values \subseteq Slots /\ ready \subseteq Slots
  /\ items \in [Slots -> Slots \union {Uninit}]
  /\ head \in Slots /\ tail \in Slots
  /\ pc \in [Threads -> {"idle"} \union PushStates \union TakeStates]
  /\ ind \in [Threads -> Slots]
  /\ word \in [Threads -> SUBSET Slots]
  /\ seen \in [Threads -> Slots]
  /\ index \in [Threads -> Slots]
  /\ out \in [Takers -> Slots \union {Uninit}]
  /\ ret \in [Threads -> {"none", "SUCCESS", "OVERFLOW", "ALROP", "RETRYOP", "ISEMPTY"}]

\* A ready bit is set exactly for the published slots between tail and head
\* and for the slot a take is still draining: head, tail and the ready bitmap,
\* written by different threads, tell the same story (lines 75-95, 120-150).
RingPublished == ready = (Ring \ Claimed) \union Drained

\* A value bit is set exactly for the values in the ring, being pushed, or
\* being delivered, and each of them is there once: no bit leaks when a push
\* backs out (line 72) and none is cleared early (lines 131-140).
MembershipExact ==
  /\ values = {items[s] : s \in Held} \union InFlight
  /\ {items[s] : s \in Held} \intersect InFlight = {}
  /\ \A s, u \in Held : items[s] = items[u] => s = u

\* A push never stores into a slot that a take has claimed and may be reading:
\* the slot's ready bit is still set then and the full test at line 71 sees it.
SlotExclusive == Claimed \intersect Drained = {}

\* MCMPST_ISEMPTY (line 114) is only returned when every value whose push has
\* returned MCMPST_SUCCESS has been taken.
EmptyMeansDrained ==
  [][\A t \in Takers : pc[t] # "idle" /\ pc'[t] = "idle" /\ ret'[t] = "ISEMPTY"
        => values \subseteq InFlight \union {items[s] : s \in Delivering}]_vars

\* MCMPST_OVERFLOW (line 73) is only returned while all slots but the one
\* between head and tail hold an item, although tail was read earlier.
OverflowMeansFull ==
  [][\A p \in Pushers : pc[p] = "check_ready" /\ pc'[p] = "undo"
        => Slots \ {index[p]} \subseteq ready]_vars

\* A slot whose ready bit is set has been stored to, so a take never reads
\* memory that malloc left uninitialised (line 128), even with several
\* pushers and takers.
ReadyIsWritten ==
  /\ \A s \in ready : items[s] # Uninit
  /\ \A t \in Takers : pc[t] \in {"cas_tail", "read_item"} => items[index[t]] # Uninit

\* Every queued value is eventually taken: the value bit is cleared again.
EveryValueLeaves == \A v \in Slots : v \in values ~> v \notin values

\* The retry loops of push and take (lines 61-82, 109-127) cannot keep every
\* thread busy for ever: again and again some call returns.
SomeCallReturns == []<>(\E t \in Threads : pc[t] = "idle")

-----------------------------------------------------------------------------
(* With one pusher and one taker the three invariants above are inductive    *)
(* together with what the two threads know of head and tail at each access.  *)

Solo ==
  /\ \A p, q \in Pushers : p = q
  /\ \A t, u \in Takers : t = u
  /\ Length >= 2

PushKnows(p) ==
  /\ pc[p] = "cas_set" => ind[p] \notin word[p]
  /\ pc[p] = "load_head" /\ NextIndex(head) = tail => seen[p] = tail
  /\ pc[p] \in {"check_ready", "undo", "cas_head"} => index[p] = head
  /\ pc[p] = "check_ready" => seen[p] = NextIndex(head)
  /\ pc[p] = "cas_head" => NextIndex(head) # tail
  /\ Claiming(p) => NextIndex(index[p]) = head /\ index[p] \in Ring
  /\ pc[p] = "set_ready" => items[index[p]] = ind[p]

TakeKnows(t) ==
  /\ pc[t] \in {"take_load_head", "load_ready", "cas_tail"} => index[t] = tail
  /\ pc[t] \in {"load_ready", "cas_tail"} => head # tail
  /\ pc[t] = "cas_tail" => index[t] \in ready
  /\ Draining(t) => NextIndex(index[t]) = tail
  /\ pc[t] = "clear_set" => out[t] = items[index[t]]

SpscInv ==
  /\ TypeOK
  /\ \A p \in Pushers : PushKnows(p)
  /\ \A t \in Takers : TakeKnows(t)
  /\ RingPublished
  /\ MembershipExact

-----------------------------------------------------------------------------
(* The set queue implements a bounded FIFO set.  A push takes effect when it *)
(* sets the ready bit, a take when it moves tail.                            *)

\* The slot k places after slot t, and how many places h is after t.
SlotFrom(t, k) == IF t + k < Length THEN t + k ELSE t + k - Length
Span(t, h)     == IF t <= h THEN h - t ELSE h - t + Length

\* How many slots from tail on are published.
QueueLength == Span(tail, head) - (IF Claimed = {} THEN 0 ELSE 1)

AbsQueue == [k \in 1 .. QueueLength |-> items[SlotFrom(tail, k - 1)]]

AbsTaken == [t \in Takers |-> IF pc[t] = "read_item" THEN items[index[t]] ELSE out[t]]

Abs == INSTANCE FifoSet WITH
         Values <- Slots, Capacity <- Length - 1, Nothing <- Uninit,
         queue <- AbsQueue, taken <- AbsTaken

\* With one pusher and one taker, pushes and takes of the C code behave like
\* the atomic operations of a FIFO set of Length - 1 places.
ImplementsFifoSet == Abs!AbsSpec
=============================================================================

------------------------- MODULE ChunkedQueueProofs -------------------------
(***************************************************************************)
(* What holds of chunkedqueue.c for every length and alignment.  No index  *)
(* leaves its chunk, with any threads; and while the calls do not overlap  *)
(* every chunk is a FIFO queue of Alignment - 1 places of its own.         *)
(***************************************************************************)
EXTENDS ChunkedQueue, TLAPS

-----------------------------------------------------------------------------
(* Slots and types *)

\* mcmpChunkedQueueCreate makes at least one chunk.
LEMMA FirstChunk == 0 \in Chunks
<1>1. (Length + (Alignment - 1)) \div Alignment >= 1
  BY SizeAssumption
<1> QED
  BY <1>1, SizeAssumption DEF Chunks, TotalChunks

\* NextIndex stays in the chunk; without the remainder, which the provers handle
\* better, it goes round.
LEMMA NextIndexWraps ==
  ASSUME NEW i \in Slots
  PROVE  /\ NextIndex(i) = IF i = Alignment - 1 THEN 0 ELSE i + 1
         /\ NextIndex(i) \in Slots
<1>1. CASE i = Alignment - 1
  BY <1>1, SizeAssumption DEF NextIndex, Slots
<1>2. CASE i # Alignment - 1
  BY <1>2, SizeAssumption DEF NextIndex, Slots
<1> QED
  BY <1>1, <1>2

\* Two slots with the same successor are one.
LEMMA NextIndexInjective ==
  \A i, j \in Slots : NextIndex(i) = NextIndex(j) => i = j
BY NextIndexWraps DEF Slots

\* The types hold of a new queue.
LEMMA TypeInit == Init => TypeOK
<1>1. 0 \in Slots
  BY SizeAssumption DEF Slots
<1> QED
  BY <1>1, FirstChunk DEF Init, TypeOK

\* Every access keeps them.
LEMMA TypeInductive == TypeOK /\ [Next]_vars => TypeOK'
<1> SUFFICES ASSUME TypeOK, [Next]_vars PROVE TypeOK'
  OBVIOUS
<1>0. 0 \in Slots /\ 0 \in Chunks
  BY FirstChunk, SizeAssumption DEF Slots
<1> USE <1>0 DEF TypeOK, Threads, shared, Goto
<1>1. ASSUME NEW p \in Pushers, NEW c \in Chunks, NEW v \in Items, PushCall(p, c, v)
      PROVE  TypeOK'
  BY <1>1 DEF PushCall, Begin
<1>2. ASSUME NEW p \in Pushers, PushLoadHead(p) PROVE TypeOK'
  BY <1>2 DEF PushLoadHead
<1>3. ASSUME NEW p \in Pushers, PushFull(p) PROVE TypeOK'
  BY <1>3 DEF PushFull, Return
<1>4. ASSUME NEW p \in Pushers, PushLoadTail(p) PROVE TypeOK'
  BY <1>4 DEF PushLoadTail
<1>5. ASSUME NEW p \in Pushers, PushCas(p) PROVE TypeOK'
  BY <1>5, NextIndexWraps DEF PushCas
<1>6. ASSUME NEW p \in Pushers, PushCasFails(p) PROVE TypeOK'
  BY <1>6 DEF PushCasFails
<1>7. ASSUME NEW p \in Pushers, PushStoreItem(p) PROVE TypeOK'
  BY <1>7 DEF PushStoreItem, Return
<1>8. ASSUME NEW t \in Takers, NEW c \in Chunks, TakeCall(t, c) PROVE TypeOK'
  BY <1>8 DEF TakeCall, Begin
<1>9. ASSUME NEW t \in Takers, TakeLoadTail(t) PROVE TypeOK'
  BY <1>9 DEF TakeLoadTail
<1>10. ASSUME NEW t \in Takers, TakeEmpty(t) PROVE TypeOK'
  BY <1>10 DEF TakeEmpty, Return
<1>11. ASSUME NEW t \in Takers, TakeLoadHead(t) PROVE TypeOK'
  BY <1>11 DEF TakeLoadHead
<1>12. ASSUME NEW t \in Takers, TakeCas(t) PROVE TypeOK'
  BY <1>12, NextIndexWraps DEF TakeCas
<1>13. ASSUME NEW t \in Takers, TakeCasFails(t) PROVE TypeOK'
  BY <1>13 DEF TakeCasFails
<1>14. ASSUME NEW t \in Takers, TakeReadItem(t) PROVE TypeOK'
  BY <1>14 DEF TakeReadItem, Return
<1>15. CASE UNCHANGED vars
  BY <1>15 DEF vars
<1> QED
  BY <1>1, <1>2, <1>3, <1>4, <1>5, <1>6, <1>7, <1>8, <1>9, <1>10, <1>11, <1>12, <1>13,
     <1>14, <1>15 DEF Next, PushStep, TakeStep

\* Every variable always has its type, whatever the threads: neither a head nor a
\* tail leaves its chunk.
THEOREM ChunkedTypeCorrect == Spec => []TypeOK
BY TypeInit, TypeInductive, PTL DEF Spec

-----------------------------------------------------------------------------
(* What a call knows while no other call is on its chunk *)

Pushing == {"push_load_head", "push_load_tail", "push_cas", "store_item"}

\* What thread t has read of its chunk is still so.
Knows(t) ==
  /\ pc[t] \in Pushing => t \in Pushers /\ item[t] \in Items
  /\ pc[t] \in {"push_load_tail", "push_cas"} => index[t] = head[chunk[t]]
  /\ pc[t] = "push_cas" => tail[chunk[t]] # NextIndex(index[t])
  /\ pc[t] = "store_item" =>
       head[chunk[t]] = NextIndex(index[t]) /\ tail[chunk[t]] # head[chunk[t]]
  /\ pc[t] \in {"take_load_head", "take_cas"} => index[t] = tail[chunk[t]]
  /\ pc[t] = "take_cas" => head[chunk[t]] # index[t]

ApartInv == TypeOK /\ CallsApart /\ \A t \in Threads : Knows(t)

\* It holds of a new queue.
LEMMA ApartInit == Init => ApartInv
BY TypeInit DEF Init, ApartInv, CallsApart, Knows, Pushing

\* Every access keeps it.
LEMMA ApartInductive == ApartInv /\ [Next /\ CallsApart']_vars => ApartInv'
<1> SUFFICES ASSUME ApartInv, [Next /\ CallsApart']_vars PROVE ApartInv'
  OBVIOUS
<1>t. TypeOK /\ TypeOK' /\ CallsApart /\ CallsApart' /\ [Next]_vars
  <2>1. TypeOK /\ CallsApart /\ [Next]_vars
    BY DEF ApartInv
  <2>2. CallsApart'
    BY <2>1 DEF CallsApart, vars
  <2> QED
    BY <2>1, <2>2, TypeInductive
<1>k. SUFFICES ASSUME NEW u \in Threads PROVE Knows(u)'
  BY <1>t DEF ApartInv
<1>u. \A t \in Threads : Knows(t)
  BY DEF ApartInv
<1> USE <1>t, <1>u DEF TypeOK, Threads, shared, Goto, Knows, Pushing, CallsApart
<1>1. ASSUME NEW p \in Pushers, NEW c \in Chunks, NEW v \in Items, PushCall(p, c, v)
      PROVE  Knows(u)'
  BY <1>1 DEF PushCall, Begin
<1>2. ASSUME NEW p \in Pushers, PushLoadHead(p) PROVE Knows(u)'
  BY <1>2 DEF PushLoadHead
<1>3. ASSUME NEW p \in Pushers, PushFull(p) PROVE Knows(u)'
  BY <1>3 DEF PushFull, Return
<1>4. ASSUME NEW p \in Pushers, PushLoadTail(p) PROVE Knows(u)'
  BY <1>4 DEF PushLoadTail
<1>5. ASSUME NEW p \in Pushers, PushCas(p) PROVE Knows(u)'
  BY <1>5 DEF PushCas
<1>6. ASSUME NEW p \in Pushers, PushCasFails(p) PROVE Knows(u)'
  BY <1>6 DEF PushCasFails
<1>7. ASSUME NEW p \in Pushers, PushStoreItem(p) PROVE Knows(u)'
  BY <1>7 DEF PushStoreItem, Return
<1>8. ASSUME NEW t \in Takers, NEW c \in Chunks, TakeCall(t, c) PROVE Knows(u)'
  BY <1>8 DEF TakeCall, Begin
<1>9. ASSUME NEW t \in Takers, TakeLoadTail(t) PROVE Knows(u)'
  BY <1>9 DEF TakeLoadTail
<1>10. ASSUME NEW t \in Takers, TakeEmpty(t) PROVE Knows(u)'
  BY <1>10 DEF TakeEmpty, Return
<1>11. ASSUME NEW t \in Takers, TakeLoadHead(t) PROVE Knows(u)'
  BY <1>11 DEF TakeLoadHead
<1>12. ASSUME NEW t \in Takers, TakeCas(t) PROVE Knows(u)'
  BY <1>12 DEF TakeCas
<1>13. ASSUME NEW t \in Takers, TakeCasFails(t) PROVE Knows(u)'
  BY <1>13 DEF TakeCasFails
<1>14. ASSUME NEW t \in Takers, TakeReadItem(t) PROVE Knows(u)'
  BY <1>14 DEF TakeReadItem, Return
<1>15. CASE UNCHANGED vars
  BY <1>15 DEF vars
<1> QED
  BY <1>1, <1>2, <1>3, <1>4, <1>5, <1>6, <1>7, <1>8, <1>9, <1>10, <1>11, <1>12, <1>13,
     <1>14, <1>15 DEF Next, PushStep, TakeStep

-----------------------------------------------------------------------------
(* The refinement *)

\* The distance from tail to head, and how it changes when one of them moves.
LEMMA SpanMoves ==
  ASSUME NEW t \in Slots, NEW h \in Slots
  PROVE  /\ Span(t, h) \in 0 .. Alignment - 1
         /\ Span(t, h) = 0 <=> t = h
         /\ NextIndex(h) # t => Span(t, NextIndex(h)) = Span(t, h) + 1
         /\ t # h => Span(NextIndex(t), h) = Span(t, h) - 1
BY NextIndexWraps, SizeAssumption DEF Slots, Span

\* The slots from tail on: they are in the chunk, the last one is before head, and
\* the others are not.
LEMMA SlotsBetween ==
  ASSUME NEW t \in Slots, NEW h \in Slots
  PROVE  /\ SlotFrom(t, 0) = t
         /\ \A k \in 0 .. Alignment - 1 : SlotFrom(t, k) \in Slots
         /\ \A k \in 1 .. Alignment - 1 : SlotFrom(NextIndex(t), k - 1) = SlotFrom(t, k)
         /\ \A k \in 0 .. Span(t, h) - 2 : NextIndex(SlotFrom(t, k)) # h
         /\ t # h => NextIndex(SlotFrom(t, Span(t, h) - 1)) = h
BY NextIndexWraps, SizeAssumption DEF Slots, SlotFrom, Span

\* A sequence is Append(q, e) when it has the places of q and e after them.
LEMMA AppendPlaces ==
  ASSUME NEW S, NEW q \in Seq(S), NEW e \in S, NEW r \in [1 .. Len(q) + 1 -> S],
         \A k \in 1 .. Len(q) : r[k] = q[k], r[Len(q) + 1] = e
  PROVE  r = Append(q, e)
OBVIOUS

\* A sequence is Tail(q) when it has the places of q after the first.
LEMMA TailPlaces ==
  ASSUME NEW S, NEW q \in Seq(S), Len(q) > 0, NEW r \in [1 .. Len(q) - 1 -> S],
         \A k \in 1 .. Len(q) - 1 : r[k] = q[k + 1]
  PROVE  r = Tail(q)
OBVIOUS

\* What the abstract queue of a chunk is made of.
LEMMA QueueOfChunk ==
  ASSUME ApartInv, NEW c \in Chunks
  PROVE  /\ tail[c] \in Slots /\ head[c] \in Slots
         /\ ChunkLength(c) \in 0 .. Alignment - 1
         /\ AbsQueue(c) \in Seq(Items \union {Uninit})
         /\ Len(AbsQueue(c)) = ChunkLength(c)
         /\ \A k \in 1 .. ChunkLength(c) : AbsQueue(c)[k] = items[c][SlotFrom(tail[c], k - 1)]
<1>1. TypeOK /\ tail[c] \in Slots /\ head[c] \in Slots
  BY DEF ApartInv, TypeOK
<1>2. Storing(c) => tail[c] # head[c]
  BY DEF ApartInv, Storing, Knows, Threads
<1>3. Span(tail[c], head[c]) \in 0 .. Alignment - 1 /\ (Storing(c) => Span(tail[c], head[c]) # 0)
  BY <1>1, <1>2, SpanMoves
<1>4. ChunkLength(c) \in 0 .. Alignment - 1
  BY <1>3, SizeAssumption DEF ChunkLength
<1>5. \A k \in 1 .. ChunkLength(c) : k - 1 \in 0 .. Alignment - 1
  BY <1>4, SizeAssumption
<1>6. \A k \in 1 .. ChunkLength(c) : items[c][SlotFrom(tail[c], k - 1)] \in Items \union {Uninit}
  BY <1>1, <1>5, SlotsBetween DEF TypeOK
<1>7. ChunkLength(c) \in Nat
  BY <1>4
<1> QED
  BY <1>1, <1>4, <1>6, <1>7 DEF AbsQueue

\* It stays as long as its slots do.
LEMMA QueueStays ==
  ASSUME ApartInv, NEW c \in Chunks, tail'[c] = tail[c], ChunkLength(c)' = ChunkLength(c),
         \A k \in 1 .. ChunkLength(c) :
            items'[c][SlotFrom(tail[c], k - 1)] = items[c][SlotFrom(tail[c], k - 1)]
  PROVE  AbsQueue(c)' = AbsQueue(c)
BY DEF AbsQueue

\* An access to another chunk leaves it alone.
LEMMA OtherChunk ==
  ASSUME ApartInv, NEW c \in Chunks, Storing(c)' = Storing(c),
         head'[c] = head[c], tail'[c] = tail[c], items'[c] = items[c]
  PROVE  AbsQueue(c)' = AbsQueue(c)
<1>1. ChunkLength(c)' = ChunkLength(c)
  BY DEF ChunkLength
<1> QED
  BY <1>1, QueueStays

\* An access that reads leaves every queue alone.
LEMMA QueuesStay ==
  ASSUME ApartInv, UNCHANGED shared, \A c \in Chunks : Storing(c)' = Storing(c)
  PROVE  AbsQueues' = AbsQueues
<1>1. \A c \in Chunks : AbsQueue(c)' = AbsQueue(c)
  BY OtherChunk DEF shared
<1> QED
  BY <1>1 DEF AbsQueues

\* An access that changes the queue of one chunk.
LEMMA QueuesChange ==
  ASSUME NEW c \in Chunks, NEW q, AbsQueue(c)' = q,
         \A d \in Chunks \ {c} : AbsQueue(d)' = AbsQueue(d)
  PROVE  AbsQueues' = [AbsQueues EXCEPT ![c] = q] /\ AbsQueues[c] = AbsQueue(c)
BY DEF AbsQueues

\* A push appends its item when it stores it in the slot before head.
LEMMA QueueGrows ==
  ASSUME ApartInv, NEW c \in Chunks, NEW i \in Slots, NEW e \in Items,
         Storing(c), ~Storing(c)', head[c] = NextIndex(i), tail[c] # head[c],
         head'[c] = head[c], tail'[c] = tail[c], items'[c] = [items[c] EXCEPT ![i] = e]
  PROVE  AbsQueue(c)' = Append(AbsQueue(c), e) /\ Len(AbsQueue(c)) < Alignment - 1
<1> DEFINE n == ChunkLength(c)
           m == Span(tail[c], head[c])
<1>q. /\ AbsQueue(c) \in Seq(Items \union {Uninit}) /\ Len(AbsQueue(c)) = n
      /\ n \in 0 .. Alignment - 1 /\ tail[c] \in Slots /\ head[c] \in Slots
      /\ \A k \in 1 .. n : AbsQueue(c)[k] = items[c][SlotFrom(tail[c], k - 1)]
  BY QueueOfChunk
<1>1. m \in 1 .. Alignment - 1
  BY <1>q, SpanMoves, SizeAssumption
<1>2. n = m - 1 /\ ChunkLength(c)' = m /\ n + 1 = m
  <2>1. n = m - 1 /\ ChunkLength(c)' = m - 0
    BY DEF ChunkLength
  <2> QED
    BY <1>1, <2>1
<1>3. SlotFrom(tail[c], n) = i
  <2>1. NextIndex(SlotFrom(tail[c], m - 1)) = head[c]
    BY <1>q, SlotsBetween
  <2>2. SlotFrom(tail[c], n) \in Slots
    BY <1>q, SlotsBetween
  <2> QED
    BY <1>2, <2>1, <2>2, NextIndexInjective
<1>4. \A k \in 1 .. n : SlotFrom(tail[c], k - 1) \in Slots /\ SlotFrom(tail[c], k - 1) # i
  <2>1. \A k \in 1 .. n : k - 1 \in 0 .. m - 2 /\ k - 1 \in 0 .. Alignment - 1
    BY <1>1, <1>2, <1>q, SizeAssumption
  <2> HIDE DEF m, n
  <2>2. ASSUME NEW k \in 1 .. n PROVE NextIndex(SlotFrom(tail[c], k - 1)) # head[c]
    BY <1>q, <2>1, SlotsBetween DEF m
  <2>3. \A k \in 1 .. n : SlotFrom(tail[c], k - 1) \in Slots
    BY <1>q, <2>1, SlotsBetween
  <2> QED
    BY <2>2, <2>3
<1>5. items[c] \in [Slots -> Items \union {Uninit}]
  BY DEF ApartInv, TypeOK
<1>6. AbsQueue(c)' = [k \in 1 .. n + 1 |-> items'[c][SlotFrom(tail[c], k - 1)]]
  BY <1>2 DEF AbsQueue
<1> HIDE DEF n, m
<1>7. \A k \in 1 .. n : items'[c][SlotFrom(tail[c], k - 1)] = AbsQueue(c)[k]
  BY <1>4, <1>5, <1>q
<1>8. items'[c][SlotFrom(tail[c], n)] = e /\ items'[c][SlotFrom(tail[c], n + 1 - 1)] = e
  BY <1>3, <1>5, <1>q
<1>9. \A k \in 1 .. n + 1 : items'[c][SlotFrom(tail[c], k - 1)] \in Items \union {Uninit}
  <2>1. \A k \in 1 .. n + 1 : k \in 1 .. n \/ k = n + 1
    BY <1>q
  <2>2. \A k \in 1 .. n : AbsQueue(c)[k] \in Items \union {Uninit}
    BY <1>q
  <2>3. ASSUME NEW k \in 1 .. n + 1
        PROVE  items'[c][SlotFrom(tail[c], k - 1)] \in Items \union {Uninit}
    <3>1. CASE k \in 1 .. n
      BY <1>7, <2>2, <3>1
    <3>2. CASE k = n + 1
      <4>1. k - 1 = n
        BY <1>q, <3>2
      <4> QED
        BY <1>8, <4>1
    <3> QED
      BY <2>1, <3>1, <3>2
  <2> QED
    BY <2>3
<1>10. AbsQueue(c)' = Append(AbsQueue(c), e)
  <2> DEFINE r == [k \in 1 .. n + 1 |-> items'[c][SlotFrom(tail[c], k - 1)]]
  <2>1. r \in [1 .. n + 1 -> Items \union {Uninit}]
    BY <1>9
  <2>2. \A k \in 1 .. n : r[k] = AbsQueue(c)[k]
    BY <1>7, <1>q
  <2>3. r[n + 1] = e
    BY <1>8, <1>q
  <2> HIDE DEF r
  <2>4. r = Append(AbsQueue(c), e)
    BY <1>q, <2>1, <2>2, <2>3, AppendPlaces
  <2> QED
    BY <1>6, <2>4 DEF r
<1> QED
  BY <1>1, <1>2, <1>10, <1>q, SizeAssumption

\* A take removes the first item when it moves tail.
LEMMA QueueShrinks ==
  ASSUME ApartInv, NEW c \in Chunks, ~Storing(c), ~Storing(c)', head[c] # tail[c],
         head'[c] = head[c], items'[c] = items[c], tail'[c] = NextIndex(tail[c])
  PROVE  /\ AbsQueue(c) # <<>> /\ Head(AbsQueue(c)) = items[c][tail[c]]
         /\ AbsQueue(c)' = Tail(AbsQueue(c))
<1> DEFINE n == ChunkLength(c)
<1>q. /\ AbsQueue(c) \in Seq(Items \union {Uninit}) /\ Len(AbsQueue(c)) = n
      /\ n \in 0 .. Alignment - 1 /\ tail[c] \in Slots /\ head[c] \in Slots
      /\ \A k \in 1 .. n : AbsQueue(c)[k] = items[c][SlotFrom(tail[c], k - 1)]
  BY QueueOfChunk
<1>1. n = Span(tail[c], head[c]) /\ ChunkLength(c)' = Span(NextIndex(tail[c]), head[c])
  <2>1. n = Span(tail[c], head[c]) - 0 /\ ChunkLength(c)' = Span(NextIndex(tail[c]), head[c]) - 0
    BY DEF ChunkLength
  <2>2. NextIndex(tail[c]) \in Slots
    BY <1>q, NextIndexWraps
  <2>3. Span(tail[c], head[c]) \in Int /\ Span(NextIndex(tail[c]), head[c]) \in Int
    BY <1>q, <2>2, SpanMoves
  <2> QED
    BY <2>1, <2>3
<1>2. n \in 1 .. Alignment - 1 /\ ChunkLength(c)' = n - 1
  BY <1>1, <1>q, SpanMoves, SizeAssumption
<1>3. AbsQueue(c)' = [k \in 1 .. n - 1 |-> items[c][SlotFrom(NextIndex(tail[c]), k - 1)]]
  BY <1>2 DEF AbsQueue
<1> HIDE DEF n
<1>4. ASSUME NEW k \in 1 .. n - 1
      PROVE  items[c][SlotFrom(NextIndex(tail[c]), k - 1)] = AbsQueue(c)[k + 1]
  <2>1. k \in 1 .. Alignment - 1 /\ k + 1 \in 1 .. n /\ k + 1 - 1 = k
    BY <1>2, SizeAssumption
  <2>2. SlotFrom(NextIndex(tail[c]), k - 1) = SlotFrom(tail[c], k)
    BY <1>q, <2>1, SlotsBetween
  <2>3. AbsQueue(c)[k + 1] = items[c][SlotFrom(tail[c], k + 1 - 1)]
    BY <1>q, <2>1
  <2> QED
    BY <2>1, <2>2, <2>3
<1>5. AbsQueue(c) # <<>> /\ Head(AbsQueue(c)) = items[c][tail[c]]
  <2>1. AbsQueue(c)[1] = items[c][SlotFrom(tail[c], 0)]
    BY <1>2, <1>q
  <2>2. SlotFrom(tail[c], 0) = tail[c]
    BY <1>q, SlotsBetween
  <2> QED
    BY <1>2, <1>q, <2>1, <2>2
<1>6. AbsQueue(c)' = Tail(AbsQueue(c))
  <2> DEFINE r == [k \in 1 .. n - 1 |-> items[c][SlotFrom(NextIndex(tail[c]), k - 1)]]
  <2>1. \A k \in 1 .. n - 1 : r[k] = AbsQueue(c)[k + 1]
    BY <1>4
  <2>2. \A k \in 1 .. n - 1 : AbsQueue(c)[k + 1] \in Items \union {Uninit}
    BY <1>2, <1>q
  <2>3. r \in [1 .. n - 1 -> Items \union {Uninit}]
    BY <2>1, <2>2
  <2> HIDE DEF r
  <2>4. r = Tail(AbsQueue(c))
    BY <1>2, <1>q, <2>1, <2>3, TailPlaces
  <2> QED
    BY <1>3, <2>4 DEF r
<1> QED
  BY <1>5, <1>6

\* Every access is a step of the abstract queues or leaves them alone.
LEMMA ApartSimulation ==
  ASSUME ApartInv, ApartInv', [Next]_vars
  PROVE  [Abs!AbsNext]_(Abs!absVars)
<1>t. /\ TypeOK /\ TypeOK' /\ CallsApart /\ CallsApart'
      /\ \A t \in Threads : Knows(t)
  BY DEF ApartInv
<1> USE <1>t DEF TypeOK, Threads, shared, Goto, CallsApart
<1> DEFINE Still == AbsQueues' = AbsQueues /\ AbsTaken' = AbsTaken
<1>1. ASSUME NEW p \in Pushers, NEW c \in Chunks, NEW v \in Items, PushCall(p, c, v) PROVE Still
  <2>1. UNCHANGED shared /\ \A d \in Chunks : Storing(d)' = Storing(d)
    BY <1>1 DEF Storing, PushCall, Begin
  <2>2. AbsQueues' = AbsQueues
    BY <2>1, QueuesStay
  <2>3. AbsTaken' = AbsTaken
    BY <1>1 DEF AbsTaken, PushCall, Begin
  <2> QED
    BY <2>2, <2>3
<1>2. ASSUME NEW p \in Pushers, PushLoadHead(p) PROVE Still
  <2>1. UNCHANGED shared /\ \A d \in Chunks : Storing(d)' = Storing(d)
    BY <1>2 DEF Storing, PushLoadHead
  <2>2. AbsQueues' = AbsQueues
    BY <2>1, QueuesStay
  <2>3. AbsTaken' = AbsTaken
    BY <1>2 DEF AbsTaken, PushLoadHead
  <2> QED
    BY <2>2, <2>3
<1>3. ASSUME NEW p \in Pushers, PushFull(p) PROVE Still
  <2>1. UNCHANGED shared /\ \A d \in Chunks : Storing(d)' = Storing(d)
    BY <1>3 DEF Storing, PushFull, Return
  <2>2. AbsQueues' = AbsQueues
    BY <2>1, QueuesStay
  <2>3. AbsTaken' = AbsTaken
    BY <1>3 DEF AbsTaken, PushFull, Return
  <2> QED
    BY <2>2, <2>3
<1>4. ASSUME NEW p \in Pushers, PushLoadTail(p) PROVE Still
  <2>1. UNCHANGED shared /\ \A d \in Chunks : Storing(d)' = Storing(d)
    BY <1>4 DEF Storing, PushLoadTail
  <2>2. AbsQueues' = AbsQueues
    BY <2>1, QueuesStay
  <2>3. AbsTaken' = AbsTaken
    BY <1>4 DEF AbsTaken, PushLoadTail
  <2> QED
    BY <2>2, <2>3
<1>5. ASSUME NEW p \in Pushers, PushCas(p) PROVE Still
  <2>0. PICK c \in Chunks : c = chunk[p]
    OBVIOUS
  <2>1. head[c] = index[p] /\ tail[c] # NextIndex(head[c])
    BY <1>5, <2>0 DEF PushCas, Knows
  <2>2. /\ head'[c] = NextIndex(head[c]) /\ UNCHANGED <<tail, items, chunk, index, out>>
        /\ \A d \in Chunks \ {c} : head'[d] = head[d]
        /\ pc[p] = "push_cas" /\ pc'[p] = "store_item" /\ \A u \in Threads \ {p} : pc'[u] = pc[u]
    BY <1>5, <2>0, <2>1 DEF PushCas
  <2>3. ~Storing(c) /\ Storing(c)' /\ \A d \in Chunks \ {c} : Storing(d)' = Storing(d)
    BY <1>5, <2>0, <2>2 DEF Storing
  <2>4. Span(tail[c], head[c])' = Span(tail[c], head[c]) + 1 /\ Span(tail[c], head[c]) \in Nat
    BY <2>1, <2>2, SpanMoves
  <2>5. ChunkLength(c)' = ChunkLength(c)
    BY <2>3, <2>4 DEF ChunkLength
  <2>6. AbsQueue(c)' = AbsQueue(c)
    BY <2>2, <2>5, QueueStays
  <2>7. \A d \in Chunks \ {c} : AbsQueue(d)' = AbsQueue(d)
    BY <2>2, <2>3, OtherChunk
  <2>8. AbsQueues' = AbsQueues
    BY <2>6, <2>7 DEF AbsQueues
  <2>9. AbsTaken' = AbsTaken
    BY <1>5, <2>2 DEF AbsTaken
  <2> QED
    BY <2>8, <2>9
<1>6. ASSUME NEW p \in Pushers, PushCasFails(p) PROVE Still
  <2>1. UNCHANGED shared /\ \A d \in Chunks : Storing(d)' = Storing(d)
    BY <1>6 DEF Storing, PushCasFails
  <2>2. AbsQueues' = AbsQueues
    BY <2>1, QueuesStay
  <2>3. AbsTaken' = AbsTaken
    BY <1>6 DEF AbsTaken, PushCasFails
  <2> QED
    BY <2>2, <2>3
<1>7. ASSUME NEW p \in Pushers, PushStoreItem(p) PROVE Abs!AbsNext
  <2>0. PICK c \in Chunks, e \in Items : c = chunk[p] /\ e = item[p]
    BY <1>7 DEF PushStoreItem, Knows, Pushing
  <2>1. index[p] \in Slots /\ head[c] = NextIndex(index[p]) /\ tail[c] # head[c]
    BY <1>7, <2>0 DEF PushStoreItem, Knows
  <2>2. /\ UNCHANGED <<head, tail, out>>
        /\ items'[c] = [items[c] EXCEPT ![index[p]] = e]
        /\ \A d \in Chunks \ {c} : items'[d] = items[d]
        /\ pc[p] = "store_item" /\ pc'[p] = "idle"
        /\ \A u \in Threads \ {p} : pc'[u] = pc[u] /\ chunk'[u] = chunk[u] /\ index'[u] = index[u]
    BY <1>7, <2>0 DEF PushStoreItem, Return
  <2>3. Storing(c) /\ ~Storing(c)' /\ \A d \in Chunks \ {c} : Storing(d)' = Storing(d)
    <3>1. Storing(c)
      BY <1>7, <2>0, <2>2 DEF Storing
    <3>2. \A u \in Pushers : 
             pc'[u] = "store_item" => u # p /\ pc[u] = pc'[u] /\ chunk[u] = chunk'[u]
      BY <2>2
    <3>3. \A u \in Pushers : pc[u] = "store_item" /\ u # p => chunk[u] # c
      BY <2>0, <2>2
    <3>4. ~Storing(c)'
      BY <3>2, <3>3 DEF Storing
    <3>5. ASSUME NEW d \in Chunks \ {c} PROVE Storing(d)' = Storing(d)
      BY <2>0, <2>2, <3>2 DEF Storing
    <3> QED
      BY <3>1, <3>4, <3>5
  <2>4. AbsQueue(c)' = Append(AbsQueue(c), e) /\ Len(AbsQueue(c)) < Alignment - 1
    BY <2>1, <2>2, <2>3, QueueGrows
  <2>5. \A d \in Chunks \ {c} : AbsQueue(d)' = AbsQueue(d)
    BY <2>2, <2>3, OtherChunk
  <2>6. AbsQueues' = [AbsQueues EXCEPT ![c] = Append(@, e)] /\ Len(AbsQueues[c]) < Alignment - 1
    BY <2>4, <2>5, QueuesChange
  <2>7. AbsTaken' = AbsTaken
    <3> HIDE DEF TypeOK, shared, Goto
    <3>1. \A t \in Takers : pc[t] = "read_item" => t # p /\ chunk[t] # c
      BY <2>0, <2>2
    <3>2. ASSUME NEW t \in Takers
          PROVE  (IF pc[t] = "read_item" THEN items[chunk[t]][index[t]] ELSE out[t])'
                   = IF pc[t] = "read_item" THEN items[chunk[t]][index[t]] ELSE out[t]
      <4>1. CASE t = p
        BY <2>2, <4>1
      <4>2. CASE t # p
        BY <1>t, <2>2, <3>1, <4>2 DEF TypeOK
      <4> QED
        BY <4>1, <4>2
    <3> QED
      BY <3>2, Zenon DEF AbsTaken
  <2>8. Abs!AbsPush(c)
    BY <2>6, <2>7 DEF Abs!AbsPush
  <2> QED
    BY <2>8 DEF Abs!AbsNext
<1>8. ASSUME NEW t \in Takers, NEW c \in Chunks, TakeCall(t, c) PROVE Still
  <2>1. UNCHANGED shared /\ \A d \in Chunks : Storing(d)' = Storing(d)
    BY <1>8 DEF Storing, TakeCall, Begin
  <2>2. AbsQueues' = AbsQueues
    BY <2>1, QueuesStay
  <2>3. AbsTaken' = AbsTaken
    BY <1>8 DEF AbsTaken, TakeCall, Begin
  <2> QED
    BY <2>2, <2>3
<1>9. ASSUME NEW t \in Takers, TakeLoadTail(t) PROVE Still
  <2>1. UNCHANGED shared /\ \A d \in Chunks : Storing(d)' = Storing(d)
    BY <1>9 DEF Storing, TakeLoadTail
  <2>2. AbsQueues' = AbsQueues
    BY <2>1, QueuesStay
  <2>3. AbsTaken' = AbsTaken
    BY <1>9 DEF AbsTaken, TakeLoadTail
  <2> QED
    BY <2>2, <2>3
<1>10. ASSUME NEW t \in Takers, TakeEmpty(t) PROVE Still
  <2>1. UNCHANGED shared /\ \A d \in Chunks : Storing(d)' = Storing(d)
    BY <1>10 DEF Storing, TakeEmpty, Return
  <2>2. AbsQueues' = AbsQueues
    BY <2>1, QueuesStay
  <2>3. AbsTaken' = AbsTaken
    BY <1>10 DEF AbsTaken, TakeEmpty, Return
  <2> QED
    BY <2>2, <2>3
<1>11. ASSUME NEW t \in Takers, TakeLoadHead(t) PROVE Still
  <2>1. UNCHANGED shared /\ \A d \in Chunks : Storing(d)' = Storing(d)
    BY <1>11 DEF Storing, TakeLoadHead
  <2>2. AbsQueues' = AbsQueues
    BY <2>1, QueuesStay
  <2>3. AbsTaken' = AbsTaken
    BY <1>11 DEF AbsTaken, TakeLoadHead
  <2> QED
    BY <2>2, <2>3
<1>12. ASSUME NEW t \in Takers, TakeCas(t) PROVE Abs!AbsNext
  <2>0. PICK c \in Chunks : c = chunk[t]
    OBVIOUS
  <2>1. tail[c] = index[t] /\ head[c] # tail[c]
    BY <1>12, <2>0 DEF TakeCas, Knows
  <2>2. /\ UNCHANGED <<head, items, chunk, index, out>>
        /\ tail'[c] = NextIndex(tail[c]) /\ \A d \in Chunks \ {c} : tail'[d] = tail[d]
        /\ pc[t] = "take_cas" /\ pc'[t] = "read_item" /\ \A u \in Threads \ {t} : pc'[u] = pc[u]
    BY <1>12, <2>0, <2>1 DEF TakeCas
  <2>3. ~Storing(c) /\ \A d \in Chunks : Storing(d)' = Storing(d)
    BY <2>0, <2>2 DEF Storing
  <2>4. /\ AbsQueue(c) # <<>> /\ Head(AbsQueue(c)) = items[c][tail[c]]
        /\ AbsQueue(c)' = Tail(AbsQueue(c))
    BY <2>1, <2>2, <2>3, QueueShrinks
  <2>5. \A d \in Chunks \ {c} : AbsQueue(d)' = AbsQueue(d)
    BY <2>2, <2>3, OtherChunk
  <2>6. /\ AbsQueues' = [AbsQueues EXCEPT ![c] = Tail(@)]
        /\ AbsQueues[c] # <<>> /\ Head(AbsQueues[c]) = items[c][tail[c]]
    <3>1. AbsQueues[c] = AbsQueue(c)
      BY DEF AbsQueues
    <3>2. AbsQueues' = [AbsQueues EXCEPT ![c] = Tail(AbsQueue(c))]
      BY <2>4, <2>5 DEF AbsQueues
    <3> QED
      BY <2>4, <3>1, <3>2
  <2>7. AbsTaken' = [AbsTaken EXCEPT ![t] = items[c][tail[c]]]
    <3> HIDE DEF TypeOK, shared, Goto, CallsApart
    <3> DEFINE Held(u) == IF pc[u] = "read_item" THEN items[chunk[u]][index[u]] ELSE out[u]
    <3>1. Held(t)' = items[c][tail[c]]
      BY <2>0, <2>1, <2>2
    <3>2. \A u \in Takers \ {t} : Held(u)' = Held(u)
      BY <2>2
    <3>3. AbsTaken = [u \in Takers |-> Held(u)] /\ AbsTaken' = [u \in Takers |-> Held(u)']
      BY DEF AbsTaken
    <3> HIDE DEF Held
    <3> QED
      BY <3>1, <3>2, <3>3
  <2>8. Abs!AbsTake(t, c)
    BY <2>6, <2>7 DEF Abs!AbsTake
  <2> QED
    BY <1>12, <2>8 DEF Abs!AbsNext
<1>13. ASSUME NEW t \in Takers, TakeCasFails(t) PROVE Still
  <2>1. UNCHANGED shared /\ \A d \in Chunks : Storing(d)' = Storing(d)
    BY <1>13 DEF Storing, TakeCasFails
  <2>2. AbsQueues' = AbsQueues
    BY <2>1, QueuesStay
  <2>3. AbsTaken' = AbsTaken
    BY <1>13 DEF AbsTaken, TakeCasFails
  <2> QED
    BY <2>2, <2>3
<1>14. ASSUME NEW t \in Takers, TakeReadItem(t) PROVE Still
  <2>1. UNCHANGED shared /\ \A d \in Chunks : Storing(d)' = Storing(d)
    BY <1>14 DEF Storing, TakeReadItem, Return
  <2>2. AbsQueues' = AbsQueues
    BY <2>1, QueuesStay
  <2>3. AbsTaken' = AbsTaken
    BY <1>14 DEF AbsTaken, TakeReadItem, Return
  <2> QED
    BY <2>2, <2>3
<1>15. CASE UNCHANGED vars
  <2>1. Still
    BY <1>15 DEF vars, AbsQueues, AbsQueue, AbsTaken, ChunkLength, Storing
  <2> QED
    BY <2>1 DEF Abs!absVars
<1>s. Still => [Abs!AbsNext]_(Abs!absVars)
  BY DEF Abs!absVars
<1> HIDE DEF Still
<1> QED
  BY <1>s, <1>1, <1>2, <1>3, <1>4, <1>5, <1>6, <1>7, <1>8, <1>9, <1>10, <1>11, <1>12,
     <1>13, <1>14, <1>15 DEF Next, PushStep, TakeStep

\* While the calls on a chunk do not overlap, every chunk is a FIFO queue of
\* Alignment - 1 places of its own, for any length, alignment and threads: nothing is
\* lost, duplicated or reordered, and nothing reaches another chunk.
THEOREM ApartImplementsFifoChunks == ApartSpec => ImplementsFifoChunks
<1>1. Init => Abs!AbsInit
  <2> SUFFICES ASSUME Init
               PROVE  /\ AbsQueues = [c \in Chunks |-> <<>>]
                      /\ AbsTaken = [t \in Takers |-> Uninit]
    BY DEF Abs!AbsInit
  <2>1. \A c \in Chunks : ChunkLength(c) = 0
    BY DEF Init, ChunkLength, Span, Storing, Threads
  <2>2. \A c \in Chunks : AbsQueue(c) = <<>>
    BY <2>1 DEF AbsQueue
  <2>3. AbsTaken = [t \in Takers |-> Uninit]
    BY DEF Init, AbsTaken, Threads
  <2> QED
    BY <2>2, <2>3 DEF AbsQueues
<1>2. ApartInv /\ ApartInv' /\ [Next /\ CallsApart']_vars => [Abs!AbsNext]_(Abs!absVars)
  BY ApartSimulation
<1> QED
  BY <1>1, <1>2, ApartInit, ApartInductive, PTL DEF ApartSpec, ImplementsFifoChunks, Abs!AbsSpec

\* In particular when one thread makes all the calls.
THEOREM SoleImplementsFifoChunks ==
  ASSUME \A t, u \in Threads : t = u
  PROVE  Spec => ImplementsFifoChunks
<1>1. CallsApart'
  BY DEF CallsApart
<1>2. [Next]_vars => [Next /\ CallsApart']_vars
  BY <1>1
<1>3. Spec => ApartSpec
  BY <1>2, PTL DEF Spec, ApartSpec
<1> QED
  BY <1>3, ApartImplementsFifoChunks

-----------------------------------------------------------------------------
(* Takes yield pushed items *)

\* The chunks hold items, and so does the slot a take is about to read.
Filled ==
  /\ AbsQueues \in [Chunks -> Seq(Items)]
  /\ \A t \in Takers : pc[t] = "read_item" => items[chunk[t]][index[t]] \in Items

\* A take comes to its read by moving tail, and its slot is left alone until then.
LEMMA ReadingStays ==
  ASSUME ApartInv, ApartInv', [Next]_vars, NEW u \in Takers, pc'[u] = "read_item"
  PROVE  \/ TakeCas(u)
         \/ pc[u] = "read_item" /\ items'[chunk'[u]][index'[u]] = items[chunk[u]][index[u]]
<1> DEFINE Stays == pc[u] = "read_item" /\ items'[chunk'[u]][index'[u]] = items[chunk[u]][index[u]]
<1>t. TypeOK /\ TypeOK' /\ CallsApart
  BY DEF ApartInv
<1> USE <1>t DEF TypeOK, Threads, shared, Goto
<1>1. ASSUME NEW p \in Pushers, NEW c \in Chunks, NEW v \in Items, PushCall(p, c, v) PROVE Stays
  BY <1>1 DEF PushCall, Begin
<1>2. ASSUME NEW p \in Pushers, PushLoadHead(p) PROVE Stays
  BY <1>2 DEF PushLoadHead
<1>3. ASSUME NEW p \in Pushers, PushFull(p) PROVE Stays
  BY <1>3 DEF PushFull, Return
<1>4. ASSUME NEW p \in Pushers, PushLoadTail(p) PROVE Stays
  BY <1>4 DEF PushLoadTail
<1>5. ASSUME NEW p \in Pushers, PushCas(p) PROVE Stays
  BY <1>5 DEF PushCas
<1>6. ASSUME NEW p \in Pushers, PushCasFails(p) PROVE Stays
  BY <1>6 DEF PushCasFails
<1>7. ASSUME NEW p \in Pushers, PushStoreItem(p) PROVE Stays
  <2>1. pc[u] = "read_item" /\ u # p /\ chunk[u] # chunk[p]
    BY <1>7 DEF PushStoreItem, Return, CallsApart
  <2> QED
    BY <1>7, <2>1 DEF PushStoreItem, Return
<1>8. ASSUME NEW t \in Takers, NEW c \in Chunks, TakeCall(t, c) PROVE Stays
  BY <1>8 DEF TakeCall, Begin
<1>9. ASSUME NEW t \in Takers, TakeLoadTail(t) PROVE Stays
  BY <1>9 DEF TakeLoadTail
<1>10. ASSUME NEW t \in Takers, TakeEmpty(t) PROVE Stays
  BY <1>10 DEF TakeEmpty, Return
<1>11. ASSUME NEW t \in Takers, TakeLoadHead(t) PROVE Stays
  BY <1>11 DEF TakeLoadHead
<1>12. ASSUME NEW t \in Takers, TakeCas(t) PROVE TakeCas(u) \/ Stays
  <2>1. CASE t = u
    BY <1>12, <2>1
  <2>2. CASE t # u
    BY <1>12, <2>2 DEF TakeCas
  <2> QED
    BY <2>1, <2>2
<1>13. ASSUME NEW t \in Takers, TakeCasFails(t) PROVE Stays
  BY <1>13 DEF TakeCasFails
<1>14. ASSUME NEW t \in Takers, TakeReadItem(t) PROVE Stays
  BY <1>14 DEF TakeReadItem, Return
<1>15. CASE UNCHANGED vars
  BY <1>15 DEF vars
<1> QED
  BY <1>1, <1>2, <1>3, <1>4, <1>5, <1>6, <1>7, <1>8, <1>9, <1>10, <1>11, <1>12, <1>13,
     <1>14, <1>15 DEF Next, PushStep, TakeStep

\* What a take is about to read is the head of its chunk's queue.
LEMMA TakesHead ==
  ASSUME ApartInv, NEW t \in Takers, TakeCas(t)
  PROVE  AbsQueue(chunk[t]) # <<>> /\ Head(AbsQueue(chunk[t])) = items[chunk[t]][index[t]]
<1>1. PICK c \in Chunks : c = chunk[t]
  BY DEF ApartInv, TypeOK, Threads
<1>2. tail[c] = index[t] /\ head[c] # tail[c] /\ pc[t] = "take_cas"
  BY <1>1 DEF TakeCas, ApartInv, Knows, Threads
<1>3. ~Storing(c)
  BY <1>1, <1>2 DEF Storing, ApartInv, CallsApart, Threads
<1>4. /\ AbsQueue(c) \in Seq(Items \union {Uninit}) /\ Len(AbsQueue(c)) = ChunkLength(c)
      /\ ChunkLength(c) \in Nat /\ tail[c] \in Slots /\ head[c] \in Slots
      /\ \A k \in 1 .. ChunkLength(c) : AbsQueue(c)[k] = items[c][SlotFrom(tail[c], k - 1)]
  BY QueueOfChunk
<1>5. Span(tail[c], head[c]) \in Nat \ {0}
  BY <1>2, <1>4, SpanMoves
<1>6. ChunkLength(c) > 0
  BY <1>3, <1>5 DEF ChunkLength
<1>7. AbsQueue(c)[1] = items[c][tail[c]]
  <2>1. AbsQueue(c)[1] = items[c][SlotFrom(tail[c], 0)]
    BY <1>4, <1>6
  <2> QED
    BY <1>4, <2>1, SlotsBetween
<1> QED
  BY <1>1, <1>2, <1>4, <1>6, <1>7

\* Every access keeps the chunks filled with items.
LEMMA FilledInductive ==
  ASSUME ApartInv, ApartInv', Filled, [Next]_vars
  PROVE  Filled'
<1>1. AbsQueues' \in [Chunks -> Seq(Items)]
  <2>1. [Abs!AbsNext]_(Abs!absVars)
    BY ApartSimulation
  <2>2. AbsQueues \in [Chunks -> Seq(Items)]
    BY DEF Filled
  <2>3. ASSUME NEW c \in Chunks, Abs!AbsPush(c) PROVE AbsQueues' \in [Chunks -> Seq(Items)]
    BY <2>2, <2>3 DEF Abs!AbsPush
  <2>4. ASSUME NEW c \in Chunks, NEW t \in Takers, Abs!AbsTake(t, c)
        PROVE  AbsQueues' \in [Chunks -> Seq(Items)]
    <3>1. AbsQueues[c] \in Seq(Items) /\ AbsQueues[c] # <<>>
      BY <2>2, <2>4 DEF Abs!AbsTake
    <3>2. Tail(AbsQueues[c]) \in Seq(Items)
      BY <3>1
    <3> QED
      BY <2>2, <2>4, <3>2 DEF Abs!AbsTake
  <2> QED
    BY <2>1, <2>2, <2>3, <2>4 DEF Abs!AbsNext, Abs!absVars
<1>2. ASSUME NEW u \in Takers, pc'[u] = "read_item" PROVE items'[chunk'[u]][index'[u]] \in Items
  <2>1. CASE TakeCas(u)
    <3>1. chunk[u] \in Chunks
      BY DEF ApartInv, TypeOK, Threads
    <3>2. AbsQueue(chunk[u]) \in Seq(Items)
      BY <3>1 DEF Filled, AbsQueues
    <3>3. items[chunk[u]][index[u]] \in Items
      <4>1. AbsQueue(chunk[u]) # <<>> /\ Head(AbsQueue(chunk[u])) = items[chunk[u]][index[u]]
        BY <2>1, TakesHead
      <4> QED
        BY <3>2, <4>1
    <3> QED
      BY <2>1, <3>3 DEF TakeCas
  <2>2. CASE pc[u] = "read_item" /\ items'[chunk'[u]][index'[u]] = items[chunk[u]][index[u]]
    BY <2>2 DEF Filled
  <2> QED
    BY <1>2, <2>1, <2>2, ReadingStays
<1> QED
  BY <1>1, <1>2 DEF Filled

\* While the calls on a chunk do not overlap, a take that succeeds yields an item that
\* a push has stored, never what malloc left in the slot.
THEOREM ApartTakenWasPushed == ApartSpec => TakenWasPushed
<1>1. Init => Filled
  <2> SUFFICES ASSUME Init PROVE Filled
    OBVIOUS
  <2>1. \A c \in Chunks : ChunkLength(c) = 0
    BY DEF Init, ChunkLength, Span, Storing, Threads
  <2>2. \A c \in Chunks : AbsQueue(c) = <<>>
    BY <2>1 DEF AbsQueue
  <2>3. AbsQueues \in [Chunks -> Seq(Items)]
    <3>1. <<>> \in Seq(Items)
      OBVIOUS
    <3>2. AbsQueues = [c \in Chunks |-> <<>>]
      BY <2>2 DEF AbsQueues
    <3> QED
      BY <3>1, <3>2
  <2> QED
    BY <2>3 DEF Init, Filled, Threads
<1>2. ApartInv /\ ApartInv' /\ Filled /\ [Next /\ CallsApart']_vars => Filled'
  BY FilledInductive
<1>3. ApartInv /\ Filled /\ [Next /\ CallsApart']_vars
        => [\A t \in Takers : pc[t] = "read_item" /\ pc'[t] = "idle" => out'[t] \in Items]_vars
  <2> SUFFICES ASSUME ApartInv, Filled, Next, NEW u \in Takers,
                      pc[u] = "read_item", pc'[u] = "idle"
               PROVE  out'[u] \in Items
    OBVIOUS
  <2>t. TypeOK
    BY DEF ApartInv
  <2>1. TakeReadItem(u)
    BY <2>t DEF Next, PushStep, TakeStep, TypeOK, Threads, Goto, Return, Begin, PushCall,
       PushLoadHead, PushFull, PushLoadTail, PushCas, PushCasFails, PushStoreItem, TakeCall,
       TakeLoadTail, TakeEmpty, TakeLoadHead, TakeCas, TakeCasFails, TakeReadItem
  <2> QED
    BY <2>1, <2>t DEF TakeReadItem, Filled, TypeOK
<1> QED
  BY <1>1, <1>2, <1>3, ApartInit, ApartInductive, PTL DEF ApartSpec, TakenWasPushed
=============================================================================

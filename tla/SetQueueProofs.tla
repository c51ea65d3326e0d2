--------------------------- MODULE SetQueueProofs ---------------------------
(***************************************************************************)
(* What holds of setqueue.c for every ring length.  Type correctness and   *)
(* ReadyIsWritten hold for any threads.  The agreement of the two bitmaps  *)
(* with head and tail holds with one pusher and one taker: SpscInv adds to *)
(* the invariants what each thread knows of head and tail at each access,  *)
(* and is inductive.                                                       *)
(***************************************************************************)
EXTENDS SetQueue, TLAPS

-----------------------------------------------------------------------------
(* Slots and types *)

\* The first slot, where mcmpSetQueueCreate puts head and tail, exists.
LEMMA ZeroInSlots == 0 \in Slots
BY LengthAssumption DEF Slots

\* The increment of line 70 stays in the ring.
LEMMA NextIndexInSlots ==
  \A i \in Slots : NextIndex(i) \in Slots
BY LengthAssumption DEF NextIndex, Slots

\* NextIndex without the remainder, which the provers handle better.
LEMMA NextIndexWraps ==
  \A i \in Slots : NextIndex(i) = IF i = Length - 1 THEN 0 ELSE i + 1
<1> SUFFICES ASSUME NEW i \in Slots
             PROVE  NextIndex(i) = IF i = Length - 1 THEN 0 ELSE i + 1
  OBVIOUS
<1>1. CASE i = Length - 1
  BY <1>1, LengthAssumption DEF NextIndex, Slots
<1>2. CASE i # Length - 1
  BY <1>2, LengthAssumption DEF NextIndex, Slots
<1> QED BY <1>1, <1>2

\* A copy of a word of the values bitmap holds bits of the bitmap only.
LEMMA WordOfInSlots ==
  ASSUME NEW S \in SUBSET Slots, NEW v
  PROVE  WordOf(S, v) \in SUBSET Slots
BY DEF WordOf

\* Every access of push and take keeps the types.
LEMMA TypeInductive == TypeOK /\ [Next]_vars => TypeOK'
<1> USE DEF Threads
<1> SUFFICES ASSUME TypeOK, [Next]_vars PROVE TypeOK'
  OBVIOUS
<1> USE DEF TypeOK, PushStates, TakeStates, Goto, shared, locals
<1>1. ASSUME NEW p \in Pushers, PushOutOfRange(p) PROVE TypeOK'
  BY <1>1, ZeroInSlots DEF PushOutOfRange, Return
<1>2. ASSUME NEW p \in Pushers, NEW v \in Slots, PushPresent(p, v) PROVE TypeOK'
  BY <1>2, ZeroInSlots DEF PushPresent, Return
<1>3. ASSUME NEW p \in Pushers, NEW v \in Slots, PushLoadSet(p, v) PROVE TypeOK'
  BY <1>3, WordOfInSlots DEF PushLoadSet
<1>4. ASSUME NEW p \in Pushers, PushCasSet(p) PROVE TypeOK'
  BY <1>4 DEF PushCasSet
<1>5. ASSUME NEW p \in Pushers, PushSetLost(p) PROVE TypeOK'
  BY <1>5, ZeroInSlots DEF PushSetLost, Return
<1>6. ASSUME NEW p \in Pushers, PushLoadTail(p) PROVE TypeOK'
  BY <1>6 DEF PushLoadTail
<1>7. ASSUME NEW p \in Pushers, PushLoadHead(p) PROVE TypeOK'
  BY <1>7 DEF PushLoadHead
<1>8. ASSUME NEW p \in Pushers, PushCheckReady(p) PROVE TypeOK'
  BY <1>8 DEF PushCheckReady
<1>9. ASSUME NEW p \in Pushers, PushUndo(p) PROVE TypeOK'
  BY <1>9, ZeroInSlots DEF PushUndo, Return
<1>10. ASSUME NEW p \in Pushers, PushCasHead(p) PROVE TypeOK'
  BY <1>10, NextIndexInSlots DEF PushCasHead
<1>11. ASSUME NEW p \in Pushers, PushHeadLost(p) PROVE TypeOK'
  BY <1>11 DEF PushHeadLost
<1>12. ASSUME NEW p \in Pushers, PushStoreItem(p) PROVE TypeOK'
  BY <1>12 DEF PushStoreItem
<1>13. ASSUME NEW p \in Pushers, PushSetReady(p) PROVE TypeOK'
  BY <1>13, ZeroInSlots DEF PushSetReady, Return
<1>14. ASSUME NEW t \in Takers, TakeLoadTail(t) PROVE TypeOK'
  BY <1>14 DEF TakeLoadTail
<1>15. ASSUME NEW t \in Takers, TakeEmpty(t) PROVE TypeOK'
  BY <1>15, ZeroInSlots DEF TakeEmpty, Return
<1>16. ASSUME NEW t \in Takers, TakeLoadHead(t) PROVE TypeOK'
  BY <1>16 DEF TakeLoadHead
<1>17. ASSUME NEW t \in Takers, TakeNotReady(t) PROVE TypeOK'
  BY <1>17, ZeroInSlots DEF TakeNotReady, Return
<1>18. ASSUME NEW t \in Takers, TakeLoadReady(t) PROVE TypeOK'
  BY <1>18 DEF TakeLoadReady
<1>19. ASSUME NEW t \in Takers, TakeCasTail(t) PROVE TypeOK'
  BY <1>19, NextIndexInSlots DEF TakeCasTail
<1>20. ASSUME NEW t \in Takers, TakeTailLost(t) PROVE TypeOK'
  BY <1>20 DEF TakeTailLost
<1>21. ASSUME NEW t \in Takers, TakeReadItem(t) PROVE TypeOK'
  BY <1>21 DEF TakeReadItem
<1>22. ASSUME NEW t \in Takers, TakeClearSet(t) PROVE TypeOK'
  BY <1>22 DEF TakeClearSet
<1>23. ASSUME NEW t \in Takers, TakeClearReady(t) PROVE TypeOK'
  BY <1>23, ZeroInSlots DEF TakeClearReady, Return
<1>24. ASSUME UNCHANGED vars PROVE TypeOK'
  BY <1>24 DEF vars
<1> QED
  BY <1>1, <1>2, <1>3, <1>4, <1>5, <1>6, <1>7, <1>8, <1>9, <1>10, <1>11, <1>12, <1>13, <1>14, <1>15, <1>16, <1>17, <1>18, <1>19, <1>20, <1>21, <1>22, <1>23, <1>24
     DEF Next, PushCall, PushStep, TakeStep

\* Type correctness, for any set of pushers and takers and any Length: no index
\* of the C code leaves the ring and no bit beyond it is ever set.
THEOREM TypeCorrect == Spec => []TypeOK
<1>1. Init => TypeOK
  BY LengthAssumption DEF Init, TypeOK, Slots, Threads
<1> QED
  BY <1>1, TypeInductive, PTL DEF Spec

-----------------------------------------------------------------------------
(* Arcs of the ring *)

\* Two slots have different successors.
LEMMA NextIndexInjective ==
  \A i, j \in Slots : NextIndex(i) = NextIndex(j) => i = j
BY NextIndexWraps DEF Slots

\* An arc is made of slots of the ring.
LEMMA ArcInSlots == \A t, h : Arc(t, h) \subseteq Slots
BY DEF Arc

\* What an arc holds next to its two ends.
LEMMA ArcEnds ==
  ASSUME NEW t \in Slots, NEW h \in Slots
  PROVE  /\ h \notin Arc(t, h)
         /\ t # h => t \in Arc(t, h)
         /\ Arc(t, t) = {}
         /\ \A i \in Slots : NextIndex(i) = t => i \notin Arc(t, h)
         /\ \A i \in Slots : NextIndex(i) = h /\ t # h => i \in Arc(t, h)
BY NextIndexWraps, LengthAssumption DEF Arc, Slots

\* Moving head on adds the slot it was at.
LEMMA ArcPush ==
  ASSUME NEW t \in Slots, NEW h \in Slots, NextIndex(h) # t
  PROVE  Arc(t, NextIndex(h)) = Arc(t, h) \union {h}
BY NextIndexWraps, LengthAssumption DEF Arc, Slots

\* Moving tail on removes the slot it was at.
LEMMA ArcTake ==
  ASSUME NEW t \in Slots, NEW h \in Slots, t # h
  PROVE  Arc(NextIndex(t), h) = Arc(t, h) \ {t}
BY NextIndexWraps, LengthAssumption DEF Arc, Slots

\* The slot after head is in the arc only as the slot of tail; when tail is two
\* places after head, the arc misses just the two slots from head on.
LEMMA ArcAlmostFull ==
  ASSUME NEW t \in Slots, NEW h \in Slots, Length >= 2
  PROVE  /\ NextIndex(h) \in Arc(t, h) => NextIndex(h) = t
         /\ NextIndex(NextIndex(h)) = t => Arc(t, h) = Slots \ {h, NextIndex(h)}
<1>1. NextIndex(h) \in Slots
  BY NextIndexInSlots
<1>2. NextIndex(h) \in Arc(t, h) => NextIndex(h) = t
  BY NextIndexWraps, LengthAssumption DEF Arc, Slots
<1>3. ASSUME NextIndex(NextIndex(h)) = t PROVE Arc(t, h) = Slots \ {h, NextIndex(h)}
  BY <1>1, <1>3, NextIndexWraps, LengthAssumption DEF Arc, Slots
<1> QED
  BY <1>2, <1>3

\* When tail is the slot after head, the arc misses the slot of head only.
LEMMA ArcFull ==
  ASSUME NEW t \in Slots, NEW h \in Slots, NextIndex(h) = t, Length >= 2
  PROVE  Arc(t, h) = Slots \ {h}
BY NextIndexWraps, LengthAssumption DEF Arc, Slots

-----------------------------------------------------------------------------
(* One pusher and one taker *)

\* Threads that stay outside or inside their claims keep the sets of claims.
LEMMA TakersUnmoved ==
  ASSUME \A t \in Takers : /\ Draining(t)' <=> Draining(t)
                           /\ Holding(t)' <=> Holding(t)
                           /\ Draining(t) => index'[t] = index[t]
  PROVE  Drained' = Drained /\ Delivering' = Delivering
BY DEF Drained, Delivering, Draining, Holding

\* The same for the claims of pushes and the values in flight.
LEMMA PushersUnmoved ==
  ASSUME \A p \in Pushers : /\ Claiming(p)' <=> Claiming(p)
                            /\ Inserting(p)' <=> Inserting(p)
                            /\ Claiming(p) => index'[p] = index[p]
                            /\ Inserting(p) => ind'[p] = ind[p]
  PROVE  Claimed' = Claimed /\ InFlight' = InFlight
BY DEF Claimed, InFlight, Claiming, Inserting, PushStates

\* An access that leaves the shared memory and the claims alone keeps the two
\* invariants of the bitmaps.
LEMMA BitmapsUnmoved ==
  ASSUME RingPublished, MembershipExact, UNCHANGED shared,
         Claimed' = Claimed, InFlight' = InFlight,
         Drained' = Drained, Delivering' = Delivering
  PROVE  RingPublished' /\ MembershipExact'
BY DEF RingPublished, MembershipExact, shared, Held, Ring, Arc

\* Every access of push and take keeps SpscInv, with one pusher and one taker.
LEMMA SpscInductive ==
  ASSUME Solo, SpscInv, [Next]_vars
  PROVE  SpscInv'
<1> USE DEF Threads, Goto, shared, locals, Claiming, Draining, Holding, Inserting, PushStates
<1>t. TypeOK /\ TypeOK'
  BY TypeInductive DEF SpscInv
<1> USE <1>t DEF TypeOK
<1>i. /\ \A p \in Pushers : PushKnows(p)
      /\ \A t \in Takers : TakeKnows(t)
      /\ RingPublished /\ MembershipExact
  BY DEF SpscInv
<1> DEFINE Knows == /\ \A p \in Pushers : PushKnows(p)
                    /\ \A t \in Takers : TakeKnows(t)
           Goal == Knows' /\ RingPublished' /\ MembershipExact'
<1>1. ASSUME NEW p \in Pushers, PushOutOfRange(p) PROVE Goal
  <2>1. Knows'
    BY <1>i, <1>1, Solo DEF Solo, PushOutOfRange, Return, PushKnows, TakeKnows, Ring
  <2>2. Drained' = Drained /\ Delivering' = Delivering
    BY <1>1, TakersUnmoved DEF Solo, PushOutOfRange, Return
  <2>3. Claimed' = Claimed /\ InFlight' = InFlight
    BY <1>1, PushersUnmoved DEF Solo, PushOutOfRange, Return
  <2> QED BY <1>1, <1>i, <2>1, <2>2, <2>3, BitmapsUnmoved DEF PushOutOfRange, Return
<1>2. ASSUME NEW p \in Pushers, NEW v \in Slots, PushPresent(p, v) PROVE Goal
  <2>1. Knows'
    BY <1>i, <1>2, Solo DEF Solo, PushPresent, Return, PushKnows, TakeKnows, Ring
  <2>2. Drained' = Drained /\ Delivering' = Delivering
    BY <1>2, TakersUnmoved DEF Solo, PushPresent, Return
  <2>3. Claimed' = Claimed /\ InFlight' = InFlight
    BY <1>2, PushersUnmoved DEF Solo, PushPresent, Return
  <2> QED BY <1>2, <1>i, <2>1, <2>2, <2>3, BitmapsUnmoved DEF PushPresent, Return
<1>3. ASSUME NEW p \in Pushers, NEW v \in Slots, PushLoadSet(p, v) PROVE Goal
  <2>1. Knows'
    BY <1>i, <1>3, Solo DEF Solo, PushLoadSet, PushKnows, TakeKnows, Ring, WordOf
  <2>2. Drained' = Drained /\ Delivering' = Delivering
    BY <1>3, TakersUnmoved DEF Solo, PushLoadSet
  <2>3. Claimed' = Claimed /\ InFlight' = InFlight
    BY <1>3, PushersUnmoved DEF Solo, PushLoadSet
  <2> QED BY <1>3, <1>i, <2>1, <2>2, <2>3, BitmapsUnmoved DEF PushLoadSet
<1>4. ASSUME NEW p \in Pushers, PushSetLost(p) PROVE Goal
  <2>1. Knows'
    BY <1>i, <1>4, Solo DEF Solo, PushSetLost, Return, PushKnows, TakeKnows, Ring
  <2>2. Drained' = Drained /\ Delivering' = Delivering
    BY <1>4, TakersUnmoved DEF Solo, PushSetLost, Return
  <2>3. Claimed' = Claimed /\ InFlight' = InFlight
    BY <1>4, PushersUnmoved DEF Solo, PushSetLost, Return
  <2> QED BY <1>4, <1>i, <2>1, <2>2, <2>3, BitmapsUnmoved DEF PushSetLost, Return
<1>5. ASSUME NEW p \in Pushers, PushLoadTail(p) PROVE Goal
  <2>1. Knows'
    BY <1>i, <1>5, Solo DEF Solo, PushLoadTail, PushKnows, TakeKnows, Ring
  <2>2. Drained' = Drained /\ Delivering' = Delivering
    BY <1>5, TakersUnmoved DEF Solo, PushLoadTail
  <2>3. Claimed' = Claimed /\ InFlight' = InFlight
    BY <1>5, PushersUnmoved DEF Solo, PushLoadTail
  <2> QED BY <1>5, <1>i, <2>1, <2>2, <2>3, BitmapsUnmoved DEF PushLoadTail
<1>6. ASSUME NEW p \in Pushers, PushLoadHead(p) PROVE Goal
  <2>1. Knows'
    BY <1>i, <1>6, Solo DEF Solo, PushLoadHead, PushKnows, TakeKnows, Ring, LooksFull
  <2>2. Drained' = Drained /\ Delivering' = Delivering
    BY <1>6, TakersUnmoved DEF Solo, PushLoadHead
  <2>3. Claimed' = Claimed /\ InFlight' = InFlight
    BY <1>6, PushersUnmoved DEF Solo, PushLoadHead
  <2> QED BY <1>6, <1>i, <2>1, <2>2, <2>3, BitmapsUnmoved DEF PushLoadHead
<1>7. ASSUME NEW p \in Pushers, PushCheckReady(p) PROVE Goal
  <2>1. Knows'
    <3>1. CASE seen[p] \in ready
      BY <3>1, <1>i, <1>7 DEF Solo, PushCheckReady, PushKnows, TakeKnows, Ring
    <3>2. CASE seen[p] \notin ready
      <4>1. Claimed = {} /\ seen[p] = NextIndex(head) /\ index[p] = head
        BY <1>i, <1>7 DEF Solo, PushCheckReady, PushKnows, Claimed
      <4>2. tail # head => tail \in ready
        BY <4>1, <1>i, ArcEnds DEF RingPublished, Ring
      <4>3. NextIndex(head) # head
        BY NextIndexWraps, LengthAssumption, SMTT(30) DEF Solo, Slots
      <4>4. NextIndex(head) # tail
        BY <3>2, <4>1, <4>2, <4>3
      <4> QED BY <3>2, <4>1, <4>4, <1>i, <1>7 DEF Solo, PushCheckReady, PushKnows, TakeKnows, Ring
    <3> QED BY <3>1, <3>2
  <2>2. Drained' = Drained /\ Delivering' = Delivering
    BY <1>7, TakersUnmoved DEF Solo, PushCheckReady
  <2>3. Claimed' = Claimed /\ InFlight' = InFlight
    BY <1>7, PushersUnmoved DEF Solo, PushCheckReady
  <2> QED BY <1>7, <1>i, <2>1, <2>2, <2>3, BitmapsUnmoved DEF PushCheckReady
<1>8. ASSUME NEW p \in Pushers, PushHeadLost(p) PROVE Goal
  <2>1. Knows'
    BY <1>i, <1>8, Solo DEF Solo, PushHeadLost, PushKnows, TakeKnows, Ring
  <2>2. Drained' = Drained /\ Delivering' = Delivering
    BY <1>8, TakersUnmoved DEF Solo, PushHeadLost
  <2>3. Claimed' = Claimed /\ InFlight' = InFlight
    BY <1>8, PushersUnmoved DEF Solo, PushHeadLost
  <2> QED BY <1>8, <1>i, <2>1, <2>2, <2>3, BitmapsUnmoved DEF PushHeadLost
<1>9. ASSUME NEW t \in Takers, TakeLoadTail(t) PROVE Goal
  <2>1. Knows'
    BY <1>i, <1>9, Solo DEF Solo, TakeLoadTail, PushKnows, TakeKnows, Ring
  <2>2. Drained' = Drained /\ Delivering' = Delivering
    BY <1>9, TakersUnmoved DEF Solo, TakeLoadTail
  <2>3. Claimed' = Claimed /\ InFlight' = InFlight
    BY <1>9, PushersUnmoved DEF Solo, TakeLoadTail
  <2> QED BY <1>9, <1>i, <2>1, <2>2, <2>3, BitmapsUnmoved DEF TakeLoadTail
<1>10. ASSUME NEW t \in Takers, TakeEmpty(t) PROVE Goal
  <2>1. Knows'
    BY <1>i, <1>10, Solo DEF Solo, TakeEmpty, Return, PushKnows, TakeKnows, Ring
  <2>2. Drained' = Drained /\ Delivering' = Delivering
    BY <1>10, TakersUnmoved DEF Solo, TakeEmpty, Return
  <2>3. Claimed' = Claimed /\ InFlight' = InFlight
    BY <1>10, PushersUnmoved DEF Solo, TakeEmpty, Return
  <2> QED BY <1>10, <1>i, <2>1, <2>2, <2>3, BitmapsUnmoved DEF TakeEmpty, Return
<1>11. ASSUME NEW t \in Takers, TakeLoadHead(t) PROVE Goal
  <2>1. Knows'
    BY <1>i, <1>11, Solo DEF Solo, TakeLoadHead, PushKnows, TakeKnows, Ring
  <2>2. Drained' = Drained /\ Delivering' = Delivering
    BY <1>11, TakersUnmoved DEF Solo, TakeLoadHead
  <2>3. Claimed' = Claimed /\ InFlight' = InFlight
    BY <1>11, PushersUnmoved DEF Solo, TakeLoadHead
  <2> QED BY <1>11, <1>i, <2>1, <2>2, <2>3, BitmapsUnmoved DEF TakeLoadHead
<1>12. ASSUME NEW t \in Takers, TakeNotReady(t) PROVE Goal
  <2>1. Knows'
    BY <1>i, <1>12, Solo DEF Solo, TakeNotReady, Return, PushKnows, TakeKnows, Ring
  <2>2. Drained' = Drained /\ Delivering' = Delivering
    BY <1>12, TakersUnmoved DEF Solo, TakeNotReady, Return
  <2>3. Claimed' = Claimed /\ InFlight' = InFlight
    BY <1>12, PushersUnmoved DEF Solo, TakeNotReady, Return
  <2> QED BY <1>12, <1>i, <2>1, <2>2, <2>3, BitmapsUnmoved DEF TakeNotReady, Return
<1>13. ASSUME NEW t \in Takers, TakeLoadReady(t) PROVE Goal
  <2>1. Knows'
    BY <1>i, <1>13, Solo DEF Solo, TakeLoadReady, PushKnows, TakeKnows, Ring
  <2>2. Drained' = Drained /\ Delivering' = Delivering
    BY <1>13, TakersUnmoved DEF Solo, TakeLoadReady
  <2>3. Claimed' = Claimed /\ InFlight' = InFlight
    BY <1>13, PushersUnmoved DEF Solo, TakeLoadReady
  <2> QED BY <1>13, <1>i, <2>1, <2>2, <2>3, BitmapsUnmoved DEF TakeLoadReady
<1>14. ASSUME NEW t \in Takers, TakeTailLost(t) PROVE Goal
  <2>1. Knows'
    BY <1>i, <1>14, Solo DEF Solo, TakeTailLost, PushKnows, TakeKnows, Ring
  <2>2. Drained' = Drained /\ Delivering' = Delivering
    BY <1>14, TakersUnmoved DEF Solo, TakeTailLost
  <2>3. Claimed' = Claimed /\ InFlight' = InFlight
    BY <1>14, PushersUnmoved DEF Solo, TakeTailLost
  <2> QED BY <1>14, <1>i, <2>1, <2>2, <2>3, BitmapsUnmoved DEF TakeTailLost
<1>15. ASSUME NEW p \in Pushers, PushCasSet(p) PROVE Goal
  <2>1. Knows'
    BY <1>i, <1>15 DEF Solo, PushCasSet, PushKnows, TakeKnows, Ring
  <2>2. Drained' = Drained /\ Delivering' = Delivering
    BY <1>15, TakersUnmoved DEF Solo, PushCasSet
  <2>3. Claimed = {} /\ Claimed' = {}
    BY <1>15 DEF Solo, PushCasSet, Claimed
  <2>4. InFlight = {} /\ InFlight' = {ind[p]}
    BY <1>15 DEF Solo, PushCasSet, InFlight
  <2>5. ind[p] \notin values
    BY <1>15, <1>i DEF PushCasSet, PushKnows, WordOf
  <2>6. RingPublished'
    BY <1>i, <2>2, <2>3, <1>15 DEF PushCasSet, RingPublished, Ring, Arc
  <2>7. MembershipExact'
    BY <1>i, <2>2, <2>3, <2>4, <2>5, <1>15 DEF PushCasSet, MembershipExact, Held, Ring, Arc
  <2> QED BY <2>1, <2>6, <2>7
<1>16. ASSUME NEW p \in Pushers, PushUndo(p) PROVE Goal
  <2>1. Knows'
    BY <1>i, <1>16 DEF Solo, PushUndo, Return, PushKnows, TakeKnows, Ring
  <2>2. Drained' = Drained /\ Delivering' = Delivering
    BY <1>16, TakersUnmoved DEF Solo, PushUndo, Return
  <2>3. Claimed = {} /\ Claimed' = {}
    BY <1>16 DEF Solo, PushUndo, Return, Claimed
  <2>4. InFlight = {ind[p]} /\ InFlight' = {}
    BY <1>16 DEF Solo, PushUndo, Return, InFlight
  <2>6. RingPublished'
    BY <1>i, <2>2, <2>3, <1>16 DEF PushUndo, Return, RingPublished, Ring, Arc
  <2>7. MembershipExact'
    BY <1>i, <2>2, <2>3, <2>4, <1>16 DEF PushUndo, Return, MembershipExact, Held, Ring, Arc
  <2> QED BY <2>1, <2>6, <2>7
<1>17. ASSUME NEW p \in Pushers, PushCasHead(p) PROVE Goal
  <2>2. Drained' = Drained /\ Delivering' = Delivering
    BY <1>17, TakersUnmoved DEF Solo, PushCasHead
  <2>3. Claimed = {} /\ Claimed' = {head}
    BY <1>17 DEF Solo, PushCasHead, Claimed
  <2>4. InFlight = {ind[p]} /\ InFlight' = {ind[p]}
    BY <1>17 DEF Solo, PushCasHead, InFlight
  <2>5. index[p] = head /\ NextIndex(head) # tail
    BY <1>17, <1>i DEF PushCasHead, PushKnows
  <2>6. Ring' = Ring \union {head} /\ head \notin Ring
    BY <2>5, <1>17, ArcPush, ArcEnds DEF PushCasHead, Ring
  <2>7. Ring' \ Claimed' = Ring \ Claimed
    BY <2>3, <2>6
  <2>1. Knows'
    BY <1>i, <2>5, <2>6, <1>17 DEF Solo, PushCasHead, PushKnows, TakeKnows
  <2>8. RingPublished'
    BY <1>i, <2>2, <2>7, <1>17 DEF PushCasHead, RingPublished
  <2>9. MembershipExact'
    BY <1>i, <2>2, <2>4, <2>7, <1>17 DEF PushCasHead, MembershipExact, Held
  <2> QED BY <2>1, <2>8, <2>9
<1>18. ASSUME NEW p \in Pushers, PushStoreItem(p) PROVE Goal
  <2>2. Drained' = Drained /\ Delivering' = Delivering
    BY <1>18, TakersUnmoved DEF Solo, PushStoreItem
  <2>3. Claimed = {index[p]} /\ Claimed' = {index[p]}
    BY <1>18 DEF Solo, PushStoreItem, Claimed
  <2>4. InFlight = {ind[p]} /\ InFlight' = {ind[p]}
    BY <1>18 DEF Solo, PushStoreItem, InFlight
  <2>5. index[p] \in Ring /\ Ring' = Ring
    BY <1>18, <1>i DEF PushStoreItem, PushKnows, Ring, Arc
  <2>6. Drained \intersect Ring = {} /\ Delivering \subseteq Drained
    BY <1>i, ArcEnds DEF Drained, Delivering, TakeKnows, Ring
  <2>7. \A s \in Held : s # index[p] /\ s \in Slots
    BY <2>3, <2>5, <2>6, ArcInSlots DEF Held, Ring, Delivering
  <2>8. Held' = Held /\ \A s \in Held : items'[s] = items[s]
    BY <2>2, <2>3, <2>5, <2>7, <1>18 DEF PushStoreItem, Held
  <2>1. Knows'
    <3>1. PushKnows(p)'
      BY <1>i, <2>5, <1>18 DEF PushStoreItem, PushKnows
    <3>2. ASSUME NEW t \in Takers PROVE TakeKnows(t)'
      <4>1. pc[t] = "clear_set" => index[t] \in Held
        BY DEF Held, Delivering
      <4> QED BY <1>i, <2>8, <4>1, <1>18 DEF PushStoreItem, TakeKnows
    <3> QED BY <3>1, <3>2 DEF Solo
  <2>9. RingPublished'
    BY <1>i, <2>2, <2>3, <2>5, <1>18 DEF PushStoreItem, RingPublished
  <2>10. MembershipExact'
    BY <1>i, <2>4, <2>8, <1>18 DEF PushStoreItem, MembershipExact
  <2> QED BY <2>1, <2>9, <2>10
<1>19. ASSUME NEW p \in Pushers, PushSetReady(p) PROVE Goal
  <2>2. Drained' = Drained /\ Delivering' = Delivering
    BY <1>19, TakersUnmoved DEF Solo, PushSetReady, Return
  <2>3. Claimed = {index[p]} /\ Claimed' = {}
    BY <1>19 DEF Solo, PushSetReady, Return, Claimed
  <2>4. InFlight = {ind[p]} /\ InFlight' = {}
    BY <1>19 DEF Solo, PushSetReady, Return, InFlight
  <2>5. index[p] \in Ring /\ Ring' = Ring /\ items[index[p]] = ind[p]
    BY <1>19, <1>i DEF PushSetReady, Return, PushKnows, Ring, Arc
  <2>1. Knows'
    BY <1>i, <2>5, <1>19 DEF Solo, PushSetReady, Return, PushKnows, TakeKnows
  <2>6. RingPublished'
    BY <1>i, <2>2, <2>3, <2>5, <1>19 DEF PushSetReady, Return, RingPublished
  <2>7. Held' = Held \union {index[p]}
    BY <2>2, <2>3, <2>5 DEF Held
  <2>8. MembershipExact'
    BY <1>i, <2>4, <2>5, <2>7, <1>19 DEF PushSetReady, Return, MembershipExact
  <2> QED BY <2>1, <2>6, <2>8
<1>20. ASSUME NEW t \in Takers, TakeCasTail(t) PROVE Goal
  <2>2. Claimed' = Claimed /\ InFlight' = InFlight
    BY <1>20, PushersUnmoved DEF Solo, TakeCasTail
  <2>3. Drained = {} /\ Drained' = {tail}
    BY <1>20 DEF Solo, TakeCasTail, Drained
  <2>4. Delivering = {} /\ Delivering' = {tail}
    BY <1>20 DEF Solo, TakeCasTail, Delivering
  <2>5. index[t] = tail /\ head # tail /\ tail \in ready
    BY <1>20, <1>i DEF TakeCasTail, TakeKnows
  <2>6. tail \in Ring /\ tail \notin Claimed
    BY <1>i, <2>3, <2>5 DEF RingPublished
  <2>7. Ring' = Ring \ {tail}
    BY <2>5, <1>20, ArcTake DEF TakeCasTail, Ring
  <2>8. RingPublished'
    BY <1>i, <2>2, <2>3, <2>6, <2>7, <1>20 DEF TakeCasTail, RingPublished
  <2>9. Held' = Held
    BY <2>2, <2>4, <2>6, <2>7 DEF Held
  <2>10. MembershipExact'
    BY <1>i, <2>2, <2>9, <1>20 DEF TakeCasTail, MembershipExact
  <2>1. Knows'
    <3>1. ASSUME NEW p \in Pushers PROVE PushKnows(p)'
      <4>1. NextIndex(head) # NextIndex(tail)
        BY <2>5, NextIndexInjective
      <4>2. Claiming(p) => index[p] # tail
        BY <2>6 DEF Claimed
      <4> QED BY <1>i, <2>5, <2>7, <4>1, <4>2, <1>20 DEF TakeCasTail, PushKnows
    <3>2. TakeKnows(t)'
      BY <2>5, <1>20 DEF TakeCasTail, TakeKnows
    <3> QED BY <3>1, <3>2 DEF Solo
  <2> QED BY <2>1, <2>8, <2>10
<1>21. ASSUME NEW t \in Takers, TakeReadItem(t) PROVE Goal
  <2>1. Knows'
    BY <1>i, <1>21 DEF Solo, TakeReadItem, PushKnows, TakeKnows, Ring
  <2>2. Claimed' = Claimed /\ InFlight' = InFlight
    BY <1>21, PushersUnmoved DEF Solo, TakeReadItem
  <2>3. Drained' = Drained /\ Delivering' = Delivering
    BY <1>21, TakersUnmoved DEF Solo, TakeReadItem
  <2> QED BY <1>21, <1>i, <2>1, <2>2, <2>3, BitmapsUnmoved DEF TakeReadItem
<1>22. ASSUME NEW t \in Takers, TakeClearSet(t) PROVE Goal
  <2>1. Knows'
    BY <1>i, <1>22 DEF Solo, TakeClearSet, PushKnows, TakeKnows, Ring
  <2>2. Claimed' = Claimed /\ InFlight' = InFlight
    BY <1>22, PushersUnmoved DEF Solo, TakeClearSet
  <2>3. Drained' = Drained
    BY <1>22 DEF Solo, TakeClearSet, Drained
  <2>4. Delivering = {index[t]} /\ Delivering' = {}
    BY <1>22 DEF Solo, TakeClearSet, Delivering
  <2>5. NextIndex(index[t]) = tail /\ out[t] = items[index[t]]
    BY <1>22, <1>i DEF TakeClearSet, TakeKnows
  <2>6. index[t] \notin Ring /\ Ring' = Ring
    BY <2>5, <1>22, ArcEnds DEF TakeClearSet, Ring
  <2>7. RingPublished'
    BY <1>i, <2>2, <2>3, <2>6, <1>22 DEF TakeClearSet, RingPublished
  <2>8. Held' = Held \ {index[t]} /\ index[t] \in Held
    BY <2>2, <2>4, <2>6 DEF Held
  <2>9. MembershipExact'
    BY <1>i, <2>2, <2>5, <2>8, <1>22 DEF TakeClearSet, MembershipExact
  <2> QED BY <2>1, <2>7, <2>9
<1>23. ASSUME NEW t \in Takers, TakeClearReady(t) PROVE Goal
  <2>2. Claimed' = Claimed /\ InFlight' = InFlight
    BY <1>23, PushersUnmoved DEF Solo, TakeClearReady, Return
  <2>3. Drained = {index[t]} /\ Drained' = {}
    BY <1>23 DEF Solo, TakeClearReady, Return, Drained
  <2>4. Delivering = {} /\ Delivering' = {}
    BY <1>23 DEF Solo, TakeClearReady, Return, Delivering
  <2>5. NextIndex(index[t]) = tail
    BY <1>23, <1>i DEF TakeClearReady, Return, TakeKnows
  <2>6. index[t] \notin Ring /\ Ring' = Ring
    BY <2>5, <1>23, ArcEnds DEF TakeClearReady, Return, Ring
  <2>7. RingPublished'
    BY <1>i, <2>2, <2>3, <2>6, <1>23 DEF TakeClearReady, Return, RingPublished
  <2>8. Held' = Held
    BY <2>2, <2>4, <2>6 DEF Held
  <2>9. MembershipExact'
    BY <1>i, <2>2, <2>8, <1>23 DEF TakeClearReady, Return, MembershipExact
  <2>1. Knows'
    BY <1>i, <2>6, <1>23 DEF Solo, TakeClearReady, Return, PushKnows, TakeKnows
  <2> QED BY <2>1, <2>7, <2>9
<1>24. ASSUME UNCHANGED vars PROVE Goal
  <2>1. Knows'
    BY <1>i, <1>24 DEF vars, PushKnows, TakeKnows, Ring
  <2>2. Drained' = Drained /\ Delivering' = Delivering
    BY <1>24, TakersUnmoved DEF vars
  <2>3. Claimed' = Claimed /\ InFlight' = InFlight
    BY <1>24, PushersUnmoved DEF vars
  <2> QED BY <1>24, <1>i, <2>1, <2>2, <2>3, BitmapsUnmoved DEF vars
<1> HIDE DEF Goal
<1>g. Goal
  BY <1>1, <1>2, <1>3, <1>4, <1>5, <1>6, <1>7, <1>8, <1>9, <1>10, <1>11, <1>12,
     <1>13, <1>14, <1>15, <1>16, <1>17, <1>18, <1>19, <1>20, <1>21, <1>22, <1>23, <1>24
     DEF Next, PushCall, PushStep, TakeStep
<1> QED
  BY <1>t, <1>g DEF Goal, SpscInv

\* The queue that mcmpSetQueueCreate returns satisfies SpscInv.
LEMMA SpscInit == Init => SpscInv
<1> SUFFICES ASSUME Init PROVE SpscInv
  OBVIOUS
<1>1. TypeOK
  BY LengthAssumption DEF Init, TypeOK, Slots, Threads
<1>2. Ring = {} /\ Claimed = {} /\ Drained = {} /\ Delivering = {} /\ InFlight = {}
  BY DEF Init, Ring, Arc, Claimed, Drained, Delivering, InFlight, Threads, Slots,
         Claiming, Draining, Holding, Inserting, PushStates
<1>3. RingPublished /\ MembershipExact
  BY <1>2 DEF Init, RingPublished, MembershipExact, Held
<1>4. \A p \in Pushers : PushKnows(p)
  BY DEF Init, PushKnows, Claiming, Threads
<1>5. \A t \in Takers : TakeKnows(t)
  BY DEF Init, TakeKnows, Draining, Threads
<1> QED
  BY <1>1, <1>3, <1>4, <1>5 DEF SpscInv

\* SpscInv holds in every state, with one pusher and one taker.
LEMMA SpscInvariant ==
  ASSUME Solo
  PROVE  Spec => []SpscInv
<1>1. SpscInv /\ [Next]_vars => SpscInv'
  BY SpscInductive
<1> QED
  BY SpscInit, <1>1, PTL DEF Spec

\* A slot a push has claimed is in the ring, the slot a take is draining is
\* just behind it.
LEMMA SpscSlots == SpscInv => SlotExclusive
<1> SUFFICES ASSUME SpscInv PROVE SlotExclusive
  OBVIOUS
<1>1. Claimed \subseteq Ring
  BY DEF SpscInv, PushKnows, Claimed
<1>2. Drained \intersect Ring = {}
  BY ArcEnds DEF SpscInv, TypeOK, TakeKnows, Drained, Draining, Ring, Threads
<1> QED
  BY <1>1, <1>2 DEF SlotExclusive

\* With one pusher and one taker and at least two slots, the bits of the ready
\* bitmap are those of the ring's slots whose value is published (setqueue.c lines
\* 75-95 and 120-150), for every length.
THEOREM SpscRingPublished ==
  ASSUME Solo
  PROVE  Spec => []RingPublished
<1>1. SpscInv => RingPublished
  BY DEF SpscInv
<1> QED
  BY SpscInvariant, <1>1, PTL

\* With one pusher and one taker the values bitmap, which Push consults to keep
\* the queue a set, holds the values in the ring and no other.
THEOREM SpscMembershipExact ==
  ASSUME Solo
  PROVE  Spec => []MembershipExact
<1>1. SpscInv => MembershipExact
  BY DEF SpscInv
<1> QED
  BY SpscInvariant, <1>1, PTL

\* With one pusher and one taker a push never stores into the slot that a take is
\* reading.
THEOREM SpscSlotExclusive ==
  ASSUME Solo
  PROVE  Spec => []SlotExclusive
BY SpscInvariant, SpscSlots, PTL

\* ISEMPTY is returned by one access of the C code only.
LEMMA OnlyTakeEmpty ==
  ASSUME TypeOK, Next, NEW t \in Takers,
         pc[t] # "idle", pc'[t] = "idle", ret'[t] = "ISEMPTY"
  PROVE  TakeEmpty(t)
<1> USE DEF TypeOK, Threads, Goto
<1>1. ASSUME NEW p \in Pushers, PushCall(p) PROVE FALSE
  BY <1>1 DEF PushCall, Return, PushOutOfRange, PushPresent, PushLoadSet
<1>2. ASSUME NEW p \in Pushers, PushStep(p) PROVE FALSE
  BY <1>2 DEF PushStep, Return, PushCasSet, PushSetLost, PushLoadTail, PushLoadHead, PushCheckReady,
     PushUndo, PushCasHead, PushHeadLost, PushStoreItem, PushSetReady
<1>3. ASSUME NEW u \in Takers, TakeStep(u) PROVE TakeEmpty(t)
  BY <1>3 DEF TakeStep, Return, TakeLoadTail, TakeEmpty, TakeLoadHead, TakeNotReady, TakeLoadReady,
     TakeCasTail, TakeTailLost, TakeReadItem, TakeClearSet, TakeClearReady
<1> QED
  BY <1>1, <1>2, <1>3 DEF Next

\* A push goes on to back out from one access of the C code only.
LEMMA OnlyCheckReady ==
  ASSUME TypeOK, Next, NEW p \in Pushers, pc[p] = "check_ready", pc'[p] = "undo"
  PROVE  PushCheckReady(p)
<1> USE DEF TypeOK, Threads, Goto
<1>1. ASSUME NEW q \in Pushers, PushCall(q) PROVE FALSE
  BY <1>1 DEF PushCall, Return, PushOutOfRange, PushPresent, PushLoadSet
<1>2. ASSUME NEW q \in Pushers, PushStep(q) PROVE PushCheckReady(p)
  BY <1>2 DEF PushStep, Return, PushCasSet, PushSetLost, PushLoadTail, PushLoadHead, PushCheckReady,
     PushUndo, PushCasHead, PushHeadLost, PushStoreItem, PushSetReady
<1>3. ASSUME NEW u \in Takers, TakeStep(u) PROVE FALSE
  BY <1>3 DEF TakeStep, Return, TakeLoadTail, TakeEmpty, TakeLoadHead, TakeNotReady, TakeLoadReady,
     TakeCasTail, TakeTailLost, TakeReadItem, TakeClearSet, TakeClearReady
<1> QED
  BY <1>1, <1>2, <1>3 DEF Next

\* With one pusher and one taker and at least two slots, a take that returns
\* MCMPST_ISEMPTY has missed no value whose push has returned.
THEOREM SpscEmptyMeansDrained ==
  ASSUME Solo
  PROVE  Spec => EmptyMeansDrained
<1> DEFINE Step == \A t \in Takers :
             pc[t] # "idle" /\ pc'[t] = "idle" /\ ret'[t] = "ISEMPTY"
               => values \subseteq InFlight \union {items[s] : s \in Delivering}
<1>1. SpscInv /\ [Next]_vars => [Step]_vars
  <2> SUFFICES ASSUME SpscInv, Next, NEW t \in Takers, pc[t] # "idle",
                      pc'[t] = "idle", ret'[t] = "ISEMPTY"
               PROVE  values \subseteq InFlight
    OBVIOUS
  <2>1. TakeEmpty(t)
    BY OnlyTakeEmpty DEF SpscInv
  <2>2. Ring = {}
    BY <2>1, ArcEnds DEF TakeEmpty, SpscInv, TakeKnows, TypeOK, Ring
  <2>3. Delivering = {}
    BY <2>1 DEF TakeEmpty, Solo, Delivering, Holding
  <2> QED
    BY <2>2, <2>3 DEF SpscInv, MembershipExact, Held
<1> QED
  BY SpscInvariant, <1>1, PTL DEF Spec, EmptyMeansDrained

\* With one pusher and one taker and at least two slots, a push that returns
\* MCMPST_OVERFLOW for lack of room has really met a full ring, although it
\* compares head with a copy of tail that may be stale.
THEOREM SpscOverflowMeansFull ==
  ASSUME Solo
  PROVE  Spec => OverflowMeansFull
<1> DEFINE Step == \A p \in Pushers : pc[p] = "check_ready" /\ pc'[p] = "undo"
                     => Slots \ {index[p]} \subseteq ready
<1>1. SpscInv /\ [Next]_vars => [Step]_vars
  <2> SUFFICES ASSUME SpscInv, Next, NEW p \in Pushers,
                      pc[p] = "check_ready", pc'[p] = "undo"
               PROVE  Slots \ {index[p]} \subseteq ready
    OBVIOUS
  <2>1. PushCheckReady(p)
    BY OnlyCheckReady DEF SpscInv
  <2>2. seen[p] \in ready /\ index[p] = head /\ seen[p] = NextIndex(head)
    BY <2>1 DEF PushCheckReady, Goto, SpscInv, PushKnows, TypeOK, Threads
  <2>3. Claimed = {}
    BY DEF Solo, Claimed, Claiming
  <2>4. CASE seen[p] = tail
    BY <2>2, <2>3, <2>4, ArcFull DEF Solo, SpscInv, TypeOK, RingPublished, Ring
  <2>5. CASE seen[p] # tail
    <3>1. seen[p] \notin Ring
      BY <2>2, <2>5, ArcAlmostFull DEF Solo, SpscInv, TypeOK, Ring
    <3>2. PICK t \in Takers : Draining(t) /\ index[t] = seen[p]
      BY <2>2, <3>1 DEF SpscInv, RingPublished, Drained
    <3>3. NextIndex(seen[p]) = tail /\ seen[p] \in Drained
      BY <3>2 DEF SpscInv, TakeKnows, Drained
    <3>4. Ring = Slots \ {head, seen[p]}
      BY <2>2, <3>3, ArcAlmostFull DEF Solo, SpscInv, TypeOK, Ring
    <3> QED
      BY <2>2, <2>3, <3>3, <3>4 DEF SpscInv, RingPublished
  <2> QED
    BY <2>4, <2>5
<1> QED
  BY SpscInvariant, <1>1, PTL DEF Spec, OverflowMeansFull

-----------------------------------------------------------------------------
(* Any number of pushers and takers *)

\* No thread ever reads a slot that has not been stored to, however many
\* threads push and take and even where the queue loses values.
THEOREM ReadsAreWritten == Spec => []ReadyIsWritten
<1> DEFINE Written == \A p \in Pushers : pc[p] = "set_ready" => items[index[p]] # Uninit
           Inv == TypeOK /\ ReadyIsWritten /\ Written
<1>1. Init => Inv
  BY LengthAssumption DEF Init, TypeOK, Slots, Threads, ReadyIsWritten
<1>2. Inv /\ [Next]_vars => Inv'
  <2> SUFFICES ASSUME Inv, [Next]_vars PROVE Inv'
    OBVIOUS
  <2>t. TypeOK /\ TypeOK'
    BY TypeInductive
  <2> USE <2>t DEF TypeOK, Threads, Goto, shared, locals, Slots, Uninit, ReadyIsWritten
  <2>1. ASSUME NEW p \in Pushers, PushOutOfRange(p) PROVE Inv'
    BY <2>1 DEF PushOutOfRange, Return
  <2>2. ASSUME NEW p \in Pushers, NEW v \in Slots, PushPresent(p, v) PROVE Inv'
    BY <2>2 DEF PushPresent, Return
  <2>3. ASSUME NEW p \in Pushers, NEW v \in Slots, PushLoadSet(p, v) PROVE Inv'
    BY <2>3 DEF PushLoadSet
  <2>4. ASSUME NEW p \in Pushers, PushCasSet(p) PROVE Inv'
    BY <2>4 DEF PushCasSet
  <2>5. ASSUME NEW p \in Pushers, PushSetLost(p) PROVE Inv'
    BY <2>5 DEF PushSetLost, Return
  <2>6. ASSUME NEW p \in Pushers, PushLoadTail(p) PROVE Inv'
    BY <2>6 DEF PushLoadTail
  <2>7. ASSUME NEW p \in Pushers, PushLoadHead(p) PROVE Inv'
    BY <2>7 DEF PushLoadHead
  <2>8. ASSUME NEW p \in Pushers, PushCheckReady(p) PROVE Inv'
    BY <2>8 DEF PushCheckReady
  <2>9. ASSUME NEW p \in Pushers, PushUndo(p) PROVE Inv'
    BY <2>9 DEF PushUndo, Return
  <2>10. ASSUME NEW p \in Pushers, PushCasHead(p) PROVE Inv'
    BY <2>10 DEF PushCasHead
  <2>11. ASSUME NEW p \in Pushers, PushHeadLost(p) PROVE Inv'
    BY <2>11 DEF PushHeadLost
  <2>12. ASSUME NEW p \in Pushers, PushStoreItem(p) PROVE Inv'
    BY <2>12 DEF PushStoreItem
  <2>13. ASSUME NEW p \in Pushers, PushSetReady(p) PROVE Inv'
    BY <2>13 DEF PushSetReady, Return
  <2>14. ASSUME NEW t \in Takers, TakeLoadTail(t) PROVE Inv'
    BY <2>14 DEF TakeLoadTail
  <2>15. ASSUME NEW t \in Takers, TakeEmpty(t) PROVE Inv'
    BY <2>15 DEF TakeEmpty, Return
  <2>16. ASSUME NEW t \in Takers, TakeLoadHead(t) PROVE Inv'
    BY <2>16 DEF TakeLoadHead
  <2>17. ASSUME NEW t \in Takers, TakeNotReady(t) PROVE Inv'
    BY <2>17 DEF TakeNotReady, Return
  <2>18. ASSUME NEW t \in Takers, TakeLoadReady(t) PROVE Inv'
    BY <2>18 DEF TakeLoadReady
  <2>19. ASSUME NEW t \in Takers, TakeCasTail(t) PROVE Inv'
    BY <2>19 DEF TakeCasTail
  <2>20. ASSUME NEW t \in Takers, TakeTailLost(t) PROVE Inv'
    BY <2>20 DEF TakeTailLost
  <2>21. ASSUME NEW t \in Takers, TakeReadItem(t) PROVE Inv'
    BY <2>21 DEF TakeReadItem
  <2>22. ASSUME NEW t \in Takers, TakeClearSet(t) PROVE Inv'
    BY <2>22 DEF TakeClearSet
  <2>23. ASSUME NEW t \in Takers, TakeClearReady(t) PROVE Inv'
    BY <2>23 DEF TakeClearReady, Return
  <2>24. ASSUME UNCHANGED vars PROVE Inv'
    BY <2>24 DEF vars
  <2> QED
    BY <2>1, <2>2, <2>3, <2>4, <2>5, <2>6, <2>7, <2>8, <2>9, <2>10, <2>11, <2>12,
       <2>13, <2>14, <2>15, <2>16, <2>17, <2>18, <2>19, <2>20, <2>21, <2>22, <2>23, <2>24
       DEF Next, PushCall, PushStep, TakeStep
<1> QED
  BY <1>1, <1>2, PTL DEF Spec

-----------------------------------------------------------------------------
(* The refinement: with one pusher and one taker every access of setqueue.c  *)
(* is a step of the FIFO set or leaves it alone.  A push appends when it     *)
(* sets the ready bit, a take removes when it moves tail.                    *)

(* Places of the ring, and sequences *)

\* The distance from tail to head, and how it changes when one of them moves.
LEMMA SpanType ==
  ASSUME NEW t \in Slots, NEW h \in Slots
  PROVE  /\ Span(t, h) \in 0 .. Length - 1
         /\ Span(t, h) = 0 => t = h
         /\ Span(t, h) = 1 => NextIndex(t) = h
         /\ NextIndex(h) # t => Span(t, NextIndex(h)) = Span(t, h) + 1
         /\ t # h => Span(NextIndex(t), h) = Span(t, h) - 1
BY NextIndexWraps, LengthAssumption DEF Slots, Span

\* The slot k places after another is in the ring, and which k reach an arc.
LEMMA SlotFromType ==
  ASSUME NEW t \in Slots, NEW h \in Slots
  PROVE  /\ SlotFrom(t, 0) = t
         /\ \A k \in 1 .. Length - 1 : SlotFrom(NextIndex(t), k - 1) = SlotFrom(t, k)
         /\ \A k \in 0 .. Span(t, h) - 1 : SlotFrom(t, k) \in Arc(t, h)
         /\ \A k \in 0 .. Span(t, h) - 2 : NextIndex(SlotFrom(t, k)) # h
         /\ t # h => NextIndex(SlotFrom(t, Span(t, h) - 1)) = h
BY NextIndexWraps, LengthAssumption DEF Slots, SlotFrom, Span, Arc

\* What Append does at each place of a sequence.
LEMMA AppendAt ==
  ASSUME NEW S, NEW q \in Seq(S), NEW e \in S, NEW r \in [1 .. Len(q) + 1 -> S],
         \A k \in 1 .. Len(q) : r[k] = q[k], r[Len(q) + 1] = e
  PROVE  r = Append(q, e)
OBVIOUS

\* What Tail does at each place of a sequence.
LEMMA TailAt ==
  ASSUME NEW S, NEW q \in Seq(S), Len(q) > 0, NEW r \in [1 .. Len(q) - 1 -> S],
         \A k \in 1 .. Len(q) - 1 : r[k] = q[k + 1]
  PROVE  r = Tail(q)
OBVIOUS

-----------------------------------------------------------------------------
(* The refinement *)

\* The published slots are those 0 .. QueueLength - 1 places after tail.
LEMMA QueueSlots ==
  ASSUME Solo, SpscInv
  PROVE  /\ QueueLength \in 0 .. Length - 1
         /\ \A k \in 1 .. QueueLength : SlotFrom(tail, k - 1) \in Ring \ Claimed
         /\ tail \in Ring \ Claimed => QueueLength > 0
<1>t. TypeOK /\ Span(tail, head) \in 0 .. Length - 1
  BY SpanType DEF SpscInv, TypeOK
<1> USE <1>t DEF TypeOK
<1>1. CASE \E p \in Pushers : Claiming(p)
  <2>1. PICK p \in Pushers : Claiming(p)
    BY <1>1
  <2>2. Claimed = {index[p]}
    BY <2>1 DEF Solo, Claimed
  <2>3. NextIndex(index[p]) = head /\ index[p] \in Ring /\ index[p] \in Slots
    BY <2>1 DEF SpscInv, PushKnows, Threads
  <2>4. tail # head
    BY <2>3, ArcEnds DEF Ring
  <2>5. QueueLength = Span(tail, head) - 1 /\ Span(tail, head) \in 1 .. Length - 1
    <3>1. Claimed # {} /\ Span(tail, head) # 0
      BY <2>2, <2>4, SpanType
    <3> QED
      BY <3>1, LengthAssumption DEF QueueLength
  <2>6. ASSUME NEW k \in 1 .. QueueLength
        PROVE  SlotFrom(tail, k - 1) \in Ring /\ SlotFrom(tail, k - 1) # index[p]
    BY <2>3, <2>5, SlotFromType DEF Ring
  <2>7. ASSUME tail # index[p] PROVE QueueLength > 0
    BY <2>3, <2>5, <2>7, SpanType, NextIndexInjective
  <2> QED
    BY <2>2, <2>5, <2>6, <2>7, LengthAssumption
<1>2. CASE ~ \E p \in Pushers : Claiming(p)
  <2>1. Claimed = {}
    BY <1>2 DEF Claimed
  <2>2. QueueLength = Span(tail, head)
    BY <2>1 DEF QueueLength
  <2>3. ASSUME NEW k \in 1 .. QueueLength
        PROVE  SlotFrom(tail, k - 1) \in Ring
    BY <2>2, SlotFromType DEF Ring
  <2>4. ASSUME tail \in Ring PROVE QueueLength > 0
    BY <2>2, <2>4, SpanType, ArcEnds DEF Ring
  <2> QED
    BY <2>1, <2>2, <2>3, <2>4
<1> QED
  BY <1>1, <1>2

\* Every place of the queue holds a value of the ring.
LEMMA QueueType ==
  ASSUME Solo, SpscInv
  PROVE  /\ AbsQueue \in Seq(Slots \union {Uninit})
         /\ Len(AbsQueue) = QueueLength
         /\ \A k \in 1 .. QueueLength : AbsQueue[k] = items[SlotFrom(tail, k - 1)]
<1>1. QueueLength \in Nat
  BY QueueSlots, LengthAssumption
<1>2. \A k \in 1 .. QueueLength : items[SlotFrom(tail, k - 1)] \in Slots \union {Uninit}
  BY QueueSlots, ArcInSlots DEF Ring, SpscInv, TypeOK
<1> QED
  BY <1>1, <1>2 DEF AbsQueue

\* The abstract queue depends on its length, on tail and on its own slots only.
LEMMA QueueUnmoved ==
  ASSUME Solo, SpscInv, QueueLength' = QueueLength, tail' = tail,
         \A s \in Ring \ Claimed : items'[s] = items[s]
  PROVE  AbsQueue' = AbsQueue
<1>1. \A k \in 1 .. QueueLength : SlotFrom(tail, k - 1) \in Ring \ Claimed
  BY QueueSlots
<1> QED
  BY <1>1 DEF AbsQueue

\* An access that leaves the ring and the claims alone keeps the queue.
LEMMA QueueFrame ==
  ASSUME Solo, SpscInv, Claimed' = Claimed, UNCHANGED <<items, head, tail>>
  PROVE  AbsQueue' = AbsQueue
<1>1. QueueLength' = QueueLength
  BY DEF QueueLength
<1> QED
  BY <1>1, QueueUnmoved

\* Every access of push and take is a step of the FIFO set or a stutter.
LEMMA SpscSimulation ==
  ASSUME Solo, SpscInv, SpscInv', [Next]_vars
  PROVE  [Abs!AbsNext]_(Abs!absVars)
<1> USE DEF Threads, Goto, shared, locals, Claiming, Draining, Holding, Inserting, PushStates
<1>t. TypeOK /\ TypeOK'
  BY DEF SpscInv
<1> USE <1>t DEF TypeOK
<1>i. /\ \A p \in Pushers : PushKnows(p)
      /\ \A t \in Takers : TakeKnows(t)
      /\ RingPublished /\ MembershipExact
  BY DEF SpscInv
<1> DEFINE Still == AbsQueue' = AbsQueue /\ AbsTaken' = AbsTaken
<1>1. ASSUME NEW p \in Pushers, PushOutOfRange(p) PROVE Still
  <2>1. Claimed' = Claimed
    BY <1>1 DEF Solo, PushOutOfRange, Return, Claimed
  <2>2. AbsQueue' = AbsQueue
    BY <1>1, <2>1, QueueFrame DEF PushOutOfRange, Return
  <2>3. AbsTaken' = AbsTaken
    BY <1>1 DEF PushOutOfRange, Return, AbsTaken
  <2> QED
    BY <2>2, <2>3
<1>2. ASSUME NEW p \in Pushers, NEW v \in Slots, PushPresent(p, v) PROVE Still
  <2>1. Claimed' = Claimed
    BY <1>2 DEF Solo, PushPresent, Return, Claimed
  <2>2. AbsQueue' = AbsQueue
    BY <1>2, <2>1, QueueFrame DEF PushPresent, Return
  <2>3. AbsTaken' = AbsTaken
    BY <1>2 DEF PushPresent, Return, AbsTaken
  <2> QED
    BY <2>2, <2>3
<1>3. ASSUME NEW p \in Pushers, NEW v \in Slots, PushLoadSet(p, v) PROVE Still
  <2>1. Claimed' = Claimed
    BY <1>3 DEF Solo, PushLoadSet, Claimed
  <2>2. AbsQueue' = AbsQueue
    BY <1>3, <2>1, QueueFrame DEF PushLoadSet
  <2>3. AbsTaken' = AbsTaken
    BY <1>3 DEF PushLoadSet, AbsTaken
  <2> QED
    BY <2>2, <2>3
<1>4. ASSUME NEW p \in Pushers, PushCasSet(p) PROVE Still
  <2>1. Claimed' = Claimed
    BY <1>4 DEF Solo, PushCasSet, Claimed
  <2>2. AbsQueue' = AbsQueue
    BY <1>4, <2>1, QueueFrame DEF PushCasSet
  <2>3. AbsTaken' = AbsTaken
    BY <1>4 DEF PushCasSet, AbsTaken
  <2> QED
    BY <2>2, <2>3
<1>5. ASSUME NEW p \in Pushers, PushSetLost(p) PROVE Still
  <2>1. Claimed' = Claimed
    BY <1>5 DEF Solo, PushSetLost, Return, Claimed
  <2>2. AbsQueue' = AbsQueue
    BY <1>5, <2>1, QueueFrame DEF PushSetLost, Return
  <2>3. AbsTaken' = AbsTaken
    BY <1>5 DEF PushSetLost, Return, AbsTaken
  <2> QED
    BY <2>2, <2>3
<1>6. ASSUME NEW p \in Pushers, PushLoadTail(p) PROVE Still
  <2>1. Claimed' = Claimed
    BY <1>6 DEF Solo, PushLoadTail, Claimed
  <2>2. AbsQueue' = AbsQueue
    BY <1>6, <2>1, QueueFrame DEF PushLoadTail
  <2>3. AbsTaken' = AbsTaken
    BY <1>6 DEF PushLoadTail, AbsTaken
  <2> QED
    BY <2>2, <2>3
<1>7. ASSUME NEW p \in Pushers, PushLoadHead(p) PROVE Still
  <2>1. Claimed' = Claimed
    BY <1>7 DEF Solo, PushLoadHead, Claimed
  <2>2. AbsQueue' = AbsQueue
    BY <1>7, <2>1, QueueFrame DEF PushLoadHead
  <2>3. AbsTaken' = AbsTaken
    BY <1>7 DEF PushLoadHead, AbsTaken
  <2> QED
    BY <2>2, <2>3
<1>8. ASSUME NEW p \in Pushers, PushCheckReady(p) PROVE Still
  <2>1. Claimed' = Claimed
    BY <1>8 DEF Solo, PushCheckReady, Claimed
  <2>2. AbsQueue' = AbsQueue
    BY <1>8, <2>1, QueueFrame DEF PushCheckReady
  <2>3. AbsTaken' = AbsTaken
    BY <1>8 DEF PushCheckReady, AbsTaken
  <2> QED
    BY <2>2, <2>3
<1>9. ASSUME NEW p \in Pushers, PushUndo(p) PROVE Still
  <2>1. Claimed' = Claimed
    BY <1>9 DEF Solo, PushUndo, Return, Claimed
  <2>2. AbsQueue' = AbsQueue
    BY <1>9, <2>1, QueueFrame DEF PushUndo, Return
  <2>3. AbsTaken' = AbsTaken
    BY <1>9 DEF PushUndo, Return, AbsTaken
  <2> QED
    BY <2>2, <2>3
<1>10. ASSUME NEW p \in Pushers, PushCasHead(p) PROVE Still
  <2>1. Claimed = {} /\ Claimed' = {head} /\ NextIndex(head) # tail
    BY <1>10, <1>i DEF Solo, PushCasHead, Claimed, PushKnows
  <2>2. Span(tail, head)' = Span(tail, head) + 1
    BY <1>10, <2>1, SpanType DEF PushCasHead
  <2>3. QueueLength' = QueueLength
    BY <2>1, <2>2, SpanType DEF QueueLength
  <2>4. AbsQueue' = AbsQueue
    BY <1>10, <2>3, QueueUnmoved DEF PushCasHead
  <2>5. AbsTaken' = AbsTaken
    BY <1>10 DEF PushCasHead, AbsTaken
  <2> QED
    BY <2>4, <2>5
<1>11. ASSUME NEW p \in Pushers, PushHeadLost(p) PROVE Still
  <2>1. Claimed' = Claimed
    BY <1>11 DEF Solo, PushHeadLost, Claimed
  <2>2. AbsQueue' = AbsQueue
    BY <1>11, <2>1, QueueFrame DEF PushHeadLost
  <2>3. AbsTaken' = AbsTaken
    BY <1>11 DEF PushHeadLost, AbsTaken
  <2> QED
    BY <2>2, <2>3
<1>12. ASSUME NEW p \in Pushers, PushStoreItem(p) PROVE Still
  <2>1. Claimed = {index[p]} /\ Claimed' = {index[p]}
    BY <1>12 DEF Solo, PushStoreItem, Claimed
  <2>2. QueueLength' = QueueLength
    BY <1>12, <2>1 DEF PushStoreItem, QueueLength
  <2>3. \A s \in Ring \ Claimed : items'[s] = items[s]
    BY <1>12, <2>1, ArcInSlots DEF PushStoreItem, Ring
  <2>4. AbsQueue' = AbsQueue
    BY <1>12, <2>2, <2>3, QueueUnmoved DEF PushStoreItem
  <2>5. \A t \in Takers : Draining(t) => index[t] # index[p]
    BY <1>12, SpscSlots DEF PushStoreItem, SlotExclusive, Claimed, Drained
  <2>6. AbsTaken' = AbsTaken
    BY <1>12, <2>5 DEF PushStoreItem, AbsTaken
  <2> QED
    BY <2>4, <2>6
<1>13. ASSUME NEW p \in Pushers, PushSetReady(p) PROVE Abs!AbsPush
  <2>1. Claimed = {index[p]} /\ Claimed' = {}
    BY <1>13 DEF Solo, PushSetReady, Return, Claimed
  <2>2. /\ NextIndex(index[p]) = head /\ index[p] \in Ring
        /\ items[index[p]] = ind[p] /\ tail # head
    BY <1>13, <1>i, ArcEnds DEF PushSetReady, PushKnows, Ring
  <2>3. QueueLength = Span(tail, head) - 1 /\ QueueLength' = Span(tail, head)
    <3>1. Span(tail, head)' = Span(tail, head)
      BY <1>13 DEF PushSetReady
    <3> QED
      BY <2>1, <3>1, SpanType DEF QueueLength
  <2>4. Span(tail, head) \in 1 .. Length - 1
    BY <2>2, SpanType, LengthAssumption
  <2>5. SlotFrom(tail, QueueLength) = index[p]
    <3>1. NextIndex(SlotFrom(tail, QueueLength)) = head
      BY <2>2, <2>3, SlotFromType
    <3>2. SlotFrom(tail, QueueLength) \in Slots
      BY <2>3, <2>4, SlotFromType, ArcInSlots
    <3> QED
      BY <2>2, <3>1, <3>2, NextIndexInjective
  <2>6. AbsQueue' = Append(AbsQueue, ind[p])
    <3>1. AbsQueue' = [k \in 1 .. QueueLength + 1 |-> items[SlotFrom(tail, k - 1)]]
      BY <1>13, <2>3, <2>4 DEF PushSetReady, AbsQueue
    <3>2. \A k \in 1 .. QueueLength + 1 :
             items[SlotFrom(tail, k - 1)] \in Slots \union {Uninit}
      <4>1. \A k \in 1 .. QueueLength + 1 : k - 1 \in 0 .. Span(tail, head) - 1
        BY <2>3, <2>4
      <4>2. \A k \in 1 .. QueueLength + 1 : SlotFrom(tail, k - 1) \in Slots
        BY <4>1, SlotFromType, ArcInSlots
      <4> QED
        BY <4>2
    <3>3. AbsQueue' \in [1 .. QueueLength + 1 -> Slots \union {Uninit}]
      BY <3>1, <3>2
    <3>4. AbsQueue'[QueueLength + 1] = ind[p]
      BY <2>2, <2>3, <2>4, <2>5, <3>1
    <3>5. \A k \in 1 .. QueueLength : AbsQueue'[k] = AbsQueue[k]
      BY <2>3, <2>4, <3>1, QueueType
    <3> QED
      BY <3>3, <3>4, <3>5, QueueType, AppendAt
  <2>7. ind[p] \notin {AbsQueue[k] : k \in DOMAIN AbsQueue}
    <3>1. ind[p] \in InFlight
      BY <1>13 DEF PushSetReady, InFlight
    <3>2. \A s \in Ring \ Claimed : items[s] # ind[p]
      BY <3>1, <1>i DEF MembershipExact, Held
    <3> QED
      BY <3>2, QueueSlots DEF AbsQueue
  <2>8. Len(AbsQueue) < Length - 1
    BY <2>3, <2>4, QueueType, LengthAssumption
  <2>9. AbsTaken' = AbsTaken
    BY <1>13 DEF PushSetReady, Return, AbsTaken
  <2> QED
    BY <2>6, <2>7, <2>8, <2>9 DEF Abs!AbsPush, Abs!Range
<1>14. ASSUME NEW t \in Takers, TakeLoadTail(t) PROVE Still
  <2>1. Claimed' = Claimed
    BY <1>14 DEF Solo, TakeLoadTail, Claimed
  <2>2. AbsQueue' = AbsQueue
    BY <1>14, <2>1, QueueFrame DEF TakeLoadTail
  <2>3. AbsTaken' = AbsTaken
    BY <1>14 DEF TakeLoadTail, AbsTaken
  <2> QED
    BY <2>2, <2>3
<1>15. ASSUME NEW t \in Takers, TakeEmpty(t) PROVE Still
  <2>1. Claimed' = Claimed
    BY <1>15 DEF Solo, TakeEmpty, Return, Claimed
  <2>2. AbsQueue' = AbsQueue
    BY <1>15, <2>1, QueueFrame DEF TakeEmpty, Return
  <2>3. AbsTaken' = AbsTaken
    BY <1>15 DEF TakeEmpty, Return, AbsTaken
  <2> QED
    BY <2>2, <2>3
<1>16. ASSUME NEW t \in Takers, TakeLoadHead(t) PROVE Still
  <2>1. Claimed' = Claimed
    BY <1>16 DEF Solo, TakeLoadHead, Claimed
  <2>2. AbsQueue' = AbsQueue
    BY <1>16, <2>1, QueueFrame DEF TakeLoadHead
  <2>3. AbsTaken' = AbsTaken
    BY <1>16 DEF TakeLoadHead, AbsTaken
  <2> QED
    BY <2>2, <2>3
<1>17. ASSUME NEW t \in Takers, TakeNotReady(t) PROVE Still
  <2>1. Claimed' = Claimed
    BY <1>17 DEF Solo, TakeNotReady, Return, Claimed
  <2>2. AbsQueue' = AbsQueue
    BY <1>17, <2>1, QueueFrame DEF TakeNotReady, Return
  <2>3. AbsTaken' = AbsTaken
    BY <1>17 DEF TakeNotReady, Return, AbsTaken
  <2> QED
    BY <2>2, <2>3
<1>18. ASSUME NEW t \in Takers, TakeLoadReady(t) PROVE Still
  <2>1. Claimed' = Claimed
    BY <1>18 DEF Solo, TakeLoadReady, Claimed
  <2>2. AbsQueue' = AbsQueue
    BY <1>18, <2>1, QueueFrame DEF TakeLoadReady
  <2>3. AbsTaken' = AbsTaken
    BY <1>18 DEF TakeLoadReady, AbsTaken
  <2> QED
    BY <2>2, <2>3
<1>19. ASSUME NEW t \in Takers, TakeCasTail(t) PROVE Abs!AbsTake(t)
  <2>1. Claimed' = Claimed
    BY <1>19 DEF TakeCasTail, Claimed
  <2>2. index[t] = tail /\ head # tail /\ tail \in Ring \ Claimed
    <3>1. Drained = {}
      BY <1>19 DEF Solo, TakeCasTail, Drained
    <3> QED
      BY <1>19, <1>i, <3>1 DEF TakeCasTail, TakeKnows, RingPublished
  <2>3. QueueLength' = QueueLength - 1 /\ QueueLength \in 1 .. Length - 1
    <3>1. Span(tail, head)' = Span(tail, head) - 1
      BY <1>19, <2>2, SpanType DEF TakeCasTail
    <3>2. QueueLength \in 1 .. Length - 1
      BY <2>2, QueueSlots, LengthAssumption
    <3> QED
      BY <2>1, <3>1, <3>2, SpanType DEF QueueLength
  <2>4. AbsQueue # <<>> /\ Head(AbsQueue) = items[tail]
    <3>1. AbsQueue[1] = items[tail]
      BY <2>3, QueueType, SlotFromType, LengthAssumption
    <3> QED
      BY <2>3, <3>1, QueueType
  <2>5. AbsQueue' = Tail(AbsQueue)
    <3>1. AbsQueue' = [k \in 1 .. QueueLength - 1 |-> items[SlotFrom(NextIndex(tail), k - 1)]]
      BY <1>19, <2>2, <2>3 DEF TakeCasTail, AbsQueue
    <3>2. \A k \in 1 .. QueueLength - 1 :
             SlotFrom(NextIndex(tail), k - 1) = SlotFrom(tail, k)
      <4>1. \A k \in 1 .. QueueLength - 1 : k \in 1 .. Length - 1
        BY <2>3, LengthAssumption
      <4> QED
        BY <4>1, SlotFromType
    <3>3. \A k \in 1 .. QueueLength - 1 :
             /\ k + 1 \in 1 .. QueueLength
             /\ AbsQueue[k + 1] = items[SlotFrom(tail, k)]
             /\ AbsQueue[k + 1] \in Slots \union {Uninit}
      BY <2>3, QueueType
    <3>4. AbsQueue' \in [1 .. QueueLength - 1 -> Slots \union {Uninit}]
      BY <3>1, <3>2, <3>3
    <3>5. \A k \in 1 .. QueueLength - 1 : AbsQueue'[k] = AbsQueue[k + 1]
      BY <3>1, <3>2, <3>3
    <3> QED
      BY <2>3, <3>4, <3>5, QueueType, TailAt
  <2>6. AbsTaken' = [AbsTaken EXCEPT ![t] = items[tail]]
    BY <1>19, <2>2 DEF TakeCasTail, AbsTaken
  <2> QED
    BY <2>4, <2>5, <2>6 DEF Abs!AbsTake
<1>20. ASSUME NEW t \in Takers, TakeTailLost(t) PROVE Still
  <2>1. Claimed' = Claimed
    BY <1>20 DEF Solo, TakeTailLost, Claimed
  <2>2. AbsQueue' = AbsQueue
    BY <1>20, <2>1, QueueFrame DEF TakeTailLost
  <2>3. AbsTaken' = AbsTaken
    BY <1>20 DEF TakeTailLost, AbsTaken
  <2> QED
    BY <2>2, <2>3
<1>21. ASSUME NEW t \in Takers, TakeReadItem(t) PROVE Still
  <2>1. Claimed' = Claimed
    BY <1>21 DEF TakeReadItem, Claimed
  <2>2. AbsQueue' = AbsQueue
    BY <1>21, <2>1, QueueFrame DEF TakeReadItem
  <2>3. AbsTaken' = AbsTaken
    BY <1>21 DEF TakeReadItem, AbsTaken
  <2> QED
    BY <2>2, <2>3
<1>22. ASSUME NEW t \in Takers, TakeClearSet(t) PROVE Still
  <2>1. Claimed' = Claimed
    BY <1>22 DEF Solo, TakeClearSet, Claimed
  <2>2. AbsQueue' = AbsQueue
    BY <1>22, <2>1, QueueFrame DEF TakeClearSet
  <2>3. AbsTaken' = AbsTaken
    BY <1>22 DEF TakeClearSet, AbsTaken
  <2> QED
    BY <2>2, <2>3
<1>23. ASSUME NEW t \in Takers, TakeClearReady(t) PROVE Still
  <2>1. Claimed' = Claimed
    BY <1>23 DEF Solo, TakeClearReady, Return, Claimed
  <2>2. AbsQueue' = AbsQueue
    BY <1>23, <2>1, QueueFrame DEF TakeClearReady, Return
  <2>3. AbsTaken' = AbsTaken
    BY <1>23 DEF TakeClearReady, Return, AbsTaken
  <2> QED
    BY <2>2, <2>3
<1>24. ASSUME UNCHANGED vars PROVE Still
  BY <1>24 DEF vars, AbsQueue, AbsTaken, QueueLength, Claimed
<1>s. Still => [Abs!AbsNext]_(Abs!absVars)
  BY DEF Abs!absVars
<1> HIDE DEF Still
<1> QED
  BY <1>s, <1>1, <1>2, <1>3, <1>4, <1>5, <1>6, <1>7, <1>8, <1>9, <1>10, <1>11, <1>12,
     <1>13, <1>14, <1>15, <1>16, <1>17, <1>18, <1>19, <1>20, <1>21, <1>22, <1>23, <1>24
     DEF Next, PushCall, PushStep, TakeStep, Abs!AbsNext

\* With one pusher and one taker and at least two slots, the pushes and takes of
\* setqueue.c are those of a FIFO set with Length - 1 places: nothing is lost,
\* duplicated or reordered.
THEOREM SpscImplementsFifoSet ==
  ASSUME Solo
  PROVE  Spec => Abs!AbsSafety
<1>1. Init => Abs!AbsInit
  <2> SUFFICES ASSUME Init PROVE AbsQueue = <<>> /\ AbsTaken = [t \in Takers |-> Uninit]
    BY DEF Abs!AbsInit
  <2>1. QueueLength = 0
    <3>1. Claimed = {}
      BY DEF Init, Claimed, Claiming, Threads
    <3>2. Span(tail, head) = 0
      BY DEF Init, Span
    <3> QED
      BY <3>1, <3>2 DEF QueueLength
  <2>2. AbsQueue = <<>>
    BY <2>1 DEF AbsQueue
  <2>3. AbsTaken = [t \in Takers |-> Uninit]
    BY DEF Init, AbsTaken, Threads
  <2> QED
    BY <2>2, <2>3
<1>2. SpscInv /\ SpscInv' /\ [Next]_vars => [Abs!AbsNext]_(Abs!absVars)
  BY SpscSimulation
<1> QED
  BY <1>1, <1>2, SpscInvariant, PTL DEF Spec, Abs!AbsSafety
=============================================================================

----------------------------- MODULE FifoChunks -----------------------------
(***************************************************************************)
(* What a chunked queue promises: one bounded first-in first-out queue per *)
(* chunk, whose pushes and takes each happen in one step.                  *)
(***************************************************************************)
EXTENDS Naturals, Sequences

CONSTANTS Chunks, Items, Takers, Capacity, Nothing

VARIABLES queues, taken

absVars == <<queues, taken>>

AbsInit ==
  /\ queues = [c \in Chunks |-> <<>>]
  /\ taken = [t \in Takers |-> Nothing]

AbsPush(c) ==
  /\ Len(queues[c]) < Capacity
  /\ \E v \in Items : queues' = [queues EXCEPT ![c] = Append(@, v)]
  /\ UNCHANGED taken

AbsTake(t, c) ==
  /\ queues[c] # <<>>
  /\ taken' = [taken EXCEPT ![t] = Head(queues[c])]
  /\ queues' = [queues EXCEPT ![c] = Tail(@)]

AbsNext == \E c \in Chunks : AbsPush(c) \/ \E t \in Takers : AbsTake(t, c)

AbsSpec == AbsInit /\ [][AbsNext]_absVars
=============================================================================

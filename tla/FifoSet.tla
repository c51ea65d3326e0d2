------------------------------ MODULE FifoSet ------------------------------
(***************************************************************************)
(* What a set queue promises its callers, without its implementation: a    *)
(* bounded first-in first-out queue that holds every value at most once.   *)
(* A push and a take each happen in one step.  taken[t] is the value the   *)
(* last take of t put into the caller's variable.                          *)
(***************************************************************************)
EXTENDS Naturals, Sequences, Functions

CONSTANTS
  Values,    \* what may be queued
  Takers,    \* the threads that take
  Capacity,  \* how many values fit
  Nothing    \* what the caller's variable holds before its first take

VARIABLES queue, taken

absVars == <<queue, taken>>

AbsInit ==
  /\ queue = <<>>
  /\ taken = [t \in Takers |-> Nothing]

\* A push that succeeds appends a value that is not queued already.
AbsPush ==
  /\ Len(queue) < Capacity
  /\ \E v \in Values \ Range(queue) : queue' = Append(queue, v)
  /\ UNCHANGED taken

\* A take that succeeds removes the oldest value and hands it to its caller.
AbsTake(t) ==
  /\ queue # <<>>
  /\ taken' = [taken EXCEPT ![t] = Head(queue)]
  /\ queue' = Tail(queue)

AbsNext == AbsPush \/ \E t \in Takers : AbsTake(t)

AbsSafety == AbsInit /\ [][AbsNext]_absVars

\* A queue that is not empty is eventually served.
AbsSpec ==
  /\ AbsSafety
  /\ WF_absVars(\E t \in Takers : AbsTake(t))
=============================================================================

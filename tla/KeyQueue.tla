------------------------------ MODULE KeyQueue ------------------------------
(***************************************************************************)
(* What the keyboard buffer promises: a queue of at most Capacity          *)
(* characters.  Of the codes that are due it keeps the keys, in order; it  *)
(* loses the newest when it is full, and nothing else until it is told to  *)
(* forget.                                                                 *)
(***************************************************************************)
EXTENDS Integers, Sequences

CONSTANTS Keys, Codes, Capacity, Nothing

VARIABLES due, queue, got

QInit == due = <<>> /\ queue = <<>> /\ got = Nothing

Arrive(c) == due' = Append(due, c) /\ UNCHANGED <<queue, got>>

Accept ==
  /\ due # <<>> /\ due' = Tail(due) /\ got' = got
  /\ \/ Head(due) \in Keys /\ Len(queue) < Capacity /\ queue' = Append(queue, Head(due))
     \/ ~(Head(due) \in Keys /\ Len(queue) < Capacity) /\ queue' = queue

Take ==
  /\ due' = due
  /\ \/ queue # <<>> /\ got' = Head(queue) /\ queue' = Tail(queue)
     \/ queue = <<>> /\ got' = Nothing /\ queue' = queue

Forget == queue' = <<>> /\ UNCHANGED <<due, got>>

QNext == (\E c \in Codes : Arrive(c)) \/ Accept \/ Take \/ Forget

QSpec == QInit /\ [][QNext]_<<due, queue, got>>
=============================================================================

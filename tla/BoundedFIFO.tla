---------------------------- MODULE BoundedFIFO ----------------------------
(***************************************************************************)
(* What the queue between the PTC thread and the recording thread of the   *)
(* metadata recorder promises (metarec/src/metaqueue.c): at most N         *)
(* records, handed out once each, in the order in which they were put.     *)
(* Records are numbered in the order in which they are offered, so "once,  *)
(* in order" says that every number put is larger than the ones before.    *)
(***************************************************************************)
EXTENDS Naturals, Sequences

CONSTANTS
  N,        \* the capacity
  Records   \* the numbers of the records, a set of naturals

VARIABLES
  queue,   \* the records held, oldest first
  out      \* the record handed out last (0: none yet)

vars == <<queue, out>>

Init == queue = <<>> /\ out = 0

Put(v) ==
  /\ Len(queue) < N
  /\ out < v
  /\ \A k \in 1..Len(queue) : queue[k] < v
  /\ queue' = Append(queue, v)
  /\ UNCHANGED out

Get ==
  /\ queue # <<>>
  /\ out' = Head(queue)
  /\ queue' = Tail(queue)

Next == Get \/ \E v \in Records : Put(v)

Spec == Init /\ [][Next]_vars
=============================================================================

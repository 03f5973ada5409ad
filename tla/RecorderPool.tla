---------------------------- MODULE RecorderPool ----------------------------
(***************************************************************************)
(* What the recording supervisor promises about recorder processes, with   *)
(* the messages, flags, drives and timers left out: each camera has at     *)
(* most one recorder, a recorder is only started where there is none, it   *)
(* stays on the books after it exits until it is released, and the number  *)
(* of recorders on the books is always known.                              *)
(***************************************************************************)
EXTENDS Integers, FiniteSets

CONSTANT Cameras

VARIABLES
  proc,    \* camera -> "none", "alive" or "dead" (exited, not yet released)
  count    \* number of recorders on the books

poolVars == <<proc, count>>

OnBooks == {c \in Cameras : proc[c] # "none"}

Init ==
  /\ proc = [c \in Cameras |-> "none"]
  /\ count = 0

Start(c) ==
  /\ proc[c] = "none"
  /\ proc' = [proc EXCEPT ![c] = "alive"]
  /\ count' = count + 1

Exit(c) ==
  /\ proc[c] = "alive"
  /\ proc' = [proc EXCEPT ![c] = "dead"]
  /\ count' = count

\* Stopping or burying recorders, several at once when the configuration changes.
Release(S) ==
  /\ S \subseteq OnBooks
  /\ proc' = [c \in Cameras |-> IF c \in S THEN "none" ELSE proc[c]]
  /\ count' = count - Cardinality(S)

Next ==
  \/ \E c \in Cameras : Start(c) \/ Exit(c)
  \/ \E S \in SUBSET Cameras : Release(S)

Spec == Init /\ [][Next]_poolVars
=============================================================================

-------------------------- MODULE MCRecordingAgent --------------------------
(* Small instances of RecordingAgent for TLC.                              *)
EXTENDS RecordingAgent

CONSTANTS c1, c2

\* One camera, assigned or not after a reload.
OneCamera == {[order |-> <<c1>>, assigned |-> a] : a \in {{}, {c1}}}

\* Two cameras in a fixed order; a reload may unassign the second.
TwoCameras == {[order |-> <<c1, c2>>, assigned |-> a] : a \in {{c1}, {c1, c2}}}

\* One camera that a reload may drop from the configuration and bring back.
RemovableCamera == {[order |-> <<c1>>, assigned |-> {c1}], [order |-> <<>>, assigned |-> {}]}

AllDrives == SUBSET Drives

AllSettings == [noAudio : BOOLEAN, noChm : BOOLEAN]
=============================================================================

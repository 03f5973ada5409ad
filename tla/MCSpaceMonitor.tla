-------------------------- MODULE MCSpaceMonitor ----------------------------
(* Small instances of SpaceMonitor for TLC.                                *)
EXTENDS SpaceMonitor

CONSTANTS c1, c2

\* Both cameras record to the CHM.
MCWriters == {<<"CHM", c1>>, <<"CHM", c2>>}

\* One camera is to keep one unit of footage.
MCTimeBased == <<[cam |-> c1, max |-> 1]>>
=============================================================================

-------------------------- MODULE MCCheckpointSearch ---------------------------
(* Lists of up to ten checkpoints, so that the probe at length - sqrt (length   *)
(* > 5) is taken at lengths where sqrt is 2 and where it is 3.  Blocks go on     *)
(* after the last that fits a key.  Of the values, 2 does not fit.               *)
EXTENDS CheckpointSearch
MCValues == {0, 1, 2}
MCTraceKeys == {0, 1, 2, 3, 4, 6, 7, 8, 9}
================================================================================

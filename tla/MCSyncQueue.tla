------------------------------ MODULE MCSyncQueue ------------------------------
(***************************************************************************)
(* An instance of SyncQueue for TLC: three streams, the second with a      *)
(* coarse time base and -frames 1; any of the others may be limiting.      *)
(***************************************************************************)
EXTENDS SyncQueue

MCTick == [s \in Streams |-> IF s = 2 THEN 6 ELSE 1]
MCFramesMax == [s \in {2} |-> 1]
MCMaxFrames == [s \in Streams |-> IF s = 3 THEN 1 ELSE 2]
================================================================================

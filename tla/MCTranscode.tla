------------------------------ MODULE MCTranscode ------------------------------
(***************************************************************************)
(* An instance of Transcode for TLC: a file of two streams that loops once *)
(* and that the main thread does not wait for (a second file is open and   *)
(* not used).  The first stream of the output copies the first of the      *)
(* file, and the second encodes what a graph makes of its second.          *)
(***************************************************************************)
EXTENDS Transcode

MCFileOf == [i \in {1, 2} |-> 1]
MCLoops == [f \in {1} |-> 1]
MCCopyOf == [o \in {1} |-> 1]
MCGraphOf == [o \in {2} |-> {2}]
================================================================================

------------------------------ MODULE MuxContract ------------------------------
(***************************************************************************)
(* What a muxer promises of the file it writes, whatever the threads and   *)
(* the queues between of_output_packet and the file: the packets of each   *)
(* stream are in the order in which they were given, none twice and none   *)
(* that was never given, and nothing is written once the file is over.     *)
(***************************************************************************)
EXTENDS Naturals, Sequences

CONSTANT Streams

VARIABLES
  given,   \* of each stream, how many packets were given; they are numbered
  file,    \* of each stream, the packets in the file
  over     \* the trailer was tried, or the file was closed

contractVars == <<given, file, over>>

Newer(s, pkt) == \A i \in 1..Len(file[s]) : file[s][i] < pkt

ContractInit ==
  /\ given = [s \in Streams |-> 0]
  /\ file = [s \in Streams |-> <<>>]
  /\ over = FALSE

Give(s) ==
  /\ given' = [given EXCEPT ![s] = given[s] + 1]
  /\ UNCHANGED <<file, over>>

Write(s, pkt) ==
  /\ ~over
  /\ Newer(s, pkt)
  /\ file' = [file EXCEPT ![s] = Append(file[s], pkt)]
  /\ UNCHANGED <<given, over>>

Close == over' = TRUE /\ UNCHANGED <<given, file>>

ContractNext ==
  \/ Close
  \/ \E s \in Streams : Give(s)
  \/ \E s \in Streams : \E pkt \in 1..given[s] : Write(s, pkt)

Contract == ContractInit /\ [][ContractNext]_contractVars
================================================================================

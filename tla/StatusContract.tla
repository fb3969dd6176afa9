---------------------------- MODULE StatusContract -----------------------------
(***************************************************************************)
(* What a StatusListener of IdealRecorder is promised, whatever threads    *)
(* are behind it: recordings do not overlap, a recording that failed or    *)
(* whose file is finished brings no more data, and the data handed over at *)
(* its end is everything that was handed over piece by piece.              *)
(***************************************************************************)
EXTENDS Naturals

VARIABLES
  phase,    \* what the listener knows of the current recording
  chunks,   \* onRecordData calls since the last onStartRecording
  total     \* buffers in the last onRecordedAllData

contractVars == <<phase, chunks, total>>

Phases == {"silent", "recording", "failed", "saved"}

ContractInit == phase = "silent" /\ chunks = 0 /\ total = 0

onStartRecording ==
  /\ phase = "silent"
  /\ phase' = "recording"
  /\ chunks' = 0
  /\ UNCHANGED total

onRecordData ==
  /\ phase = "recording"
  /\ chunks' = chunks + 1
  /\ UNCHANGED <<phase, total>>

onRecordError ==
  /\ phase \in {"recording", "failed"}
  /\ phase' = "failed"
  /\ UNCHANGED <<chunks, total>>

onFileSaveSuccess ==
  /\ phase = "recording"
  /\ phase' = "saved"
  /\ UNCHANGED <<chunks, total>>

(* onRecordedAllData and onStopRecording, which arrive together. *)
onStopRecording ==
  /\ phase # "silent"
  /\ phase' = "silent"
  /\ total' = chunks
  /\ UNCHANGED chunks

ContractNext ==
  \/ onStartRecording
  \/ onRecordData
  \/ onRecordError
  \/ onFileSaveSuccess
  \/ onStopRecording

ContractSpec == ContractInit /\ [][ContractNext]_contractVars
================================================================================

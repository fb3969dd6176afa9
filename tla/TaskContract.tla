----------------------------- MODULE TaskContract ------------------------------
(***************************************************************************)
(* What the activity is promised about the tasks it hands to FFmpeg: they  *)
(* begin one at a time, in the order they were handed over, and each ends  *)
(* before the next begins.                                                 *)
(***************************************************************************)
EXTENDS Naturals

VARIABLES
  begun,    \* tasks whose MSG_BEGIN has been delivered
  ended     \* tasks whose MSG_FINISH has been delivered

ContractInit == begun = 0 /\ ended = 0

Begin == begun = ended /\ begun' = begun + 1 /\ UNCHANGED ended

End == begun = ended + 1 /\ ended' = begun /\ UNCHANGED begun

ContractSpec == ContractInit /\ [][Begin \/ End]_<<begun, ended>>
================================================================================

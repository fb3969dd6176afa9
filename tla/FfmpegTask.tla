------------------------------- MODULE FfmpegTask ------------------------------
(***************************************************************************)
(* FFmpeg commands in the background: AudioCutHandleActivity hands a task  *)
(* to FFmpegHandler, FFmpegCmd runs it on the single thread of             *)
(* ThreadPoolUtil through the native run(), and what it reports comes back *)
(* as messages to the activity's Handler on the main thread.  Shared by    *)
(* the two threads: the static mProgressListener, the C global             *)
(* cancel_execute, and the messages.                                       *)
(*                                                                         *)
(* Tasks are numbered in the order they are submitted, and the listener,   *)
(* the messages and the output file of task t carry its number; 0 is none. *)
(***************************************************************************)
EXTENDS Naturals

CONSTANTS
  MaxTasks,     \* bound: tasks submitted in a behaviour
  MaxReports,   \* bound: progress reports in the loop of one command
  Client        \* liberties the user takes, a subset of Liberties

(* "overlaps": submits although a task has not finished, which btn_cut     *)
(* allows; "cancels": calls cancelExecute.                                 *)
Liberties == {"overlaps", "cancels"}

ASSUME TaskAssumption ==
  /\ MaxTasks \in Nat
  /\ MaxReports \in Nat
  /\ Client \subseteq Liberties

Tasks == 1..MaxTasks

(* executeFFmpegCmd, executeFFmpegCmds and executeFFprobeCmd. *)
TaskKinds == {"single", "list", "probe"}

(* concatAudio runs three commands: two write a temporary file each, the   *)
(* third reads them.                                                       *)
JointCommands == 3
Temporaries == 1..2

VARIABLES
  submitted,    \* tasks handed to the executor
  kind,         \* the kind of each
  taken,        \* tasks the executor's thread has taken from its FIFO queue
  poolPc,       \* where that thread is
  command,      \* the command of the list that runs, counted from 1
  result,       \* what handle() returned last
  reports,      \* progress reports of this command
  listener,     \* FFmpegCmd.mProgressListener
  cancelFlag,   \* cancel_execute
  cancelOf,     \* tasks submitted when the flag was last set (history)
  pending,      \* messages in the main looper
  sent,         \* messages ever sent, which orders the pending ones
  outputPath,   \* AudioCutHandleActivity.outputPath
  isJointing,   \* AudioCutHandleActivity.isJointing
  temps,        \* temporary files that exist
  told,         \* the last task whose BEGIN and FINISH were delivered (history)
  patient       \* no task was submitted before the last had finished (history)

submitVars == <<submitted, kind>>
poolVars == <<taken, poolPc, command, result, reports>>
nativeVars == <<listener, cancelFlag, cancelOf>>
messageVars == <<pending, sent>>
activityVars == <<outputPath, isJointing, told>>
vars == <<submitVars, poolVars, nativeVars, messageVars, activityVars, temps, patient>>

PoolPcs == {"idle", "begin", "handle", "loop", "trailer", "returned", "end", "clear"}
Results == {0, 1}
None == 2                       \* a message without a result
Whats == {"BEGIN", "PROGRESS", "FINISH"}
Messages == [at: Nat, what: Whats, task: Nat, obj: Results \union {None}]

TypeOK ==
  /\ submitted \in 0..MaxTasks
  /\ kind \in [Tasks -> TaskKinds]
  /\ taken \in 0..submitted
  /\ poolPc \in PoolPcs
  /\ poolPc # "idle" => taken # 0
  /\ command \in 1..JointCommands
  /\ result \in Results
  /\ reports \in 0..MaxReports
  /\ listener \in 0..submitted
  /\ cancelFlag \in BOOLEAN
  /\ cancelOf \in 0..submitted
  /\ pending \subseteq Messages
  /\ sent \in Nat
  /\ outputPath \in 0..submitted
  /\ isJointing \in BOOLEAN
  /\ temps \subseteq Temporaries
  /\ told \in [begun: Nat, ended: Nat]
  /\ patient \in BOOLEAN

Init ==
  /\ submitted = 0
  /\ kind = [t \in Tasks |-> "single"]
  /\ taken = 0
  /\ poolPc = "idle"
  /\ command = 1
  /\ result = 0
  /\ reports = 0
  /\ listener = 0
  /\ cancelFlag = FALSE
  /\ cancelOf = 0
  /\ pending = {}
  /\ sent = 0
  /\ outputPath = 0
  /\ isJointing = FALSE
  /\ temps = {}
  /\ told = [begun |-> 0, ended |-> 0]
  /\ patient = TRUE

--------------------------------------------------------------------------------
(* Helpers *)

PoolGoes(from, to) == poolPc = from /\ poolPc' = to
InFlight(t) == t <= submitted /\ told.ended < t

Message(what, t, obj) == [at |-> sent, what |-> what, task |-> t, obj |-> obj]

Send(msg) == pending' = pending \union {msg} /\ sent' = sent + 1

(* removeMessages(MSG_PROGRESS) *)
WithoutProgress == {m \in pending : m.what # "PROGRESS"}

(* onProgressCallback: whoever the static listener is gets the report; one *)
(* of 100 percent or beyond the duration is dropped.                       *)
onProgressCallback ==
  \/ UNCHANGED messageVars
  \/ listener # 0 /\ Send(Message("PROGRESS", listener, None))

--------------------------------------------------------------------------------
(* The user, on the main thread.                                           *)

submit(k) ==
  /\ submitted < MaxTasks                                  \* bound
  /\ "overlaps" \in Client \/ told.ended = submitted
  /\ submitted' = submitted + 1
  /\ kind' = [kind EXCEPT ![submitted + 1] = k]
  /\ listener' = IF k = "probe" THEN listener ELSE submitted + 1
  /\ outputPath' = IF k = "single" THEN submitted + 1 ELSE outputPath
  /\ isJointing' = (isJointing \/ k = "list")
  /\ patient' = (patient /\ told.ended = submitted)
  /\ UNCHANGED <<poolVars, cancelFlag, cancelOf, messageVars, told, temps>>

cancelExecute(cancel) ==
  /\ "cancels" \in Client
  /\ cancelFlag' = cancel
  /\ cancelOf' = submitted
  /\ UNCHANGED <<submitVars, poolVars, listener, messageVars, activityVars, temps, patient>>

--------------------------------------------------------------------------------
(* The executor's thread: the Runnable of FFmpegCmd.execute or             *)
(* executeProbe, and the native run() it calls.                            *)

take ==
  /\ PoolGoes("idle", "begin")
  /\ taken < submitted
  /\ taken' = taken + 1
  /\ command' = 1
  /\ result' = 0
  /\ UNCHANGED <<submitVars, reports, nativeVars, messageVars, activityVars, temps, patient>>

onBegin ==
  /\ PoolGoes("begin", "handle")
  /\ Send(Message("BEGIN", taken, None))
  /\ UNCHANGED <<submitVars, taken, command, result, reports, nativeVars, activityVars, temps,
                 patient>>

(* handleProbe knows neither progress nor cancel. *)
probe ==
  /\ PoolGoes("handle", "returned")
  /\ kind[taken] = "probe"
  /\ result' \in Results
  /\ UNCHANGED <<submitVars, taken, command, reports, nativeVars, messageVars, activityVars,
                 temps, patient>>

(* Parsing the options and opening the files: exit_program() jumps back    *)
(* into run(), which returns 1.                                            *)
openFails ==
  /\ PoolGoes("handle", "returned")
  /\ kind[taken] # "probe"
  /\ result' = 1
  /\ UNCHANGED <<submitVars, taken, command, reports, nativeVars, messageVars, activityVars,
                 temps, patient>>

opened ==
  /\ PoolGoes("handle", "loop")
  /\ kind[taken] # "probe"
  /\ kind[taken] = "list" /\ command = JointCommands => temps = Temporaries
  /\ reports' = 0
  /\ temps' = IF kind[taken] = "list" THEN temps \union ({command} \intersect Temporaries)
              ELSE temps
  /\ UNCHANGED <<submitVars, taken, command, result, nativeVars, messageVars, activityVars,
                 patient>>

(* A round of transcode(): the end of the streams is tested before the     *)
(* flag is, and a step that fails ends the loop as well.                   *)
cancelled ==
  /\ PoolGoes("loop", "trailer")
  /\ cancelFlag
  /\ cancelFlag' = FALSE
  /\ UNCHANGED <<submitVars, taken, command, result, reports, listener, cancelOf, messageVars,
                 activityVars, temps, patient>>

transcodeStep ==
  /\ PoolGoes("loop", "loop")
  /\ ~cancelFlag
  /\ reports < MaxReports                                  \* bound
  /\ reports' = reports + 1
  /\ onProgressCallback
  /\ UNCHANGED <<submitVars, taken, command, result, nativeVars, activityVars, temps, patient>>

(* Fault: the loop goes on after the last packet. *)
endsOnCancelOnly ==
  /\ PoolGoes("loop", "trailer")
  /\ cancelFlag
  /\ UNCHANGED <<submitVars, taken, command, result, reports, nativeVars, messageVars,
                 activityVars, temps, patient>>

loopEnds ==
  /\ PoolGoes("loop", "trailer")
  /\ UNCHANGED <<submitVars, taken, command, result, reports, nativeVars, messageVars,
                 activityVars, temps, patient>>

(* The last report, and 1 if a trailer or the decoding failed. *)
conclude ==
  /\ PoolGoes("trailer", "returned")
  /\ onProgressCallback
  /\ result' \in Results
  /\ UNCHANGED <<submitVars, taken, command, reports, nativeVars, activityVars, temps, patient>>

(* The commands of a list all run, whatever the ones before returned. *)
nextCommand ==
  /\ poolPc = "returned"
  /\ IF kind[taken] = "list" /\ command < JointCommands
     THEN poolPc' = "handle" /\ command' = command + 1
     ELSE poolPc' = "end" /\ UNCHANGED command
  /\ UNCHANGED <<submitVars, taken, result, reports, nativeVars, messageVars, activityVars,
                 temps, patient>>

(* Fault: a command that failed is not announced. *)
onEndIfGood ==
  /\ PoolGoes("end", "clear")
  /\ IF kind[taken] = "single" /\ result = 0
     THEN /\ pending' = WithoutProgress \union {Message("FINISH", taken, result)}
          /\ sent' = sent + 1
     ELSE UNCHANGED messageVars
  /\ UNCHANGED <<submitVars, taken, command, result, reports, nativeVars, activityVars, temps,
                 patient>>

(* Only executeFFmpegCmd withdraws the progress messages and says how the  *)
(* command went.                                                           *)
onEnd ==
  /\ PoolGoes("end", "clear")
  /\ IF kind[taken] = "single"
     THEN /\ pending' = WithoutProgress \union {Message("FINISH", taken, result)}
          /\ sent' = sent + 1
     ELSE Send(Message("FINISH", taken, None))
  /\ UNCHANGED <<submitVars, taken, command, result, reports, nativeVars, activityVars, temps,
                 patient>>

(* Fault: a last report comes after the end. *)
clearAndReport ==
  /\ PoolGoes("clear", "idle")
  /\ onProgressCallback
  /\ listener' = 0
  /\ UNCHANGED <<submitVars, taken, command, result, reports, cancelFlag, cancelOf, activityVars,
                 temps, patient>>

clearListener ==
  /\ PoolGoes("clear", "idle")
  /\ listener' = IF kind[taken] = "probe" THEN listener ELSE 0
  /\ UNCHANGED <<submitVars, taken, command, result, reports, cancelFlag, cancelOf, messageVars,
                 activityVars, temps, patient>>

--------------------------------------------------------------------------------
(* handleMessage of the activity, on the main thread.                      *)

(* Fault: the temporary files are deleted by the first message. *)
DeletesAtOnce(m) == isJointing

DeletesTemps(m) == m.what = "FINISH" /\ isJointing

(* Fault: the path is forgotten when the task begins. *)
ForgetsAtOnce(m) == m.what = "BEGIN"

ForgetsPath(m) == m.what = "FINISH"

deliver(m) ==
  /\ \A n \in pending : m.at <= n.at
  /\ pending' = pending \ {m}
  /\ told' = [begun |-> IF m.what = "BEGIN" THEN m.task ELSE told.begun,
              ended |-> IF m.what = "FINISH" THEN m.task ELSE told.ended]
  /\ isJointing' = (isJointing /\ ~DeletesTemps(m))
  /\ temps' = IF DeletesTemps(m) THEN {} ELSE temps
  /\ outputPath' = IF ForgetsPath(m) THEN 0 ELSE outputPath
  /\ UNCHANGED <<submitVars, poolVars, nativeVars, sent, patient>>

--------------------------------------------------------------------------------
(* The specification *)

PoolRuns ==
  \/ take \/ onBegin \/ probe \/ openFails \/ opened
  \/ cancelled \/ transcodeStep \/ loopEnds \/ conclude
  \/ nextCommand \/ onEnd \/ clearListener

Delivers == \E m \in pending : deliver(m)

Next ==
  \/ \E k \in TaskKinds : submit(k)
  \/ \E cancel \in BOOLEAN : cancelExecute(cancel)
  \/ PoolRuns
  \/ Delivers

Spec == Init /\ [][Next]_vars

(* The executor's thread runs, and the looper delivers. *)
FairSpec == Spec /\ WF_vars(PoolRuns) /\ WF_vars(Delivers)

--------------------------------------------------------------------------------
(* Properties *)

(* Whatever the user does, tasks begin and end one after the other. *)
Contract == INSTANCE TaskContract WITH begun <- told.begun, ended <- told.ended
ContractHolds == Contract!ContractSpec

(* The message delivered in a step from pending. *)
Delivered(m) == m \in pending /\ m \notin pending' /\ sent' = sent

(* For a user who waits for MSG_FINISH, progress is shown only between the *)
(* MSG_BEGIN and the MSG_FINISH of the task it is about.                   *)
ProgressIsInTime ==
  [][patient => \A m \in pending :
       Delivered(m) /\ m.what = "PROGRESS" => m.task = told.begun /\ told.ended < m.task]_vars

(* For such a user, the path shown with a success is the task's own file.  *)
SuccessNamesItsOutput ==
  [][patient => \A m \in pending :
       Delivered(m) /\ m.what = "FINISH" /\ m.obj = 0 => outputPath = m.task]_vars

(* For such a user, the temporary files of concatAudio stay until its last *)
(* command has returned.                                                   *)
TempsAreKept ==
  [][patient /\ temps # {} /\ temps' = {} => poolPc \in {"idle", "clear"}]_vars

(* Every task that was submitted finishes. *)
TasksFinish == \A t \in Tasks : submitted >= t ~> told.ended >= t

(* cancelExecute stops the task that runs or waits when it is called, and  *)
(* none that is submitted after it.                                        *)
CancelHitsTheRunningTask ==
  [][cancelFlag /\ poolPc' = "trailer" /\ ~cancelFlag' => taken <= cancelOf]_vars
================================================================================

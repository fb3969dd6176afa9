----------------------------- MODULE IdealRecorder -----------------------------
(***************************************************************************)
(* The recorder of recorderLib: the singleton IdealRecorder, the Recorder  *)
(* it drives, and the AudioFileHelper both write through.  Three kinds of  *)
(* activity share their fields:                                            *)
(*   - the client's calls start() and stop(), on the main thread;          *)
(*   - one thread per recording, running Recorder.RecordRun;               *)
(*   - the main looper, which runs the messages posted to idealHandler.    *)
(* The main thread is a program counter uiPc, each recording thread one of *)
(* workerPc.  A step reads or writes the shared fields at most once where  *)
(* another thread can tell, so no fields but Recorder's monitor are        *)
(* protected.  Recording thread s reads from the AudioRecord that start()  *)
(* made for it, and both have the number s; 0 stands for null.             *)
(***************************************************************************)
EXTENDS AudioFileHelper, Naturals, Sequences

CONSTANTS
  MaxSessions,      \* bound: recordings started in a behaviour
  MaxChunks,        \* bound: full buffers one thread reads
  MaxPending,       \* bound: messages that may wait when start() is called
  MaxRecordTime,    \* maxRecordTime, in milliseconds
  VolumeInterval,   \* volumeInterval, in milliseconds
  Client,           \* liberties the client takes, a subset of Liberties
  Faults            \* what may go wrong around AudioRecord, a subset of FaultKinds

TIMER_INTERVAL == 100

(* "restarts": calls start() although onStopRecording of the recording     *)
(* before has not been delivered; "reconfigures": calls the setters while  *)
(* a recording is under way.                                               *)
Liberties == {"restarts", "reconfigures"}
FaultKinds == {"permission", "recorder", "boot", "read"}

ASSUME RecorderAssumption ==
  /\ MaxSessions \in Nat
  /\ MaxHandles = MaxSessions
  /\ MaxChunks \in Nat
  /\ MaxPending \in Nat
  /\ MaxRecordTime \in Nat
  /\ VolumeInterval \in Nat \ {0}
  /\ Client \subseteq Liberties
  /\ Faults \subseteq FaultKinds

Sessions == 1..MaxSessions

VARIABLES
  uiPc,         \* where the main thread is
  joining,      \* the thread the main thread waits for
  workerPc,     \* where each recording thread is
  isStarted,    \* IdealRecorder.isStarted
  isFileInit,   \* IdealRecorder.isAudioFileHelperInit
  count,        \* IdealRecorder.count
  allData,      \* IdealRecorder.byteArrayOutputStream: who wrote each buffer
  isRecord,     \* Recorder.isRecord
  mThread,      \* Recorder.mThread
  recorder,     \* Recorder.mAudioRecorder
  mic,          \* what became of each AudioRecord
  sessions,     \* how many AudioRecords and threads there have been
  reads,        \* full buffers each thread has read
  seen,         \* what each thread read of count for its count++
  queue,        \* messages waiting in the main looper
  heard,        \* what the status listener has been told
  crashed       \* an exception nobody catches has ended the process

uiVars == <<uiPc, joining>>
idealVars == <<isStarted, isFileInit>>
dataVars == <<count, allData>>
recVars == <<isRecord, mThread, recorder, mic, sessions>>
readVars == <<reads, seen>>
looperVars == <<queue, heard>>
vars == <<uiVars, workerPc, idealVars, dataVars, recVars, readVars, looperVars, crashed, fileVars>>

StartPcs == {"raise", "ready", "init", "open", "reset", "clearData", "spawn", "lower"}
StopPcs == {"clear", "check", "deref", "join", "forget"}
UiPcs == {"idle"} \union StartPcs \union StopPcs

WorkerPcs == {"none", "boot", "restart", "verify", "probe", "warm1", "read1", "warm2", "read2",
              "loop", "read", "count", "countUp", "save", "collect", "timed", "max", "unstart",
              "uninit", "finish", "done"}

MicStates == {"none", "ready", "recording", "released", "dropped"}
Kinds == {"start", "data", "volume", "error", "saved", "saveFailed", "stop"}

TypeOK ==
  /\ FileTypeOK
  /\ uiPc \in UiPcs
  /\ sessions \in 0..MaxSessions
  /\ joining \in 0..MaxSessions
  /\ workerPc \in [Sessions -> WorkerPcs]
  /\ isStarted \in BOOLEAN
  /\ isFileInit \in BOOLEAN
  /\ count \in Nat
  /\ allData \in Seq(Nat)
  /\ isRecord \in BOOLEAN
  /\ mThread \in 0..MaxSessions
  /\ recorder \in 0..MaxSessions
  /\ mic \in [Sessions -> MicStates]
  /\ reads \in [Sessions -> Nat]
  /\ seen \in [Sessions -> Nat]
  /\ queue \in Seq(Kinds)
  /\ heard \in [phase: {"silent", "recording", "failed", "saved"}, chunks: Nat, total: Nat]
  /\ crashed \in BOOLEAN

Init ==
  /\ FileInit
  /\ uiPc = "idle"
  /\ joining = 0
  /\ workerPc = [s \in Sessions |-> "none"]
  /\ isStarted = FALSE
  /\ isFileInit = FALSE
  /\ count = 0
  /\ allData = <<>>
  /\ isRecord = FALSE
  /\ mThread = 0
  /\ recorder = 0
  /\ mic = [s \in Sessions |-> "none"]
  /\ sessions = 0
  /\ reads = [s \in Sessions |-> 0]
  /\ seen = [s \in Sessions |-> 0]
  /\ queue = <<>>
  /\ heard = [phase |-> "silent", chunks |-> 0, total |-> 0]
  /\ crashed = FALSE

--------------------------------------------------------------------------------
(* Helpers *)

Live(s) == workerPc[s] \notin {"none", "done"}

(* As far as the listener has been told, no recording is under way. *)
Quiet ==
  /\ uiPc = "idle"
  /\ queue = <<>>
  /\ heard.phase = "silent"

(* Fault: stop() is synchronized too, and joins inside the monitor. *)
MonitorHeldByStop == uiPc \in {"init", "open", "reset", "clearData", "spawn"} \union StopPcs

(* synchronized (this) of Recorder.start(), held by the main thread. *)
MonitorHeld == uiPc \in {"init", "open", "reset", "clearData", "spawn"}

(* runOnUi: idealHandler.post *)
Post(msgs) == queue' = queue \o msgs /\ UNCHANGED heard

(* IdealRecorder.onRecordedFail: the file is given up, the error reported. *)
onRecordedFail(errors) ==
  /\ IF isFileInit THEN fileCancel ELSE UNCHANGED fileVars
  /\ Post(errors)

UiGoes(from, to) == uiPc = from /\ uiPc' = to /\ UNCHANGED joining
WorkerGoes(s, from, to) ==
  workerPc[s] = from /\ workerPc' = [workerPc EXCEPT ![s] = to]

--------------------------------------------------------------------------------
(* The client's setters, on the main thread.                               *)

MayConfigure == uiPc = "idle" /\ ("reconfigures" \in Client \/ Quiet)

setRecordFilePath(p) ==
  /\ MayConfigure
  /\ isFileInit' = (p # NoPath)
  /\ setSavePath(p)
  /\ UNCHANGED <<uiVars, workerPc, isStarted, dataVars, recVars, readVars, looperVars, crashed>>

setRecordConfig ==
  /\ MayConfigure
  /\ setRecorderConfig
  /\ UNCHANGED <<uiVars, workerPc, idealVars, dataVars, recVars, readVars, looperVars, crashed>>

setWavFormat(wav) ==
  /\ MayConfigure
  /\ setWav(wav)
  /\ UNCHANGED <<uiVars, workerPc, idealVars, dataVars, recVars, readVars, looperVars, crashed>>

--------------------------------------------------------------------------------
(* IdealRecorder.start() and Recorder.start(), on the main thread.  A call *)
(* that finds isStarted set returns false and changes nothing.             *)

startCall ==
  /\ UiGoes("idle", "raise")
  /\ ~isStarted
  /\ sessions < MaxSessions                                \* bound
  /\ Len(queue) <= MaxPending                              \* bound
  /\ "restarts" \in Client \/ Quiet
  /\ isStarted' = TRUE
  /\ UNCHANGED <<workerPc, isFileInit, dataVars, recVars, readVars, looperVars, crashed, fileVars>>

raiseIsRecord ==
  /\ UiGoes("raise", "ready")
  /\ isRecord' = TRUE
  /\ UNCHANGED <<workerPc, idealVars, dataVars, mThread, recorder, mic, sessions, readVars,
                 looperVars, crashed, fileVars>>

(* Entering the monitor, and onRecorderReady. *)
doRecordReady ==
  /\ UNCHANGED <<workerPc, idealVars, dataVars, recVars, readVars, crashed>>
  /\ \/ /\ UiGoes("ready", "init")
        /\ UNCHANGED <<looperVars, fileVars>>
     \/ /\ UiGoes("ready", "lower")
        /\ "permission" \in Faults
        /\ onRecordedFail(<<"error">>)

(* Fault: the field is forgotten without release(). *)
NotReleased(m) == m

(* The AudioRecord found in the field, if any, is released first. *)
Released(m) == IF recorder = 0 THEN m ELSE [m EXCEPT ![recorder] = "released"]

initializeRecord ==
  /\ UNCHANGED <<workerPc, idealVars, dataVars, isRecord, mThread, readVars, crashed>>
  /\ \/ /\ UiGoes("init", "lower")
        /\ ~hasConfig
        /\ UNCHANGED <<recorder, mic, sessions, looperVars, fileVars>>
     \/ /\ UiGoes("init", "open")
        /\ hasConfig
        /\ sessions' = sessions + 1
        /\ recorder' = sessions'
        /\ mic' = [Released(mic) EXCEPT ![sessions'] = "ready"]
        /\ UNCHANGED <<looperVars, fileVars>>
     \/ /\ UiGoes("init", "lower")
        /\ hasConfig
        /\ "recorder" \in Faults
        /\ recorder' = 0
        /\ mic' = Released(mic)
        /\ \/ onRecordedFail(<<"error">>)                     \* it is not initialized
           \/ UNCHANGED <<looperVars, fileVars>>             \* its constructor throws
        /\ UNCHANGED sessions

(* onRecorderStart, in the steps that a thread of an earlier recording can  *)
(* tell apart.                                                             *)
startFile ==
  /\ UiGoes("open", "reset")
  /\ IF isFileInit THEN \E v \in Verdicts : fileStart(v) /\ Post(v)
                   ELSE UNCHANGED <<fileVars, looperVars>>
  /\ UNCHANGED <<workerPc, idealVars, dataVars, recVars, readVars, crashed>>

resetCount ==
  /\ UiGoes("reset", "clearData")
  /\ count' = 0
  /\ UNCHANGED <<workerPc, idealVars, allData, recVars, readVars, looperVars, crashed, fileVars>>

(* Fault: the buffer of the recording before is not reset. *)
announceOnly ==
  /\ UiGoes("clearData", "spawn")
  /\ Post(<<"start">>)
  /\ UNCHANGED <<workerPc, idealVars, dataVars, recVars, readVars, crashed, fileVars>>

resetData ==
  /\ UiGoes("clearData", "spawn")
  /\ allData' = <<>>
  /\ Post(<<"start">>)
  /\ UNCHANGED <<workerPc, idealVars, count, recVars, readVars, crashed, fileVars>>

(* Fault: the field names a thread that was never made. *)
spawnWrongThread ==
  /\ UiGoes("spawn", "idle")
  /\ mThread' = sessions + 1
  /\ workerPc' = [workerPc EXCEPT ![sessions] = "boot"]
  /\ UNCHANGED <<idealVars, dataVars, isRecord, recorder, mic, sessions, readVars, looperVars,
                 crashed, fileVars>>

(* new Thread(RecordRun).start(), and out of the monitor. *)
spawnThread ==
  /\ UiGoes("spawn", "idle")
  /\ mThread' = sessions
  /\ workerPc' = [workerPc EXCEPT ![sessions] = "boot"]
  /\ UNCHANGED <<idealVars, dataVars, isRecord, recorder, mic, sessions, readVars, looperVars,
                 crashed, fileVars>>

startFails ==
  /\ UiGoes("lower", "idle")
  /\ isRecord' = FALSE
  /\ UNCHANGED <<workerPc, idealVars, dataVars, mThread, recorder, mic, sessions, readVars,
                 looperVars, crashed, fileVars>>

--------------------------------------------------------------------------------
(* IdealRecorder.stop() and Recorder.immediateStop(), on the main thread.  *)

stopCall ==
  /\ UiGoes("idle", "clear")
  /\ isStarted' = FALSE
  /\ UNCHANGED <<workerPc, isFileInit, dataVars, recVars, readVars, looperVars, crashed, fileVars>>

clearIsRecord ==
  /\ UiGoes("clear", "check")
  /\ isRecord' = FALSE
  /\ UNCHANGED <<workerPc, idealVars, dataVars, mThread, recorder, mic, sessions, readVars,
                 looperVars, crashed, fileVars>>

(* Fault: stop() does not wait for the thread. *)
checkNothing ==
  /\ UiGoes("check", "forget")
  /\ UNCHANGED <<workerPc, idealVars, dataVars, recVars, readVars, looperVars, crashed, fileVars>>

checkThread ==
  /\ UiGoes("check", IF mThread # 0 THEN "deref" ELSE "forget")
  /\ UNCHANGED <<workerPc, idealVars, dataVars, recVars, readVars, looperVars, crashed, fileVars>>

(* mThread.join() reads the field again, and it may be null by now. *)
derefThread ==
  /\ uiPc = "deref"
  /\ uiPc' = "join"
  /\ joining' = mThread
  /\ crashed' = (mThread = 0)
  /\ UNCHANGED <<workerPc, idealVars, dataVars, recVars, readVars, looperVars, fileVars>>

joined ==
  /\ joining # 0
  /\ workerPc[joining] = "done"
  /\ uiPc = "join"
  /\ uiPc' = "forget"
  /\ joining' = 0
  /\ UNCHANGED <<workerPc, idealVars, dataVars, recVars, readVars, looperVars, crashed, fileVars>>

forgetThread ==
  /\ UiGoes("forget", "idle")
  /\ mThread' = 0
  /\ UNCHANGED <<workerPc, idealVars, dataVars, isRecord, recorder, mic, sessions, readVars,
                 looperVars, crashed, fileVars>>

--------------------------------------------------------------------------------
(* Recorder.RecordRun, on recording thread s.                              *)

(* The field is tested, then used to restart the AudioRecord.  That fails  *)
(* when it throws or does not record, and the field then forgets the       *)
(* AudioRecord without release().                                          *)
bootTest(s) ==
  /\ WorkerGoes(s, "boot", IF recorder # 0 THEN "restart" ELSE "verify")
  /\ UNCHANGED <<uiVars, idealVars, dataVars, recVars, readVars, looperVars, crashed, fileVars>>

restart(s) ==
  /\ WorkerGoes(s, "restart", "verify")
  /\ recorder # 0
  /\ UNCHANGED <<uiVars, idealVars, dataVars, isRecord, mThread, sessions, readVars, crashed>>
  /\ \/ /\ mic' = [mic EXCEPT ![recorder] = "recording"]
        /\ UNCHANGED <<recorder, looperVars, fileVars>>
     \/ /\ "boot" \in Faults                              \* startRecording() has no effect
        /\ UNCHANGED <<recorder, mic, looperVars, fileVars>>
     \/ /\ "boot" \in Faults                              \* it throws
        /\ mic' = [mic EXCEPT ![recorder] = "dropped"]
        /\ recorder' = 0
        /\ onRecordedFail(<<"error">>)

(* The field has been nulled since: getState() is outside the try block,   *)
(* stop() and startRecording() are inside.                                 *)
restartNull(s) ==
  /\ WorkerGoes(s, "restart", "verify")
  /\ recorder = 0
  /\ UNCHANGED <<uiVars, idealVars, dataVars, recVars, readVars>>
  /\ \/ crashed' = TRUE /\ UNCHANGED <<looperVars, fileVars>>
     \/ onRecordedFail(<<"error">>) /\ UNCHANGED crashed

bootVerify(s) ==
  /\ WorkerGoes(s, "verify", IF recorder # 0 THEN "probe" ELSE "warm1")
  /\ UNCHANGED <<uiVars, idealVars, dataVars, recVars, readVars, looperVars, crashed, fileVars>>

bootProbe(s) ==
  /\ WorkerGoes(s, "probe", "warm1")
  /\ UNCHANGED <<uiVars, idealVars, dataVars, isRecord, mThread, sessions, readVars>>
  /\ \/ /\ recorder = 0
        /\ crashed' = TRUE
        /\ UNCHANGED <<recorder, mic, looperVars, fileVars>>
     \/ /\ recorder # 0
        /\ mic[recorder] = "recording"
        /\ UNCHANGED <<recorder, mic, looperVars, crashed, fileVars>>
     \/ /\ recorder # 0
        /\ mic[recorder] # "recording"
        /\ mic' = [mic EXCEPT ![recorder] = "dropped"]
        /\ recorder' = 0
        /\ onRecordedFail(<<"error">>)
        /\ UNCHANGED crashed

(* The two warm-up reads: the field is tested, then dereferenced. *)
warmUpCheck(s, check, read) ==
  /\ \/ recorder # 0 /\ WorkerGoes(s, check, read) /\ UNCHANGED isRecord
     \/ recorder = 0 /\ WorkerGoes(s, check, "loop") /\ isRecord' = FALSE
  /\ UNCHANGED <<uiVars, idealVars, dataVars, mThread, recorder, mic, sessions, readVars,
                 looperVars, crashed, fileVars>>

warmUpRead(s, read, next) ==
  /\ WorkerGoes(s, read, next)
  /\ crashed' = (recorder = 0)
  /\ UNCHANGED <<uiVars, idealVars, dataVars, recVars, readVars, looperVars, fileVars>>

(* while (isRecord) *)
loopTest(s) ==
  /\ \/ isRecord /\ reads[s] < MaxChunks /\ WorkerGoes(s, "loop", "read")     \* bound
     \/ ~isRecord /\ WorkerGoes(s, "loop", "uninit")
  /\ UNCHANGED <<uiVars, idealVars, dataVars, recVars, readVars, looperVars, crashed, fileVars>>

readFull(s) ==
  /\ WorkerGoes(s, "read", "count")
  /\ recorder # 0
  /\ mic[recorder] = "recording"
  /\ reads' = [reads EXCEPT ![s] = @ + 1]
  /\ UNCHANGED <<uiVars, idealVars, dataVars, recVars, seen, looperVars, crashed, fileVars>>

(* A read that returns too little, as it does when the AudioRecord is not  *)
(* recording, is reported once.  One that throws, as it does through a     *)
(* null field, is reported, and then reported again as a short read.       *)
readFails(s) ==
  /\ WorkerGoes(s, "read", "loop")
  /\ \/ /\ recorder # 0
        /\ "read" \in Faults \/ mic[recorder] # "recording"
        /\ onRecordedFail(<<"error">>)
     \/ /\ recorder = 0 \/ "read" \in Faults
        /\ onRecordedFail(<<"error", "error">>)
  /\ isRecord' = FALSE
  /\ UNCHANGED <<uiVars, idealVars, dataVars, mThread, recorder, mic, sessions, readVars, crashed>>

--------------------------------------------------------------------------------
(* IdealRecorder.onRecorded, on recording thread s.                        *)

(* count++ is a read and a write, which another thread can come between.   *)
countRead(s) ==
  /\ WorkerGoes(s, "count", "countUp")
  /\ seen' = [seen EXCEPT ![s] = count]
  /\ UNCHANGED <<uiVars, idealVars, dataVars, recVars, reads, looperVars, crashed, fileVars>>

countUp(s) ==
  /\ WorkerGoes(s, "countUp", "save")
  /\ count' = seen[s] + 1
  /\ seen' = [seen EXCEPT ![s] = 0]
  /\ UNCHANGED <<uiVars, idealVars, allData, recVars, reads, looperVars, crashed, fileVars>>

save(s) ==
  /\ WorkerGoes(s, "save", "collect")
  /\ IF isFileInit THEN \E v \in Verdicts : fileSave(s, v) /\ Post(v)
                   ELSE UNCHANGED <<fileVars, looperVars>>
  /\ UNCHANGED <<uiVars, idealVars, dataVars, recVars, readVars, crashed>>

collect(s) ==
  /\ WorkerGoes(s, "collect", "timed")
  /\ allData' = Append(allData, s)
  /\ Post(<<"data">>)
  /\ UNCHANGED <<uiVars, idealVars, count, recVars, readVars, crashed, fileVars>>

recordedTime == count * TIMER_INTERVAL

volumeDue == recordedTime >= VolumeInterval /\ recordedTime % VolumeInterval = 0

checkTime(s) ==
  /\ WorkerGoes(s, "timed", IF recordedTime >= MaxRecordTime THEN "max" ELSE "loop")
  /\ Post(IF volumeDue THEN <<"volume">> ELSE <<>>)
  /\ UNCHANGED <<uiVars, idealVars, dataVars, recVars, readVars, crashed, fileVars>>

(* Fault: Recorder.stop() forgets the thread but lets it go on. *)
recorderStopHalf(s) ==
  /\ WorkerGoes(s, "max", "unstart")
  /\ ~MonitorHeld
  /\ mThread' = 0
  /\ UNCHANGED <<uiVars, idealVars, dataVars, isRecord, recorder, mic, sessions, readVars,
                 looperVars, crashed, fileVars>>

(* Recorder.stop(), in the monitor. *)
recorderStop(s) ==
  /\ WorkerGoes(s, "max", "unstart")
  /\ ~MonitorHeld
  /\ mThread' = 0
  /\ isRecord' = FALSE
  /\ UNCHANGED <<uiVars, idealVars, dataVars, recorder, mic, sessions, readVars, looperVars,
                 crashed, fileVars>>

clearIsStarted(s) ==
  /\ WorkerGoes(s, "unstart", "loop")
  /\ isStarted' = FALSE
  /\ UNCHANGED <<uiVars, isFileInit, dataVars, recVars, readVars, looperVars, crashed, fileVars>>

(* Fault: the end is announced before the file is finished. *)
unInitializeAndAnnounce(s) ==
  /\ WorkerGoes(s, "uninit", "finish")
  /\ ~MonitorHeld
  /\ mic' = Released(mic)
  /\ recorder' = 0
  /\ Post(<<"stop">>)
  /\ UNCHANGED <<uiVars, idealVars, dataVars, isRecord, mThread, sessions, readVars, crashed,
                 fileVars>>

(* unInitializeRecord, in the monitor: whatever the field holds now. *)
unInitializeRecord(s) ==
  /\ WorkerGoes(s, "uninit", "finish")
  /\ ~MonitorHeld
  /\ mic' = Released(mic)
  /\ recorder' = 0
  /\ UNCHANGED <<uiVars, idealVars, dataVars, isRecord, mThread, sessions, readVars, looperVars,
                 crashed, fileVars>>

onRecorderStop(s) ==
  /\ WorkerGoes(s, "finish", "done")
  /\ IF isFileInit
     THEN \E v \in Verdicts : fileFinish(v) /\ Post(v \o <<"stop">>)
     ELSE UNCHANGED fileVars /\ Post(<<"stop">>)
  /\ UNCHANGED <<uiVars, idealVars, dataVars, recVars, readVars, crashed>>

--------------------------------------------------------------------------------
(* The main looper delivers a message.  onRecordedAllData hands over the   *)
(* buffer as it is at this moment.                                         *)

Told(kind) ==
  CASE kind = "start" -> [heard EXCEPT !.phase = "recording", !.chunks = 0]
    [] kind = "data"  -> [heard EXCEPT !.chunks = @ + 1]
    [] kind = "error" /\ heard.phase # "silent" -> [heard EXCEPT !.phase = "failed"]
    [] kind = "saved" -> [heard EXCEPT !.phase = "saved"]
    [] kind = "stop"  -> [heard EXCEPT !.phase = "silent", !.total = Len(allData)]
    [] OTHER -> heard

deliver ==
  /\ uiPc = "idle"
  /\ queue # <<>>
  /\ heard' = Told(Head(queue))
  /\ queue' = Tail(queue)
  /\ UNCHANGED <<uiVars, workerPc, idealVars, dataVars, recVars, readVars, crashed, fileVars>>

--------------------------------------------------------------------------------
(* The specification *)

Setters ==
  \/ \E p \in Paths \union {NoPath} : setRecordFilePath(p)
  \/ setRecordConfig
  \/ \E wav \in BOOLEAN : setWavFormat(wav)

(* A call that has begun runs on by itself. *)
UiRuns ==
  \/ raiseIsRecord \/ doRecordReady \/ initializeRecord \/ startFile
  \/ resetCount \/ resetData \/ spawnThread \/ startFails
  \/ clearIsRecord \/ checkThread \/ derefThread \/ joined \/ forgetThread

WorkerRuns(s) ==
  \/ bootTest(s) \/ restart(s) \/ restartNull(s) \/ bootVerify(s) \/ bootProbe(s)
  \/ warmUpCheck(s, "warm1", "read1") \/ warmUpRead(s, "read1", "warm2")
  \/ warmUpCheck(s, "warm2", "read2") \/ warmUpRead(s, "read2", "loop")
  \/ loopTest(s) \/ readFull(s) \/ readFails(s)
  \/ countRead(s) \/ countUp(s) \/ save(s) \/ collect(s) \/ checkTime(s) \/ recorderStop(s) \/ clearIsStarted(s)
  \/ unInitializeRecord(s) \/ onRecorderStop(s)

Next ==
  \/ /\ ~crashed
     /\ \/ Setters
        \/ startCall \/ stopCall
        \/ UiRuns
        \/ \E s \in Sessions : WorkerRuns(s)
        \/ deliver
  \/ crashed /\ UNCHANGED vars                             \* the process is gone

Spec == Init /\ [][Next]_vars

(* The threads run; the main thread finishes a call it began; the looper   *)
(* gets to each message although the client keeps calling, since calls and *)
(* messages wait their turn in one queue.  The client need not call.       *)
Fairness ==
  /\ WF_vars(~crashed /\ UiRuns)
  /\ \A s \in Sessions : WF_vars(~crashed /\ WorkerRuns(s))
  /\ SF_vars(~crashed /\ deliver)

FairSpec == Spec /\ Fairness

--------------------------------------------------------------------------------
(* Properties *)

(* No recording has reached maxRecordTime. *)
BelowMax == \A s \in Sessions : reads[s] * TIMER_INTERVAL < MaxRecordTime

(* Only one recording thread runs, and none while start() prepares the     *)
(* next: stop() joins the thread before start() can pass isStarted.        *)
NoOverlap ==
  /\ \A s, t \in Sessions : Live(s) /\ Live(t) => s = t
  /\ uiPc \in StartPcs => \A s \in Sessions : ~Live(s)

(* As long as recordings are ended by stop() alone, recordings do not      *)
(* overlap and no thread meets a field another has nulled.  At             *)
(* maxRecordTime Recorder.stop() forgets the thread before it has ended,   *)
(* and both can happen.                                                    *)
OneRecordingAtATime == BelowMax => NoOverlap /\ ~crashed

(* Why: the named parts of the inductive invariant behind it.              *)
ThreadIsKnown == \A s \in Sessions : Live(s) => mThread = s

NumbersAreFresh ==
  \A s \in Sessions :
    s > sessions \/ (s = sessions /\ uiPc \in {"open", "reset", "clearData", "spawn"})
      => workerPc[s] = "none" /\ reads[s] = 0

NoneBeforeStart ==
  uiPc \in StartPcs \union {"forget"} \/ (uiPc = "idle" /\ ~isStarted)
    => \A s \in Sessions : ~Live(s)

StartedIsKept == uiPc \in StartPcs => isStarted

JoinsTheThread ==
  /\ uiPc = "deref" => mThread # 0
  /\ uiPc = "join" => mThread # 0 /\ joining = mThread

CountIsReads ==
  /\ uiPc \in {"clearData", "spawn"} => count = 0
  /\ \A s \in Sessions : Live(s) =>
       /\ workerPc[s] \notin {"max", "unstart"}
       /\ count = IF workerPc[s] \in {"count", "countUp"} THEN reads[s] - 1 ELSE reads[s]
       /\ workerPc[s] = "countUp" => seen[s] = count

BootHasRecorder ==
  \A s \in Sessions : workerPc[s] \in {"restart", "probe", "read1", "read2"} => recorder # 0

RecordingInv ==
  BelowMax =>
    /\ ThreadIsKnown
    /\ NumbersAreFresh
    /\ NoneBeforeStart
    /\ StartedIsKept
    /\ JoinsTheThread
    /\ CountIsReads
    /\ BootHasRecorder
    /\ ~crashed

(* A client that waits for onStopRecording never makes recordings overlap, *)
(* even when maxRecordTime ends them.                                      *)
PatientClientIsSafe == "restarts" \notin Client => NoOverlap

(* A message of this kind is posted first in this step. *)
Posted(kind) == Len(queue') > Len(queue) /\ queue'[Len(queue) + 1] = kind

(* AudioFileHelper reports success only for a file that has a header with  *)
(* its sizes, or none at all, and every buffer of the recording.           *)
SavedIsWhole ==
  [][BelowMax /\ Posted("saved") => /\ handle[raf].data = allData
                                    /\ handle'[raf].header \in {"none", "sized"}]_vars

(* Files of recordings that are over are closed. *)
NoLeak == BelowMax => Leaked = {}

(* Whatever drops an AudioRecord without release(): a start that failed,   *)
(* or a second recording that replaced it before the first looked.         *)
MayDrop == "boot" \in Faults \/ ~BelowMax

(* When every thread has ended the microphone is free: every AudioRecord   *)
(* has been released, also of recordings that overlapped, but for those    *)
(* that were dropped, and only what MayDrop names drops one.               *)
MicReleased ==
  uiPc = "idle" /\ (\A s \in Sessions : ~Live(s))
    => /\ recorder = 0
       /\ \A s \in Sessions :
            \/ mic[s] \in {"none", "released"}
            \/ mic[s] = "dropped" /\ MayDrop

(* onRecordedAllData brings as many buffers as onRecordData did. *)
AllDataIsAll ==
  [][heard.phase # "silent" /\ heard'.phase = "silent" => heard'.total = heard.chunks]_vars

(* No recording is longer than maxRecordTime. *)
MaxTimeHolds == \A s \in Sessions : reads[s] * TIMER_INTERVAL <= MaxRecordTime

(* stop() always returns: the thread it joins comes to its end. *)
StopReturns == uiPc \in StopPcs ~> uiPc = "idle" \/ crashed

(* maxRecordTime ends a recording that nobody stops, and the listener is   *)
(* told of its end.                                                        *)
RecordingEnds == heard.phase # "silent" ~> heard.phase = "silent" \/ crashed

(* The listener is told what StatusContract promises. *)
Contract == INSTANCE StatusContract
              WITH phase <- heard.phase, chunks <- heard.chunks, total <- heard.total
ContractHolds == Contract!ContractSpec
================================================================================

--------------------------- MODULE IdealRecorderProofs ---------------------------
(***************************************************************************)
(* Theorems about IdealRecorder, for every number of recordings, buffers   *)
(* and paths, every client and every fault.                                *)
(***************************************************************************)
EXTENDS IdealRecorder, TLAPS

USE FileAssumption, RecorderAssumption

--------------------------------------------------------------------------------
(* AudioFileHelper keeps its fields well typed, whichever method runs.     *)

LEMMA FileOpsTyped ==
  ASSUME FileTypeOK,
         \/ \E p \in Paths \union {NoPath} : setSavePath(p)
         \/ setRecorderConfig
         \/ \E wav \in BOOLEAN : setWav(wav)
         \/ \E v \in Verdicts : fileStart(v)
         \/ \E w \in Sessions, v \in Verdicts : fileSave(w, v)
         \/ \E v \in Verdicts : fileFinish(v)
         \/ fileCancel
         \/ UNCHANGED fileVars
  PROVE  FileTypeOK'
<1> USE DEF FileTypeOK, Handles, Headers
<1>1. CASE \E p \in Paths \union {NoPath} : setSavePath(p)
  BY <1>1 DEF setSavePath
<1>2. CASE setRecorderConfig
  BY <1>2 DEF setRecorderConfig
<1>3. CASE \E wav \in BOOLEAN : setWav(wav)
  BY <1>3 DEF setWav
<1>4. ASSUME NEW v \in Verdicts, fileStart(v)
      PROVE  FileTypeOK'
  <2>1. ASSUME NEW header \in {"none", "blank", "torn"}, savePath # NoPath,
               Construct(header), UNCHANGED <<savePath, isWav, hasConfig>>,
               targetFile' = savePath
        PROVE  FileTypeOK'
    <3>1. opened' \in 0..MaxHandles /\ opened' = opened + 1 /\ opened' \in Handles
      BY <2>1 DEF Construct
    <3>2. raf' \in 0..opened'
      BY <2>1, <3>1 DEF Construct
    <3>3. <<>> \in Seq(Nat)
      OBVIOUS
    <3>4. [open |-> TRUE, header |-> header, data |-> <<>>]
            \in [open: BOOLEAN, header: Headers, data: Seq(Nat)]
      BY <3>3
    <3>5. handle' \in [Handles -> [open: BOOLEAN, header: Headers, data: Seq(Nat)]]
      BY <2>1, <3>1, <3>4 DEF Construct
    <3>6. linked' \in [Paths -> 0..opened']
      BY <2>1, <3>1 DEF Construct
    <3> QED
      BY <2>1, <3>1, <3>2, <3>5, <3>6
  <2>2. CASE NotOpened(v)
    BY <2>2 DEF NotOpened, fileVars
  <2>3. CASE Opened(v)
    BY <2>1, <2>3 DEF Opened
  <2>4. CASE HeaderFails(v)
    BY <2>1, <2>4 DEF HeaderFails
  <2>5. CASE ConstructorFails(v)
    BY <2>5 DEF ConstructorFails
  <2> QED
    BY <1>4, <2>2, <2>3, <2>4, <2>5 DEF fileStart
<1>5. ASSUME NEW w \in Sessions, NEW v \in Verdicts, fileSave(w, v)
      PROVE  FileTypeOK'
  <2>1. w \in Nat
    BY DEF Sessions
  <2>2. CASE UNCHANGED handle
    BY <1>5, <2>2 DEF fileSave
  <2>3. CASE raf # 0 /\ handle' = [handle EXCEPT ![raf].data = Append(@, w)]
    <3>1. raf \in Handles
      BY <2>3
    <3>2. Append(handle[raf].data, w) \in Seq(Nat)
      BY <2>1, <3>1
    <3>3. handle' \in [Handles -> [open: BOOLEAN, header: Headers, data: Seq(Nat)]]
      BY <2>3, <3>1, <3>2
    <3> QED
      BY <1>5, <3>3 DEF fileSave
  <2> QED
    BY <1>5, <2>2, <2>3 DEF fileSave
<1>6. ASSUME NEW v \in Verdicts, fileFinish(v)
      PROVE  FileTypeOK'
  <2>1. ASSUME NEW header \in Headers
        PROVE  Patched(header) \in Headers
    BY <2>1 DEF Patched
  <2>2. CASE UNCHANGED handle
    BY <1>6, <2>2 DEF fileFinish
  <2>3. ASSUME raf # 0,
               NEW header \in Headers, handle' = Closed(header)
        PROVE  FileTypeOK'
    <3>1. handle'\in [Handles -> [open: BOOLEAN, header: Headers, data: Seq(Nat)]]
      BY <2>3 DEF Closed
    <3> QED
      BY <1>6, <3>1 DEF fileFinish
  <2>4. raf # 0 => raf \in Handles /\ handle[raf].header \in Headers
    OBVIOUS
  <2> QED
    BY <1>6, <2>1, <2>2, <2>3, <2>4 DEF fileFinish
<1>7. CASE fileCancel
  <2>1. CASE UNCHANGED <<raf, targetFile, linked>>
    BY <1>7, <2>1 DEF fileCancel
  <2>2. CASE raf' = 0 /\ targetFile' = NoPath /\ linked' = [linked EXCEPT ![targetFile] = 0]
    <3>1. 0 \in 0..opened
      OBVIOUS
    <3>2. linked' \in [Paths -> 0..opened]
      BY <2>2, <3>1
    <3>3. UNCHANGED <<savePath, isWav, hasConfig, opened, handle>>
      BY <1>7 DEF fileCancel
    <3> QED
      BY <2>2, <3>1, <3>2, <3>3
  <2> QED
    BY <1>7, <2>1, <2>2 DEF fileCancel
<1>8. CASE UNCHANGED fileVars
  BY <1>8 DEF fileVars
<1> QED
  BY <1>1, <1>2, <1>3, <1>4, <1>5, <1>6, <1>7, <1>8

--------------------------------------------------------------------------------
(* Type correctness.  The numbers of AudioRecords stay within Sessions     *)
(* because start() begins only while one is left.                          *)

NumbersLeft == uiPc \in {"raise", "ready", "init"} => sessions < MaxSessions

TypeInv == TypeOK /\ NumbersLeft

(* Posting messages keeps the looper's queue typed and tells nobody yet.   *)
LEMMA PostTyped ==
  ASSUME TypeOK, NEW msgs \in Seq(Kinds), Post(msgs)
  PROVE  /\ queue' \in Seq(Kinds)
         /\ heard' \in [phase: {"silent", "recording", "failed", "saved"},
                        chunks: Nat, total: Nat]
BY DEF Post, TypeOK

(* So does reporting a failure, which gives the file up as well.           *)
LEMMA FailTyped ==
  ASSUME TypeOK, NEW msgs \in Seq(Kinds), onRecordedFail(msgs)
  PROVE  /\ FileTypeOK'
         /\ queue' \in Seq(Kinds)
         /\ heard' \in [phase: {"silent", "recording", "failed", "saved"},
                        chunks: Nat, total: Nat]
BY FileOpsTyped, PostTyped DEF onRecordedFail, TypeOK

(* Releasing the AudioRecord in the field only changes what became of it.  *)
LEMMA ReleasedTyped ==
  ASSUME TypeOK
  PROVE  Released(mic) \in [Sessions -> MicStates]
BY DEF TypeOK, Released, MicStates

(* The singleton is constructed with well typed fields.                    *)
LEMMA TypeInit == Init => TypeInv
<1> SUFFICES ASSUME Init
             PROVE  TypeInv
  OBVIOUS
<1>1. FileTypeOK
  <2>1. [open |-> FALSE, header |-> "none", data |-> <<>>]
          \in [open: BOOLEAN, header: Headers, data: Seq(Nat)]
    BY DEF Headers
  <2>2. handle \in [Handles -> [open: BOOLEAN, header: Headers, data: Seq(Nat)]]
    BY <2>1 DEF Init, FileInit
  <2>3. linked \in [Paths -> 0..opened] /\ raf \in 0..opened /\ opened \in 0..MaxHandles
    BY DEF Init, FileInit
  <2> QED
    BY <2>2, <2>3 DEF Init, FileInit, FileTypeOK
<1>2. heard \in [phase: {"silent", "recording", "failed", "saved"}, chunks: Nat, total: Nat]
  BY DEF Init
<1>3. allData \in Seq(Nat) /\ queue \in Seq(Kinds)
  BY DEF Init
<1>4. workerPc \in [Sessions -> WorkerPcs] /\ mic \in [Sessions -> MicStates]
        /\ reads \in [Sessions -> Nat] /\ seen \in [Sessions -> Nat]
  BY DEF Init, WorkerPcs, MicStates
<1>5. uiPc \in UiPcs /\ NumbersLeft
  BY DEF Init, UiPcs, NumbersLeft
<1>6. /\ sessions \in 0..MaxSessions /\ joining \in 0..MaxSessions
      /\ mThread \in 0..MaxSessions /\ recorder \in 0..MaxSessions /\ count \in Nat
  BY DEF Init
<1>7. /\ isStarted \in BOOLEAN /\ isFileInit \in BOOLEAN /\ isRecord \in BOOLEAN
      /\ crashed \in BOOLEAN
  BY DEF Init
<1> QED
  BY <1>1, <1>2, <1>3, <1>4, <1>5, <1>6, <1>7 DEF TypeInv, TypeOK

(* The setters keep every field typed.                                     *)
LEMMA SettersTyped ==
  ASSUME TypeInv, Setters
  PROVE  TypeInv'
<1> USE DEF TypeInv, TypeOK, NumbersLeft, uiVars, dataVars, recVars, readVars, looperVars, idealVars
<1>1. FileTypeOK'
  BY FileOpsTyped DEF Setters, setRecordFilePath, setRecordConfig, setWavFormat
<1>2. ASSUME NEW p \in Paths \union {NoPath}, setRecordFilePath(p)
      PROVE  TypeInv'
  BY <1>1, <1>2 DEF setRecordFilePath
<1>3. CASE setRecordConfig
  BY <1>1, <1>3 DEF setRecordConfig
<1>4. ASSUME NEW wav \in BOOLEAN, setWavFormat(wav)
      PROVE  TypeInv'
  BY <1>1, <1>4 DEF setWavFormat
<1> QED
  BY <1>2, <1>3, <1>4 DEF Setters

(* start() and stop() keep every field typed, step by step.                *)
LEMMA UiTyped ==
  ASSUME TypeInv, startCall \/ stopCall \/ UiRuns
  PROVE  TypeInv'
<1> USE DEF TypeInv, TypeOK, NumbersLeft, uiVars, dataVars, recVars, readVars, looperVars, idealVars,
            UiGoes, UiPcs, StartPcs, StopPcs
<1> DEFINE HeardOK == heard \in [phase: {"silent", "recording", "failed", "saved"},
                                chunks: Nat, total: Nat]
<1>0. UNCHANGED fileVars => FileTypeOK'
  BY FileOpsTyped
<1>1. CASE startCall
  BY <1>0, <1>1 DEF startCall
<1>2. CASE stopCall
  BY <1>0, <1>2 DEF stopCall
<1>3. CASE raiseIsRecord
  BY <1>0, <1>3 DEF raiseIsRecord
<1>4. CASE doRecordReady
  <2>1. <<"error">> \in Seq(Kinds)
    BY DEF Kinds
  <2> QED
    BY <1>0, <1>4, <2>1, FailTyped DEF doRecordReady
<1>5. CASE initializeRecord
  <2>1. <<"error">> \in Seq(Kinds)
    BY DEF Kinds
  <2>2. mic' \in [Sessions -> MicStates] /\ recorder' \in 0..MaxSessions
           /\ sessions' \in 0..MaxSessions
    <3>1. \A m \in [Sessions -> MicStates], r \in Sessions :
            [m EXCEPT ![r] = "ready"] \in [Sessions -> MicStates]
      BY DEF MicStates
    <3>2. uiPc = "init" /\ sessions + 1 \in Sessions
      BY <1>5 DEF initializeRecord, Sessions
    <3>3. Released(mic) \in [Sessions -> MicStates]
      BY ReleasedTyped
    <3>4. CASE UNCHANGED <<recorder, mic, sessions>>
      BY <3>4
    <3>5. CASE recorder' = 0 /\ mic' = Released(mic) /\ UNCHANGED sessions
      BY <3>3, <3>5
    <3>6. CASE /\ sessions' = sessions + 1
               /\ recorder' = sessions'
               /\ mic' = [Released(mic) EXCEPT ![sessions'] = "ready"]
      <4>1. sessions' \in Sessions /\ sessions' \in 0..MaxSessions
        BY <3>2, <3>6 DEF Sessions
      <4>2. mic' \in [Sessions -> MicStates]
        BY <3>1, <3>3, <3>6, <4>1
      <4> QED
        BY <3>6, <4>1, <4>2
    <3> QED
      BY <1>5, <3>4, <3>5, <3>6 DEF initializeRecord
  <2>3. FileTypeOK' /\ queue' \in Seq(Kinds) /\ HeardOK'
    BY <1>0, <1>5, <2>1, FailTyped DEF initializeRecord
  <2> QED
    BY <1>5, <2>2, <2>3 DEF initializeRecord
<1>6. CASE startFile
  <2>1. Verdicts \subseteq Seq(Kinds)
    BY DEF Verdicts, Kinds
  <2>2. FileTypeOK' /\ queue' \in Seq(Kinds) /\ HeardOK'
    BY <1>0, <1>6, <2>1, FileOpsTyped, PostTyped DEF startFile
  <2> QED
    BY <1>6, <2>2 DEF startFile
<1>15. CASE resetCount
  BY <1>0, <1>15 DEF resetCount
<1>7. CASE resetData
  <2>1. <<"start">> \in Seq(Kinds)
    BY DEF Kinds
  <2>2. queue' \in Seq(Kinds) /\ HeardOK'
    BY <1>7, <2>1, PostTyped DEF resetData
  <2> QED
    BY <1>0, <1>7, <2>2 DEF resetData
<1>8. CASE spawnThread
  BY <1>0, <1>8 DEF spawnThread, WorkerPcs
<1>9. CASE startFails
  BY <1>0, <1>9 DEF startFails
<1>10. CASE clearIsRecord
  BY <1>0, <1>10 DEF clearIsRecord
<1>11. CASE checkThread
  BY <1>0, <1>11 DEF checkThread
<1>12. CASE derefThread
  BY <1>0, <1>12 DEF derefThread
<1>13. CASE joined
  BY <1>0, <1>13 DEF joined
<1>14. CASE forgetThread
  BY <1>0, <1>14 DEF forgetThread
<1> QED
  BY <1>1, <1>2, <1>3, <1>4, <1>5, <1>6, <1>7, <1>8, <1>9, <1>10, <1>11, <1>12, <1>13, <1>14,
     <1>15 DEF UiRuns

(* So does a recording thread.                                             *)
LEMMA WorkerTyped ==
  ASSUME TypeInv, NEW s \in Sessions, WorkerRuns(s)
  PROVE  TypeInv'
<1> USE DEF TypeInv, TypeOK, NumbersLeft, uiVars, dataVars, recVars, readVars, looperVars, idealVars,
            WorkerGoes
<1> DEFINE HeardOK == heard \in [phase: {"silent", "recording", "failed", "saved"},
                                chunks: Nat, total: Nat]
<1>0. /\ UNCHANGED fileVars => FileTypeOK'
      /\ <<"error">> \in Seq(Kinds)
      /\ <<"error", "error">> \in Seq(Kinds)
      /\ \A v \in Verdicts : v \o <<"data">> \in Seq(Kinds) /\ v \o <<"stop">> \in Seq(Kinds)
      /\ \A next \in WorkerPcs : [workerPc EXCEPT ![s] = next] \in [Sessions -> WorkerPcs]
  BY FileOpsTyped DEF Kinds, Verdicts
<1>13. \A what \in {"recording", "dropped"} :
         [mic EXCEPT ![recorder] = what] \in [Sessions -> MicStates]
  BY DEF MicStates
<1>14. /\ recorder \in 0..MaxSessions
       /\ 0 \in 0..MaxSessions
       /\ mic \in [Sessions -> MicStates]
  OBVIOUS
<1>1. CASE bootTest(s) \/ bootVerify(s)
  BY <1>0, <1>1 DEF bootTest, bootVerify, WorkerPcs
<1>15. CASE restart(s)
  <2>1. recorder' \in {recorder, 0}
    BY <1>15 DEF restart
  <2>2. mic' = mic \/ \E what \in {"recording", "dropped"} : mic' = [mic EXCEPT ![recorder] = what]
    BY <1>15 DEF restart
  <2>3. FileTypeOK' /\ queue' \in Seq(Kinds) /\ HeardOK'
    BY <1>0, <1>15, FailTyped DEF restart
  <2>4. mic' \in [Sessions -> MicStates] /\ recorder' \in 0..MaxSessions
    BY <1>13, <1>14, <2>1, <2>2
  <2> QED
    BY <1>0, <1>15, <2>3, <2>4 DEF restart, WorkerPcs
<1>16. CASE restartNull(s)
  <2>1. FileTypeOK' /\ queue' \in Seq(Kinds) /\ HeardOK'
    BY <1>0, <1>16, FailTyped DEF restartNull
  <2> QED
    BY <1>0, <1>16, <2>1 DEF restartNull, WorkerPcs
<1>17. CASE bootProbe(s)
  <2>1. recorder' \in {recorder, 0}
    BY <1>17 DEF bootProbe
  <2>2. mic' = mic \/ mic' = [mic EXCEPT ![recorder] = "dropped"]
    BY <1>17 DEF bootProbe
  <2>3. FileTypeOK' /\ queue' \in Seq(Kinds) /\ HeardOK'
    BY <1>0, <1>17, FailTyped DEF bootProbe
  <2>4. mic' \in [Sessions -> MicStates] /\ recorder' \in 0..MaxSessions
    BY <1>13, <1>14, <2>1, <2>2
  <2> QED
    BY <1>0, <1>17, <2>3, <2>4 DEF bootProbe, WorkerPcs
<1>2. CASE warmUpCheck(s, "warm1", "read1") \/ warmUpCheck(s, "warm2", "read2")
  BY <1>0, <1>2 DEF warmUpCheck, WorkerPcs
<1>3. CASE warmUpRead(s, "read1", "warm2") \/ warmUpRead(s, "read2", "loop")
  BY <1>0, <1>3 DEF warmUpRead, WorkerPcs
<1>4. CASE loopTest(s)
  BY <1>0, <1>4 DEF loopTest, WorkerPcs
<1>5. CASE readFull(s)
  BY <1>0, <1>5 DEF readFull, WorkerPcs
<1>6. CASE readFails(s)
  <2>1. FileTypeOK' /\ queue' \in Seq(Kinds) /\ HeardOK'
    BY <1>0, <1>6, FailTyped DEF readFails
  <2> QED
    BY <1>0, <1>6, <2>1 DEF readFails, WorkerPcs
<1>18. CASE countRead(s)
  BY <1>0, <1>18 DEF countRead, WorkerPcs
<1>19. CASE countUp(s)
  <2>1. seen[s] + 1 \in Nat
    OBVIOUS
  <2> QED
    BY <1>0, <1>19, <2>1 DEF countUp, WorkerPcs
<1>7. CASE save(s)
  <2>1. FileTypeOK' /\ queue' \in Seq(Kinds) /\ HeardOK'
    <3>1. Verdicts \subseteq Seq(Kinds)
      BY DEF Verdicts, Kinds
    <3> QED
      BY <1>0, <1>7, <3>1, FileOpsTyped, PostTyped DEF save
  <2> QED
    BY <1>0, <1>7, <2>1 DEF save, WorkerPcs
<1>20. CASE collect(s)
  <2>1. queue' \in Seq(Kinds) /\ HeardOK'
    <3>1. <<"data">> \in Seq(Kinds)
      BY DEF Kinds
    <3> QED
      BY <1>20, <3>1, PostTyped DEF collect
  <2>2. allData' \in Seq(Nat)
    BY <1>20 DEF collect, Sessions
  <2> QED
    BY <1>0, <1>20, <2>1, <2>2 DEF collect, WorkerPcs
<1>8. CASE checkTime(s)
  <2>1. queue' \in Seq(Kinds) /\ HeardOK'
    <3>1. <<"volume">> \in Seq(Kinds) /\ <<>> \in Seq(Kinds)
      BY DEF Kinds
    <3>2. (IF volumeDue THEN <<"volume">> ELSE <<>>) \in Seq(Kinds)
      BY <3>1
    <3> QED
      BY <1>8, <3>2, PostTyped DEF checkTime
  <2> QED
    BY <1>0, <1>8, <2>1 DEF checkTime, WorkerPcs
<1>9. CASE recorderStop(s)
  <2>1. workerPc' \in [Sessions -> WorkerPcs] /\ mThread' \in 0..MaxSessions
          /\ isRecord' \in BOOLEAN
    <3>1. "unstart" \in WorkerPcs /\ 0 \in 0..MaxSessions
      BY DEF WorkerPcs
    <3> QED
      BY <1>0, <1>9, <3>1 DEF recorderStop
  <2> QED
    BY <1>0, <1>9, <2>1 DEF recorderStop
<1>10. CASE clearIsStarted(s)
  BY <1>0, <1>10 DEF clearIsStarted, WorkerPcs
<1>11. CASE unInitializeRecord(s)
  BY <1>0, <1>11, ReleasedTyped DEF unInitializeRecord, WorkerPcs
<1>12. CASE onRecorderStop(s)
  <2>1. FileTypeOK' /\ queue' \in Seq(Kinds) /\ HeardOK'
    <3>1. <<"stop">> \in Seq(Kinds)
      BY DEF Kinds
    <3> QED
      BY <1>0, <1>12, <3>1, FileOpsTyped, PostTyped DEF onRecorderStop
  <2> QED
    BY <1>0, <1>12, <2>1 DEF onRecorderStop, WorkerPcs
<1> QED
  BY <1>1, <1>2, <1>3, <1>4, <1>5, <1>6, <1>7, <1>8, <1>9, <1>10, <1>11, <1>12,
     <1>15, <1>16, <1>17, <1>18, <1>19, <1>20 DEF WorkerRuns

(* So does the delivery of a message to the listener.                      *)
LEMMA DeliverTyped ==
  ASSUME TypeInv, deliver
  PROVE  TypeInv'
<1> USE DEF TypeInv, TypeOK, NumbersLeft, uiVars, dataVars, recVars, readVars, looperVars, idealVars
<1>1. FileTypeOK'
  BY FileOpsTyped DEF deliver
<1>2. queue' \in Seq(Kinds)
  BY DEF deliver
<1>3. heard' \in [phase: {"silent", "recording", "failed", "saved"}, chunks: Nat, total: Nat]
  <2> DEFINE HeardType == [phase: {"silent", "recording", "failed", "saved"},
                           chunks: Nat, total: Nat]
  <2>1. heard \in HeardType /\ Len(allData) \in Nat
    OBVIOUS
  <2>2. [heard EXCEPT !.phase = "recording", !.chunks = 0] \in HeardType
    BY <2>1
  <2>3. [heard EXCEPT !.chunks = @ + 1] \in HeardType
    <3>1. heard.chunks + 1 \in Nat
      BY <2>1
    <3>2. \A n \in Nat : [heard EXCEPT !.chunks = n] \in HeardType
      BY <2>1
    <3> QED
      BY <3>1, <3>2
  <2>4. \A p \in {"failed", "saved"} : [heard EXCEPT !.phase = p] \in HeardType
    BY <2>1
  <2>5. [heard EXCEPT !.phase = "silent", !.total = Len(allData)] \in HeardType
    BY <2>1
  <2>6. \A kind : Told(kind) \in HeardType
    BY <2>1, <2>2, <2>3, <2>4, <2>5 DEF Told
  <2> QED
    BY <2>6 DEF deliver
<1> QED
  BY <1>1, <1>2, <1>3 DEF deliver

(* TypeInv is inductive.                                                   *)
LEMMA TypeStep == TypeInv /\ [Next]_vars => TypeInv'
<1> SUFFICES ASSUME TypeInv, [Next]_vars
             PROVE  TypeInv'
  OBVIOUS
<1>1. CASE UNCHANGED vars
  <2>1. FileTypeOK'
    BY <1>1, FileOpsTyped DEF vars, TypeInv, TypeOK
  <2> QED
    BY <1>1, <2>1 DEF vars, TypeInv, TypeOK, NumbersLeft, uiVars, dataVars, recVars, readVars, looperVars,
                      idealVars
<1> QED
  BY <1>1, SettersTyped, UiTyped, WorkerTyped, DeliverTyped DEF Next

(* Every field of the recorder keeps its type (TypeOK), for all values of the       *)
(* constants: in particular the fields that name a thread, an AudioRecord  *)
(* or a file never name one that does not exist.                           *)
THEOREM TypeCorrect == Spec => []TypeOK
<1>1. TypeInv => TypeOK
  BY DEF TypeInv
<1> QED
  BY <1>1, TypeInit, TypeStep, PTL DEF Spec

--------------------------------------------------------------------------------
(* One recording at a time, as long as maxRecordTime is not reached.       *)

RecordingParts ==
  /\ ThreadIsKnown /\ NumbersAreFresh /\ NoneBeforeStart /\ StartedIsKept
  /\ JoinsTheThread /\ CountIsReads /\ BootHasRecorder /\ ~crashed

(* A thread only ever reads more, so a step that ends below the limit      *)
(* began below it.                                                         *)
LEMMA BelowMaxBefore ==
  ASSUME TypeInv, Next \/ UNCHANGED vars, BelowMax'
  PROVE  BelowMax
<1>1. reads \in [Sessions -> Nat]
  BY DEF TypeInv, TypeOK
<1>2. reads' = reads \/ \E s \in Sessions : reads' = [reads EXCEPT ![s] = @ + 1]
  <2>1. ASSUME NEW s \in Sessions, WorkerRuns(s)
        PROVE  reads' = reads \/ reads' = [reads EXCEPT ![s] = @ + 1]
    BY <2>1 DEF WorkerRuns, bootTest, restart, restartNull, bootVerify, bootProbe, warmUpCheck,
                warmUpRead, loopTest, readFull, readFails, countRead, countUp, save, collect,
                readVars, checkTime, recorderStop, clearIsStarted, unInitializeRecord,
                onRecorderStop
  <2>2. ASSUME startCall \/ stopCall \/ UiRuns \/ deliver \/ Setters \/ UNCHANGED vars
        PROVE  reads' = reads
    BY <2>2 DEF UiRuns, startCall, stopCall, raiseIsRecord, doRecordReady, initializeRecord,
                startFile, resetCount, resetData, spawnThread, startFails, clearIsRecord, checkThread,
                derefThread, joined, forgetThread, deliver, Setters, setRecordFilePath,
                setRecordConfig, setWavFormat, vars, readVars
  <2> QED
    BY <2>1, <2>2 DEF Next
<1>3. \A s \in Sessions : reads'[s] \in Nat /\ reads[s] <= reads'[s]
  BY <1>1, <1>2
<1> QED
  BY <1>1, <1>3 DEF BelowMax, TIMER_INTERVAL

(* Before the first start() no thread runs.                                *)
LEMMA RecordingInit == Init => RecordingParts
BY DEF Init, RecordingParts, ThreadIsKnown, NumbersAreFresh, NoneBeforeStart, StartedIsKept,
       JoinsTheThread, CountIsReads, BootHasRecorder, Live, StartPcs

(* The setters and the looper touch none of the fields the invariant       *)
(* speaks of.                                                              *)
LEMMA RecordingFrame ==
  ASSUME RecordingParts, Setters \/ deliver \/ UNCHANGED vars
  PROVE  RecordingParts'
<1>1. UNCHANGED <<uiPc, joining, workerPc, isStarted, count, mThread, recorder, sessions, reads,
                  seen, crashed>>
  BY DEF Setters, setRecordFilePath, setRecordConfig, setWavFormat, deliver, vars, uiVars,
         idealVars, dataVars, recVars, readVars
<1> QED
  BY <1>1 DEF RecordingParts, ThreadIsKnown, NumbersAreFresh, NoneBeforeStart, StartedIsKept,
              JoinsTheThread, CountIsReads, BootHasRecorder, Live

(* start() and stop() preserve the invariant: stop() has joined the thread *)
(* before start() can find isStarted cleared.                              *)
LEMMA RecordingUi ==
  ASSUME TypeInv, RecordingParts, startCall \/ stopCall \/ UiRuns
  PROVE  RecordingParts'
<1> USE DEF RecordingParts, ThreadIsKnown, NumbersAreFresh, NoneBeforeStart, StartedIsKept,
            JoinsTheThread, CountIsReads, BootHasRecorder, Live, StartPcs, uiVars, idealVars,
            dataVars, recVars, readVars, UiGoes
<1>0. /\ workerPc \in [Sessions -> WorkerPcs]
      /\ reads \in [Sessions -> Nat]
      /\ sessions \in 0..MaxSessions
      /\ mThread \in 0..MaxSessions
  BY DEF TypeInv, TypeOK
<1>1. CASE startCall
  BY <1>1 DEF startCall
<1>2. CASE stopCall
  BY <1>2 DEF stopCall
<1>3. CASE raiseIsRecord
  BY <1>3 DEF raiseIsRecord
<1>4. CASE doRecordReady
  BY <1>4 DEF doRecordReady
<1>5. CASE initializeRecord
  BY <1>0, <1>5 DEF initializeRecord, Sessions
<1>6. CASE startFile
  BY <1>6 DEF startFile
<1>15. CASE resetCount
  BY <1>0, <1>15 DEF resetCount
<1>7. CASE resetData
  BY <1>7 DEF resetData
<1>8. CASE spawnThread
  BY <1>0, <1>8 DEF spawnThread, Sessions
<1>9. CASE startFails
  BY <1>9 DEF startFails
<1>10. CASE clearIsRecord
  BY <1>10 DEF clearIsRecord
<1>11. CASE checkThread
  BY <1>0, <1>11 DEF checkThread, Sessions
<1>12. CASE derefThread
  BY <1>12 DEF derefThread
<1>13. CASE joined
  BY <1>13 DEF joined
<1>14. CASE forgetThread
  BY <1>14 DEF forgetThread
<1> QED
  BY <1>1, <1>2, <1>3, <1>4, <1>5, <1>6, <1>7, <1>8, <1>9, <1>10, <1>11, <1>12, <1>13, <1>14,
     <1>15 DEF UiRuns

(* A thread below the limit never calls Recorder.stop(), so the field      *)
(* mThread names it until it is joined.                                    *)
LEMMA RecordingWorker ==
  ASSUME TypeInv, BelowMax, RecordingParts, NEW s \in Sessions, WorkerRuns(s)
  PROVE  RecordingParts'
<1> USE DEF RecordingParts, ThreadIsKnown, NumbersAreFresh, NoneBeforeStart, StartedIsKept,
            JoinsTheThread, CountIsReads, BootHasRecorder, Live, StartPcs, uiVars, idealVars,
            dataVars, recVars, readVars, WorkerGoes
<1>0. /\ workerPc \in [Sessions -> WorkerPcs]
      /\ reads \in [Sessions -> Nat]
      /\ seen \in [Sessions -> Nat]
      /\ count \in Nat
      /\ sessions \in 0..MaxSessions
  BY DEF TypeInv, TypeOK
<1>1. CASE bootTest(s) \/ bootVerify(s)
  BY <1>0, <1>1 DEF bootTest, bootVerify
<1>13. CASE restart(s)
  BY <1>0, <1>13 DEF restart
<1>14. CASE restartNull(s)
  BY <1>14 DEF restartNull
<1>15. CASE bootProbe(s)
  BY <1>0, <1>15 DEF bootProbe
<1>2. CASE warmUpCheck(s, "warm1", "read1") \/ warmUpCheck(s, "warm2", "read2")
  BY <1>0, <1>2 DEF warmUpCheck
<1>3. CASE warmUpRead(s, "read1", "warm2") \/ warmUpRead(s, "read2", "loop")
  BY <1>0, <1>3 DEF warmUpRead
<1>4. CASE loopTest(s)
  BY <1>0, <1>4 DEF loopTest
<1>5. CASE readFull(s)
  BY <1>0, <1>5 DEF readFull
<1>6. CASE readFails(s)
  BY <1>0, <1>6 DEF readFails
<1>16. CASE countRead(s)
  BY <1>0, <1>16 DEF countRead
<1>17. CASE countUp(s)
  BY <1>0, <1>17 DEF countUp
<1>7. CASE save(s)
  BY <1>0, <1>7 DEF save
<1>18. CASE collect(s)
  BY <1>0, <1>18 DEF collect
<1>8. CASE checkTime(s)
  <2>1. count = reads[s]
    BY <1>8 DEF checkTime
  <2>2. ~(recordedTime >= MaxRecordTime)
    BY <1>0, <2>1 DEF recordedTime, BelowMax, TIMER_INTERVAL
  <2> QED
    BY <1>0, <1>8, <2>2 DEF checkTime
<1>9. CASE recorderStop(s)
  BY <1>0, <1>9 DEF recorderStop
<1>10. CASE clearIsStarted(s)
  BY <1>0, <1>10 DEF clearIsStarted
<1>11. CASE unInitializeRecord(s)
  BY <1>0, <1>11 DEF unInitializeRecord
<1>12. CASE onRecorderStop(s)
  BY <1>0, <1>12 DEF onRecorderStop
<1> QED
  BY <1>1, <1>2, <1>3, <1>4, <1>5, <1>6, <1>7, <1>8, <1>9, <1>10, <1>11, <1>12,
     <1>13, <1>14, <1>15, <1>16, <1>17, <1>18 DEF WorkerRuns

(* RecordingInv is inductive relative to TypeInv.                          *)
LEMMA RecordingStep == TypeInv /\ RecordingInv /\ [Next]_vars => RecordingInv'
<1> SUFFICES ASSUME TypeInv, RecordingInv, [Next]_vars, BelowMax'
             PROVE  RecordingParts'
  BY DEF RecordingInv, RecordingParts
<1>1. BelowMax /\ RecordingParts
  BY BelowMaxBefore DEF RecordingInv, RecordingParts
<1> QED
  BY <1>1, RecordingFrame, RecordingUi, RecordingWorker DEF Next

(* For any number of recordings and any client: below maxRecordTime the    *)
(* recording threads never overlap, start() never runs beside one, and     *)
(* neither the main thread nor a recording thread meets a null field.      *)
THEOREM RecordingsDoNotOverlap == Spec => []OneRecordingAtATime
<1>1. RecordingInv /\ TypeInv => OneRecordingAtATime
  BY DEF RecordingInv, OneRecordingAtATime, NoOverlap, ThreadIsKnown, NoneBeforeStart
<1>2. Init => RecordingInv
  BY RecordingInit DEF RecordingInv, RecordingParts
<1> QED
  BY <1>1, <1>2, TypeInit, TypeStep, RecordingStep, PTL DEF Spec
--------------------------------------------------------------------------------
(* The microphone is free when every thread has ended, whatever overlaps.  *)

(* Only the AudioRecord in the field is held; there is one only while      *)
(* start() is at work or a thread has yet to release it.                   *)
MicHeld ==
  /\ \A s \in Sessions : mic[s] \in {"ready", "recording"} => recorder = s
  /\ recorder # 0 => \/ uiPc \in {"open", "reset", "clearData", "spawn"}
                     \/ \E s \in Sessions : Live(s) /\ workerPc[s] # "finish"
  /\ uiPc \in {"open", "reset", "clearData", "spawn"} => sessions \in Sessions

LEMMA MicInit == Init => MicHeld
BY DEF Init, MicHeld

(* Releasing what the field holds leaves no AudioRecord held.              *)
LEMMA ReleasedFrees ==
  ASSUME TypeOK, MicHeld, NEW s \in Sessions
  PROVE  Released(mic)[s] \notin {"ready", "recording"}
BY DEF TypeOK, MicHeld, Released, Sessions

LEMMA MicFrame ==
  ASSUME MicHeld, Setters \/ deliver \/ UNCHANGED vars
  PROVE  MicHeld'
<1>1. UNCHANGED <<uiPc, workerPc, recorder, mic, sessions>>
  BY DEF Setters, setRecordFilePath, setRecordConfig, setWavFormat, deliver, vars, uiVars, recVars
<1> QED
  BY <1>1 DEF MicHeld, Live

(* start() releases what it finds before it takes an AudioRecord of its    *)
(* own, and hands that to the thread it spawns.                            *)
LEMMA MicUi ==
  ASSUME TypeInv, MicHeld, startCall \/ stopCall \/ UiRuns
  PROVE  MicHeld'
<1> USE DEF MicHeld, Live, UiGoes, uiVars, recVars
<1>0. /\ workerPc \in [Sessions -> WorkerPcs]
      /\ mic \in [Sessions -> MicStates]
      /\ sessions \in 0..MaxSessions
      /\ TypeOK
  BY DEF TypeInv, TypeOK
<1>1. CASE startCall \/ stopCall
  BY <1>1 DEF startCall, stopCall
<1>2. CASE initializeRecord
  <2>1. Released(mic) \in [Sessions -> MicStates]
    BY <1>0, ReleasedTyped
  <2>2. \A s \in Sessions : Released(mic)[s] \notin {"ready", "recording"}
    BY <1>0, ReleasedFrees
  <2>3. CASE UNCHANGED <<recorder, mic, sessions>> /\ uiPc' = "lower"
    BY <1>2, <2>3 DEF initializeRecord
  <2>4. CASE recorder' = 0 /\ mic' = Released(mic) /\ uiPc' = "lower"
    BY <2>2, <2>4
  <2>5. CASE /\ sessions' = sessions + 1 /\ recorder' = sessions'
             /\ mic' = [Released(mic) EXCEPT ![sessions'] = "ready"]
             /\ uiPc = "init" /\ uiPc' = "open"
    <3>1. sessions' \in Sessions
      BY <1>0, <2>5 DEF TypeInv, NumbersLeft, Sessions
    <3> QED
      BY <2>1, <2>2, <2>5, <3>1
  <2> QED
    BY <1>2, <2>3, <2>4, <2>5 DEF initializeRecord
<1>3. CASE spawnThread
  <2>1. /\ sessions \in Sessions
        /\ workerPc' = [workerPc EXCEPT ![sessions] = "boot"]
        /\ UNCHANGED <<mic, recorder, sessions>> /\ uiPc' = "idle"
    BY <1>3 DEF spawnThread
  <2>2. Live(sessions)' /\ workerPc'[sessions] # "finish"
    BY <1>0, <2>1
  <2> QED
    BY <2>1, <2>2
<1>4. CASE raiseIsRecord \/ doRecordReady \/ startFile \/ resetCount \/ resetData
  BY <1>4 DEF raiseIsRecord, doRecordReady, startFile, resetCount, resetData
<1>5. CASE startFails \/ clearIsRecord \/ checkThread \/ derefThread \/ joined \/ forgetThread
  BY <1>5 DEF startFails, clearIsRecord, checkThread, derefThread, joined, forgetThread
<1> QED
  BY <1>1, <1>2, <1>3, <1>4, <1>5 DEF UiRuns

(* A thread may take or give up the AudioRecord in the field, never        *)
(* another, and only a thread that has released it comes to its end.       *)
LEMMA MicWorker ==
  ASSUME TypeInv, MicHeld, NEW s \in Sessions, WorkerRuns(s)
  PROVE  MicHeld'
<1> USE DEF MicHeld, WorkerGoes, uiVars, recVars
<1>0. /\ workerPc \in [Sessions -> WorkerPcs]
      /\ mic \in [Sessions -> MicStates]
      /\ recorder \in 0..MaxSessions
      /\ recorder # 0 => recorder \in Sessions
  BY DEF TypeInv, TypeOK, Sessions
<1>1. ASSUME UNCHANGED <<uiPc, sessions>>,
             recorder' = recorder, \A m \in Sessions : mic'[m] = mic[m] \/ m = recorder,
             \/ workerPc[s] = "finish"
             \/ workerPc'[s] \notin {"none", "done", "finish"},
             \A t \in Sessions \ {s} : workerPc'[t] = workerPc[t]
      PROVE  MicHeld'
  BY <1>1 DEF Live
<1>2. ASSUME UNCHANGED <<uiPc, sessions>>,
             recorder' = 0, \A m \in Sessions : mic'[m] \notin {"ready", "recording"}
      PROVE  MicHeld'
  BY <1>2
<1>3. CASE bootTest(s) \/ bootVerify(s)
  BY <1>0, <1>1, <1>3 DEF bootTest, bootVerify
<1>4. CASE restart(s)
  BY <1>0, <1>1, <1>2, <1>4 DEF restart
<1>5. CASE restartNull(s)
  BY <1>0, <1>1, <1>5 DEF restartNull
<1>6. CASE bootProbe(s)
  BY <1>0, <1>1, <1>2, <1>6 DEF bootProbe
<1>7. CASE warmUpCheck(s, "warm1", "read1") \/ warmUpCheck(s, "warm2", "read2")
  BY <1>0, <1>1, <1>7 DEF warmUpCheck
<1>8. CASE warmUpRead(s, "read1", "warm2") \/ warmUpRead(s, "read2", "loop")
  BY <1>0, <1>1, <1>8 DEF warmUpRead
<1>9. CASE loopTest(s) \/ readFull(s) \/ readFails(s)
  BY <1>0, <1>1, <1>9 DEF loopTest, readFull, readFails
<1>10. CASE countRead(s) \/ countUp(s) \/ save(s) \/ collect(s) \/ checkTime(s)
  BY <1>0, <1>1, <1>10 DEF countRead, countUp, save, collect, checkTime
<1>11. CASE recorderStop(s) \/ clearIsStarted(s)
  BY <1>0, <1>1, <1>11 DEF recorderStop, clearIsStarted
<1>12. CASE unInitializeRecord(s)
  BY <1>2, <1>12, ReleasedFrees DEF unInitializeRecord, TypeInv
<1>13. CASE onRecorderStop(s)
  BY <1>0, <1>1, <1>13 DEF onRecorderStop
<1> QED
  BY <1>3, <1>4, <1>5, <1>6, <1>7, <1>8, <1>9, <1>10, <1>11, <1>12, <1>13 DEF WorkerRuns

(* What a thread is about to look at records, so none is dropped, unless   *)
(* starting it may fail or another recording may have replaced it.         *)
NoneDropped ==
  /\ \A s \in Sessions : mic[s] # "dropped"
  /\ \A s \in Sessions :
       workerPc[s] \in {"verify", "probe"} /\ recorder # 0 => mic[recorder] = "recording"

DropInv == ~MayDrop => NoneDropped

LEMMA DropInit == Init => DropInv
BY DEF Init, DropInv, NoneDropped

LEMMA DropFrame ==
  ASSUME NoneDropped, Setters \/ deliver \/ UNCHANGED vars
  PROVE  NoneDropped'
<1>1. UNCHANGED <<workerPc, recorder, mic>>
  BY DEF Setters, setRecordFilePath, setRecordConfig, setWavFormat, deliver, vars, recVars
<1> QED
  BY <1>1 DEF NoneDropped

(* Releasing what the field holds drops nothing.                           *)
LEMMA ReleasedIsNotDropped ==
  ASSUME TypeOK, NoneDropped, NEW s \in Sessions
  PROVE  Released(mic)[s] # "dropped"
BY DEF TypeOK, NoneDropped, Released, Sessions

(* start() takes another AudioRecord only when no thread lives.            *)
LEMMA DropUi ==
  ASSUME TypeInv, RecordingParts, NoneDropped, startCall \/ stopCall \/ UiRuns
  PROVE  NoneDropped'
<1> USE DEF NoneDropped, UiGoes, uiVars, recVars
<1>0. /\ workerPc \in [Sessions -> WorkerPcs]
      /\ mic \in [Sessions -> MicStates]
      /\ sessions \in 0..MaxSessions
      /\ TypeOK
  BY DEF TypeInv, TypeOK
<1>1. CASE startCall \/ stopCall
  BY <1>1 DEF startCall, stopCall
<1>2. CASE initializeRecord
  <2>1. Released(mic) \in [Sessions -> MicStates]
    BY <1>0, ReleasedTyped
  <2>2. \A s \in Sessions : Released(mic)[s] # "dropped"
    BY <1>0, ReleasedIsNotDropped
  <2>3. \A s \in Sessions : workerPc'[s] \notin {"verify", "probe"}
    BY <1>2 DEF initializeRecord, RecordingParts, NoneBeforeStart, StartPcs, Live
  <2>4. mic' \in {mic, Released(mic), [Released(mic) EXCEPT ![sessions'] = "ready"]}
    BY <1>2 DEF initializeRecord
  <2> QED
    BY <2>1, <2>2, <2>3, <2>4
<1>3. CASE spawnThread
  BY <1>0, <1>3 DEF spawnThread
<1>4. CASE raiseIsRecord \/ doRecordReady \/ startFile \/ resetCount \/ resetData
  BY <1>4 DEF raiseIsRecord, doRecordReady, startFile, resetCount, resetData
<1>5. CASE startFails \/ clearIsRecord \/ checkThread \/ derefThread \/ joined \/ forgetThread
  BY <1>5 DEF startFails, clearIsRecord, checkThread, derefThread, joined, forgetThread
<1> QED
  BY <1>1, <1>2, <1>3, <1>4, <1>5 DEF UiRuns

(* A thread records before it looks, and finds its AudioRecord recording.  *)
LEMMA DropWorker ==
  ASSUME TypeInv, "boot" \notin Faults, NoneDropped, NEW s \in Sessions, WorkerRuns(s)
  PROVE  NoneDropped'
<1> USE DEF NoneDropped, WorkerGoes, uiVars, recVars
<1>0. /\ workerPc \in [Sessions -> WorkerPcs]
      /\ mic \in [Sessions -> MicStates]
      /\ recorder \in 0..MaxSessions
      /\ recorder # 0 => recorder \in Sessions
      /\ TypeOK
  BY DEF TypeInv, TypeOK, Sessions
<1>1. CASE bootTest(s) \/ bootVerify(s)
  BY <1>0, <1>1 DEF bootTest, bootVerify
<1>2. CASE restart(s) \/ restartNull(s)
  BY <1>0, <1>2 DEF restart, restartNull
<1>3. CASE bootProbe(s)
  BY <1>0, <1>3 DEF bootProbe
<1>4. CASE warmUpCheck(s, "warm1", "read1") \/ warmUpCheck(s, "warm2", "read2")
  BY <1>0, <1>4 DEF warmUpCheck
<1>5. CASE warmUpRead(s, "read1", "warm2") \/ warmUpRead(s, "read2", "loop")
  BY <1>0, <1>5 DEF warmUpRead
<1>6. CASE loopTest(s) \/ readFull(s) \/ readFails(s)
  BY <1>0, <1>6 DEF loopTest, readFull, readFails
<1>7. CASE countRead(s) \/ countUp(s) \/ save(s) \/ collect(s) \/ checkTime(s)
  BY <1>0, <1>7 DEF countRead, countUp, save, collect, checkTime
<1>8. CASE recorderStop(s) \/ clearIsStarted(s) \/ onRecorderStop(s)
  BY <1>0, <1>8 DEF recorderStop, clearIsStarted, onRecorderStop
<1>9. CASE unInitializeRecord(s)
  BY <1>0, <1>9, ReleasedIsNotDropped DEF unInitializeRecord
<1> QED
  BY <1>1, <1>2, <1>3, <1>4, <1>5, <1>6, <1>7, <1>8, <1>9 DEF WorkerRuns

(* What drops an AudioRecord: DropInv is inductive with RecordingInv.      *)
LEMMA DropStep == TypeInv /\ RecordingInv /\ DropInv /\ [Next]_vars => DropInv'
<1> SUFFICES ASSUME TypeInv, RecordingInv, DropInv, [Next]_vars, ~MayDrop'
             PROVE  NoneDropped'
  BY DEF DropInv
<1>1. BelowMax /\ "boot" \notin Faults
  BY BelowMaxBefore DEF MayDrop
<1>2. RecordingParts /\ NoneDropped
  BY <1>1 DEF RecordingInv, RecordingParts, DropInv, MayDrop
<1> QED
  BY <1>1, <1>2, DropFrame, DropUi, DropWorker DEF Next

(* For any client and any fault, recordings that overlap included: when    *)
(* the main thread is idle and every recording thread has ended, the field *)
(* is null and every AudioRecord is released, but for those dropped where  *)
(* starting one may fail or a recording has reached maxRecordTime.         *)
THEOREM MicrophoneIsReleased == Spec => []MicReleased
<1>1. TypeInv /\ MicHeld /\ DropInv => MicReleased
  BY DEF TypeInv, TypeOK, MicStates, MicHeld, DropInv, NoneDropped, MicReleased, Sessions
<1>2. TypeInv /\ MicHeld /\ [Next]_vars => MicHeld'
  BY MicFrame, MicUi, MicWorker DEF Next
<1>3. Init => RecordingInv
  BY RecordingInit DEF RecordingInv, RecordingParts
<1> QED
  BY <1>1, <1>2, <1>3, MicInit, DropInit, DropStep, RecordingStep, TypeInit, TypeStep, PTL
     DEF Spec
--------------------------------------------------------------------------------
(* What the listener has heard, or will hear from the looper's queue, is   *)
(* that a recording is under way.                                          *)

NoStopAfter(i) == \A j \in (i + 1)..Len(queue) : queue[j] # "stop"

Announced ==
  \/ heard.phase # "silent" /\ NoStopAfter(0)
  \/ \E i \in 1..Len(queue) : queue[i] = "start" /\ NoStopAfter(i)

LEMMA AnnouncedIsNotQuiet == Announced => ~Quiet
BY DEF Announced, Quiet

(* Messages that do not end a recording leave it announced.                *)
LEMMA AnnouncedPost ==
  ASSUME TypeOK, Announced, NEW msgs \in Seq(Kinds), Post(msgs),
         \A i \in 1..Len(msgs) : msgs[i] # "stop"
  PROVE  Announced'
<1>1. /\ queue \in Seq(Kinds)
      /\ queue' = queue \o msgs /\ heard' = heard
  BY DEF TypeOK, Post
<1>2. Len(queue') = Len(queue) + Len(msgs)
  BY <1>1
<1>3. \A i \in 1..Len(queue) : queue'[i] = queue[i]
  BY <1>1
<1>4. \A i \in (Len(queue) + 1)..Len(queue') : queue'[i] # "stop"
  <2>1. ASSUME NEW i \in (Len(queue) + 1)..Len(queue')
        PROVE  queue'[i] = msgs[i - Len(queue)] /\ i - Len(queue) \in 1..Len(msgs)
    BY <1>1, <1>2, <2>1
  <2> QED
    BY <2>1
<1>5. \A i \in 0..Len(queue) : NoStopAfter(i) => NoStopAfter(i)'
  BY <1>1, <1>2, <1>3, <1>4 DEF NoStopAfter
<1>6. 0 \in 0..Len(queue) /\ \A i \in 1..Len(queue) : i \in 0..Len(queue) /\ i \in 1..Len(queue')
  BY <1>1, <1>2
<1> QED
  BY <1>1, <1>3, <1>5, <1>6 DEF Announced

(* onRecorderStart announces the recording.                                *)
LEMMA StartAnnounces ==
  ASSUME TypeOK, Post(<<"start">>)
  PROVE  Announced'
<1>1. queue \in Seq(Kinds) /\ queue' = Append(queue, "start")
  BY DEF TypeOK, Post, Kinds
<1>2. PICK n \in Nat : n = Len(queue) + 1
  BY <1>1
<1>3. n \in 1..Len(queue') /\ Len(queue') = n /\ queue'[n] = "start"
  BY <1>1, <1>2
<1>4. NoStopAfter(n)'
  BY <1>3 DEF NoStopAfter
<1> QED
  BY <1>3, <1>4 DEF Announced

(* The looper tells the listener of the start before it forgets it.        *)
LEMMA AnnouncedDeliver ==
  ASSUME TypeOK, Announced, deliver
  PROVE  Announced'
<1>1. /\ queue \in Seq(Kinds) /\ queue # <<>>
      /\ queue' = Tail(queue) /\ heard' = Told(Head(queue))
      /\ heard \in [phase: {"silent", "recording", "failed", "saved"}, chunks: Nat, total: Nat]
  BY DEF TypeOK, deliver
<1>2. /\ Len(queue) \in Nat \ {0} /\ Len(queue') = Len(queue) - 1
      /\ \A i \in 1..Len(queue') : queue'[i] = queue[i + 1]
      /\ Head(queue) = queue[1]
  BY <1>1
<1>3. \A i \in 1..Len(queue) : NoStopAfter(i) => NoStopAfter(i - 1)'
  BY <1>1, <1>2 DEF NoStopAfter
<1>4. CASE heard.phase # "silent" /\ NoStopAfter(0)
  <2>1. Head(queue) # "stop" /\ NoStopAfter(1)
    BY <1>2, <1>4 DEF NoStopAfter
  <2>2. heard'.phase # "silent"
    BY <1>1, <1>4, <2>1 DEF Told
  <2>3. NoStopAfter(0)'
    BY <1>2, <1>3, <2>1
  <2> QED
    BY <2>2, <2>3 DEF Announced
<1>5. ASSUME NEW i \in 1..Len(queue), queue[i] = "start", NoStopAfter(i)
      PROVE  Announced'
  <2>1. CASE i = 1
    <3>1. heard'.phase = "recording"
      BY <1>1, <1>2, <1>5, <2>1 DEF Told
    <3>2. NoStopAfter(0)'
      BY <1>3, <1>5, <2>1
    <3> QED
      BY <3>1, <3>2 DEF Announced
  <2>2. CASE i # 1
    <3>1. i - 1 \in 1..Len(queue') /\ queue'[i - 1] = "start" /\ NoStopAfter(i - 1)'
      BY <1>2, <1>3, <1>5, <2>2
    <3> QED
      BY <3>1 DEF Announced
  <2> QED
    BY <2>1, <2>2
<1> QED
  BY <1>4, <1>5 DEF Announced

LEMMA AnnouncedStays ==
  ASSUME Announced, UNCHANGED <<queue, heard>>
  PROVE  Announced'
BY DEF Announced, NoStopAfter

(* Nothing a thread or start() reports says that a recording is over, but  *)
(* onRecorderStop.                                                         *)
LEMMA ReportsKeepAnnounced ==
  ASSUME TypeOK, Announced,
         \/ \E v \in Verdicts \union {<<"error">>, <<"error", "error">>, <<"data">>, <<"volume">>} :
              Post(v)
         \/ UNCHANGED <<queue, heard>>
  PROVE  Announced'
<1>1. ASSUME NEW v \in Verdicts \union {<<"error">>, <<"error", "error">>, <<"data">>, <<"volume">>}
      PROVE  v \in Seq(Kinds) /\ \A i \in 1..Len(v) : v[i] # "stop"
  <2>1. CASE v = <<>>
    BY <2>1
  <2>2. ASSUME NEW kind \in Kinds \ {"stop"}, v = <<kind>>
        PROVE  v \in Seq(Kinds) /\ \A i \in 1..Len(v) : v[i] # "stop"
    BY <2>2
  <2>3. CASE v = <<"error", "error">>
    BY <2>3 DEF Kinds
  <2>4. \/ v = <<>> \/ v = <<"error", "error">>
        \/ \E kind \in {"error", "data", "volume", "saved", "saveFailed"} : v = <<kind>>
    BY <1>1 DEF Verdicts
  <2>5. {"error", "data", "volume", "saved", "saveFailed"} \subseteq Kinds \ {"stop"}
    BY DEF Kinds
  <2> QED
    BY <2>1, <2>2, <2>3, <2>4, <2>5
<1>2. ASSUME NEW v \in Verdicts \union {<<"error">>, <<"error", "error">>, <<"data">>, <<"volume">>},
             Post(v)
      PROVE  Announced'
  BY <1>1, <1>2, AnnouncedPost
<1>3. CASE UNCHANGED <<queue, heard>>
  BY <1>3, AnnouncedStays
<1> QED
  BY <1>2, <1>3

(* A thread's step that is not its last keeps its recording announced.     *)
LEMMA WorkerKeepsAnnounced ==
  ASSUME TypeOK, Announced, NEW s \in Sessions, WorkerRuns(s), workerPc[s] # "finish"
  PROVE  Announced'
<1> USE DEF WorkerGoes, looperVars, onRecordedFail
<1>1. CASE bootTest(s) \/ bootVerify(s) \/ loopTest(s) \/ readFull(s) \/ countRead(s) \/ countUp(s)
  BY <1>1, AnnouncedStays DEF bootTest, bootVerify, loopTest, readFull, countRead, countUp
<1>2. CASE \/ warmUpCheck(s, "warm1", "read1") \/ warmUpCheck(s, "warm2", "read2")
           \/ warmUpRead(s, "read1", "warm2") \/ warmUpRead(s, "read2", "loop")
           \/ recorderStop(s) \/ clearIsStarted(s) \/ unInitializeRecord(s)
  BY <1>2, AnnouncedStays DEF warmUpCheck, warmUpRead, recorderStop, clearIsStarted,
                              unInitializeRecord
<1>3. CASE restart(s) \/ restartNull(s) \/ bootProbe(s) \/ readFails(s)
  BY <1>3, ReportsKeepAnnounced DEF restart, restartNull, bootProbe, readFails
<1>4. CASE save(s) \/ collect(s)
  BY <1>4, ReportsKeepAnnounced DEF save, collect
<1>5. CASE checkTime(s)
  <2>1. (IF volumeDue THEN <<"volume">> ELSE <<>>) \in Verdicts \union {<<"volume">>}
    BY DEF Verdicts
  <2> QED
    BY <1>5, <2>1, ReportsKeepAnnounced DEF checkTime
<1>6. ~onRecorderStop(s)
  BY DEF onRecorderStop
<1> QED
  BY <1>1, <1>2, <1>3, <1>4, <1>5, <1>6 DEF WorkerRuns

--------------------------------------------------------------------------------
(* A client that waits for onStopRecording.                                *)

(* Whatever runs is announced, so a client that has heard of the end finds *)
(* no thread.                                                              *)
OneAnnounced ==
  /\ NoOverlap
  /\ uiPc = "spawn" \/ (\E s \in Sessions : Live(s)) => Announced

LEMMA PatientInit == Init => OneAnnounced
BY DEF Init, OneAnnounced, NoOverlap, Live, StartPcs

LEMMA PatientUi ==
  ASSUME TypeInv, OneAnnounced, "restarts" \notin Client, startCall \/ stopCall \/ UiRuns
  PROVE  OneAnnounced'
<1> USE DEF OneAnnounced, NoOverlap, Live, UiGoes, uiVars, looperVars, StartPcs
<1>0. /\ workerPc \in [Sessions -> WorkerPcs]
      /\ TypeOK
  BY DEF TypeInv, TypeOK
<1>1. CASE startCall
  BY <1>1, AnnouncedIsNotQuiet, AnnouncedStays DEF startCall
<1>2. CASE stopCall \/ clearIsRecord \/ checkThread \/ derefThread \/ joined \/ forgetThread
  BY <1>2, AnnouncedStays DEF stopCall, clearIsRecord, checkThread, derefThread, joined,
                              forgetThread
<1>3. CASE raiseIsRecord \/ doRecordReady \/ initializeRecord \/ startFile \/ resetCount
  BY <1>3 DEF raiseIsRecord, doRecordReady, initializeRecord, startFile, resetCount
<1>4. CASE resetData
  BY <1>0, <1>4, StartAnnounces DEF resetData
<1>5. CASE spawnThread
  <2>1. Announced'
    BY <1>5, AnnouncedStays DEF spawnThread
  <2> QED
    BY <1>0, <1>5, <2>1 DEF spawnThread
<1>6. CASE startFails
  BY <1>6 DEF startFails
<1> QED
  BY <1>1, <1>2, <1>3, <1>4, <1>5, <1>6 DEF UiRuns

(* A thread that runs moves its own counter only, and ends after "finish". *)
LEMMA WorkerMoves ==
  ASSUME TypeOK, NEW s \in Sessions, WorkerRuns(s)
  PROVE  /\ Live(s) /\ UNCHANGED uiPc
         /\ \A t \in Sessions \ {s} : workerPc'[t] = workerPc[t]
         /\ workerPc[s] = "finish" => workerPc'[s] = "done"
<1>0. workerPc \in [Sessions -> WorkerPcs]
  BY DEF TypeOK
<1> USE <1>0 DEF WorkerGoes, uiVars, Live
<1>1. CASE \/ bootTest(s) \/ bootVerify(s) \/ loopTest(s) \/ readFull(s) \/ countRead(s)
           \/ countUp(s) \/ recorderStop(s) \/ clearIsStarted(s) \/ unInitializeRecord(s)
  BY <1>1 DEF bootTest, bootVerify, loopTest, readFull, countRead, countUp, recorderStop,
              clearIsStarted, unInitializeRecord
<1>2. CASE \/ warmUpCheck(s, "warm1", "read1") \/ warmUpCheck(s, "warm2", "read2")
           \/ warmUpRead(s, "read1", "warm2") \/ warmUpRead(s, "read2", "loop")
  BY <1>2 DEF warmUpCheck, warmUpRead
<1>3. CASE restart(s) \/ restartNull(s) \/ bootProbe(s) \/ readFails(s)
  BY <1>3 DEF restart, restartNull, bootProbe, readFails
<1>4. CASE save(s) \/ collect(s) \/ checkTime(s) \/ onRecorderStop(s)
  BY <1>4 DEF save, collect, checkTime, onRecorderStop
<1> QED
  BY <1>1, <1>2, <1>3, <1>4 DEF WorkerRuns

LEMMA PatientWorker ==
  ASSUME TypeInv, OneAnnounced, NEW s \in Sessions, WorkerRuns(s)
  PROVE  OneAnnounced'
<1>0. workerPc \in [Sessions -> WorkerPcs] /\ TypeOK
  BY DEF TypeInv, TypeOK
<1>1. /\ Live(s) /\ UNCHANGED uiPc
      /\ \A t \in Sessions \ {s} : workerPc'[t] = workerPc[t]
      /\ workerPc[s] = "finish" => workerPc'[s] = "done"
  BY <1>0, WorkerMoves
<1>2. NoOverlap'
  BY <1>1 DEF OneAnnounced, NoOverlap, Live
<1>3. CASE workerPc[s] = "finish"
  BY <1>1, <1>2, <1>3 DEF OneAnnounced, NoOverlap, Live, StartPcs
<1>4. CASE workerPc[s] # "finish"
  BY <1>0, <1>1, <1>2, <1>4, WorkerKeepsAnnounced DEF OneAnnounced
<1> QED
  BY <1>3, <1>4

LEMMA PatientStep ==
  ASSUME TypeInv, OneAnnounced, "restarts" \notin Client, [Next]_vars
  PROVE  OneAnnounced'
<1>1. CASE Setters \/ UNCHANGED vars
  BY <1>1, AnnouncedStays DEF Setters, setRecordFilePath, setRecordConfig, setWavFormat, vars,
     uiVars, looperVars, OneAnnounced, NoOverlap, Live
<1>2. CASE deliver
  BY <1>2, AnnouncedDeliver DEF deliver, uiVars, OneAnnounced, NoOverlap, Live, TypeInv
<1> QED
  BY <1>1, <1>2, PatientUi, PatientWorker DEF Next

(* For any limits and any fault, maxRecordTime included: a client that     *)
(* calls start() only after onStopRecording never has two recording        *)
(* threads, nor one beside start().                                        *)
THEOREM WaitingIsEnough == Spec => []PatientClientIsSafe
<1>1. CASE "restarts" \in Client
  <2>1. PatientClientIsSafe
    BY <1>1 DEF PatientClientIsSafe
  <2> QED
    BY <2>1, PTL
<1>2. CASE "restarts" \notin Client
  <2>1. OneAnnounced => PatientClientIsSafe
    BY DEF OneAnnounced, PatientClientIsSafe
  <2>2. TypeInv /\ OneAnnounced /\ [Next]_vars => OneAnnounced'
    BY <1>2, PatientStep
  <2> QED
    BY <2>1, <2>2, PatientInit, TypeInit, TypeStep, PTL DEF Spec
<1> QED
  BY <1>1, <1>2
--------------------------------------------------------------------------------
(* The recorded file, when the client leaves the setters alone while it    *)
(* records; it may start again at once.                                    *)

Steady == "reconfigures" \notin Client

(* Nothing fails that makes onRecordedFail give up an open file: what can  *)
(* is the permission or the AudioRecord, before the file is opened.        *)
NeverCancels == Faults \subseteq {"permission", "recorder"}

Preparing == uiPc \in {"open", "reset", "clearData", "spawn"}
Running == \E s \in Sessions : Live(s)

(* A thread has its AudioRecord until it releases it, so reads go well.    *)
RecordsWell ==
  NeverCancels =>
    /\ Preparing => recorder # 0
    /\ \A s \in Sessions : Live(s) /\ workerPc[s] # "finish" =>
         /\ recorder # 0
         /\ workerPc[s] \notin {"boot", "restart"} => mic[recorder] = "recording"

RunningIsAnnounced == uiPc = "spawn" \/ Running => Announced

(* A file is open only for the recording under way.                        *)
FileIsHeld ==
  /\ raf # 0 => /\ isFileInit
                /\ uiPc \in {"reset", "clearData", "spawn"} \/ Running
  /\ NeverCancels => Leaked = {}

(* What it holds, if no write fails: the buffers of this recording, behind *)
(* the header that isWav asks for.                                         *)
FileIsCurrent ==
  /\ uiPc = "spawn" => allData = <<>>
  /\ raf # 0 /\ ~IoFaults =>
       /\ handle[raf].header = IF isWav THEN "blank" ELSE "none"
       /\ uiPc \in {"reset", "clearData", "spawn"} => handle[raf].data = <<>>
       /\ \A s \in Sessions : Live(s) =>
            handle[raf].data = IF workerPc[s] = "collect" THEN Append(allData, s) ELSE allData

FileParts == RecordsWell /\ RunningIsAnnounced /\ FileIsHeld /\ FileIsCurrent
FileInv == BelowMax => FileParts

(* The action of SavedIsWhole.                                             *)
WholeWhenSaved ==
  BelowMax /\ Posted("saved") => /\ handle[raf].data = allData
                                 /\ handle'[raf].header \in {"none", "sized"}

(* A step that posts messages posts "saved" first only if it is their      *)
(* first.                                                                  *)
LEMMA PostedFirst ==
  ASSUME TypeOK, NEW msgs \in Seq(Kinds), Post(msgs), Posted("saved")
  PROVE  Len(msgs) > 0 /\ msgs[1] = "saved"
<1>1. queue \in Seq(Kinds) /\ queue' = queue \o msgs
  BY DEF TypeOK, Post
<1>2. Len(queue') = Len(queue) + Len(msgs) /\ Len(msgs) \in Nat /\ Len(queue) \in Nat
  BY <1>1
<1>3. Len(msgs) > 0
  BY <1>2 DEF Posted
<1>4. queue'[Len(queue) + 1] = msgs[1]
  BY <1>1, <1>2, <1>3
<1> QED
  BY <1>3, <1>4 DEF Posted

LEMMA NothingPosted ==
  ASSUME TypeOK, UNCHANGED queue \/ (queue # <<>> /\ queue' = Tail(queue))
  PROVE  ~Posted("saved")
<1>1. queue \in Seq(Kinds)
  BY DEF TypeOK
<1>2. Len(queue') <= Len(queue)
  BY <1>1
<1> QED
  BY <1>1, <1>2 DEF Posted

LEMMA PostNothing ==
  ASSUME TypeOK, UNCHANGED queue \/ Post(<<>>)
  PROVE  ~Posted("saved")
<1>1. CASE Post(<<>>)
  <2>1. queue \in Seq(Kinds) /\ queue' = queue \o <<>>
    BY <1>1 DEF TypeOK, Post
  <2>2. queue' = queue
    BY <2>1
  <2> QED
    BY <2>2, NothingPosted
<1> QED
  BY <1>1, NothingPosted

LEMMA NotPosted ==
  ASSUME TypeOK, \E msgs \in {<<"error">>, <<"error", "error">>, <<"saveFailed">>} : Post(msgs)
  PROVE  ~Posted("saved")
<1>1. PICK msgs \in {<<"error">>, <<"error", "error">>, <<"saveFailed">>} : Post(msgs)
  OBVIOUS
<1>2. <<"error">> \in Seq(Kinds) /\ <<"error", "error">> \in Seq(Kinds) /\ <<"saveFailed">> \in Seq(Kinds)
  BY DEF Kinds
<1>3. msgs[1] # "saved"
  OBVIOUS
<1> QED
  BY <1>1, <1>2, <1>3, PostedFirst

(* A recording that failed leaves its file as it is, or forgets it.        *)
LEMMA GivenUp ==
  ASSUME TypeOK, NEW errors \in {<<"error">>, <<"error", "error">>}, onRecordedFail(errors)
  PROVE  /\ UNCHANGED <<handle, isWav>> /\ (UNCHANGED raf \/ raf' = 0)
         /\ ~Posted("saved")
<1>1. Post(errors)
  BY DEF onRecordedFail
<1> QED
  BY <1>1, NotPosted DEF onRecordedFail, fileCancel, fileVars

LEMMA FileInvInit == Init => FileParts
BY DEF Init, FileInit, FileParts, RecordsWell, RunningIsAnnounced, FileIsHeld, FileIsCurrent,
       Preparing, Running, Live, Leaked

(* The setters run only when nothing does, and the file is closed then.    *)
LEMMA FileSetters ==
  ASSUME Steady, TypeInv, RecordingParts, FileParts, Setters
  PROVE  FileParts' /\ ~Posted("saved")
<1>1. Quiet
  BY DEF Setters, setRecordFilePath, setRecordConfig, setWavFormat, MayConfigure, Steady
<1>2. uiPc = "idle" /\ ~Running /\ raf = 0
  BY <1>1, AnnouncedIsNotQuiet DEF FileParts, RunningIsAnnounced, FileIsHeld, Quiet
<1>3. UNCHANGED <<uiPc, workerPc, recorder, mic, queue, allData, raf, handle>>
  BY DEF Setters, setRecordFilePath, setRecordConfig, setWavFormat, setSavePath,
         setRecorderConfig, setWav, uiVars, recVars, dataVars, looperVars
<1>4. ~Posted("saved")
  BY <1>3, NothingPosted DEF TypeInv
<1>5. ~Running'
  BY <1>2, <1>3 DEF Running, Live
<1>6. FileIsHeld' /\ FileIsCurrent'
  BY <1>2, <1>3 DEF FileParts, FileIsHeld, FileIsCurrent, Leaked
<1>7. RecordsWell' /\ RunningIsAnnounced'
  BY <1>2, <1>3, <1>5 DEF FileParts, RecordsWell, RunningIsAnnounced, Preparing, Running, Live
<1> QED
  BY <1>4, <1>6, <1>7 DEF FileParts

LEMMA FileDeliver ==
  ASSUME TypeInv, FileParts, deliver
  PROVE  FileParts' /\ ~Posted("saved")
<1>1. UNCHANGED <<uiPc, workerPc, recorder, mic, allData, raf, handle, isWav, isFileInit>>
  BY DEF deliver, uiVars, idealVars, dataVars, recVars, fileVars
<1>2. ~Posted("saved")
  BY NothingPosted DEF deliver, TypeInv
<1>3. RunningIsAnnounced'
  BY <1>1, AnnouncedDeliver DEF FileParts, RunningIsAnnounced, Running, Live, TypeInv, deliver
<1>4. FileIsHeld' /\ FileIsCurrent' /\ RecordsWell'
  BY <1>1 DEF FileParts, FileIsHeld, FileIsCurrent, RecordsWell, Leaked, Running, Preparing, Live
<1> QED
  BY <1>2, <1>3, <1>4 DEF FileParts

(* start() finds the file closed, opens it, and clears the data that the   *)
(* listener is given in the end.                                           *)
LEMMA FileUi ==
  ASSUME TypeInv, MicHeld, RecordingParts, FileParts, startCall \/ stopCall \/ UiRuns
  PROVE  FileParts' /\ ~Posted("saved")
<1> USE DEF UiGoes, uiVars, idealVars, dataVars, recVars, looperVars
<1>0. /\ TypeOK /\ FileTypeOK
      /\ workerPc \in [Sessions -> WorkerPcs] /\ sessions \in 0..MaxSessions
      /\ <<"start">> \in Seq(Kinds)
  BY DEF TypeInv, TypeOK, Kinds
<1>1. CASE \/ startCall \/ stopCall \/ raiseIsRecord \/ startFails \/ clearIsRecord
           \/ checkThread \/ derefThread \/ joined \/ forgetThread
           \/ resetCount \/ (doRecordReady /\ UNCHANGED <<looperVars, fileVars>>)
  <2>1. /\ UNCHANGED <<queue, heard, workerPc, recorder, mic, allData, raf, handle, isWav,
                       isFileInit>>
        /\ uiPc' # "spawn"
        /\ Preparing' => Preparing /\ uiPc' = "clearData" /\ uiPc = "reset"
        /\ uiPc \in {"reset", "clearData", "spawn"} => uiPc' = "clearData"
    BY <1>1 DEF startCall, stopCall, raiseIsRecord, startFails, clearIsRecord,
                checkThread, derefThread, joined, forgetThread, resetCount, doRecordReady,
                Preparing, fileVars
  <2>2. ~Posted("saved")
    BY <1>0, <2>1, NothingPosted
  <2>3. Running' = Running /\ RunningIsAnnounced'
    BY <2>1, AnnouncedStays DEF FileParts, RunningIsAnnounced, Running, Live
  <2>4. FileIsHeld' /\ FileIsCurrent' /\ RecordsWell'
    BY <2>1, <2>3 DEF FileParts, FileIsHeld, FileIsCurrent, RecordsWell, Leaked, Live, Preparing
  <2> QED
    BY <2>2, <2>3, <2>4 DEF FileParts
<1>2. uiPc \in StartPcs => ~Running
  BY DEF RecordingParts, NoneBeforeStart, Running
<1>3. CASE doRecordReady \/ initializeRecord
  <2>1. /\ UNCHANGED <<workerPc, allData, isFileInit>>
        /\ uiPc \in {"ready", "init"} /\ uiPc' \in {"init", "open", "lower"}
        /\ uiPc' = "open" => recorder' # 0
        /\ UNCHANGED <<looperVars, fileVars>> \/ onRecordedFail(<<"error">>)
    BY <1>0, <1>3 DEF initializeRecord, doRecordReady
  <2>2. ~Posted("saved") /\ UNCHANGED <<handle, isWav>> /\ (UNCHANGED raf \/ raf' = 0)
    BY <1>0, <2>1, NothingPosted, GivenUp DEF fileVars
  <2>3. ~Running /\ ~Running' /\ raf = 0
    BY <1>2, <2>1 DEF StartPcs, FileParts, FileIsHeld, Running, Live
  <2> QED
    BY <2>1, <2>2, <2>3 DEF FileParts, FileIsHeld, FileIsCurrent, RecordsWell, RunningIsAnnounced,
                            Leaked, Running, Live, Preparing
<1>4. CASE startFile
  <2>1. /\ uiPc = "open" /\ uiPc' = "reset"
        /\ UNCHANGED <<workerPc, recorder, mic, allData, isFileInit>>
    BY <1>4 DEF startFile
  <2>2. ~Running /\ ~Running' /\ raf = 0
    BY <1>2, <2>1 DEF StartPcs, FileParts, FileIsHeld, Running, Live
  <2>3. /\ \/ UNCHANGED <<raf, handle, isWav>>
           \/ /\ isFileInit /\ isWav' = isWav
              /\ \E header \in Headers :
                   /\ Construct(header)
                   /\ header = (IF isWav THEN "blank" ELSE "none") \/ IoFaults
        /\ UNCHANGED queue \/ Post(<<>>) \/ Post(<<"saveFailed">>)
    BY <1>4 DEF startFile, fileStart, NotOpened, Opened, HeaderFails, ConstructorFails, fileVars,
                Headers
  <2>4. ~Posted("saved")
    BY <1>0, <2>3, PostNothing, NotPosted
  <2>5. RecordsWell' /\ RunningIsAnnounced'
    BY <2>1, <2>2 DEF FileParts, RecordsWell, RunningIsAnnounced, Preparing, Running, Live
  <2>6. CASE UNCHANGED <<raf, handle, isWav>>
    BY <2>1, <2>2, <2>4, <2>5, <2>6 DEF FileParts, FileIsHeld, FileIsCurrent, Leaked
  <2>7. ASSUME NEW header \in Headers, isFileInit, Construct(header), isWav' = isWav,
               header = (IF isWav THEN "blank" ELSE "none") \/ IoFaults
        PROVE  FileParts' /\ ~Posted("saved")
    <3>1. opened + 1 \in Handles /\ raf' = opened + 1
          /\ handle \in [Handles -> [open: BOOLEAN, header: Headers, data: Seq(Nat)]]
      BY <1>0, <2>7 DEF Construct, FileTypeOK, Handles, FileAssumption
    <3>2. /\ handle'[raf'] = [open |-> TRUE, header |-> header, data |-> <<>>]
          /\ \A h \in Handles \ {raf'} : handle'[h] = handle[h]
      BY <2>7, <3>1 DEF Construct
    <3>3. NeverCancels => Leaked' = {}
      BY <2>2, <3>2 DEF FileParts, FileIsHeld, Leaked, Handles
    <3>4. FileIsHeld' /\ FileIsCurrent'
      BY <2>1, <2>2, <2>7, <3>2, <3>3 DEF FileIsHeld, FileIsCurrent, Running
    <3> QED
      BY <2>4, <2>5, <3>4 DEF FileParts
  <2> QED
    BY <2>3, <2>6, <2>7
<1>5. CASE resetData
  <2>1. /\ UNCHANGED <<workerPc, recorder, mic, raf, handle, isWav, isFileInit>>
        /\ uiPc = "clearData" /\ uiPc' = "spawn" /\ allData' = <<>>
        /\ Post(<<"start">>)
    BY <1>5 DEF resetData, fileVars
  <2>2. ~Posted("saved")
    BY <1>0, <2>1, PostedFirst
  <2>3. ~Running /\ ~Running'
    BY <1>2, <2>1 DEF StartPcs, Running, Live
  <2>4. Announced'
    BY <1>0, <2>1, StartAnnounces
  <2> QED
    BY <2>1, <2>2, <2>3, <2>4 DEF FileParts, FileIsHeld, FileIsCurrent, RecordsWell,
                                  RunningIsAnnounced, Leaked, Running, Live, Preparing
<1>6. CASE spawnThread
  <2>1. /\ UNCHANGED <<queue, heard, recorder, mic, allData, raf, handle, isWav, isFileInit,
                       sessions>>
        /\ uiPc = "spawn" /\ uiPc' = "idle"
        /\ workerPc' = [workerPc EXCEPT ![sessions] = "boot"]
    BY <1>6 DEF spawnThread, fileVars
  <2>2. ~Posted("saved")
    BY <1>0, <2>1, NothingPosted
  <2>3. ~Running /\ allData = <<>> /\ (NeverCancels => recorder # 0) /\ Announced
    BY <1>2, <2>1 DEF StartPcs, FileParts, FileIsCurrent, RecordsWell, RunningIsAnnounced, Preparing
  <2>4. Announced'
    BY <2>1, <2>3, AnnouncedStays
  <2>5. \A s \in Sessions : Live(s)' => s = sessions /\ workerPc'[s] = "boot"
    BY <1>0, <2>1, <2>3 DEF Running, Live
  <2>6. raf # 0 => Running'
    <3>1. sessions \in Sessions
      BY <2>1 DEF MicHeld
    <3> QED
      BY <1>0, <2>1, <3>1 DEF Running, Live
  <2> QED
    BY <2>1, <2>2, <2>3, <2>4, <2>5, <2>6 DEF FileParts, FileIsHeld, FileIsCurrent, RecordsWell,
                                  RunningIsAnnounced, Leaked, Preparing
<1> QED
  BY <1>1, <1>3, <1>4, <1>5, <1>6 DEF UiRuns

(* A thread writes each buffer to the file and to the data, and finishes   *)
(* the file when it has both.                                              *)
LEMMA FileWorker ==
  ASSUME TypeInv, BelowMax, RecordingParts, FileParts, NEW s \in Sessions, WorkerRuns(s)
  PROVE  FileParts' /\ (~IoFaults => WholeWhenSaved)
<1> USE DEF WorkerGoes, uiVars, idealVars, dataVars, recVars, looperVars
<1>0. /\ TypeOK /\ FileTypeOK
      /\ workerPc \in [Sessions -> WorkerPcs]
      /\ handle \in [Handles -> [open: BOOLEAN, header: Headers, data: Seq(Nat)]]
      /\ raf # 0 => raf \in Handles
      /\ allData \in Seq(Nat)
      /\ recorder # 0 => recorder \in Sessions
      /\ mic \in [Sessions -> MicStates]
  <2>1. TypeOK /\ FileTypeOK
    BY DEF TypeInv, TypeOK
  <2>2. raf \in 0..opened /\ opened \in 0..MaxHandles /\ MaxHandles \in Nat
    BY <2>1, FileAssumption DEF FileTypeOK
  <2>3. /\ handle \in [Handles -> [open: BOOLEAN, header: Headers, data: Seq(Nat)]]
        /\ raf # 0 => raf \in Handles
    BY <2>1, <2>2 DEF FileTypeOK, Handles
  <2>4. /\ workerPc \in [Sessions -> WorkerPcs] /\ allData \in Seq(Nat)
        /\ recorder \in 0..MaxSessions /\ mic \in [Sessions -> MicStates]
    BY <2>1 DEF TypeOK
  <2> QED
    BY <2>1, <2>3, <2>4 DEF Sessions
<1>1. /\ Live(s) /\ UNCHANGED uiPc
      /\ \A t \in Sessions \ {s} : workerPc'[t] = workerPc[t]
      /\ workerPc[s] = "finish" => workerPc'[s] = "done"
  BY WorkerMoves DEF TypeInv
<1>2. /\ \A t \in Sessions : Live(t) => t = s
      /\ uiPc \notin StartPcs /\ ~Preparing
  BY <1>1 DEF RecordingParts, ThreadIsKnown, NoneBeforeStart, StartPcs, Preparing
<1>3. \A t \in Sessions : Live(t)' => t = s
  BY <1>1, <1>2 DEF Live
<1>4. Announced /\ workerPc[s] \notin {"max", "unstart"}
  BY <1>1 DEF FileParts, RunningIsAnnounced, Running, RecordingParts, CountIsReads
<1>5. ASSUME workerPc[s] # "finish"
      PROVE  RunningIsAnnounced'
  BY <1>0, <1>4, <1>5, WorkerKeepsAnnounced DEF RunningIsAnnounced
<1>6. ASSUME UNCHANGED <<handle, isWav, isFileInit, allData>>, UNCHANGED raf \/ raf' = 0,
             NeverCancels => UNCHANGED raf,
             workerPc[s] # "collect", workerPc'[s] \notin {"none", "done", "collect"}
      PROVE  FileIsHeld' /\ FileIsCurrent'
  <2>1. Running' /\ Live(s)'
    BY <1>6 DEF Running, Live
  <2> QED
    BY <1>1, <1>2, <1>3, <1>6, <2>1 DEF FileParts, FileIsHeld, FileIsCurrent, Leaked, StartPcs
<1>7. ASSUME NeverCancels =>
               /\ recorder' = recorder
               /\ \/ workerPc[s] \notin {"restart", "boot"} \/ workerPc'[s] = "restart"
                  \/ mic'[recorder] = "recording"
               /\ mic' = mic \/ mic'[recorder] = "recording",
             workerPc[s] # "finish"
      PROVE  RecordsWell'
  BY <1>1, <1>2, <1>3, <1>7 DEF FileParts, RecordsWell, Preparing, Live
<1>8. workerPc[s] # "finish" /\ NeverCancels =>
        /\ recorder # 0
        /\ workerPc[s] \notin {"boot", "restart"} => mic[recorder] = "recording"
  BY <1>1 DEF FileParts, RecordsWell
<1>9. CASE \/ bootTest(s) \/ bootVerify(s) \/ loopTest(s) \/ readFull(s)
           \/ countRead(s) \/ countUp(s)
  <2>1. /\ UNCHANGED <<recorder, mic, raf, handle, isWav, isFileInit, allData, queue>>
        /\ workerPc[s] \notin {"collect", "finish"}
        /\ workerPc'[s] \notin {"none", "done", "collect"}
        /\ workerPc[s] \in {"boot", "restart"} /\ NeverCancels => workerPc'[s] = "restart"
    BY <1>0, <1>8, <1>9 DEF bootTest, bootVerify, loopTest, readFull, countRead, countUp, fileVars
  <2>2. ~Posted("saved")
    BY <1>0, <2>1, NothingPosted
  <2> QED
    BY <1>5, <1>6, <1>7, <2>1, <2>2 DEF FileParts, WholeWhenSaved
<1>10. CASE \/ warmUpCheck(s, "warm1", "read1") \/ warmUpCheck(s, "warm2", "read2")
            \/ warmUpRead(s, "read1", "warm2") \/ warmUpRead(s, "read2", "loop")
            \/ restart(s) \/ bootProbe(s)
  <2>1. /\ UNCHANGED <<isFileInit, allData>>
        /\ workerPc[s] \notin {"collect", "finish"}
        /\ workerPc'[s] \notin {"none", "done", "collect"}
    BY <1>0, <1>10 DEF warmUpCheck, warmUpRead, restart, bootProbe
  <2>2. UNCHANGED <<queue, handle, isWav, raf>> \/ onRecordedFail(<<"error">>)
    BY <1>10 DEF warmUpCheck, warmUpRead, restart, bootProbe, fileVars
  <2>3. ~Posted("saved") /\ UNCHANGED <<handle, isWav>> /\ (UNCHANGED raf \/ raf' = 0)
    BY <1>0, <2>2, NothingPosted, GivenUp
  <2>4. NeverCancels => UNCHANGED <<recorder, raf>> /\ mic'[recorder] = "recording"
    BY <1>0, <1>8, <1>10, <2>1 DEF warmUpCheck, warmUpRead, restart, bootProbe, fileVars, NeverCancels
  <2> QED
    BY <1>5, <1>6, <1>7, <2>1, <2>3, <2>4 DEF FileParts, WholeWhenSaved
<1>11. CASE restartNull(s) \/ recorderStop(s) \/ clearIsStarted(s)
  BY <1>1, <1>4, <1>11 DEF restartNull, recorderStop, clearIsStarted, RecordingParts, BootHasRecorder
<1>12. CASE readFails(s)
  <2>1. /\ UNCHANGED <<isFileInit, allData>>
        /\ workerPc[s] = "read" /\ workerPc'[s] = "loop"
        /\ onRecordedFail(<<"error">>) \/ onRecordedFail(<<"error", "error">>)
    BY <1>0, <1>12 DEF readFails
  <2>2. ~Posted("saved") /\ UNCHANGED <<handle, isWav>> /\ (UNCHANGED raf \/ raf' = 0)
    BY <1>0, <2>1, GivenUp
  <2>3. ~NeverCancels
    BY <1>8, <1>12, <2>1 DEF readFails, NeverCancels
  <2> QED
    BY <1>5, <1>6, <1>7, <2>1, <2>2, <2>3 DEF FileParts, WholeWhenSaved
<1>13. CASE save(s)
  <2>1. /\ UNCHANGED <<recorder, mic, isFileInit, isWav, raf, allData>>
        /\ workerPc[s] = "save" /\ workerPc'[s] = "collect"
    BY <1>0, <1>13 DEF save, fileSave, fileVars
  <2>2. /\ UNCHANGED queue \/ Post(<<>>) \/ Post(<<"saveFailed">>)
        /\ raf = 0 \/ ~isFileInit => UNCHANGED handle
        /\ raf # 0 /\ isFileInit =>
             \/ handle' = [handle EXCEPT ![raf].data = Append(@, s)]
             \/ IoFaults /\ UNCHANGED handle
    BY <1>13 DEF save, fileSave, fileVars
  <2>3. ~Posted("saved")
    BY <1>0, <2>2, PostNothing, NotPosted
  <2>4. RecordsWell' /\ RunningIsAnnounced'
    BY <1>5, <1>7, <2>1
  <2>5. Running' /\ Live(s)'
    BY <2>1 DEF Running, Live
  <2>6. raf # 0 => /\ ~IoFaults => handle'[raf].data = Append(allData, s)
                   /\ handle'[raf].header = handle[raf].header
                   /\ handle'[raf].open = handle[raf].open
                   /\ \A h \in Handles \ {raf} : handle'[h] = handle[h]
    <3> SUFFICES ASSUME raf # 0, handle' = [handle EXCEPT ![raf].data = Append(@, s)]
                 PROVE  /\ ~IoFaults => handle'[raf].data = Append(allData, s)
                        /\ handle'[raf].header = handle[raf].header
                        /\ handle'[raf].open = handle[raf].open
                        /\ \A h \in Handles \ {raf} : handle'[h] = handle[h]
      BY <2>2 DEF FileParts, FileIsHeld
    <3>1. ~IoFaults => handle[raf].data = allData
      BY <1>1, <2>1 DEF FileParts, FileIsCurrent
    <3>2. raf \in Handles /\ handle[raf] \in [open: BOOLEAN, header: Headers, data: Seq(Nat)]
      BY <1>0
    <3>3. handle'[raf] = [handle[raf] EXCEPT !.data = Append(handle[raf].data, s)]
      BY <1>0, <3>2
    <3>4. \A h \in Handles \ {raf} : handle'[h] = handle[h]
      BY <1>0, <3>2
    <3> QED
      BY <3>1, <3>2, <3>3, <3>4
  <2>7. NeverCancels => Leaked' = {}
    BY <2>1, <2>2, <2>6 DEF FileParts, FileIsHeld, Leaked
  <2>8. FileIsHeld'
    BY <2>1, <2>5, <2>7 DEF FileParts, FileIsHeld
  <2>9. FileIsCurrent'
    BY <1>1, <1>2, <1>3, <2>1, <2>6 DEF FileParts, FileIsCurrent, StartPcs
  <2> QED
    BY <2>3, <2>4, <2>8, <2>9 DEF FileParts, WholeWhenSaved
<1>14. CASE collect(s)
  <2>1. /\ UNCHANGED <<recorder, mic, isFileInit, isWav, raf, handle>>
        /\ workerPc[s] = "collect" /\ workerPc'[s] = "timed"
        /\ allData' = Append(allData, s)
        /\ Post(<<"data">>) /\ <<"data">> \in Seq(Kinds)
    BY <1>0, <1>14 DEF collect, fileVars, Kinds
  <2>2. ~Posted("saved")
    BY <1>0, <2>1, PostedFirst
  <2>3. Running' /\ Live(s)'
    BY <2>1 DEF Running, Live
  <2>4. FileIsHeld' /\ FileIsCurrent'
    BY <1>1, <1>2, <1>3, <2>1, <2>3 DEF FileParts, FileIsHeld, FileIsCurrent, Leaked, StartPcs
  <2> QED
    BY <1>5, <1>7, <2>1, <2>2, <2>4 DEF FileParts, WholeWhenSaved
<1>15. CASE checkTime(s)
  <2>1. /\ UNCHANGED <<recorder, mic, isFileInit, isWav, raf, handle, allData>>
        /\ workerPc[s] = "timed" /\ workerPc'[s] \in {"max", "loop"}
        /\ Post(<<"volume">>) \/ Post(<<>>)
    BY <1>0, <1>15 DEF checkTime, fileVars
  <2>2. ~Posted("saved")
    <3>1. <<"volume">> \in Seq(Kinds)
      BY DEF Kinds
    <3> QED
      BY <1>0, <2>1, <3>1, PostedFirst, PostNothing
  <2> QED
    BY <1>5, <1>6, <1>7, <2>1, <2>2 DEF FileParts, WholeWhenSaved
<1>16. CASE unInitializeRecord(s)
  <2>1. /\ UNCHANGED <<isFileInit, isWav, raf, handle, allData, queue>>
        /\ workerPc[s] = "uninit" /\ workerPc'[s] = "finish"
    BY <1>0, <1>16 DEF unInitializeRecord, fileVars
  <2>2. ~Posted("saved")
    BY <1>0, <2>1, NothingPosted
  <2>3. RecordsWell'
    BY <1>1, <1>2, <1>3, <2>1 DEF RecordsWell, Preparing
  <2>4. Running' /\ Live(s)'
    BY <2>1 DEF Running, Live
  <2>5. FileIsHeld' /\ FileIsCurrent'
    BY <1>1, <1>2, <1>3, <2>1, <2>4 DEF FileParts, FileIsHeld, FileIsCurrent, Leaked, StartPcs
  <2> QED
    BY <1>5, <2>1, <2>2, <2>3, <2>5 DEF FileParts, WholeWhenSaved
<1>17. CASE onRecorderStop(s)
  <2>1. /\ UNCHANGED <<isFileInit, allData, recorder, mic>> /\ isWav' = isWav
        /\ workerPc[s] = "finish" /\ workerPc'[s] = "done"
        /\ uiPc' = uiPc
    BY <1>0, <1>17 DEF onRecorderStop, fileFinish, fileVars
  <2>2. ~Running'
    BY <1>3, <2>1 DEF Running, Live
  <2>3. raf' = 0
    BY <1>17 DEF onRecorderStop, fileFinish, fileVars, FileParts, FileIsHeld
  <2>4. \/ handle' = handle /\ raf = 0
        \/ raf # 0 /\ handle' = Closed(Patched(handle[raf].header))
        \/ raf # 0 /\ IoFaults /\ handle' = Closed(handle[raf].header)
    BY <1>17 DEF onRecorderStop, fileFinish, fileVars, FileParts, FileIsHeld
  <2>5. raf # 0 => /\ handle'[raf].open = FALSE
                   /\ ~IoFaults => handle'[raf].header = Patched(handle[raf].header)
                   /\ \A h \in Handles \ {raf} : handle'[h] = handle[h]
    BY <1>0, <2>4 DEF Closed
  <2>6. NeverCancels => Leaked' = {}
    BY <2>3, <2>4, <2>5 DEF FileParts, FileIsHeld, Leaked
  <2>7. FileParts'
    BY <1>2, <2>1, <2>2, <2>3, <2>6 DEF FileParts, FileIsHeld, FileIsCurrent, RecordsWell,
                                        RunningIsAnnounced, Preparing, Running, StartPcs
  <2>8. raf = 0 => ~Posted("saved")
    <3>1. raf = 0 => Post(<<"saveFailed">> \o <<"stop">>) \/ Post(<<"stop">>)
      BY <1>17 DEF onRecorderStop, fileFinish
    <3>2. <<"saveFailed">> \in Seq(Kinds) /\ <<"stop">> \in Seq(Kinds)
      BY DEF Kinds
    <3>3. /\ <<"saveFailed">> \o <<"stop">> \in Seq(Kinds)
          /\ (<<"saveFailed">> \o <<"stop">>)[1] = "saveFailed"
      BY <3>2
    <3> QED
      BY <1>0, <3>1, <3>2, <3>3, PostedFirst
  <2>9. raf # 0 /\ ~IoFaults =>
                   /\ handle[raf].data = allData
                   /\ handle'[raf].header \in {"none", "sized"}
    BY <1>1, <2>1, <2>5 DEF FileParts, FileIsCurrent, Patched
  <2> QED
    BY <2>7, <2>8, <2>9 DEF WholeWhenSaved
<1> QED
  BY <1>9, <1>10, <1>11, <1>12, <1>13, <1>14, <1>15, <1>16, <1>17 DEF WorkerRuns

(* FileInv is inductive, and a step that reports a saved file leaves it    *)
(* whole.                                                                  *)
LEMMA FileStep ==
  ASSUME Steady, TypeInv, MicHeld, RecordingInv, FileInv, [Next]_vars
  PROVE  FileInv' /\ (~IoFaults => [WholeWhenSaved]_vars)
<1>1. CASE ~BelowMax
  BY <1>1, BelowMaxBefore DEF FileInv, WholeWhenSaved
<1>2. CASE BelowMax
  <2>1. RecordingParts /\ FileParts /\ ~crashed
    BY <1>2 DEF RecordingInv, RecordingParts, FileInv
  <2>2. CASE UNCHANGED vars
    BY <2>1, <2>2, AnnouncedStays DEF vars, uiVars, idealVars, dataVars, recVars, looperVars,
       fileVars, FileInv, FileParts, FileIsHeld, FileIsCurrent, RecordsWell, RunningIsAnnounced,
       Leaked, Preparing, Running, Live
  <2>3. CASE Next
    BY <1>2, <2>1, <2>3, FileSetters, FileDeliver, FileUi, FileWorker
       DEF Next, FileInv, WholeWhenSaved
  <2> QED
    BY <2>2, <2>3
<1> QED
  BY <1>1, <1>2

(* While the client does not change the settings during a recording, and   *)
(* onRecordedFail has no open file to give up (it forgets the file without *)
(* closing it): below maxRecordTime no file is forgotten while it is open, *)
(* whatever I/O fails, even by a client that starts again at once.         *)
THEOREM FilesAreClosed == ASSUME Steady, NeverCancels PROVE Spec => []NoLeak
<1>1. RecordingInv /\ FileInv => NoLeak
  BY DEF FileInv, FileParts, FileIsHeld, NoLeak
<1>2. Init => RecordingInv /\ FileInv
  BY RecordingInit, FileInvInit DEF RecordingInv, RecordingParts, FileInv
<1>3. TypeInv /\ MicHeld /\ RecordingInv /\ FileInv /\ [Next]_vars => FileInv'
  BY FileStep
<1>4. TypeInv /\ MicHeld /\ [Next]_vars => MicHeld'
  BY MicFrame, MicUi, MicWorker DEF Next
<1> QED
  BY <1>1, <1>2, <1>3, <1>4, MicInit, TypeInit, TypeStep, RecordingStep, PTL DEF Spec

(* While the client does not change the settings during a recording and    *)
(* the file can be written, whatever else fails: whenever AudioFileHelper  *)
(* reports success, the file holds exactly the buffers of this recording,  *)
(* and either no header or one with its sizes.                             *)
THEOREM SavedFilesAreWhole == ASSUME Steady, ~IoFaults PROVE Spec => SavedIsWhole
<1>1. [WholeWhenSaved]_vars <=> [BelowMax /\ Posted("saved") =>
                                   /\ handle[raf].data = allData
                                   /\ handle'[raf].header \in {"none", "sized"}]_vars
  BY DEF WholeWhenSaved
<1>2. Init => RecordingInv /\ FileInv
  BY RecordingInit, FileInvInit DEF RecordingInv, RecordingParts, FileInv
<1>3. TypeInv /\ MicHeld /\ RecordingInv /\ FileInv /\ [Next]_vars
        => FileInv' /\ [WholeWhenSaved]_vars
  BY FileStep
<1>4. TypeInv /\ MicHeld /\ [Next]_vars => MicHeld'
  BY MicFrame, MicUi, MicWorker DEF Next
<1> QED
  BY <1>1, <1>2, <1>3, <1>4, MicInit, TypeInit, TypeStep, RecordingStep, PTL
     DEF Spec, SavedIsWhole

--------------------------------------------------------------------------------
(* What the listener of a client that waits is told, and in which order.   *)

(* Message b may wait behind message a: a recording starts after its file, *)
(* is over with the news of its file, and brings nothing after an error.   *)
MayFollow(a, b) ==
  /\ a # "stop"
  /\ a = "saved" => b = "stop"
  /\ a = "error" => b \in {"error", "saveFailed", "stop"}
  /\ b = "start" => a = "saveFailed"

(* Message b may come when the listener is in this phase.                  *)
MayCome(phase, b) ==
  /\ phase = "saved" => b = "stop"
  /\ phase = "failed" => b \in {"error", "saveFailed", "stop"}
  /\ b = "start" => phase = "silent"

(* Messages that may come when no recording is under way.                  *)
Outside == {"start", "error", "saveFailed"}

(* A message of this kind fits behind all that wait.                       *)
Fits(kind) ==
  /\ MayCome(heard.phase, kind)
  /\ \A i \in 1..Len(queue) : MayFollow(queue[i], kind)
  /\ \/ kind \in Outside
     \/ heard.phase # "silent"
     \/ \E i \in 1..Len(queue) : queue[i] = "start"

Orderly ==
  /\ \A i, j \in 1..Len(queue) : i < j => MayFollow(queue[i], queue[j])
  /\ \A j \in 1..Len(queue) : MayCome(heard.phase, queue[j])
  /\ \A j \in 1..Len(queue) :
       \/ queue[j] \in Outside
       \/ heard.phase # "silent"
       \/ \E i \in 1..(j - 1) : queue[i] = "start"

(* Messages that fit are posted in order.                                  *)
LEMMA OrderlyPost ==
  ASSUME TypeOK, Orderly, NEW msgs \in Seq(Kinds), Post(msgs),
         \A j \in 1..Len(msgs) : Fits(msgs[j]),
         \A i, j \in 1..Len(msgs) : i < j => MayFollow(msgs[i], msgs[j])
  PROVE  Orderly'
<1> DEFINE n == Len(queue)
           m == Len(msgs)
<1>1. /\ queue \in Seq(Kinds) /\ queue' = queue \o msgs /\ heard' = heard
      /\ n \in Nat /\ m \in Nat
  BY DEF TypeOK, Post
<1>0. n \in Nat /\ m \in Nat
  BY <1>1
<1>2. /\ Len(queue') = n + m
      /\ \A i \in 1..n : queue'[i] = queue[i]
  BY <1>1
<1>3. \A j \in 1..(n + m) : j \notin 1..n => j - n \in 1..m /\ queue'[j] = msgs[j - n]
  BY <1>1
<1> HIDE DEF n, m
<1>4. ASSUME NEW i \in 1..(n + m), NEW j \in 1..(n + m), i < j
      PROVE  MayFollow(queue'[i], queue'[j])
  <2>1. CASE j \in 1..n
    <3>1. i \in 1..n
      BY <1>1, <1>4, <2>1
    <3> QED
      BY <1>2, <1>4, <2>1, <3>1 DEF Orderly, n
  <2>2. CASE j \notin 1..n /\ i \in 1..n
    <3>1. j - n \in 1..m /\ queue'[j] = msgs[j - n] /\ queue'[i] = queue[i]
      BY <1>2, <1>3, <2>2
    <3>2. Fits(msgs[j - n])
      BY <3>1 DEF m
    <3> QED
      BY <2>2, <3>1, <3>2 DEF Fits, n
  <2>3. CASE j \notin 1..n /\ i \notin 1..n
    <3>1. /\ i - n \in 1..m /\ j - n \in 1..m /\ i - n < j - n
          /\ queue'[i] = msgs[i - n] /\ queue'[j] = msgs[j - n]
      BY <1>0, <1>3, <1>4, <2>3
    <3>2. \A k, l \in 1..m : k < l => MayFollow(msgs[k], msgs[l])
      BY DEF m
    <3>3. MayFollow(msgs[i - n], msgs[j - n])
      BY <3>1, <3>2
    <3> QED
      BY <3>1, <3>3
  <2> QED
    BY <2>1, <2>2, <2>3
<1>5. ASSUME NEW j \in 1..(n + m)
      PROVE  /\ MayCome(heard'.phase, queue'[j])
             /\ \/ queue'[j] \in Outside
                \/ heard'.phase # "silent"
                \/ \E i \in 1..(j - 1) : queue'[i] = "start"
  <2>1. CASE j \in 1..n
    <3>1. \A i \in 1..(j - 1) : queue'[i] = queue[i]
      BY <1>1, <1>2, <2>1
    <3>2. queue'[j] = queue[j]
      BY <1>2, <2>1
    <3> QED
      BY <1>1, <2>1, <3>1, <3>2 DEF Orderly, n
  <2>2. CASE j \notin 1..n
    <3>1. j - n \in 1..m /\ queue'[j] = msgs[j - n]
      BY <1>3, <2>2
    <3>2. Fits(msgs[j - n])
      BY <3>1 DEF m
    <3>3. \A i \in 1..n : i \in 1..(j - 1) /\ queue'[i] = queue[i]
      BY <1>1, <1>2, <2>2
    <3>4. (\E i \in 1..n : queue[i] = "start") => \E i \in 1..(j - 1) : queue'[i] = "start"
      BY <3>3
    <3> QED
      BY <1>1, <3>1, <3>2, <3>4 DEF Fits, n
  <2> QED
    BY <2>1, <2>2
<1> QED
  BY <1>2, <1>4, <1>5 DEF Orderly

(* The looper takes the message that comes first, and the others still     *)
(* fit what the listener has been told then.                               *)
LEMMA OrderlyDeliver ==
  ASSUME TypeOK, Orderly, deliver
  PROVE  Orderly'
<1>1. /\ queue \in Seq(Kinds) /\ queue # <<>>
      /\ queue' = Tail(queue) /\ heard' = Told(Head(queue))
      /\ heard \in [phase: {"silent", "recording", "failed", "saved"}, chunks: Nat, total: Nat]
  BY DEF TypeOK, deliver
<1>2. /\ Len(queue) \in Nat \ {0} /\ Len(queue') = Len(queue) - 1
      /\ \A i \in 1..Len(queue') : i + 1 \in 1..Len(queue) /\ queue'[i] = queue[i + 1]
      /\ Head(queue) = queue[1] /\ queue[1] \in Kinds
  BY <1>1
<1>3. ASSUME NEW i \in 1..Len(queue'), NEW j \in 1..Len(queue'), i < j
      PROVE  MayFollow(queue'[i], queue'[j])
  <2>1. i + 1 < j + 1
    BY <1>2, <1>3
  <2> QED
    BY <1>2, <2>1 DEF Orderly
<1>4. ASSUME NEW j \in 1..Len(queue')
      PROVE  /\ MayCome(heard'.phase, queue'[j])
             /\ \/ queue'[j] \in Outside
                \/ heard'.phase # "silent"
                \/ \E i \in 1..(j - 1) : queue'[i] = "start"
  <2>1. /\ queue'[j] = queue[j + 1] /\ j + 1 \in 1..Len(queue)
        /\ MayFollow(queue[1], queue[j + 1])
        /\ MayCome(heard.phase, queue[1]) /\ MayCome(heard.phase, queue[j + 1])
    <3>1. 1 < j + 1 /\ 1 \in 1..Len(queue)
      BY <1>2
    <3> QED
      BY <1>2, <3>1 DEF Orderly
  <2>2. MayCome(heard'.phase, queue'[j])
    BY <1>1, <1>2, <2>1 DEF Told, MayCome, MayFollow, Kinds
  <2>3. CASE queue[j + 1] \in Outside
    BY <2>1, <2>2, <2>3
  <2>4. CASE heard.phase # "silent"
    <3>1. queue[1] # "stop"
      BY <2>1 DEF MayFollow
    <3>2. heard'.phase # "silent"
      BY <1>1, <1>2, <2>4, <3>1 DEF Told
    <3> QED
      BY <2>2, <3>2
  <2>5. ASSUME NEW i \in 1..((j + 1) - 1), queue[i] = "start"
        PROVE  heard'.phase # "silent" \/ \E k \in 1..(j - 1) : queue'[k] = "start"
    <3>1. CASE i = 1
      BY <1>1, <1>2, <2>5, <3>1 DEF Told
    <3>2. CASE i # 1
      <4>1. i - 1 \in 1..(j - 1) /\ i - 1 \in 1..Len(queue') /\ (i - 1) + 1 = i
        BY <1>2, <3>2
      <4>2. queue'[i - 1] = "start"
        BY <1>2, <2>5, <4>1
      <4> QED
        BY <4>1, <4>2
    <3> QED
      BY <3>1, <3>2
  <2>6. \/ queue[j + 1] \in Outside
        \/ heard.phase # "silent"
        \/ \E i \in 1..((j + 1) - 1) : queue[i] = "start"
    BY <2>1 DEF Orderly
  <2> QED
    BY <2>2, <2>3, <2>4, <2>5, <2>6
<1> QED
  BY <1>3, <1>4 DEF Orderly

--------------------------------------------------------------------------------
(* f tells how many buffers the listener has been given when that many of  *)
(* the waiting messages have been delivered: in the end, all there are.    *)
Counts(f) ==
  /\ f[0] = heard.chunks
  /\ \A i \in 1..Len(queue) :
       f[i] = IF queue[i] = "start" THEN 0
              ELSE IF queue[i] = "data" THEN f[i - 1] + 1 ELSE f[i - 1]
  /\ f[Len(queue)] = Len(allData)

Foretold == \E f \in [Nat -> Nat] : Counts(f)

(* Messages that bring no data do not change the count.                    *)
LEMMA ForetoldPost ==
  ASSUME TypeOK, Foretold, NEW msgs \in Seq(Kinds), Post(msgs), UNCHANGED allData,
         \A j \in 1..Len(msgs) : msgs[j] \notin {"start", "data"}
  PROVE  Foretold'
<1> DEFINE n == Len(queue)
           m == Len(msgs)
<1>1. /\ queue \in Seq(Kinds) /\ queue' = queue \o msgs /\ heard' = heard
      /\ n \in Nat /\ m \in Nat
  BY DEF TypeOK, Post
<1>2. Len(queue') = n + m /\ \A i \in 1..n : queue'[i] = queue[i]
  BY <1>1
<1>3. \A j \in 1..(n + m) : j \notin 1..n => queue'[j] \notin {"start", "data"}
  <2>1. \A j \in 1..(n + m) : j \notin 1..n => j - n \in 1..m /\ queue'[j] = msgs[j - n]
    BY <1>1
  <2> QED
    BY <2>1
<1>4. PICK f \in [Nat -> Nat] : Counts(f)
  BY DEF Foretold
<1>0. n \in Nat /\ m \in Nat
  BY <1>1
<1>9. /\ f[0] = heard.chunks /\ f[n] = Len(allData)
      /\ \A i \in 1..n : f[i] = IF queue[i] = "start" THEN 0
                             ELSE IF queue[i] = "data" THEN f[i - 1] + 1 ELSE f[i - 1]
  BY <1>4 DEF Counts
<1> HIDE DEF n, m
<1> DEFINE g == [i \in Nat |-> IF i <= n THEN f[i] ELSE f[n]]
<1>5. g \in [Nat -> Nat]
  BY <1>0
<1>6. \A i \in Nat : g[i] = IF i <= n THEN f[i] ELSE f[n]
  OBVIOUS
<1> HIDE DEF g
<1>7. g[0] = f[0] /\ g[n + m] = f[n]
  <2>1. n + m \in Nat /\ 0 \in Nat /\ 0 <= n /\ (n + m <= n => n + m = n)
    BY <1>0
  <2>2. g[0] = f[0] /\ g[n + m] = IF n + m <= n THEN f[n + m] ELSE f[n]
    BY <1>6, <2>1
  <2>3. CASE n + m <= n
    BY <2>1, <2>2, <2>3
  <2>4. CASE ~(n + m <= n)
    BY <2>2, <2>4
  <2> QED
    BY <2>3, <2>4
<1>8. ASSUME NEW i \in 1..(n + m)
      PROVE  g[i] = IF queue'[i] = "start" THEN 0
                    ELSE IF queue'[i] = "data" THEN g[i - 1] + 1 ELSE g[i - 1]
  <2>1. CASE i \in 1..n
    <3>1. g[i] = f[i] /\ g[i - 1] = f[i - 1]
      BY <1>0, <1>6, <2>1
    <3> QED
      BY <1>2, <1>9, <2>1, <3>1
  <2>2. CASE i \notin 1..n
    <3>1. g[i] = f[n] /\ g[i - 1] = f[n]
      <4>1. i \in Nat /\ ~(i <= n) /\ i - 1 \in Nat /\ (i - 1 <= n => i - 1 = n)
        BY <1>0, <2>2
      <4>2. g[i] = f[n] /\ g[i - 1] = IF i - 1 <= n THEN f[i - 1] ELSE f[n]
        BY <1>6, <4>1
      <4>3. CASE i - 1 <= n
        BY <4>1, <4>2, <4>3
      <4>4. CASE ~(i - 1 <= n)
        BY <4>2, <4>4
      <4> QED
        BY <4>3, <4>4
    <3> QED
      BY <1>3, <2>2, <3>1
  <2> QED
    BY <2>1, <2>2
<1> QED
  BY <1>1, <1>2, <1>5, <1>7, <1>8, <1>9 DEF Counts, Foretold

(* One more message, and what is counted with it.                          *)
LEMMA ForetoldMore ==
  ASSUME TypeOK, Foretold, NEW kind \in {"start", "data"}, Post(<<kind>>),
         Len(allData') \in Nat,
         Len(allData') = IF kind = "start" THEN 0 ELSE Len(allData) + 1
  PROVE  Foretold'
<1> DEFINE n == Len(queue)
<1>1. /\ queue \in Seq(Kinds) /\ kind \in Kinds /\ heard' = heard
      /\ n \in Nat
  BY DEF TypeOK, Post, Kinds
<1>2. /\ Len(queue') = n + 1 /\ queue'[n + 1] = kind
      /\ \A i \in 1..n : queue'[i] = queue[i]
  BY <1>1 DEF Post
<1>3. PICK f \in [Nat -> Nat] : Counts(f)
  BY DEF Foretold
<1>4. Len(allData') \in Nat
  OBVIOUS
<1>0. n \in Nat
  BY <1>1
<1>9. /\ f[0] = heard.chunks /\ f[n] = Len(allData)
      /\ \A i \in 1..n : f[i] = IF queue[i] = "start" THEN 0
                             ELSE IF queue[i] = "data" THEN f[i - 1] + 1 ELSE f[i - 1]
  BY <1>3 DEF Counts
<1> HIDE DEF n
<1> DEFINE g == [i \in Nat |-> IF i <= n THEN f[i] ELSE Len(allData')]
<1>5. g \in [Nat -> Nat]
  BY <1>4
<1>6. \A i \in Nat : g[i] = IF i <= n THEN f[i] ELSE Len(allData')
  OBVIOUS
<1> HIDE DEF g
<1>7. g[0] = f[0] /\ g[n] = f[n] /\ g[n + 1] = Len(allData')
  <2>1. {0, n, n + 1} \subseteq Nat /\ 0 <= n /\ n <= n /\ ~(n + 1 <= n)
    BY <1>0
  <2> QED
    BY <1>6, <2>1
<1>8. ASSUME NEW i \in 1..(n + 1)
      PROVE  g[i] = IF queue'[i] = "start" THEN 0
                    ELSE IF queue'[i] = "data" THEN g[i - 1] + 1 ELSE g[i - 1]
  <2>1. CASE i \in 1..n
    <3>1. g[i] = f[i] /\ g[i - 1] = f[i - 1]
      BY <1>0, <1>6, <2>1
    <3> QED
      BY <1>2, <1>9, <2>1, <3>1
  <2>2. CASE i = n + 1
    <3>1. g[i] = Len(allData') /\ g[i - 1] = Len(allData) /\ queue'[i] = kind
      BY <1>0, <1>2, <1>9, <1>7, <2>2
    <3> QED
      BY <3>1
  <2> QED
    BY <1>0, <2>1, <2>2
<1> QED
  BY <1>1, <1>2, <1>5, <1>7, <1>8, <1>9 DEF Counts, Foretold

(* The message that is delivered counts as foretold.                       *)
LEMMA ForetoldDeliver ==
  ASSUME TypeOK, Foretold, deliver
  PROVE  Foretold'
<1> DEFINE n == Len(queue)
<1>1. /\ queue \in Seq(Kinds) /\ queue # <<>> /\ allData' = allData
      /\ queue' = Tail(queue) /\ heard' = Told(Head(queue))
      /\ heard \in [phase: {"silent", "recording", "failed", "saved"}, chunks: Nat, total: Nat]
  BY DEF TypeOK, deliver, dataVars
<1>2. /\ n \in Nat \ {0} /\ Len(queue') = n - 1
      /\ \A i \in 1..(n - 1) : queue'[i] = queue[i + 1]
      /\ Head(queue) = queue[1] /\ queue[1] \in Kinds
  BY <1>1
<1>3. PICK f \in [Nat -> Nat] : Counts(f)
  BY DEF Foretold
<1>0. n \in Nat \ {0}
  BY <1>2
<1>9. /\ f[0] = heard.chunks /\ f[n] = Len(allData)
      /\ \A i \in 1..n : f[i] = IF queue[i] = "start" THEN 0
                             ELSE IF queue[i] = "data" THEN f[i - 1] + 1 ELSE f[i - 1]
  BY <1>3 DEF Counts
<1> HIDE DEF n
<1> DEFINE g == [i \in Nat |-> f[i + 1]]
<1>4. g \in [Nat -> Nat] /\ \A i \in Nat : g[i] = f[i + 1]
  OBVIOUS
<1> HIDE DEF g
<1>5. g[0] = heard'.chunks
  <2>1. g[0] = f[1] /\ f[0] = heard.chunks /\ 1 \in 1..n /\ 1 - 1 = 0
    BY <1>0, <1>4, <1>9
  <2>2. f[1] = IF queue[1] = "start" THEN 0
               ELSE IF queue[1] = "data" THEN heard.chunks + 1 ELSE heard.chunks
    <3>1. f[1] = IF queue[1] = "start" THEN 0
                 ELSE IF queue[1] = "data" THEN f[1 - 1] + 1 ELSE f[1 - 1]
      BY <1>9, <2>1
    <3> QED
      BY <2>1, <3>1
  <2> QED
    BY <1>1, <1>2, <2>1, <2>2 DEF Told, Kinds
<1>6. ASSUME NEW i \in 1..(n - 1)
      PROVE  g[i] = IF queue'[i] = "start" THEN 0
                    ELSE IF queue'[i] = "data" THEN g[i - 1] + 1 ELSE g[i - 1]
  <2>1. /\ g[i] = f[i + 1] /\ g[i - 1] = f[i] /\ i + 1 \in 1..n /\ (i + 1) - 1 = i
        /\ queue'[i] = queue[i + 1]
    <3>1. i \in Nat /\ i - 1 \in Nat /\ (i - 1) + 1 = i /\ i + 1 \in 1..n /\ (i + 1) - 1 = i
      BY <1>0
    <3> QED
      BY <1>2, <1>4, <3>1
  <2>2. f[i + 1] = IF queue[i + 1] = "start" THEN 0
                   ELSE IF queue[i + 1] = "data" THEN f[(i + 1) - 1] + 1 ELSE f[(i + 1) - 1]
    BY <1>9, <2>1
  <2> QED
    BY <2>1, <2>2
<1>7. g[n - 1] = Len(allData')
  <2>1. n - 1 \in Nat /\ (n - 1) + 1 = n
    BY <1>0
  <2> QED
    BY <1>1, <1>4, <1>9, <2>1
<1> QED
  BY <1>2, <1>4, <1>5, <1>6, <1>7 DEF Counts, Foretold

--------------------------------------------------------------------------------
(* A delivery is a step of StatusContract: the kind of the message fits    *)
(* the phase, and the end brings as many buffers as were counted.          *)
LEMMA DeliverKeepsContract ==
  ASSUME TypeOK, Orderly, Foretold, deliver
  PROVE  Contract!ContractNext \/ UNCHANGED heard
<1>1. /\ queue \in Seq(Kinds) /\ queue # <<>> /\ heard' = Told(Head(queue))
      /\ heard \in [phase: {"silent", "recording", "failed", "saved"}, chunks: Nat, total: Nat]
  BY DEF TypeOK, deliver
<1>2. Len(queue) \in Nat \ {0} /\ Head(queue) = queue[1] /\ queue[1] \in Kinds
  BY <1>1
<1>3. /\ MayCome(heard.phase, queue[1])
      /\ queue[1] \in Outside \/ heard.phase # "silent"
  BY <1>2 DEF Orderly
<1>4. CASE queue[1] = "start"
  BY <1>1, <1>2, <1>3, <1>4 DEF Told, MayCome, Contract!ContractNext, Contract!onStartRecording
<1>5. CASE queue[1] = "data"
  <2>1. heard.phase = "recording"
    BY <1>1, <1>3, <1>5 DEF MayCome, Outside
  <2> QED
    BY <1>1, <1>2, <1>5, <2>1 DEF Told, Contract!ContractNext, Contract!onRecordData
<1>6. CASE queue[1] = "error"
  <2>1. heard.phase # "saved"
    BY <1>3, <1>6 DEF MayCome
  <2> QED
    BY <1>1, <1>2, <1>6, <2>1 DEF Told, Contract!ContractNext, Contract!onRecordError
<1>7. CASE queue[1] = "saved"
  <2>1. heard.phase = "recording"
    BY <1>1, <1>3, <1>7 DEF MayCome, Outside
  <2> QED
    BY <1>1, <1>2, <1>7, <2>1 DEF Told, Contract!ContractNext, Contract!onFileSaveSuccess
<1>8. CASE queue[1] = "stop"
  <2>1. heard.phase # "silent"
    BY <1>3, <1>8 DEF Outside
  <2>2. Len(queue) = 1
    <3>1. ~(Len(queue) > 1)
      <4> SUFFICES ASSUME Len(queue) > 1
                   PROVE  FALSE
        OBVIOUS
      <4>1. 1 \in 1..Len(queue) /\ 2 \in 1..Len(queue) /\ 1 < 2
        BY <1>2
      <4> QED
        BY <1>8, <4>1 DEF Orderly, MayFollow
    <3>2. \A n \in Nat \ {0} : n > 1 \/ n = 1
      OBVIOUS
    <3> QED
      BY <1>2, <3>1, <3>2
  <2>3. heard.chunks = Len(allData)
    <3>1. PICK f \in [Nat -> Nat] : Counts(f)
      BY DEF Foretold
    <3>2. f[0] = heard.chunks /\ f[1] = Len(allData) /\ f[1] = f[1 - 1]
      BY <1>2, <1>8, <2>2, <3>1 DEF Counts
    <3> QED
      BY <3>2
  <2> QED
    BY <1>1, <1>2, <1>8, <2>1, <2>3 DEF Told, Contract!ContractNext, Contract!onStopRecording
<1>9. CASE queue[1] \in {"volume", "saveFailed"}
  BY <1>1, <1>2, <1>9 DEF Told
<1> QED
  BY <1>2, <1>4, <1>5, <1>6, <1>7, <1>8, <1>9 DEF Kinds

--------------------------------------------------------------------------------
(* What the threads may still post.                                        *)

NothingBefore ==
  uiPc \in {"raise", "ready", "init", "open", "reset", "clearData"} =>
    heard.phase = "silent" /\ \A i \in 1..Len(queue) : queue[i] = "saveFailed"

Unfinished == heard.phase # "saved" /\ \A i \in 1..Len(queue) : queue[i] \notin {"saved", "stop"}

ErrorSent == heard.phase = "failed" \/ \E i \in 1..Len(queue) : queue[i] = "error"

(* Thread s has reported an error: it comes to its end without reading     *)
(* another buffer, and its file has been given up.                         *)
Retires(s) ==
  /\ \/ workerPc[s] \in {"verify", "warm1"} /\ recorder = 0
     \/ workerPc[s] \in {"loop", "uninit", "finish"} /\ ~isRecord
  /\ isFileInit => raf = 0

ThreadsReport ==
  /\ NothingBefore
  /\ uiPc = "spawn" \/ Running => Unfinished
  /\ uiPc = "spawn" => ~ErrorSent
  /\ ErrorSent => \A s \in Sessions : Live(s) => Retires(s)
  /\ raf # 0 => targetFile # NoPath

StatusInv == Orderly /\ Foretold /\ ThreadsReport

LEMMA StatusInit == Init => StatusInv
<1> SUFFICES ASSUME Init
             PROVE  StatusInv
  OBVIOUS
<1>1. /\ queue = <<>> /\ Len(queue) = 0 /\ Len(allData) = 0
      /\ heard = [phase |-> "silent", chunks |-> 0, total |-> 0]
  BY DEF Init
<1>2. Orderly
  BY <1>1 DEF Orderly
<1>3. Foretold
  <2>1. [i \in Nat |-> 0] \in [Nat -> Nat] /\ [i \in Nat |-> 0][0] = 0
    OBVIOUS
  <2>2. Counts([i \in Nat |-> 0])
    BY <1>1, <2>1 DEF Counts
  <2> QED
    BY <2>1, <2>2 DEF Foretold
<1>4. ThreadsReport
  BY <1>1 DEF Init, FileInit, ThreadsReport, NothingBefore, Running, Live, ErrorSent
<1> QED
  BY <1>2, <1>3, <1>4 DEF StatusInv

(* Until the recording is over, whatever is reported of it fits; what      *)
(* follows an error is restricted.                                         *)
LEMMA ReportFits ==
  ASSUME Announced, Unfinished, NEW kind \in Kinds \ {"start"},
         ErrorSent => kind \in {"error", "saveFailed", "stop"}
  PROVE  Fits(kind)
<1>1. MayCome(heard.phase, kind)
  BY DEF MayCome, Unfinished, ErrorSent
<1>2. \A i \in 1..Len(queue) : MayFollow(queue[i], kind)
  BY DEF MayFollow, Unfinished, ErrorSent
<1> QED
  BY <1>1, <1>2 DEF Fits, Announced

(* Before the start of a recording is posted, any message outside of one   *)
(* fits.                                                                   *)
LEMMA PreparationFits ==
  ASSUME NothingBefore, NEW kind \in Outside,
         uiPc \in {"raise", "ready", "init", "open", "reset", "clearData"}
  PROVE  Fits(kind)
BY DEF NothingBefore, Fits, Outside, MayCome, MayFollow

(* A message that waits after a step was posted in it or waited before.    *)
LEMMA Posts ==
  ASSUME TypeOK, NEW msgs \in Seq(Kinds), Post(msgs)
  PROVE  /\ heard' = heard
         /\ \A i \in 1..Len(queue') : \/ \E j \in 1..Len(queue) : queue'[i] = queue[j]
                                      \/ \E j \in 1..Len(msgs) : queue'[i] = msgs[j]
<1>1. queue \in Seq(Kinds) /\ queue' = queue \o msgs /\ heard' = heard
  BY DEF TypeOK, Post
<1>2. ASSUME NEW i \in 1..Len(queue')
      PROVE  \/ \E j \in 1..Len(queue) : queue'[i] = queue[j]
             \/ \E j \in 1..Len(msgs) : queue'[i] = msgs[j]
  <2>1. CASE i \in 1..Len(queue)
    BY <1>1, <2>1
  <2>2. CASE i \notin 1..Len(queue)
    <3>1. i - Len(queue) \in 1..Len(msgs) /\ queue'[i] = msgs[i - Len(queue)]
      BY <1>1, <2>2
    <3> QED
      BY <3>1
  <2> QED
    BY <2>1, <2>2
<1> QED
  BY <1>1, <1>2

LEMMA PostQuietly ==
  ASSUME TypeOK, NEW msgs \in Seq(Kinds), Post(msgs)
  PROVE  /\ (\A j \in 1..Len(msgs) : msgs[j] # "error") => (ErrorSent' => ErrorSent)
         /\ (\A j \in 1..Len(msgs) : msgs[j] \notin {"saved", "stop"}) => (Unfinished => Unfinished')
BY Posts DEF ErrorSent, Unfinished

(* What a step posts while its recording is under way.                     *)
LEMMA ReportsKeepOrder ==
  ASSUME TypeOK, Orderly, Foretold, Announced, Unfinished, UNCHANGED allData,
         NEW msgs \in Seq(Kinds), Post(msgs),
         \A j \in 1..Len(msgs) : /\ msgs[j] \notin {"start", "data"}
                                 /\ ErrorSent => msgs[j] \in {"error", "saveFailed", "stop"},
         \A i, j \in 1..Len(msgs) : i < j => MayFollow(msgs[i], msgs[j])
  PROVE  Orderly' /\ Foretold'
<1>1. \A j \in 1..Len(msgs) : Fits(msgs[j])
  BY ReportFits
<1> QED
  BY <1>1, OrderlyPost, ForetoldPost

(* One message, or none.                                                   *)
LEMMA ReportKeepsOrder ==
  ASSUME TypeOK, Orderly, Foretold, Announced, Unfinished, UNCHANGED allData,
         NEW kind \in Kinds \ {"start", "data"},
         ErrorSent => kind \in {"error", "saveFailed", "stop"},
         UNCHANGED <<queue, heard>> \/ Post(<<>>) \/ Post(<<kind>>)
  PROVE  /\ Orderly' /\ Foretold'
         /\ kind # "error" => (ErrorSent' => ErrorSent)
         /\ kind \notin {"saved", "stop"} => Unfinished'
<1>1. Post(<<>>) => UNCHANGED <<queue, heard>>
  <2>1. queue \in Seq(Kinds) => queue \o <<>> = queue
    OBVIOUS
  <2> QED
    BY <2>1 DEF Post, TypeOK
<1>2. CASE UNCHANGED <<queue, heard>>
  BY <1>2 DEF Orderly, Foretold, Counts, ErrorSent, Unfinished
<1>3. CASE Post(<<kind>>)
  <2> DEFINE msgs == <<kind>>
  <2>1. msgs \in Seq(Kinds) /\ \A j \in 1..Len(msgs) : j = 1 /\ msgs[j] = kind
    OBVIOUS
  <2>2. Post(msgs)
    BY <1>3
  <2> HIDE DEF msgs
  <2>3. \A i, j \in 1..Len(msgs) : ~(i < j)
    BY <2>1
  <2>4. \A j \in 1..Len(msgs) : msgs[j] = kind
    BY <2>1
  <2>5. Orderly' /\ Foretold'
    BY <2>1, <2>2, <2>3, <2>4, ReportsKeepOrder
  <2> QED
    BY <2>1, <2>2, <2>4, <2>5, PostQuietly
<1> QED
  BY <1>1, <1>2, <1>3

(* The same before the start is posted.                                    *)
LEMMA PreparationKeepsOrder ==
  ASSUME TypeOK, Orderly, Foretold, NothingBefore, UNCHANGED allData,
         uiPc \in {"raise", "ready", "init", "open", "reset", "clearData"},
         NEW kind \in {"error", "saveFailed"},
         UNCHANGED <<queue, heard>> \/ Post(<<>>) \/ Post(<<kind>>)
  PROVE  /\ Orderly' /\ Foretold'
         /\ heard'.phase = "silent" /\ \A i \in 1..Len(queue') : queue'[i] \in {"saveFailed", kind}
<1>1. Post(<<>>) => UNCHANGED <<queue, heard>>
  <2>1. queue \in Seq(Kinds) => queue \o <<>> = queue
    OBVIOUS
  <2> QED
    BY <2>1 DEF Post, TypeOK
<1>2. CASE UNCHANGED <<queue, heard>>
  BY <1>2 DEF Orderly, Foretold, Counts, NothingBefore
<1>3. CASE Post(<<kind>>)
  <2> DEFINE msgs == <<kind>>
  <2>1. msgs \in Seq(Kinds) /\ \A j \in 1..Len(msgs) : j = 1 /\ msgs[j] = kind
    BY DEF Kinds
  <2>2. Post(msgs)
    BY <1>3
  <2> HIDE DEF msgs
  <2>3. \A i, j \in 1..Len(msgs) : ~(i < j)
    BY <2>1
  <2>4. \A j \in 1..Len(msgs) : msgs[j] = kind /\ Fits(msgs[j])
    BY <2>1, PreparationFits DEF Outside
  <2>5. Orderly' /\ Foretold'
    BY <2>1, <2>2, <2>3, <2>4, OrderlyPost, ForetoldPost
  <2>6. heard'.phase = "silent" /\ \A i \in 1..Len(queue') : queue'[i] \in {"saveFailed", kind}
    BY <2>1, <2>2, <2>4, Posts DEF NothingBefore
  <2> QED
    BY <2>5, <2>6
<1> QED
  BY <1>1, <1>2, <1>3

(* onRecordedFail leaves no file to finish, where there is one at all.     *)
LEMMA FailGivesUp ==
  ASSUME raf # 0 => targetFile # NoPath, NEW errors, onRecordedFail(errors)
  PROVE  /\ isFileInit => raf' = 0
         /\ raf' # 0 => targetFile' # NoPath
BY DEF onRecordedFail, fileCancel, fileVars

LEMMA OrderStays ==
  ASSUME Orderly, Foretold, UNCHANGED <<queue, heard, allData>>
  PROVE  /\ Orderly' /\ Foretold'
         /\ Unfinished' = Unfinished /\ ErrorSent' = ErrorSent
BY DEF Orderly, Foretold, Counts, Unfinished, ErrorSent

(* start() and stop(), called by a client that waits.                      *)
LEMMA StatusUi ==
  ASSUME TypeInv, OneAnnounced, StatusInv, Client = {}, startCall \/ stopCall \/ UiRuns
  PROVE  StatusInv'
<1> USE DEF UiGoes, uiVars, idealVars, dataVars, recVars, looperVars
<1>0. /\ TypeOK /\ workerPc \in [Sessions -> WorkerPcs]
      /\ Orderly /\ Foretold /\ ThreadsReport
  BY DEF TypeInv, TypeOK, StatusInv
<1>1. uiPc \in StartPcs => ~Running
  BY DEF OneAnnounced, NoOverlap, Running
<1>2. CASE \/ startCall \/ stopCall \/ raiseIsRecord \/ startFails \/ clearIsRecord
           \/ checkThread \/ derefThread \/ joined \/ forgetThread \/ resetCount
  <2>1. /\ UNCHANGED <<queue, heard, workerPc, recorder, allData, raf, targetFile, isFileInit>>
        /\ uiPc' # "spawn" /\ (isRecord' = isRecord \/ isRecord' = FALSE \/ uiPc = "raise")
    BY <1>2 DEF startCall, stopCall, raiseIsRecord, startFails, clearIsRecord,
                checkThread, derefThread, joined, forgetThread, resetCount, fileVars
  <2>2. NothingBefore'
    <3>1. CASE startCall
      <4>1. queue = <<>> /\ heard.phase = "silent"
        BY <3>1 DEF startCall, Quiet
      <4> QED
        BY <2>1, <4>1 DEF NothingBefore
    <3>2. CASE ~startCall
      <4>1. uiPc' \in {"raise", "ready", "init", "open", "reset", "clearData"} =>
              uiPc \in {"raise", "ready", "init", "open", "reset", "clearData"}
        BY <1>2, <3>2 DEF stopCall, raiseIsRecord, startFails, clearIsRecord,
                checkThread, derefThread, joined, forgetThread, resetCount
      <4> QED
        BY <1>0, <2>1, <4>1 DEF NothingBefore, ThreadsReport
    <3> QED
      BY <3>1, <3>2
  <2>3. ErrorSent' => \A s \in Sessions : Live(s)' => Retires(s)'
    <3>1. uiPc = "raise" => \A s \in Sessions : ~Live(s)'
      BY <1>1, <2>1 DEF StartPcs, Running, Live
    <3> QED
      BY <1>0, <2>1, <3>1, OrderStays DEF ThreadsReport, Retires, Live
  <2>4. Orderly' /\ Foretold' /\ (Running' => Unfinished') /\ (raf' # 0 => targetFile' # NoPath)
    BY <1>0, <2>1, OrderStays DEF ThreadsReport, Running, Live
  <2> QED
    BY <2>1, <2>2, <2>3, <2>4 DEF StatusInv, ThreadsReport
<1>3. CASE doRecordReady \/ initializeRecord \/ startFile
  <2>1. /\ UNCHANGED <<workerPc, allData>>
        /\ uiPc \in {"ready", "init", "open"} /\ uiPc' \in {"init", "lower", "open", "reset"}
    BY <1>3 DEF doRecordReady, initializeRecord, startFile
  <2>2. ~Running /\ ~Running'
    BY <1>1, <2>1 DEF StartPcs, Running, Live
  <2>3. PICK kind \in {"error", "saveFailed"} :
          /\ UNCHANGED <<queue, heard>> \/ Post(<<>>) \/ Post(<<kind>>)
          /\ kind = "error" => uiPc' = "lower"
    BY <1>3 DEF doRecordReady, initializeRecord, startFile, onRecordedFail, fileStart, NotOpened,
                Opened, HeaderFails, ConstructorFails
  <2>4. /\ Orderly' /\ Foretold'
        /\ heard'.phase = "silent" /\ \A i \in 1..Len(queue') : queue'[i] \in {"saveFailed", kind}
    BY <1>0, <2>1, <2>3, PreparationKeepsOrder DEF ThreadsReport
  <2>5. NothingBefore'
    BY <2>1, <2>3, <2>4 DEF NothingBefore
  <2>6. raf' # 0 => targetFile' # NoPath
    <3>1. raf # 0 => targetFile # NoPath
      BY <1>0 DEF ThreadsReport
    <3>2. CASE UNCHANGED fileVars \/ onRecordedFail(<<"error">>)
      BY <3>1, <3>2, FailGivesUp DEF fileVars
    <3>3. CASE startFile
      BY <3>1, <3>3 DEF startFile, fileStart, NotOpened, Opened, HeaderFails, ConstructorFails,
                        fileVars
    <3> QED
      BY <1>3, <3>2, <3>3 DEF doRecordReady, initializeRecord
  <2> QED
    BY <2>1, <2>2, <2>4, <2>5, <2>6 DEF StatusInv, ThreadsReport, Running
<1>4. CASE resetData
  <2>1. /\ UNCHANGED <<workerPc, raf, targetFile>> /\ allData' = <<>> /\ Post(<<"start">>)
        /\ uiPc = "clearData" /\ uiPc' = "spawn"
    BY <1>4 DEF resetData, fileVars
  <2>2. Foretold'
    <3>1. Len(allData') = 0 /\ allData' = <<>>
      BY <2>1
    <3>2. Len(allData') \in Nat
      BY <3>1
    <3> QED
      BY <1>0, <2>1, <3>1, <3>2, ForetoldMore
  <2> DEFINE msgs == <<"start">>
  <2>3. msgs \in Seq(Kinds) /\ \A j \in 1..Len(msgs) : j = 1 /\ msgs[j] = "start"
    BY DEF Kinds
  <2>4. Post(msgs)
    BY <2>1
  <2> HIDE DEF msgs
  <2>5. \A i, j \in 1..Len(msgs) : ~(i < j)
    BY <2>3
  <2>6. \A j \in 1..Len(msgs) : Fits(msgs[j])
    BY <1>0, <2>1, <2>3, PreparationFits DEF Outside, ThreadsReport
  <2>7. Orderly'
    BY <1>0, <2>3, <2>4, <2>5, <2>6, OrderlyPost
  <2>8. heard'.phase = "silent" /\ \A i \in 1..Len(queue') : queue'[i] \in {"saveFailed", "start"}
    BY <1>0, <2>1, <2>3, <2>4, Posts DEF ThreadsReport, NothingBefore
  <2>9. ~Running'
    BY <1>1, <2>1 DEF StartPcs, Running, Live
  <2> QED
    BY <1>0, <2>1, <2>2, <2>7, <2>8, <2>9
       DEF StatusInv, ThreadsReport, NothingBefore, Running, Unfinished, ErrorSent
<1>5. CASE spawnThread
  <2>1. /\ UNCHANGED <<queue, heard, allData, raf, targetFile>>
        /\ uiPc = "spawn" /\ uiPc' = "idle"
    BY <1>5 DEF spawnThread, fileVars
  <2> QED
    BY <1>0, <2>1, OrderStays DEF StatusInv, ThreadsReport, NothingBefore
<1> QED
  BY <1>2, <1>3, <1>4, <1>5 DEF UiRuns

(* A recording thread of such a client.                                    *)
LEMMA StatusWorker ==
  ASSUME TypeInv, OneAnnounced, StatusInv, NEW s \in Sessions, WorkerRuns(s)
  PROVE  StatusInv'
<1> USE DEF WorkerGoes, uiVars, idealVars, dataVars, recVars, looperVars
<1>0. /\ TypeOK /\ workerPc \in [Sessions -> WorkerPcs]
      /\ Orderly /\ Foretold /\ ThreadsReport
      /\ raf # 0 => targetFile # NoPath
  BY DEF TypeInv, TypeOK, StatusInv, ThreadsReport
<1>1. /\ Live(s) /\ UNCHANGED uiPc
      /\ \A t \in Sessions \ {s} : workerPc'[t] = workerPc[t]
      /\ workerPc[s] = "finish" => workerPc'[s] = "done"
  BY <1>0, WorkerMoves
<1>2. /\ \A t \in Sessions : Live(t) => t = s
      /\ uiPc \notin StartPcs
      /\ Announced /\ Unfinished
      /\ ErrorSent => Retires(s)
  BY <1>0, <1>1 DEF OneAnnounced, NoOverlap, ThreadsReport, Running
<1>3. \A t \in Sessions : Live(t)' => t = s
  BY <1>1, <1>2 DEF Live
<1>4. ASSUME Orderly', Foretold', Live(s)' => Unfinished', ErrorSent' /\ Live(s)' => Retires(s)',
             raf' # 0 => targetFile' # NoPath
      PROVE  StatusInv'
  BY <1>1, <1>2, <1>3, <1>4 DEF StatusInv, ThreadsReport, NothingBefore, StartPcs, Running
<1>5. CASE \/ bootTest(s) \/ bootVerify(s) \/ loopTest(s) \/ readFull(s) \/ countRead(s)
           \/ countUp(s) \/ recorderStop(s) \/ clearIsStarted(s) \/ unInitializeRecord(s)
           \/ warmUpCheck(s, "warm1", "read1") \/ warmUpRead(s, "read1", "warm2")
           \/ warmUpCheck(s, "warm2", "read2") \/ warmUpRead(s, "read2", "loop")
  <2>1. UNCHANGED <<queue, heard, allData, raf, targetFile, isFileInit>>
    BY <1>5 DEF bootTest, bootVerify, loopTest, readFull, countRead, countUp, recorderStop,
                clearIsStarted, unInitializeRecord, warmUpCheck, warmUpRead, fileVars
  <2>2. Retires(s) => Retires(s)'
    <3>1. CASE bootTest(s) \/ bootVerify(s) \/ loopTest(s) \/ readFull(s) \/ countRead(s)
      BY <1>0, <2>1, <3>1 DEF bootTest, bootVerify, loopTest, readFull, countRead, Retires
    <3>2. CASE countUp(s) \/ recorderStop(s) \/ clearIsStarted(s) \/ unInitializeRecord(s)
      BY <1>0, <2>1, <3>2 DEF countUp, recorderStop, clearIsStarted, unInitializeRecord, Retires
    <3>3. CASE \/ warmUpCheck(s, "warm1", "read1") \/ warmUpRead(s, "read1", "warm2")
               \/ warmUpCheck(s, "warm2", "read2") \/ warmUpRead(s, "read2", "loop")
      BY <1>0, <2>1, <3>3 DEF warmUpCheck, warmUpRead, Retires
    <3> QED
      BY <1>5, <3>1, <3>2, <3>3
  <2> QED
    BY <1>0, <1>2, <1>4, <2>1, <2>2, OrderStays
<1>6. CASE restart(s) \/ restartNull(s) \/ bootProbe(s) \/ readFails(s)
  <2>1. /\ UNCHANGED <<allData, isFileInit>> /\ ~ErrorSent
        /\ \/ UNCHANGED <<queue, heard, raf, targetFile>>
           \/ /\ onRecordedFail(<<"error">>) \/ onRecordedFail(<<"error", "error">>)
              /\ \/ workerPc'[s] \in {"verify", "warm1"} /\ recorder' = 0
                 \/ workerPc'[s] = "loop" /\ ~isRecord'
    BY <1>0, <1>2, <1>6 DEF restart, restartNull, bootProbe, readFails, Retires, fileVars
  <2>2. CASE UNCHANGED <<queue, heard, raf, targetFile>>
    BY <1>0, <1>2, <1>4, <2>1, <2>2, OrderStays
  <2>3. ASSUME NEW errors \in {<<"error">>, <<"error", "error">>}, onRecordedFail(errors),
               \/ workerPc'[s] \in {"verify", "warm1"} /\ recorder' = 0
               \/ workerPc'[s] = "loop" /\ ~isRecord'
        PROVE  StatusInv'
    <3>1. errors \in Seq(Kinds) /\ \A j \in 1..Len(errors) : errors[j] = "error"
      <4>1. CASE errors = <<"error">>
        BY <4>1 DEF Kinds
      <4>2. CASE errors = <<"error", "error">>
        BY <4>2 DEF Kinds
      <4> QED
        BY <2>3, <4>1, <4>2
    <3>2. Post(errors) /\ (isFileInit => raf' = 0) /\ (raf' # 0 => targetFile' # NoPath)
      BY <1>0, <2>3, FailGivesUp DEF onRecordedFail
    <3>3. MayFollow("error", "error")
      BY DEF MayFollow
    <3>4. Orderly' /\ Foretold'
      BY <1>0, <1>2, <2>1, <3>1, <3>2, <3>3, ReportsKeepOrder
    <3>5. Unfinished'
      BY <1>0, <1>2, <3>1, <3>2, PostQuietly
    <3>6. Retires(s)'
      BY <2>1, <2>3, <3>2 DEF Retires
    <3> QED
      BY <1>4, <3>2, <3>4, <3>5, <3>6
  <2> QED
    BY <2>1, <2>2, <2>3
<1>7. CASE save(s) \/ checkTime(s)
  <2>1. /\ UNCHANGED <<allData, raf, targetFile>> /\ ~ErrorSent
        /\ \/ UNCHANGED <<queue, heard>> \/ Post(<<>>) \/ Post(<<"saveFailed">>)
           \/ Post(<<"volume">>)
    BY <1>0, <1>2, <1>7 DEF save, checkTime, fileSave, fileVars, Retires
  <2>2. {"saveFailed", "volume"} \subseteq Kinds \ {"start", "data"}
    BY DEF Kinds
  <2>3. Orderly' /\ Foretold' /\ (ErrorSent' => ErrorSent) /\ Unfinished'
    <3>1. PICK kind \in {"saveFailed", "volume"} :
            UNCHANGED <<queue, heard>> \/ Post(<<>>) \/ Post(<<kind>>)
      BY <2>1
    <3> QED
      BY <1>0, <1>2, <2>1, <2>2, <3>1, ReportKeepsOrder
  <2> QED
    BY <1>0, <1>4, <2>1, <2>3
<1>8. CASE collect(s)
  <2>1. /\ UNCHANGED <<raf, targetFile>> /\ ~ErrorSent
        /\ allData' = Append(allData, s) /\ Post(<<"data">>)
    BY <1>0, <1>2, <1>8 DEF collect, fileVars, Retires
  <2>2. Foretold'
    <3>1. Len(allData') = Len(allData) + 1 /\ Len(allData') \in Nat
      BY <1>0, <2>1 DEF TypeOK
    <3> QED
      BY <1>0, <2>1, <3>1, ForetoldMore
  <2> DEFINE msgs == <<"data">>
  <2>3. msgs \in Seq(Kinds) /\ \A j \in 1..Len(msgs) : j = 1 /\ msgs[j] = "data"
    BY DEF Kinds
  <2>4. Post(msgs)
    BY <2>1
  <2> HIDE DEF msgs
  <2>5. \A i, j \in 1..Len(msgs) : ~(i < j)
    BY <2>3
  <2>6. "data" \in Kinds \ {"start"}
    BY DEF Kinds
  <2>7. \A j \in 1..Len(msgs) : Fits(msgs[j])
    BY <1>2, <2>1, <2>3, <2>6, ReportFits
  <2>8. Orderly'
    BY <1>0, <2>3, <2>4, <2>5, <2>7, OrderlyPost
  <2>9. Unfinished' /\ ~ErrorSent'
    BY <1>0, <1>2, <2>1, <2>3, <2>4, PostQuietly
  <2> QED
    BY <1>0, <1>4, <2>1, <2>2, <2>8, <2>9
<1>9. CASE onRecorderStop(s)
  <2>1. workerPc[s] = "finish" /\ ~Live(s)' /\ UNCHANGED allData
    BY <1>0, <1>9 DEF onRecorderStop, Live
  <2>2. \/ Post(<<"stop">>)
        \/ \E v \in Verdicts : /\ fileFinish(v) /\ isFileInit
                               /\ Post(v \o <<"stop">>)
    BY <1>9 DEF onRecorderStop
  <2>3. raf' # 0 => targetFile' # NoPath
    BY <1>0, <1>9 DEF onRecorderStop, fileFinish, fileVars
  <2>4. "stop" \in Kinds \ {"start", "data"}
    BY DEF Kinds
  <2>5. CASE Post(<<"stop">>)
    <3>1. Orderly' /\ Foretold'
      BY <1>0, <1>2, <2>1, <2>4, <2>5, ReportKeepsOrder
    <3> QED
      BY <1>4, <2>1, <2>3, <3>1
  <2>6. ASSUME NEW v \in Verdicts, fileFinish(v), isFileInit, Post(v \o <<"stop">>)
        PROVE  StatusInv'
    <3>1. PICK kind \in {"saved", "saveFailed"} :
            v = <<kind>> /\ (kind = "saved" => raf # 0)
      BY <2>6 DEF fileFinish
    <3>2. kind = "saved" => ~ErrorSent
      BY <1>2, <2>6, <3>1 DEF Retires
    <3> DEFINE msgs == <<kind, "stop">>
    <3>3. /\ msgs \in Seq(Kinds) /\ Len(msgs) = 2 /\ msgs[1] = kind /\ msgs[2] = "stop"
          /\ msgs = v \o <<"stop">>
      BY <3>1 DEF Kinds
    <3>4. Post(msgs)
      BY <2>6, <3>3
    <3> HIDE DEF msgs
    <3>5. \A j \in 1..Len(msgs) : j \in {1, 2}
      BY <3>3
    <3>6. MayFollow(kind, "stop")
      BY DEF MayFollow
    <3>7. \A i, j \in 1..Len(msgs) : i < j => MayFollow(msgs[i], msgs[j])
      BY <3>3, <3>5, <3>6
    <3>8. \A j \in 1..Len(msgs) : /\ msgs[j] \notin {"start", "data"}
                                  /\ ErrorSent => msgs[j] \in {"error", "saveFailed", "stop"}
      BY <3>2, <3>3, <3>5
    <3>9. Orderly' /\ Foretold'
      BY <1>0, <1>2, <2>1, <3>3, <3>4, <3>7, <3>8, ReportsKeepOrder
    <3> QED
      BY <1>4, <2>1, <2>3, <3>9
  <2> QED
    BY <2>2, <2>5, <2>6
<1> QED
  BY <1>5, <1>6, <1>7, <1>8, <1>9 DEF WorkerRuns

(* The setters, which such a client calls only when all is quiet, and the  *)
(* looper.                                                                 *)
LEMMA StatusRest ==
  ASSUME TypeInv, OneAnnounced, StatusInv, Client = {}, Setters \/ deliver \/ UNCHANGED vars
  PROVE  StatusInv'
<1>0. TypeOK /\ Orderly /\ Foretold /\ ThreadsReport
  BY DEF TypeInv, StatusInv
<1>1. CASE Setters
  <2>1. /\ Quiet
        /\ UNCHANGED <<uiPc, workerPc, recorder, isRecord, queue, heard, allData, raf, targetFile>>
    BY <1>1 DEF Setters, setRecordFilePath, setRecordConfig, setWavFormat, MayConfigure,
                setSavePath, setRecorderConfig, setWav, uiVars, recVars, dataVars, looperVars
  <2>2. ~ErrorSent
    BY <2>1 DEF Quiet, ErrorSent
  <2> QED
    BY <1>0, <2>1, <2>2, OrderStays DEF StatusInv, ThreadsReport, NothingBefore, Running, Live
<1>2. CASE UNCHANGED vars
  <2>1. UNCHANGED <<uiPc, workerPc, recorder, isRecord, isFileInit, queue, heard, allData, raf,
                    targetFile>>
    BY <1>2 DEF vars, uiVars, idealVars, recVars, dataVars, looperVars, fileVars
  <2> QED
    BY <1>0, <2>1, OrderStays DEF StatusInv, ThreadsReport, NothingBefore, Running, Live, Retires
<1>3. CASE deliver
  <2>1. /\ uiPc = "idle" /\ UNCHANGED <<uiPc, workerPc, recorder, isRecord, isFileInit, raf, targetFile>>
        /\ queue \in Seq(Kinds) /\ queue # <<>>
        /\ queue' = Tail(queue) /\ heard' = Told(Head(queue))
        /\ heard \in [phase: {"silent", "recording", "failed", "saved"}, chunks: Nat, total: Nat]
    BY <1>0, <1>3 DEF deliver, uiVars, idealVars, recVars, fileVars, TypeOK
  <2>2. /\ \A i \in 1..Len(queue') : i + 1 \in 1..Len(queue) /\ queue'[i] = queue[i + 1]
        /\ 1 \in 1..Len(queue) /\ Head(queue) = queue[1]
    BY <2>1
  <2>3. /\ heard'.phase = "failed" => heard.phase = "failed" \/ queue[1] = "error"
        /\ heard'.phase = "saved" => heard.phase = "saved" \/ queue[1] = "saved"
    BY <2>1, <2>2 DEF Told
  <2>4. (ErrorSent' => ErrorSent) /\ (Unfinished => Unfinished')
    BY <2>2, <2>3 DEF ErrorSent, Unfinished
  <2>5. Orderly' /\ Foretold'
    BY <1>0, <1>3, OrderlyDeliver, ForetoldDeliver
  <2> QED
    BY <1>0, <2>1, <2>4, <2>5 DEF StatusInv, ThreadsReport, NothingBefore, Running, Live, Retires
<1> QED
  BY <1>1, <1>2, <1>3

(* To a client that waits for onStopRecording before it starts or          *)
(* configures again, the recorder implements StatusContract: whatever      *)
(* fails, the listener hears of one recording after the other, of no data  *)
(* after an error or a saved file, and gets at the end as many buffers as  *)
(* were handed over one by one.                                            *)
THEOREM ContractImplemented == ASSUME Client = {} PROVE Spec => ContractHolds
<1>1. Init => Contract!ContractInit
  BY DEF Init, Contract!ContractInit
<1>2. TypeInv /\ OneAnnounced /\ StatusInv /\ [Next]_vars
        => StatusInv' /\ [Contract!ContractNext]_(Contract!contractVars)
  <2> SUFFICES ASSUME TypeInv, OneAnnounced, StatusInv, [Next]_vars
               PROVE  StatusInv' /\ [Contract!ContractNext]_(Contract!contractVars)
    OBVIOUS
  <2>0. UNCHANGED heard => UNCHANGED Contract!contractVars
    BY DEF Contract!contractVars
  <2>1. StatusInv'
    BY StatusUi, StatusWorker, StatusRest DEF Next
  <2>2. CASE deliver
    BY <2>0, <2>1, <2>2, DeliverKeepsContract DEF StatusInv, TypeInv
  <2>3. CASE ~deliver
    <3>1. ASSUME NEW s \in Sessions, WorkerRuns(s)
          PROVE  UNCHANGED heard
      BY <3>1 DEF WorkerRuns, bootTest, restart, restartNull, bootVerify, bootProbe, warmUpCheck,
                warmUpRead, loopTest, readFull, readFails, countRead, countUp, save, collect,
                checkTime, recorderStop, clearIsStarted, unInitializeRecord, onRecorderStop,
                onRecordedFail, Post, looperVars
    <3>2. ASSUME startCall \/ stopCall \/ UiRuns \/ Setters \/ UNCHANGED vars
          PROVE  UNCHANGED heard
      BY <3>2 DEF UiRuns, startCall, stopCall, raiseIsRecord, doRecordReady, initializeRecord,
                startFile, resetCount, resetData, spawnThread, startFails, clearIsRecord, checkThread,
                derefThread, joined, forgetThread, Setters, setRecordFilePath,
                setRecordConfig, setWavFormat, vars, looperVars, onRecordedFail, Post
    <3> QED
      BY <2>0, <2>1, <2>3, <3>1, <3>2 DEF Next
  <2> QED
    BY <2>1, <2>2, <2>3
<1>3. TypeInv /\ OneAnnounced /\ [Next]_vars => OneAnnounced'
  BY PatientStep
<1> QED
  BY <1>1, <1>2, <1>3, StatusInit, PatientInit, TypeInit, TypeStep, PTL
     DEF Spec, ContractHolds, Contract!ContractSpec
================================================================================

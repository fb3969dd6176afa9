--------------------------- MODULE FfmpegTaskProofs ----------------------------
(***************************************************************************)
(* Theorems about FfmpegTask, for every number of tasks and reports and    *)
(* every user.                                                             *)
(***************************************************************************)
EXTENDS FfmpegTask, Integers, TLAPS

USE TaskAssumption DEF Tasks

--------------------------------------------------------------------------------
(* Type correctness. *)

(* A message about a task that was submitted is a message.                 *)
LEMMA MessageTyped ==
  ASSUME TypeOK, NEW what \in Whats, NEW t \in 0..submitted, NEW obj \in Results \union {None}
  PROVE  Message(what, t, obj) \in Messages
BY DEF TypeOK, Message, Messages

(* A progress report leaves the looper's messages typed.                   *)
LEMMA ReportTyped ==
  ASSUME TypeOK, onProgressCallback
  PROVE  pending' \subseteq Messages /\ sent' \in Nat
<1>1. CASE UNCHANGED messageVars
  BY <1>1 DEF messageVars, TypeOK
<1>2. CASE listener # 0 /\ Send(Message("PROGRESS", listener, None))
  <2>1. Message("PROGRESS", listener, None) \in Messages
    BY MessageTyped DEF TypeOK, Whats
  <2> QED
    BY <1>2, <2>1 DEF Send, TypeOK
<1> QED
  BY <1>1, <1>2 DEF onProgressCallback

(* The application starts with well typed fields.                          *)
LEMMA TypeInit == Init => TypeOK
<1> SUFFICES ASSUME Init
             PROVE  TypeOK
  OBVIOUS
<1>1. submitted \in 0..MaxTasks /\ taken \in 0..submitted /\ listener \in 0..submitted
        /\ cancelOf \in 0..submitted /\ outputPath \in 0..submitted /\ reports \in 0..MaxReports
  BY DEF Init
<1>2. kind \in [Tasks -> TaskKinds] /\ told \in [begun: Nat, ended: Nat]
  BY DEF Init, TaskKinds
<1>3. poolPc = "idle" /\ poolPc \in PoolPcs /\ command \in 1..JointCommands /\ result \in Results
  BY DEF Init, PoolPcs, JointCommands, Results
<1> QED
  BY <1>1, <1>2, <1>3 DEF Init, TypeOK

(* The user's calls keep every field typed.                                *)
LEMMA UserTyped ==
  ASSUME TypeOK, (\E k \in TaskKinds : submit(k)) \/ (\E cancel \in BOOLEAN : cancelExecute(cancel))
  PROVE  TypeOK'
<1> USE DEF TypeOK, submitVars, poolVars, nativeVars, messageVars, activityVars
<1>1. ASSUME NEW k \in TaskKinds, submit(k)
      PROVE  TypeOK'
  <2>1. submitted' \in 0..MaxTasks /\ submitted' = submitted + 1
    BY <1>1 DEF submit
  <2>2. kind' \in [Tasks -> TaskKinds]
    BY <1>1 DEF submit
  <2>3. /\ taken' \in 0..submitted' /\ listener' \in 0..submitted' /\ outputPath' \in 0..submitted'
        /\ cancelOf' \in 0..submitted'
    BY <1>1, <2>1 DEF submit
  <2> QED
    BY <1>1, <2>1, <2>2, <2>3 DEF submit
<1>2. ASSUME NEW cancel \in BOOLEAN, cancelExecute(cancel)
      PROVE  TypeOK'
  BY <1>2 DEF cancelExecute
<1> QED
  BY <1>1, <1>2

(* The executor's thread keeps every field typed.                          *)
LEMMA PoolTyped ==
  ASSUME TypeOK, PoolRuns
  PROVE  TypeOK'
<1> USE DEF submitVars, poolVars, nativeVars, messageVars, activityVars, PoolGoes
<1>1. CASE take
  BY <1>1 DEF take, TypeOK, PoolPcs, JointCommands, Results
<1>2. CASE onBegin
  <2>1. pending' \subseteq Messages /\ sent' \in Nat
    BY <1>2, MessageTyped DEF onBegin, Send, TypeOK, Whats
  <2> QED
    BY <1>2, <2>1 DEF onBegin, TypeOK, PoolPcs
<1>3. CASE probe
  BY <1>3 DEF probe, TypeOK, PoolPcs
<1>4. CASE openFails
  BY <1>4 DEF openFails, TypeOK, PoolPcs, Results
<1>5. CASE opened
  BY <1>5 DEF opened, TypeOK, PoolPcs
<1>6. CASE cancelled
  BY <1>6 DEF cancelled, TypeOK, PoolPcs
<1>7. CASE transcodeStep
  <2>1. pending' \subseteq Messages /\ sent' \in Nat
    BY <1>7, ReportTyped DEF transcodeStep
  <2>2. reports' \in 0..MaxReports
    BY <1>7 DEF transcodeStep, TypeOK
  <2> QED
    BY <1>7, <2>1, <2>2 DEF transcodeStep, TypeOK, PoolPcs
<1>8. CASE loopEnds
  BY <1>8 DEF loopEnds, TypeOK, PoolPcs
<1>9. CASE conclude
  <2>1. pending' \subseteq Messages /\ sent' \in Nat
    BY <1>9, ReportTyped DEF conclude
  <2> QED
    BY <1>9, <2>1 DEF conclude, TypeOK, PoolPcs
<1>10. CASE nextCommand
  BY <1>10 DEF nextCommand, TypeOK, PoolPcs, JointCommands
<1>11. CASE onEnd
  <2>1. pending' \subseteq Messages /\ sent' \in Nat
    BY <1>11, MessageTyped DEF onEnd, Send, TypeOK, Whats, WithoutProgress
  <2> QED
    BY <1>11, <2>1 DEF onEnd, TypeOK, PoolPcs
<1>12. CASE clearListener
  BY <1>12 DEF clearListener, TypeOK, PoolPcs
<1> QED
  BY <1>1, <1>2, <1>3, <1>4, <1>5, <1>6, <1>7, <1>8, <1>9, <1>10, <1>11, <1>12 DEF PoolRuns

(* So does the delivery of a message.                                      *)
LEMMA DeliverTyped ==
  ASSUME TypeOK, Delivers
  PROVE  TypeOK'
BY DEF Delivers, deliver, TypeOK, Messages, DeletesTemps, submitVars, poolVars, nativeVars

(* TypeOK is inductive.                                                    *)
LEMMA TypeStep == TypeOK /\ [Next]_vars => TypeOK'
<1> SUFFICES ASSUME TypeOK, [Next]_vars
             PROVE  TypeOK'
  OBVIOUS
<1>1. CASE UNCHANGED vars
  BY <1>1 DEF vars, submitVars, poolVars, nativeVars, messageVars, activityVars, TypeOK
<1> QED
  BY <1>1, UserTyped, PoolTyped, DeliverTyped DEF Next

(* Every field keeps its type (TypeOK), for all constants: a listener, a   *)
(* path or a cancel never belongs to a task that was not submitted.        *)
THEOREM TypeCorrect == Spec => []TypeOK
BY TypeInit, TypeStep, PTL DEF Spec
--------------------------------------------------------------------------------
(* The contract: begin and end messages are delivered in turn.  They are   *)
(* numbered 1, 2, 3, ... as BEGIN 1, FINISH 1, BEGIN 2, FINISH 2, ...      *)

Number(m) == IF m.what = "BEGIN" THEN 2 * m.task - 1 ELSE 2 * m.task

Marks == {m \in pending : m.what # "PROGRESS"}

PostedMarks ==
  IF poolPc \in {"idle", "clear"} THEN 2 * taken
  ELSE IF poolPc = "begin" THEN 2 * taken - 2 ELSE 2 * taken - 1

DeliveredMarks == told.begun + told.ended

(* The marks that wait are those after the delivered ones, each once, and  *)
(* the looper holds them in their order.                                   *)
MarksInOrder ==
  /\ told.begun \in {told.ended, told.ended + 1}
  /\ DeliveredMarks <= PostedMarks
  /\ \A m \in Marks : DeliveredMarks < Number(m) /\ Number(m) <= PostedMarks
  /\ \A k \in Nat : DeliveredMarks < k /\ k <= PostedMarks => \E m \in Marks : Number(m) = k
  /\ \A m, n \in Marks : Number(m) = Number(n) => m = n
  /\ \A m, n \in Marks : Number(m) < Number(n) => m.at < n.at
  /\ \A m \in Marks : m.at < sent

(* At the start nothing waits.                                             *)
LEMMA OrderInit == Init => MarksInOrder
BY DEF Init, MarksInOrder, Marks, DeliveredMarks, PostedMarks

(* What a mark is made of, and that its number is one.                     *)
LEMMA MarkTyped ==
  ASSUME TypeOK, NEW m \in Marks
  PROVE  /\ m.at \in Nat /\ m.task \in Nat /\ m.what \in {"BEGIN", "FINISH"}
         /\ Number(m) \in Int
<1>1. m \in Messages /\ m.what # "PROGRESS"
  BY DEF Marks, TypeOK
<1>2. m.at \in Nat /\ m.task \in Nat /\ m.what \in {"BEGIN", "FINISH"}
  BY <1>1 DEF Messages, Whats
<1>3. 2 * m.task \in Int /\ 2 * m.task - 1 \in Int
  BY <1>2
<1> QED
  BY <1>2, <1>3 DEF Number

(* A step that neither posts nor delivers a mark keeps their order.        *)
LEMMA OrderFrame ==
  ASSUME TypeOK, TypeOK', MarksInOrder, Marks' = Marks, sent <= sent',
         told' = told, PostedMarks' = PostedMarks
  PROVE  MarksInOrder'
<1>1. DeliveredMarks' = DeliveredMarks
  BY DEF DeliveredMarks
<1>2. \A m \in Marks' : m.at < sent'
  <2> SUFFICES ASSUME NEW m \in Marks
               PROVE  m.at < sent'
    OBVIOUS
  <2>1. m.at \in Nat /\ m.at < sent /\ sent \in Nat /\ sent' \in Nat
    BY MarkTyped DEF MarksInOrder, TypeOK
  <2> QED
    BY <2>1
<1> QED
  BY <1>1, <1>2 DEF MarksInOrder, Number

(* The next mark is posted behind all others.                              *)
LEMMA OrderPost ==
  ASSUME TypeOK, TypeOK', MarksInOrder, NEW what \in {"BEGIN", "FINISH"},
         NEW obj \in Results \union {None},
         Marks' = Marks \union {Message(what, taken, obj)}, sent' = sent + 1,
         PostedMarks' = PostedMarks + 1, Number(Message(what, taken, obj)) = PostedMarks',
         UNCHANGED told
  PROVE  MarksInOrder'
<1> DEFINE new == Message(what, taken, obj)
<1>1. /\ sent \in Nat /\ PostedMarks \in Int /\ DeliveredMarks \in Nat
      /\ new.at = sent /\ Number(new) = PostedMarks + 1
  <2>1. sent \in Nat /\ DeliveredMarks \in Nat
    BY DEF TypeOK, DeliveredMarks
  <2>2. PostedMarks \in Int
    BY DEF TypeOK, PostedMarks
  <2>3. new.at = sent
    BY DEF Message
  <2> QED
    BY <2>1, <2>2, <2>3
<1>2. \A m \in Marks : m.at \in Nat /\ Number(m) \in Int
  BY MarkTyped
<1>3. UNCHANGED DeliveredMarks
  BY DEF DeliveredMarks
<1> HIDE DEF new
<1>4. \A k \in Nat : DeliveredMarks' < k /\ k <= PostedMarks' => \E m \in Marks' : Number(m) = k
  <2> SUFFICES ASSUME NEW k \in Nat, DeliveredMarks < k, k <= PostedMarks + 1
               PROVE  \E m \in Marks' : Number(m) = k
    BY <1>3
  <2>1. CASE k = PostedMarks + 1
    BY <1>1, <2>1 DEF new
  <2>2. CASE k <= PostedMarks
    BY <2>2 DEF MarksInOrder
  <2> QED
    BY <1>1, <2>1, <2>2
<1>5. \A m \in Marks' : m \in Marks \/ m = new
  BY DEF new
<1>6. \A m \in Marks : Number(m) <= PostedMarks /\ m.at < sent
  BY DEF MarksInOrder
<1>7. \A m, n \in Marks' : Number(m) = Number(n) => m = n
  BY <1>1, <1>2, <1>5, <1>6 DEF MarksInOrder
<1>8. \A m, n \in Marks' : Number(m) < Number(n) => m.at < n.at
  BY <1>1, <1>2, <1>5, <1>6 DEF MarksInOrder
<1>9. \A m \in Marks' : DeliveredMarks' < Number(m) /\ Number(m) <= PostedMarks' /\ m.at < sent'
  BY <1>1, <1>2, <1>3, <1>5, <1>6 DEF MarksInOrder
<1>10. told'.begun \in {told'.ended, told'.ended + 1} /\ DeliveredMarks' <= PostedMarks'
  BY <1>1, <1>3 DEF MarksInOrder
<1> QED
  BY <1>4, <1>7, <1>8, <1>9, <1>10 DEF MarksInOrder, Number

(* What posts no mark: the user, and most steps of the executor's thread.  *)
LEMMA OrderQuiet ==
  ASSUME TypeOK, TypeOK', MarksInOrder, [Next]_vars, ~onBegin, ~onEnd, ~Delivers
  PROVE  MarksInOrder'
<1>1. told' = told
  BY DEF Next, submit, cancelExecute, PoolRuns, take, probe, openFails, opened, cancelled,
         transcodeStep, loopEnds, conclude, nextCommand, clearListener, vars, activityVars
<1>2. PostedMarks' = PostedMarks
  <2>1. CASE take
    BY <2>1 DEF take, PoolGoes, PostedMarks, TypeOK
  <2>2. CASE probe \/ openFails \/ opened \/ cancelled \/ transcodeStep \/ loopEnds \/ conclude
    BY <2>2 DEF probe, openFails, opened, cancelled, transcodeStep, loopEnds, conclude, PoolGoes,
                PostedMarks
  <2>3. CASE nextCommand \/ clearListener
    BY <2>3 DEF nextCommand, clearListener, PoolGoes, PostedMarks
  <2>4. CASE UNCHANGED poolVars
    BY <2>4 DEF poolVars, PostedMarks
  <2> QED
    BY <2>1, <2>2, <2>3, <2>4 DEF Next, PoolRuns, submit, cancelExecute, vars
<1>3. UNCHANGED messageVars \/ onProgressCallback
  BY DEF Next, submit, cancelExecute, PoolRuns, take, probe, openFails, opened, cancelled,
         transcodeStep, loopEnds, conclude, nextCommand, clearListener, vars
<1>4. Marks' = Marks /\ sent <= sent'
  BY <1>3 DEF onProgressCallback, Send, Message, messageVars, Marks, TypeOK
<1> QED
  BY <1>1, <1>2, <1>4, OrderFrame

(* The message that is delivered is the next in turn, if it is a mark.     *)
LEMMA NextInTurn ==
  ASSUME TypeOK, MarksInOrder, NEW m \in Marks, \A n \in pending : m.at <= n.at
  PROVE  /\ Number(m) = DeliveredMarks + 1
         /\ m.what = "BEGIN" => told.begun = told.ended /\ m.task = told.begun + 1
         /\ m.what = "FINISH" => told.begun = told.ended + 1 /\ m.task = told.begun
<1>1. /\ m.task \in Nat /\ m.at \in Nat /\ m.what \in {"BEGIN", "FINISH"}
      /\ told.begun \in Nat /\ told.ended \in Nat
  BY DEF Marks, TypeOK, Messages, Whats
<1>2. PICK n \in Marks : Number(n) = DeliveredMarks + 1
  BY <1>1 DEF MarksInOrder, DeliveredMarks, PostedMarks, TypeOK, Number
<1>3. n.at \in Nat /\ m.at <= n.at
  BY DEF Marks, TypeOK, Messages
<1>4. Number(m) = DeliveredMarks + 1
  <2>1. ~(Number(n) < Number(m))
    BY <1>1, <1>3 DEF MarksInOrder
  <2>2. DeliveredMarks < Number(m)
    BY DEF MarksInOrder
  <2> QED
    BY <1>1, <1>2, <2>1, <2>2 DEF DeliveredMarks, Number
<1> QED
  BY <1>1, <1>4 DEF Number, DeliveredMarks, MarksInOrder

(* Delivering it leaves the order of the others.                           *)
LEMMA OrderDeliver ==
  ASSUME TypeOK, TypeOK', MarksInOrder, NEW m \in pending, deliver(m)
  PROVE  MarksInOrder'
<1>1. PostedMarks' = PostedMarks /\ sent' = sent
  BY DEF deliver, poolVars, PostedMarks
<1>2. CASE m.what = "PROGRESS"
  <2>1. Marks' = Marks
    BY <1>2 DEF deliver, Marks
  <2>2. told' = told
    BY <1>2 DEF deliver, TypeOK
  <2> QED
    BY <1>1, <2>1, <2>2, OrderFrame DEF TypeOK
<1>3. CASE m.what # "PROGRESS"
  <2>1. m \in Marks /\ Marks' = Marks \ {m}
    BY <1>3 DEF deliver, Marks
  <2>2. /\ Number(m) = DeliveredMarks + 1
        /\ m.what = "BEGIN" => told.begun = told.ended /\ m.task = told.begun + 1
        /\ m.what = "FINISH" => told.begun = told.ended + 1 /\ m.task = told.begun
    BY <2>1, NextInTurn DEF deliver
  <2>3. /\ told.begun \in Nat /\ told.ended \in Nat /\ m.what \in {"BEGIN", "FINISH"}
        /\ PostedMarks \in Int
    BY <1>3 DEF TypeOK, Messages, Whats, PostedMarks
  <2>4. DeliveredMarks' = DeliveredMarks + 1 /\ told'.begun \in {told'.ended, told'.ended + 1}
    BY <2>2, <2>3 DEF deliver, DeliveredMarks
  <2>5. \A n \in Marks' : DeliveredMarks' < Number(n)
    <3> SUFFICES ASSUME NEW n \in Marks'
                 PROVE  DeliveredMarks + 1 < Number(n)
      BY <2>4
    <3>1. DeliveredMarks < Number(n) /\ Number(n) # Number(m)
      BY <2>1 DEF MarksInOrder
    <3>2. Number(n) \in Int
      BY <2>1, MarkTyped
    <3> QED
      BY <2>2, <2>3, <3>1, <3>2 DEF DeliveredMarks
  <2>6. \A k \in Nat : DeliveredMarks' < k /\ k <= PostedMarks' => \E n \in Marks' : Number(n) = k
    <3> SUFFICES ASSUME NEW k \in Nat, DeliveredMarks + 1 < k, k <= PostedMarks
                 PROVE  \E n \in Marks' : Number(n) = k
      BY <1>1, <2>4
    <3>1. PICK n \in Marks : Number(n) = k
      BY <2>3 DEF MarksInOrder, DeliveredMarks
    <3> QED
      BY <2>1, <2>2, <2>3, <3>1 DEF DeliveredMarks
  <2>7. DeliveredMarks' <= PostedMarks'
    BY <1>1, <2>1, <2>2, <2>4 DEF MarksInOrder
  <2>8. \A n \in Marks' : Number(n) <= PostedMarks' /\ n.at < sent'
    BY <1>1, <2>1 DEF MarksInOrder
  <2>9. \A n, o \in Marks' : /\ Number(n) = Number(o) => n = o
                             /\ Number(n) < Number(o) => n.at < o.at
    BY <2>1 DEF MarksInOrder
  <2> QED
    BY <2>4, <2>5, <2>6, <2>7, <2>8, <2>9 DEF MarksInOrder, Number
<1> QED
  BY <1>2, <1>3

(* MarksInOrder is inductive relative to TypeOK.                           *)
LEMMA OrderStep == TypeOK /\ TypeOK' /\ MarksInOrder /\ [Next]_vars => MarksInOrder'
<1> SUFFICES ASSUME TypeOK, TypeOK', MarksInOrder, [Next]_vars
             PROVE  MarksInOrder'
  OBVIOUS
<1>1. CASE onBegin
  <2>1. Message("BEGIN", taken, None).what = "BEGIN" /\ Message("BEGIN", taken, None).task = taken
    BY DEF Message
  <2>2. Marks' = Marks \union {Message("BEGIN", taken, None)}
    BY <1>1, <2>1 DEF onBegin, Send, Marks
  <2>3. PostedMarks' = PostedMarks + 1 /\ PostedMarks' = 2 * taken - 1
    BY <1>1 DEF onBegin, PoolGoes, PostedMarks, TypeOK
  <2>4. sent' = sent + 1 /\ UNCHANGED told
    BY <1>1 DEF onBegin, Send, activityVars
  <2> QED
    BY <2>1, <2>2, <2>3, <2>4, OrderPost DEF Number
<1>2. CASE onEnd
  <2>1. PICK obj \in Results \union {None} :
          /\ Marks' = Marks \union {Message("FINISH", taken, obj)}
          /\ sent' = sent + 1
    <3>1. \A obj : Message("FINISH", taken, obj).what = "FINISH"
      BY DEF Message
    <3> QED
      BY <1>2, <3>1 DEF onEnd, Send, Marks, WithoutProgress, TypeOK
  <2>2. Number(Message("FINISH", taken, obj)) = 2 * taken
    BY DEF Message, Number
  <2>3. PostedMarks' = PostedMarks + 1 /\ PostedMarks' = 2 * taken
    BY <1>2 DEF onEnd, PoolGoes, PostedMarks, TypeOK
  <2>4. UNCHANGED told
    BY <1>2 DEF onEnd, activityVars
  <2> QED
    BY <2>1, <2>2, <2>3, <2>4, OrderPost
<1>3. CASE Delivers
  BY <1>3, OrderDeliver DEF Delivers
<1> QED
  BY <1>1, <1>2, <1>3, OrderQuiet

(* For any number of tasks, and however they overlap or are cancelled, the *)
(* activity sees them begin and end one after the other: FfmpegTask        *)
(* implements TaskContract (ContractHolds).                                *)
THEOREM ContractImplemented == Spec => ContractHolds
<1>1. Init => Contract!ContractInit
  BY DEF Init, Contract!ContractInit
<1>2. ASSUME TypeOK, MarksInOrder, [Next]_vars
      PROVE  [Contract!Begin \/ Contract!End]_<<told.begun, told.ended>>
  <2>1. CASE Delivers
    <3>1. PICK m \in pending : deliver(m)
      BY <2>1 DEF Delivers
    <3>2. CASE m.what = "PROGRESS"
      BY <3>1, <3>2 DEF deliver
    <3>3. CASE m.what # "PROGRESS"
      <4>1. m \in Marks
        BY <3>3 DEF Marks
      <4>2. /\ m.what \in {"BEGIN", "FINISH"}
            /\ m.what = "BEGIN" => told.begun = told.ended /\ m.task = told.begun + 1
            /\ m.what = "FINISH" => told.begun = told.ended + 1 /\ m.task = told.begun
        BY <1>2, <3>1, <4>1, MarkTyped, NextInTurn DEF deliver
      <4> QED
        BY <3>1, <4>2 DEF deliver, Contract!Begin, Contract!End
    <3> QED
      BY <3>2, <3>3
  <2>2. CASE ~Delivers
    <3>1. UNCHANGED told
      BY <1>2, <2>2 DEF Next, submit, cancelExecute, PoolRuns, take, onBegin, probe, openFails,
         opened, cancelled, transcodeStep, loopEnds, conclude, nextCommand, onEnd, clearListener,
         vars, activityVars
    <3> QED
      BY <3>1
  <2> QED
    BY <2>1, <2>2
<1> QED
  BY <1>1, <1>2, TypeInit, TypeStep, OrderInit, OrderStep, PTL
     DEF Spec, ContractHolds, Contract!ContractSpec

--------------------------------------------------------------------------------
(* The path shown with a success.                                          *)

(* For a user who waits, only the last task can be under way, and the path *)
(* it will be shown with is its own; a result comes from a single command. *)
PathIsKept ==
  /\ patient => told.ended \in {submitted, submitted - 1}
  /\ patient /\ told.ended # submitted /\ kind[submitted] = "single" => outputPath = submitted
  /\ \A m \in pending : m.what = "FINISH" => m.task <= taken
  /\ \A m \in pending : m.what = "FINISH" /\ m.obj # None => kind[m.task] = "single"

(* At the start no task is under way.                                      *)
LEMMA PathInit == Init => PathIsKept
BY DEF Init, PathIsKept

(* Submitting a task names its file, if it is a single command.            *)
LEMMA PathSubmit ==
  ASSUME TypeOK, PathIsKept, NEW k \in TaskKinds, submit(k)
  PROVE  PathIsKept'
<1>1. /\ submitted \in Nat /\ taken \in Nat /\ taken <= submitted /\ submitted' = submitted + 1
      /\ submitted + 1 \in Tasks
  BY DEF submit, TypeOK
<1>2. kind'[submitted + 1] = k /\ \A t \in Tasks : t # submitted + 1 => kind'[t] = kind[t]
  BY <1>1 DEF submit, TypeOK
<1>3. UNCHANGED <<told, pending, taken>>
  BY DEF submit, poolVars, messageVars
<1>4. patient' => told.ended = submitted
  BY DEF submit
<1>5. ASSUME NEW m \in pending, m.what = "FINISH", m.obj # None
      PROVE  kind'[m.task] = "single"
  <2>1. m.task \in Nat /\ m.task <= taken /\ kind[m.task] = "single"
    BY <1>5 DEF PathIsKept, TypeOK, Messages
  <2>2. CASE m.task \in Tasks
    BY <1>1, <1>2, <2>1, <2>2
  <2>3. CASE m.task = 0
    BY <1>1, <2>1, <2>3 DEF submit, TypeOK
  <2> QED
    BY <1>1, <2>1, <2>2, <2>3
<1>6. k = "single" => outputPath' = submitted + 1
  BY DEF submit
<1>7. patient' => told'.ended \in {submitted', submitted' - 1}
  BY <1>1, <1>3, <1>4
<1>8. patient' /\ kind'[submitted'] = "single" => outputPath' = submitted'
  BY <1>1, <1>2, <1>6
<1> QED
  BY <1>3, <1>5, <1>7, <1>8 DEF PathIsKept

(* A result is posted by a single command only.                            *)
LEMMA PathOnEnd ==
  ASSUME TypeOK, PathIsKept, onEnd
  PROVE  PathIsKept'
<1>1. UNCHANGED <<patient, told, submitted, kind, outputPath, taken>>
  BY DEF onEnd, submitVars, activityVars
<1>2. ASSUME NEW m \in pending', m \notin pending
      PROVE  m.task = taken /\ (m.obj # None => kind[taken] = "single")
  BY <1>2 DEF onEnd, Send, Message, WithoutProgress
<1>3. taken \in Nat
  BY DEF TypeOK
<1> QED
  BY <1>1, <1>2, <1>3 DEF PathIsKept

(* Steps of the user and the thread that end no task.                      *)
LEMMA PathQuiet ==
  ASSUME TypeOK, PathIsKept, [Next]_vars, ~onEnd, ~Delivers, \A k \in TaskKinds : ~submit(k)
  PROVE  PathIsKept'
<1>1. UNCHANGED <<patient, told, submitted, kind, outputPath>>
  BY DEF Next, cancelExecute, PoolRuns, take, onBegin, probe, openFails, opened, cancelled,
         transcodeStep, loopEnds, conclude, nextCommand, clearListener, vars, submitVars,
         activityVars
<1>2. UNCHANGED taken \/ taken' = taken + 1
  BY DEF Next, cancelExecute, PoolRuns, take, onBegin, probe, openFails, opened, cancelled,
         transcodeStep, loopEnds, conclude, nextCommand, clearListener, vars, poolVars
<1>3. UNCHANGED messageVars \/ onProgressCallback \/ Send(Message("BEGIN", taken, None))
  BY DEF Next, cancelExecute, PoolRuns, take, onBegin, probe, openFails, opened, cancelled,
         transcodeStep, loopEnds, conclude, nextCommand, clearListener, vars
<1>4. \A m \in pending' : m.what = "FINISH" => m \in pending
  BY <1>3 DEF onProgressCallback, Send, Message, messageVars
<1>5. \A m \in pending' : m.what = "FINISH" => m.task <= taken'
  <2> SUFFICES ASSUME NEW m \in pending, m.what = "FINISH"
               PROVE  m.task <= taken'
    BY <1>4
  <2>1. m.task \in Nat /\ taken \in Nat /\ m.task <= taken
    BY DEF PathIsKept, TypeOK, Messages
  <2> QED
    BY <1>2, <2>1
<1> QED
  BY <1>1, <1>4, <1>5 DEF PathIsKept

(* The end that is delivered is the one of the task under way.             *)
LEMMA PathDeliver ==
  ASSUME TypeOK, MarksInOrder, PathIsKept, NEW m \in pending, deliver(m)
  PROVE  /\ PathIsKept'
         /\ patient /\ m.what = "FINISH" => m.task = submitted /\ told.ended # submitted
<1>1. UNCHANGED <<patient, submitted, kind, taken>> /\ pending' \subseteq pending
  BY DEF deliver, submitVars, poolVars
<1>2. CASE m.what # "FINISH"
  <2>1. told'.ended = told.ended /\ outputPath' = outputPath
    BY <1>2 DEF deliver, ForgetsPath, TypeOK
  <2> QED
    BY <1>1, <1>2, <2>1 DEF PathIsKept
<1>3. CASE m.what = "FINISH"
  <2>1. m \in Marks
    BY <1>3 DEF Marks
  <2>2. /\ m.task = told.ended + 1 /\ m.task <= taken
        /\ told.ended \in Nat /\ taken \in Nat /\ taken <= submitted /\ submitted \in Nat
    BY <1>3, <2>1, NextInTurn DEF deliver, PathIsKept, TypeOK
  <2>3. patient => m.task = submitted /\ told.ended # submitted
    BY <2>2 DEF PathIsKept
  <2>4. told'.ended = m.task
    BY <1>3 DEF deliver
  <2> QED
    BY <1>1, <2>3, <2>4 DEF PathIsKept
<1> QED
  BY <1>2, <1>3

(* PathIsKept is inductive relative to TypeOK and MarksInOrder.            *)
LEMMA PathStep == TypeOK /\ MarksInOrder /\ PathIsKept /\ [Next]_vars => PathIsKept'
BY PathSubmit, PathOnEnd, PathQuiet, PathDeliver DEF Delivers

(* A step that delivers a message handles that one, and it is the oldest.  *)
LEMMA DeliveredIsOldest ==
  ASSUME TypeOK, [Next]_vars, NEW m \in pending, Delivered(m)
  PROVE  deliver(m)
<1>1. m \notin pending' /\ sent' = sent /\ sent \in Nat
  BY DEF Delivered, TypeOK
<1>2. ~onEnd
  <2>1. onEnd => sent' = sent + 1
    BY DEF onEnd, Send
  <2> QED
    BY <1>1, <2>1
<1>3. Delivers \/ pending \subseteq pending'
  BY <1>2 DEF Next, submit, cancelExecute, PoolRuns, take, onBegin, probe, openFails, opened,
     cancelled, transcodeStep, loopEnds, conclude, nextCommand, clearListener, vars,
     onProgressCallback, Send, messageVars
<1>4. PICK n \in pending : deliver(n)
  BY <1>1, <1>3 DEF Delivers
<1>5. n = m
  BY <1>1, <1>4 DEF deliver
<1> QED
  BY <1>4, <1>5

(* To a user who waits for MSG_FINISH before cutting again, the path that  *)
(* is shown with a success is the output of the task that succeeded        *)
(* (SuccessNamesItsOutput), however many tasks of whatever kind there are. *)
THEOREM PathIsRight == Spec => SuccessNamesItsOutput
<1>1. ASSUME TypeOK, MarksInOrder, PathIsKept, [Next]_vars, patient, NEW m \in pending,
             Delivered(m), m.what = "FINISH", m.obj = 0
      PROVE  outputPath = m.task
  <2>1. deliver(m)
    BY <1>1, DeliveredIsOldest
  <2>2. m.task = submitted /\ told.ended # submitted
    BY <1>1, <2>1, PathDeliver
  <2>3. kind[m.task] = "single"
    BY <1>1 DEF PathIsKept, None
  <2> QED
    BY <1>1, <2>2, <2>3 DEF PathIsKept
<1>2. TypeOK /\ MarksInOrder /\ PathIsKept /\ [Next]_vars
        => [patient => \A m \in pending :
              Delivered(m) /\ m.what = "FINISH" /\ m.obj = 0 => outputPath = m.task]_vars
  BY <1>1
<1> QED
  BY <1>2, TypeInit, TypeStep, OrderInit, OrderStep, PathInit, PathStep, PTL
     DEF Spec, SuccessNamesItsOutput

--------------------------------------------------------------------------------
(* The temporary files of a list.                                          *)

(* To a user who waits for MSG_FINISH before cutting again, the temporary  *)
(* files of concatAudio are deleted only when its last command has         *)
(* returned (TempsAreKept), however many tasks of whatever kind there are. *)
THEOREM TempsOutliveTheList == Spec => TempsAreKept
<1>1. ASSUME TypeOK, MarksInOrder, PathIsKept, [Next]_vars, patient, temps # {}, temps' = {}
      PROVE  poolPc \in {"idle", "clear"}
  <2>1. PICK m \in pending : deliver(m)
    <3>1. Delivers \/ temps \subseteq temps'
      BY <1>1 DEF Next, submit, cancelExecute, PoolRuns, take, onBegin, probe, openFails, opened,
         cancelled, transcodeStep, loopEnds, conclude, nextCommand, onEnd, clearListener, vars
    <3> QED
      BY <1>1, <3>1 DEF Delivers
  <2>2. m.what = "FINISH" /\ m \in Marks
    BY <1>1, <2>1 DEF deliver, DeletesTemps, Marks
  <2>3. m.task = submitted /\ m.task <= taken /\ taken \in Nat /\ submitted \in Nat
          /\ taken <= submitted
    BY <1>1, <2>1, <2>2, PathDeliver DEF PathIsKept, TypeOK
  <2>4. Number(m) = 2 * taken /\ Number(m) <= PostedMarks
    BY <1>1, <2>2, <2>3 DEF Number, MarksInOrder
  <2> QED
    BY <2>3, <2>4 DEF PostedMarks
<1>2. TypeOK /\ MarksInOrder /\ PathIsKept /\ [Next]_vars
        => [patient /\ temps # {} /\ temps' = {} => poolPc \in {"idle", "clear"}]_vars
  BY <1>1
<1> QED
  BY <1>2, TypeInit, TypeStep, OrderInit, OrderStep, PathInit, PathStep, PTL
     DEF Spec, TempsAreKept

--------------------------------------------------------------------------------
(* Progress is shown between the begin and the end of its task.            *)

(* Where the progress message m lies: it is about the last task, which the *)
(* thread has begun, behind its BEGIN and ahead of its FINISH.             *)
LiesBetween(m) ==
  /\ m.task = submitted /\ told.ended # submitted
  /\ taken = submitted /\ poolPc # "begin"
  /\ m.at < sent
  /\ \A n \in pending : n.what = "BEGIN" => n.at < m.at
  /\ \A n \in pending : n.what = "FINISH" => m.at < n.at

(* For a user who waits, the listener is the last task's, or nobody's,     *)
(* whenever a command can report to it.                                    *)
ProgressIsKept ==
  /\ poolPc \in {"loop", "trailer"} => kind[taken] # "probe"
  /\ patient => listener \in {0, submitted} \/ kind[submitted] = "probe"
  /\ patient => \A m \in pending : m.what = "PROGRESS" => LiesBetween(m)

(* At the start nothing is reported.                                       *)
LEMMA ProgressInit == Init => ProgressIsKept
BY DEF Init, ProgressIsKept

(* Only a user who waits submits patiently, and then nothing is reported.  *)
LEMMA ProgressSubmit ==
  ASSUME TypeOK, ProgressIsKept, NEW k \in TaskKinds, submit(k)
  PROVE  ProgressIsKept'
<1>1. /\ submitted \in Nat /\ taken \in Nat /\ taken <= submitted /\ submitted' = submitted + 1
      /\ submitted + 1 \in Tasks
  BY DEF submit, TypeOK
<1>2. kind'[submitted + 1] = k /\ \A t \in Tasks : t # submitted + 1 => kind'[t] = kind[t]
  BY <1>1 DEF submit, TypeOK
<1>3. UNCHANGED <<pending, taken, poolPc>>
  BY DEF submit, poolVars, messageVars
<1>4. patient' => patient /\ told.ended = submitted
  BY DEF submit
<1>5. patient' => \A m \in pending : m.what # "PROGRESS"
  BY <1>4 DEF ProgressIsKept, LiesBetween
<1>6. listener' = submitted + 1 \/ k = "probe"
  BY DEF submit
<1>7. poolPc' \in {"loop", "trailer"} => kind'[taken'] # "probe"
  <2>1. poolPc \in {"loop", "trailer"} => taken \in Tasks
    BY <1>1 DEF TypeOK
  <2> QED
    BY <1>1, <1>2, <1>3, <2>1 DEF ProgressIsKept
<1> QED
  BY <1>1, <1>2, <1>3, <1>5, <1>6, <1>7 DEF ProgressIsKept

(* While a command can report to a user who waits, it is the last task's,  *)
(* and no FINISH waits.                                                    *)
LEMMA ReportsAreInside ==
  ASSUME TypeOK, MarksInOrder, PathIsKept, patient, poolPc \in {"loop", "trailer"}
  PROVE  /\ taken = submitted /\ told.ended # submitted
         /\ \A n \in pending : n.what # "FINISH"
<1>1. /\ told.begun \in Nat /\ told.ended \in Nat /\ taken \in Nat /\ submitted \in Nat
      /\ taken <= submitted
  BY DEF TypeOK
<1>2. PostedMarks = 2 * taken - 1 /\ DeliveredMarks \in {2 * told.ended, 2 * told.ended + 1}
        /\ DeliveredMarks <= PostedMarks
  BY <1>1 DEF PostedMarks, DeliveredMarks, MarksInOrder
<1>3. told.ended < taken
  BY <1>1, <1>2
<1>4. taken = submitted /\ told.ended = taken - 1
  BY <1>1, <1>3 DEF PathIsKept
<1>5. ASSUME NEW n \in pending, n.what = "FINISH"
      PROVE  FALSE
  <2>1. n \in Marks
    BY <1>5 DEF Marks
  <2>2. n.task \in Nat /\ Number(n) = 2 * n.task
    BY <1>5, <2>1, MarkTyped DEF Number
  <2>3. DeliveredMarks < Number(n) /\ Number(n) <= PostedMarks
    BY <2>1 DEF MarksInOrder
  <2>4. 2 * taken - 2 < 2 * n.task /\ 2 * n.task <= 2 * taken - 1
    BY <1>1, <1>2, <1>4, <2>2, <2>3
  <2> QED
    BY <1>1, <2>2, <2>4
<1> QED
  BY <1>1, <1>4, <1>5

(* A report to such a user lies behind the BEGIN of its task.              *)
LEMMA ProgressReport ==
  ASSUME TypeOK, MarksInOrder, PathIsKept, ProgressIsKept, transcodeStep \/ conclude
  PROVE  ProgressIsKept'
<1>1. /\ UNCHANGED <<patient, told, submitted, kind, listener, taken>>
      /\ poolPc \in {"loop", "trailer"} /\ poolPc' \in {"loop", "returned"}
      /\ poolPc' = "loop" => poolPc = "loop"
  BY DEF transcodeStep, conclude, PoolGoes, submitVars, nativeVars, activityVars
<1>2. onProgressCallback
  BY DEF transcodeStep, conclude
<1>3. CASE UNCHANGED messageVars
  BY <1>1, <1>3 DEF ProgressIsKept, LiesBetween, messageVars
<1>4. CASE listener # 0 /\ Send(Message("PROGRESS", listener, None))
  <2> DEFINE new == Message("PROGRESS", listener, None)
  <2>1. /\ pending' = pending \union {new} /\ sent' = sent + 1 /\ sent \in Nat
        /\ new.at = sent /\ new.what = "PROGRESS" /\ new.task = listener
    BY <1>4 DEF Send, Message, TypeOK
  <2> HIDE DEF new
  <2> SUFFICES ASSUME patient, NEW m \in pending', m.what = "PROGRESS"
               PROVE  LiesBetween(m)'
    BY <1>1 DEF ProgressIsKept
  <2>2. /\ taken = submitted /\ told.ended # submitted
        /\ \A n \in pending : n.what # "FINISH"
    BY <1>1, ReportsAreInside
  <2>3. listener = submitted
    BY <1>1, <1>4, <2>2 DEF ProgressIsKept
  <2>4. CASE m = new
    <3>1. \A n \in pending : n.what = "BEGIN" => n.at < sent
      BY DEF MarksInOrder, Marks
    <3> QED
      BY <1>1, <2>1, <2>2, <2>3, <2>4, <3>1 DEF LiesBetween
  <2>5. CASE m \in pending
    <3>1. m.at \in Nat /\ LiesBetween(m)
      BY <2>5 DEF ProgressIsKept, TypeOK, Messages
    <3> QED
      BY <1>1, <2>1, <2>2, <3>1 DEF LiesBetween
  <2> QED
    BY <2>1, <2>4, <2>5
<1> QED
  BY <1>2, <1>3, <1>4 DEF onProgressCallback

(* A task that begins finds no progress message of the one before.         *)
LEMMA ProgressOnBegin ==
  ASSUME TypeOK, ProgressIsKept, take \/ onBegin
  PROVE  ProgressIsKept'
<1>1. /\ UNCHANGED <<patient, told, submitted, kind, listener>>
      /\ poolPc' \in {"begin", "handle"}
  BY DEF take, onBegin, PoolGoes, submitVars, nativeVars, activityVars
<1>2. patient => \A m \in pending : m.what # "PROGRESS"
  <2> SUFFICES ASSUME patient, NEW m \in pending, m.what = "PROGRESS"
               PROVE  FALSE
    OBVIOUS
  <2>1. taken = submitted /\ poolPc # "begin"
    BY DEF ProgressIsKept, LiesBetween
  <2>2. submitted \in Nat /\ ~(submitted < submitted)
    BY DEF TypeOK
  <2>3. ~onBegin /\ (take => taken < submitted)
    BY <2>1 DEF onBegin, take, PoolGoes
  <2> QED
    BY <2>1, <2>2, <2>3
<1>3. \A m \in pending' : m.what = "PROGRESS" => m \in pending
  BY DEF take, onBegin, Send, Message, messageVars
<1> QED
  BY <1>1, <1>2, <1>3 DEF ProgressIsKept

(* A task that ends posts its FINISH behind every progress message.        *)
LEMMA ProgressOnEnd ==
  ASSUME TypeOK, ProgressIsKept, onEnd
  PROVE  ProgressIsKept'
<1>1. /\ UNCHANGED <<patient, told, submitted, kind, listener, taken>>
      /\ poolPc' = "clear" /\ sent' = sent + 1 /\ sent \in Nat
  BY DEF onEnd, PoolGoes, Send, submitVars, nativeVars, activityVars, TypeOK
<1>2. ASSUME patient, NEW m \in pending', m.what = "PROGRESS"
      PROVE  LiesBetween(m)'
  <2>1. \A n \in pending' : n \in pending \/ (n.what = "FINISH" /\ n.at = sent)
    BY DEF onEnd, WithoutProgress, Send, Message
  <2>2. m \in pending /\ LiesBetween(m) /\ m.at \in Nat
    BY <1>2, <2>1 DEF ProgressIsKept, TypeOK, Messages
  <2> QED
    BY <1>1, <2>1, <2>2 DEF LiesBetween
<1> QED
  BY <1>1, <1>2 DEF ProgressIsKept

(* A progress message that waits is not overtaken by the end of its task.  *)
LEMMA ProgressDeliver ==
  ASSUME TypeOK, ProgressIsKept, NEW n \in pending, deliver(n)
  PROVE  ProgressIsKept'
<1>1. /\ UNCHANGED <<patient, submitted, kind, listener, taken, poolPc, sent>>
      /\ pending' = pending \ {n}
  BY DEF deliver, submitVars, poolVars, nativeVars
<1>2. ASSUME patient, NEW m \in pending', m.what = "PROGRESS"
      PROVE  LiesBetween(m)'
  <2>1. m \in pending /\ LiesBetween(m) /\ m.at \in Nat /\ n.at \in Nat /\ n.at <= m.at
    BY <1>1, <1>2 DEF ProgressIsKept, TypeOK, Messages, deliver
  <2>2. n.what # "FINISH"
    BY <2>1 DEF LiesBetween
  <2>3. told'.ended = told.ended
    BY <2>2 DEF deliver, TypeOK
  <2> QED
    BY <1>1, <2>1, <2>3 DEF LiesBetween
<1> QED
  BY <1>1, <1>2 DEF ProgressIsKept

(* The other steps send nothing, and forget the listener at most.          *)
LEMMA ProgressQuiet ==
  ASSUME TypeOK, ProgressIsKept,
         \/ \E cancel \in BOOLEAN : cancelExecute(cancel)
         \/ probe \/ openFails \/ opened \/ cancelled \/ loopEnds \/ nextCommand \/ clearListener
         \/ UNCHANGED vars
  PROVE  ProgressIsKept'
<1>1. /\ UNCHANGED <<patient, told, submitted, kind, pending, sent, taken>>
      /\ listener' \in {0, listener}
      /\ poolPc' = poolPc \/ poolPc' # "begin"
  BY DEF cancelExecute, probe, openFails, opened, cancelled, loopEnds, nextCommand,
         clearListener, PoolGoes, vars, submitVars, poolVars, nativeVars, messageVars, activityVars
<1>2. poolPc' \in {"loop", "trailer"} => kind[taken] # "probe"
  BY DEF cancelExecute, probe, openFails, opened, cancelled, loopEnds, nextCommand,
         clearListener, PoolGoes, vars, poolVars, ProgressIsKept
<1> QED
  BY <1>1, <1>2 DEF ProgressIsKept, LiesBetween

(* ProgressIsKept is inductive relative to the invariants before it.       *)
LEMMA ProgressStep ==
  TypeOK /\ MarksInOrder /\ PathIsKept /\ ProgressIsKept /\ [Next]_vars => ProgressIsKept'
BY ProgressSubmit, ProgressReport, ProgressOnBegin, ProgressOnEnd, ProgressDeliver, ProgressQuiet
   DEF Next, PoolRuns, Delivers

(* To a user who waits for MSG_FINISH before cutting again, progress is    *)
(* shown only between the BEGIN and the FINISH of the task it is about     *)
(* (ProgressIsInTime): the static listener, which every task overwrites    *)
(* and a list does not withdraw from, never mixes two tasks up.            *)
THEOREM ProgressIsTimely == Spec => ProgressIsInTime
<1>1. ASSUME TypeOK, MarksInOrder, PathIsKept, ProgressIsKept, [Next]_vars, patient,
             NEW m \in pending, Delivered(m), m.what = "PROGRESS"
      PROVE  m.task = told.begun /\ told.ended < m.task
  <2>1. \A n \in pending : m.at <= n.at
    BY <1>1, DeliveredIsOldest DEF deliver
  <2>2. LiesBetween(m) /\ told.ended \in {submitted, submitted - 1}
    BY <1>1 DEF ProgressIsKept, PathIsKept
  <2>3. /\ told.begun \in Nat /\ told.ended \in Nat /\ submitted \in Nat /\ m.at \in Nat
        /\ \A n \in pending : n.at \in Nat
    BY <1>1 DEF TypeOK, Messages
  <2>4. m.task = submitted /\ told.ended = submitted - 1 /\ taken = submitted
    BY <2>2 DEF LiesBetween
  <2>5. \A n \in pending : n.what # "BEGIN"
    BY <2>1, <2>2, <2>3 DEF LiesBetween
  <2>6. told.begun # told.ended
    <3> SUFFICES ASSUME told.begun = told.ended
                 PROVE  FALSE
      OBVIOUS
    <3>1. PostedMarks >= 2 * submitted - 1 /\ DeliveredMarks = 2 * submitted - 2
      BY <2>2, <2>3, <2>4 DEF LiesBetween, PostedMarks, DeliveredMarks
    <3>2. 2 * submitted - 1 \in Nat /\ DeliveredMarks < 2 * submitted - 1
            /\ 2 * submitted - 1 <= PostedMarks
      <4>1. PostedMarks \in Int
        BY <2>3, <2>4 DEF PostedMarks
      <4> QED
        BY <2>3, <2>4, <3>1, <4>1
    <3>3. PICK n \in Marks : Number(n) = 2 * submitted - 1
      BY <1>1, <3>2 DEF MarksInOrder
    <3>4. n.what = "FINISH" /\ n.task \in Nat
      BY <1>1, <2>5, MarkTyped DEF Marks
    <3>5. 2 * n.task = 2 * submitted - 1
      BY <3>3, <3>4 DEF Number
    <3> QED
      BY <2>3, <3>4, <3>5
  <2>7. told.begun = told.ended + 1
    BY <1>1, <2>6 DEF MarksInOrder
  <2> QED
    BY <2>3, <2>4, <2>7
<1>2. TypeOK /\ MarksInOrder /\ PathIsKept /\ ProgressIsKept /\ [Next]_vars
        => [patient => \A m \in pending :
              Delivered(m) /\ m.what = "PROGRESS" => m.task = told.begun /\ told.ended < m.task]_vars
  BY <1>1
<1> QED
  BY <1>2, TypeInit, TypeStep, OrderInit, OrderStep, PathInit, PathStep, ProgressInit,
     ProgressStep, PTL
     DEF Spec, ProgressIsInTime
================================================================================

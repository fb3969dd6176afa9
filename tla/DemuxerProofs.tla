----------------------------- MODULE DemuxerProofs -----------------------------
(***************************************************************************)
(* Theorems about Demuxer, for any number of files and streams: it keeps   *)
(* its types, and the queues of a file outlive its thread.  And the lemmas *)
(* that TranscodeProofs takes for a run: what becomes of the durations of  *)
(* a file that loops, and of a file that has ended.                        *)
(***************************************************************************)
EXTENDS Demuxer, FiniteSetTheorems, TLAPS

USE DemuxerAssumption

(* A file is read again only while it has passes left.                     *)
PassIsLeft == \A f \in Files : dmxPc[f] = "seek" => passes[f] > 0

DemuxerInv == DemuxerTypeOK /\ PassIsLeft /\ QueuesOutliveThreads

LEMMA DemuxerInitInv == DemuxerInit => DemuxerInv
  <1> SUFFICES ASSUME DemuxerInit PROVE DemuxerInv
    OBVIOUS
  <1>1. /\ [f \in Files |-> "none"] \in [Files -> {"none", "read", "seek", "ended"}]
        /\ [f \in Files |-> <<>>] \in [Files -> Seq(Messages)]
        /\ [f \in Files |-> 0] \in [Files -> Nat]
    OBVIOUS
  <1>2. DemuxerTypeOK
    BY <1>1 DEF DemuxerInit, DemuxerTypeOK
  <1>3. PassIsLeft /\ QueuesOutliveThreads
    BY DEF DemuxerInit, PassIsLeft, QueuesOutliveThreads
  <1> QED BY <1>2, <1>3 DEF DemuxerInv

(* What the steps do to the queue of file f.                               *)
LEMMA QueueOfFile ==
  ASSUME DemuxerTypeOK, NEW f \in Files
  PROVE  /\ inQueue[f] \in Seq(Messages)
         /\ \A m \in Messages :
              [inQueue EXCEPT ![f] = Append(inQueue[f], m)] \in [Files -> Seq(Messages)]
         /\ inQueue[f] # <<>> =>
              [inQueue EXCEPT ![f] = Tail(inQueue[f])] \in [Files -> Seq(Messages)]
  <1>1. inQueue[f] \in Seq(Messages) /\ inQueue \in [Files -> Seq(Messages)]
    BY DEF DemuxerTypeOK
  <1>2. ASSUME NEW m \in Messages
        PROVE  [inQueue EXCEPT ![f] = Append(inQueue[f], m)] \in [Files -> Seq(Messages)]
    <2>1. Append(inQueue[f], m) \in Seq(Messages)
      BY <1>1
    <2> QED BY <1>1, <2>1
  <1>3. ASSUME inQueue[f] # <<>>
        PROVE  [inQueue EXCEPT ![f] = Tail(inQueue[f])] \in [Files -> Seq(Messages)]
    <2>1. Tail(inQueue[f]) \in Seq(Messages)
      BY <1>1, <1>3
    <2> QED BY <1>1, <2>1
  <1> QED BY <1>1, <1>2, <1>3

LEMMA readAndSend_Inv ==
  ASSUME DemuxerInv, NEW f \in Files, readAndSend(f)
  PROVE  DemuxerInv'
  <1>1. /\ dmxPc[f] = "read" /\ dmxPc \in [Files -> {"none", "read", "seek", "ended"}]
        /\ UNCHANGED <<opened, errSend, durations, gotDurations, passes, stopping>>
    BY DEF readAndSend, DemuxerInv, DemuxerTypeOK
  <1>2. /\ \/ dmxPc' = [dmxPc EXCEPT ![f] = "ended"]
           \/ UNCHANGED dmxPc
           \/ dmxPc' = [dmxPc EXCEPT ![f] = "seek"] /\ passes[f] > 0
        /\ errRecv' \subseteq errRecv \union {f}
    BY DEF readAndSend, endThread
  <1>3. inQueue' \in [Files -> Seq(Messages)]
    <2>1. \/ UNCHANGED inQueue
          \/ \E m \in Messages : inQueue' = [inQueue EXCEPT ![f] = Append(inQueue[f], m)]
      BY DEF readAndSend, endThread, Messages
    <2>2. inQueue \in [Files -> Seq(Messages)]
      BY DEF DemuxerInv, DemuxerTypeOK
    <2>3. \A m \in Messages :
            [inQueue EXCEPT ![f] = Append(inQueue[f], m)] \in [Files -> Seq(Messages)]
      BY QueueOfFile DEF DemuxerInv
    <2> QED BY <2>1, <2>2, <2>3, Zenon
  <1>4. packetsRead' \in [Files -> Nat]
    BY DEF readAndSend, endThread, DemuxerInv, DemuxerTypeOK
  <1>5. DemuxerTypeOK'
    BY <1>1, <1>2, <1>3, <1>4 DEF DemuxerInv, DemuxerTypeOK
  <1>6. PassIsLeft' /\ QueuesOutliveThreads'
    BY <1>1, <1>2 DEF DemuxerInv, PassIsLeft, QueuesOutliveThreads
  <1> QED BY <1>5, <1>6 DEF DemuxerInv

LEMMA seek_to_start_Inv ==
  ASSUME DemuxerInv, NEW f \in Files, seek_to_start(f)
  PROVE  DemuxerInv'
  <1>1. /\ dmxPc[f] = "seek" /\ dmxPc \in [Files -> {"none", "read", "seek", "ended"}]
        /\ passes[f] > 0 /\ passes \in [Files -> Nat]
        /\ UNCHANGED <<opened, errSend, inQueue, packetsRead, stopping>>
    BY DEF seek_to_start, endThread, DemuxerInv, DemuxerTypeOK, PassIsLeft
  <1>2. /\ \/ dmxPc' = [dmxPc EXCEPT ![f] = "ended"] /\ UNCHANGED passes
           \/ UNCHANGED <<dmxPc, passes>>
           \/ dmxPc' = [dmxPc EXCEPT ![f] = "read"] /\ passes' = [passes EXCEPT ![f] = passes[f] - 1]
        /\ errRecv' \subseteq errRecv \union {f}
    BY DEF seek_to_start, endThread
  <1>3. passes' \in [Files -> Nat]
    <2>1. passes[f] - 1 \in Nat
      BY <1>1
    <2> QED BY <1>1, <1>2, <2>1
  <1>4. durations' \in [Files -> Nat] /\ gotDurations' \in [Files -> Nat]
    <2>1. /\ \/ UNCHANGED durations
             \/ durations[f] > 0 /\ durations' = [durations EXCEPT ![f] = durations[f] - 1]
          /\ \/ UNCHANGED gotDurations
             \/ gotDurations' = [gotDurations EXCEPT ![f] = gotDurations[f] + 1]
             \/ gotDurations' = [gotDurations EXCEPT ![f] = 0]
      BY DEF seek_to_start
    <2>2. /\ durations \in [Files -> Nat] /\ gotDurations \in [Files -> Nat]
          /\ durations[f] \in Nat /\ gotDurations[f] \in Nat
      BY DEF DemuxerInv, DemuxerTypeOK
    <2>3. durations[f] > 0 => durations[f] - 1 \in Nat
      BY <2>2
    <2>4. gotDurations[f] + 1 \in Nat
      BY <2>2
    <2> QED BY <2>1, <2>2, <2>3, <2>4
  <1>5. DemuxerTypeOK'
    BY <1>1, <1>2, <1>3, <1>4 DEF DemuxerInv, DemuxerTypeOK
  <1>6. PassIsLeft' /\ QueuesOutliveThreads'
    BY <1>1, <1>2 DEF DemuxerInv, PassIsLeft, QueuesOutliveThreads
  <1> QED BY <1>5, <1>6 DEF DemuxerInv

LEMMA DemuxerCall_Inv ==
  ASSUME DemuxerInv, NEW f \in Files, DemuxerCall(f)
  PROVE  DemuxerInv'
  <1>1. CASE thread_start(f)
    <2>1. DemuxerTypeOK'
      BY <1>1 DEF thread_start, DemuxerInv, DemuxerTypeOK
    <2>2. PassIsLeft' /\ QueuesOutliveThreads'
      BY <1>1 DEF thread_start, DemuxerInv, DemuxerTypeOK, PassIsLeft, QueuesOutliveThreads
    <2> QED BY <2>1, <2>2 DEF DemuxerInv
  <1>2. CASE ifile_get_packet(f) \/ drainQueue(f)
    <2>1. /\ inQueue' \in [Files -> Seq(Messages)]
          /\ UNCHANGED <<demuxerThreadVars, opened, errSend, errRecv, durations, stopping>>
      BY <1>2, QueueOfFile DEF ifile_get_packet, drainQueue, DemuxerInv
    <2>2. DemuxerTypeOK'
      BY <2>1 DEF DemuxerInv, DemuxerTypeOK, demuxerThreadVars
    <2>3. PassIsLeft' /\ QueuesOutliveThreads'
      BY <2>1 DEF DemuxerInv, PassIsLeft, QueuesOutliveThreads, demuxerThreadVars
    <2> QED BY <2>2, <2>3 DEF DemuxerInv
  <1>3. CASE sendDuration(f) \/ thread_stop(f)
    <2>1. durations' \in [Files -> Nat] /\ errSend' \subseteq Files /\ stopping' \subseteq Files
      <3>1. durations \in [Files -> Nat] /\ errSend \subseteq Files /\ stopping \subseteq Files
        BY DEF DemuxerInv, DemuxerTypeOK
      <3>2. durations[f] + 1 \in Nat
        BY <3>1
      <3> QED BY <1>3, <3>1, <3>2 DEF sendDuration, thread_stop
    <2>2. UNCHANGED <<demuxerThreadVars, inQueue, opened, errRecv>>
      BY <1>3 DEF sendDuration, thread_stop
    <2>3. DemuxerTypeOK'
      BY <2>1, <2>2 DEF DemuxerInv, DemuxerTypeOK, demuxerThreadVars
    <2>4. PassIsLeft' /\ QueuesOutliveThreads'
      BY <2>2 DEF DemuxerInv, PassIsLeft, QueuesOutliveThreads, demuxerThreadVars
    <2> QED BY <2>3, <2>4 DEF DemuxerInv
  <1>4. CASE joinDemuxer(f)
    <2>1. /\ dmxPc[f] = "ended" /\ opened' = opened \ {f}
          /\ UNCHANGED <<demuxerThreadVars, inQueue, errSend, errRecv, durations, stopping>>
      BY <1>4 DEF joinDemuxer
    <2>2. DemuxerTypeOK'
      BY <2>1 DEF DemuxerInv, DemuxerTypeOK, demuxerThreadVars
    <2>3. PassIsLeft' /\ QueuesOutliveThreads'
      BY <2>1 DEF DemuxerInv, PassIsLeft, QueuesOutliveThreads, demuxerThreadVars
    <2> QED BY <2>2, <2>3 DEF DemuxerInv
  <1> QED BY <1>1, <1>2, <1>3, <1>4 DEF DemuxerCall

LEMMA DemuxerNextInv ==
  ASSUME DemuxerInv, [DemuxerNext]_demuxerVars
  PROVE  DemuxerInv'
  <1>1. CASE DemuxerNext
    BY <1>1, readAndSend_Inv, seek_to_start_Inv, DemuxerCall_Inv DEF DemuxerNext, input_thread
  <1>2. CASE UNCHANGED demuxerVars
    BY <1>2 DEF demuxerVars, demuxerThreadVars, DemuxerInv, DemuxerTypeOK, PassIsLeft,
                QueuesOutliveThreads
  <1> QED BY <1>1, <1>2

(* A thread counts its passes down only while there are some.              *)
THEOREM DemuxerTypes == DemuxerSpec => []DemuxerTypeOK
  <1>1. DemuxerInv => DemuxerTypeOK
    BY DEF DemuxerInv
  <1> QED BY <1>1, DemuxerInitInv, DemuxerNextInv, PTL DEF DemuxerSpec

(* thread_stop joins the thread of a file before it frees its queues.      *)
THEOREM QueuesOutlive == DemuxerSpec => []QueuesOutliveThreads
  <1>1. DemuxerInv => QueuesOutliveThreads
    BY DEF DemuxerInv
  <1> QED BY <1>1, DemuxerInitInv, DemuxerNextInv, PTL DEF DemuxerSpec

(***************************************************************************)
(* The durations of a file that loops.  P are the decoders that have still *)
(* to be flushed.  As long as the demuxer reads, or its LOOPING waits in   *)
(* the queue, there is nothing of an earlier pass left.                    *)
(***************************************************************************)

DecodersOf(f) == {i \in Decoded : FileOf[i] = f}
NoMark(q) == \A k \in 1..Len(q) : q[k] # LOOPING
OneMark(q) == \A j, k \in 1..Len(q) : q[j] = LOOPING /\ q[k] = LOOPING => j = k

Accounted(f, P) ==
  /\ Decoders(f) > 0 => /\ OneMark(inQueue[f])
                        /\ dmxPc[f] \in {"none", "read"} => NoMark(inQueue[f])
  /\ dmxPc[f] \in {"none", "read"} \/ ~NoMark(inQueue[f]) =>
       P = {} /\ durations[f] = 0 /\ gotDurations[f] = 0
  /\ durations[f] + gotDurations[f] + Cardinality(P) <= Decoders(f)

LEMMA MarkAppended ==
  ASSUME NEW q \in Seq(Messages), NEW m \in Messages
  PROVE  /\ NoMark(q) => OneMark(Append(q, m))
         /\ m # LOOPING /\ NoMark(q) => NoMark(Append(q, m))
  <1>1. /\ Len(q) \in Nat /\ Len(Append(q, m)) = Len(q) + 1
        /\ Append(q, m)[Len(q) + 1] = m
        /\ \A k \in 1..Len(q) : Append(q, m)[k] = q[k]
    OBVIOUS
  <1> DEFINE r == Append(q, m)
  <1> HIDE DEF r
  <1>2. \A k \in 1..Len(r) : k = Len(q) + 1 \/ (k \in 1..Len(q) /\ r[k] = q[k])
    BY <1>1 DEF r
  <1>3. r[Len(q) + 1] = m
    BY <1>1 DEF r
  <1> QED BY <1>2, <1>3 DEF NoMark, OneMark, r

LEMMA MarkTaken ==
  ASSUME NEW q \in Seq(Messages), q # <<>>
  PROVE  /\ NoMark(q) => NoMark(Tail(q))
         /\ OneMark(q) => OneMark(Tail(q))
         /\ OneMark(q) /\ Head(q) = LOOPING => NoMark(Tail(q))
         /\ Head(q) = LOOPING => ~NoMark(q)
  <1>1. /\ Len(q) \in Nat /\ Len(q) >= 1 /\ Head(q) = q[1] /\ Len(Tail(q)) = Len(q) - 1
        /\ \A k \in 1..Len(Tail(q)) : Tail(q)[k] = q[k + 1]
    OBVIOUS
  <1> DEFINE r == Tail(q)
  <1>2. \A k \in 1..Len(r) : /\ r[k] = q[k + 1] /\ k + 1 \in 1..Len(q) /\ k + 1 # 1
                             /\ k \in Nat
    BY <1>1
  <1>3. 1 \in 1..Len(q) /\ Head(q) = q[1]
    BY <1>1
  <1> HIDE DEF r
  <1>4. NoMark(q) => NoMark(r)
    BY <1>2 DEF NoMark
  <1>5. OneMark(q) => OneMark(r)
    <2> SUFFICES ASSUME OneMark(q), NEW j \in 1..Len(r), NEW k \in 1..Len(r),
                        r[j] = LOOPING, r[k] = LOOPING
                 PROVE  j = k
      BY DEF OneMark
    <2>1. j + 1 = k + 1 /\ j \in Nat /\ k \in Nat
      BY <1>2 DEF OneMark
    <2> QED BY <2>1
  <1>6. OneMark(q) /\ Head(q) = LOOPING => NoMark(r)
    BY <1>2, <1>3 DEF NoMark, OneMark
  <1>7. Head(q) = LOOPING => ~NoMark(q)
    BY <1>3 DEF NoMark
  <1> QED BY <1>4, <1>5, <1>6, <1>7 DEF r

LEMMA CountOf ==
  ASSUME NEW f, NEW P, P \subseteq DecodersOf(f)
  PROVE  /\ IsFiniteSet(P) /\ Cardinality(P) \in Nat /\ Decoders(f) \in Nat
         /\ Cardinality(P) <= Decoders(f)
         /\ \A Q : Q \subseteq P => IsFiniteSet(Q) /\ Cardinality(Q) \in Nat
                                    /\ Cardinality(Q) <= Cardinality(P)
         /\ \A p \in P : \A Q : Q \subseteq P \ {p} => Cardinality(Q) + 1 <= Cardinality(P)
         /\ Cardinality({}) = 0 /\ (Cardinality(P) = 0 => P = {})
  <1>1. IsFiniteSet(DecodersOf(f)) /\ Decoders(f) = Cardinality(DecodersOf(f))
    <2>1. DecodersOf(f) \subseteq Inputs
      BY DEF DecodersOf
    <2> QED BY <2>1, FS_Subset DEF Decoders, DecodersOf
  <1>2. IsFiniteSet(P) /\ Cardinality(P) <= Decoders(f)
    BY <1>1, FS_Subset
  <1>3. Cardinality(P) \in Nat /\ Decoders(f) \in Nat
    BY <1>1, <1>2, FS_CardinalityType
  <1>4. ASSUME NEW Q, Q \subseteq P
        PROVE  IsFiniteSet(Q) /\ Cardinality(Q) \in Nat /\ Cardinality(Q) <= Cardinality(P)
    BY <1>2, <1>4, FS_Subset, FS_CardinalityType
  <1>5. ASSUME NEW p \in P, NEW Q, Q \subseteq P \ {p}
        PROVE  Cardinality(Q) + 1 <= Cardinality(P)
    <2>1. IsFiniteSet(P \ {p}) /\ Cardinality(P \ {p}) = Cardinality(P) - 1
      BY <1>2, FS_RemoveElement
    <2>2. Cardinality(Q) <= Cardinality(P \ {p}) /\ Cardinality(Q) \in Nat
      BY <1>5, <2>1, FS_Subset, FS_CardinalityType
    <2> QED BY <1>3, <2>1, <2>2
  <1>6. Cardinality({}) = 0 /\ (Cardinality(P) = 0 => P = {})
    BY <1>2, FS_EmptySet
  <1> QED BY <1>2, <1>3, <1>4, <1>5, <1>6

LEMMA AccountTypes ==
  ASSUME DemuxerTypeOK, NEW f \in Files
  PROVE  /\ inQueue[f] \in Seq(Messages) /\ inQueue \in [Files -> Seq(Messages)]
         /\ durations[f] \in Nat /\ gotDurations[f] \in Nat
         /\ durations \in [Files -> Nat] /\ gotDurations \in [Files -> Nat]
         /\ dmxPc \in [Files -> {"none", "read", "seek", "ended"}]
  BY DEF DemuxerTypeOK

(* Of a file that the step is not about.                                   *)
LEMMA AccountKept ==
  ASSUME DemuxerTypeOK, NEW f \in Files, NEW P, NEW Q, P \subseteq DecodersOf(f), Q \subseteq P,
         Accounted(f, P), dmxPc'[f] = dmxPc[f] \/ (dmxPc'[f] = "ended"),
         durations'[f] = durations[f], gotDurations'[f] = gotDurations[f],
         \/ inQueue'[f] = inQueue[f]
         \/ /\ inQueue[f] # <<>> /\ inQueue'[f] = Tail(inQueue[f])
  PROVE  Accounted(f, Q)'
  <1>1. /\ inQueue[f] \in Seq(Messages) /\ durations[f] \in Nat /\ gotDurations[f] \in Nat
    BY AccountTypes
  <1>2. /\ NoMark(inQueue[f]) => NoMark(inQueue'[f])
        /\ OneMark(inQueue[f]) => OneMark(inQueue'[f])
    BY <1>1, MarkTaken
  <1>3. /\ Cardinality(P) \in Nat /\ Cardinality(Q) \in Nat /\ Cardinality(Q) <= Cardinality(P)
        /\ Decoders(f) \in Nat
    BY CountOf
  <1>4. P = {} => Q = {}
    OBVIOUS
  <1> QED BY <1>1, <1>2, <1>3, <1>4 DEF Accounted

(* Its own thread reads, or takes the lengths that came.                   *)
LEMMA AccountOfThread ==
  ASSUME DemuxerTypeOK, NEW f \in Files, NEW P, P \subseteq DecodersOf(f), Accounted(f, P),
         input_thread(f)
  PROVE  Accounted(f, P)'
  <1>1. /\ inQueue[f] \in Seq(Messages) /\ inQueue \in [Files -> Seq(Messages)]
        /\ durations[f] \in Nat /\ gotDurations[f] \in Nat
        /\ durations \in [Files -> Nat] /\ gotDurations \in [Files -> Nat]
        /\ dmxPc \in [Files -> {"none", "read", "seek", "ended"}]
    BY AccountTypes
  <1>2. /\ Cardinality(P) \in Nat /\ Decoders(f) \in Nat /\ Cardinality({}) = 0
        /\ Cardinality(P) = 0 => P = {}
    BY CountOf
  <1>3. CASE endThread(f) /\ UNCHANGED <<durations, gotDurations>>
    <2>1. dmxPc'[f] = "ended" /\ UNCHANGED <<inQueue, durations, gotDurations>>
      BY <1>1, <1>3 DEF endThread
    <2> QED BY <2>1, AccountKept
  <1>4. CASE dmxPc[f] = "read" /\ ~endThread(f) /\ readAndSend(f)
    <2>1. /\ P = {} /\ durations[f] = 0 /\ gotDurations[f] = 0
          /\ Decoders(f) > 0 => NoMark(inQueue[f])
      BY <1>4 DEF Accounted
    <2>2. UNCHANGED <<durations, gotDurations>>
      BY <1>4 DEF readAndSend
    <2>3. \/ /\ UNCHANGED dmxPc
             /\ \E i \in Inputs : inQueue' = [inQueue EXCEPT ![f] = Append(inQueue[f], i)]
          \/ /\ dmxPc' = [dmxPc EXCEPT ![f] = "seek"]
             /\ inQueue' = [inQueue EXCEPT ![f] = Append(inQueue[f], LOOPING)]
      BY <1>4, Zenon DEF readAndSend
    <2>4. CASE /\ UNCHANGED dmxPc
               /\ \E i \in Inputs : inQueue' = [inQueue EXCEPT ![f] = Append(inQueue[f], i)]
      <3>1. PICK i \in Inputs : inQueue'[f] = Append(inQueue[f], i)
        BY <1>1, <2>4
      <3>2. i \in Messages /\ i # LOOPING
        BY DEF Messages, LOOPING
      <3>3. NoMark(inQueue[f]) => NoMark(inQueue'[f]) /\ OneMark(inQueue'[f])
        BY <1>1, <3>1, <3>2, MarkAppended
      <3> QED BY <1>2, <2>1, <2>2, <2>4, <3>3 DEF Accounted
    <2>5. CASE /\ dmxPc' = [dmxPc EXCEPT ![f] = "seek"]
               /\ inQueue' = [inQueue EXCEPT ![f] = Append(inQueue[f], LOOPING)]
      <3>1. inQueue'[f] = Append(inQueue[f], LOOPING) /\ LOOPING \in Messages /\ dmxPc'[f] = "seek"
        BY <1>1, <2>5 DEF Messages
      <3>2. NoMark(inQueue[f]) => OneMark(inQueue'[f])
        BY <1>1, <3>1, MarkAppended
      <3> QED BY <1>2, <2>1, <2>2, <3>1, <3>2 DEF Accounted
    <2> QED BY <2>3, <2>4, <2>5
  <1>5. CASE seek_to_start(f) /\ ~endThread(f)
    <2>1. /\ dmxPc[f] = "seek" /\ UNCHANGED inQueue
          /\ \/ /\ gotDurations[f] < Decoders(f) /\ durations[f] > 0
                /\ durations' = [durations EXCEPT ![f] = durations[f] - 1]
                /\ gotDurations' = [gotDurations EXCEPT ![f] = gotDurations[f] + 1]
                /\ UNCHANGED dmxPc
             \/ /\ gotDurations[f] = Decoders(f)
                /\ gotDurations' = [gotDurations EXCEPT ![f] = 0]
                /\ dmxPc' = [dmxPc EXCEPT ![f] = "read"]
                /\ UNCHANGED durations
      BY <1>5 DEF seek_to_start
    <2>2. CASE durations[f] > 0 /\ UNCHANGED dmxPc
      <3>1. /\ durations'[f] = durations[f] - 1 /\ gotDurations'[f] = gotDurations[f] + 1
        BY <1>1, <2>1, <2>2
      <3> QED BY <1>1, <1>2, <2>1, <2>2, <3>1 DEF Accounted
    <2>3. CASE gotDurations[f] = Decoders(f) /\ dmxPc' = [dmxPc EXCEPT ![f] = "read"]
      <3>1. gotDurations'[f] = 0 /\ dmxPc'[f] = "read" /\ durations'[f] = durations[f]
        BY <1>1, <2>1, <2>3
      <3>2. durations[f] = 0 /\ Cardinality(P) = 0 /\ P = {}
        BY <1>1, <1>2, <2>3 DEF Accounted
      <3>3. Decoders(f) > 0 => NoMark(inQueue[f])
        BY <1>1, <1>2, <2>3 DEF Accounted
      <3> QED BY <1>2, <2>1, <3>1, <3>2, <3>3 DEF Accounted
    <2> QED BY <2>1, <2>2, <2>3
  <1>6. /\ readAndSend(f) => dmxPc[f] = "read" /\ UNCHANGED <<durations, gotDurations>>
        /\ seek_to_start(f) /\ endThread(f) => UNCHANGED <<durations, gotDurations>>
    <2>1. seek_to_start(f) /\ endThread(f) => UNCHANGED <<durations, gotDurations>>
      <3> SUFFICES ASSUME seek_to_start(f), endThread(f) PROVE UNCHANGED <<durations, gotDurations>>
        OBVIOUS
      <3>1. dmxPc'[f] = "ended" /\ dmxPc[f] = "seek"
        BY <1>1 DEF endThread, seek_to_start
      <3>2. dmxPc' # dmxPc /\ dmxPc' # [dmxPc EXCEPT ![f] = "read"]
        BY <1>1, <3>1
      <3> QED BY <3>2 DEF seek_to_start
    <2> QED BY <2>1 DEF readAndSend
  <1> QED BY <1>3, <1>4, <1>5, <1>6 DEF input_thread

(* The step of another file, or none, or a call of the main thread that is *)
(* not about the durations.                                                *)
LEMMA AccountStep ==
  ASSUME DemuxerTypeOK, NEW f \in Files, NEW P, NEW Q, P \subseteq DecodersOf(f), Q \subseteq P,
         Accounted(f, P),
         \/ UNCHANGED demuxerVars
         \/ \E g \in Files : \/ thread_start(g) \/ ifile_get_packet(g) \/ drainQueue(g)
                            \/ thread_stop(g) \/ joinDemuxer(g)
         \/ \E g \in Files \ {f} : input_thread(g) \/ sendDuration(g)
  PROVE  Accounted(f, Q)'
  <1> USE AccountTypes
  <1>1. ASSUME NEW g \in Files, g # f, input_thread(g)
        PROVE  Accounted(f, Q)'
    <2>1. /\ dmxPc'[f] = dmxPc[f] /\ durations'[f] = durations[f] /\ gotDurations'[f] = gotDurations[f]
          /\ inQueue'[f] = inQueue[f]
      BY <1>1 DEF input_thread, readAndSend, endThread, seek_to_start
    <2> QED BY <2>1, AccountKept
  <1>2. ASSUME NEW g \in Files, thread_start(g)
        PROVE  Accounted(f, Q)'
    <2>1. CASE g # f
      <3>1. /\ dmxPc'[f] = dmxPc[f] /\ UNCHANGED <<durations, gotDurations, inQueue>>
        BY <1>2, <2>1 DEF thread_start
      <3> QED BY <3>1, AccountKept
    <2>2. CASE g = f
      <3>1. /\ dmxPc[f] = "none" /\ dmxPc'[f] = "read" /\ UNCHANGED <<durations, gotDurations, inQueue>>
        BY <1>2, <2>2 DEF thread_start
      <3>2. Q = {} /\ P = {}
        BY <3>1 DEF Accounted
      <3> QED BY <3>1, <3>2 DEF Accounted
    <2> QED BY <2>1, <2>2
  <1>3. ASSUME NEW g \in Files, ifile_get_packet(g) \/ drainQueue(g)
        PROVE  Accounted(f, Q)'
    <2>1. /\ UNCHANGED <<dmxPc, durations, gotDurations>> /\ inQueue[g] # <<>>
          /\ inQueue' = [inQueue EXCEPT ![g] = Tail(inQueue[g])]
      BY <1>3 DEF ifile_get_packet, drainQueue, demuxerThreadVars
    <2>2. \/ inQueue'[f] = inQueue[f]
          \/ inQueue[f] # <<>> /\ inQueue'[f] = Tail(inQueue[f])
      BY <2>1
    <2> QED BY <2>1, <2>2, AccountKept
  <1>4. ASSUME NEW g \in Files, g # f, sendDuration(g)
        PROVE  Accounted(f, Q)'
    <2>1. /\ UNCHANGED <<dmxPc, gotDurations, inQueue>> /\ durations'[f] = durations[f]
      BY <1>4 DEF sendDuration, demuxerThreadVars
    <2> QED BY <2>1, AccountKept
  <1>5. ASSUME NEW g \in Files, thread_stop(g) \/ joinDemuxer(g)
        PROVE  Accounted(f, Q)'
    <2>1. UNCHANGED <<dmxPc, durations, gotDurations, inQueue>>
      BY <1>5 DEF thread_stop, joinDemuxer, demuxerThreadVars
    <2> QED BY <2>1, AccountKept
  <1>6. CASE UNCHANGED demuxerVars
    <2>1. UNCHANGED <<dmxPc, durations, gotDurations, inQueue>>
      BY <1>6 DEF demuxerVars, demuxerThreadVars
    <2> QED BY <2>1, AccountKept
  <1> QED BY <1>1, <1>2, <1>3, <1>4, <1>5, <1>6

(* The main thread takes the LOOPING of the file: its decoders are to be   *)
(* flushed.                                                                *)
LEMMA AccountOpened ==
  ASSUME DemuxerTypeOK, NEW f \in Files, NEW P, NEW Q, P \subseteq DecodersOf(f),
         Q \subseteq DecodersOf(f), Accounted(f, P), ifile_get_packet(f),
         Head(inQueue[f]) = LOOPING
  PROVE  Accounted(f, Q)'
  <1>1. /\ inQueue[f] \in Seq(Messages) /\ inQueue \in [Files -> Seq(Messages)]
    BY AccountTypes
  <1>2. /\ UNCHANGED <<dmxPc, durations, gotDurations>> /\ inQueue[f] # <<>>
        /\ inQueue'[f] = Tail(inQueue[f])
    BY <1>1 DEF ifile_get_packet, demuxerThreadVars
  <1>3. ~NoMark(inQueue[f]) /\ (OneMark(inQueue[f]) => NoMark(inQueue'[f]) /\ OneMark(inQueue'[f]))
    BY <1>1, <1>2, MarkTaken
  <1>4. /\ Cardinality(Q) \in Nat /\ Decoders(f) \in Nat /\ Cardinality(Q) <= Decoders(f)
        /\ Cardinality(Q) = 0 => Q = {}
    BY CountOf
  <1>5. durations[f] = 0 /\ gotDurations[f] = 0
    BY <1>3 DEF Accounted
  <1>6. CASE Decoders(f) > 0
    BY <1>2, <1>3, <1>4, <1>5, <1>6 DEF Accounted
  <1>7. CASE Decoders(f) = 0
    BY <1>2, <1>4, <1>5, <1>7 DEF Accounted
  <1> QED BY <1>4, <1>6, <1>7

(* It sends the duration of one of them.                                   *)
LEMMA AccountSent ==
  ASSUME DemuxerTypeOK, NEW f \in Files, NEW P, NEW Q, NEW p \in P, P \subseteq DecodersOf(f),
         Q \subseteq P \ {p}, Accounted(f, P), sendDuration(f)
  PROVE  Accounted(f, Q)'
  <1>1. durations'[f] = durations[f] + 1 /\ UNCHANGED <<dmxPc, gotDurations, inQueue>>
    BY AccountTypes DEF sendDuration, demuxerThreadVars
  <1>2. Cardinality(Q) + 1 <= Cardinality(P) /\ Cardinality(P) \in Nat /\ Cardinality(Q) \in Nat
        /\ Decoders(f) \in Nat
    BY CountOf
  <1>3. P # {}
    OBVIOUS
  <1>4. durations[f] \in Nat /\ gotDurations[f] \in Nat
    BY AccountTypes
  <1> QED BY <1>1, <1>2, <1>3, <1>4 DEF Accounted

(* Nothing is counted before the first pass.                               *)
LEMMA AccountInit ==
  ASSUME DemuxerInit, NEW f \in Files
  PROVE  Accounted(f, {})
  <1>1. inQueue[f] = <<>> /\ durations[f] = 0 /\ gotDurations[f] = 0
    BY DEF DemuxerInit
  <1>2. Cardinality({}) = 0 /\ Decoders(f) \in Nat
    <2>1. {} \subseteq DecodersOf(f)
      OBVIOUS
    <2> QED BY <2>1, CountOf
  <1>3. NoMark(<<>>) /\ OneMark(<<>>)
    BY DEF NoMark, OneMark
  <1> QED BY <1>1, <1>2, <1>3 DEF Accounted

(***************************************************************************)
(* The end of a file.                                                      *)
(***************************************************************************)

(* The queue of a file holds packets of its own streams, and an error is   *)
(* what its thread leaves.                                                 *)
Own(f) == {LOOPING} \union {i \in Inputs : FileOf[i] = f}

Answering ==
  /\ \A f \in Files : inQueue[f] \in Seq(Own(f))
  /\ \A f \in errRecv : dmxPc[f] = "ended"

Done(f) == inQueue[f] = <<>> /\ f \in errRecv

LEMMA AnsweringInit == DemuxerInit => Answering
  <1> SUFFICES ASSUME DemuxerInit PROVE Answering
    OBVIOUS
  <1>1. \A f \in Files : inQueue[f] = <<>>
    BY DEF DemuxerInit
  <1>2. \A f \in Files : <<>> \in Seq(Own(f))
    OBVIOUS
  <1> QED BY <1>1, <1>2 DEF DemuxerInit, Answering

(* What a step does to the queues and to the errors.                       *)
LEMMA FileMoves ==
  ASSUME DemuxerTypeOK, [DemuxerNext]_demuxerVars
  PROVE  \/ UNCHANGED <<inQueue, errRecv, dmxPc>>
         \/ \E f \in Files :
              \/ /\ dmxPc[f] # "ended" /\ dmxPc[f] # "none"
                 /\ \/ /\ UNCHANGED errRecv
                       /\ \/ UNCHANGED inQueue
                          \/ \E m \in Own(f) : inQueue' = [inQueue EXCEPT ![f] = Append(inQueue[f], m)]
                       /\ \E pc \in {"read", "seek"} : dmxPc' = [dmxPc EXCEPT ![f] = pc]
                    \/ /\ errRecv' = errRecv \union {f} /\ UNCHANGED inQueue
                       /\ dmxPc' = [dmxPc EXCEPT ![f] = "ended"]
              \/ dmxPc[f] = "none" /\ dmxPc' = [dmxPc EXCEPT ![f] = "read"] /\ UNCHANGED <<inQueue, errRecv>>
              \/ /\ inQueue[f] # <<>> /\ inQueue' = [inQueue EXCEPT ![f] = Tail(inQueue[f])]
                 /\ UNCHANGED <<errRecv, dmxPc>>
  <1>1. dmxPc \in [Files -> {"none", "read", "seek", "ended"}]
    BY DEF DemuxerTypeOK
  <1>2. ASSUME NEW f \in Files, readAndSend(f)
        PROVE  /\ dmxPc[f] = "read"
               /\ \/ /\ UNCHANGED errRecv
                     /\ \/ \E m \in Own(f) : inQueue' = [inQueue EXCEPT ![f] = Append(inQueue[f], m)]
                     /\ \E pc \in {"read", "seek"} : dmxPc' = [dmxPc EXCEPT ![f] = pc]
                  \/ /\ errRecv' = errRecv \union {f} /\ UNCHANGED inQueue
                     /\ dmxPc' = [dmxPc EXCEPT ![f] = "ended"]
    <2>1. dmxPc = [dmxPc EXCEPT ![f] = dmxPc[f]]
      BY <1>1
    <2>2. \A i \in Inputs : FileOf[i] = f => i \in Own(f)
      BY DEF Own
    <2>3. LOOPING \in Own(f)
      BY DEF Own
    <2> QED BY <1>2, <2>1, <2>2, <2>3 DEF readAndSend, endThread
  <1>3. ASSUME NEW f \in Files, seek_to_start(f)
        PROVE  /\ dmxPc[f] = "seek" /\ UNCHANGED inQueue
               /\ \/ /\ UNCHANGED errRecv
                     /\ \E pc \in {"read", "seek"} : dmxPc' = [dmxPc EXCEPT ![f] = pc]
                  \/ /\ errRecv' = errRecv \union {f}
                     /\ dmxPc' = [dmxPc EXCEPT ![f] = "ended"]
    <2>1. dmxPc = [dmxPc EXCEPT ![f] = dmxPc[f]]
      BY <1>1
    <2> QED BY <1>3, <2>1 DEF seek_to_start, endThread
  <1>4. ASSUME NEW f \in Files, DemuxerCall(f)
        PROVE  \/ UNCHANGED <<inQueue, errRecv, dmxPc>>
               \/ dmxPc[f] = "none" /\ dmxPc' = [dmxPc EXCEPT ![f] = "read"] /\ UNCHANGED <<inQueue, errRecv>>
               \/ /\ inQueue[f] # <<>> /\ inQueue' = [inQueue EXCEPT ![f] = Tail(inQueue[f])]
                  /\ UNCHANGED <<errRecv, dmxPc>>
    BY <1>4 DEF DemuxerCall, thread_start, ifile_get_packet, sendDuration, thread_stop, drainQueue,
                joinDemuxer, demuxerThreadVars
  <1>5. CASE UNCHANGED demuxerVars
    BY <1>5 DEF demuxerVars, demuxerThreadVars
  <1>6. CASE DemuxerNext
    <2>1. PICK f \in Files : readAndSend(f) \/ seek_to_start(f) \/ DemuxerCall(f)
      BY <1>6 DEF DemuxerNext, input_thread
    <2>2. CASE readAndSend(f)
      BY <1>2, <2>2
    <2>3. CASE seek_to_start(f)
      BY <1>3, <2>3
    <2>4. CASE DemuxerCall(f)
      BY <1>4, <2>4
    <2> QED BY <2>1, <2>2, <2>3, <2>4
  <1> QED BY <1>5, <1>6

(* A file that has ended has ended for good.                               *)
LEMMA AnsweringStep ==
  ASSUME DemuxerTypeOK, Answering, [DemuxerNext]_demuxerVars
  PROVE  Answering' /\ \A f \in Files : Done(f) => Done(f)'
  <1>1. /\ inQueue \in [Files -> Seq(Messages)]
        /\ dmxPc \in [Files -> {"none", "read", "seek", "ended"}] /\ errRecv \subseteq Files
    BY DEF DemuxerTypeOK
  <1>2. \A f \in Files : inQueue[f] \in Seq(Own(f))
    BY DEF Answering
  <1>3. CASE UNCHANGED <<inQueue, errRecv, dmxPc>>
    BY <1>3 DEF Answering, Done
  <1>4. ASSUME NEW f \in Files, inQueue[f] # <<>>,
               inQueue' = [inQueue EXCEPT ![f] = Tail(inQueue[f])], UNCHANGED <<errRecv, dmxPc>>
        PROVE  Answering' /\ \A g \in Files : Done(g) => Done(g)'
    <2>1. Tail(inQueue[f]) \in Seq(Own(f))
      BY <1>2, <1>4
    <2>2. \A g \in Files : inQueue'[g] = IF g = f THEN Tail(inQueue[f]) ELSE inQueue[g]
      BY <1>1, <1>4
    <2> QED BY <1>2, <1>4, <2>1, <2>2 DEF Answering, Done
  <1>5. ASSUME NEW f \in Files, NEW pc, dmxPc[f] # "ended", UNCHANGED errRecv,
               UNCHANGED inQueue \/ \E m \in Own(f) : inQueue' = [inQueue EXCEPT ![f] = Append(inQueue[f], m)],
               dmxPc' = [dmxPc EXCEPT ![f] = pc]
        PROVE  Answering' /\ \A g \in Files : Done(g) => Done(g)'
    <2>1. \A m \in Own(f) : Append(inQueue[f], m) \in Seq(Own(f))
      BY <1>2
    <2>2. \A g \in Files : inQueue'[g] \in Seq(Own(g)) /\ (g # f => inQueue'[g] = inQueue[g])
      BY <1>1, <1>2, <1>5, <2>1
    <2>3. f \notin errRecv
      BY <1>5 DEF Answering
    <2>4. \A g \in errRecv : dmxPc'[g] = dmxPc[g]
      BY <1>1, <1>5, <2>3
    <2> QED BY <1>5, <2>2, <2>3, <2>4 DEF Answering, Done
  <1>6. ASSUME NEW f \in Files, errRecv' = errRecv \union {f}, UNCHANGED inQueue,
               dmxPc' = [dmxPc EXCEPT ![f] = "ended"]
        PROVE  Answering' /\ \A g \in Files : Done(g) => Done(g)'
    <2>1. \A g \in errRecv \union {f} : dmxPc'[g] = IF g = f THEN "ended" ELSE dmxPc[g]
      BY <1>1, <1>6
    <2> QED BY <1>6, <2>1 DEF Answering, Done
  <1> QED BY <1>3, <1>4, <1>5, <1>6, FileMoves

(* A packet that comes out of the queue is one of the file.                *)
LEMMA PacketIsOwn ==
  ASSUME Answering, NEW f \in Files, ifile_get_packet(f)
  PROVE  ~Done(f) /\ (Head(inQueue[f]) = LOOPING \/ FileOf[Head(inQueue[f])] = f)
  <1>1. inQueue[f] \in Seq(Own(f)) /\ inQueue[f] # <<>>
    BY DEF Answering, ifile_get_packet
  <1>2. Head(inQueue[f]) \in Own(f)
    BY <1>1
  <1> QED BY <1>1, <1>2 DEF Own, Done
================================================================================

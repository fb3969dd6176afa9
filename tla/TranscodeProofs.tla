---------------------------- MODULE TranscodeProofs ----------------------------
(***************************************************************************)
(* The parts keep their promises in the whole: every step of a run is a    *)
(* step of the muxer or leaves it alone, and the same of the demuxers, so  *)
(* that what is proved of Muxer and Demuxer holds of Transcode.            *)
(*                                                                         *)
(* And what only the whole promises: nothing outlives a run (NothingLeft), *)
(* the lengths that decode_flush sends always find room                    *)
(* (DurationsNeverWait), and a success means a whole file                  *)
(* (SuccessMeansWhole).  All three rest on what a step makes of work: the  *)
(* tasks it holds and their order (WorkStep, Arranged, EveryStepWorks).    *)
(***************************************************************************)
EXTENDS Transcode, MuxerProofs, DemuxerProofs, FiniteSetTheorems, SequenceTheorems

LEMMA FileOfInput ==
  ASSUME NEW i \in Inputs
  PROVE  FileOf[i] \in Files
  BY DEF Files

(* The work that touches neither.                                          *)
LEMMA OwnWork ==
  ASSUME \/ init_input_stream \/ ifilter_send_frame \/ reconfigure \/ reap_filters \/ decode \/ inputEnd \/ fileEnd
         \/ transcode_step \/ transcode_from_filter \/ close_output_stream \/ leaveLoop
         \/ flushDecoder \/ flush_encoders \/ verdict \/ report
  PROVE  UNCHANGED <<muxerVars, demuxerVars>>
  <1>1. CASE init_input_stream \/ ifilter_send_frame \/ reconfigure \/ reap_filters
    BY <1>1, Zenon DEF init_input_stream, ifilter_send_frame, reconfigure, reap_filters
  <1>2. CASE decode \/ inputEnd \/ fileEnd
    BY <1>2, Zenon DEF decode, inputEnd, fileEnd
  <1>3. CASE transcode_step \/ transcode_from_filter
    BY <1>3, Zenon DEF transcode_step, transcode_from_filter
  <1>4. CASE close_output_stream \/ leaveLoop \/ flushDecoder
    BY <1>4, Zenon DEF close_output_stream, leaveLoop, flushDecoder
  <1>5. CASE flush_encoders \/ verdict \/ report
    BY <1>5, Zenon DEF flush_encoders, verdict, report
  <1> QED BY <1>1, <1>2, <1>3, <1>4, <1>5

(* The work that calls the muxer.                                          *)
LEMMA MuxerWork ==
  ASSUME \/ init_output_stream \/ outputPacket \/ do_streamcopy \/ do_audio_out
         \/ writeTrailer \/ closeOutputFile
  PROVE  (MainCall \/ UNCHANGED muxerVars) /\ UNCHANGED demuxerVars
  <1>1. CASE init_output_stream
    <2>1. /\ Subject \in Streams /\ UNCHANGED demuxerVars
          /\ \E answer \in {"ok", "stream", "header"} : of_stream_init(Subject, answer)
      BY <1>1, Zenon DEF init_output_stream, OfStream
    <2> QED BY <2>1 DEF MainCall
  <1>2. CASE outputPacket
    <2>1. /\ Subject \in Streams /\ UNCHANGED demuxerVars
          /\ of_output_packet(Subject, FALSE) \/ of_output_packet(Subject, TRUE)
      BY <1>2, Zenon DEF outputPacket, OfStream
    <2> QED BY <2>1 DEF MainCall
  <1>3. CASE do_streamcopy
    <2>1. /\ Subject \in Streams /\ UNCHANGED demuxerVars
          /\ \/ of_output_packet(Subject, FALSE) \/ of_output_packet(Subject, TRUE)
             \/ UNCHANGED muxerVars
      BY <1>3, Zenon DEF do_streamcopy, OfStream
    <2> QED BY <2>1 DEF MainCall
  <1>4. CASE do_audio_out
    <2>1. /\ Subject \in Streams /\ UNCHANGED demuxerVars
          /\ of_output_packet(Subject, FALSE) \/ UNCHANGED muxerVars
      BY <1>4, Zenon DEF do_audio_out, encode_frame, OfStream
    <2> QED BY <2>1 DEF MainCall
  <1>5. CASE writeTrailer \/ closeOutputFile
    BY <1>5, Zenon DEF writeTrailer, closeOutputFile, MainCall
  <1> QED BY <1>1, <1>2, <1>3, <1>4, <1>5

(* The work that calls the demuxers.                                       *)
LEMMA DemuxerWork ==
  ASSUME process_input \/ decode_flush \/ closeInputFile
  PROVE  /\ UNCHANGED muxerVars
         /\ (\E f \in Files : DemuxerCall(f)) \/ UNCHANGED demuxerVars
  <1>1. CASE process_input
    <2>1. /\ Subject \in Files /\ UNCHANGED muxerVars
          /\ thread_start(Subject) \/ ifile_get_packet(Subject) \/ UNCHANGED demuxerVars
      BY <1>1, Zenon DEF process_input, OfFile
    <2> QED BY <2>1 DEF DemuxerCall
  <1>2. CASE decode_flush
    <2>1. /\ Subject \in Inputs /\ UNCHANGED muxerVars
          /\ sendDuration(FileOf[Subject]) \/ UNCHANGED demuxerVars
      BY <1>2, Zenon DEF decode_flush, OfInput
    <2> QED BY <2>1, FileOfInput DEF DemuxerCall
  <1>3. CASE closeInputFile
    <2>1. /\ Subject \in Files /\ UNCHANGED muxerVars
          /\ \/ thread_stop(Subject) \/ drainQueue(Subject) \/ joinDemuxer(Subject)
             \/ UNCHANGED demuxerVars
      BY <1>3, Zenon DEF closeInputFile, OfFile
    <2> QED BY <2>1 DEF DemuxerCall
  <1> QED BY <1>1, <1>2, <1>3

(* Every step of a run is one of its parts, or leaves them alone.          *)
LEMMA StepOfTheParts ==
  ASSUME [Next]_vars
  PROVE  [MuxerNext]_muxerVars /\ [DemuxerNext]_demuxerVars
  <1>1. CASE MainThread
    <2>1. CASE MainStep /\ UNCHANGED <<demuxerVars, runVars>>
      BY <2>1 DEF MuxerNext
    <2>2. CASE ~(MainStep /\ UNCHANGED <<demuxerVars, runVars>>)
      BY <1>1, <2>2, OwnWork, MuxerWork, DemuxerWork DEF MainThread, MuxerNext, DemuxerNext
    <2> QED BY <2>1, <2>2
  <1>2. CASE MuxerRuns
    BY <1>2 DEF MuxerRuns, MuxerNext
  <1>3. CASE \E f \in Files : DemuxerRuns(f)
    BY <1>3 DEF DemuxerRuns, DemuxerNext
  <1>4. CASE UNCHANGED vars
    BY <1>4 DEF vars
  <1> QED BY <1>1, <1>2, <1>3, <1>4 DEF Next

(* A run is a behaviour of its muxer and of its demuxers.                  *)
THEOREM RunOfTheParts == Spec => MuxerSpec /\ DemuxerSpec
  <1>1. Init => MuxerInit /\ DemuxerInit
    BY DEF Init
  <1> QED BY <1>1, StepOfTheParts, PTL DEF Spec, MuxerSpec, DemuxerSpec

(* In any run, with any inputs, graphs and sizes of the queues, the file   *)
(* is what MuxContract promises: the packets of each stream, in the order  *)
(* of_output_packet got them, and nothing after the trailer.               *)
THEOREM RunKeepsContract == Spec => MuxerKeepsContract
  BY RunOfTheParts, MuxerImplementsContract, PTL

(* The same run, step by step: the types of its parts, and that neither    *)
(* the muxer's queue nor an input's is misused by the threads at both its  *)
(* ends (what thread_queue.c and ffmpeg_demux.c assume of their callers).  *)
THEOREM RunIsSafe ==
  Spec => [](MuxerTypeOK /\ DemuxerTypeOK /\ QueuesAreKept /\ SendIsNeverInvalid /\ NoLostWakeUp)
  BY RunOfTheParts, MuxerTypes, DemuxerTypes, QueueOutlives, QueuesOutlive, SendIsValid,
     WakeUpsArrive, PTL DEF QueuesAreKept

(***************************************************************************)
(* Sequences of work.                                                      *)
(***************************************************************************)

Before(q, a, b) == \E j, k \in 1..Len(q) : j < k /\ q[j] = a /\ q[k] = b

(* What the head of a sequence comes before.                               *)
LEMMA OfTail ==
  ASSUME NEW S, NEW q \in Seq(S), q # <<>>
  PROVE  /\ Head(q) \in S /\ Tail(q) \in Seq(S)
         /\ Elements(q) = {Head(q)} \union Elements(Tail(q))
         /\ \A a, b : Before(q, a, b) <=> \/ (a = Head(q) /\ b \in Elements(Tail(q)))
                                          \/ Before(Tail(q), a, b)
  <1>1. /\ Len(q) \in Nat /\ Len(q) >= 1 /\ Head(q) = q[1] /\ q[1] \in S
        /\ Tail(q) \in Seq(S) /\ Len(Tail(q)) = Len(q) - 1
        /\ \A i \in 1..Len(Tail(q)) : Tail(q)[i] = q[i + 1] /\ i + 1 \in 1..Len(q)
    OBVIOUS
  <1> DEFINE t == Tail(q)
  <1>2. \A i \in 1..Len(t) : t[i] = q[i + 1] /\ i + 1 \in 1..Len(q)
    BY <1>1
  <1>3. \A i \in 1..Len(q) : i = 1 \/ (i - 1 \in 1..Len(t) /\ q[i] = t[i - 1])
    <2> TAKE i \in 1..Len(q)
    <2>1. i = 1 \/ (i - 1 \in 1..Len(t) /\ (i - 1) + 1 = i)
      BY <1>1
    <2> QED BY <1>2, <2>1
  <1>4. Len(t) \in Nat
    BY <1>1
  <1> HIDE DEF t
  <1>5. Elements(q) = {q[1]} \union Elements(t)
    <2>1. ASSUME NEW x \in Elements(q) PROVE x \in {q[1]} \union Elements(t)
      BY <1>3 DEF Elements
    <2>2. ASSUME NEW x \in Elements(t) PROVE x \in Elements(q)
      BY <1>2 DEF Elements
    <2>3. q[1] \in Elements(q)
      BY <1>1 DEF Elements
    <2> QED BY <2>1, <2>2, <2>3
  <1>6. ASSUME NEW a, NEW b
        PROVE  Before(q, a, b) <=> (a = q[1] /\ b \in Elements(t)) \/ Before(t, a, b)
    <2>1. ASSUME NEW j \in 1..Len(q), NEW k \in 1..Len(q), j < k, q[j] = a, q[k] = b
          PROVE  (a = q[1] /\ b \in Elements(t)) \/ Before(t, a, b)
      <3>1. k - 1 \in 1..Len(t) /\ q[k] = t[k - 1]
        BY <1>1, <1>3, <2>1
      <3>2. CASE j = 1
        BY <2>1, <3>1, <3>2 DEF Elements
      <3>3. CASE j # 1
        <4>1. j - 1 \in 1..Len(t) /\ q[j] = t[j - 1] /\ j - 1 < k - 1
          BY <1>3, <2>1, <3>3
        <4> QED BY <2>1, <3>1, <4>1 DEF Before
      <3> QED BY <3>2, <3>3
    <2>2. ASSUME NEW j \in 1..Len(t), NEW k \in 1..Len(t), j < k, t[j] = a, t[k] = b
          PROVE  Before(q, a, b)
      <3>1. j + 1 \in 1..Len(q) /\ k + 1 \in 1..Len(q) /\ j + 1 < k + 1 /\ q[j + 1] = a /\ q[k + 1] = b
        BY <1>2, <2>2
      <3> QED BY <3>1 DEF Before
    <2>3. ASSUME a = q[1], b \in Elements(t) PROVE Before(q, a, b)
      <3>1. PICK k \in 1..Len(t) : t[k] = b
        BY <2>3 DEF Elements
      <3>2. 1 \in 1..Len(q) /\ k + 1 \in 1..Len(q) /\ 1 < k + 1 /\ q[k + 1] = b
        BY <1>1, <1>2, <3>1
      <3> QED BY <2>3, <3>2 DEF Before
    <2> QED BY <2>1, <2>2, <2>3 DEF Before
  <1> QED BY <1>1, <1>5, <1>6 DEF t

(* What is in two sequences, one after the other, and in which order.      *)
LEMMA OfConcat ==
  ASSUME NEW S, NEW p \in Seq(S), NEW q \in Seq(S)
  PROVE  /\ p \o q \in Seq(S)
         /\ Elements(p \o q) = Elements(p) \union Elements(q)
         /\ \A a, b : Before(p \o q, a, b) <=> \/ Before(p, a, b) \/ Before(q, a, b)
                                               \/ (a \in Elements(p) /\ b \in Elements(q))
  <1> DEFINE c == p \o q
             m == Len(p)
             n == Len(q)
  <1>1. /\ m \in Nat /\ n \in Nat /\ c \in Seq(S) /\ Len(c) = m + n
        /\ \A i \in 1..m : c[i] = p[i] /\ i \in 1..Len(c)
        /\ \A i \in 1..n : c[m + i] = q[i] /\ m + i \in 1..Len(c)
    OBVIOUS
  <1> HIDE DEF c
  <1>2. \A i \in 1..Len(c) : i \in 1..m \/ (i - m \in 1..n /\ c[i] = q[i - m])
    <2> TAKE i \in 1..Len(c)
    <2>1. i \in 1..m \/ (i - m \in 1..n /\ m + (i - m) = i)
      BY <1>1
    <2>2. i - m \in 1..n => c[m + (i - m)] = q[i - m]
      BY <1>1
    <2> QED BY <2>1, <2>2
  <1> HIDE DEF m, n
  <1>3. Elements(c) = Elements(p) \union Elements(q)
    <2>1. ASSUME NEW x \in Elements(c) PROVE x \in Elements(p) \union Elements(q)
      <3>1. PICK i \in 1..Len(c) : x = c[i]
        BY DEF Elements
      <3> QED BY <1>1, <1>2, <3>1 DEF Elements, m, n
    <2>2. ASSUME NEW x \in Elements(p) PROVE x \in Elements(c)
      BY <1>1 DEF Elements, m
    <2>3. ASSUME NEW x \in Elements(q) PROVE x \in Elements(c)
      BY <1>1 DEF Elements, n
    <2> QED BY <2>1, <2>2, <2>3
  <1>4. ASSUME NEW a, NEW b
        PROVE  Before(c, a, b) <=> \/ Before(p, a, b) \/ Before(q, a, b)
                                   \/ (a \in Elements(p) /\ b \in Elements(q))
    <2>1. ASSUME NEW j \in 1..Len(c), NEW k \in 1..Len(c), j < k, c[j] = a, c[k] = b
          PROVE  \/ Before(p, a, b) \/ Before(q, a, b) \/ (a \in Elements(p) /\ b \in Elements(q))
      <3>1. CASE j \in 1..m /\ k \in 1..m
        <4>1. p[j] = a /\ p[k] = b
          BY <1>1, <2>1, <3>1
        <4>2. \E x, y \in 1..m : x < y /\ p[x] = a /\ p[y] = b
          BY <2>1, <3>1, <4>1
        <4> QED BY <4>2 DEF Before, m
      <3>2. CASE j \in 1..m /\ k \notin 1..m
        BY <1>1, <1>2, <2>1, <3>2 DEF Elements, m, n
      <3>3. CASE j \notin 1..m
        <4>1. j - m \in 1..n /\ c[j] = q[j - m]
          BY <1>2, <3>3
        <4>2. k \notin 1..m
          BY <1>1, <2>1, <3>3
        <4>3. k - m \in 1..n /\ c[k] = q[k - m] /\ j - m < k - m
          BY <1>1, <1>2, <2>1, <4>2
        <4>4. \E x, y \in 1..n : x < y /\ q[x] = a /\ q[y] = b
          BY <2>1, <4>1, <4>3
        <4> QED BY <4>4 DEF Before, n
      <3> QED BY <3>1, <3>2, <3>3
    <2>2. Before(p, a, b) => Before(c, a, b)
      BY <1>1 DEF Before, m
    <2>3. ASSUME NEW j \in 1..n, NEW k \in 1..n, j < k, q[j] = a, q[k] = b
          PROVE  Before(c, a, b)
      <3>1. /\ m + j \in 1..Len(c) /\ m + k \in 1..Len(c) /\ m + j < m + k
            /\ c[m + j] = a /\ c[m + k] = b
        BY <1>1, <2>3
      <3> QED BY <3>1 DEF Before
    <2>4. ASSUME a \in Elements(p), b \in Elements(q) PROVE Before(c, a, b)
      <3>1. PICK j \in 1..m : p[j] = a
        BY <2>4 DEF Elements, m
      <3>2. PICK k \in 1..n : q[k] = b
        BY <2>4 DEF Elements, n
      <3>3. /\ j \in 1..Len(c) /\ m + k \in 1..Len(c) /\ j < m + k /\ c[j] = a /\ c[m + k] = b
        BY <1>1, <3>1, <3>2
      <3> QED BY <3>3 DEF Before
    <2> QED BY <2>1, <2>2, <2>3, <2>4 DEF Before, n
  <1> QED BY <1>1, <1>3, <1>4 DEF c

LEMMA OfShort ==
  /\ Elements(<<>>) = {} /\ \A a, b : ~Before(<<>>, a, b)
  /\ \A x : Elements(<<x>>) = {x} /\ \A a, b : ~Before(<<x>>, a, b)
  <1>1. \A x : Len(<<x>>) = 1 /\ <<x>>[1] = x
    OBVIOUS
  <1>2. Len(<<>>) = 0
    OBVIOUS
  <1> QED BY <1>1, <1>2 DEF Elements, Before

(* The place of a number in a finite set of them. *)
Rank(S, x) == Cardinality({y \in S : y <= x})

LEMMA RankIsInjective ==
  ASSUME NEW S, S \subseteq Nat, IsFiniteSet(S)
  PROVE  /\ Cardinality(S) \in Nat
         /\ [x \in S |-> Rank(S, x)] \in Injection(S, 1..Cardinality(S))
  <1> DEFINE below(x) == {y \in S : y <= x}
             n == Cardinality(S)
  <1>1. n \in Nat
    BY FS_CardinalityType
  <1>2. \A x \in S : below(x) \subseteq S /\ IsFiniteSet(below(x)) /\ x \in below(x)
    <2> TAKE x \in S
    <2>1. below(x) \subseteq S
      OBVIOUS
    <2>2. IsFiniteSet(below(x))
      BY <2>1, FS_Subset
    <2>3. x <= x
      OBVIOUS
    <2> QED BY <2>1, <2>2, <2>3
  <1>3. \A x \in S : Rank(S, x) \in 1..n
    <2> TAKE x \in S
    <2>1. Cardinality(below(x)) \in Nat /\ Cardinality(below(x)) <= n
      BY <1>2, FS_Subset, FS_CardinalityType
    <2>2. Cardinality(below(x)) # 0
      BY <1>2, FS_EmptySet
    <2>3. Rank(S, x) = Cardinality(below(x))
      BY DEF Rank
    <2> QED BY <1>1, <2>1, <2>2, <2>3
  <1>4. ASSUME NEW x \in S, NEW z \in S, x < z PROVE Rank(S, x) # Rank(S, z)
    <2>1. below(x) \subseteq below(z)
      <3>1. \A y \in S : y <= x => y <= z
        BY <1>4
      <3> QED BY <3>1
    <2>2. z \notin below(x) /\ z \in below(z)
      BY <1>4
    <2>3. IsFiniteSet(below(z))
      BY <1>2
    <2> HIDE DEF below
    <2>4. Cardinality(below(x)) = Cardinality(below(z)) => below(x) = below(z)
      BY <2>1, <2>3, FS_Subset
    <2>5. Cardinality(below(x)) # Cardinality(below(z))
      BY <2>2, <2>4
    <2> QED BY <2>5 DEF Rank, below
  <1>5. \A x, z \in S : Rank(S, x) = Rank(S, z) => x = z
    <2> TAKE x, z \in S
    <2>1. x < z \/ z < x \/ x = z
      OBVIOUS
    <2> QED BY <1>4, <2>1
  <1>6. [x \in S |-> Rank(S, x)] \in [S -> 1..n]
    BY <1>3
  <1> HIDE DEF n
  <1>7. [x \in S |-> Rank(S, x)] \in Injection(S, 1..n)
    BY <1>5, <1>6 DEF Injection, IsInjective
  <1> QED BY <1>1, <1>7 DEF n

(* ForEach lists the work for each member of the set, once.                *)
LEMMA OfForEach ==
  ASSUME NEW do, NEW S, S \subseteq Nat, IsFiniteSet(S),
         NEW T, \A x \in S : Item(do, x) \in T
  PROVE  /\ ForEach(do, S) \in Seq(T)
         /\ Elements(ForEach(do, S)) = {Item(do, x) : x \in S}
         /\ \A a, b : Before(ForEach(do, S), a, b) => a # b
  <1> DEFINE n == Cardinality(S)
             rank == [x \in S |-> Rank(S, x)]
             nth(k) == CHOOSE x \in S : Rank(S, x) = k
             q == ForEach(do, S)
  <1>1. n \in Nat /\ rank \in Injection(S, 1..n)
    BY RankIsInjective
  <1>2. rank \in Surjection(S, 1..n)
    <2>1. IsFiniteSet(1..n) /\ Cardinality(1..n) = n
      BY <1>1, FS_Interval
    <2> HIDE DEF rank, n
    <2>2. Cardinality(S) = Cardinality(1..n)
      BY <2>1 DEF n
    <2> QED BY <1>1, <2>1, <2>2, FS_Injection
  <1>3. \A k \in 1..n : \E x \in S : Rank(S, x) = k
    BY <1>2 DEF Surjection
  <1>4. \A k \in 1..n : nth(k) \in S /\ Rank(S, nth(k)) = k
    BY <1>3
  <1>5. \A x \in S : Rank(S, x) \in 1..n /\ nth(Rank(S, x)) = x
    <2> TAKE x \in S
    <2>1. Rank(S, x) \in 1..n
      BY <1>1 DEF Injection
    <2>2. Rank(S, nth(Rank(S, x))) = Rank(S, x) /\ nth(Rank(S, x)) \in S
      BY <1>4, <2>1
    <2> QED BY <1>1, <2>1, <2>2 DEF Injection
  <1>6. q = [k \in 1..n |-> Item(do, nth(k))]
    BY DEF ForEach, Rank
  <1> HIDE DEF nth, n, q
  <1>7. q \in Seq(T) /\ Len(q) = n
    <2>1. \A k \in 1..n : Item(do, nth(k)) \in T
      BY <1>4
    <2> QED BY <1>1, <1>6, <2>1
  <1>8. Elements(q) = {Item(do, x) : x \in S}
    <2>1. ASSUME NEW x \in S PROVE Item(do, x) \in Elements(q)
      BY <1>5, <1>6, <1>7 DEF Elements
    <2>2. ASSUME NEW y \in Elements(q) PROVE y \in {Item(do, x) : x \in S}
      BY <1>4, <1>6, <1>7 DEF Elements
    <2> QED BY <2>1, <2>2
  <1>9. ASSUME NEW a, NEW b, Before(q, a, b) PROVE a # b
    <2>1. PICK j, k \in 1..n : j < k /\ q[j] = a /\ q[k] = b
      BY <1>7, <1>9 DEF Before
    <2>2. nth(j) # nth(k)
      BY <1>1, <1>4, <2>1
    <2>3. a = Item(do, nth(j)) /\ b = Item(do, nth(k))
      BY <1>6, <2>1
    <2> QED BY <2>2, <2>3 DEF Item
  <1> QED BY <1>7, <1>8, <1>9 DEF q

LEMMA OfTwo ==
  ASSUME NEW x, NEW y
  PROVE  /\ Elements(<<x, y>>) = {x, y}
         /\ \A a, b : Before(<<x, y>>, a, b) <=> a = x /\ b = y
  <1>1. Len(<<x, y>>) = 2 /\ <<x, y>>[1] = x /\ <<x, y>>[2] = y
    OBVIOUS
  <1>2. 1..2 = {1, 2}
    OBVIOUS
  <1> QED BY <1>1, <1>2 DEF Elements, Before

LEMMA OfThree ==
  ASSUME NEW x, NEW y, NEW z
  PROVE  /\ Elements(<<x, y, z>>) = {x, y, z}
         /\ \A a, b : Before(<<x, y, z>>, a, b) <=>
              (a = x /\ b = y) \/ (a = x /\ b = z) \/ (a = y /\ b = z)
  <1>1. /\ Len(<<x, y, z>>) = 3
        /\ <<x, y, z>>[1] = x /\ <<x, y, z>>[2] = y /\ <<x, y, z>>[3] = z
    OBVIOUS
  <1>2. 1..3 = {1, 2, 3}
    OBVIOUS
  <1> QED BY <1>1, <1>2 DEF Elements, Before

(***************************************************************************)
(* The work of the main thread.                                            *)
(***************************************************************************)

Subjects(do) ==
  CASE do \in {"decode", "frame"} -> Decoded
    [] do \in {"inputEnd", "loopFlush", "drain"} -> Inputs
    [] do \in {"input", "fileEnd", "stop"} -> Files
    [] do \in {"init", "eof"} -> Streams
    [] do \in {"copy", "copyEof"} -> Copying
    [] do \in {"filter", "closeOutput", "configure", "push", "encode", "flush", "packet"} -> Encoding
    [] OTHER -> Nat

(* An output stream wants some of it; the rest has no more than a subject. *)
Wanting == {"input", "fileEnd"}
Names == {"decoders", "init", "packet", "eof", "copy", "copyEof", "frame", "configure", "push", "reap",
          "encode", "decode", "inputEnd", "loopFlush", "loop", "filter", "closeOutput", "drain",
          "flush", "trailer", "verdict", "report", "close", "stop", "failed"}

Tasks == {x \in [do : Names, of : Nat] \union [do : Wanting, of : Nat, by : Nat] :
            x.of \in Subjects(x.do)}

LEMMA SubjectsOf ==
  /\ Subjects("decode") = Decoded /\ Subjects("frame") = Decoded
  /\ Subjects("inputEnd") = Inputs /\ Subjects("loopFlush") = Inputs /\ Subjects("drain") = Inputs
  /\ Subjects("input") = Files /\ Subjects("fileEnd") = Files /\ Subjects("stop") = Files
  /\ Subjects("init") = Streams /\ Subjects("eof") = Streams
  /\ Subjects("copy") = Copying /\ Subjects("copyEof") = Copying
  /\ Subjects("filter") = Encoding /\ Subjects("closeOutput") = Encoding
  /\ Subjects("configure") = Encoding /\ Subjects("push") = Encoding
  /\ Subjects("encode") = Encoding /\ Subjects("flush") = Encoding
  /\ Subjects("packet") = Encoding
  /\ \A do \in {"decoders", "loop", "reap", "trailer", "verdict", "report", "close", "failed"} :
       Subjects(do) = Nat
  BY DEF Subjects

LEMMA NumbersOf ==
  /\ Inputs \subseteq Nat /\ Decoded \subseteq Nat /\ Files \subseteq Nat
  /\ Streams \subseteq Nat /\ Copying \subseteq Nat /\ Encoding \subseteq Nat
  /\ Copying \subseteq Streams /\ Encoding \subseteq Streams /\ Decoded \subseteq Inputs
  /\ IsFiniteSet(Inputs) /\ IsFiniteSet(Streams) /\ IsFiniteSet(Files)
  /\ \A i \in Inputs : FileOf[i] \in Files
  /\ \A o \in Copying : CopyOf[o] \in Inputs
  /\ \A o \in Encoding : GraphOf[o] \subseteq Decoded
  /\ \A i \in Decoded : GraphFor(i) \in Encoding /\ i \in GraphOf[GraphFor(i)]
  <1>1. Inputs \subseteq Nat /\ Decoded \subseteq Inputs /\ IsFiniteSet(Inputs) /\ FileOf \in [Inputs -> Nat]
    BY DemuxerAssumption
  <1>2. Streams \subseteq Nat
    BY DEF Streams
  <1>3. IsFiniteSet(Streams)
    BY ThreadQueueAssumption, FS_Interval DEF Streams
  <1>4. Files \subseteq Nat /\ \A i \in Inputs : FileOf[i] \in Files
    BY <1>1 DEF Files
  <1>5. IsFiniteSet(Files)
    <2>1. FileOf \in [Inputs -> Files] /\ \A f \in Files : \E i \in Inputs : FileOf[i] = f
      BY <1>1 DEF Files
    <2>2. FileOf \in Surjection(Inputs, Files)
      BY <2>1 DEF Surjection
    <2> QED BY <1>1, <2>2, FS_Surjection
  <1>6. Copying \union Encoding = Streams
    BY TranscodeAssumption
  <1>7. \A o \in Copying : CopyOf[o] \in Inputs
    BY TranscodeAssumption
  <1>8. \A o \in Encoding : GraphOf[o] \subseteq Decoded
    BY TranscodeAssumption
  <1>9. \A i \in Decoded : GraphFor(i) \in Encoding /\ i \in GraphOf[GraphFor(i)]
    BY TranscodeAssumption DEF GraphFor
  <1> QED BY <1>1, <1>2, <1>3, <1>4, <1>5, <1>6, <1>7, <1>8, <1>9

LEMMA ItemIsTask ==
  ASSUME NEW do \in Names, NEW x \in Nat, x \in Subjects(do)
  PROVE  Item(do, x) \in Tasks /\ Item(do, x).do = do /\ Item(do, x).of = x
  BY DEF Item, Tasks

(* A task is made of its name and its subject.                             *)
LEMMA TaskIsItem ==
  ASSUME NEW x \in Tasks
  PROVE  /\ x.of \in Nat /\ x.of \in Subjects(x.do)
         /\ x.do \notin Wanting => x = Item(x.do, x.of)
  <1>1. x.of \in Nat /\ x.of \in Subjects(x.do)
    BY DEF Tasks, Wanting
  <1>2. ASSUME x.do \notin Wanting PROVE x = Item(x.do, x.of)
    <2>1. x \in [do : Names, of : Nat]
      BY <1>2 DEF Tasks
    <2> QED BY <2>1 DEF Item
  <1> QED BY <1>1, <1>2

LEMMA ElementsAreIn ==
  ASSUME NEW S, NEW q \in Seq(S)
  PROVE  Elements(q) \subseteq S
  BY DEF Elements

(* The same of ForEach, as tasks.                                          *)
LEMMA EachTask ==
  ASSUME NEW do \in Names, NEW S, IsFiniteSet(S), S \subseteq Nat, S \subseteq Subjects(do)
  PROVE  /\ ForEach(do, S) \in Seq(Tasks)
         /\ \A x \in Elements(ForEach(do, S)) : x.do = do /\ x.of \in S
         /\ \A s \in S : Item(do, s) \in Elements(ForEach(do, S))
         /\ \A a, b : Before(ForEach(do, S), a, b) =>
              /\ a \in Elements(ForEach(do, S)) /\ b \in Elements(ForEach(do, S)) /\ a # b
  <1>1. \A x \in S : Item(do, x) \in Tasks /\ Item(do, x).do = do /\ Item(do, x).of = x
    BY ItemIsTask
  <1>2. /\ ForEach(do, S) \in Seq(Tasks)
        /\ Elements(ForEach(do, S)) = {Item(do, x) : x \in S}
        /\ \A a, b : Before(ForEach(do, S), a, b) => a # b
    BY <1>1, OfForEach
  <1>3. \A a, b : Before(ForEach(do, S), a, b) =>
          a \in Elements(ForEach(do, S)) /\ b \in Elements(ForEach(do, S))
    BY DEF Before, Elements
  <1> QED BY <1>1, <1>2, <1>3

(* What one kind of work never comes before.                               *)
Plain == {"decode", "frame", "reap", "configure", "push", "init", "encode", "copy"}
Producing == {"decoders", "loop", "input", "filter", "inputEnd", "loopFlush", "drain", "decode",
              "frame", "reap", "encode"}

Follows(a, b) ==
  /\ a.do # "loop" /\ b.do # "packet"
  /\ b.do = "copy" => a.do \in Plain
  /\ a.do = "filter" => b.do # "init"
  /\ a.do \in {"input", "filter"} => b.do # "loopFlush"
  /\ a.do \in {"loopFlush", "flush"} => b # a
  /\ a.do = "flush" => b.do \notin Producing
  /\ a.do = "report" => b.do # "trailer"

Arranged(q) == \A a, b : Before(q, a, b) => Follows(a, b)

(* The work x that the work h leads to.                                    *)
MayPut(h, x) ==
  \/ h.do = "decode" /\ x.do = "frame"
  \/ h.do = "frame" /\ x.do \in {"reap", "configure", "push"}
  \/ h.do = "reap" /\ (x.do \in {"reap", "init"} \/ (x.do = "encode" /\ x.of \in initialized))
  \/ h.do = "loopFlush" /\ x.do = "frame"
  \/ /\ h.do = "input"
     /\ \/ x.do \in {"decode", "reap"}
        \/ x.do = "copy" /\ ifile_get_packet(h.of) /\ CopyOf[x.of] = Head(inQueue[h.of])
        \/ /\ x.do = "loopFlush" /\ FileOf[x.of] = h.of
           /\ ifile_get_packet(h.of) /\ Head(inQueue[h.of]) = LOOPING
        \/ x.do = "fileEnd"
        \/ x.do = "inputEnd" /\ FileOf[x.of] = h.of /\ Exhausted(h.of)
  \/ h.do = "inputEnd" /\ x.do \in {"copyEof", "eof"} /\ x.of \in CopiesOf(h.of)
  \/ h.do = "loop" /\ x.do \in {"input", "init", "filter"}
  \/ h.do = "filter" /\ (x.do \in {"reap", "input"} \/ (x.do \in {"encode", "closeOutput"} /\ x.of = h.of))
  \/ h.do = "drain" /\ (x.do = "frame" \/ (x.do = "copyEof" /\ x.of \in CopiesOf(h.of)))
  \/ /\ h.do = "flush" /\ x.of = h.of
     /\ x.do \in {"init", "eof"} \/ (x.do = "packet" /\ x.of \in keeping /\ x.of \in initialized)

Puts(N) ==
  /\ N \in Seq(Tasks) /\ Arranged(N)
  /\ \A x \in Elements(N) : MayPut(Head(work), x)
  /\ \A x \in Elements(N) : x.do = "filter" =>
       x.of \in initialized \/ Item("init", x.of) \in Elements(N)

(* The end of the last input: what is put before the loop begins again.    *)
Again(N) ==
  /\ N \in Seq(Tasks) /\ Arranged(N)
  /\ \A x \in Elements(N) : \/ x.do \in {"frame", "reap"}
                            \/ (x.do = "copyEof" /\ x.of \in CopiesOf(Subject))

Works ==
  \/ work' = exit_program
  \/ Head(work).do \in {"loop", "filter"} /\ work' = afterLoop
  \/ Head(work).do = "inputEnd" /\ \E N : Again(N) /\ work' = N \o <<Item("loop", 0)>>
  \/ Head(work).do # "loop" /\ \E N : Puts(N) /\ work' = N \o Rest
  \/ /\ Head(work).do \in {"reap", "loopFlush", "loop", "flush"}
     /\ Head(work).do = "flush" => Subject \notin initialized
     /\ \E N : Puts(N) /\ work' = N \o work

WorkStep == UNCHANGED work \/ (work # <<>> /\ Works)

(* The innermost call, and the rest, which it comes before.                *)
LEMMA HeadOfWork ==
  ASSUME work \in Seq(Tasks), work # <<>>
  PROVE  /\ Head(work) \in Tasks /\ Rest \in Seq(Tasks)
         /\ Subject \in Nat /\ Subject \in Subjects(Head(work).do)
         /\ Head(work).do \notin Wanting => Head(work) = Item(Head(work).do, Subject)
         /\ Elements(work) = {Head(work)} \union Elements(Rest)
         /\ \A a, b : Before(work, a, b) <=> \/ a = Head(work) /\ b \in Elements(Rest)
                                             \/ Before(Rest, a, b)
  BY OfTail, TaskIsItem DEF Rest, Subject

LEMMA NothingPut ==
  /\ Puts(<<>>) /\ Again(<<>>)
  /\ work \in Seq(Tasks) => <<>> \o work = work
  /\ \A q \in Seq(Tasks) : <<>> \o q = q
  BY OfShort DEF Puts, Again, Arranged

LEMMA PutsOf ==
  ASSUME NEW N \in Seq(Tasks), Arranged(N),
         \A x \in Elements(N) : MayPut(Head(work), x) /\ x.do # "filter"
  PROVE  Puts(N)
  BY Zenon DEF Puts

LEMMA Pops ==
  ASSUME work \in Seq(Tasks), work # <<>>, Head(work).do # "loop", work' = Rest
  PROVE  WorkStep
  BY HeadOfWork, NothingPut DEF WorkStep, Works

(* The work that leads to nothing new.                                     *)
SimpleWork ==
  \/ init_input_stream \/ init_output_stream \/ outputPacket \/ do_streamcopy \/ reconfigure
  \/ do_audio_out \/ fileEnd \/ close_output_stream \/ writeTrailer \/ verdict \/ report
  \/ closeOutputFile \/ closeInputFile

LEMMA SimpleWorkPops ==
  ASSUME SimpleWork
  PROVE  /\ work # <<>> /\ Head(work).do # "loop"
         /\ UNCHANGED work \/ work' = Rest \/ work' = exit_program
  <1>1. CASE init_input_stream
    BY <1>1 DEF init_input_stream, Doing
  <1>2. CASE init_output_stream
    BY <1>2 DEF init_output_stream, Doing
  <1>3. CASE outputPacket
    BY <1>3, Zenon DEF outputPacket, Doing
  <1>4. CASE do_streamcopy
    <2>1. (Doing("copy") \/ Doing("copyEof")) /\ work' = Rest
      BY <1>4, Zenon DEF do_streamcopy
    <2> QED BY <2>1 DEF Doing
  <1>5. CASE reconfigure
    <2>1. (Doing("configure") \/ Doing("push")) /\ (work' = Rest \/ work' = exit_program)
      BY <1>5, Zenon DEF reconfigure, pushFrame
    <2> QED BY <2>1 DEF Doing
  <1>6. CASE do_audio_out
    <2>1. Doing("encode") /\ (work' = Rest \/ work' = exit_program)
      BY <1>6, Zenon DEF do_audio_out
    <2> QED BY <2>1 DEF Doing
  <1>7. CASE fileEnd \/ close_output_stream \/ writeTrailer \/ verdict \/ closeOutputFile
    <2>1. /\ \E do \in {"fileEnd", "closeOutput", "trailer", "verdict", "close"} : Doing(do)
          /\ work' = Rest \/ work' = exit_program
      BY <1>7 DEF fileEnd, close_output_stream, writeTrailer, verdict, closeOutputFile
    <2> QED BY <2>1 DEF Doing
  <1>8. CASE report
    <2>1. /\ work = <<Item("failed", 0)>> \/ Doing("report")
          /\ work' = Rest
      BY <1>8, Zenon DEF report
    <2>2. <<Item("failed", 0)>> # <<>> /\ Head(<<Item("failed", 0)>>).do = "failed"
      BY DEF Item
    <2> QED BY <2>1, <2>2 DEF Doing
  <1>9. CASE closeInputFile
    <2>1. Stopping /\ (work' = Rest \/ UNCHANGED work)
      BY <1>9, Zenon DEF closeInputFile
    <2> QED BY <2>1 DEF Stopping
  <1> QED BY <1>1, <1>2, <1>3, <1>4, <1>5, <1>6, <1>7, <1>8, <1>9 DEF SimpleWork

(* One by one, what the actions that add work put in front of the rest.    *)
LEMMA FrameWork ==
  ASSUME work \in Seq(Tasks), ifilter_send_frame
  PROVE  WorkStep
  <1> DEFINE o == GraphFor(Subject)
             N == <<Item("reap", 0), Item("configure", o), Item("push", o)>>
  <1>1. /\ work # <<>> /\ Head(work).do = "frame"
        /\ work' = Rest \/ work' = exit_program \/ work' = N \o Rest
    BY Zenon DEF ifilter_send_frame, pushFrame, Doing
  <1>2. o \in Encoding /\ o \in Nat
    BY <1>1, HeadOfWork, SubjectsOf, NumbersOf
  <1> HIDE DEF o
  <1>3. /\ Item("reap", 0) \in Tasks /\ Item("configure", o) \in Tasks /\ Item("push", o) \in Tasks
        /\ Item("reap", 0).do = "reap" /\ Item("configure", o).do = "configure"
        /\ Item("push", o).do = "push"
    BY <1>2, ItemIsTask, SubjectsOf DEF Names
  <1>4. Puts(N)
    <2>1. N \in Seq(Tasks)
      BY <1>3
    <2>2. /\ Elements(N) = {Item("reap", 0), Item("configure", o), Item("push", o)}
          /\ \A a, b : Before(N, a, b) => a \in Elements(N) /\ b \in Elements(N)
      BY OfThree
    <2>3. \A x \in Elements(N) : x.do \in {"reap", "configure", "push"}
      BY <1>3, <2>2
    <2> HIDE DEF N
    <2>4. Arranged(N)
      BY <2>2, <2>3 DEF Arranged, Follows
    <2>5. \A x \in Elements(N) : MayPut(Head(work), x)
      BY <1>1, <2>3 DEF MayPut
    <2> QED BY <2>1, <2>3, <2>4, <2>5 DEF Puts
  <1> HIDE DEF N
  <1> QED BY <1>1, <1>4, Pops DEF WorkStep, Works

LEMMA InitializeOne ==
  ASSUME NEW o \in Encoding
  PROVE  /\ initialize({o}) \in Seq(Tasks)
         /\ \A x \in Elements(initialize({o})) : x.do = "init" /\ x.of = o
         /\ o \notin initialized => Item("init", o) \in Elements(initialize({o}))
         /\ \A a, b : ~Before(initialize({o}), a, b)
  <1> DEFINE S == {o} \ initialized
             q == ForEach("init", S)
  <1>1. "init" \in Names /\ S \subseteq Nat /\ S \subseteq Subjects("init")
    BY NumbersOf, SubjectsOf DEF Names
  <1>2. IsFiniteSet(S)
    BY FS_Singleton, FS_Difference
  <1>3. \A s \in S : s = o
    OBVIOUS
  <1>4. o \notin initialized => o \in S
    OBVIOUS
  <1> HIDE DEF S
  <1>5. /\ q \in Seq(Tasks)
        /\ \A x \in Elements(q) : x.do = "init" /\ x.of \in S
        /\ \A s \in S : Item("init", s) \in Elements(q)
        /\ \A a, b : Before(q, a, b) => a \in Elements(q) /\ b \in Elements(q) /\ a # b
    BY <1>1, <1>2, EachTask
  <1>6. q = initialize({o})
    BY DEF initialize, S
  <1> HIDE DEF q
  <1>7. \A x \in Elements(q) : x = Item("init", o)
    <2> TAKE x \in Elements(q)
    <2>1. x \in Tasks
      BY <1>5, ElementsAreIn
    <2> QED BY <1>3, <1>5, <2>1, TaskIsItem DEF Wanting
  <1> QED BY <1>3, <1>4, <1>5, <1>6, <1>7

LEMMA ReapWork ==
  ASSUME work \in Seq(Tasks), configured \subseteq Encoding, reap_filters
  PROVE  WorkStep
  <1> DEFINE ahead == {p \in configured : p >= Subject}
             o == First(ahead)
  <1>1. /\ work # <<>> /\ Head(work).do = "reap"
        /\ \/ work' = Rest
           \/ ahead # {} /\ o \notin initialized /\ work' = initialize({o}) \o work
           \/ ahead # {} /\ o \in initialized /\ work' = <<Item("encode", o)>> \o work
           \/ ahead # {} /\ work' = (IF ahead = {o} THEN <<>> ELSE <<Item("reap", o + 1)>>) \o Rest
    BY Zenon DEF reap_filters, Doing
  <1>2. CASE ahead = {}
    BY <1>1, <1>2, Pops
  <1>3. CASE ahead # {}
    <2>1. o \in Encoding /\ o \in Nat /\ o \in Streams
      <3>1. ahead \subseteq Streams
        BY NumbersOf
      <3> HIDE DEF ahead
      <3>2. o \in ahead
        BY <1>3, <3>1, FirstIsMember
      <3> QED BY <3>2, NumbersOf DEF ahead
    <2> HIDE DEF ahead, o
    <2>2. Rest \in Seq(Tasks)
      BY <1>1, HeadOfWork
    <2>3. CASE work' = Rest
      BY <1>1, <2>3, Pops
    <2>4. ASSUME NEW do \in {"init", "encode", "reap"}, NEW p \in Nat, p \in Subjects(do),
                 do = "encode" => p \in initialized
          PROVE  Puts(<<Item(do, p)>>)
      <3>1. Item(do, p) \in Tasks /\ Item(do, p).do = do /\ Item(do, p).of = p
        BY <2>4, ItemIsTask DEF Names
      <3> QED BY <1>1, <2>4, <3>1, OfShort DEF Puts, Arranged, MayPut
    <2>5. CASE o \notin initialized /\ work' = initialize({o}) \o work
      <3>1. /\ initialize({o}) \in Seq(Tasks)
            /\ \A x \in Elements(initialize({o})) : x.do = "init"
            /\ \A a, b : ~Before(initialize({o}), a, b)
        BY <2>1, InitializeOne
      <3>2. Puts(initialize({o}))
        BY <1>1, <3>1 DEF Puts, Arranged, MayPut
      <3> QED BY <1>1, <2>5, <3>2 DEF WorkStep, Works
    <2>6. CASE o \in initialized /\ work' = <<Item("encode", o)>> \o work
      BY <1>1, <2>1, <2>4, <2>6, SubjectsOf DEF WorkStep, Works
    <2>7. CASE work' = (IF ahead = {o} THEN <<>> ELSE <<Item("reap", o + 1)>>) \o Rest
      <3>1. Puts(<<Item("reap", o + 1)>>)
        BY <2>1, <2>4, SubjectsOf
      <3> QED BY <1>1, <2>7, <3>1, NothingPut DEF WorkStep, Works
    <2> QED BY <1>1, <2>3, <2>5, <2>6, <2>7
  <1> QED BY <1>2, <1>3

LEMMA DecodeWork ==
  ASSUME work \in Seq(Tasks), decode
  PROVE  WorkStep
  <1>1. /\ work # <<>> /\ Head(work).do = "decode"
        /\ \/ \E n \in 0..2 : work' = [k \in 1..n |-> Item("frame", Subject)] \o Rest
           \/ work' = Rest
    BY Zenon DEF decode, Doing
  <1>2. Item("frame", Subject) \in Tasks /\ Item("frame", Subject).do = "frame"
    BY <1>1, HeadOfWork, SubjectsOf, ItemIsTask DEF Names
  <1>3. ASSUME NEW n \in 0..2
        PROVE  Puts([k \in 1..n |-> Item("frame", Subject)])
    <2> DEFINE N == [k \in 1..n |-> Item("frame", Subject)]
    <2>1. N \in Seq(Tasks) /\ Len(N) = n
      BY <1>2
    <2>2. \A x \in Elements(N) : x.do = "frame"
      BY <1>2, <2>1 DEF Elements
    <2>3. \A a, b : Before(N, a, b) => a \in Elements(N) /\ b \in Elements(N)
      BY DEF Before, Elements
    <2> HIDE DEF N
    <2>4. Arranged(N)
      BY <2>2, <2>3 DEF Arranged, Follows
    <2>5. \A x \in Elements(N) : MayPut(Head(work), x)
      BY <1>1, <2>2 DEF MayPut
    <2> QED BY <2>1, <2>2, <2>4, <2>5, PutsOf DEF N
  <1>4. CASE work' = Rest
    BY <1>1, <1>4, Pops
  <1>5. ASSUME NEW n \in 0..2, work' = [k \in 1..n |-> Item("frame", Subject)] \o Rest
        PROVE  WorkStep
    <2> DEFINE N == [k \in 1..n |-> Item("frame", Subject)]
    <2>1. Puts(N) /\ work' = N \o Rest
      BY <1>3, <1>5
    <2> HIDE DEF N
    <2> QED BY <1>1, <2>1 DEF WorkStep, Works
  <1> QED BY <1>1, <1>4, <1>5

(* What ends the outputs that copy an input.                               *)
LEMMA CopyEnds ==
  ASSUME NEW i \in Inputs, NEW do \in {"copyEof", "eof", "copy"}
  PROVE  /\ ForEach(do, CopiesOf(i)) \in Seq(Tasks)
         /\ \A x \in Elements(ForEach(do, CopiesOf(i))) : x.do = do /\ x.of \in CopiesOf(i)
         /\ \A a, b : Before(ForEach(do, CopiesOf(i)), a, b) =>
              /\ a \in Elements(ForEach(do, CopiesOf(i)))
              /\ b \in Elements(ForEach(do, CopiesOf(i)))
  <1>1. CopiesOf(i) \subseteq Copying /\ CopiesOf(i) \subseteq Streams /\ CopiesOf(i) \subseteq Nat
    BY NumbersOf DEF CopiesOf
  <1>2. IsFiniteSet(CopiesOf(i))
    BY <1>1, NumbersOf, FS_Subset
  <1>3. do \in Names /\ CopiesOf(i) \subseteq Subjects(do)
    BY <1>1, SubjectsOf DEF Names
  <1> QED BY <1>1, <1>2, <1>3, EachTask, Zenon

LEMMA InputEndWork ==
  ASSUME work \in Seq(Tasks), inputEnd
  PROVE  WorkStep
  <1> DEFINE copies == ForEach("copyEof", CopiesOf(Subject))
             eofs == ForEach("eof", CopiesOf(Subject))
             frame == <<Item("frame", Subject)>>
             reap == <<Item("reap", 0)>>
             loop == <<Item("loop", 0)>>
             more == copies \o <<Item("reap", 0), Item("loop", 0)>>
             over == copies \o eofs \o Rest
  <1>1. /\ work # <<>> /\ Head(work).do = "inputEnd"
        /\ \/ Subject \in Decoded /\ work' \in {frame \o more, more}
           \/ work' = over
           \/ work' = exit_program
    BY Zenon DEF inputEnd, endOfInput, drainFrame, ifilter_send_eof, Doing
  <1>2. Subject \in Inputs /\ Rest \in Seq(Tasks)
    BY <1>1, HeadOfWork, SubjectsOf
  <1>3. /\ copies \in Seq(Tasks) /\ eofs \in Seq(Tasks)
        /\ \A x \in Elements(copies) : x.do = "copyEof" /\ x.of \in CopiesOf(Subject)
        /\ \A x \in Elements(eofs) : x.do = "eof" /\ x.of \in CopiesOf(Subject)
        /\ \A a, b : Before(copies, a, b) => a \in Elements(copies) /\ b \in Elements(copies)
        /\ \A a, b : Before(eofs, a, b) => a \in Elements(eofs) /\ b \in Elements(eofs)
    BY <1>2, CopyEnds
  <1>4. /\ reap \in Seq(Tasks) /\ loop \in Seq(Tasks)
        /\ Item("reap", 0).do = "reap"
        /\ <<Item("reap", 0), Item("loop", 0)>> = reap \o loop
    <2>1. /\ Item("reap", 0) \in Tasks /\ Item("loop", 0) \in Tasks
          /\ Item("reap", 0).do = "reap"
      BY ItemIsTask, SubjectsOf DEF Names
    <2> QED BY <2>1
  <1>5. Subject \in Decoded => Item("frame", Subject) \in Tasks /\ Item("frame", Subject).do = "frame"
    BY <1>2, ItemIsTask, SubjectsOf, NumbersOf DEF Names
  <1> HIDE DEF copies, eofs, reap, loop
  <1>6. CASE work' = over
    <2>1. /\ copies \o eofs \in Seq(Tasks)
          /\ Elements(copies \o eofs) = Elements(copies) \union Elements(eofs)
          /\ \A a, b : Before(copies \o eofs, a, b) <=>
               \/ Before(copies, a, b) \/ Before(eofs, a, b)
               \/ (a \in Elements(copies) /\ b \in Elements(eofs))
      BY <1>3, OfConcat
    <2>2. Arranged(copies \o eofs)
      BY <1>3, <2>1 DEF Arranged, Follows
    <2>3. Puts(copies \o eofs)
      <3>1. \A x \in Elements(copies \o eofs) :
              x.do \in {"copyEof", "eof"} /\ x.of \in CopiesOf(Subject)
        BY <1>3, <2>1
      <3>2. \A x \in Elements(copies \o eofs) : MayPut(Head(work), x)
        BY <1>1, <3>1 DEF MayPut, Subject
      <3> QED BY <2>1, <2>2, <3>1, <3>2, PutsOf
    <2>4. work' = (copies \o eofs) \o Rest
      BY <1>6
    <2> QED BY <1>1, <2>3, <2>4 DEF WorkStep, Works
  <1>7. CASE Subject \in Decoded /\ work' \in {frame \o more, more}
    <2> DEFINE N == copies \o reap
    <2>1. /\ N \in Seq(Tasks)
          /\ Elements(N) = Elements(copies) \union Elements(reap)
          /\ \A a, b : Before(N, a, b) <=>
               \/ Before(copies, a, b) \/ Before(reap, a, b)
               \/ (a \in Elements(copies) /\ b \in Elements(reap))
      BY <1>3, <1>4, OfConcat
    <2>2. Elements(reap) = {Item("reap", 0)} /\ \A a, b : ~Before(reap, a, b)
      BY OfShort DEF reap
    <2>3. more = N \o loop
      <3>1. (copies \o reap) \o loop = copies \o (reap \o loop)
        BY <1>3, <1>4, ConcatAssociative
      <3> QED BY <1>4, <3>1, Zenon
    <2> HIDE DEF N, more
    <2>4. Again(N)
      BY <1>3, <1>4, <2>1, <2>2 DEF Again, Arranged, Follows
    <2>5. frame \in Seq(Tasks) /\ Elements(frame) = {Item("frame", Subject)} /\ \A a, b : ~Before(frame, a, b)
      BY <1>5, <1>7, OfShort
    <2> HIDE DEF frame
    <2>6. /\ frame \o N \in Seq(Tasks)
          /\ Elements(frame \o N) = Elements(frame) \union Elements(N)
          /\ \A a, b : Before(frame \o N, a, b) <=>
               \/ Before(frame, a, b) \/ Before(N, a, b)
               \/ (a \in Elements(frame) /\ b \in Elements(N))
      BY <2>1, <2>5, OfConcat
    <2>7. frame \o more = (frame \o N) \o loop
      <3>1. (frame \o N) \o loop = frame \o (N \o loop)
        <4>1. frame \in Seq(Tasks) /\ N \in Seq(Tasks) /\ loop \in Seq(Tasks)
          BY <1>4, <2>1, <2>5
        <4> HIDE DEF over
        <4> QED BY <4>1, ConcatAssociative
      <3> QED BY <2>3, <3>1
    <2>8. Again(frame \o N)
      BY <1>5, <1>7, <2>4, <2>5, <2>6 DEF Again, Arranged, Follows
    <2>9. \E M : Again(M) /\ work' = M \o loop
      BY <1>7, <2>3, <2>4, <2>7, <2>8
    <2>10. \E M : Again(M) /\ work' = M \o <<Item("loop", 0)>>
      BY <2>9 DEF loop
    <2> QED BY <1>1, <2>10, Zenon DEF WorkStep, Works
  <1>8. CASE work' = exit_program
    BY <1>1, <1>8 DEF WorkStep, Works
  <1> QED BY <1>1, <1>6, <1>7, <1>8

LEMMA OnePut ==
  ASSUME NEW x \in Tasks, MayPut(Head(work), x),
         x.do = "filter" => x.of \in initialized
  PROVE  Puts(<<x>>)
  <1>1. <<x>> \in Seq(Tasks) /\ Elements(<<x>>) = {x} /\ Arranged(<<x>>)
    BY OfShort DEF Arranged
  <1> QED BY <1>1, Zenon DEF Puts

LEMMA TwoPut ==
  ASSUME NEW x \in Tasks, NEW y \in Tasks, MayPut(Head(work), x), MayPut(Head(work), y),
         x.do # "filter", y.do # "filter", Follows(x, y)
  PROVE  Puts(<<x, y>>)
  <1>1. <<x, y>> \in Seq(Tasks) /\ Elements(<<x, y>>) = {x, y}
    BY OfTwo
  <1>2. Arranged(<<x, y>>)
    <2> SUFFICES \A a, b : Before(<<x, y>>, a, b) => Follows(a, b)
      BY Zenon DEF Arranged
    <2> TAKE a, b
    <2>1. Before(<<x, y>>, a, b) => a = x /\ b = y
      BY OfTwo, Zenon
    <2> QED BY <2>1
  <1> QED BY <1>1, <1>2, Zenon DEF Puts

LEMMA FlushWork ==
  ASSUME work \in Seq(Tasks), decode_flush
  PROVE  WorkStep
  <1> DEFINE frame == <<Item("frame", Subject)>>
  <1>1. /\ work # <<>> /\ Head(work).do = "loopFlush"
        /\ \/ Subject \in Decoded /\ work' \in {frame \o work, work}
           \/ work' = Rest
    BY Zenon DEF decode_flush, drainFrame, Doing
  <1>2. ASSUME Subject \in Decoded PROVE Puts(frame)
    <2>1. Item("frame", Subject) \in Tasks /\ Item("frame", Subject).do = "frame"
      BY <1>2, NumbersOf, SubjectsOf, ItemIsTask DEF Names
    <2> QED BY <1>1, <2>1, OnePut DEF MayPut
  <1> HIDE DEF frame
  <1>3. CASE work' = Rest
    BY <1>1, <1>3, Pops
  <1>4. CASE Subject \in Decoded /\ work' = frame \o work
    BY <1>1, <1>2, <1>4 DEF WorkStep, Works
  <1>5. CASE work' = work
    BY <1>5 DEF WorkStep, Works
  <1> QED BY <1>1, <1>3, <1>4, <1>5

LEMMA StreamsOfFile ==
  ASSUME NEW f \in Files, NEW do \in {"inputEnd", "loopFlush"}
  PROVE  /\ ForEach(do, StreamsOf(f)) \in Seq(Tasks)
         /\ \A x \in Elements(ForEach(do, StreamsOf(f))) : x.do = do /\ FileOf[x.of] = f
         /\ \A a, b : Before(ForEach(do, StreamsOf(f)), a, b) =>
              /\ a \in Elements(ForEach(do, StreamsOf(f)))
              /\ b \in Elements(ForEach(do, StreamsOf(f))) /\ a # b
  <1>1. /\ StreamsOf(f) \subseteq Inputs /\ StreamsOf(f) \subseteq Nat
        /\ \A i \in StreamsOf(f) : FileOf[i] = f
    BY NumbersOf DEF StreamsOf
  <1>2. IsFiniteSet(StreamsOf(f))
    BY <1>1, NumbersOf, FS_Subset
  <1>3. do \in Names /\ StreamsOf(f) \subseteq Subjects(do)
    BY <1>1, SubjectsOf DEF Names
  <1> DEFINE S == StreamsOf(f)
  <1> HIDE DEF S
  <1>4. /\ ForEach(do, S) \in Seq(Tasks)
        /\ \A x \in Elements(ForEach(do, S)) : x.do = do /\ x.of \in S
        /\ \A a, b : Before(ForEach(do, S), a, b) =>
             a \in Elements(ForEach(do, S)) /\ b \in Elements(ForEach(do, S)) /\ a # b
    <2>1. S \subseteq Nat /\ IsFiniteSet(S) /\ S \subseteq Subjects(do) /\ do \in Names
      BY <1>1, <1>2, <1>3 DEF S
    <2> QED BY <2>1, EachTask
  <1> QED BY <1>1, <1>4 DEF S

LEMMA InputWork ==
  ASSUME work \in Seq(Tasks), DemuxerTypeOK, process_input
  PROVE  WorkStep
  <1> DEFINE f == Subject
             i == Head(inQueue[f])
             ends == ForEach("inputEnd", StreamsOf(f))
             last == [Head(work) EXCEPT !.do = "fileEnd"]
             flushes == ForEach("loopFlush", StreamsOf(f))
             decodes == ForEach("decode", {i} \intersect Decoded)
             copies == ForEach("copy", CopiesOf(i))
             reap == <<Item("reap", 0)>>
  <1>1. /\ work # <<>> /\ Head(work).do = "input" /\ f \in Files
        /\ \/ UNCHANGED work
           \/ work' = Rest
           \/ Exhausted(f) /\ work' = ends \o <<last>> \o Rest
           \/ ifile_get_packet(f) /\ i = LOOPING /\ work' = flushes \o Rest
           \/ ifile_get_packet(f) /\ i # LOOPING /\ work' = decodes \o copies \o reap \o Rest
    BY Zenon DEF process_input, OfFile, Doing
  <1>2. Rest \in Seq(Tasks) /\ Head(work) \in Tasks
    BY <1>1, HeadOfWork
  <1>3. CASE work' = Rest \/ UNCHANGED work
    BY <1>1, <1>3, Pops DEF WorkStep, Works
  <1>4. CASE Exhausted(f) /\ work' = ends \o <<last>> \o Rest
    <2>1. last \in Tasks /\ last.do = "fileEnd"
      <3>1. Head(work) \in [do : Wanting, of : Nat, by : Nat]
        BY <1>1, <1>2 DEF Tasks, Names
      <3>2. last \in [do : Wanting, of : Nat, by : Nat] /\ last.do = "fileEnd" /\ last.of = f
        BY <3>1 DEF Wanting, Subject
      <3> QED BY <1>1, <3>2, SubjectsOf DEF Tasks
    <2> HIDE DEF last
    <2>2. <<last>> \in Seq(Tasks) /\ Elements(<<last>>) = {last} /\ \A a, b : ~Before(<<last>>, a, b)
      BY <2>1, OfShort
    <2>3. /\ ends \in Seq(Tasks)
          /\ \A x \in Elements(ends) : x.do = "inputEnd" /\ FileOf[x.of] = f
          /\ \A a, b : Before(ends, a, b) => a \in Elements(ends) /\ b \in Elements(ends)
      BY <1>1, StreamsOfFile
    <2> HIDE DEF ends
    <2>4. /\ ends \o <<last>> \in Seq(Tasks)
          /\ Elements(ends \o <<last>>) = Elements(ends) \union {last}
          /\ \A a, b : Before(ends \o <<last>>, a, b) =>
               Before(ends, a, b) \/ (a \in Elements(ends) /\ b = last)
      BY <2>2, <2>3, OfConcat
    <2>5. Arranged(ends \o <<last>>)
      BY <2>1, <2>3, <2>4 DEF Arranged, Follows
    <2>6. \A x \in Elements(ends \o <<last>>) : MayPut(Head(work), x) /\ x.do # "filter"
      BY <1>1, <1>4, <2>1, <2>3, <2>4 DEF MayPut, Subject
    <2>7. Puts(ends \o <<last>>)
      BY <2>4, <2>5, <2>6, PutsOf
    <2> QED BY <1>1, <1>4, <2>7 DEF WorkStep, Works
  <1>5. CASE ifile_get_packet(f) /\ i = LOOPING /\ work' = flushes \o Rest
    <2>1. /\ flushes \in Seq(Tasks)
          /\ \A x \in Elements(flushes) : x.do = "loopFlush" /\ FileOf[x.of] = f
          /\ \A a, b : Before(flushes, a, b) =>
               a \in Elements(flushes) /\ b \in Elements(flushes) /\ a # b
      BY <1>1, StreamsOfFile
    <2> HIDE DEF flushes
    <2>2. Arranged(flushes)
      BY <2>1 DEF Arranged, Follows
    <2>3. \A x \in Elements(flushes) : MayPut(Head(work), x) /\ x.do # "filter"
      BY <1>1, <1>5, <2>1 DEF MayPut, Subject
    <2>4. Puts(flushes)
      BY <2>1, <2>2, <2>3, PutsOf
    <2> QED BY <1>1, <1>5, <2>4 DEF WorkStep, Works
  <1>6. CASE ifile_get_packet(f) /\ i # LOOPING /\ work' = decodes \o copies \o reap \o Rest
    <2>1. i \in Inputs
      <3>1. inQueue[f] \in Seq(Messages) /\ inQueue[f] # <<>>
        BY <1>1, <1>6 DEF ifile_get_packet, DemuxerTypeOK
      <3>2. Head(inQueue[f]) \in Messages
        BY <3>1
      <3> QED BY <1>6, <3>2 DEF Messages
    <2>2. /\ copies \in Seq(Tasks)
          /\ \A x \in Elements(copies) : x.do = "copy" /\ CopyOf[x.of] = i
          /\ \A a, b : Before(copies, a, b) => a \in Elements(copies) /\ b \in Elements(copies)
      BY <2>1, CopyEnds DEF CopiesOf
    <2>3. /\ decodes \in Seq(Tasks)
          /\ \A x \in Elements(decodes) : x.do = "decode"
          /\ \A a, b : Before(decodes, a, b) => a \in Elements(decodes) /\ b \in Elements(decodes)
      <3> DEFINE S == {i} \intersect Decoded
      <3>1. S \subseteq Nat /\ S \subseteq Subjects("decode") /\ "decode" \in Names
        BY NumbersOf, SubjectsOf DEF Names
      <3>2. IsFiniteSet(S)
        BY FS_Singleton, FS_Intersection
      <3> HIDE DEF S
      <3>3. /\ ForEach("decode", S) \in Seq(Tasks)
            /\ \A x \in Elements(ForEach("decode", S)) : x.do = "decode"
            /\ \A a, b : Before(ForEach("decode", S), a, b) =>
                 a \in Elements(ForEach("decode", S)) /\ b \in Elements(ForEach("decode", S))
        BY <3>1, <3>2, EachTask
      <3> QED BY <3>3 DEF S
    <2>4. reap \in Seq(Tasks) /\ Item("reap", 0).do = "reap"
          /\ Elements(reap) = {Item("reap", 0)} /\ \A a, b : ~Before(reap, a, b)
      <3>1. Item("reap", 0) \in Tasks /\ Item("reap", 0).do = "reap"
        BY SubjectsOf, ItemIsTask DEF Names
      <3> QED BY <3>1, OfShort
    <2> HIDE DEF decodes, copies, reap
    <2> DEFINE first == decodes \o copies
               N == first \o reap
    <2>5. /\ first \in Seq(Tasks)
          /\ Elements(first) = Elements(decodes) \union Elements(copies)
          /\ \A a, b : Before(first, a, b) =>
               \/ Before(decodes, a, b) \/ Before(copies, a, b)
               \/ (a \in Elements(decodes) /\ b \in Elements(copies))
      BY <2>2, <2>3, OfConcat
    <2> HIDE DEF first
    <2>6. /\ N \in Seq(Tasks)
          /\ Elements(N) = Elements(first) \union Elements(reap)
          /\ \A a, b : Before(N, a, b) =>
               \/ Before(first, a, b) \/ (a \in Elements(first) /\ b \in Elements(reap))
      BY <2>4, <2>5, OfConcat
    <2> HIDE DEF N
    <2>7. Arranged(N)
      BY <2>2, <2>3, <2>4, <2>5, <2>6 DEF Arranged, Follows, Plain
    <2>8. \A x \in Elements(N) : /\ x.do \in {"decode", "reap", "copy"}
                                 /\ x.do = "copy" => CopyOf[x.of] = i
      BY <2>2, <2>3, <2>4, <2>5, <2>6
    <2>9. \A x \in Elements(N) : MayPut(Head(work), x) /\ x.do # "filter"
      BY <1>1, <1>6, <2>8 DEF MayPut, Subject
    <2>10. Puts(N) /\ work' = N \o Rest
      BY <1>6, <2>6, <2>7, <2>9, PutsOf DEF N, first
    <2> QED BY <1>1, <2>10 DEF WorkStep, Works
  <1> QED BY <1>1, <1>3, <1>4, <1>5, <1>6

LEMMA InputIsTask ==
  ASSUME NEW f \in Files, NEW o \in Streams
  PROVE  Input(f, o) \in Tasks /\ Input(f, o).do = "input"
  <1>1. f \in Nat /\ o \in Nat
    BY NumbersOf
  <1>2. Input(f, o) \in [do : Wanting, of : Nat, by : Nat] /\ Input(f, o).do = "input" /\ Input(f, o).of = f
    BY <1>1 DEF Input, Wanting
  <1> QED BY <1>2, SubjectsOf DEF Tasks

LEMMA LoopWork ==
  ASSUME work \in Seq(Tasks), configured \subseteq Encoding, transcode_step
  PROVE  WorkStep
  <1>1. /\ work # <<>> /\ Head(work).do = "loop"
        /\ UNCHANGED work \/ \E o \in Chosen : stepCopy(o) \/ stepUnconfigured(o) \/ stepFilter(o)
    BY Zenon DEF transcode_step, Doing
  <1>2. Chosen \subseteq Streams
    <2>1. Streams \ initialized # {} => First(Streams \ initialized) \in Streams
      BY FirstIsMember
    <2> QED BY <2>1 DEF Chosen
  <1>3. ASSUME NEW f \in Files, NEW o \in Streams
        PROVE  Puts(<<Input(f, o)>>)
    BY <1>1, InputIsTask, OnePut DEF MayPut
  <1>4. ASSUME NEW o \in Encoding
        PROVE  Puts(initialize({o}) \o <<Item("filter", o)>>)
    <2> DEFINE inits == initialize({o})
               filter == <<Item("filter", o)>>
    <2>1. Item("filter", o) \in Tasks /\ Item("filter", o).do = "filter" /\ Item("filter", o).of = o
      BY NumbersOf, SubjectsOf, ItemIsTask DEF Names
    <2>2. filter \in Seq(Tasks) /\ Elements(filter) = {Item("filter", o)} /\ \A a, b : ~Before(filter, a, b)
      BY <2>1, OfShort
    <2>3. /\ inits \in Seq(Tasks)
          /\ \A x \in Elements(inits) : x.do = "init" /\ x.of = o
          /\ o \notin initialized => Item("init", o) \in Elements(inits)
          /\ \A a, b : ~Before(inits, a, b)
      BY InitializeOne
    <2> HIDE DEF inits, filter
    <2>4. /\ inits \o filter \in Seq(Tasks)
          /\ Elements(inits \o filter) = Elements(inits) \union Elements(filter)
          /\ \A a, b : Before(inits \o filter, a, b) => a \in Elements(inits) /\ b \in Elements(filter)
      BY <2>2, <2>3, OfConcat
    <2>5. Arranged(inits \o filter)
      BY <2>1, <2>2, <2>3, <2>4 DEF Arranged, Follows
    <2>6. \A x \in Elements(inits \o filter) : MayPut(Head(work), x)
      BY <1>1, <2>1, <2>2, <2>3, <2>4 DEF MayPut
    <2>7. \A x \in Elements(inits \o filter) : x.do = "filter" =>
            x.of \in initialized \/ Item("init", x.of) \in Elements(inits \o filter)
      BY <2>1, <2>2, <2>3, <2>4
    <2> QED BY <2>4, <2>5, <2>6, <2>7 DEF Puts, inits, filter
  <1>5. ASSUME NEW o \in Chosen, stepCopy(o) PROVE WorkStep
    <2>1. work' = <<Input(FileOf[CopyOf[o]], o)>> \o work /\ FileOf[CopyOf[o]] \in Files
      BY <1>5, NumbersOf DEF stepCopy
    <2>2. Puts(<<Input(FileOf[CopyOf[o]], o)>>)
      BY <1>2, <1>3, <2>1
    <2> QED BY <1>1, <2>1, <2>2 DEF WorkStep, Works
  <1>6. ASSUME NEW o \in Chosen, stepUnconfigured(o) PROVE WorkStep
    <2> DEFINE missing == GraphOf[o] \ known
    <2>1. /\ o \in Encoding
          /\ \/ missing # {} /\ work' = <<Input(FileOf[First(missing)], o)>> \o work
             \/ work' = initialize({o}) \o <<Item("filter", o)>> \o work
             \/ work' = afterLoop
      BY <1>6, Zenon DEF stepUnconfigured
    <2>2. missing \subseteq Inputs /\ missing \subseteq Nat
      BY <2>1, NumbersOf
    <2> HIDE DEF missing
    <2>3. CASE missing # {} /\ work' = <<Input(FileOf[First(missing)], o)>> \o work
      <3>1. First(missing) \in Inputs
        BY <2>2, <2>3, LeastNumber
      <3>2. Puts(<<Input(FileOf[First(missing)], o)>>)
        BY <1>2, <1>3, <3>1, NumbersOf
      <3> QED BY <1>1, <2>3, <3>2 DEF WorkStep, Works
    <2>4. CASE work' = initialize({o}) \o <<Item("filter", o)>> \o work
      BY <1>1, <1>4, <2>1, <2>4 DEF WorkStep, Works
    <2> QED BY <1>1, <2>1, <2>3, <2>4 DEF WorkStep, Works
  <1>7. ASSUME NEW o \in Chosen, stepFilter(o) PROVE WorkStep
    <2>1. o \in Encoding /\ work' = initialize({o}) \o <<Item("filter", o)>> \o work
      BY <1>7 DEF stepFilter
    <2> QED BY <1>1, <1>4, <2>1 DEF WorkStep, Works
  <1> QED BY <1>1, <1>5, <1>6, <1>7 DEF WorkStep, Works

LEMMA FilterWork ==
  ASSUME work \in Seq(Tasks), transcode_from_filter
  PROVE  WorkStep
  <1> DEFINE o == Subject
  <1>1. /\ work # <<>> /\ Head(work).do = "filter"
        /\ \/ work' = <<Item("encode", o), Item("reap", 0)>> \o Rest
           \/ work' = <<Item("reap", 0), Item("closeOutput", o)>> \o Rest
           \/ \E i \in GraphOf[o] : work' = <<Input(FileOf[i], o)>> \o Rest
           \/ work' = Rest
           \/ work' = afterLoop
    BY Zenon DEF transcode_from_filter, Doing
  <1>2. o \in Encoding /\ o \in Streams /\ GraphOf[o] \subseteq Inputs
    BY <1>1, HeadOfWork, SubjectsOf, NumbersOf
  <1>3. /\ Item("encode", o) \in Tasks /\ Item("reap", 0) \in Tasks /\ Item("closeOutput", o) \in Tasks
        /\ Item("encode", o).do = "encode" /\ Item("encode", o).of = Head(work).of
        /\ Item("reap", 0).do = "reap"
        /\ Item("closeOutput", o).do = "closeOutput" /\ Item("closeOutput", o).of = Head(work).of
    <2>1. o \in Nat
      BY <1>2, NumbersOf
    <2> QED BY <1>2, <2>1, ItemIsTask, SubjectsOf DEF Names, Subject
  <1> DEFINE e == Item("encode", o)
             r == Item("reap", 0)
             c == Item("closeOutput", o)
  <1>4. MayPut(Head(work), e) /\ MayPut(Head(work), r) /\ MayPut(Head(work), c)
    BY <1>1, <1>3 DEF MayPut
  <1>5. Follows(e, r) /\ Follows(r, c)
    BY <1>3 DEF Follows
  <1> HIDE DEF o, e, r, c
  <1>6. Puts(<<e, r>>) /\ Puts(<<r, c>>)
    BY <1>3, <1>4, <1>5, TwoPut DEF e, r, c
  <1>7. ASSUME NEW i \in GraphOf[o] PROVE Puts(<<Input(FileOf[i], o)>>)
    BY <1>1, <1>2, InputIsTask, OnePut, NumbersOf DEF MayPut
  <1>8. CASE work' = <<e, r>> \o Rest \/ work' = <<r, c>> \o Rest
    BY <1>1, <1>6, <1>8, Zenon DEF WorkStep, Works
  <1>9. ASSUME NEW i \in GraphOf[o], work' = <<Input(FileOf[i], o)>> \o Rest
        PROVE  WorkStep
    BY <1>1, <1>7, <1>9, Zenon DEF WorkStep, Works
  <1>10. CASE work' = Rest
    BY <1>1, <1>10, Pops
  <1>11. CASE work' = afterLoop
    BY <1>1, <1>11 DEF WorkStep, Works
  <1> QED BY <1>1, <1>8, <1>9, <1>10, <1>11 DEF e, r, c, o

LEMMA LeaveWork ==
  ASSUME leaveLoop
  PROVE  WorkStep
  <1>1. work # <<>> /\ Head(work).do = "loop" /\ work' = afterLoop
    BY DEF leaveLoop, Doing
  <1> QED BY <1>1 DEF WorkStep, Works

LEMMA DrainWork ==
  ASSUME work \in Seq(Tasks), flushDecoder
  PROVE  WorkStep
  <1> DEFINE copies == ForEach("copyEof", CopiesOf(Subject))
             frame == <<Item("frame", Subject)>>
             rest == copies \o Rest
  <1>1. /\ work # <<>> /\ Head(work).do = "drain"
        /\ \/ Subject \in Decoded /\ work' \in {frame \o rest, rest}
           \/ work' = rest
           \/ work' = exit_program
    BY Zenon DEF flushDecoder, endOfInput, drainFrame, ifilter_send_eof, Doing
  <1>2. Subject \in Inputs /\ Rest \in Seq(Tasks)
    BY <1>1, HeadOfWork, SubjectsOf
  <1>3. /\ copies \in Seq(Tasks)
        /\ \A x \in Elements(copies) : x.do = "copyEof" /\ x.of \in CopiesOf(Head(work).of)
        /\ \A a, b : Before(copies, a, b) => a \in Elements(copies) /\ b \in Elements(copies)
    BY <1>2, CopyEnds DEF Subject
  <1> HIDE DEF copies
  <1>4. Puts(copies)
    <2>1. Arranged(copies)
      BY <1>3 DEF Arranged, Follows
    <2>2. \A x \in Elements(copies) : MayPut(Head(work), x) /\ x.do # "filter"
      BY <1>1, <1>3 DEF MayPut
    <2> QED BY <1>3, <2>1, <2>2, PutsOf
  <1>5. CASE work' = rest
    BY <1>1, <1>4, <1>5 DEF WorkStep, Works
  <1>6. CASE Subject \in Decoded /\ work' = frame \o rest
    <2>1. Item("frame", Subject) \in Tasks /\ Item("frame", Subject).do = "frame"
      BY <1>6, NumbersOf, ItemIsTask, SubjectsOf DEF Names
    <2>2. frame \in Seq(Tasks) /\ Elements(frame) = {Item("frame", Subject)} /\ \A a, b : ~Before(frame, a, b)
      BY <2>1, OfShort
    <2> HIDE DEF frame
    <2>3. /\ frame \o copies \in Seq(Tasks)
          /\ Elements(frame \o copies) = Elements(frame) \union Elements(copies)
          /\ \A a, b : Before(frame \o copies, a, b) <=>
               \/ Before(frame, a, b) \/ Before(copies, a, b)
               \/ (a \in Elements(frame) /\ b \in Elements(copies))
      BY <1>3, <2>2, OfConcat
    <2>4. Arranged(frame \o copies)
      BY <1>3, <2>1, <2>2, <2>3 DEF Arranged, Follows
    <2>5. \A x \in Elements(frame \o copies) : MayPut(Head(work), x) /\ x.do # "filter"
      BY <1>1, <1>3, <2>1, <2>2, <2>3 DEF MayPut
    <2>6. Puts(frame \o copies)
      BY <2>3, <2>4, <2>5, PutsOf
    <2>7. work' = (frame \o copies) \o Rest
      <3>1. (frame \o copies) \o Rest = frame \o (copies \o Rest)
        BY <1>2, <1>3, <2>2, ConcatAssociative
      <3> QED BY <1>6, <3>1, Zenon
    <2> QED BY <1>1, <2>6, <2>7 DEF WorkStep, Works
  <1> QED BY <1>1, <1>5, <1>6 DEF WorkStep, Works

LEMMA FlushEncodersWork ==
  ASSUME work \in Seq(Tasks), flush_encoders
  PROVE  WorkStep
  <1> DEFINE o == Subject
             packets == ForEach("packet", keeping \intersect {o})
             eof == <<Item("eof", o)>>
  <1>1. /\ work # <<>> /\ Head(work).do = "flush"
        /\ \/ o \notin initialized /\ work' = <<Item("init", o)>> \o work
           \/ o \notin initialized /\ work' = <<Item("eof", o), Item("init", o)>> \o work
           \/ work' = Rest
           \/ work' = exit_program
           \/ o \in initialized /\ work' = packets \o eof \o Rest
    BY Zenon DEF flush_encoders, flushUninitialized, Doing
  <1>2. o \in Encoding /\ o \in Nat /\ o \in Streams /\ o = Head(work).of
    BY <1>1, HeadOfWork, SubjectsOf, NumbersOf DEF Subject
  <1> HIDE DEF o
  <1>3. /\ Item("init", o) \in Tasks /\ Item("init", o).do = "init" /\ Item("init", o).of = Head(work).of
        /\ Item("eof", o) \in Tasks /\ Item("eof", o).do = "eof" /\ Item("eof", o).of = Head(work).of
    BY <1>2, ItemIsTask, SubjectsOf DEF Names
  <1>4. CASE o \notin initialized /\ work' = <<Item("init", o)>> \o work
    <2>1. Puts(<<Item("init", o)>>)
      BY <1>1, <1>3, OnePut DEF MayPut
    <2> QED BY <1>1, <1>4, <2>1 DEF WorkStep, Works, o
  <1>5. CASE o \notin initialized /\ work' = <<Item("eof", o), Item("init", o)>> \o work
    <2>1. /\ MayPut(Head(work), Item("init", o)) /\ MayPut(Head(work), Item("eof", o))
          /\ Follows(Item("eof", o), Item("init", o))
      BY <1>1, <1>3 DEF MayPut, Follows
    <2>2. Puts(<<Item("eof", o), Item("init", o)>>)
      BY <1>3, <2>1, TwoPut
    <2> QED BY <1>1, <1>5, <2>2 DEF WorkStep, Works, o
  <1>6. CASE o \in initialized /\ work' = packets \o eof \o Rest
    <2> DEFINE S == keeping \intersect {o}
    <2>1. S \subseteq Nat /\ S \subseteq Subjects("packet") /\ "packet" \in Names
      BY <1>2, SubjectsOf DEF Names
    <2>2. IsFiniteSet(S)
      BY FS_Singleton, FS_Intersection
    <2>3. \A s \in S : s = o /\ s \in keeping
      OBVIOUS
    <2> HIDE DEF S
    <2>4. /\ ForEach("packet", S) \in Seq(Tasks)
          /\ \A x \in Elements(ForEach("packet", S)) : x.do = "packet" /\ x.of \in S
          /\ \A a, b : Before(ForEach("packet", S), a, b) =>
               /\ a \in Elements(ForEach("packet", S)) /\ b \in Elements(ForEach("packet", S))
               /\ a # b
      BY <2>1, <2>2, EachTask
    <2>5. packets = ForEach("packet", S)
      BY DEF S
    <2> HIDE DEF packets
    <2>6. \A x \in Elements(packets) : x = Item("packet", o) /\ x.do = "packet" /\ x.of = Head(work).of /\ o \in keeping
      <3> TAKE x \in Elements(packets)
      <3>1. x \in Tasks /\ x.do = "packet" /\ x.of = o /\ o \in keeping
        BY <2>3, <2>4, <2>5, ElementsAreIn
      <3> QED BY <1>2, <3>1, TaskIsItem DEF Wanting
    <2>7. eof \in Seq(Tasks) /\ Elements(eof) = {Item("eof", o)} /\ \A a, b : ~Before(eof, a, b)
      BY <1>3, OfShort
    <2> HIDE DEF eof
    <2>8. /\ packets \o eof \in Seq(Tasks)
          /\ Elements(packets \o eof) = Elements(packets) \union Elements(eof)
          /\ \A a, b : Before(packets \o eof, a, b) => a \in Elements(packets) /\ b \in Elements(eof)
      BY <2>4, <2>5, <2>6, <2>7, OfConcat
    <2>9. Arranged(packets \o eof)
      BY <1>3, <2>6, <2>7, <2>8 DEF Arranged, Follows
    <2>10. \A x \in Elements(packets \o eof) : MayPut(Head(work), x) /\ x.do # "filter"
      BY <1>1, <1>2, <1>3, <1>6, <2>6, <2>7, <2>8 DEF MayPut
    <2>11. Puts(packets \o eof)
      BY <2>8, <2>9, <2>10, PutsOf
    <2> QED BY <1>1, <1>6, <2>11 DEF WorkStep, Works
  <1>7. CASE work' = Rest
    BY <1>1, <1>7, Pops
  <1>8. CASE work' = exit_program
    BY <1>1, <1>8 DEF WorkStep, Works
  <1> QED BY <1>1, <1>4, <1>5, <1>6, <1>7, <1>8

(* Every step of a run.                                                    *)
LEMMA EveryStepWorks ==
  ASSUME work \in Seq(Tasks), configured \subseteq Encoding, DemuxerTypeOK, [Next]_vars
  PROVE  WorkStep
  <1>1. CASE SimpleWork
    BY <1>1, SimpleWorkPops, Pops DEF WorkStep, Works
  <1>2. CASE ifilter_send_frame \/ reap_filters \/ decode \/ inputEnd \/ decode_flush
    BY <1>2, FrameWork, ReapWork, DecodeWork, InputEndWork, FlushWork
  <1>3. CASE process_input \/ transcode_step \/ transcode_from_filter \/ leaveLoop
    BY <1>3, InputWork, LoopWork, FilterWork, LeaveWork
  <1>4. CASE flushDecoder \/ flush_encoders
    BY <1>4, DrainWork, FlushEncodersWork
  <1>5. CASE UNCHANGED runVars
    BY <1>5 DEF runVars, WorkStep
  <1>6. CASE UNCHANGED vars
    BY <1>6 DEF vars, runVars, WorkStep
  <1> QED BY <1>1, <1>2, <1>3, <1>4, <1>5, <1>6
        DEF Next, MainThread, MuxerRuns, DemuxerRuns, SimpleWork

(***************************************************************************)
(* What the run ends with.                                                 *)
(***************************************************************************)

LEMMA CleanupWork ==
  /\ ffmpeg_cleanup \in Seq(Tasks)
  /\ \A x \in Elements(ffmpeg_cleanup) : x.do \in {"close", "stop"}
  /\ \A f \in Files : Item("stop", f) \in Elements(ffmpeg_cleanup)
  /\ \A a, b : Before(ffmpeg_cleanup, a, b) =>
       a \in Elements(ffmpeg_cleanup) /\ b \in Elements(ffmpeg_cleanup)
  <1> DEFINE close == <<Item("close", 0)>>
             stops == ForEach("stop", Files)
  <1>1. Item("close", 0) \in Tasks /\ Item("close", 0).do = "close"
    BY ItemIsTask, SubjectsOf DEF Names
  <1>2. close \in Seq(Tasks) /\ Elements(close) = {Item("close", 0)}
    BY <1>1, OfShort
  <1>3. "stop" \in Names /\ Files \subseteq Subjects("stop")
    BY SubjectsOf DEF Names
  <1>4. /\ stops \in Seq(Tasks)
        /\ \A x \in Elements(stops) : x.do = "stop"
        /\ \A f \in Files : Item("stop", f) \in Elements(stops)
    BY <1>3, EachTask, NumbersOf
  <1>5. ffmpeg_cleanup = close \o stops
    BY DEF ffmpeg_cleanup
  <1> HIDE DEF close, stops
  <1>6. ffmpeg_cleanup \in Seq(Tasks) /\ Elements(ffmpeg_cleanup) = Elements(close) \union Elements(stops)
    BY <1>2, <1>4, <1>5, OfConcat
  <1>7. \A a, b : Before(ffmpeg_cleanup, a, b) =>
          a \in Elements(ffmpeg_cleanup) /\ b \in Elements(ffmpeg_cleanup)
    BY DEF Before, Elements
  <1> QED BY <1>1, <1>2, <1>4, <1>6, <1>7

(* What exit_program lists.                                                *)
LEMMA ExitWork ==
  /\ exit_program \in Seq(Tasks) /\ Arranged(exit_program)
  /\ \A x \in Elements(exit_program) : x.do \in {"close", "stop", "failed"}
  /\ Item("failed", 0) \in Elements(exit_program)
  /\ \A f \in Files : Item("stop", f) \in Elements(exit_program)
  <1> DEFINE failed == <<Item("failed", 0)>>
  <1>1. Item("failed", 0) \in Tasks /\ Item("failed", 0).do = "failed"
    BY ItemIsTask, SubjectsOf DEF Names
  <1>2. failed \in Seq(Tasks) /\ Elements(failed) = {Item("failed", 0)}
    BY <1>1, OfShort
  <1>3. exit_program = ffmpeg_cleanup \o failed
    BY DEF exit_program
  <1> HIDE DEF failed
  <1>4. /\ exit_program \in Seq(Tasks)
        /\ Elements(exit_program) = Elements(ffmpeg_cleanup) \union Elements(failed)
    BY <1>2, <1>3, CleanupWork, OfConcat
  <1>5. \A x \in Elements(exit_program) : x.do \in {"close", "stop", "failed"}
    BY <1>1, <1>2, <1>4, CleanupWork
  <1>6. \A a, b : Before(exit_program, a, b) =>
          a \in Elements(exit_program) /\ b \in Elements(exit_program)
    BY DEF Before, Elements
  <1>7. Arranged(exit_program)
    BY <1>5, <1>6 DEF Arranged, Follows
  <1> QED BY <1>2, <1>4, <1>5, <1>7, CleanupWork

(* What transcode and run list after the loop.                             *)
LEMMA AfterLoopWork ==
  /\ afterLoop \in Seq(Tasks) /\ Arranged(afterLoop)
  /\ \A x \in Elements(afterLoop) :
       x.do \in {"drain", "flush", "trailer", "verdict", "report", "close", "stop"}
  /\ Item("trailer", 0) \in Elements(afterLoop) /\ Item("report", 0) \in Elements(afterLoop)
  /\ \A f \in Files : Item("stop", f) \in Elements(afterLoop)
  <1> DEFINE S == {i \in Inputs : FileOf[i] \notin eofReached}
             D == ForEach("drain", S)
             F == ForEach("flush", Encoding)
             T == <<Item("trailer", 0), Item("verdict", 0), Item("report", 0)>>
             C == ffmpeg_cleanup
  <1>1. /\ D \in Seq(Tasks)
        /\ \A x \in Elements(D) : x.do = "drain"
        /\ \A a, b : Before(D, a, b) => a \in Elements(D) /\ b \in Elements(D)
    <2>1. S \subseteq Nat /\ S \subseteq Inputs /\ S \subseteq Subjects("drain") /\ "drain" \in Names
      BY SubjectsOf, NumbersOf DEF Names
    <2>2. IsFiniteSet(S)
      BY <2>1, NumbersOf, FS_Subset
    <2> HIDE DEF S
    <2> QED BY <2>1, <2>2, EachTask
  <1>2. /\ F \in Seq(Tasks)
        /\ \A x \in Elements(F) : x.do = "flush"
        /\ \A a, b : Before(F, a, b) => a \in Elements(F) /\ b \in Elements(F) /\ a # b
    <2>1. /\ Encoding \subseteq Nat /\ Encoding \subseteq Streams /\ Encoding \subseteq Subjects("flush")
          /\ "flush" \in Names
      BY SubjectsOf, NumbersOf DEF Names
    <2>2. IsFiniteSet(Encoding)
      BY <2>1, NumbersOf, FS_Subset
    <2> QED BY <2>1, <2>2, EachTask
  <1>3. /\ Item("trailer", 0) \in Tasks /\ Item("verdict", 0) \in Tasks /\ Item("report", 0) \in Tasks
        /\ Item("trailer", 0).do = "trailer" /\ Item("verdict", 0).do = "verdict"
        /\ Item("report", 0).do = "report"
    BY ItemIsTask, SubjectsOf DEF Names
  <1>4. /\ T \in Seq(Tasks)
        /\ Elements(T) = {Item("trailer", 0), Item("verdict", 0), Item("report", 0)}
        /\ \A a, b : Before(T, a, b) =>
             a.do \in {"trailer", "verdict"} /\ b.do \in {"verdict", "report"}
    BY <1>3, OfThree
  <1>5. /\ C \in Seq(Tasks)
        /\ \A x \in Elements(C) : x.do \in {"close", "stop"}
        /\ \A f \in Files : Item("stop", f) \in Elements(C)
        /\ \A a, b : Before(C, a, b) => a \in Elements(C) /\ b \in Elements(C)
    BY CleanupWork
  <1>6. afterLoop = ((D \o F) \o T) \o C
    BY DEF afterLoop
  <1> HIDE DEF D, F, T, C
  <1>7. /\ D \o F \in Seq(Tasks)
        /\ Elements(D \o F) = Elements(D) \union Elements(F)
        /\ \A a, b : Before(D \o F, a, b) <=>
             \/ Before(D, a, b) \/ Before(F, a, b) \/ (a \in Elements(D) /\ b \in Elements(F))
    BY <1>1, <1>2, OfConcat
  <1> DEFINE DF == D \o F
  <1> HIDE DEF DF
  <1>8. /\ DF \o T \in Seq(Tasks)
        /\ Elements(DF \o T) = Elements(DF) \union Elements(T)
        /\ \A a, b : Before(DF \o T, a, b) <=>
             \/ Before(DF, a, b) \/ Before(T, a, b) \/ (a \in Elements(DF) /\ b \in Elements(T))
    BY <1>4, <1>7, OfConcat DEF DF
  <1> DEFINE DFT == DF \o T
  <1> HIDE DEF DFT
  <1>9. /\ DFT \o C \in Seq(Tasks)
        /\ Elements(DFT \o C) = Elements(DFT) \union Elements(C)
        /\ \A a, b : Before(DFT \o C, a, b) <=>
             \/ Before(DFT, a, b) \/ Before(C, a, b) \/ (a \in Elements(DFT) /\ b \in Elements(C))
    <2>1. C \in Seq(Tasks) /\ DFT \in Seq(Tasks)
      BY <1>5, <1>8 DEF DFT
    <2> QED BY <2>1, OfConcat
  <1>10. afterLoop = DFT \o C
    BY <1>6 DEF DFT, DF
  <1>11. \A x \in Elements(DFT) : x.do \in {"drain", "flush", "trailer", "verdict", "report"}
    BY <1>1, <1>2, <1>3, <1>4, <1>7, <1>8 DEF DFT, DF
  <1>12. \A a, b : Before(DF, a, b) => Follows(a, b)
    BY <1>1, <1>2, <1>7 DEF DF, Follows, Producing
  <1>13. \A a, b : Before(DFT, a, b) => Follows(a, b)
    <2>1. \A a, b : Before(T, a, b) => Follows(a, b)
      BY <1>4 DEF Follows
    <2>2. \A a \in Elements(DF), b \in Elements(T) : Follows(a, b)
      BY <1>1, <1>2, <1>3, <1>4, <1>7 DEF DF, Follows, Producing
    <2> QED BY <1>8, <1>12, <2>1, <2>2 DEF DFT
  <1>14. Arranged(afterLoop)
    <2>1. \A a, b : Before(C, a, b) => Follows(a, b)
      BY <1>5 DEF Follows
    <2>2. \A a \in Elements(DFT), b \in Elements(C) : Follows(a, b)
      BY <1>5, <1>11 DEF Follows, Producing
    <2> QED BY <1>9, <1>10, <1>13, <2>1, <2>2 DEF Arranged
  <1>15. Item("trailer", 0) \in Elements(DFT) /\ Item("report", 0) \in Elements(DFT)
    BY <1>4, <1>8 DEF DFT
  <1> QED BY <1>5, <1>9, <1>10, <1>11, <1>14, <1>15

(***************************************************************************)
(* What every step leaves of the work.                                     *)
(***************************************************************************)

(* The new work, or the end of the run, in front of what was left.         *)
Goes(N, B) ==
  /\ N \in Seq(Tasks) /\ B \in Seq(Tasks) /\ work' = N \o B
  /\ work' \in Seq(Tasks)
  /\ Elements(work') = Elements(N) \union Elements(B)
  /\ \A a, b : Before(work', a, b) <=> \/ Before(N, a, b) \/ Before(B, a, b)
                                       \/ (a \in Elements(N) /\ b \in Elements(B))

LEMMA NewWork ==
  ASSUME NEW N \in Seq(Tasks), NEW B \in Seq(Tasks), work' = N \o B
  PROVE  Goes(N, B)
  <1>1. /\ N \o B \in Seq(Tasks)
        /\ Elements(N \o B) = Elements(N) \union Elements(B)
        /\ \A a, b : Before(N \o B, a, b) <=> \/ Before(N, a, b) \/ Before(B, a, b)
                                              \/ (a \in Elements(N) /\ b \in Elements(B))
    BY OfConcat
  <1> QED BY <1>1 DEF Goes

LEMMA WorkGoes ==
  ASSUME work \in Seq(Tasks), WorkStep
  PROVE  \/ UNCHANGED work
         \/ /\ work # <<>>
            /\ \/ work' = exit_program
               \/ Head(work).do \in {"loop", "filter"} /\ work' = afterLoop
               \/ Head(work).do = "inputEnd" /\ \E N : Again(N) /\ Goes(N, <<Item("loop", 0)>>)
               \/ Head(work).do # "loop" /\ \E N : Puts(N) /\ Goes(N, Rest)
               \/ /\ Head(work).do \in {"reap", "loopFlush", "loop", "flush"}
                  /\ Head(work).do = "flush" => Subject \notin initialized
                  /\ \E N : Puts(N) /\ Goes(N, work)
  <1>1. <<Item("loop", 0)>> \in Seq(Tasks)
    BY ItemIsTask, SubjectsOf DEF Names
  <1>2. work # <<>> => Rest \in Seq(Tasks)
    BY HeadOfWork
  <1>3. \A N : Puts(N) \/ Again(N) => N \in Seq(Tasks)
    BY Zenon DEF Puts, Again
  <1>4. ASSUME NEW N, Again(N), work' = N \o <<Item("loop", 0)>>
        PROVE  Goes(N, <<Item("loop", 0)>>)
    BY <1>1, <1>3, <1>4, NewWork
  <1>5. ASSUME NEW N, Puts(N), work' = N \o Rest, work # <<>>
        PROVE  Goes(N, Rest)
    BY <1>2, <1>3, <1>5, NewWork
  <1>6. ASSUME NEW N, Puts(N), work' = N \o work
        PROVE  Goes(N, work)
    BY <1>3, <1>6, NewWork
  <1> QED BY <1>4, <1>5, <1>6, Zenon DEF WorkStep, Works

(* The work keeps its types and its order.                                 *)
LEMMA WorkStaysTyped ==
  ASSUME work \in Seq(Tasks), WorkStep
  PROVE  work' \in Seq(Tasks)
  BY WorkGoes, ExitWork, AfterLoopWork DEF Goes

(* The work that is put may come before what its cause came before.        *)
LEMMA FollowsWhatIsLeft ==
  ASSUME NEW h, NEW a, NEW b, MayPut(h, a), Follows(h, b)
  PROVE  Follows(a, b)
  <1>1. /\ a.do # "loop" /\ a.do \notin {"flush", "report"} /\ b.do # "packet"
        /\ h.do # "loop"
    BY DEF MayPut, Follows
  <1>2. b.do = "copy" => a.do \in Plain
    BY DEF MayPut, Follows, Plain
  <1>3. a.do \in {"input", "filter"} => h.do = "filter" /\ b.do # "loopFlush" /\ a.do = "input"
    BY <1>1 DEF MayPut, Follows
  <1>4. a.do = "loopFlush" => b # a
    <2>1. a.do = "loopFlush" => h.do = "input"
      BY DEF MayPut
    <2> QED BY <2>1 DEF Follows
  <1> QED BY <1>1, <1>2, <1>3, <1>4 DEF Follows

LEMMA WorkStaysArranged ==
  ASSUME work \in Seq(Tasks), Arranged(work), WorkStep
  PROVE  Arranged(work')
  <1> DEFINE h == Head(work)
  <1>1. work # <<>> =>
          /\ \A b \in Elements(Rest) : Follows(h, b)
          /\ Arranged(Rest)
          /\ Elements(work) = {h} \union Elements(Rest)
    BY HeadOfWork DEF Arranged
  <1>2. CASE UNCHANGED work
    BY <1>2
  <1>3. CASE work' = exit_program
    BY <1>3, ExitWork
  <1>4. CASE work' = afterLoop
    BY <1>4, AfterLoopWork
  <1>5. ASSUME NEW N, Again(N), Goes(N, <<Item("loop", 0)>>) PROVE Arranged(work')
    <2> DEFINE loop == <<Item("loop", 0)>>
    <2>1. Elements(loop) = {Item("loop", 0)} /\ \A a, b : ~Before(loop, a, b)
      BY OfShort
    <2>2. Item("loop", 0).do = "loop"
      BY DEF Item
    <2> HIDE DEF loop
    <2>3. \A a \in Elements(N), b \in Elements(loop) : Follows(a, b)
      BY <1>5, <2>1, <2>2 DEF Again, Follows
    <2>4. \A a, b : Before(work', a, b) =>
            Before(N, a, b) \/ (a \in Elements(N) /\ b \in Elements(loop))
      BY <1>5, <2>1 DEF Goes, loop
    <2> QED BY <1>5, <2>3, <2>4 DEF Again, Arranged
  <1>6. ASSUME work # <<>>, NEW N, Puts(N), Goes(N, Rest) PROVE Arranged(work')
    <2>1. \A a \in Elements(N), b \in Elements(Rest) : Follows(a, b)
      <3> TAKE a \in Elements(N), b \in Elements(Rest)
      <3>1. MayPut(h, a) /\ Follows(h, b)
        BY <1>1, <1>6 DEF Puts
      <3> QED BY <3>1, FollowsWhatIsLeft
    <2> QED BY <1>1, <1>6, <2>1 DEF Goes, Puts, Arranged
  <1>7. ASSUME work # <<>>, h.do \in {"reap", "loopFlush", "loop", "flush"},
               NEW N, Puts(N), Goes(N, work)
        PROVE  Arranged(work')
    <2>1. ASSUME NEW a \in Elements(N), NEW b \in Elements(Rest) PROVE Follows(a, b)
      <3>1. MayPut(h, a) /\ Follows(h, b)
        BY <1>1, <1>7 DEF Puts
      <3> QED BY <3>1, FollowsWhatIsLeft
    <2>2. ASSUME NEW a \in Elements(N) PROVE Follows(a, h)
      <3>1. MayPut(h, a)
        BY <1>7 DEF Puts
      <3> QED BY <1>7, <3>1 DEF MayPut, Follows
    <2>3. \A a \in Elements(N), b \in Elements(work) : Follows(a, b)
      BY <1>1, <1>7, <2>1, <2>2
    <2> QED BY <1>7, <2>3 DEF Goes, Puts, Arranged
  <1> QED BY <1>2, <1>3, <1>4, <1>5, <1>6, <1>7, WorkGoes

(* The same, of the work as a set: the run has ended, the loop begins      *)
(* again, or only the head is done, or not even that.                      *)
Proceeds ==
  /\ work # <<>>
  /\ Elements(Rest) \subseteq Elements(work')
  /\ Head(work).do = "loop" => Elements(work) \subseteq Elements(work')
  /\ \A x \in Elements(work') : x \in Elements(work) \/ MayPut(Head(work), x)

Restarts ==
  /\ work # <<>> /\ Head(work).do = "inputEnd"
  /\ Item("loop", 0) \in Elements(work')
  /\ \A x \in Elements(work') : \/ x.do \in {"frame", "reap", "loop"}
                                \/ (x.do = "copyEof" /\ x.of \in CopiesOf(Subject))

(* A step, of the work as a set.                                           *)
LEMMA WorkAsSet ==
  ASSUME work \in Seq(Tasks), WorkStep
  PROVE  \/ UNCHANGED work
         \/ work # <<>> /\ work' = exit_program
         \/ work # <<>> /\ Head(work).do \in {"loop", "filter"} /\ work' = afterLoop
         \/ Restarts
         \/ Proceeds
  <1>1. ASSUME work # <<>>, Head(work).do = "inputEnd", NEW N, Again(N), Goes(N, <<Item("loop", 0)>>)
        PROVE  Restarts
    <2>1. Elements(<<Item("loop", 0)>>) = {Item("loop", 0)} /\ Item("loop", 0).do = "loop"
      BY OfShort DEF Item
    <2>2. Elements(work') = Elements(N) \union {Item("loop", 0)}
      BY <1>1, <2>1 DEF Goes
    <2>3. \A x \in Elements(N) : \/ x.do \in {"frame", "reap"}
                                 \/ (x.do = "copyEof" /\ x.of \in CopiesOf(Subject))
      BY <1>1 DEF Again
    <2> QED BY <1>1, <2>1, <2>2, <2>3 DEF Restarts
  <1>2. ASSUME work # <<>>, NEW N, Puts(N),
               (Head(work).do # "loop" /\ Goes(N, Rest)) \/ Goes(N, work)
        PROVE  Proceeds
    <2>1. Elements(work) = {Head(work)} \union Elements(Rest)
      BY <1>2, HeadOfWork
    <2>2. \A x \in Elements(N) : MayPut(Head(work), x)
      BY <1>2 DEF Puts
    <2>3. \/ Head(work).do # "loop" /\ Elements(work') = Elements(N) \union Elements(Rest)
          \/ Elements(work') = Elements(N) \union Elements(work)
      BY <1>2 DEF Goes
    <2> QED BY <1>2, <2>1, <2>2, <2>3 DEF Proceeds
  <1> QED BY <1>1, <1>2, WorkGoes, Zenon

Looping == \E x \in Elements(work) : x.do = "loop"

(* Files are read in the loop, decoders and encoders flushed after it.     *)
LoopWorks ==
  \A x \in Elements(work) :
    /\ x.do \in {"input", "filter", "inputEnd"} => Looping
    /\ x.do \in {"drain", "flush"} => ~Looping

(* When the run is in the loop.                                            *)
LEMMA LoopingAfter ==
  ASSUME work \in Seq(Tasks), WorkStep
  PROVE  /\ work' = exit_program \/ work' = afterLoop => ~Looping'
         /\ Restarts => Looping'
         /\ Proceeds \/ UNCHANGED work => (Looping' <=> Looping)
  <1>1. UNCHANGED work => (Looping <=> Looping')
    BY DEF Looping
  <1>2. work' = exit_program \/ work' = afterLoop => ~Looping'
    BY ExitWork, AfterLoopWork DEF Looping
  <1>3. Restarts => Looping'
    <2>1. Item("loop", 0).do = "loop"
      BY DEF Item
    <2> QED BY <2>1 DEF Restarts, Looping
  <1>4. ASSUME Proceeds PROVE Looping <=> Looping'
    <2>1. Elements(work) = {Head(work)} \union Elements(Rest)
      BY <1>4, HeadOfWork DEF Proceeds
    <2>2. \A x : MayPut(Head(work), x) => x.do # "loop"
      BY DEF MayPut
    <2> QED BY <1>4, <2>1, <2>2 DEF Proceeds, Looping
  <1> QED BY <1>1, <1>2, <1>3, <1>4, WorkAsSet

LEMMA LoopWorksStep ==
  ASSUME work \in Seq(Tasks), LoopWorks, WorkStep
  PROVE  LoopWorks'
  <1>1. CASE UNCHANGED work
    BY <1>1 DEF LoopWorks, Looping
  <1>2. CASE work' = exit_program
    BY <1>2, LoopingAfter, ExitWork DEF LoopWorks
  <1>3. CASE work' = afterLoop
    BY <1>3, LoopingAfter, AfterLoopWork DEF LoopWorks
  <1>4. CASE Restarts
    <2>1. \A x \in Elements(work') : x.do \in {"frame", "reap", "loop", "copyEof"}
      BY <1>4 DEF Restarts
    <2> QED BY <2>1 DEF LoopWorks
  <1>5. CASE Proceeds
    <2>1. Looping <=> Looping'
      BY <1>5, LoopingAfter
    <2>2. Head(work) \in Elements(work)
      BY <1>5, HeadOfWork DEF Proceeds
    <2>3. \A x : MayPut(Head(work), x) =>
            /\ x.do \notin {"drain", "flush"}
            /\ x.do \in {"input", "filter", "inputEnd"} => Head(work).do \in {"loop", "input", "filter"}
      BY DEF MayPut
    <2>4. Head(work).do \in {"loop", "input", "filter"} => Looping
      BY <2>2 DEF LoopWorks, Looping
    <2> QED BY <1>5, <2>1, <2>3, <2>4 DEF LoopWorks, Proceeds
  <1> QED BY <1>1, <1>2, <1>3, <1>4, <1>5, WorkAsSet

(***************************************************************************)
(* What is left when a run returns.                                        *)
(***************************************************************************)

(* The work names what exists.                                             *)
RunTyped == work \in Seq(Tasks) /\ configured \subseteq Encoding

LEMMA ConfiguredStep ==
  ASSUME RunTyped, [Next]_vars
  PROVE  configured' \subseteq Encoding
  <1>1. CASE UNCHANGED configured
    BY <1>1 DEF RunTyped
  <1>2. CASE reconfigure
    <2>1. (work # <<>> /\ Head(work).do = "configure") \/ UNCHANGED configured
      BY <1>2, Zenon DEF reconfigure, Doing
    <2>2. configured' = configured \union {Subject} \/ UNCHANGED configured
      BY <1>2, Zenon DEF reconfigure, configure
    <2>3. work # <<>> /\ Head(work).do = "configure" => Subject \in Encoding
      BY HeadOfWork, SubjectsOf DEF RunTyped
    <2> QED BY <1>1, <2>1, <2>2, <2>3 DEF RunTyped
  <1>3. CASE transcode_step
    <2>1. UNCHANGED configured \/ \E o \in Encoding : configured' = configured \union {o}
      BY <1>3, Zenon DEF transcode_step, stepCopy, stepUnconfigured, stepFilter, configure
    <2> QED BY <2>1 DEF RunTyped
  <1>4. CASE flush_encoders
    <2>1. work # <<>> /\ Head(work).do = "flush"
      BY <1>4 DEF flush_encoders, Doing
    <2>2. configured' = configured \union {Subject} \/ UNCHANGED configured
      BY <1>4, Zenon DEF flush_encoders, flushUninitialized, configure
    <2>3. Subject \in Encoding
      BY <2>1, HeadOfWork, SubjectsOf DEF RunTyped
    <2> QED BY <2>2, <2>3 DEF RunTyped
  <1>5. CASE MainThread /\ ~(reconfigure \/ transcode_step \/ flush_encoders)
    <2>1. UNCHANGED configured
      BY <1>5, Zenon DEF MainThread, init_input_stream, init_output_stream, outputPacket, do_streamcopy,
         ifilter_send_frame, reap_filters, do_audio_out, decode, inputEnd, fileEnd, decode_flush,
         process_input, transcode_from_filter, close_output_stream, leaveLoop, flushDecoder,
         writeTrailer, verdict, report, closeOutputFile, closeInputFile, graphVars, runVars
    <2> QED BY <1>1, <2>1
  <1>6. CASE UNCHANGED runVars
    BY <1>1, <1>6 DEF runVars, graphVars
  <1>7. CASE UNCHANGED vars
    BY <1>1, <1>7 DEF vars, runVars, graphVars
  <1> QED BY <1>2, <1>3, <1>4, <1>5, <1>6, <1>7 DEF Next, MuxerRuns, DemuxerRuns

(* What each end of the run leaves: a file that is not open, a result.     *)
LEMMA EndsOfWork ==
  ASSUME [Next]_vars
  PROVE  /\ UNCHANGED work \/ (work # <<>> /\ (Head(work).do = "stop" => Subject \notin opened))
         /\ UNCHANGED work \/ (Head(work).do \in {"report", "failed"} => result' # "none")
         /\ UNCHANGED result \/ result' # "none"
         /\ \/ opened' \subseteq opened
            \/ work # <<>> /\ Head(work).do = "input" /\ UNCHANGED work
  <1> DEFINE Others == {"decoders", "init", "packet", "eof", "copy", "copyEof", "frame", "configure",
                        "push", "reap", "encode", "decode", "inputEnd", "loopFlush", "loop",
                        "filter", "closeOutput", "drain", "flush", "trailer", "verdict", "close",
                        "input", "fileEnd"}
  <1>1. CASE report
    <2>1. result' # "none" /\ UNCHANGED demuxerVars
      BY <1>1 DEF report
    <2>2. work # <<>> /\ Head(work).do # "stop"
      <3>1. work = <<Item("failed", 0)>> \/ Doing("report")
        BY <1>1 DEF report
      <3>2. <<Item("failed", 0)>> # <<>> /\ Head(<<Item("failed", 0)>>).do = "failed"
        BY DEF Item
      <3> QED BY <3>1, <3>2 DEF Doing
    <2> QED BY <2>1, <2>2 DEF demuxerVars
  <1>2. CASE closeInputFile
    <2>1. /\ Head(work).do = "stop" /\ UNCHANGED result /\ work # <<>>
          /\ UNCHANGED work \/ (Subject \notin opened /\ UNCHANGED demuxerVars)
          /\ opened' \subseteq opened
      BY <1>2, Zenon DEF closeInputFile, Stopping, thread_stop, drainQueue, joinDemuxer, demuxerVars
    <2> QED BY <2>1
  <1>3. CASE process_input
    <2>1. /\ work # <<>> /\ Head(work).do = "input" /\ UNCHANGED result
          /\ UNCHANGED work \/ UNCHANGED opened
      BY <1>3, Zenon DEF process_input, Doing, thread_start, ifile_get_packet, demuxerVars
    <2> QED BY <2>1
  <1>4. CASE /\ MainThread /\ ~(report \/ closeInputFile \/ process_input)
             /\ ~(MainStep /\ UNCHANGED <<demuxerVars, runVars>>)
    <2>1. UNCHANGED result /\ UNCHANGED opened /\ \E do \in Others : Doing(do)
      <3>1. CASE init_input_stream \/ init_output_stream \/ outputPacket \/ do_streamcopy
                 \/ ifilter_send_frame \/ reconfigure \/ reap_filters \/ do_audio_out
        BY <3>1, Zenon DEF init_input_stream, init_output_stream, outputPacket, do_streamcopy,
           ifilter_send_frame, reconfigure, reap_filters, do_audio_out, demuxerVars
      <3>2. CASE decode \/ inputEnd \/ fileEnd \/ decode_flush \/ transcode_step
                 \/ transcode_from_filter \/ close_output_stream \/ leaveLoop
        BY <3>2, Zenon DEF decode, inputEnd, fileEnd, decode_flush, transcode_step,
           transcode_from_filter, close_output_stream, leaveLoop, demuxerVars, sendDuration
      <3>3. CASE flushDecoder \/ flush_encoders \/ writeTrailer \/ verdict \/ closeOutputFile
        BY <3>3, Zenon DEF flushDecoder, flush_encoders, writeTrailer, verdict, closeOutputFile,
           demuxerVars
      <3> QED BY <1>4, <3>1, <3>2, <3>3 DEF MainThread
    <2> QED BY <2>1 DEF Doing
  <1>5. CASE UNCHANGED runVars /\ UNCHANGED demuxerVars
    BY <1>5 DEF runVars, demuxerVars
  <1>6. CASE \E f \in Files : DemuxerRuns(f)
    <2>1. UNCHANGED runVars /\ UNCHANGED opened
      BY <1>6, Zenon DEF DemuxerRuns, input_thread, readAndSend, seek_to_start
    <2> QED BY <2>1 DEF runVars
  <1>7. CASE UNCHANGED vars
    BY <1>7 DEF vars, runVars, demuxerVars
  <1> QED BY <1>1, <1>2, <1>3, <1>4, <1>5, <1>6, <1>7 DEF Next, MuxerRuns

(* Each file that is open is still to be closed, and a result is still to  *)
(* come, until the loop is over and they are there.                        *)
Stops == \A f \in opened : Item("stop", f) \in Elements(work)

Reports == \E x \in Elements(work) : x.do \in {"loop", "report", "failed"}

Remaining ==
  /\ RunTyped /\ Arranged(work) /\ LoopWorks
  /\ Looping \/ Stops
  /\ result # "none" \/ Reports

LEMMA RemainingStep ==
  ASSUME DemuxerTypeOK, DemuxerTypeOK', Remaining, [Next]_vars
  PROVE  Remaining'
  <1>1. WorkStep
    BY EveryStepWorks DEF Remaining, RunTyped
  <1>2. RunTyped' /\ Arranged(work)' /\ LoopWorks'
    BY <1>1, WorkStaysTyped, WorkStaysArranged, LoopWorksStep, ConfiguredStep DEF Remaining, RunTyped
  <1>3. work \in Seq(Tasks) /\ LoopWorks
    BY DEF Remaining, RunTyped
  <1>4. work # <<>> => /\ Head(work) \in Elements(work)
                       /\ Elements(work) = {Head(work)} \union Elements(Rest)
                       /\ Head(work).do \notin Wanting => Head(work) = Item(Head(work).do, Subject)
    BY <1>3, HeadOfWork
  <1>5. Looping' \/ Stops'
    <2>1. opened \subseteq Files /\ (opened' \subseteq opened \/ Looping)
      <3>1. work # <<>> /\ Head(work).do = "input" => Looping
        BY <1>3, <1>4 DEF LoopWorks
      <3> QED BY <3>1, EndsOfWork DEF DemuxerTypeOK
    <2>2. opened' \subseteq Files
      BY DEF DemuxerTypeOK
    <2>3. CASE work' = exit_program \/ work' = afterLoop
      BY <2>2, <2>3, ExitWork, AfterLoopWork DEF Stops
    <2>4. CASE Restarts
      BY <1>1, <1>3, <2>4, LoopingAfter
    <2>5. CASE UNCHANGED work
      <3>1. Looping \/ opened' \subseteq opened
        BY <2>1
      <3> QED BY <1>1, <1>3, <2>5, <3>1, LoopingAfter DEF Remaining, Stops
    <2>6. CASE Proceeds /\ ~UNCHANGED work
      <3>1. Looping <=> Looping'
        BY <1>1, <1>3, <2>6, LoopingAfter
      <3>2. ASSUME ~Looping, NEW f \in opened' PROVE Item("stop", f) \in Elements(work')
        <4>1. f \in opened /\ Item("stop", f) \in Elements(work)
          BY <2>1, <3>2 DEF Remaining, Stops
        <4>2. work # <<>> /\ (Head(work).do = "stop" => Subject \notin opened)
          BY <2>6, EndsOfWork
        <4>3. Item("stop", f).do = "stop" /\ Item("stop", f).of = f
          BY DEF Item
        <4>4. Item("stop", f) # Head(work)
          BY <4>1, <4>2, <4>3 DEF Subject
        <4> QED BY <1>4, <2>6, <4>1, <4>2, <4>4 DEF Proceeds
      <3> QED BY <3>1, <3>2 DEF Stops
    <2> QED BY <1>1, <1>3, <2>3, <2>4, <2>5, <2>6, WorkAsSet
  <1>6. result' # "none" \/ Reports'
    <2>1. UNCHANGED result \/ result' # "none"
      BY EndsOfWork
    <2>2. CASE work' = exit_program \/ work' = afterLoop
      <3>1. Item("failed", 0).do = "failed" /\ Item("report", 0).do = "report"
        BY DEF Item
      <3> QED BY <2>2, <3>1, ExitWork, AfterLoopWork DEF Reports
    <2>3. CASE Restarts
      <3>1. Item("loop", 0).do = "loop"
        BY DEF Item
      <3> QED BY <2>3, <3>1 DEF Restarts, Reports
    <2>4. CASE UNCHANGED work
      BY <2>1, <2>4 DEF Remaining, Reports
    <2>5. CASE Proceeds /\ ~UNCHANGED work
      <3>1. Head(work).do \in {"report", "failed"} => result' # "none"
        BY <2>5, EndsOfWork
      <3>2. CASE result = "none" /\ Head(work).do \notin {"report", "failed"}
        <4>1. PICK x \in Elements(work) : x.do \in {"loop", "report", "failed"}
          BY <3>2 DEF Remaining, Reports
        <4>2. x \in Elements(work')
          BY <1>4, <2>5, <3>2, <4>1 DEF Proceeds
        <4> QED BY <4>1, <4>2 DEF Reports
      <3> QED BY <2>1, <3>1, <3>2
    <2> QED BY <1>1, <1>3, <2>2, <2>3, <2>4, <2>5, WorkAsSet
  <1> QED BY <1>2, <1>5, <1>6 DEF Remaining

LEMMA RemainingInit ==
  ASSUME Init
  PROVE  Remaining /\ \A x \in Elements(work) : x.do \in {"decoders", "init", "loop"}
  <1> DEFINE first == <<Item("decoders", 0)>>
             inits == ForEach("init", Copying)
             loop == <<Item("loop", 0)>>
  <1>1. /\ Item("decoders", 0) \in Tasks /\ Item("decoders", 0).do = "decoders"
        /\ Item("loop", 0) \in Tasks /\ Item("loop", 0).do = "loop"
    BY ItemIsTask, SubjectsOf DEF Names
  <1>2. /\ first \in Seq(Tasks) /\ Elements(first) = {Item("decoders", 0)}
        /\ loop \in Seq(Tasks) /\ Elements(loop) = {Item("loop", 0)}
        /\ \A a, b : ~Before(first, a, b) /\ ~Before(loop, a, b)
    BY <1>1, OfShort
  <1>3. /\ inits \in Seq(Tasks)
        /\ \A x \in Elements(inits) : x.do = "init"
        /\ \A a, b : Before(inits, a, b) => a \in Elements(inits) /\ b \in Elements(inits)
    <2>1. "init" \in Names /\ Copying \subseteq Nat /\ Copying \subseteq Streams
          /\ Copying \subseteq Subjects("init")
      BY NumbersOf, SubjectsOf DEF Names
    <2>2. IsFiniteSet(Copying)
      BY <2>1, NumbersOf, FS_Subset
    <2> QED BY <2>1, <2>2, EachTask
  <1>4. work = (first \o inits) \o loop /\ configured = {} /\ opened = {} 
    BY DEF Init, DemuxerInit
  <1> HIDE DEF first, inits, loop
  <1>5. /\ first \o inits \in Seq(Tasks)
        /\ Elements(first \o inits) = Elements(first) \union Elements(inits)
        /\ \A a, b : Before(first \o inits, a, b) <=>
             \/ Before(first, a, b) \/ Before(inits, a, b)
             \/ (a \in Elements(first) /\ b \in Elements(inits))
    BY <1>2, <1>3, OfConcat
  <1> DEFINE both == first \o inits
  <1> HIDE DEF both
  <1>12. work = both \o loop /\ both \in Seq(Tasks)
    BY <1>4, <1>5 DEF both
  <1>6. /\ work \in Seq(Tasks)
        /\ Elements(work) = Elements(both) \union Elements(loop)
        /\ \A a, b : Before(work, a, b) <=>
             \/ Before(both, a, b) \/ Before(loop, a, b)
             \/ (a \in Elements(both) /\ b \in Elements(loop))
    BY <1>2, <1>12, OfConcat
  <1>7. \A x \in Elements(both) : x.do \in {"decoders", "init"}
    BY <1>1, <1>2, <1>3, <1>5 DEF both
  <1>8. \A a, b : Before(both, a, b) => a \in Elements(both) /\ b \in Elements(both)
    BY DEF Before, Elements
  <1>9. Arranged(work)
    BY <1>1, <1>2, <1>6, <1>7, <1>8 DEF Arranged, Follows
  <1>10. Looping /\ Reports
    BY <1>1, <1>2, <1>6 DEF Looping, Reports
  <1>11. LoopWorks
    BY <1>1, <1>2, <1>6, <1>7, <1>10 DEF LoopWorks
  <1>13. \A x \in Elements(work) : x.do \in {"decoders", "init", "loop"}
    BY <1>1, <1>2, <1>6, <1>7
  <1> QED BY <1>4, <1>6, <1>9, <1>10, <1>11, <1>13 DEF Remaining, RunTyped

(* A run has no more to do only once every thread it started has ended and *)
(* its queues are freed, and it has reported a result (ffmpeg_cleanup and  *)
(* the end: of run, or exit_program).                                      *)
THEOREM NothingLeft == Spec => []NothingIsLeft
  <1>1. Remaining /\ Phases /\ QueuesOutliveThreads /\ DemuxerTypeOK => NothingIsLeft
    <2> SUFFICES ASSUME Remaining, Phases, QueuesOutliveThreads, returned PROVE
            /\ result # "none"
            /\ muxPc \in {"none", "ended"} /\ ~running
            /\ opened = {} /\ \A f \in Files : dmxPc[f] \in {"none", "ended"}
      BY DEF NothingIsLeft
    <2>1. Elements(work) = {} /\ at = "closed"
      BY OfShort DEF returned
    <2>2. ~Looping /\ ~Reports /\ opened = {}
      BY <2>1 DEF Looping, Reports, Remaining, Stops
    <2>3. ~running /\ muxPc \in {"none", "ended"}
      BY <2>1 DEF Phases, QueueOutlivesThread
    <2>4. result # "none"
      BY <2>2 DEF Remaining
    <2>5. \A f \in Files : dmxPc[f] \in {"none", "ended"}
      BY <2>2 DEF QueuesOutliveThreads
    <2> QED BY <2>2, <2>3, <2>4, <2>5
  <1>2. MuxerSpec => []Phases
    <2>1. Inv => Phases
      BY DEF Inv
    <2> QED BY <2>1, MuxerInitInv, MuxerNextInv, PTL DEF MuxerSpec
  <1>3. Init => Remaining
    BY RemainingInit
  <1>4. DemuxerTypeOK /\ DemuxerTypeOK' /\ Remaining /\ [Next]_vars => Remaining'
    BY RemainingStep
  <1> QED BY <1>1, <1>2, <1>3, <1>4, RunOfTheParts, DemuxerTypes, QueuesOutlive, PTL DEF Spec

(***************************************************************************)
(* The durations of the files that loop.                                   *)
(***************************************************************************)

(* What a step does to the demuxers.                                       *)
LEMMA FilesStep ==
  ASSUME [Next]_vars
  PROVE  \/ UNCHANGED demuxerVars
         \/ \E g \in Files : \/ thread_start(g) \/ ifile_get_packet(g) \/ drainQueue(g)
                             \/ thread_stop(g) \/ joinDemuxer(g)
         \/ \E g \in Files : input_thread(g) /\ UNCHANGED work
         \/ /\ work # <<>> /\ Head(work).do = "loopFlush" /\ Subject \in Decoded /\ work' = Rest
            /\ sendDuration(FileOf[Subject])
  <1>1. CASE process_input \/ closeInputFile
    <2>1. /\ Subject \in Files
          /\ \/ UNCHANGED demuxerVars
             \/ thread_start(Subject) \/ ifile_get_packet(Subject) \/ drainQueue(Subject)
             \/ thread_stop(Subject) \/ joinDemuxer(Subject)
      BY <1>1, Zenon DEF process_input, closeInputFile, OfFile
    <2> QED BY <2>1
  <1>2. CASE decode_flush
    BY <1>2, Zenon DEF decode_flush, Doing
  <1>3. CASE MainThread /\ ~(process_input \/ closeInputFile \/ decode_flush)
    BY <1>3, OwnWork, MuxerWork, Zenon DEF MainThread
  <1>4. CASE \E g \in Files : DemuxerRuns(g)
    BY <1>4 DEF DemuxerRuns, runVars
  <1>5. CASE MuxerRuns \/ UNCHANGED vars
    BY <1>5 DEF MuxerRuns, vars
  <1> QED BY <1>1, <1>2, <1>3, <1>4, <1>5 DEF Next

(* The decoders that main has still to flush for the demuxer of file f.    *)
Pending(f) == {i \in DecodersOf(f) : Item("loopFlush", i) \in Elements(work)}

DurationsAccounted == \A f \in Files : Accounted(f, Pending(f))

(* A decoder has to be flushed only after the LOOPING of its file is taken. *)
LEMMA PendingStep ==
  ASSUME DemuxerTypeOK, Remaining, [Next]_vars, NEW f \in Files
  PROVE  \/ Pending(f)' \subseteq Pending(f)
         \/ ifile_get_packet(f) /\ Head(inQueue[f]) = LOOPING
  <1>1. work \in Seq(Tasks) /\ WorkStep
    BY EveryStepWorks DEF Remaining, RunTyped
  <1> SUFFICES ASSUME NEW i \in DecodersOf(f), Item("loopFlush", i) \in Elements(work'),
                      Item("loopFlush", i) \notin Elements(work)
               PROVE  ifile_get_packet(f) /\ Head(inQueue[f]) = LOOPING
    BY DEF Pending
  <1> DEFINE x == Item("loopFlush", i)
  <1>2. x.do = "loopFlush" /\ x.of = i /\ FileOf[i] = f
    BY DEF Item, DecodersOf
  <1> HIDE DEF x
  <1>3. x \in Elements(work') /\ x \notin Elements(work)
    BY DEF x
  <1>4. ~UNCHANGED work
    BY <1>3
  <1>5. work' # exit_program /\ work' # afterLoop
    BY <1>2, <1>3, ExitWork, AfterLoopWork
  <1>6. ~Restarts
    BY <1>2, <1>3 DEF Restarts
  <1>7. MayPut(Head(work), x)
    BY <1>1, <1>3, <1>4, <1>5, <1>6, WorkAsSet DEF Proceeds
  <1> QED BY <1>2, <1>7 DEF MayPut

LEMMA DurationsAccountedStep ==
  ASSUME DemuxerTypeOK, Remaining, DurationsAccounted, [Next]_vars
  PROVE  DurationsAccounted'
  <1> SUFFICES ASSUME NEW f \in Files PROVE Accounted(f, Pending(f))'
    BY DEF DurationsAccounted
  <1> DEFINE P == Pending(f)
             Q == Pending(f)'
  <1>1. P \subseteq DecodersOf(f) /\ Q \subseteq DecodersOf(f) /\ Accounted(f, P)
    BY DEF Pending, DecodersOf, DurationsAccounted
  <1>2. Q \subseteq P \/ (ifile_get_packet(f) /\ Head(inQueue[f]) = LOOPING)
    BY PendingStep
  <1> HIDE DEF P, Q
  <1>3. CASE ifile_get_packet(f) /\ Head(inQueue[f]) = LOOPING
    <2>1. \A R : R \subseteq DecodersOf(f) => Accounted(f, R)'
      BY <1>1, <1>3, AccountOpened
    <2> QED BY <1>1, <2>1 DEF Q
  <1>4. CASE /\ Q \subseteq P
             /\ \/ UNCHANGED demuxerVars
                \/ \E g \in Files : \/ thread_start(g) \/ ifile_get_packet(g) \/ drainQueue(g)
                                    \/ thread_stop(g) \/ joinDemuxer(g)
                \/ \E g \in Files \ {f} : input_thread(g) \/ sendDuration(g)
    <2>1. \A R : R \subseteq P => Accounted(f, R)'
      BY <1>1, <1>4, AccountStep
    <2> QED BY <1>4, <2>1 DEF Q
  <1>5. CASE input_thread(f) /\ UNCHANGED work
    <2>1. Q = P
      BY <1>5 DEF P, Q, Pending
    <2>2. \A R : R = P => Accounted(f, R)'
      BY <1>1, <1>5, AccountOfThread
    <2> QED BY <2>1, <2>2 DEF Q
  <1>6. CASE /\ work # <<>> /\ Head(work).do = "loopFlush" /\ Subject \in Decoded /\ work' = Rest
             /\ sendDuration(f) /\ FileOf[Subject] = f
    <2>1. /\ Head(work) = Item("loopFlush", Subject) /\ Head(work) \in Elements(work)
          /\ \A b \in Elements(Rest) : b # Head(work)
      BY <1>6, HeadOfWork DEF Remaining, RunTyped, Arranged, Follows, Wanting
    <2>2. Subject \in P
      BY <1>6, <2>1 DEF P, Pending, DecodersOf
    <2>3. CASE Q \subseteq P
      <3>1. Subject \notin Q
        BY <1>6, <2>1 DEF Q, Pending
      <3>2. \A R : R \subseteq P \ {Subject} => Accounted(f, R)'
        BY <1>1, <1>6, <2>2, AccountSent
      <3> QED BY <2>3, <3>1, <3>2 DEF Q
    <2> QED BY <1>2, <1>3, <2>3
  <1>7. Subject \in Decoded => FileOf[Subject] \in Files
    BY NumbersOf
  <1>8. CASE \E g \in Files : input_thread(g) /\ UNCHANGED work
    BY <1>2, <1>3, <1>4, <1>5, <1>8
  <1>9. CASE /\ work # <<>> /\ Head(work).do = "loopFlush" /\ Subject \in Decoded /\ work' = Rest
             /\ sendDuration(FileOf[Subject])
    BY <1>2, <1>3, <1>4, <1>6, <1>7, <1>9
  <1> QED BY <1>2, <1>3, <1>4, <1>8, <1>9, FilesStep

(* decode_flush of a looping file never finds audio_duration_queue full:   *)
(* at most one length for each of its decoders is on the way, and none     *)
(* once seek_to_start has taken them and the file is read again.           *)
THEOREM DurationsNeverWait == Spec => []DurationsFit
  <1>1. Init => DurationsAccounted
    <2> SUFFICES ASSUME Init, NEW f \in Files PROVE Accounted(f, Pending(f))
      BY DEF DurationsAccounted
    <2>1. \A i : Item("loopFlush", i) \notin Elements(work)
      BY RemainingInit DEF Item
    <2>2. Pending(f) = {}
      BY <2>1 DEF Pending
    <2> QED BY <2>2, AccountInit DEF Init
  <1>2. DemuxerTypeOK /\ DurationsAccounted => DurationsFit
    <2> SUFFICES ASSUME DemuxerTypeOK, NEW f \in Files, Accounted(f, Pending(f))
                 PROVE  durations[f] + gotDurations[f] <= Decoders(f)
      BY DEF DurationsFit, DurationsAccounted
    <2>1. Pending(f) \subseteq DecodersOf(f)
      BY DEF Pending
    <2>2. Cardinality(Pending(f)) \in Nat /\ Decoders(f) \in Nat
      BY <2>1, CountOf
    <2> QED BY <2>2, AccountTypes DEF Accounted
  <1>3. DemuxerTypeOK /\ Remaining /\ DurationsAccounted /\ [Next]_vars => DurationsAccounted'
    BY DurationsAccountedStep
  <1>4. DemuxerTypeOK /\ DemuxerTypeOK' /\ Remaining /\ [Next]_vars => Remaining'
    BY RemainingStep
  <1>5. Init => Remaining
    BY RemainingInit
  <1> QED BY <1>1, <1>2, <1>3, <1>4, <1>5, RunOfTheParts, DemuxerTypes, PTL DEF Spec

(***************************************************************************)
(* What a step does to the outputs.                                        *)
(***************************************************************************)

(* It gives nothing, or does the head of the work, a packet or an end.     *)
LEMMA OutputStep ==
  ASSUME [Next]_vars
  PROVE  \/ GivesNothing
         \/ /\ work # <<>> /\ Subject \in Streams /\ work' = Rest
            /\ \/ Head(work).do \in {"copy", "packet", "encode"} /\ of_output_packet(Subject, FALSE)
               \/ Head(work).do \in {"copyEof", "eof"} /\ of_output_packet(Subject, TRUE)
  <1>1. CASE UNCHANGED muxerVars
    BY <1>1 DEF GivesNothing
  <1>2. CASE init_output_stream
    <2>1. \E answer \in {"ok", "stream", "header"} : of_stream_init(Subject, answer) /\ Subject \in Streams
      BY <1>2, Zenon DEF init_output_stream, OfStream
    <2> QED BY <2>1 DEF GivesNothing
  <1>3. CASE outputPacket
    BY <1>3, Zenon DEF outputPacket, OfStream, Doing
  <1>4. CASE do_streamcopy
    <2>1. /\ work # <<>> /\ Subject \in Streams /\ work' = Rest
          /\ \/ UNCHANGED muxerVars
             \/ Head(work).do = "copy" /\ of_output_packet(Subject, FALSE)
             \/ Head(work).do = "copyEof" /\ of_output_packet(Subject, TRUE)
      BY <1>4, Zenon DEF do_streamcopy, OfStream, Doing
    <2> QED BY <1>1, <2>1
  <1>5. CASE do_audio_out
    <2>1. /\ work # <<>> /\ Subject \in Streams /\ Head(work).do = "encode"
          /\ UNCHANGED muxerVars \/ (of_output_packet(Subject, FALSE) /\ work' = Rest)
      BY <1>5, Zenon DEF do_audio_out, encode_frame, OfStream, Doing
    <2> QED BY <1>1, <2>1
  <1>6. CASE writeTrailer \/ closeOutputFile
    BY <1>6, Zenon DEF writeTrailer, closeOutputFile, GivesNothing
  <1>7. CASE MainStep \/ MuxerRuns
    BY <1>7 DEF MuxerRuns, GivesNothing
  <1>8. CASE process_input \/ decode_flush \/ closeInputFile
    BY <1>1, <1>8, DemuxerWork
  <1>9. CASE \/ init_input_stream \/ ifilter_send_frame \/ reconfigure \/ reap_filters \/ decode
             \/ inputEnd \/ fileEnd \/ transcode_step \/ transcode_from_filter
             \/ close_output_stream \/ leaveLoop \/ flushDecoder \/ flush_encoders \/ verdict
             \/ report
    BY <1>1, <1>9, OwnWork
  <1>10. CASE \E f \in Files : DemuxerRuns(f)
    BY <1>1, <1>10 DEF DemuxerRuns
  <1>11. CASE UNCHANGED vars
    BY <1>1, <1>11 DEF vars
  <1> QED BY <1>2, <1>3, <1>4, <1>5, <1>6, <1>7, <1>8, <1>9, <1>10, <1>11 DEF Next, MainThread

(* Streams stay initialized.                                               *)
LEMMA StaysInitialized ==
  ASSUME Inv, [MuxerNext]_muxerVars
  PROVE  initialized \subseteq initialized'
  <1>1. \/ UNCHANGED initialized
        \/ \E s \in Streams, answer \in {"ok", "stream", "header"} : of_stream_init(s, answer)
    BY DEF MuxerNext, MainCall, MainStep, MuxerThread, of_output_packet, of_write_trailer, of_close,
       flushMuxingQueue, sendToThread, finishStream, stopStreams, joinThread, finishThread,
       receivePacket, mainVars, muxerVars
  <1> QED BY <1>1 DEF of_stream_init

(* An encoder keeps a frame only when it is given one.                     *)
LEMMA KeepingStep ==
  ASSUME [Next]_vars
  PROVE  \/ UNCHANGED keeping
         \/ work # <<>> /\ Head(work).do = "encode" /\ keeping' \subseteq keeping \union {Subject}
  <1>1. CASE do_audio_out
    BY <1>1, Zenon DEF do_audio_out, encode_frame, Doing
  <1>2. CASE MainThread /\ ~do_audio_out
    BY <1>2, Zenon DEF MainThread, init_input_stream, init_output_stream, outputPacket,
       do_streamcopy, ifilter_send_frame, reconfigure, reap_filters, decode, inputEnd, fileEnd,
       decode_flush, process_input, transcode_step, transcode_from_filter, close_output_stream,
       leaveLoop, flushDecoder, flush_encoders, writeTrailer, verdict, report, closeOutputFile,
       closeInputFile, codecVars, runVars
  <1>3. CASE UNCHANGED runVars \/ UNCHANGED vars
    BY <1>3 DEF vars, runVars, codecVars
  <1> QED BY <1>1, <1>2, <1>3 DEF Next, MuxerRuns, DemuxerRuns

(* A stream is initialized, or the run ends.                               *)
LEMMA InitStep ==
  ASSUME [Next]_vars, work # <<>>, Head(work).do = "init", ~UNCHANGED work
  PROVE  work' = exit_program \/ Subject \in initialized'
  <1>1. CASE init_output_stream
    <2>1. PICK answer \in {"ok", "stream", "header"} :
            /\ of_stream_init(Subject, answer)
            /\ work' = IF answer = "ok" THEN Rest ELSE exit_program
      BY <1>1 DEF init_output_stream
    <2> QED BY <2>1 DEF of_stream_init
  <1> DEFINE Others == {"decoders", "packet", "eof", "copy", "copyEof", "frame", "configure",
                        "push", "reap", "encode", "decode", "inputEnd", "loopFlush", "loop",
                        "filter", "closeOutput", "drain", "flush", "trailer", "verdict", "close",
                        "input", "fileEnd", "report"}
  <1>2. CASE report
    <2>1. Head(<<Item("failed", 0)>>).do = "failed"
      BY DEF Item
    <2> QED BY <1>2, <2>1 DEF report, Doing
  <1>3. CASE closeInputFile
    BY <1>3, Zenon DEF closeInputFile, Stopping
  <1>4. CASE /\ MainThread /\ ~(init_output_stream \/ report \/ closeInputFile)
             /\ ~(MainStep /\ UNCHANGED <<demuxerVars, runVars>>)
    <2>1. \E do \in Others : Doing(do)
      <3>1. CASE init_input_stream \/ outputPacket \/ do_streamcopy
                 \/ ifilter_send_frame \/ reconfigure \/ reap_filters \/ do_audio_out
        BY <3>1, Zenon DEF init_input_stream, outputPacket, do_streamcopy,
           ifilter_send_frame, reconfigure, reap_filters, do_audio_out
      <3>2. CASE decode \/ inputEnd \/ fileEnd \/ decode_flush \/ transcode_step \/ process_input
                 \/ transcode_from_filter \/ close_output_stream \/ leaveLoop
        BY <3>2, Zenon DEF decode, inputEnd, fileEnd, decode_flush, transcode_step, process_input,
           transcode_from_filter, close_output_stream, leaveLoop
      <3>3. CASE flushDecoder \/ flush_encoders \/ writeTrailer \/ verdict \/ closeOutputFile
        BY <3>3, Zenon DEF flushDecoder, flush_encoders, writeTrailer, verdict, closeOutputFile
      <3> QED BY <1>4, <3>1, <3>2, <3>3 DEF MainThread
    <2> QED BY <2>1 DEF Doing
  <1>5. CASE UNCHANGED runVars \/ UNCHANGED vars
    BY <1>5 DEF vars, runVars
  <1> QED BY <1>1, <1>2, <1>3, <1>4, <1>5 DEF Next, MuxerRuns, DemuxerRuns

(***************************************************************************)
(* The ends of the streams, and what is still to be given.                 *)
(***************************************************************************)

(* What is encoded goes to a stream that is initialized.                   *)
Ready ==
  /\ keeping \subseteq initialized
  /\ \A x \in Elements(work) :
       /\ x.do = "encode" => x.of \in initialized
       /\ x.do = "filter" => x.of \in initialized \/ Item("init", x.of) \in Elements(work)

LEMMA ReadyStep ==
  ASSUME Inv, DemuxerTypeOK, Remaining, Ready, [Next]_vars
  PROVE  Ready'
  <1>1. work \in Seq(Tasks) /\ WorkStep /\ Arranged(work)
    BY EveryStepWorks DEF Remaining, RunTyped
  <1>2. initialized \subseteq initialized'
    BY StepOfTheParts, StaysInitialized
  <1>3. work # <<>> => /\ Head(work) \in Elements(work)
                       /\ Elements(work) = {Head(work)} \union Elements(Rest)
                       /\ Head(work).do \notin Wanting => Head(work) = Item(Head(work).do, Subject)
                       /\ \A b \in Elements(Rest) : Follows(Head(work), b)
    BY <1>1, HeadOfWork DEF Arranged
  <1>4. keeping' \subseteq initialized'
    <2>1. work # <<>> /\ Head(work).do = "encode" => Subject \in initialized
      BY <1>3 DEF Ready, Subject
    <2> QED BY <1>2, <2>1, KeepingStep DEF Ready
  <1>5. ASSUME NEW x \in Elements(work'), x.do = "encode" PROVE x.of \in initialized'
    <2>1. CASE UNCHANGED work
      BY <1>2, <1>5, <2>1 DEF Ready
    <2>2. CASE work' = exit_program \/ work' = afterLoop \/ Restarts
      BY <1>5, <2>2, ExitWork, AfterLoopWork DEF Restarts
    <2>3. CASE Proceeds
      <3>1. CASE x \in Elements(work)
        BY <1>2, <1>5, <3>1 DEF Ready
      <3>2. CASE MayPut(Head(work), x)
        <4>1. x.of \in initialized \/ (Head(work).do = "filter" /\ x.of = Head(work).of)
          BY <1>5, <3>2 DEF MayPut
        <4>2. CASE Head(work).do = "filter" /\ x.of = Head(work).of
          <5>1. Item("init", x.of).do = "init"
            BY DEF Item
          <5>2. Item("init", x.of) \notin Elements(work)
            BY <1>3, <2>3, <4>2, <5>1 DEF Follows, Proceeds
          <5> QED BY <1>2, <1>3, <2>3, <4>2, <5>2 DEF Ready, Proceeds
        <4> QED BY <1>2, <4>1, <4>2
      <3> QED BY <2>3, <3>1, <3>2 DEF Proceeds
    <2> QED BY <1>1, <2>1, <2>2, <2>3, WorkAsSet
  <1>6. ASSUME NEW x \in Elements(work'), x.do = "filter"
        PROVE  x.of \in initialized' \/ Item("init", x.of) \in Elements(work')
    <2>1. CASE UNCHANGED work
      BY <1>2, <1>6, <2>1 DEF Ready
    <2>2. CASE work' = exit_program \/ work' = afterLoop
      BY <1>6, <2>2, ExitWork, AfterLoopWork
    <2>3. ASSUME NEW N, Again(N), Goes(N, <<Item("loop", 0)>>) PROVE FALSE
      <3>1. Elements(<<Item("loop", 0)>>) = {Item("loop", 0)} /\ Item("loop", 0).do = "loop"
        BY OfShort DEF Item
      <3> QED BY <1>6, <2>3, <3>1 DEF Again, Goes
    <2>4. ASSUME work # <<>>, ~UNCHANGED work, work' # exit_program, NEW N, Puts(N),
                 Goes(N, Rest) \/ Goes(N, work)
          PROVE  x.of \in initialized' \/ Item("init", x.of) \in Elements(work')
      <3>1. /\ Elements(N) \subseteq Elements(work') /\ Elements(Rest) \subseteq Elements(work')
            /\ x \in Elements(N) \/ x \in Elements(work)
        BY <1>3, <2>4 DEF Goes
      <3>2. CASE x \in Elements(N)
        BY <1>2, <1>6, <2>4, <3>1, <3>2 DEF Puts
      <3>3. CASE x \in Elements(work) /\ Item("init", x.of) \in Elements(Rest)
        BY <3>1, <3>3
      <3>4. CASE x \in Elements(work) /\ Item("init", x.of) = Head(work)
        <4>1. Head(work).do = "init" /\ Subject = x.of
          BY <3>4 DEF Item, Subject
        <4> QED BY <2>4, <4>1, InitStep
      <3>5. CASE x \in Elements(work) /\ x.of \in initialized
        BY <1>2, <3>5
      <3> QED BY <1>3, <1>6, <2>4, <3>1, <3>2, <3>3, <3>4, <3>5 DEF Ready
    <2> QED BY <1>1, <2>1, <2>2, <2>3, <2>4, WorkGoes
  <1> QED BY <1>4, <1>5, <1>6 DEF Ready

(* Nothing that decodes, filters or encodes is left. *)
Quiet == \A x \in Elements(work) : x.do \notin Producing

(* No more packets come to the stream, but those that work already holds.  *)
Closing(s) ==
  IF s \in Copying
    THEN Done(FileOf[CopyOf[s]]) \/ ~Looping
    ELSE Quiet /\ (Item("flush", s) \in Elements(work) => s \notin keeping)

(* No more packets come to it.                                             *)
Spent(s) ==
  Closing(s) /\ Item("copy", s) \notin Elements(work) /\ Item("packet", s) \notin Elements(work)

(* Once the decoders, the graphs and the encoders are idle, they stay so.  *)
LEMMA QuietStays ==
  ASSUME DemuxerTypeOK, Remaining, Quiet, [Next]_vars
  PROVE  /\ Quiet' /\ UNCHANGED keeping
         /\ \A s : Item("flush", s) \in Elements(work') => Item("flush", s) \in Elements(work)
  <1>1. work \in Seq(Tasks) /\ WorkStep
    BY EveryStepWorks DEF Remaining, RunTyped
  <1>2. work # <<>> => Head(work).do \notin Producing
    BY <1>1, HeadOfWork DEF Quiet
  <1>3. UNCHANGED keeping
    BY <1>2, KeepingStep DEF Producing
  <1>4. \A s : Item("flush", s).do = "flush"
    BY DEF Item
  <1>5. CASE UNCHANGED work
    BY <1>3, <1>5 DEF Quiet
  <1>6. CASE work' = exit_program
    BY <1>3, <1>4, <1>6, ExitWork DEF Quiet, Producing
  <1>7. CASE Proceeds
    <2>1. \A x : MayPut(Head(work), x) => x.do \notin Producing /\ x.do # "flush"
      BY <1>2, <1>7 DEF MayPut, Producing, Proceeds
    <2> QED BY <1>3, <1>4, <1>7, <2>1 DEF Quiet, Proceeds
  <1>8. ~Restarts /\ ~(work # <<>> /\ Head(work).do \in {"loop", "filter"})
    BY <1>2 DEF Restarts, Producing
  <1> QED BY <1>1, <1>5, <1>6, <1>7, <1>8, WorkAsSet

LEMMA LoopIsLeftForGood ==
  ASSUME DemuxerTypeOK, Remaining, ~Looping, [Next]_vars
  PROVE  ~Looping'
  <1>1. work \in Seq(Tasks) /\ WorkStep /\ LoopWorks
    BY EveryStepWorks DEF Remaining, RunTyped
  <1>2. ~Restarts
    <2>1. work # <<>> => Head(work) \in Elements(work)
      BY <1>1, HeadOfWork
    <2> QED BY <1>1, <2>1 DEF Restarts, LoopWorks
  <1> QED BY <1>1, <1>2, LoopingAfter, WorkAsSet

LEMMA DoneStays ==
  ASSUME DemuxerTypeOK, Answering, [Next]_vars, NEW f \in Files, Done(f)
  PROVE  Done(f)'
  BY StepOfTheParts, AnsweringStep

LEMMA ClosingStays ==
  ASSUME DemuxerTypeOK, Remaining, Answering, [Next]_vars, NEW s \in Streams, Closing(s)
  PROVE  Closing(s)'
  <1>1. CASE s \in Copying
    <2>1. FileOf[CopyOf[s]] \in Files
      BY <1>1, NumbersOf
    <2>2. CASE Done(FileOf[CopyOf[s]])
      <3>1. Done(FileOf[CopyOf[s]])'
        BY <2>1, <2>2, DoneStays
      <3> QED BY <1>1, <3>1 DEF Closing
    <2>3. CASE ~Looping
      <3>1. ~Looping'
        BY <2>3, LoopIsLeftForGood
      <3> QED BY <1>1, <3>1 DEF Closing
    <2> QED BY <1>1, <2>2, <2>3 DEF Closing
  <1>2. CASE s \notin Copying
    <2>1. Quiet /\ (Item("flush", s) \in Elements(work) => s \notin keeping)
      BY <1>2 DEF Closing
    <2>2. Quiet' /\ (Item("flush", s) \in Elements(work') => s \notin keeping')
      BY <2>1, QuietStays
    <2> QED BY <1>2, <2>2 DEF Closing
  <1> QED BY <1>1, <1>2

(* A stream to which no more packets come stays so.                        *)
LEMMA SpentStays ==
  ASSUME DemuxerTypeOK, Remaining, Answering, [Next]_vars, NEW s \in Streams, Spent(s)
  PROVE  Spent(s)'
  <1>1. Closing(s)' /\ Closing(s)
    BY ClosingStays DEF Spent
  <1>2. work \in Seq(Tasks) /\ WorkStep /\ LoopWorks /\ work' \in Seq(Tasks)
    BY EveryStepWorks, WorkStaysTyped DEF Remaining, RunTyped
  <1>3. ASSUME NEW do \in {"copy", "packet"}, Item(do, s) \in Elements(work')
        PROVE  FALSE
    <2> DEFINE x == Item(do, s)
    <2>1. x.do = do /\ x.of = s
      BY DEF Item
    <2>2. x \in Elements(work') /\ x \in Tasks
      BY <1>2, <1>3, ElementsAreIn
    <2>3. x \notin Elements(work)
      BY DEF Spent
    <2> HIDE DEF x
    <2>4. work' # exit_program /\ work' # afterLoop /\ ~Restarts /\ ~UNCHANGED work
      BY <2>1, <2>2, <2>3, ExitWork, AfterLoopWork DEF Restarts
    <2>5. work # <<>> /\ MayPut(Head(work), x)
      BY <1>2, <2>2, <2>3, <2>4, WorkAsSet DEF Proceeds
    <2>6. /\ Head(work) \in Elements(work) /\ Subject \in Subjects(Head(work).do)
          /\ Head(work).do \notin Wanting => Head(work) = Item(Head(work).do, Subject)
      BY <1>2, <2>5, HeadOfWork
    <2>7. CASE do = "copy"
      <3>1. /\ Head(work).do = "input" /\ ifile_get_packet(Subject)
            /\ CopyOf[s] = Head(inQueue[Subject])
        BY <2>1, <2>5, <2>7 DEF MayPut, Subject
      <3>2. s \in Copying /\ CopyOf[s] \in Inputs
        <4>1. x.of \in Subjects("copy")
          BY <2>1, <2>2, <2>7, TaskIsItem
        <4> QED BY <2>1, <4>1, SubjectsOf, NumbersOf
      <3>3. Looping /\ Subject \in Files
        BY <1>2, <2>6, <3>1, SubjectsOf DEF LoopWorks
      <3>4. ~Done(Subject) /\ FileOf[CopyOf[s]] = Subject
        <4>1. CopyOf[s] # LOOPING
          BY <3>2, DemuxerAssumption DEF LOOPING
        <4> QED BY <3>1, <3>3, <4>1, PacketIsOwn
      <3> QED BY <1>1, <3>2, <3>3, <3>4 DEF Closing
    <2>8. CASE do = "packet"
      <3>1. Head(work).do = "flush" /\ Subject = s /\ s \in keeping
        BY <2>1, <2>5, <2>8 DEF MayPut, Subject
      <3>2. s \in Encoding
        BY <2>6, <3>1, SubjectsOf
      <3>3. s \notin Copying
        BY <3>2, TranscodeAssumption
      <3>4. Item("flush", s) \in Elements(work)
        BY <2>6, <3>1 DEF Wanting
      <3> QED BY <1>1, <3>1, <3>3, <3>4 DEF Closing
    <2> QED BY <2>7, <2>8
  <1> QED BY <1>1, <1>3 DEF Spent

(* An end is given only when no packet can come any more; the ends of an   *)
(* input are given only when its file has none left.                       *)
DoneItems == \A x \in Elements(work) : x.do = "inputEnd" => Done(FileOf[x.of])
EndItems == \A x \in Elements(work) : x.do \in {"copyEof", "eof"} => Closing(x.of)

LEMMA DoneItemsStep ==
  ASSUME DemuxerTypeOK, Remaining, Answering, DoneItems, [Next]_vars
  PROVE  DoneItems'
  <1>1. work \in Seq(Tasks) /\ WorkStep /\ work' \in Seq(Tasks)
    BY EveryStepWorks, WorkStaysTyped DEF Remaining, RunTyped
  <1> SUFFICES ASSUME NEW x \in Elements(work'), x.do = "inputEnd"
               PROVE  Done(FileOf[x.of])'
    BY DEF DoneItems
  <1>2. x.of \in Inputs /\ FileOf[x.of] \in Files
    <2>1. x \in Tasks
      BY <1>1, ElementsAreIn
    <2> QED BY <2>1, TaskIsItem, SubjectsOf, NumbersOf
  <1>3. Done(FileOf[x.of])
    <2>1. CASE x \in Elements(work)
      BY <2>1 DEF DoneItems
    <2>2. CASE x \notin Elements(work)
      <3>1. ~UNCHANGED work /\ work' # exit_program /\ work' # afterLoop /\ ~Restarts
        BY <2>2, ExitWork, AfterLoopWork DEF Restarts
      <3>2. MayPut(Head(work), x)
        BY <1>1, <2>2, <3>1, WorkAsSet DEF Proceeds
      <3>3. FileOf[x.of] = Head(work).of /\ Exhausted(Head(work).of)
        BY <3>2 DEF MayPut
      <3> QED BY <3>3 DEF Exhausted, Done
    <2> QED BY <2>1, <2>2
  <1> QED BY <1>2, <1>3, DoneStays

LEMMA EndItemsStep ==
  ASSUME DemuxerTypeOK, Remaining, Answering, Ready, DoneItems, EndItems, [Next]_vars
  PROVE  EndItems'
  <1>1. /\ work \in Seq(Tasks) /\ WorkStep /\ work' \in Seq(Tasks) /\ LoopWorks /\ Arranged(work)
    BY EveryStepWorks, WorkStaysTyped DEF Remaining, RunTyped
  <1>2. work # <<>> => /\ Head(work) \in Elements(work)
                       /\ Elements(work) = {Head(work)} \union Elements(Rest)
                       /\ Subject \in Subjects(Head(work).do)
                       /\ Head(work).do \notin Wanting => Head(work) = Item(Head(work).do, Subject)
                       /\ \A b \in Elements(Rest) : Follows(Head(work), b)
    BY <1>1, HeadOfWork DEF Arranged
  <1> SUFFICES ASSUME NEW x \in Elements(work'), x.do \in {"copyEof", "eof"}
               PROVE  Closing(x.of)'
    BY DEF EndItems
  <1>3. x.of \in Streams
    <2>1. x \in Tasks
      BY <1>1, ElementsAreIn
    <2> QED BY <2>1, TaskIsItem, SubjectsOf, NumbersOf
  <1>4. ASSUME Closing(x.of) PROVE Closing(x.of)'
    BY <1>3, <1>4, ClosingStays
  <1>5. CASE x \in Elements(work)
    BY <1>4, <1>5 DEF EndItems
  <1>6. CASE work # <<>> /\ Head(work).do = "inputEnd" /\ x.of \in CopiesOf(Subject)
    <2>1. x.of \in Copying /\ CopyOf[x.of] = Subject
      BY <1>6 DEF CopiesOf
    <2>2. Done(FileOf[Subject])
      BY <1>2, <1>6 DEF DoneItems, Subject
    <2> QED BY <1>4, <2>1, <2>2 DEF Closing
  <1>7. ASSUME work # <<>>, ~UNCHANGED work, NEW N, Puts(N), x \in Elements(N),
               Goes(N, Rest) \/ (Subject \notin initialized /\ Goes(N, work)),
               Head(work).do = "flush"
        PROVE  Closing(x.of)'
    <2> DEFINE s == x.of
    <2>1. s = Subject /\ s \in Encoding
      <3>1. MayPut(Head(work), x)
        BY <1>7 DEF Puts
      <3> QED BY <1>2, <1>7, <3>1, SubjectsOf DEF MayPut, Subject
    <2>2. s \notin Copying
      BY <2>1, TranscodeAssumption
    <2>3. Quiet
      <3>1. \A b \in Elements(Rest) : b.do \notin Producing
        BY <1>2, <1>7 DEF Follows
      <3> QED BY <1>2, <1>7, <3>1 DEF Quiet, Producing
    <2>4. Quiet' /\ UNCHANGED keeping
      BY <2>3, QuietStays
    <2>5. ASSUME Item("flush", s) \in Elements(work') PROVE s \notin keeping
      <3>1. CASE Subject \notin initialized
        BY <2>1, <3>1 DEF Ready
      <3>2. CASE Goes(N, Rest)
        <4>1. Item("flush", s).do = "flush"
          BY DEF Item
        <4>2. Item("flush", s) \notin Elements(N)
          BY <1>7, <4>1 DEF Puts, MayPut
        <4>3. Item("flush", s) \in Elements(Rest)
          BY <2>5, <3>2, <4>2 DEF Goes
        <4>4. Head(work) = Item("flush", s)
          BY <1>2, <1>7, <2>1 DEF Wanting
        <4> QED BY <1>2, <1>7, <4>3, <4>4 DEF Follows
      <3> QED BY <1>7, <3>1, <3>2
    <2> QED BY <2>2, <2>4, <2>5 DEF Closing
  <1>8. ASSUME work # <<>>, ~UNCHANGED work, NEW N, Puts(N), x \in Elements(N),
               \/ Goes(N, Rest)
               \/ (Head(work).do = "flush" => Subject \notin initialized) /\ Goes(N, work)
        PROVE  Closing(x.of)'
    <2>1. MayPut(Head(work), x)
      BY <1>8 DEF Puts
    <2>2. CASE Head(work).do = "drain"
      <3>1. x.of \in CopiesOf(Subject)
        BY <2>1, <2>2 DEF MayPut, Subject
      <3>2. ~Looping
        BY <1>1, <1>2, <1>8, <2>2 DEF LoopWorks
      <3>3. x.of \in Copying
        BY <3>1 DEF CopiesOf
      <3> QED BY <1>4, <3>2, <3>3 DEF Closing
    <2>3. CASE Head(work).do = "inputEnd"
      BY <1>6, <1>8, <2>1, <2>3 DEF MayPut, Subject
    <2>4. Head(work).do \in {"drain", "inputEnd", "flush"}
      BY <2>1 DEF MayPut
    <2> QED BY <1>7, <1>8, <2>2, <2>3, <2>4
  <1>9. ASSUME work # <<>>, Head(work).do = "inputEnd",
               NEW N, Again(N), Goes(N, <<Item("loop", 0)>>)
        PROVE  Closing(x.of)'
    <2>1. Elements(<<Item("loop", 0)>>) = {Item("loop", 0)} /\ Item("loop", 0).do = "loop"
      BY OfShort DEF Item
    <2>2. x \in Elements(N)
      BY <1>9, <2>1 DEF Goes
    <2> QED BY <1>6, <1>9, <2>2 DEF Again
  <1>10. UNCHANGED work => x \in Elements(work)
    OBVIOUS
  <1>11. work' # exit_program /\ work' # afterLoop
    BY ExitWork, AfterLoopWork
  <1>12. ASSUME work # <<>>, ~UNCHANGED work, NEW N, Puts(N),
                \/ Goes(N, Rest)
                \/ (Head(work).do = "flush" => Subject \notin initialized) /\ Goes(N, work)
         PROVE  Closing(x.of)'
    <2>1. x \in Elements(N) \/ x \in Elements(work)
      BY <1>2, <1>12 DEF Goes
    <2> QED BY <1>5, <1>8, <1>12, <2>1
  <1> QED BY <1>1, <1>5, <1>9, <1>10, <1>11, <1>12, WorkGoes

(* After the end of a stream nothing more comes to it.                     *)
EndsLast == Sound => \A s \in Streams : Ended(s) => Spent(s)

(* The stream that is given a packet has not ended.                        *)
LEMMA NotEnded ==
  ASSUME Remaining, EndsLast, work # <<>>, Subject \in Streams,
         Head(work).do \in {"copy", "packet", "encode"}, Sound
  PROVE  ~Ended(Subject)
  <1> SUFFICES ASSUME Spent(Subject) PROVE FALSE
    BY DEF EndsLast
  <1>1. /\ Head(work) \in Elements(work) /\ Subject \in Subjects(Head(work).do)
        /\ Head(work) = Item(Head(work).do, Subject)
    BY HeadOfWork DEF Remaining, RunTyped, Wanting
  <1>2. CASE Head(work).do \in {"copy", "packet"}
    BY <1>1, <1>2 DEF Spent
  <1>3. CASE Head(work).do = "encode"
    <2>1. Subject \notin Copying
      BY <1>1, <1>3, SubjectsOf, TranscodeAssumption
    <2>2. Quiet
      BY <2>1 DEF Spent, Closing
    <2> QED BY <1>1, <1>3, <2>2 DEF Quiet, Producing
  <1> QED BY <1>2, <1>3

LEMMA EndsLastStep ==
  ASSUME Inv, Order, Ends, Complete, DemuxerTypeOK, Remaining, Answering, EndItems, EndsLast,
         [Next]_vars
  PROVE  EndsLast'
  <1> SUFFICES ASSUME Sound', NEW s \in Streams, Ended(s)'
               PROVE  Spent(s)'
    BY DEF EndsLast
  <1>1. ASSUME Sound, Ended(s) PROVE Spent(s)'
    BY <1>1, SpentStays DEF EndsLast
  <1>2. CASE GivesNothing
    BY <1>1, <1>2, EndedStep
  <1>3. ASSUME work # <<>>, Subject \in Streams, work' = Rest,
               Head(work).do \in {"copyEof", "eof"}, of_output_packet(Subject, TRUE)
        PROVE  Spent(s)'
    <2>1. Sound /\ (Ended(s) \/ s = Subject)
      BY <1>3, EndedGiven
    <2>2. CASE s = Subject
      <3>1. /\ Head(work) \in Elements(work)
            /\ \A b \in Elements(Rest) : Follows(Head(work), b)
        BY <1>3, HeadOfWork DEF Remaining, RunTyped, Arranged
      <3>2. Closing(s)
        BY <1>3, <2>2, <3>1 DEF EndItems, Subject
      <3>3. Closing(s)'
        BY <3>2, ClosingStays
      <3>4. \A b \in Elements(Rest) : b.do # "packet" /\ b.do # "copy"
        BY <1>3, <3>1 DEF Follows, Plain
      <3>5. Item("copy", s).do = "copy" /\ Item("packet", s).do = "packet"
        BY DEF Item
      <3>6. Item("copy", s) \notin Elements(work') /\ Item("packet", s) \notin Elements(work')
        BY <1>3, <3>4, <3>5
      <3> QED BY <3>3, <3>6 DEF Spent
    <2> QED BY <1>1, <2>1, <2>2
  <1>4. ASSUME Subject \in Streams, of_output_packet(Subject, FALSE)
        PROVE  Spent(s)'
    BY <1>1, <1>4, EndedGiven
  <1> QED BY <1>2, <1>3, <1>4, OutputStep

(* No packet is given after the end of its stream, so that none is lost.   *)
LEMMA CompleteInRun ==
  ASSUME Inv, Order, Ends, Complete, Remaining, EndsLast, [Next]_vars
  PROVE  Complete'
  <1>1. CASE GivesNothing
    BY <1>1, CompleteStep
  <1>2. ASSUME work # <<>>, Subject \in Streams, Head(work).do \in {"copy", "packet", "encode"},
               of_output_packet(Subject, FALSE)
        PROVE  Complete'
    BY <1>2, NotEnded, PacketGiven
  <1>3. ASSUME Subject \in Streams, of_output_packet(Subject, TRUE)
        PROVE  Complete'
    BY <1>3, PacketGiven
  <1> QED BY <1>1, <1>2, <1>3, OutputStep

(***************************************************************************)
(* A success is reported after the trailer.                                *)
(***************************************************************************)

(* The trailer is written once.                                            *)
LEMMA TrailerStep ==
  ASSUME Inv, Ends, [MuxerNext]_muxerVars
  PROVE  /\ trailer # "none" => UNCHANGED <<trailer, main_return_code>>
         /\ closing = "trailer" => closing' = "trailer" \/ trailer' # "none"
  <1>1. CASE of_write_trailer
    BY <1>1 DEF of_write_trailer, Writable
  <1>2. CASE of_close
    BY <1>2 DEF of_close, Free, Ends
  <1>3. CASE \E answer \in {"written", "failed"} : joinThread(answer)
    <2>1. trailer = "none"
      BY <1>3 DEF joinThread, Inv, Phases
    <2> QED BY <1>3, <2>1 DEF joinThread
  <1>4. CASE UNCHANGED <<trailer, main_return_code, closing>>
    BY <1>4
  <1>5. \/ of_write_trailer \/ of_close \/ (\E answer \in {"written", "failed"} : joinThread(answer))
        \/ UNCHANGED <<trailer, main_return_code, closing>>
    BY DEF MuxerNext, MainCall, MainStep, MuxerThread, of_output_packet, of_stream_init,
       flushMuxingQueue, sendToThread, finishStream, stopStreams, finishThread, receivePacket,
       mainVars, muxerVars
  <1> QED BY <1>1, <1>2, <1>3, <1>4, <1>5

(* What the last pieces of the work do.                                    *)
LEMMA EndOfRun ==
  ASSUME [Next]_vars
  PROVE  /\ work # <<>> /\ Head(work).do = "trailer" => UNCHANGED work \/ of_write_trailer
         /\ \/ UNCHANGED result \/ result' # "success"
            \/ /\ work # <<>> /\ Head(work).do = "report"
               /\ at = "idle" /\ main_return_code = "ok" /\ UNCHANGED muxerVars
  <1> DEFINE Others == {"decoders", "init", "packet", "eof", "copy", "copyEof", "frame", "configure",
                        "push", "reap", "encode", "decode", "inputEnd", "loopFlush", "loop",
                        "filter", "closeOutput", "drain", "flush", "verdict", "close",
                        "input", "fileEnd"}
  <1>1. CASE report
    <2>1. CASE work = <<Item("failed", 0)>> /\ result' = "error"
      <3>1. Head(<<Item("failed", 0)>>).do = "failed"
        BY DEF Item
      <3> QED BY <2>1, <3>1
    <2>2. CASE Doing("report") /\ result' = IF main_return_code = "ok" THEN "success" ELSE "error"
      BY <1>1, <2>2 DEF report, Doing, Free
    <2> QED BY <1>1, <2>1, <2>2 DEF report
  <1>2. CASE closeInputFile
    BY <1>2, Zenon DEF closeInputFile, Stopping
  <1>3. CASE writeTrailer
    BY <1>3, Zenon DEF writeTrailer
  <1>4. CASE /\ MainThread /\ ~(report \/ closeInputFile \/ writeTrailer)
             /\ ~(MainStep /\ UNCHANGED <<demuxerVars, runVars>>)
    <2>1. UNCHANGED result /\ \E do \in Others : Doing(do)
      <3>1. CASE init_input_stream \/ init_output_stream \/ outputPacket \/ do_streamcopy
                 \/ ifilter_send_frame \/ reconfigure \/ reap_filters \/ do_audio_out
        BY <3>1, Zenon DEF init_input_stream, init_output_stream, outputPacket, do_streamcopy,
           ifilter_send_frame, reconfigure, reap_filters, do_audio_out
      <3>2. CASE decode \/ inputEnd \/ fileEnd \/ decode_flush \/ transcode_step \/ process_input
                 \/ transcode_from_filter \/ close_output_stream \/ leaveLoop
        BY <3>2, Zenon DEF decode, inputEnd, fileEnd, decode_flush, transcode_step, process_input,
           transcode_from_filter, close_output_stream, leaveLoop
      <3>3. CASE flushDecoder \/ flush_encoders \/ verdict \/ closeOutputFile
        BY <3>3, Zenon DEF flushDecoder, flush_encoders, verdict, closeOutputFile
      <3> QED BY <1>4, <3>1, <3>2, <3>3 DEF MainThread
    <2> QED BY <2>1 DEF Doing
  <1>5. CASE UNCHANGED runVars \/ UNCHANGED vars
    BY <1>5 DEF vars, runVars
  <1> QED BY <1>1, <1>2, <1>3, <1>4, <1>5 DEF Next, MuxerRuns, DemuxerRuns

(* The trailer comes before the report, which takes its return code.       *)
TrailerFirst ==
  /\ \A x \in Elements(work) : x.do = "report" =>
       \/ \E y \in Elements(work) : y.do = "trailer"
       \/ closing = "trailer" \/ trailer # "none"
  /\ result = "success" => trailer # "none" /\ main_return_code = "ok"

LEMMA TrailerFirstStep ==
  ASSUME Inv, Ends, DemuxerTypeOK, Remaining, TrailerFirst, [Next]_vars
  PROVE  TrailerFirst'
  <1>1. work \in Seq(Tasks) /\ WorkStep /\ Arranged(work)
    BY EveryStepWorks DEF Remaining, RunTyped
  <1>2. work # <<>> => /\ Head(work) \in Elements(work)
                       /\ Elements(work) = {Head(work)} \union Elements(Rest)
                       /\ \A b \in Elements(Rest) : Follows(Head(work), b)
    BY <1>1, HeadOfWork DEF Arranged
  <1>3. /\ trailer # "none" => UNCHANGED <<trailer, main_return_code>>
        /\ closing = "trailer" => closing' = "trailer" \/ trailer' # "none"
    BY StepOfTheParts, TrailerStep
  <1>4. ASSUME NEW x \in Elements(work'), x.do = "report"
        PROVE  \/ \E y \in Elements(work') : y.do = "trailer"
               \/ closing' = "trailer" \/ trailer' # "none"
    <2>1. CASE UNCHANGED work
      BY <1>3, <1>4, <2>1 DEF TrailerFirst
    <2>2. work' # exit_program /\ ~Restarts
      BY <1>4, ExitWork DEF Restarts
    <2>3. CASE work' = afterLoop
      <3>1. Item("trailer", 0).do = "trailer"
        BY DEF Item
      <3> QED BY <2>3, <3>1, AfterLoopWork
    <2>4. CASE Proceeds /\ ~UNCHANGED work
      <3>1. x \in Elements(work)
        BY <1>4, <2>4 DEF Proceeds, MayPut
      <3>2. CASE closing = "trailer" \/ trailer # "none"
        BY <1>3, <3>2
      <3>3. ASSUME NEW y \in Elements(work), y.do = "trailer"
            PROVE  \/ \E z \in Elements(work') : z.do = "trailer"
                   \/ closing' = "trailer" \/ trailer' # "none"
        <4>1. CASE Head(work).do = "trailer"
          <5>1. of_write_trailer
            BY <2>4, <4>1, EndOfRun DEF Proceeds
          <5> QED BY <5>1 DEF of_write_trailer
        <4>2. CASE Head(work).do # "trailer"
          BY <1>2, <2>4, <3>3, <4>2 DEF Proceeds
        <4> QED BY <4>1, <4>2
      <3> QED BY <1>4, <3>1, <3>2, <3>3 DEF TrailerFirst
    <2> QED BY <1>1, <2>1, <2>2, <2>3, <2>4, WorkAsSet
  <1>5. ASSUME result' = "success" PROVE trailer' # "none" /\ main_return_code' = "ok"
    <2>1. CASE UNCHANGED result
      BY <1>3, <1>5, <2>1 DEF TrailerFirst
    <2>2. CASE /\ work # <<>> /\ Head(work).do = "report"
               /\ at = "idle" /\ main_return_code = "ok" /\ UNCHANGED muxerVars
      <3>1. UNCHANGED <<trailer, main_return_code>> /\ closing # "trailer"
        BY <2>2 DEF muxerVars, mainVars, Ends
      <3>2. \A y \in Elements(work) : y.do # "trailer"
        BY <1>2, <2>2 DEF Follows
      <3>3. trailer # "none"
        BY <1>2, <2>2, <3>1, <3>2 DEF TrailerFirst
      <3> QED BY <2>2, <3>1, <3>3
    <2> QED BY <1>5, <2>1, <2>2, EndOfRun
  <1> QED BY <1>4, <1>5 DEF TrailerFirst

(***************************************************************************)
(* The whole.                                                              *)
(***************************************************************************)

(* The inductive invariant of the run, on top of those of its parts.       *)
WholeInv ==
  /\ Remaining /\ Answering /\ Ready /\ DoneItems /\ EndItems
  /\ Ends /\ Complete /\ FilesSorted /\ EndsLast /\ TrailerFirst

LEMMA WholeInvInit == Init => WholeInv
  <1> SUFFICES ASSUME Init PROVE WholeInv
    OBVIOUS
  <1>1. /\ Remaining /\ Answering /\ Ends /\ Complete /\ FilesSorted
        /\ \A s \in Streams : ~Ended(s)
        /\ \A x \in Elements(work) : x.do \in {"decoders", "init", "loop"}
        /\ keeping = {} /\ result = "none"
    BY RemainingInit, AnsweringInit, WholeInit DEF Init
  <1> QED BY <1>1 DEF WholeInv, Ready, DoneItems, EndItems, EndsLast, TrailerFirst

LEMMA WholeInvStep ==
  ASSUME Inv, Order, DemuxerTypeOK, DemuxerTypeOK', WholeInv, [Next]_vars
  PROVE  WholeInv'
  <1>1. [MuxerNext]_muxerVars /\ [DemuxerNext]_demuxerVars
    BY StepOfTheParts
  <1>2. /\ Remaining /\ Answering /\ Ready /\ DoneItems /\ EndItems
        /\ Ends /\ Complete /\ FilesSorted /\ EndsLast /\ TrailerFirst
    BY DEF WholeInv
  <1>3. Remaining' /\ Answering' /\ Ready' /\ DoneItems' /\ EndItems'
    BY <1>1, <1>2, RemainingStep, AnsweringStep, ReadyStep, DoneItemsStep, EndItemsStep
  <1>4. Ends' /\ Complete' /\ FilesSorted'
    BY <1>1, <1>2, EndsStep, CompleteInRun, FilesSortedStep
  <1>5. EndsLast' /\ TrailerFirst'
    BY <1>2, EndsLastStep, TrailerFirstStep
  <1> QED BY <1>3, <1>4, <1>5 DEF WholeInv

(* A run that reports success has written every packet it gave to the      *)
(* muxer, in order, unless a muxing queue overflowed or the trailer could  *)
(* not be written (run, transcode, of_output_packet and the thread of the  *)
(* muxer): no packet of a stream is given after its end, and nothing that  *)
(* was given is dropped without an error that the run reports.             *)
THEOREM SuccessMeansWhole == Spec => []SuccessIsWhole
  <1>1. Inv /\ Order /\ WholeInv => SuccessIsWhole
    <2> SUFFICES ASSUME Inv, Order, WholeInv, result = "success", trailer = "written",
                        refusals = {}, NEW s \in Streams
                 PROVE  file[s] = [n \in 1..given[s] |-> n]
      BY DEF SuccessIsWhole
    <2>1. main_return_code = "ok"
      BY DEF WholeInv, TrailerFirst
    <2> QED BY <2>1, FileIsWhole DEF WholeInv
  <1>2. Init => Inv /\ Order /\ WholeInv
    BY WholeInvInit, MuxerInitInv, MuxerInitOrder DEF Init
  <1>3. Inv /\ Order /\ DemuxerTypeOK /\ DemuxerTypeOK' /\ WholeInv /\ [Next]_vars
          => (Inv /\ Order /\ WholeInv)'
    BY StepOfTheParts, MuxerNextInv, MuxerNextOrder, WholeInvStep
  <1> QED BY <1>1, <1>2, <1>3, RunOfTheParts, DemuxerTypes, PTL DEF Spec
================================================================================

---------------------------- MODULE SyncQueueProofs ----------------------------
(***************************************************************************)
(* Proofs about SyncQueue: types, the limit of -frames, that the end of a  *)
(* stream is final, what a limiting stream promises, and the heartbeat.    *)
(***************************************************************************)
EXTENDS SyncQueue, FiniteSetTheorems, TLAPS

USE SyncQueueAssumption

(* The time base of a stream is set once, before its first frame.          *)
Times ==
  \A s \in Streams :
    /\ sq.tb[s] = IF s \in timed THEN Tick[s] ELSE DefaultTick
    /\ s \notin timed => sq.fifo[s] = <<>>

(* A stream is finished no later than with the frame that is its last.     *)
Limits ==
  \A s \in DOMAIN FramesMax :
    sq.frames_sent[s] < FramesMax[s] \/ (sq.frames_sent[s] = FramesMax[s] /\ s \in sq.finished)

OverMeansAll == sq.over => sq.finished = Streams

(* A stream that is at its end has nothing left, or nothing that will ever *)
(* be released, as no stream moves on any more.                            *)
EndsStay ==
  \A s \in ended : s \in sq.finished /\ (sq.fifo[s] = <<>> \/ (sq.over /\ ~Ready(sq, s)))

Inv == SyncTypeOK /\ Times /\ Limits /\ OverMeansAll /\ EndsStay

(***************************************************************************)
(* The functions.                                                          *)
(***************************************************************************)

(* A set of numbers has a least one: the intervals that end in it are      *)
(* finite sets, whose strict inclusion is well founded.                    *)
LEMMA LeastOfNumbers ==
  ASSUME NEW S \in SUBSET Nat, S # {}
  PROVE  \E x \in S : \A y \in S : x <= y
  <1> DEFINE intervals == {0..x : x \in S}
             R == StrictSubsetOrdering(Nat)
  <1>1. intervals \subseteq FiniteSubsetsOf(Nat) /\ intervals # {}
    <2>1. ASSUME NEW x \in S PROVE 0..x \in FiniteSubsetsOf(Nat)
      <3>1. x \in Int /\ 0..x \in SUBSET Nat
        OBVIOUS
      <3> QED BY <3>1, FS_Interval DEF FiniteSubsetsOf
    <2> QED BY <2>1
  <1>2. IsWellFoundedOn(R, FiniteSubsetsOf(Nat))
    BY FS_StrictSubsetOrderingWellFounded
  <1> HIDE DEF R
  <1>3. PICK least \in intervals : \A i \in intervals : <<i, least>> \notin R
    BY <1>1, <1>2, WFMin
  <1>4. PICK x \in S : least = 0..x
    BY <1>3
  <1>5. ASSUME NEW y \in S PROVE x <= y
    <2>1. SUFFICES ASSUME y < x PROVE FALSE
      OBVIOUS
    <2>2. 0..y \subseteq 0..x /\ x \in 0..x /\ x \notin 0..y
      BY <2>1
    <2>3. 0..y \in SUBSET Nat /\ 0..x \in SUBSET Nat
      OBVIOUS
    <2>4. <<0..y, 0..x>> \in R
      BY <2>2, <2>3 DEF R, StrictSubsetOrdering
    <2> QED BY <2>4, <1>3, <1>4
  <1> QED BY <1>5

LEMMA FirstIsMember ==
  ASSUME NEW S \in SUBSET Nat, S # {}
  PROVE  First(S) \in S
  BY LeastOfNumbers DEF First

(* What every function keeps of a queue that it makes of another.          *)
Kept(q, r) ==
  /\ r \in Queues /\ q.finished \subseteq r.finished
  /\ (q.over => q.finished = Streams) => (r.over => r.finished = Streams)

Same(q, r) ==
  /\ r.tb = q.tb /\ r.fifo = q.fifo /\ r.frames_sent = q.frames_sent

LEMMA FinishKeeps ==
  ASSUME NEW q \in Queues, NEW s \in Streams
  PROVE  LET r == finish_stream(q, s)
         IN /\ Kept(q, r) /\ Same(q, r) /\ s \in r.finished /\ (q.over => r.over)
            /\ r.head_ts = q.head_ts /\ r.head_stream = q.head_stream
  <1> DEFINE ends == s \in limiting /\ Known(q, s)
             first == IF ends /\ (q.head_finished_stream = NoStream
                                    \/ Before(q, s, q.head_finished_stream))
                        THEN s ELSE q.head_finished_stream
             ahead == {t \in Streams \ {first} : Known(q, t) /\ ~Before(q, t, first)}
             done == q.finished \union {s} \union (IF ends THEN ahead ELSE {})
  <1>1. first \in Streams \union {NoStream}
    BY DEF Queues
  <1>2. done \in SUBSET Streams /\ q.finished \subseteq done /\ s \in done
    BY DEF Queues
  <1>3. finish_stream(q, s) = [q EXCEPT !.finished = done, !.head_finished_stream = first,
                                        !.over = q.over \/ done = Streams]
    BY Zenon DEF finish_stream
  <1>4. (q.over \/ done = Streams) \in BOOLEAN
    BY Zenon DEF Queues
  <1> HIDE DEF first, done
  <1>5. finish_stream(q, s) \in Queues
    BY <1>1, <1>2, <1>3, <1>4 DEF Queues
  <1>6. /\ finish_stream(q, s).finished = done
        /\ finish_stream(q, s).over = (q.over \/ done = Streams)
        /\ finish_stream(q, s).head_ts = q.head_ts
        /\ finish_stream(q, s).head_stream = q.head_stream
        /\ Same(q, finish_stream(q, s))
    BY <1>3 DEF Queues, Same
  <1>7. (q.over => q.finished = Streams)
          => (finish_stream(q, s).over => finish_stream(q, s).finished = Streams)
    BY <1>2, <1>6
  <1> QED BY <1>2, <1>5, <1>6, <1>7 DEF Kept

LEMMA HeadKeeps ==
  ASSUME NEW q \in Queues, limiting \subseteq Streams
  PROVE  LET r == queue_head_update(q)
         IN /\ Kept(q, r) /\ Same(q, r) /\ r.head_ts = q.head_ts /\ r.finished = q.finished
            /\ r.over = q.over
  <1> DEFINE begin == IF q.head_stream = NoStream THEN 1 ELSE q.head_stream
             known == {s \in limiting : Known(q, s)}
             least == {s \in known : Before(q, s, begin) /\ \A t \in known : ~Before(q, t, s)}
             head == IF least = {} THEN begin ELSE First(least)
  <1>1. least # {} => First(least) \in Streams
    <2>1. least \subseteq limiting
      OBVIOUS
    <2> HIDE DEF least
    <2>2. least \subseteq Streams /\ least \in SUBSET Nat
      BY <2>1 DEF Streams
    <2> QED BY <2>2, FirstIsMember
  <1>2. head \in Streams
    BY <1>1 DEF Queues, Streams
  <1>3. \/ queue_head_update(q) = q
        \/ queue_head_update(q) = [q EXCEPT !.head_stream = head]
    BY Zenon DEF queue_head_update
  <1> HIDE DEF head
  <1> QED BY <1>2, <1>3 DEF Queues, Kept, Same

LEMMA UpdateKeeps ==
  ASSUME NEW q \in Queues, limiting \subseteq Streams, NEW s \in Streams,
         NEW ts \in Nat \union {NOPTS}
  PROVE  LET r == stream_update_ts(q, s, ts)
         IN Kept(q, r) /\ Same(q, r)
  <1> DEFINE moved == [q EXCEPT !.head_ts = [q.head_ts EXCEPT ![s] = ts]]
             late == q.head_finished_stream # NoStream /\ ~Before(moved, s, q.head_finished_stream)
             kept == IF late THEN finish_stream(moved, s) ELSE moved
  <1>1. /\ moved \in Queues /\ Same(q, moved)
        /\ moved.finished = q.finished /\ moved.over = q.over
    BY DEF Queues, Same
  <1> HIDE DEF moved
  <1>2. Kept(q, kept) /\ Same(q, kept)
    BY <1>1, FinishKeeps DEF Kept, Same
  <1>3. stream_update_ts(q, s, ts) \in {q, kept, queue_head_update(kept)}
    BY Zenon DEF stream_update_ts, moved
  <1> HIDE DEF kept
  <1>4. /\ Kept(q, queue_head_update(kept)) /\ Same(q, queue_head_update(kept))
    BY <1>2, HeadKeeps DEF Kept, Same
  <1>5. Kept(q, q) /\ Same(q, q)
    BY DEF Kept, Same
  <1> QED BY <1>2, <1>3, <1>4, <1>5

(* sq_send: the frame is at the end of its stream and counted, and if it   *)
(* is the last that may be, the stream is finished.                        *)
LEMMA SendKeeps ==
  ASSUME NEW q \in Queues, limiting \subseteq Streams, NEW s \in Streams, NEW ts \in Timestamps
  PROVE  LET r == sq_send(q, s, ts)
         IN /\ Kept(q, r) /\ r.tb = q.tb
            /\ r.fifo = [q.fifo EXCEPT ![s] = Append(q.fifo[s], ts)]
            /\ r.frames_sent = [q.frames_sent EXCEPT ![s] = q.frames_sent[s] + 1]
            /\ s \in DOMAIN FramesMax /\ r.frames_sent[s] >= FramesMax[s] => s \in r.finished
  <1> DEFINE written == [q EXCEPT !.fifo = [q.fifo EXCEPT ![s] = Append(q.fifo[s], ts)]]
             told == stream_update_ts(written, s, ts)
             sent == [told.frames_sent EXCEPT ![s] = told.frames_sent[s] + 1]
             counted == [told EXCEPT !.frames_sent = sent]
  <1>0. ts \in Nat \union {NOPTS}
    BY DEF Timestamps
  <1>1. /\ written \in Queues /\ written.finished = q.finished /\ written.over = q.over
        /\ written.tb = q.tb /\ written.frames_sent = q.frames_sent
        /\ written.fifo = [q.fifo EXCEPT ![s] = Append(q.fifo[s], ts)]
    <2>1. Append(q.fifo[s], ts) \in Seq(Nat \union {NOPTS})
      BY <1>0 DEF Queues
    <2>2. [q.fifo EXCEPT ![s] = Append(q.fifo[s], ts)] \in [Streams -> Seq(Nat \union {NOPTS})]
      BY <2>1 DEF Queues
    <2> QED BY <2>2 DEF Queues
  <1> HIDE DEF written
  <1>2. Kept(written, told) /\ Same(written, told)
    BY <1>0, <1>1, UpdateKeeps
  <1> HIDE DEF told
  <1>3. /\ counted \in Queues /\ counted.finished = told.finished /\ counted.over = told.over
        /\ counted.tb = told.tb /\ counted.fifo = told.fifo
        /\ counted.frames_sent = sent
    <2>1. told \in Queues
      BY <1>2 DEF Kept
    <2>2. told.frames_sent \in [Streams -> Nat]
      BY <2>1 DEF Queues
    <2>3. sent \in [Streams -> Nat]
      BY <2>2
    <2> HIDE DEF sent
    <2> QED BY <2>1, <2>3 DEF Queues
  <1> HIDE DEF counted
  <1>4. Kept(q, counted)
    BY <1>1, <1>2, <1>3 DEF Kept
  <1>5. Kept(q, finish_stream(counted, s)) /\ Same(counted, finish_stream(counted, s))
        /\ s \in finish_stream(counted, s).finished
    BY <1>3, <1>4, FinishKeeps DEF Kept
  <1>6. sq_send(q, s, ts) = IF s \in DOMAIN FramesMax /\ counted.frames_sent[s] >= FramesMax[s]
                              THEN finish_stream(counted, s) ELSE counted
    BY Zenon DEF sq_send, counted, told, written
  <1> QED BY <1>1, <1>2, <1>3, <1>4, <1>5, <1>6 DEF Same

(* av_rescale_q from a coarser time base loses nothing.                    *)
LEMMA RescaleIsNat ==
  ASSUME NEW ts \in Nat, NEW from \in Nat \ {0}, NEW to \in Nat \ {0}
  PROVE  rescale(ts, from, to) \in Nat
  <1> DEFINE a == 2 * ts * from + to
             b == 2 * to
  <1>1. ts * from \in Nat
    OBVIOUS
  <1>2. a \in Nat /\ b \in Nat \ {0}
    BY <1>1
  <1> HIDE DEF a, b
  <1>3. a \div b \in Nat
    BY <1>2
  <1> QED BY <1>3 DEF rescale, a, b

LEMMA RescaleIsExact ==
  ASSUME NEW ts \in Nat, NEW from \in Nat \ {0}, NEW to \in Nat \ {0}, from % to = 0
  PROVE  rescale(ts, from, to) * to = ts * from
  <1>1. PICK k \in Nat : from = k * to
    <2>1. from \div to \in Nat
      OBVIOUS
    <2>2. from = (from \div to) * to
      OBVIOUS
    <2> QED BY <2>1, <2>2
  <1> DEFINE n == ts * k
  <1>2. n \in Nat /\ ts * from = n * to
    BY <1>1
  <1> HIDE DEF n
  <1>3. rescale(ts, from, to) = (2 * (n * to) + to) \div (2 * to)
    BY <1>2 DEF rescale
  <1>4. 2 * (n * to) + to = n * (2 * to) + to /\ to < 2 * to /\ 2 * to > 0
    BY <1>2
  <1>5. (n * (2 * to) + to) \div (2 * to) = n
    BY <1>2, <1>4
  <1> QED BY <1>2, <1>3, <1>4, <1>5

(***************************************************************************)
(* The steps.                                                              *)
(***************************************************************************)

LEMMA InvInit == Init => Inv
  <1> SUFFICES ASSUME Init PROVE Inv
    OBVIOUS
  <1>1. sq \in Queues
    <2> DEFINE none == {s \in DOMAIN FramesMax : FramesMax[s] = 0}
    <2>1. none \in SUBSET Streams /\ (none = Streams) \in BOOLEAN
      OBVIOUS
    <2>2. /\ sq.tb \in [Streams -> Nat \ {0}] /\ sq.finished = none
          /\ sq.over = (none = Streams)
      BY DEF Init
    <2> HIDE DEF none
    <2>3. [s \in Streams |-> <<>>] \in [Streams -> Seq(Nat \union {NOPTS})]
      OBVIOUS
    <2> QED BY <2>1, <2>2, <2>3 DEF Init, Queues
  <1>2. SyncTypeOK
    <2>1. NoBeat \in [stream: Streams, ts: Nat, next: Streams]
      BY DEF NoBeat, Streams
    <2> QED BY <1>1, <2>1 DEF Init, SyncTypeOK
  <1>3. Times
    BY DEF Init, Times
  <1>4. Limits
    BY DEF Init, Limits
  <1>5. OverMeansAll
    BY DEF Init, OverMeansAll
  <1>6. EndsStay
    BY DEF Init, EndsStay
  <1> QED BY <1>2, <1>3, <1>4, <1>5, <1>6 DEF Inv

(* The end of a stream is sent.                                            *)
LEMMA FinishInv ==
  ASSUME Inv, NEW s \in Streams, sq' = finish_stream(sq, s), at' \in {"receive", "idle"},
         asked' \in Streams \union {NoStream},
         UNCHANGED <<limiting, reader, timed, beat, outTime, ended>>
  PROVE  Inv' /\ \A t \in ended : sq'.fifo[t] = sq.fifo[t]
  <1>1. /\ Kept(sq, sq') /\ Same(sq, sq') /\ (sq.over => sq'.over)
        /\ sq'.head_ts = sq.head_ts /\ sq'.head_stream = sq.head_stream
    BY FinishKeeps DEF Inv, SyncTypeOK
  <1>2. SyncTypeOK'
    BY <1>1 DEF Inv, SyncTypeOK, Kept
  <1>3. Times' /\ Limits' /\ OverMeansAll'
    BY <1>1 DEF Inv, Times, Limits, OverMeansAll, Kept, Same
  <1>4. \A t : Ready(sq', t) = Ready(sq, t)
    BY <1>1, Zenon DEF Ready, Same
  <1>5. EndsStay'
    BY <1>1, <1>4 DEF Inv, EndsStay, Kept, Same
  <1> QED BY <1>1, <1>2, <1>3, <1>5 DEF Inv, Same

LEMMA SendInv ==
  ASSUME Inv, NEW s \in Streams, NEW ts \in Timestamps, sendFrame(s, ts)
  PROVE  Inv' /\ \A t \in ended : sq'.fifo[t] = sq.fifo[t]
  <1>1. /\ s \in timed /\ at' = "receive" /\ asked' \in Streams \union {NoStream}
        /\ UNCHANGED <<limiting, reader, timed, beat, outTime, ended>>
    BY DEF sendFrame, Inv, SyncTypeOK
  <1>2. CASE s \in sq.finished
    <2>1. sq' = sq
      BY <1>2 DEF sendFrame
    <2> QED BY <1>1, <2>1 DEF Inv, SyncTypeOK, Times, Limits, OverMeansAll, EndsStay, Ready
  <1>3. CASE s \notin sq.finished
    <2>1. sq' = sq_send(sq, s, ts)
      BY <1>3 DEF sendFrame
    <2>2. /\ Kept(sq, sq') /\ sq'.tb = sq.tb
          /\ sq'.fifo = [sq.fifo EXCEPT ![s] = Append(sq.fifo[s], ts)]
          /\ sq'.frames_sent = [sq.frames_sent EXCEPT ![s] = sq.frames_sent[s] + 1]
          /\ s \in DOMAIN FramesMax /\ sq'.frames_sent[s] >= FramesMax[s] => s \in sq'.finished
      <3>1. sq \in Queues /\ limiting \subseteq Streams
        BY DEF Inv, SyncTypeOK
      <3>2. LET q == sq_send(sq, s, ts)
            IN /\ Kept(sq, q) /\ q.tb = sq.tb
               /\ q.fifo = [sq.fifo EXCEPT ![s] = Append(sq.fifo[s], ts)]
               /\ q.frames_sent = [sq.frames_sent EXCEPT ![s] = sq.frames_sent[s] + 1]
               /\ s \in DOMAIN FramesMax /\ q.frames_sent[s] >= FramesMax[s] => s \in q.finished
        BY <3>1, SendKeeps, Zenon
      <3> QED BY <2>1, <3>2, Zenon
    <2>3. SyncTypeOK'
      BY <1>1, <2>2 DEF Inv, SyncTypeOK, Kept
    <2>4. \A t \in Streams \ {s} : sq'.fifo[t] = sq.fifo[t]
                                   /\ sq'.frames_sent[t] = sq.frames_sent[t]
      BY <2>2 DEF Inv, SyncTypeOK, Queues
    <2>5. Times'
      BY <1>1, <2>2, <2>4 DEF Inv, Times
    <2>6. Limits'
      <3> SUFFICES ASSUME NEW t \in DOMAIN FramesMax
                   PROVE  \/ sq'.frames_sent[t] < FramesMax[t]
                          \/ sq'.frames_sent[t] = FramesMax[t] /\ t \in sq'.finished
        BY DEF Limits
      <3>1. CASE t = s
        <4>1. sq.frames_sent[s] < FramesMax[s] /\ sq.frames_sent[s] \in Nat /\ FramesMax[s] \in Nat
          BY <1>3, <3>1 DEF Inv, Limits, SyncTypeOK, Queues
        <4>2. sq'.frames_sent[s] = sq.frames_sent[s] + 1
          BY <2>2 DEF Inv, SyncTypeOK, Queues
        <4> QED BY <2>2, <3>1, <4>1, <4>2
      <3>2. CASE t # s
        BY <2>2, <2>4, <3>2 DEF Inv, Limits, Kept
      <3> QED BY <3>1, <3>2
    <2>7. OverMeansAll'
      BY <2>2 DEF Inv, OverMeansAll, Kept
    <2>8. \A t \in ended : t # s /\ sq.fifo[t] = <<>> /\ t \in sq.finished
      BY <1>3 DEF Inv, EndsStay, OverMeansAll
    <2>9. \A t \in ended : sq'.fifo[t] = sq.fifo[t]
      BY <2>4, <2>8 DEF Inv, SyncTypeOK
    <2>10. EndsStay'
      BY <1>1, <2>2, <2>8, <2>9 DEF EndsStay, Kept
    <2> QED BY <2>3, <2>5, <2>6, <2>7, <2>9, <2>10 DEF Inv
  <1> QED BY <1>2, <1>3

(* A heartbeat moves no stream once all are finished.                      *)
LEMMA BeatInv ==
  ASSUME Inv, fakeTimestamp
  PROVE  Inv' /\ \A t \in ended : sq'.fifo[t] = sq.fifo[t]
  <1> DEFINE s == beat.next
             ts == rescale(beat.ts, sq.tb[beat.stream], sq.tb[s])
             fake == IF Known(sq, s) /\ sq.head_ts[s] + 1 > ts THEN sq.head_ts[s] + 1 ELSE ts
  <1>1. s \in Streams /\ beat.stream \in Streams /\ beat.ts \in Nat /\ sq \in Queues
        /\ limiting \subseteq Streams
    BY DEF Inv, SyncTypeOK
  <1>2. sq' = sq \/ (s \notin sq.finished /\ sq' = stream_update_ts(sq, s, fake))
    BY Zenon DEF fakeTimestamp
  <1>3. fake \in Nat \union {NOPTS}
    <2>1. sq.tb[beat.stream] \in Nat \ {0} /\ sq.tb[s] \in Nat \ {0}
      BY <1>1 DEF Queues
    <2>2. ts \in Nat
      BY <1>1, <2>1, RescaleIsNat
    <2>3. Known(sq, s) => sq.head_ts[s] + 1 \in Nat
      <3>1. sq.head_ts[s] \in Nat \union {NOPTS}
        BY <1>1 DEF Queues
      <3> QED BY <3>1 DEF Known
    <2> HIDE DEF ts
    <2> QED BY <2>2, <2>3
  <1> HIDE DEF fake
  <1>4. Kept(sq, sq') /\ Same(sq, sq')
    <2>1. Kept(sq, sq) /\ Same(sq, sq)
      BY <1>1 DEF Kept, Same
    <2> HIDE DEF s
    <2> QED BY <1>1, <1>2, <1>3, <2>1, UpdateKeeps
  <1>5. /\ UNCHANGED <<limiting, reader, timed, asked, outTime, ended>>
        /\ at' \in {"again", "beat"}
    BY DEF fakeTimestamp
  <1>6. beat' \in [stream: Streams, ts: Nat, next: Streams]
    <2>1. NoBeat \in [stream: Streams, ts: Nat, next: Streams]
      BY DEF NoBeat, Streams
    <2>2. s # NStreams => [beat EXCEPT !.next = s + 1] \in [stream: Streams, ts: Nat, next: Streams]
      BY DEF Inv, SyncTypeOK, Streams
    <2> QED BY <2>1, <2>2 DEF fakeTimestamp
  <1>7. SyncTypeOK'
    BY <1>4, <1>5, <1>6 DEF Inv, SyncTypeOK, Kept
  <1>8. Times' /\ Limits' /\ OverMeansAll'
    BY <1>4, <1>5 DEF Inv, Times, Limits, OverMeansAll, Kept, Same
  <1>9. EndsStay'
    <2>1. CASE sq.over
      <3>1. sq' = sq
        BY <1>1, <1>2, <2>1 DEF Inv, OverMeansAll
      <3> QED BY <3>1, <1>5 DEF Inv, EndsStay, Ready
    <2>2. CASE ~sq.over
      BY <1>4, <1>5, <2>2 DEF Inv, EndsStay, Kept, Same
    <2> QED BY <2>1, <2>2
  <1> QED BY <1>4, <1>7, <1>8, <1>9 DEF Inv, Same

LEMMA ReceiveInv ==
  ASSUME Inv, receiveFrame
  PROVE  Inv' /\ \A t \in ended : sq'.fifo[t] = sq.fifo[t]
  <1> DEFINE ready == {t \in Asked : Ready(sq, t)}
             s == First(ready)
             rest == [sq.fifo EXCEPT ![s] = Tail(sq.fifo[s])]
  <1>1. s \in Streams /\ Ready(sq, s)
    <2>1. ready # {} /\ Asked \subseteq Streams
      BY DEF receiveFrame, Asked, Inv, SyncTypeOK
    <2>2. ready \in SUBSET Nat /\ ready \subseteq Asked
      <3>1. ready \subseteq Asked
        OBVIOUS
      <3> HIDE DEF ready
      <3> QED BY <2>1, <3>1 DEF Streams
    <2>3. s \in ready
      BY <2>1, <2>2, FirstIsMember
    <2> QED BY <2>1, <2>3
  <1>2. /\ sq' = [sq EXCEPT !.fifo = rest] /\ at' = "receive"
        /\ UNCHANGED <<limiting, reader, timed, asked, beat, ended>>
    BY Zenon DEF receiveFrame
  <1>3. outTime' \in [Streams -> Nat]
    <2>1. \/ outTime' = outTime
          \/ /\ Head(sq.fifo[s]) # NOPTS
             /\ outTime' = [outTime EXCEPT ![s] = Head(sq.fifo[s]) * sq.tb[s]]
      BY Zenon DEF receiveFrame
    <2> HIDE DEF s
    <2>2. sq.fifo[s] \in Seq(Nat \union {NOPTS}) /\ sq.fifo[s] # <<>> /\ sq.tb[s] \in Nat
      BY <1>1 DEF Inv, SyncTypeOK, Queues, Ready
    <2>3. Head(sq.fifo[s]) # NOPTS => Head(sq.fifo[s]) * sq.tb[s] \in Nat
      BY <2>2
    <2> QED BY <2>1, <2>3 DEF Inv, SyncTypeOK
  <1> HIDE DEF s
  <1>4. rest \in [Streams -> Seq(Nat \union {NOPTS})]
    <2>1. Tail(sq.fifo[s]) \in Seq(Nat \union {NOPTS})
      <3>1. sq.fifo[s] \in Seq(Nat \union {NOPTS})
        BY <1>1 DEF Inv, SyncTypeOK, Queues
      <3>2. sq.fifo[s] # <<>>
        BY ONLY <1>1 DEF Ready
      <3> QED BY ONLY <3>1, <3>2
    <2> QED BY <2>1 DEF Inv, SyncTypeOK, Queues
  <1>5. \A t \in Streams \ {s} : rest[t] = sq.fifo[t]
    BY DEF Inv, SyncTypeOK, Queues
  <1> HIDE DEF rest
  <1>6. /\ sq' \in Queues /\ sq'.fifo = rest /\ sq'.tb = sq.tb /\ sq'.head_ts = sq.head_ts
        /\ sq'.head_stream = sq.head_stream /\ sq'.finished = sq.finished /\ sq'.over = sq.over
        /\ sq'.frames_sent = sq.frames_sent
    BY <1>2, <1>4 DEF Inv, SyncTypeOK, Queues
  <1>7. SyncTypeOK'
    BY <1>2, <1>3, <1>6 DEF Inv, SyncTypeOK
  <1>8. Times'
    <2>1. s \in timed
      BY <1>1 DEF Inv, Times, Ready
    <2> QED BY <1>2, <1>5, <1>6, <2>1 DEF Inv, Times
  <1>9. Limits' /\ OverMeansAll'
    BY <1>6 DEF Inv, Limits, OverMeansAll
  <1>10. \A t \in ended : t \in Streams /\ t # s /\ sq'.fifo[t] = sq.fifo[t]
    BY <1>1, <1>5, <1>6 DEF Inv, SyncTypeOK, EndsStay, Ready
  <1>11. \A t \in ended : Ready(sq', t) = Ready(sq, t)
    BY <1>6, <1>10, Zenon DEF Ready
  <1>12. EndsStay'
    BY <1>2, <1>6, <1>10, <1>11 DEF Inv, EndsStay
  <1> QED BY <1>7, <1>8, <1>9, <1>10, <1>12 DEF Inv

LEMMA SetTbInv ==
  ASSUME Inv, NEW s \in Streams, sq_set_tb(s)
  PROVE  Inv' /\ \A t \in ended : sq'.fifo[t] = sq.fifo[t]
  <1> DEFINE ts == IF Known(sq, s) THEN rescale(sq.head_ts[s], sq.tb[s], Tick[s]) ELSE NOPTS
             heads == [sq.head_ts EXCEPT ![s] = ts]
             bases == [sq.tb EXCEPT ![s] = Tick[s]]
  <1>1. /\ s \notin timed /\ timed' = timed \union {s}
        /\ sq' = [sq EXCEPT !.head_ts = heads, !.tb = bases]
        /\ UNCHANGED <<limiting, reader, at, asked, beat, outTime, ended>>
    BY Zenon DEF sq_set_tb
  <1>2. /\ sq \in Queues /\ sq.tb[s] = DefaultTick /\ sq.fifo[s] = <<>>
        /\ sq.head_ts[s] \in Nat \union {NOPTS}
    BY <1>1 DEF Inv, SyncTypeOK, Times, Queues
  <1>3. Tick[s] \in Nat \ {0} /\ DefaultTick \in Nat \ {0} /\ DefaultTick % Tick[s] = 0
    OBVIOUS
  <1>4. /\ ts \in Nat \union {NOPTS}
        /\ sq.head_ts[s] # NOPTS => ts * Tick[s] = sq.head_ts[s] * sq.tb[s]
        /\ sq.head_ts[s] = NOPTS => ts = NOPTS
    <2>1. CASE sq.head_ts[s] = NOPTS
      BY <2>1 DEF Known
    <2>2. CASE sq.head_ts[s] # NOPTS
      <3>1. ts = rescale(sq.head_ts[s], DefaultTick, Tick[s]) /\ sq.head_ts[s] \in Nat
        BY <1>2, <2>2 DEF Known
      <3> HIDE DEF ts
      <3>2. ts \in Nat
        BY <1>3, <3>1, RescaleIsNat
      <3>3. ts * Tick[s] = sq.head_ts[s] * DefaultTick
        BY <1>3, <3>1, RescaleIsExact
      <3> QED BY <1>2, <2>2, <3>2, <3>3
    <2> QED BY <2>1, <2>2
  <1> HIDE DEF ts
  <1>5. /\ heads \in [Streams -> Nat \union {NOPTS}] /\ bases \in [Streams -> Nat \ {0}]
        /\ heads[s] = ts /\ bases[s] = Tick[s]
        /\ \A t \in Streams \ {s} : heads[t] = sq.head_ts[t] /\ bases[t] = sq.tb[t]
    BY <1>2, <1>3, <1>4 DEF Queues
  <1> HIDE DEF heads, bases
  <1>6. /\ sq' \in Queues /\ sq'.fifo = sq.fifo /\ sq'.tb = bases /\ sq'.head_ts = heads
        /\ sq'.head_stream = sq.head_stream /\ sq'.finished = sq.finished /\ sq'.over = sq.over
        /\ sq'.frames_sent = sq.frames_sent
    BY <1>1, <1>2, <1>5 DEF Queues
  <1>7. SyncTypeOK'
    BY <1>1, <1>6 DEF Inv, SyncTypeOK
  <1>8. Times'
    BY <1>1, <1>2, <1>5, <1>6 DEF Inv, Times
  <1>9. Limits' /\ OverMeansAll'
    BY <1>6 DEF Inv, Limits, OverMeansAll
  <1>10. ASSUME NEW t \in ended, sq.fifo[t] # <<>>, ~Ready(sq, t) PROVE ~Ready(sq', t)
    <2>1. t \in Streams /\ t # s
      BY <1>2, <1>10 DEF Inv, SyncTypeOK
    <2>2. sq'.fifo[t] = sq.fifo[t] /\ sq'.tb[t] = sq.tb[t] /\ sq'.head_stream = sq.head_stream
      BY <1>5, <1>6, <2>1
    <2> DEFINE h == sq.head_stream
               x == Head(sq.fifo[t])
    <2>3. CASE h = s
      <3>1. SUFFICES ASSUME Ready(sq', t) PROVE FALSE
        OBVIOUS
      <3>2. x # NOPTS /\ h # NoStream /\ x * sq.tb[t] <= ts * Tick[s]
        BY <1>5, <1>6, <1>10, <2>2, <2>3, <3>1 DEF Ready
      <3>3. x \in Nat /\ sq.tb[t] \in Nat \ {0}
        BY <1>2, <1>10, <2>1, <3>2 DEF Queues
      <3> HIDE DEF x
      <3>4. x * sq.tb[t] \in Nat
        BY <3>3
      <3>5. sq.head_ts[s] # NOPTS
        <4>1. NOPTS * Tick[s] \in Int /\ NOPTS * Tick[s] < 0
          BY <1>3 DEF NOPTS
        <4>2. SUFFICES ASSUME ts = NOPTS PROVE FALSE
          BY <1>4
        <4>3. x * sq.tb[t] <= NOPTS * Tick[s]
          BY <3>2, <4>2 DEF x
        <4> QED BY <3>4, <4>1, <4>3
      <3>6. x * sq.tb[t] <= sq.head_ts[s] * sq.tb[s]
        BY <1>4, <3>2, <3>5
      <3> QED BY <1>10, <2>3, <3>2, <3>6 DEF Ready, x
    <2>4. CASE h # s
      <3>1. h # NoStream => h \in Streams \ {s}
        BY <1>2, <2>4 DEF Queues
      <3>2. h # NoStream => sq'.head_ts[h] = sq.head_ts[h] /\ sq'.tb[h] = sq.tb[h]
        BY <1>5, <1>6, <3>1
      <3> QED BY <1>10, <2>2, <3>2, Zenon DEF Ready
    <2> QED BY <2>3, <2>4
  <1>11. EndsStay'
    BY <1>1, <1>6, <1>10 DEF Inv, EndsStay
  <1> QED BY <1>6, <1>7, <1>8, <1>9, <1>11 DEF Inv

LEMMA LookInv ==
  ASSUME Inv, receiveEnd \/ overflow_heartbeat \/ tryAgainLater
  PROVE  Inv' /\ sq' = sq
  <1>1. UNCHANGED <<limiting, reader, sq, timed, asked, outTime>>
    BY DEF receiveEnd, overflow_heartbeat, tryAgainLater
  <1>2. ended \subseteq ended' /\ ended' \subseteq Streams
        /\ \A t \in ended' \ ended : t \in Streams /\ AtEnd(sq, t)
    BY DEF receiveEnd, overflow_heartbeat, tryAgainLater, Asked, Inv, SyncTypeOK
  <1>3. EndsStay'
    BY <1>1, <1>2 DEF Inv, EndsStay, AtEnd, OverMeansAll, Ready
  <1>4. beat' \in [stream: Streams, ts: Nat, next: Streams] /\ at' \in {"idle", "beat"}
    <2>1. CASE overflow_heartbeat
      <3>1. PICK s \in Chosen : /\ Overflows(sq, s)
                               /\ beat' = [stream |-> s, ts |-> tail_ts(sq, s) + 1, next |-> 1]
        BY <2>1 DEF overflow_heartbeat
      <3>2. s \in Streams /\ 1 \in Streams
        BY <3>1 DEF Chosen, MostAhead, Inv, SyncTypeOK, Streams
      <3>3. tail_ts(sq, s) \in Nat
        <4>1. Timed(sq, s) # {} /\ Timed(sq, s) \in SUBSET Nat
          BY <3>1 DEF Overflows, Timed
        <4>2. First(Timed(sq, s)) \in Timed(sq, s)
          BY <4>1, FirstIsMember
        <4>3. sq.fifo[s] \in Seq(Nat \union {NOPTS})
          BY <3>2 DEF Inv, SyncTypeOK, Queues
        <4>4. PICK i \in 1..Len(sq.fifo[s]) : i = First(Timed(sq, s)) /\ sq.fifo[s][i] # NOPTS
          BY <4>2 DEF Timed
        <4>5. sq.fifo[s][i] \in Nat \union {NOPTS}
          BY <4>3, <4>4
        <4> QED BY <4>4, <4>5 DEF tail_ts
      <3> QED BY <2>1, <3>1, <3>2, <3>3 DEF overflow_heartbeat
    <2>2. CASE receiveEnd \/ tryAgainLater
      BY <2>2 DEF receiveEnd, tryAgainLater, Inv, SyncTypeOK
    <2> QED BY <2>1, <2>2
  <1>5. SyncTypeOK'
    BY <1>1, <1>2, <1>4 DEF Inv, SyncTypeOK
  <1>6. Times' /\ Limits' /\ OverMeansAll'
    BY <1>1 DEF Inv, Times, Limits, OverMeansAll
  <1> QED BY <1>1, <1>3, <1>5, <1>6 DEF Inv

LEMMA InvStep ==
  ASSUME Inv, [Next]_vars
  PROVE  Inv' /\ \A t \in ended : sq'.fifo[t] = sq.fifo[t]
  <1>1. ASSUME NEW s \in Streams, sendEnd(s) \/ close_output_stream(s)
        PROVE  Inv' /\ \A t \in ended : sq'.fifo[t] = sq.fifo[t]
    <2>1. /\ sq' = finish_stream(sq, s) /\ at' \in {"receive", "idle"}
          /\ asked' \in Streams \union {NoStream}
          /\ UNCHANGED <<limiting, reader, timed, beat, outTime, ended>>
      BY <1>1 DEF sendEnd, close_output_stream, Inv, SyncTypeOK
    <2> QED BY <2>1, FinishInv
  <1>2. CASE UNCHANGED vars
    BY <1>2 DEF vars, Inv, SyncTypeOK, Times, Limits, OverMeansAll, EndsStay, Ready
  <1>3. CASE receiveEnd \/ overflow_heartbeat \/ tryAgainLater
    BY <1>3, LookInv
  <1> QED BY <1>1, <1>2, <1>3, ReceiveInv, BeatInv, SetTbInv, SendInv DEF Next

LEMMA InvAlways == Spec => []Inv
  BY InvInit, InvStep, PTL DEF Spec

(***************************************************************************)
(* The head of the queue.                                                  *)
(***************************************************************************)

(* HeadIsLeast of a queue, and that there is a head as soon as there can   *)
(* be.                                                                     *)
Led(q) ==
  /\ q.head_stream # NoStream =>
       \/ /\ q.head_stream \in limiting
          /\ \A l \in limiting : Known(q, l) /\ ~Before(q, l, q.head_stream)
       \/ q.head_stream = 1 /\ 1 \notin limiting
  /\ limiting # {} /\ (\A l \in limiting : Known(q, l)) => q.head_stream # NoStream

Time(q, s) == q.head_ts[s] * q.tb[s]

LEMMA TimesAreOrdered ==
  ASSUME NEW q \in Queues, NEW s \in Streams, NEW t \in Streams
  PROVE  /\ Time(q, s) \in Int /\ (Known(q, s) => Time(q, s) \in Nat)
         /\ Before(q, s, t) <=> Time(q, s) < Time(q, t)
  <1>1. q.head_ts[s] \in Nat \union {NOPTS} /\ q.tb[s] \in Nat
    BY DEF Queues
  <1>2. q.head_ts[s] \in Int /\ (Known(q, s) => q.head_ts[s] \in Nat)
    BY <1>1 DEF Known, NOPTS
  <1>3. Time(q, s) \in Int /\ (Known(q, s) => Time(q, s) \in Nat)
    BY <1>1, <1>2 DEF Time
  <1>4. Before(q, s, t) <=> Time(q, s) < Time(q, t)
    BY DEF Before, Time
  <1> QED BY <1>3, <1>4

LEMMA LeastExists ==
  ASSUME NEW q \in Queues, NEW S \in SUBSET Streams, S # {}, \A s \in S : Known(q, s)
  PROVE  \E s \in S : \A t \in S : ~Before(q, t, s)
  <1> DEFINE times == {Time(q, s) : s \in S}
  <1>1. times \in SUBSET Nat /\ times # {}
    BY TimesAreOrdered
  <1> HIDE DEF times
  <1>2. First(times) \in times /\ \A x \in times : First(times) <= x
    <2>1. First(times) \in times
      BY <1>1, FirstIsMember
    <2>2. \E m \in times : \A x \in times : m <= x
      BY <1>1, LeastOfNumbers
    <2> QED BY <2>2 DEF First
  <1>3. PICK s \in S : First(times) = Time(q, s)
    BY <1>2 DEF times
  <1>4. \A t \in S : Time(q, s) <= Time(q, t)
    BY <1>2, <1>3 DEF times
  <1>5. \A t \in S : ~Before(q, t, s)
    BY <1>4, TimesAreOrdered
  <1> QED BY <1>5

(* queue_head_update finds the least, if the search begins at the head.    *)
LEMMA HeadLeads ==
  ASSUME NEW q \in Queues, limiting \subseteq Streams, limiting # {},
         q.head_stream # NoStream =>
           q.head_stream \in limiting /\ \A l \in limiting : Known(q, l)
  PROVE  Led(queue_head_update(q))
  <1> DEFINE r == queue_head_update(q)
             begin == IF q.head_stream = NoStream THEN 1 ELSE q.head_stream
             known == {s \in limiting : Known(q, s)}
             least == {s \in known : Before(q, s, begin) /\ \A t \in known : ~Before(q, t, s)}
             head == IF least = {} THEN begin ELSE First(least)
  <1>1. CASE q.head_stream = NoStream /\ known # limiting
    <2>1. r = q
      BY <1>1 DEF queue_head_update
    <2> QED BY <1>1, <2>1 DEF Led
  <1>2. CASE ~(q.head_stream = NoStream /\ known # limiting)
    <2>1. \A l \in limiting : Known(q, l)
      BY <1>2
    <2>2. r = [q EXCEPT !.head_stream = head]
      BY <1>2, Zenon DEF queue_head_update
    <2>3. begin \in Streams /\ (begin \in limiting \/ begin = 1)
      BY DEF Queues, Streams
    <2>4. known = limiting
      BY <2>1
    <2> HIDE DEF begin, known
    <2>5. CASE least = {}
      <3>1. \A l \in limiting : ~Before(q, l, begin)
        <4>1. SUFFICES ASSUME NEW l \in limiting, Before(q, l, begin) PROVE FALSE
          OBVIOUS
        <4>2. PICK s \in limiting : \A t \in limiting : ~Before(q, t, s)
          BY <2>1, LeastExists
        <4>3. Before(q, s, begin)
          BY <2>3, <4>1, <4>2, TimesAreOrdered
        <4> QED BY <2>4, <2>5, <4>2, <4>3
      <3>2. head = begin
        BY <2>5
      <3> HIDE DEF head, least
      <3>3. r.head_stream = begin /\ r.head_ts = q.head_ts /\ r.tb = q.tb
        BY <2>2, <3>2 DEF Queues
      <3> HIDE DEF r
      <3>4. \A l \in limiting : Known(r, l) /\ ~Before(r, l, begin)
        BY <2>1, <3>1, <3>3 DEF Known, Before
      <3>5. begin # NoStream
        BY <2>3 DEF Streams, NoStream
      <3> QED BY <2>3, <3>3, <3>4, <3>5 DEF Led, r
    <2>6. CASE least # {}
      <3>1. least \subseteq limiting /\ \A s \in least : \A t \in limiting : ~Before(q, t, s)
        BY <2>4
      <3>2. head = First(least)
        BY <2>6
      <3> HIDE DEF least, head
      <3>3. head \in least
        <4>1. least \in SUBSET Nat
          BY <3>1 DEF Streams
        <4> QED BY <2>6, <3>2, <4>1, FirstIsMember
      <3>4. r.head_stream = head /\ r.head_ts = q.head_ts /\ r.tb = q.tb
        BY <2>2 DEF Queues
      <3> HIDE DEF r
      <3>5. head \in limiting /\ \A l \in limiting : Known(r, l) /\ ~Before(r, l, head)
        BY <2>1, <3>1, <3>3, <3>4 DEF Known, Before
      <3>6. head # NoStream
        BY <3>5 DEF Streams, NoStream
      <3> QED BY <3>4, <3>5, <3>6 DEF Led, r
    <2> QED BY <2>5, <2>6
  <1> QED BY <1>1, <1>2

(* Heads only move forward.                                                *)
Grows(q, r) ==
  r.tb = q.tb /\ \A t \in Streams : q.head_ts[t] <= r.head_ts[t]

LEMMA GrowingTimes ==
  ASSUME NEW q \in Queues, NEW r \in Queues, Grows(q, r), NEW s \in Streams
  PROVE  Time(q, s) <= Time(r, s) /\ (Known(q, s) => Known(r, s))
  <1>1. /\ q.head_ts[s] \in Nat \union {NOPTS} /\ r.head_ts[s] \in Nat \union {NOPTS}
        /\ q.tb[s] \in Nat \ {0} /\ r.tb[s] = q.tb[s] /\ q.head_ts[s] <= r.head_ts[s]
    BY DEF Queues, Grows
  <1>2. Known(q, s) => Known(r, s)
    BY <1>1 DEF Known, NOPTS
  <1>3. \A a, b \in Int, n \in Nat : a <= b => a * n <= b * n
    OBVIOUS
  <1>4. q.head_ts[s] * q.tb[s] <= r.head_ts[s] * q.tb[s]
    BY <1>1, <1>3 DEF NOPTS
  <1> QED BY <1>1, <1>2, <1>4 DEF Time

LEMMA UpdateLeads ==
  ASSUME NEW q \in Queues, limiting \subseteq Streams, NEW s \in Streams,
         NEW ts \in Nat \union {NOPTS}, Led(q)
  PROVE  LET r == stream_update_ts(q, s, ts)
         IN /\ Led(r) /\ Grows(q, r) /\ (q.head_stream # NoStream => r.head_stream # NoStream)
            /\ ts = NOPTS \/ (Known(r, s) /\ ts <= r.head_ts[s])
  <1> DEFINE moved == [q EXCEPT !.head_ts = [q.head_ts EXCEPT ![s] = ts]]
             late == q.head_finished_stream # NoStream /\ ~Before(moved, s, q.head_finished_stream)
             kept == IF late THEN finish_stream(moved, s) ELSE moved
             r == stream_update_ts(q, s, ts)
  <1>0. \A t \in Streams : q.head_ts[t] \in Nat \union {NOPTS}
    BY DEF Queues
  <1>1. CASE ts = NOPTS \/ (Known(q, s) /\ q.head_ts[s] >= ts)
    <2>1. r = q
      BY <1>1, Zenon DEF stream_update_ts
    <2>2. Grows(q, q)
      BY <1>0 DEF Grows, NOPTS
    <2>3. ts = NOPTS \/ (Known(q, s) /\ ts <= q.head_ts[s])
      BY <1>0, <1>1 DEF NOPTS
    <2> QED BY <2>1, <2>2, <2>3
  <1>2. CASE ~(ts = NOPTS \/ (Known(q, s) /\ q.head_ts[s] >= ts))
    <2>1. ts \in Nat /\ q.head_ts[s] <= ts
      BY <1>0, <1>2 DEF Known, NOPTS
    <2>2. moved \in Queues /\ Grows(q, moved)
          /\ moved.head_ts[s] = ts /\ moved.head_stream = q.head_stream
          /\ \A t \in Streams \ {s} : moved.head_ts[t] = q.head_ts[t]
      <3>1. [q.head_ts EXCEPT ![s] = ts] \in [Streams -> Nat \union {NOPTS}]
        BY DEF Queues
      <3>2. moved \in Queues /\ moved.head_ts = [q.head_ts EXCEPT ![s] = ts]
            /\ moved.tb = q.tb /\ moved.head_stream = q.head_stream
        BY <3>1 DEF Queues
      <3> HIDE DEF moved
      <3>3. moved.head_ts[s] = ts /\ \A t \in Streams \ {s} : moved.head_ts[t] = q.head_ts[t]
        BY <3>2 DEF Queues
      <3>4. \A t \in Streams : q.head_ts[t] <= moved.head_ts[t]
        BY <1>0, <2>1, <3>3 DEF NOPTS
      <3> QED BY <3>2, <3>3, <3>4 DEF Grows
    <2> HIDE DEF moved
    <2>3. kept \in Queues /\ kept.head_ts = moved.head_ts /\ kept.tb = moved.tb
          /\ kept.head_stream = q.head_stream
      BY <2>2, FinishKeeps DEF Kept, Same
    <2>4. r = IF s \in limiting /\ kept.head_stream \in {NoStream, s}
                THEN queue_head_update(kept) ELSE kept
      BY <1>2, Zenon DEF stream_update_ts, moved
    <2> HIDE DEF kept
    <2>5. Grows(q, kept) /\ Known(kept, s) /\ ts <= kept.head_ts[s]
      BY <2>1, <2>2, <2>3 DEF Grows, Known, NOPTS
    <2>6. CASE s \in limiting /\ kept.head_stream \in {NoStream, s}
      <3>1. r = queue_head_update(kept)
        BY <2>4, <2>6
      <3>2. kept.head_stream # NoStream =>
              kept.head_stream \in limiting /\ \A l \in limiting : Known(kept, l)
        <4>1. SUFFICES ASSUME kept.head_stream = s, s \in limiting, q.head_stream # NoStream
                       PROVE  \A l \in limiting : Known(kept, l)
          BY <2>3, <2>6
        <4>2. \A l \in limiting : Known(q, l)
          BY <2>3, <4>1 DEF Led
        <4> QED BY <2>3, <2>5, <4>2, GrowingTimes
      <3>3. Led(r)
        BY <2>3, <2>6, <3>1, <3>2, HeadLeads
      <3>4. r.head_ts = kept.head_ts /\ r.tb = kept.tb
        BY <2>3, <3>1, HeadKeeps DEF Same
      <3>5. q.head_stream # NoStream => r.head_stream # NoStream
        <4>1. SUFFICES ASSUME q.head_stream # NoStream PROVE r.head_stream # NoStream
          OBVIOUS
        <4>2. \A l \in limiting : Known(kept, l)
          BY <2>3, <3>2, <4>1
        <4>3. \A l \in limiting : Known(r, l)
          BY <3>4, <4>2 DEF Known
        <4> QED BY <2>6, <3>3, <4>3 DEF Led
      <3> HIDE DEF r
      <3>6. Grows(q, r) /\ Known(r, s) /\ ts <= r.head_ts[s]
        BY <2>5, <3>4 DEF Grows, Known
      <3> QED BY <3>3, <3>5, <3>6 DEF r
    <2>7. CASE ~(s \in limiting /\ kept.head_stream \in {NoStream, s})
      <3>1. r = kept
        BY <2>4, <2>7
      <3>2. \A l \in Streams \ {s} : kept.head_ts[l] = q.head_ts[l] /\ kept.tb[l] = q.tb[l]
        BY <2>2, <2>3 DEF Grows
      <3>3. Led(kept)
        <4>1. CASE q.head_stream = NoStream
          <5>1. s \notin limiting
            BY <2>3, <2>7, <4>1
          <5>2. \A l \in limiting : Known(kept, l) <=> Known(q, l)
            BY <3>2, <5>1 DEF Known
          <5> QED BY <2>3, <4>1, <5>2 DEF Led
        <4>2. CASE q.head_stream # NoStream /\ q.head_stream \notin limiting
          BY <2>3, <4>2 DEF Led
        <4>3. CASE q.head_stream # NoStream /\ q.head_stream \in limiting
          <5> DEFINE h == q.head_stream
          <5>1. h # s /\ h \in Streams
            BY <2>3, <2>7, <4>3
          <5>2. Time(kept, h) = Time(q, h)
            BY <3>2, <5>1 DEF Time
          <5>3. \A l \in limiting : Known(q, l) /\ ~Before(q, l, h)
            BY <4>3 DEF Led
          <5>4. ASSUME NEW l \in limiting PROVE Known(kept, l) /\ ~Before(kept, l, h)
            <6>1. Known(kept, l) /\ Time(q, l) <= Time(kept, l)
              BY <2>3, <2>5, <5>3, GrowingTimes
            <6>2. ~(Time(q, l) < Time(q, h))
              BY <5>1, <5>3, TimesAreOrdered
            <6>3. Time(q, l) \in Int /\ Time(kept, l) \in Int /\ Time(q, h) \in Int
              BY <2>3, <5>1, TimesAreOrdered
            <6>4. ~(Time(kept, l) < Time(kept, h))
              BY <5>2, <6>1, <6>2, <6>3
            <6> QED BY <2>3, <5>1, <6>1, <6>4, TimesAreOrdered
          <5> QED BY <2>3, <4>3, <5>4 DEF Led
        <4> QED BY <4>1, <4>2, <4>3
      <3> QED BY <2>3, <2>5, <3>1, <3>3
    <2> QED BY <2>6, <2>7
  <1> QED BY <1>1, <1>2

(* A frame waits no longer than its stream has moved.                      *)
Waiting(q) ==
  \A s \in Streams : \A i \in 1..Len(q.fifo[s]) :
    q.fifo[s][i] = NOPTS \/ (Known(q, s) /\ q.fifo[s][i] <= q.head_ts[s])

(* LimitHolds, and that nothing with a time is released before there is a  *)
(* head.                                                                   *)
Released ==
  1 \in limiting =>
    \A s \in Streams :
      IF sq.head_stream = NoStream THEN outTime[s] = 0
      ELSE \A l \in limiting : outTime[s] <= Time(sq, l)

HeadInv == Led(sq) /\ Waiting(sq) /\ Released

LEMMA SendLeads ==
  ASSUME NEW q \in Queues, limiting \subseteq Streams, NEW s \in Streams, NEW ts \in Timestamps,
         Led(q), Waiting(q)
  PROVE  LET r == sq_send(q, s, ts)
         IN /\ Led(r) /\ Grows(q, r) /\ (q.head_stream # NoStream => r.head_stream # NoStream)
            /\ Waiting(r)
  <1> DEFINE written == [q EXCEPT !.fifo = [q.fifo EXCEPT ![s] = Append(q.fifo[s], ts)]]
             told == stream_update_ts(written, s, ts)
             counted == [told EXCEPT !.frames_sent =
                           [told.frames_sent EXCEPT ![s] = told.frames_sent[s] + 1]]
             r == sq_send(q, s, ts)
  <1>0. ts \in Nat \union {NOPTS}
    BY DEF Timestamps
  <1>1. /\ written \in Queues /\ written.head_ts = q.head_ts /\ written.tb = q.tb
        /\ written.head_stream = q.head_stream
        /\ written.fifo = [q.fifo EXCEPT ![s] = Append(q.fifo[s], ts)]
    <2>1. Append(q.fifo[s], ts) \in Seq(Nat \union {NOPTS})
      BY <1>0 DEF Queues
    <2>2. [q.fifo EXCEPT ![s] = Append(q.fifo[s], ts)] \in [Streams -> Seq(Nat \union {NOPTS})]
      BY <2>1 DEF Queues
    <2> QED BY <2>2 DEF Queues
  <1> HIDE DEF written
  <1>2. Led(written)
    BY <1>1 DEF Led, Known, Before
  <1>3. /\ Led(told) /\ Grows(written, told)
        /\ (written.head_stream # NoStream => told.head_stream # NoStream)
        /\ ts = NOPTS \/ (Known(told, s) /\ ts <= told.head_ts[s])
    BY <1>0, <1>1, <1>2, UpdateLeads
  <1>4. told \in Queues /\ told.fifo = written.fifo
    BY <1>0, <1>1, UpdateKeeps DEF Kept, Same
  <1> HIDE DEF told
  <1>5. /\ counted \in Queues /\ counted.head_ts = told.head_ts /\ counted.tb = told.tb
        /\ counted.fifo = told.fifo /\ counted.head_stream = told.head_stream
    <2> DEFINE sent == [told.frames_sent EXCEPT ![s] = told.frames_sent[s] + 1]
    <2>1. told.frames_sent \in [Streams -> Nat]
      BY <1>4 DEF Queues
    <2>2. sent \in [Streams -> Nat]
      BY <2>1
    <2> HIDE DEF sent
    <2>3. counted = [told EXCEPT !.frames_sent = sent]
      BY DEF sent
    <2> HIDE DEF counted
    <2> QED BY <1>4, <2>2, <2>3 DEF Queues
  <1> HIDE DEF counted
  <1>6. r = counted \/ r = finish_stream(counted, s)
    BY Zenon DEF sq_send, counted, told, written
  <1> HIDE DEF r
  <1>7. /\ r \in Queues /\ r.head_ts = told.head_ts /\ r.tb = told.tb
        /\ r.fifo = told.fifo /\ r.head_stream = told.head_stream
    BY <1>5, <1>6, FinishKeeps DEF Kept, Same
  <1>8. Led(r)
    BY <1>3, <1>7 DEF Led, Known, Before
  <1>9. Grows(q, r)
    BY <1>1, <1>3, <1>7 DEF Grows
  <1>10. Waiting(r)
    <2> SUFFICES ASSUME NEW t \in Streams, NEW i \in 1..Len(r.fifo[t])
                 PROVE  r.fifo[t][i] = NOPTS \/ (Known(r, t) /\ r.fifo[t][i] <= r.head_ts[t])
      BY DEF Waiting
    <2>1. /\ q.fifo \in [Streams -> Seq(Nat \union {NOPTS})]
          /\ q.head_ts[t] \in Nat \union {NOPTS} /\ r.head_ts[t] \in Nat \union {NOPTS}
      BY <1>7 DEF Queues
    <2>2. r.fifo = [q.fifo EXCEPT ![s] = Append(q.fifo[s], ts)]
      BY <1>1, <1>4, <1>7
    <2>3. CASE i \in 1..Len(q.fifo[t]) /\ r.fifo[t][i] = q.fifo[t][i]
      <3>1. q.fifo[t][i] = NOPTS \/ (Known(q, t) /\ q.fifo[t][i] <= q.head_ts[t])
        BY <2>3 DEF Waiting
      <3>2. q.fifo[t][i] \in Nat \union {NOPTS}
        BY <2>1, <2>3
      <3>3. Known(q, t) => Known(r, t) /\ q.head_ts[t] <= r.head_ts[t]
        BY <1>7, <1>9, GrowingTimes DEF Grows
      <3> QED BY <2>1, <2>3, <3>1, <3>2, <3>3 DEF NOPTS
    <2>4. CASE t = s /\ r.fifo[t][i] = ts
      BY <1>3, <1>7, <2>4 DEF Known
    <2>5. \/ i \in 1..Len(q.fifo[t]) /\ r.fifo[t][i] = q.fifo[t][i]
          \/ t = s /\ r.fifo[t][i] = ts
      <3>1. CASE t = s
        <4>1. q.fifo[s] \in Seq(Nat \union {NOPTS}) /\ r.fifo[s] = Append(q.fifo[s], ts)
          BY <2>1, <2>2
        <4> QED BY <3>1, <4>1
      <3>2. CASE t # s
        BY <2>1, <2>2, <3>2
      <3> QED BY <3>1, <3>2
    <2> QED BY <2>3, <2>4, <2>5
  <1> QED BY <1>1, <1>3, <1>7, <1>8, <1>9, <1>10 DEF r

(* When the streams move on, what was released stays within the limit.     *)
LEMMA ReleasedStays ==
  ASSUME Inv, Inv', Led(sq), Led(sq'), Released,
         \A t \in Streams : Known(sq, t) => Time(sq, t) <= Time(sq', t),
         sq.head_stream # NoStream => sq'.head_stream # NoStream,
         UNCHANGED <<limiting, outTime>>
  PROVE  Released'
  <1> SUFFICES ASSUME 1 \in limiting, NEW s \in Streams, sq'.head_stream # NoStream
                                                       \/ outTime[s] # 0,
                      NEW l \in limiting
               PROVE  /\ sq'.head_stream # NoStream
                      /\ outTime[s] <= Time(sq', l)
    BY DEF Released
  <1>1. l \in Streams /\ sq \in Queues /\ sq' \in Queues /\ outTime[s] \in Nat
    BY DEF Inv, SyncTypeOK
  <1>2. Time(sq, l) \in Int /\ Time(sq', l) \in Int
        /\ (Known(sq', l) => Time(sq', l) \in Nat)
    BY <1>1, TimesAreOrdered
  <1>3. CASE sq.head_stream = NoStream
    <2>1. outTime[s] = 0 /\ sq'.head_stream # NoStream
      BY <1>3 DEF Released
    <2>2. Known(sq', l)
      BY <2>1 DEF Led
    <2> QED BY <1>2, <2>1, <2>2
  <1>4. CASE sq.head_stream # NoStream
    <2>1. outTime[s] <= Time(sq, l) /\ Known(sq, l)
      BY <1>4 DEF Released, Led
    <2> QED BY <1>1, <1>2, <1>4, <2>1
  <1> QED BY <1>3, <1>4

LEMMA HeadInit == Init => HeadInv
  <1> SUFFICES ASSUME Init PROVE HeadInv
    OBVIOUS
  <1>1. /\ sq.head_stream = NoStream /\ \A s \in Streams : ~Known(sq, s) /\ sq.fifo[s] = <<>>
        /\ \A s \in Streams : outTime[s] = 0
        /\ limiting \subseteq Streams
    BY DEF Init, Known
  <1>2. Led(sq)
    BY <1>1 DEF Led
  <1>3. Waiting(sq)
    BY <1>1 DEF Waiting
  <1>4. Released
    BY <1>1 DEF Released
  <1> QED BY <1>2, <1>3, <1>4 DEF HeadInv

(* A step in which heads grow, or stay, and releases nothing.              *)
LEMMA GrowingStep ==
  ASSUME Inv, Inv', HeadInv, Led(sq'), Waiting(sq'), Grows(sq, sq'),
         sq.head_stream # NoStream => sq'.head_stream # NoStream,
         UNCHANGED <<limiting, outTime>>
  PROVE  HeadInv'
  <1>1. \A t \in Streams : Time(sq, t) <= Time(sq', t)
    BY GrowingTimes DEF Inv, SyncTypeOK
  <1>2. Released'
    BY <1>1, ReleasedStays DEF HeadInv
  <1>3. Led(sq)' /\ Waiting(sq)'
    BY DEF Led, Waiting, Known, Before, Time
  <1> QED BY <1>2, <1>3 DEF HeadInv

(* A step that leaves heads and frames alone.                              *)
LEMMA StillStep ==
  ASSUME Inv, Inv', HeadInv, sq'.head_ts = sq.head_ts, sq'.tb = sq.tb, sq'.fifo = sq.fifo,
         sq'.head_stream = sq.head_stream, UNCHANGED <<limiting, outTime>>
  PROVE  HeadInv'
  <1>1. Led(sq') /\ Waiting(sq')
    BY DEF HeadInv, Led, Waiting, Known, Before
  <1>2. \A t \in Streams : sq.head_ts[t] \in Nat \union {NOPTS}
    BY DEF Inv, SyncTypeOK, Queues
  <1>3. Grows(sq, sq')
    BY <1>2 DEF Grows, NOPTS
  <1> QED BY <1>1, <1>3, GrowingStep

LEMMA SendHead ==
  ASSUME Inv, Inv', HeadInv, NEW s \in Streams, NEW ts \in Timestamps, sendFrame(s, ts)
  PROVE  HeadInv'
  <1>1. UNCHANGED <<limiting, outTime>> /\ (sq' = sq \/ sq' = sq_send(sq, s, ts))
    BY Zenon DEF sendFrame
  <1>2. CASE sq' = sq
    BY <1>1, <1>2, StillStep
  <1>3. CASE sq' = sq_send(sq, s, ts)
    <2>1. sq \in Queues /\ limiting \subseteq Streams /\ Led(sq) /\ Waiting(sq)
      BY DEF Inv, SyncTypeOK, HeadInv
    <2>2. LET r == sq_send(sq, s, ts)
          IN /\ Led(r) /\ Grows(sq, r) /\ (sq.head_stream # NoStream => r.head_stream # NoStream)
             /\ Waiting(r)
      BY <2>1, SendLeads, Zenon
    <2>3. /\ Led(sq') /\ Grows(sq, sq') /\ Waiting(sq')
          /\ (sq.head_stream # NoStream => sq'.head_stream # NoStream)
      BY <1>3, <2>2, Zenon
    <2> QED BY <1>1, <2>3, GrowingStep
  <1> QED BY <1>1, <1>2, <1>3

LEMMA BeatHead ==
  ASSUME Inv, Inv', HeadInv, fakeTimestamp
  PROVE  HeadInv'
  <1> DEFINE s == beat.next
             ts == rescale(beat.ts, sq.tb[beat.stream], sq.tb[s])
             fake == IF Known(sq, s) /\ sq.head_ts[s] + 1 > ts THEN sq.head_ts[s] + 1 ELSE ts
  <1>1. s \in Streams /\ beat.stream \in Streams /\ beat.ts \in Nat /\ sq \in Queues
        /\ limiting \subseteq Streams
    BY DEF Inv, SyncTypeOK
  <1>2. /\ sq' = sq \/ sq' = stream_update_ts(sq, s, fake)
        /\ UNCHANGED <<limiting, outTime>>
    BY Zenon DEF fakeTimestamp
  <1>3. fake \in Nat \union {NOPTS}
    <2>1. sq.tb[beat.stream] \in Nat \ {0} /\ sq.tb[s] \in Nat \ {0}
      BY <1>1 DEF Queues
    <2>2. ts \in Nat
      BY <1>1, <2>1, RescaleIsNat
    <2>3. Known(sq, s) => sq.head_ts[s] + 1 \in Nat
      <3>1. sq.head_ts[s] \in Nat \union {NOPTS}
        BY <1>1 DEF Queues
      <3> QED BY <3>1 DEF Known
    <2> HIDE DEF ts
    <2> QED BY <2>2, <2>3
  <1> HIDE DEF fake, s
  <1>4. CASE sq' = sq
    BY <1>2, <1>4, StillStep
  <1>5. CASE sq' = stream_update_ts(sq, s, fake)
    <2>1. /\ Led(sq') /\ Grows(sq, sq')
          /\ (sq.head_stream # NoStream => sq'.head_stream # NoStream)
      <3>1. LET r == stream_update_ts(sq, s, fake)
            IN /\ Led(r) /\ Grows(sq, r) /\ (sq.head_stream # NoStream => r.head_stream # NoStream)
        BY <1>1, <1>3, UpdateLeads, Zenon DEF HeadInv
      <3> QED BY <1>5, <3>1, Zenon
    <2>2. sq' \in Queues /\ sq'.fifo = sq.fifo
      BY <1>1, <1>3, <1>5, UpdateKeeps DEF Kept, Same
    <2>3. Waiting(sq')
      <3> SUFFICES ASSUME NEW t \in Streams, NEW i \in 1..Len(sq.fifo[t]), sq.fifo[t][i] # NOPTS
                   PROVE  Known(sq', t) /\ sq.fifo[t][i] <= sq'.head_ts[t]
        BY <2>2 DEF Waiting
      <3>1. Known(sq, t) /\ sq.fifo[t][i] <= sq.head_ts[t]
        BY DEF HeadInv, Waiting
      <3>2. Known(sq', t) /\ sq.head_ts[t] <= sq'.head_ts[t]
        BY <1>1, <2>1, <2>2, <3>1, GrowingTimes DEF Grows
      <3>3. /\ sq.head_ts[t] \in Nat \union {NOPTS} /\ sq'.head_ts[t] \in Nat \union {NOPTS}
            /\ sq.fifo[t] \in Seq(Nat \union {NOPTS})
        BY <1>1, <2>2 DEF Queues
      <3> QED BY <3>1, <3>2, <3>3 DEF NOPTS
    <2> QED BY <1>2, <2>1, <2>3, GrowingStep
  <1> QED BY <1>2, <1>4, <1>5

(* A frame is released only up to the head, which no limiting stream is    *)
(* behind.                                                                 *)
LEMMA ReceiveHead ==
  ASSUME Inv, Inv', HeadInv, receiveFrame
  PROVE  HeadInv'
  <1> DEFINE ready == {t \in Asked : Ready(sq, t)}
             s == First(ready)
             x == Head(sq.fifo[s])
             rest == [sq.fifo EXCEPT ![s] = Tail(sq.fifo[s])]
  <1>1. s \in Streams /\ Ready(sq, s)
    <2>1. ready # {} /\ Asked \subseteq Streams
      BY DEF receiveFrame, Asked, Inv, SyncTypeOK
    <2>2. ready \in SUBSET Nat /\ ready \subseteq Asked
      <3>1. ready \subseteq Asked
        OBVIOUS
      <3> HIDE DEF ready
      <3> QED BY <2>1, <3>1 DEF Streams
    <2>3. s \in ready
      BY <2>1, <2>2, FirstIsMember
    <2> QED BY <2>1, <2>3
  <1>2. /\ sq' = [sq EXCEPT !.fifo = rest]
        /\ UNCHANGED limiting
        /\ \/ outTime' = outTime
           \/ x # NOPTS /\ outTime' = [outTime EXCEPT ![s] = x * sq.tb[s]]
    BY Zenon DEF receiveFrame
  <1> HIDE DEF s
  <1>3. /\ sq \in Queues /\ sq.fifo[s] \in Seq(Nat \union {NOPTS}) /\ sq.fifo[s] # <<>>
        /\ outTime \in [Streams -> Nat] /\ limiting \subseteq Streams
    BY <1>1 DEF Inv, SyncTypeOK, Queues, Ready
  <1>4. sq'.fifo = rest /\ sq'.head_ts = sq.head_ts /\ sq'.tb = sq.tb
        /\ sq'.head_stream = sq.head_stream
    BY <1>2, <1>3 DEF Queues
  <1>5. Led(sq)'
    BY <1>2, <1>4 DEF HeadInv, Led, Known, Before
  <1>6. Waiting(sq)'
    <2> SUFFICES ASSUME NEW t \in Streams, NEW i \in 1..Len(rest[t])
                 PROVE  rest[t][i] = NOPTS \/ (Known(sq, t) /\ rest[t][i] <= sq.head_ts[t])
      BY <1>4 DEF Waiting, Known
    <2>1. \A j \in 1..Len(sq.fifo[t]) :
            sq.fifo[t][j] = NOPTS \/ (Known(sq, t) /\ sq.fifo[t][j] <= sq.head_ts[t])
      BY DEF HeadInv, Waiting
    <2>2. CASE t = s
      <3>1. rest[s] = Tail(sq.fifo[s])
        BY <1>1, <1>3 DEF Queues
      <3>2. i + 1 \in 1..Len(sq.fifo[t]) /\ rest[t][i] = sq.fifo[t][i + 1]
        <4> DEFINE f == sq.fifo[s]
        <4>1. f \in Seq(Nat \union {NOPTS}) /\ f # <<>>
          BY <1>3
        <4> HIDE DEF f, rest
        <4>2. Len(Tail(f)) = Len(f) - 1 /\ Len(f) \in Nat
              /\ \A j \in 1..Len(f) - 1 : Tail(f)[j] = f[j + 1]
          BY <4>1
        <4>3. rest[t] = Tail(f) /\ sq.fifo[t] = f
          BY <2>2, <3>1 DEF f
        <4>4. i \in 1..Len(f) - 1
          BY <4>2, <4>3
        <4> QED BY <4>2, <4>3, <4>4
      <3> QED BY <2>1, <3>2
    <2>3. CASE t # s
      <3>1. rest[t] = sq.fifo[t]
        BY <1>3, <2>3 DEF Queues
      <3> QED BY <2>1, <3>1
    <2> QED BY <2>2, <2>3
  <1>7. Released'
    <2>1. SUFFICES ASSUME 1 \in limiting, NEW t \in Streams
                   PROVE  IF sq.head_stream = NoStream THEN outTime'[t] = 0
                          ELSE \A l \in limiting : outTime'[t] <= Time(sq, l)
      BY <1>2, <1>4 DEF Released, Time
    <2>2. IF sq.head_stream = NoStream THEN outTime[t] = 0
          ELSE \A l \in limiting : outTime[t] <= Time(sq, l)
      BY <2>1 DEF HeadInv, Released
    <2>3. CASE outTime'[t] = outTime[t]
      BY <2>2, <2>3
    <2>4. CASE t = s /\ x # NOPTS /\ outTime'[s] = x * sq.tb[s]
      <3> DEFINE h == sq.head_stream
      <3>1. h # NoStream /\ x * sq.tb[s] <= Time(sq, h)
        BY <1>1, <2>4 DEF Ready, Time
      <3>2. h \in limiting /\ \A l \in limiting : ~Before(sq, l, h)
        BY <2>1, <3>1 DEF HeadInv, Led
      <3>3. x \in Nat /\ sq.tb[s] \in Nat
        BY <1>1, <1>3, <2>4 DEF Queues
      <3> HIDE DEF x, h
      <3>4. x * sq.tb[s] \in Nat
        BY <3>3
      <3>5. ASSUME NEW l \in limiting PROVE outTime'[s] <= Time(sq, l)
        <4>1. Time(sq, l) \in Int /\ Time(sq, h) \in Int /\ ~(Time(sq, l) < Time(sq, h))
          BY <1>3, <3>2, TimesAreOrdered
        <4> QED BY <2>4, <3>1, <3>4, <4>1
      <3> QED BY <2>4, <3>1, <3>5 DEF h
    <2>5. outTime'[t] = outTime[t] \/ (t = s /\ x # NOPTS /\ outTime'[s] = x * sq.tb[s])
      BY <1>2, <1>3
    <2> QED BY <2>3, <2>4, <2>5
  <1> QED BY <1>5, <1>6, <1>7 DEF HeadInv

LEMMA SetTbHead ==
  ASSUME Inv, Inv', HeadInv, NEW s \in Streams, sq_set_tb(s)
  PROVE  HeadInv'
  <1> DEFINE ts == IF Known(sq, s) THEN rescale(sq.head_ts[s], sq.tb[s], Tick[s]) ELSE NOPTS
             heads == [sq.head_ts EXCEPT ![s] = ts]
             bases == [sq.tb EXCEPT ![s] = Tick[s]]
  <1>1. /\ s \notin timed
        /\ sq' = [sq EXCEPT !.head_ts = heads, !.tb = bases]
        /\ UNCHANGED <<limiting, outTime>>
    BY Zenon DEF sq_set_tb
  <1>2. /\ sq \in Queues /\ sq.tb[s] = DefaultTick /\ sq.fifo[s] = <<>>
        /\ sq.head_ts[s] \in Nat \union {NOPTS} /\ sq' \in Queues /\ limiting \subseteq Streams
    BY <1>1 DEF Inv, SyncTypeOK, Times, Queues
  <1>3. Tick[s] \in Nat \ {0} /\ DefaultTick \in Nat \ {0} /\ DefaultTick % Tick[s] = 0
    OBVIOUS
  <1>4. /\ ts = NOPTS <=> sq.head_ts[s] = NOPTS
        /\ sq.head_ts[s] # NOPTS => ts * Tick[s] = sq.head_ts[s] * sq.tb[s]
    <2>1. CASE sq.head_ts[s] = NOPTS
      BY <2>1 DEF Known
    <2>2. CASE sq.head_ts[s] # NOPTS
      <3>1. ts = rescale(sq.head_ts[s], DefaultTick, Tick[s]) /\ sq.head_ts[s] \in Nat
        BY <1>2, <2>2 DEF Known
      <3> HIDE DEF ts
      <3>2. ts \in Nat
        BY <1>3, <3>1, RescaleIsNat
      <3>3. ts * Tick[s] = sq.head_ts[s] * DefaultTick
        BY <1>3, <3>1, RescaleIsExact
      <3> QED BY <1>2, <2>2, <3>2, <3>3 DEF NOPTS
    <2> QED BY <2>1, <2>2
  <1> HIDE DEF ts
  <1>5. /\ heads[s] = ts /\ bases[s] = Tick[s]
        /\ \A t \in Streams \ {s} : heads[t] = sq.head_ts[t] /\ bases[t] = sq.tb[t]
    BY <1>2 DEF Queues
  <1> HIDE DEF heads, bases
  <1>6. /\ sq'.fifo = sq.fifo /\ sq'.tb = bases /\ sq'.head_ts = heads
        /\ sq'.head_stream = sq.head_stream
    BY <1>1, <1>2 DEF Queues
  <1>7. \A t \in Streams :
          /\ Known(sq', t) <=> Known(sq, t)
          /\ Known(sq, t) => Time(sq', t) = Time(sq, t)
    <2> SUFFICES ASSUME NEW t \in Streams
                 PROVE  /\ Known(sq', t) <=> Known(sq, t)
                        /\ Known(sq, t) => Time(sq', t) = Time(sq, t)
      OBVIOUS
    <2>1. CASE t = s
      BY <1>4, <1>5, <1>6, <2>1 DEF Known, Time
    <2>2. CASE t # s
      BY <1>5, <1>6, <2>2 DEF Known, Time
    <2> QED BY <2>1, <2>2
  <1>8. Led(sq')
    <2>1. ASSUME sq.head_stream # NoStream, sq.head_stream \in limiting, NEW l \in limiting
          PROVE  Known(sq', l) /\ ~Before(sq', l, sq.head_stream)
      <3>1. Known(sq, l) /\ Known(sq, sq.head_stream) /\ ~Before(sq, l, sq.head_stream)
        BY <2>1 DEF HeadInv, Led
      <3> QED BY <1>2, <1>7, <2>1, <3>1, TimesAreOrdered
    <2>2. (\A l \in limiting : Known(sq', l)) <=> \A l \in limiting : Known(sq, l)
      BY <1>2, <1>7
    <2> QED BY <1>6, <2>1, <2>2 DEF HeadInv, Led
  <1>9. Waiting(sq')
    <2> SUFFICES ASSUME NEW t \in Streams, NEW i \in 1..Len(sq.fifo[t]), sq.fifo[t][i] # NOPTS
                 PROVE  Known(sq', t) /\ sq.fifo[t][i] <= sq'.head_ts[t]
      BY <1>6 DEF Waiting
    <2>1. t # s
      BY <1>2
    <2>2. Known(sq, t) /\ sq.fifo[t][i] <= sq.head_ts[t]
      BY DEF HeadInv, Waiting
    <2> QED BY <1>5, <1>6, <1>7, <2>1, <2>2
  <1>10. Released'
    <2>1. \A t \in Streams : Known(sq, t) => Time(sq, t) <= Time(sq', t)
      BY <1>2, <1>7, TimesAreOrdered
    <2> QED BY <1>1, <1>6, <1>8, <2>1, ReleasedStays DEF HeadInv
  <1>11. Led(sq)' /\ Waiting(sq)'
    <2>1. Led(sq)' = Led(sq')
      BY <1>1, Zenon DEF Led, Known, Before
    <2>2. Waiting(sq)' = Waiting(sq')
      BY Zenon DEF Waiting, Known
    <2> QED BY <1>8, <1>9, <2>1, <2>2
  <1> QED BY <1>10, <1>11 DEF HeadInv

LEMMA HeadStep ==
  ASSUME Inv, Inv', HeadInv, [Next]_vars
  PROVE  HeadInv'
  <1>1. ASSUME NEW s \in Streams, sendEnd(s) \/ close_output_stream(s)
        PROVE  HeadInv'
    <2>1. sq' = finish_stream(sq, s) /\ UNCHANGED <<limiting, outTime>>
      BY <1>1 DEF sendEnd, close_output_stream
    <2>2. sq'.head_ts = sq.head_ts /\ sq'.tb = sq.tb /\ sq'.fifo = sq.fifo
          /\ sq'.head_stream = sq.head_stream
      BY <2>1, FinishKeeps DEF Inv, SyncTypeOK, Same
    <2> QED BY <2>1, <2>2, StillStep
  <1>2. CASE receiveEnd \/ overflow_heartbeat \/ tryAgainLater \/ UNCHANGED vars
    <2>1. UNCHANGED <<sq, limiting, outTime>>
      BY <1>2 DEF receiveEnd, overflow_heartbeat, tryAgainLater, vars
    <2> QED BY <2>1, StillStep
  <1> QED BY <1>1, <1>2, ReceiveHead, BeatHead, SetTbHead, SendHead DEF Next

LEMMA HeadAlways == Spec => []HeadInv
  BY InvInit, InvStep, HeadInit, HeadStep, PTL DEF Spec

(***************************************************************************)
(* The heartbeat.                                                          *)
(***************************************************************************)

(* The stream has reached a time, but for half a tick.                     *)
Reaches(q, s, time) == Known(q, s) /\ 2 * time < (2 * q.head_ts[s] + 1) * q.tb[s]

TailTime(q, s) == tail_ts(q, s) * q.tb[s]

(* The stream is more ahead than the other, or as much and comes first.    *)
Leads(q, s, t) == ~Before(q, s, t) /\ (s <= t \/ Before(q, t, s))

(* A heartbeat of the stream st has told the streams before next of a time *)
(* just after the frame of st that waits.  It does not move st, and a      *)
(* stream that it moves was behind that time, and so are its frames.       *)
Beating(q, st, time, next) ==
  /\ Known(q, st) /\ time <= Time(q, st)
  /\ Timed(q, st) # {} => TailTime(q, st) < time
  /\ \A t \in Streams \ q.finished : t < next \/ t = st => Reaches(q, t, time)
  /\ \A t \in Streams \ {st} :
       Leads(q, st, t) \/ (Timed(q, t) # {} => TailTime(q, t) < time)

HeartbeatInv ==
  reader = "muxer" =>
    /\ asked = NoStream /\ timed = Streams
    /\ at = "beat" => Beating(sq, beat.stream, beat.ts * sq.tb[beat.stream], beat.next)
    /\ at = "again" => \E st \in Streams, time \in Nat : Beating(sq, st, time, NStreams + 1)
    /\ OneHeartbeatIsEnough

LEMMA RescaleReaches ==
  ASSUME NEW ts \in Nat, NEW from \in Nat \ {0}, NEW to \in Nat \ {0}
  PROVE  2 * (ts * from) < (2 * rescale(ts, from, to) + 1) * to
  <1> DEFINE x == ts * from
             a == 2 * x + to
             b == 2 * to
             r == a \div b
  <1>1. x \in Nat /\ rescale(ts, from, to) = r
    BY DEF rescale
  <1> HIDE DEF x
  <1>2. a \in Nat /\ b \in Nat \ {0}
    BY <1>1
  <1>3. r \in Nat /\ a < (r + 1) * b
    <2> HIDE DEF a, b
    <2> QED BY <1>2
  <1> HIDE DEF r
  <1> DEFINE p == r * to
  <1>4. p \in Nat /\ (r + 1) * b = 2 * p + 2 * to /\ (2 * r + 1) * to = 2 * p + to
    BY <1>3
  <1> HIDE DEF p
  <1> QED BY <1>1, <1>3, <1>4 DEF x

(* A stream that is at a time, or after it, has reached it.                *)
LEMMA AfterReaches ==
  ASSUME NEW q \in Queues, NEW s \in Streams, Known(q, s), NEW time \in Nat, time <= Time(q, s)
  PROVE  Reaches(q, s, time)
  <1>1. q.head_ts[s] \in Nat /\ q.tb[s] \in Nat \ {0}
    BY DEF Queues, Known
  <1> DEFINE h == q.head_ts[s]
             n == q.tb[s]
             p == h * n
  <1>2. p \in Nat /\ (2 * h + 1) * n = 2 * p + n
    BY <1>1
  <1>3. time <= p
    BY DEF Time
  <1> HIDE DEF p
  <1>4. 2 * time < (2 * h + 1) * n
    BY <1>1, <1>2, <1>3
  <1> QED BY <1>4 DEF Reaches

LEMMA ReachesGrows ==
  ASSUME NEW q \in Queues, NEW r \in Queues, Grows(q, r), NEW s \in Streams, NEW time \in Nat,
         Reaches(q, s, time)
  PROVE  Reaches(r, s, time)
  <1>1. /\ Known(r, s) /\ q.head_ts[s] <= r.head_ts[s] /\ r.tb[s] = q.tb[s]
        /\ q.head_ts[s] \in Nat /\ r.head_ts[s] \in Nat /\ q.tb[s] \in Nat
    <2>1. Known(r, s) /\ Known(q, s)
      BY GrowingTimes DEF Reaches
    <2> QED BY <2>1 DEF Grows, Queues, Known
  <1>2. \A a, b, n \in Nat : a <= b => (2 * a + 1) * n <= (2 * b + 1) * n
    OBVIOUS
  <1>3. (2 * q.head_ts[s] + 1) * q.tb[s] <= (2 * r.head_ts[s] + 1) * q.tb[s]
    BY <1>1, <1>2
  <1>4. \A n, m \in Nat : (2 * n + 1) * m \in Nat
    OBVIOUS
  <1> QED BY <1>1, <1>3, <1>4 DEF Reaches

(* The frame that overflow_heartbeat looks at is the time of one that      *)
(* waits, so that its stream has reached it.                               *)
LEMMA TailWaits ==
  ASSUME NEW q \in Queues, Waiting(q), NEW s \in Streams, Timed(q, s) # {}
  PROVE  /\ Known(q, s) /\ tail_ts(q, s) \in Nat /\ tail_ts(q, s) <= q.head_ts[s]
         /\ TailTime(q, s) \in Nat /\ TailTime(q, s) <= Time(q, s)
  <1>1. Timed(q, s) \in SUBSET Nat
    BY DEF Timed
  <1>2. First(Timed(q, s)) \in Timed(q, s)
    BY <1>1, FirstIsMember
  <1>3. PICK i \in 1..Len(q.fifo[s]) : i = First(Timed(q, s)) /\ q.fifo[s][i] # NOPTS
    BY <1>2 DEF Timed
  <1>4. q.fifo[s] \in Seq(Nat \union {NOPTS}) /\ q.tb[s] \in Nat
        /\ q.head_ts[s] \in Nat \union {NOPTS}
    BY DEF Queues
  <1>5. q.fifo[s][i] \in Nat /\ tail_ts(q, s) = q.fifo[s][i]
    BY <1>3, <1>4 DEF tail_ts
  <1>6. Known(q, s) /\ q.fifo[s][i] <= q.head_ts[s]
    BY <1>3 DEF Waiting
  <1>7. q.head_ts[s] \in Nat
    BY <1>4, <1>6 DEF Known
  <1>8. \A a, b, n \in Nat : a <= b => a * n \in Nat /\ a * n <= b * n
    OBVIOUS
  <1>9. tail_ts(q, s) * q.tb[s] \in Nat /\ tail_ts(q, s) * q.tb[s] <= q.head_ts[s] * q.tb[s]
    BY <1>4, <1>5, <1>6, <1>7, <1>8
  <1> QED BY <1>5, <1>6, <1>9 DEF TailTime, Time

(* What waits is not changed by a heartbeat.                               *)
LEMMA TailStays ==
  ASSUME NEW q, NEW r, NEW s, r.fifo = q.fifo, r.tb = q.tb
  PROVE  /\ Timed(r, s) = Timed(q, s) /\ tail_ts(r, s) = tail_ts(q, s)
         /\ TailTime(r, s) = TailTime(q, s)
  BY DEF Timed, tail_ts, TailTime

(* stream_update_ts moves no other stream.                                 *)
LEMMA UpdateMovesOne ==
  ASSUME NEW q \in Queues, limiting \subseteq Streams, NEW s \in Streams,
         NEW ts \in Nat \union {NOPTS}, NEW t \in Streams \ {s}
  PROVE  stream_update_ts(q, s, ts).head_ts[t] = q.head_ts[t]
  <1> DEFINE moved == [q EXCEPT !.head_ts = [q.head_ts EXCEPT ![s] = ts]]
             late == q.head_finished_stream # NoStream /\ ~Before(moved, s, q.head_finished_stream)
             kept == IF late THEN finish_stream(moved, s) ELSE moved
  <1>1. moved \in Queues /\ moved.head_ts[t] = q.head_ts[t]
    BY DEF Queues
  <1> HIDE DEF moved
  <1>2. kept \in Queues /\ kept.head_ts = moved.head_ts
    BY <1>1, FinishKeeps DEF Kept
  <1>3. stream_update_ts(q, s, ts) \in {q, kept, queue_head_update(kept)}
    BY Zenon DEF stream_update_ts, moved
  <1> HIDE DEF kept
  <1> QED BY <1>1, <1>2, <1>3, HeadKeeps

LEMMA BeatStarts ==
  ASSUME Inv, HeadInv, HeartbeatInv, overflow_heartbeat
  PROVE  HeartbeatInv'
  <1> SUFFICES ASSUME reader' = "muxer" PROVE HeartbeatInv'
    BY DEF HeartbeatInv
  <1>1. /\ asked = NoStream /\ timed = Streams /\ asked' = asked /\ timed' = timed
        /\ sq' = sq /\ at' = "beat" /\ reader' = reader
    BY DEF overflow_heartbeat, HeartbeatInv
  <1>2. PICK st \in MostAhead(sq) :
          /\ Overflows(sq, st)
          /\ beat' = [stream |-> st, ts |-> tail_ts(sq, st) + 1, next |-> 1]
    BY <1>1 DEF overflow_heartbeat, Chosen
  <1> DEFINE time == (tail_ts(sq, st) + 1) * sq.tb[st]
  <1>3. /\ sq \in Queues /\ Waiting(sq) /\ st \in Streams /\ Timed(sq, st) # {}
        /\ tail_ts(sq, st) < sq.head_ts[st]
    BY <1>2 DEF Inv, SyncTypeOK, HeadInv, MostAhead, Overflows
  <1>4. tail_ts(sq, st) \in Nat /\ Known(sq, st)
    BY <1>3, TailWaits
  <1>5. sq.tb[st] \in Nat \ {0} /\ sq.head_ts[st] \in Nat
    BY <1>3, <1>4 DEF Queues, Known
  <1>6. /\ time \in Nat /\ TailTime(sq, st) < time /\ time <= Time(sq, st)
    <2>1. \A a, n \in Nat : (a + 1) * n = a * n + n /\ a * n \in Nat
      OBVIOUS
    <2>2. \A a, b, n \in Nat : a <= b => a * n <= b * n
      OBVIOUS
    <2>3. time = TailTime(sq, st) + sq.tb[st] /\ TailTime(sq, st) \in Nat
      BY <1>4, <1>5, <2>1 DEF TailTime
    <2>4. time <= sq.head_ts[st] * sq.tb[st]
      BY <1>3, <1>4, <1>5, <2>2
    <2> QED BY <1>5, <2>3, <2>4 DEF Time
  <1> HIDE DEF time
  <1>7. Reaches(sq, st, time)
    BY <1>3, <1>4, <1>6, AfterReaches
  <1>8. \A t \in Streams : Leads(sq, st, t)
    BY <1>2 DEF MostAhead, Leads
  <1>9. Beating(sq, st, time, 1)
    BY <1>4, <1>6, <1>7, <1>8 DEF Beating, Streams
  <1>10. Beating(sq', beat'.stream, beat'.ts * sq'.tb[beat'.stream], beat'.next)
    BY <1>1, <1>2, <1>9 DEF time
  <1> QED BY <1>1, <1>10 DEF HeartbeatInv, OneHeartbeatIsEnough

(* One stream is told.  If it is moved it was behind the time, and so was  *)
(* all that waits of it; it then has reached the time, as far as a tick of *)
(* its own allows.                                                         *)
LEMMA BeatGoesOn ==
  ASSUME Inv, Inv', HeadInv, HeartbeatInv, fakeTimestamp
  PROVE  HeartbeatInv'
  <1> SUFFICES ASSUME reader' = "muxer" PROVE HeartbeatInv'
    BY DEF HeartbeatInv
  <1> DEFINE s == beat.next
             st == beat.stream
             time == beat.ts * sq.tb[st]
             ts == rescale(beat.ts, sq.tb[st], sq.tb[s])
             fake == IF Known(sq, s) /\ sq.head_ts[s] + 1 > ts THEN sq.head_ts[s] + 1 ELSE ts
             behind == ~Known(sq, s) \/ beat.ts * sq.tb[st] > sq.head_ts[s] * sq.tb[s]
             moves == s # st /\ s \notin sq.finished /\ behind
  <1>1. /\ at = "beat" /\ asked = NoStream /\ timed = Streams /\ asked' = asked /\ timed' = timed
        /\ reader' = reader /\ Beating(sq, st, time, s)
    BY DEF fakeTimestamp, HeartbeatInv
  <1>2. /\ sq' = IF moves THEN stream_update_ts(sq, s, fake) ELSE sq
        /\ beat' = IF s = NStreams THEN NoBeat ELSE [beat EXCEPT !.next = s + 1]
        /\ at' = IF s = NStreams THEN "again" ELSE "beat"
    BY Zenon DEF fakeTimestamp
  <1>3. /\ s \in Streams /\ st \in Streams /\ beat.ts \in Nat /\ sq \in Queues /\ sq' \in Queues
        /\ limiting \subseteq Streams /\ Led(sq) /\ Waiting(sq)
    BY DEF Inv, SyncTypeOK, HeadInv
  <1>4. sq.tb[st] \in Nat \ {0} /\ sq.tb[s] \in Nat \ {0} /\ time \in Nat
    <2>1. sq.tb[st] \in Nat \ {0} /\ sq.tb[s] \in Nat \ {0}
      BY <1>3 DEF Queues
    <2> QED BY <1>3, <2>1
  <1>5. ts \in Nat /\ 2 * time < (2 * ts + 1) * sq.tb[s]
    BY <1>3, <1>4, RescaleIsNat, RescaleReaches
  <1> HIDE DEF s, st, ts, time
  <1>6. fake \in Nat /\ ts <= fake
    <2>1. Known(sq, s) => sq.head_ts[s] \in Nat
      BY <1>3 DEF Queues, Known
    <2> QED BY <1>5, <2>1
  <1>7. 2 * time < (2 * fake + 1) * sq.tb[s]
    <2>1. \A a, b, n \in Nat : a <= b => (2 * a + 1) * n <= (2 * b + 1) * n
      OBVIOUS
    <2>2. (2 * ts + 1) * sq.tb[s] <= (2 * fake + 1) * sq.tb[s]
      BY <1>4, <1>5, <1>6, <2>1
    <2>3. (2 * ts + 1) * sq.tb[s] \in Nat /\ (2 * fake + 1) * sq.tb[s] \in Nat
      BY <1>4, <1>5, <1>6
    <2> HIDE DEF fake
    <2> QED BY <1>4, <1>5, <2>2, <2>3
  <1> HIDE DEF fake
  <1>8. Beating(sq', st, time, s + 1)
    <2>1. CASE ~moves
      <3>1. sq' = sq
        BY <1>2, <2>1
      <3>2. s = st \/ s \in sq.finished \/ Reaches(sq, s, time)
        <4>1. SUFFICES ASSUME Known(sq, s), ~(time > Time(sq, s)) PROVE Reaches(sq, s, time)
          BY <2>1 DEF time, Time
        <4>2. Time(sq, s) \in Nat
          BY <1>3, <4>1, TimesAreOrdered
        <4> QED BY <1>3, <1>4, <4>1, <4>2, AfterReaches
      <3>3. \A t \in Streams : t < s + 1 => t < s \/ t = s
        BY <1>3 DEF Streams
      <3>4. \A t \in Streams \ sq.finished : t < s + 1 \/ t = st => Reaches(sq, t, time)
        BY <1>1, <3>2, <3>3 DEF Beating
      <3> QED BY <1>1, <3>1, <3>4 DEF Beating
    <2>2. CASE moves
      <3>1. sq' = stream_update_ts(sq, s, fake) /\ s # st
            /\ (Known(sq, s) => time > Time(sq, s))
        BY <1>2, <2>2 DEF time, Time
      <3>2. Kept(sq, sq') /\ Same(sq, sq')
        BY <1>3, <1>6, <3>1, UpdateKeeps
      <3>3. Grows(sq, sq') /\ Known(sq', s) /\ fake <= sq'.head_ts[s]
        <4>1. LET r == stream_update_ts(sq, s, fake)
              IN Grows(sq, r) /\ (fake = NOPTS \/ (Known(r, s) /\ fake <= r.head_ts[s]))
          BY <1>3, <1>6, UpdateLeads, Zenon
        <4>2. Grows(sq, sq') /\ (fake = NOPTS \/ (Known(sq', s) /\ fake <= sq'.head_ts[s]))
          BY <3>1, <4>1, Zenon
        <4> QED BY <1>6, <4>2 DEF NOPTS
      <3>4. \A t \in Streams \ {s} : sq'.head_ts[t] = sq.head_ts[t] /\ Time(sq', t) = Time(sq, t)
        BY <1>3, <1>6, <3>1, <3>2, UpdateMovesOne DEF Same, Time
      <3>5. Reaches(sq', s, time)
        <4>1. \A a, b, n \in Nat : a <= b => (2 * a + 1) * n <= (2 * b + 1) * n
          OBVIOUS
        <4>2. sq'.head_ts[s] \in Nat /\ sq'.tb[s] = sq.tb[s]
          BY <1>3, <3>2, <3>3 DEF Queues, Known, Same
        <4>3. (2 * fake + 1) * sq.tb[s] <= (2 * sq'.head_ts[s] + 1) * sq.tb[s]
          BY <1>4, <1>6, <3>3, <4>1, <4>2
        <4>4. (2 * fake + 1) * sq.tb[s] \in Nat /\ (2 * sq'.head_ts[s] + 1) * sq.tb[s] \in Nat
          BY <1>4, <1>6, <4>2
        <4>5. 2 * time < (2 * sq'.head_ts[s] + 1) * sq.tb[s]
          BY <1>4, <1>7, <4>3, <4>4
        <4> QED BY <3>3, <4>2, <4>5 DEF Reaches
      <3>6. \A t \in Streams \ sq'.finished : t < s + 1 \/ t = st => Reaches(sq', t, time)
        <4>1. SUFFICES ASSUME NEW t \in Streams \ sq'.finished, t # s, t < s + 1 \/ t = st
                       PROVE  Reaches(sq', t, time)
          BY <3>5
        <4>2. t < s \/ t = st
          BY <1>3, <4>1 DEF Streams
        <4>3. Reaches(sq, t, time)
          BY <1>1, <3>2, <4>2 DEF Beating, Kept
        <4> QED BY <1>3, <1>4, <3>3, <4>3, ReachesGrows
      <3>7. ASSUME NEW t \in Streams \ {st}
            PROVE  Leads(sq', st, t) \/ (Timed(sq', t) # {} => TailTime(sq', t) < time)
        <4>1. Timed(sq', t) = Timed(sq, t) /\ TailTime(sq', t) = TailTime(sq, t)
          BY <3>2, TailStays DEF Same
        <4>2. CASE t # s
          <5>1. Before(sq', st, t) = Before(sq, st, t) /\ Before(sq', t, st) = Before(sq, t, st)
            BY <3>1, <3>2, <3>4, <1>3, <4>2 DEF Before, Same
          <5> QED BY <1>1, <4>1, <5>1 DEF Beating, Leads
        <4>3. CASE t = s
          <5>1. SUFFICES ASSUME Timed(sq, s) # {} PROVE TailTime(sq, s) < time
            BY <4>1, <4>3
          <5>2. Known(sq, s) /\ TailTime(sq, s) <= Time(sq, s) /\ TailTime(sq, s) \in Nat
            BY <1>3, <5>1, TailWaits
          <5>3. Time(sq, s) \in Nat
            BY <1>3, <5>2, TimesAreOrdered
          <5> QED BY <1>4, <3>1, <5>2, <5>3
        <4> QED BY <4>2, <4>3
      <3>8. /\ Known(sq', st) /\ time <= Time(sq', st)
            /\ Timed(sq', st) # {} => TailTime(sq', st) < time
        <4>1. Timed(sq', st) = Timed(sq, st) /\ TailTime(sq', st) = TailTime(sq, st)
          BY <3>2, TailStays DEF Same
        <4>2. sq'.head_ts[st] = sq.head_ts[st] /\ Time(sq', st) = Time(sq, st)
          BY <1>3, <3>1, <3>4
        <4> QED BY <1>1, <4>1, <4>2 DEF Beating, Known
      <3> QED BY <3>6, <3>7, <3>8 DEF Beating
    <2> QED BY <2>1, <2>2
  <1>9. sq'.tb = sq.tb
    BY <1>2, <1>3, <1>6, UpdateKeeps DEF Same
  <1>10. CASE s = NStreams
    BY <1>1, <1>2, <1>3, <1>4, <1>8, <1>10 DEF HeartbeatInv, OneHeartbeatIsEnough
  <1>11. CASE s # NStreams
    <2>1. beat' = [beat EXCEPT !.next = s + 1] /\ at' = "beat"
      BY <1>2, <1>11
    <2>2. beat'.next = s + 1 /\ beat'.stream = st /\ beat'.ts = beat.ts
      BY <2>1 DEF Inv, SyncTypeOK, st
    <2>3. Beating(sq', beat'.stream, beat'.ts * sq'.tb[beat'.stream], beat'.next)
      BY <1>8, <1>9, <2>2 DEF time
    <2> QED BY <1>1, <2>1, <2>3 DEF HeartbeatInv, OneHeartbeatIsEnough
  <1> QED BY <1>10, <1>11

(* When nothing could be received again, all that still can move have      *)
(* reached what was told.                                                  *)
LEMMA BeatEnds ==
  ASSUME Inv, HeadInv, HeartbeatInv, tryAgainLater
  PROVE  HeartbeatInv'
  <1> SUFFICES ASSUME reader' = "muxer" PROVE HeartbeatInv'
    BY DEF HeartbeatInv
  <1>1. /\ asked = NoStream /\ timed = Streams /\ asked' = asked /\ timed' = timed
        /\ sq' = sq /\ at' = "idle" /\ reader = "muxer"
    BY DEF tryAgainLater, HeartbeatInv
  <1>2. sq \in Queues /\ Waiting(sq)
    BY DEF Inv, SyncTypeOK, HeadInv
  <1>3. SUFFICES ASSUME NEW s \in MostAhead(sq), NEW t \in Streams \ sq.finished, Overflows(sq, s)
                 PROVE  /\ Known(sq, t)
                        /\ 2 * tail_ts(sq, s) * sq.tb[s] < (2 * sq.head_ts[t] + 1) * sq.tb[t]
    BY <1>1 DEF HeartbeatInv, OneHeartbeatIsEnough
  <1>4. at = "again"
    BY <1>1, <1>3 DEF tryAgainLater, Chosen
  <1>5. PICK st \in Streams, time \in Nat : Beating(sq, st, time, NStreams + 1)
    BY <1>1, <1>4 DEF HeartbeatInv
  <1>6. s \in Streams /\ Timed(sq, s) # {} /\ Leads(sq, s, st) /\ Known(sq, s)
    BY <1>3, <1>5 DEF MostAhead, Overflows, Leads
  <1>7. TailTime(sq, s) < time
    <2>1. CASE s = st
      BY <1>5, <1>6, <2>1 DEF Beating
    <2>2. CASE s # st
      <3>1. ~Leads(sq, st, s)
        BY <1>5, <1>6, <2>2 DEF Leads, Streams
      <3> QED BY <1>5, <1>6, <2>2, <3>1 DEF Beating
    <2> QED BY <2>1, <2>2
  <1>8. Reaches(sq, t, time)
    <2>1. t \in Streams /\ t < NStreams + 1
      BY DEF Streams
    <2> QED BY <1>5, <2>1 DEF Beating
  <1>9. tail_ts(sq, s) \in Nat /\ TailTime(sq, s) \in Nat /\ sq.tb[s] \in Nat
    BY <1>2, <1>6, TailWaits DEF Queues
  <1>10. 2 * tail_ts(sq, s) * sq.tb[s] = 2 * TailTime(sq, s)
    BY <1>9 DEF TailTime
  <1>11. (2 * sq.head_ts[t] + 1) * sq.tb[t] \in Nat
    <2>1. sq.head_ts[t] \in Nat /\ sq.tb[t] \in Nat
      BY <1>2, <1>8 DEF Queues, Known, Reaches
    <2> QED BY <2>1
  <1> QED BY <1>7, <1>8, <1>9, <1>10, <1>11 DEF Reaches

LEMMA HeartbeatInit == Init => HeartbeatInv
  <1> SUFFICES ASSUME Init PROVE HeartbeatInv
    OBVIOUS
  <1>1. \A s \in Streams : sq.fifo[s] = <<>>
    BY DEF Init
  <1>2. \A s \in Streams : ~Overflows(sq, s)
    BY <1>1 DEF Overflows, Timed
  <1>3. OneHeartbeatIsEnough
    BY <1>2 DEF OneHeartbeatIsEnough, MostAhead
  <1> QED BY <1>3 DEF Init, HeartbeatInv

LEMMA HeartbeatStep ==
  ASSUME Inv, Inv', HeadInv, HeartbeatInv, [Next]_vars
  PROVE  HeartbeatInv'
  <1> SUFFICES ASSUME reader' = "muxer" PROVE HeartbeatInv'
    BY DEF HeartbeatInv
  <1>1. reader' = reader
    BY DEF Next, vars, receiveFrame, receiveEnd, overflow_heartbeat, fakeTimestamp, tryAgainLater,
           sq_set_tb, sendEnd, close_output_stream, sendFrame
  <1>2. asked = NoStream /\ timed = Streams
    BY <1>1 DEF HeartbeatInv
  <1>3. CASE \/ receiveFrame
             \/ \E s \in Streams : sendEnd(s) \/ \E ts \in Timestamps : sendFrame(s, ts)
    <2>1. at' = "receive" /\ asked' = NoStream /\ timed' = timed
      BY <1>1, <1>2, <1>3 DEF receiveFrame, sendEnd, sendFrame
    <2> QED BY <1>2, <2>1 DEF HeartbeatInv, OneHeartbeatIsEnough
  <1>4. CASE receiveEnd
    <2>1. sq' = sq /\ asked' = asked /\ timed' = timed /\ at' = "idle"
          /\ \A s \in Streams : AtEnd(sq, s)
      BY <1>2, <1>4 DEF receiveEnd, Asked
    <2>2. \A s \in Streams : s \in sq.finished
      BY <2>1 DEF AtEnd, Inv, OverMeansAll
    <2>3. OneHeartbeatIsEnough'
      BY <2>1, <2>2 DEF OneHeartbeatIsEnough
    <2> QED BY <1>2, <2>1, <2>3 DEF HeartbeatInv
  <1>5. ASSUME NEW s \in Streams, sq_set_tb(s) \/ close_output_stream(s) PROVE FALSE
    BY <1>1, <1>2, <1>5 DEF sq_set_tb, close_output_stream
  <1>6. CASE UNCHANGED vars
    <2>1. /\ UNCHANGED <<reader, asked, timed, at, beat, sq>>
      BY <1>6 DEF vars
    <2> QED BY <2>1 DEF HeartbeatInv, OneHeartbeatIsEnough
  <1> QED BY <1>3, <1>4, <1>5, <1>6, BeatStarts, BeatGoesOn, BeatEnds DEF Next

LEMMA HeartbeatAlways == Spec => []HeartbeatInv
  BY InvAlways, InvStep, HeadAlways, HeartbeatInit, HeartbeatStep, PTL DEF Spec

(***************************************************************************)
(* The theorems, for any number of streams, time bases and limits.         *)
(***************************************************************************)

(* Every field keeps its type: av_rescale_q never gives a time base or a   *)
(* head that is not one, and the stream that is the head exists.           *)
THEOREM SyncTypes == Spec => []SyncTypeOK
  BY InvAlways, PTL DEF Inv

(* No stream ever gets more than the frames_max of sq_limit_frames,        *)
(* however the others end.                                                 *)
THEOREM NoFrameTooMany == Spec => []FramesAreLimited
  <1>1. Inv => FramesAreLimited
    <2> SUFFICES ASSUME Inv, NEW s \in DOMAIN FramesMax
                 PROVE  sq.frames_sent[s] <= FramesMax[s]
      BY DEF FramesAreLimited
    <2>1. s \in Streams /\ FramesMax[s] \in Nat
      OBVIOUS
    <2>2. sq.frames_sent[s] \in Nat
      BY <2>1 DEF Inv, SyncTypeOK, Queues
    <2>3. sq.frames_sent[s] < FramesMax[s] \/ sq.frames_sent[s] = FramesMax[s]
      BY DEF Inv, Limits
    <2> QED BY <2>1, <2>2, <2>3
  <1> QED BY <1>1, InvAlways, PTL

(* AVERROR_EOF of sq_receive is final: nothing is added to the stream or   *)
(* taken from it again, also when frames of it are left over.              *)
THEOREM EndIsFinal == Spec => EofIsFinal
  <1>1. Inv /\ [Next]_vars => [\A s \in ended : sq'.fifo[s] = sq.fifo[s]]_vars
    BY InvStep
  <1> QED BY <1>1, InvAlways, PTL DEF Spec, EofIsFinal

(* queue_head_update: the head of the queue is the limiting stream that is *)
(* most behind, unless it is the placeholder.                              *)
THEOREM HeadsAreLeast == Spec => []HeadIsLeast
  <1>1. HeadInv => HeadIsLeast
    BY DEF HeadInv, Led, HeadIsLeast
  <1> QED BY <1>1, HeadAlways, PTL

(* What sync_queue.h promises of a limiting stream: nothing is released    *)
(* that is longer than what it has reached.                                *)
THEOREM NothingIsLonger == Spec => []LimitHolds
  <1>1. Inv /\ HeadInv => LimitHolds
    <2> SUFFICES ASSUME Inv, HeadInv, 1 \in limiting, NEW s \in Streams, NEW l \in limiting,
                        Known(sq, l)
                 PROVE  outTime[s] <= Time(sq, l)
      BY DEF LimitHolds, Time
    <2>1. Time(sq, l) \in Nat /\ outTime[s] \in Nat
      BY TimesAreOrdered DEF Inv, SyncTypeOK
    <2>2. IF sq.head_stream = NoStream THEN outTime[s] = 0 ELSE outTime[s] <= Time(sq, l)
      BY DEF HeadInv, Released
    <2> QED BY <2>1, <2>2
  <1> QED BY <1>1, InvAlways, HeadAlways, PTL

(* And all of the shortest is released, before its reader is told that all *)
(* is over.                                                                *)
THEOREM ShortestComesThrough == Spec => []ShortestIsWhole
  <1>1. Inv /\ HeadInv => ShortestIsWhole
    <2> DEFINE h == sq.head_stream
    <2> SUFFICES ASSUME Inv, HeadInv, 1 \in limiting, ended = Streams, NEW s \in limiting,
                        \A l \in limiting : Known(sq, l) /\ ~Before(sq, l, s),
                        sq.fifo[s] # <<>>
                 PROVE  FALSE
      BY DEF ShortestIsWhole
    <2>1. s \in Streams /\ limiting \subseteq Streams /\ sq \in Queues
      BY DEF Inv, SyncTypeOK
    <2>2. ~Ready(sq, s)
      BY <2>1 DEF Inv, EndsStay
    <2>3. h # NoStream /\ h \in limiting
      BY DEF HeadInv, Led
    <2>4. sq.head_ts[s] * sq.tb[s] <= sq.head_ts[h] * sq.tb[h]
      BY <2>1, <2>3, TimesAreOrdered DEF Time
    <2> HIDE DEF h
    <2> DEFINE x == Head(sq.fifo[s])
    <2>5. sq.fifo[s] \in Seq(Nat \union {NOPTS}) /\ sq.tb[s] \in Nat
          /\ sq.head_ts[s] \in Nat \union {NOPTS}
      BY <2>1 DEF Queues
    <2>6. x \in Nat \union {NOPTS} /\ x = sq.fifo[s][1] /\ 1 \in 1..Len(sq.fifo[s])
      BY <2>5
    <2>7. x = NOPTS \/ (Known(sq, s) /\ x <= sq.head_ts[s])
      BY <2>1, <2>6 DEF HeadInv, Waiting
    <2> HIDE DEF x
    <2>8. \A a, b, n \in Nat : a <= b => a * n <= b * n
      OBVIOUS
    <2>9. CASE x = NOPTS
      BY <2>2, <2>9 DEF Ready, x
    <2>10. CASE x # NOPTS
      <3>1. x \in Nat /\ sq.head_ts[s] \in Nat /\ x <= sq.head_ts[s]
        BY <2>5, <2>6, <2>7, <2>10 DEF Known
      <3>2. x * sq.tb[s] <= sq.head_ts[s] * sq.tb[s]
        BY <2>5, <2>8, <3>1
      <3>3. /\ x * sq.tb[s] \in Nat /\ sq.head_ts[s] * sq.tb[s] \in Nat
            /\ sq.head_ts[h] * sq.tb[h] \in Int
        BY <2>1, <2>3, <2>5, <3>1, TimesAreOrdered DEF Time
      <3>4. x * sq.tb[s] <= sq.head_ts[h] * sq.tb[h]
        BY <2>4, <3>2, <3>3
      <3> QED BY <2>2, <2>3, <3>4 DEF Ready, x, h
    <2> QED BY <2>9, <2>10
  <1> QED BY <1>1, InvAlways, HeadAlways, PTL

(* One heartbeat is enough, and overflow_heartbeat is tried only once: if  *)
(* the queue overflows still, every stream that can move has reached the   *)
(* frame that waits, but for the half tick that av_rescale_q may lose.     *)
THEOREM OneHeartbeatReachesAll == Spec => []OneHeartbeatIsEnough
  <1>1. Inv /\ HeartbeatInv => OneHeartbeatIsEnough
    BY DEF HeartbeatInv, OneHeartbeatIsEnough
  <1> QED BY <1>1, InvAlways, HeartbeatAlways, PTL
================================================================================

------------------------------- MODULE SyncQueue -------------------------------
(***************************************************************************)
(* The queue that keeps the streams of an output of one length             *)
(* (sync_queue.c; -shortest and -frames).  It holds the frames of each     *)
(* stream until no limiting stream can end before them.  The head of a     *)
(* stream is the latest time it has reached, and the head of the queue is  *)
(* that of the limiting stream that is most behind.                        *)
(*                                                                         *)
(* One thread uses it: the muxer thread, which takes what any stream has   *)
(* ready (sync_queue_process), or the main thread, which takes what the    *)
(* stream of the frame has (submit_encode_frame).  A frame is its          *)
(* timestamp, the end of its interval, in ticks of its stream.             *)
(***************************************************************************)
EXTENDS Integers, Sequences

CONSTANTS
  NStreams,     \* nb_streams
  Tick,         \* the time_base of each stream, in units of time
  DefaultTick,  \* the one it has until then, a second
  FramesMax,    \* frames_max of each stream that has one
  BufSize,      \* buf_size_us, in units of time
  MaxTs,        \* bound: the timestamps
  MaxFrames     \* bound: the frames accepted of each stream

Streams == 1..NStreams

(* A second is a whole number of ticks.  With a time base of which it is   *)
(* not, sq_set_tb rounds, and a head may be half a tick off.               *)
ASSUME SyncQueueAssumption ==
  /\ NStreams \in Nat \ {0}
  /\ Tick \in [Streams -> Nat \ {0}] /\ DefaultTick \in Nat \ {0}
  /\ DOMAIN FramesMax \subseteq Streams /\ \A s \in DOMAIN FramesMax : FramesMax[s] \in Nat
  /\ \A s \in Streams : DefaultTick % Tick[s] = 0
  /\ BufSize \in Nat /\ MaxTs \in Nat /\ MaxFrames \in [Streams -> Nat]

(* AV_NOPTS_VALUE, which is less than every timestamp.  Not modelled: a    *)
(* frame that has none but a duration (frame_ts adds it to the least       *)
(* integer, and takes the sum for a time).                                 *)
NOPTS == -1
Timestamps == {NOPTS} \union 0..MaxTs

(* No stream. *)
NoStream == 0

First(S) == CHOOSE s \in S : \A t \in S : s <= t

VARIABLES
  limiting,     \* the streams that are limiting
  reader,       \* who uses the queue: "muxer" or "encoders"
  sq,           \* the queue
  timed,        \* the streams whose time base is set
  at,           \* the user: "idle", in sq_receive ("receive", "beat", "again")
  asked,        \* the stream it asks for, or NoStream for any
  beat,         \* overflow_heartbeat: the stream, the timestamp, the next to tell
  outTime,      \* history: the latest time of a frame received, of each stream
  ended         \* history: the streams that sq_receive has said are at their end

vars == <<limiting, reader, sq, timed, at, asked, beat, outTime, ended>>

Queues ==
  [tb: [Streams -> Nat \ {0}], head_ts: [Streams -> Nat \union {NOPTS}], finished: SUBSET Streams,
   fifo: [Streams -> Seq(Nat \union {NOPTS})], frames_sent: [Streams -> Nat],
   head_stream: Streams \union {NoStream}, head_finished_stream: Streams \union {NoStream},
   over: BOOLEAN]

SyncTypeOK ==
  /\ limiting \subseteq Streams /\ reader \in {"muxer", "encoders"}
  /\ sq \in Queues /\ timed \subseteq Streams
  /\ at \in {"idle", "receive", "beat", "again"}
  /\ asked \in Streams \union {NoStream}
  /\ beat \in [stream: Streams, ts: Nat, next: Streams]
  /\ outTime \in [Streams -> Nat]
  /\ ended \subseteq Streams

(***************************************************************************)
(* Times.                                                                  *)
(***************************************************************************)

(* av_compare_ts *)
Before(q, s, t) == q.head_ts[s] * q.tb[s] < q.head_ts[t] * q.tb[t]

(* av_rescale_q of a timestamp that is not negative, to the nearest. *)
rescale(ts, from, to) == (2 * ts * from + to) \div (2 * to)

Known(q, s) == q.head_ts[s] # NOPTS

(***************************************************************************)
(* The functions of sync_queue.c.                                          *)
(***************************************************************************)

(* finish_stream: a limiting stream ends the streams that are not behind   *)
(* the first of those that are finished.                                   *)
finish_stream(q, s) ==
  LET ends == s \in limiting /\ Known(q, s)
      first == IF ends /\ (q.head_finished_stream = NoStream
                             \/ Before(q, s, q.head_finished_stream))
                 THEN s ELSE q.head_finished_stream
      ahead == {t \in Streams \ {first} : Known(q, t) /\ ~Before(q, t, first)}
      done == q.finished \union {s} \union (IF ends THEN ahead ELSE {})
  IN [q EXCEPT !.finished = done, !.head_finished_stream = first, !.over = q.over \/ done = Streams]

(* queue_head_update: the search begins at the present head, and at the    *)
(* first stream if there is none.                                          *)
queue_head_update(q) ==
  LET begin == IF q.head_stream = NoStream THEN 1 ELSE q.head_stream
      known == {s \in limiting : Known(q, s)}
      least == {s \in known : Before(q, s, begin) /\ \A t \in known : ~Before(q, t, s)}
  IN IF q.head_stream = NoStream /\ known # limiting THEN q
     ELSE [q EXCEPT !.head_stream = IF least = {} THEN begin ELSE First(least)]

(* Fault: the head of the queue stays when its stream moves on. *)
updateOther(q, s, ts) ==
  LET moved == [q EXCEPT !.head_ts = [q.head_ts EXCEPT ![s] = ts]]
      late == q.head_finished_stream # NoStream /\ ~Before(moved, s, q.head_finished_stream)
      kept == IF late THEN finish_stream(moved, s) ELSE moved
  IN IF ts = NOPTS \/ (Known(q, s) /\ q.head_ts[s] >= ts) THEN q
     ELSE IF s \in limiting /\ kept.head_stream = NoStream
       THEN queue_head_update(kept) ELSE kept

(* A stream that is no longer behind a finished one is finished too. *)
stream_update_ts(q, s, ts) ==
  LET moved == [q EXCEPT !.head_ts = [q.head_ts EXCEPT ![s] = ts]]
      late == q.head_finished_stream # NoStream /\ ~Before(moved, s, q.head_finished_stream)
      kept == IF late THEN finish_stream(moved, s) ELSE moved
  IN IF ts = NOPTS \/ (Known(q, s) /\ q.head_ts[s] >= ts) THEN q
     ELSE IF s \in limiting /\ kept.head_stream \in {NoStream, s}
       THEN queue_head_update(kept) ELSE kept

(* Fault: one frame more than frames_max. *)
sendOneMore(q, s, ts) ==
  LET written == [q EXCEPT !.fifo = [q.fifo EXCEPT ![s] = Append(q.fifo[s], ts)]]
      told == stream_update_ts(written, s, ts)
      counted == [told EXCEPT !.frames_sent =
                    [told.frames_sent EXCEPT ![s] = told.frames_sent[s] + 1]]
  IN IF s \in DOMAIN FramesMax /\ counted.frames_sent[s] > FramesMax[s]
       THEN finish_stream(counted, s) ELSE counted

(* sq_send of a frame to a stream that is not finished. *)
sq_send(q, s, ts) ==
  LET written == [q EXCEPT !.fifo = [q.fifo EXCEPT ![s] = Append(q.fifo[s], ts)]]
      told == stream_update_ts(written, s, ts)
      counted == [told EXCEPT !.frames_sent =
                    [told.frames_sent EXCEPT ![s] = told.frames_sent[s] + 1]]
  IN IF s \in DOMAIN FramesMax /\ counted.frames_sent[s] >= FramesMax[s]
       THEN finish_stream(counted, s) ELSE counted

(* Fault: ticks of two streams are compared as if they were equal. *)
readyByTicks(q, s) ==
  /\ q.fifo[s] # <<>>
  /\ \/ Head(q.fifo[s]) = NOPTS
     \/ q.head_stream # NoStream /\ Head(q.fifo[s]) <= q.head_ts[q.head_stream]

(* Fault: a frame that ends with the head of the queue has to wait. *)
readyBefore(q, s) ==
  /\ q.fifo[s] # <<>>
  /\ \/ Head(q.fifo[s]) = NOPTS
     \/ /\ q.head_stream # NoStream
        /\ Head(q.fifo[s]) * q.tb[s] < q.head_ts[q.head_stream] * q.tb[q.head_stream]

(* receive_for_stream: a frame is released if it does not end after the    *)
(* head of the queue, or has no timestamp.                                 *)
Ready(q, s) ==
  /\ q.fifo[s] # <<>>
  /\ \/ Head(q.fifo[s]) = NOPTS
     \/ /\ q.head_stream # NoStream
        /\ Head(q.fifo[s]) * q.tb[s] <= q.head_ts[q.head_stream] * q.tb[q.head_stream]

(* Fault: a finished stream is at its end, whatever it holds. *)
finishedIsEnd(q, s) == ~Ready(q, s) /\ (q.over \/ s \in q.finished)

AtEnd(q, s) == ~Ready(q, s) /\ (q.over \/ (s \in q.finished /\ q.fifo[s] = <<>>))

(* The frame that overflow_heartbeat looks at, and whether the stream has  *)
(* moved too far since.                                                    *)
Timed(q, s) == {i \in 1..Len(q.fifo[s]) : q.fifo[s][i] # NOPTS}
tail_ts(q, s) == q.fifo[s][First(Timed(q, s))]
Overflows(q, s) ==
  /\ Timed(q, s) # {} /\ tail_ts(q, s) < q.head_ts[s]
  /\ (q.head_ts[s] - tail_ts(q, s)) * q.tb[s] >= BufSize

(* The stream that is most ahead. *)
MostAhead(q) ==
  {s \in Streams : /\ Known(q, s)
                   /\ \A t \in Streams : ~Before(q, s, t) /\ (s <= t \/ Before(q, t, s))}

(***************************************************************************)
(* Its users.                                                              *)
(***************************************************************************)

NoBeat == [stream |-> 1, ts |-> 0, next |-> 1]

(* setup_sync_queues, and sq_limit_frames; before a muxer sends anything   *)
(* every stream has its time base (of_stream_init).                        *)
Init ==
  /\ limiting \in {l \in SUBSET Streams : DOMAIN FramesMax \subseteq l}
  /\ reader \in {"muxer", "encoders"}
  /\ timed = IF reader = "muxer" THEN Streams ELSE {}
  /\ LET none == {s \in DOMAIN FramesMax : FramesMax[s] = 0}
     IN sq = [tb |-> IF reader = "muxer" THEN Tick ELSE [s \in Streams |-> DefaultTick],
              head_ts |-> [s \in Streams |-> NOPTS], finished |-> none,
              fifo |-> [s \in Streams |-> <<>>], frames_sent |-> [s \in Streams |-> 0],
              head_stream |-> NoStream, head_finished_stream |-> NoStream,
              over |-> none = Streams]
  /\ at = "idle" /\ asked = NoStream /\ beat = NoBeat
  /\ outTime = [s \in Streams |-> 0] /\ ended = {}

(* sq_set_tb, when an encoder is opened. *)
sq_set_tb(s) ==
  /\ at = "idle" /\ s \notin timed
  /\ timed' = timed \union {s}
  /\ LET ts == IF Known(sq, s) THEN rescale(sq.head_ts[s], sq.tb[s], Tick[s]) ELSE NOPTS
     IN sq' = [sq EXCEPT !.head_ts = [sq.head_ts EXCEPT ![s] = ts],
                         !.tb = [sq.tb EXCEPT ![s] = Tick[s]]]
  /\ UNCHANGED <<limiting, reader, at, asked, beat, outTime, ended>>

(* sync_queue_process and submit_encode_frame: a frame is sent, ... *)
sendFrame(s, ts) ==
  /\ at = "idle" /\ s \in timed
  /\ IF s \in sq.finished
       THEN reader = "encoders" /\ UNCHANGED sq
       ELSE sq.frames_sent[s] < MaxFrames[s] /\ sq' = sq_send(sq, s, ts)
  /\ at' = "receive"
  /\ asked' = IF reader = "muxer" THEN NoStream ELSE s
  /\ UNCHANGED <<limiting, reader, timed, beat, outTime, ended>>

(* ... or the end of a stream, ... *)
sendEnd(s) ==
  /\ at = "idle" /\ s \in timed
  /\ sq' = finish_stream(sq, s)
  /\ at' = "receive"
  /\ asked' = IF reader = "muxer" THEN NoStream ELSE s
  /\ UNCHANGED <<limiting, reader, timed, beat, outTime, ended>>

(* close_output_stream and flush_encoders only send the end. *)
close_output_stream(s) ==
  /\ at = "idle" /\ reader = "encoders"
  /\ sq' = finish_stream(sq, s)
  /\ UNCHANGED <<limiting, reader, timed, at, asked, beat, outTime, ended>>

Asked == IF asked = NoStream THEN Streams ELSE {asked}

(* ... and frames are received until there is none.  sq_receive takes the  *)
(* first that is ready; if there is none, but more may come, it tells the  *)
(* streams that are behind a queue that overflows and tries once again.    *)
receiveFrame ==
  /\ at \in {"receive", "again"}
  /\ LET ready == {s \in Asked : Ready(sq, s)}
         s == First(ready)
         time == Head(sq.fifo[s]) * sq.tb[s]
     IN /\ ready # {}
        /\ sq' = [sq EXCEPT !.fifo = [sq.fifo EXCEPT ![s] = Tail(sq.fifo[s])]]
        /\ outTime' = IF Head(sq.fifo[s]) = NOPTS \/ time <= outTime[s] THEN outTime
                      ELSE [outTime EXCEPT ![s] = time]
  /\ at' = "receive"
  /\ UNCHANGED <<limiting, reader, timed, asked, beat, ended>>

receiveEnd ==
  /\ at \in {"receive", "again"}
  /\ \A s \in Asked : AtEnd(sq, s)
  /\ ended' = ended \union Asked
  /\ at' = "idle"
  /\ UNCHANGED <<limiting, reader, sq, timed, asked, beat, outTime>>

Lagging == \E s \in Asked : ~AtEnd(sq, s)
Chosen == IF asked = NoStream THEN MostAhead(sq) ELSE {asked}

overflow_heartbeat ==
  /\ at = "receive" /\ \A s \in Asked : ~Ready(sq, s)
  /\ Lagging
  /\ \E s \in Chosen :
       /\ Overflows(sq, s)
       /\ beat' = [stream |-> s, ts |-> tail_ts(sq, s) + 1, next |-> 1]
  /\ at' = "beat"
  /\ UNCHANGED <<limiting, reader, sq, timed, asked, outTime, ended>>

(* Fault: only the streams without a timestamp are told. *)
fakeFirstTimestamp ==
  /\ at = "beat"
  /\ LET s == beat.next
         fake == rescale(beat.ts, sq.tb[beat.stream], sq.tb[s])
     IN /\ sq' = IF s # beat.stream /\ s \notin sq.finished /\ ~Known(sq, s)
                   THEN stream_update_ts(sq, s, fake) ELSE sq
        /\ beat' = IF s = NStreams THEN NoBeat ELSE [beat EXCEPT !.next = s + 1]
        /\ at' = IF s = NStreams THEN "again" ELSE "beat"
  /\ UNCHANGED <<limiting, reader, timed, asked, outTime, ended>>

(* A stream that keeps the frame from being received gets a fake timestamp. *)
fakeTimestamp ==
  /\ at = "beat"
  /\ LET s == beat.next
         st == beat.stream
         ts == rescale(beat.ts, sq.tb[st], sq.tb[s])
         fake == IF Known(sq, s) /\ sq.head_ts[s] + 1 > ts THEN sq.head_ts[s] + 1 ELSE ts
         behind == ~Known(sq, s) \/ beat.ts * sq.tb[st] > sq.head_ts[s] * sq.tb[s]
     IN /\ sq' = IF s # st /\ s \notin sq.finished /\ behind
                   THEN stream_update_ts(sq, s, fake) ELSE sq
        /\ beat' = IF s = NStreams THEN NoBeat ELSE [beat EXCEPT !.next = s + 1]
        /\ at' = IF s = NStreams THEN "again" ELSE "beat"
  /\ UNCHANGED <<limiting, reader, timed, asked, outTime, ended>>

tryAgainLater ==
  /\ at \in {"receive", "again"} /\ \A s \in Asked : ~Ready(sq, s)
  /\ Lagging
  /\ at = "again" \/ \A s \in Chosen : ~Overflows(sq, s)
  /\ at' = "idle"
  /\ UNCHANGED <<limiting, reader, sq, timed, asked, beat, outTime, ended>>

Next ==
  \/ receiveFrame \/ receiveEnd \/ overflow_heartbeat \/ fakeTimestamp \/ tryAgainLater
  \/ \E s \in Streams :
       \/ sq_set_tb(s) \/ sendEnd(s) \/ close_output_stream(s)
       \/ \E ts \in Timestamps : sendFrame(s, ts)

Spec == Init /\ [][Next]_vars

(***************************************************************************)
(* Properties.                                                             *)
(***************************************************************************)

(* A stream that has frames_max outputs no more (sq_limit_frames).         *)
FramesAreLimited == \A s \in DOMAIN FramesMax : sq.frames_sent[s] <= FramesMax[s]

(* The head of the queue is the limiting stream that is most behind, and   *)
(* there is none before all of them have a timestamp.  If the first stream *)
(* is not limiting, the placeholder of queue_head_update can be before all *)
(* of them; then it is the head for good (sync_queue.c says "correct one   *)
(* will be found below").                                                  *)
HeadIsLeast ==
  sq.head_stream # NoStream =>
    \/ /\ sq.head_stream \in limiting
       /\ \A l \in limiting : Known(sq, l) /\ ~Before(sq, l, sq.head_stream)
    \/ sq.head_stream = 1 /\ 1 \notin limiting

(* No frame is released that ends after what a limiting stream has         *)
(* reached: it could be longer than that stream (sync_queue.h: "no other   *)
(* stream can be longer than this one").  What it has reached is the fake  *)
(* timestamp of a heartbeat too.                                           *)
LimitHolds ==
  1 \in limiting =>
    \A s \in Streams, l \in limiting :
      Known(sq, l) => outTime[s] <= sq.head_ts[l] * sq.tb[l]

(* Only the excess is dropped: when all is over, the limiting stream that  *)
(* ends first has been released as a whole.                                *)
ShortestIsWhole ==
  1 \in limiting /\ ended = Streams =>
    \A s \in limiting :
      (\A l \in limiting : Known(sq, l) /\ ~Before(sq, l, s)) => sq.fifo[s] = <<>>

(* What waits is bounded by BufSize: if the stream that is most ahead      *)
(* overflows even after a heartbeat, which is tried only once, then every  *)
(* stream that can still move has reached its oldest frame, but for half a *)
(* tick of its own: the fake timestamp is rounded to a tick (sync_queue.c: *)
(* "signal a fake timestamp for all streams that prevent tail_ts from      *)
(* being output").                                                         *)
OneHeartbeatIsEnough ==
  at = "idle" /\ reader = "muxer" =>
    \A s \in MostAhead(sq), t \in Streams \ sq.finished :
      Overflows(sq, s) =>
        /\ Known(sq, t)
        /\ 2 * tail_ts(sq, s) * sq.tb[s] < (2 * sq.head_ts[t] + 1) * sq.tb[t]

(* Once a reader has been told that a stream is at its end, no frame of it *)
(* is taken or given (sq_send and sq_receive: AVERROR_EOF).                *)
EofIsFinal == [][\A s \in ended : sq'.fifo[s] = sq.fifo[s]]_vars
================================================================================

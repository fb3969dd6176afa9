--------------------------------- MODULE Muxer ---------------------------------
(***************************************************************************)
(* One output file (ffmpeg_mux.c): what the main thread calls              *)
(* (of_stream_init, of_output_packet, of_write_trailer, of_close), the     *)
(* queues that keep packets until every stream is initialized, the thread  *)
(* that writes the file, and the ThreadQueue between the two threads.      *)
(*                                                                         *)
(* A call of the main thread is as many steps as it takes the lock of the  *)
(* queue, blocks or starts the thread; at says where it is.  The packets   *)
(* of a stream are numbered as they are given, so that the file shows      *)
(* which of them it holds.  Not modelled: the sync queue (-shortest and    *)
(* -frames), which is SyncQueue's, bitstream filters, -sdp_file (any       *)
(* output but rtp clears want_sdp), allocations that fail.                 *)
(***************************************************************************)
EXTENDS ThreadQueue

CONSTANTS
  MaxQueued,    \* max_muxing_queue_size: the limit of a muxing queue over its threshold
  MaxPackets    \* bound: the packets given to a stream

ASSUME MuxerAssumption == MaxQueued \in Nat \ {0} /\ MaxPackets \in Nat

VARIABLES
  initialized,     \* the streams that are initialized
  tq, running,     \* mux->tq, and that it is not NULL
  muxingQueue,     \* ms->muxing_queue of each stream
  muxerFinished,   \* the streams with MUXER_FINISHED
  at, cargo,       \* the call of the main thread, and the packet it carries
  flushing,        \* thread_start is emptying the muxing queues
  closing,         \* why thread_stop runs: "no", "trailer" or "close"
  muxPc, muxRet,   \* the muxer thread, and what it returns
  file, trailer,   \* the packets in the file, and what became of its trailer
  given,           \* history: the packets given so far
  refusals,        \* history: the errors submit_packet returned
  main_return_code

mainVars == <<initialized, running, muxingQueue, muxerFinished, at, cargo, flushing, closing,
              trailer, given, refusals, main_return_code>>
threadVars == <<muxPc, muxRet, file>>
muxerVars == <<mainVars, threadVars, tq>>

(* 0 and a negative number *)
Answers == {"ok", "error"}
Nothing == [ost |-> 1, pkt |-> NULL]

MuxerTypeOK ==
  /\ initialized \subseteq Streams
  /\ tq \in Queues /\ running \in BOOLEAN
  /\ muxingQueue \in [Streams -> Seq(Nat)]
  /\ muxerFinished \subseteq Streams
  /\ at \in {"idle", "send", "refused", "stop", "join", "closed"}
  /\ cargo \in Items
  /\ flushing \in BOOLEAN
  /\ closing \in {"no", "trailer", "close"}
  /\ muxPc \in {"none", "receive", "finish", "ended"}
  /\ muxRet \in Answers
  /\ file \in [Streams -> Seq(Nat)]
  /\ trailer \in {"none", "nothing", "written", "failed"}
  /\ given \in [Streams -> Nat]
  /\ refusals \subseteq {"ENOSPC", "EINVAL"}
  /\ main_return_code \in Answers

MuxerInit ==
  /\ initialized = {}
  /\ tq = tq_alloc /\ running = FALSE
  /\ muxingQueue = [s \in Streams |-> <<>>]
  /\ muxerFinished = {}
  /\ at = "idle" /\ cargo = Nothing
  /\ flushing = FALSE
  /\ closing = "no"
  /\ muxPc = "none" /\ muxRet = "ok"
  /\ file = [s \in Streams |-> <<>>] /\ trailer = "none"
  /\ given = [s \in Streams |-> 0]
  /\ refusals = {}
  /\ main_return_code = "ok"

Free == at = "idle" /\ ~flushing
Writable == Free /\ trailer = "none"    \* the callers' order: the trailer is last

(***************************************************************************)
(* The main thread.                                                        *)
(***************************************************************************)

(* of_stream_init of stream s: the last one writes the header and starts   *)
(* the thread (mux_check_init).  It fails on the header, or before, on the *)
(* stream itself.                                                          *)
of_stream_init(s, result) ==
  /\ Writable /\ s \notin initialized
  /\ initialized' = IF result = "stream" THEN initialized ELSE initialized \union {s}
  /\ IF initialized' = Streams
       THEN /\ result \in {"ok", "header"}
            /\ tq' = IF result = "ok" THEN tq_alloc ELSE tq
            /\ running' = (result = "ok")
            /\ flushing' = (result = "ok")
            /\ muxPc' = IF result = "ok" THEN "receive" ELSE muxPc
       ELSE /\ result \in {"ok", "stream"}
            /\ UNCHANGED <<tq, running, flushing, muxPc>>
  /\ UNCHANGED <<muxingQueue, muxerFinished, at, cargo, closing, muxRet, file, trailer,
                 given, refusals, main_return_code>>

(* thread_submit_packet, as far as its tq_send. *)
thread_submit_packet(s, pkt) ==
  /\ cargo' = [ost |-> s, pkt |-> pkt]
  /\ at' = IF pkt = NULL \/ s \in muxerFinished THEN "refused" ELSE "send"

(* Fault: a packet for a muxer that is not started replaces the last one.  *)
queuePacketOverwrites(s, pkt) ==
  /\ muxingQueue' = [muxingQueue EXCEPT ![s] = <<pkt>>]
  /\ UNCHANGED refusals

(* The muxing queue doubles until it is over its threshold of bytes, which *)
(* depends on the sizes of the packets, and holds MaxQueued from there on. *)
queue_packet(s, pkt) ==
  /\ \/ /\ muxingQueue' = [muxingQueue EXCEPT ![s] = Append(muxingQueue[s], pkt)]
        /\ UNCHANGED refusals
     \/ /\ Len(muxingQueue[s]) >= MaxQueued
        /\ refusals' = refusals \union {"ENOSPC"}
        /\ UNCHANGED muxingQueue

submit_packet(s, pkt) ==
  IF running
    THEN thread_submit_packet(s, pkt) /\ UNCHANGED <<muxingQueue, refusals>>
    ELSE queue_packet(s, pkt) /\ UNCHANGED <<at, cargo>>

(* of_output_packet: the next packet of stream s, or its end. *)
of_output_packet(s, eof) ==
  /\ Writable
  /\ eof \/ given[s] < MaxPackets
  /\ given' = IF eof THEN given ELSE [given EXCEPT ![s] = given[s] + 1]
  /\ submit_packet(s, IF eof THEN NULL ELSE given'[s])
  /\ UNCHANGED <<threadVars, initialized, tq, running, muxerFinished, flushing, closing,
                 trailer, main_return_code>>

(* Fault: a packet that is sent stays in its muxing queue. *)
flushTwice ==
  /\ flushing /\ at = "idle"
  /\ LET waiting == {s \in Streams : muxingQueue[s] # <<>>}
         s == First(waiting)
     IN IF waiting = {}
          THEN /\ flushing' = FALSE
               /\ UNCHANGED <<at, cargo, muxingQueue>>
          ELSE /\ thread_submit_packet(s, Head(muxingQueue[s]))
               /\ UNCHANGED <<flushing, muxingQueue>>
  /\ UNCHANGED <<threadVars, initialized, tq, running, muxerFinished, closing, trailer,
                 given, refusals, main_return_code>>

(* thread_start: the muxing queues, stream by stream. *)
flushMuxingQueue ==
  /\ flushing /\ at = "idle"
  /\ LET waiting == {s \in Streams : muxingQueue[s] # <<>>}
         s == First(waiting)
     IN IF waiting = {}
          THEN /\ flushing' = FALSE
               /\ UNCHANGED <<at, cargo, muxingQueue>>
          ELSE /\ thread_submit_packet(s, Head(muxingQueue[s]))
               /\ muxingQueue' = [muxingQueue EXCEPT ![s] = Tail(muxingQueue[s])]
               /\ UNCHANGED flushing
  /\ UNCHANGED <<threadVars, initialized, tq, running, muxerFinished, closing, trailer,
                 given, refusals, main_return_code>>

(* tq_send of the packet in hand.  A sender that has to wait tries again   *)
(* once it is woken.                                                       *)
sendToThread ==
  /\ at = "send" /\ "sender" \notin tq.asleep
  /\ LET answer == sendAnswer(tq, cargo.ost)
     IN /\ tq' = tq_send(tq, cargo.ost, cargo.pkt)
        /\ at' = CASE answer = "ok" -> "idle"
                   [] answer = "wait" -> "send"
                   [] OTHER -> "refused"
        /\ cargo' = IF answer = "ok" THEN Nothing ELSE cargo
        /\ refusals' = IF answer = "EINVAL" THEN refusals \union {"EINVAL"} ELSE refusals
  /\ UNCHANGED <<threadVars, initialized, running, muxingQueue, muxerFinished, flushing,
                 closing, trailer, given, main_return_code>>

(* Fault: the finish is told to the queue alone. *)
finishQuietly ==
  /\ at = "refused"
  /\ tq' = tq_send_finish(tq, cargo.ost)
  /\ at' = "idle" /\ cargo' = Nothing
  /\ UNCHANGED <<threadVars, initialized, running, muxingQueue, muxerFinished, flushing,
                 closing, trailer, given, refusals, main_return_code>>

(* The finish: of thread_submit_packet. *)
finishStream ==
  /\ at = "refused"
  /\ muxerFinished' = muxerFinished \union {cargo.ost}
  /\ tq' = tq_send_finish(tq, cargo.ost)
  /\ at' = "idle" /\ cargo' = Nothing
  /\ UNCHANGED <<threadVars, initialized, running, muxingQueue, flushing, closing,
                 trailer, given, refusals, main_return_code>>

(* of_write_trailer: thread_stop, if there is a queue. *)
of_write_trailer ==
  /\ Writable
  /\ IF running
       THEN at' = "stop" /\ closing' = "trailer" /\ UNCHANGED trailer
       ELSE trailer' = "nothing" /\ UNCHANGED <<at, closing>>
  /\ UNCHANGED <<threadVars, initialized, tq, running, muxingQueue, muxerFinished, cargo,
                 flushing, given, refusals, main_return_code>>

(* of_close, after the trailer or instead of it. *)
of_close ==
  /\ Free
  /\ IF running THEN at' = "stop" /\ closing' = "close"
                ELSE at' = "closed" /\ UNCHANGED closing
  /\ UNCHANGED <<threadVars, initialized, tq, running, muxingQueue, muxerFinished, cargo,
                 flushing, trailer, given, refusals, main_return_code>>

(* thread_stop: tq_send_finish of each stream, then pthread_join.  For a   *)
(* stream that is finished it changes nothing that its own tq_send_finish  *)
(* has not.                                                                *)
stopStreams ==
  /\ at = "stop"
  /\ LET open == Streams \ tq.sendFinished
     IN IF open = {} THEN at' = "join" /\ UNCHANGED tq
                     ELSE tq' = tq_send_finish(tq, First(open)) /\ UNCHANGED at
  /\ UNCHANGED <<threadVars, initialized, running, muxingQueue, muxerFinished, cargo, flushing,
                 closing, trailer, given, refusals, main_return_code>>

(* Fault: the queue is freed without waiting for the thread. *)
joinTooEarly(result) ==
  /\ at = "join"
  /\ tq' = tq_alloc /\ running' = FALSE
  /\ at' = IF closing = "trailer" THEN "idle" ELSE "closed"
  /\ trailer' = IF closing = "trailer" THEN result ELSE trailer
  /\ main_return_code' =
       IF closing = "trailer" /\ muxRet # "ok" THEN muxRet ELSE main_return_code
  /\ closing' = "no"
  /\ UNCHANGED <<threadVars, initialized, muxingQueue, muxerFinished, cargo, flushing,
                 given, refusals>>

(* The thread is joined and the queue freed.  of_write_trailer keeps the   *)
(* thread's error, and its own answer is result.                           *)
joinThread(result) ==
  /\ at = "join" /\ muxPc = "ended"
  /\ tq' = tq_alloc /\ running' = FALSE
  /\ at' = IF closing = "trailer" THEN "idle" ELSE "closed"
  /\ trailer' = IF closing = "trailer" THEN result ELSE trailer
  /\ main_return_code' =
       IF closing = "trailer" /\ muxRet # "ok" THEN muxRet ELSE main_return_code
  /\ closing' = "no"
  /\ UNCHANGED <<threadVars, initialized, muxingQueue, muxerFinished, cargo, flushing,
                 given, refusals>>

MainStep ==
  \/ flushMuxingQueue \/ sendToThread \/ finishStream \/ stopStreams
  \/ \E result \in {"written", "failed"} : joinThread(result)

MainCall ==
  \/ of_write_trailer \/ of_close
  \/ \E s \in Streams :
       \/ \E eof \in BOOLEAN : of_output_packet(s, eof)
       \/ \E result \in {"ok", "stream", "header"} : of_stream_init(s, result)

(***************************************************************************)
(* The muxer thread.                                                       *)
(***************************************************************************)

(* write_packet: the file takes the packet; or it has reached -fs, or the  *)
(* write fails.  Both are errors, and end the thread.                      *)
write_packet(s, pkt, result) ==
  /\ file' = IF result = "ok" THEN [file EXCEPT ![s] = Append(file[s], pkt)] ELSE file
  /\ muxRet' = result
  /\ muxPc' = IF result = "ok" THEN "receive" ELSE "finish"

(* One turn of the loop of muxer_thread.  Only tq_receive is shared with   *)
(* the main thread, so what is done with the packet (sync_queue_process,   *)
(* without a sync queue) is part of the step.                              *)
receivePacket(result) ==
  /\ muxPc = "receive" /\ "receiver" \notin tq.asleep
  /\ tq' = tq_receive(tq)
  /\ IF receiveAnswer(tq) = "ok"
       THEN write_packet(received(tq).ost, received(tq).pkt, result)
       ELSE /\ result = "ok"
            /\ muxPc' = IF receiveAnswer(tq) = "finished" THEN "finish" ELSE "receive"
            /\ UNCHANGED <<file, muxRet>>
  /\ UNCHANGED mainVars

(* The finish: of muxer_thread: tq_receive_finish of each stream. *)
finishThread ==
  /\ muxPc = "finish"
  /\ LET open == Streams \ tq.recvFinished
     IN IF open = {} THEN muxPc' = "ended" /\ UNCHANGED tq
                     ELSE tq' = tq_receive_finish(tq, First(open)) /\ UNCHANGED muxPc
  /\ UNCHANGED <<mainVars, muxRet, file>>

MuxerThread ==
  \/ finishThread
  \/ \E result \in Answers : receivePacket(result)

MuxerNext == MainCall \/ MainStep \/ MuxerThread

MuxerSpec == MuxerInit /\ [][MuxerNext]_muxerVars

(***************************************************************************)
(* Properties.                                                             *)
(***************************************************************************)

(* Whatever the threads do, the file is what MuxContract promises.         *)
Promised == INSTANCE MuxContract WITH over <- trailer # "none" \/ at = "closed"
MuxerKeepsContract == Promised!Contract

(* The queue is not freed under the thread that reads it, and there is no  *)
(* thread without a queue (thread_stop, muxer_thread).                     *)
QueueOutlivesThread == muxPc \notin {"none", "ended"} => running

(* tq_send is never called for a stream that the sender has finished:      *)
(* MUXER_FINISHED and FINISHED_SEND keep in step, though one is set        *)
(* outside the lock and the other by either side (thread_submit_packet).   *)
SendIsNeverInvalid == "EINVAL" \notin refusals

(* No one sleeps over what he waits for: a sender not over room or the end *)
(* of its stream, a receiver not over a packet or an end (the broadcasts   *)
(* of thread_queue.c).                                                     *)
NoLostWakeUp ==
  /\ "sender" \in tq.asleep => sendAnswer(tq, cargo.ost) = "wait"
  /\ "receiver" \in tq.asleep => receiveAnswer(tq) = "wait"
================================================================================

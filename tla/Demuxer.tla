-------------------------------- MODULE Demuxer --------------------------------
(***************************************************************************)
(* The input files (ffmpeg_demux.c): a thread for each file that reads     *)
(* packets into a bounded queue, and what the main thread calls            *)
(* (ifile_get_packet, ifile_close).  The queue is libavutil's thread       *)
(* message queue, modelled from how it is used: a send waits while the     *)
(* queue is full unless err_send is set, a receive waits while it is empty *)
(* unless err_recv is set, and messages come before the error.             *)
(*                                                                         *)
(* A message is the input stream of its packet, or LOOPING.  A file that   *)
(* loops (-stream_loop) tells the main thread, which flushes its decoders  *)
(* and sends the length of the last frame of each, before it reads again.  *)
(***************************************************************************)
EXTENDS Integers, Sequences, FiniteSets

CONSTANTS
  Inputs,       \* the input streams, as numbers
  FileOf,       \* the file of each of them
  Decoded,      \* those that are decoded; all are audio
  InQueueSize,  \* thread_queue_size of the input files
  NonBlocking,  \* the files that are not seekable, beside others
  Loops,        \* -stream_loop of each file: the times it is read again
  MaxRead       \* bound: the packets read from a file

Files == {FileOf[i] : i \in Inputs}

ASSUME DemuxerAssumption ==
  /\ Inputs \subseteq Nat \ {0} /\ IsFiniteSet(Inputs) /\ Decoded \subseteq Inputs
  /\ FileOf \in [Inputs -> Nat]
  /\ InQueueSize \in Nat \ {0}
  /\ Loops \in [Files -> Nat]
  /\ MaxRead \in Nat

LOOPING == 0
Messages == Inputs \union {LOOPING}

Decoders(f) == Cardinality({i \in Decoded : FileOf[i] = f})

VARIABLES
  dmxPc,       \* input_thread of each file
  inQueue,     \* in_thread_queue of each file that has one
  opened,      \* the files whose in_thread_queue is not NULL
  errSend, errRecv,   \* the files with av_thread_message_queue_set_err_send and _recv
  durations,   \* the lengths in audio_duration_queue, which are never full
  gotDurations,       \* those seek_to_start has taken
  passes,      \* d->loop
  packetsRead,  \* history: the packets read so far
  stopping     \* the files in thread_stop, after set_err_send

demuxerThreadVars == <<dmxPc, gotDurations, passes, packetsRead>>
demuxerVars == <<demuxerThreadVars, inQueue, opened, errSend, errRecv, durations, stopping>>

DemuxerTypeOK ==
  /\ dmxPc \in [Files -> {"none", "read", "seek", "ended"}]
  /\ inQueue \in [Files -> Seq(Messages)]
  /\ opened \subseteq Files /\ errSend \subseteq Files /\ errRecv \subseteq Files
  /\ durations \in [Files -> Nat] /\ gotDurations \in [Files -> Nat]
  /\ passes \in [Files -> Nat] /\ packetsRead \in [Files -> Nat]
  /\ stopping \subseteq Files

DemuxerInit ==
  /\ dmxPc = [f \in Files |-> "none"]
  /\ inQueue = [f \in Files |-> <<>>]
  /\ opened = {} /\ errSend = {} /\ errRecv = {}
  /\ durations = [f \in Files |-> 0] /\ gotDurations = [f \in Files |-> 0]
  /\ passes = Loops /\ packetsRead = [f \in Files |-> 0]
  /\ stopping = {}

(***************************************************************************)
(* The demuxer thread of file f.                                           *)
(***************************************************************************)

(* The end of the thread: set_err_recv.  What it did since it last looked  *)
(* at the queue was its own.                                               *)
endThread(f) ==
  /\ errRecv' = errRecv \union {f}
  /\ dmxPc' = [dmxPc EXCEPT ![f] = "ended"]
  /\ UNCHANGED <<inQueue, packetsRead>>

(* av_read_frame and the av_thread_message_queue_send that follows: a      *)
(* packet of any stream of the file; or its end or an error, which only    *)
(* the log tells apart, and with which a file that loops sends LOOPING.    *)
readAndSend(f) ==
  /\ dmxPc[f] = "read"
  /\ \/ /\ f \in errSend \/ passes[f] = 0
        /\ endThread(f)
     \/ /\ f \notin errSend /\ Len(inQueue[f]) < InQueueSize
        /\ \/ /\ packetsRead[f] < MaxRead
              /\ \E i \in Inputs :
                   /\ FileOf[i] = f
                   /\ inQueue' = [inQueue EXCEPT ![f] = Append(inQueue[f], i)]
              /\ packetsRead' = [packetsRead EXCEPT ![f] = packetsRead[f] + 1]
              /\ UNCHANGED dmxPc
           \/ /\ passes[f] > 0
              /\ inQueue' = [inQueue EXCEPT ![f] = Append(inQueue[f], LOOPING)]
              /\ dmxPc' = [dmxPc EXCEPT ![f] = "seek"]
              /\ UNCHANGED packetsRead
        /\ UNCHANGED errRecv
  /\ UNCHANGED <<opened, errSend, durations, gotDurations, passes, stopping>>

(* seek_to_start: the seek fails, or every decoder's duration is received, *)
(* one at a time, and the file is read again.                              *)
seek_to_start(f) ==
  /\ dmxPc[f] = "seek"
  /\ \/ /\ gotDurations[f] = 0
        /\ endThread(f)
        /\ UNCHANGED <<durations, gotDurations, passes>>
     \/ /\ gotDurations[f] < Decoders(f) /\ durations[f] > 0
        /\ durations' = [durations EXCEPT ![f] = durations[f] - 1]
        /\ gotDurations' = [gotDurations EXCEPT ![f] = gotDurations[f] + 1]
        /\ UNCHANGED <<dmxPc, inQueue, errRecv, passes, packetsRead>>
     \/ /\ gotDurations[f] = Decoders(f)
        /\ gotDurations' = [gotDurations EXCEPT ![f] = 0]
        /\ passes' = [passes EXCEPT ![f] = passes[f] - 1]
        /\ dmxPc' = [dmxPc EXCEPT ![f] = "read"]
        /\ UNCHANGED <<inQueue, errRecv, durations, packetsRead>>
  /\ UNCHANGED <<opened, errSend, stopping>>

input_thread(f) == readAndSend(f) \/ seek_to_start(f)

(***************************************************************************)
(* The main thread.                                                        *)
(***************************************************************************)

(* ifile_get_packet, in the first call: thread_start. *)
thread_start(f) ==
  /\ f \notin opened /\ dmxPc[f] = "none"
  /\ opened' = opened \union {f}
  /\ dmxPc' = [dmxPc EXCEPT ![f] = "read"]
  /\ UNCHANGED <<inQueue, errSend, errRecv, durations, gotDurations, passes,
                 packetsRead, stopping>>

(* Its three answers: a message, the error of the thread, and EAGAIN.      *)
ifile_get_packet(f) ==
  /\ f \in opened \ stopping /\ inQueue[f] # <<>>
  /\ inQueue' = [inQueue EXCEPT ![f] = Tail(inQueue[f])]
  /\ UNCHANGED <<demuxerThreadVars, opened, errSend, errRecv, durations, stopping>>

Exhausted(f) == f \in opened /\ inQueue[f] = <<>> /\ f \in errRecv
TryAgain(f) == f \in opened \intersect NonBlocking /\ inQueue[f] = <<>> /\ f \notin errRecv

(* decode_flush: the length of the last frame of a decoder. *)
sendDuration(f) ==
  /\ f \in opened \ stopping
  /\ durations' = [durations EXCEPT ![f] = durations[f] + 1]
  /\ UNCHANGED <<demuxerThreadVars, inQueue, opened, errSend, errRecv, stopping>>

(* thread_stop: set_err_send, ... *)
thread_stop(f) ==
  /\ f \in opened \ stopping
  /\ errSend' = errSend \union {f}
  /\ stopping' = stopping \union {f}
  /\ UNCHANGED <<demuxerThreadVars, inQueue, opened, errRecv, durations>>

(* ... receive what is left until err_recv is set, ... *)
drainQueue(f) ==
  /\ f \in stopping \intersect opened /\ inQueue[f] # <<>>
  /\ inQueue' = [inQueue EXCEPT ![f] = Tail(inQueue[f])]
  /\ UNCHANGED <<demuxerThreadVars, opened, errSend, errRecv, durations, stopping>>

(* ... join the thread and free the queues. *)
joinDemuxer(f) ==
  /\ f \in stopping \intersect opened /\ Exhausted(f) /\ dmxPc[f] = "ended"
  /\ opened' = opened \ {f}
  /\ UNCHANGED <<demuxerThreadVars, inQueue, errSend, errRecv, durations, stopping>>

DemuxerCall(f) ==
  \/ thread_start(f) \/ ifile_get_packet(f) \/ sendDuration(f)
  \/ thread_stop(f) \/ drainQueue(f) \/ joinDemuxer(f)

DemuxerNext == \E f \in Files : input_thread(f) \/ DemuxerCall(f)

DemuxerSpec == DemuxerInit /\ [][DemuxerNext]_demuxerVars

(***************************************************************************)
(* Properties.                                                             *)
(***************************************************************************)

(* The queues are not freed under the thread that uses them (thread_stop,  *)
(* input_thread).                                                          *)
QueuesOutliveThreads == \A f \in Files : dmxPc[f] \notin {"none", "ended"} => f \in opened

(* decode_flush never waits for room in audio_duration_queue, which the    *)
(* demuxer empties once in each pass: the main thread would wait for a     *)
(* thread that may be waiting for it.                                      *)
DurationsFit == \A f \in Files : durations[f] + gotDurations[f] <= Decoders(f)

(* A file that loops waits for the durations of its decoders, and nothing  *)
(* but them ends the wait: audio_duration_queue has no error set.          *)
SeekStuck(f) ==
  dmxPc[f] = "seek" /\ f \in stopping /\ gotDurations[f] < Decoders(f) /\ durations[f] = 0
================================================================================

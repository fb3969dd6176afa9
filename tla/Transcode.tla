------------------------------- MODULE Transcode -------------------------------
(***************************************************************************)
(* A native run (run and transcode of ffmpeg.c) with one output file: the  *)
(* main thread, which takes packets from the demuxer threads, copies them  *)
(* or decodes, filters and encodes them, and hands them to the muxer       *)
(* thread.  Muxer and Demuxer are its parts; this module is the main       *)
(* thread that calls them.                                                 *)
(*                                                                         *)
(* work is what that thread has still to do, the innermost call first.  A  *)
(* call of the muxer that blocks is finished before the next piece of work *)
(* begins (Free).  Frames have no identity: the decoders, the graphs and   *)
(* the encoders only hold some.  Every output stream copies an input or    *)
(* encodes what its own filter graph yields, all audio.  Not modelled:     *)
(* video, subtitles, attachments, -shortest between encoders (sq_encode),  *)
(* keys and signals, -xerror, -re, allocations that fail.                  *)
(***************************************************************************)
EXTENDS Muxer, Demuxer

LOCAL Funs == INSTANCE Functions

CONSTANTS
  CopyOf,     \* the input each copying output stream copies
  GraphOf     \* the inputs of the graph of each encoding output stream

Copying == DOMAIN CopyOf
Encoding == DOMAIN GraphOf

ASSUME TranscodeAssumption ==
  /\ Copying \union Encoding = Streams /\ Copying \intersect Encoding = {}
  /\ Decoded = UNION {GraphOf[o] : o \in Encoding}
  /\ Inputs = Decoded \union {CopyOf[o] : o \in Copying}
  /\ \A o, p \in Encoding : o # p => GraphOf[o] \intersect GraphOf[p] = {}

VARIABLES
  work,                 \* what main still has to do
  eofReached, eagain,   \* the files with these flags
  unavailable,          \* the output streams with this flag
  encFinished,          \* those with ENCODER_FINISHED
  decoding,             \* the frames each decoder holds
  known,                \* the inputs of graphs whose format is known
  closed,               \* those that got their EOF
  queued,               \* the frames in frame_queue of each input
  configured,           \* the graphs that are configured
  inGraph,              \* the frames in each of them
  keeping,              \* the encoders that keep a frame
  result                \* what the run reports

graphVars == <<known, closed, queued, configured, inGraph>>
flagVars == <<eofReached, eagain, unavailable, encFinished>>
codecVars == <<decoding, keeping>>
runVars == <<work, graphVars, codecVars, flagVars, result>>
vars == <<muxerVars, demuxerVars, runVars>>

Item(do, of) == [do |-> do, of |-> of]
Doing(do) == Free /\ work # <<>> /\ Head(work).do = do
Subject == Head(work).of
Rest == Tail(work)

(* Work is listed for streams and files that exist, so these add no guard: *)
(* a run that they stopped would not return (RunReturns).                  *)
OfStream == work # <<>> /\ Subject \in Streams
OfInput == work # <<>> /\ Subject \in Inputs
OfFile == work # <<>> /\ Subject \in Files

(* The same work for each member of a set of numbers, in their order. *)
ForEach(do, S) == LET nth(k) == CHOOSE x \in S : Cardinality({y \in S : y <= x}) = k
                  IN [k \in 1..Cardinality(S) |-> Item(do, nth(k))]

StreamsOf(f) == {i \in Inputs : FileOf[i] = f}
CopiesOf(i) == {o \in Copying : CopyOf[o] = i}
GraphFor(i) == CHOOSE o \in Encoding : i \in GraphOf[o]
finished == encFinished \union muxerFinished
need_output == Streams \ finished # {}

(* Fault: the input files are not closed. *)
halfCleanup == <<Item("close", 0)>>

(* ffmpeg_cleanup, which both ends of a run call: of_close, ifile_close.   *)
ffmpeg_cleanup == <<Item("close", 0)>> \o ForEach("stop", Files)

(* exit_program, the other way out. *)
exit_program == ffmpeg_cleanup \o <<Item("failed", 0)>>

(* What transcode and run do after the loop. *)
afterLoop ==
  ForEach("drain", {i \in Inputs : FileOf[i] \notin eofReached}) \o ForEach("flush", Encoding)
    \o <<Item("trailer", 0), Item("verdict", 0), Item("report", 0)>> \o ffmpeg_cleanup

Init ==
  /\ MuxerInit /\ DemuxerInit
  /\ work = <<Item("decoders", 0)>> \o ForEach("init", Copying) \o <<Item("loop", 0)>>
  /\ eofReached = {} /\ eagain = {} /\ unavailable = {} /\ encFinished = {}
  /\ decoding = [i \in Decoded |-> 0] /\ keeping = {}
  /\ known = {} /\ closed = {} /\ configured = {}
  /\ queued = [i \in Decoded |-> 0]
  /\ inGraph = [o \in Encoding |-> 0]
  /\ result = "none"

(* init_input_stream of every input: a decoder that cannot be opened ends  *)
(* the run.                                                                *)
init_input_stream ==
  /\ Doing("decoders")
  /\ \/ work' = Rest
     \/ Decoded # {} /\ work' = exit_program
  /\ UNCHANGED <<muxerVars, demuxerVars, graphVars, codecVars, flagVars, result>>

(***************************************************************************)
(* Output streams.                                                         *)
(***************************************************************************)

(* init_output_stream_wrapper of the streams that are not initialized yet. *)
(* Its errors end the run.                                                 *)
initialize(S) == ForEach("init", S \ initialized)

init_output_stream ==
  /\ Doing("init") /\ OfStream
  /\ \E answer \in {"ok", "stream", "header"} :
       /\ of_stream_init(Subject, answer)
       /\ work' = IF answer = "ok" THEN Rest ELSE exit_program
  /\ UNCHANGED <<demuxerVars, graphVars, codecVars, flagVars, result>>

(* of_output_packet, whose errors are only logged. *)
outputPacket ==
  /\ \/ Doing("packet") /\ of_output_packet(Subject, FALSE)
     \/ Doing("eof") /\ of_output_packet(Subject, TRUE)
  /\ OfStream
  /\ work' = Rest
  /\ UNCHANGED <<demuxerVars, graphVars, codecVars, flagVars, result>>

(* do_streamcopy of a packet, or of the end.  Nothing is given to an output *)
(* that is MUXER_FINISHED or has not started yet (check_output_constraints, *)
(* ts_copy_start, the first key frame).  A packet past -t ends the stream.  *)
do_streamcopy ==
  /\ OfStream
  /\ \/ /\ Doing("copy") \/ Doing("copyEof")
        /\ UNCHANGED <<muxerVars, encFinished>>
     \/ /\ Doing("copy") /\ Subject \notin muxerFinished
        /\ \/ of_output_packet(Subject, FALSE) /\ UNCHANGED encFinished
           \/ encFinished' = encFinished \union {Subject} /\ UNCHANGED muxerVars
     \/ /\ Doing("copyEof") /\ Subject \notin muxerFinished
        /\ of_output_packet(Subject, TRUE) /\ UNCHANGED encFinished
  /\ work' = Rest
  /\ UNCHANGED <<demuxerVars, graphVars, codecVars, eofReached, eagain, unavailable, result>>

(***************************************************************************)
(* Graphs and encoders.                                                    *)
(***************************************************************************)

(* configure_filtergraph: a new graph, which gets the frames that waited.  *)
configure(o) ==
  /\ configured' = configured \union {o}
  /\ inGraph' = [inGraph EXCEPT ![o] = Funs!FoldFunctionOnSet(+, 0, queued, GraphOf[o])]
  /\ queued' = [i \in Decoded |-> IF i \in GraphOf[o] THEN 0 ELSE queued[i]]

(* av_buffersrc_add_frame_flags, whose error ends the run. *)
pushFrame(o) ==
  \/ inGraph' = [inGraph EXCEPT ![o] = inGraph[o] + 1] /\ work' = Rest
  \/ work' = exit_program /\ UNCHANGED inGraph

(* ifilter_send_frame.  A frame of another format than the last configures *)
(* the graph again, after reap_filters.                                    *)
ifilter_send_frame ==
  /\ Doing("frame")
  /\ LET i == Subject
         o == GraphFor(i)
     IN /\ known' = known \union {i}
        /\ \/ o \in configured /\ pushFrame(o) /\ UNCHANGED queued
           \/ /\ GraphOf[o] \subseteq known'
              /\ work' = <<Item("reap", 0), Item("configure", o), Item("push", o)>> \o Rest
              /\ UNCHANGED <<queued, inGraph>>
           \/ /\ o \notin configured /\ ~(GraphOf[o] \subseteq known')
              /\ queued' = [queued EXCEPT ![i] = queued[i] + 1]
              /\ work' = Rest /\ UNCHANGED inGraph
  /\ UNCHANGED <<muxerVars, demuxerVars, closed, configured, codecVars, flagVars, result>>

reconfigure ==
  /\ \/ /\ Doing("configure")
        /\ \/ configure(Subject) /\ work' = Rest
           \/ work' = exit_program /\ UNCHANGED <<configured, inGraph, queued>>
     \/ /\ Doing("push")
        /\ pushFrame(Subject) /\ UNCHANGED <<configured, queued>>
  /\ UNCHANGED <<muxerVars, demuxerVars, known, closed, codecVars, flagVars, result>>

(* reap_filters, of the streams that Subject begins: each with a graph is  *)
(* initialized, then the frames that have come through to its sink, which  *)
(* may be any, are encoded.  Bound: no more come out than were pushed.     *)
reap_filters ==
  /\ Doing("reap")
  /\ LET ahead == {o \in configured : o >= Subject}
         o == First(ahead)
     IN \/ /\ ahead = {}
           /\ work' = Rest /\ UNCHANGED inGraph
        \/ /\ ahead # {} /\ o \notin initialized
           /\ work' = initialize({o}) \o work /\ UNCHANGED inGraph
        \/ /\ ahead # {} /\ o \in initialized /\ inGraph[o] > 0
           /\ inGraph' = [inGraph EXCEPT ![o] = inGraph[o] - 1]
           /\ work' = <<Item("encode", o)>> \o work
        \/ /\ ahead # {} /\ o \in initialized
           /\ work' = (IF ahead = {o} THEN <<>> ELSE <<Item("reap", o + 1)>>) \o Rest
           /\ UNCHANGED inGraph
  /\ UNCHANGED <<muxerVars, demuxerVars, known, closed, queued, configured, codecVars, flagVars,
                 result>>

(* encode_frame: the encoder yields a packet, or keeps something, or both.  *)
(* Bound: a packet for a frame at most, and what it keeps is one packet.   *)
encode_frame(o) ==
  \/ keeping' = keeping \union {o} /\ UNCHANGED muxerVars
  \/ /\ of_output_packet(o, FALSE)
     /\ keeping' \in {keeping, keeping \union {o}}

(* do_audio_out, unless the stream is finished: the frame is past -t, or   *)
(* is encoded; or encoding fails, which ends the run.                      *)
do_audio_out ==
  /\ Doing("encode") /\ OfStream
  /\ \/ /\ Subject \notin finished
        /\ \/ /\ encFinished' = encFinished \union {Subject}
              /\ UNCHANGED <<muxerVars, keeping>>
           \/ encode_frame(Subject) /\ UNCHANGED encFinished
        /\ work' = Rest
     \/ /\ Subject \notin finished
        /\ work' = exit_program
        /\ UNCHANGED <<muxerVars, keeping, encFinished>>
     \/ /\ Subject \in finished
        /\ work' = Rest
        /\ UNCHANGED <<muxerVars, keeping, encFinished>>
  /\ UNCHANGED <<demuxerVars, graphVars, decoding, eofReached, eagain, unavailable, result>>

(***************************************************************************)
(* Input streams.                                                          *)
(***************************************************************************)

(* decode of a packet: the decoder yields some frames, and keeps one at    *)
(* most; or it fails, which is only counted.                               *)
decode ==
  /\ Doing("decode")
  /\ \/ \E n \in 0..2 :
          /\ decoding[Subject] + 1 - n \in {0, 1}
          /\ decoding' = [decoding EXCEPT ![Subject] = decoding[Subject] + 1 - n]
          /\ work' = [k \in 1..n |-> Item("frame", Subject)] \o Rest
     \/ work' = Rest /\ UNCHANGED decoding
  /\ UNCHANGED <<muxerVars, demuxerVars, graphVars, keeping, flagVars, result>>

(* decode at the end of the input: a frame the decoder still has, or an    *)
(* error in place of it; then there is more.                               *)
drainFrame(i, more) ==
  /\ i \in Decoded /\ decoding[i] > 0
  /\ decoding' = [decoding EXCEPT ![i] = decoding[i] - 1]
  /\ work' \in {<<Item("frame", i)>> \o more, more}

(* ifilter_send_eof: the source is closed, or, without a graph yet, its    *)
(* format is taken from the parameters of the input.  An error ends the    *)
(* run.                                                                    *)
ifilter_send_eof(i, over) ==
  /\ closed' = closed \union {i}
  /\ \/ known' = known \union {i} /\ work' = over
     \/ work' = exit_program /\ UNCHANGED known

(* process_input_packet at the end of the input: a frame, or the EOF of    *)
(* the filter the decoder feeds (send_filter_eof); then it is over.        *)
endOfInput(i, more, over) ==
  \/ drainFrame(i, more) /\ UNCHANGED <<known, closed>>
  \/ /\ i \in Decoded /\ decoding[i] = 0
     /\ ifilter_send_eof(i, over) /\ UNCHANGED decoding
  \/ i \notin Decoded /\ work' = over /\ UNCHANGED <<known, closed, decoding>>

(* process_input, when the file has no more packets: each of its streams   *)
(* until one has a frame left.                                             *)
inputEnd ==
  /\ Doing("inputEnd")
  /\ LET copies == ForEach("copyEof", CopiesOf(Subject))
     IN endOfInput(Subject,
          copies \o <<Item("reap", 0), Item("loop", 0)>>,
          copies \o ForEach("eof", CopiesOf(Subject)) \o Rest)
  /\ UNCHANGED <<muxerVars, demuxerVars, queued, configured, inGraph, keeping, flagVars, result>>

(* What transcode_step does about AVERROR(EAGAIN). *)
Unavailable(f) ==
  IF f \in eagain THEN unavailable \union {Head(work).by} ELSE unavailable

fileEnd ==
  /\ Doing("fileEnd")
  /\ eofReached' = eofReached \union {Subject}
  /\ unavailable' = Unavailable(Subject)
  /\ work' = Rest
  /\ UNCHANGED <<muxerVars, demuxerVars, graphVars, codecVars, eagain, encFinished, result>>

(* Fault: a duration for each frame. *)
flushEachFrame ==
  /\ Doing("loopFlush") /\ OfInput
  /\ \/ drainFrame(Subject, work) /\ sendDuration(FileOf[Subject])
     \/ /\ Subject \in Decoded /\ decoding[Subject] = 0
        /\ sendDuration(FileOf[Subject])
        /\ work' = Rest /\ UNCHANGED decoding
     \/ Subject \notin Decoded /\ work' = Rest /\ UNCHANGED <<decoding, demuxerVars>>
  /\ UNCHANGED <<muxerVars, graphVars, keeping, flagVars, result>>

(* decode_flush of a stream of a file that loops. *)
decode_flush ==
  /\ Doing("loopFlush") /\ OfInput
  /\ \/ drainFrame(Subject, work) /\ UNCHANGED demuxerVars
     \/ /\ Subject \in Decoded /\ decoding[Subject] = 0
        /\ sendDuration(FileOf[Subject])
        /\ work' = Rest /\ UNCHANGED decoding
     \/ Subject \notin Decoded /\ work' = Rest /\ UNCHANGED <<decoding, demuxerVars>>
  /\ UNCHANGED <<muxerVars, graphVars, keeping, flagVars, result>>

(* process_input of the file of a stream, which output stream by wants. *)
process_input ==
  /\ Doing("input") /\ OfFile
  /\ LET f == Subject IN
     \/ /\ thread_start(f)
        /\ UNCHANGED <<work, eagain, unavailable>>
     \/ /\ TryAgain(f)
        /\ eagain' = eagain \union {f}
        /\ unavailable' = unavailable \union {Head(work).by}
        /\ work' = Rest
        /\ UNCHANGED demuxerVars
     \/ /\ Exhausted(f)
        /\ work' = ForEach("inputEnd", StreamsOf(f)) \o <<[Head(work) EXCEPT !.do = "fileEnd"]>>
                      \o Rest
        /\ UNCHANGED <<demuxerVars, eagain, unavailable>>
     \/ /\ ifile_get_packet(f)
        /\ LET i == Head(inQueue[f])
           IN IF i = LOOPING
                THEN /\ work' = ForEach("loopFlush", StreamsOf(f)) \o Rest
                     /\ unavailable' = Unavailable(f)
                     /\ UNCHANGED eagain
                ELSE /\ eagain' = {} /\ unavailable' = {}
                     /\ work' = ForEach("decode", {i} \intersect Decoded)
                                  \o ForEach("copy", CopiesOf(i)) \o <<Item("reap", 0)>> \o Rest
  /\ UNCHANGED <<muxerVars, graphVars, codecVars, eofReached, encFinished, result>>

(***************************************************************************)
(* The loop of transcode.                                                  *)
(***************************************************************************)

Input(f, o) == [do |-> "input", of |-> f, by |-> o]

(* choose_output: the first stream that is not initialized, or the one     *)
(* that is most behind, which may be any; NULL if that one is unavailable. *)
Chosen ==
  LET early == Streams \ initialized
  IN IF early # {} THEN {First(early)} ELSE Streams \ finished

(* transcode_step, for the chosen stream o.  An input without a known      *)
(* format has had no frame and its file is not at its end, so that there   *)
(* always is one to read (inputs_done is never set).                       *)
stepCopy(o) ==
  /\ o \in Copying
  /\ work' = <<Input(FileOf[CopyOf[o]], o)>> \o work
  /\ UNCHANGED <<configured, inGraph, queued>>

stepUnconfigured(o) ==
  /\ o \in Encoding \ configured
  /\ LET missing == GraphOf[o] \ known
     IN \/ /\ missing # {}
           /\ work' = <<Input(FileOf[First(missing)], o)>> \o work
           /\ UNCHANGED <<configured, inGraph, queued>>
        \/ /\ missing = {}
           /\ configure(o)
           /\ work' = initialize({o}) \o <<Item("filter", o)>> \o work
        \/ /\ missing = {}
           /\ work' = afterLoop
           /\ UNCHANGED <<configured, inGraph, queued>>

stepFilter(o) ==
  /\ o \in configured
  /\ work' = initialize({o}) \o <<Item("filter", o)>> \o work
  /\ UNCHANGED <<configured, inGraph, queued>>

transcode_step ==
  /\ Doing("loop") /\ need_output
  /\ \E o \in Chosen :
       IF o \in unavailable
         THEN /\ eagain' = {} /\ unavailable' = {}
              /\ UNCHANGED <<work, configured, inGraph, queued>>
         ELSE /\ stepCopy(o) \/ stepUnconfigured(o) \/ stepFilter(o)
              /\ UNCHANGED <<eagain, unavailable>>
  /\ UNCHANGED <<muxerVars, demuxerVars, known, closed, codecVars, eofReached, encFinished,
                 result>>

(* transcode_from_filter: the graph yields a frame; or ends, which a trim  *)
(* may do before its inputs; or fails, which ends the loop; or needs an    *)
(* input: then a file that can still be read is read.                      *)
transcode_from_filter ==
  /\ Doing("filter")
  /\ LET o == Subject
         open == GraphOf[o] \ closed
         readable == {i \in open : FileOf[i] \notin eagain \union eofReached}
     IN \/ /\ inGraph[o] > 0
           /\ inGraph' = [inGraph EXCEPT ![o] = inGraph[o] - 1]
           /\ work' = <<Item("encode", o), Item("reap", 0)>> \o Rest
           /\ UNCHANGED unavailable
        \/ /\ work' = <<Item("reap", 0), Item("closeOutput", o)>> \o Rest
           /\ UNCHANGED <<inGraph, unavailable>>
        \/ /\ inGraph[o] = 0 /\ readable # {}
           /\ \E i \in readable : work' = <<Input(FileOf[i], o)>> \o Rest
           /\ UNCHANGED <<inGraph, unavailable>>
        \/ /\ inGraph[o] = 0 /\ open # readable
           /\ unavailable' = unavailable \union {o}
           /\ work' = Rest
           /\ UNCHANGED inGraph
        \/ /\ work' = afterLoop
           /\ UNCHANGED <<inGraph, unavailable>>
  /\ UNCHANGED <<muxerVars, demuxerVars, known, closed, queued, configured, codecVars, eofReached,
                 eagain, encFinished, result>>

close_output_stream ==
  /\ Doing("closeOutput")
  /\ encFinished' = encFinished \union {Subject}
  /\ work' = Rest
  /\ UNCHANGED <<muxerVars, demuxerVars, graphVars, codecVars, eofReached, eagain, unavailable,
                 result>>

(* The loop ends: no more output is needed, or the user cancelled: another *)
(* thread may have set cancel_execute (cancel_task) at any time.           *)
leaveLoop ==
  /\ Doing("loop")
  /\ work' = afterLoop
  /\ UNCHANGED <<muxerVars, demuxerVars, graphVars, codecVars, flagVars, result>>

(***************************************************************************)
(* After the loop.                                                         *)
(***************************************************************************)

(* The decoders of the files that are not at their end are flushed, with   *)
(* one call each.                                                          *)
flushDecoder ==
  /\ Doing("drain")
  /\ LET rest == ForEach("copyEof", CopiesOf(Subject)) \o Rest
     IN endOfInput(Subject, rest, rest)
  /\ UNCHANGED <<muxerVars, demuxerVars, queued, configured, inGraph, keeping, flagVars, result>>

(* flush_encoders: a stream that was never initialized is now, with a      *)
(* graph configured from what is known of its inputs; if that is too       *)
(* little, it is left as it is.                                            *)
flushUninitialized(o) ==
  /\ o \notin initialized
  /\ \/ /\ o \in configured
        /\ work' = <<Item("init", o)>> \o work
        /\ UNCHANGED <<known, configured, inGraph, queued>>
     \/ /\ o \notin configured
        /\ known' = known \union GraphOf[o]
        /\ configure(o)
        /\ work' = <<Item("eof", o), Item("init", o)>> \o work
     \/ /\ o \notin configured /\ ~(GraphOf[o] \subseteq known)
        /\ work' = Rest
        /\ UNCHANGED <<known, configured, inGraph, queued>>
     \/ /\ o \notin configured
        /\ work' = exit_program
        /\ UNCHANGED <<known, configured, inGraph, queued>>

(* The encoder yields what it kept, which is one packet, and its end. *)
flush_encoders ==
  /\ Doing("flush")
  /\ \/ flushUninitialized(Subject)
     \/ /\ Subject \in initialized
        /\ work' \in {ForEach("packet", keeping \intersect {Subject})
                        \o <<Item("eof", Subject)>> \o Rest, exit_program}
        /\ UNCHANGED <<known, configured, inGraph, queued>>
  /\ UNCHANGED <<muxerVars, demuxerVars, closed, codecVars, flagVars, result>>

writeTrailer ==
  /\ Doing("trailer")
  /\ of_write_trailer
  /\ work' = Rest
  /\ UNCHANGED <<demuxerVars, graphVars, codecVars, flagVars, result>>

(* run: too many decoding errors in decode_error_stat, which counts those  *)
(* of every run of the process.                                            *)
verdict ==
  /\ Doing("verdict")
  /\ work' \in {Rest, exit_program}
  /\ UNCHANGED <<muxerVars, demuxerVars, graphVars, codecVars, flagVars, result>>

(* The end: of run. *)
report ==
  /\ \/ at = "closed" /\ work = <<Item("failed", 0)>> /\ result' = "error"
     \/ Doing("report") /\ result' = IF main_return_code = "ok" THEN "success" ELSE "error"
  /\ work' = Rest
  /\ UNCHANGED <<muxerVars, demuxerVars, graphVars, codecVars, flagVars>>

closeOutputFile ==
  /\ Doing("close")
  /\ of_close
  /\ work' = Rest
  /\ UNCHANGED <<demuxerVars, graphVars, codecVars, flagVars, result>>

(* ifile_close, once the output file is closed. *)
Stopping == at = "closed" /\ work # <<>> /\ Head(work).do = "stop"

closeInputFile ==
  /\ Stopping /\ OfFile
  /\ \/ Subject \notin opened /\ work' = Rest /\ UNCHANGED demuxerVars
     \/ (thread_stop(Subject) \/ drainQueue(Subject) \/ joinDemuxer(Subject)) /\ UNCHANGED work
  /\ UNCHANGED <<muxerVars, graphVars, codecVars, flagVars, result>>

(***************************************************************************)
(* The whole.                                                              *)
(***************************************************************************)

MainThread ==
  \/ init_input_stream \/ init_output_stream \/ outputPacket \/ do_streamcopy
  \/ ifilter_send_frame \/ reconfigure \/ reap_filters \/ do_audio_out
  \/ decode \/ inputEnd \/ fileEnd \/ decode_flush \/ process_input
  \/ transcode_step \/ transcode_from_filter \/ close_output_stream \/ leaveLoop
  \/ flushDecoder \/ flush_encoders \/ writeTrailer \/ verdict \/ report
  \/ closeOutputFile \/ closeInputFile
  \/ MainStep /\ UNCHANGED <<demuxerVars, runVars>>

MuxerRuns == MuxerThread /\ UNCHANGED <<demuxerVars, runVars>>
DemuxerRuns(f) == input_thread(f) /\ UNCHANGED <<muxerVars, runVars>>

Next == MainThread \/ MuxerRuns \/ \E f \in Files : DemuxerRuns(f)

Spec ==
  /\ Init /\ [][Next]_vars
  /\ WF_vars(MainThread) /\ WF_vars(MuxerRuns)
  /\ \A f \in Files : WF_vars(DemuxerRuns(f))

(***************************************************************************)
(* Properties.                                                             *)
(***************************************************************************)

(* A run that reports success has written every packet it gave to the      *)
(* muxer, in order, unless a muxing queue overflowed or the trailer could  *)
(* not be written, which of_output_packet and transcode only log.          *)
SuccessIsWhole ==
  result = "success" /\ trailer = "written" /\ refusals = {} =>
    \A s \in Streams : file[s] = [n \in 1..given[s] |-> n]

(* The queues are not freed under the threads that use them, whichever way *)
(* out the run takes (thread_stop of the muxer and of the demuxers).       *)
QueuesAreKept == QueueOutlivesThread /\ QueuesOutliveThreads

(* The run is over: its thread has nothing left to do. *)
returned == work = <<>> /\ at = "closed"

(* No thread outlives the run: both queues of each are freed, and it has   *)
(* ended (ffmpeg_cleanup on either way out); and it has reported a result. *)
NothingIsLeft ==
  returned =>
    /\ result # "none"
    /\ muxPc \in {"none", "ended"} /\ ~running
    /\ opened = {} /\ \A f \in Files : dmxPc[f] \in {"none", "ended"}

(* Every run returns, whenever it is cancelled and whatever fails, unless  *)
(* a looping file waits for durations that no one will send it.            *)
RunReturns == <>(returned \/ \E f \in Files : SeekStuck(f))
================================================================================

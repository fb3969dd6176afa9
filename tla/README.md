# Verification of AudioEditor

AudioEditor is an Android application that records, cuts and joins audio. This directory
holds TLA+ models of the parts of it in which several threads, callbacks or messages meet,
TLC configurations that check them on small instances, and theorems that TLAPS proves for
every instance. All source paths below are relative to `src/`.

- [1. The system](#1-the-system)
- [2. The modules](#2-the-modules)
- [3. What is checked](#3-what-is-checked)
- [4. What is proved](#4-what-is-proved)
- [5. Where code and documentation part](#5-where-code-and-documentation-part)
- [6. What is not modelled](#6-what-is-not-modelled)
- [7. Plan](#7-plan)

## 1. The system

| component | state | operations | talks to |
|---|---|---|---|
| `IdealRecorder` (recorderLib) | `isStarted`, `isAudioFileHelperInit`, `count`, the buffer of all data, the configuration | `start`, `stop`, setters; the callbacks of `Recorder` and `AudioFileHelper` | calls `Recorder` and `AudioFileHelper`; posts to its `Handler` on the main looper |
| `Recorder` (recorderLib) | `isRecord`, `mThread`, `mAudioRecorder`, its monitor | `start`, `stop`, `immediateStop`, the thread `RecordRun` | calls `IdealRecorder` back from the recording thread, reads an `AudioRecord` |
| `AudioFileHelper` (recorderLib) | `savePath`, `targetFile`, `randomAccessFile`, `isWav` | `start`, `save`, `finish`, `cancel` | the file system; reports success and failure to `IdealRecorder` |
| `StatusListener` (recorderLib) | none of its own: a client's callbacks | `onStartRecording`, `onRecordData`, `onFileSaveSuccess`, `onStopRecording`, ... | called on the main thread |
| `FFmpegCmd`, `FFmpegHandler` (ffmpegLib, app) | the static `mProgressListener`; a pool of one thread | `execute` of a command, of a list, `executeProbe`, `cancelExecute` | the native `run()`; messages to the activity's `Handler` |
| native run, main thread (`ffmpeg.c`, `ffmpeg_cmd.c`) | `cancel_execute`, `main_return_code`; per input `eof_reached`, `eagain`, decoders; per output stream `finished`, `initialized`, `unavailable`, a filter graph, an encoder | `run`, `transcode_init`, `transcode_step`, `process_input`, `reap_filters`, `flush_encoders`, `exit_program`, `ffmpeg_cleanup` | calls the muxer and the demuxers; `onProgressCallback` in Java |
| muxer (`ffmpeg_mux.c`) | a muxing queue per stream, `tq`, `MUXER_FINISHED`, a thread | `of_stream_init`, `of_output_packet`, `of_write_trailer`, `of_close`; `muxer_thread` | the thread queue, the sync queue, libavformat |
| thread queue (`thread_queue.c`) | a bounded FIFO, two finished flags per stream, a lock and one condition variable | `tq_send`, `tq_receive`, `tq_send_finish`, `tq_receive_finish` | main thread and muxer thread |
| demuxer (`ffmpeg_demux.c`) | a thread and a message queue per file, `audio_duration_queue`, `loop` | `ifile_get_packet`, `ifile_close`; `input_thread`, `seek_to_start` | the main thread, libavformat |
| sync queue (`sync_queue.c`) | a FIFO and a head timestamp per stream, the head of the queue, the first finished stream | `sq_send`, `sq_receive`, `sq_set_tb`, `sq_limit_frames` | the muxer thread, or the encoders on the main thread |
| `AudioCutHandleActivity` (app) | `outputPath`, `isJointing`, temporary files | submits commands, `handleMessage` | `FFmpegHandler` |
| `SharedPreferenceV2` (framework-simplecache) | a `ConcurrentHashMap` cache; per editor an `editorCache` and the wrapped editor | typed getters, `edit`, `putX`, `remove`, `clear`, `apply`, `commit`, `onSharedPreferenceChanged` | Android's `SharedPreferences`; the commit pool |
| `SharedPreferenceV2Executors` | a `ThreadPoolExecutor`: cores, twice the cores, a queue of 200, caller-runs | `execute` | the commits |
| timeline and cut editor (timeRuler, `AudioCutFragment`) | cursor, scale and mode; `status`, the scroller, what fingers do; the audio, the selection, the rectangle drawn last | touch, scroll, fling, pinch, long press, `setMode`, `setWaveform`, `computeScroll`, auto-scroll messages | Android's gesture detectors and `Scroller`, its own `Handler`, the buttons of the fragment |
| `MultiProcessPriorityTask` (framework-base) | the current task, a semaphore, a handler thread | `run` | the main looper |
| `RenderView` (recorderLib) | a drawing thread with `running`, `destoryed`, `isPause` | surface callbacks, pause, resume | a lock all views share |
| media library, screens, playback, parsers, caches, vendored code | | | see section 6 |

What is hard in these parts, and what would make them correct:

* **Recorder.** `start()` and `stop()` run on the main thread, the recording thread calls
  back into the same objects, and only three methods of `Recorder` are synchronized. Two
  recordings must not overlap, because they would share the `AudioRecord` field, the file
  helper and the buffer; nobody may dereference a field another thread has nulled; files are
  closed and hold every buffer; the microphone is released; `stop()`, which joins the
  thread, returns; the listener is told things in an order that makes sense although they
  travel as messages.
* **FFmpeg tasks.** Results and progress arrive as messages, and everything that says which
  task they belong to (`mProgressListener`, `outputPath`, `isJointing`, `cancel_execute`) is
  one static field. Tasks begin and end in turn; a result belongs to the file shown with it;
  temporary files outlive the command that reads them; every task finishes.
* **Native run.** One command is a main thread, a demuxer thread for each input and a muxer
  thread for the output, with bounded queues between them, a stop that may come from anywhere
  (`exit_program` is a `longjmp`), and a cancel that may come at any time. No wake-up may be
  lost, no queue freed under a thread that uses it, no thread left behind; the run returns;
  the packets of each stream reach the file in order, and all of them if it reports success.
* **Sync queue.** Frames, ends and heartbeats of several streams with different time bases come
  in any order, and what is released must not depend on it: no stream outlasts a limiting
  one, the shortest loses nothing, and what waits is bounded.
* **Preferences.** Reads come from a cache, commits happen later on a pool of many threads,
  and a listener copies the disk back into the cache. A thread reads what it wrote; the disk
  ends up with the last edit; the cache ends up equal to the disk; nothing is lost.
* **Timeline.** One thread, but callbacks in any order: fingers, a fling that goes on by frames,
  messages that send themselves again, buttons that set the mode and are set by it. Scale, mode
  and button agree; a touch stops the fling; the selection moves only under a finger; what
  touches are measured against is what is shown; a fling ends.

The hazards, each at the line where it bites and with the property that covers it, are listed
in `PROJECT.json`.

## 2. The modules

| module | models |
|---|---|
| `AudioFileHelper` | the file helper: the operations `IdealRecorder` composes, and what a file holds |
| `StatusContract` | abstract: what a `StatusListener` is promised |
| `IdealRecorder` | `IdealRecorder`, `Recorder` and the looper; EXTENDS `AudioFileHelper`, implements `StatusContract` |
| `IdealRecorderProofs` | theorems about `IdealRecorder` |
| `TaskContract` | abstract: tasks begin and end in turn |
| `FfmpegTask` | `FFmpegCmd`, `FFmpegHandler`, the native runner, the activity; implements `TaskContract` |
| `FfmpegTaskProofs` | theorems about `FfmpegTask` |
| `ThreadQueue` | `thread_queue.c`: operators, one for each function, that take a queue and give the next |
| `MuxContract` | abstract: what the file of a muxer promises |
| `Muxer` | the output file, its queues and its thread; EXTENDS `ThreadQueue`, implements `MuxContract` |
| `MuxerProofs` | theorems about `Muxer` |
| `Demuxer` | the input files and their threads |
| `DemuxerProofs` | theorems about `Demuxer` |
| `Transcode` | the main thread of a native run; EXTENDS `Muxer` and `Demuxer`, of which it makes a whole |
| `TranscodeProofs` | theorems about the whole |
| `MCTranscode` | its instance for TLC |
| `SyncQueue` | `sync_queue.c` and its two users |
| `SyncQueueProofs` | theorems about `SyncQueue` |
| `MCSyncQueue` | its instance for TLC |
| `SharedPreferenceV2` | the cache, its editors, the listener and the commit pool |
| `SharedPreferenceV2Proofs` | theorems about `SharedPreferenceV2` |
| `AudioEditorView` | `MultiTrackAudioEditorView` over its base class, the audio fragment, `CutPieceFragment`, and the buttons of `AudioCutFragment` |
| `AudioEditorViewProofs` | theorems about `AudioEditorView` |
| `MCAudioEditorView` | its instance for TLC |

Parameters are CONSTANTS with a named ASSUME, one action stands for each step another
thread can tell apart, names are the source's. The operators headed *Fault* are plausible
bugs that no action uses; they show that the properties would notice (`PROJECT.json`,
"mutants"). Conditions commented *bound* are the model's, not the code's.

### Recorder

The main thread is the program counter `uiPc`, each recording thread one of `workerPc`, and
the looper the sequence `queue`. A step reads or writes the shared fields at most once where
another thread can tell: `while (isRecord)`, a null test and the dereference after it, the
two halves of `count++`, each callback. A call of `AudioFileHelper` is one step: its methods
are called by one thread at a time as long as recordings do not overlap, and no property
speaks of its fields when they do (`BelowMax`). Recording thread `s`
reads from the `AudioRecord` that `start()` made for it, so both have one number; `0` is null.

* `startCall` ... `spawnThread` are `IdealRecorder.start` and `Recorder.start` with
  `onRecorderReady` and `onRecorderStart`; the monitor is held from `init` to `spawn`
  (`MonitorHeld`). `stopCall` ... `forgetThread` are `stop` and `immediateStop`, which holds
  no monitor and reads `mThread` twice.
* `bootTest` ... `onRecorderStop` are `RecordRun.run` and `IdealRecorder.onRecorded`. At
  `maxRecordTime` the thread calls `Recorder.stop()` on itself (`recorderStop`), which forgets
  it, and clears `isStarted`.
* `Faults` lets the permission, the constructor of `AudioRecord`, its start or a read fail;
  `IoFaults` lets any call on the file throw, except `close()` itself. `crashed` is an
  uncaught `NullPointerException`: the process is gone, which the model shows as a stuttering
  step. Nothing is persisted but the file, so restarts are not modelled.
* The client is on the main thread. Without `"restarts"` it starts again only when
  `onStopRecording` has arrived and no message is left; with it, at once. `"reconfigures"`
  lets it call the setters during a recording; no run does, the theorems cover it.
* A buffer is the number of the thread that recorded it. Samples, volume and wording are
  left out. A sized WAV header is distinct from a blank, a torn and a missing one.

### FFmpeg tasks

Tasks are numbered as they are submitted, and their listener, messages and output file carry
the number. The executor is a FIFO of one thread: `taken` counts what it has taken, `poolPc`
is where it is. A `"single"` is `executeFFmpegCmd`, a `"list"` the three commands of
`concatAudio` with their two temporary files, a `"probe"` is `executeFFprobeCmd`. `loop` is a
round of `transcode()`: the end of the streams is tested before `cancel_execute`, and only
the loop resets it. `onEnd` withdraws the progress messages for a single command only, as
`FFmpegHandler` does. Messages are a set ordered by `at`, because they can be withdrawn.
`told`, `cancelOf` and `patient` are history. What a codec does is a nondeterministic result,
and an input that is missing makes `openFails` the only choice.

### Native run

`Transcode` is the same `run()` that `FfmpegTask` sees as one loop, one level down.

* **Thread queue.** Each function holds the lock throughout, so it is one operator on a queue.
  `pthread_cond_wait` is `Sleep`: the side is in `asleep` until the other broadcasts, and tries
  again then. Which calls broadcast is as in the code; not all do.
* **Muxer.** A call of the main thread is as many steps as it takes the lock, blocks or starts
  the thread (`at`, `cargo`): `of_output_packet` is the guard and the submission; then
  `sendToThread` and, if it was refused, `finishStream`. `flushMuxingQueue` is the loop of
  `thread_start`, `stopStreams` and `joinThread` are `thread_stop`. Packets are numbered as they
  are given. A muxing queue below its threshold of bytes grows without a limit, and above it
  to `MaxQueued`: sizes are left out, so at `MaxQueued` either may happen. Writing a packet
  may fail, which is also what `-fs` does.
* **Demuxer.** libavutil's message queue is external, modelled from its use. A packet is its
  input stream. `seek_to_start` takes one duration at a time; the main thread sends one for
  each decoder (`sendDuration`). A file loops a number of times; `-stream_loop -1` is the same
  without the last turn.
* **Main thread.** `work` is the list of calls that are yet to be made, innermost first: what a
  call does next is at its head, `exit_program` replaces all of it by `ffmpeg_cleanup`, and the
  end of the loop by `afterLoop`. Frames have no identity: decoders, graphs and encoders hold
  some, and give and keep what they like within what they hold. A test that depends on timestamps
  or sizes (`choose_output`, `-t`, which stream is most behind) is a free choice. An encoder gives
  one packet for a frame at most and keeps at most one, and no more frames leave a graph than
  entered it: bounds, since a codec may do more. Reading `cancel_execute` is free too: `leaveLoop`
  may be taken in any round.
* **Sync queue.** A frame is the end of its interval in ticks of its stream, `NOPTS` a frame
  without a timestamp. `reader` says which of its users there is; both have their own order of
  calls (the muxer thread asks for any stream, an encoder for its own). A receive is one
  step unless it begins a heartbeat, which is one step for each stream that is told.

### Preferences

A getter is `containsKey`, then `hit`, or `miss`, `put`, `filled`: the two reads of the cache, the
read below and the later write are separate steps. `handOver` begins `apply()` and `commit()`;
`putAll` is one `put` per key. `remove` and `clear` empty the cache at once, as in the code.
`held` is what each wrapped editor holds: a task has its editor and commits what it holds when it
runs, and nothing clears an `editorCache`. A thread may go on with an editor it has handed over
(`reused`) or take a new one (`edit`). `execute` is `ThreadPoolExecutor.execute`: a core thread,
else the queue, else an extra thread; `callerRuns` is the rejection policy; `retire` is the
keep-alive of 0 ms. The preferences below are external, with what Android documents of them: a
commit is atomic, `clear()` comes before the puts, and a commit that changes something notifies on
the main thread, at once if it is the caller. One notification per commit stands for the one per
changed key, since each copies everything. Whether the cache is registered as a listener is chosen
at the start (`listening`). `latest`, `users`, `removed`, `synced`, `reused`, `overflown` and
`nulled` are history.

### Timeline

All callbacks run on the main thread, so each is one action; what varies is their order.
`touch` says what a finger that is down has hit: a cut line, which then takes all its events, or
the ruler, whose events go to the scale detector, the gesture detector and the long press.

* **The detectors** are external: `gesture` says what the gesture detector takes the touch for (a
  tap, a move, a long press, in which it is silent), and `move(dx)` is one of a pinch to any scale
  (`onScale`), a scroll (`onScroll`) or nothing (`noScroll`), then the drag of the audio if there
  was a long press. `up` may be a fling (`onFling`) to any place of the ruler; a frame takes the
  scroller any distance on its way, or to its end.
* **Scale.** `msPerPixel` is 1 / `unitMsPixel` in whole milliseconds, and the modes are their
  nominal scales, `Nominal`: the screen shows the span of mode `m` at scale `Nominal[m]`. The float
  quotient in `MultiTrackAudioEditorView.onScale` may fall below the span it stands for;
  `RoundsDown` are the modes for which it does, a property of the width of the screen.
  `setMode` is the listener of a button with the `setMode` it calls; the call back to
  the button ends at once, because it is checked already.
* **Cut lines.** `dragStart` and `dragEnd` are the two branches of ACTION_MOVE in `CutPieceFragment`.
  Positions are computed from times, so the `+=` on them is lost, and the limits are tested
  where the line was. `moves` counts the MSG_MOVE messages in the queue: one more with each move
  at the edge, none when the finger goes back, away from the edge, or up. Delays between
  messages are left out: any of them may be next.
* **Frames.** `dirty` is a call of `invalidate()` since the last frame. `frame` is `computeScroll()`
  and `onDraw()`, of which only the rectangle kept for later touches is modelled.
* **Ticks.** `onDraw` steps by `mTickSpacing`, which zooms and the layout compute and `setMode`
  does not. A tick stands for a sixtieth of the nominal span of its mode, so `Spacing` counts it
  in parts of the nominal scale.
* `WaveformOptions.getSampleFrom` reads the audio before `initView` returns, so `setWaveform` is
  part of the initial state. A double tap and drag, which zooms with one finger, is the pinch.

## 3. What is checked

| run | module | distinct states | result |
|---|---|---|---|
| `recorder_patient` | `IdealRecorder` | 617779 | passes |
| `recorder_impatient` | `IdealRecorder` | 117332 | passes |
| `recorder_max_time` | `IdealRecorder` | | violation, section 5 |
| `recorder_all_data` | `IdealRecorder` | | violation, section 5 |
| `recorder_io_fault` | `IdealRecorder` | | violation, section 5 |
| `ffmpeg_tasks` | `FfmpegTask` | 344157 | passes |
| `ffmpeg_cancel` | `FfmpegTask` | | violation, section 5 |
| `native_run` | `MCTranscode` | 712348 | passes |
| `sync_queue` | `MCSyncQueue` | 244841 | passes |
| `preferences` | `SharedPreferenceV2` | 1728440 | passes |
| `preference_pool` | `SharedPreferenceV2` | | violation, section 5 |
| `timeline` | `MCAudioEditorView` | 1051111 | passes |

The type invariants of `FfmpegTask`, `Muxer`, `Demuxer`, `SyncQueue` and `SharedPreferenceV2` are
theorems (section 4) and not among the properties of the runs.

**Recorder.** `recorder_patient` has every fault and a client that waits: recordings never
overlap, even when `maxRecordTime` ends them (`PatientClientIsSafe`); the listener sees what
`StatusContract` promises (`ContractHolds`: start, data, perhaps an error or a saved file, then
the end with as many buffers as were handed over piece by piece); a recording ends
(`RecordingEnds`). `recorder_impatient` has no faults and a client that starts again at once:
recordings do not overlap and nobody meets a nulled field as long as none has reached
`maxRecordTime` (`OneRecordingAtATime`); files are closed (`NoLeak`) and a file reported as saved
is whole (`SavedIsWhole`); when all threads have ended every `AudioRecord` has been released, even
after an overlap (`MicReleased`, which excepts only what `MayDrop` names); and `stop()`, which
joins, returns (`StopReturns`). The condition `BelowMax` is not an excuse of the model: at
`maxRecordTime` an impatient client does make recordings overlap (section 5).

**FFmpeg.** `ffmpeg_tasks` has a user who submits while tasks run, and cancels at any moment.
`ContractHolds` and `TasksFinish` are about all users. `ProgressIsInTime`,
`SuccessNamesItsOutput` and `TempsAreKept` are about a user who has so far waited for
`MSG_FINISH` (`patient`): the static fields serve one task at a time, and the button that cuts
does not wait, so for an overlapping user all three are false of the code.

**Native run.** `native_run` is a whole command: one file of two streams that is read twice, the
first stream copied, the second decoded, filtered and encoded, with every error the code
meets and a cancel in any round. The main thread does not wait for the file
(`non_blocking`), so both answers of `ifile_get_packet` to an empty queue occur. What it shows:
no wake-up is lost (`NoLostWakeUp`); no queue is freed under its thread (`QueuesAreKept`); the two
flags that end a stream never disagree (`SendIsNeverInvalid`);
the main thread never blocks on durations (`DurationsFit`); the file is what `MuxContract`
promises (`MuxerKeepsContract`: packets of a stream in order, none twice, none after the
trailer); a success has written every packet it gave (`SuccessIsWhole`, but for an overflowing
muxing queue or a trailer that failed, which the code only logs); once the run has nothing
more to do (`returned`) no thread and no queue is left and there is a result, on both ways out
(`NothingIsLeft`); and it gets there (`RunReturns`), except in one state that the code reaches and
cannot leave (section 5). Neither assumes the other: a run that stopped with work left would
satisfy the first and violate the second.

**Sync queue.** `sync_queue` has three streams, of which the second has a tick six times as long
and `-frames 1`, any of which limits, and both users. `HeadIsLeast`, `LimitHolds` and
`ShortestIsWhole` are the three sides of `-shortest`: the head is the limiting stream most behind,
nothing beyond it is released, and the stream that decides loses nothing itself. `LimitHolds` and
`ShortestIsWhole` ask that the first stream limits, because otherwise the placeholder of
`queue_head_update` may stay the head (section 5). `EofIsFinal` is the protocol of the answers,
`FramesAreLimited` the count, and `OneHeartbeatIsEnough` says why `sq_receive` need not loop: if
after it the stream most ahead still overflows, no other stream is why, as each that can move has
reached its oldest frame, or lies at most half a tick short of it. The half tick is real (section
5).

**Preferences.** `preferences` has a main thread that edits and another that reads, one or two
cores, a queue of one and both choices of `listening`. `ReadsOwnWrites` is about keys that one
thread uses and never removes, also if it goes on with an editor it has handed over;
`DiskFollowsApplies` about one core, a queue that was never full, no `commit()` and a new editor
for each edit, the conditions under which the pool keeps the order; `CacheFollowsDisk`
says that with the listener, and again a new editor for each edit, the last notification
repairs what earlier ones undid;
`OnlySharedKeysAreNulled` that the two reads of a getter disagree only if another thread uses
the key; `AppliesAreCommitted` that every task is run.

**Timeline.** `timeline` has a user with up to two fingers. `ModeFitsScale`: a zoom sets the mode,
the mode a button, the button mode and scale again, and the three agree in the end; the ticks fit
them after a zoom, but not always after a button (section 5), which leaves the scale at a nominal
one. `ZoomKeepsDirection`: that reset never turns a zoom round (but at the boundaries in
`RoundsDown`, where it does, section 5). `TouchStopsFling`: `onDown()` stops the scroller only
when `status` says that it flings, and no order of zooms, lifted or cancelled fingers and frames
makes it miss one. `SelectionIsTouched`: the messages that extend the selection do not outlive the
touch, in whichever way it ends. `DrawnIsCurrent`: touches are measured against what is shown, or
a frame is due. `FlingEnds`: `status` leaves SCROLL_FLING.

**Bounds.** Two recordings are enough for one to overlap another, and two AudioRecords for the
wrong one to be released; `MaxChunks` and `MaxRecordTime` = 200 ms let a recording go on below, at
and (3 chunks) above the limit; `MaxPending` only bounds how far the client runs ahead of the
looper. Two tasks suffice for one to disturb the next; one report per command and the last one of
`conclude` let reports be early and late. One key suffices where each property is about keys one
by one; four calls of editors are two edits with their `apply()`, or one and a call of the same
editor after it, which counts twice; no editor is given up before it is handed over; two values
tell the older from the newer; and with a queue of one, four `apply()` calls fill the core thread,
the queue and the extra thread, and leave the last to the caller. In `native_run` every queue
holds one: it is full with the first packet and empty without it, so that each side waits for the
other; a muxing queue overflows with the second packet; two packets in two passes (four reads,
each of any stream) let a stream end early, late and empty, and `MaxPackets` = 6 is more than the
run can give. Two output streams are the fewest of which one is initialized before the other. A
single file suffices since no property relates two, and the proofs are about any number. In
`sync_queue` three streams are a head, a stream behind and one ahead; ticks of 1 and 6, timestamps
up to 2 and a buffer of one unit let frames end before, with and after the head, heartbeats round,
and the queue overflow. In `timeline` a screen of four columns has a strip at the edge, a place to
take either line and one to miss them; scales 1, 2 and 3 with modes at 1 and 3 are both modes
exactly and a scale between; audio of 3 on a ruler of 1 can be longer than the screen and than the
ruler, so that messages are sent, and two of them can be under way; a selection from -1 to 4 can
pass both ends of the audio and turn round. The bounds on drags, cursor and selection cut off what
lies further out; the theorems have the same bounds, at any value.

**Fairness.** Recorder: weak fairness for each recording thread and for a call the main thread
has begun (threads are scheduled); strong fairness for `deliver`, because calls of the client
and messages wait in the same FIFO of the looper, so a client that keeps calling cannot starve
a message. FFmpeg: weak fairness for the executor's thread and the looper. Native run: weak
fairness for the main, the muxer and each demuxer thread; the scheduler of the platform runs
them, and a wait on a condition variable or a full queue disables a thread until it is woken.
The bounds on packets stand for input that ends; a file that never ends is never done.
Preferences: weak fairness for the pool. Timeline: weak fairness for `frame`: Android draws a
view that was invalidated, and a scroller takes a bounded time (each frame either moves it or
ends it). No finger, message or button is fair. The client, the user and callers of the
preferences are never fair: nothing promises that they call. `CHECK_DEADLOCK FALSE` is used
only where a run's user has finished and nothing is left to do.

## 4. What is proved

For all values of the constants, under the named assumptions of the modules and, where the
table says so, a condition on the client or the faults:

| theorem | statement |
|---|---|
| `IdealRecorderProofs!TypeCorrect` | `Spec => []TypeOK` |
| `IdealRecorderProofs!RecordingsDoNotOverlap` | `Spec => []OneRecordingAtATime` |
| `IdealRecorderProofs!MicrophoneIsReleased`, `WaitingIsEnough` | `Spec => []P` for `MicReleased`, `PatientClientIsSafe` |
| `IdealRecorderProofs!FilesAreClosed` | if `Steady` (the client does not reconfigure) and `NeverCancels` (only the permission or the `AudioRecord` may fail): `Spec => []NoLeak`, whatever I/O fails |
| `IdealRecorderProofs!SavedFilesAreWhole` | if `Steady` and `~IoFaults`: `Spec => SavedIsWhole`, whatever else fails |
| `IdealRecorderProofs!ContractImplemented` | if `Client = {}`: `Spec => ContractHolds`, the refinement of `StatusContract`, whatever faults occur |
| `FfmpegTaskProofs!TypeCorrect` | `Spec => []TypeOK` |
| `FfmpegTaskProofs!ContractImplemented` | `Spec => ContractHolds`, the refinement of `TaskContract` |
| `FfmpegTaskProofs!PathIsRight`, `TempsOutliveTheList`, `ProgressIsTimely` | `Spec => P` for `SuccessNamesItsOutput`, `TempsAreKept`, `ProgressIsInTime` |
| `SharedPreferenceV2Proofs!TypeCorrect` | `Spec => []TypeOK` |
| `SharedPreferenceV2Proofs!ReadsOwn` | `Spec => []ReadsOwnWrites` |
| `SharedPreferenceV2Proofs!PrivateKeysAreNotNulled` | `Spec => []OnlySharedKeysAreNulled` |
| `SharedPreferenceV2Proofs!CacheFollows`, `DiskFollows` | `Spec => []P` for `CacheFollowsDisk`, `DiskFollowsApplies` |
| `MuxerProofs!MuxerTypes`, `QueueOutlives`, `SendIsValid`, `WakeUpsArrive` | `MuxerSpec => []P` for `MuxerTypeOK`, `QueueOutlivesThread`, `SendIsNeverInvalid`, `NoLostWakeUp` |
| `MuxerProofs!MuxerImplementsContract` | `MuxerSpec => MuxerKeepsContract`, the refinement of `MuxContract` |
| `DemuxerProofs!DemuxerTypes`, `QueuesOutlive` | `DemuxerSpec => []P` for `DemuxerTypeOK`, `QueuesOutliveThreads` |
| `TranscodeProofs!RunOfTheParts` | `Spec => MuxerSpec /\ DemuxerSpec` |
| `TranscodeProofs!RunKeepsContract` | `Spec => MuxerKeepsContract` |
| `TranscodeProofs!NothingLeft`, `DurationsNeverWait`, `SuccessMeansWhole` | `Spec => []P` for `NothingIsLeft`, `DurationsFit`, `SuccessIsWhole` |
| `TranscodeProofs!RunIsSafe` | `Spec => []` of the types of both parts, `QueuesAreKept`, `SendIsNeverInvalid` and `NoLostWakeUp` |
| `SyncQueueProofs!SyncTypes`, `NoFrameTooMany`, `HeadsAreLeast`, `NothingIsLonger`, `ShortestComesThrough`, `OneHeartbeatReachesAll` | `Spec => []P` for `SyncTypeOK`, `FramesAreLimited`, `HeadIsLeast`, `LimitHolds`, `ShortestIsWhole`, `OneHeartbeatIsEnough` |
| `SyncQueueProofs!EndIsFinal` | `Spec => EofIsFinal` |
| `AudioEditorViewProofs!TypeCorrect`, `ModesAgree`, `TouchesStopFlings`, `DrawingsAreCurrent` | `Spec => []P` for `TypeOK`, `ModeFitsScale`, `TouchStopsFling`, `DrawnIsCurrent` |
| `AudioEditorViewProofs!ZoomsKeepDirection`, `SelectionsAreTouched` | `Spec => ZoomKeepsDirection`, `Spec => SelectionIsTouched` |

* **Recordings do not overlap.** `OneRecordingAtATime` is not inductive: that at most one
  thread lives now says nothing about the `start()` under way. `RecordingInv` adds why: a
  living thread is the one `mThread` names (`ThreadIsKnown`), numbers not yet given out belong
  to no thread (`NumbersAreFresh`), no thread lives when `isStarted` is clear and no call is
  under way or when `start()` runs (`NoneBeforeStart`, `StartedIsKept`), `immediateStop()`
  waits for that thread (`JoinsTheThread`), `count` is what the thread has read
  (`CountIsReads`, which keeps it from the `maxRecordTime` branch), and the field it tests is
  not null (`BootHasRecorder`). All is conditional on `BelowMax`, which a step can only make
  false. The theorem includes clients that reconfigure during a recording and every fault.
* **The microphone.** `MicReleased` has two sides. `MicHeld`: only the `AudioRecord` in the field
  is held, and it is there only while `start()` is at work or a thread has yet to release it.
  That survives overlapping recordings, hence no condition. `DropInv`: none is dropped without
  release, because a thread that looks at its `AudioRecord` finds it recording; that
  needs `RecordingInv`, and that starting one does not fail, hence `MayDrop`.
* **Waiting is enough.** `OneAnnounced` says that whatever runs is `Announced`: the listener has
  heard of it or will, with no `stop` behind; a client that waits for `stop` therefore finds no
  thread. It does not need `BelowMax`.
* **Files.** `FileInv` extends `RecordingInv`: a thread has its `AudioRecord` until it releases
  it (`RecordsWell`), whoever records is announced (`RunningIsAnnounced`), a file is open only
  for the recording under way (`FileIsHeld`) and holds its buffers behind the header that
  `isWav` asks for (`FileIsCurrent`). Each part carries only the condition it needs, and
  each condition is needed: a thread that fails has `cancel()` forget the open file without closing
  it, hence `NeverCancels` for `NoLeak`; run `recorder_io_fault` shows a file reported as saved after
  a write that failed, hence `~IoFaults` for `SavedIsWhole`; and a setter called during a recording
  changes the path or the format under it.
* **The status contract.** For a client that waits, `StatusInv` describes what is on its way:
  each message may follow all before it and may come in the listener's phase (`Orderly`, with
  `MayFollow` and `MayCome`); counting the data messages that wait from `heard.chunks` on leads
  to the length of `allData` (`Foretold`, a function on positions of the queue in place of a
  recursive count); and each thread posts only what fits behind that, as one that has reported
  an error reads no more (`ThreadsReport`). Delivering the oldest message is then a step of
  `StatusContract`, and no other step changes what was heard.
* **Tasks in turn.** `MarksInOrder` numbers the marks of a run: message `BEGIN` of task `t` is
  mark `2t - 1`, `FINISH` is `2t`. The marks delivered, those pending in the order of `at`, and
  those the thread has yet to post, are consecutive; delivering the oldest message is then a
  step of `TaskContract`.
* **The path is right.** `PathIsKept` says that for a patient user `outputPath` names the one
  single command under way until its `FINISH` is delivered; it rests on `MarksInOrder`.
* **Progress and temporary files.** `ProgressIsKept` adds to `MarksInOrder` that a pending
  progress message is about the last task and `LiesBetween` its `BEGIN` and its `FINISH`, so it
  is delivered between them. That a list's temporary files outlive it (`TempsAreKept`) rests
  on the same order: they are deleted when a `FINISH` is delivered.
* **The muxer.** `Inv` joins three parts to the type: `Phases` ties the place of the main thread
  to that of the muxer thread and to `running`; `Marks` says that FINISHED_SEND runs ahead of
  `MUXER_FINISHED` only for the stream that `thread_submit_packet` is about to mark, hence no
  `EINVAL`; `Sleepers` says that who sleeps is in his own call, and that before its finish the
  thread ends only streams that the sender has ended, so each of the calls that do not
  broadcast leaves the answer to the other side as it was: no wake-up is lost. The
  refinement needs `Order`: of each stream, the packets in the file, in the thread queue, in
  hand and in the muxing queue are in this order older than one another (`Lined`), so whatever
  the thread takes is newer than all it has written.
* **The demuxers.** `DemuxerInv` says that a file whose thread lives is open, and that a thread
  in `seek_to_start` has a pass left (`PassIsLeft`), so the count of passes stays a natural
  number.
* **The whole run.** Each step of the main thread is one call of a part or none, which maps
  `Spec` to both parts; their theorems then hold of every run, for any graph of inputs,
  decoders and outputs.
* **The list of work.** The other theorems about a run rest on what may be in `work`, and in which
  order. `EveryStepWorks` says of each step what it puts in place of the head or before it
  (`WorkStep`, with `MayPut`); as no number of further facts about such lists can be had by
  induction on their length, both are stated of the set of their `Elements` and of which comes
  `Before` which (`Arranged`: for instance a packet of a stream that is copied waits only behind
  calls that do not end streams, and the report is behind the trailer).
* **Nothing is left.** `Remaining`: each file that is open has a `stop` in the list, and the result
  has its `report`, or else the loop is not over, which will put them there; so an empty list
  leaves neither. `Phases` and `QueuesOutliveThreads` do the same for the threads.
* **Durations fit.** `Accounted` counts for each file: the durations sent, those taken, and the
  decoders that main has still to flush (`Pending`) are together no more than there are decoders;
  all three are none while the file is read or its LOOPING mark is in the queue, where there is
  one at most.
* **A success is whole.** As long as nothing has failed (`Sound`), each packet given is in one of the
  `Places` of its stream, or waits in its muxing queue, which nothing enters after the end
  (`Complete`); the thread gives up no stream that is still sent, and ends on an empty queue
  (`Ends`); the file is sorted (`FilesSorted`), so that what it holds is all of 1 to `given`. That
  needs what only the whole promises: nothing is given after the end of its stream
  (`EndsLast`). A stream is ended when no more comes to it (`EndItems`, `Closing`): a copied one
  when its file is done, which it then stays (`DoneItems`, `Answering`), an encoded one when
  nothing that decodes or filters is left. And a result that says success was read after
  the trailer (`TrailerFirst`). `WholeInv` is the conjunction.
* **The sync queue.** `Inv` joins to the type that time bases are set once (`Times`), that a
  stream is finished with its last frame (`Limits`), that a queue that is over has no stream
  left (`OverMeansAll`), and that a stream at its end holds nothing that could still come out
  (`EndsStay`). `LimitHolds` is not inductive: `HeadInv` adds that the head is the least and is
  there as soon as it can be (`Led`), that no frame that waits ends after its stream's head
  (`Waiting`), and that without a head nothing with a time was released (`Released`). A second
  is a whole number of ticks (`SyncQueueAssumption`), so that rescaling a head is exact
  (`RescaleIsExact`), and a least head exists because sets of numbers are well founded
  (`LeastOfNumbers`).
* **The heartbeat.** `HeartbeatInv` follows it stream by stream: `Beating` says that the streams told
  so far have reached its time, which is just after the frame that waits, that it does not move
  the stream it is for, and that this stream stays most ahead of all that hold something later. That
  a fake timestamp may be rounded down is `RescaleReaches`.
* **A thread reads its own writes.** A cache that holds the latest value is not inductive, as a
  call may have it still in hand; an editor used again puts its own last values there again.
  `OwnInv` says who has: whoever has a key in hand has used it (`InHand`), an editor and its cache
  agree (`EditorAgrees`), what a call has yet to put is the latest value and a getter brings one
  only where there is none (`InStep`), and with nothing left to put the cache has it
  (`CacheIsLatest`). A key with a single user has no other thread that could come between.
* **Cache and disk.** `ApartInv`: as long as no editor is used again, each is handed to the pool
  once, by one thread, and holds until its commit what it held then. A key only the main thread
  uses is `InTouch` (`FollowInv`): a value below that the cache does not have is either still
  `Pending` in an edit that will change it (`ToCome`), about to be notified, or `Repaired`, that
  is in the main thread's hand; `FillOwned` says that nobody else fills it. `DiskFollowsApplies`
  needs `OrderInv`: with one core thread there is one task at a time (`Single`), only users of a
  key speak of it (`Spoken`), and of the edits under way the last that speaks of a key says its
  latest value (`LatestIsLast`).
* **A getter is not disappointed.** What makes its two reads disagree is an edit of the key
  between them, and that edit has a second thread to make it: until then a getter that has
  found the key still finds it (`SharedPreferenceV2Proofs`).
* **The timeline.** Most rests on what `updateMode` finds (`ModeOfFacts`): a mode whose span is
  shown while no coarser one's is, whatever rounds; that there is one is the well-foundedness of
  the numbers (`GreatestMode`). `ModeFitsScale` is then inductive (only a zoom leaves a nominal
  scale, and it computes the ticks), and a zoom that snaps to another mode passes its nominal
  scale on the way, which gives `ZoomKeepsDirection`. `TouchStopsFling` and `DrawnIsCurrent` are
  inductive. `SelectionIsTouched` needs `CutHeld`: lines are held only in a touch of a cut line,
  and messages are under way only while it holds the end.

Only model-checked: everything temporal beyond a safety property (`RecordingEnds`,
`StopReturns`, `TasksFinish`, `AppliesAreCommitted`, `RunReturns`, `FlingEnds`: liveness under
fairness is out of the prover's reach). Every invariant and every action property of the passing
runs is a theorem: `NoLeak`, `SavedIsWhole` and the refinement of `StatusContract` under the
conditions of the table, all others without one.

## 5. Where code and documentation part

Each of these runs ends in a behaviour of the code that contradicts the line quoted in
`PROJECT.json` ("findings").

* `recorder_max_time`: `Recorder.stop()` at `maxRecordTime` does not wait for the thread; a
  `start()` that comes before the thread tests `isRecord` raises it again, and the old thread
  records on past the limit.
* `recorder_all_data`: `onRecordedAllData` copies the shared buffer when its message is
  delivered, after the next `start()` may have reset it.
* `recorder_io_fault`: `onFileSaveSuccess` follows a write that failed, or a header that was
  cut short.
* `ffmpeg_cancel`: `cancel_execute` is reset only by the loop that sees it. A cancel that finds no
  task under way, or one whose loop has ended, stays set and stops a task submitted after it:
  `cancelOf` is how many tasks had been submitted at the cancel, and the one stopped is not
  among them.
* `preference_pool`: two `apply()` calls of one thread are committed in either order on a pool
  of two threads, although a comment says that the size of the pool makes no difference.

Further behaviour that the models show, and that no line of the repository
denies outright; properties name it as their exception where they touch it:

* The end of a task clears the static listener (`FFmpegCmd.java:68`), also when the next task,
  submitted in answer to `MSG_FINISH`, has already set its own: its progress is lost.
* A file with `-stream_loop` that has sent its LOOPING message waits for the durations of its
  decoders with nothing to end the wait. If the run ends first (a cancel, an error, enough
  output), `thread_stop` joins a thread that waits for ever (`SeekStuck`, `ffmpeg_demux.c:138`).
* `queue_head_update` takes stream 0 as a placeholder and compares the limiting streams with it
  (`sync_queue.c:132`). If it is not limiting and not after any of them, it is the head for good,
  as only a limiting stream can replace it: what ends after the last time of that stream is
  held back, and dropped at the end, although it does not limit. `-frames` on the second of
  two streams is enough. A limiting stream that
  ends without any timestamp holds back all for good.
* What a heartbeat gives a lagging stream counts as reached, so that others may come out
  longer than it, against the intent of `sync_queue.h`. It is rounded to the nearest tick of that
  stream (`sync_queue.c:224`), which with a coarse tick may lie before the frame it is to let out:
  that frame waits on, although the comment there says that the signal is for all streams that
  prevent it from being output. `frame_ts` adds a duration to `NOPTS`.
* A thread whose `AudioRecord` does not start forgets it without `release()` (`Recorder.java:35`, 42),
  so the microphone stays taken until it is collected. After an overlap this happens without
  any fault: a second `start()` puts its own `AudioRecord`, not yet recording, where the first
  thread looks for one that records (`MayDrop`; three recordings in a row are needed).
* A run is reported as a success although the graph failed (`ffmpeg.c:4053`), an input could not
  be read, nothing or no trailer could be written, or a packet was dropped from a full muxing
  queue (`ffmpeg_mux.c:284`); it is reported as failed when `-fs` has cut the file as asked.
* `decode_error_stat` is static and never reset, so that the errors of one task count in the
  verdict on the next (`ffmpeg.c:4227`). `log_callback` uses the `JNIEnv` of the thread that
  runs the command, also when a demuxer or muxer thread logs (`ffmpeg_cmd.c:73`).
* A drag tests its limits where the line was before it (`CutPieceFragment.kt:251`, 267), so one
  fast move takes the start past the end or before the audio, and the end past the audio; so does
  auto-scroll. The comments at 253, 256, 269 and 272 describe the tests, not the result.
* The task of `apply()` has the editor itself (`SharedPreferenceV2.java:236`). What is put after
  `apply()` and before the pool runs the task reaches the disk although nobody applied it, and the
  cache does not have it; the comment at 238 is about threads only. `DiskFollowsApplies` and
  `CacheFollowsDisk` except an editor that was used again (`reused`). The callers in
  `PreferencesUtility` take a new editor for each `apply()`.
* Each move at the edge sends one more message that sends itself again (283), so scrolling gets
  faster with each, although the comment at 188 names two constants that control its speed.
* A button sets unit and scale but not `mTickSpacing` (`MultiTrackAudioEditorView.kt:279`), by which
  `onDraw` goes from tick to tick. After a zoom to between two modes the ticks keep the spacing
  of that zoom under the new scale, until the next one: `ModeFitsScale` excepts them at the
  nominal scale of a mode.
* On screens of 720, 750 or 1440 pixels (for the two coarsest modes) and of 480, 1125 or 1284 (for
  the second to the fourth) the float quotient falls below the span of the mode, and a zoom out to
  exactly that span snaps back to the finer mode. ACTION_CANCEL leaves `status` and
  `scrollHappened` as they were.

## 6. What is not modelled

* Of the components above: the value of the volume, `executeSync`, `isContinue` (nothing sets
  it), the silence detection and `onDestroy` of the cut screen, `getAll()` and `contains()` of
  the preferences (they only read), restarts of the process.
* Of the native code: options and the opening of files (`ffmpeg_opt.c`, `ffmpeg_mux_init.c`,
  `opt_common.c`, `cmdutils.c`: one sequential pass before the threads exist), `ffprobe.c`, video,
  subtitles and attachments, bitstream filters, `-sdp_file`, `-re`, `-xerror`, keys and signals,
  allocations that fail, timestamps other than in the sync queue. The sync queue is checked on
  its own: composed with `Transcode` it is out of TLC's reach. Most of the C lines of the tree
  are headers of the vendored libraries, which have no behaviour of their own.
* Of the timeline: painting, the vertical drag of the audio, display settings (tick direction,
  cursor, offset and colours), a size that changes after the first layout, the second call of
  `setRange`, and `setScale`: its slider is `gone` in the layout. (Shown, it would set `status` to
  ZOOM during a fling, which a touch would then not stop.)
* `MultiProcessPriorityTask` (no callers; the end of a task forgets a more urgent one that has
  just arrived, line 130) and `RenderView` (only the demo recorder's; a thread paused when its
  surface is destroyed waits for ever, line 174).
* Of the preferences: a thread that keeps an older editor beside a newer one, and `putString` or
  `putStringSet` of null, which a `ConcurrentHashMap` refuses with an exception (line 169).
* Sample values (`IdealRecorder.java:267` hands one shared array to every message), the overflow
  of the `int` sizes of a WAV header, a save path changed during a recording, and defaults that
  a getter caches.
* `SimpleCache`, `DiskCache`, `MemoryCache` (no callers), `RxBus`, the life-cycle lists, the media
  library, screens and permissions: thin layers over the platform, with no ordering of their
  own to check.
* Multi-track playback (configuration of ExoPlayer), parsers and command lines (pure functions of
  strings), the libraries of FFmpeg, Amplituda and the view libraries (vendored).

## 7. Plan

Done: the recorder, its file and its contract; the FFmpeg tasks and their contract; the native
run with its threads and queues, and the contract of its file; the sync queue; the cached
preferences and their pool; the timeline and its selection; the theorems of section 4. What would
come next:

1. `PriorityTask` and `RenderThread`, each with the hazard named in section 6.
2. The life cycle of the cut screen (`onDestroy` during a task) in `FfmpegTask`.

---------------------------- MODULE AudioFileHelper ----------------------------
(***************************************************************************)
(* recorderLib .../file/AudioFileHelper.java: writes a recording to disk.  *)
(* It has no lock: the caller's thread runs each method.  A method is one  *)
(* action here, and the listener calls it makes are its parameter v, the   *)
(* sequence of verdicts "saved" (onSuccess) and "saveFailed" (onFailure).  *)
(* A RandomAccessFile is a number, in the order of construction; 0 stands  *)
(* for null.  What a file holds is the sequence of threads whose buffers   *)
(* were written to it, and the state of its 44 byte header.                *)
(***************************************************************************)
EXTENDS Naturals, Sequences

CONSTANTS
  Paths,        \* the paths a client may ask for
  NoPath,       \* null, and the empty string
  MaxHandles,   \* bound: RandomAccessFiles constructed in a behaviour
  IoFaults      \* may a call on the RandomAccessFile throw IOException?

ASSUME FileAssumption ==
  /\ NoPath \notin Paths
  /\ MaxHandles \in Nat
  /\ IoFaults \in BOOLEAN

VARIABLES
  savePath,     \* field savePath
  isWav,        \* field isWav
  hasConfig,    \* field config # null
  raf,          \* field randomAccessFile
  targetFile,   \* field targetFile
  opened,       \* how many RandomAccessFiles were constructed
  handle,       \* each RandomAccessFile: still open?, its header, its data
  linked        \* the file that stands at each path, 0 if none does

fileVars == <<savePath, isWav, hasConfig, raf, targetFile, opened, handle, linked>>

Handles == 1..MaxHandles

(* The listener calls one method can make. *)
Verdicts == {<<>>, <<"saved">>, <<"saveFailed">>}

(* A header is absent from raw PCM, has size fields still zero ("blank"),  *)
(* was only partly written ("torn"), or has its sizes patched in.  Size    *)
(* fields patched into a file without a header overwrite samples.          *)
Headers == {"none", "blank", "torn", "sized", "spoilt"}

FileTypeOK ==
  /\ savePath \in Paths \union {NoPath}
  /\ isWav \in BOOLEAN
  /\ hasConfig \in BOOLEAN
  /\ opened \in 0..MaxHandles
  /\ raf \in 0..opened
  /\ targetFile \in Paths \union {NoPath}
  /\ handle \in [Handles -> [open: BOOLEAN, header: Headers, data: Seq(Nat)]]
  /\ linked \in [Paths -> 0..opened]

FileInit ==
  /\ savePath = NoPath
  /\ isWav = TRUE
  /\ hasConfig = FALSE
  /\ raf = 0
  /\ targetFile = NoPath
  /\ opened = 0
  /\ handle = [h \in Handles |-> [open |-> FALSE, header |-> "none", data |-> <<>>]]
  /\ linked = [p \in Paths |-> 0]

--------------------------------------------------------------------------------
(* The setters. *)

setSavePath(p) ==
  /\ savePath' = p
  /\ UNCHANGED <<isWav, hasConfig, raf, targetFile, opened, handle, linked>>

setRecorderConfig ==
  /\ hasConfig' = TRUE
  /\ UNCHANGED <<savePath, isWav, raf, targetFile, opened, handle, linked>>

setWav(wav) ==
  /\ isWav' = wav
  /\ UNCHANGED <<savePath, hasConfig, raf, targetFile, opened, handle, linked>>

--------------------------------------------------------------------------------
(* start and open *)

(* Constructing the RandomAccessFile of the next handle: the field is      *)
(* assigned before the header is written, and whatever file the field held *)
(* before is not closed.                                                   *)
Construct(header) ==
  /\ opened < MaxHandles                                   \* bound
  /\ opened' = opened + 1
  /\ raf' = opened'
  /\ handle' = [handle EXCEPT ![opened'] = [open |-> TRUE, header |-> header, data |-> <<>>]]
  /\ linked' = [linked EXCEPT ![savePath] = opened']

NotOpened(v) ==
  /\ savePath = NoPath \/ ~hasConfig
  /\ v = <<>>
  /\ UNCHANGED fileVars

Opened(v) ==
  /\ savePath # NoPath
  /\ hasConfig
  /\ Construct(IF isWav THEN "blank" ELSE "none")
  /\ v = <<>>
  /\ targetFile' = savePath
  /\ UNCHANGED <<savePath, isWav, hasConfig>>

HeaderFails(v) ==
  /\ IoFaults
  /\ savePath # NoPath
  /\ hasConfig
  /\ Construct(IF isWav THEN "torn" ELSE "none")
  /\ v = <<"saveFailed">>
  /\ targetFile' = savePath
  /\ UNCHANGED <<savePath, isWav, hasConfig>>

(* The old file at the path has been deleted by then. *)
ConstructorFails(v) ==
  /\ IoFaults
  /\ savePath # NoPath
  /\ hasConfig
  /\ v = <<"saveFailed">>
  /\ targetFile' = savePath
  /\ linked' = [linked EXCEPT ![savePath] = 0]
  /\ UNCHANGED <<savePath, isWav, hasConfig, raf, opened, handle>>

fileStart(v) == NotOpened(v) \/ Opened(v) \/ HeaderFails(v) \/ ConstructorFails(v)

--------------------------------------------------------------------------------
(* save: a buffer that thread w recorded is appended to the file. *)

fileSave(w, v) ==
  /\ UNCHANGED <<savePath, isWav, hasConfig, raf, targetFile, opened, linked>>
  /\ \/ /\ raf = 0
        /\ v = <<>>
        /\ UNCHANGED handle
     \/ /\ raf # 0
        /\ v = <<>>
        /\ handle' = [handle EXCEPT ![raf].data = Append(@, w)]
     \/ /\ raf # 0
        /\ IoFaults
        /\ v = <<"saveFailed">>
        /\ UNCHANGED handle

(* Fault: the sizes are never written. *)
NeverPatched(header) == header

(* finish and close: patch the sizes when isWav is set now, whether or not *)
(* the file was started with a header, report, and close in any case.      *)
Patched(header) ==
  CASE ~isWav -> header
    [] isWav /\ header = "none" -> "spoilt"
    [] isWav /\ header = "blank" -> "sized"
    [] OTHER -> header

(* Fault: the handle is not closed. *)
StillOpen(header) == [handle EXCEPT ![raf].header = header]

Closed(header) ==
  [handle EXCEPT ![raf] = [open |-> FALSE, header |-> header, data |-> handle[raf].data]]

fileFinish(v) ==
  /\ UNCHANGED <<savePath, isWav, hasConfig, targetFile, opened, linked>>
  /\ raf' = 0
  /\ \/ /\ raf = 0
        /\ v = <<"saveFailed">>
        /\ UNCHANGED handle
     \/ /\ raf # 0
        /\ v = <<"saved">>
        /\ handle' = Closed(Patched(handle[raf].header))
     \/ /\ raf # 0
        /\ IoFaults
        /\ v = <<"saveFailed">>
        /\ handle' = Closed(handle[raf].header)

(* cancel: deletes the file and forgets the handle without closing it. *)
fileCancel ==
  /\ UNCHANGED <<savePath, isWav, hasConfig, opened, handle>>
  /\ IF raf = 0 \/ targetFile = NoPath
     THEN UNCHANGED <<raf, targetFile, linked>>
     ELSE /\ linked' = [linked EXCEPT ![targetFile] = 0]
          /\ raf' = 0
          /\ targetFile' = NoPath

(* Handles that were forgotten while still open. *)
Leaked == {h \in Handles : handle[h].open /\ h # raf}
================================================================================

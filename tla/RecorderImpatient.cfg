\* A client that may start again at once; nothing fails outside the recorder.
SPECIFICATION FairSpec
CONSTANTS
  Paths = {p1}
  NoPath = NoPath
  MaxHandles = 2
  IoFaults = FALSE
  MaxSessions = 2
  MaxChunks = 2
  MaxPending = 2
  MaxRecordTime = 200
  VolumeInterval = 200
  Client = {"restarts"}
  Faults = {}
INVARIANTS OneRecordingAtATime NoLeak MicReleased
PROPERTIES SavedIsWhole StopReturns

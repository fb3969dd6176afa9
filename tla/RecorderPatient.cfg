\* A client that starts again once onStopRecording has come; everything may fail.
SPECIFICATION FairSpec
CONSTANTS
  Paths = {p1}
  NoPath = NoPath
  MaxHandles = 2
  IoFaults = TRUE
  MaxSessions = 2
  MaxChunks = 2
  MaxPending = 2
  MaxRecordTime = 200
  VolumeInterval = 200
  Client = {}
  Faults = {"permission", "recorder", "boot", "read"}
INVARIANTS TypeOK PatientClientIsSafe
PROPERTIES ContractHolds RecordingEnds

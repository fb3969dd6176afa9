\* What a saved file holds when a write fails.
SPECIFICATION FairSpec
CONSTANTS
  Paths = {p1}
  NoPath = NoPath
  MaxHandles = 2
  IoFaults = TRUE
  MaxSessions = 2
  MaxChunks = 2
  MaxPending = 2
  MaxRecordTime = 200
  VolumeInterval = 200
  Client = {}
  Faults = {"permission", "recorder", "boot", "read"}
PROPERTY SavedIsWhole

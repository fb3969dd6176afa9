\* maxRecordTime as a limit, for a client that starts again at once.
SPECIFICATION FairSpec
CONSTANTS
  Paths = {p1}
  NoPath = NoPath
  MaxHandles = 2
  IoFaults = FALSE
  MaxSessions = 2
  MaxChunks = 3
  MaxPending = 2
  MaxRecordTime = 200
  VolumeInterval = 200
  Client = {"restarts"}
  Faults = {}
INVARIANT MaxTimeHolds

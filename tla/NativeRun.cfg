CONSTANTS
  NStreams = 2
  QueueSize = 1
  MaxQueued = 1
  MaxPackets = 6
  Inputs = {1, 2}
  FileOf <- MCFileOf
  Decoded = {2}
  InQueueSize = 1
  NonBlocking = {1}
  Loops <- MCLoops
  MaxRead = 2
  CopyOf <- MCCopyOf
  GraphOf <- MCGraphOf
SPECIFICATION Spec
INVARIANTS
  QueuesAreKept
  SendIsNeverInvalid
  NoLostWakeUp
  DurationsFit
  SuccessIsWhole
  NothingIsLeft
CHECK_DEADLOCK FALSE
PROPERTIES
  MuxerKeepsContract
  RunReturns

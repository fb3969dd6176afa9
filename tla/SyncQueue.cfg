CONSTANTS
  NStreams = 3
  Tick <- MCTick
  DefaultTick = 6
  FramesMax <- MCFramesMax
  BufSize = 1
  MaxTs = 2
  MaxFrames <- MCMaxFrames
SPECIFICATION Spec
INVARIANTS FramesAreLimited HeadIsLeast LimitHolds ShortestIsWhole OneHeartbeatIsEnough
PROPERTY EofIsFinal
CHECK_DEADLOCK FALSE

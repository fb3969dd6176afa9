\* Two edits of a key on a machine with two cores.
SPECIFICATION Spec
CONSTANTS
  Keys = {k1}
  Values = {v1, v2}
  Absent = Absent
  Kept = Kept
  Threads = {main}
  main = main
  Writers = {main}
  Cores = {2}
  QueueSize = 200
  MaxCalls = 4
INVARIANT PoolSizeMakesNoDifference

\* One or two cores, with and without the listener, two threads.
SPECIFICATION FairSpec
CONSTANTS
  Keys = {k1}
  Values = {v1, v2}
  Absent = Absent
  Kept = Kept
  Threads = {main, other}
  main = main
  Writers = {main}
  Cores = {1, 2}
  QueueSize = 1
  MaxCalls = 4
INVARIANTS ReadsOwnWrites DiskFollowsApplies CacheFollowsDisk OnlySharedKeysAreNulled
PROPERTIES AppliesAreCommitted

\* A rival block at the same height when the watcher looks.
SPECIFICATION Spec
CONSTANTS
  f1 = f1
  m1 = m1
  m2 = m2
  MaxHeight = 4
  Winnable <- FirstTwo
  Ours = ours
  Foreign <- OneForeign
  NoBlock = noblock
  LockTime = 1
  ExpireTime = 2
  ReorgDepth = 1
  Users <- OneMiner
  Registered <- OneMiner
  MaxCrashes = 0
INVARIANTS UnlocksOwnBlocks
CHECK_DEADLOCK FALSE

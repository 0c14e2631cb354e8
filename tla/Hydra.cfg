SPECIFICATION HSpec
CONSTANTS
  bbs = bbs
  caller = caller
  Peers <- mcPeers
  Terminals <- mcTerminals
  Files = {"f1", "f2"}
  Size <- mcSize
  Links <- mcLinks
  Retries = 1
  Fallback = 0
  BrainDead = 2
  MaxBlocks = 1
  Room = 4
  MaxFaults = 1
INVARIANTS CompletedMeansAll
PROPERTIES HDelivers HEnds
CHECK_DEADLOCK FALSE

SPECIFICATION ZSpec
CONSTANTS
  Files = {"f1", "f2", "f3"}
  Size <- mcSize
  Links <- mcLinks
  ClosedTwice = {"stop"}
  Tries <- mcTries
  Window = 4
  MaxFaults = 2
INVARIANTS OkMeansAll
PROPERTIES ZDelivers ZEnds
CHECK_DEADLOCK FALSE

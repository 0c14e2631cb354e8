SPECIFICATION FilesSpec
CONSTANTS
  n1 = n1
  n2 = n2
  u1 = u1
  u2 = u2
  Nodes = {n1, n2}
  Users = {u1, u2}
  Names = {"a", "b", "x"}
  Free = {}
  Diz = {"a"}
  Invalid = {"b"}
  Shelf = {"x"}
  Ratio = 1
  MaxFiles = 2
  MaxTransfers = 2
  MaxNews = 1
  MaxMoves = 1
INVARIANTS NoFileLost ListMatches CreditsExact RatioKept
PROPERTIES StopEnds
CONSTRAINT Casts
CHECK_DEADLOCK FALSE

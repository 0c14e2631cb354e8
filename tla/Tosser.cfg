SPECIFICATION TosserSpec
CONSTANTS
  hub = hub
  west = west
  east = east
  none = none
  Systems <- MCSystems
  OutList <- MCOutList
  Archive <- MCArchive
  Tags <- MCTags
  AreaLinks <- MCAreaLinks
  Route <- MCRoute
  Stray <- MCStray
  Nobody = none
  Messages <- MCMessages
  Days = 2
  MaxFaults = 1
INVARIANTS OnceEach
CONSTRAINT Casts
PROPERTIES Arrives

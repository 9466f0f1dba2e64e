SPECIFICATION FairSpec
CONSTANTS
  MaxInodes = 4
  MaxChanges = 2
  MaxFaults = 1
INVARIANTS TypeOK NoEcho
PROPERTIES EveryFileHeard RootWatched
CHECK_DEADLOCK FALSE

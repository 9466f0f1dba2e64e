SPECIFICATION FairSpec
CONSTANTS
  Paths <- MCPaths
  EnvOps = {"append","drop","scrub","vanish"}
  Faults = {"crash","power","io","dbgone","return"}
  MaxIds = 3
  MaxChanges = 4
  MaxFaults = 2
INVARIANTS TypeOK Converged NothingMissing CursorCovers
PROPERTY EventuallyConverged

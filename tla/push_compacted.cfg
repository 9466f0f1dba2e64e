SPECIFICATION Spec
CONSTANTS
  Ids = {i1}
  Handlers = {h1}
  CliOps = {"compact"}
  Faults = {"lost"}
  MaxCli = 1
  MaxFaults = 1
INVARIANT RetriedOnce

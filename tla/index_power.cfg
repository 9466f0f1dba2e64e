SPECIFICATION Spec
CONSTANTS
  Paths <- MCPaths
  EnvOps = {"append"}
  Faults = {"power"}
  MaxIds = 2
  MaxChanges = 3
  MaxFaults = 1
INVARIANT AlwaysConverged

SPECIFICATION FairSpec
CONSTANTS
  Ids = {i1, i2}
  Handlers = {h1, h2}
  CliOps = {"emit", "compact"}
  Faults = {"lost", "impatient", "crash", "io", "ingest", "short"}
  MaxCli = 1
  MaxFaults = 3
INVARIANTS TypeOK AppendedOnce ReadYourPush
PROPERTIES ImplementsStore EventuallyTold

SPECIFICATION FairSpec
CONSTANTS
  Procs = {p1, p2}
  NoProc = NoProc
  Stamps = {1, 3}
  MonthOf <- MCMonthOf
  Ops = {"emit", "push", "compact", "redact"}
  Faults = {"io", "seqfile"}
  MaxEvents = 2
  MaxFaults = 2
INVARIANTS TypeOK OnePlace AuditTrue
PROPERTIES ImplementsStore LockComesBack

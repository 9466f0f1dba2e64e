SPECIFICATION Spec
CONSTANTS
  Procs = {p1}
  NoProc = NoProc
  Stamps = {1}
  MonthOf <- MCMonthOf
  Ops = {"emit", "compact"}
  Faults = {"crash"}
  MaxEvents = 2
  MaxFaults = 1
INVARIANT AckedReadable
CHECK_DEADLOCK FALSE

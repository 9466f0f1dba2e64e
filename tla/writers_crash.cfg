SPECIFICATION Spec
CONSTANTS
  Procs = {p1, p2}
  NoProc = NoProc
  Stamps = {1, 3}
  MonthOf <- MCMonthOf
  Ops = {"emit", "push", "compact", "redact"}
  Faults = {"io", "crash", "tailread", "stat", "undo"}
  MaxEvents = 2
  MaxFaults = 2
INVARIANTS SeqOrder SeqUnique
PROPERTIES NoLeakReturns LeavesForArchive

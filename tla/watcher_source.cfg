SPECIFICATION FairSpec
CONSTANTS
  Files = {f1, f2, f3, f4}
  Window = 2
  Budget = 2
  QueueCap = 1
  MaxChanges = 4
INVARIANTS TypeOK Accounted RateBound
PROPERTIES AllSettled ShutdownEnds

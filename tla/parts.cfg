SPECIFICATION Spec
CONSTANTS
  Servers = 2
  Era = 8
  Second = 2
  Start = 6
  MaxNow = 12
  Errors <- MCErrors
  MaxRTT = 3
  MaxOffset = 2
  MaxSteps = 1
  MaxSleep = 2
  Length = 4
  MaxSpans = 3
  Fields = {k1, k2, k3}
  Names <- MCNames
  Prompts = {p1, p2}
  SessionCap = 4
  PerFireCap = 2
  MinFire = 1
  MaxAnswer = 3
  MaxPrompts = 6
  MaxSpoiled = 2
  Shards = {s1, s2}
  MaxLines = 3
  MaxTroubles = 2
INVARIANTS OffsetBound RedactsExactly BudgetKept WatchRemembers
CHECK_DEADLOCK FALSE

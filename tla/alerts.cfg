SPECIFICATION FairSpec
CONSTANTS
  Checks = {c1, c2}
  Schedules <- MCSchedules
  Threshold = 2
  Cooldown = 2
  Repeat = 2
  MaxFaults = 1
INVARIANTS TypeOK AlertJustified
PROPERTIES OutageAlerted Throttled  TroubleTold

SPECIFICATION FairSpec
CONSTANTS
  Names <- TwoMessages
  Damaged = {}
  a = a
  b = b
  Receivers = {a, b}
  KindOf <- WorkerAndOnce
  Batch = 2
  MaxAttempts = 3
  Faults = {}
  MaxCrashes = 0
  MaxRuns = 1
  Absent = Absent
PROPERTY EveryMessageEnds

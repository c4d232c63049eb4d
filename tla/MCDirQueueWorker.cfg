SPECIFICATION FairSpec
CONSTANTS
  Names <- ThreeMessages
  Damaged = {2}
  a = a
  b = b
  Receivers = {a}
  KindOf <- JustWorker
  Batch = 2
  MaxAttempts = 3
  Faults = {"process", "crash"}
  MaxCrashes = 2
  MaxRuns = 0
  Absent = Absent
INVARIANTS TypeOK NothingLost ExtraTriesAreCrashes
PROPERTIES ImplementsContract EveryMessageEnds

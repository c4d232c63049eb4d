SPECIFICATION Spec
CONSTANTS
  Names <- ThreeMessages
  Damaged = {2}
  a = a
  b = b
  Receivers = {a, b}
  KindOf <- CliAndInline
  Batch = 2
  MaxAttempts = 3
  Faults = {"process", "crash", "midnack", "io"}
  MaxCrashes = 1
  MaxRuns = 3
  Absent = Absent
INVARIANTS ClaimedIsInvisible DeadWasHopeless
CHECK_DEADLOCK FALSE

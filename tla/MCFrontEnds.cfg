SPECIFICATION FrontSpec
CONSTANTS
  Categories <- RivergateCategories
  Priorities <- RivergatePriorities
  ConfidenceFloor <- RivergateFloor
  Rules <- RivergateRules
  DefaultRoute <- RivergateDefault
  Nil = Nil
  d = d
  w = w
  o = o
  i1 = i1
  a1 = a1
  b2 = b2
  Threads = {d, w, o}
  Ids = {i1}
  Answers <- MCAnswers
  Labels <- MCLabels
  ProcOf <- MCFronts
  FrontOf <- MCFronts
  Workspaces = {a1, b2}
  AllowSpecs <- MCAllowSpecs
  SessionTTL = 1
  DefaultTTL = 2
  SandboxTTL <- MCSandboxTTL
  Faults = {"put", "crash"}
  MaxCalls = 4
  MaxClock = 2
  MaxFailures = 1
SYMMETRY SignIns
CHECK_DEADLOCK FALSE
INVARIANTS
  FrontOK
  SignedInKeepsTickets
  ReviewedByOneWhoMay
PROPERTY
  VerdictYieldsToRivalsOnly

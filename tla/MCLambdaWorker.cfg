SPECIFICATION DeliveryFairSpec
CONSTANTS
  Categories <- RivergateCategories
  Priorities <- RivergatePriorities
  ConfidenceFloor <- RivergateFloor
  Rules <- RivergateRules
  DefaultRoute <- RivergateDefault
  Nil = Nil
  w1 = w1
  w2 = w2
  sent = sent
  dropped = dropped
  i1 = i1
  Threads = {w1, w2}
  Ids = {i1}
  Messages = {sent, dropped}
  KindsOf <- MCKinds
  TicketOf <- Carries
  Answers <- Answer
  Labels = {}
  ProcOf <- Lambdas
  Faults = {"get", "act", "s3", "crash"}
  BatchSize = 2
  MaxReceives = 2
  MaxTimedOut = 2
  MaxCalls = 6
CHECK_DEADLOCK FALSE
INVARIANTS
  DeliveryOK
  DeadNeedsAttention
  ForgottenIsSettled
PROPERTY
  EveryTicketSettles

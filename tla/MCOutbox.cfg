SPECIFICATION SinkSpec
CONSTANTS
  Categories <- RivergateCategories
  Priorities <- RivergatePriorities
  ConfidenceFloor <- RivergateFloor
  Rules <- RivergateRules
  DefaultRoute <- RivergateDefault
  Nil = Nil
  t1 = t1
  t2 = t2
  i1 = i1
  Threads = {t1, t2}
  Ids = {i1}
  Answers <- MCAnswers
  Labels <- MCLabels
  ProcOf <- OneProcess
  Faults = {"get", "put", "act", "crash"}
  MaxCalls = 4
  MaxLosses = 1
SYMMETRY Callers
CHECK_DEADLOCK FALSE
INVARIANTS
  PagesOnceUnlessLost
  FeedIsOutbox
  NumbersAreUnique
PROPERTIES
  DefersUnlessLost
  AuditAppendOnly
  VerdictStands
  CallsAreAtomic

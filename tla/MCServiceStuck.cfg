SPECIFICATION Spec
CONSTANTS
  Categories <- RivergateCategories
  Priorities <- RivergatePriorities
  ConfidenceFloor <- RivergateFloor
  Rules <- RivergateRules
  DefaultRoute <- RivergateDefault
  Nil = Nil
  t1 = t1
  t2 = t2
  i1 = i1
  Threads = {t1, t2}
  Ids = {i1}
  Answers <- MCAnswers
  Labels <- MCLabels
  ProcOf <- OneProcess
  Faults = {"put"}
  MaxCalls = 3
SYMMETRY Callers
CHECK_DEADLOCK FALSE
PROPERTY LowConfidenceDefers

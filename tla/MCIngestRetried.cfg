SPECIFICATION IngestSpec
CONSTANTS
  Categories <- RivergateCategories
  Priorities <- RivergatePriorities
  ConfidenceFloor <- RivergateFloor
  Rules <- RivergateRules
  DefaultRoute <- RivergateDefault
  Nil = Nil
  w = w
  h = h
  d = d
  Threads = {w, h, d}
  RolesOf <- ThreeCallers
  ProcOf <- TwoProcesses
  Ids <- MCIds
  Payloads <- MCPayloads
  Forms <- MCForms
  Files = {1}
  FilePayloads <- MCFiles
  Answers <- MCAnswers
  Labels = {}
  Faults = {"send"}
  Batch = 2
  MaxMessages = 4
  MaxCalls = 16
  MaxVisits = 2
  MaxFailures = 1
INVARIANT QueuedMeansSent

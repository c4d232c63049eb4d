SPECIFICATION IngestFairSpec
CONSTANTS
  Categories <- RivergateCategories
  Priorities <- RivergatePriorities
  ConfidenceFloor <- RivergateFloor
  Rules <- RivergateRules
  DefaultRoute <- RivergateDefault
  Nil = Nil
  w = w
  h = h
  d = d
  Threads = {w, h, d}
  RolesOf <- ThreeCallers
  ProcOf <- TwoProcesses
  Ids <- MCIds
  Payloads <- MCPayloads
  Forms <- MCForms
  Files = {1}
  FilePayloads <- MCFiles
  Answers <- MCAnswers
  Labels = {}
  Faults = {"send", "crash", "io", "get", "put"}
  Batch = 2
  MaxMessages = 3
  MaxCalls = 16
  MaxVisits = 1
  MaxFailures = 1

INVARIANTS
  IngestOK
  ReceivedIsDriven
  NoSecondMessage
  AnsweredForItsOwn
  FilesAccountedFor
PROPERTIES FormsAreTickets EverythingLands

SPECIFICATION PairSpec
CONSTANTS
  Settings = {"calm", "rough"}
  Job = {j1}
  Worker = {w1, w2}
  ApprovalId = {a1, a2}
  MaxAttempts = 2
  Processes = 2
  NoWorker = NoWorker
  NoKey = NoKey
  NoRequest = NoRequest
  LeasesExpire = TRUE
  ModeChanges = FALSE
  Crashes = FALSE
  OwnerActs = TRUE
  DatabaseErrors = TRUE
  Deploys = TRUE
INVARIANTS
  CalmWorkersKeepApart
PROPERTIES
  CalmJobsSettle
  TerminalStays

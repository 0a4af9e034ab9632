SPECIFICATION Spec
CONSTANTS
  Job = {j1}
  Worker = {w1, w2}
  ApprovalId = {a1}
  MaxAttempts = 2
  Processes = 1
  NoWorker = NoWorker
  NoKey = NoKey
  NoRequest = NoRequest
  LeasesExpire = TRUE
  ModeChanges = FALSE
  Crashes = TRUE
  OwnerActs = FALSE
  DatabaseErrors = FALSE
  Deploys = FALSE
SYMMETRY Symmetries
\* the worker ids run out: the last process may die and nobody follows it
CHECK_DEADLOCK FALSE
INVARIANTS
  SucceededNeverDiscarded

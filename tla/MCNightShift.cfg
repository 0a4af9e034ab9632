SPECIFICATION FairSpec
CONSTANTS
  Job = {j1}
  Worker = {w1, w2, w3}
  ApprovalId = {a1, a2}
  MaxAttempts = 2
  Processes = 1
  NoWorker = NoWorker
  NoKey = NoKey
  NoRequest = NoRequest
  LeasesExpire = TRUE
  ModeChanges = TRUE
  Crashes = TRUE
  OwnerActs = TRUE
  DatabaseErrors = TRUE
  Deploys = TRUE
ACTION_CONSTRAINT EarlyReleases
\* the worker ids run out: the last process may die and nobody follows it
CHECK_DEADLOCK FALSE
INVARIANTS
  DraftsAreEarned
PROPERTIES
  OrphansAreRecovered
  NoWorkAfterTheEnd

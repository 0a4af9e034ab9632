SPECIFICATION Spec
CONSTANTS
  Parts = {"execution", "gateway", "schedule", "action", "dispatch"}
  Process = {p1, p2}
  Execution = {i1}
  NoExecution = NoExecution
  Errors = TRUE
  Route = {"k1", "k2", "k3"}
  Question = {r1, r2}
  Day = 6
  Period = 2
  Action = {w1}
  Draft = {d1, d2}
  ApprovalId = {b1, b2}
  Caller = {c1, c2}
  NoAction = NoAction
  NoDraft = NoDraft
  NoApproval = NoApproval
  NoRequest = NoRequest
\* the workspace action may be over and no draft or approval left to work on
CHECK_DEADLOCK FALSE
INVARIANTS
  RunsOnceApproved
  LogIsTrue
  TriesAreJustified
  OneCallInFlight
  OutcomeIsRecorded
PROPERTIES
  RunningEnds
  FailingRoutesAreSpared
  ScheduleIsFollowed
  SupersededNeverWritten
  ClaimedIsFinished
  EveryRunEnds

SPECIFICATION Spec
CONSTANTS
  Parts = {"schedule"}
  Process = {p1, p2}
  Execution = {i1}
  NoExecution = NoExecution
  Errors = FALSE
  Route = {"k1", "k2", "k3"}
  Question = {r1}
  Day = 6
  Period = 2
  Action = {w1}
  Draft = {d1, d2}
  ApprovalId = {b1}
  Caller = {c1, c2}
  NoAction = NoAction
  NoDraft = NoDraft
  NoApproval = NoApproval
  NoRequest = NoRequest
PROPERTIES
  QuietIsKept

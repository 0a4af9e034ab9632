SPECIFICATION PartSpec
CONSTANTS
  Parts = {"actions"}
  Action = {w1}
  Draft = {d1, d2}
  ApprovalId = {b1}
  Caller = {p1, p2}
  NoAction = NoAction
  NoApproval = NoApproval
  NoDraft = NoDraft
  NoRequest = NoRequest
  Crashes = TRUE
  Assignment = {i1, i2}
  Actor = {o1, o2}
  Approvals = {a1, a2}
  Servers = {q1, q2}
  NoAssignment = NoAssignment
  NoAsk = NoAsk
  MaxAttempts = 2
SYMMETRY Symmetries
\* the last action or assignment may be over and nothing left to work on
CHECK_DEADLOCK FALSE
INVARIANTS
  FailedLeavesNothing

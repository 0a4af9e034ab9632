SPECIFICATION Spec
CONSTANTS
    Key = {k1}
    ApprovalId = {a1}
    Caller = {c1}
    Requests <- OneGated
    NoKey = NoKey
    NoRequest = NoRequest
    Syncs = 0
    Crashes = FALSE
SYMMETRY Symmetries
CHECK_DEADLOCK FALSE
INVARIANTS
    RefusedApprovalIsExpired

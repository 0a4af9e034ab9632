SPECIFICATION Spec
CONSTANTS
    Key = {k1}
    ApprovalId = {a1, a2}
    Caller = {c1, c2}
    Requests <- AllKinds
    NoKey = NoKey
    NoRequest = NoRequest
    Syncs = 1
    Crashes = TRUE
\* a synchronisation under a live caller lets two callers free each other for ever
CONSTRAINT FewExecutions
SYMMETRY Symmetries
CHECK_DEADLOCK FALSE
INVARIANTS
    TypeOK
    ExecutionNeedsApproval
    DecisionsAgree
    OneOpenApproval
    OverrunIsBounded
PROPERTIES
    ClosedStaysClosed
    ImplementsGate

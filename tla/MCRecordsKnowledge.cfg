CONSTANTS
    Parts = {"startup"}
    Process  = {p1, p2}
    None     = None
    Intake   = {n1, n2}
    Ref      = {f1}
    Update   = {u1, u2}
    MaxTries = 2
    Chat     = {c1, c2}
    User     = {w1, w2}
    MaxQuestion = 3
    Menu     <- Menus
    Contextual = {"ok"}
    Reply    = {"1", "2", "push", "drop", "ok"}
    Item     = {i1, i2}
    Decision = {d1, d2, d3}
    Link     = {l1}
    Account  = {g1, g2}
    Version  = {v1}
    Job      = {j1}
    Gap      = {g3}
    Topic    = {t1, t2}
    Counts   = {1, 2, 3}
    Tasks    = {1}
    Title    = {"draft"}
    Priorities = {1}
    Moments  = {1, 2}
    NextActions = {"", "review"}
    Others   = {0}
    Entry    = {e1, e2, e3}
    Hidden   = Hidden
    Page     = {k1, k2}
    Limit    = 2
    MaxSize  = 2
    MaxCopies = 3
SPECIFICATION Spec
INVARIANT KnowledgeIsPreserved
CHECK_DEADLOCK FALSE

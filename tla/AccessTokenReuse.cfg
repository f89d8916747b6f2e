CONSTANTS
    w1 = w1  w2 = w2  a1 = a1
    t1 = t1  t2 = t2  t3 = t3
    p1 = p1  p2 = p2
    NoToken = NoToken
    NoApprover = NoApprover
    Worker <- TwoWorkers
    Admin <- NoAdmin
    Token <- TwoTokens
    Approver <- OneApprover
    Types = {"NEW"}
    Considered <- ConsideredNew
SPECIFICATION Spec
SYMMETRY Symmetry
CHECK_DEADLOCK FALSE
INVARIANTS TokenClearedAfterUse

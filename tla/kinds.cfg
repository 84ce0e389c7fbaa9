CONSTANTS
    c1 = c1
    c2 = c2
    m1 = m1
    m2 = m2
    Requests = {c1, c2}
    Managers = {m1}
    NoRequest = NoRequest
    IssuerRef <- UnregisteredAndList
    CheckApprovedCondition = FALSE
    RejectedStates = {"DECLINED"}
    RefusalText = FALSE
    MaxOrders = 0
    MaxFaults = 0
    MaxTouches = 1
SPECIFICATION FairSpec
CHECK_DEADLOCK FALSE
INVARIANTS
    ReportsFitTheRequest
PROPERTIES
    DeniedIsMarked
    UnregisteredKindIsRejected

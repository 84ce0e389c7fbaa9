CONSTANTS
    c1 = c1
    c2 = c2
    m1 = m1
    m2 = m2
    Requests = {c1}
    Managers = {m1}
    NoRequest = NoRequest
    IssuerRef <- AllIssuers
    CheckApprovedCondition = TRUE
    RejectedStates = {"DECLINED"}
    RefusalText = FALSE
    MaxOrders = 3
    MaxFaults = 2
    MaxTouches = 0
SPECIFICATION FairSpec
CHECK_DEADLOCK FALSE
INVARIANTS
    IssuedIsJustified
    FailedIsJustified
PROPERTIES
    ImplementsLifecycle
    ApprovedIsDecided

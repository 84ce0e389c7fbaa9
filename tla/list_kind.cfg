CONSTANTS
    c1 = c1
    c2 = c2
    m1 = m1
    m2 = m2
    Requests = {c1, c2}
    Managers = {m1}
    NoRequest = NoRequest
    IssuerRef <- ListAndForeign
    CheckApprovedCondition = TRUE
    RejectedStates = {"DECLINED"}
    RefusalText = FALSE
    MaxOrders = 1
    MaxFaults = 0
    MaxTouches = 0
SPECIFICATION FairSpec
CHECK_DEADLOCK FALSE
PROPERTIES
    UnhandledKindIsRejected

CONSTANTS
    c1 = c1
    c2 = c2
    m1 = m1
    m2 = m2
    Requests = {c1}
    Managers = {m1}
    NoRequest = NoRequest
    IssuerRef <- AllIssuers
    CheckApprovedCondition = FALSE
    RejectedStates = {"DECLINED"}
    RefusalText = TRUE
    MaxOrders = 2
    MaxFaults = 0
    MaxTouches = 0
SPECIFICATION QuietSpec
CHECK_DEADLOCK FALSE
INVARIANTS
    LostTasksStayLost
    OutcomesAreEarned
PROPERTIES
    ImplementsLifecycle
    OutcomesStay
    DeniedIsMarked

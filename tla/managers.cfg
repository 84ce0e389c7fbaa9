CONSTANTS
    c1 = c1
    c2 = c2
    m1 = m1
    m2 = m2
    Requests = {c1}
    Managers = {m1, m2}
    NoRequest = NoRequest
    IssuerRef <- AllIssuers
    CheckApprovedCondition = TRUE
    RefusalText = FALSE
    MaxOrders = 2
    MaxFaults = 0
    MaxTouches = 0
    RejectedStates = {"DECLINED"}
SPECIFICATION Spec
SYMMETRY Symmetry
CHECK_DEADLOCK FALSE
INVARIANTS
    TypeOK
    NoLostWakeup
    OrderIsNotForgotten
    OnlyApprovedIsOrdered
    ProgressIsMonotonic
PROPERTIES
    DecisionsAreFinal
    TasksAreCalledFor
    ImplementsLifecycle

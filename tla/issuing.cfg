CONSTANTS
    c1 = c1
    i1 = i1
    m1 = m1
    Requests = {c1}
    Managers = {m1}
    Issuers = {i1}
    NoRequest = NoRequest
    NoIssuer = NoIssuer
    IssuerRef <- AllIssuers
    IssuerOf <- OneIssuer
    CheckApprovedCondition = TRUE
    RejectedStates = {}
    RefusalText = FALSE
    MaxOrders = 1
    MaxTouches = 0
    MaxSecretChanges = 1
    MaxIssuerTouches = 0
    MaxVersions = 10
    MaxFaults = 1
SPECIFICATION KeptSpec
CHECK_DEADLOCK FALSE
INVARIANTS
    TasksNeedAReadyIssuer
    CertificatesAreEntitled

CONSTANTS
    i1 = i1
    m1 = m1
    Issuers = {i1}
    Managers = {m1}
    NoIssuer = NoIssuer
    MaxSecretChanges = 0
    MaxFaults = 0
    MaxTouches = 1
    MaxVersions = 10
SPECIFICATION Spec
CHECK_DEADLOCK FALSE
INVARIANTS
    ReadyIsAbleToIssue

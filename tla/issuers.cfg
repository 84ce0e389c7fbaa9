CONSTANTS
    i1 = i1
    m1 = m1
    Issuers = {i1}
    Managers = {m1}
    NoIssuer = NoIssuer
    MaxSecretChanges = 2
    MaxFaults = 1
    MaxTouches = 1
    MaxVersions = 10
SPECIFICATION FairSpec
CHECK_DEADLOCK FALSE
INVARIANTS
    TypeOK
    HealthChecksGoOn
    TransitionTimeIsAccurate
    ReadinessIsJustified
    ConditionsComeInOrder
PROPERTIES
    ReadyConverges

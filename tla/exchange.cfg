CONSTANTS
    a1 = a1
    a2 = a2
    Addresses = {a1, a2}
    Backend = Backend
    RejectedStates = {"DECLINED"}
    Bundles <- SomeBundles
    MaxTasks = 2
    MaxEdits = 1
SPECIFICATION FirstAddressSpec
CHECK_DEADLOCK FALSE
INVARIANTS
    TypeOK
    CallsGoWhereTheIssuerSaid
    IssuedWithItsRoot
PROPERTIES
    OneTaskIsFollowed
    SecondTaskIsRefused
    WorksBehindProxy
    ImplementsLifecycle

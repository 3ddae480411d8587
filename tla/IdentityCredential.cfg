CONSTANTS
    Lifetime = 3
    RenewAfter = 2
    MaxRevision = 3
    MaxFailures = 2
    MaxTime = 5
    Keys = {k1, k2}
    Ids = {c1}
    MaxListed = 2
    MaxSequence = 2
    BundleLife = 1
    TokenLife = 1
    Skew = 1
    CalleeTime = 1
SPECIFICATION BothSpec
INVARIANTS NoStaleIdentity
PROPERTIES CredentialCatchesUp
CHECK_DEADLOCK FALSE

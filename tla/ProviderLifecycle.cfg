SPECIFICATION FairSpec
CONSTANTS
    Instances = {a}
    Calls = {c1, c2}
    Jobs = {j1, j2}
    Rules <- MCRules
    MaxLoops = 3
INVARIANTS
    NoStrayBeats
    ReadyIsRegistered
PROPERTIES
    KeepsHealthy
CHECK_DEADLOCK FALSE

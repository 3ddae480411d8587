SPECIFICATION RoutingSpec
CONSTANTS
    c1 = c1
    c2 = c2
    Callers <- MCCallers
    Requests <- MCRequests
    InstanceOf <- MCInstances
    Lists <- MCLists
    RulesAt <- MCRules
    Loaded <- MCLoaded
    Shadows <- MCShadows
    Protocol = "http"
    Configs <- MCConfigs
    Location <- MCLocation
    Points <- MCPoints
    HashOf <- MCHashOf
    Digest <- MCDigest
SYMMETRY Symmetric
INVARIANTS
    KeysLoseNothing
    StrictlyRouted
    SameKeySameNode
    GovernedFirst
CHECK_DEADLOCK FALSE

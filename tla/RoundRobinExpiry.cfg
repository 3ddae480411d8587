SPECIFICATION FairRobinSpec
CONSTANTS
    c1 = c1  c2 = c2
    a = a  b = b  d = d
    Choosers = {c1, c2}
    Nodes = {a, b, d}
    Offers <- Routed
    Expiry = 1
    MaxCalls = 3
    MaxTime = 2
PROPERTIES ExpiryIsHarmless
CHECK_DEADLOCK FALSE

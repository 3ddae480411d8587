SPECIFICATION Spec
CONSTANTS
    l1 = l1  l2 = l2
    qps = qps  token = token  conc = conc
    second = second  minute = minute  tokens = tokens  occupied = occupied
    LeaseIds = {l1, l2}
    Triggers <- AllTriggers
    Keys <- AllKeys
    Resource <- ResourceOf
    Amounts <- AmountsOf
    Duration <- DurationOf
    Requests = {1, 2}
    Ttls = {1, 2}
    Retention = 1
    U32Max = 4
    MaxSequence = 2
    MaxTime = 3
SYMMETRY LeaseSymmetry
CHECK_DEADLOCK FALSE
INVARIANTS ReservedIsLive CommittedIsSettled QuotaNeverExceeded OccupancyIsLive
PROPERTIES EndsAreFinal ImplementsBuckets

SPECIFICATION FairSpec
CONSTANTS
    qps = qps  token = token  concurrency = concurrency
    Resources <- Mixed
    Quotas <- MixedQuotas
    Amount <- OneOfEach
    InitialTotal <- Initially
    Distributed <- TokenDistributed
    FailoverLocal <- TokenDistributed
    MaxSequence = 2
    MaxInFlight = 2
CHECK_DEADLOCK FALSE
INVARIANTS
    NothingLeftLive
    BackendsAgree
    ServerAgrees
PROPERTIES
    OperationsReturn

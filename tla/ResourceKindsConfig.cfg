SPECIFICATION ConfigFairSpec
CONSTANTS
    Pool <- MCPool
    Selections <- MCSelections
    Loaders = {c1}
    Receiver = receiver
    Persist = TRUE
    Emptied = {2}
    MaxVersion = 2
    MaxQueue = 1
    Watchers = {w1, w2}
    Publishers = {q1, q2}
    Watched <- MCWatched
INVARIANTS
    ValuesAreOwn
    RacingUpsertsSucceed
PROPERTIES
    EveryKindLoads
    WatchersCatchUp
CHECK_DEADLOCK FALSE

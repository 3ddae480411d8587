CONSTANTS
    c1 = c1  c2 = c2  receiver = receiver
    Loaders = {c1, c2}
    Receiver = receiver
    Persist = TRUE
    StreamsEnd = TRUE
    MaxVersion = 2
    MaxQueue = 1
SPECIFICATION FairSpec
INVARIANTS InStep
PROPERTIES NeverGoesBack Serves

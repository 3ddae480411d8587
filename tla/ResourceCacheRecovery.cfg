CONSTANTS
    c1 = c1  c2 = c2  receiver = receiver
    Loaders = {c1}
    Receiver = receiver
    Persist = TRUE
    StreamsEnd = FALSE
    MaxVersion = 2
    MaxQueue = 1
SPECIFICATION FairSpec
PROPERTIES ChangesTakeEffect

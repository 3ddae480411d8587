SPECIFICATION SessionFairSpec
CONSTANTS
    c1 = c1  c2 = c2  c3 = c3
    Calls <- ThreeCalls
    Droppable <- MostCalls
    Cmds = {"Reserve", "Update"}
    Capacity = 1
    Nothing = Nothing
    Failure = Failure
    Dropped = Dropped
CHECK_DEADLOCK FALSE
INVARIANTS
    AnswersOwnCall
    WaiterIsPending
    OneInFlight
PROPERTIES
    EveryCallReturns

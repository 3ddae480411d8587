SPECIFICATION SessionSpec
CONSTANTS
    c1 = c1  c2 = c2  c3 = c3
    Calls <- ThreeCalls
    Droppable <- ThreeCalls
    Cmds = {"Reserve", "Update"}
    Capacity = 128
    Nothing = Nothing
    Failure = Failure
    Dropped = Dropped
CHECK_DEADLOCK FALSE
INVARIANTS
    AdoptsOwnReservation

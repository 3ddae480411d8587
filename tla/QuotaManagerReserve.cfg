SPECIFICATION FairSpec
CONSTANTS
    Callers = {c1, c2}
    Servers <- MCServers
    Requests <- MCRequests
    Bare <- MCBare
    Carries <- MCCarries
    Views <- MCViews
    Hash <- MCHash
    MaxCalls = 3
    MaxSessions = 2
    MaxWindows = 4
    MaxStrays = 1
INVARIANTS
    ChargesOwnCounters
    OneSessionPerServer
PROPERTIES
    ReservationsReturn
CHECK_DEADLOCK FALSE

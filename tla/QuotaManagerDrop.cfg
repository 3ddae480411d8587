SPECIFICATION FairSpec
CONSTANTS
    Callers = {c1, c2}
    Servers <- MCServers
    Requests <- MCRequests
    Bare <- MCBare
    Carries <- MCCarries
    Views <- MCViews
    Hash <- MCHash
    MaxCalls = 3
    MaxSessions = 2
    MaxWindows = 4
    MaxStrays = 1
INVARIANT ChargesWanted
CHECK_DEADLOCK FALSE

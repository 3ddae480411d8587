CONSTANTS
    c1 = c1  c2 = c2
    orders = orders  payments = payments
    service = service  method = method  other = other
    Callers = {c1, c2}
    Keys = {service, method}
    Services <- OneService
    ServiceOf <- ServiceOfOrders
    RuleLists <- OneServiceRules
    Jobs <- Reporting
    U32Max = 2
    MaxReports = 3
    MaxTime = 1
SPECIFICATION Spec
INVARIANTS CountersMatchTrail StatesFollowRules
PROPERTIES TransitionsAreEarned
SYMMETRY Interchangeable

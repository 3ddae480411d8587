CONSTANTS
    c1 = c1  c2 = c2
    orders = orders  payments = payments
    service = service  method = method  other = other
    Callers = {c1, c2}
    Keys = {service, method, other}
    Services <- AllServices
    ServiceOf <- ServiceOfKey
    RuleLists <- Fixed
    Jobs <- EveryJob
    U32Max = 7
    MaxReports = 2
    MaxTime = 1
SPECIFICATION Spec
PROPERTIES StatisticsSurviveRefresh

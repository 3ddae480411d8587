SPECIFICATION Spec
CONSTANTS
    Services = {"a", "b"}
    Accessors = {c1}
    Receiver = receiver
    RulesAt <- MCRules
    InstancesAt <- MCInstances
    Naming <- MCNaming
    Boxings = {TRUE, FALSE}
    ByHand <- MCByHand
INVARIANT NoOldLoops
CHECK_DEADLOCK FALSE

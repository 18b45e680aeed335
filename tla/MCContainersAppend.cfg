CONSTANTS
    Types <- MCTypes
    Bound <- MCBound
    ContainerCapacity = 2
    Programs <- MCPrograms
    LeftOut = {"pointed at", "range over objects"}
    MaxSteps = 5
SPECIFICATION Spec
INVARIANT FollowsGo
CHECK_DEADLOCK FALSE

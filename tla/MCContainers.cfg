CONSTANTS
    Types <- MCTypes
    Bound <- MCBound
    ContainerCapacity = 2
    Programs <- MCPrograms
    LeftOut = {"pointed at", "range over objects", "append to elements"}
    MaxSteps = 5
SPECIFICATION Spec
INVARIANTS FollowsGo InBounds AllocationsCounted
CHECK_DEADLOCK FALSE

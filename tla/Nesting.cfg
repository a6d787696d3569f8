CONSTANTS
    WordBits = 2
    TaskGraphs = {0, 1, 2}
    NoGraph = NoGraph
    MaxTasks <- Sizes
    ResourcesOf <- SharedResource
    Root = 0
    MaxSize = 8
    MaxStated = 4
    AcyclicOnly = TRUE
    MaxSubgroups = 4
    MinGroupSize = 4
SPECIFICATION Spec
INVARIANTS LockingExcludes
CHECK_DEADLOCK FALSE

CONSTANTS
    WordBits = 2
    TaskGraphs = {0, 1, 2}
    NoGraph = NoGraph
    MaxTasks <- Sizes
    ResourcesOf <- Resources
    Root = 0
    MaxSize = 8
    MaxStated = 4
    AcyclicOnly = TRUE
    MaxSubgroups = 4
    MinGroupSize = 4
SPECIFICATION CompileSpec
INVARIANTS OrderAsStated UsageAsStated SubGraphsResolved OrderIsStated ExclusionIsStated ForwardStartsFirst
INVARIANTS ExclusionKept MergedToTheLimit PairsAccounted GroupsPacked CompiledIsAssumed
CHECK_DEADLOCK FALSE

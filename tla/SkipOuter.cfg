CONSTANTS
    Threads = {t1, t2}
    MaxFailedSubGroups = 2
    HasWakeCb = FALSE
    MaxRounds = 1
    Graph <- SkipOuterGraph
SPECIFICATION FairSpec
PROPERTIES ExecutionEnds

CONSTANTS
    Threads = {t1, t2}
    MaxFailedSubGroups = 2
    HasWakeCb = FALSE
    MaxRounds = 1
    Graph <- ControlGraph
SPECIFICATION FairSpec
INVARIANTS IterationsInSequence ExitedMeansStarted
PROPERTIES ExecutionEnds ResetOnlyWhenDone

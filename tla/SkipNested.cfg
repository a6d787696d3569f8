CONSTANTS
    Threads = {t1, t2}
    MaxFailedSubGroups = 2
    HasWakeCb = FALSE
    MaxRounds = 1
    Graph <- SkipNestedGraph
SPECIFICATION Spec
INVARIANTS SkippedIsUntouched

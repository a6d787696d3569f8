CONSTANTS
    Threads = {t1, t2}
    MaxFailedSubGroups = 3
    HasWakeCb = TRUE
    MaxRounds = 2
    Graph <- MergedGraph
SPECIFICATION FairWhileAwake
INVARIANTS LastOneFinishes OrderRespected AssertionsHold
PROPERTIES OncePerExecution KeepsContract SleepersNotNeeded

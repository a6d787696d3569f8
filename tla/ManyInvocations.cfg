CONSTANTS
    Threads = {t1}
    MaxFailedSubGroups = 64
    HasWakeCb = FALSE
    MaxRounds = 1
    Graph <- ManyInvocationsGraph
SPECIFICATION Spec
INVARIANTS LastOneFinishes

CONSTANTS
    Threads = {t1, t2, t3}
    MaxFailedSubGroups = 3
    HasWakeCb = FALSE
    MaxRounds = 1
    Graph <- VariadicGraph
SYMMETRY ThreadSymmetry
SPECIFICATION Spec
INVARIANTS TypeOK MutualExclusion NoLostWork VarTaskAccounting

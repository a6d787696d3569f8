------------------------ MODULE MCTaskGraphCompiler ------------------------
(***************************************************************************)
(* The task graphs from which TLC compiles.                                *)
(***************************************************************************)
EXTENDS MergeSubgroups

\* A graph of three tasks, one of two that may stand in it, and one of one.
Sizes     == [g \in 0 .. 2 |-> 3 - g]
Resources == [g \in 0 .. 2 |-> IF g = 0 THEN {"r0"} ELSE IF g = 1 THEN {"r1"} ELSE {}]

\* All graphs use the same resource.
SharedResource == [g \in 0 .. 2 |-> {"r0"}]

\* A prebuilt graph of n unordered tasks, where those of each edge lock a resource
\* of their own.
PrebuiltWith(n, edges) ==
    /\ UserInit /\ MergeInit
    /\ phase = "group"
    /\ tasks = [v \in 0 .. n - 1 |-> [path |-> <<v>>, kind |-> "task"]]
    /\ taskGraph = [v \in 0 .. n - 1 |-> {}]
    /\ exclusionGraph = [v \in 0 .. n - 1 |-> {w \in 0 .. n - 1 : \E e \in edges : {v, w} \subseteq e}]
    /\ subGraphData = <<>> /\ start = 0 .. n - 1
    /\ calls = <<>> /\ visited = {} /\ stack = <<>> /\ isValid = TRUE
    /\ base = 0 /\ label = <<>> /\ frontier = {} /\ depth = 0

\* Any exclusion of five tasks, and chains of seven tasks in all.
AnyExclusion ==
    \/ \E edges \in SUBSET kSubset(2, 0 .. 4) : PrebuiltWith(5, edges)
    \/ \E edges \in SUBSET {{v, v + 1} : v \in 0 .. 5} : PrebuiltWith(7, edges)

CompileSpec == ((UserInit /\ PrebuildInit /\ MergeInit) \/ AnyExclusion) /\ [][Next]_vars
==============================================================================

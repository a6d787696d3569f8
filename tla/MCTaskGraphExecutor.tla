------------------------- MODULE MCTaskGraphExecutor -------------------------
(***************************************************************************)
(* Compiled graphs on which TLC checks TaskGraphExecutor.                  *)
(***************************************************************************)
EXTENDS ExecutorImplementsContract, TLC

ThreadSymmetry == Permutations(Threads)

NoTasks == [g \in {} |-> {}]

\* A task that prepares data (0), a task with up to three parallel
\* invocations after it (2), a task that locks what they share (3), and a
\* last one (1) that the compiler merged into the subgroup of the latter.
VariadicGraph ==
    [groupOf |-> (0 :> 0 @@ 1 :> 0 @@ 2 :> 0),
     excluded |-> (0 :> {0, 2} @@ 1 :> {1, 2} @@ 2 :> {0, 1, 2}),
     subGroupOf |-> (0 :> 0 @@ 1 :> 2 @@ 2 :> 1 @@ 3 :> 2),
     next |-> (0 :> {2} @@ 1 :> {} @@ 2 :> {1} @@ 3 :> {1}),
     start |-> {0, 3}, selfParallel |-> {2},
     taskNum |-> (0 :> {1} @@ 1 :> {1} @@ 2 :> {0, 2, 3} @@ 3 :> {1}),
     entry |-> NoTasks, exit |-> NoTasks, body |-> NoTasks]

\* A variadic task (1) in one subgroup with a task that is pending all the
\* time it runs (2), and with the last task (4); 0 and 3 share the other one.
MergedGraph ==
    [groupOf |-> (0 :> 0 @@ 1 :> 1),
     excluded |-> (0 :> {0} @@ 1 :> {1}),
     subGroupOf |-> (0 :> 0 @@ 1 :> 1 @@ 2 :> 1 @@ 3 :> 0 @@ 4 :> 1),
     next |-> (0 :> {1, 2} @@ 1 :> {4} @@ 2 :> {3} @@ 3 :> {4} @@ 4 :> {}),
     start |-> {0}, selfParallel |-> {1},
     taskNum |-> (0 :> {1} @@ 1 :> {0, 3} @@ 2 :> {0, 2} @@ 3 :> {1} @@ 4 :> {1}),
     entry |-> NoTasks, exit |-> NoTasks, body |-> NoTasks]

\* A sub-graph whose two tasks (1 and 2) lock one resource, skipped or executed
\* twice; and, after it, a sub-graph inside a sub-graph: the outer one (4, body 5,
\* exit 8) is executed twice, the inner one (5, body 6, exit 7) once or twice in
\* each iteration, and its task has parallel invocations.
ControlGraph ==
    [groupOf |-> (0 :> 0 @@ 1 :> 0 @@ 2 :> 0 @@ 3 :> 0 @@ 4 :> 0),
     excluded |-> (0 :> {0, 1} @@ 1 :> {0, 1} @@ 2 :> {2} @@ 3 :> {3} @@ 4 :> {4}),
     subGroupOf |-> (0 :> 0 @@ 1 :> 0 @@ 2 :> 1 @@ 3 :> 2 @@ 4 :> 0 @@ 5 :> 1 @@ 6 :> 1 @@ 7 :> 3 @@ 8 :> 4),
     next |-> (0 :> {1, 2} @@ 1 :> {3} @@ 2 :> {3} @@ 3 :> {4} @@ 4 :> {5} @@ 5 :> {6}
               @@ 6 :> {7} @@ 7 :> {8} @@ 8 :> {}),
     start |-> {0}, selfParallel |-> {6},
     taskNum |-> [k \in 0 .. 8 |-> CASE k = 0 -> {0, 2} [] k \in {4, 6} -> {2}
                                      [] k = 5 -> {1, 2} [] OTHER -> {1}],
     entry |-> (0 :> 0 @@ 1 :> 4 @@ 2 :> 5), exit |-> (0 :> 3 @@ 1 :> 8 @@ 2 :> 7),
     body |-> (0 :> {1, 2} @@ 1 :> {5} @@ 2 :> {6})]

\* A sub-graph inside a sub-graph.  The outer one (0, body 1 and 2, exit 5)
\* has a task (2) beside the inner one (1, body 3, exit 4), whose task has
\* parallel invocations.  Neither is ever skipped.
NestedGraph ==
    [groupOf |-> (0 :> 0 @@ 1 :> 0 @@ 2 :> 0 @@ 3 :> 0 @@ 4 :> 0),
     excluded |-> (0 :> {0} @@ 1 :> {1} @@ 2 :> {2} @@ 3 :> {3} @@ 4 :> {4}),
     subGroupOf |-> (0 :> 0 @@ 1 :> 0 @@ 2 :> 1 @@ 3 :> 2 @@ 4 :> 3 @@ 5 :> 4),
     next |-> (0 :> {1, 2} @@ 1 :> {3} @@ 2 :> {5} @@ 3 :> {4} @@ 4 :> {5} @@ 5 :> {}),
     start |-> {0}, selfParallel |-> {3},
     taskNum |-> (0 :> {1, 2} @@ 1 :> {1, 2} @@ 2 :> {1} @@ 3 :> {2} @@ 4 :> {1} @@ 5 :> {1}),
     entry |-> (0 :> 0 @@ 1 :> 1), exit |-> (0 :> 5 @@ 1 :> 4),
     body |-> (0 :> {1, 2} @@ 1 :> {3})]

\* The same graph with an inner sub-graph that taskNumFn may turn off.
SkipNestedGraph == [NestedGraph EXCEPT !.taskNum = [@ EXCEPT ![0] = {2}, ![1] = {0, 1}]]

\* The outer sub-graph may be turned off.
SkipOuterGraph == [NestedGraph EXCEPT !.taskNum = [@ EXCEPT ![0] = {0, 1}]]

\* One variadic task with more invocations than a thread executes before it
\* has counted 64 failures in a row twice (once more than there are groups).
ManyInvocationsGraph ==
    [groupOf |-> (0 :> 0), excluded |-> (0 :> {0}), subGroupOf |-> (0 :> 0), next |-> (0 :> {}),
     start |-> {0}, selfParallel |-> {0}, taskNum |-> (0 :> {130}),
     entry |-> NoTasks, exit |-> NoTasks, body |-> NoTasks]
==============================================================================

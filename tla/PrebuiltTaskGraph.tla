-------------------------- MODULE PrebuiltTaskGraph --------------------------
(***************************************************************************)
(* prebuild_task_graph (task_graph_compile.cpp 299-479): the graphs of the *)
(* user become one PrebuiltTaskGraph.                                      *)
(*                                                                         *)
(* 1. "resolve": the tasks of all graphs are laid out in one list, with an *)
(*    entry and an exit for each sub-graph, their order and the tasks that *)
(*    exclude each other.                                                  *)
(* 2. "validate": a depth-first search looks for cycles and finds out      *)
(*    which tasks are pending on start.                                    *)
(* 3. "normalize": a breadth-first search from every task removes the      *)
(*    edges that longer paths make redundant, and the exclusion of tasks   *)
(*    that are ordered.                                                    *)
(*                                                                         *)
(* The code is sequential.  It is taken in steps because its loops and     *)
(* recursions are what is checked.  The two BaseGraphs are functions from  *)
(* tasks to sets of tasks, a vertex flag is a set of tasks.                *)
(***************************************************************************)
EXTENDS TaskGraph

CONSTANTS
    Root,           \* the TaskGraph that is compiled
    MaxSize,        \* bound: its tasks with those of all sub-graphs
    AcyclicOnly     \* whether only graphs without cycles are compiled

ASSUME PrebuildAssumption == Root \in TaskGraphs /\ MaxSize \in Nat /\ AcyclicOnly \in BOOLEAN

VARIABLES
    phase,           \* "user", then the phases above, "prebuilt" or "refused"
    tasks,           \* PrebuiltTaskGraph::taskData: which task this is
    taskGraph,       \* the next tasks of each task
    exclusionGraph,  \* the tasks that each task excludes
    subGraphData,    \* the entry, exit and body of each sub-graph
    calls,           \* the active calls of resolve_resources_and_dependencies
    visited,         \* vertex flag 0
    start,           \* vertex flag 1
    stack,           \* the vertices whose search is in progress
    isValid,
    base,            \* the baseId of the normalization
    label,           \* the first part of traversalData: the depth of each task
    frontier, depth  \* the rest of it: the tasks queued at one depth

prebuiltVars == <<tasks, taskGraph, exclusionGraph, subGraphData, start>>
searchVars   == <<visited, stack, isValid>>
levelVars    == <<base, label, frontier, depth>>
prebuildVars == <<phase, calls, prebuiltVars, searchVars, levelVars>>

NumTasks == Cardinality(DOMAIN tasks)
Vertices == DOMAIN taskGraph

PrebuildInit ==
    /\ phase = "user"
    /\ tasks = <<>> /\ taskGraph = <<>> /\ exclusionGraph = <<>> /\ subGraphData = <<>>
    /\ calls = <<>> /\ visited = {} /\ start = {} /\ stack = <<>> /\ isValid = TRUE
    /\ base = 0 /\ label = <<>> /\ frontier = {} /\ depth = 0

------------------------------------------------------------------------------
(***************************************************************************)
(* Resolution.                                                             *)
(***************************************************************************)

\* The size of a graph with its sub-graphs, each with an entry and an exit.
\* Sub-graphs have greater numbers than the graphs they are in.
ResolveSize[g \in TaskGraphs] ==
    MapThenSumSet(LAMBDA k : IF SubGraph(g, k) = NoGraph THEN 1 ELSE 2 + ResolveSize[SubGraph(g, k)],
                  TaskIds(g))

\* The vertices ahead of each vertex, on all paths.
Ahead(next) ==
    FoldSet(LAMBDA k, ahead : [v \in DOMAIN next |->
                IF k \in ahead[v] THEN ahead[v] \cup ahead[k] ELSE ahead[v]],
            next, DOMAIN next)

StatedAhead(g) == Ahead([k \in TaskIds(g) |-> {n \in TaskIds(g) : <<k, n>> \in stated[g].order}])

\* What the caller of prebuild_task_graph has to see to: no sub-graph is empty
\* (asserted at 470) and, if so chosen, no task precedes itself.
Compilable ==
    /\ ResolveSize[Root] \in 1 .. MaxSize
    /\ \A g \in TaskGraphs : \A sub \in SubGraphs(g) : taskData[sub] # <<>>
    /\ AcyclicOnly => \A g \in TaskGraphs : \A k \in TaskIds(g) : k \notin StatedAhead(g)[k]

Call(g, path) == [graph |-> g, path |-> path, offset |-> -1, next |-> 0]

StartPrebuild ==
    /\ phase = "user" /\ NoCallActive /\ Compilable
    /\ phase' = "resolve"
    /\ taskGraph' = [v \in 0 .. ResolveSize[Root] - 1 |-> {}]
    /\ exclusionGraph' = taskGraph'
    /\ calls' = <<Call(Root, <<>>)>>
    /\ UNCHANGED <<userVars, tasks, subGraphData, start, searchVars, levelVars>>

Top == Last(calls)

\* A list that is a function from 0 on, as the indices of the code.
AppendAll(list, more) ==
    LET n == Cardinality(DOMAIN list)
    IN  [i \in 0 .. n + Len(more) - 1 |-> IF i < n THEN list[i] ELSE more[i - n + 1]]

\* The tasks of a graph with their paths from the root.
CopiesOf(call) ==
    [i \in 1 .. Len(taskData[call.graph]) |->
        [path |-> Append(call.path, i - 1),
         kind |-> IF SubGraph(call.graph, i - 1) = NoGraph THEN "task" ELSE "entry"]]

\* The usages of one resource that rule out that two tasks run in parallel;
\* it2 may be it1.
Conflicting(usages) ==
    {<<p[1].task, p[2].task>> : p \in {p \in usages \X usages :
        p[1].resource = p[2].resource /\ (p[1].locking \/ p[2].locking)}}

(***************************************************************************)
(* The first part of resolve_resources_and_dependencies: the tasks of the  *)
(* graph, their order, and which of them exclude each other.               *)
(***************************************************************************)
CopyTasks ==
    /\ phase = "resolve" /\ calls # <<>> /\ Top.offset = -1
    /\ LET g      == Top.graph
           offset == NumTasks
           conflicts == Conflicting(BagToSet(taskResourceUsage[g]))
       IN  /\ tasks' = AppendAll(tasks, CopiesOf(Top))
           /\ taskGraph' = [v \in Vertices |->
                IF v - offset \in TaskIds(g)
                THEN taskGraph[v] \cup {offset + k : k \in Edges(taskOrderGraph[g], v - offset)}
                ELSE taskGraph[v]]
           /\ exclusionGraph' = [v \in Vertices |->
                exclusionGraph[v] \cup {w \in Vertices : <<v - offset, w - offset>> \in conflicts}]
           /\ calls' = [calls EXCEPT ![Len(calls)].offset = offset]
    /\ UNCHANGED <<userVars, phase, subGraphData, start, searchVars, levelVars>>

SubGraphsLeft ==
    {k \in TaskIds(Top.graph) : k >= Top.next /\ SubGraph(Top.graph, k) # NoGraph}

(***************************************************************************)
(* The next task that stands for a sub-graph becomes its entry.  The exit  *)
(* takes over the edges; the body is the tasks that the recursive call is  *)
(* about to copy, by the indices they will get.                            *)
(***************************************************************************)
Wired(entry, exit, body) ==
    [v \in Vertices |->
        CASE v = entry -> body \cup {exit}
          [] v = exit  -> taskGraph[entry]
          [] v \in body -> taskGraph[v] \cup {exit}
          [] OTHER -> taskGraph[v]]

\* Mutant: the exit is taken for the first task of the body.
BodyFromExit(sub, exit) == exit .. exit + Len(taskData[sub]) - 1

BodyAfter(sub, exit) == exit + 1 .. exit + Len(taskData[sub])

ResolveSubGraph ==
    /\ phase = "resolve" /\ calls # <<>> /\ Top.offset # -1 /\ SubGraphsLeft # {}
    /\ LET k     == Min(SubGraphsLeft)
           sub   == SubGraph(Top.graph, k)
           entry == Top.offset + k
           exit  == NumTasks
           body  == BodyAfter(sub, exit)
           path  == Append(Top.path, k)
       IN  /\ tasks' = AppendAll(tasks, <<[path |-> path, kind |-> "exit"]>>)
           /\ taskGraph' = Wired(entry, exit, body)
           /\ exclusionGraph' = [exclusionGraph EXCEPT ![entry] = @ \cup {entry}, ![exit] = @ \cup {exit}]
           /\ subGraphData' = Append(subGraphData, [entry |-> entry, exit |-> exit, body |-> body])
           /\ calls' = Append([calls EXCEPT ![Len(calls)].next = k + 1], Call(sub, path))
    /\ UNCHANGED <<userVars, phase, start, searchVars, levelVars>>

\* A call returns; when the first one does, the flags are set up for validation.
ReturnFromGraph ==
    /\ phase = "resolve" /\ calls # <<>> /\ Top.offset # -1 /\ SubGraphsLeft = {}
    /\ calls' = Front(calls)
    /\ IF Len(calls) = 1
       THEN phase' = "validate" /\ start' = Vertices
       ELSE UNCHANGED <<phase, start>>
    /\ UNCHANGED <<userVars, tasks, taskGraph, exclusionGraph, subGraphData, searchVars, levelVars>>

------------------------------------------------------------------------------
(***************************************************************************)
(* base_graph_dfs, as its callers use it: the callback is called for every *)
(* vertex that has not been visited, first the vertices that the loop over *)
(* the roots offers, then those that an edge leads to, by their numbers.   *)
(* Between two calls nothing but the visited flag decides what comes next. *)
(***************************************************************************)

\* The calls in progress that have not run out of edges, from the outermost on.
Searching(graph) ==
    LET open == {i \in DOMAIN stack : graph[stack[i]] \ visited # {}}
    IN  IF open = {} THEN <<>> ELSE SubSeq(stack, 1, Max(open))

Offered(graph) ==
    LET path == Searching(graph)
    IN  (IF path = <<>> THEN DOMAIN graph ELSE graph[Last(path)]) \ visited

Visit(graph, v) == visited' = visited \cup {v} /\ stack' = Append(Searching(graph), v)

\* Mutant: the flag of the root is cleared, not that of the task that is reached.
StartWithoutRoot(v, path) == IF path = <<>> THEN start ELSE start \ {Head(path)}

\* The root of a search is not reached by an edge and keeps its start flag.
StartLeft(v, path) == IF path = <<>> THEN start ELSE start \ {v}

\* The callback of the validation.
ValidateTask ==
    /\ phase = "validate" /\ Offered(taskGraph) # {}
    /\ LET v == Min(Offered(taskGraph))
           path == Searching(taskGraph)
       IN  /\ Visit(taskGraph, v)
           /\ start' = StartLeft(v, path)
           /\ isValid' = (isValid /\ v \notin ToSet(path))
    /\ UNCHANGED <<userVars, phase, calls, tasks, taskGraph, exclusionGraph, subGraphData, levelVars>>

StartSearchFrom(b) ==
    /\ base' = b
    /\ label' = [v \in Vertices |-> 0]
    /\ frontier' = {b} /\ depth' = 0

Validated ==
    /\ phase = "validate" /\ Offered(taskGraph) = {}
    /\ IF isValid
       THEN phase' = "normalize" /\ StartSearchFrom(0)
       ELSE phase' = "refused" /\ UNCHANGED levelVars
    /\ UNCHANGED <<userVars, calls, prebuiltVars, searchVars>>

------------------------------------------------------------------------------
(***************************************************************************)
(* Normalization.  The queue is processed depth by depth: it holds the     *)
(* tasks of one depth, then those of the next.  A task that is queued more *)
(* than once at a depth is skipped the second time, by its label.          *)
(***************************************************************************)
Fresh == {v \in frontier : depth = 0 \/ label[v] < depth}

\* Mutant: the edge is removed in one direction.
ExclusionWithoutOneWay(reached) ==
    [exclusionGraph EXCEPT ![base] = @ \ (reached \ {base})]

\* setConnectedBoth(base, v, false) for each of the given tasks but base.
ExclusionWithout(reached) ==
    [v \in Vertices |->
        CASE v = base -> exclusionGraph[v] \ (reached \ {base})
          [] v \in reached \ {base} -> exclusionGraph[v] \ {base}
          [] OTHER -> exclusionGraph[v]]

NormalizeLevel ==
    /\ phase = "normalize" /\ frontier # {}
    /\ label' = [v \in Vertices |-> IF v \in Fresh THEN depth ELSE label[v]]
    /\ exclusionGraph' = ExclusionWithout(Fresh)
    /\ frontier' = UNION {taskGraph[v] : v \in Fresh}
    /\ depth' = depth + 1
    /\ UNCHANGED <<userVars, phase, calls, tasks, taskGraph, subGraphData, start, searchVars, base>>

\* Mutant: the label of an edge to the next task is taken for a longer path.
RedundantAll == {v \in taskGraph[base] : label[v] >= 1}

\* The edges of base that a longer path makes redundant.
Redundant == {v \in taskGraph[base] : label[v] > 1}

NormalizeEdges ==
    /\ phase = "normalize" /\ frontier = {}
    /\ taskGraph' = [taskGraph EXCEPT ![base] = @ \ Redundant]
    /\ IF base + 1 \in Vertices
       THEN StartSearchFrom(base + 1) /\ UNCHANGED phase
       ELSE phase' = "prebuilt" /\ UNCHANGED levelVars
    /\ UNCHANGED <<userVars, calls, tasks, exclusionGraph, subGraphData, start, searchVars>>

PrebuildStep ==
    \/ StartPrebuild \/ CopyTasks \/ ResolveSubGraph \/ ReturnFromGraph
    \/ ValidateTask \/ Validated
    \/ NormalizeLevel \/ NormalizeEdges

PrebuildNext ==
    \/ phase = "user" /\ UserNext /\ UNCHANGED prebuildVars
    \/ PrebuildStep

PrebuildSpec == UserInit /\ PrebuildInit /\ [][PrebuildNext]_<<userVars, prebuildVars>>

------------------------------------------------------------------------------
(***************************************************************************)
(* What the user's calls mean for the tasks of the prebuilt graph.         *)
(***************************************************************************)
GraphAt(path) == FoldLeft(LAMBDA g, k : SubGraph(g, k), Root, path)

\* Two tasks are ordered as the tasks or sub-graphs that they are or are in
\* are, in the graph where their paths part; an entry comes before all of its
\* sub-graph and an exit after it.
Precedes(x, y) ==
    LET p == tasks[x].path
        q == tasks[y].path
        common == Len(LongestCommonPrefix({p, q}))
    IN  CASE p = q -> tasks[x].kind = "entry" /\ tasks[y].kind = "exit"
          [] p # q /\ common = Len(p) -> tasks[x].kind = "entry"
          [] p # q /\ common = Len(q) -> tasks[y].kind = "exit"
          [] OTHER -> q[common + 1] \in StatedAhead(GraphAt(SubSeq(p, 1, common)))[p[common + 1]]

\* What a task was said to use; nothing is said of an exit.
UsagesOf(x) ==
    IF tasks[x].kind = "exit" THEN {}
    ELSE {u \in stated[GraphAt(Front(tasks[x].path))].usage : u[1] = Last(tasks[x].path)}

Conflict(x, y) == \E u \in UsagesOf(x), w \in UsagesOf(y) :
                    u[2] = w[2] /\ "LOCKING" \in {u[3], w[3]}

Unordered(x, y) == x # y /\ ~Precedes(x, y) /\ ~Precedes(y, x)
Siblings(x, y)  == Front(tasks[x].path) = Front(tasks[y].path)

------------------------------------------------------------------------------
(***************************************************************************)
(* Properties                                                              *)
(***************************************************************************)

\* The size that is reserved beforehand is the number of tasks in the end
\* (asserted at 411), and the tables of the sub-graphs name the tasks that the
\* recursive call then copied (379-390).
SubGraphsResolved ==
    phase = "validate" =>
        /\ DOMAIN tasks = Vertices
        /\ \A i \in DOMAIN subGraphData :
            LET sub == subGraphData[i]
            IN  /\ tasks[sub.entry].kind = "entry" /\ tasks[sub.exit].kind = "exit"
                /\ sub.body # {}
                /\ sub.body = {v \in Vertices : /\ tasks[v].kind # "exit"
                                                /\ Front(tasks[v].path) = tasks[sub.entry].path
                                                /\ v \in sub.entry .. NumTasks}

\* Normalization removes edges (462-465), while later searches still run over
\* them, and changes no order: the paths that are left are what setNext and the
\* nesting of the graphs say, and no edge beside a longer path is left.
OrderIsStated ==
    phase = "prebuilt" =>
        LET ahead == Ahead(taskGraph)
        IN  \A x \in Vertices :
                /\ ahead[x] = {y \in Vertices : Precedes(x, y)}
                /\ \A y, z \in taskGraph[x] : z \notin ahead[y]

\* Two tasks of one graph exclude each other exactly if they conflict and no
\* path orders them; a task excludes itself if it locks or ends a sub-graph.
\* The searches find all ordered pairs from one side only (454-455).
ExclusionIsStated ==
    phase = "prebuilt" =>
        \A x \in Vertices : exclusionGraph[x] =
            {y \in Vertices : Siblings(x, y) /\ Unordered(x, y) /\ Conflict(x, y)}
                \cup (IF tasks[x].kind # "task" \/ Conflict(x, x) THEN {x} ELSE {})

\* If tasks are ordered as they were added, what the search leaves flagged for
\* the start (417-433) has no predecessor, across all sub-graphs.
ForwardStartsFirst ==
    phase = "prebuilt"
        /\ (\A g \in TaskGraphs : \A e \in stated[g].order : e[1] < e[2])
        => \A x, y \in Vertices : x \in start => ~Precedes(y, x)

\* README.md 6, "Task ordering": no task is started before one that was
\* ordered before it (refuted where a task is ordered before an earlier one).
StartsFirst ==
    phase = "prebuilt" => \A x, y \in Vertices : x \in start => ~Precedes(y, x)

\* README.md 67: a task that locks a resource can't run in parallel to any other
\* task that uses it (refuted for tasks of different graphs).
LockingExcludes ==
    phase = "prebuilt" =>
        \A x, y \in Vertices : Unordered(x, y) /\ Conflict(x, y) => y \in exclusionGraph[x]

\* "validate no cycles" (413): a graph with a cycle is refused (refuted).
CyclesRefused ==
    phase = "normalize" => \A x \in Vertices : x \notin Ahead(taskGraph)[x]
==============================================================================

------------------------------ MODULE TaskGraph ------------------------------
(***************************************************************************)
(* TaskGraph (task_graph.h 183-222, task_graph_compile.cpp 206-295): what  *)
(* the user builds.  A graph has tasks, some of which stand for a whole    *)
(* sub-graph, an order as a BaseGraph, and a multimap from resources to    *)
(* the tasks that use them.                                                *)
(*                                                                         *)
(* One user calls, so a call runs to its end before the next one begins.   *)
(* The loops of resize and setResourceUsage are taken step by step all the *)
(* same: one has still to read words that lie where it writes, the other   *)
(* changes and erases the entries that it walks over.                      *)
(***************************************************************************)
EXTENDS BaseGraph, FiniteSetsExt, SequencesExt

CONSTANTS
    TaskGraphs,     \* the TaskGraph objects, natural numbers
    NoGraph,        \* a null subGraph pointer
    MaxTasks,       \* bound: the tasks of each graph
    ResourcesOf,    \* the resource ids that the tasks of each graph may use
    MaxStated       \* bound: the edges, usages and sub-graph tasks of all graphs together

ASSUME TaskGraphsAssumption ==
    /\ TaskGraphs \subseteq Nat /\ IsFiniteSet(TaskGraphs) /\ NoGraph \notin TaskGraphs
    /\ MaxTasks \in [TaskGraphs -> Nat] /\ MaxStated \in Nat

VARIABLES
    taskData,            \* the sub-graph of each task; task n is at n + 1
    taskOrderGraph,      \* a BaseGraph for each graph
    taskResourceUsage,   \* the entries of each graph's multimap, a bag
    usageCall,           \* the call of setResourceUsage that walks over a range, or <<>>
    rowsLeft,            \* the rows that a resize has still to move
    stated               \* history: what the calls asked for

userVars == <<taskData, taskOrderGraph, taskResourceUsage, usageCall, rowsLeft, stated>>

TaskIds(g)    == 0 .. Len(taskData[g]) - 1
SubGraph(g, k) == taskData[g][k + 1]
SubGraphs(g)  == {SubGraph(g, k) : k \in TaskIds(g)} \ {NoGraph}

Usages == {"SHARED", "LOCKING"}

UserInit ==
    /\ taskData = [g \in TaskGraphs |-> <<>>]
    /\ taskOrderGraph = [g \in TaskGraphs |-> EmptyGraph]
    /\ taskResourceUsage = [g \in TaskGraphs |-> EmptyBag]
    /\ usageCall = <<>>
    /\ rowsLeft = [g \in TaskGraphs |-> 0]
    /\ stated = [g \in TaskGraphs |-> [order |-> {}, usage |-> {}]]

\* No call is in progress: the matrix of every graph has a row for each task.
Resizing(g)  == taskOrderGraph[g].vertexCnt # Len(taskData[g])
NoCallActive == usageCall = <<>> /\ \A g \in TaskGraphs : ~Resizing(g)

------------------------------------------------------------------------------
(***************************************************************************)
(* addTask and addSubGraphTask.  A graph may stand in several places, but  *)
(* not inside itself: its resolution would not end.                        *)
(***************************************************************************)
AddTask(g, subGraph) ==
    /\ NoCallActive
    /\ Len(taskData[g]) < MaxTasks[g]
    /\ taskData' = [taskData EXCEPT ![g] = Append(@, subGraph)]
    /\ LET G    == taskOrderGraph[g]
           size == Len(taskData[g]) + 1
           sized == Resized(G.connections, WordCnt(size) * size)
       IN  IF WordCnt(size) = G.wordCnt
           THEN /\ taskOrderGraph' = [taskOrderGraph EXCEPT ![g] =
                        [G EXCEPT !.connections = sized, !.vertexCnt = size]]
                /\ UNCHANGED rowsLeft
           ELSE /\ taskOrderGraph' = [taskOrderGraph EXCEPT ![g] =
                        [G EXCEPT !.connections = sized]]
                /\ rowsLeft' = [rowsLeft EXCEPT ![g] = G.vertexCnt]
    /\ UNCHANGED <<taskResourceUsage, usageCall, stated>>

\* The rows are moved from the last to the first.
NextRow(g) == rowsLeft[g] - 1

MoveNextRow(g) ==
    /\ Resizing(g) /\ rowsLeft[g] > 0
    /\ taskOrderGraph' = [taskOrderGraph EXCEPT ![g].connections =
            MoveRow(@, NextRow(g), taskOrderGraph[g].wordCnt, WordCnt(Len(taskData[g])))]
    /\ rowsLeft' = [rowsLeft EXCEPT ![g] = @ - 1]
    /\ UNCHANGED <<taskData, taskResourceUsage, usageCall, stated>>

Resize(g) ==
    /\ Resizing(g) /\ rowsLeft[g] = 0
    /\ taskOrderGraph' = [taskOrderGraph EXCEPT
            ![g].wordCnt = WordCnt(Len(taskData[g])), ![g].vertexCnt = Len(taskData[g])]
    /\ UNCHANGED <<taskData, taskResourceUsage, usageCall, rowsLeft, stated>>

SetNext(g, task, next, set) ==
    /\ NoCallActive
    /\ task # next
    /\ taskOrderGraph' = [taskOrderGraph EXCEPT ![g] = SetConnected(@, task, next, set)]
    /\ stated' = [stated EXCEPT ![g].order = IF set THEN @ \cup {<<task, next>>} ELSE @ \ {<<task, next>>}]
    /\ UNCHANGED <<taskData, taskResourceUsage, usageCall, rowsLeft>>

(***************************************************************************)
(* setResourceUsage walks over the entries that all tasks have of the      *)
(* resource.  The unordered multimap is a bag: nothing in it keeps two     *)
(* equal entries apart or entries of one resource in order, so those left  *)
(* in the range are visited in any order.                                  *)
(***************************************************************************)
Entry(task, resource, usage) ==
    [task |-> task, resource |-> resource, locking |-> usage = "LOCKING"]

EqualRange(g, resource) ==
    Restrict(taskResourceUsage[g], {e \in BagToSet(taskResourceUsage[g]) : e.resource = resource})

\* Mutant: an entry that was found and changed is added all the same.
MissingOrFound(call) == call.usage # "NOT_USED"

Missing(call) == ~call.found /\ call.usage # "NOT_USED"

Emplaced(call) ==
    IF Missing(call)
    THEN [taskResourceUsage EXCEPT ![call.graph] =
            @ (+) SetToBag({Entry(call.task, call.resource, call.usage)})]
    ELSE taskResourceUsage

SetResourceUsage(g, task, resource, usage) ==
    /\ NoCallActive
    /\ LET call == [graph |-> g, task |-> task, resource |-> resource, usage |-> usage,
                    left |-> EqualRange(g, resource), found |-> FALSE]
       IN  IF call.left = EmptyBag
           THEN taskResourceUsage' = Emplaced(call) /\ UNCHANGED usageCall
           ELSE usageCall' = <<call>> /\ UNCHANGED taskResourceUsage
    /\ stated' = [stated EXCEPT ![g].usage =
            {u \in @ : u[1] # task \/ u[2] # resource}
                \cup (IF usage = "NOT_USED" THEN {} ELSE {<<task, resource, usage>>})]
    /\ UNCHANGED <<taskData, taskOrderGraph, rowsLeft>>

\* The entry of another task is passed, one of this task erased or changed.
VisitEntry(call, e) ==
    LET passed == [call EXCEPT !.left = @ (-) SetToBag({e})]
    IN  \/ /\ e.task # call.task
           /\ usageCall' = <<passed>>
           /\ UNCHANGED taskResourceUsage
        \/ /\ e.task = call.task /\ call.usage = "NOT_USED"
           /\ usageCall' = <<passed>>
           /\ taskResourceUsage' = [taskResourceUsage EXCEPT ![call.graph] = @ (-) SetToBag({e})]
        \/ /\ e.task = call.task /\ call.usage # "NOT_USED"
           /\ usageCall' = <<[passed EXCEPT !.found = TRUE]>>
           /\ taskResourceUsage' = [taskResourceUsage EXCEPT ![call.graph] =
                (@ (-) SetToBag({e})) (+) SetToBag({[e EXCEPT !.locking = call.usage = "LOCKING"]})]

EndOfRange(call) ==
    /\ call.left = EmptyBag
    /\ taskResourceUsage' = Emplaced(call)
    /\ usageCall' = <<>>

WalkRange ==
    /\ usageCall # <<>>
    /\ \/ \E e \in BagToSet(Head(usageCall).left) : VisitEntry(Head(usageCall), e)
       \/ EndOfRange(Head(usageCall))
    /\ UNCHANGED <<taskData, taskOrderGraph, rowsLeft, stated>>

\* resize(0) leaves no words, whatever the number of rows was.
Clear(g) ==
    /\ NoCallActive
    /\ taskOrderGraph' = [taskOrderGraph EXCEPT ![g] = EmptyGraph]
    /\ taskData' = [taskData EXCEPT ![g] = <<>>]
    /\ taskResourceUsage' = [taskResourceUsage EXCEPT ![g] = EmptyBag]
    /\ stated' = [stated EXCEPT ![g] = [order |-> {}, usage |-> {}]]
    /\ UNCHANGED <<usageCall, rowsLeft>>

\* copyFrom, of a graph that does not contain this one.
CopyFrom(g, h) ==
    /\ NoCallActive
    /\ g # h /\ Len(taskData[h]) <= MaxTasks[g]
    /\ \A sub \in SubGraphs(h) : sub > g
    /\ \A e \in BagToSet(taskResourceUsage[h]) : e.resource \in ResourcesOf[g]
    /\ taskData' = [taskData EXCEPT ![g] = taskData[h]]
    /\ taskResourceUsage' = [taskResourceUsage EXCEPT ![g] = taskResourceUsage[h]]
    /\ taskOrderGraph' = [taskOrderGraph EXCEPT ![g] = taskOrderGraph[h]]
    /\ stated' = [stated EXCEPT ![g] = stated[h]]
    /\ UNCHANGED <<usageCall, rowsLeft>>

UserCall(g) ==
    \/ \E h \in {NoGraph} \cup {h \in TaskGraphs : h > g} : AddTask(g, h)
    \/ \E task, next \in TaskIds(g), set \in BOOLEAN : SetNext(g, task, next, set)
    \/ \E task \in TaskIds(g), resource \in ResourcesOf[g], usage \in Usages \cup {"NOT_USED"} :
            SetResourceUsage(g, task, resource, usage)
    \/ MoveNextRow(g)
    \/ Resize(g)
    \/ Clear(g)
    \/ \E h \in TaskGraphs : CopyFrom(g, h)

StatedCnt == MapThenSumSet(LAMBDA g : Cardinality(stated[g].order) + Cardinality(stated[g].usage)
                                        + Cardinality({k \in TaskIds(g) : SubGraph(g, k) # NoGraph}),
                           TaskGraphs)

UserNext == ((\E g \in TaskGraphs : UserCall(g)) \/ WalkRange) /\ StatedCnt' <= MaxStated

UserSpec == UserInit /\ [][UserNext]_userVars

------------------------------------------------------------------------------
(***************************************************************************)
(* Properties                                                              *)
(***************************************************************************)

\* After any sequence of calls, and however often the matrix was laid out
\* anew in place (resize, 79-89), the order graph of a TaskGraph holds
\* exactly the edges that setNext last set, and none for a task added later.
OrderAsStated ==
    \A g \in TaskGraphs : ~Resizing(g) =>
        \A task \in TaskIds(g) :
            Edges(taskOrderGraph[g], task) = {next \in TaskIds(g) : <<task, next>> \in stated[g].order}

\* setResourceUsage relies on there being one entry at most of a task and a
\* resource, and on nothing but its own walk to keep it so: two calls later, what
\* an erased or changed entry left is what the next walk finds.  Between calls the
\* multimap has one entry, and one only, for each usage that is stated last, so
\* that getResourceUsage (279-288) has one answer and the compiler no stale lock;
\* within a call, once an entry was found no other of the task is met (259).
UsageAsStated ==
    /\ usageCall = <<>> =>
        \A g \in TaskGraphs :
            taskResourceUsage[g] = SetToBag({Entry(u[1], u[2], u[3]) : u \in stated[g].usage})
    /\ \A i \in DOMAIN usageCall :
        usageCall[i].found => \A e \in BagToSet(usageCall[i].left) : e.task # usageCall[i].task
==============================================================================

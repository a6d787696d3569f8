---------------------------- MODULE CompiledGraph ----------------------------
(***************************************************************************)
(* The read-only part of a CompiledTaskGraph (task_graph_execute.h): what  *)
(* compile_task_graph writes once and the executor only reads.             *)
(*                                                                         *)
(* Groups, subgroups and tasks are the code's array indices.  A 64-bit     *)
(* word of a group (initialPending, pending, executing, excludedMask) is a *)
(* set of subgroups; the word of one group is that set restricted to the   *)
(* members of the group.  The adjacency arrays (nextTaskIds, the task      *)
(* lists of subGraphData) are sets, since no operation depends on their    *)
(* order.                                                                  *)
(***************************************************************************)
EXTENDS Naturals, FiniteSets

CONSTANT
    \* @field groupOf       the group of each subgroup
    \* @field excluded      the excludedMask of each subgroup
    \* @field subGroupOf    the subgroup of each task
    \* @field next          the next tasks of each task
    \* @field start         the tasks with isPendingOnStart
    \* @field selfParallel  the tasks with allowToRunInParallelWithItself
    \* @field taskNum       what taskNumFn may return, {1} where there is none
    \* @field entry, exit, body   the tasks of each sub-graph
    Graph

GroupOf        == Graph.groupOf
SubGroups      == DOMAIN GroupOf
Groups         == {GroupOf[s] : s \in SubGroups}
Members(g)     == {s \in SubGroups : GroupOf[s] = g}
Excluded       == Graph.excluded

SubGroupOf     == Graph.subGroupOf
Tasks          == DOMAIN SubGroupOf
TasksOf(s)     == {k \in Tasks : SubGroupOf[k] = s}
NextTasks      == Graph.next
SelfParallel   == Graph.selfParallel
TaskNum        == Graph.taskNum

Entry          == Graph.entry
Exit           == Graph.exit
Body           == Graph.body
SubGraphs      == DOMAIN Entry
SubGraphEnds   == {Entry[g] : g \in SubGraphs} \cup {Exit[g] : g \in SubGraphs}

Preds(k)       == {p \in Tasks : k \in NextTasks[p]}
DepsCnt(k)     == Cardinality(Preds(k))

\* The upper half of Task::dependencies: a single predecessor is not counted.
TargetShort(k) == IF DepsCnt(k) = 1 THEN 0 ELSE DepsCnt(k) - 1   \* mutant: off by one
TargetNone(k)  == 0                                              \* mutant: not stored
Target(k)      == IF DepsCnt(k) = 1 THEN 0 ELSE DepsCnt(k)

PendingOnStart == Graph.start
InitialPending == {SubGroupOf[k] : k \in PendingOnStart}

(***************************************************************************)
(* What the compiler guarantees of its output and the executor relies on.  *)
(* Every subgroup excludes itself, exclusion is symmetric and stays within *)
(* a group (a mask has no bits for other groups).  No task precedes        *)
(* itself, and a task with no predecessor is pending on start.  A          *)
(* sub-graph's entry and exit may not run in parallel with themselves, a   *)
(* task is the end of at most one sub-graph, and an exit is alone in its   *)
(* subgroup.                                                               *)
(***************************************************************************)
WellFormed ==
    /\ SubGroups \subseteq Nat /\ Tasks \subseteq Nat /\ IsFiniteSet(Tasks)
    /\ GroupOf \in [SubGroups -> Nat] /\ 0 \in Groups /\ IsFiniteSet(Groups)
    /\ Excluded \in [SubGroups -> SUBSET SubGroups]
    /\ \A s \in SubGroups : s \in Excluded[s]
    /\ \A s \in SubGroups : \A r \in Excluded[s] :
            s \in Excluded[r] /\ GroupOf[r] = GroupOf[s]
    /\ SubGroupOf \in [Tasks -> SubGroups]
    /\ NextTasks \in [Tasks -> SUBSET Tasks] /\ \A k \in Tasks : k \notin NextTasks[k]
    /\ PendingOnStart \subseteq Tasks /\ \A k \in Tasks : DepsCnt(k) = 0 => k \in PendingOnStart
    /\ SelfParallel \subseteq Tasks
    /\ TaskNum \in [Tasks -> (SUBSET Nat) \ {{}}]
    /\ Entry \in [SubGraphs -> Tasks]
    /\ Exit \in [SubGraphs -> Tasks]
    /\ Body \in [SubGraphs -> SUBSET Tasks]
    /\ SelfParallel \cap SubGraphEnds = {}
    /\ \A g, h \in SubGraphs :
            /\ Entry[g] # Exit[h]
            /\ Entry[g] = Entry[h] \/ Exit[g] = Exit[h] => g = h
    /\ \A g \in SubGraphs : TasksOf(SubGroupOf[Exit[g]]) = {Exit[g]}

ASSUME GraphAssumption == WellFormed

(***************************************************************************)
(* What theorems about the executor assume besides.  Acyclic is true of    *)
(* all graphs that compile, the others are true of many.                   *)
(***************************************************************************)

\* No task with a predecessor is pending on start (the compiler sees to it
\* when the tasks of every graph are ordered as they were added).
StartedInOrder == PendingOnStart = {k \in Tasks : Preds(k) = {}}

\* Among any tasks there are a first and a last one (the normalization of a
\* graph with a cycle does not end, so that it is never compiled).
Acyclic ==
    \A S \in SUBSET Tasks : S # {} =>
        /\ \E k \in S : Preds(k) \cap S = {}
        /\ \E k \in S : NextTasks[k] \cap S = {}

\* The tasks of a sub-graph that come after its entry.
Parts(g) == Body[g] \cup {Exit[g]}

\* No sub-graph is inside another one: a body has no ends of sub-graphs, its
\* tasks come after the entry and before the exit, and no other task does.
NotNested ==
    /\ \A g, h \in SubGraphs : g # h => Body[g] \cap Body[h] = {}
    /\ \A g \in SubGraphs :
        /\ Body[g] \cap SubGraphEnds = {}
        /\ NextTasks[Entry[g]] \subseteq Parts(g)
        /\ \A k \in Body[g] : NextTasks[k] # {} /\ NextTasks[k] \subseteq Parts(g)
        /\ \A k \in Parts(g) : Preds(k) # {} /\ Preds(k) \subseteq Body[g] \cup {Entry[g]}
==============================================================================

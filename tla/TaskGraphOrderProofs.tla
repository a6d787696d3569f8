------------------------ MODULE TaskGraphOrderProofs ------------------------
(***************************************************************************)
(* Theorems about the order in which TaskGraphExecutor runs the tasks of   *)
(* a graph with no sub-graph inside another one.                           *)
(***************************************************************************)
EXTENDS TaskGraphExecutorProofs

OrderedGraph == StartedInOrder /\ Acyclic /\ NotNested

\* The tasks of a sub-graph with its ends.
Area(g) == Parts(g) \cup {Entry[g]}

(***************************************************************************)
(* The count of dependencies.  A thread that is at "notify" has some of    *)
(* the tasks after its own still to tell.                                  *)
(***************************************************************************)
Over(g)      == remaining[g] = -2
Resetting(g) == \E t \in Threads : pc[t] \in {"reset", "restart"} /\ job[t].task = Exit[g]

\* The counters in a sub-graph mean nothing while it is skipped or reset, and
\* when all its iterations are over.
Counts(n) == \A g \in SubGraphs : n \in Parts(g) => ~Over(g) /\ ~Resetting(g)

Undelivered(p, n) == \E t \in Threads : pc[t] = "notify" /\ job[t].task = p /\ n \in job[t].todo
Delivered(n) == {p \in Preds(n) : state[p] = "DONE" /\ ~Undelivered(p, n)}

CountedAt(n) ==
    /\ deps[n] = IF Target(n) = 0 THEN 0 ELSE Cardinality(Delivered(n))
    /\ state[n] = "NONE" <=> Delivered(n) # Preds(n)

DepsCounted == \A n \in Tasks : deps[n] =< Target(n) /\ (Counts(n) => CountedAt(n))

(***************************************************************************)
(* What a thread relies on at its place l with its job j.                  *)
(***************************************************************************)
IsHome(j) == SubGroupOf[j.task] = j.sub

\* The exit of a sub-graph is done by the thread that skipped it.
IsAway(j) == \E g \in SubGraphs : j.task = Exit[g] /\ j.sub = SubGroupOf[Entry[g]]

AtRun(j) == j.task \notin SubGraphEnds /\ state[j.task] = "EXECUTING" /\ IsHome(j)
AtEntry(j, g) == state[Entry[g]] = "PENDING" /\ remaining[g] >= 0 /\ IsHome(j)
AtExit(j, g) ==
    /\ Over(g)
    /\ \/ state[Exit[g]] = "PENDING" /\ IsHome(j)
       \/ state[Exit[g]] = "NONE" /\ state[Entry[g]] = "DONE" /\ j.sub = SubGroupOf[Entry[g]]

AtDone(j) ==
    /\ j.task \notin SubGraphEnds => AtRun(j)
    /\ \A g \in SubGraphs :
        /\ j.task = Entry[g] => AtEntry(j, g)
        /\ j.task = Exit[g] => AtExit(j, g)

AtNotify(j) == (j.todo # {} => state[j.task] = "DONE") /\ (IsHome(j) \/ IsAway(j))

AtSkip(j) ==
    \E g \in SubGraphs :
        /\ j.task = Entry[g] /\ IsHome(j) /\ j.todo \subseteq Body[g]
        /\ Over(g) /\ state[Entry[g]] = "PENDING" /\ state[Exit[g]] = "NONE"
        /\ \A b \in Body[g] : state[b] = IF b \in j.todo THEN "NONE" ELSE "DONE"

AtReset(j) ==
    \E g \in SubGraphs :
        /\ j.task = Exit[g] /\ IsHome(j) /\ j.todo \subseteq Body[g]
        /\ remaining[g] >= 1 /\ state[Entry[g]] = "DONE" /\ state[Exit[g]] = "PENDING"
        /\ \A b \in Body[g] : IF b \in j.todo THEN state[b] = "DONE"
                              ELSE state[b] = "NONE" /\ deps[b] = 0

AtRestart(j) ==
    \E g \in SubGraphs :
        /\ j.task = Exit[g] /\ IsHome(j)
        /\ remaining[g] >= 1 /\ state[Entry[g]] = "DONE"
        /\ \A b \in Parts(g) : state[b] = "NONE" /\ deps[b] = 0

AtWork(l, j) ==
    /\ l \in {"run", "windup"} => AtRun(j)
    /\ l \in {"gather", "wake", "piece"} /\ ~j.own => AtRun(j)
    /\ l = "done" => AtDone(j)
    /\ l = "notify" => AtNotify(j)
    /\ l = "skip" => AtSkip(j)
    /\ l = "reset" => AtReset(j)
    /\ l = "restart" => AtRestart(j)

AllAtWork == \A t \in Threads : AtWork(pc[t], job[t])

\* The tasks whose invocations can be acquired are executing.
VarTasksOpen ==
    \A s \in SubGroups : varTask[s].cnt > 0 =>
        /\ varTask[s].task \notin SubGraphEnds
        /\ state[varTask[s].task] = "EXECUTING"
        /\ SubGroupOf[varTask[s].task] = s

\* The thread that takes task k from pending to done, or the exit of a sub-graph
\* through its reset.
Acts(t, k) ==
    /\ job[t].task = k
    /\ \/ pc[t] \in {"run", "windup", "done", "skip", "reset", "restart"}
       \/ pc[t] = "notify" /\ job[t].todo # {}

Alone == \A t, u \in Threads : \A k \in Tasks : Acts(t, k) /\ Acts(u, k) => t = u

(***************************************************************************)
(* The phases of a sub-graph.  While a thread is at one of its ends, no    *)
(* other thread changes anything in it.                                    *)
(***************************************************************************)
AtEnd == {"done", "skip", "reset", "restart"}
Held(t, g) == pc[t] \in AtEnd /\ job[t].task \in {Entry[g], Exit[g]}

EndsOK(g) ==
    /\ remaining[g] \in {-2, -1} \cup Nat
    /\ state[Entry[g]] # "EXECUTING" /\ state[Exit[g]] # "EXECUTING"
    /\ remaining[g] = -1 => state[Entry[g]] # "DONE"
    /\ state[Entry[g]] = "NONE" => remaining[g] = -1
    /\ state[Exit[g]] = "DONE" => Over(g)

\* The iteration has not begun.
NotBegun(g) == state[Entry[g]] # "DONE" /\ ~Over(g) => \A k \in Parts(g) : state[k] = "NONE"

EntryTaken(g) ==
    state[Entry[g]] = "PENDING" =>
        remaining[g] = -1 \/ remaining[g] >= 1 \/ \E t \in Threads : Held(t, g)

\* The exit is reached when the tasks of the body are done.
ExitReached(g) ==
    state[Exit[g]] # "NONE" /\ ~Over(g) /\ ~Resetting(g) => \A b \in Body[g] : state[b] = "DONE"

Skipped(g) == \E t \in Threads : pc[t] = "skip" /\ job[t].task = Entry[g]
AllDone(g) ==
    /\ state[Entry[g]] = "DONE"
    /\ \A b \in Body[g] : state[b] = "DONE"
    /\ state[Exit[g]] = "DONE" \/ \E t \in Threads : pc[t] = "done" /\ job[t].task = Exit[g]
OverMeansDone(g) == Over(g) => Skipped(g) \/ AllDone(g)

\* Nothing is left to tell in the sub-graph.
AllTold(g) ==
    Over(g) \/ Resetting(g) =>
        \A t \in Threads : pc[t] = "notify" /\ job[t].task \in Body[g] \cup {Entry[g]} => job[t].todo = {}

GraphOK(g) ==
    EndsOK(g) /\ NotBegun(g) /\ EntryTaken(g) /\ ExitReached(g) /\ OverMeansDone(g) /\ AllTold(g)

Flow == DepsCounted /\ AllAtWork /\ VarTasksOpen /\ Alone /\ \A g \in SubGraphs : GraphOK(g)

\* What was proved of the executor before.
Known == LocalInv /\ OwnershipInv /\ LookoutInv

------------------------------------------------------------------------------
(***************************************************************************)
(* The graph.                                                              *)
(***************************************************************************)

\* The areas of two sub-graphs have no task in common.
LEMMA AreasApart ==
    ASSUME NotNested, NEW g \in SubGraphs, NEW h \in SubGraphs, NEW k \in Area(g), k \in Area(h)
    PROVE  g = h
  <1>1. /\ Entry[g] # Exit[h] /\ Entry[h] # Exit[g]
        /\ Entry[g] = Entry[h] \/ Exit[g] = Exit[h] => g = h
    BY GraphAssumption DEF WellFormed
  <1>2. /\ Body[g] \cap SubGraphEnds = {} /\ Body[h] \cap SubGraphEnds = {}
        /\ g # h => Body[g] \cap Body[h] = {}
    BY DEF NotNested
  <1>3. {Entry[g], Exit[g], Entry[h], Exit[h]} \subseteq SubGraphEnds
    BY DEF SubGraphEnds
  <1> QED  BY <1>1, <1>2, <1>3 DEF Area, Parts

\* What comes after the tasks of a sub-graph, and what comes before them.
LEMMA AreaEdges ==
    ASSUME NotNested, NEW g \in SubGraphs
    PROVE  /\ Entry[g] \in Tasks /\ Exit[g] \in Tasks /\ Body[g] \subseteq Tasks
           /\ Entry[g] \notin Parts(g) /\ Exit[g] \notin Body[g] /\ Entry[g] # Exit[g]
           /\ \A p \in Body[g] \cup {Entry[g]} : NextTasks[p] \subseteq Parts(g)
           /\ \A k \in Parts(g) : Preds(k) # {} /\ Preds(k) \subseteq Body[g] \cup {Entry[g]}
           /\ \A p \in Tasks : p \notin Body[g] \cup {Entry[g]} => NextTasks[p] \cap Parts(g) = {}
           /\ \A k \in Body[g] : k \notin SubGraphEnds
           /\ SubGroupOf[Entry[g]] # SubGroupOf[Exit[g]]
  <1>1. /\ Entry[g] \in Tasks /\ Exit[g] \in Tasks /\ Body[g] \subseteq Tasks /\ Entry[g] # Exit[g]
        /\ TasksOf(SubGroupOf[Exit[g]]) = {Exit[g]} /\ NextTasks \in [Tasks -> SUBSET Tasks]
    BY GraphAssumption DEF WellFormed
  <1>2. SubGroupOf[Entry[g]] # SubGroupOf[Exit[g]]
    BY <1>1 DEF TasksOf
  <1>3. Entry[g] \notin Parts(g) /\ Exit[g] \notin Body[g] /\ \A k \in Body[g] : k \notin SubGraphEnds
    BY <1>1 DEF NotNested, Parts, SubGraphEnds
  <1>4. /\ \A p \in Body[g] \cup {Entry[g]} : NextTasks[p] \subseteq Parts(g)
        /\ \A k \in Parts(g) : Preds(k) # {} /\ Preds(k) \subseteq Body[g] \cup {Entry[g]}
    BY DEF NotNested
  <1>5. \A p \in Tasks : p \notin Body[g] \cup {Entry[g]} => NextTasks[p] \cap Parts(g) = {}
    BY <1>4 DEF Preds
  <1> QED  BY <1>1, <1>2, <1>3, <1>4, <1>5

\* A self-parallel task is no end of a sub-graph.
LEMMA SelfParallelInside == \A k \in SelfParallel : k \in Tasks /\ k \notin SubGraphEnds
  BY GraphAssumption DEF WellFormed

\* The predecessors of a task can be counted.
LEMMA PredsFinite ==
    ASSUME NEW k
    PROVE  IsFiniteSet(Preds(k)) /\ DepsCnt(k) \in Nat /\ Target(k) \in Nat
  <1>1. IsFiniteSet(Preds(k))
    BY GraphAssumption, FS_Subset DEF Preds, WellFormed
  <1> QED  BY <1>1, FS_CardinalityType DEF DepsCnt, Target

------------------------------------------------------------------------------
(***************************************************************************)
(* One thread.                                                             *)
(***************************************************************************)

\* What is known of thread t at its place.
LEMMA ThreadKnown ==
    ASSUME Known, NEW t \in Threads
    PROVE  /\ pc[t] \in Labels /\ find[t] \in Searches /\ job[t] \in Jobs
           /\ pc[t] \in OnTask \/ Invokes(t) => job[t].task \in Tasks /\ job[t].sub \in SubGroups
           /\ pc[t] \in Owning => job[t].own /\ job[t].sub \in SubGroups
           /\ pc[t] = "piece" => ~job[t].own /\ Invokes(t)
           /\ pc[t] = "windup" \/ Invokes(t) => job[t].task \in SelfParallel
           /\ pc[t] = "windup" => job[t].idx > 1
           /\ pc[t] = "notify" => job[t].todo \subseteq NextTasks[job[t].task]
           /\ pc[t] = "restart" => job[t].todo = {}
  <1>1. /\ pc[t] \in Labels /\ find[t] \in Searches /\ job[t] \in Jobs
        /\ LocatedAt(pc[t], find[t], job[t])
    BY ThreadHere DEF Known, LocalInv
  <1>2. NotedAt(pc[t], job[t])
    BY DEF Known, LookoutInv, AllNoted
  <1>3. Invokes(t) => job[t].task \in SelfParallel
    BY DEF Known, OwnershipInv, InvocationsApart
  <1> QED  BY <1>1, <1>2, <1>3
           DEF LocatedAt, NotedAt, OnTask, Owning, Waking, Outside, Searching, Invokes

\* A subgroup has one owner, and no invocation runs in it.
LEMMA OwnerAlone ==
    ASSUME Known, NEW t \in Threads, NEW u \in Threads, job[t].own, job[t].sub \in SubGroups,
           job[u].sub = job[t].sub, job[u].own \/ Invokes(u)
    PROVE  t = u
  BY OwnedHasNoInvocations DEF Known, Owns

\* Nobody can acquire an invocation in a subgroup that has an owner.
LEMMA OwnerClosed ==
    ASSUME Known, NEW t \in Threads, job[t].own, job[t].sub \in SubGroups
    PROVE  varTask[job[t].sub].cnt = 0
  BY OwnedHasNoInvocations DEF Known

\* A thread that acts on a task owns the task's subgroup, or skipped a sub-graph.
LEMMA ActsHome ==
    ASSUME Known, Flow, NEW t \in Threads, NEW k, Acts(t, k)
    PROVE  /\ k \in Tasks /\ job[t].task = k /\ job[t].own /\ job[t].sub \in SubGroups
           /\ IsHome(job[t]) \/ IsAway(job[t])
           /\ pc[t] \in Owning /\ pc[t] \in OnTask
           /\ pc[t] \notin {"done", "notify"} => IsHome(job[t])
  <1>1. job[t].task = k /\ pc[t] \in Owning /\ pc[t] \in OnTask /\ pc[t] \notin {"gather", "wake", "piece"}
    BY DEF Acts, Owning, OnTask
  <1>2. AtWork(pc[t], job[t])
    BY DEF Flow, AllAtWork
  <1>3. k \in Tasks /\ job[t].own /\ job[t].sub \in SubGroups
    BY <1>1, ThreadKnown
  <1>4. CASE pc[t] \in {"run", "windup"}
    BY <1>1, <1>2, <1>3, <1>4 DEF AtWork, AtRun
  <1>5. CASE pc[t] = "done"
    <2>1. AtDone(job[t])
      BY <1>2, <1>5 DEF AtWork
    <2>2. CASE k \notin SubGraphEnds
      BY <2>1, <2>2, <1>1, <1>3, <1>5 DEF AtDone, AtRun
    <2>3. ASSUME NEW g \in SubGraphs, k = Entry[g] PROVE IsHome(job[t])
      BY <2>1, <2>3, <1>1 DEF AtDone, AtEntry
    <2>4. ASSUME NEW g \in SubGraphs, k = Exit[g] PROVE IsHome(job[t]) \/ IsAway(job[t])
      BY <2>1, <2>4, <1>1 DEF AtDone, AtExit, IsAway
    <2> QED  BY <1>1, <1>3, <1>5, <2>2, <2>3, <2>4 DEF SubGraphEnds
  <1>6. CASE pc[t] = "notify"
    BY <1>1, <1>2, <1>3, <1>6 DEF AtWork, AtNotify
  <1>7. CASE pc[t] \in {"skip", "reset", "restart"}
    BY <1>1, <1>2, <1>3, <1>7 DEF AtWork, AtSkip, AtReset, AtRestart
  <1>8. pc[t] \in {"run", "windup", "done", "notify", "skip", "reset", "restart"}
    BY DEF Acts
  <1> QED  BY <1>1, <1>3, <1>4, <1>5, <1>6, <1>7, <1>8

\* A thread that runs a task, or one of its invocations.
LEMMA RunsHome ==
    ASSUME Known, Flow, NEW t \in Threads, Invokes(t)
    PROVE  /\ job[t].task \in Tasks /\ job[t].task \notin SubGraphEnds
           /\ state[job[t].task] = "EXECUTING" /\ SubGroupOf[job[t].task] = job[t].sub
           /\ job[t].sub \in SubGroups
  BY ThreadKnown DEF Flow, AllAtWork, AtWork, AtRun, IsHome, Invokes

\* Nobody acts on a task in a subgroup that another thread owns, but on an exit.
LEMMA OthersAway ==
    ASSUME Known, Flow, NotNested, NEW t \in Threads, NEW u \in Threads, t # u, NEW k \in Tasks,
           job[t].own, job[t].sub = SubGroupOf[k], Acts(u, k) \/ (Invokes(u) /\ job[u].task = k)
    PROVE  Acts(u, k) /\ \E g \in SubGraphs : k = Exit[g] /\ job[u].sub = SubGroupOf[Entry[g]]
                            /\ pc[u] \in {"done", "notify"}
  <1>1. job[t].sub \in SubGroups
    BY GraphAssumption DEF WellFormed
  <1>2. ~Invokes(u) \/ job[u].task # k
    <2> SUFFICES ASSUME Invokes(u), job[u].task = k PROVE FALSE
      OBVIOUS
    <2> QED  BY <1>1, RunsHome, OwnerAlone
  <1>3. Acts(u, k)
    BY <1>2
  <1>4. job[u].task = k /\ job[u].own /\ (IsHome(job[u]) \/ IsAway(job[u]))
        /\ (pc[u] \notin {"done", "notify"} => IsHome(job[u]))
    BY <1>3, ActsHome
  <1>5. ~IsHome(job[u])
    BY <1>1, <1>4, OwnerAlone DEF IsHome
  <1> QED  BY <1>3, <1>4, <1>5 DEF IsAway

------------------------------------------------------------------------------
(***************************************************************************)
(* The thread at an end of a sub-graph.                                    *)
(***************************************************************************)

\* The phase that a sub-graph is in while thread t is at one of its ends.
EndPhase(t, g) ==
    \/ /\ pc[t] = "done" /\ job[t].task = Entry[g]
       /\ remaining[g] >= 0 /\ state[Entry[g]] = "PENDING"
       /\ \A k \in Parts(g) : state[k] = "NONE"
    \/ /\ pc[t] = "skip" /\ job[t].task = Entry[g] /\ job[t].todo \subseteq Body[g]
       /\ Over(g) /\ state[Entry[g]] = "PENDING" /\ state[Exit[g]] = "NONE"
       /\ \A b \in Body[g] : state[b] = IF b \in job[t].todo THEN "NONE" ELSE "DONE"
    \/ /\ pc[t] = "done" /\ job[t].task = Exit[g] /\ Over(g)
       /\ state[Entry[g]] = "DONE" /\ \A b \in Body[g] : state[b] = "DONE"
       /\ state[Exit[g]] \in {"NONE", "PENDING"}
       /\ state[Exit[g]] = "PENDING" => IsHome(job[t])
       /\ state[Exit[g]] = "NONE" => job[t].sub = SubGroupOf[Entry[g]]
    \/ /\ pc[t] = "reset" /\ job[t].task = Exit[g] /\ job[t].todo \subseteq Body[g]
       /\ remaining[g] >= 1 /\ state[Entry[g]] = "DONE" /\ state[Exit[g]] = "PENDING"
       /\ \A b \in Body[g] : IF b \in job[t].todo THEN state[b] = "DONE"
                             ELSE state[b] = "NONE" /\ deps[b] = 0
    \/ /\ pc[t] = "restart" /\ job[t].task = Exit[g]
       /\ remaining[g] >= 1 /\ state[Entry[g]] = "DONE"
       /\ \A b \in Parts(g) : state[b] = "NONE" /\ deps[b] = 0

\* A sub-graph's end determines the sub-graph.
LEMMA EndsApart ==
    ASSUME NEW g \in SubGraphs, NEW h \in SubGraphs
    PROVE  /\ Entry[g] # Exit[h] /\ (Entry[g] = Entry[h] => g = h) /\ (Exit[g] = Exit[h] => g = h)
           /\ Entry[g] \in SubGraphEnds /\ Exit[g] \in SubGraphEnds
           /\ Entry[g] \in Tasks /\ Exit[g] \in Tasks
  BY GraphAssumption DEF SubGraphEnds, WellFormed

\* Every thread at an end finds its sub-graph in a phase.
LEMMA HeldPhase ==
    ASSUME Known, Flow, NotNested, NEW t \in Threads, NEW g \in SubGraphs, Held(t, g)
    PROVE  EndPhase(t, g)
  <1> DEFINE j == job[t]
  <1>1. AtWork(pc[t], j) /\ GraphOK(g)
    BY DEF Flow, AllAtWork
  <1>2. CASE pc[t] = "done" /\ j.task = Entry[g]
    <2>1. AtEntry(j, g)
      BY <1>1, <1>2 DEF AtWork, AtDone
    <2> QED  BY <1>1, <1>2, <2>1 DEF AtEntry, EndPhase, GraphOK, NotBegun, Over
  <1>3. CASE pc[t] = "done" /\ j.task = Exit[g]
    <2>1. AtExit(j, g)
      BY <1>1, <1>3 DEF AtWork, AtDone
    <2>2. ~Skipped(g)
      <3> SUFFICES ASSUME NEW u \in Threads, pc[u] = "skip", job[u].task = Entry[g] PROVE FALSE
        BY DEF Skipped
      <3>1. AtSkip(job[u])
        BY DEF Flow, AllAtWork, AtWork
      <3>2. state[Entry[g]] = "PENDING" /\ state[Exit[g]] = "NONE"
        BY <3>1, EndsApart DEF AtSkip
      <3> QED  BY <2>1, <3>2 DEF AtExit
    <2>3. AllDone(g)
      BY <1>1, <2>1, <2>2 DEF GraphOK, OverMeansDone, AtExit
    <2> QED  BY <1>3, <2>1, <2>3 DEF AtExit, AllDone, EndPhase
  <1>4. CASE pc[t] = "skip"
    <2>1. AtSkip(j)
      BY <1>1, <1>4 DEF AtWork
    <2>2. PICK h \in SubGraphs : 
        /\ j.task = Entry[h] /\ j.todo \subseteq Body[h]
        /\ Over(h) /\ state[Entry[h]] = "PENDING" /\ state[Exit[h]] = "NONE"
        /\ \A b \in Body[h] : state[b] = IF b \in j.todo THEN "NONE" ELSE "DONE"
      BY <2>1 DEF AtSkip
    <2>3. h = g
      BY <2>2, EndsApart DEF Held
    <2> QED  BY <1>4, <2>2, <2>3 DEF EndPhase
  <1>5. CASE pc[t] = "reset"
    <2>1. AtReset(j)
      BY <1>1, <1>5 DEF AtWork
    <2>2. PICK h \in SubGraphs : 
        /\ j.task = Exit[h] /\ j.todo \subseteq Body[h]
        /\ remaining[h] >= 1 /\ state[Entry[h]] = "DONE" /\ state[Exit[h]] = "PENDING"
        /\ \A b \in Body[h] : IF b \in j.todo THEN state[b] = "DONE"
                              ELSE state[b] = "NONE" /\ deps[b] = 0
      BY <2>1 DEF AtReset
    <2>3. h = g
      BY <2>2, EndsApart DEF Held
    <2> QED  BY <1>5, <2>2, <2>3 DEF EndPhase
  <1>6. CASE pc[t] = "restart"
    <2>1. AtRestart(j)
      BY <1>1, <1>6 DEF AtWork
    <2>2. PICK h \in SubGraphs : 
        /\ j.task = Exit[h]
        /\ remaining[h] >= 1 /\ state[Entry[h]] = "DONE"
        /\ \A b \in Parts(h) : state[b] = "NONE" /\ deps[b] = 0
      BY <2>1 DEF AtRestart
    <2>3. h = g
      BY <2>2, EndsApart DEF Held
    <2> QED  BY <1>6, <2>2, <2>3 DEF EndPhase
  <1> QED  BY <1>2, <1>3, <1>4, <1>5, <1>6 DEF Held, AtEnd

\* What all phases have in common.
LEMMA HeldFacts ==
    ASSUME Known, Flow, NotNested, NEW t \in Threads, NEW g \in SubGraphs, Held(t, g)
    PROVE  /\ \A b \in Body[g] : state[b] \in {"NONE", "DONE"}
           /\ state[Entry[g]] \in {"PENDING", "DONE"}
           /\ state[Exit[g]] \in {"NONE", "PENDING"}
           /\ job[t].task = Entry[g] <=> state[Entry[g]] = "PENDING"
           /\ remaining[g] # -1
           /\ \A u \in Threads : pc[u] = "notify" /\ job[u].task \in Body[g] \cup {Entry[g]} => job[u].todo = {}
  <1>1. EndPhase(t, g)
    BY HeldPhase
  <1>2. Entry[g] # Exit[g] /\ Exit[g] \in Parts(g) /\ Body[g] \subseteq Parts(g)
    BY EndsApart DEF Parts
  <1>3. ASSUME NEW u \in Threads, pc[u] = "notify", job[u].task \in Body[g] \cup {Entry[g]}
        PROVE  job[u].todo = {}
    <2>1. GraphOK(g) /\ AtWork(pc[u], job[u])
      BY DEF Flow, AllAtWork
    <2>2. CASE Over(g) \/ (pc[t] \in {"reset", "restart"} /\ job[t].task = Exit[g])
      BY <1>3, <2>1, <2>2 DEF GraphOK, AllTold, Resetting
    <2>3. CASE /\ state[Entry[g]] = "PENDING"
               /\ \A k \in Parts(g) : state[k] = "NONE"
      BY <1>2, <1>3, <2>1, <2>3 DEF AtWork, AtNotify
    <2>4. \/ Over(g)
          \/ pc[t] \in {"reset", "restart"} /\ job[t].task = Exit[g]
          \/ state[Entry[g]] = "PENDING" /\ \A k \in Parts(g) : state[k] = "NONE"
      BY <1>1 DEF EndPhase
    <2> QED  BY <2>2, <2>3, <2>4
  <1> QED  BY <1>1, <1>2, <1>3 DEF EndPhase, Over

\* Only one thread is at the ends of a sub-graph.
LEMMA HeldAlone ==
    ASSUME Known, Flow, NotNested, NEW t \in Threads, NEW u \in Threads, NEW g \in SubGraphs,
           Held(t, g), Held(u, g)
    PROVE  t = u
  <1>1. job[t].task = job[u].task /\ job[t].task \in Tasks
    BY HeldFacts, EndsApart DEF Held
  <1>2. Acts(t, job[t].task) /\ Acts(u, job[t].task)
    BY <1>1 DEF Held, Acts, AtEnd
  <1> QED  BY <1>1, <1>2 DEF Flow, Alone

\* A thread that finds an end pending in its scan is alone there.
LEMMA ScanAlone ==
    ASSUME Known, Flow, NotNested, NEW t \in Threads, NEW g \in SubGraphs, NEW k \in {Entry[g], Exit[g]},
           pc[t] = "scan", SubGroupOf[k] = job[t].sub, state[k] = "PENDING", NEW u \in Threads
    PROVE  ~Held(u, g)
  <1> SUFFICES ASSUME Held(u, g) PROVE FALSE
    OBVIOUS
  <1>1. job[t].own /\ job[t].sub \in SubGroups /\ k \in Tasks
    BY ThreadKnown, EndsApart DEF Owning
  <1>2. EndPhase(u, g) /\ job[u].task \in {Entry[g], Exit[g]}
    BY HeldPhase DEF Held
  <1>3. t # u
    BY DEF Held, AtEnd
  <1>4. Acts(u, job[u].task)
    BY DEF Held, Acts, AtEnd
  <1>5. CASE job[u].task = k
    <2>1. \E h \in SubGraphs : k = Exit[h] /\ job[u].sub = SubGroupOf[Entry[h]] /\ pc[u] \in {"done", "notify"}
      BY <1>1, <1>3, <1>4, <1>5, OthersAway
    <2>2. k = Exit[g] /\ job[u].sub = SubGroupOf[Entry[g]] /\ pc[u] = "done"
      BY <2>1, EndsApart DEF Held, AtEnd
    <2>3. IsHome(job[u])
      BY <1>2, <1>5, <2>2, EndsApart DEF EndPhase
    <2> QED  BY <1>5, <2>2, <2>3, AreaEdges DEF IsHome
  <1>6. CASE job[u].task # k
    BY <1>2, <1>6, HeldFacts, EndsApart DEF EndPhase, Parts
  <1> QED  BY <1>5, <1>6

------------------------------------------------------------------------------
(***************************************************************************)
(* What a step of thread t leaves alone.                                   *)
(***************************************************************************)

\* Thread t goes to l with job j; the other threads stay where they are.
Moves(t, l, j) == pc' = [pc EXCEPT ![t] = l] /\ job' = [job EXCEPT ![t] = j]

LEMMA MovesOne ==
    ASSUME Known, NEW t \in Threads, NEW l, NEW j, Moves(t, l, j)
    PROVE  /\ pc'[t] = l /\ job'[t] = j
           /\ \A u \in Threads : u # t => pc'[u] = pc[u] /\ job'[u] = job[u]
  BY DEF Known, LocalInv, ThreadsOK, Moves

\* What a thread has to tell is told by no other thread.
LEMMA UndeliveredMoves ==
    ASSUME Known, NEW t \in Threads, NEW l, NEW j, Moves(t, l, j), NEW p, NEW n,
           (pc[t] = "notify" /\ job[t].task = p /\ n \in job[t].todo)
                <=> (l = "notify" /\ j.task = p /\ n \in j.todo)
    PROVE  Undelivered(p, n)' <=> Undelivered(p, n)
  BY MovesOne DEF Undelivered

\* A sub-graph is being reset by the threads that are at its exit.
LEMMA ResettingMoves ==
    ASSUME Known, NEW t \in Threads, NEW l, NEW j, Moves(t, l, j), NEW g,
           (pc[t] \in {"reset", "restart"} /\ job[t].task = Exit[g])
                <=> (l \in {"reset", "restart"} /\ j.task = Exit[g])
    PROVE  Resetting(g)' <=> Resetting(g)
  BY MovesOne DEF Resetting

\* The other threads rely on nothing that changes.
LEMMA OthersAtWork ==
    ASSUME Known, Flow, NotNested, NEW u \in Threads, pc'[u] = pc[u], job'[u] = job[u],
           \A k \in Tasks : state'[k] # state[k] => ~Acts(u, k) /\ ~(Invokes(u) /\ job[u].task = k),
           \A g \in SubGraphs : Held(u, g) =>
                /\ remaining'[g] = remaining[g]
                /\ \A k \in Area(g) : state'[k] = state[k] /\ deps'[k] = deps[k]
    PROVE  AtWork(pc[u], job[u])'
  <1> DEFINE j == job[u]
  <1>1. AtWork(pc[u], j)
    BY DEF Flow, AllAtWork
  <1>2. Acts(u, j.task) \/ Invokes(u) => j.task \in Tasks /\ state'[j.task] = state[j.task]
    BY ActsHome, RunsHome
  <1>3. \A g \in SubGraphs : /\ Entry[g] \in Area(g) /\ Exit[g] \in Area(g) /\ Exit[g] \in Parts(g)
                             /\ Body[g] \subseteq Area(g) /\ Parts(g) \subseteq Area(g)
    BY DEF Area, Parts
  <1>4. CASE pc[u] \in {"run", "windup"} \/ Invokes(u)
    <2>1. AtRun(j)
      BY <1>1, <1>4 DEF AtWork, Invokes
    <2>2. state'[j.task] = state[j.task]
      BY <1>2, <1>4 DEF Acts
    <2>3. AtRun(j)'
      BY <2>1, <2>2 DEF AtRun, IsHome
    <2> QED  BY <2>3, <1>4 DEF AtWork, Invokes
  <1>5. CASE pc[u] = "done"
    <2>1. AtDone(j) /\ state'[j.task] = state[j.task]
      BY <1>1, <1>2, <1>5 DEF AtWork, Acts
    <2>2. j.task \notin SubGraphEnds => AtRun(j)'
      BY <2>1 DEF AtDone, AtRun, IsHome
    <2>3. ASSUME NEW g \in SubGraphs, j.task \in {Entry[g], Exit[g]}
          PROVE  /\ remaining'[g] = remaining[g] /\ state'[Entry[g]] = state[Entry[g]]
                 /\ state'[Exit[g]] = state[Exit[g]]
      BY <1>3, <1>5, <2>3 DEF Held, AtEnd
    <2>4. ASSUME NEW g \in SubGraphs, j.task = Entry[g] PROVE AtEntry(j, g)'
      BY <2>1, <2>3, <2>4 DEF AtDone, AtEntry, IsHome
    <2>5. ASSUME NEW g \in SubGraphs, j.task = Exit[g] PROVE AtExit(j, g)'
      BY <2>1, <2>3, <2>5 DEF AtDone, AtExit, IsHome, Over
    <2>6. AtDone(j)'
      BY <2>2, <2>4, <2>5 DEF AtDone
    <2> QED  BY <1>5, <2>6 DEF AtWork
  <1>6. CASE pc[u] = "notify"
    <2>1. AtNotify(j)
      BY <1>1, <1>6 DEF AtWork
    <2>2. j.todo # {} => state'[j.task] = state[j.task]
      BY <1>2, <1>6 DEF Acts
    <2>3. AtNotify(j)'
      BY <2>1, <2>2 DEF AtNotify, IsHome, IsAway
    <2> QED  BY <1>6, <2>3 DEF AtWork
  <1>7. CASE pc[u] = "skip"
    <2>1. PICK g \in SubGraphs :
            /\ j.task = Entry[g] /\ IsHome(j) /\ j.todo \subseteq Body[g]
            /\ Over(g) /\ state[Entry[g]] = "PENDING" /\ state[Exit[g]] = "NONE"
            /\ \A b \in Body[g] : state[b] = IF b \in j.todo THEN "NONE" ELSE "DONE"
      BY <1>1, <1>7 DEF AtWork, AtSkip
    <2>2. /\ remaining'[g] = remaining[g]
          /\ \A k \in Area(g) : state'[k] = state[k]
      BY <1>7, <2>1 DEF Held, AtEnd
    <2>3. AtSkip(j)'
      BY <1>3, <2>1, <2>2 DEF AtSkip, IsHome, Over
    <2> QED  BY <1>7, <2>3 DEF AtWork
  <1>8. CASE pc[u] = "reset"
    <2>1. PICK g \in SubGraphs :
            /\ j.task = Exit[g] /\ IsHome(j) /\ j.todo \subseteq Body[g]
            /\ remaining[g] >= 1 /\ state[Entry[g]] = "DONE" /\ state[Exit[g]] = "PENDING"
            /\ \A b \in Body[g] : IF b \in j.todo THEN state[b] = "DONE"
                                  ELSE state[b] = "NONE" /\ deps[b] = 0
      BY <1>1, <1>8 DEF AtWork, AtReset
    <2>2. /\ remaining'[g] = remaining[g]
          /\ \A k \in Area(g) : state'[k] = state[k] /\ deps'[k] = deps[k]
      BY <1>8, <2>1 DEF Held, AtEnd
    <2>3. AtReset(j)'
      BY <1>3, <2>1, <2>2 DEF AtReset, IsHome
    <2> QED  BY <1>8, <2>3 DEF AtWork
  <1>9. CASE pc[u] = "restart"
    <2>1. PICK g \in SubGraphs :
            /\ j.task = Exit[g] /\ IsHome(j)
            /\ remaining[g] >= 1 /\ state[Entry[g]] = "DONE"
            /\ \A b \in Parts(g) : state[b] = "NONE" /\ deps[b] = 0
      BY <1>1, <1>9 DEF AtWork, AtRestart
    <2>2. /\ remaining'[g] = remaining[g]
          /\ \A k \in Area(g) : state'[k] = state[k] /\ deps'[k] = deps[k]
      BY <1>9, <2>1 DEF Held, AtEnd
    <2>3. AtRestart(j)'
      BY <1>3, <2>1, <2>2 DEF AtRestart, IsHome
    <2> QED  BY <1>9, <2>3 DEF AtWork
  <1> QED  BY <1>4, <1>5, <1>6, <1>7, <1>8, <1>9 DEF AtWork, Invokes

\* All threads are where they may be, if thread t is and the others rely on
\* nothing that changes.
LEMMA AllAtWorkMoves ==
    ASSUME Known, Flow, NotNested, NEW t \in Threads, NEW l, NEW j, Moves(t, l, j), AtWork(l, j)',
           \A u \in Threads : u # t =>
                /\ \A k \in Tasks : state'[k] # state[k] => ~Acts(u, k) /\ ~(Invokes(u) /\ job[u].task = k)
                /\ \A g \in SubGraphs : Held(u, g) =>
                        /\ remaining'[g] = remaining[g]
                        /\ \A k \in Area(g) : state'[k] = state[k] /\ deps'[k] = deps[k]
    PROVE  AllAtWork'
  <1> SUFFICES ASSUME NEW u \in Threads PROVE AtWork(pc[u], job[u])'
    BY DEF AllAtWork
  <1>1. CASE u = t
    BY <1>1, MovesOne
  <1>2. CASE u # t
    BY <1>2, MovesOne, OthersAtWork
  <1> QED  BY <1>1, <1>2

\* The counter of a task that nobody tells and that is not reset.
LEMMA CountKept ==
    ASSUME DepsCounted, NEW n \in Tasks, deps'[n] = deps[n],
           Counts(n)' => Counts(n),
           Counts(n)' => (state'[n] = "NONE" <=> state[n] = "NONE"),
           Counts(n)' => \A p \in Preds(n) :
                (state'[p] = "DONE" /\ ~Undelivered(p, n)') <=> (state[p] = "DONE" /\ ~Undelivered(p, n))
    PROVE  deps'[n] =< Target(n) /\ (Counts(n)' => CountedAt(n)')
  <1>1. Counts(n)' => Delivered(n)' = Delivered(n)
    BY DEF Delivered
  <1>2. deps[n] =< Target(n) /\ (Counts(n) => CountedAt(n))
    BY DEF DepsCounted
  <1> QED  BY <1>1, <1>2 DEF CountedAt

\* Only one thread acts on a task, if t begins with none that another one acts on.
LEMMA AloneMoves ==
    ASSUME Known, Flow, NEW t \in Threads, NEW l, NEW j, Moves(t, l, j),
           \A k \in Tasks : Acts(t, k)' => Acts(t, k) \/ \A u \in Threads : Acts(u, k) => u = t
    PROVE  Alone'
  <1> SUFFICES ASSUME NEW u \in Threads, NEW v \in Threads, NEW k \in Tasks, Acts(u, k)', Acts(v, k)'
               PROVE  u = v
    BY DEF Alone
  <1>1. \A w \in Threads : w # t => (Acts(w, k)' <=> Acts(w, k))
    BY MovesOne DEF Acts
  <1> QED  BY <1>1 DEF Flow, Alone

\* A task that can be acquired is not taken from its state.
LEMMA VarTasksKept ==
    ASSUME Known, Flow, varTask' = varTask,
           \A k \in Tasks : state[k] = "EXECUTING" /\ state'[k] # "EXECUTING" =>
                varTask[SubGroupOf[k]].cnt = 0
    PROVE  VarTasksOpen'
  <1> SUFFICES ASSUME NEW s \in SubGroups, varTask[s].cnt > 0
               PROVE  /\ varTask[s].task \notin SubGraphEnds
                      /\ state'[varTask[s].task] = "EXECUTING"
                      /\ SubGroupOf[varTask[s].task] = s
    BY DEF VarTasksOpen
  <1>1. /\ varTask[s].task \in Tasks /\ varTask[s].task \notin SubGraphEnds
        /\ state[varTask[s].task] = "EXECUTING" /\ SubGroupOf[varTask[s].task] = s
    BY SelfParallelInside DEF Known, LocalInv, SharedOK, Flow, VarTasksOpen
  <1>2. varTask[SubGroupOf[varTask[s].task]].cnt # 0
    BY <1>1 DEF Known, LocalInv, SharedOK
  <1> QED  BY <1>1, <1>2

\* A sub-graph of which nothing changes, and at whose ends t is neither before nor
\* after the step.
LEMMA GraphKept ==
    ASSUME Known, Flow, NotNested, NEW t \in Threads, NEW l, NEW j, Moves(t, l, j),
           NEW g \in SubGraphs, remaining'[g] = remaining[g],
           \A k \in Area(g) : state'[k] = state[k],
           ~Held(t, g), ~Held(t, g)',
           l = "notify" /\ j.task \in Body[g] \cup {Entry[g]} =>
                \/ j.todo = {}
                \/ pc[t] = "notify" /\ job[t].task = j.task /\ j.todo \subseteq job[t].todo
                \/ ~Over(g) /\ ~Resetting(g)
    PROVE  GraphOK(g)'
  <1>1. GraphOK(g)
    BY DEF Flow
  <1>2. /\ state'[Entry[g]] = state[Entry[g]] /\ state'[Exit[g]] = state[Exit[g]]
        /\ \A b \in Body[g] : state'[b] = state[b]
        /\ \A b \in Parts(g) : state'[b] = state[b]
    BY DEF Area, Parts
  <1>3. Over(g)' <=> Over(g)
    BY DEF Over
  <1>4. \A u \in Threads : Held(u, g)' <=> Held(u, g)
    BY MovesOne DEF Held
  <1>5. Resetting(g)' <=> Resetting(g)
    BY MovesOne DEF Resetting, Held, AtEnd
  <1>6. \A u \in Threads : Held(u, g) => pc'[u] = pc[u] /\ job'[u] = job[u]
    BY MovesOne
  <1>7. EndsOK(g)' /\ NotBegun(g)' /\ ExitReached(g)'
    BY <1>1, <1>2, <1>3, <1>5 DEF GraphOK, EndsOK, NotBegun, ExitReached
  <1>8. EntryTaken(g)'
    BY <1>1, <1>2, <1>4 DEF GraphOK, EntryTaken
  <1>9. OverMeansDone(g)'
    <2>1. Skipped(g) => Skipped(g)'
      BY <1>6 DEF Skipped, Held, AtEnd
    <2>2. AllDone(g) => AllDone(g)'
      BY <1>2, <1>6 DEF AllDone, Held, AtEnd
    <2> QED  BY <1>1, <1>3, <2>1, <2>2 DEF GraphOK, OverMeansDone
  <1>10. AllTold(g)'
    <2> SUFFICES ASSUME Over(g) \/ Resetting(g), NEW u \in Threads, pc'[u] = "notify",
                        job'[u].task \in Body[g] \cup {Entry[g]}
                 PROVE  job'[u].todo = {}
      BY <1>3, <1>5 DEF AllTold
    <2>1. \A v \in Threads : pc[v] = "notify" /\ job[v].task \in Body[g] \cup {Entry[g]} => job[v].todo = {}
      BY <1>1 DEF GraphOK, AllTold
    <2>2. CASE u = t
      BY <2>1, <2>2, MovesOne
    <2>3. CASE u # t
      BY <2>1, <2>3, MovesOne
    <2> QED  BY <2>2, <2>3
  <1> QED  BY <1>7, <1>8, <1>9, <1>10 DEF GraphOK

\* A step that changes no task and takes the thread from no task to no task.
LEMMA QuietStep ==
    ASSUME Known, Flow, NotNested, NEW t \in Threads, NEW l, NEW j, Moves(t, l, j),
           UNCHANGED <<state, deps, remaining>>, VarTasksOpen',
           pc[t] \notin {"run", "done", "skip", "reset", "restart"},
           pc[t] = "notify" => job[t].todo = {},
           l \notin {"run", "windup", "done", "skip", "reset", "restart"},
           l = "notify" => j.todo = {} /\ (IsHome(j) \/ IsAway(j)),
           l \in {"gather", "wake", "piece"} /\ ~j.own => AtRun(j)
    PROVE  Flow'
  <1>0. pc'[t] = l /\ job'[t] = j
    BY MovesOne
  <1>1. AtWork(l, j)'
    BY DEF AtWork, AtRun, AtNotify, IsHome, IsAway
  <1>2. AllAtWork'
    BY <1>1, AllAtWorkMoves
  <1>3. Alone'
    BY <1>0, AloneMoves DEF Acts
  <1>4. \A g \in SubGraphs : GraphOK(g)'
    BY <1>0, GraphKept DEF Held, AtEnd
  <1>5. \A g : Resetting(g)' <=> Resetting(g)
    BY ResettingMoves
  <1>6. \A p, n : Undelivered(p, n)' <=> Undelivered(p, n)
    BY UndeliveredMoves
  <1>7. DepsCounted'
    <2> SUFFICES ASSUME NEW n \in Tasks PROVE deps'[n] =< Target(n) /\ (Counts(n)' => CountedAt(n)')
      BY DEF DepsCounted
    <2>1. Counts(n)' => Counts(n)
      BY <1>5 DEF Counts, Over
    <2> QED  BY <1>6, <2>1, CountKept DEF Flow
  <1> QED  BY <1>2, <1>3, <1>4, <1>7 DEF Flow

------------------------------------------------------------------------------
(***************************************************************************)
(* The steps that change no task.                                          *)
(***************************************************************************)
Idle == Outside \cup Searching \cup {"clear", "scan", "leave", "announce"}

\* The places where the steps of a search, and of a scan that finds nothing, end.
LEMMA IdleMoves ==
    ASSUME Known, NEW t \in Threads,
           \/ CallDoThread(t) \/ LoadPending(t) \/ LoadExecuting(t) \/ EnterFails(t)
           \/ CheckTask(t) \/ MarkSleeping(t) \/ ClearPending(t) \/ PassTask(t)
           \/ AnnounceVarTask(t) \/ LeaveSubgroup(t)
    PROVE  /\ pc[t] \in Idle
           /\ UNCHANGED <<state, deps, remaining, varTask>>
           /\ \E l \in Idle : \E j : Moves(t, l, j)
  <1> USE DEF Goto, SetJob, SetFind, graphState, Moves, Idle, Outside, Searching
  <1>0. /\ pc' = pc => pc' = [pc EXCEPT ![t] = pc[t]]
        /\ job' = job => job' = [job EXCEPT ![t] = job[t]]
    BY ThreadHere DEF Known, LocalInv
  <1>1. CASE CallDoThread(t)
    BY <1>0, <1>1 DEF CallDoThread
  <1>2. CASE LoadPending(t)
    <2>1. \E l \in {"load", "check", "look"} : Goto(t, l)
      BY <1>2 DEF LoadPending, NextGroup
    <2> QED  BY <1>0, <1>2, <2>1 DEF LoadPending
  <1>3. CASE LoadExecuting(t)
    BY <1>0, <1>3 DEF LoadExecuting
  <1>4. CASE EnterFails(t)
    <2>1. \E l \in {"load", "check", "enter", "acquire"} : Goto(t, l)
      BY <1>4 DEF EnterFails, NextSubgroup, NextGroup
    <2> QED  BY <1>0, <1>4, <2>1 DEF EnterFails
  <1>5. CASE CheckTask(t)
    <2>1. PICK k \in Tasks :
            \/ SetJob(t, [job[t] EXCEPT !.scanned = @ \cup {k}]) /\ UNCHANGED <<pc, find>>
            \/ Goto(t, "sleep") /\ UNCHANGED <<find, job>>
            \/ \E l \in {"exited", "waiting"} : Return(t, l)
      BY <1>5 DEF CheckTask
    <2> QED  BY <1>0, <1>5, <2>1 DEF CheckTask, Return
  <1>6. CASE MarkSleeping(t)
    BY <1>6 DEF MarkSleeping, Return
  <1>7. CASE ClearPending(t)
    BY <1>7 DEF ClearPending
  <1>8. CASE PassTask(t)
    <2>1. PICK k \in Tasks : LET j == [job[t] EXCEPT !.scanned = @ \cup {k}]
                             IN  Scans(t, k) /\ SetJob(t, j) /\ Goto(t, AfterTask(j))
      BY <1>8 DEF PassTask
    <2> DEFINE j == [job[t] EXCEPT !.scanned = @ \cup {k}]
    <2>2. AfterTask(j) \in {"scan", "clear", "leave"}
      BY LabelsAfter
    <2> QED  BY <1>8, <2>1, <2>2 DEF PassTask, Scans
  <1>9. CASE AnnounceVarTask(t)
    BY <1>9 DEF AnnounceVarTask
  <1>10. CASE LeaveSubgroup(t)
    BY <1>10 DEF LeaveSubgroup
  <1> QED  BY <1>1, <1>2, <1>3, <1>4, <1>5, <1>6, <1>7, <1>8, <1>9, <1>10

\* Whoever looks for a subgroup, passes a task in a scan or leaves a subgroup
\* changes nothing of the flow.
LEMMA FlowIdle ==
    ASSUME Known, Flow, NotNested, NEW t \in Threads,
           \/ CallDoThread(t) \/ LoadPending(t) \/ LoadExecuting(t) \/ EnterFails(t)
           \/ CheckTask(t) \/ MarkSleeping(t) \/ ClearPending(t) \/ PassTask(t)
           \/ AnnounceVarTask(t) \/ LeaveSubgroup(t)
    PROVE  Flow'
  <1>0. PICK l \in Idle : \E j : Moves(t, l, j)
    BY IdleMoves
  <1>1. PICK j : Moves(t, l, j)
    BY <1>0
  <1>2. pc[t] \in Idle /\ UNCHANGED <<state, deps, remaining, varTask>>
    BY IdleMoves
  <1>3. VarTasksOpen'
    BY <1>2, VarTasksKept
  <1> QED  BY <1>1, <1>2, <1>3, QuietStep DEF Idle, Outside, Searching

\* A thread that enters a subgroup has no task yet.
LEMMA FlowEnter ==
    ASSUME Known, Flow, NotNested, NEW t \in Threads, EnterSubgroup(t)
    PROVE  Flow'
  <1>1. PICK s : SetJob(t, [NoJob EXCEPT !.sub = s, !.own = TRUE])
    BY DEF EnterSubgroup
  <1>2. PICK j : j = [NoJob EXCEPT !.sub = s, !.own = TRUE]
    OBVIOUS
  <1>3. j.own = TRUE
    BY <1>2 DEF NoJob
  <1>4. PICK l \in {"gather", "clear"} : l = Owned
    BY LabelsAfter
  <1>5. Moves(t, l, j) /\ UNCHANGED <<state, deps, remaining, varTask>> /\ pc[t] = "enter"
    BY <1>1, <1>2, <1>4 DEF EnterSubgroup, Moves, Goto, SetJob
  <1>6. VarTasksOpen'
    BY <1>5, VarTasksKept
  <1> QED  BY <1>3, <1>5, <1>6, QuietStep

\* A thread that acquires an invocation finds its task executing.
LEMMA FlowAcquire ==
    ASSUME Known, Flow, NotNested, NEW t \in Threads, AcquireVarTask(t)
    PROVE  Flow'
  <1>0. pc[t] = "acquire" /\ UNCHANGED <<state, deps, remaining>> /\ find[t] \in Searches
    BY ThreadKnown DEF AcquireVarTask
  <1>1. PICK s \in find[t].bits :
            \/ NextSubgroup(t, find[t], s) /\ UNCHANGED <<varTask, job>>
            \/ /\ varTask[s].cnt > 0
               /\ varTask' = [varTask EXCEPT ![s] = OneLess(varTask[s])]
               /\ SetJob(t, [NoJob EXCEPT !.sub = s, !.task = varTask[s].task, !.idx = varTask[s].cnt - 1])
               /\ Goto(t, Piece(varTask[s].cnt))
    BY DEF AcquireVarTask
  <1>2. s \in SubGroups /\ varTask[s] \in [task : Nat, cnt : Nat]
    BY <1>0 DEF Searches, Known, LocalInv, SharedOK
  <1>3. CASE NextSubgroup(t, find[t], s) /\ UNCHANGED <<varTask, job>>
    <2>1. PICK l \in {"load", "check", "enter"} : Goto(t, l)
      BY <1>3 DEF NextSubgroup, NextGroup
    <2>2. Moves(t, l, job[t])
      BY <1>3, <2>1, ThreadHere DEF Moves, Goto, Known, LocalInv
    <2>3. VarTasksOpen'
      BY <1>0, <1>3, VarTasksKept
    <2> QED  BY <1>0, <2>2, <2>3, QuietStep
  <1>4. CASE /\ varTask[s].cnt > 0
             /\ varTask' = [varTask EXCEPT ![s] = OneLess(varTask[s])]
             /\ SetJob(t, [NoJob EXCEPT !.sub = s, !.task = varTask[s].task, !.idx = varTask[s].cnt - 1])
             /\ Goto(t, Piece(varTask[s].cnt))
    <2>1. PICK j : j = [NoJob EXCEPT !.sub = s, !.task = varTask[s].task, !.idx = varTask[s].cnt - 1]
      OBVIOUS
    <2>2. j.task = varTask[s].task /\ j.sub = s
      BY <2>1 DEF NoJob
    <2>3. PICK l \in {"gather", "piece"} : l = Piece(varTask[s].cnt)
      BY DEF Piece
    <2>4. Moves(t, l, j)
      BY <1>4, <2>1, <2>3 DEF Moves, Goto, SetJob
    <2>5. AtRun(j)
      BY <1>2, <1>4, <2>2 DEF Flow, VarTasksOpen, AtRun, IsHome
    <2>6. VarTasksOpen'
      <3> SUFFICES ASSUME NEW r \in SubGroups, varTask'[r].cnt > 0
                   PROVE  /\ varTask'[r].task \notin SubGraphEnds
                          /\ state[varTask'[r].task] = "EXECUTING"
                          /\ SubGroupOf[varTask'[r].task] = r
        BY <1>0 DEF VarTasksOpen
      <3>1. varTask'[r].task = varTask[r].task /\ varTask[r].cnt > 0
        <4>1. CASE r = s
          BY <1>2, <1>4, <4>1, OneLessEffect DEF Known, LocalInv, SharedOK
        <4>2. CASE r # s
          BY <1>4, <4>2 DEF Known, LocalInv, SharedOK
        <4> QED  BY <4>1, <4>2
      <3> QED  BY <3>1 DEF Flow, VarTasksOpen
    <2> QED  BY <1>0, <2>3, <2>4, <2>5, <2>6, QuietStep
  <1> QED  BY <1>1, <1>3, <1>4

\* Waking other threads changes nothing of the flow.
LEMMA FlowWake ==
    ASSUME Known, Flow, NotNested, NEW t \in Threads, GatherThreads(t) \/ WakeThreads(t)
    PROVE  Flow'
  <1>1. pc[t] \in {"gather", "wake"} /\ UNCHANGED <<state, deps, remaining, varTask>>
    BY DEF GatherThreads, WakeThreads, graphState
  <1>2. PICK w : job' = [job EXCEPT ![t] = [job[t] EXCEPT !.wake = w]]
    BY DEF GatherThreads, WakeThreads, SetJob
  <1>3. PICK j : j = [job[t] EXCEPT !.wake = w]
    OBVIOUS
  <1>4. j.own = job[t].own /\ j.task = job[t].task /\ j.sub = job[t].sub
    BY <1>3, ThreadKnown DEF Jobs
  <1>5. PICK l \in {"wake", "clear", "piece"} : pc' = [pc EXCEPT ![t] = l]
    BY DEF GatherThreads, WakeThreads, Goto
  <1>6. Moves(t, l, j)
    BY <1>2, <1>3, <1>5 DEF Moves
  <1>7. ~j.own => AtRun(j)
    BY <1>1, <1>4 DEF Flow, AllAtWork, AtWork, AtRun, IsHome
  <1>8. VarTasksOpen'
    BY <1>1, VarTasksKept
  <1> QED  BY <1>1, <1>5, <1>6, <1>7, <1>8, QuietStep

\* A task that is wound up is executing.
LEMMA FlowWindUp ==
    ASSUME Known, Flow, NotNested, NEW t \in Threads, WindUpVarTask(t)
    PROVE  Flow'
  <1> DEFINE j == job[t]
  <1>1. /\ pc[t] = "windup" /\ UNCHANGED <<state, deps, remaining>>
        /\ varTask' = [varTask EXCEPT ![j.sub] = [task |-> j.task, cnt |-> j.idx]]
        /\ Moves(t, "announce", [NoJob EXCEPT !.sub = j.sub])
    BY DEF WindUpVarTask, Moves, SetJob, Goto
  <1>2. AtRun(j) /\ j.sub \in SubGroups
    BY <1>1, ThreadKnown DEF Flow, AllAtWork, AtWork, OnTask
  <1>3. VarTasksOpen'
    <2> SUFFICES ASSUME NEW r \in SubGroups, varTask'[r].cnt > 0
                 PROVE  /\ varTask'[r].task \notin SubGraphEnds
                        /\ state[varTask'[r].task] = "EXECUTING"
                        /\ SubGroupOf[varTask'[r].task] = r
      BY <1>1 DEF VarTasksOpen
    <2>1. CASE r = j.sub
      <3>1. varTask'[r].task = j.task
        BY <1>1, <2>1 DEF Known, LocalInv, SharedOK
      <3> QED  BY <1>2, <2>1, <3>1 DEF AtRun, IsHome
    <2>2. CASE r # j.sub
      <3>1. varTask'[r] = varTask[r]
        BY <1>1, <2>2 DEF Known, LocalInv, SharedOK
      <3> QED  BY <3>1 DEF Flow, VarTasksOpen
    <2> QED  BY <2>1, <2>2
  <1> QED  BY <1>1, <1>3, QuietStep

\* A group of subgroups is published when nothing is left to tell.
LEMMA FlowPublish ==
    ASSUME Known, Flow, NotNested, NEW t \in Threads, PublishGroup(t)
    PROVE  Flow'
  <1>1. pc[t] = "notify" /\ job[t].todo = {} /\ UNCHANGED <<state, deps, remaining, varTask>>
    BY DEF PublishGroup
  <1>2. PICK p : LET j == [job[t] EXCEPT !.publish = p] IN SetJob(t, j) /\ Goto(t, AfterDone(j))
    BY DEF PublishGroup
  <1>3. PICK j : j = [job[t] EXCEPT !.publish = p]
    OBVIOUS
  <1>4. j.own = TRUE /\ j.todo = {} /\ j.task = job[t].task /\ j.sub = job[t].sub
    BY <1>1, <1>3, ThreadKnown DEF Jobs, Owning
  <1>5. PICK l \in {"notify", "gather", "scan", "clear", "leave"} : l = AfterDone(j)
    BY LabelsAfter
  <1>6. Moves(t, l, j)
    BY <1>2, <1>3, <1>5 DEF Moves, Goto, SetJob
  <1>7. IsHome(j) \/ IsAway(j)
    BY <1>1, <1>4 DEF Flow, AllAtWork, AtWork, AtNotify, IsHome, IsAway
  <1>8. VarTasksOpen'
    BY <1>1, VarTasksKept
  <1> QED  BY <1>1, <1>4, <1>5, <1>6, <1>7, <1>8, QuietStep

------------------------------------------------------------------------------
(***************************************************************************)
(* A task is started and done.                                             *)
(***************************************************************************)

\* A task of a body is active only in the middle of an iteration.
LEMMA BodyActive ==
    ASSUME Known, Flow, NotNested, NEW g \in SubGraphs, NEW k \in Body[g],
           state[k] \in {"PENDING", "EXECUTING"}
    PROVE  /\ ~Over(g) /\ ~Resetting(g)
           /\ state[Entry[g]] = "DONE" /\ state[Exit[g]] = "NONE"
           /\ \A u \in Threads : ~Held(u, g)
  <1>1. \A u \in Threads : ~Held(u, g)
    BY HeldFacts
  <1>2. GraphOK(g)
    BY DEF Flow
  <1>3. ~Resetting(g) /\ ~Skipped(g)
    BY <1>1 DEF Resetting, Skipped, Held, AtEnd
  <1>4. ~Over(g)
    BY <1>2, <1>3 DEF GraphOK, OverMeansDone, AllDone
  <1>5. state[Entry[g]] = "DONE"
    BY <1>2, <1>4 DEF GraphOK, NotBegun, Parts
  <1>6. state[Exit[g]] = "NONE"
    BY <1>2, <1>3, <1>4 DEF GraphOK, ExitReached
  <1> QED  BY <1>1, <1>3, <1>4, <1>5, <1>6

\* A thread that owns the subgroup of a task which is no end acts on it alone.
LEMMA OwnTask ==
    ASSUME Known, Flow, NotNested, NEW t \in Threads, NEW k \in Tasks, k \notin SubGraphEnds,
           job[t].own, job[t].sub = SubGroupOf[k], NEW u \in Threads, u # t
    PROVE  ~Acts(u, k) /\ ~(Invokes(u) /\ job[u].task = k)
  <1> SUFFICES ASSUME Acts(u, k) \/ (Invokes(u) /\ job[u].task = k) PROVE FALSE
    OBVIOUS
  <1>1. PICK g \in SubGraphs : k = Exit[g]
    BY OthersAway
  <1> QED  BY <1>1 DEF SubGraphEnds

\* A sub-graph in which thread t changes the state of an active task of the body,
\* and the sub-graphs in which it changes nothing.
LEMMA GraphsActive ==
    ASSUME Known, Flow, NotNested, NEW t \in Threads, NEW l, NEW j, Moves(t, l, j),
           NEW k \in Tasks, k \notin SubGraphEnds, state[k] \in {"PENDING", "EXECUTING"},
           NEW v, state' = [state EXCEPT ![k] = v], remaining' = remaining,
           pc[t] \in {"scan", "run", "done"}, job[t].task = k \/ pc[t] = "scan",
           l \notin AtEnd, l = "notify" => j.task = k
    PROVE  \A g \in SubGraphs : GraphOK(g)'
  <1> SUFFICES ASSUME NEW g \in SubGraphs PROVE GraphOK(g)'
    OBVIOUS
  <1>0. ~Held(t, g) /\ ~Held(t, g)'
    BY MovesOne DEF Held, AtEnd, SubGraphEnds
  <1>1. CASE k \notin Area(g)
    <2>1. \A x \in Area(g) : state'[x] = state[x]
      BY <1>1, AreaEdges DEF Area, Parts, Known, LocalInv, SharedOK
    <2>2. k \notin Body[g] \cup {Entry[g]}
      BY <1>1 DEF Area, Parts
    <2> QED  BY <1>0, <2>1, <2>2, GraphKept
  <1>2. CASE k \in Area(g)
    <2>1. k \in Body[g]
      BY <1>2 DEF Area, Parts, SubGraphEnds
    <2>2. /\ ~Over(g) /\ ~Resetting(g)
          /\ state[Entry[g]] = "DONE" /\ state[Exit[g]] = "NONE"
      BY <2>1, BodyActive
    <2>3. state'[Entry[g]] = "DONE" /\ state'[Exit[g]] = "NONE"
      BY <2>2, EndsApart DEF Known, LocalInv, SharedOK
    <2>4. ~Over(g)' /\ ~Resetting(g)'
      BY <1>0, <2>2, MovesOne DEF Over, Resetting, Held, AtEnd
    <2>5. EndsOK(g)
      BY DEF Flow, GraphOK
    <2> QED  BY <2>2, <2>3, <2>4, <2>5
             DEF GraphOK, EndsOK, NotBegun, EntryTaken, ExitReached, OverMeansDone, AllTold
  <1> QED  BY <1>1, <1>2

\* A pending task is started by the thread that finds it in its scan.
LEMMA FlowStart ==
    ASSUME Known, Flow, NotNested, NEW t \in Threads, StartTask(t)
    PROVE  Flow'
  <1>0. PICK k \in Tasks \ SubGraphEnds :
            /\ Scans(t, k) /\ state[k] = "PENDING"
            /\ state' = [state EXCEPT ![k] = "EXECUTING"]
            /\ \E n \in TaskNum[k] :
                IF n < 2 \/ k \notin SelfParallel
                THEN SetJob(t, Take(t, k)) /\ Goto(t, "run")
                ELSE SetJob(t, [Take(t, k) EXCEPT !.idx = n]) /\ Goto(t, "windup")
    BY DEF StartTask
  <1>1. UNCHANGED <<deps, varTask, remaining>> /\ pc[t] = "scan" /\ job[t].own /\ job[t] \in Jobs
        /\ SubGroupOf[k] = job[t].sub
    BY <1>0, ThreadKnown DEF StartTask, Scans, Lowest, TasksOf, Owning
  <1>2. PICK i \in TaskNum[k] :
                \/ SetJob(t, Take(t, k)) /\ Goto(t, "run")
                \/ SetJob(t, [Take(t, k) EXCEPT !.idx = i]) /\ Goto(t, "windup")
    BY <1>0
  <1>3. \E l \in {"run", "windup"} : \E j : Moves(t, l, j) /\ j.task = k /\ j.sub = job[t].sub
    <2>1. Take(t, k).task = k /\ Take(t, k).sub = job[t].sub
      BY <1>1 DEF Take, Jobs
    <2>2. [Take(t, k) EXCEPT !.idx = i].task = k /\ [Take(t, k) EXCEPT !.idx = i].sub = job[t].sub
      BY <1>1 DEF Take, Jobs
    <2> QED  BY <1>2, <2>1, <2>2 DEF Moves, SetJob, Goto
  <1>4. PICK l \in {"run", "windup"} : \E j : Moves(t, l, j) /\ j.task = k /\ j.sub = job[t].sub
    BY <1>3
  <1>5. PICK j : Moves(t, l, j) /\ j.task = k /\ j.sub = job[t].sub
    BY <1>4
  <1>6. pc'[t] = l /\ job'[t] = j
    BY <1>5, MovesOne
  <1>7. state'[k] = "EXECUTING" /\ \A x \in Tasks : x # k => state'[x] = state[x]
    BY <1>0 DEF Known, LocalInv, SharedOK
  <1>8. \A u \in Threads : u # t => ~Acts(u, k) /\ ~(Invokes(u) /\ job[u].task = k)
    BY <1>0, <1>1, OwnTask
  <1>9. AllAtWork'
    <2>1. AtWork(l, j)'
      BY <1>0, <1>1, <1>5, <1>7 DEF AtWork, AtRun, IsHome
    <2>2. \A u \in Threads, g \in SubGraphs : Held(u, g) => \A x \in Area(g) : state'[x] = state[x]
      <3> SUFFICES ASSUME NEW u \in Threads, NEW g \in SubGraphs, Held(u, g), k \in Area(g) PROVE FALSE
        BY <1>7, AreaEdges DEF Area, Parts
      <3>1. k \in Body[g]
        BY <1>0 DEF Area, Parts, SubGraphEnds
      <3> QED  BY <1>0, <3>1, BodyActive
    <2> QED  BY <1>1, <1>5, <1>7, <1>8, <2>1, <2>2, AllAtWorkMoves
  <1>10. Alone'
    BY <1>5, <1>6, <1>8, AloneMoves DEF Acts
  <1>11. VarTasksOpen'
    BY <1>1, <1>7, VarTasksKept
  <1>12. \A g \in SubGraphs : GraphOK(g)'
    BY <1>0, <1>1, <1>5, GraphsActive DEF AtEnd
  <1>13. DepsCounted'
    <2> SUFFICES ASSUME NEW n \in Tasks PROVE deps'[n] =< Target(n) /\ (Counts(n)' => CountedAt(n)')
      BY DEF DepsCounted
    <2>1. \A g : Resetting(g)' <=> Resetting(g)
      BY <1>1, <1>5, ResettingMoves
    <2>2. \A p : Undelivered(p, n)' <=> Undelivered(p, n)
      BY <1>1, <1>5, UndeliveredMoves
    <2>3. Counts(n)' => Counts(n)
      BY <1>1, <2>1 DEF Counts, Over
    <2>4. \A p \in Preds(n) : state'[p] = "DONE" <=> state[p] = "DONE"
      BY <1>0, <1>7 DEF Preds
    <2>5. state'[n] = "NONE" <=> state[n] = "NONE"
      BY <1>0, <1>7
    <2> QED  BY <1>1, <2>2, <2>3, <2>4, <2>5, CountKept DEF Flow
  <1> QED  BY <1>9, <1>10, <1>11, <1>12, <1>13 DEF Flow

\* The last invocation of a variadic task has been finished: its thread owns the
\* subgroup and does what is left to do of the task.
LEMMA FlowFinish ==
    ASSUME Known, Flow, NotNested, NEW t \in Threads, FinishVarTask(t)
    PROVE  Flow'
  <1> DEFINE k == job[t].task
  <1>1. pc[t] = "piece" /\ UNCHANGED <<state, deps, remaining, varTask>> /\ job[t] \in Jobs /\ Invokes(t)
    BY ThreadKnown DEF FinishVarTask
  <1>2. VarTasksOpen'
    BY <1>1, VarTasksKept
  <1>3. CASE varLeft[job[t].sub] # 1
    <2>1. PICK l \in {"load", "check", "enter"} : Goto(t, l)
      BY <1>3 DEF FinishVarTask, NextSubgroup, NextGroup
    <2>2. Moves(t, l, NoJob)
      BY <1>3, <2>1 DEF FinishVarTask, Moves, SetJob, Goto
    <2> QED  BY <1>1, <1>2, <2>2, QuietStep
  <1>4. CASE varLeft[job[t].sub] = 1
    <2>1. PICK j : j = [job[t] EXCEPT !.own = TRUE, !.fresh = TRUE]
      OBVIOUS
    <2>2. j.task = k /\ j.sub = job[t].sub
      BY <1>1, <2>1 DEF Jobs
    <2>3. Moves(t, "done", j)
      BY <1>4, <2>1 DEF FinishVarTask, Moves, SetJob, Goto
    <2>4. pc'[t] = "done" /\ job'[t] = j
      BY <2>3, MovesOne
    <2>5. AtRun(job[t]) /\ k \in Tasks /\ k \notin SubGraphEnds /\ job[t].sub \in SubGroups
      BY <1>1, RunsHome DEF AtRun, IsHome
    <2>6. \A u \in Threads : ~Acts(u, k)
      <3> SUFFICES ASSUME NEW u \in Threads, Acts(u, k) PROVE FALSE
        OBVIOUS
      <3>1. job[u].task = k /\ job[u].own /\ (IsHome(job[u]) \/ IsAway(job[u]))
        BY ActsHome
      <3>2. job[u].sub = job[t].sub
        BY <2>5, <3>1 DEF IsAway, IsHome, AtRun, SubGraphEnds
      <3> QED  BY <1>1, <2>5, <3>1, <3>2, InvocationMeansLeft DEF Known, Owns
    <2>7. AllAtWork'
      <3>1. AtWork("done", j)'
        BY <1>1, <2>2, <2>5 DEF AtWork, AtDone, AtRun, IsHome, SubGraphEnds
      <3> QED  BY <1>1, <2>3, <3>1, AllAtWorkMoves
    <2>8. Alone'
      BY <2>2, <2>3, <2>4, <2>6, AloneMoves DEF Acts
    <2>9. \A g \in SubGraphs : GraphOK(g)'
      BY <1>1, <2>2, <2>3, <2>4, <2>5, GraphKept DEF Held, AtEnd, SubGraphEnds
    <2>10. DepsCounted'
      <3>1. \A g : Resetting(g)' <=> Resetting(g)
        BY <1>1, <2>3, ResettingMoves
      <3>2. \A p, n : Undelivered(p, n)' <=> Undelivered(p, n)
        BY <1>1, <2>3, UndeliveredMoves
      <3>3. \A n \in Tasks : Counts(n)' => Counts(n)
        BY <1>1, <3>1 DEF Counts, Over
      <3> SUFFICES ASSUME NEW n \in Tasks PROVE deps'[n] =< Target(n) /\ (Counts(n)' => CountedAt(n)')
        BY DEF DepsCounted
      <3> QED  BY <1>1, <3>2, <3>3, CountKept DEF Flow
    <2> QED  BY <1>2, <2>7, <2>8, <2>9, <2>10 DEF Flow
  <1> QED  BY <1>3, <1>4

\* What is known of a thread that is about to mark its task done.
LEMMA DoneKnown ==
    ASSUME Known, Flow, NotNested, NEW t \in Threads, pc[t] \in {"run", "done"}
    PROVE  /\ job[t].task \in Tasks /\ job[t].own /\ Acts(t, job[t].task)
           /\ IsHome(job[t]) \/ IsAway(job[t])
           /\ job[t].task \notin SubGraphEnds => AtRun(job[t])
           /\ \A g \in SubGraphs : job[t].task \in {Entry[g], Exit[g]} => Held(t, g) /\ EndPhase(t, g)
  <1>1. Acts(t, job[t].task)
    BY DEF Acts
  <1>2. job[t].task \notin SubGraphEnds => AtRun(job[t])
    BY DEF Flow, AllAtWork, AtWork, AtDone
  <1>3. ASSUME NEW g \in SubGraphs, job[t].task \in {Entry[g], Exit[g]} PROVE Held(t, g) /\ EndPhase(t, g)
    <2>1. pc[t] = "done"
      BY <1>3, EndsApart DEF Flow, AllAtWork, AtWork, AtRun
    <2>2. Held(t, g)
      BY <1>3, <2>1 DEF Held, AtEnd
    <2> QED  BY <2>2, HeldPhase
  <1> QED  BY <1>1, <1>2, <1>3, ActsHome

\* A task is done: what follows it is still to be told.
LEMMA FlowDone ==
    ASSUME Known, Flow, NotNested, NEW t \in Threads, MarkDone(t)
    PROVE  Flow'
  <1> DEFINE k == job[t].task
  <1>1. /\ pc[t] \in {"run", "done"} /\ UNCHANGED <<deps, varTask, remaining>>
        /\ state' = [state EXCEPT ![k] = "DONE"] /\ job[t] \in Jobs
    <2>1. [job[t] EXCEPT !.todo = NextTasks[k]].task = k
      BY ThreadKnown DEF Jobs
    <2> QED  BY <2>1, ThreadKnown DEF MarkDone
  <1>2. PICK j : j = [job[t] EXCEPT !.todo = NextTasks[k]]
    OBVIOUS
  <1>3. j.task = k /\ j.sub = job[t].sub /\ j.own = job[t].own /\ j.todo = NextTasks[k]
    BY <1>1, <1>2 DEF Jobs
  <1>4. PICK l \in {"notify", "gather", "scan", "clear", "leave"} : l = AfterDone(j)
    BY LabelsAfter
  <1>5. Moves(t, l, j) /\ (l # "notify" => j.todo = {})
    BY <1>2, <1>4 DEF MarkDone, Moves, SetJob, Goto, AfterDone
  <1>6. pc'[t] = l /\ job'[t] = j
    BY <1>5, MovesOne
  <1>7. /\ k \in Tasks /\ job[t].own /\ Acts(t, k) /\ (IsHome(job[t]) \/ IsAway(job[t]))
        /\ k \notin SubGraphEnds => AtRun(job[t])
        /\ \A g \in SubGraphs : k \in {Entry[g], Exit[g]} => Held(t, g) /\ EndPhase(t, g)
    BY <1>1, DoneKnown
  <1>8. state'[k] = "DONE" /\ \A x \in Tasks : x # k => state'[x] = state[x]
    BY <1>1, <1>7 DEF Known, LocalInv, SharedOK
  <1>9. state[k] # "DONE"
    <2>1. CASE k \notin SubGraphEnds
      BY <1>7, <2>1 DEF AtRun
    <2>2. ASSUME NEW g \in SubGraphs, k \in {Entry[g], Exit[g]} PROVE state[k] # "DONE"
      BY <1>1, <1>7, <2>2, EndsApart DEF EndPhase
    <2> QED  BY <2>1, <2>2 DEF SubGraphEnds
  <1>10. AllAtWork'
    <2>1. AtWork(l, j)'
      BY <1>3, <1>4, <1>7, <1>8 DEF AtWork, AtNotify, IsHome, IsAway
    <2>2. ASSUME NEW u \in Threads, u # t PROVE ~Acts(u, k) /\ ~(Invokes(u) /\ job[u].task = k)
      <3>1. ~Acts(u, k)
        BY <1>7, <2>2 DEF Flow, Alone
      <3>2. CASE k \in SubGraphEnds
        BY <3>1, <3>2, RunsHome
      <3>3. CASE k \notin SubGraphEnds
        BY <1>7, <2>2, <3>3, OwnTask DEF AtRun, IsHome
      <3> QED  BY <3>2, <3>3
    <2>3. ASSUME NEW u \in Threads, u # t, NEW g \in SubGraphs, Held(u, g)
          PROVE  \A x \in Area(g) : state'[x] = state[x]
      <3> SUFFICES ASSUME k \in Area(g) PROVE FALSE
        BY <1>8, AreaEdges DEF Area, Parts
      <3>1. k \notin {Entry[g], Exit[g]}
        BY <1>7, <2>3, HeldAlone
      <3>2. k \in Body[g] /\ k \notin SubGraphEnds
        BY <3>1, AreaEdges DEF Area, Parts
      <3>3. state[k] = "EXECUTING"
        BY <1>7, <3>2 DEF AtRun
      <3> QED  BY <2>3, <3>2, <3>3, BodyActive
    <2> QED  BY <1>1, <1>5, <1>7, <1>8, <2>1, <2>2, <2>3, AllAtWorkMoves
  <1>11. Alone'
    BY <1>3, <1>5, <1>6, <1>7, AloneMoves DEF Acts
  <1>12. VarTasksOpen'
    <2>1. state[k] = "EXECUTING" => varTask[SubGroupOf[k]].cnt = 0
      <3> SUFFICES ASSUME state[k] = "EXECUTING" PROVE varTask[SubGroupOf[k]].cnt = 0
        OBVIOUS
      <3>1. k \notin SubGraphEnds
        BY DEF Flow, GraphOK, EndsOK, SubGraphEnds
      <3> QED  BY <1>7, <3>1, OwnerClosed, GraphAssumption DEF AtRun, IsHome, WellFormed
    <2> QED  BY <1>1, <1>8, <2>1, VarTasksKept
  <1>13. \A g \in SubGraphs : GraphOK(g)'
    <2>1. CASE k \notin SubGraphEnds
      <3>1. state[k] = "EXECUTING" /\ remaining' = remaining /\ pc[t] \in {"run", "done"}
        BY <1>1, <1>7, <2>1 DEF AtRun
      <3>2. l \notin AtEnd /\ (l = "notify" => j.task = k)
        BY <1>3, <1>4 DEF AtEnd
      <3> QED  BY <1>1, <1>5, <1>7, <2>1, <3>1, <3>2, GraphsActive
    <2>2. CASE k \in SubGraphEnds
      <3>1. PICK h \in SubGraphs : k \in {Entry[h], Exit[h]}
        BY <2>2 DEF SubGraphEnds
      <3>2. Held(t, h) /\ EndPhase(t, h) /\ GraphOK(h) /\ k \in Area(h)
        BY <1>7, <3>1 DEF Flow, Area, Parts
      <3>3. \A u \in Threads : Held(u, h) => u = t
        BY <3>2, HeldAlone
      <3>4. ASSUME NEW g \in SubGraphs, g # h PROVE GraphOK(g)'
        <4>1. k \notin Area(g)
          BY <3>2, <3>4, AreasApart
        <4>2. \A x \in Area(g) : state'[x] = state[x]
          BY <1>8, <4>1, AreaEdges DEF Area, Parts
        <4>3. ~Held(t, g) /\ ~Held(t, g)'
          BY <1>3, <1>6, <4>1 DEF Held, Area, Parts
        <4> QED  BY <1>1, <1>3, <1>5, <4>1, <4>2, <4>3, GraphKept DEF Area, Parts
      <3>5. ~Resetting(h)'
        BY <1>5, <1>6, <3>3, MovesOne, <1>1 DEF Resetting, Held, AtEnd
      <3>6. ~Resetting(h)
        BY <3>3, <1>1 DEF Resetting, Held, AtEnd
      <3>7. ASSUME k = Entry[h] PROVE GraphOK(h)'
        <4>1. remaining[h] >= 0 /\ \A x \in Parts(h) : state'[x] = "NONE"
          BY <1>1, <1>8, <3>2, <3>7, AreaEdges DEF EndPhase, Parts
        <4> QED  BY <1>1, <1>8, <3>2, <3>5, <3>6, <3>7, <4>1
                 DEF GraphOK, EndsOK, NotBegun, EntryTaken, ExitReached, OverMeansDone, AllTold,
                     Over, Parts
      <3>8. ASSUME k = Exit[h] PROVE GraphOK(h)'
        <4>1. /\ Over(h) /\ Over(h)' /\ state'[Entry[h]] = "DONE" /\ state'[Exit[h]] = "DONE"
              /\ \A b \in Body[h] : state'[b] = "DONE"
          BY <1>1, <1>8, <3>2, <3>8, AreaEdges, EndsApart DEF EndPhase, Over
        <4>2. AllTold(h)'
          <5> SUFFICES ASSUME NEW u \in Threads, pc'[u] = "notify", job'[u].task \in Body[h] \cup {Entry[h]}
                       PROVE  job'[u].todo = {}
            BY DEF AllTold
          <5>1. u # t
            BY <1>3, <1>6, <3>8, AreaEdges
          <5> QED  BY <3>2, <4>1, <5>1, <1>5, MovesOne DEF GraphOK, AllTold
        <4>3. EndsOK(h)' /\ NotBegun(h)' /\ EntryTaken(h)' /\ ExitReached(h)' /\ OverMeansDone(h)'
          BY <4>1 DEF EndsOK, NotBegun, EntryTaken, ExitReached, OverMeansDone, AllDone, Over
        <4> QED  BY <4>2, <4>3 DEF GraphOK
      <3> QED  BY <3>1, <3>4, <3>7, <3>8
    <2> QED  BY <2>1, <2>2
  <1>14. DepsCounted'
    <2> SUFFICES ASSUME NEW n \in Tasks PROVE deps'[n] =< Target(n) /\ (Counts(n)' => CountedAt(n)')
      BY DEF DepsCounted
    <2>1. \A g : Resetting(g)' <=> Resetting(g)
      BY <1>1, <1>5, ResettingMoves
    <2>2. Counts(n)' => Counts(n)
      BY <1>1, <2>1 DEF Counts, Over
    <2>3. ASSUME Counts(n) PROVE state'[n] = "NONE" <=> state[n] = "NONE"
      <3> SUFFICES ASSUME n = k, state[n] = "NONE" PROVE FALSE
        BY <1>8
      <3>1. PICK g \in SubGraphs : k \in {Entry[g], Exit[g]}
        BY <1>7 DEF AtRun, SubGraphEnds
      <3>2. k = Exit[g] /\ Over(g)
        BY <1>1, <1>7, <2>3, <3>1 DEF EndPhase
      <3> QED  BY <2>3, <3>2 DEF Counts, Parts
    <2>4. ASSUME NEW p \in Preds(n)
          PROVE  (state'[p] = "DONE" /\ ~Undelivered(p, n)') <=> (state[p] = "DONE" /\ ~Undelivered(p, n))
      <3>1. CASE p = k
        <4>1. n \in NextTasks[k]
          BY <2>4, <3>1 DEF Preds
        <4>2. Undelivered(p, n)'
          BY <1>3, <1>5, <1>6, <3>1, <4>1 DEF Undelivered
        <4> QED  BY <1>9, <3>1, <4>2
      <3>2. CASE p # k
        <4>1. Undelivered(p, n)' <=> Undelivered(p, n)
          BY <1>1, <1>3, <1>5, <3>2, UndeliveredMoves
        <4> QED  BY <1>8, <2>4, <3>2, <4>1 DEF Preds
      <3> QED  BY <3>1, <3>2
    <2> QED  BY <1>1, <2>2, <2>3, <2>4, CountKept DEF Flow
  <1> QED  BY <1>10, <1>11, <1>12, <1>13, <1>14 DEF Flow

------------------------------------------------------------------------------
(***************************************************************************)
(* The tasks that come after a task are told that it is done.              *)
(***************************************************************************)

\* What a counter says when one more predecessor has been counted.
LEMMA CountOneMore ==
    ASSUME NEW n, NEW D \in SUBSET Preds(n), NEW p \in Preds(n) \ D
    PROVE  /\ Target(n) \in Nat /\ Cardinality(D) \in Nat
           /\ Cardinality(D \cup {p}) = Cardinality(D) + 1
           /\ Target(n) = 0 => D \cup {p} = Preds(n)
           /\ Target(n) # 0 => Cardinality(D \cup {p}) =< Target(n)
           /\ Target(n) # 0 => (Cardinality(D \cup {p}) = Target(n) <=> D \cup {p} = Preds(n))
  <1>0. PICK E : E = D \cup {p}
    OBVIOUS
  <1>1. IsFiniteSet(Preds(n)) /\ DepsCnt(n) \in Nat /\ Target(n) \in Nat /\ E \in SUBSET Preds(n)
    BY <1>0, PredsFinite
  <1>2. IsFiniteSet(D) /\ IsFiniteSet(E)
    BY <1>1, FS_Subset
  <1>3. Cardinality(E) = Cardinality(D) + 1 /\ Cardinality(D) \in Nat
    BY <1>0, <1>2, FS_AddElement, FS_CardinalityType
  <1>4. Cardinality(E) =< DepsCnt(n) /\ (Cardinality(E) = DepsCnt(n) <=> E = Preds(n))
    BY <1>1, FS_Subset DEF DepsCnt
  <1>5. CASE DepsCnt(n) = 1
    <2>1. E = Preds(n)
      BY <1>1, <1>3, <1>4, <1>5
    <2> QED  BY <1>0, <1>1, <1>3, <1>5, <2>1 DEF Target
  <1>6. CASE DepsCnt(n) # 1
    <2>1. Target(n) = DepsCnt(n)
      BY <1>6 DEF Target
    <2> QED  BY <1>0, <1>1, <1>3, <1>4, <2>1
  <1> QED  BY <1>5, <1>6

\* A task that is still to be told of one before it.
LEMMA NotifyKnown ==
    ASSUME Known, Flow, NotNested, NEW t \in Threads, pc[t] = "notify", NEW n \in job[t].todo
    PROVE  /\ job[t].task \in Tasks /\ n \in Tasks /\ job[t].task \in Preds(n) /\ job[t].task # n
           /\ state[job[t].task] = "DONE" /\ Acts(t, job[t].task)
           /\ Undelivered(job[t].task, n)
           /\ Counts(n) /\ state[n] = "NONE"
           /\ \A u \in Threads : ~Acts(u, n) /\ ~(Invokes(u) /\ job[u].task = n)
           /\ \A u \in Threads, g \in SubGraphs : n \in Area(g) => ~Held(u, g)
  <1> DEFINE p == job[t].task
  <1>1. p \in Tasks /\ n \in NextTasks[p] /\ Acts(t, p) /\ Undelivered(p, n)
    BY ThreadKnown, ActsHome DEF Acts, Undelivered
  <1>2. n \in Tasks /\ p \in Preds(n) /\ p # n
    BY <1>1, GraphAssumption DEF Preds, WellFormed
  <1>3. state[p] = "DONE"
    BY DEF Flow, AllAtWork, AtWork, AtNotify
  <1>4. ASSUME NEW g \in SubGraphs, n \in Parts(g) PROVE p \in Body[g] \cup {Entry[g]}
    BY <1>2, <1>4 DEF NotNested
  <1>5. Counts(n)
    <2> SUFFICES ASSUME NEW g \in SubGraphs, n \in Parts(g) PROVE ~Over(g) /\ ~Resetting(g)
      BY DEF Counts
    <2> QED  BY <1>4 DEF Flow, GraphOK, AllTold
  <1>6. state[n] = "NONE"
    <2>1. p \notin Delivered(n)
      BY <1>1 DEF Delivered
    <2> QED  BY <1>2, <1>5, <2>1 DEF Flow, DepsCounted, CountedAt
  <1>7. ASSUME NEW u \in Threads, NEW g \in SubGraphs, n \in Area(g), Held(u, g) PROVE FALSE
    <2>1. n # Entry[g]
      BY <1>6, <1>7, HeldFacts
    <2>2. n \in Parts(g)
      BY <1>7, <2>1 DEF Area
    <2> QED  BY <1>4, <1>7, <2>2, HeldFacts
  <1>8. ASSUME NEW u \in Threads, Acts(u, n) PROVE FALSE
    <2>1. job[u].task = n /\ AtWork(pc[u], job[u])
      BY <1>8 DEF Acts, Flow, AllAtWork
    <2>2. CASE pc[u] \in {"run", "windup"} \/ (pc[u] = "notify" /\ job[u].todo # {})
      BY <1>6, <2>1, <2>2 DEF AtWork, AtRun, AtNotify
    <2>3. CASE pc[u] \in AtEnd
      <3>1. n \in SubGraphEnds
        BY <1>6, <2>1, <2>3, EndsApart DEF AtWork, AtEnd, AtDone, AtRun, AtSkip, AtReset, AtRestart
      <3>2. PICK g \in SubGraphs : n \in {Entry[g], Exit[g]}
        BY <3>1 DEF SubGraphEnds
      <3> QED  BY <1>7, <2>1, <2>3, <3>2 DEF Held, Area, Parts
    <2> QED  BY <1>8, <2>2, <2>3 DEF Acts, AtEnd
  <1>9. ASSUME NEW u \in Threads, Invokes(u), job[u].task = n PROVE FALSE
    BY <1>6, <1>9, RunsHome
  <1> QED  BY <1>1, <1>2, <1>3, <1>5, <1>6, <1>7, <1>8, <1>9

\* The counters in a sub-graph in the middle of an iteration.
LEMMA PartsCounted ==
    ASSUME Flow, NotNested, NEW g \in SubGraphs, ~Over(g), ~Resetting(g), NEW n \in Parts(g)
    PROVE  n \in Tasks /\ Counts(n) /\ CountedAt(n)
  <1>1. n \in Tasks
    BY AreaEdges DEF Parts
  <1>2. \A h \in SubGraphs : n \in Parts(h) => h = g
    BY AreasApart DEF Area
  <1> QED  BY <1>1, <1>2 DEF Flow, DepsCounted, Counts

\* When the tasks before the exit are done, all tasks of the body are: a last one
\* that is not would be waited for.
LEMMA LastPartDone ==
    ASSUME Flow, NotNested, Acyclic, NEW g \in SubGraphs, ~Over(g), ~Resetting(g),
           \A p \in Preds(Exit[g]) : state[p] = "DONE"
    PROVE  \A b \in Body[g] : state[b] = "DONE"
  <1> DEFINE S == {b \in Body[g] : state[b] # "DONE"}
  <1>1. S \in SUBSET Tasks /\ S \subseteq Body[g]
    BY AreaEdges
  <1>2. SUFFICES ASSUME S # {} PROVE FALSE
    OBVIOUS
  <1>3. PICK k \in S : NextTasks[k] \cap S = {}
    BY <1>1, <1>2 DEF Acyclic
  <1>4. NextTasks[k] # {} /\ NextTasks[k] \subseteq Parts(g)
    BY <1>1, <1>3 DEF NotNested
  <1>5. PICK m \in NextTasks[k] : m \in Parts(g)
    BY <1>4
  <1>6. k \in Preds(m) /\ state[k] # "DONE"
    BY <1>1, <1>3 DEF Preds
  <1>7. m # Exit[g]
    BY <1>6
  <1>8. state[m] = "DONE"
    BY <1>3, <1>5, <1>7 DEF Parts
  <1>9. CountedAt(m)
    BY <1>5, PartsCounted
  <1> QED  BY <1>6, <1>8, <1>9 DEF CountedAt, Delivered

\* The task that is told may become pending.
LEMMA FlowNotify ==
    ASSUME Known, Flow, NotNested, Acyclic, NEW t \in Threads, NotifyNext(t)
    PROVE  Flow'
  <1> PICK p : p = job[t].task
    OBVIOUS
  <1>0. pc[t] = "notify" /\ UNCHANGED <<varTask, remaining>> /\ job[t] \in Jobs /\ job[t].own
    BY ThreadKnown DEF NotifyNext, Owning
  <1>1. PICK n \in job[t].todo :
            LET counted == IF Target(n) = 0 THEN 0 ELSE deps[n] + 1
                ready == counted = Target(n)
                other == SubGroupOf[n] # SubGroupOf[job[t].task]
                j == [job[t] EXCEPT !.todo = @ \ {n},
                                    !.publish = IF ready /\ other THEN @ \cup {SubGroupOf[n]} ELSE @]
            IN  /\ deps' = [deps EXCEPT ![n] = counted]
                /\ state' = IF ready THEN [state EXCEPT ![n] = "PENDING"] ELSE state
                /\ SetJob(t, j)
                /\ Goto(t, AfterDone(j))
    BY DEF NotifyNext
  <1>2. PICK c : c = IF Target(n) = 0 THEN 0 ELSE deps[n] + 1
    OBVIOUS
  <1>3. PICK pub : pub = IF c = Target(n) /\ SubGroupOf[n] # SubGroupOf[p]
                         THEN job[t].publish \cup {SubGroupOf[n]} ELSE job[t].publish
    OBVIOUS
  <1>4. PICK j : j = [job[t] EXCEPT !.todo = @ \ {n}, !.publish = pub]
    OBVIOUS
  <1>5. /\ deps' = [deps EXCEPT ![n] = c]
        /\ state' = IF c = Target(n) THEN [state EXCEPT ![n] = "PENDING"] ELSE state
        /\ job' = [job EXCEPT ![t] = j] /\ pc' = [pc EXCEPT ![t] = AfterDone(j)]
    BY <1>1, <1>2, <1>3, <1>4 DEF SetJob, Goto
  <1>6. j.task = p /\ j.sub = job[t].sub /\ j.own = job[t].own /\ j.todo = job[t].todo \ {n}
    BY <1>0, <1>4 DEF Jobs
  <1>7. PICK l \in {"notify", "gather", "scan", "clear", "leave"} : l = AfterDone(j)
    BY LabelsAfter
  <1>8. Moves(t, l, j) /\ (l # "notify" => j.todo = {})
    BY <1>5, <1>7 DEF Moves, AfterDone
  <1>9. pc'[t] = l /\ job'[t] = j
    BY <1>8, MovesOne
  <1>10. /\ p \in Tasks /\ n \in Tasks /\ p \in Preds(n) /\ p # n
         /\ state[p] = "DONE" /\ Acts(t, p) /\ Undelivered(p, n) /\ Counts(n) /\ state[n] = "NONE"
         /\ \A u \in Threads : ~Acts(u, n) /\ ~(Invokes(u) /\ job[u].task = n)
         /\ \A u \in Threads, g \in SubGraphs : n \in Area(g) => ~Held(u, g)
    BY <1>0, NotifyKnown
  <1>11. /\ \A x \in Tasks : x # n => state'[x] = state[x] /\ deps'[x] = deps[x]
         /\ deps'[n] = c /\ state'[n] = IF c = Target(n) THEN "PENDING" ELSE "NONE"
    BY <1>5, <1>10 DEF Known, LocalInv, SharedOK
  <1>12. AllAtWork'
    <2>1. AtNotify(j)'
      BY <1>0, <1>6, <1>10, <1>11 DEF Flow, AllAtWork, AtWork, AtNotify, IsHome, IsAway
    <2>2. AtWork(l, j)'
      BY <1>0, <1>6, <1>7, <2>1 DEF AtWork
    <2>3. \A u \in Threads, g \in SubGraphs : Held(u, g) =>
            \A x \in Area(g) : state'[x] = state[x] /\ deps'[x] = deps[x]
      BY <1>10, <1>11, AreaEdges DEF Area, Parts
    <2> QED  BY <1>0, <1>8, <1>10, <1>11, <2>2, <2>3, AllAtWorkMoves
  <1>13. Alone'
    BY <1>0, <1>6, <1>7, <1>8, <1>9, AloneMoves DEF Acts
  <1>14. VarTasksOpen'
    BY <1>0, <1>10, <1>11, VarTasksKept
  <1>15. \A g : Resetting(g)' <=> Resetting(g)
    BY <1>0, <1>7, <1>8, ResettingMoves
  <1>16. \A x, m : x # p \/ m # n => (Undelivered(x, m)' <=> Undelivered(x, m))
    BY <1>0, <1>6, <1>8, UndeliveredMoves
  <1>17. ~Undelivered(p, n)'
    <2> SUFFICES ASSUME NEW u \in Threads, pc'[u] = "notify", job'[u].task = p, n \in job'[u].todo
                 PROVE  FALSE
      BY DEF Undelivered
    <2>1. u # t
      BY <1>6, <1>9
    <2>2. Acts(u, p)
      BY <1>8, <2>1, MovesOne DEF Acts
    <2> QED  BY <1>10, <2>1, <2>2 DEF Flow, Alone
  <1>18. Delivered(n)' = Delivered(n) \cup {p} /\ p \notin Delivered(n)
    <2>1. ASSUME NEW x \in Preds(n), x # p
          PROVE  (state'[x] = "DONE" /\ ~Undelivered(x, n)') <=> (state[x] = "DONE" /\ ~Undelivered(x, n))
      <3>1. x # n /\ x \in Tasks
        BY GraphAssumption DEF Preds, WellFormed
      <3> QED  BY <1>11, <1>16, <2>1, <3>1
    <2> QED  BY <1>10, <1>11, <1>17, <2>1 DEF Delivered
  <1>19. /\ c = IF Target(n) = 0 THEN 0 ELSE Cardinality(Delivered(n)')
         /\ c =< Target(n)
         /\ c = Target(n) <=> Delivered(n)' = Preds(n)
    <2>1. deps[n] \in Nat /\ deps[n] = IF Target(n) = 0 THEN 0 ELSE Cardinality(Delivered(n))
      BY <1>10 DEF Flow, DepsCounted, CountedAt, Known, LocalInv, SharedOK
    <2>2. Delivered(n) \subseteq Preds(n)
      BY DEF Delivered
    <2>3. PICK D \in SUBSET Preds(n) : D = Delivered(n) /\ p \in Preds(n) \ D
      BY <1>10, <1>18, <2>2
    <2>4. /\ Target(n) \in Nat /\ Cardinality(D) \in Nat
          /\ Cardinality(D \cup {p}) = Cardinality(D) + 1
          /\ Target(n) = 0 => D \cup {p} = Preds(n)
          /\ Target(n) # 0 => Cardinality(D \cup {p}) =< Target(n)
          /\ Target(n) # 0 => (Cardinality(D \cup {p}) = Target(n) <=> D \cup {p} = Preds(n))
      BY <2>3, CountOneMore
    <2>5. Delivered(n)' = D \cup {p}
      BY <1>18, <2>3
    <2>6. CASE Target(n) = 0
      BY <1>2, <2>4, <2>5, <2>6
    <2>7. CASE Target(n) # 0
      BY <1>2, <2>1, <2>3, <2>4, <2>5, <2>7
    <2> QED  BY <2>6, <2>7
  <1>20. DepsCounted'
    <2> SUFFICES ASSUME NEW m \in Tasks PROVE deps'[m] =< Target(m) /\ (Counts(m)' => CountedAt(m)')
      BY DEF DepsCounted
    <2>1. CASE m = n
      BY <1>11, <1>19, <2>1 DEF CountedAt
    <2>2. CASE m # n
      <3>1. Counts(m)' => Counts(m)
        BY <1>0, <1>15 DEF Counts, Over
      <3>2. \A x \in Preds(m) : state'[x] = "DONE" <=> state[x] = "DONE"
        BY <1>10, <1>11 DEF Preds
      <3> QED  BY <1>11, <1>16, <2>2, <3>1, <3>2, CountKept DEF Flow
    <2> QED  BY <2>1, <2>2
  <1>21. \A g \in SubGraphs : GraphOK(g)'
    <2> SUFFICES ASSUME NEW g \in SubGraphs PROVE GraphOK(g)'
      OBVIOUS
    <2>1. ~Held(t, g) /\ ~Held(t, g)'
      BY <1>0, <1>7, <1>9 DEF Held, AtEnd
    <2>2. CASE n \notin Area(g) \/ c # Target(n)
      <3>1. \A x \in Area(g) : state'[x] = state[x]
        BY <1>10, <1>11, <2>2, AreaEdges DEF Area, Parts
      <3> QED  BY <1>0, <1>6, <1>8, <2>1, <3>1, GraphKept
    <2>3. ASSUME n \in Area(g), c = Target(n) PROVE GraphOK(g)'
      <3>0. /\ GraphOK(g) /\ Entry[g] \in Tasks /\ Exit[g] \in Tasks /\ Body[g] \subseteq Tasks
            /\ Entry[g] \notin Parts(g) /\ Exit[g] \notin Body[g] /\ Entry[g] # Exit[g]
            /\ Resetting(g)' <=> Resetting(g)
        BY <1>15, AreaEdges DEF Flow
      <3>1. CASE n = Entry[g]
        <4>1. ~Resetting(g)
          BY <1>10, <2>3 DEF Resetting, Held, AtEnd
        <4>2. remaining[g] = -1 /\ \A x \in Parts(g) : state[x] = "NONE"
          BY <1>10, <3>0, <3>1 DEF GraphOK, EndsOK, NotBegun, Over
        <4>3. /\ state'[Entry[g]] = "PENDING" /\ remaining'[g] = -1
              /\ \A x \in Parts(g) : state'[x] = "NONE"
          BY <1>0, <1>11, <2>3, <3>0, <3>1, <4>2 DEF Parts
        <4> QED  BY <3>0, <4>1, <4>3
                 DEF GraphOK, EndsOK, NotBegun, EntryTaken, ExitReached, OverMeansDone, AllTold,
                     Over, Parts
      <3>2. CASE n \in Parts(g)
        <4>1. ~Over(g) /\ ~Resetting(g) /\ ~Over(g)' /\ ~Resetting(g)'
          BY <1>0, <1>10, <3>0, <3>2 DEF Counts, Over
        <4>2. p \in Body[g] \cup {Entry[g]}
          BY <1>10, <3>2 DEF NotNested
        <4>3. state[Entry[g]] = "DONE"
          BY <1>10, <3>0, <4>1, <4>2 DEF GraphOK, NotBegun, Parts
        <4>4. state'[Entry[g]] = "DONE" /\ remaining'[g] = remaining[g]
          BY <1>0, <1>11, <3>0, <3>2, <4>3
        <4>5. state'[Exit[g]] \in {"NONE", "PENDING"}
              /\ (state'[Exit[g]] # "NONE" => \A b \in Body[g] : state'[b] = "DONE")
          <5>1. CASE n = Exit[g]
            <6>1. \A x \in Preds(n) : state[x] = "DONE"
              BY <1>10, <1>18, <1>19, <2>3 DEF Delivered
            <6>2. \A b \in Body[g] : state[b] = "DONE"
              BY <4>1, <5>1, <6>1, LastPartDone
            <6> QED  BY <1>11, <3>0, <5>1, <6>2
          <5>2. CASE n # Exit[g]
            <6>1. state[Exit[g]] = "NONE"
              BY <1>10, <3>0, <3>2, <4>1, <5>2 DEF GraphOK, ExitReached, Parts
            <6> QED  BY <1>11, <3>0, <5>2, <6>1
          <5> QED  BY <5>1, <5>2
        <4>6. remaining[g] \in {-2, -1} \cup Nat /\ remaining[g] # -1
          BY <3>0, <4>3 DEF GraphOK, EndsOK
        <4> QED  BY <4>1, <4>4, <4>5, <4>6
                 DEF GraphOK, EndsOK, NotBegun, EntryTaken, ExitReached, OverMeansDone, AllTold, Over
      <3> QED  BY <2>3, <3>1, <3>2 DEF Area
    <2> QED  BY <2>2, <2>3
  <1> QED  BY <1>12, <1>13, <1>14, <1>20, <1>21 DEF Flow

------------------------------------------------------------------------------
(***************************************************************************)
(* A sub-graph is begun, skipped, left and reset.                          *)
(***************************************************************************)

\* While a thread is at an end of a sub-graph, no other acts on its body.
LEMMA HeldBody ==
    ASSUME Known, Flow, NotNested, NEW t \in Threads, NEW g \in SubGraphs, Held(t, g), NEW k \in Body[g],
           NEW u \in Threads
    PROVE  ~Acts(u, k) /\ ~(Invokes(u) /\ job[u].task = k)
  <1>1. state[k] \in {"NONE", "DONE"} /\ k \notin SubGraphEnds
    BY HeldFacts, AreaEdges
  <1>2. ~(Invokes(u) /\ job[u].task = k)
    BY <1>1, RunsHome
  <1>3. SUFFICES ASSUME Acts(u, k) PROVE FALSE
    BY <1>2
  <1>4. job[u].task = k /\ AtWork(pc[u], job[u])
    BY <1>3 DEF Acts, Flow, AllAtWork
  <1>5. pc[u] \notin {"run", "windup", "done"}
    BY <1>1, <1>4 DEF AtWork, AtRun, AtDone
  <1>6. pc[u] \notin {"skip", "reset", "restart"}
    BY <1>1, <1>4, EndsApart DEF AtWork, AtSkip, AtReset, AtRestart
  <1>7. pc[u] = "notify" /\ job[u].todo # {}
    BY <1>3, <1>5, <1>6 DEF Acts
  <1> QED  BY <1>4, <1>7, HeldFacts

\* No thread acts on an end that is not done and has no thread at it.
LEMMA EndUntouched ==
    ASSUME Known, Flow, NotNested, NEW g \in SubGraphs, NEW k \in {Entry[g], Exit[g]}, state[k] # "DONE",
           \A u \in Threads : ~(Held(u, g) /\ job[u].task = k), NEW u \in Threads
    PROVE  ~Acts(u, k) /\ ~(Invokes(u) /\ job[u].task = k)
  <1>1. k \in SubGraphEnds
    BY EndsApart
  <1>2. AtWork(pc[u], job[u])
    BY DEF Flow, AllAtWork
  <1>3. ASSUME Acts(u, k) PROVE FALSE
    <2>1. job[u].task = k
      BY <1>3 DEF Acts
    <2>2. pc[u] \notin {"run", "windup"}
      BY <1>1, <1>2, <2>1 DEF AtWork, AtRun
    <2>3. pc[u] \notin AtEnd
      BY <2>1 DEF Held
    <2>4. pc[u] = "notify" /\ job[u].todo # {}
      BY <1>3, <2>2, <2>3 DEF Acts, AtEnd
    <2> QED  BY <1>2, <2>1, <2>4 DEF AtWork, AtNotify
  <1>4. ~(Invokes(u) /\ job[u].task = k)
    BY <1>1, RunsHome
  <1> QED  BY <1>3, <1>4

\* The task that a scan has reached, and the thread that scans.
LEMMA ScanKnown ==
    ASSUME Known, Flow, NotNested, NEW t \in Threads, NEW g \in SubGraphs, NEW k \in {Entry[g], Exit[g]},
           Scans(t, k), state[k] = "PENDING"
    PROVE  /\ pc[t] = "scan" /\ job[t] \in Jobs /\ job[t].own /\ SubGroupOf[k] = job[t].sub /\ k \in Tasks
           /\ \A u \in Threads : ~Held(u, g) /\ ~Acts(u, k)
           /\ ~Over(g) /\ ~Resetting(g)
  <1>1. pc[t] = "scan" /\ SubGroupOf[k] = job[t].sub /\ k \in Tasks /\ job[t].own /\ job[t] \in Jobs
    BY ThreadKnown DEF Scans, Lowest, TasksOf, Owning
  <1>2. \A u \in Threads : ~Held(u, g)
    BY <1>1, ScanAlone
  <1>3. \A u \in Threads : ~Acts(u, k)
    BY <1>2, EndUntouched
  <1>4. ~Resetting(g) /\ ~Skipped(g)
    BY <1>2 DEF Resetting, Skipped, Held, AtEnd
  <1>5. ~Over(g)
    <2>1. OverMeansDone(g)
      BY DEF Flow, GraphOK
    <2>2. ~AllDone(g)
      BY <1>2 DEF AllDone, Held, AtEnd
    <2> QED  BY <1>4, <2>1, <2>2 DEF OverMeansDone
  <1> QED  BY <1>1, <1>2, <1>3, <1>4, <1>5

\* The entry starts an iteration or skips the sub-graph.
LEMMA FlowEnterSubGraph ==
    ASSUME Known, Flow, NotNested, NEW t \in Threads, EnterSubGraph(t)
    PROVE  Flow'
  <1>0. PICK g \in SubGraphs :
            /\ Scans(t, Entry[g]) /\ state[Entry[g]] = "PENDING"
            /\ \E n \in IF remaining[g] < 0 THEN TaskNum[Entry[g]] ELSE {remaining[g]} :
                /\ remaining' = [remaining EXCEPT ![g] = IF n = 0 THEN -2 ELSE n - 1]
                /\ IF n # 0 /\ remaining[g] # -2
                   THEN SetJob(t, Take(t, Entry[g])) /\ Goto(t, "done")
                   ELSE /\ SetJob(t, [Take(t, Entry[g]) EXCEPT !.todo = Body[g]])
                        /\ Goto(t, IF n = 0 THEN "skip" ELSE "reset")
    BY DEF EnterSubGraph
  <1>1. /\ UNCHANGED <<state, deps, varTask>> /\ pc[t] = "scan" /\ job[t] \in Jobs
        /\ SubGroupOf[Entry[g]] = job[t].sub
        /\ \A u \in Threads : ~Held(u, g) /\ ~Acts(u, Entry[g])
        /\ ~Over(g) /\ ~Resetting(g) /\ GraphOK(g)
    BY <1>0, ScanKnown DEF EnterSubGraph, Flow
  <1>2. /\ \A x \in Parts(g) : state[x] = "NONE"
        /\ remaining[g] = -1 \/ (remaining[g] >= 1 /\ remaining[g] \in Nat)
    BY <1>0, <1>1 DEF GraphOK, NotBegun, EntryTaken, EndsOK, Over
  <1>3. PICK n \in Nat :
            /\ remaining' = [remaining EXCEPT ![g] = IF n = 0 THEN -2 ELSE n - 1]
            /\ \/ n # 0 /\ SetJob(t, Take(t, Entry[g])) /\ Goto(t, "done")
               \/ n = 0 /\ SetJob(t, [Take(t, Entry[g]) EXCEPT !.todo = Body[g]]) /\ Goto(t, "skip")
    <2>1. remaining[g] # -2 /\ TaskNum[Entry[g]] \subseteq Nat
      BY <1>1, EndsApart, GraphAssumption DEF Over, WellFormed
    <2>2. PICK n \in IF remaining[g] < 0 THEN TaskNum[Entry[g]] ELSE {remaining[g]} :
                /\ remaining' = [remaining EXCEPT ![g] = IF n = 0 THEN -2 ELSE n - 1]
                /\ IF n # 0 /\ remaining[g] # -2
                   THEN SetJob(t, Take(t, Entry[g])) /\ Goto(t, "done")
                   ELSE /\ SetJob(t, [Take(t, Entry[g]) EXCEPT !.todo = Body[g]])
                        /\ Goto(t, IF n = 0 THEN "skip" ELSE "reset")
      BY <1>0
    <2>3. n \in Nat
      BY <1>2, <2>1, <2>2
    <2> QED  BY <2>1, <2>2, <2>3
  <1>4. \E l \in {"done", "skip"} : \E j : 
            /\ Moves(t, l, j) /\ j.task = Entry[g] /\ j.sub = job[t].sub
            /\ l = "done" => n # 0
            /\ l = "skip" => n = 0 /\ j.todo = Body[g]
    <2>1. Take(t, Entry[g]).task = Entry[g] /\ Take(t, Entry[g]).sub = job[t].sub
      BY <1>1 DEF Take, Jobs
    <2>2. PICK j : j = [Take(t, Entry[g]) EXCEPT !.todo = Body[g]]
      OBVIOUS
    <2>3. j.task = Entry[g] /\ j.sub = job[t].sub /\ j.todo = Body[g]
      BY <1>1, <2>2 DEF Take, Jobs
    <2> QED  BY <1>3, <2>1, <2>2, <2>3 DEF Moves, SetJob, Goto
  <1>5. PICK l \in {"done", "skip"} : \E j :
            /\ Moves(t, l, j) /\ j.task = Entry[g] /\ j.sub = job[t].sub
            /\ l = "done" => n # 0
            /\ l = "skip" => n = 0 /\ j.todo = Body[g]
    BY <1>4
  <1>6. PICK j :
            /\ Moves(t, l, j) /\ j.task = Entry[g] /\ j.sub = job[t].sub
            /\ l = "done" => n # 0
            /\ l = "skip" => n = 0 /\ j.todo = Body[g]
    BY <1>5
  <1>7. pc'[t] = l /\ job'[t] = j
    BY <1>6, MovesOne
  <1>8. /\ \A h \in SubGraphs : h # g => remaining'[h] = remaining[h]
        /\ l = "done" => remaining'[g] >= 0 /\ remaining'[g] \in Nat
        /\ l = "skip" => remaining'[g] = -2
    <2>1. remaining'[g] = (IF n = 0 THEN -2 ELSE n - 1)
          /\ \A h \in SubGraphs : h # g => remaining'[h] = remaining[h]
      BY <1>3 DEF Known, LocalInv, SharedOK
    <2> QED  BY <1>6, <2>1
  <1>9. AllAtWork'
    <2>1. CASE l = "done"
      <3>1. AtEntry(j, g)'
        BY <1>0, <1>1, <1>6, <1>8, <2>1 DEF AtEntry, IsHome
      <3>2. AtDone(j)'
        BY <1>6, <3>1, EndsApart DEF AtDone
      <3>3. AtWork(l, j)'
        BY <2>1, <3>2 DEF AtWork
      <3> QED  BY <1>1, <1>6, <1>8, <3>3, AllAtWorkMoves
    <2>2. CASE l = "skip"
      <3>1. AtSkip(j)'
        BY <1>0, <1>1, <1>2, <1>6, <1>8, <2>2 DEF AtSkip, IsHome, Over, Parts
      <3>2. AtWork(l, j)'
        BY <2>2, <3>1 DEF AtWork
      <3> QED  BY <1>1, <1>6, <1>8, <3>2, AllAtWorkMoves
    <2> QED  BY <2>1, <2>2
  <1>10. Alone'
    BY <1>1, <1>6, <1>7, AloneMoves DEF Acts
  <1>11. VarTasksOpen'
    BY <1>1, VarTasksKept
  <1>12. \A h : Resetting(h)' <=> Resetting(h)
    BY <1>1, <1>6, ResettingMoves
  <1>13. DepsCounted'
    <2> SUFFICES ASSUME NEW m \in Tasks PROVE deps'[m] =< Target(m) /\ (Counts(m)' => CountedAt(m)')
      BY DEF DepsCounted
    <2>1. \A p : Undelivered(p, m)' <=> Undelivered(p, m)
      BY <1>1, <1>6, UndeliveredMoves
    <2>2. Counts(m)' => Counts(m)
      BY <1>1, <1>8, <1>12 DEF Counts, Over
    <2> QED  BY <1>1, <2>1, <2>2, CountKept DEF Flow
  <1>14. GraphOK(g)'
    <2>1. Held(t, g)' /\ ~Resetting(g)'
      BY <1>1, <1>6, <1>7, <1>12 DEF Held, AtEnd
    <2>2. state'[Entry[g]] = "PENDING" /\ state'[Exit[g]] = "NONE" /\ \A x \in Parts(g) : state'[x] = "NONE"
      BY <1>0, <1>1, <1>2 DEF Parts
    <2>3. EndsOK(g)' /\ NotBegun(g)' /\ EntryTaken(g)' /\ ExitReached(g)'
      BY <1>8, <2>1, <2>2 DEF EndsOK, NotBegun, EntryTaken, ExitReached, Over
    <2>4. OverMeansDone(g)'
      BY <1>6, <1>7, <1>8 DEF OverMeansDone, Over, Skipped
    <2>5. AllTold(g)'
      <3> SUFFICES ASSUME NEW u \in Threads, pc'[u] = "notify", job'[u].task \in Body[g] \cup {Entry[g]}
                   PROVE  job'[u].todo = {}
        BY DEF AllTold
      <3>1. AtNotify(job[u])'
        BY <1>9 DEF AllAtWork, AtWork
      <3> QED  BY <2>2, <3>1 DEF AtNotify, Parts
    <2> QED  BY <2>3, <2>4, <2>5 DEF GraphOK
  <1>15. ASSUME NEW h \in SubGraphs, h # g PROVE GraphOK(h)'
    <2>1. ~Held(t, h) /\ ~Held(t, h)'
      BY <1>1, <1>6, <1>7, <1>15, EndsApart DEF Held, AtEnd
    <2> QED  BY <1>1, <1>6, <1>8, <1>15, <2>1, GraphKept
  <1> QED  BY <1>9, <1>10, <1>11, <1>13, <1>14, <1>15 DEF Flow

\* The tasks of a sub-graph that is skipped are done one by one.
LEMMA FlowSkipTask ==
    ASSUME Known, Flow, NotNested, NEW t \in Threads, SkipTask(t)
    PROVE  Flow'
  <1>0. PICK k \in job[t].todo :
            /\ state' = [state EXCEPT ![k] = "DONE"]
            /\ SetJob(t, [job[t] EXCEPT !.todo = @ \ {k}])
    BY DEF SkipTask
  <1>1. pc[t] = "skip" /\ UNCHANGED <<deps, varTask, remaining, pc>> /\ job[t] \in Jobs
    BY ThreadKnown DEF SkipTask
  <1>2. PICK g \in SubGraphs :
        /\ job[t].task = Entry[g] /\ IsHome(job[t]) /\ job[t].todo \subseteq Body[g]
        /\ Over(g) /\ state[Entry[g]] = "PENDING" /\ state[Exit[g]] = "NONE"
        /\ \A b \in Body[g] : state[b] = IF b \in job[t].todo THEN "NONE" ELSE "DONE"
    BY <1>1 DEF Flow, AllAtWork, AtWork, AtSkip
  <1>3. PICK j : j = [job[t] EXCEPT !.todo = @ \ {k}]
    OBVIOUS
  <1>4. j.task = Entry[g] /\ j.sub = job[t].sub /\ j.todo = job[t].todo \ {k}
    BY <1>1, <1>2, <1>3 DEF Jobs
  <1>5. Moves(t, "skip", j)
    BY <1>0, <1>1, <1>3, ThreadHere DEF Moves, SetJob, Known, LocalInv
  <1>6. pc'[t] = "skip" /\ job'[t] = j
    BY <1>5, MovesOne
  <1>7. /\ Held(t, g) /\ GraphOK(g) /\ k \in Body[g] /\ k \in Tasks /\ k \notin SubGraphEnds
        /\ k \in Area(g) /\ k # Entry[g] /\ k # Exit[g] /\ state[k] = "NONE"
    BY <1>1, <1>2, AreaEdges, EndsApart DEF Held, AtEnd, Flow, Area, Parts
  <1>8. state'[k] = "DONE" /\ \A x \in Tasks : x # k => state'[x] = state[x]
    BY <1>0, <1>7 DEF Known, LocalInv, SharedOK
  <1>9. \A h \in SubGraphs : h # g => k \notin Area(h)
    BY <1>7, AreasApart
  <1>10. AllAtWork'
    <2>1. AtSkip(j)'
      <3>1. \A b \in Body[g] : state'[b] = IF b \in j.todo THEN "NONE" ELSE "DONE"
        BY <1>2, <1>4, <1>8, AreaEdges
      <3> QED  BY <1>1, <1>2, <1>4, <1>7, <1>8, <3>1, AreaEdges DEF AtSkip, IsHome, Over
    <2>2. AtWork("skip", j)'
      BY <2>1 DEF AtWork
    <2>3. ASSUME NEW u \in Threads, u # t, NEW h \in SubGraphs, Held(u, h)
          PROVE  \A x \in Area(h) : state'[x] = state[x]
      <3>1. h # g
        BY <1>7, <2>3, HeldAlone
      <3> QED  BY <1>8, <1>9, <3>1, AreaEdges DEF Area, Parts
    <2> QED  BY <1>1, <1>5, <1>7, <1>8, <2>2, <2>3, HeldBody, AllAtWorkMoves
  <1>11. Alone'
    BY <1>1, <1>2, <1>4, <1>5, <1>6, AloneMoves DEF Acts
  <1>12. VarTasksOpen'
    BY <1>1, <1>7, <1>8, VarTasksKept
  <1>13. \A h : Resetting(h)' <=> Resetting(h)
    BY <1>1, <1>5, ResettingMoves
  <1>14. DepsCounted'
    <2> SUFFICES ASSUME NEW n \in Tasks PROVE deps'[n] =< Target(n) /\ (Counts(n)' => CountedAt(n)')
      BY DEF DepsCounted
    <2>1. \A p : Undelivered(p, n)' <=> Undelivered(p, n)
      BY <1>1, <1>5, UndeliveredMoves
    <2>2. Counts(n)' => Counts(n) /\ n \notin Parts(g)
      BY <1>1, <1>2, <1>13 DEF Counts, Over
    <2>3. n \notin Parts(g) => n # k /\ k \notin Preds(n)
      BY <1>7, AreaEdges DEF Parts, Preds
    <2>4. \A p \in Preds(n) : p \in Tasks
      BY DEF Preds
    <2> QED  BY <1>1, <1>8, <2>1, <2>2, <2>3, <2>4, CountKept DEF Flow
  <1>15. GraphOK(g)'
    <2>1. /\ Over(g)' /\ Skipped(g)' /\ Held(t, g)'
          /\ state'[Entry[g]] = "PENDING" /\ state'[Exit[g]] = "NONE"
      BY <1>1, <1>2, <1>4, <1>6, <1>7, <1>8, EndsApart DEF Over, Skipped, Held, AtEnd
    <2>2. AllTold(g)'
      BY <1>2, <1>5, <1>6, <1>7, MovesOne DEF GraphOK, AllTold
    <2> QED  BY <2>1, <2>2 DEF GraphOK, EndsOK, NotBegun, EntryTaken, ExitReached, OverMeansDone, Over
  <1>16. ASSUME NEW h \in SubGraphs, h # g PROVE GraphOK(h)'
    <2>1. ~Held(t, h) /\ ~Held(t, h)'
      BY <1>2, <1>4, <1>6, <1>16, EndsApart DEF Held
    <2>2. \A x \in Area(h) : state'[x] = state[x]
      BY <1>8, <1>9, <1>16, AreaEdges DEF Area, Parts
    <2> QED  BY <1>1, <1>5, <2>1, <2>2, GraphKept
  <1> QED  BY <1>10, <1>11, <1>12, <1>14, <1>15, <1>16 DEF Flow

\* After the body the entry is done, and then the exit.
LEMMA FlowSkipEnds ==
    ASSUME Known, Flow, NotNested, NEW t \in Threads, SkipEnds(t)
    PROVE  Flow'
  <1>1. pc[t] = "skip" /\ job[t].todo = {} /\ UNCHANGED <<deps, varTask, remaining>> /\ job[t] \in Jobs
    BY ThreadKnown DEF SkipEnds
  <1>2. PICK g \in SubGraphs :
        /\ job[t].task = Entry[g] /\ IsHome(job[t]) /\ job[t].todo \subseteq Body[g]
        /\ Over(g) /\ state[Entry[g]] = "PENDING" /\ state[Exit[g]] = "NONE"
        /\ \A b \in Body[g] : state[b] = IF b \in job[t].todo THEN "NONE" ELSE "DONE"
    BY <1>1 DEF Flow, AllAtWork, AtWork, AtSkip
  <1>3. /\ state' = [state EXCEPT ![Entry[g]] = "DONE"]
        /\ SetJob(t, [job[t] EXCEPT !.task = Exit[g]])
    BY <1>2, EndsApart DEF SkipEnds
  <1>4. PICK j : j = [job[t] EXCEPT !.task = Exit[g]]
    OBVIOUS
  <1>5. j.task = Exit[g] /\ j.sub = job[t].sub
    BY <1>1, <1>4 DEF Jobs
  <1>6. Moves(t, "done", j)
    BY <1>3, <1>4 DEF Moves, SetJob, Goto, SkipEnds
  <1>7. pc'[t] = "done" /\ job'[t] = j
    BY <1>6, MovesOne
  <1>8. /\ Held(t, g) /\ GraphOK(g) /\ Entry[g] \in Tasks /\ Exit[g] \in Tasks /\ Body[g] \subseteq Tasks
        /\ Entry[g] \notin Parts(g) /\ Entry[g] # Exit[g] /\ Entry[g] \in Area(g)
        /\ Acts(t, Entry[g])
    BY <1>1, <1>2, AreaEdges DEF Held, AtEnd, Flow, Area, Acts
  <1>9. state'[Entry[g]] = "DONE" /\ \A x \in Tasks : x # Entry[g] => state'[x] = state[x]
    BY <1>3, <1>8 DEF Known, LocalInv, SharedOK
  <1>10. \A h \in SubGraphs : h # g => Entry[g] \notin Area(h)
    BY <1>8, AreasApart
  <1>11. AllAtWork'
    <2>1. AtExit(j, g)'
      BY <1>1, <1>2, <1>5, <1>8, <1>9 DEF AtExit, IsHome, Over
    <2>2. AtDone(j)'
      BY <1>5, <2>1, EndsApart DEF AtDone
    <2>3. AtWork("done", j)'
      BY <2>2 DEF AtWork
    <2>4. ASSUME NEW u \in Threads, u # t PROVE ~Acts(u, Entry[g]) /\ ~(Invokes(u) /\ job[u].task = Entry[g])
      <3>1. ~(Invokes(u) /\ job[u].task = Entry[g])
        BY <1>2, RunsHome
      <3> QED  BY <1>8, <2>4, <3>1 DEF Flow, Alone
    <2>5. ASSUME NEW u \in Threads, u # t, NEW h \in SubGraphs, Held(u, h)
          PROVE  \A x \in Area(h) : state'[x] = state[x]
      <3>1. h # g
        BY <1>8, <2>5, HeldAlone
      <3> QED  BY <1>9, <1>10, <3>1, AreaEdges DEF Area, Parts
    <2> QED  BY <1>1, <1>6, <1>9, <2>3, <2>4, <2>5, AllAtWorkMoves
  <1>12. Alone'
    <2>1. \A u \in Threads : ~(Held(u, g) /\ job[u].task = Exit[g])
      BY <1>2, <1>8, HeldAlone
    <2>2. \A u \in Threads : ~Acts(u, Exit[g])
      BY <1>2, <2>1, EndUntouched
    <2> QED  BY <1>5, <1>6, <1>7, <2>2, AloneMoves DEF Acts
  <1>13. VarTasksOpen'
    BY <1>1, <1>2, <1>9, VarTasksKept
  <1>14. \A h : Resetting(h)' <=> Resetting(h)
    BY <1>1, <1>6, ResettingMoves
  <1>15. DepsCounted'
    <2> SUFFICES ASSUME NEW n \in Tasks PROVE deps'[n] =< Target(n) /\ (Counts(n)' => CountedAt(n)')
      BY DEF DepsCounted
    <2>1. \A p : Undelivered(p, n)' <=> Undelivered(p, n)
      BY <1>1, <1>6, UndeliveredMoves
    <2>2. Counts(n)' => Counts(n) /\ n \notin Parts(g)
      BY <1>1, <1>2, <1>14 DEF Counts, Over
    <2>3. n \notin Parts(g) => Entry[g] \notin Preds(n)
      BY AreaEdges DEF Preds
    <2>4. \A p \in Preds(n) : p \in Tasks
      BY DEF Preds
    <2>5. state'[n] = "NONE" <=> state[n] = "NONE"
      BY <1>2, <1>9
    <2> QED  BY <1>1, <1>9, <2>1, <2>2, <2>3, <2>4, <2>5, CountKept DEF Flow
  <1>16. GraphOK(g)'
    <2>1. /\ Over(g)' /\ state'[Entry[g]] = "DONE" /\ state'[Exit[g]] = "NONE"
          /\ \A b \in Body[g] : state'[b] = "DONE"
      BY <1>1, <1>2, <1>8, <1>9, AreaEdges DEF Over, Parts
    <2>2. AllDone(g)'
      BY <1>5, <1>7, <2>1 DEF AllDone
    <2>3. AllTold(g)'
      BY <1>2, <1>6, <1>7, <1>8, MovesOne DEF GraphOK, AllTold
    <2> QED  BY <2>1, <2>2, <2>3 DEF GraphOK, EndsOK, NotBegun, EntryTaken, ExitReached, OverMeansDone, Over
  <1>17. ASSUME NEW h \in SubGraphs, h # g PROVE GraphOK(h)'
    <2>1. ~Held(t, h) /\ ~Held(t, h)'
      BY <1>2, <1>5, <1>7, <1>17, EndsApart DEF Held
    <2>2. \A x \in Area(h) : state'[x] = state[x]
      BY <1>9, <1>10, <1>17, AreaEdges DEF Area, Parts
    <2> QED  BY <1>1, <1>6, <2>1, <2>2, GraphKept
  <1> QED  BY <1>11, <1>12, <1>13, <1>15, <1>16, <1>17 DEF Flow

\* The exit ends the last iteration, or resets the sub-graph for the next one.
LEMMA FlowLeaveSubGraph ==
    ASSUME Known, Flow, NotNested, NEW t \in Threads, LeaveSubGraph(t)
    PROVE  Flow'
  <1>0. PICK g \in SubGraphs :
        /\ Scans(t, Exit[g]) /\ state[Exit[g]] = "PENDING"
        /\ IF remaining[g] = 0
           THEN /\ remaining' = [remaining EXCEPT ![g] = -2]
                /\ SetJob(t, Take(t, Exit[g]))
                /\ Goto(t, "done")
           ELSE /\ SetJob(t, [Take(t, Exit[g]) EXCEPT !.todo = Body[g]])
                /\ Goto(t, "reset")
                /\ UNCHANGED remaining
    BY DEF LeaveSubGraph
  <1>1. /\ UNCHANGED <<state, deps, varTask>> /\ pc[t] = "scan" /\ job[t] \in Jobs
        /\ SubGroupOf[Exit[g]] = job[t].sub
        /\ \A u \in Threads : ~Held(u, g) /\ ~Acts(u, Exit[g])
        /\ ~Over(g) /\ ~Resetting(g) /\ GraphOK(g)
    BY <1>0, ScanKnown DEF LeaveSubGraph, Flow
  <1>2. /\ \A b \in Body[g] : state[b] = "DONE"
        /\ state[Entry[g]] = "DONE"
        /\ remaining[g] \in Nat
    BY <1>0, <1>1 DEF GraphOK, NotBegun, ExitReached, EndsOK, Over, Parts
  <1>3. \E l \in {"done", "reset"} : \E j :
            /\ Moves(t, l, j) /\ j.task = Exit[g] /\ j.sub = job[t].sub
            /\ l = "done" => remaining' = [remaining EXCEPT ![g] = -2]
            /\ l = "reset" => remaining[g] >= 1 /\ j.todo = Body[g] /\ remaining' = remaining
    <2>1. Take(t, Exit[g]).task = Exit[g] /\ Take(t, Exit[g]).sub = job[t].sub
      BY <1>1 DEF Take, Jobs
    <2>2. PICK j : j = [Take(t, Exit[g]) EXCEPT !.todo = Body[g]]
      OBVIOUS
    <2>3. j.task = Exit[g] /\ j.sub = job[t].sub /\ j.todo = Body[g]
      BY <1>1, <2>2 DEF Take, Jobs
    <2>4. CASE remaining[g] = 0
      <3>1. /\ Moves(t, "done", Take(t, Exit[g])) /\ remaining' = [remaining EXCEPT ![g] = -2]
        BY <1>0, <2>4 DEF Moves, SetJob, Goto
      <3> QED  BY <2>1, <3>1
    <2>5. CASE remaining[g] # 0
      <3>1. Moves(t, "reset", j) /\ remaining[g] >= 1 /\ remaining' = remaining
        BY <1>0, <1>2, <2>2, <2>5 DEF Moves, SetJob, Goto
      <3> QED  BY <2>3, <3>1
    <2> QED  BY <2>4, <2>5
  <1>4. PICK l \in {"done", "reset"} : \E j :
            /\ Moves(t, l, j) /\ j.task = Exit[g] /\ j.sub = job[t].sub
            /\ l = "done" => remaining' = [remaining EXCEPT ![g] = -2]
            /\ l = "reset" => remaining[g] >= 1 /\ j.todo = Body[g] /\ remaining' = remaining
    BY <1>3
  <1>5. PICK j :
            /\ Moves(t, l, j) /\ j.task = Exit[g] /\ j.sub = job[t].sub
            /\ l = "done" => remaining' = [remaining EXCEPT ![g] = -2]
            /\ l = "reset" => remaining[g] >= 1 /\ j.todo = Body[g] /\ remaining' = remaining
    BY <1>4
  <1>6. pc'[t] = l /\ job'[t] = j
    BY <1>5, MovesOne
  <1>7. /\ \A h \in SubGraphs : h # g => remaining'[h] = remaining[h]
        /\ l = "done" => remaining'[g] = -2
        /\ l = "reset" => remaining'[g] = remaining[g]
    BY <1>5 DEF Known, LocalInv, SharedOK
  <1>8. AllAtWork'
    <2>1. CASE l = "done"
      <3>1. AtExit(j, g)'
        BY <1>0, <1>1, <1>5, <1>7, <2>1 DEF AtExit, IsHome, Over
      <3>2. AtDone(j)'
        BY <1>5, <3>1, EndsApart DEF AtDone
      <3>3. AtWork(l, j)'
        BY <2>1, <3>2 DEF AtWork
      <3> QED  BY <1>1, <1>5, <1>7, <3>3, AllAtWorkMoves
    <2>2. CASE l = "reset"
      <3>1. AtReset(j)'
        BY <1>0, <1>1, <1>2, <1>5, <1>7, <2>2 DEF AtReset, IsHome
      <3>2. AtWork(l, j)'
        BY <2>2, <3>1 DEF AtWork
      <3> QED  BY <1>1, <1>5, <1>7, <3>2, AllAtWorkMoves
    <2> QED  BY <2>1, <2>2
  <1>9. Alone'
    BY <1>1, <1>5, <1>6, AloneMoves DEF Acts
  <1>10. VarTasksOpen'
    BY <1>1, VarTasksKept
  <1>11. \A h \in SubGraphs : h # g => (Resetting(h)' <=> Resetting(h))
    BY <1>1, <1>5, EndsApart, ResettingMoves
  <1>12. DepsCounted'
    <2> SUFFICES ASSUME NEW m \in Tasks PROVE deps'[m] =< Target(m) /\ (Counts(m)' => CountedAt(m)')
      BY DEF DepsCounted
    <2>1. \A p : Undelivered(p, m)' <=> Undelivered(p, m)
      BY <1>1, <1>5, UndeliveredMoves
    <2>2. Counts(m)' => Counts(m)
      BY <1>1, <1>7, <1>11 DEF Counts, Over
    <2> QED  BY <1>1, <2>1, <2>2, CountKept DEF Flow
  <1>13. AllTold(g)'
    <2> SUFFICES ASSUME NEW u \in Threads, pc'[u] = "notify", job'[u].task \in Body[g] \cup {Entry[g]},
                        NEW m \in job'[u].todo
                 PROVE  FALSE
      BY DEF AllTold
    <2>1. PICK p : p = job[u].task
      OBVIOUS
    <2>2. pc[u] = "notify" /\ p \in Body[g] \cup {Entry[g]} /\ m \in job[u].todo
      BY <1>1, <1>5, <1>6, <2>1, MovesOne
    <2>3. m \in Parts(g) /\ p \in Preds(m)
      BY <2>1, <2>2, ThreadKnown, AreaEdges DEF Preds
    <2>4. state[m] # "NONE"
      BY <1>0, <1>2, <2>3 DEF Parts
    <2>5. Undelivered(p, m)
      BY <2>1, <2>2 DEF Undelivered
    <2>6. CountedAt(m)
      BY <1>1, <2>3, PartsCounted
    <2> QED  BY <2>3, <2>4, <2>5, <2>6 DEF CountedAt, Delivered
  <1>14. GraphOK(g)'
    <2>1. /\ l = "done" => Over(g)'
          /\ l = "reset" => Resetting(g)' /\ ~Over(g)'
      BY <1>1, <1>5, <1>6, <1>7 DEF Over, Resetting
    <2>2. l = "done" => AllDone(g)'
      BY <1>1, <1>2, <1>5, <1>6 DEF AllDone
    <2>3. EndsOK(g)' /\ NotBegun(g)' /\ EntryTaken(g)' /\ ExitReached(g)' /\ OverMeansDone(g)'
      BY <1>0, <1>1, <1>2, <1>4, <1>7, <2>1, <2>2
         DEF EndsOK, NotBegun, EntryTaken, ExitReached, OverMeansDone, Over
    <2> QED  BY <1>13, <2>3 DEF GraphOK
  <1>15. ASSUME NEW h \in SubGraphs, h # g PROVE GraphOK(h)'
    <2>1. ~Held(t, h) /\ ~Held(t, h)'
      BY <1>1, <1>5, <1>6, <1>15, EndsApart DEF Held, AtEnd
    <2> QED  BY <1>1, <1>5, <1>7, <1>15, <2>1, GraphKept
  <1> QED  BY <1>8, <1>9, <1>10, <1>12, <1>14, <1>15 DEF Flow

\* The tasks of the body are reset one by one.
LEMMA FlowResetTask ==
    ASSUME Known, Flow, NotNested, NEW t \in Threads, ResetTask(t)
    PROVE  Flow'
  <1>0. PICK k \in job[t].todo :
            /\ state' = [state EXCEPT ![k] = "NONE"] /\ deps' = [deps EXCEPT ![k] = 0]
            /\ SetJob(t, [job[t] EXCEPT !.todo = @ \ {k}])
    BY DEF ResetTask, Reset
  <1>1. pc[t] = "reset" /\ UNCHANGED <<varTask, remaining, pc>> /\ job[t] \in Jobs
    BY ThreadKnown DEF ResetTask
  <1>2. PICK g \in SubGraphs :
        /\ job[t].task = Exit[g] /\ IsHome(job[t]) /\ job[t].todo \subseteq Body[g]
        /\ remaining[g] >= 1 /\ state[Entry[g]] = "DONE" /\ state[Exit[g]] = "PENDING"
        /\ \A b \in Body[g] : IF b \in job[t].todo THEN state[b] = "DONE"
                              ELSE state[b] = "NONE" /\ deps[b] = 0
    BY <1>1 DEF Flow, AllAtWork, AtWork, AtReset
  <1>3. PICK j : j = [job[t] EXCEPT !.todo = @ \ {k}]
    OBVIOUS
  <1>4. j.task = Exit[g] /\ j.sub = job[t].sub /\ j.todo = job[t].todo \ {k}
    BY <1>1, <1>2, <1>3 DEF Jobs
  <1>5. Moves(t, "reset", j)
    BY <1>0, <1>1, <1>3, ThreadHere DEF Moves, SetJob, Known, LocalInv
  <1>6. pc'[t] = "reset" /\ job'[t] = j
    BY <1>5, MovesOne
  <1>7. /\ Held(t, g) /\ GraphOK(g) /\ k \in Body[g] /\ k \in Tasks /\ k \notin SubGraphEnds
        /\ k \in Area(g) /\ k # Entry[g] /\ k # Exit[g] /\ state[k] = "DONE"
    BY <1>1, <1>2, AreaEdges, EndsApart DEF Held, AtEnd, Flow, Area, Parts
  <1>8. /\ state'[k] = "NONE" /\ deps'[k] = 0
        /\ \A x \in Tasks : x # k => state'[x] = state[x] /\ deps'[x] = deps[x]
    BY <1>0, <1>7 DEF Known, LocalInv, SharedOK
  <1>9. \A h \in SubGraphs : h # g => k \notin Area(h)
    BY <1>7, AreasApart
  <1>10. AllAtWork'
    <2>1. AtReset(j)'
      <3>1. \A b \in Body[g] : IF b \in j.todo THEN state'[b] = "DONE"
                               ELSE state'[b] = "NONE" /\ deps'[b] = 0
        BY <1>2, <1>4, <1>8, AreaEdges
      <3> QED  BY <1>1, <1>2, <1>4, <1>7, <1>8, <3>1, EndsApart DEF AtReset, IsHome
    <2>2. AtWork("reset", j)'
      BY <2>1 DEF AtWork
    <2>3. ASSUME NEW u \in Threads, u # t, NEW h \in SubGraphs, Held(u, h)
          PROVE  \A x \in Area(h) : state'[x] = state[x] /\ deps'[x] = deps[x]
      <3>1. h # g
        BY <1>7, <2>3, HeldAlone
      <3> QED  BY <1>8, <1>9, <3>1, AreaEdges DEF Area, Parts
    <2> QED  BY <1>1, <1>5, <1>7, <1>8, <2>2, <2>3, HeldBody, AllAtWorkMoves
  <1>11. Alone'
    BY <1>1, <1>2, <1>4, <1>5, <1>6, AloneMoves DEF Acts
  <1>12. VarTasksOpen'
    BY <1>1, <1>7, <1>8, VarTasksKept
  <1>13. \A h : Resetting(h)' <=> Resetting(h)
    BY <1>1, <1>2, <1>4, <1>5, ResettingMoves
  <1>14. Resetting(g)
    BY <1>1, <1>2 DEF Resetting
  <1>15. DepsCounted'
    <2> SUFFICES ASSUME NEW n \in Tasks PROVE deps'[n] =< Target(n) /\ (Counts(n)' => CountedAt(n)')
      BY DEF DepsCounted
    <2>1. \A p : Undelivered(p, n)' <=> Undelivered(p, n)
      BY <1>1, <1>5, UndeliveredMoves
    <2>2. Counts(n)' => Counts(n) /\ n \notin Parts(g)
      BY <1>1, <1>13, <1>14 DEF Counts, Over
    <2>3. n \notin Parts(g) => n # k /\ k \notin Preds(n)
      BY <1>7, AreaEdges DEF Parts, Preds
    <2>4. \A p \in Preds(n) : p \in Tasks
      BY DEF Preds
    <2>5. CASE n = k
      BY <1>7, <1>8, <2>2, <2>5, PredsFinite DEF Parts
    <2>6. CASE n # k
      BY <1>1, <1>8, <2>1, <2>2, <2>3, <2>4, <2>6, CountKept DEF Flow
    <2> QED  BY <2>5, <2>6
  <1>16. GraphOK(g)'
    <2>1. /\ ~Over(g)' /\ Resetting(g)' /\ remaining'[g] = remaining[g]
          /\ state'[Entry[g]] = "DONE" /\ state'[Exit[g]] = "PENDING"
      BY <1>1, <1>2, <1>7, <1>8, <1>13, <1>14, EndsApart DEF Over
    <2>2. AllTold(g)'
      BY <1>5, <1>6, <1>7, <1>14, MovesOne DEF GraphOK, AllTold
    <2> QED  BY <1>2, <1>7, <2>1, <2>2 DEF GraphOK, EndsOK, NotBegun, EntryTaken, ExitReached, OverMeansDone
  <1>17. ASSUME NEW h \in SubGraphs, h # g PROVE GraphOK(h)'
    <2>1. ~Held(t, h) /\ ~Held(t, h)'
      BY <1>2, <1>4, <1>6, <1>17, EndsApart DEF Held
    <2>2. \A x \in Area(h) : state'[x] = state[x]
      BY <1>8, <1>9, <1>17, AreaEdges DEF Area, Parts
    <2> QED  BY <1>1, <1>5, <2>1, <2>2, GraphKept
  <1> QED  BY <1>10, <1>11, <1>12, <1>15, <1>16, <1>17 DEF Flow

\* The exit is reset last, and the thread that resets it is at the exit.
LEMMA FlowResetExit ==
    ASSUME Known, Flow, NotNested, NEW t \in Threads, ResetExit(t)
    PROVE  Flow'
  <1>1. pc[t] = "reset" /\ job[t].todo = {} /\ UNCHANGED <<varTask, remaining, job>> /\ job[t] \in Jobs
    BY ThreadKnown DEF ResetExit
  <1> PICK j : j = job[t]
    OBVIOUS
  <1>2. PICK g \in SubGraphs :
        /\ job[t].task = Exit[g] /\ IsHome(job[t]) /\ job[t].todo \subseteq Body[g]
        /\ remaining[g] >= 1 /\ state[Entry[g]] = "DONE" /\ state[Exit[g]] = "PENDING"
        /\ \A b \in Body[g] : IF b \in job[t].todo THEN state[b] = "DONE"
                              ELSE state[b] = "NONE" /\ deps[b] = 0
    BY <1>1 DEF Flow, AllAtWork, AtWork, AtReset
  <1>3. PICK h \in SubGraphs :
            /\ job[t].task \in {Entry[h], Exit[h]}
            /\ state' = [state EXCEPT ![Exit[h]] = "NONE"] /\ deps' = [deps EXCEPT ![Exit[h]] = 0]
            /\ Goto(t, IF job[t].task = Entry[h] THEN "done" ELSE "restart")
    BY DEF ResetExit, Reset
  <1>4. h = g
    BY <1>2, <1>3, EndsApart
  <1>5. Moves(t, "restart", j)
    BY <1>1, <1>2, <1>3, <1>4, EndsApart, ThreadHere DEF Moves, Goto, Known, LocalInv
  <1>6. pc'[t] = "restart" /\ job'[t] = j
    BY <1>5, MovesOne
  <1>7. /\ Held(t, g) /\ GraphOK(g) /\ Exit[g] \in Tasks /\ Exit[g] \in Area(g) /\ Exit[g] \in Parts(g)
        /\ Exit[g] \notin Body[g] /\ Exit[g] # Entry[g] /\ Body[g] \subseteq Tasks /\ Entry[g] \in Tasks
        /\ Acts(t, Exit[g])
    BY <1>1, <1>2, AreaEdges DEF Held, AtEnd, Flow, Area, Parts, Acts
  <1>8. /\ state'[Exit[g]] = "NONE" /\ deps'[Exit[g]] = 0
        /\ \A x \in Tasks : x # Exit[g] => state'[x] = state[x] /\ deps'[x] = deps[x]
    BY <1>3, <1>4, <1>7 DEF Known, LocalInv, SharedOK
  <1>9. \A x \in SubGraphs : x # g => Exit[g] \notin Area(x)
    BY <1>7, AreasApart
  <1>10. AllAtWork'
    <2>1. AtRestart(j)'
      BY <1>1, <1>2, <1>7, <1>8 DEF AtRestart, IsHome, Parts
    <2>2. AtWork("restart", j)'
      BY <2>1 DEF AtWork
    <2>3. ASSUME NEW u \in Threads, u # t, NEW x \in SubGraphs, Held(u, x)
          PROVE  \A y \in Area(x) : state'[y] = state[y] /\ deps'[y] = deps[y]
      <3>1. x # g
        BY <1>7, <2>3, HeldAlone
      <3> QED  BY <1>8, <1>9, <3>1, AreaEdges DEF Area, Parts
    <2>4. ASSUME NEW u \in Threads, u # t PROVE ~Acts(u, Exit[g]) /\ ~(Invokes(u) /\ job[u].task = Exit[g])
      <3>1. ~(Invokes(u) /\ job[u].task = Exit[g])
        BY <1>2, RunsHome
      <3> QED  BY <1>7, <2>4, <3>1 DEF Flow, Alone
    <2> QED  BY <1>1, <1>5, <1>6, <1>8, <2>2, <2>3, <2>4, AllAtWorkMoves
  <1>11. Alone'
    BY <1>1, <1>5, <1>6, AloneMoves DEF Acts
  <1>12. VarTasksOpen'
    BY <1>1, <1>2, <1>8, VarTasksKept
  <1>13. \A x : Resetting(x)' <=> Resetting(x)
    BY <1>1, <1>5, ResettingMoves
  <1>14. Resetting(g)
    BY <1>1, <1>2 DEF Resetting
  <1>15. DepsCounted'
    <2> SUFFICES ASSUME NEW n \in Tasks PROVE deps'[n] =< Target(n) /\ (Counts(n)' => CountedAt(n)')
      BY DEF DepsCounted
    <2>1. \A p : Undelivered(p, n)' <=> Undelivered(p, n)
      BY <1>1, <1>5, UndeliveredMoves
    <2>2. Counts(n)' => Counts(n) /\ n \notin Parts(g)
      BY <1>1, <1>13, <1>14 DEF Counts, Over
    <2>3. \A p \in Preds(n) : p \in Tasks
      BY DEF Preds
    <2>4. CASE n = Exit[g]
      BY <1>7, <1>8, <2>2, <2>4, PredsFinite
    <2>5. CASE n # Exit[g]
      <3>1. \A p \in Preds(n) : state'[p] = "DONE" <=> state[p] = "DONE"
        BY <1>2, <1>8, <2>3
      <3> QED  BY <1>1, <1>8, <2>1, <2>2, <2>5, <3>1, CountKept DEF Flow
    <2> QED  BY <2>4, <2>5
  <1>16. GraphOK(g)'
    <2>1. /\ ~Over(g)' /\ Resetting(g)' /\ remaining'[g] = remaining[g]
          /\ state'[Entry[g]] = "DONE" /\ state'[Exit[g]] = "NONE"
      BY <1>1, <1>2, <1>7, <1>8, <1>13, <1>14 DEF Over
    <2>2. AllTold(g)'
      BY <1>1, <1>5, <1>6, <1>7, <1>14, MovesOne DEF GraphOK, AllTold
    <2> QED  BY <1>2, <1>7, <2>1, <2>2 DEF GraphOK, EndsOK, NotBegun, EntryTaken, ExitReached, OverMeansDone
  <1>17. ASSUME NEW x \in SubGraphs, x # g PROVE GraphOK(x)'
    <2>1. ~Held(t, x) /\ ~Held(t, x)'
      BY <1>2, <1>6, <1>17, EndsApart DEF Held
    <2>2. \A y \in Area(x) : state'[y] = state[y]
      BY <1>8, <1>9, <1>17, AreaEdges DEF Area, Parts
    <2> QED  BY <1>1, <1>5, <2>1, <2>2, GraphKept
  <1> QED  BY <1>10, <1>11, <1>12, <1>15, <1>16, <1>17 DEF Flow

\* The exit makes the entry pending again, when everything in between is reset.
LEMMA FlowRestart ==
    ASSUME Known, Flow, NotNested, NEW t \in Threads, RestartSubGraph(t)
    PROVE  Flow'
  <1>1. pc[t] = "restart" /\ job[t].todo = {} /\ UNCHANGED <<deps, varTask, remaining>> /\ job[t] \in Jobs
    BY ThreadKnown DEF RestartSubGraph
  <1>2. PICK g \in SubGraphs :
        /\ job[t].task = Exit[g] /\ IsHome(job[t])
        /\ remaining[g] >= 1 /\ state[Entry[g]] = "DONE"
        /\ \A b \in Parts(g) : state[b] = "NONE" /\ deps[b] = 0
    BY <1>1 DEF Flow, AllAtWork, AtWork, AtRestart
  <1>3. /\ state' = [state EXCEPT ![Entry[g]] = "PENDING"]
        /\ SetJob(t, [job[t] EXCEPT !.publish = {SubGroupOf[Entry[g]]}])
    BY <1>2, EndsApart, ZenonT(30) DEF RestartSubGraph
  <1>4. PICK j : j = [job[t] EXCEPT !.publish = {SubGroupOf[Entry[g]]}]
    OBVIOUS
  <1>5. j.task = Exit[g] /\ j.sub = job[t].sub /\ j.todo = {}
    BY <1>1, <1>2, <1>4 DEF Jobs
  <1>6. Moves(t, "notify", j)
    BY <1>3, <1>4 DEF Moves, SetJob, Goto, RestartSubGraph
  <1>7. pc'[t] = "notify" /\ job'[t] = j
    BY <1>6, MovesOne
  <1>8. /\ Held(t, g) /\ GraphOK(g) /\ Entry[g] \in Tasks /\ Exit[g] \in Tasks /\ Body[g] \subseteq Tasks
        /\ Entry[g] \notin Parts(g) /\ Entry[g] # Exit[g] /\ Entry[g] \in Area(g)
        /\ Parts(g) \subseteq Tasks /\ Exit[g] \in Parts(g) /\ Body[g] \subseteq Parts(g)
    BY <1>1, <1>2, AreaEdges DEF Held, AtEnd, Flow, Area, Parts
  <1>9. state'[Entry[g]] = "PENDING" /\ \A x \in Tasks : x # Entry[g] => state'[x] = state[x]
    BY <1>3, <1>8 DEF Known, LocalInv, SharedOK
  <1>10. \A h \in SubGraphs : h # g => Entry[g] \notin Area(h)
    BY <1>8, AreasApart
  <1>11. ASSUME NEW u \in Threads PROVE ~Acts(u, Entry[g]) /\ ~(Invokes(u) /\ job[u].task = Entry[g])
    <2>1. ~(Invokes(u) /\ job[u].task = Entry[g])
      BY <1>2, RunsHome
    <2>2. ASSUME Acts(u, Entry[g]) PROVE FALSE
      <3>1. job[u].task = Entry[g] /\ AtWork(pc[u], job[u])
        BY <2>2 DEF Acts, Flow, AllAtWork
      <3>2. pc[u] \notin {"run", "windup"}
        BY <1>2, <3>1 DEF AtWork, AtRun
      <3>3. ~Held(u, g)
        BY <1>2, <1>8, <3>1, HeldAlone
      <3>4. pc[u] = "notify" /\ job[u].todo # {}
        BY <2>2, <3>1, <3>2, <3>3 DEF Acts, Held, AtEnd
      <3> QED  BY <1>8, <3>1, <3>4, HeldFacts
    <2> QED  BY <2>1, <2>2
  <1>12. AllAtWork'
    <2>1. AtNotify(j)'
      BY <1>2, <1>5 DEF AtNotify, IsHome
    <2>2. AtWork("notify", j)'
      BY <2>1 DEF AtWork
    <2>3. ASSUME NEW u \in Threads, u # t, NEW h \in SubGraphs, Held(u, h)
          PROVE  \A x \in Area(h) : state'[x] = state[x]
      <3>1. h # g
        BY <1>8, <2>3, HeldAlone
      <3> QED  BY <1>9, <1>10, <3>1, AreaEdges DEF Area, Parts
    <2> QED  BY <1>1, <1>6, <1>9, <1>11, <2>2, <2>3, AllAtWorkMoves
  <1>13. Alone'
    BY <1>5, <1>6, <1>7, AloneMoves DEF Acts
  <1>14. VarTasksOpen'
    BY <1>1, <1>2, <1>9, VarTasksKept
  <1>15. \A h \in SubGraphs : h # g => (Resetting(h)' <=> Resetting(h))
    BY <1>1, <1>2, <1>6, EndsApart, ResettingMoves
  <1>16. ~Resetting(g)' /\ ~Over(g)' /\ ~Over(g)
    <2>1. ~Resetting(g)'
      <3> SUFFICES ASSUME NEW u \in Threads, pc'[u] \in {"reset", "restart"}, job'[u].task = Exit[g]
                   PROVE  FALSE
        BY DEF Resetting
      <3>1. u # t
        BY <1>7
      <3>2. Held(u, g)
        BY <1>6, <3>1, MovesOne DEF Held, AtEnd
      <3> QED  BY <1>8, <3>1, <3>2, HeldAlone
    <2> QED  BY <1>1, <1>2, <2>1 DEF Over
  <1>17. \A p, n : Undelivered(p, n)' <=> Undelivered(p, n)
    BY <1>1, <1>5, <1>6, UndeliveredMoves
  <1>18. DepsCounted'
    <2> SUFFICES ASSUME NEW n \in Tasks PROVE deps'[n] =< Target(n) /\ (Counts(n)' => CountedAt(n)')
      BY DEF DepsCounted
    <2>1. CASE n \in Parts(g)
      <3>1. Preds(n) # {} /\ Preds(n) \subseteq Body[g] \cup {Entry[g]}
        BY <2>1, AreaEdges
      <3>2. \A p \in Preds(n) : state'[p] # "DONE"
        BY <1>2, <1>8, <1>9, <3>1
      <3>3. Delivered(n)' = {}
        BY <3>2 DEF Delivered
      <3>4. deps'[n] = 0 /\ state'[n] = "NONE"
        BY <1>1, <1>2, <1>8, <1>9, <2>1
      <3> QED  BY <3>1, <3>3, <3>4, FS_EmptySet, PredsFinite DEF CountedAt
    <2>2. CASE n \notin Parts(g)
      <3>1. Counts(n)' => Counts(n)
        BY <1>1, <1>15, <2>2 DEF Counts, Over
      <3>2. Entry[g] \notin Preds(n)
        BY <2>2, AreaEdges DEF Preds
      <3>3. \A p \in Preds(n) : state'[p] = state[p]
        BY <1>9, <3>2 DEF Preds
      <3>4. state'[n] = "NONE" <=> state[n] = "NONE"
        BY <1>2, <1>9
      <3> QED  BY <1>1, <1>17, <3>1, <3>3, <3>4, CountKept DEF Flow
    <2> QED  BY <2>1, <2>2
  <1>19. GraphOK(g)'
    <2>1. \A x \in Parts(g) : state'[x] = "NONE"
      BY <1>2, <1>8, <1>9
    <2> QED  BY <1>1, <1>2, <1>8, <1>9, <1>16, <2>1
             DEF GraphOK, EndsOK, NotBegun, EntryTaken, ExitReached, OverMeansDone, AllTold
  <1>20. ASSUME NEW h \in SubGraphs, h # g PROVE GraphOK(h)'
    <2>1. ~Held(t, h) /\ ~Held(t, h)'
      BY <1>2, <1>5, <1>7, <1>20, EndsApart DEF Held
    <2>2. \A x \in Area(h) : state'[x] = state[x]
      BY <1>9, <1>10, <1>20, AreaEdges DEF Area, Parts
    <2> QED  BY <1>1, <1>5, <1>6, <2>1, <2>2, GraphKept
  <1> QED  BY <1>12, <1>13, <1>14, <1>18, <1>19, <1>20 DEF Flow

------------------------------------------------------------------------------
(***************************************************************************)
(* An execution starts.  The words of the variadic tasks are not reset, so *)
(* that no invocation may be left over from the execution before.          *)
(***************************************************************************)
CleanStart ==
    AllExited /\ round < MaxRounds => \A s \in SubGroups : varTask[s].cnt = 0

\* The graph before its first execution.
Unstarted ==
    /\ AllExited
    /\ state = [k \in Tasks |-> "NONE"] /\ deps = [k \in Tasks |-> 0]
    /\ \A s \in SubGroups : varTask[s].cnt = 0

FlowInv == (round = 0 => Unstarted) /\ (round # 0 => Flow)

\* At the start of an execution, the tasks with nothing before them are pending.
LEMMA FlowPrepare ==
    ASSUME OrderedGraph, Prepare, \A s \in SubGroups : varTask[s].cnt = 0
    PROVE  Flow'
  <1>1. /\ varTask' = varTask
        /\ \A k \in Tasks : /\ state'[k] = IF k \in PendingOnStart THEN "PENDING" ELSE "NONE"
                            /\ deps'[k] = 0
        /\ \A g \in SubGraphs : remaining'[g] = -1
        /\ \A t \in Threads : pc'[t] = "ready"
    BY DEF Prepare
  <1>2. DepsCounted'
    <2> SUFFICES ASSUME NEW n \in Tasks PROVE deps'[n] =< Target(n) /\ CountedAt(n)'
      BY DEF DepsCounted
    <2>1. \A p \in Preds(n) : state'[p] # "DONE"
      BY <1>1 DEF Preds
    <2>2. Delivered(n)' = {}
      BY <2>1 DEF Delivered
    <2>3. n \in PendingOnStart <=> Preds(n) = {}
      BY DEF OrderedGraph, StartedInOrder
    <2> QED  BY <1>1, <2>2, <2>3, FS_EmptySet, PredsFinite DEF CountedAt
  <1>3. AllAtWork'
    BY <1>1 DEF AllAtWork, AtWork
  <1>4. VarTasksOpen'
    BY <1>1 DEF VarTasksOpen
  <1>5. Alone'
    BY <1>1 DEF Alone, Acts
  <1>6. ASSUME NEW g \in SubGraphs PROVE GraphOK(g)'
    <2>1. \A k \in Parts(g) : k \in Tasks /\ k \notin PendingOnStart
      BY AreaEdges DEF OrderedGraph, StartedInOrder, Parts
    <2>2. \A k \in Parts(g) : state'[k] = "NONE"
      BY <1>1, <2>1
    <2>3. state'[Entry[g]] \in {"PENDING", "NONE"} /\ state'[Exit[g]] = "NONE" /\ remaining'[g] = -1
      BY <1>1, <2>2, EndsApart DEF Parts
    <2>4. ~Over(g)' /\ ~Resetting(g)'
      BY <1>1, <2>3 DEF Over, Resetting
    <2> QED  BY <2>2, <2>3, <2>4
             DEF GraphOK, EndsOK, NotBegun, EntryTaken, ExitReached, OverMeansDone, AllTold
  <1> QED  BY <1>2, <1>3, <1>4, <1>5, <1>6 DEF Flow

\* Every step of a thread keeps the flow.
LEMMA FlowStep ==
    ASSUME Known, Flow, OrderedGraph, NEW t \in Threads, Step(t)
    PROVE  Flow'
  <1>1. NotNested /\ Acyclic
    BY DEF OrderedGraph
  <1>2. CASE \/ CallDoThread(t) \/ LoadPending(t) \/ LoadExecuting(t) \/ EnterFails(t)
             \/ CheckTask(t) \/ MarkSleeping(t) \/ ClearPending(t) \/ PassTask(t)
             \/ AnnounceVarTask(t) \/ LeaveSubgroup(t)
    BY <1>1, <1>2, FlowIdle
  <1>3. CASE EnterSubgroup(t) \/ AcquireVarTask(t) \/ GatherThreads(t) \/ WakeThreads(t)
    BY <1>1, <1>3, FlowEnter, FlowAcquire, FlowWake
  <1>4. CASE StartTask(t) \/ WindUpVarTask(t) \/ FinishVarTask(t) \/ MarkDone(t)
    BY <1>1, <1>4, FlowStart, FlowWindUp, FlowFinish, FlowDone
  <1>5. CASE NotifyNext(t) \/ PublishGroup(t)
    BY <1>1, <1>5, FlowNotify, FlowPublish
  <1>6. CASE EnterSubGraph(t) \/ SkipTask(t) \/ SkipEnds(t) \/ LeaveSubGraph(t)
    BY <1>1, <1>6, FlowEnterSubGraph, FlowSkipTask, FlowSkipEnds, FlowLeaveSubGraph
  <1>7. CASE ResetTask(t) \/ ResetExit(t) \/ RestartSubGraph(t)
    BY <1>1, <1>7, FlowResetTask, FlowResetExit, FlowRestart
  <1> QED  BY <1>2, <1>3, <1>4, <1>5, <1>6, <1>7 DEF Step

\* A thread that takes a step is not one that has exited; the others stay where they are,
\* and no step of a thread starts an execution.
LEMMA StepFrame ==
    ASSUME LocalInv, NEW t \in Threads, Step(t)
    PROVE  /\ pc[t] # "exited" /\ round' = round
           /\ \A u \in Threads : u # t => pc'[u] = pc[u]
  <1> USE DEF Goto, graphState
  <1>1. pc \in [Threads -> Labels]
    BY DEF LocalInv, ThreadsOK
  <1>2. CASE CallDoThread(t) \/ LoadPending(t) \/ LoadExecuting(t) \/ EnterFails(t)
    BY <1>1, <1>2 DEF CallDoThread, LoadPending, LoadExecuting, EnterFails, NextSubgroup, NextGroup
  <1>3. CASE CheckTask(t) \/ MarkSleeping(t) \/ ClearPending(t) \/ PassTask(t)
    BY <1>1, <1>3 DEF CheckTask, MarkSleeping, ClearPending, PassTask, Return, Scans
  <1>4. CASE AnnounceVarTask(t) \/ LeaveSubgroup(t) \/ EnterSubgroup(t) \/ AcquireVarTask(t)
    BY <1>1, <1>4 DEF AnnounceVarTask, LeaveSubgroup, EnterSubgroup, AcquireVarTask,
                      NextSubgroup, NextGroup
  <1>5. CASE GatherThreads(t) \/ WakeThreads(t) \/ StartTask(t) \/ WindUpVarTask(t)
    BY <1>1, <1>5 DEF GatherThreads, WakeThreads, StartTask, WindUpVarTask, Scans
  <1>6. CASE FinishVarTask(t)
    BY <1>1, <1>6 DEF FinishVarTask, NextSubgroup, NextGroup
  <1>7. CASE MarkDone(t) \/ NotifyNext(t) \/ PublishGroup(t)
    BY <1>1, <1>7 DEF MarkDone, NotifyNext, PublishGroup
  <1>8. CASE EnterSubGraph(t) \/ SkipTask(t) \/ SkipEnds(t) \/ LeaveSubGraph(t)
    BY <1>1, <1>8 DEF EnterSubGraph, SkipTask, SkipEnds, LeaveSubGraph, Scans
  <1>9. CASE ResetTask(t) \/ ResetExit(t) \/ RestartSubGraph(t)
    BY <1>1, <1>9 DEF ResetTask, ResetExit, RestartSubGraph
  <1> QED  BY <1>2, <1>3, <1>4, <1>5, <1>6, <1>7, <1>8, <1>9 DEF Step

------------------------------------------------------------------------------
(***************************************************************************)
(* The sleeping threads.                                                   *)
(***************************************************************************)
SleepersWait == \A t \in sleeping : pc[t] = "waiting"

\* A thread goes to sleep when it returns, and is called before it does anything else.
LEMMA SleepersStep ==
    ASSUME LocalInv, SleepersWait, NEW t \in Threads, Step(t)
    PROVE  SleepersWait'
  <1> USE DEF graphState
  <1>1. sleeping \subseteq Threads /\ pc \in [Threads -> Labels]
    BY DEF LocalInv, SharedOK, ThreadsOK
  <1>2. \A u \in Threads : u # t => pc'[u] = pc[u]
    BY StepFrame
  <1>3. SUFFICES /\ sleeping' \subseteq sleeping \cup {t}
                 /\ t \in sleeping' => pc'[t] = "waiting"
    BY <1>1, <1>2 DEF SleepersWait
  <1>4. CASE CallDoThread(t)
    BY <1>4 DEF CallDoThread
  <1>5. CASE MarkSleeping(t)
    BY <1>1, <1>5 DEF MarkSleeping, Return, Goto
  <1>6. CASE GatherThreads(t)
    BY <1>6 DEF GatherThreads, SleepersWait
  <1>7. ASSUME sleeping' = sleeping, pc[t] # "waiting" PROVE t \notin sleeping'
    BY <1>7 DEF SleepersWait
  <1>8. CASE LoadPending(t) \/ LoadExecuting(t) \/ EnterFails(t) \/ EnterSubgroup(t) \/ AcquireVarTask(t)
    BY <1>7, <1>8 DEF LoadPending, LoadExecuting, EnterFails, EnterSubgroup, AcquireVarTask
  <1>9. CASE CheckTask(t) \/ ClearPending(t) \/ PassTask(t) \/ AnnounceVarTask(t) \/ LeaveSubgroup(t)
    BY <1>7, <1>9 DEF CheckTask, ClearPending, PassTask, Scans, AnnounceVarTask, LeaveSubgroup
  <1>10. CASE WakeThreads(t) \/ StartTask(t) \/ WindUpVarTask(t) \/ FinishVarTask(t)
    BY <1>7, <1>10 DEF WakeThreads, StartTask, Scans, WindUpVarTask, FinishVarTask
  <1>11. CASE MarkDone(t) \/ NotifyNext(t) \/ PublishGroup(t)
    BY <1>7, <1>11 DEF MarkDone, NotifyNext, PublishGroup
  <1>12. CASE EnterSubGraph(t) \/ SkipTask(t) \/ SkipEnds(t) \/ LeaveSubGraph(t)
    BY <1>7, <1>12 DEF EnterSubGraph, SkipTask, SkipEnds, LeaveSubGraph, Scans
  <1>13. CASE ResetTask(t) \/ ResetExit(t) \/ RestartSubGraph(t)
    BY <1>7, <1>13 DEF ResetTask, ResetExit, RestartSubGraph
  <1> QED  BY <1>4, <1>5, <1>6, <1>8, <1>9, <1>10, <1>11, <1>12, <1>13 DEF Step

\* A thread whose bit is set in sleepingThreadsMask is outside doThread.
LEMMA SleepersInvariant == Spec => []SleepersWait
  <1>1. Init => SleepersWait
    BY DEF Init, SleepersWait
  <1>2. ASSUME LocalInv, SleepersWait, [Next]_vars PROVE SleepersWait'
    <2>1. CASE UNCHANGED vars \/ Finished
      BY <1>2, <2>1 DEF vars, Finished, SleepersWait
    <2>2. CASE Prepare
      BY <2>2 DEF Prepare, SleepersWait
    <2>3. ASSUME NEW t \in Threads, Step(t) PROVE SleepersWait'
      BY <1>2, <2>3, SleepersStep
    <2> QED  BY <1>2, <2>1, <2>2, <2>3 DEF Next
  <1> QED  BY <1>1, <1>2, LocalInvariant, PTL DEF Spec

------------------------------------------------------------------------------
(***************************************************************************)
(* The flow in every execution.                                            *)
(***************************************************************************)

\* What was proved of the executor before holds in every state.
LEMMA KnownInvariant == Spec => []Known
  <1>1. LocalInv /\ LookoutInv /\ [Next]_vars => LookoutInv'
    BY LookoutNext
  <1>2. Spec => []LookoutInv
    BY <1>1, LookoutInit, LocalInvariant, PTL DEF Spec
  <1> QED  BY <1>2, OwnershipInvariant, PTL DEF Known

\* Every step keeps the flow.
LEMMA FlowNext ==
    ASSUME OrderedGraph, Known, FlowInv, CleanStart, [Next]_vars
    PROVE  FlowInv'
  <1>1. CASE UNCHANGED vars \/ Finished
    <2>1. UNCHANGED vars
      BY <1>1 DEF Finished
    <2>2. Flow' <=> Flow
      BY <2>1 DEF vars, graphState, Flow, DepsCounted, Counts, CountedAt, Delivered, Undelivered, Over,
                  Resetting, AllAtWork, AtWork, AtRun, AtDone, AtEntry, AtExit, AtNotify, AtSkip, AtReset,
                  AtRestart, IsHome, IsAway, VarTasksOpen, Alone, Acts, GraphOK, EndsOK, NotBegun,
                  EntryTaken, Held, ExitReached, OverMeansDone, Skipped, AllDone, AllTold
    <2>3. Unstarted' <=> Unstarted
      BY <2>1 DEF vars, graphState, Unstarted, AllExited
    <2> QED  BY <2>1, <2>2, <2>3 DEF FlowInv, vars
  <1>2. CASE Prepare
    <2>1. Flow'
      BY <1>2, FlowPrepare DEF CleanStart, Prepare
    <2>2. round' # 0
      BY <1>2 DEF Prepare, Known, LocalInv, SharedOK
    <2> QED  BY <2>1, <2>2 DEF FlowInv
  <1>3. ASSUME NEW t \in Threads, Step(t) PROVE FlowInv'
    <2>1. pc[t] # "exited" /\ round' = round
      BY <1>3, StepFrame DEF Known
    <2>2. round # 0
      BY <2>1 DEF FlowInv, Unstarted, AllExited
    <2>3. Flow'
      BY <1>3, <2>2, FlowStep DEF FlowInv
    <2> QED  BY <2>1, <2>2, <2>3 DEF FlowInv
  <1> QED  BY <1>1, <1>2, <1>3 DEF Next

\* The flow is kept from the first execution on.
LEMMA FlowInvariant ==
    ASSUME OrderedGraph
    PROVE  Spec /\ []CleanStart => []FlowInv
  <1>1. Init => FlowInv
    BY DEF Init, FlowInv, Unstarted, AllExited, NoVarTask
  <1>2. Known /\ FlowInv /\ CleanStart /\ [Next]_vars => FlowInv'
    BY FlowNext
  <1> QED  BY <1>1, <1>2, KnownInvariant, PTL DEF Spec

------------------------------------------------------------------------------
(***************************************************************************)
(* What follows from the flow.                                             *)
(***************************************************************************)

\* Before the first execution no task has left its first state.
LEMMA UnstartedTasks ==
    ASSUME Unstarted
    PROVE  /\ \A k \in Tasks : state[k] = "NONE" /\ deps[k] = 0
           /\ \A t \in Threads : pc[t] = "exited"
  BY DEF Unstarted, AllExited

\* A task that is not being reset and not in a sub-graph that is over waits for all
\* tasks before it.
LEMMA ActiveAfterPreds ==
    ASSUME Known, Flow, NotNested, NEW k \in Tasks, NEW p \in Preds(k),
           state[k] = "EXECUTING" \/ (state[k] = "PENDING" /\ \A g \in SubGraphs : k # Exit[g])
    PROVE  state[p] = "DONE"
  <1>1. Counts(k)
    <2> SUFFICES ASSUME NEW g \in SubGraphs, k \in Parts(g) PROVE ~Over(g) /\ ~Resetting(g)
      BY DEF Counts
    <2>1. k \in Body[g]
      BY DEF Parts, Flow, GraphOK, EndsOK
    <2> QED  BY <2>1, BodyActive
  <1>2. Delivered(k) = Preds(k)
    BY <1>1 DEF Flow, DepsCounted, CountedAt
  <1> QED  BY <1>2 DEF Delivered

\* A task is found pending, or is executing, only when every task before it is done,
\* whatever the threads tell each other in between (afterTaskDone, setNext).
THEOREM OrderIsRespected ==
    ASSUME OrderedGraph
    PROVE  Spec /\ []CleanStart => []OrderRespected
  <1>1. ASSUME Known, FlowInv PROVE OrderRespected
    <2>1. CASE round = 0
      BY <1>1, <2>1, UnstartedTasks DEF FlowInv, OrderRespected
    <2>2. CASE round # 0
      <3>1. Flow /\ NotNested
        BY <1>1, <2>2 DEF FlowInv, OrderedGraph
      <3> QED  BY <1>1, <3>1, ActiveAfterPreds DEF OrderRespected
    <2> QED  BY <2>1, <2>2
  <1> QED  BY <1>1, KnownInvariant, FlowInvariant, PTL

\* The iterations of a sub-graph follow one another, and what comes after the sub-graph
\* follows the last one (doSubGraphTask, resetSubgraphTasks).
THEOREM IterationsAreInSequence ==
    ASSUME OrderedGraph
    PROVE  Spec /\ []CleanStart => []IterationsInSequence
  <1>1. ASSUME Known, FlowInv PROVE IterationsInSequence
    <2>1. CASE round = 0
      <3>1. \A k \in Tasks : state[k] = "NONE"
        BY <1>1, <2>1, UnstartedTasks DEF FlowInv
      <3>2. \A g \in SubGraphs : Body[g] \subseteq Tasks /\ NextTasks[Exit[g]] \subseteq Tasks
        BY GraphAssumption DEF WellFormed
      <3> QED  BY <3>1, <3>2 DEF IterationsInSequence
    <2>2. CASE round # 0
      <3>1. Flow /\ NotNested
        BY <1>1, <2>2 DEF FlowInv, OrderedGraph
      <3>2. ASSUME NEW g \in SubGraphs, NEW k \in Body[g], state[k] \in {"PENDING", "EXECUTING"}
            PROVE  state[Entry[g]] = "DONE" /\ state[Exit[g]] = "NONE"
        BY <1>1, <3>1, <3>2, BodyActive
      <3>3. ASSUME NEW g \in SubGraphs, NEW k \in NextTasks[Exit[g]], state[k] \in {"PENDING", "EXECUTING"}
            PROVE  remaining[g] = -2 /\ state[Exit[g]] = "DONE"
        <4>1. k \in Tasks /\ Exit[g] \in Preds(k)
          BY GraphAssumption DEF Preds, WellFormed
        <4>2. \A h \in SubGraphs : k # Exit[h]
          BY <3>1, <4>1, AreaEdges, EndsApart DEF Parts
        <4>3. state[Exit[g]] = "DONE"
          BY <1>1, <3>1, <3>3, <4>1, <4>2, ActiveAfterPreds
        <4> QED  BY <3>1, <4>3 DEF Flow, GraphOK, EndsOK, Over
      <3> QED  BY <3>2, <3>3 DEF IterationsInSequence
    <2> QED  BY <2>1, <2>2
  <1> QED  BY <1>1, KnownInvariant, FlowInvariant, PTL

\* No assertion of the executor fails (task_graph_execute.cpp; the lines are named in
\* the property).
THEOREM NoAssertionFails ==
    ASSUME OrderedGraph
    PROVE  Spec /\ []CleanStart => []AssertionsHold
  <1>1. ASSUME Known, FlowInv, SleepersWait PROVE AssertionsHold
    <2>1. CASE round = 0
      BY <1>1, <2>1, UnstartedTasks, PredsFinite DEF FlowInv, AssertionsHold, Scans
    <2>2. CASE round # 0
      <3>0. Flow /\ NotNested
        BY <1>1, <2>2 DEF FlowInv, OrderedGraph
      <3>1. ASSUME NEW t \in Threads, pc[t] = "gather", job[t].own PROVE sleeping # Threads
        BY <1>1, <3>1 DEF SleepersWait
      <3>2. ASSUME NEW t \in Threads, pc[t] = "windup"
            PROVE  varLeft[job[t].sub] = 0 /\ varTask[job[t].sub].cnt = 0
        <4>1. job[t].own /\ job[t].sub \in SubGroups
          BY <1>1, <3>2, ThreadKnown DEF Owning
        <4> QED  BY <1>1, <4>1, OwnedHasNoInvocations DEF Known
      <3>3. ASSUME NEW t \in Threads, pc[t] = "piece" PROVE varLeft[job[t].sub] > 0
        <4>1. Invokes(t) /\ job[t].sub \in SubGroups
          BY <1>1, <3>3, ThreadKnown
        <4> QED  BY <1>1, <4>1, InvocationMeansLeft DEF Known
      <3>4. ASSUME NEW t \in Threads, pc[t] = "reset", NEW k \in job[t].todo PROVE state[k] = "DONE"
        <4>1. AtReset(job[t])
          BY <3>0, <3>4 DEF Flow, AllAtWork, AtWork
        <4> QED  BY <4>1 DEF AtReset
      <3>5. ASSUME NEW t \in Threads, pc[t] = "restart", NEW g \in SubGraphs, job[t].task = Exit[g]
            PROVE  state[Entry[g]] = "DONE"
        <4>1. Held(t, g)
          BY <3>5 DEF Held, AtEnd
        <4> QED  BY <1>1, <3>0, <3>5, <4>1, HeldPhase DEF EndPhase
      <3>6. ASSUME NEW t \in Threads, NEW g \in SubGraphs, Scans(t, Exit[g]), state[Exit[g]] = "PENDING"
            PROVE  remaining[g] >= 0
        <4>1. ~Over(g)
          BY <1>1, <3>0, <3>6, ScanKnown
        <4> QED  BY <3>0, <3>6, <4>1 DEF Flow, GraphOK, EndsOK, NotBegun, Over, Parts
      <3>7. \A k \in Tasks : deps[k] =< Target(k)
        BY <3>0 DEF Flow, DepsCounted
      <3>8. ASSUME NEW t \in Threads, pc[t] = "notify", NEW n \in job[t].todo PROVE state[n] = "NONE"
        BY <1>1, <3>0, <3>8, NotifyKnown
      <3> QED  BY <3>1, <3>2, <3>3, <3>4, <3>5, <3>6, <3>7, <3>8 DEF AssertionsHold
    <2> QED  BY <2>1, <2>2
  <1> QED  BY <1>1, KnownInvariant, SleepersInvariant, FlowInvariant, PTL

\* A sub-graph that is skipped has not been touched since it was last reset.
THEOREM SkippedNeverTouched ==
    ASSUME OrderedGraph
    PROVE  Spec /\ []CleanStart => []SkippedIsUntouched
  <1>1. ASSUME Known, FlowInv PROVE SkippedIsUntouched
    <2> SUFFICES ASSUME NEW t \in Threads, pc[t] = "skip"
                 PROVE  /\ \A k \in job[t].todo : state[k] = "NONE"
                        /\ \A g \in SubGraphs : job[t].task = Entry[g] => state[Exit[g]] = "NONE"
      BY DEF SkippedIsUntouched
    <2>1. Flow
      BY <1>1, UnstartedTasks DEF FlowInv
    <2>2. AtSkip(job[t])
      BY <2>1 DEF Flow, AllAtWork, AtWork
    <2> QED  BY <2>2, EndsApart DEF AtSkip
  <1> QED  BY <1>1, KnownInvariant, FlowInvariant, PTL

\* How a step of a thread changes the states of tasks.
LEMMA StateSteps ==
    ASSUME Known, Flow, NotNested, NEW t \in Threads, Step(t), NEW k \in Tasks, state'[k] # state[k]
    PROVE  \/ state'[k] = "DONE"
           \/ state[k] = "PENDING" /\ state'[k] = "EXECUTING"
           \/ state[k] = "NONE" /\ state'[k] = "PENDING"
           \/ \E g \in SubGraphs : k \in Body[g] /\ Held(t, g) /\ state[k] = "DONE" /\ state'[k] = "NONE"
           \/ \E g \in SubGraphs : k = Exit[g] /\ state'[k] = "NONE"
           \/ \E g \in SubGraphs : k = Entry[g]
  <1>1. state \in [Tasks -> States]
    BY DEF Known, LocalInv, SharedOK
  <1>2. CASE \/ CallDoThread(t) \/ LoadPending(t) \/ LoadExecuting(t) \/ EnterFails(t)
             \/ CheckTask(t) \/ MarkSleeping(t) \/ ClearPending(t) \/ PassTask(t)
             \/ AnnounceVarTask(t) \/ LeaveSubgroup(t)
    BY <1>2, IdleMoves
  <1>3. CASE \/ EnterSubgroup(t) \/ AcquireVarTask(t) \/ GatherThreads(t) \/ WakeThreads(t)
             \/ WindUpVarTask(t) \/ FinishVarTask(t) \/ PublishGroup(t) \/ EnterSubGraph(t)
             \/ LeaveSubGraph(t)
    BY <1>3 DEF EnterSubgroup, AcquireVarTask, GatherThreads, WakeThreads, WindUpVarTask, FinishVarTask,
                PublishGroup, EnterSubGraph, LeaveSubGraph, graphState
  <1>4. CASE StartTask(t)
    BY <1>1, <1>4 DEF StartTask
  <1>5. CASE MarkDone(t)
    <2>1. job[t].task \in Tasks /\ state' = [state EXCEPT ![job[t].task] = "DONE"]
      <3>1. [job[t] EXCEPT !.todo = NextTasks[job[t].task]].task = job[t].task
        BY ThreadKnown DEF Jobs
      <3> QED  BY <1>5, <3>1, DoneKnown DEF MarkDone
    <2> QED  BY <1>1, <2>1
  <1>6. CASE NotifyNext(t)
    <2>1. PICK n \in job[t].todo : state' = state \/ state' = [state EXCEPT ![n] = "PENDING"]
      BY <1>6 DEF NotifyNext
    <2>2. state[n] = "NONE" /\ n \in Tasks
      BY <1>6, <2>1, NotifyKnown DEF NotifyNext
    <2> QED  BY <1>1, <2>1, <2>2
  <1>7. CASE SkipTask(t)
    BY <1>1, <1>7 DEF SkipTask
  <1>8. CASE SkipEnds(t)
    BY <1>1, <1>8 DEF SkipEnds
  <1>9. CASE ResetTask(t)
    <2>1. PICK b \in job[t].todo : state' = [state EXCEPT ![b] = "NONE"]
      BY <1>9 DEF ResetTask, Reset
    <2>2. AtReset(job[t]) /\ pc[t] = "reset"
      BY <1>9 DEF ResetTask, Flow, AllAtWork, AtWork
    <2>3. PICK g \in SubGraphs : job[t].task = Exit[g] /\ b \in Body[g] /\ state[b] = "DONE"
      BY <2>1, <2>2 DEF AtReset
    <2> QED  BY <1>1, <2>1, <2>2, <2>3 DEF Held, AtEnd
  <1>10. CASE ResetExit(t)
    BY <1>1, <1>10 DEF ResetExit, Reset
  <1>11. CASE RestartSubGraph(t)
    BY <1>1, <1>11 DEF RestartSubGraph
  <1> QED  BY <1>2, <1>3, <1>4, <1>5, <1>6, <1>7, <1>8, <1>9, <1>10, <1>11 DEF Step

\* A task outside every sub-graph goes from pending to executing to done, and is executed
\* once in an execution of the graph.
THEOREM ExecutedOnce ==
    ASSUME OrderedGraph
    PROVE  Spec /\ []CleanStart => OncePerExecution
  <1> DEFINE Once == round' = round =>
                \A k \in TopLevel : Progress(state[k]) =< Progress(state'[k])
  <1>1. ASSUME Known, Known', FlowInv, [Next]_vars PROVE [Once]_vars
    <2> SUFFICES ASSUME round' = round, NEW k \in TopLevel, state'[k] # state[k]
                 PROVE  Progress(state[k]) =< Progress(state'[k])
      <3>1. \A k \in TopLevel : state[k] \in States
        BY <1>1 DEF TopLevel, Known, LocalInv, SharedOK
      <3>2. \A x \in States : Progress(x) =< Progress(x)
        BY DEF States, Progress
      <3> QED  BY <3>1, <3>2
    <2>1. k \in Tasks /\ state[k] \in States
          /\ \A g \in SubGraphs : k \notin Body[g] /\ k # Entry[g] /\ k # Exit[g]
      BY <1>1 DEF TopLevel, Known, LocalInv, SharedOK
    <2>2. PICK t \in Threads : Step(t)
      BY <1>1 DEF Next, Finished, Prepare, vars, graphState, Known, LocalInv, SharedOK
    <2>3. Flow /\ NotNested
      <3>1. pc[t] # "exited"
        BY <1>1, <2>2, StepFrame DEF Known
      <3> QED  BY <1>1, <3>1, UnstartedTasks DEF FlowInv, OrderedGraph
    <2>4. \/ state'[k] = "DONE"
          \/ state[k] = "PENDING" /\ state'[k] = "EXECUTING"
          \/ state[k] = "NONE" /\ state'[k] = "PENDING"
      BY <1>1, <2>1, <2>2, <2>3, StateSteps
    <2> QED  BY <2>1, <2>4 DEF Progress, States
  <1> QED  BY <1>1, KnownInvariant, FlowInvariant, PTL DEF Spec, OncePerExecution

\* A task of a sub-graph goes back only when it is done, when nothing of the body is pending
\* or executing (resetSubgraphTasks).
THEOREM ResetWhenDone ==
    ASSUME OrderedGraph
    PROVE  Spec /\ []CleanStart => ResetOnlyWhenDone
  <1> DEFINE Only == round' = round =>
        \A g \in SubGraphs : \A k \in Body[g] : state'[k] = "NONE" /\ state[k] # "NONE" =>
            /\ state[k] = "DONE"
            /\ \A b \in Body[g] : state[b] \in {"NONE", "DONE"}
  <1>1. ASSUME Known, FlowInv, [Next]_vars PROVE [Only]_vars
    <2> SUFFICES ASSUME round' = round, NEW g \in SubGraphs, NEW k \in Body[g], state'[k] = "NONE",
                        state[k] # "NONE"
                 PROVE  state[k] = "DONE" /\ \A b \in Body[g] : state[b] \in {"NONE", "DONE"}
      OBVIOUS
    <2>1. PICK t \in Threads : Step(t)
      BY <1>1 DEF Next, Finished, Prepare, vars, graphState, Known, LocalInv, SharedOK
    <2>2. Flow /\ NotNested
      <3>1. pc[t] # "exited"
        BY <1>1, <2>1, StepFrame DEF Known
      <3> QED  BY <1>1, <3>1, UnstartedTasks DEF FlowInv, OrderedGraph
    <2>3. k \in Tasks /\ k \notin SubGraphEnds
      BY <2>2, AreaEdges
    <2>4. PICK h \in SubGraphs : k \in Body[h] /\ Held(t, h) /\ state[k] = "DONE"
      BY <1>1, <2>1, <2>2, <2>3, StateSteps, EndsApart
    <2>5. h = g
      BY <2>2, <2>4, AreasApart DEF Area, Parts
    <2> QED  BY <1>1, <2>2, <2>4, <2>5, HeldFacts
  <1> QED  BY <1>1, KnownInvariant, FlowInvariant, PTL DEF Spec, ResetOnlyWhenDone

\* Where no task runs in parallel with itself, and in the first execution of any graph, no
\* invocation is left over from an execution before (prepareForExecution does not reset
\* the words of the variadic tasks).
THEOREM StartsClean ==
    ASSUME SelfParallel = {} \/ MaxRounds =< 1
    PROVE  Spec => []CleanStart
  <1>1. CASE SelfParallel = {}
    <2>1. LocalInv => CleanStart
      BY <1>1 DEF LocalInv, SharedOK, CleanStart
    <2> QED  BY <2>1, LocalInvariant, PTL
  <1>2. CASE MaxRounds =< 1
    <2> DEFINE I == round = 0 => \A s \in SubGroups : varTask[s].cnt = 0
               E == round = 0 => AllExited
    <2>1. Init => I /\ E
      BY DEF Init, NoVarTask, AllExited
    <2>2. ASSUME LocalInv, I, E, [Next]_vars PROVE (I /\ E)'
      <3>1. CASE UNCHANGED vars \/ Finished
        BY <2>2, <3>1 DEF vars, graphState, Finished, AllExited
      <3>2. CASE Prepare
        BY <2>2, <3>2 DEF Prepare, LocalInv, SharedOK
      <3>3. ASSUME NEW t \in Threads, Step(t) PROVE (I /\ E)'
        BY <2>2, <3>3, StepFrame DEF AllExited
      <3> QED  BY <2>2, <3>1, <3>2, <3>3 DEF Next
    <2>3. LocalInv /\ I => CleanStart
      BY <1>2, ExecutorAssumption DEF LocalInv, SharedOK, CleanStart
    <2> QED  BY <2>1, <2>2, <2>3, LocalInvariant, PTL DEF Spec
  <1> QED  BY <1>1, <1>2

=============================================================================

----------------------- MODULE TaskGraphProgressProofs -----------------------
(***************************************************************************)
(* Theorems about what TaskGraphExecutor leaves behind: a thread returns   *)
(* EXIT when nothing is left to start, the last one leaves nothing undone, *)
(* and the contract with the pool is kept.                                 *)
(***************************************************************************)
EXTENDS TaskGraphOrderProofs, ExecutorImplementsContract

------------------------------------------------------------------------------
(***************************************************************************)
(* What never goes back in an execution.                                   *)
(***************************************************************************)

\* A task that is not repeated by its sub-graph: it is in none, or it is an exit.
Outer(k) == \A g \in SubGraphs : k \notin Body[g] \cup {Entry[g]}

\* Once the exit is done, so is the sub-graph, and no thread is at one of its ends.
LEMMA ClosedGraph ==
    ASSUME Known, Flow, NotNested, NEW g \in SubGraphs, state[Exit[g]] = "DONE"
    PROVE  /\ \A k \in Body[g] \cup {Entry[g]} : state[k] = "DONE"
           /\ \A t \in Threads : ~Held(t, g)
  <1>1. \A t \in Threads : ~Held(t, g)
    BY HeldFacts
  <1>2. Over(g) /\ OverMeansDone(g)
    BY DEF Flow, GraphOK, EndsOK
  <1>3. ~Skipped(g)
    BY <1>1 DEF Skipped, Held, AtEnd
  <1> QED  BY <1>1, <1>2, <1>3 DEF OverMeansDone, AllDone

\* An end that is done stays done, unless a new iteration begins.
LEMMA EndStays ==
    ASSUME Known, Flow, NotNested, NEW t \in Threads, Step(t), NEW k \in SubGraphEnds,
           state[k] = "DONE", state'[k] # "DONE"
    PROVE  \E g \in SubGraphs : k = Entry[g] /\ state[Exit[g]] # "DONE"
  <1>1. state \in [Tasks -> States] /\ k \in Tasks
    BY EndsApart DEF Known, LocalInv, SharedOK, SubGraphEnds
  <1>2. CASE \/ CallDoThread(t) \/ LoadPending(t) \/ LoadExecuting(t) \/ EnterFails(t)
             \/ CheckTask(t) \/ MarkSleeping(t) \/ ClearPending(t) \/ PassTask(t)
             \/ AnnounceVarTask(t) \/ LeaveSubgroup(t)
    BY <1>2, IdleMoves
  <1>3. CASE \/ EnterSubgroup(t) \/ AcquireVarTask(t) \/ GatherThreads(t) \/ WakeThreads(t)
             \/ WindUpVarTask(t) \/ FinishVarTask(t) \/ PublishGroup(t) \/ EnterSubGraph(t)
             \/ LeaveSubGraph(t)
    BY <1>3 DEF EnterSubgroup, AcquireVarTask, GatherThreads, WakeThreads, WindUpVarTask, FinishVarTask,
                PublishGroup, EnterSubGraph, LeaveSubGraph, graphState
  <1>4. CASE StartTask(t)
    BY <1>1, <1>4 DEF StartTask
  <1>5. CASE MarkDone(t)
    BY <1>1, <1>5 DEF MarkDone
  <1>6. CASE NotifyNext(t)
    <2>1. PICK n \in job[t].todo : state' = state \/ state' = [state EXCEPT ![n] = "PENDING"]
      BY <1>6 DEF NotifyNext
    <2>2. state[n] = "NONE" /\ n \in Tasks
      BY <1>6, <2>1, NotifyKnown DEF NotifyNext
    <2> QED  BY <1>1, <2>1, <2>2
  <1>7. CASE SkipTask(t)
    BY <1>1, <1>7 DEF SkipTask
  <1>8. CASE SkipEnds(t)
    BY <1>1, <1>8 DEF SkipEnds
  <1>9. CASE ResetTask(t)
    <2>1. PICK b \in job[t].todo : state' = [state EXCEPT ![b] = "NONE"]
      BY <1>9 DEF ResetTask, Reset
    <2>2. AtReset(job[t])
      BY <1>9 DEF ResetTask, Flow, AllAtWork, AtWork
    <2>3. b \notin SubGraphEnds
      BY <2>1, <2>2 DEF AtReset, NotNested
    <2> QED  BY <1>1, <2>1, <2>3
  <1>10. CASE ResetExit(t)
    <2>1. PICK g \in SubGraphs : job[t].task \in {Entry[g], Exit[g]} /\ Reset(Exit[g])
      BY <1>10 DEF ResetExit
    <2>2. PICK h \in SubGraphs : job[t].task = Exit[h] /\ state[Exit[h]] = "PENDING"
      BY <1>10 DEF ResetExit, Flow, AllAtWork, AtWork, AtReset
    <2>3. g = h
      BY <2>1, <2>2, EndsApart
    <2> QED  BY <1>1, <2>1, <2>2, <2>3 DEF Reset
  <1>11. CASE RestartSubGraph(t)
    <2>1. PICK g \in SubGraphs : job[t].task = Exit[g] /\ state' = [state EXCEPT ![Entry[g]] = "PENDING"]
      BY <1>11 DEF RestartSubGraph
    <2>2. PICK h \in SubGraphs : job[t].task = Exit[h] /\ state[Exit[h]] = "NONE"
      BY <1>11 DEF RestartSubGraph, Flow, AllAtWork, AtWork, AtRestart, Parts
    <2>3. g = h
      BY <2>1, <2>2, EndsApart
    <2> QED  BY <1>1, <2>1, <2>2, <2>3
  <1> QED  BY <1>2, <1>3, <1>4, <1>5, <1>6, <1>7, <1>8, <1>9, <1>10, <1>11 DEF Step

\* A task that is not repeated stays started.
LEMMA OuterStays ==
    ASSUME Known, Flow, NotNested, NEW t \in Threads, Step(t), NEW k \in Tasks, Outer(k), Started(k)
    PROVE  Started(k)'
  <1>1. CASE k \in SubGraphEnds
    <2>1. PICK g \in SubGraphs : k = Exit[g]
      BY <1>1 DEF Outer, SubGraphEnds
    <2>2. state[k] = "DONE"
      BY <2>1 DEF Started, Flow, GraphOK, EndsOK
    <2> QED  BY <1>1, <2>1, <2>2, EndStays, EndsApart DEF Started
  <1>2. CASE k \notin SubGraphEnds
    <2> SUFFICES ASSUME state'[k] # state[k] PROVE Started(k)'
      BY DEF Started
    <2> QED  BY <1>2, StateSteps, EndsApart DEF Outer, Started
  <1> QED  BY <1>1, <1>2

\* When everything is done, it stays so.
LEMMA DoneStays ==
    ASSUME Known, Flow, NotNested, NEW t \in Threads, Step(t), \A k \in Tasks : state[k] = "DONE"
    PROVE  \A k \in Tasks : state'[k] = "DONE"
  <1> SUFFICES ASSUME NEW k \in Tasks, state'[k] # "DONE" PROVE FALSE
    OBVIOUS
  <1>1. CASE k \in SubGraphEnds
    BY <1>1, EndStays, EndsApart
  <1>2. CASE k \notin SubGraphEnds
    <2>1. PICK g \in SubGraphs : k \in Body[g] /\ Held(t, g)
      BY <1>2, StateSteps, EndsApart
    <2> QED  BY <2>1, ClosedGraph, EndsApart
  <1> QED  BY <1>1, <1>2

\* When what is not repeated has started, everything has.
LEMMA OuterMeansAll ==
    ASSUME Known, Flow, NotNested, \A k \in Tasks : Outer(k) => Started(k)
    PROVE  \A k \in Tasks : Started(k)
  <1> SUFFICES ASSUME NEW k \in Tasks, ~Outer(k) PROVE Started(k)
    OBVIOUS
  <1>1. PICK g \in SubGraphs : k \in Body[g] \cup {Entry[g]}
    BY DEF Outer
  <1>2. Outer(Exit[g])
    BY EndsApart DEF Outer, NotNested
  <1>3. state[Exit[g]] = "DONE"
    BY <1>2, EndsApart DEF Started, Flow, GraphOK, EndsOK
  <1> QED  BY <1>1, <1>3, ClosedGraph DEF Started
------------------------------------------------------------------------------
(***************************************************************************)
(* The scan at the end of doThread.                                        *)
(***************************************************************************)

\* A thread that looks for a subgroup has no job.  What it has read of the states at
\* the end is still true of the tasks that are not repeated.
Blank == Outside \cup {"load", "look", "enter", "acquire"}

WatchAt(t) ==
    /\ pc[t] \in Blank => job[t] = NoJob
    /\ pc[t] = "check" => \A k \in job[t].scanned : Outer(k) => Started(k)
    /\ pc[t] = "exited" /\ round > 0 => \A k \in Tasks : Outer(k) => Started(k)

WatchInv == \A t \in Threads : WatchAt(t)

\* A thread at work in a subgroup goes on there, or leaves it and looks for another one.
LEMMA WorkMoves ==
    ASSUME Known, NEW t \in Threads,
           \/ GatherThreads(t) \/ WakeThreads(t) \/ ClearPending(t) \/ PassTask(t) \/ StartTask(t)
           \/ WindUpVarTask(t) \/ MarkDone(t) \/ NotifyNext(t) \/ PublishGroup(t)
           \/ EnterSubGraph(t) \/ SkipTask(t) \/ SkipEnds(t) \/ LeaveSubGraph(t)
           \/ ResetTask(t) \/ ResetExit(t) \/ RestartSubGraph(t)
    PROVE  /\ pc'[t] \notin Outside \cup Searching
           /\ pc[t] \notin Outside \cup Searching \cup {"announce"}
           /\ find' = find
           /\ pc'[t] = "announce" => WindUpVarTask(t)
  <1> USE DEF Goto, graphState, Outside, Searching
  <1>1. pc \in [Threads -> Labels]
    BY DEF Known, LocalInv, ThreadsOK
  <1>2. CASE GatherThreads(t) \/ WakeThreads(t) \/ ClearPending(t) \/ StartTask(t) \/ WindUpVarTask(t)
    BY <1>1, <1>2 DEF GatherThreads, WakeThreads, ClearPending, StartTask, WindUpVarTask, Scans
  <1>3. CASE PassTask(t)
    <2>1. \E j : pc' = [pc EXCEPT ![t] = AfterTask(j)]
      BY <1>3 DEF PassTask
    <2>2. pc[t] = "scan" /\ find' = find
      BY <1>3 DEF PassTask, Scans
    <2> QED  BY <1>1, <2>1, <2>2, LabelsAfter
  <1>4. CASE MarkDone(t) \/ NotifyNext(t) \/ PublishGroup(t)
    <2>1. \E j : pc' = [pc EXCEPT ![t] = AfterDone(j)]
      <3>1. CASE MarkDone(t)
        BY <3>1 DEF MarkDone
      <3>2. CASE NotifyNext(t)
        BY <3>2 DEF NotifyNext
      <3>3. CASE PublishGroup(t)
        BY <3>3 DEF PublishGroup
      <3> QED  BY <1>4, <3>1, <3>2, <3>3
    <2>2. pc[t] \in {"run", "done", "notify"} /\ find' = find
      BY <1>4 DEF MarkDone, NotifyNext, PublishGroup
    <2> QED  BY <1>1, <2>1, <2>2, LabelsAfter
  <1>5. CASE EnterSubGraph(t) \/ LeaveSubGraph(t) \/ SkipTask(t) \/ SkipEnds(t)
    BY <1>1, <1>5 DEF EnterSubGraph, LeaveSubGraph, SkipTask, SkipEnds, Scans
  <1>6. CASE ResetTask(t) \/ ResetExit(t) \/ RestartSubGraph(t)
    BY <1>1, <1>6 DEF ResetTask, ResetExit, RestartSubGraph
  <1> QED  BY <1>2, <1>3, <1>4, <1>5, <1>6

\* Where the next group or the next subgroup is looked at.
LEMMA SearchMoves ==
    ASSUME Known, NEW t \in Threads, NEW f, NEW s, NextGroup(t, f) \/ NextSubgroup(t, f, s)
    PROVE  pc'[t] \in {"load", "enter", "check"}
  <1>1. pc \in [Threads -> Labels]
    BY DEF Known, LocalInv, ThreadsOK
  <1> QED  BY <1>1 DEF NextGroup, NextSubgroup, Goto

\* What the thread that moves knows.
LEMMA WatchMover ==
    ASSUME Known, Flow, NotNested, NEW t \in Threads, Step(t), WatchAt(t)
    PROVE  WatchAt(t)'
  <1> USE DEF Goto, SetJob, graphState, Blank, Outside, Searching, WatchAt
  <1>0. pc \in [Threads -> Labels] /\ job \in [Threads -> Jobs]
    BY DEF Known, LocalInv, ThreadsOK
  <1>1. NoJob.scanned = {}
    BY DEF NoJob
  <1>2. CASE CallDoThread(t) \/ LoadExecuting(t)
    BY <1>0, <1>2 DEF CallDoThread, LoadExecuting
  <1>3. CASE LoadPending(t)
    <2>1. pc'[t] \in {"load", "look", "enter", "check"} /\ job' = job /\ pc[t] = "load"
      BY <1>0, <1>3, SearchMoves DEF LoadPending
    <2> QED  BY <1>1, <2>1
  <1>4. CASE EnterFails(t)
    <2>1. pc'[t] \in {"load", "acquire", "enter", "check"} /\ job' = job /\ pc[t] = "enter"
      BY <1>0, <1>4, SearchMoves DEF EnterFails
    <2> QED  BY <1>1, <2>1
  <1>5. CASE AcquireVarTask(t)
    <2>1. PICK s \in find[t].bits :
              \/ NextSubgroup(t, find[t], s) /\ UNCHANGED job
              \/ Goto(t, Piece(varTask[s].cnt))
      BY <1>5 DEF AcquireVarTask
    <2>2. CASE NextSubgroup(t, find[t], s) /\ UNCHANGED job
      <3>1. pc'[t] \in {"load", "enter", "check"} /\ job' = job /\ pc[t] = "acquire"
        BY <1>5, <2>2, SearchMoves DEF AcquireVarTask
      <3> QED  BY <1>1, <3>1
    <2>3. CASE Goto(t, Piece(varTask[s].cnt))
      BY <1>0, <2>3 DEF Piece
    <2> QED  BY <2>1, <2>2, <2>3
  <1>6. CASE EnterSubgroup(t)
    BY <1>0, <1>6 DEF EnterSubgroup, Owned
  <1>7. CASE AnnounceVarTask(t) \/ LeaveSubgroup(t)
    BY <1>0, <1>7 DEF AnnounceVarTask, LeaveSubgroup
  <1>8. CASE FinishVarTask(t)
    <2>1. CASE Goto(t, "done")
      BY <1>0, <2>1
    <2>2. CASE SetJob(t, NoJob) /\ NextSubgroup(t, find[t], job[t].sub)
      BY <1>0, <1>1, <2>2, SearchMoves
    <2> QED  BY <1>8, <2>1, <2>2 DEF FinishVarTask
  <1>9. CASE CheckTask(t)
    <2>1. PICK k \in Tasks : LET j == [job[t] EXCEPT !.scanned = @ \cup {k}]
                             IN  \/ Started(k) /\ SetJob(t, j) /\ pc' = pc
                                 \/ Started(k) /\ j.scanned = Tasks /\ Return(t, "exited")
                                 \/ Goto(t, "sleep")
                                 \/ Return(t, "waiting")
      BY <1>9 DEF CheckTask
    <2>2. pc[t] = "check" /\ round' = round /\ state' = state
      BY <1>9 DEF CheckTask
    <2>3. [job[t] EXCEPT !.scanned = @ \cup {k}].scanned = job[t].scanned \cup {k}
      BY <1>0 DEF Jobs
    <2>4. CASE Started(k) /\ SetJob(t, [job[t] EXCEPT !.scanned = @ \cup {k}]) /\ pc' = pc
      BY <1>0, <2>2, <2>3, <2>4 DEF Started
    <2>5. CASE Started(k) /\ [job[t] EXCEPT !.scanned = @ \cup {k}].scanned = Tasks /\ Return(t, "exited")
      <3>1. \A n \in Tasks : Outer(n) => Started(n)
        BY <2>2, <2>3, <2>5
      <3> QED  BY <1>0, <2>2, <2>5, <3>1 DEF Return, Started
    <2>6. CASE Goto(t, "sleep") \/ Return(t, "waiting")
      BY <1>0, <2>6 DEF Return
    <2> QED  BY <2>1, <2>4, <2>5, <2>6
  <1>10. CASE MarkSleeping(t)
    BY <1>0, <1>10 DEF MarkSleeping, Return
  <1>11. CASE \/ GatherThreads(t) \/ WakeThreads(t) \/ ClearPending(t) \/ PassTask(t) \/ StartTask(t)
              \/ WindUpVarTask(t) \/ MarkDone(t) \/ NotifyNext(t) \/ PublishGroup(t)
              \/ EnterSubGraph(t) \/ SkipTask(t) \/ SkipEnds(t) \/ LeaveSubGraph(t)
              \/ ResetTask(t) \/ ResetExit(t) \/ RestartSubGraph(t)
    BY <1>11, WorkMoves
  <1> QED  BY <1>2, <1>3, <1>4, <1>5, <1>6, <1>7, <1>8, <1>9, <1>10, <1>11 DEF Step

\* A step of one thread moves no other thread.
LEMMA OthersStay ==
    ASSUME NEW t \in Threads, Step(t), NEW u \in Threads, u # t, pc \in [Threads -> Labels],
           find \in [Threads -> Searches], job \in [Threads -> Jobs]
    PROVE  pc'[u] = pc[u] /\ job'[u] = job[u] /\ find'[u] = find[u]
  <1> USE DEF Goto, SetFind, SetJob, graphState
  <1>1. CASE CallDoThread(t) \/ LoadPending(t) \/ LoadExecuting(t) \/ EnterFails(t)
    BY <1>1 DEF CallDoThread, LoadPending, LoadExecuting, EnterFails, NextSubgroup, NextGroup
  <1>2. CASE CheckTask(t) \/ MarkSleeping(t) \/ ClearPending(t) \/ PassTask(t)
    BY <1>2 DEF CheckTask, MarkSleeping, ClearPending, PassTask, Return
  <1>3. CASE AnnounceVarTask(t) \/ LeaveSubgroup(t) \/ EnterSubgroup(t) \/ AcquireVarTask(t)
    BY <1>3 DEF AnnounceVarTask, LeaveSubgroup, EnterSubgroup, AcquireVarTask, NextSubgroup, NextGroup
  <1>4. CASE GatherThreads(t) \/ WakeThreads(t) \/ StartTask(t) \/ WindUpVarTask(t)
    BY <1>4 DEF GatherThreads, WakeThreads, StartTask, WindUpVarTask
  <1>5. CASE FinishVarTask(t)
    BY <1>5 DEF FinishVarTask, NextSubgroup, NextGroup
  <1>6. CASE MarkDone(t) \/ NotifyNext(t) \/ PublishGroup(t)
    BY <1>6 DEF MarkDone, NotifyNext, PublishGroup
  <1>7. CASE EnterSubGraph(t) \/ SkipTask(t) \/ SkipEnds(t) \/ LeaveSubGraph(t)
    BY <1>7 DEF EnterSubGraph, SkipTask, SkipEnds, LeaveSubGraph
  <1>8. CASE ResetTask(t) \/ ResetExit(t) \/ RestartSubGraph(t)
    BY <1>8 DEF ResetTask, ResetExit, RestartSubGraph, Reset
  <1> QED  BY <1>1, <1>2, <1>3, <1>4, <1>5, <1>6, <1>7, <1>8 DEF Step
\* A step of a thread makes nothing wrong that a thread has read at the end.
LEMMA WatchStep ==
    ASSUME Known, Flow, NotNested, NEW t \in Threads, Step(t), WatchInv
    PROVE  WatchInv'
  <1> SUFFICES ASSUME NEW u \in Threads PROVE WatchAt(u)'
    BY DEF WatchInv
  <1>1. CASE u = t
    BY <1>1, WatchMover DEF WatchInv
  <1>2. CASE u # t
    <2>1. pc'[u] = pc[u] /\ job'[u] = job[u] /\ round' = round
      BY <1>2, OthersStay, StepFrame DEF Known, LocalInv, ThreadsOK
    <2>2. WatchAt(u) /\ job[u].scanned \subseteq Tasks
      BY DEF WatchInv, Known, LocalInv, ThreadsOK, Jobs
    <2>3. \A k \in Tasks : Outer(k) /\ Started(k) => Started(k)'
      BY OuterStays
    <2> QED  BY <2>1, <2>2, <2>3 DEF WatchAt
  <1> QED  BY <1>1, <1>2

\* In every state, what a thread has read at the end is still true where it matters.
LEMMA WatchInvariant ==
    ASSUME OrderedGraph
    PROVE  Spec /\ []CleanStart => []WatchInv
  <1>1. Init => WatchInv
    BY DEF Init, WatchInv, WatchAt, Blank, Outside
  <1>2. ASSUME Known, FlowInv, WatchInv, [Next]_vars PROVE WatchInv'
    <2>1. CASE UNCHANGED vars \/ Finished
      <3>1. UNCHANGED <<pc, job, state, round>>
        BY <2>1 DEF Finished, vars, graphState
      <3> QED  BY <1>2, <3>1 DEF WatchInv, WatchAt, Started
    <2>2. CASE Prepare
      <3>1. \A t \in Threads : pc'[t] = "ready" /\ job'[t] = job[t] /\ pc[t] = "exited"
        BY <2>2 DEF Prepare, AllExited
      <3> QED  BY <1>2, <3>1 DEF WatchInv, WatchAt, Blank, Outside
    <2>3. ASSUME NEW t \in Threads, Step(t) PROVE WatchInv'
      <3>1. pc[t] # "exited"
        BY <1>2, <2>3, StepFrame DEF Known
      <3>2. Flow /\ NotNested
        BY <1>2, <3>1, UnstartedTasks DEF FlowInv, OrderedGraph
      <3> QED  BY <1>2, <2>3, <3>2, WatchStep
    <2> QED  BY <1>2, <2>1, <2>2, <2>3 DEF Next
  <1> QED  BY <1>1, <1>2, KnownInvariant, FlowInvariant, PTL DEF Spec

\* EXIT is returned only when nothing is left to start, although the states are read one
\* after the other while sub-graphs are reset and started again (the end of doThread).
THEOREM ExitMeansStarted ==
    ASSUME OrderedGraph
    PROVE  Spec /\ []CleanStart => []ExitedMeansStarted
  <1>1. ASSUME Known, FlowInv, WatchInv PROVE ExitedMeansStarted
    <2> SUFFICES ASSUME NEW t \in Threads, pc[t] = "exited", round > 0
                 PROVE  \A k \in Tasks : state[k] \in {"EXECUTING", "DONE"}
      BY DEF ExitedMeansStarted
    <2>1. Flow /\ NotNested
      BY <1>1 DEF FlowInv, OrderedGraph
    <2>2. \A k \in Tasks : Outer(k) => Started(k)
      BY <1>1 DEF WatchInv, WatchAt
    <2> QED  BY <1>1, <2>1, <2>2, OuterMeansAll DEF Started
  <1> QED  BY <1>1, KnownInvariant, FlowInvariant, WatchInvariant, PTL
------------------------------------------------------------------------------
(***************************************************************************)
(* Looking for work.  Where no task runs in parallel with itself, a thread *)
(* goes through all groups once more than there are groups before it gives *)
(* up, and forgets its failures when it enters a subgroup.                 *)
(***************************************************************************)
Looking == {"load", "look", "enter", "acquire"}

SeekAt(l, f, j) ==
    /\ l # "announce"
    /\ j.own => f.failedGroups = 0 /\ f.seen = {}
    /\ l \in Outside => f.failedGroups = 0 /\ f.seen = {}
    /\ l \in {"load", "look"} => f.seen = {}
    /\ l \in Looking => /\ f.failedGroups =< GroupCnt
                        /\ f.failedGroups >= 1 => f.group = f.order[f.at]

\* The place in the order of the groups where the thread was d groups ago.
Back(i, d) == IF i > d THEN i - d ELSE i - d + GroupCnt

\* No pending bit is left in the groups of the order that the thread has passed.  The
\* first one it failed in is not one of them: it may be the last group of another order.
Passed(f) == \A d \in 1..(f.failedGroups - 1) : pending \cap Members(f.order[Back(f.at, d)]) = {}

\* An order of the groups leaves none out.
LEMMA OrderCovers ==
    ASSUME NEW o \in GroupOrders, NEW g \in Groups
    PROVE  \E i \in 1..GroupCnt : o[i] = g
  <1>1. IsFiniteSet(Groups) /\ GroupCnt \in Nat
    BY GraphAssumption, FS_CardinalityType DEF GroupCnt, WellFormed
  <1>2. IsFiniteSet(1..GroupCnt) /\ Cardinality(1..GroupCnt) = GroupCnt
    BY <1>1, FS_Interval
  <1>3. o \in Injection(1..GroupCnt, Groups)
    BY DEF GroupOrders, Injection, IsInjective
  <1>4. o \in Surjection(1..GroupCnt, Groups)
    BY <1>1, <1>2, <1>3, FS_Injection DEF GroupCnt
  <1> QED  BY <1>4 DEF Surjection

\* A thread that has passed all groups has found no pending bit anywhere.
LEMMA AllPassed ==
    ASSUME NEW o \in GroupOrders, NEW i \in 1..GroupCnt, pending \subseteq SubGroups,
           \A d \in 1..GroupCnt : pending \cap Members(o[Back(i, d)]) = {}
    PROVE  pending = {}
  <1> SUFFICES ASSUME NEW s \in pending PROVE FALSE
    OBVIOUS
  <1>0. GroupOf[s] \in Groups /\ s \in SubGroups
    BY DEF Groups
  <1>1. PICK n \in 1..GroupCnt : o[n] = GroupOf[s]
    BY <1>0, OrderCovers
  <1>2. PICK d : d = IF n < i THEN i - n ELSE i - n + GroupCnt
    OBVIOUS
  <1>3. GroupCnt \in Nat \ {0}
    BY GroupCntPositive
  <1>4. d \in 1..GroupCnt /\ Back(i, d) = n
    BY <1>2, <1>3 DEF Back
  <1> QED  BY <1>0, <1>1, <1>4 DEF Members

\* What the thread knows after it goes to the next group.
LEMMA NextGroupSeeks ==
    ASSUME NEW t \in Threads, NEW f \in Searches, f.order \in GroupOrders, f.failedGroups =< GroupCnt,
           NextGroup(t, f), find \in [Threads -> Searches], pc \in [Threads -> Labels]
    PROVE  /\ find'[t] \in Searches /\ find'[t].order = f.order /\ find'[t].seen = {}
           /\ find'[t].failedGroups = f.failedGroups + 1
           /\ find'[t].group = find'[t].order[find'[t].at]
           /\ find'[t].at = IF f.at = GroupCnt THEN 1 ELSE f.at + 1
           /\ pc'[t] = IF f.failedGroups < GroupCnt THEN "load" ELSE "check"
  <1> PICK at : at = IF f.at = GroupCnt THEN 1 ELSE f.at + 1
    OBVIOUS
  <1>1. find' = [find EXCEPT ![t] = [f EXCEPT !.failedGroups = @ + 1, !.failedSubs = 0, !.bits = {},
                                              !.seen = {}, !.at = at, !.group = f.order[at]]]
    BY DEF NextGroup, SetFind
  <1>2. at \in 1..GroupCnt /\ f.failedGroups \in Nat /\ GroupCnt \in Nat
    BY GroupCntPositive DEF Searches
  <1>3. f.order[at] \in Groups
    BY <1>2 DEF GroupOrders
  <1>4. pc'[t] = IF f.failedGroups + 1 < MaxFailedGroups THEN "load" ELSE "check"
    BY DEF NextGroup, Goto
  <1>5. pc'[t] = IF f.failedGroups < GroupCnt THEN "load" ELSE "check"
    BY <1>2, <1>4 DEF MaxFailedGroups
  <1>6. PICK n, g : n = f.failedGroups + 1 /\ g = f.order[at]
    OBVIOUS
  <1>7. find'[t] = [f EXCEPT !.failedGroups = n, !.failedSubs = 0, !.bits = {},
                             !.seen = {}, !.at = at, !.group = g]
    BY <1>1, <1>6
  <1>8. n \in Nat /\ g \in Groups
    BY <1>2, <1>3, <1>6
  <1> DEFINE h == [f EXCEPT !.failedGroups = n, !.failedSubs = 0, !.bits = {},
                            !.seen = {}, !.at = at, !.group = g]
  <1>9. h \in Searches
    BY <1>2, <1>8 DEF Searches
  <1>10. h.order = f.order /\ h.seen = {} /\ h.failedGroups = n /\ h.group = g /\ h.at = at
    BY DEF Searches
  <1>11. find'[t] = h
    BY <1>7
  <1> HIDE DEF h
  <1> QED  BY <1>5, <1>6, <1>9, <1>10, <1>11

\* A group without a pending bit is one more that was passed.
LEMMA NextGroupPasses ==
    ASSUME NEW t \in Threads, NEW f \in Searches, f.order \in GroupOrders, f.failedGroups =< GroupCnt,
           NextGroup(t, f), find \in [Threads -> Searches], pc \in [Threads -> Labels],
           f.failedGroups >= 1 => f.group = f.order[f.at],
           pending' = pending, pending \cap Members(f.group) = {}, Passed(f)
    PROVE  Passed(find[t])'
  <1> PICK h : h = find'[t]
    OBVIOUS
  <1>1. /\ h.order = f.order /\ h.failedGroups = f.failedGroups + 1
        /\ h.at = IF f.at = GroupCnt THEN 1 ELSE f.at + 1
    BY NextGroupSeeks
  <1>2. f.at \in 1..GroupCnt /\ f.failedGroups \in Nat /\ GroupCnt \in Nat \ {0}
    BY GroupCntPositive DEF Searches
  <1> SUFFICES ASSUME NEW d \in 1..(h.failedGroups - 1)
               PROVE  pending \cap Members(h.order[Back(h.at, d)]) = {}
    BY DEF Passed
  <1>3. CASE d = 1
    <2>1. Back(h.at, d) = f.at
      BY <1>1, <1>2, <1>3 DEF Back
    <2> QED  BY <1>1, <1>2, <1>3, <2>1
  <1>4. CASE d # 1
    <2>1. d - 1 \in 1..(f.failedGroups - 1)
      BY <1>1, <1>2, <1>4
    <2>2. Back(h.at, d) = Back(f.at, d - 1)
      BY <1>1, <1>2, <2>1 DEF Back
    <2> QED  BY <1>1, <2>1, <2>2 DEF Passed
  <1> QED  BY <1>3, <1>4
\* A thread that fails in a group or a subgroup still knows how many groups it has passed.
LEMMA FailureSeeks ==
    ASSUME NEW t \in Threads, NEW f \in Searches, f.order \in GroupOrders, f.failedGroups =< GroupCnt,
           find \in [Threads -> Searches], pc \in [Threads -> Labels],
           f.failedGroups >= 1 => f.group = f.order[f.at],
           NEW s, NextGroup(t, f) \/ NextSubgroup(t, f, s), NEW j, j.own = FALSE
    PROVE  SeekAt(pc'[t], find'[t], j)
  <1>0. f.failedGroups \in Nat /\ GroupCnt \in Nat
    BY GroupCntPositive DEF Searches
  <1>1. ASSUME NEW g \in Searches, g.order \in GroupOrders, g.failedGroups = f.failedGroups, NextGroup(t, g)
        PROVE  SeekAt(pc'[t], find'[t], j)
    <2>1. /\ find'[t].seen = {} /\ find'[t].failedGroups = f.failedGroups + 1
          /\ find'[t].group = find'[t].order[find'[t].at]
          /\ pc'[t] = IF f.failedGroups < GroupCnt THEN "load" ELSE "check"
      BY <1>1, NextGroupSeeks
    <2> QED  BY <1>0, <2>1 DEF SeekAt, Outside, Looking
  <1>2. CASE NextGroup(t, f)
    BY <1>1, <1>2
  <1>3. CASE NextSubgroup(t, f, s)
    <2> DEFINE g == [f EXCEPT !.failedSubs = @ + 1, !.bits = @ \ {s}]
               h == [g EXCEPT !.seen = {}]
    <2>1. f.failedSubs + 1 \in Nat /\ f.bits \ {s} \in SUBSET SubGroups
      BY DEF Searches
    <2>2. /\ g \in Searches /\ g.order = f.order /\ g.failedGroups = f.failedGroups
          /\ g.group = f.group /\ g.at = f.at
      BY <2>1 DEF Searches
    <2>3. \/ SetFind(t, g) /\ Goto(t, "enter")
          \/ NextGroup(t, g)
          \/ SetFind(t, h) /\ Goto(t, "load")
      BY <1>3 DEF NextSubgroup
    <2> HIDE DEF g
    <2>4. /\ h.seen = {} /\ h.order = g.order /\ h.failedGroups = g.failedGroups
          /\ h.group = g.group /\ h.at = g.at
      BY <2>2 DEF Searches
    <2> HIDE DEF h
    <2>5. CASE SetFind(t, g) /\ Goto(t, "enter")
      <3>1. find'[t] = g /\ pc'[t] = "enter"
        BY <2>5 DEF SetFind, Goto
      <3> QED  BY <2>2, <3>1 DEF SeekAt, Outside, Looking
    <2>6. CASE NextGroup(t, g)
      BY <1>1, <2>2, <2>6
    <2>7. CASE SetFind(t, h) /\ Goto(t, "load")
      <3>1. find'[t] = h /\ pc'[t] = "load"
        BY <2>7 DEF SetFind, Goto
      <3> QED  BY <2>2, <2>4, <3>1 DEF SeekAt, Outside, Looking
    <2> QED  BY <2>3, <2>5, <2>6, <2>7
  <1> QED  BY <1>2, <1>3

Seeking == \A t \in Threads : SeekAt(pc[t], find[t], job[t])

\* Where no task runs in parallel with itself, a thread in a subgroup owns it.
LEMMA SoloKnown ==
    ASSUME Known, SelfParallel = {}, NEW t \in Threads, Seeking
    PROVE  /\ pc[t] \notin {"windup", "piece", "announce"} /\ ~Invokes(t)
           /\ pc[t] \notin Outside \cup Searching => job[t].own
           /\ pc[t] \in Outside \cup Searching => job[t].own = FALSE
           /\ \A s \in SubGroups : varTask[s].cnt = 0
  <1>1. pc[t] \notin {"windup", "piece"} /\ ~Invokes(t)
    BY ThreadKnown
  <1>2. pc[t] # "announce"
    BY DEF Seeking, SeekAt
  <1>3. pc[t] \in Labels /\ LocatedAt(pc[t], find[t], job[t]) /\ job[t] \in Jobs
    BY ThreadHere DEF Known, LocalInv
  <1>4. \A s \in SubGroups : varTask[s].cnt = 0
    BY DEF Known, LocalInv, SharedOK
  <1> QED  BY <1>1, <1>2, <1>3, <1>4
           DEF Labels, LocatedAt, Outside, Searching, Owning, Invokes, Jobs
\* A thread at work stays the owner of its subgroup.
LEMMA SoloWork ==
    ASSUME Known, SelfParallel = {}, Seeking, NEW t \in Threads,
           \/ GatherThreads(t) \/ WakeThreads(t) \/ ClearPending(t) \/ PassTask(t) \/ StartTask(t)
           \/ WindUpVarTask(t) \/ MarkDone(t) \/ NotifyNext(t) \/ PublishGroup(t)
           \/ EnterSubGraph(t) \/ SkipTask(t) \/ SkipEnds(t) \/ LeaveSubGraph(t)
           \/ ResetTask(t) \/ ResetExit(t) \/ RestartSubGraph(t)
    PROVE  /\ ~WindUpVarTask(t)
           /\ UNCHANGED <<executing, varTask, varLeft>>
           /\ job[t].own /\ job'[t].own /\ job'[t].sub = job[t].sub
  <1>1. ~WindUpVarTask(t) /\ job[t].own
    BY SoloKnown, WorkMoves DEF WindUpVarTask
  <1>2. CASE GatherThreads(t) \/ WakeThreads(t)
    <2>1. \E w : job' = [job EXCEPT ![t] = [job[t] EXCEPT !.wake = w]]
      BY <1>2 DEF GatherThreads, WakeThreads, SetJob
    <2>2. UNCHANGED <<executing, varTask, varLeft>>
      BY <1>2 DEF GatherThreads, WakeThreads, graphState
    <2> QED  BY <1>1, <2>1, <2>2 DEF Known, LocalInv, ThreadsOK, Jobs
  <1>3. CASE ~GatherThreads(t) /\ ~WakeThreads(t)
    <2>1. KeepsOwnership
      BY <1>1, <1>3, OwnershipKept DEF Known
    <2> QED  BY <1>1, <2>1 DEF KeepsOwnership
  <1> QED  BY <1>1, <1>2, <1>3

\* Every step keeps what the threads know of their search.
LEMMA SeekStep ==
    ASSUME Known, Flow, NotNested, SelfParallel = {}, Seeking, WatchInv, NEW t \in Threads, Step(t)
    PROVE  Seeking'
  <1> USE DEF Goto, SetFind, SetJob, graphState
  <1>0. /\ pc \in [Threads -> Labels] /\ find \in [Threads -> Searches] /\ job \in [Threads -> Jobs]
        /\ find[t] \in Searches /\ job[t] \in Jobs
        /\ pc[t] \notin Outside => find[t].order \in GroupOrders
    BY ThreadHere DEF Known, LocalInv, ThreadsOK, LocatedAt
  <1>1. \A u \in Threads : u # t => pc'[u] = pc[u] /\ job'[u] = job[u] /\ find'[u] = find[u]
    BY <1>0, OthersStay
  <1> SUFFICES SeekAt(pc'[t], find'[t], job'[t])
    BY <1>1 DEF Seeking
  <1>2. SeekAt(pc[t], find[t], job[t])
    BY DEF Seeking
  <1>3. /\ find[t].failedGroups \in Nat /\ GroupCnt \in Nat
        /\ pc[t] \in Looking \cup Outside => job[t].own = FALSE
    BY <1>0, SoloKnown, GroupCntPositive DEF Searches, Outside, Looking, Searching
  <1>4. CASE CallDoThread(t)
    <2>1. PICK o : find' = [find EXCEPT ![t] = [find[t] EXCEPT !.order = o]]
      BY <1>4 DEF CallDoThread
    <2>2. find'[t] = [find[t] EXCEPT !.order = o]
      BY <1>0, <2>1
    <2>3. find'[t].failedGroups = find[t].failedGroups /\ find'[t].seen = find[t].seen
      BY <1>0, <2>2 DEF Searches
    <2> QED  BY <1>0, <1>2, <1>3, <1>4, <2>3 DEF CallDoThread, SeekAt, Outside, Looking
  <1>5. CASE LoadPending(t)
    <2>1. pc[t] = "load" /\ job' = job
      BY <1>5 DEF LoadPending
    <2>2. PICK bits : NextGroup(t, find[t]) \/ (SetFind(t, [find[t] EXCEPT !.bits = bits]) /\ Goto(t, "look"))
      BY <1>5 DEF LoadPending
    <2>3. CASE NextGroup(t, find[t])
      BY <1>0, <1>2, <1>3, <2>1, <2>3, FailureSeeks DEF SeekAt, Looking, Outside
    <2>4. CASE SetFind(t, [find[t] EXCEPT !.bits = bits]) /\ Goto(t, "look")
      <3>1. find'[t] = [find[t] EXCEPT !.bits = bits] /\ pc'[t] = "look"
        BY <1>0, <2>4
      <3>2. /\ find'[t].failedGroups = find[t].failedGroups /\ find'[t].seen = find[t].seen
            /\ find'[t].group = find[t].group /\ find'[t].order = find[t].order /\ find'[t].at = find[t].at
        BY <1>0, <3>1 DEF Searches
      <3> QED  BY <1>2, <1>3, <2>1, <3>1, <3>2 DEF SeekAt, Looking, Outside
    <2> QED  BY <2>2, <2>3, <2>4
  <1>6. CASE LoadExecuting(t)
    <2>1. pc[t] = "look" /\ job' = job /\ pc'[t] = "enter"
      BY <1>0, <1>6 DEF LoadExecuting
    <2>2. PICK seen : find' = [find EXCEPT ![t] = [find[t] EXCEPT !.seen = seen]]
      BY <1>6 DEF LoadExecuting
    <2>3. find'[t] = [find[t] EXCEPT !.seen = seen]
      BY <1>0, <2>2
    <2>4. /\ find'[t].failedGroups = find[t].failedGroups
          /\ find'[t].group = find[t].group /\ find'[t].order = find[t].order /\ find'[t].at = find[t].at
      BY <1>0, <2>3 DEF Searches
    <2> QED  BY <1>2, <1>3, <2>1, <2>4 DEF SeekAt, Looking, Outside
  <1>7. CASE EnterFails(t)
    <2>1. pc[t] = "enter" /\ job' = job
      BY <1>7 DEF EnterFails
    <2>2. PICK s \in find[t].bits, now \in SUBSET SubGroups :
              LET f == [find[t] EXCEPT !.seen = now]
              IN  (SetFind(t, f) /\ Goto(t, "acquire")) \/ NextSubgroup(t, f, s)
      <3>1. executing \in SUBSET SubGroups /\ find[t].seen \in SUBSET SubGroups
        BY <1>0 DEF Known, LocalInv, SharedOK, Searches
      <3>2. PICK s \in find[t].bits :
                     LET now == IF find[t].seen \cap Excluded[s] # {} THEN find[t].seen
                                ELSE executing \cap Members(find[t].group)
                         f == [find[t] EXCEPT !.seen = now]
                     IN  (SetFind(t, f) /\ Goto(t, "acquire")) \/ NextSubgroup(t, f, s)
        BY <1>7 DEF EnterFails
      <3>3. PICK now : now = IF find[t].seen \cap Excluded[s] # {} THEN find[t].seen
                             ELSE executing \cap Members(find[t].group)
        OBVIOUS
      <3> QED  BY <3>1, <3>2, <3>3
    <2> DEFINE f == [find[t] EXCEPT !.seen = now]
    <2>3. /\ f \in Searches /\ f.failedGroups = find[t].failedGroups
          /\ f.group = find[t].group /\ f.order = find[t].order /\ f.at = find[t].at
      BY <1>0 DEF Searches
    <2>4. (SetFind(t, f) /\ Goto(t, "acquire")) \/ NextSubgroup(t, f, s)
      BY <2>2
    <2> HIDE DEF f
    <2>5. CASE NextSubgroup(t, f, s)
      BY <1>0, <1>2, <1>3, <2>1, <2>3, <2>5, FailureSeeks DEF SeekAt, Looking, Outside
    <2>6. CASE SetFind(t, f) /\ Goto(t, "acquire")
      <3>1. find'[t] = f /\ pc'[t] = "acquire"
        BY <1>0, <2>6
      <3> QED  BY <1>2, <1>3, <2>1, <2>3, <3>1 DEF SeekAt, Looking, Outside
    <2> QED  BY <2>4, <2>5, <2>6
  <1>8. CASE AcquireVarTask(t)
    <2>1. PICK s \in find[t].bits : \/ varTask[s].cnt > 0
                                    \/ NextSubgroup(t, find[t], s) /\ UNCHANGED job
      BY <1>8 DEF AcquireVarTask
    <2>2. pc[t] = "acquire" /\ varTask[s].cnt = 0
      BY <1>0, <1>8, SoloKnown DEF AcquireVarTask, Searches
    <2>3. NextSubgroup(t, find[t], s) /\ job' = job
      BY <2>1, <2>2
    <2> QED  BY <1>0, <1>2, <1>3, <2>2, <2>3, FailureSeeks DEF SeekAt, Looking, Outside
  <1>9. CASE EnterSubgroup(t)
    <2>1. find' = [find EXCEPT ![t] = Found(find[t])] /\ pc'[t] \in {"gather", "clear"}
      BY <1>0, <1>9 DEF EnterSubgroup, Owned
    <2>2. find'[t].failedGroups = 0 /\ find'[t].seen = {}
      BY <1>0, <2>1 DEF Found, Searches
    <2> QED  BY <2>1, <2>2 DEF SeekAt, Looking, Outside
  <1>10. CASE LeaveSubgroup(t)
    <2>1. pc[t] = "leave" /\ pc'[t] = "load" /\ find' = find /\ job'[t] = NoJob
      BY <1>0, <1>10 DEF LeaveSubgroup
    <2>2. job[t].own /\ NoJob.own = FALSE
      BY <2>1, SoloKnown DEF Outside, Searching, NoJob
    <2> QED  BY <1>2, <1>3, <2>1, <2>2 DEF SeekAt, Looking, Outside
  <1>11. CASE CheckTask(t) \/ MarkSleeping(t)
    <2>1. PICK k, l :
            \/ SetJob(t, [job[t] EXCEPT !.scanned = @ \cup {k}]) /\ UNCHANGED <<pc, find>>
            \/ Goto(t, "sleep") /\ UNCHANGED <<find, job>>
            \/ l \in {"exited", "waiting"} /\ Return(t, l)
      BY <1>11 DEF CheckTask, MarkSleeping
    <2>2. pc[t] \in {"check", "sleep"}
      BY <1>11 DEF CheckTask, MarkSleeping
    <2>3. CASE SetJob(t, [job[t] EXCEPT !.scanned = @ \cup {k}]) /\ UNCHANGED <<pc, find>>
      <3>1. job'[t].own = job[t].own
        BY <1>0, <2>3 DEF Jobs
      <3> QED  BY <1>2, <2>2, <2>3, <3>1 DEF SeekAt, Looking, Outside
    <2>4. CASE Goto(t, "sleep") /\ UNCHANGED <<find, job>>
      BY <1>0, <1>2, <2>4 DEF SeekAt, Looking, Outside
    <2>5. CASE l \in {"exited", "waiting"} /\ Return(t, l)
      <3>1. job'[t] = NoJob /\ pc'[t] = l /\ find'[t] = [NoSearch EXCEPT !.group = find[t].group]
        BY <1>0, <2>5 DEF Return
      <3>2. find'[t].failedGroups = 0 /\ find'[t].seen = {} /\ job'[t].own = FALSE
        BY <3>1 DEF NoSearch, NoJob
      <3> QED  BY <2>5, <3>1, <3>2 DEF SeekAt, Looking, Outside
    <2> QED  BY <2>1, <2>3, <2>4, <2>5
  <1>12. CASE AnnounceVarTask(t) \/ FinishVarTask(t)
    BY <1>12, SoloKnown DEF AnnounceVarTask, FinishVarTask
  <1>13. CASE \/ GatherThreads(t) \/ WakeThreads(t) \/ ClearPending(t) \/ PassTask(t) \/ StartTask(t)
              \/ WindUpVarTask(t) \/ MarkDone(t) \/ NotifyNext(t) \/ PublishGroup(t)
              \/ EnterSubGraph(t) \/ SkipTask(t) \/ SkipEnds(t) \/ LeaveSubGraph(t)
              \/ ResetTask(t) \/ ResetExit(t) \/ RestartSubGraph(t)
    <2>1. pc'[t] \notin Outside \cup Searching \cup {"announce"} /\ find' = find
      BY <1>13, WorkMoves, SoloWork
    <2>2. job[t].own
      BY <1>13, SoloWork
    <2> QED  BY <1>2, <2>1, <2>2 DEF SeekAt, Looking, Outside, Searching
  <1> QED  BY <1>4, <1>5, <1>6, <1>7, <1>8, <1>9, <1>10, <1>11, <1>12, <1>13 DEF Step
------------------------------------------------------------------------------
(***************************************************************************)
(* Who is at work.                                                         *)
(***************************************************************************)
Manned ==
    /\ \A k \in Tasks : state[k] = "EXECUTING" => \E t \in Threads : pc[t] = "run" /\ job[t].task = k
    /\ \A s \in executing : \E t \in Threads : Owns(t, s)
    /\ varTask = [s \in SubGroups |-> NoVarTask]

\* Whoever makes a task EXECUTING runs it, until it is done.
LEMMA RunnersStep ==
    ASSUME Known, Flow, NotNested, SelfParallel = {}, Seeking, Manned, NEW t \in Threads, Step(t),
           NEW k \in Tasks, state'[k] = "EXECUTING"
    PROVE  \E u \in Threads : pc'[u] = "run" /\ job'[u].task = k
  <1> USE DEF Goto, SetJob, graphState
  <1>0. /\ pc \in [Threads -> Labels] /\ find \in [Threads -> Searches] /\ job \in [Threads -> Jobs]
        /\ state \in [Tasks -> States] /\ job[t] \in Jobs
    BY DEF Known, LocalInv, SharedOK, ThreadsOK
  <1>1. CASE StartTask(t)
    <2>1. PICK n \in Tasks :
              /\ state' = [state EXCEPT ![n] = "EXECUTING"] /\ pc[t] = "scan"
              /\ SetJob(t, Take(t, n)) /\ Goto(t, "run")
      BY <1>1 DEF StartTask, Scans
    <2>2. pc'[t] = "run" /\ job'[t].task = n
      BY <1>0, <2>1 DEF Take, Jobs
    <2>3. CASE k = n
      BY <2>2, <2>3
    <2>4. CASE k # n
      <3>1. PICK u \in Threads : pc[u] = "run" /\ job[u].task = k
        BY <1>0, <2>1, <2>4 DEF Manned
      <3> QED  BY <1>0, <2>1, <3>1, OthersStay
    <2> QED  BY <2>3, <2>4
  <1>2. CASE MarkDone(t)
    <2>1. state' = [state EXCEPT ![job[t].task] = "DONE"]
      <3>1. [job[t] EXCEPT !.todo = NextTasks[job[t].task]].task = job[t].task
        BY <1>0 DEF Jobs
      <3> QED  BY <1>2, <3>1 DEF MarkDone
    <2>2. state[k] = "EXECUTING" /\ k # job[t].task
      BY <1>0, <2>1
    <2>3. PICK u \in Threads : pc[u] = "run" /\ job[u].task = k
      BY <2>2 DEF Manned
    <2> QED  BY <1>0, <2>2, <2>3, OthersStay
  <1>3. CASE ~StartTask(t) /\ ~MarkDone(t)
    <2>1. pc[t] # "run"
      BY <1>3 DEF Step, CallDoThread, LoadPending, LoadExecuting, EnterSubgroup, EnterFails, AcquireVarTask,
                  GatherThreads, WakeThreads, ClearPending, PassTask, WindUpVarTask, AnnounceVarTask,
                  FinishVarTask, LeaveSubgroup, NotifyNext, PublishGroup, EnterSubGraph, SkipTask,
                  SkipEnds, LeaveSubGraph, ResetTask, ResetExit, RestartSubGraph, CheckTask, MarkSleeping,
                  Scans
    <2>2. state[k] = "EXECUTING"
      <3>1. CASE \/ CallDoThread(t) \/ LoadPending(t) \/ LoadExecuting(t) \/ EnterFails(t)
                 \/ CheckTask(t) \/ MarkSleeping(t) \/ ClearPending(t) \/ PassTask(t)
                 \/ AnnounceVarTask(t) \/ LeaveSubgroup(t)
        BY <3>1, IdleMoves
      <3>2. CASE \/ EnterSubgroup(t) \/ AcquireVarTask(t) \/ GatherThreads(t) \/ WakeThreads(t)
                 \/ WindUpVarTask(t) \/ FinishVarTask(t) \/ PublishGroup(t) \/ EnterSubGraph(t)
                 \/ LeaveSubGraph(t)
        BY <3>2 DEF EnterSubgroup, AcquireVarTask, GatherThreads, WakeThreads, WindUpVarTask,
                    FinishVarTask, PublishGroup, EnterSubGraph, LeaveSubGraph
      <3>3. CASE NotifyNext(t)
        BY <1>0, <3>3 DEF NotifyNext
      <3>4. CASE SkipTask(t) \/ SkipEnds(t) \/ ResetTask(t) \/ ResetExit(t) \/ RestartSubGraph(t)
        BY <1>0, <3>4 DEF SkipTask, SkipEnds, ResetTask, ResetExit, RestartSubGraph, Reset
      <3> QED  BY <1>3, <3>1, <3>2, <3>3, <3>4 DEF Step
    <2>3. PICK u \in Threads : pc[u] = "run" /\ job[u].task = k
      BY <2>2 DEF Manned
    <2> QED  BY <1>0, <2>1, <2>3, OthersStay
  <1> QED  BY <1>1, <1>2, <1>3

\* How a step of a thread changes the executing bits: an owner comes or goes.
LEMMA OwnerSteps ==
    ASSUME Known, SelfParallel = {}, Seeking, NEW t \in Threads, Step(t)
    PROVE  /\ varTask' = varTask
           /\ \/ /\ EnterSubgroup(t) /\ job'[t].own /\ executing' = executing \cup {job'[t].sub}
                 /\ job[t].own = FALSE
              \/ /\ LeaveSubgroup(t) /\ job[t].own /\ executing' = executing \ {job[t].sub}
              \/ /\ job'[t].own /\ job[t].own /\ job'[t].sub = job[t].sub /\ executing' = executing
              \/ /\ \/ CallDoThread(t) \/ LoadPending(t) \/ LoadExecuting(t) \/ EnterFails(t)
                    \/ AcquireVarTask(t) \/ CheckTask(t) \/ MarkSleeping(t)
                 /\ executing' = executing /\ pending' = pending /\ state' = state /\ job[t].own = FALSE
                 /\ job'[t].own = FALSE
  <1>0. /\ pc \in [Threads -> Labels] /\ job \in [Threads -> Jobs] /\ find[t] \in Searches
    BY DEF Known, LocalInv, SharedOK, ThreadsOK
  <1>1. CASE EnterSubgroup(t)
    <2>1. PICK s : executing' = executing \cup {s} /\ job'[t] = [NoJob EXCEPT !.sub = s, !.own = TRUE]
      BY <1>0, <1>1 DEF EnterSubgroup, SetJob
    <2>2. job'[t].own /\ job'[t].sub = s /\ varTask' = varTask /\ pc[t] = "enter"
      BY <1>1, <2>1 DEF NoJob, EnterSubgroup
    <2> QED  BY <1>1, <2>1, <2>2, SoloKnown DEF Searching
  <1>2. CASE LeaveSubgroup(t)
    BY <1>2, SoloKnown DEF LeaveSubgroup, Outside, Searching
  <1>3. CASE CallDoThread(t) \/ LoadPending(t) \/ LoadExecuting(t) \/ EnterFails(t)
    <2>1. UNCHANGED <<varTask, executing, pending, state, job>> /\ pc[t] \in Outside \cup Searching
      BY <1>3 DEF CallDoThread, LoadPending, LoadExecuting, EnterFails, graphState, Outside, Searching
    <2> QED  BY <1>3, <2>1, SoloKnown
  <1>4. CASE CheckTask(t) \/ MarkSleeping(t)
    <2>1. UNCHANGED <<varTask, executing, pending, state>> /\ pc[t] \in Outside \cup Searching
      BY <1>4 DEF CheckTask, MarkSleeping, graphState, Outside, Searching
    <2>2. job[t].own = FALSE
      BY <2>1, SoloKnown
    <2>3. KeepsOwnership
      BY <1>4, OwnershipKept DEF Known
    <2> QED  BY <1>4, <2>1, <2>2, <2>3 DEF KeepsOwnership
  <1>5. CASE AcquireVarTask(t)
    <2>1. PICK s \in find[t].bits : varTask[s].cnt > 0 \/ UNCHANGED <<varTask, job>>
      BY <1>5 DEF AcquireVarTask
    <2>2. varTask[s].cnt = 0
      BY <1>0, SoloKnown DEF Searches
    <2>3. UNCHANGED <<varTask, executing, pending, state, job>> /\ pc[t] \in Outside \cup Searching
      BY <1>5, <2>1, <2>2 DEF AcquireVarTask, Outside, Searching
    <2> QED  BY <1>5, <2>3, SoloKnown
  <1>6. CASE AnnounceVarTask(t) \/ FinishVarTask(t)
    BY <1>6, SoloKnown DEF AnnounceVarTask, FinishVarTask
  <1>7. CASE \/ GatherThreads(t) \/ WakeThreads(t) \/ ClearPending(t) \/ PassTask(t) \/ StartTask(t)
             \/ WindUpVarTask(t) \/ MarkDone(t) \/ NotifyNext(t) \/ PublishGroup(t)
             \/ EnterSubGraph(t) \/ SkipTask(t) \/ SkipEnds(t) \/ LeaveSubGraph(t)
             \/ ResetTask(t) \/ ResetExit(t) \/ RestartSubGraph(t)
    BY <1>7, SoloWork
  <1> QED  BY <1>1, <1>2, <1>3, <1>4, <1>5, <1>6, <1>7 DEF Step

\* Every step leaves somebody at every task and subgroup that is executing.
LEMMA MannedStep ==
    ASSUME Known, Flow, NotNested, SelfParallel = {}, Seeking, Manned, NEW t \in Threads, Step(t)
    PROVE  Manned'
  <1>1. \A u \in Threads : u # t => job'[u] = job[u]
    BY OthersStay DEF Known, LocalInv, ThreadsOK
  <1>2. \A k \in Tasks : state'[k] = "EXECUTING" => \E u \in Threads : pc'[u] = "run" /\ job'[u].task = k
    BY RunnersStep
  <1>3. ASSUME NEW s \in executing' PROVE \E u \in Threads : Owns(u, s)'
    <2>1. CASE s \notin executing
      BY <1>3, <2>1, OwnerSteps DEF Owns
    <2>2. CASE s \in executing
      <3>1. PICK u \in Threads : Owns(u, s)
        BY <2>2 DEF Manned
      <3>2. u # t \/ (job'[t].own /\ job'[t].sub = job[t].sub)
        BY <1>3, <3>1, OwnerSteps DEF Owns
      <3> QED  BY <1>1, <3>1, <3>2 DEF Owns
    <2> QED  BY <2>1, <2>2
  <1> QED  BY <1>2, <1>3, OwnerSteps DEF Manned
------------------------------------------------------------------------------
(***************************************************************************)
(* The last one leaves nothing undone.                                     *)
(***************************************************************************)
NobodyOwns == \A t \in Threads : job[t].own = FALSE
Complete   == \A k \in Tasks : state[k] = "DONE"

\* While a task is not done, and nobody is at work in a subgroup, some pending bit is
\* set: a first task that is not done has nothing before it to wait for.
LEMMA WorkIsFound ==
    ASSUME Known, Flow, OrderedGraph, SelfParallel = {}, Seeking, Manned, NobodyOwns, pending = {}
    PROVE  Complete
  <1>1. ASSUME NEW u \in Threads
        PROVE  /\ pc[u] \in Outside \cup Searching
               /\ pc[u] \notin OnTask \cup {"scan", "gather", "wake", "clear", "announce"}
    BY <1>1, SoloKnown DEF NobodyOwns, Outside, Searching, OnTask
  <1>2. \A u \in Threads : pc[u] \notin {"run", "notify", "done", "skip", "reset", "restart"}
    BY <1>1 DEF OnTask
  <1>3. \A k \in Tasks : state[k] # "PENDING"
    <2> SUFFICES ASSUME NEW k \in Tasks, state[k] = "PENDING" PROVE FALSE
      OBVIOUS
    <2>1. PICK u \in Threads : CoversAt(pc[u], job[u], k)
      BY NoLostWorkDef DEF Known, LookoutInv
    <2>2. NotedAt(pc[u], job[u])
      BY DEF Known, LookoutInv, AllNoted
    <2> QED  BY <1>1, <1>2, <2>1, <2>2 DEF CoversAt, NotedAt, NobodyOwns
  <1>4. \A k \in Tasks : state[k] # "EXECUTING"
    BY <1>2 DEF Manned
  <1>5. \A k \in Tasks : state[k] \in {"NONE", "DONE"}
    BY <1>3, <1>4 DEF Known, LocalInv, SharedOK, States
  <1> PICK S : S = {k \in Tasks : state[k] = "NONE"}
    OBVIOUS
  <1>6. ASSUME S # {} PROVE FALSE
    <2>1. PICK k \in S : Preds(k) \cap S = {}
      BY <1>6 DEF OrderedGraph, Acyclic
    <2>2. k \in Tasks /\ state[k] = "NONE"
      OBVIOUS
    <2>3. \A p \in Preds(k) : state[p] = "DONE"
      BY <1>5, <2>1 DEF Preds
    <2>4. \A p \in Preds(k) : ~Undelivered(p, k)
      BY <1>2 DEF Undelivered
    <2>5. Delivered(k) = Preds(k)
      BY <2>3, <2>4 DEF Delivered
    <2>6. CASE Counts(k)
      BY <2>2, <2>5, <2>6 DEF Flow, DepsCounted, CountedAt
    <2>7. CASE ~Counts(k)
      <3>1. PICK g \in SubGraphs : k \in Parts(g) /\ (Over(g) \/ Resetting(g))
        BY <2>7 DEF Counts
      <3>2. ~Resetting(g) /\ ~Skipped(g)
        BY <1>2 DEF Resetting, Skipped
      <3>3. AllDone(g)
        BY <3>1, <3>2 DEF Flow, GraphOK, OverMeansDone
      <3>4. state[Exit[g]] = "DONE"
        BY <1>2, <3>3 DEF AllDone
      <3> QED  BY <2>2, <3>1, <3>3, <3>4 DEF AllDone, Parts
    <2> QED  BY <2>6, <2>7
  <1> QED  BY <1>5, <1>6 DEF Complete

\* Thread t is about to find what is pending: it has seen no subgroup executing, and
\* nothing is pending in what it has passed.
Hopeful(t) == pc[t] \in {"load", "look", "enter"} /\ find[t].seen = {} /\ Passed(find[t])
AllReady   == \A t \in Threads : pc[t] = "ready"

Alive == Complete \/ ~NobodyOwns \/ AllReady \/ \E t \in Threads : Hopeful(t)

\* A thread that looks for work while nobody else is at work finds some.
LEMMA HopefulMoves ==
    ASSUME Known, Flow, OrderedGraph, SelfParallel = {}, Seeking, Manned, NobodyOwns,
           ~Complete, NEW t \in Threads, pc[t] = "ready" \/ Hopeful(t), executing' = executing, pending' = pending,
           \/ CallDoThread(t) \/ LoadPending(t) \/ LoadExecuting(t) \/ EnterFails(t)
           \/ AcquireVarTask(t) \/ CheckTask(t) \/ MarkSleeping(t)
    PROVE  Hopeful(t)'
  <1> USE DEF Goto, SetFind
  <1>0. /\ pc \in [Threads -> Labels] /\ find \in [Threads -> Searches]
        /\ find[t] \in Searches /\ pending \subseteq SubGroups
        /\ pc[t] \notin Outside => find[t].order \in GroupOrders
    BY ThreadHere DEF Known, LocalInv, SharedOK, ThreadsOK, LocatedAt
  <1>1. executing = {}
    BY DEF NobodyOwns, Manned, Owns
  <1>2. SeekAt(pc[t], find[t], job[t]) /\ find[t].failedGroups \in Nat
    BY <1>0 DEF Seeking, Searches
  <1>3. CASE CallDoThread(t)
    <2>1. PICK o : find' = [find EXCEPT ![t] = [find[t] EXCEPT !.order = o]]
      BY <1>3 DEF CallDoThread
    <2>2. find'[t] = [find[t] EXCEPT !.order = o]
      BY <1>0, <2>1
    <2>3. find'[t].failedGroups = find[t].failedGroups /\ find'[t].seen = find[t].seen
      BY <1>0, <2>2 DEF Searches
    <2>4. pc'[t] = "load" /\ find'[t].failedGroups = 0 /\ find'[t].seen = {}
      BY <1>0, <1>2, <1>3, <2>3 DEF CallDoThread, SeekAt, Outside
    <2>5. Passed(find[t])'
      BY <2>4 DEF Passed
    <2> QED  BY <2>4, <2>5 DEF Hopeful
  <1>4. CASE LoadPending(t)
    <2>1. pc[t] = "load" /\ find[t].seen = {} /\ Passed(find[t])
      BY <1>4 DEF LoadPending, Hopeful
    <2>2. /\ find[t].order \in GroupOrders /\ find[t].failedGroups =< GroupCnt
          /\ find[t].failedGroups >= 1 => find[t].group = find[t].order[find[t].at]
      BY <1>0, <1>2, <2>1 DEF Outside, SeekAt, Looking
    <2>3. CASE pending \cap Members(find[t].group) = {}
      <3>1. NextGroup(t, find[t])
        BY <1>4, <2>3 DEF LoadPending
      <3>2. Passed(find[t])'
        BY <1>0, <2>1, <2>2, <2>3, <3>1, NextGroupPasses
      <3>3. /\ find'[t].seen = {} /\ find'[t].order = find[t].order /\ find'[t] \in Searches
            /\ find'[t].failedGroups = find[t].failedGroups + 1
            /\ pc'[t] = IF find[t].failedGroups < GroupCnt THEN "load" ELSE "check"
        BY <1>0, <2>2, <3>1, NextGroupSeeks
      <3>4. find[t].failedGroups < GroupCnt
        <4> SUFFICES ASSUME ~(find[t].failedGroups < GroupCnt) PROVE FALSE
          OBVIOUS
        <4>1. find'[t].failedGroups - 1 = GroupCnt
          BY <1>2, <2>2, <3>3, GroupCntPositive
        <4>2. \A d \in 1..GroupCnt : pending \cap Members(find'[t].order[Back(find'[t].at, d)]) = {}
          BY <3>2, <4>1 DEF Passed
        <4>3. find'[t].at \in 1..GroupCnt /\ find'[t].order \in GroupOrders
          BY <2>2, <3>3 DEF Searches
        <4>4. pending = {}
          BY <1>0, <4>2, <4>3, AllPassed
        <4> QED  BY <4>4, WorkIsFound
      <3> QED  BY <3>2, <3>3, <3>4 DEF Hopeful
    <2>4. CASE pending \cap Members(find[t].group) # {}
      <3>1. /\ pc'[t] = "look"
            /\ find'[t] = [find[t] EXCEPT !.bits = pending \cap Members(find[t].group)]
        BY <1>0, <1>4, <2>4 DEF LoadPending
      <3>2. /\ find'[t].seen = {} /\ find'[t].failedGroups = find[t].failedGroups
            /\ find'[t].order = find[t].order /\ find'[t].at = find[t].at
        BY <1>0, <2>1, <3>1 DEF Searches
      <3>3. Passed(find[t])'
        BY <2>1, <3>2 DEF Passed
      <3> QED  BY <3>1, <3>2, <3>3 DEF Hopeful
    <2> QED  BY <2>3, <2>4
  <1>5. CASE LoadExecuting(t)
    <2>1. pc[t] = "look" /\ Passed(find[t])
      BY <1>5 DEF LoadExecuting, Hopeful
    <2>2. pc'[t] = "enter" /\ find'[t] = [find[t] EXCEPT !.seen = executing \cap Members(find[t].group)]
      BY <1>0, <1>5 DEF LoadExecuting
    <2>3. /\ find'[t].seen = {} /\ find'[t].failedGroups = find[t].failedGroups
          /\ find'[t].order = find[t].order /\ find'[t].at = find[t].at
      BY <1>0, <1>1, <2>2 DEF Searches
    <2>4. Passed(find[t])'
      BY <2>1, <2>3 DEF Passed
    <2> QED  BY <2>2, <2>3, <2>4 DEF Hopeful
  <1>6. CASE EnterFails(t)
    <2>1. pc[t] = "enter" /\ find[t].seen = {}
      BY <1>6 DEF EnterFails, Hopeful
    <2> QED  BY <1>1, <1>6, <2>1 DEF EnterFails
  <1>7. CASE AcquireVarTask(t) \/ CheckTask(t) \/ MarkSleeping(t)
    BY <1>7 DEF AcquireVarTask, CheckTask, MarkSleeping, Hopeful
  <1> QED  BY <1>3, <1>4, <1>5, <1>6, <1>7

\* A thread that leaves a subgroup looks for work once more from the start.
LEMMA LeavesHopeful ==
    ASSUME Known, SelfParallel = {}, Seeking, NEW t \in Threads, LeaveSubgroup(t)
    PROVE  Hopeful(t)'
  <1>1. pc[t] = "leave" /\ find' = find /\ pc'[t] = "load"
    BY DEF LeaveSubgroup, Goto, Known, LocalInv, ThreadsOK
  <1>2. job[t].own
    BY <1>1, SoloKnown DEF Outside, Searching
  <1>3. find'[t].failedGroups = 0 /\ find'[t].seen = {}
    BY <1>1, <1>2 DEF Seeking, SeekAt
  <1>4. Passed(find[t])'
    BY <1>3 DEF Passed
  <1> QED  BY <1>1, <1>3, <1>4 DEF Hopeful

\* Until everything is done, somebody is at work or will find some.
LEMMA AliveStep ==
    ASSUME Known, Flow, OrderedGraph, SelfParallel = {}, Seeking, Manned, NEW t \in Threads, Step(t), Alive
    PROVE  Alive'
  <1>0. NotNested
    BY DEF OrderedGraph
  <1>1. \A u \in Threads : u # t => pc'[u] = pc[u] /\ job'[u] = job[u] /\ find'[u] = find[u]
    BY OthersStay DEF Known, LocalInv, ThreadsOK
  <1>2. CASE Complete
    BY <1>0, <1>2, DoneStays DEF Alive, Complete
  <1>3. CASE job'[t].own
    BY <1>3 DEF Alive, NobodyOwns
  <1>4. CASE LeaveSubgroup(t)
    BY <1>4, LeavesHopeful DEF Alive
  <1>5. CASE /\ \/ CallDoThread(t) \/ LoadPending(t) \/ LoadExecuting(t) \/ EnterFails(t)
                \/ AcquireVarTask(t) \/ CheckTask(t) \/ MarkSleeping(t)
             /\ executing' = executing /\ pending' = pending /\ job[t].own = FALSE /\ ~Complete
    <2>1. CASE ~NobodyOwns
      <3>1. PICK u \in Threads : job[u].own # FALSE
        BY <2>1 DEF NobodyOwns
      <3>2. job'[u] = job[u]
        BY <1>1, <1>5, <3>1
      <3> QED  BY <3>1, <3>2 DEF Alive, NobodyOwns
    <2>2. CASE NobodyOwns
      <3>1. PICK u \in Threads : AllReady \/ Hopeful(u)
        BY <1>5, <2>2 DEF Alive
      <3>2. CASE u = t
        BY <1>5, <2>2, <3>1, <3>2, HopefulMoves DEF Alive, AllReady
      <3>3. CASE u # t
        <4>1. pc'[u] = pc[u] /\ find'[u] = find[u]
          BY <1>1, <3>3
        <4>2. CASE AllReady
          BY <1>5, <2>2, <4>2, HopefulMoves DEF AllReady, Alive
        <4>3. CASE Hopeful(u)
          <5>1. Hopeful(u)'
            BY <1>5, <4>1, <4>3 DEF Hopeful, Passed
          <5> QED  BY <5>1 DEF Alive
        <4> QED  BY <3>1, <4>2, <4>3
      <3> QED  BY <3>2, <3>3
    <2> QED  BY <2>1, <2>2
  <1> QED  BY <1>2, <1>3, <1>4, <1>5, OwnerSteps

SoloInv == Seeking /\ Manned /\ (round > 0 => Alive)

\* Every step keeps somebody at work while something is left to do.
LEMMA SoloNext ==
    ASSUME OrderedGraph, SelfParallel = {}, Known, FlowInv, WatchInv, SoloInv, [Next]_vars
    PROVE  SoloInv'
  <1>1. CASE UNCHANGED vars \/ Finished
    <2>1. UNCHANGED <<pending, executing, varTask, state, pc, find, job, round>>
      BY <1>1 DEF Finished, vars, graphState
    <2>2. Seeking' /\ Manned'
      BY <2>1 DEF SoloInv, Seeking, Manned, Owns
    <2>3. round' > 0 => Alive'
      BY <2>1 DEF SoloInv, Alive, Complete, NobodyOwns, AllReady, Hopeful, Passed
    <2> QED  BY <2>2, <2>3 DEF SoloInv
  <1>2. CASE Prepare
    <2>1. /\ \A t \in Threads : pc'[t] = "ready" /\ find'[t] = NoSearch
          /\ UNCHANGED <<executing, varTask, job>>
          /\ \A k \in Tasks : state'[k] # "EXECUTING"
      BY <1>2 DEF Prepare
    <2>2. Seeking'
      BY <2>1 DEF Seeking, SeekAt, NoSearch, Looking
    <2>3. Manned'
      BY <2>1 DEF SoloInv, Manned, Owns
    <2>4. Alive'
      BY <2>1 DEF Alive, AllReady
    <2> QED  BY <2>2, <2>3, <2>4 DEF SoloInv
  <1>3. ASSUME NEW t \in Threads, Step(t) PROVE SoloInv'
    <2>1. pc[t] # "exited" /\ round' = round
      BY <1>3, StepFrame DEF Known
    <2>2. Flow /\ NotNested
      BY <2>1, UnstartedTasks DEF FlowInv, OrderedGraph
    <2>3. Seeking' /\ Manned'
      BY <1>3, <2>2, SeekStep, MannedStep DEF SoloInv
    <2>4. round > 0 => Alive'
      BY <1>3, <2>2, AliveStep DEF SoloInv
    <2> QED  BY <2>1, <2>3, <2>4 DEF SoloInv
  <1> QED  BY <1>1, <1>2, <1>3 DEF Next

\* In every state, somebody is at work or about to find some, until everything is done.
LEMMA SoloInvariant ==
    ASSUME OrderedGraph, SelfParallel = {}
    PROVE  Spec => [](Known /\ FlowInv /\ WatchInv /\ SoloInv)
  <1>1. Init => SoloInv
    BY DEF Init, SoloInv, Seeking, SeekAt, NoSearch, Looking, Manned
  <1>2. Known /\ FlowInv /\ WatchInv /\ SoloInv /\ [Next]_vars => SoloInv'
    BY SoloNext
  <1>3. Spec => []CleanStart
    BY StartsClean
  <1> QED  BY <1>1, <1>2, <1>3, KnownInvariant, FlowInvariant, WatchInvariant, PTL DEF Spec

\* While something is left to start, a thread that does not own a subgroup is not the
\* only one inside doThread.
LEMMA SomeoneElse ==
    ASSUME Known, SelfParallel = {}, SoloInv, round > 0, ~Complete, NEW t \in Threads, pc[t] # "ready",
           pc[t] \in Outside \cup {"check", "sleep"}
    PROVE  \E u \in Threads : u # t /\ pc[u] \notin Outside \cup {"sleep"}
  <1>1. \A u \in Threads : job[u].own # FALSE => pc[u] \notin Outside \cup Searching
    BY SoloKnown DEF SoloInv
  <1>2. Alive /\ ~AllReady
    BY DEF SoloInv, AllReady
  <1>3. CASE ~NobodyOwns
    BY <1>1, <1>3 DEF NobodyOwns, Searching
  <1>4. CASE \E u \in Threads : Hopeful(u)
    BY <1>4 DEF Hopeful, Outside
  <1> QED  BY <1>2, <1>3, <1>4 DEF Alive

\* When no thread is left inside doThread, everything is done, and the words that
\* prepareForExecution does not reset are as the next execution needs them (doThread,
\* validateAllDone), where no task runs in parallel with itself.
THEOREM LastOneLeavesNothing ==
    ASSUME OrderedGraph, SelfParallel = {}, Threads # {}
    PROVE  Spec => []LastOneFinishes
  <1>1. ASSUME Known, SoloInv PROVE LastOneFinishes
    <2> SUFFICES ASSUME round > 0, \A t \in Threads : pc[t] \in {"waiting", "exited"}
                 PROVE  /\ \A k \in Tasks : state[k] = "DONE"
                        /\ executing = {}
                        /\ \A s \in SubGroups : varTask[s] = NoVarTask /\ varLeft[s] = 0
      BY DEF LastOneFinishes
    <2>1. \A t \in Threads : pc[t] \in Outside /\ pc[t] # "ready"
      BY DEF Outside
    <2>2. Complete
      BY <1>1, <2>1, SomeoneElse
    <2>3. executing = {}
      BY <1>1, <2>1, SoloKnown DEF SoloInv, Manned, Owns
    <2>4. ASSUME NEW s \in SubGroups PROVE varTask[s] = NoVarTask /\ varLeft[s] = 0
      <3>1. varTask[s] = NoVarTask
        BY <1>1 DEF SoloInv, Manned
      <3>2. Invocations(s) = {}
        BY DEF Invocations
      <3>3. varLeft[s] = varTask[s].cnt + Cardinality(Invocations(s))
        BY <1>1 DEF Known, OwnershipInv, VarTaskAccounting
      <3> QED  BY <3>1, <3>2, <3>3, FS_EmptySet DEF NoVarTask
    <2> QED  BY <2>2, <2>3, <2>4 DEF Complete
  <1> QED  BY <1>1, SoloInvariant, PTL

------------------------------------------------------------------------------
(***************************************************************************)
(* The contract with the pool.                                             *)
(***************************************************************************)

\* When everything has started, nothing goes back to be started once more.
LEMMA StartedStays ==
    ASSUME Known, Flow, NotNested, NEW t \in Threads, Step(t), \A k \in Tasks : Started(k)
    PROVE  \A k \in Tasks : state'[k] \in {"EXECUTING", "DONE"}
  <1> SUFFICES ASSUME NEW k \in Tasks PROVE state'[k] \in {"EXECUTING", "DONE"}
    OBVIOUS
  <1>1. CASE Outer(k)
    BY <1>1, OuterStays DEF Started
  <1>2. CASE ~Outer(k)
    <2>1. PICK g \in SubGraphs : k \in Body[g] \cup {Entry[g]}
      BY <1>2 DEF Outer
    <2>2. state[Exit[g]] = "DONE"
      BY EndsApart DEF Started, Flow, GraphOK, EndsOK
    <2>3. state[k] = "DONE" /\ \A h \in SubGraphs : k = Entry[h] => h = g
      BY <2>1, <2>2, ClosedGraph, EndsApart DEF NotNested, SubGraphEnds
    <2>4. CASE k \in SubGraphEnds
      BY <2>2, <2>3, <2>4, EndStays
    <2>5. CASE k \notin SubGraphEnds
      <3>1. state'[k] = "DONE" \/ \E h \in SubGraphs : k \in Body[h] /\ Held(t, h)
        BY <2>3, <2>5, StateSteps, EndsApart DEF SubGraphEnds
      <3>2. \A h \in SubGraphs : k \in Body[h] => h = g
        BY <2>1, <2>5 DEF NotNested, SubGraphEnds
      <3> QED  BY <2>2, <3>1, <3>2, ClosedGraph
    <2> QED  BY <2>4, <2>5
  <1> QED  BY <1>1, <1>2

\* A thread has somebody to wake only while it is about to call the callback.
Wakes == \A t \in Threads : pc[t] # "wake" => job[t].wake = {}

\* The steps that a pool cannot see: the thread is inside doThread before and after.
LEMMA BusyMoves ==
    ASSUME Known, Wakes, NEW t \in Threads, Step(t),
           ~(CallDoThread(t) \/ GatherThreads(t) \/ WakeThreads(t) \/ CheckTask(t) \/ MarkSleeping(t))
    PROVE  /\ pc[t] \notin Outside \cup {"sleep", "wake"} /\ pc'[t] \notin Outside \cup {"sleep"}
           /\ sleeping' = sleeping
           /\ job[t].wake = {} /\ job'[t].wake = {}
  <1> USE DEF Goto, SetJob, graphState
  <1>0. /\ pc \in [Threads -> Labels] /\ job \in [Threads -> Jobs] /\ job[t] \in Jobs
        /\ NoJob.wake = {}
    BY DEF Known, LocalInv, ThreadsOK, NoJob
  <1>1. SUFFICES /\ pc[t] \notin Outside \cup {"sleep", "wake"} /\ pc'[t] \notin Outside \cup {"sleep"}
                 /\ sleeping' = sleeping
                 /\ job'[t].wake \in {{}, job[t].wake}
    BY DEF Wakes
  <1>2. CASE LoadPending(t) \/ LoadExecuting(t) \/ EnterFails(t)
    <2>1. pc[t] \in {"load", "look", "enter"} /\ sleeping' = sleeping /\ job' = job
      BY <1>2 DEF LoadPending, LoadExecuting, EnterFails
    <2>2. pc'[t] \in {"load", "look", "enter", "acquire", "check"}
      BY <1>0, <1>2, SearchMoves DEF LoadPending, LoadExecuting, EnterFails
    <2> QED  BY <2>1, <2>2 DEF Outside
  <1>3. CASE EnterSubgroup(t)
    BY <1>0, <1>3 DEF EnterSubgroup, Owned, NoJob, Outside
  <1>4. CASE AcquireVarTask(t)
    <2>1. pc[t] = "acquire" /\ sleeping' = sleeping
      BY <1>4 DEF AcquireVarTask
    <2>2. PICK s : \/ NextSubgroup(t, find[t], s) /\ UNCHANGED job
                   \/ /\ SetJob(t, [NoJob EXCEPT !.sub = s, !.task = varTask[s].task, !.idx = varTask[s].cnt - 1])
                      /\ Goto(t, Piece(varTask[s].cnt))
      BY <1>4 DEF AcquireVarTask
    <2>3. CASE NextSubgroup(t, find[t], s) /\ UNCHANGED job
      BY <2>1, <2>3, SearchMoves DEF Outside
    <2>4. CASE /\ SetJob(t, [NoJob EXCEPT !.sub = s, !.task = varTask[s].task, !.idx = varTask[s].cnt - 1])
               /\ Goto(t, Piece(varTask[s].cnt))
      BY <1>0, <2>1, <2>4 DEF Outside, Piece, NoJob
    <2> QED  BY <2>2, <2>3, <2>4
  <1>5. CASE AnnounceVarTask(t) \/ LeaveSubgroup(t)
    BY <1>0, <1>5 DEF AnnounceVarTask, LeaveSubgroup, Outside
  <1>6. CASE FinishVarTask(t)
    <2>1. pc[t] = "piece" /\ sleeping' = sleeping
      BY <1>6 DEF FinishVarTask
    <2>2. \/ SetJob(t, [job[t] EXCEPT !.own = TRUE, !.fresh = TRUE]) /\ Goto(t, "done")
          \/ SetJob(t, NoJob) /\ NextSubgroup(t, find[t], job[t].sub)
      BY <1>6 DEF FinishVarTask
    <2>3. CASE SetJob(t, NoJob) /\ NextSubgroup(t, find[t], job[t].sub)
      BY <1>0, <2>1, <2>3, SearchMoves DEF Outside
    <2>4. CASE SetJob(t, [job[t] EXCEPT !.own = TRUE, !.fresh = TRUE]) /\ Goto(t, "done")
      BY <1>0, <2>1, <2>4 DEF Outside, Jobs
    <2> QED  BY <2>2, <2>3, <2>4
  <1>7. CASE \/ ClearPending(t) \/ PassTask(t) \/ StartTask(t) \/ WindUpVarTask(t) \/ MarkDone(t)
             \/ NotifyNext(t) \/ PublishGroup(t) \/ EnterSubGraph(t) \/ SkipTask(t) \/ SkipEnds(t)
             \/ LeaveSubGraph(t) \/ ResetTask(t) \/ ResetExit(t) \/ RestartSubGraph(t)
    <2>1. pc[t] \notin Outside \cup Searching /\ pc'[t] \notin Outside \cup Searching
      BY <1>7, WorkMoves
    <2>2. CASE ClearPending(t) \/ WindUpVarTask(t)
      BY <1>0, <2>1, <2>2 DEF ClearPending, WindUpVarTask, NoJob, Searching
    <2>3. CASE PassTask(t)
      BY <1>0, <2>1, <2>3 DEF PassTask, Scans, Jobs, Searching
    <2>4. CASE StartTask(t) \/ EnterSubGraph(t) \/ LeaveSubGraph(t)
      <3>1. pc[t] = "scan" /\ sleeping' = sleeping
        BY <2>4 DEF StartTask, EnterSubGraph, LeaveSubGraph, Scans
      <3>2. PICK k, n : \/ job' = [job EXCEPT ![t] = Take(t, k)]
                        \/ job' = [job EXCEPT ![t] = [Take(t, k) EXCEPT !.idx = n]]
                        \/ job' = [job EXCEPT ![t] = [Take(t, k) EXCEPT !.todo = n]]
        BY <2>4 DEF StartTask, EnterSubGraph, LeaveSubGraph
      <3>3. job'[t].wake = job[t].wake
        BY <1>0, <3>2 DEF Take, Jobs
      <3> QED  BY <2>1, <3>1, <3>3 DEF Searching
    <2>5. CASE MarkDone(t) \/ NotifyNext(t) \/ PublishGroup(t)
      <3>1. pc[t] \in {"run", "done", "notify"} /\ sleeping' = sleeping
        BY <2>5 DEF MarkDone, NotifyNext, PublishGroup
      <3>2. PICK n, p : \/ job' = [job EXCEPT ![t] = [job[t] EXCEPT !.todo = n]]
                        \/ job' = [job EXCEPT ![t] = [job[t] EXCEPT !.publish = p]]
                        \/ job' = [job EXCEPT ![t] = [job[t] EXCEPT !.todo = n, !.publish = p]]
        BY <2>5 DEF MarkDone, NotifyNext, PublishGroup
      <3>3. job'[t].wake = job[t].wake
        BY <1>0, <3>2 DEF Jobs
      <3> QED  BY <2>1, <3>1, <3>3 DEF Searching
    <2>6. CASE SkipTask(t) \/ SkipEnds(t) \/ ResetTask(t) \/ ResetExit(t) \/ RestartSubGraph(t)
      BY <1>0, <2>1, <2>6 DEF SkipTask, SkipEnds, ResetTask, ResetExit, RestartSubGraph, Jobs, Searching
    <2> QED  BY <1>7, <2>2, <2>3, <2>4, <2>5, <2>6
  <1> QED  BY <1>2, <1>3, <1>4, <1>5, <1>6, <1>7 DEF Step

\* Every step keeps a thread from having somebody to wake elsewhere.
LEMMA WakesNext ==
    ASSUME Known, Wakes, [Next]_vars
    PROVE  Wakes'
  <1> USE DEF Goto, SetJob, graphState
  <1>1. CASE UNCHANGED vars \/ Finished
    BY <1>1 DEF Finished, vars, Wakes
  <1>2. CASE Prepare
    BY <1>2 DEF Prepare, AllExited, Wakes
  <1>3. ASSUME NEW t \in Threads, Step(t) PROVE Wakes'
    <2>0. /\ pc \in [Threads -> Labels] /\ job \in [Threads -> Jobs] /\ job[t] \in Jobs
          /\ find \in [Threads -> Searches] /\ NoJob.wake = {}
      BY DEF Known, LocalInv, ThreadsOK, NoJob
    <2>1. \A u \in Threads : u # t => pc'[u] = pc[u] /\ job'[u] = job[u]
      BY <1>3, <2>0, OthersStay
    <2> SUFFICES pc'[t] = "wake" \/ job'[t].wake = {}
      BY <2>1 DEF Wakes
    <2>2. CASE GatherThreads(t)
      BY <2>0, <2>2 DEF GatherThreads
    <2>3. CASE WakeThreads(t) \/ CallDoThread(t) \/ MarkSleeping(t)
      BY <2>0, <2>3 DEF WakeThreads, CallDoThread, MarkSleeping, Return, Jobs, Wakes
    <2>4. CASE CheckTask(t)
      <3>1. pc[t] = "check"
        BY <2>4 DEF CheckTask
      <3>2. PICK S : job' = job \/ SetJob(t, NoJob) \/ SetJob(t, [job[t] EXCEPT !.scanned = S])
        BY <2>4 DEF CheckTask, Return
      <3> QED  BY <2>0, <3>1, <3>2 DEF Wakes, Jobs
    <2> QED  BY <1>3, <2>2, <2>3, <2>4, BusyMoves
  <1> QED  BY <1>1, <1>2, <1>3 DEF Next

\* A step moves one thread in the contract.
LEMMA PlaceMoves ==
    ASSUME Known, NEW t \in Threads, Step(t)
    PROVE  /\ [u \in Threads |-> Place(u)]' = [[u \in Threads |-> Place(u)] EXCEPT ![t] = Place(t)']
           /\ [u \in Threads |-> job[u].wake]' = [[u \in Threads |-> job[u].wake] EXCEPT ![t] = job'[t].wake]
  <1>1. \A u \in Threads : u # t => pc'[u] = pc[u] /\ job'[u] = job[u]
    BY OthersStay DEF Known, LocalInv, ThreadsOK
  <1>2. \A u \in Threads : u # t => Place(u)' = Place(u)
    BY <1>1 DEF Place
  <1> QED  BY <1>1, <1>2

\* How far an execution has come never goes back.
LEMMA PhaseMoves ==
    ASSUME Known, Flow, NotNested, NEW t \in Threads, Step(t), Phase' # Phase
    PROVE  Phase' \in {"started", "done"} /\ Phase \in Contract!Before(Phase')
  <1>1. Phase = "done" => Complete'
    BY DoneStays DEF Phase, Complete
  <1>2. Phase # "open" => \A k \in Tasks : state'[k] \in {"EXECUTING", "DONE"}
    BY StartedStays DEF Phase, Started
  <1>3. Phase \in {"open", "started", "done"} /\ Phase' \in {"open", "started", "done"}
    BY DEF Phase
  <1>4. Phase # "open" => Phase' # "open"
    BY <1>2 DEF Phase
  <1>5. Phase = "done" => Phase' = "done"
    BY <1>1 DEF Phase, Complete
  <1> QED  BY <1>3, <1>4, <1>5 DEF Contract!Before

\* A step inside doThread that the pool cannot see is a step of the contract, or none.
LEMMA BusyKeepsContract ==
    ASSUME Known, Flow, NotNested, Wakes, NEW t \in Threads, Step(t),
           ~(CallDoThread(t) \/ GatherThreads(t) \/ WakeThreads(t) \/ CheckTask(t) \/ MarkSleeping(t))
    PROVE  Contract!Advance(t) \/ UNCHANGED Contract!vars
  <1>1. /\ Place(t) = "inside" /\ Place(t)' = "inside"
        /\ sleeping' = sleeping /\ job[t].wake = {} /\ job'[t].wake = {}
    BY BusyMoves DEF Place, Outside
  <1>2. /\ [u \in Threads |-> Place(u)]' = [u \in Threads |-> Place(u)]
        /\ [u \in Threads |-> job[u].wake]' = [u \in Threads |-> job[u].wake]
    BY <1>1, PlaceMoves
  <1>3. CASE Phase' = Phase
    BY <1>1, <1>2, <1>3 DEF Contract!vars
  <1>4. CASE Phase' # Phase
    BY <1>1, <1>2, <1>4, PhaseMoves DEF Contract!Advance, Contract!Working
  <1> QED  BY <1>3, <1>4

\* A thread that is called, or wakes others.
LEMMA PoolKeepsContract ==
    ASSUME Known, Wakes, NEW t \in Threads, Step(t),
           CallDoThread(t) \/ GatherThreads(t) \/ WakeThreads(t)
    PROVE  Contract!Call(t) \/ Contract!Gather(t) \/ Contract!Callback(t) \/ UNCHANGED Contract!vars
  <1> USE DEF Goto, SetJob, graphState
  <1>0. /\ pc \in [Threads -> Labels] /\ job \in [Threads -> Jobs] /\ job[t] \in Jobs
    BY DEF Known, LocalInv, ThreadsOK
  <1>1. state' = state
    BY DEF CallDoThread, GatherThreads, WakeThreads
  <1>2. Phase' = Phase
    BY <1>1 DEF Phase
  <1>3. CASE CallDoThread(t)
    <2>1. Place(t) \in {"ready", "waiting"} /\ Place(t)' = "inside" /\ job'[t].wake = job[t].wake
      BY <1>0, <1>3 DEF CallDoThread, Place
    <2>2. sleeping' = sleeping \ {t}
      BY <1>3 DEF CallDoThread
    <2> QED  BY <1>2, <2>1, <2>2, PlaceMoves DEF Contract!Call
  <1>4. CASE GatherThreads(t)
    <2>1. PICK w \in SUBSET sleeping : /\ sleeping' = sleeping \ w
                                       /\ job' = [job EXCEPT ![t] = [job[t] EXCEPT !.wake = w]]
      BY <1>4 DEF GatherThreads
    <2>2. job'[t].wake = w /\ job[t].wake = {} /\ Place(t) = "inside" /\ Place(t)' = "inside"
      BY <1>0, <1>4, <2>1 DEF GatherThreads, Place, Wakes, Jobs
    <2>3. [u \in Threads |-> Place(u)]' = [u \in Threads |-> Place(u)]
      BY <2>2, PlaceMoves
    <2>4. CASE w = {}
      BY <1>2, <2>1, <2>2, <2>3, <2>4, PlaceMoves DEF Contract!vars
    <2>5. CASE w # {}
      <3>1. [u \in Threads |-> job[u].wake]' = [[u \in Threads |-> job[u].wake] EXCEPT ![t] = w]
        BY <2>2, PlaceMoves
      <3>2. w \in (SUBSET sleeping) \ {{}} /\ sleeping' = sleeping \ w
        BY <2>1, <2>5
      <3>3. Contract!Working(t)
        BY <2>2 DEF Contract!Working
      <3> QED  BY <1>2, <2>3, <3>1, <3>2, <3>3 DEF Contract!Gather
    <2> QED  BY <2>4, <2>5
  <1>5. CASE WakeThreads(t)
    <2>1. job'[t].wake = {} /\ Place(t) = "inside" /\ Place(t)' = "inside" /\ sleeping' = sleeping
      BY <1>0, <1>5 DEF WakeThreads, Place, Jobs
    <2>2. [u \in Threads |-> Place(u)]' = [u \in Threads |-> Place(u)]
      BY <2>1, PlaceMoves
    <2>3. CASE job[t].wake = {}
      BY <1>2, <2>1, <2>2, <2>3, PlaceMoves DEF Contract!vars
    <2>4. CASE job[t].wake # {}
      BY <1>2, <2>1, <2>2, <2>4, PlaceMoves DEF Contract!Callback
    <2> QED  BY <2>3, <2>4
  <1> QED  BY <1>3, <1>4, <1>5

\* A thread that returns WAIT leaves another one at work, and one that returns EXIT
\* leaves nothing to start.
LEMMA ReturnKeepsContract ==
    ASSUME Known, Flow, NotNested, SelfParallel = {}, WatchInv, SoloInv, round > 0, Wakes,
           NEW t \in Threads, Step(t), CheckTask(t) \/ MarkSleeping(t)
    PROVE  \/ \E b \in BOOLEAN : Contract!GiveUp(t, b)
           \/ Contract!ReturnWait(t) \/ Contract!ReturnExit(t) \/ UNCHANGED Contract!vars
  <1> USE DEF Goto, SetJob, graphState
  <1>0. /\ pc \in [Threads -> Labels] /\ job \in [Threads -> Jobs] /\ job[t] \in Jobs
        /\ NoJob.wake = {}
    BY DEF Known, LocalInv, ThreadsOK, NoJob
  <1>1. state' = state /\ pc[t] \in {"check", "sleep"} /\ job[t].wake = {}
    BY DEF CheckTask, MarkSleeping, Wakes
  <1>2. Phase' = Phase
    BY <1>1 DEF Phase
  <1>3. Complete \/ \E u \in Threads \ {t} : Place(u) = "inside"
    <2>1. ~Complete => \E u \in Threads : u # t /\ pc[u] \notin Outside \cup {"sleep"}
      BY <1>1, SomeoneElse
    <2> QED  BY <2>1 DEF Place, Outside
  <1>4. CASE MarkSleeping(t)
    <2>1. /\ Place(t) = "dozing" /\ Place(t)' = "waiting" /\ job'[t].wake = {}
          /\ sleeping' = sleeping \cup {t}
      BY <1>0, <1>4 DEF MarkSleeping, Return, Place
    <2> QED  BY <1>1, <1>2, <2>1, PlaceMoves DEF Contract!ReturnWait
  <1>5. CASE CheckTask(t)
    <2>0. pc[t] = "check" /\ Place(t) = "inside" /\ sleeping' = sleeping
      BY <1>5 DEF CheckTask, Place
    <2>1. PICK k \in Tasks :
              LET j == [job[t] EXCEPT !.scanned = @ \cup {k}]
              IN  \/ SetJob(t, j) /\ UNCHANGED pc
                  \/ Started(k) /\ j.scanned = Tasks /\ Return(t, "exited")
                  \/ ~Started(k) /\ Goto(t, "sleep") /\ UNCHANGED job
                  \/ ~Started(k) /\ Return(t, "waiting")
      BY <1>5 DEF CheckTask
    <2> PICK j : j = [job[t] EXCEPT !.scanned = @ \cup {k}]
      OBVIOUS
    <2>2. j.wake = {} /\ j.scanned = job[t].scanned \cup {k}
      BY <1>0, <1>1 DEF Jobs
    <2>3. CASE SetJob(t, j) /\ UNCHANGED pc
      <3>1. Place(t)' = Place(t) /\ job'[t].wake = job[t].wake
        BY <1>0, <1>1, <2>2, <2>3 DEF Place
      <3> QED  BY <1>2, <2>0, <3>1, PlaceMoves DEF Contract!vars
    <2>4. CASE Started(k) /\ j.scanned = Tasks /\ Return(t, "exited")
      <3>1. Place(t)' = "exited" /\ job'[t].wake = job[t].wake
        BY <1>0, <1>1, <2>4 DEF Place, Return
      <3>2. \A i \in Tasks : Outer(i) => Started(i)
        BY <2>0, <2>2, <2>4 DEF WatchInv, WatchAt
      <3>3. Phase # "open"
        BY <3>2, OuterMeansAll DEF Phase, Started
      <3>4. Phase = "done" \/ \E u \in Threads \ {t} : Place(u) = "inside"
        BY <1>3 DEF Phase, Complete
      <3> QED  BY <1>1, <1>2, <2>0, <3>1, <3>3, <3>4, PlaceMoves DEF Contract!ReturnExit, Contract!Working
    <2>5. ASSUME NEW b \in BOOLEAN, ~Started(k), job'[t].wake = {},
                 Place(t)' = IF b THEN "dozing" ELSE "waiting"
          PROVE  Contract!GiveUp(t, b)
      <3>1. Phase = "open" /\ ~Complete
        BY <2>5 DEF Phase, Started, Complete
      <3>2. \E u \in Threads \ {t} : Place(u) = "inside"
        BY <1>3, <3>1
      <3> QED  BY <1>1, <1>2, <2>0, <2>5, <3>1, <3>2, PlaceMoves DEF Contract!GiveUp, Contract!Working
    <2>6. CASE ~Started(k) /\ Goto(t, "sleep") /\ UNCHANGED job
      <3>1. Place(t)' = "dozing" /\ job'[t].wake = {}
        BY <1>0, <1>1, <2>6 DEF Place
      <3> QED  BY <2>5, <2>6, <3>1
    <2>7. CASE ~Started(k) /\ Return(t, "waiting")
      <3>1. Place(t)' = "waiting" /\ job'[t].wake = {}
        BY <1>0, <1>1, <2>7 DEF Place, Return
      <3> QED  BY <2>5, <2>7, <3>1
    <2> QED  BY <2>1, <2>3, <2>4, <2>6, <2>7
  <1> QED  BY <1>4, <1>5

\* Every step of the executor is one of the contract, or none that the pool can see.
LEMMA ContractNext ==
    ASSUME OrderedGraph, SelfParallel = {}, Tasks # {}, Known, FlowInv, WatchInv, SoloInv, Wakes,
           [Next]_vars
    PROVE  [Contract!Next]_(Contract!vars)
  <1>1. CASE UNCHANGED vars \/ Finished
    <2>1. UNCHANGED <<pc, job, state, sleeping>>
      BY <1>1 DEF Finished, vars, graphState
    <2> QED  BY <2>1 DEF Contract!vars, Place, Phase
  <1>2. CASE Prepare
    <2>1. /\ \A t \in Threads : pc[t] = "exited" /\ pc'[t] = "ready"
          /\ job' = job /\ sleeping' = {} /\ \A k \in Tasks : state'[k] \in {"NONE", "PENDING"}
      BY <1>2 DEF Prepare, AllExited
    <2>2. Phase' = "open"
      BY <2>1 DEF Phase
    <2>3. \A t \in Threads : Place(t) = "exited" /\ Place(t)' = "ready"
      BY <2>1 DEF Place
    <2>4. Contract!Prepare(Threads)
      BY <2>1, <2>2, <2>3 DEF Contract!Prepare
    <2> QED  BY <2>4 DEF Contract!Next
  <1>3. ASSUME NEW t \in Threads, Step(t) PROVE [Contract!Next]_(Contract!vars)
    <2>1. pc[t] # "exited"
      BY <1>3, StepFrame DEF Known
    <2>2. Flow /\ NotNested /\ round > 0
      BY <2>1, UnstartedTasks DEF FlowInv, OrderedGraph, Known, LocalInv, SharedOK
    <2>3. CASE CallDoThread(t) \/ GatherThreads(t) \/ WakeThreads(t)
      BY <1>3, <2>3, PoolKeepsContract DEF Contract!Next
    <2>4. CASE CheckTask(t) \/ MarkSleeping(t)
      BY <1>3, <2>2, <2>4, ReturnKeepsContract DEF Contract!Next
    <2>5. CASE ~(CallDoThread(t) \/ GatherThreads(t) \/ WakeThreads(t) \/ CheckTask(t) \/ MarkSleeping(t))
      BY <1>3, <2>2, <2>5, BusyKeepsContract DEF Contract!Next
    <2> QED  BY <2>3, <2>4, <2>5
  <1> QED  BY <1>1, <1>2, <1>3 DEF Next

\* The executor keeps the contract that a pool relies on: a thread returns WAIT only
\* while another one is at work, EXIT only when nothing is left to start, and the last
\* one to leave has finished everything (doThread), where no task runs in parallel with
\* itself.
THEOREM ContractIsKept ==
    ASSUME OrderedGraph, SelfParallel = {}, Tasks # {}
    PROVE  Spec => KeepsContract
  <1>1. Init => Contract!Init
    <2> SUFFICES ASSUME Init PROVE Contract!Init
      OBVIOUS
    <2>1. /\ \A t \in Threads : pc[t] = "exited" /\ job[t].wake = {}
          /\ sleeping = {} /\ \A k \in Tasks : state[k] = "NONE"
      BY DEF Init, NoJob
    <2>2. Phase = "open" /\ \A t \in Threads : Place(t) = "exited"
      BY <2>1 DEF Phase, Place
    <2> QED  BY <2>1, <2>2 DEF Contract!Init
  <1>2. Init => Wakes
    BY DEF Init, Wakes, NoJob
  <1>3. Known /\ Wakes /\ [Next]_vars => Wakes'
    BY WakesNext
  <1>4. Known /\ FlowInv /\ WatchInv /\ SoloInv /\ Wakes /\ [Next]_vars => [Contract!Next]_(Contract!vars)
    BY ContractNext
  <1>5. Spec => []Wakes
    BY <1>2, <1>3, KnownInvariant, PTL DEF Spec
  <1> QED  BY <1>1, <1>4, <1>5, SoloInvariant, PTL DEF Spec, KeepsContract, Contract!Spec

==============================================================================

-------------------------- MODULE TaskGraphExecutor --------------------------
(***************************************************************************)
(* ThreadedTaskGraphExecutor (task_graph_execute.cpp): the threads of a    *)
(* pool call doThread and execute the tasks of one compiled graph.         *)
(*                                                                         *)
(* A step of a thread makes at most one access to memory that other        *)
(* threads write (a load, a store, a fetch_*, a CAS loop up to the CAS     *)
(* that settles it) together with the thread-local code around it.  Two    *)
(* accesses share a step only when no thread can tell them apart: the      *)
(* counter and the state of a task that becomes pending, the two words     *)
(* of a variadic task while nobody can acquire it, the load of a pending   *)
(* state by the only thread that may change it.                            *)
(*                                                                         *)
(* Memory is sequentially consistent.                                      *)
(***************************************************************************)
EXTENDS CompiledGraph, Integers

CONSTANTS
    Threads,              \* threadCtxArray
    MaxFailedSubGroups,   \* maxFailedSubGroups, 64 in the code
    HasWakeCb,            \* the threads were given a wake callback
    MaxRounds             \* bound on the number of executions of the graph

ASSUME ExecutorAssumption ==
    /\ IsFiniteSet(Threads)
    /\ MaxFailedSubGroups \in Nat \ {0}
    /\ HasWakeCb \in BOOLEAN
    /\ MaxRounds \in Nat

VARIABLES
    pending,     \* TaskGroupState::pending of all groups
    executing,   \* TaskGroupState::executing of all groups
    state,       \* Task::state
    deps,        \* lower half of Task::dependencies
    varTask,     \* TaskSubGroupState::curVarTask, unpacked
    varLeft,     \* TaskSubGroupState::remainingVarTasks
    remaining,   \* the remaining count in subGraphData
    sleeping,    \* sleepingThreadsMask
    pc,          \* where each thread is
    find,        \* what each thread knows while it looks for a subgroup
    job,         \* what each thread does in a subgroup it found
    round        \* number of calls of prepareForExecution

graphState == <<pending, executing, state, deps, varTask, varLeft, remaining>>
vars == <<graphState, sleeping, pc, find, job, round>>

NoVarTask == [task |-> 0, cnt |-> 0]

\* The ThreadCtx and the locals of doThread and doGroupUntilSubgroupEnter.
NoSearch == [group |-> 0, order |-> <<>>, at |-> 1, failedGroups |-> 0,
             failedSubs |-> 0, bits |-> {}, seen |-> {}]

\* The locals of doSubGroup, doVarTask, doSubGraphTask and afterTaskDone.
NoJob == [sub |-> 0, own |-> FALSE, fresh |-> FALSE, scanned |-> {}, again |-> FALSE,
          task |-> 0, idx |-> 0, todo |-> {}, publish |-> {}, wake |-> {}]

GroupCnt == Cardinality(Groups)
MaxFailedGroups == GroupCnt + 1
GroupOrders == {o \in [1..GroupCnt -> Groups] :
                    \A i, j \in DOMAIN o : o[i] = o[j] => i = j}

Lowest(i, S) == i \in S /\ \A j \in S : i =< j

Goto(t, l)    == pc'   = [pc EXCEPT ![t] = l]
SetFind(t, f) == find' = [find EXCEPT ![t] = f]
SetJob(t, j)  == job'  = [job EXCEPT ![t] = j]

AllExited == \A t \in Threads : pc[t] = "exited"

------------------------------------------------------------------------------
(***************************************************************************)
(* Executions.  A thread is outside doThread when it is ready (not called  *)
(* since prepareForExecution), waiting (the last call returned WAIT) or    *)
(* exited (it returned EXIT).                                              *)
(***************************************************************************)

\* The graph as compile_task_graph leaves it.
Init ==
    /\ pending = {} /\ executing = {}
    /\ state = [k \in Tasks |-> "NONE"]
    /\ deps = [k \in Tasks |-> 0]
    /\ varTask = [s \in SubGroups |-> NoVarTask]
    /\ varLeft = [s \in SubGroups |-> 0]
    /\ remaining = [g \in SubGraphs |-> -1]
    /\ sleeping = {}
    /\ pc = [t \in Threads |-> "exited"]
    /\ find = [t \in Threads |-> NoSearch]
    /\ job = [t \in Threads |-> NoJob]
    /\ round = 0

\* Mutant: the counters of the dependencies are kept.
PrepareKeepingDeps ==
    /\ AllExited
    /\ round < MaxRounds
    /\ round' = round + 1
    /\ pending' = InitialPending
    /\ state' = [k \in Tasks |-> IF k \in PendingOnStart THEN "PENDING" ELSE "NONE"]
    /\ remaining' = [g \in SubGraphs |-> -1]
    /\ sleeping' = {}
    /\ pc' = [t \in Threads |-> "ready"]
    /\ find' = [t \in Threads |-> NoSearch]
    /\ UNCHANGED <<executing, deps, varTask, varLeft, job>>

\* The owner of the executor starts an execution once every thread has
\* returned EXIT.  executing, curVarTask and remainingVarTasks are not reset.
Prepare ==
    /\ AllExited
    /\ round < MaxRounds
    /\ round' = round + 1
    /\ pending' = InitialPending
    /\ state' = [k \in Tasks |-> IF k \in PendingOnStart THEN "PENDING" ELSE "NONE"]
    /\ deps' = [k \in Tasks |-> 0]
    /\ remaining' = [g \in SubGraphs |-> -1]
    /\ sleeping' = {}
    /\ pc' = [t \in Threads |-> "ready"]
    /\ find' = [t \in Threads |-> NoSearch]
    /\ UNCHANGED <<executing, varTask, varLeft, job>>

\* Mutant: a thread that is called stays in sleepingThreadsMask.
CallDoThreadAsleep(t) ==
    /\ pc[t] \in {"ready", "waiting"}
    /\ \E o \in GroupOrders : SetFind(t, [find[t] EXCEPT !.order = o])
    /\ Goto(t, "load")
    /\ UNCHANGED <<graphState, sleeping, job, round>>

\* The pool calls doThread: the sleeping bit is cleared, the groups shuffled.
\* The search starts with the group it ended with in the last call.
CallDoThread(t) ==
    /\ pc[t] \in {"ready", "waiting"}
    /\ sleeping' = sleeping \ {t}
    /\ \E o \in GroupOrders : SetFind(t, [find[t] EXCEPT !.order = o])
    /\ Goto(t, "load")
    /\ UNCHANGED <<graphState, job, round>>

\* doThread returns; what it knew of the search is void.
Return(t, result) ==
    /\ Goto(t, result)
    /\ SetFind(t, [NoSearch EXCEPT !.group = find[t].group])
    /\ SetJob(t, NoJob)

------------------------------------------------------------------------------
(***************************************************************************)
(* Looking for a subgroup to enter.                                        *)
(***************************************************************************)

\* Nothing to do in this group: go to the next one, or leave the loop after
\* one failure more than there are groups.
NextGroup(t, f) ==
    LET at == IF f.at = GroupCnt THEN 1 ELSE f.at + 1
    IN  /\ SetFind(t, [f EXCEPT !.failedGroups = @ + 1, !.failedSubs = 0, !.bits = {},
                                !.seen = {}, !.at = at, !.group = f.order[at]])
        /\ Goto(t, IF f.failedGroups + 1 < MaxFailedGroups THEN "load" ELSE "check")

\* Subgroup s of the snapshot was not entered: try the next one.  The number
\* of failures is compared with its limit when the snapshot is used up.
NextSubgroup(t, f, s) ==
    LET g == [f EXCEPT !.failedSubs = @ + 1, !.bits = @ \ {s}]
    IN  IF g.bits # {}
        THEN SetFind(t, g) /\ Goto(t, "enter")
        ELSE IF g.failedSubs >= MaxFailedSubGroups
        THEN NextGroup(t, g)
        ELSE SetFind(t, [g EXCEPT !.seen = {}]) /\ Goto(t, "load")

\* A subgroup was entered or its last invocation finished: failures are forgotten.
Found(f) == [f EXCEPT !.failedGroups = 0, !.failedSubs = 0, !.bits = {}, !.seen = {}]

LoadPending(t) ==
    LET bits == pending \cap Members(find[t].group)
    IN  /\ pc[t] = "load"
        /\ \/ bits = {} /\ NextGroup(t, find[t])
           \/ bits # {} /\ SetFind(t, [find[t] EXCEPT !.bits = bits]) /\ Goto(t, "look")
        /\ UNCHANGED <<graphState, sleeping, job, round>>

LoadExecuting(t) ==
    /\ pc[t] = "look"
    /\ SetFind(t, [find[t] EXCEPT !.seen = executing \cap Members(find[t].group)])
    /\ Goto(t, "enter")
    /\ UNCHANGED <<graphState, sleeping, job, round>>

\* Where a thread goes with a subgroup it owns, and with a piece it acquired.
Owned == IF HasWakeCb THEN "gather" ELSE "clear"
Piece(cnt) == IF HasWakeCb /\ cnt > 2 THEN "gather" ELSE "piece"

\* The mask loaded before and the mask the CAS finds are both free of s's exclusions.
MayEnterUnchecked(t, s) == find[t].seen \cap Excluded[s] = {}   \* mutant: a store, no CAS
MayEnter(t, s) == (find[t].seen \cup executing) \cap Excluded[s] = {}

\* tryEnterSubgroup succeeds.
EnterSubgroup(t) ==
    /\ pc[t] = "enter"
    /\ \E s \in find[t].bits :
        /\ Lowest(s, find[t].bits)
        /\ MayEnter(t, s)
        /\ executing' = executing \cup {s}
        /\ SetJob(t, [NoJob EXCEPT !.sub = s, !.own = TRUE])
    /\ SetFind(t, Found(find[t]))
    /\ Goto(t, Owned)
    /\ UNCHANGED <<pending, state, deps, varTask, varLeft, remaining, sleeping, round>>

\* tryEnterSubgroup gives up on the mask it loaded before, or on the current
\* one, which only a failing CAS reads.  A variadic task is tried only if the subgroup
\* was seen executing.
EnterFails(t) ==
    /\ pc[t] = "enter"
    /\ \E s \in find[t].bits :
        LET now == IF find[t].seen \cap Excluded[s] # {} THEN find[t].seen
                   ELSE executing \cap Members(find[t].group)
            f == [find[t] EXCEPT !.seen = now]
        IN  /\ Lowest(s, find[t].bits)
            /\ now \cap Excluded[s] # {}
            /\ \/ s \in now /\ SetFind(t, f) /\ Goto(t, "acquire")
               \/ s \notin now /\ NextSubgroup(t, f, s)
    /\ UNCHANGED <<graphState, sleeping, job, round>>

\* One invocation is taken; the word becomes 0 with the last one.
OneLessStuck(v) == IF v.cnt = 1 THEN v ELSE [v EXCEPT !.cnt = @ - 1]   \* mutant: not zeroed
OneLessTwice(v) == [v EXCEPT !.cnt = @ - 2]   \* mutant: two at once
OneLess(v) == IF v.cnt = 1 THEN NoVarTask ELSE [v EXCEPT !.cnt = @ - 1]

\* tryAcquireVarTask.
AcquireVarTask(t) ==
    /\ pc[t] = "acquire"
    /\ \E s \in find[t].bits :
        LET v == varTask[s]
        IN  /\ Lowest(s, find[t].bits)
            /\ \/ /\ v.cnt = 0
                  /\ NextSubgroup(t, find[t], s)
                  /\ UNCHANGED <<varTask, job>>
               \/ /\ v.cnt > 0
                  /\ varTask' = [varTask EXCEPT ![s] = OneLess(v)]
                  /\ SetJob(t, [NoJob EXCEPT !.sub = s, !.task = v.task, !.idx = v.cnt - 1])
                  /\ Goto(t, Piece(v.cnt))
                  /\ UNCHANGED find
    /\ UNCHANGED <<pending, executing, state, deps, varLeft, remaining, sleeping, round>>

\* gatherAndWakeThreads: how many threads are woken is an estimate, and here
\* any number.  Their bits are taken before the callback is called.
GatherThreads(t) ==
    /\ pc[t] = "gather"
    /\ \E w \in SUBSET sleeping :
        /\ sleeping' = sleeping \ w
        /\ SetJob(t, [job[t] EXCEPT !.wake = w])
    /\ Goto(t, "wake")
    /\ UNCHANGED <<graphState, find, round>>

WakeThreads(t) ==
    /\ pc[t] = "wake"
    /\ SetJob(t, [job[t] EXCEPT !.wake = {}])
    /\ Goto(t, IF job[t].own THEN "clear" ELSE "piece")
    /\ UNCHANGED <<graphState, sleeping, find, round>>

------------------------------------------------------------------------------
(***************************************************************************)
(* Executing the tasks of an owned subgroup.                               *)
(***************************************************************************)

\* Where the scan of the subgroup goes on after a task: another pass follows
\* one that found a task.
AfterTaskOnce(j) == IF j.scanned # TasksOf(j.sub) THEN "scan" ELSE "leave"   \* mutant: one pass
AfterTask(j) == IF j.scanned # TasksOf(j.sub) THEN "scan"
                ELSE IF j.again THEN "clear" ELSE "leave"

\* afterTaskDone has tasks or groups left to do, or returns to doVarTask
\* (fresh: doThread then enters doSubGroup) or to the scan.
AfterDone(j) == IF j.todo # {} \/ j.publish # {} THEN "notify"
                ELSE IF j.fresh THEN Owned ELSE AfterTask(j)

\* The pending bit is cleared before the states are read.
ClearPending(t) ==
    /\ pc[t] = "clear"
    /\ pending' = pending \ {job[t].sub}
    /\ SetJob(t, [NoJob EXCEPT !.sub = job[t].sub, !.own = TRUE])
    /\ Goto(t, "scan")
    /\ UNCHANGED <<executing, state, deps, varTask, varLeft, remaining, sleeping, find, round>>

\* The next task of the scan, and the job after the scan found it pending.
Scans(t, k) == pc[t] = "scan" /\ Lowest(k, TasksOf(job[t].sub) \ job[t].scanned)
Take(t, k)  == [job[t] EXCEPT !.scanned = @ \cup {k}, !.again = TRUE, !.task = k]

PassTask(t) ==
    /\ \E k \in Tasks :
        LET j == [job[t] EXCEPT !.scanned = @ \cup {k}]
        IN  Scans(t, k) /\ state[k] # "PENDING" /\ SetJob(t, j) /\ Goto(t, AfterTask(j))
    /\ UNCHANGED <<graphState, sleeping, find, round>>

\* A task is executed here, or wound up if its invocations may run in parallel.
StartTask(t) ==
    /\ \E k \in Tasks \ SubGraphEnds :
        /\ Scans(t, k) /\ state[k] = "PENDING"
        /\ state' = [state EXCEPT ![k] = "EXECUTING"]
        /\ \E n \in TaskNum[k] :
            IF n < 2 \/ k \notin SelfParallel
            THEN SetJob(t, Take(t, k)) /\ Goto(t, "run")
            ELSE SetJob(t, [Take(t, k) EXCEPT !.idx = n]) /\ Goto(t, "windup")
    /\ UNCHANGED <<pending, executing, deps, varTask, varLeft, remaining, sleeping, find, round>>

\* From here on the subgroup has no owner until the last invocation finishes.
WindUpVarTask(t) ==
    LET j == job[t]
    IN  /\ pc[t] = "windup"
        /\ varLeft' = [varLeft EXCEPT ![j.sub] = j.idx]
        /\ varTask' = [varTask EXCEPT ![j.sub] = [task |-> j.task, cnt |-> j.idx]]
        /\ SetJob(t, [NoJob EXCEPT !.sub = j.sub])
        /\ Goto(t, "announce")
        /\ UNCHANGED <<pending, executing, state, deps, remaining, sleeping, find, round>>

\* Mutant: nobody is told of the invocations.
AnnounceNothing(t) ==
    /\ pc[t] = "announce"
    /\ SetJob(t, NoJob)
    /\ Goto(t, "load")
    /\ UNCHANGED <<graphState, sleeping, find, round>>

AnnounceVarTask(t) ==
    /\ pc[t] = "announce"
    /\ pending' = pending \cup {job[t].sub}
    /\ SetJob(t, NoJob)
    /\ Goto(t, "load")
    /\ UNCHANGED <<executing, state, deps, varTask, varLeft, remaining, sleeping, find, round>>

\* doVarTask: the thread that finishes the last invocation owns the subgroup.
FinishVarTask(t) ==
    LET j == job[t]
    IN  /\ pc[t] = "piece"
        /\ varLeft' = [varLeft EXCEPT ![j.sub] = @ - 1]
        /\ \/ /\ varLeft[j.sub] = 1
              /\ SetJob(t, [j EXCEPT !.own = TRUE, !.fresh = TRUE])
              /\ SetFind(t, Found(find[t]))
              /\ Goto(t, "done")
           \/ /\ varLeft[j.sub] # 1
              /\ SetJob(t, NoJob)
              /\ NextSubgroup(t, find[t], j.sub)
        /\ UNCHANGED <<pending, executing, state, deps, varTask, remaining, sleeping, round>>

LeaveSubgroup(t) ==
    /\ pc[t] = "leave"
    /\ executing' = executing \ {job[t].sub}
    /\ SetJob(t, NoJob)
    /\ Goto(t, "load")
    /\ UNCHANGED <<pending, state, deps, varTask, varLeft, remaining, sleeping, find, round>>

------------------------------------------------------------------------------
(***************************************************************************)
(* afterTaskDone.                                                          *)
(***************************************************************************)

\* The task function returned ("run"), or the code calls afterTaskDone ("done").
MarkDone(t) ==
    LET j == [job[t] EXCEPT !.todo = NextTasks[job[t].task]]
    IN  /\ pc[t] \in {"run", "done"}
        /\ state' = [state EXCEPT ![j.task] = "DONE"]
        /\ SetJob(t, j)
        /\ Goto(t, AfterDone(j))
        /\ UNCHANGED <<pending, executing, deps, varTask, varLeft, remaining, sleeping,
                       find, round>>

\* The dependency that was missing last makes the next task pending.  A task
\* of the same subgroup gets no pending bit: the scan will find it.
NotifyNext(t) ==
    /\ pc[t] = "notify"
    /\ \E n \in job[t].todo :
        LET counted == IF Target(n) = 0 THEN 0 ELSE deps[n] + 1
            ready == counted = Target(n)
            other == SubGroupOf[n] # SubGroupOf[job[t].task]
            j == [job[t] EXCEPT !.todo = @ \ {n},
                                !.publish = IF ready /\ other THEN @ \cup {SubGroupOf[n]} ELSE @]
        IN  /\ deps' = [deps EXCEPT ![n] = counted]
            /\ state' = IF ready THEN [state EXCEPT ![n] = "PENDING"] ELSE state
            /\ SetJob(t, j)
            /\ Goto(t, AfterDone(j))
    /\ UNCHANGED <<pending, executing, varTask, varLeft, remaining, sleeping, find, round>>

\* One fetch_or for each group, after the states of the tasks are set.
PublishGroup(t) ==
    /\ pc[t] = "notify" /\ job[t].todo = {}
    /\ \E g \in Groups :
        LET j == [job[t] EXCEPT !.publish = @ \ Members(g)]
        IN  /\ Lowest(g, {GroupOf[s] : s \in job[t].publish})
            /\ pending' = pending \cup (job[t].publish \cap Members(g))
            /\ SetJob(t, j)
            /\ Goto(t, AfterDone(j))
    /\ UNCHANGED <<executing, state, deps, varTask, varLeft, remaining, sleeping, find, round>>

------------------------------------------------------------------------------
(***************************************************************************)
(* doSubGraphTask.  remaining is -1 before the first start, -2 after a     *)
(* complete run, otherwise the number of iterations still to start.        *)
(***************************************************************************)

EnterSubGraph(t) ==
    /\ \E g \in SubGraphs :
        /\ Scans(t, Entry[g]) /\ state[Entry[g]] = "PENDING"
        /\ \E n \in IF remaining[g] < 0 THEN TaskNum[Entry[g]] ELSE {remaining[g]} :
            /\ remaining' = [remaining EXCEPT ![g] = IF n = 0 THEN -2 ELSE n - 1]
            /\ IF n # 0 /\ remaining[g] # -2
               THEN SetJob(t, Take(t, Entry[g])) /\ Goto(t, "done")
               ELSE /\ SetJob(t, [Take(t, Entry[g]) EXCEPT !.todo = Body[g]])
                    /\ Goto(t, IF n = 0 THEN "skip" ELSE "reset")
    /\ UNCHANGED <<pending, executing, state, deps, varTask, varLeft, sleeping, find, round>>

\* A sub-graph that is not required to run is marked done as a whole.
SkipTask(t) ==
    /\ pc[t] = "skip"
    /\ \E k \in job[t].todo :
        /\ state' = [state EXCEPT ![k] = "DONE"]
        /\ SetJob(t, [job[t] EXCEPT !.todo = @ \ {k}])
    /\ UNCHANGED <<pending, executing, deps, varTask, varLeft, remaining, sleeping, pc,
                   find, round>>

SkipEnds(t) ==
    /\ pc[t] = "skip" /\ job[t].todo = {}
    /\ \E g \in SubGraphs :
        /\ job[t].task = Entry[g]
        /\ state' = [state EXCEPT ![Entry[g]] = "DONE"]
        /\ SetJob(t, [job[t] EXCEPT !.task = Exit[g]])
    /\ Goto(t, "done")
    /\ UNCHANGED <<pending, executing, deps, varTask, varLeft, remaining, sleeping, find, round>>

LeaveSubGraph(t) ==
    /\ \E g \in SubGraphs :
        /\ Scans(t, Exit[g]) /\ state[Exit[g]] = "PENDING"
        /\ IF remaining[g] = 0
           THEN /\ remaining' = [remaining EXCEPT ![g] = -2]
                /\ SetJob(t, Take(t, Exit[g]))
                /\ Goto(t, "done")
           ELSE /\ SetJob(t, [Take(t, Exit[g]) EXCEPT !.todo = Body[g]])
                /\ Goto(t, "reset")
                /\ UNCHANGED remaining
    /\ UNCHANGED <<pending, executing, state, deps, varTask, varLeft, sleeping, find, round>>

\* resetSubgraphTasks: the body one task after the other, then the exit.
Reset(k) == state' = [state EXCEPT ![k] = "NONE"] /\ deps' = [deps EXCEPT ![k] = 0]

ResetTask(t) ==
    /\ pc[t] = "reset"
    /\ \E k \in job[t].todo :
        /\ Reset(k)
        /\ SetJob(t, [job[t] EXCEPT !.todo = @ \ {k}])
    /\ UNCHANGED <<pending, executing, varTask, varLeft, remaining, sleeping, pc, find, round>>

\* Mutant: only the body is reset.
ResetBodyOnly(t) ==
    /\ pc[t] = "reset" /\ job[t].todo = {}
    /\ \E g \in SubGraphs :
        /\ job[t].task \in {Entry[g], Exit[g]}
        /\ Goto(t, IF job[t].task = Entry[g] THEN "done" ELSE "restart")
    /\ UNCHANGED <<graphState, sleeping, find, job, round>>

ResetExit(t) ==
    /\ pc[t] = "reset" /\ job[t].todo = {}
    /\ \E g \in SubGraphs :
        /\ job[t].task \in {Entry[g], Exit[g]}
        /\ Reset(Exit[g])
        /\ Goto(t, IF job[t].task = Entry[g] THEN "done" ELSE "restart")
    /\ UNCHANGED <<pending, executing, varTask, varLeft, remaining, sleeping, find, job, round>>

\* Mutant: the entry is made pending, and no thread is told.
RestartSilently(t) ==
    /\ pc[t] = "restart"
    /\ \E g \in SubGraphs :
        /\ job[t].task = Exit[g]
        /\ state' = [state EXCEPT ![Entry[g]] = "PENDING"]
    /\ Goto(t, AfterTask(job[t]))
    /\ UNCHANGED <<pending, executing, deps, varTask, varLeft, remaining, sleeping, find, job, round>>

\* The exit starts the next iteration by making the entry pending.
RestartSubGraph(t) ==
    /\ pc[t] = "restart"
    /\ \E g \in SubGraphs :
        /\ job[t].task = Exit[g]
        /\ state' = [state EXCEPT ![Entry[g]] = "PENDING"]
        /\ SetJob(t, [job[t] EXCEPT !.publish = {SubGroupOf[Entry[g]]}])
    /\ Goto(t, "notify")
    /\ UNCHANGED <<pending, executing, deps, varTask, varLeft, remaining, sleeping, find, round>>

------------------------------------------------------------------------------
(***************************************************************************)
(* The end of doThread: EXIT if every task was seen executing or done.     *)
(***************************************************************************)
StartedOrPending(k) == state[k] # "NONE"   \* mutant: a pending task counts
Started(k) == state[k] \in {"EXECUTING", "DONE"}

CheckTask(t) ==
    /\ pc[t] = "check"
    /\ \E k \in Tasks :
        LET j == [job[t] EXCEPT !.scanned = @ \cup {k}]
        IN  /\ Lowest(k, Tasks \ job[t].scanned)
            /\ \/ Started(k) /\ j.scanned # Tasks /\ SetJob(t, j) /\ UNCHANGED <<pc, find>>
               \/ Started(k) /\ j.scanned = Tasks /\ Return(t, "exited")
               \/ ~Started(k) /\ HasWakeCb /\ Goto(t, "sleep") /\ UNCHANGED <<find, job>>
               \/ ~Started(k) /\ ~HasWakeCb /\ Return(t, "waiting")
    /\ UNCHANGED <<graphState, sleeping, round>>

\* The bit is set after the decision to wait.
MarkSleeping(t) ==
    /\ pc[t] = "sleep"
    /\ sleeping' = sleeping \cup {t}
    /\ Return(t, "waiting")
    /\ UNCHANGED <<graphState, round>>

------------------------------------------------------------------------------
Step(t) ==
    \/ CallDoThread(t) \/ LoadPending(t) \/ LoadExecuting(t)
    \/ EnterSubgroup(t) \/ EnterFails(t) \/ AcquireVarTask(t)
    \/ GatherThreads(t) \/ WakeThreads(t)
    \/ ClearPending(t) \/ PassTask(t) \/ StartTask(t)
    \/ WindUpVarTask(t) \/ AnnounceVarTask(t) \/ FinishVarTask(t) \/ LeaveSubgroup(t)
    \/ MarkDone(t) \/ NotifyNext(t) \/ PublishGroup(t)
    \/ EnterSubGraph(t) \/ SkipTask(t) \/ SkipEnds(t) \/ LeaveSubGraph(t)
    \/ ResetTask(t) \/ ResetExit(t) \/ RestartSubGraph(t)
    \/ CheckTask(t) \/ MarkSleeping(t)

\* Every execution the bound allows is over.
Finished == AllExited /\ round = MaxRounds /\ UNCHANGED vars

Next == Prepare \/ (\E t \in Threads : Step(t)) \/ Finished

Spec == Init /\ [][Next]_vars

\* The operating system runs every thread, and a pool calls doThread again
\* after WAIT.  Nothing obliges anybody to start another execution.
FairSpec == Spec /\ \A t \in Threads : WF_vars(Step(t))

\* A pool whose threads sleep after WAIT, possibly for ever.
FairWhileAwake == Spec /\ \A t \in Threads : WF_vars(pc[t] # "waiting" /\ Step(t))
------------------------------------------------------------------------------
(***************************************************************************)
(* Types.                                                                  *)
(***************************************************************************)
States == {"NONE", "PENDING", "EXECUTING", "DONE"}
Labels == {"ready", "waiting", "exited", "load", "look", "enter", "acquire", "gather",
           "wake", "piece", "clear", "scan", "run", "windup", "announce", "done", "notify",
           "skip", "reset", "restart", "leave", "check", "sleep"}

Searches == [group : Groups, order : GroupOrders \cup {<<>>}, at : 1..GroupCnt,
             failedGroups : Nat, failedSubs : Nat, bits : SUBSET SubGroups, seen : SUBSET SubGroups]
Jobs == [sub : Nat, own : BOOLEAN, fresh : BOOLEAN, scanned : SUBSET Tasks, again : BOOLEAN,
         task : Nat, idx : Nat, todo : SUBSET Tasks, publish : SUBSET SubGroups,
         wake : SUBSET Threads]

\* Every variable has its type (the widths of the code's fields are not modelled).
TypeOK ==
    /\ pending \subseteq SubGroups /\ executing \subseteq SubGroups
    /\ state \in [Tasks -> States]
    /\ deps \in [Tasks -> Nat]
    /\ varTask \in [SubGroups -> [task : Nat, cnt : Nat]]
    /\ varLeft \in [SubGroups -> Int]
    /\ remaining \in [SubGraphs -> Int]
    /\ sleeping \subseteq Threads
    /\ pc \in [Threads -> Labels]
    /\ find \in [Threads -> Searches]
    /\ job \in [Threads -> Jobs]
    /\ round \in Nat

------------------------------------------------------------------------------
(***************************************************************************)
(* Safety.                                                                 *)
(***************************************************************************)
Running(t) == pc[t] \in {"run", "piece"}

\* Two task functions that run at the same time belong to subgroups that do
\* not exclude each other, or they are different invocations of one task that
\* may run in parallel with itself (README.md:65-67, 82).
MutualExclusion ==
    \A t, u \in Threads : t # u /\ Running(t) /\ Running(u) =>
        \/ job[u].sub \notin Excluded[job[t].sub]
        \/ /\ pc[t] = "piece" /\ pc[u] = "piece"
           /\ job[t].task = job[u].task /\ job[t].task \in SelfParallel
           /\ job[t].idx # job[u].idx

\* A task is found pending, or is executing, only when every task before it
\* is done (setNext; afterTaskDone counts the dependencies).  The exit of a
\* sub-graph stays pending while it resets the iteration it just ended.
OrderRespected ==
    \A k \in Tasks : \A p \in Preds(k) :
        \/ state[k] = "EXECUTING"
        \/ state[k] = "PENDING" /\ \A g \in SubGraphs : k # Exit[g]
        => state[p] = "DONE"

\* The thread that owns subgroup s will read the states of s once more.
Rescans(t, s) ==
    /\ job[t].own /\ job[t].sub = s
    /\ pc[t] \in {"gather", "wake", "clear"} \/ job[t].again \/ job[t].fresh

\* A pending task cannot be overlooked: the pending bit of its subgroup is
\* set, or is about to be set by the thread that made the task pending, or
\* the subgroup's owner has yet to read its state (the pending bit is cleared
\* before the states are read, and set after they are written), or gives the
\* subgroup up to a variadic task and is about to set the bit.
NoLostWork ==
    \A k \in Tasks : state[k] = "PENDING" =>
        LET s == SubGroupOf[k]
        IN  \/ s \in pending
            \/ \E t \in Threads :
                \/ s \in job[t].publish
                \/ Rescans(t, s)
                \/ pc[t] = "announce" /\ job[t].sub = s
                \/ pc[t] = "scan" /\ job[t].sub = s /\ k \notin job[t].scanned

\* EXIT is returned only when nothing is left to start: from then on a thread
\* that has exited could not have helped (doThread's scan of the states takes
\* one task at a time while other threads change them).
ExitedMeansStarted ==
    \A t \in Threads : pc[t] = "exited" /\ round > 0 =>
        \A k \in Tasks : state[k] \in {"EXECUTING", "DONE"}

\* The threads that acquired an invocation in s and have not finished it.
Invocations(s) ==
    {t \in Threads : pc[t] \in {"gather", "wake", "piece"} /\ ~job[t].own /\ job[t].sub = s}

\* A subgroup with an unfinished variadic task: its invocations are those not
\* yet acquired and those now running, every index is handed out once, and
\* the subgroup is executing with no owner.
VarTaskAccounting ==
    \A s \in SubGroups :
        /\ varLeft[s] = varTask[s].cnt + Cardinality(Invocations(s))
        /\ \A t \in Invocations(s) : job[t].idx >= varTask[s].cnt
        /\ varLeft[s] > 0 => s \in executing /\ ~\E t \in Threads : job[t].own /\ job[t].sub = s

\* The iterations of a sub-graph follow one another (README.md:116): while a
\* task of the body is pending or executing, the entry of this iteration is
\* done and the exit has not been reached; and what follows the sub-graph
\* starts only when all iterations are over.
IterationsInSequence ==
    \A g \in SubGraphs :
        /\ \A k \in Body[g] : state[k] \in {"PENDING", "EXECUTING"} =>
                state[Entry[g]] = "DONE" /\ state[Exit[g]] = "NONE"
        /\ \A k \in NextTasks[Exit[g]] : state[k] \in {"PENDING", "EXECUTING"} =>
                remaining[g] = -2 /\ state[Exit[g]] = "DONE"

\* The assertions of the code, each at the place where it is evaluated.
AssertionsHold ==
    /\ \A t \in Threads : LET j == job[t] IN
        /\ pc[t] = "gather" /\ j.own => sleeping # Threads                    \* 345
        /\ pc[t] = "windup" => varLeft[j.sub] = 0 /\ varTask[j.sub].cnt = 0   \* 486, 488
        /\ pc[t] = "piece" => varLeft[j.sub] > 0                              \* 509
        /\ pc[t] = "reset" => \A k \in j.todo : state[k] = "DONE"             \* 533
        /\ pc[t] = "restart" => \A g \in SubGraphs :
                j.task = Exit[g] => state[Entry[g]] = "DONE"                  \* 595
    /\ \A t \in Threads, g \in SubGraphs :
        Scans(t, Exit[g]) /\ state[Exit[g]] = "PENDING" => remaining[g] >= 0  \* 584
    /\ \A k \in Tasks : deps[k] =< Target(k)                                  \* 628
    /\ \A t \in Threads : pc[t] = "notify" => \A n \in job[t].todo :
            Target(n) = 0 \/ deps[n] + 1 = Target(n) => state[n] = "NONE"     \* 632

\* A sub-graph that is skipped has not been touched since it was last reset
\* (the assertions of the skipping branch, lines 565 and 569).
SkippedIsUntouched ==
    \A t \in Threads : pc[t] = "skip" =>
        /\ \A k \in job[t].todo : state[k] = "NONE"
        /\ \A g \in SubGraphs : job[t].task = Entry[g] => state[Exit[g]] = "NONE"

\* When no thread is left inside doThread, nothing is left to do: a thread
\* may be put to sleep after WAIT, since the last thread to return has found
\* everything done (validateAllDone), and the words that prepareForExecution
\* does not reset are as the next execution needs them.
LastOneFinishes ==
    round > 0 /\ (\A t \in Threads : pc[t] \in {"waiting", "exited"}) =>
        /\ \A k \in Tasks : state[k] = "DONE"
        /\ executing = {}
        /\ \A s \in SubGroups : varTask[s] = NoVarTask /\ varLeft[s] = 0

------------------------------------------------------------------------------
(***************************************************************************)
(* Steps and liveness.                                                     *)
(***************************************************************************)
TopLevel == {k \in Tasks : \A g \in SubGraphs : k \notin Body[g] \cup {Entry[g], Exit[g]}}
Progress(st) == CASE st = "NONE" -> 0 [] st = "PENDING" -> 1
                  [] st = "EXECUTING" -> 2 [] st = "DONE" -> 3

\* A task outside every sub-graph is executed once: within an execution of
\* the graph its state never goes back.
OncePerExecution ==
    [][round' = round =>
        \A k \in TopLevel : Progress(state[k]) =< Progress(state'[k])]_vars

\* A task of a sub-graph is executed once per iteration: it goes back only to
\* NONE and only from DONE, when the entry has not started an iteration.
ResetOnlyWhenDone ==
    [][round' = round =>
        \A g \in SubGraphs : \A k \in Body[g] : state'[k] = "NONE" /\ state[k] # "NONE" =>
            /\ state[k] = "DONE"
            /\ \A b \in Body[g] : state[b] \in {"NONE", "DONE"}]_vars

\* Every execution ends: executeAndWait returns.
ExecutionEnds == round > 0 ~> AllExited

\* A wake-up is a recommendation (README.md:151-153): even if a thread that was
\* told to wait is never called again, the others execute all the tasks.
SleepersNotNeeded == round > 0 ~> \A k \in Tasks : state[k] = "DONE"
==============================================================================

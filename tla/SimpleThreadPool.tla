--------------------------- MODULE SimpleThreadPool ---------------------------
(***************************************************************************)
(* SimpleThreadPool (simple_thread_pool.cpp): worker threads that execute  *)
(* one compiled graph after the other, and the thread that owns the pool.  *)
(* The executor is the one of ExecutionContract.                           *)
(*                                                                         *)
(* An event (CondVar) is a word, a mutex and a condition variable.  A      *)
(* waiting thread tests the word and blocks in one step, under the mutex;  *)
(* a waking thread sets bits in one step, under the mutex, and notifies    *)
(* in a second one.                                                        *)
(***************************************************************************)
EXTENDS Integers, FiniteSets

CONSTANTS
    ThreadNums,    \* the numbers of threads windUpThreads is called with
    WordBits,      \* width of a word, 64 in the code
    MaxAttempts,   \* MAX_ATTEMPTS, 32 in the code
    MaxCalls       \* bound on the number of calls the owner makes

ASSUME PoolAssumption ==
    /\ ThreadNums \subseteq Nat \ {0} /\ ThreadNums # {} /\ IsFiniteSet(ThreadNums)
    /\ WordBits \in Nat /\ \A n \in ThreadNums : n =< WordBits
    /\ MaxAttempts \in Nat \ {0}
    /\ MaxCalls \in Nat

Threads == UNION {0..(n - 1) : n \in ThreadNums}
Main == -1
Events == {"idle", "wake", "done"}

VARIABLES
    place, phase, asleep, waking,   \* the executor (see ExecutionContract)
    running, useWait,
    size,        \* threads.size()
    word,        \* the bits set in each event
    blocked,     \* the threads blocked in the condition variable of each event
    pc,          \* where the owner and the workers are
    attempts,    \* i in doThread: how often each worker has called the executor
    threadNum,   \* the argument of windUpThreads in progress, 0 if there is none
    calls        \* number of calls the owner has made

execVars == <<place, phase, asleep, waking>>
poolVars == <<running, useWait, size, threadNum, calls>>
vars == <<execVars, poolVars, word, blocked, pc, attempts>>

Executor == INSTANCE ExecutionContract

Goto(p, l) == pc' = [pc EXCEPT ![p] = l]
Pool == 0..(size - 1)

\* (1 << size) - 1.  Shifting by the width of the word is undefined: the
\* build gives no bits (the shift count is reduced) or all of them.
Masks(n) == IF n < WordBits THEN {0..(n - 1)} ELSE {{}, 0..(WordBits - 1)}

------------------------------------------------------------------------------
(***************************************************************************)
(* Events.                                                                 *)
(***************************************************************************)

\* wakeMask up to the unlock; an empty mask returns at once.
Set(p, e, mask, notify, return) ==
    /\ word' = [word EXCEPT ![e] = @ \cup mask]
    /\ Goto(p, IF mask = {} THEN return ELSE notify)

\* notify_all.
NotifyNobody(p, e, return) == Goto(p, return) /\ UNCHANGED blocked   \* mutant
Notify(p, e, return) ==
    /\ blocked' = [blocked EXCEPT ![e] = {}]
    /\ Goto(p, return)

TakeNothing(e, mask) == UNCHANGED word   \* mutant: the bits stay set

\* A successful wait clears its own bits.
Take(e, mask) == word' = [word EXCEPT ![e] = @ \ mask]

\* waitMaskImpl: one evaluation of the predicate.
Wait(p, e, mask, return) ==
    /\ p \notin blocked[e]
    /\ IF mask \subseteq word[e]
       THEN Take(e, mask) /\ Goto(p, return) /\ UNCHANGED blocked
       ELSE blocked' = [blocked EXCEPT ![e] = @ \cup {p}] /\ UNCHANGED <<word, pc>>

\* A condition variable may wake a thread for no reason.
SpuriousWakeUp ==
    /\ \E e \in Events : \E p \in blocked[e] :
        blocked' = [blocked EXCEPT ![e] = @ \ {p}]
    /\ UNCHANGED <<execVars, poolVars, word, pc, attempts>>

------------------------------------------------------------------------------
(***************************************************************************)
(* The owner.                                                              *)
(***************************************************************************)
Init ==
    /\ Executor!Init
    /\ running = FALSE /\ useWait = FALSE
    /\ size = 0
    /\ word = [e \in Events |-> {}]
    /\ blocked = [e \in Events |-> {}]
    /\ pc = [p \in Threads \cup {Main} |-> IF p = Main THEN "user" ELSE "none"]
    /\ attempts = [t \in Threads |-> 0]
    /\ threadNum = 0
    /\ calls = 0

\* windUpThreads(n), which begins with shutdownThreads, and (0) shutdownThreads
\* alone, which is also the destructor.
WindUpOrShutdown ==
    /\ pc[Main] = "user"
    /\ calls < MaxCalls
    /\ calls' = calls + 1
    /\ threadNum' \in ThreadNums \cup {0}
    /\ running' = FALSE
    /\ Goto(Main, IF size = 0 THEN "joined" ELSE "wakeAll")
    /\ UNCHANGED <<execVars, useWait, size, word, blocked, attempts>>

\* Every worker has returned; join returns for each, and the vector is cleared.
JoinThreads ==
    /\ pc[Main] = "join"
    /\ \A t \in Pool : pc[t] = "returned"
    /\ size' = 0
    /\ pc' = [p \in Threads \cup {Main} |-> IF p = Main THEN "joined" ELSE "none"]
    /\ UNCHANGED <<execVars, running, useWait, threadNum, calls, word, blocked, attempts>>

ShutdownReturns ==
    /\ pc[Main] = "joined"
    /\ running' = (threadNum # 0)
    /\ Goto(Main, IF threadNum = 0 THEN "user" ELSE "spawn")
    /\ UNCHANGED <<execVars, useWait, size, threadNum, calls, word, blocked, attempts>>

\* emplace_back: the thread runs before it is counted in threads.size(), which
\* it reads without synchronisation.
StartThread ==
    /\ pc[Main] = "spawn"
    /\ pc' = [pc EXCEPT ![Main] = "count", ![size] = "finish"]
    /\ UNCHANGED <<execVars, poolVars, word, blocked, attempts>>

CountWithoutWaiting ==   \* mutant: windUpThreads does not wait for the workers
    /\ pc[Main] = "count"
    /\ size' = size + 1
    /\ Goto(Main, IF size' = threadNum THEN "woundUp" ELSE "spawn")
    /\ UNCHANGED <<execVars, running, useWait, threadNum, calls, word, blocked, attempts>>

CountThread ==
    /\ pc[Main] = "count"
    /\ size' = size + 1
    /\ Goto(Main, IF size' = threadNum THEN "waitDone" ELSE "spawn")
    /\ UNCHANGED <<execVars, running, useWait, threadNum, calls, word, blocked, attempts>>

\* executeAndWait up to wakeAll.  A pool without threads is not used.
ExecuteAndWait ==
    /\ pc[Main] = "user"
    /\ calls < MaxCalls /\ size > 0
    /\ calls' = calls + 1
    /\ word' = [word EXCEPT !["done"] = {}]
    /\ Executor!Prepare(Pool)
    /\ useWait' \in BOOLEAN
    /\ Goto(Main, "wakeAll")
    /\ UNCHANGED <<running, size, threadNum, blocked, attempts>>

WakeAll ==
    /\ pc[Main] = "wakeAll"
    /\ \E mask \in Masks(size) :
        Set(Main, "idle", mask, "wokeAll", IF running THEN "waitDone" ELSE "join")
    /\ UNCHANGED <<execVars, poolVars, blocked, attempts>>

WokeAll ==
    /\ pc[Main] = "wokeAll"
    /\ Notify(Main, "idle", IF running THEN "waitDone" ELSE "join")
    /\ UNCHANGED <<execVars, poolVars, word, attempts>>

\* Mutant: any worker that finishes will do.
WaitDoneAny ==
    /\ pc[Main] = "waitDone"
    /\ \E t \in Pool :
        Wait(Main, "done", {t}, IF threadNum = 0 THEN "validate" ELSE "woundUp")
    /\ UNCHANGED <<execVars, poolVars, attempts>>

WaitDone ==
    /\ pc[Main] = "waitDone"
    /\ \E mask \in Masks(size) :
        Wait(Main, "done", mask, IF threadNum = 0 THEN "validate" ELSE "woundUp")
    /\ UNCHANGED <<execVars, poolVars, attempts>>

\* executeAndWait returns after validateAllDone, or windUpThreads returns.
ReturnToUser ==
    /\ pc[Main] \in {"validate", "woundUp"}
    /\ threadNum' = 0
    /\ Goto(Main, "user")
    /\ UNCHANGED <<execVars, running, useWait, size, calls, word, blocked, attempts>>

Owner ==
    \/ JoinThreads \/ ShutdownReturns \/ StartThread \/ CountThread
    \/ WakeAll \/ WokeAll \/ WaitDone \/ ReturnToUser

------------------------------------------------------------------------------
(***************************************************************************)
(* doThread of a worker.                                                   *)
(***************************************************************************)

\* doneEvent.wakeThread.
Finish(t) ==
    /\ pc[t] = "finish"
    /\ Set(t, "done", {t}, "finished", "finished")
    /\ UNCHANGED <<execVars, poolVars, blocked, attempts>>

Finished(t) ==
    /\ pc[t] = "finished"
    /\ Notify(t, "done", "rouse")
    /\ UNCHANGED <<execVars, poolVars, word, attempts>>

\* Mutant: a worker that finishes wakes nobody.
RouseNobody(t) ==
    /\ pc[t] = "rouse"
    /\ Goto(t, "idle")
    /\ UNCHANGED <<execVars, poolVars, word, blocked, attempts>>

\* wakeEvent.wakeMask for all threads there are.
Rouse(t) ==
    /\ pc[t] = "rouse"
    /\ \E mask \in Masks(size) : Set(t, "wake", mask, "roused", "idle")
    /\ UNCHANGED <<execVars, poolVars, blocked, attempts>>

Roused(t) ==
    /\ pc[t] = "roused"
    /\ Notify(t, "wake", "idle")
    /\ UNCHANGED <<execVars, poolVars, word, attempts>>

WaitIdle(t) ==
    /\ pc[t] = "idle"
    /\ Wait(t, "idle", {t}, "loop")
    /\ UNCHANGED <<execVars, poolVars, attempts>>

\* The head of the inner loop: the worker returns, or calls the executor.
EnterExecutor(t) ==
    /\ pc[t] = "loop" /\ running
    /\ Executor!Call(t)
    /\ attempts' = [attempts EXCEPT ![t] = 1]
    /\ Goto(t, "execute")
    /\ UNCHANGED <<poolVars, word, blocked>>

LeaveLoop(t) ==
    /\ pc[t] = "loop" /\ ~running
    /\ Goto(t, "returned")
    /\ UNCHANGED <<execVars, poolVars, word, blocked, attempts>>

CallForEver(t) ==   \* mutant: the attempts are not limited
    /\ pc[t] = "execute"
    /\ Executor!Call(t)
    /\ attempts' = [attempts EXCEPT ![t] = @ + 1]
    /\ UNCHANGED <<poolVars, word, blocked, pc>>

CallAgain(t) ==
    /\ pc[t] = "execute" /\ attempts[t] < MaxAttempts
    /\ Executor!Call(t)
    /\ attempts' = [attempts EXCEPT ![t] = @ + 1]
    /\ UNCHANGED <<poolVars, word, blocked, pc>>

OutOfAttempts(t) ==
    /\ pc[t] = "execute" /\ attempts[t] = MaxAttempts
    /\ place[t] = "waiting"
    /\ Goto(t, IF useWait THEN "pause" ELSE "loop")
    /\ UNCHANGED <<execVars, poolVars, word, blocked, attempts>>

WaitPaused(t) ==
    /\ pc[t] = "pause"
    /\ Wait(t, "wake", {t}, "loop")
    /\ UNCHANGED <<execVars, poolVars, attempts>>

\* Inside the executor.  Only with useWait has it a callback.
Advance(t) ==
    /\ pc[t] = "execute"
    /\ Executor!Advance(t)
    /\ UNCHANGED <<poolVars, word, blocked, pc, attempts>>

GatherThreads(t) ==
    /\ pc[t] = "execute" /\ useWait
    /\ Executor!Gather(t)
    /\ UNCHANGED <<poolVars, word, blocked, pc, attempts>>

\* Mutant: a thread that is not blocked yet is not woken.
WakeBlocked(t) ==
    /\ pc[t] = "execute"
    /\ Set(t, "wake", waking[t] \cap blocked["wake"], "woken", "execute")
    /\ Executor!Callback(t)
    /\ UNCHANGED <<poolVars, blocked, attempts>>

\* wakeThreadsFn.
WakeThreads(t) ==
    /\ pc[t] = "execute"
    /\ Set(t, "wake", waking[t], "woken", "execute")
    /\ Executor!Callback(t)
    /\ UNCHANGED <<poolVars, blocked, attempts>>

Woken(t) ==
    /\ pc[t] = "woken"
    /\ Notify(t, "wake", "execute")
    /\ UNCHANGED <<execVars, poolVars, word, attempts>>

GiveUp(t) ==
    /\ pc[t] = "execute"
    /\ Executor!GiveUp(t, useWait) \/ Executor!ReturnWait(t)
    /\ UNCHANGED <<poolVars, word, blocked, pc, attempts>>

\* EXIT ends the inner loop; the outer one goes on while the pool is running.
ExitExecutor(t) ==
    /\ pc[t] = "execute"
    /\ Executor!ReturnExit(t)
    /\ Goto(t, IF running THEN "finish" ELSE "returned")
    /\ UNCHANGED <<poolVars, word, blocked, attempts>>

Worker(t) ==
    \/ Finish(t) \/ Finished(t) \/ Rouse(t) \/ Roused(t) \/ WaitIdle(t)
    \/ EnterExecutor(t) \/ LeaveLoop(t) \/ CallAgain(t) \/ OutOfAttempts(t) \/ WaitPaused(t)
    \/ GatherThreads(t) \/ WakeThreads(t) \/ Woken(t) \/ GiveUp(t) \/ ExitExecutor(t)

\* The bound on the calls is reached and the owner leaves the pool alone.
Quiet == pc[Main] = "user" /\ calls = MaxCalls /\ UNCHANGED vars

Next ==
    \/ WindUpOrShutdown \/ ExecuteAndWait \/ Owner
    \/ \E t \in Threads : Worker(t) \/ Advance(t)
    \/ SpuriousWakeUp \/ Quiet

Spec == Init /\ [][Next]_vars

\* Every thread is run by the operating system.  An execution in which some
\* thread is at work gets on, whatever the others do and however often they
\* sleep and are woken: SleepersNotNeeded of TaskGraphExecutor says so.
FairSpec ==
    /\ Spec
    /\ WF_vars(Owner)
    /\ \A t \in Threads : WF_vars(Worker(t))
    /\ SF_vars(\E t \in Threads : Advance(t))
------------------------------------------------------------------------------
OwnerLabels == {"user", "wakeAll", "wokeAll", "join", "joined", "spawn", "count", "waitDone",
                "validate", "woundUp"}
WorkerLabels == {"none", "finish", "finished", "rouse", "roused", "idle", "loop", "execute",
                 "woken", "pause", "returned"}

\* Every variable has its type, and at most the bits of the workers are set.
TypeOK ==
    /\ place \in [Threads -> {"ready", "inside", "dozing", "waiting", "exited"}]
    /\ phase \in {"open", "started", "done"}
    /\ asleep \subseteq Threads /\ waking \in [Threads -> SUBSET Threads]
    /\ running \in BOOLEAN /\ useWait \in BOOLEAN
    /\ size \in Nat /\ Pool \subseteq Threads
    /\ word \in [Events -> SUBSET Threads]
    /\ blocked \in [Events -> SUBSET (Threads \cup {Main})]
    /\ pc \in [Threads \cup {Main} -> OwnerLabels \cup WorkerLabels]
    /\ pc[Main] \in OwnerLabels /\ \A t \in Threads : pc[t] \in WorkerLabels
    /\ attempts \in [Threads -> 0..MaxAttempts]
    /\ threadNum \in ThreadNums \cup {0} /\ calls \in 0..MaxCalls

\* validateAllDone: executeAndWait returns with every task done and no thread
\* in the executor.
ReturnsWhenDone ==
    pc[Main] = "validate" => phase = "done" /\ \A t \in Threads : place[t] = "exited"

\* While the pool is in the hands of its owner, who may then change the graph,
\* the workers are between finishing and waiting for the next execution.
WorkersAreIdle ==
    pc[Main] \in {"user", "validate"} => \A t \in Threads :
        /\ place[t] = "exited"
        /\ pc[t] \in IF t < size THEN {"finished", "rouse", "roused", "idle"} ELSE {"none"}

\* Every worker is called for every execution, and no worker for one that it
\* has finished or that was never begun (the idle event outlives both).
CalledOncePerExecution ==
    \A t \in Threads :
        /\ place[t] = "ready" =>
            t \in word["idle"] \/ pc[t] = "loop" \/ pc[Main] = "wakeAll"
        /\ running /\ t \in word["idle"] => place[t] = "ready" /\ pc[t] # "loop"
        /\ pc[Main] = "user" => t \notin word["idle"]

\* wakeAll's assertion: no worker finished an execution before it began.
NobodyDoneEarly == pc[Main] = "wakeAll" => word["done"] = {}

Awaited(p) == IF p = Main THEN Pool ELSE {p}
Notifying(e) == CASE e = "idle" -> pc[Main] = "wokeAll"
                  [] e = "wake" -> \E t \in Threads : pc[t] \in {"roused", "woken"}
                  [] e = "done" -> \E t \in Threads : pc[t] = "finished"

\* A thread blocked in a condition variable while all its bits are set will be
\* notified: the bits are set and tested under the mutex, and the notification
\* that follows the unlock cannot come too early.
NoLostNotification ==
    \A e \in Events : \A p \in blocked[e] : Awaited(p) \subseteq word[e] => Notifying(e)

\* A worker that pauses can be woken: its bit is set, or it is in the sleeping
\* mask, or another thread took it out of the mask and is about to wake it.
\* The mask, the word and the pause are three steps, in which it may be woken,
\* called and asleep again.
PausedCanBeWoken ==
    \A t \in Threads : pc[t] = "pause" =>
        t \in asleep \cup word["wake"] \cup UNION {waking[u] : u \in Threads}

\* Every call of the owner returns: no worker is left asleep when an execution
\* has ended, and shutdownThreads and windUpThreads find every worker.
CallsReturn == pc[Main] # "user" ~> pc[Main] = "user"
==============================================================================

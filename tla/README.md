# Verification of the task graph library

TLA+ modules, TLC configurations and TLAPS proofs for the task graph library in
`src/`: a graph of tasks with orders and shared or locked resources is built by the user,
compiled once, and then executed, as often as wanted, by the threads of a pool. All three
are modelled: the builder and the compiler (`task_graph.h`, `task_graph_compile.cpp`), the
lock-free executor (`task_graph_execute.cpp`) and the thread pool
(`simple_thread_pool.cpp`). Most of the lines in `src/` are the vendored profiler in
`src/optick`, which is not part of the library and not modelled.

## 1. Inventory

| Component | State it keeps | Operations | What makes it correct |
|---|---|---|---|
| `TaskGraph`, `BaseGraph` (`task_graph.h`, `task_graph_compile.cpp` 65-297) | tasks, order as a bit matrix, a multimap of resource usages | `addTask`, `addSubGraphTask`, `setNext`, `setResourceUsage`, `clear`; `resize`, `setConnected`, flags | one entry per task and resource, the last one stated, after any walks that erase and change entries; the matrix holds the edges last set, however often it was laid out anew |
| `prebuild_task_graph` (299-479) | `PrebuiltTaskGraph`: flat task list, order graph, exclusion graph, sub-graph table | resolves sub-graphs into entry and exit tasks, checks cycles, computes start flags, removes redundant edges | the order is the one the user stated; exclusion holds exactly for unordered tasks that conflict; cycles are refused |
| `compile_task_graph<MergeSubgroups>` (534-918) | groups of at most 64 subgroups, masks | forms groups, merges subgroups and small groups, writes the compiled graph | exclusion of tasks implies exclusion of their subgroups; every mask fits 64 bits; merging ends; the result is what the executor assumes |
| `CompiledTaskGraph` (`task_graph_execute.h` 33-123) | read-only arrays, and for each group, subgroup and task the atomics the threads share | none of its own | what the executor assumes of it (`WellFormed`) |
| `ThreadedTaskGraphExecutor` (`task_graph_execute.cpp`) | a `ThreadCtx` per thread, `sleepingThreadsMask` | `prepareForExecution`, `setWakeCallback`, `doThread`, `validateAllDone` | exclusion, order, every task executed the right number of times, every execution ends |
| `SimpleThreadPool` (`simple_thread_pool.cpp`) | threads, `running`, `useWait`, three events (word, mutex, condition variable) | `windUpThreads`, `executeAndWait`, `shutdownThreads`, the worker loop | `executeAndWait` returns when, and only when, all threads have returned `EXIT` |
| configuration, logging, `print_compiled_graph`, debug events, the test program, the vendored profiler | – | – | no part in scheduling |

**Interaction.** The user builds a `TaskGraph`; `prebuild_task_graph` flattens it and
`compile_task_graph` writes a `CompiledTaskGraph`. `SimpleThreadPool::executeAndWait` (or
the user's own pool, README.md of the repository, "Integrating into Custom Thread Pool")
calls `prepareForExecution` and then `doThread(i)` in every thread until it returns
`EXIT`. Inside `doThread` the threads interact only through the atomics of the compiled
graph: the `pending` and `executing` words of a group, the `state` and `dependencies` of a
task, `curVarTask` and `remainingVarTasks` of a subgroup, and the remaining count of a
sub-graph, which is a plain integer guarded by the order of the tasks. The executor calls
back the user's task functions, `taskNumFn`, and a wake callback.

**What is hard.** In the executor and the pool, all of it is concurrency. A subgroup changes
hands between a thread that owns it and threads that only hold invocations of a variadic
task in it; a task is made pending by whoever counts its last dependency; work is announced
by two writes (state, then bit) and found by two accesses in the opposite order; a sub-graph
resets tasks that others read; a thread decides to sleep or exit from a scan that is not
atomic. The compiler is sequential. What is hard there is that its loops and searches
work on what they change: a matrix is laid out anew in place, edges are removed while
later searches run over them, pairs are broken by the pairs made after them, subgroups hand
their edges on, and every task and subgroup has several numbers. The places are listed in
`PROJECT.json` under `hazards`, each at its line.

## 2. Modules

| Module | Content |
|---|---|
| `BaseGraph` | the bit matrix of a graph: words, edges, one step of laying it out anew |
| `TaskGraph` | the calls with which a user builds graphs (extends `BaseGraph`) |
| `PrebuiltTaskGraph` | `prebuild_task_graph`: resolve, validate, normalize (extends `TaskGraph`) |
| `MergeSubgroups` | `compile_task_graph<MergeSubgroups>`, and with it the whole way from the first call to the compiled graph (extends `PrebuiltTaskGraph`, instantiates `CompiledGraph` with its result) |
| `MCTaskGraphCompiler` | the bounds and start states with which TLC compiles |
| `TaskGraphProofs` | theorems about `TaskGraph` with their proofs |
| `PrebuiltTaskGraphProofs` | theorems about the compiler with their proofs: what it reads, symmetric exclusion, one merge, the resolution of sub-graphs (extends `MergeSubgroups`, `TaskGraphProofs`) |
| `PrebuiltOrderProofs` | the same of the order: the edges the resolution sets, the start flags, what the normalization makes of edges and exclusion (extends `PrebuiltTaskGraphProofs`) |
| `MergeSubgroupsProofs` | the same of the groups from the search to the compiled graph, and of that graph (extends `PrebuiltOrderProofs`) |
| `CompiledGraph` | the constant `Graph`, names for its parts, `WellFormed`, and that it holds of `Graph` (`GraphAssumption`) |
| `TaskGraphExecutor` | the executor: one action per step of a thread, `Prepare`, properties |
| `MCTaskGraphExecutor` | the compiled graphs on which TLC runs |
| `TaskGraphExecutorProofs` | theorems about `TaskGraphExecutor` with their proofs: types, exclusion, invocations, pending work |
| `TaskGraphOrderProofs` | the same of order, iterations and assertions (extends `TaskGraphExecutorProofs`) |
| `TaskGraphProgressProofs` | the same of what is left behind and of the contract with the pool (extends `TaskGraphOrderProofs`) |
| `ExecutionContract` | what the executor promises to the pool that runs it |
| `ExecutorImplementsContract` | the refinement mapping from `TaskGraphExecutor` to the contract |
| `SimpleThreadPool` | the pool: events, worker loop, the calls of the owner; the executor is the contract |
| `SimpleThreadPoolProofs` | theorems about `SimpleThreadPool` with their proofs: calls and workers, pauses and notifications |

### BaseGraph and TaskGraph

A word of the matrix is the set of its bits, a matrix the function from indices to words, so
that a row, its words and the bits in them lie where the code puts them. `Edges` is what
`iterEdges` visits. `TaskGraph` has the variables of the structs, `taskData` (which tasks
stand for a sub-graph; the functions of a task are left out), `taskOrderGraph` and
`taskResourceUsage`, for several graphs, since a graph may stand in others. There is one
action for every call. `addTask` calls `resize`, whose loop over the rows is taken in steps
(`AddTask`, `MoveNextRow`, `Resize`); no other call begins before it ends. The same holds of
`setResourceUsage`. The multimap is a bag of entries, the call a record in `usageCall` with the
entries of the range that are left and the flag `found`: `SetResourceUsage` takes the range, or adds
to an empty one and returns, `VisitEntry` passes, erases or changes one entry, `EndOfRange` adds an
entry if none was found. The multimap is an unordered one, so a walk may meet the entries of one
resource in any order. `stated` records
what the calls said, at the moment they say it, and `StatedCnt` bounds it: the history with which the properties
compare. A graph can only contain graphs with greater numbers, which excludes that a graph
contains itself: resolution would not end.

### PrebuiltTaskGraph

`phase` says which part of `prebuild_task_graph` is at work. The order and exclusion graphs
are functions from tasks to sets of tasks, a vertex flag is a set of tasks, and the
lists are functions from 0 on, as in the code. A task is known by its path: its number in
the root, in the sub-graph there, and so on.

| Phase | Code | Actions |
|---|---|---|
| `user` | the calls of `TaskGraph` | `UserNext`, `StartPrebuild` |
| `resolve` | 328-396, the recursion as a stack of `calls` | `CopyTasks`, `ResolveSubGraph`, `ReturnFromGraph` |
| `validate` | 413-435, a depth-first search, one step for each vertex | `ValidateTask`, `Validated` |
| `normalize` | 437-466, a breadth-first search from each task | `NormalizeLevel`, `NormalizeEdges` |

`base_graph_dfs` calls its callback for vertices that have not been visited, and between two
calls nothing but the visited flag and the edges decides what comes next; so the recursion
is `Searching` (the calls in progress that have edges left) and `Offered` (what the innermost
of them offers next). The check for a cycle is in `ValidateTask` as the code has it: it
asks whether a vertex just found unvisited is on the stack, and so the phase `refused` is
never entered (run `cycle`). The queue of the breadth-first search holds the tasks of
one depth and then those of the next, and a task queued twice at one depth is skipped by its
label the second time; `NormalizeLevel` takes a depth in one step, in which the order makes
no difference. `AcyclicOnly` chooses whether graphs with cycles are compiled.

### MergeSubgroups

A subgroup keeps the number it has in its group; one that was merged into another is empty.

| Phase | Code | Actions |
|---|---|---|
| `group` | 547-591, a depth-first search over exclusion | `StartMerging`, `GroupTask`, `Grouped` |
| `select` | 674-687 with `resetMergeState`: sort, cut | `SelectCandidates`, `AllInLimit` |
| `pair` | 689-717, passes over the candidates | `PairStep`, `EndPass` |
| `join` | 750-761, `mergeSubgroups` of every pair | `JoinPair`, `EndRound` |
| `small` | 764-799, joining small groups | `SmallStep`, `EndSmallPass` |
| `write` | 802-917 | `WriteCompiled` |

`std::sort` does not order equal elements: `SelectCandidates` takes any of the orders that
agree with the number of edges. `passes` counts the passes of `runSinglePass` and is not in
the code. The random restarts at 724-748 are commented out in the code. `compiled` is a record as
`CompiledGraph` has it; `taskNumFn` is copied with the task, so that its field is a
placeholder. `Spec` starts from no calls at all and covers everything up to the compiled
graph; one compilation is made, into fresh objects, as `build_and_compile_graph` does by
default.

### CompiledGraph

A compiled graph is one record. Groups, subgroups and tasks are the indices of the code.
A 64-bit word is the set of its bits: `pending` and `executing` are sets of subgroups of
all groups, and the word of group `g` is the set restricted to `Members(g)`. The
fields correspond to the arrays as follows: `groupOf`, `excluded`
(`TaskSubGroup::excludedMask`), `subGroupOf` (`Task::subGroupId`), `next` (`nextTaskIds`),
`start` (`isPendingOnStart`), `selfParallel` (`allowToRunInParallelWithItself`), `taskNum`
(the set of results `taskNumFn` may return), `entry`, `exit`, `body` (`subGraphData`).
`DepsCnt` and `Target` are computed as the compiler does: a task with a single
predecessor stores 0 and is not counted. `WellFormed` states what the compiler
guarantees and the executor uses (`GraphAssumption` assumes it of the constant); each conjunct is justified by a line of
`task_graph_compile.cpp`: symmetric exclusion (571-583, 817-822) inside a group (a group is
closed under exclusion), no self edge (the assertion of `setNext`), start flags of tasks
without predecessors (842-845), ends that exclude themselves (376-377, asserted at
905-906), and an exit alone in its subgroup (it excludes nothing but itself, so it is a
group of its own until small groups are joined, which keeps subgroups apart).

Some theorems need three more conditions: `Acyclic`, which is true of all graphs that compile, since
the normalization of a graph with a cycle does not end; `StartedInOrder` (no task with a predecessor is
pending on start; `start_flag` shows a graph for which the code breaks it), and `NotNested` (no
sub-graph inside another one, and the tasks of a body lie between its entry and its exit).
`CompiledIsAssumed` states when the compiler guarantees the last two - graphs that order tasks as they
were added, graphs whose sub-graphs contain none. Run `compile` checks it, and it is proved.

### TaskGraphExecutor

The variables are the shared words (`pending`, `executing`, `state`, `deps`, `varTask`,
`varLeft`, `remaining`, `sleeping`) and for each thread its place `pc`, what it knows of its
search (`find`: `groupId`, `shuffledGroupsOrder`, the two failure counters, the
snapshots of `pending` and `executing`) and what it does in a subgroup (`job`: the locals of
`doSubGroup`, `doVarTask`, `doSubGraphTask` and `afterTaskDone`).

A step of a thread makes one access to a word that other threads write, with the local
code around it. The places correspond to the code as follows.

| Place | The thread is about to | Code (`task_graph_execute.cpp`) | Actions |
|---|---|---|---|
| `ready`, `waiting`, `exited` | be called (it is outside `doThread`) | 207-222, 262-265, 259 | `CallDoThread` |
| `load`, `look` | load `pending`, `executing` of its group | 274-280 | `LoadPending`, `LoadExecuting` |
| `enter` | CAS `executing` | 376-398 | `EnterSubgroup`, `EnterFails` |
| `acquire` | CAS `curVarTask` | 400-420 | `AcquireVarTask` |
| `gather`, `wake` | take sleeping bits, call the callback | 318-374 | `GatherThreads`, `WakeThreads` |
| `clear`, `scan` | clear the pending bit, read the next state | 445-452 | `ClearPending`, `PassTask`, `StartTask`, `EnterSubGraph`, `LeaveSubGraph` |
| `run`, `piece` | return from a task function | 469-480, 505-513 | `MarkDone`, `FinishVarTask` |
| `windup`, `announce` | give the subgroup to a variadic task, set its bit | 485-492 | `WindUpVarTask`, `AnnounceVarTask` |
| `done`, `notify` | set the state to DONE, count a dependency, publish a group | 608-658 | `MarkDone`, `NotifyNext`, `PublishGroup` |
| `skip`, `reset`, `restart` | mark or reset a task of a sub-graph | 528-545, 559-572, 594-604 | `SkipTask`, `SkipEnds`, `ResetTask`, `ResetExit`, `RestartSubGraph` |
| `leave` | clear the executing bit | 422-430 | `LeaveSubgroup` |
| `check`, `sleep` | read the next state at the end, set the sleeping bit | 254-265 | `CheckTask`, `MarkSleeping` |

Accesses that share a step are those no other thread can tell apart: the count and the
state of a task that becomes pending (nobody else writes them then), `remainingVarTasks` and
`curVarTask` while the latter is 0, the two stores of a reset, and the load of a PENDING
state by the owner of its subgroup, the only one who may change it.

`taskNumFn`'s result, the order of the groups (`nextRnd`), the order in which the
adjacency array lists tasks, and how many threads are woken (an estimate from loads of
words that change meanwhile) are chosen nondeterministically.

**Abstractions.** Memory is sequentially consistent: the code uses relaxed loads and
stores for the states, and reorderings that C++ allows are not modelled.
`MaxFailedSubGroups` is the 64 of the code; most runs use 2 to 4 so that a thread can also
give up in a small graph, and one run uses 64. `MaxRounds` bounds the number of executions.
`taskNumFn` returns a natural number (a negative one trips the assertion at line 557 for a
sub-graph). The number of threads does not change between executions.

### ExecutionContract and ExecutorImplementsContract

`ExecutionContract` is the executor as a pool sees it. Each thread is `ready` (prepared, not
called), `inside` `doThread`, `dozing` (it has decided to return `WAIT` and not yet set its
sleeping bit), `waiting` or `exited`; the tasks are reduced to the `phase` of the whole
execution: `open`, `started` (nothing is left to start), `done`. The contract says when `doThread` may
return: `WAIT` only while another thread is inside, `EXIT` only when nothing is left to
start, and the last thread inside leaves nothing undone.

`ExecutorImplementsContract` maps the places and task states of `TaskGraphExecutor` to these
variables; `KeepsContract` is the contract under the mapping. It is checked in `wake` and proved for
graphs without self-parallel tasks and nested sub-graphs (`ContractIsKept`). The contract does not
hold for a graph with more invocations than the failure counters allow: that is the finding
`many_invocations`.

### SimpleThreadPool

The variables are `running`, `useWait`, `size` (`threads.size()`), for each of the three
events the `word` and the threads `blocked` in its condition variable, and the places `pc` of
the owner (`Main`) and the workers. `threadNum` is the argument of the `windUpThreads` in
progress. The contract's variables stand for the executor.

| Place | Code (`simple_thread_pool.cpp`) | Actions |
|---|---|---|
| owner `user` | outside the pool | `WindUpOrShutdown`, `ExecuteAndWait` |
| owner `wakeAll`, `wokeAll` | `wakeMask` of the idle event, to the unlock and after it | `WakeAll`, `WokeAll` |
| owner `join`, `joined` | `shutdownThreads` | `JoinThreads`, `ShutdownReturns` |
| owner `spawn`, `count` | `emplace_back`: the thread runs before it is counted | `StartThread`, `CountThread` |
| owner `waitDone`, `validate`, `woundUp` | the wait for all done bits, and what follows | `WaitDone`, `ReturnToUser` |
| worker `finish` to `roused` | set the own done bit, wake all that pause | `Finish`, `Finished`, `Rouse`, `Roused` |
| worker `idle`, `loop` | the outer loop and the head of the inner one | `WaitIdle`, `EnterExecutor`, `LeaveLoop` |
| worker `execute`, `woken` | in the loop of `MAX_ATTEMPTS` calls; `woken` is in the callback | `CallAgain`, `OutOfAttempts`, `Advance`, `GatherThreads`, `WakeThreads`, `Woken`, `GiveUp`, `ExitExecutor` |
| worker `pause`, `returned` | the wait for a wake-up; the thread has ended | `WaitPaused` |

An event is modelled as it is built. Waking sets the bits in one step, under the mutex, and
notifies in another, after the unlock; an empty mask returns at once. Waiting tests the word and
either takes its own bits or blocks, in one step, under the mutex; a blocked thread is
notified or wakes up spuriously, and tests again. A mask `(1 << n) - 1` is a set of threads, except
that for `n = WordBits` the shift is undefined and gives either no bits or all.
`threads.size()` is read by workers while `windUpThreads` still adds threads: a new worker
wakes whatever number has been counted. A pool has one owner, who does not execute anything on a pool
without threads.

### Properties of the builder and the compiler

* `OrderAsStated`, `UsageAsStated`: what a `TaskGraph` holds is what the calls said last, nothing beside
  it and nothing twice, and a walk over the usages that has found the entry of its task meets no other (259).
* `SubGraphsResolved`: the ids that were written down before the tasks were copied are theirs.
* `OrderIsStated`: the order of the prebuilt graph is, on all paths, what `setNext` and the nesting
  of the graphs say, no more and no less, and no edge is redundant.
* `ExclusionIsStated`: tasks of one graph exclude each other exactly if they conflict and
  are not ordered.
* `ForwardStartsFirst`: the start flags are right for graphs that order tasks as they were
  added; `StartsFirst`, without this condition, is refuted.
* `ExclusionKept`: through all merges the exclusion of subgroups is that of their tasks, and no
  task is lost.
* `MergedToTheLimit`: large groups end at the limit of a mask and not below it.
* `PairsAccounted`: the pairs are mutual, the counters agree with them, and every pass but
  the last gains: this is why the loop of passes ends.
* `GroupsPacked`: no two groups are left that could be joined.
* `CompiledIsAssumed`: the result is `WellFormed`, as `GraphAssumption` has it, under which the executor is
  checked and its theorems are proved, and renumbering lost nothing.
* `LockingExcludes`, `CyclesRefused`: what the documentation says; both are refuted.

### Properties of the executor

* `MutualExclusion`: task functions that run at the same time are allowed to.
* `NoLostWork`: a pending task is never overlooked.
* `VarTaskAccounting`: the invocations of a variadic task, the words that count them
  and the ownership of its subgroup agree.
* `OrderRespected`, `OncePerExecution`: a task starts after those before it, and once.
* `IterationsInSequence`, `ResetOnlyWhenDone`: iterations of a sub-graph do not overlap.
* `ExitedMeansStarted`: a thread that exited was not needed any more.
* `LastOneFinishes`: the last thread to return leaves nothing undone. This is what
  makes it safe to sleep after `WAIT`, although the sleeping bit is set after the decision,
  and what `validateAllDone` asserts.
* `AssertionsHold`, `SkippedIsUntouched`: the assertions of the code at their lines.
* `ExecutionEnds`: the execution ends, with every thread returned.
* `SleepersNotNeeded`: the tasks get done even if a thread that sleeps is never called again.
* `KeepsContract`: the executor implements `ExecutionContract`.

### Properties of the pool

* `ReturnsWhenDone`: `executeAndWait` returns with every task done and nobody in the executor.
* `WorkersAreIdle`: while the owner has the pool to itself, and may recompile the graph, the
  workers are on their way from finishing to waiting, whatever they still have to notify.
* `CalledOncePerExecution`: the bits of the idle event outlive the call that set them and
  the executor they call for; none of them starts a worker twice or without an execution.
* `NobodyDoneEarly`: no done bit is left over when an execution begins.
* `NoLostNotification`: nobody blocks for good with its bits set.
* `PausedCanBeWoken`: a worker that pauses is in reach of a wake-up, through the three steps of
  sleeping mask, word and pause, and whatever wake-ups arrive late.
* `CallsReturn`: every call of the owner returns. The wake-up of all pausing
  workers by each one that finishes (line 104) is needed for it; the loop in the repository's
  README.md (148-164) has no counterpart of it.

## 3. Runs

| Run | Graph and bounds | Why this instance | Distinct states |
|---|---|---|---|
| `variadic` | a preparing task, a variadic task with 0, 2 or 3 invocations, two tasks in one subgroup that lock what the others share; 3 threads (symmetric) | three threads are needed for an owner, two holders of invocations and an outsider; 3 invocations leave one to acquire while two run | 1 580 000 |
| `wake` | two subgroups, variadic tasks that share one with a task that is pending meanwhile; 2 threads with wake callbacks, 2 executions; sleepers need not wake | a thread falls asleep while the other makes work pending; the words that `prepareForExecution` leaves alone pass from one execution to the next | 355 881 |
| `live` | a sub-graph of two tasks that exclude each other, skipped or executed twice, then a sub-graph in a sub-graph with parallel invocations; 2 threads, with fairness | first start, restart, skip and final exit all occur, and the inner one is reset by its own entry after the outer one restarted | 601 238 |
| `pool` | pools of 1 and 2 threads, 2 attempts, any 4 calls of `windUpThreads`, `executeAndWait` and `shutdownThreads`, with fairness | two workers are needed for one to pause while the other works; after four calls every call has followed every other, executions with and without waiting included | 60 500 |
| `compile` | three graphs of at most 3, 2 and 1 tasks that may stand in one another, at most 4 edges, usages and sub-graph tasks in all, at most 8 tasks when resolved; words of 2 bits, masks of 4; and, from the phase `group` on, every exclusion among 5 tasks and every set of chains of 7 | a third task makes a second word, a sub-graph in a sub-graph and two places of one sub-graph occur; a group of 5 loses one subgroup and one of 7 three, and up to 7 groups are joined | 2 399 655 |

Seven runs end with a counterexample; each is a disagreement between the code and its own
documentation or assertions (`findings` in `PROJECT.json`).

* `skip_outer`: a sub-graph that contains a sub-graph is turned off by `taskNumFn`. Only
  the tasks listed in its own `subGraphData` are marked DONE; the tasks and the exit of the
  inner one stay NONE, so no thread finds everything started and the execution never ends
  (the threads call `doThread` for ever).
* `skip_nested`: an inner sub-graph is turned off in two iterations of the outer one. The
  second time its tasks are still DONE from the first, and the assertion at line 565 fails:
  `remaining == -2` leads to a reset only if the sub-graph runs.
* `many_invocations`: an invocation that a thread acquired and executed counts as a failed
  attempt to enter a subgroup. After 64 of them for each group, and 64 more, the thread leaves
  `doThread` with `EXIT`. With one thread and 130 invocations the last two are never
  executed, and `validateAllDone` fails. With the real constant 64.
* `pool_full`: nothing keeps a pool from having as many threads as a word has bits, and the
  shift that computes the mask of all of them is then undefined. With an empty mask nobody is
  woken, nobody is waited for, and `executeAndWait` goes on to `validateAllDone` with nothing
  executed. The run uses a word of 2 bits for the 64 of the code, which the rest of the model
  does not depend on.
* `start_flag`: flag 1 of a vertex says that it may start at once. It is cleared when a
  search from another root reaches the vertex. A task that was added before its predecessor
  is the root of its own search and keeps the flag: both are pending on start.
  `ForwardStartsFirst` shows that nothing else goes wrong.
* `nesting`: usages are compared inside one `TaskGraph`. Tasks of different graphs that lock one
  resource do not exclude each other, whatever the README promises of `Locking`.
* `cycle`: the check for cycles can never succeed, and the normalization of a graph with a cycle
  never ends. The run shows that such a graph gets as far as the normalization.

**Bounds.** The widths 64 and 32 in the compiler are constants of the model: `WordBits`,
`MaxSubgroups`, `MinGroupSize`. Nothing depends on their values but where the boundaries are,
and 2, 4 and 4 put every boundary in reach: `TaskGraphProofs` proves the
matrix for every width. The compiler is deterministic up to `std::sort`, so `compile` enumerates
inputs rather than interleavings, and `AnyExclusion` starts it at the phase `group` with groups
larger than four calls can build. Those start states are ones the compiler reaches: tasks without
an order, where the two tasks of every edge lock a resource of their own (with what the
normalization leaves in its own variables cleared).

**Fairness.** `FairSpec` is weak fairness of every thread's steps. Two things justify it: the
operating system runs each thread, and after `WAIT` a pool calls `doThread` again (the worker
loop of `SimpleThreadPool`, lines 110-135, up to 32 times at once and without end when it
does not wait; the loop in the repository's README.md). With waiting, a thread
sleeps until it is woken. That the others do not need it is checked, not assumed: `wake` runs under
`FairWhileAwake`, which grants no step to a thread that sleeps, and `SleepersNotNeeded`
holds. A CAS that fails because another one succeeded is no step here: the thread goes on
with the new value, and in `EnterFails` it gives up only for a reason.

The pool's `FairSpec` is weak fairness of the owner and of every worker, and strong
fairness of progress in the executor as a whole: some thread inside advances the execution if
there is one inside again and again. `SleepersNotNeeded` and `ExecutionEnds` justify the
latter, for an executor whose threads come and go. Nothing is assumed of which
thread a spurious wake-up or a callback wakes, or that any is.

**Mutants.** For every property of a passing run `PROJECT.json` names a plausible
mistake in the code (a bit cleared too late, a store in place of a CAS, a counter that is not
reset, a pass too few) under which TLC finds the property violated in the same run.

## 4. Proofs

### The builder

`TaskGraphProofs` proves `OrderIsKept` and `UsageIsKept`, `UserSpec => []OrderAsStated` and
`UserSpec => []UsageAsStated`, for every width of a word, any number of graphs of any size, and any
calls. `OrderAsStated` is not inductive: in the middle of a resize the rows of one matrix have two
widths. `UserInv` has, for each graph, `MatrixInv`: rows that are still to move have the old width,
those that were moved have the new one and nothing but zeros in what is new, and what all of them
hold is what was stated. A row that is moved overwrites nothing that has still to be read, since the
rows before it end, at the old width, where its new place begins or before; this and the arithmetic of places
(`PlaceUnique`, `WordAndBitUnique`) are the lemmas at the top.

`UsageAsStated` is not inductive either: while a walk goes on, the multimap holds what the last call left
of the task and the resource, or part of it, and `stated` what this one asks for. The third part of
`UserInv`, `UsageInv`, says of a walk (`Walking`) that the bag has the entries of everything else that is
stated and besides one entry at most of this task and resource; that this one, if there is one, is still
ahead until it is found or erased; and that once found it is the one that was asked for. Then
`VisitKeeps` shows that a visit keeps this, whichever entry comes next, and that none of the task comes
after the one found; `EmplacedHolds`, that the end of the walk adds an entry where there is none.

### The compiler

`PrebuiltTaskGraphProofs` proves, for every value of the constants:

* `CompilerLeavesGraphs`: `Spec => UserSpec`. The compiler implements the builder's
  specification (its own steps change nothing of it), so that the two theorems above hold
  throughout it: `CompilerReadsOrder`, `CompilerReadsUsage`.
  The second one says besides that no walk is under way when the compiler reads, so that the bag it reads
  is the stated one.
* `ExclusionIsMutual`: the exclusion graph is symmetric in every state. Conflicts are taken from
  either of two usages and the searches from one end of each path, so it takes an argument for each
  (`CopyTasksMutual`, `NormalizeLevelMutual`).
* `MergeKeepsExclusion`: merging two of any subgroups keeps their exclusion what that of their
  tasks is. This is the step behind `ExclusionKept`, for any data.

For any finite set of graphs, of which one is the root (`TaskGraphsAssumption`, `PrebuildAssumption`), nested in
any way in which no graph contains itself, it proves `SubGraphsAreResolved`: `Spec => []SubGraphsResolved`, and
`PrebuiltOrderProofs` proves

* `TasksStartFirst`: `Spec => []ForwardStartsFirst`. What it says of graphs holds where
  every one orders its tasks as they were added (the property's own condition, `Forward`); the run
  `start_flag` shows that the condition is needed;
* `OrderIsKeptAsStated`: `Spec => []OrderIsStated`. In the prebuilt graph a task is ahead of another exactly
  when the user's calls put it there, and no edge is left beside a longer way;
* `ExclusionIsKeptAsStated`: `Spec => []ExclusionIsStated`. What excludes a task there is what conflicts
  with it in the same graph and is not ordered before or after it.

*The resolution.* The code writes down indices of tasks that the next recursive call is going to copy,
and reserves places for all of them before the first one. `Resolving` holds between two steps of the
recursion, with the calls in progress as a stack.

* `CallsOK` says what is below the path of each call: the tasks of the sub-graphs it has passed, and
  nothing of those from `next` on. It is why a call finds nothing of its own there
  (`NothingBelow`), and why what one call adds is, to every call under it, in its turn (`InTurn`).
* `TablesOK`: the body of every sub-graph is an interval after its exit, and either it has been copied,
  or its call is the one at work and copies next. The tasks whose path is in a sub-graph are then its body and no
  others, however often the same graph stands elsewhere.
* `SizesFit`: what has been copied and what is left to each of the calls (`Left`) add up to what was reserved.
  `ResolveSize` is a recursive function; that it is the one function with the sizes of
  graphs (`SizesExist`, `ResolveSizeIs`) is shown from the last graph to the first (`FromTheLast`: if
  it failed, there would be a smallest set of graphs, closed upwards, for which it does), since a graph stands only in
  graphs before it (`GraphsAreNested`).

*The start flags.* A task keeps its flag if no edge has led the search to it, so it was offered by the loop
over the roots. That it then has no predecessor follows from the order of that loop, if the
edges are what the user stated and if what `Precedes` calls a path is one. `PrebuildInv` goes through the phases:

* During the resolution `Wiring` holds. Each task stands for the task of the graph at its path
  (`PlacesOK`); every sub-graph begun has its table, and all of its tasks unless its call is at work on them
  (`TablesPlaced`, `HaveTables`); an entry that has a table leads to the sub-graph's tasks and its exit, and
  the exit has taken over what the entry led to (`EdgesOK`). The last return leaves no call, so that all tables
  are done: `AllWired` says in terms of paths what every edge is, `EdgesAreStated`.
* During the validation `Searched` holds. All that a visited task leads to is visited too, or the task
  is on the stack still; hence, when the loop offers a task, those visited before are closed under edges
  and hold every task with a lesser index, but not this one (`OfferedByLoop`). A task of a sub-graph has its entry
  before it and edges lead from there to it, so the loop offers only tasks of the root (`OfferedIsOfRoot`).
* What precedes such a task lies in or at a task of the root ahead of which it stands
  (`PrecedesInRoot`), and in a graph whose tasks are ordered as added that one has a lesser index. It was
  visited, and with it all its edges lead to (`NoneBeforeOffered`).

*The normalization.* It searches from one task after the other, level by level, and removes edges and exclusion on
the way, while later searches run over what is left. `Normalizing` says that there is one relation `ahead` that both the
edges the user stated and the edges that are left reach (`StatedReach`, `Least`): removing an edge beside a
longer way leaves it as it is (`SparedEdges`). `LevelsOK` says what the labels of the search in progress are: lengths of
ways from its base, and what a labelled task leads to has a greater one or is in the frontier. A search that ends has
therefore come to all that is ahead of its base (`LevelsEnd`), has left it no edge beside a longer way, and has met no
cycle (`NoDetours`): the search of a graph with a cycle does not end and the graph never becomes prebuilt, so that no
theorem has to assume there is none. When all searches have ended, `ahead` is `Precedes`. One way, an edge goes from a task to one
that it precedes (`EdgesPrecede`) and `Precedes` is transitive there (`PrecedesGoesOn`); the other, from the task where two paths
part the edges lead out to the exit around it (`LeadsOut`), along the order of one graph (`SiblingsAhead`) and in again
(`LeadsIn`).

*The exclusion.* `ExclusionInv` goes through the phases too. While tasks are copied, `ExcludedSoFar`: what excludes a task are those of its
siblings that conflict with it, and an entry and an exit exclude themselves from the moment the sub-graph has its table. The code takes
the conflicts from a multimap of usages in which the new tasks come last; that these are the pairs whose stated usages conflict is
`ConflictIsRead`, from `CompilerReadsUsage`, and that usages are stated of tasks of the graph only is an invariant of
the builder (`UsagesHoldTasks`). While
searches run, `ExclusionLeft`: what is left are these conflicts without the pairs that a search has
come across from either side (`Cleared`). At the end, what was cleared is what is ordered.

The definitions this rests on are folds and recursive functions over data. `AheadIsLeast` shows that `Ahead`,
which takes in the vertices one at a time, is reachability: the least set with the next ones of a vertex that is
closed under edges. `GraphAtSteps` takes the graph at a path apart into the graph before and the last step, and
`CommonPrefix` says of the longest common prefix what its name does.

`MergeSubgroupsProofs` proves, for every graph that calls can build and every limit
(`MergeAssumption`), `ExclusionIsExact`, `LimitIsMet`, `SmallGroupsArePacked` and `PairsAreAccounted`: `Spec => []`
`ExclusionKept`, `MergedToTheLimit`, `GroupsPacked` and `PairsAccounted`; and, from these and the theorems about the
prebuilt graph, `CompiledIsAsAssumed`. The four follow from one invariant, `MergeInv`
(`MergeIsInvariant`), which is inductive relative to `GraphInv` (`GraphIsTyped`: tasks are numbered
without a gap, exclusion is a symmetric relation among them). It has a part for every phase.

* `group`: `Collecting`. A task that was visited has a subgroup of its own, in the group of each
  visited neighbour; only the calls in progress have neighbours not yet visited, and they are
  all in the last group. When the search has nothing left to offer, a group is therefore closed
  under exclusion (`SearchedAll`).
* from `select` on: `Partitioned`. Each group is `GroupOK` (its cells are apart, its edges exact, its
  count that of its live subgroups), no task is in two groups, none is lost. `MergedOK` and `JoinedOK`
  say that a merge of two live subgroups and a join of two groups keep `GroupOK` and the tasks;
  `MergeKeepsExclusion` is the core of the first.
* `pair`: `PairInv`. Pairs are mutual and of candidates, and `2 * pairCnt` is the number of
  subgroups that have a partner (`PairedOK` counts the pairs that a pairing breaks). There are at
  most `2 * (cnt - MaxSubgroups) + 1` candidates. The odd one is where the argument is: what is
  paired is even in number, so that at most `cnt - MaxSubgroups` merges follow and no round falls
  below the limit, which `subgroupCnt` alone does not show.
* `join`: `JoinInv`. Of the subgroups from `pos` on, those with a partner are paired among
  themselves, so that a merge never meets one that is empty.
* `small`: `SmallInv`. As long as a pass has joined nothing, the candidate is the smallest of the
  groups passed and no two of those fit together; a pass that ends so has passed all of them, and
  this is when the passes end. `std::remove_if` (`GroupsLeft`, `NthLeft`) takes away groups that
  have no task (`EmptyGroup`).

`PairsAccounted` needs one more, `ValueInv`, relative to these: twice `totalValue` is the sum of
the pairs' values, each counted at both ends (`PairedValue`: a pairing takes two pairs out of the sum
and puts one in), every finished pass has gained one at least, and the first subgroup of the
first pass finds a partner because nothing is lost with any (`FirstFindsPartner`), so that there is a
pair from then on. What holds of sums is shown without induction: of the subsets of which a statement
about `SumOver` would not hold a smallest one (`SmallestSet`) is taken, and the fold
`MapThenSumSet` is shown to be that sum (`ValuesSummed`).

`CompiledIsAsAssumed`: `Spec => []CompiledIsAssumed` joins the compiler and the executor. What the theorems about the
executor assume of the constant `Graph` is true of every graph that the compiler writes, so they hold of all
of them. Its hypotheses are none but the constants'; the conditions `StartedInOrder` and `NotNested` are
derived from what was stated to the builder.

* *The order of writing.* `AllSubGroups` and `AllTasks` are `InOrder` of pairs of indices, which is the order of the
  nested loops. `InOrderIs` shows that each pair has one place (the number of pairs not after it),
  `OneSubGroup` and `TasksListed` that each task is therefore written once. `Renumbered`
  follows: the new numbers are one for each task, from 0 without a gap.
* *What is written* (`TasksMatch`, `SubGraphsMatch`, `SubGroupsMatch`): each field of the record in terms of the
  prebuilt task a number stands for. `MaskIs` turns the numbers inside a group into those of the compiled
  graph; `SubGroupsAreAssumed` and `ExclusionIsMasked` then follow from `Partitioned`.
* *An exit is alone.* Nobody states usages of an exit, so it excludes nothing but itself (`ExclusionStated`,
  `Solitary`). That its subgroup then has no other task is inductive in two forms, `AloneInv`: until the small groups are
  joined its whole group has no other task (`AloneInGroup`: no merge has a second subgroup to take), and
  from there on its subgroup has none (`AloneInCell`: joining keeps subgroups apart).
* *What is known when it is written*, `CompileInv`: the table is complete and no two sub-graphs have one exit
  (`TablesKnown`), the normalization has only taken edges away (`EdgesWithin`), the start flags are in order
  (`StartsInOrder`), and `compiled` is what `Written` says. `Ready` gathers this with what the invariants
  of the earlier phases say at the end.
* *No cycles, no nesting.* `ahead` of a task is more than `ahead` of those after it, so among any
  tasks one has least and one has most (`LeastAndGreatest`, `ReadyIsAcyclic`). If no sub-graph has sub-graphs, all entries are
  tasks of the root (`EntriesAreInRoot`: a first one that is not would stand in a sub-graph of it); every
  edge is between siblings, or an entry or an exit and the tasks inside, and so none leads past the ends of
  a body (`SubGraphIsClosed`). That a body task has a next one and one before it is shown by the order, since normalization takes
  edges away: it precedes the exit, and what has no edge precedes nothing.

### The executor

`TaskGraphExecutorProofs` proves, for every compiled graph that satisfies
`GraphAssumption`, every finite set of threads and every value of the other constants:

* `TypeCorrect`: `Spec => []TypeOK`;
* `InvocationsAccounted`: `Spec => []VarTaskAccounting`;
* `MutualExclusionHolds`: `Spec => []MutualExclusion`;
* `NoLostWorkHolds`: `Spec => []NoLostWork`.

The argument has three layers, each an inductive invariant relative to the one before.

1. `LocalInv` (`SharedOK`, `ThreadsOK`) adds to the types what a thread's locals hold at its
   place (`LocatedAt`): at an owning place `job.own` is set, outside it is not, and the
   subgroup and the task it works on exist. Without it the type invariant is not
   inductive: `state[job.task]` would be an arbitrary value. `LocalStep` has one step per
   action.
2. `OwnershipInv` says who is in a subgroup: the executing subgroups do not exclude each other
   (`ExecutingApart`), an owner's subgroup is executing and has no other owner
   (`OwnersApart`), the invocations of a subgroup are of one self-parallel task with distinct
   indices (`InvocationsApart`), and they are counted (`VarTaskAccounting`). Exclusion is not
   inductive without the count: the thread that takes `remainingVarTasks` from 1 to 0 becomes
   the owner, and only the count shows that nobody else is in the subgroup. The six
   actions that change any of this have a lemma each; the others preserve it by
   `KeepsOwnership`.
3. `LookoutInv` strengthens `NoLostWork` with what a thread has noted of the tasks it made
   pending (`NotedAt`): it holds unpublished subgroups only while it notifies, it is bound for
   another pass whenever it has found a task, and a task it works on belongs to its subgroup
   or is the exit of a sub-graph it skips. The last part is why a next task of the same
   subgroup needs no pending bit: it is the owner's own subgroup, or the next task would be
   the exit itself, since an exit is alone in its subgroup. `LookoutFrame` reduces a step to
   what the moving thread covered before and covers after (`SeenTo`).

`TaskGraphOrderProofs` and `TaskGraphProgressProofs` prove the rest, under `OrderedGraph`
(`StartedInOrder`, `Acyclic` and `NotNested`):

* `OrderIsRespected`, `IterationsAreInSequence`, `NoAssertionFails`, `ExecutedOnce`, `ResetWhenDone`,
  `ExitMeansStarted`, each `Spec /\ []CleanStart =>` the property of a similar name, and
  `SkippedNeverTouched`, the same of `SkippedIsUntouched`;
* `StartsClean`: `Spec => []CleanStart` if there are no self-parallel tasks, or for one execution;
* `LastOneLeavesNothing`: `Spec => []LastOneFinishes`, and `ContractIsKept`:
  `Spec => KeepsContract`, for graphs without self-parallel tasks.

No hypothesis is for convenience. `skip_outer` and `skip_nested` refute order and assertions in nested
sub-graphs; `CleanStart` (no invocation is left when the next execution is prepared) and the
absence of self-parallel tasks are what `many_invocations` breaks: the words that
`prepareForExecution` does not reset then hold invocations of the execution before.

*Order.* `Flow` is inductive relative to the three layers above. `DepsCounted` says that the count of
a task is the number of its predecessors that are done and have told it (`Delivered`), wherever
counters mean something: not in a sub-graph that is being reset, nor in one that is over,
whose counters nobody reads any more. `AllAtWork` says what a thread at each place may rely
on, `Alone` that no two threads act on one task, and `GraphOK` describes the phases of a sub-graph by
its remaining count and the states of its ends. The step that carries the weight is
`LastPartDone`: when the exit is reached the whole body is done. It is not said anywhere in the
code. The exit counts only its direct predecessors; a body task that is not done
would have, after it and inside the body, a last one that is not (`Acyclic`), which is followed by
the exit itself (`NotNested`).

*What is left behind.* `WatchInv` explains why the scan at the end of `doThread` may read one
state after the other while sub-graphs are reset: what was seen started stays so for the
tasks that are not repeated (`OuterStays`), an exit that is done closes its sub-graph
(`ClosedGraph`), and so at the end everything has started, the tasks seen before a reset included.
`SoloInv` explains why giving up is safe. `Seeking` and `Passed` follow a thread through its
search: after one failure more than there are groups it has passed all groups since it
last found something (the first failure does not count, since the order was shuffled anew:
this is what the additional one is for). `Alive` says that, unless everything is done, a thread owns a
subgroup, or nobody has been called, or a thread is looking that has seen no subgroup
executing and nothing pending in the groups it passed. It is kept because
nobody at work and nothing pending means that everything is done (`WorkIsFound`: among the tasks that
are not done there is a first one, it has all its predecessors' deliveries, and so it
is pending and not overlooked).

*The contract.* `ContractNext` takes each step to a step of `ExecutionContract` or a stutter. `GiveUp`
and `ReturnExit` need somebody else inside, which is `Alive` (`SomeoneElse`); that
the phase never goes back is `DoneStays` and `StartedStays`.

### The pool

`SimpleThreadPoolProofs` proves, for any numbers of threads below the width of a word
(`Narrow`), any number of attempts and any bound on the calls: `PoolTypes`,
`CallsReturnWhenDone`, `WorkersIdleBetweenCalls`, `WorkersCalledOncePerExecution` and
`NobodyFinishesEarly`, each `Spec => []` the property of a similar name. `Narrow` is needed:
`pool_full` refutes `ReturnsWhenDone` without it.

All follow from one inductive invariant, `PoolInv`. The places of the owner form stages
(`AtRest`, `Calling`, `Executing`, `WindingUp`, `Stopping`); at each one, `WorkerOK` says where every
worker is, what it last returned from the executor, and which of its bits are set. A worker's roles
(`Resting`, `Called`, `Invited`, `Busy`, `Leaving`, `Back`, `Stopped`) tie the three together: a
done bit can only be found set at a worker that is `Back`, and this is why a full
mask of done bits means that all have left the executor. `ExecutionOK` adds what the contract
guarantees of the last one to leave. A thread that runs but is not counted in `size` yet has
a role of its own right (`Exists`). `WorkerFrame` and `BusyFrame` reduce a worker's step to that worker;
every action has its lemma.

Its last part adds two invariants that are inductive relative to `PoolInv`.

* `PausedIsInReach` (`Spec => []PausedCanBeWoken`). That a worker which pauses can be woken holds
  because it could be before: `InReach` says so of a worker from the step in which it
  enters the sleeping mask and returns WAIT, while it is still in the executor's loop, and that
  it pauses only in an execution with `useWait`, the only ones in which it enters
  the mask. `Reach` is the mask, the wake word and what threads have taken out of the mask; its
  parts hand a worker on to each other and lose none but the worker itself, when it is called
  or takes its bit.
* `NotificationsAreNotLost` (`Spec => []NoLostNotification`). A step settles an event (`Settled`)
  when it leaves a notification to come or nobody blocked, or when it sets no bit and blocks
  only who lacks one; every step settles every event (`WorkerSettles`, `OwnerSettles`). The set of
  workers the owner waits for changes under `windUpThreads` and `shutdownThreads`, so the owner
  must not be blocked then (`OwnerBlocked`), and `PoolInv` is needed where threads begin and end: a
  worker that is joined owes no notification.

### Only model-checked

Of the builder and the compiler, every safety property that holds is proved.
Of the executor, every safety property for graphs
with nested sub-graphs, and `LastOneFinishes` and `KeepsContract` for graphs with self-parallel tasks,
as far as they hold (the runs `wake` and `live` have both).
Of all parts, liveness, which is out of the prover's reach (as is everything about `ENABLED`).
Every safety property of the pool is proved.

## 5. Plan

Done: the executor, its contract, the pool, the builder and the compiler. Next, in this order:

1. The pool composed with `TaskGraphExecutor` itself in place of the contract, on a graph
   small enough, to check the strong fairness the contract needs against the executor's own.
2. `Scheduling`: the abstract contract of an execution (a task starts when those before it
   are done, conflicting tasks do not overlap, iterations follow one another), and
   `TaskGraphExecutor` shown to implement it by a refinement mapping.
3. Proofs: `LastOneFinishes` for self-parallel tasks with fewer invocations than the failure counters
   allow.

## 6. Not modelled

* Relaxed memory; a change of the number of threads between executions; more threads than a
  word has bits (as many threads as bits: `pool_full`); several owners of one pool; tasks
  that throw.
* Recompiling into a compiled graph that is in use, and compiling into objects that were
  compiled into before: nothing is cleared, and nothing says that it may be done.
* Of `TaskGraph` and `BaseGraph`: what the tasks call (`setTaskData`), `getResourceUsage`, which
  changes nothing, moving, reserving, hashing and comparing, the flags as bits, and shrinking
  a matrix to a size other than 0, which no caller does.
* The configuration header and its hooks, logging, `print_compiled_graph`, debug events and
  statistics: they take no part in building, compiling or scheduling.
* The test program, a benchmark of the library.
* `src/optick`: a vendored third-party profiler (a C++ library, a bundled compression library,
  and platform code), reached through macros that record events (`SI_TG_PROFILE`), which
  change nothing the library reads.
  It holds more than four fifths of the lines in `src/`, so that the share of all lines that
  is modelled says little of the library; of the library's own code what is left out is listed above.

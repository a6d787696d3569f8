----------------------- MODULE TaskGraphExecutorProofs -----------------------
(***************************************************************************)
(* Theorems about TaskGraphExecutor, for every compiled graph that         *)
(* satisfies GraphAssumption and any finite set of threads.                *)
(***************************************************************************)
EXTENDS TaskGraphExecutor, FiniteSetTheorems, TLAPS

(***************************************************************************)
(* Where a thread can be, and what its locals hold there.                  *)
(***************************************************************************)
Outside   == {"ready", "waiting", "exited"}
Searching == {"load", "look", "enter", "acquire", "check", "sleep"}
Owning    == {"clear", "scan", "run", "windup", "done", "notify", "skip", "reset",
              "restart", "leave"}
Waking    == {"gather", "wake"}
OnTask    == {"run", "windup", "done", "notify", "skip", "reset", "restart", "piece"}

LocatedAt(l, f, j) ==
    /\ l \notin Outside => f.order \in GroupOrders
    /\ l \in Owning => j.own
    /\ l \in Outside \cup Searching \cup {"piece", "announce"} => ~j.own
    /\ l \notin Outside \cup Searching => j.sub \in SubGroups
    /\ l \in OnTask => j.task \in Tasks
    /\ l \in Waking /\ ~j.own => j.task \in Tasks
    /\ l = "windup" => j.task \in SelfParallel /\ j.idx > 1

Located == \A t \in Threads : LocatedAt(pc[t], find[t], job[t])

ThreadsOK ==
    /\ pc \in [Threads -> Labels]
    /\ find \in [Threads -> Searches]
    /\ job \in [Threads -> Jobs]
    /\ Located

SharedOK ==
    /\ pending \subseteq SubGroups /\ executing \subseteq SubGroups
    /\ state \in [Tasks -> States]
    /\ deps \in [Tasks -> Nat]
    /\ varTask \in [SubGroups -> [task : Nat, cnt : Nat]]
    /\ \A s \in SubGroups : varTask[s].cnt > 0 => varTask[s].task \in SelfParallel
    /\ varLeft \in [SubGroups -> Int]
    /\ remaining \in [SubGraphs -> Int]
    /\ sleeping \subseteq Threads
    /\ round \in Nat

LocalInv == SharedOK /\ ThreadsOK

\* The compiled graph has a group (ThreadCtx::groupId starts at 0).
LEMMA GroupCntPositive == GroupCnt \in Nat \ {0}
  <1>1. IsFiniteSet(Groups) /\ Groups # {}
    BY GraphAssumption DEF WellFormed
  <1>2. GroupCnt \in Nat /\ GroupCnt # 0
    BY <1>1, FS_CardinalityType, FS_EmptySet DEF GroupCnt
  <1> QED  BY <1>2

\* Moving to the next group leaves the thread searching, with its group order.
LEMMA NextGroupLocal ==
    ASSUME NEW t, NEW f \in Searches, f.order \in GroupOrders, NextGroup(t, f)
    PROVE  \E l \in {"load", "check"}, h \in Searches :
                h.order \in GroupOrders /\ Goto(t, l) /\ SetFind(t, h)
  <1> DEFINE at == IF f.at = GroupCnt THEN 1 ELSE f.at + 1
             h == [f EXCEPT !.failedGroups = @ + 1, !.failedSubs = 0, !.bits = {},
                            !.seen = {}, !.at = at, !.group = f.order[at]]
  <1>1. at \in 1..GroupCnt
    BY GroupCntPositive DEF Searches
  <1>2. f.order[at] \in Groups
    BY <1>1 DEF GroupOrders
  <1>3. h \in Searches /\ h.order = f.order
    <2> HIDE DEF at
    <2>1. f.failedGroups + 1 \in Nat
      BY DEF Searches
    <2> QED  BY <1>1, <1>2, <2>1 DEF Searches
  <1>4. SetFind(t, h) /\ (Goto(t, "load") \/ Goto(t, "check"))
    BY DEF NextGroup
  <1> HIDE DEF h
  <1> QED  BY <1>3, <1>4

\* Trying the next subgroup leaves the thread searching, with its group order.
LEMMA NextSubgroupLocal ==
    ASSUME NEW t, NEW f \in Searches, f.order \in GroupOrders, NEW s, NextSubgroup(t, f, s)
    PROVE  \E l \in {"load", "check", "enter"}, h \in Searches :
                h.order \in GroupOrders /\ Goto(t, l) /\ SetFind(t, h)
  <1> DEFINE g == [f EXCEPT !.failedSubs = @ + 1, !.bits = @ \ {s}]
  <1>0. f.failedSubs + 1 \in Nat /\ f.bits \ {s} \in SUBSET SubGroups
    BY DEF Searches
  <1>1. g \in Searches /\ g.order = f.order
    BY <1>0 DEF Searches
  <1>2. [g EXCEPT !.seen = {}] \in Searches /\ [g EXCEPT !.seen = {}].order = f.order
    <2> HIDE DEF g
    <2> QED  BY <1>1 DEF Searches
  <1>3. \/ NextGroup(t, g)
        \/ SetFind(t, g) /\ Goto(t, "enter")
        \/ SetFind(t, [g EXCEPT !.seen = {}]) /\ Goto(t, "load")
    BY DEF NextSubgroup
  <1> HIDE DEF g
  <1>7. f.order \in GroupOrders
    OBVIOUS
  <1>4. CASE NextGroup(t, g)
    BY <1>1, <1>4, NextGroupLocal
  <1>5. CASE SetFind(t, g) /\ Goto(t, "enter")
    BY <1>1, <1>5
  <1>6. CASE SetFind(t, [g EXCEPT !.seen = {}]) /\ Goto(t, "load")
    BY <1>2, <1>6
  <1> QED  BY <1>3, <1>4, <1>5, <1>6

\* A step of thread t changes only what concerns t in pc, find and job.
LEMMA ThreadFrame ==
    ASSUME ThreadsOK, NEW t \in Threads,
           NEW l \in Labels, NEW f \in Searches, NEW j \in Jobs,
           pc' = [pc EXCEPT ![t] = l], find' = [find EXCEPT ![t] = f],
           job' = [job EXCEPT ![t] = j], LocatedAt(l, f, j)
    PROVE  ThreadsOK'
  <1>1. Located'
    <2> SUFFICES ASSUME NEW u \in Threads PROVE LocatedAt(pc'[u], find'[u], job'[u])
      BY DEF Located
    <2>1. CASE u = t
      BY <2>1 DEF ThreadsOK
    <2>2. CASE u # t
      <3>1. pc'[u] = pc[u] /\ find'[u] = find[u] /\ job'[u] = job[u]
        BY <2>2 DEF ThreadsOK
      <3> QED  BY <3>1 DEF ThreadsOK, Located
    <2> QED  BY <2>1, <2>2
  <1> QED  BY <1>1 DEF ThreadsOK

\* The local invariant holds of a graph that was just compiled.
LEMMA LocalInit == Init => LocalInv
  <1> SUFFICES ASSUME Init PROVE LocalInv
    OBVIOUS
  <1>1. NoSearch \in Searches
    BY GraphAssumption, GroupCntPositive DEF NoSearch, Searches, WellFormed
  <1>2. NoJob \in Jobs
    BY DEF NoJob, Jobs
  <1>3. SharedOK
    BY DEF Init, SharedOK, States, NoVarTask
  <1>4. ThreadsOK
    BY <1>1, <1>2 DEF Init, ThreadsOK, Located, LocatedAt, Labels, Outside, Owning, Searching,
                      OnTask, Waking, NoJob
  <1> QED  BY <1>3, <1>4 DEF LocalInv

\* What holds of thread t itself before the step.
LEMMA ThreadHere ==
    ASSUME ThreadsOK, NEW t \in Threads
    PROVE  /\ pc[t] \in Labels /\ find[t] \in Searches /\ job[t] \in Jobs
           /\ LocatedAt(pc[t], find[t], job[t])
           /\ pc' = pc => pc' = [pc EXCEPT ![t] = pc[t]]
           /\ find' = find => find' = [find EXCEPT ![t] = find[t]]
           /\ job' = job => job' = [job EXCEPT ![t] = job[t]]
  BY DEF ThreadsOK, Located

\* Having no job is a state a thread may be in.
LEMMA NoJobLocal ==
    ASSUME NEW s \in SubGroups
    PROVE  /\ NoJob \in Jobs /\ NoJob.own = FALSE
           /\ [NoJob EXCEPT !.sub = s] \in Jobs
           /\ [NoJob EXCEPT !.sub = s].sub = s /\ [NoJob EXCEPT !.sub = s].own = FALSE
           /\ [NoJob EXCEPT !.sub = s, !.own = TRUE] \in Jobs
           /\ [NoJob EXCEPT !.sub = s, !.own = TRUE].sub = s
           /\ [NoJob EXCEPT !.sub = s, !.own = TRUE].own = TRUE
  BY GraphAssumption DEF NoJob, Jobs, WellFormed

\* Leaving doThread, or searching on without a job.
LEMMA SearchLocated ==
    ASSUME NEW l \in Searching \cup Outside, NEW f, l \notin Outside => f.order \in GroupOrders,
           NEW j, j.own = FALSE
    PROVE  l \in Labels /\ LocatedAt(l, f, j)
  BY DEF LocatedAt, Searching, Outside, Owning, OnTask, Waking, Labels

\* Working in an owned subgroup.
LEMMA OwnerLocated ==
    ASSUME NEW l \in Owning \cup Waking, NEW f, f.order \in GroupOrders,
           NEW j, j.own = TRUE, j.sub \in SubGroups, l \in OnTask => j.task \in Tasks,
           l = "windup" => j.task \in SelfParallel /\ j.idx > 1
    PROVE  l \in Labels /\ LocatedAt(l, f, j)
  BY DEF LocatedAt, Searching, Outside, Owning, OnTask, Waking, Labels

\* Where a thread can go after it entered a subgroup, acquired an invocation or
\* finished a task.
LEMMA LabelsAfter ==
    ASSUME NEW j
    PROVE  /\ AfterTask(j) \in {"scan", "clear", "leave"}
           /\ Owned \in {"gather", "clear"}
           /\ AfterDone(j) \in {"notify", "gather", "scan", "clear", "leave"}
  BY DEF AfterTask, AfterDone, Owned

\* Every step keeps the types and what the locals of a thread hold at its place.
LEMMA LocalStep == LocalInv /\ [Next]_vars => LocalInv'
  <1> SUFFICES ASSUME LocalInv, [Next]_vars PROVE LocalInv'
    OBVIOUS
  <1> USE DEF LocalInv
  <1>0. CASE UNCHANGED vars
    BY <1>0 DEF SharedOK, ThreadsOK, Located, LocatedAt, vars, graphState
  <1>1. CASE Prepare
    <2>1. NoSearch \in Searches
      BY GraphAssumption, GroupCntPositive DEF NoSearch, Searches, WellFormed
    <2>2. SharedOK'
      <3>1. InitialPending \subseteq SubGroups
        BY GraphAssumption DEF InitialPending, WellFormed
      <3> QED  BY <1>1, <3>1 DEF Prepare, SharedOK, States
    <2>3. /\ pc' \in [Threads -> Labels]
          /\ find' \in [Threads -> Searches]
          /\ job' \in [Threads -> Jobs]
      BY <1>1, <2>1 DEF Prepare, ThreadsOK, Labels
    <2>4. Located'
      BY <1>1 DEF Prepare, AllExited, ThreadsOK, Located, LocatedAt, Outside, Owning,
                  Searching, OnTask, Waking
    <2> QED  BY <2>2, <2>3, <2>4 DEF ThreadsOK
  <1>2. ASSUME NEW t \in Threads, Step(t) PROVE LocalInv'
    <2> USE DEF SetFind, SetJob, Goto, graphState
    <2> DEFINE L == pc[t]  F == find[t]  J == job[t]
    <2>0. /\ L \in Labels /\ F \in Searches /\ J \in Jobs
          /\ LocatedAt(L, F, J)
          /\ pc' = pc => pc' = [pc EXCEPT ![t] = L]
          /\ find' = find => find' = [find EXCEPT ![t] = F]
          /\ job' = job => job' = [job EXCEPT ![t] = J]
      BY ThreadHere
    <2>s. L \notin Outside => F.order \in GroupOrders
      BY <2>0 DEF LocatedAt
    <2>o. L \in Owning => J.own = TRUE /\ J.sub \in SubGroups
      BY <2>0 DEF LocatedAt, Owning, Outside, Searching, Jobs
    <2>k. L \in OnTask => J.task \in Tasks
      BY <2>0 DEF LocatedAt
    <2>n. L \in Outside \cup Searching \cup {"piece", "announce"} => J.own = FALSE
      BY <2>0 DEF LocatedAt, Jobs
    <2>p. L \in Waking \cup {"piece", "announce"} => J.sub \in SubGroups
      BY <2>0 DEF LocatedAt, Waking, Outside, Searching
    <2>1. CASE CallDoThread(t)
      <3>1. PICK o \in GroupOrders : SetFind(t, [F EXCEPT !.order = o])
        BY <2>1 DEF CallDoThread
      <3>2. [F EXCEPT !.order = o] \in Searches /\ [F EXCEPT !.order = o].order = o
        BY <2>0 DEF Searches
      <3>3. J.own = FALSE
        BY <2>1, <2>n DEF CallDoThread, Outside
      <3>4. "load" \in Labels /\ LocatedAt("load", [F EXCEPT !.order = o], J)
        BY <3>2, <3>3, SearchLocated DEF Searching
      <3>5. ThreadsOK'
        BY <2>1, <2>0, <3>1, <3>2, <3>4, ThreadFrame DEF CallDoThread
      <3>6. SharedOK'
        BY <2>1 DEF CallDoThread, SharedOK
      <3> QED  BY <3>5, <3>6
    <2>2. CASE LoadPending(t)
      <3>1. PICK l \in {"load", "check", "enter", "look", "acquire"}, h \in Searches :
                    h.order \in GroupOrders /\ Goto(t, l) /\ SetFind(t, h)
        <4>1. F.order \in GroupOrders
          BY <2>2, <2>s DEF LoadPending, Outside
        <4>2. CASE NextGroup(t, F)
          BY <2>0, <4>1, <4>2, NextGroupLocal
        <4>3. CASE SetFind(t, [F EXCEPT !.bits = pending \cap Members(F.group)]) /\ Goto(t, "look")
          <5>1. pending \cap Members(F.group) \in SUBSET SubGroups
            BY DEF SharedOK
          <5>2. [F EXCEPT !.bits = pending \cap Members(F.group)] \in Searches
            BY <2>0, <5>1 DEF Searches
          <5>3. [F EXCEPT !.bits = pending \cap Members(F.group)].order = F.order
            BY <2>0 DEF Searches
          <5> QED  BY <4>1, <4>3, <5>2, <5>3
        <4> QED  BY <2>2, <4>2, <4>3 DEF LoadPending
      <3>2. J.own = FALSE
        BY <2>2, <2>n DEF LoadPending, Searching
      <3>3. l \in Labels /\ LocatedAt(l, h, J)
        BY <3>1, <3>2, SearchLocated DEF Searching
      <3>4. ThreadsOK'
        BY <2>2, <2>0, <3>1, <3>3, ThreadFrame DEF LoadPending
      <3>5. SharedOK'
        BY <2>2 DEF LoadPending, SharedOK
      <3> QED  BY <3>4, <3>5
    <2>3. CASE LoadExecuting(t)
      <3>1. PICK l \in {"load", "check", "enter", "look", "acquire"}, h \in Searches :
                    h.order \in GroupOrders /\ Goto(t, l) /\ SetFind(t, h)
        <4>1. F.order \in GroupOrders
          BY <2>3, <2>s DEF LoadExecuting, Outside
        <4>2. executing \cap Members(F.group) \in SUBSET SubGroups
          BY DEF SharedOK
        <4>3. [F EXCEPT !.seen = executing \cap Members(F.group)] \in Searches
          BY <2>0, <4>2 DEF Searches
        <4>4. [F EXCEPT !.seen = executing \cap Members(F.group)].order = F.order
          BY <2>0 DEF Searches
        <4> QED  BY <2>3, <4>1, <4>3, <4>4 DEF LoadExecuting
      <3>2. J.own = FALSE
        BY <2>3, <2>n DEF LoadExecuting, Searching
      <3>3. l \in Labels /\ LocatedAt(l, h, J)
        BY <3>1, <3>2, SearchLocated DEF Searching
      <3>4. ThreadsOK'
        BY <2>3, <2>0, <3>1, <3>3, ThreadFrame DEF LoadExecuting
      <3>5. SharedOK'
        BY <2>3 DEF LoadExecuting, SharedOK
      <3> QED  BY <3>4, <3>5
    <2>4. CASE EnterSubgroup(t)
      <3>1. PICK s \in F.bits : /\ executing' = executing \cup {s}
                                /\ SetJob(t, [NoJob EXCEPT !.sub = s, !.own = TRUE])
        BY <2>4 DEF EnterSubgroup
      <3>2. s \in SubGroups
        BY <2>0 DEF Searches
      <3>3. Found(F) \in Searches /\ Found(F).order = F.order
        BY <2>0 DEF Found, Searches
      <3>4. F.order \in GroupOrders
        BY <2>4, <2>s DEF EnterSubgroup, Outside
      <3>5. Owned \in Owning \cup Waking /\ Owned \notin OnTask /\ Owned # "windup"
        BY DEF Owned, Owning, Waking, OnTask
      <3>6. Owned \in Labels /\ LocatedAt(Owned, Found(F), [NoJob EXCEPT !.sub = s, !.own = TRUE])
        BY <3>2, <3>3, <3>4, <3>5, NoJobLocal, OwnerLocated
      <3>7. ThreadsOK'
        BY <2>4, <3>1, <3>2, <3>3, <3>6, NoJobLocal, ThreadFrame DEF EnterSubgroup
      <3>8. SharedOK'
        BY <2>4, <3>1, <3>2 DEF EnterSubgroup, SharedOK
      <3> QED  BY <3>7, <3>8
    <2>5. CASE EnterFails(t)
      <3>1. PICK l \in {"load", "check", "enter", "look", "acquire"}, h \in Searches :
                    h.order \in GroupOrders /\ Goto(t, l) /\ SetFind(t, h)
        <4>1. PICK s \in F.bits, now \in {F.seen, executing \cap Members(F.group)} :
                    \/ SetFind(t, [F EXCEPT !.seen = now]) /\ Goto(t, "acquire")
                    \/ NextSubgroup(t, [F EXCEPT !.seen = now], s)
          <5>1. PICK s \in F.bits :
                    LET now == IF F.seen \cap Excluded[s] # {} THEN F.seen
                               ELSE executing \cap Members(F.group)
                    IN  \/ SetFind(t, [F EXCEPT !.seen = now]) /\ Goto(t, "acquire")
                        \/ NextSubgroup(t, [F EXCEPT !.seen = now], s)
            BY <2>5 DEF EnterFails
          <5>2. CASE F.seen \cap Excluded[s] # {}
            BY <5>1, <5>2
          <5>3. CASE F.seen \cap Excluded[s] = {}
            BY <5>1, <5>3
          <5> QED  BY <5>2, <5>3
        <4>5. now \in SUBSET SubGroups
          BY <2>0 DEF SharedOK, Searches
        <4>2. F.order \in GroupOrders
          BY <2>5, <2>s DEF EnterFails, Outside
        <4>3. /\ [F EXCEPT !.seen = now] \in Searches
              /\ [F EXCEPT !.seen = now].order \in GroupOrders
          BY <2>0, <4>2, <4>5 DEF Searches
        <4> QED  BY <4>1, <4>3, NextSubgroupLocal
      <3>2. J.own = FALSE
        BY <2>5, <2>n DEF EnterFails, Searching
      <3>3. l \in Labels /\ LocatedAt(l, h, J)
        BY <3>1, <3>2, SearchLocated DEF Searching
      <3>4. ThreadsOK'
        BY <2>5, <2>0, <3>1, <3>3, ThreadFrame DEF EnterFails
      <3>5. SharedOK'
        BY <2>5 DEF EnterFails, SharedOK
      <3> QED  BY <3>4, <3>5
    <2>6. CASE AcquireVarTask(t)
      <3>1. PICK s \in F.bits :
                \/ NextSubgroup(t, F, s) /\ UNCHANGED <<varTask, job>>
                \/ /\ varTask[s].cnt > 0
                   /\ varTask' = [varTask EXCEPT ![s] = OneLess(varTask[s])]
                   /\ SetJob(t, [NoJob EXCEPT !.sub = s, !.task = varTask[s].task,
                                              !.idx = varTask[s].cnt - 1])
                   /\ Goto(t, Piece(varTask[s].cnt))
                   /\ UNCHANGED find
        BY <2>6 DEF AcquireVarTask
      <3>2. s \in SubGroups /\ F.order \in GroupOrders /\ varTask[s] \in [task : Nat, cnt : Nat]
        BY <2>6, <2>0, <2>s DEF AcquireVarTask, Outside, Searches, SharedOK
      <3>3. CASE NextSubgroup(t, F, s) /\ UNCHANGED <<varTask, job>>
        <4>1. PICK l \in {"load", "check", "enter"}, h \in Searches :
                        h.order \in GroupOrders /\ Goto(t, l) /\ SetFind(t, h)
          BY <2>0, <3>2, <3>3, NextSubgroupLocal
        <4>2. J.own = FALSE
          BY <2>6, <2>n DEF AcquireVarTask, Searching
        <4>3. l \in Labels /\ LocatedAt(l, h, J)
          BY <4>1, <4>2, SearchLocated DEF Searching
        <4>4. ThreadsOK'
          BY <2>0, <3>3, <4>1, <4>3, ThreadFrame
        <4>5. SharedOK'
          BY <2>6, <3>3 DEF AcquireVarTask, SharedOK
        <4> QED  BY <4>4, <4>5
      <3>4. CASE /\ varTask[s].cnt > 0
                 /\ varTask' = [varTask EXCEPT ![s] = OneLess(varTask[s])]
                 /\ SetJob(t, [NoJob EXCEPT !.sub = s, !.task = varTask[s].task,
                                            !.idx = varTask[s].cnt - 1])
                 /\ Goto(t, Piece(varTask[s].cnt))
                 /\ UNCHANGED find
        <4> DEFINE n == [NoJob EXCEPT !.sub = s, !.task = varTask[s].task,
                                      !.idx = varTask[s].cnt - 1]
        <4>1. varTask[s].task \in SelfParallel /\ varTask[s].task \in Tasks
          BY <3>2, <3>4, GraphAssumption DEF SharedOK, WellFormed
        <4>2. varTask[s].cnt - 1 \in Nat /\ varTask[s].task \in Nat /\ s \in Nat
          BY <3>2, <3>4, GraphAssumption DEF WellFormed
        <4>3. n \in Jobs /\ n.own = FALSE /\ n.sub = s /\ n.task = varTask[s].task
          BY <4>2 DEF NoJob, Jobs
        <4>4. Piece(varTask[s].cnt) \in {"gather", "piece"}
          BY DEF Piece
        <4>5. Piece(varTask[s].cnt) \in Labels /\ LocatedAt(Piece(varTask[s].cnt), F, n)
          BY <3>2, <4>1, <4>3, <4>4 DEF Labels, LocatedAt, Owning, Outside, Searching, OnTask,
                                        Waking
        <4>6. ThreadsOK'
          BY <2>0, <3>4, <4>3, <4>5, ThreadFrame
        <4>7. /\ OneLess(varTask[s]) \in [task : Nat, cnt : Nat]
              /\ OneLess(varTask[s]).cnt > 0 => OneLess(varTask[s]).task = varTask[s].task
          BY <3>2, <3>4 DEF OneLess, NoVarTask
        <4>8. SharedOK'
          BY <2>6, <3>2, <3>4, <4>1, <4>7 DEF AcquireVarTask, SharedOK
        <4> QED  BY <4>6, <4>8
      <3> QED  BY <3>1, <3>3, <3>4
    <2>7. CASE GatherThreads(t)
      <3>1. PICK w \in SUBSET sleeping : SetJob(t, [J EXCEPT !.wake = w])
        BY <2>7 DEF GatherThreads
      <3>2. [J EXCEPT !.wake = w] \in Jobs
        BY <2>0 DEF Jobs, SharedOK
      <3>3. "wake" \in Labels /\ LocatedAt("wake", F, [J EXCEPT !.wake = w])
        BY <2>7, <2>0 DEF GatherThreads, Labels, LocatedAt, Owning, Outside, Searching, OnTask,
                          Waking, Jobs
      <3>4. ThreadsOK'
        BY <2>7, <2>0, <3>1, <3>2, <3>3, ThreadFrame DEF GatherThreads
      <3>5. SharedOK'
        BY <2>7 DEF GatherThreads, SharedOK
      <3> QED  BY <3>4, <3>5
    <2>8. CASE WakeThreads(t)
      <3> DEFINE l == IF J.own THEN "clear" ELSE "piece"
      <3>2. [J EXCEPT !.wake = {}] \in Jobs
        BY <2>0 DEF Jobs
      <3>3. l \in Labels /\ LocatedAt(l, F, [J EXCEPT !.wake = {}])
        BY <2>8, <2>0 DEF WakeThreads, Labels, LocatedAt, Owning, Outside, Searching, OnTask,
                          Waking, Jobs
      <3>4. ThreadsOK'
        BY <2>8, <2>0, <3>2, <3>3, ThreadFrame DEF WakeThreads
      <3>5. SharedOK'
        BY <2>8 DEF WakeThreads, SharedOK
      <3> QED  BY <3>4, <3>5
    <2>9. CASE ClearPending(t)
      <3>1. J.own = TRUE /\ J.sub \in SubGroups /\ F.order \in GroupOrders
        BY <2>9, <2>o, <2>s DEF ClearPending, Owning, Outside
      <3> DEFINE j == [NoJob EXCEPT !.sub = J.sub, !.own = TRUE]
      <3>2. j \in Jobs /\ j.own = TRUE /\ j.sub = J.sub
        BY <3>1, NoJobLocal
      <3>6. SetJob(t, j)
        BY <2>9 DEF ClearPending
      <3> HIDE DEF j
      <3>3. "scan" \in Labels /\ LocatedAt("scan", F, j)
        BY <3>1, <3>2, OwnerLocated DEF Owning, OnTask
      <3>4. ThreadsOK'
        BY <2>9, <2>0, <3>2, <3>3, <3>6, ThreadFrame DEF ClearPending
      <3>5. SharedOK'
        BY <2>9 DEF ClearPending, SharedOK
      <3> QED  BY <3>4, <3>5
    <2>10. CASE PassTask(t)
      <3>1. PICK k \in Tasks : /\ Scans(t, k)
                               /\ SetJob(t, [J EXCEPT !.scanned = @ \cup {k}])
                               /\ Goto(t, AfterTask([J EXCEPT !.scanned = @ \cup {k}]))
        BY <2>10 DEF PassTask
      <3> DEFINE j == [J EXCEPT !.scanned = @ \cup {k}]
      <3>2. J.own = TRUE /\ J.sub \in SubGroups /\ F.order \in GroupOrders
        BY <3>1, <2>o, <2>s DEF Scans, Owning, Outside
      <3>3. j \in Jobs /\ j.own = TRUE /\ j.sub \in SubGroups
        BY <2>0, <3>2 DEF Jobs
      <3>4. AfterTask(j) \in Labels /\ LocatedAt(AfterTask(j), F, j)
        <4> HIDE DEF j
        <4>1. AfterTask(j) \in Owning /\ AfterTask(j) \notin OnTask
          BY LabelsAfter DEF Owning, OnTask
        <4> QED  BY <3>2, <3>3, <4>1, OwnerLocated DEF OnTask
      <3>5. ThreadsOK'
        BY <2>10, <2>0, <3>1, <3>3, <3>4, ThreadFrame DEF PassTask
      <3>6. SharedOK'
        BY <2>10 DEF PassTask, SharedOK
      <3> QED  BY <3>5, <3>6
    <2>11. CASE StartTask(t)
      <3>1. PICK k \in Tasks, n \in Nat :
                /\ Scans(t, k)
                /\ state' = [state EXCEPT ![k] = "EXECUTING"]
                /\ \/ SetJob(t, Take(t, k)) /\ Goto(t, "run")
                   \/ /\ n >= 2 /\ k \in SelfParallel
                      /\ SetJob(t, [Take(t, k) EXCEPT !.idx = n]) /\ Goto(t, "windup")
        <4>1. \A m \in Tasks : TaskNum[m] \subseteq Nat
          BY GraphAssumption DEF WellFormed
        <4>2. PICK k \in Tasks \ SubGraphEnds :
                /\ Scans(t, k)
                /\ state' = [state EXCEPT ![k] = "EXECUTING"]
                /\ \E n \in TaskNum[k] :
                    IF n < 2 \/ k \notin SelfParallel
                    THEN SetJob(t, Take(t, k)) /\ Goto(t, "run")
                    ELSE SetJob(t, [Take(t, k) EXCEPT !.idx = n]) /\ Goto(t, "windup")
          BY <2>11, Zenon DEF StartTask
        <4> HIDE DEF SetJob, Goto
        <4>3. PICK n \in TaskNum[k] :
                    IF n < 2 \/ k \notin SelfParallel
                    THEN SetJob(t, Take(t, k)) /\ Goto(t, "run")
                    ELSE SetJob(t, [Take(t, k) EXCEPT !.idx = n]) /\ Goto(t, "windup")
          BY <4>2, Zenon
        <4>4. n \in Nat /\ k \in Tasks /\ (~(n < 2) => n >= 2)
          BY <4>1, <4>2, <4>3
        <4> QED  BY <4>2, <4>3, <4>4
      <3>2. J.own = TRUE /\ J.sub \in SubGroups /\ F.order \in GroupOrders
        BY <3>1, <2>o, <2>s DEF Scans, Owning, Outside
      <3>3. n \in Nat /\ k \in Nat
        BY GraphAssumption DEF WellFormed
      <3>4. /\ Take(t, k) \in Jobs /\ Take(t, k).own = TRUE /\ Take(t, k).sub \in SubGroups
            /\ Take(t, k).task = k
        BY <2>0, <3>2, <3>3 DEF Jobs, Take
      <3>5. /\ [Take(t, k) EXCEPT !.idx = n] \in Jobs /\ [Take(t, k) EXCEPT !.idx = n].own = TRUE
            /\ [Take(t, k) EXCEPT !.idx = n].sub \in SubGroups
            /\ [Take(t, k) EXCEPT !.idx = n].task = k /\ [Take(t, k) EXCEPT !.idx = n].idx = n
        BY <3>3, <3>4 DEF Jobs
      <3>6. ThreadsOK'
        <4>1. CASE SetJob(t, Take(t, k)) /\ Goto(t, "run")
          <5>1. "run" \in Labels /\ LocatedAt("run", F, Take(t, k))
            BY <3>2, <3>4, OwnerLocated DEF Owning
          <5> QED  BY <2>11, <2>0, <3>4, <4>1, <5>1, ThreadFrame DEF StartTask
        <4>2. CASE /\ n >= 2 /\ k \in SelfParallel
                   /\ SetJob(t, [Take(t, k) EXCEPT !.idx = n]) /\ Goto(t, "windup")
          <5> DEFINE j == [Take(t, k) EXCEPT !.idx = n]
          <5>1. j \in Jobs /\ j.own = TRUE /\ j.sub \in SubGroups /\ j.task = k /\ j.idx = n
            BY <3>5
          <5>2. SetJob(t, j) /\ find' = find
            BY <2>11, <4>2 DEF StartTask
          <5> HIDE DEF j
          <5>3. "windup" \in Labels /\ LocatedAt("windup", F, j)
            <6>1. j.task \in Tasks /\ j.task \in SelfParallel /\ j.idx > 1
              BY <3>3, <4>2, <5>1
            <6> QED  BY <3>2, <5>1, <6>1, OwnerLocated DEF Owning
          <5> QED  BY <2>0, <4>2, <5>1, <5>2, <5>3, ThreadFrame
        <4> QED  BY <3>1, <4>1, <4>2
      <3>7. SharedOK'
        BY <2>11, <3>1 DEF StartTask, SharedOK, States
      <3> QED  BY <3>6, <3>7
    <2>12. CASE WindUpVarTask(t)
      <3>1. J.sub \in SubGroups /\ F.order \in GroupOrders
        BY <2>12, <2>o, <2>s DEF WindUpVarTask, Owning, Outside
      <3>2. J.task \in SelfParallel /\ J.idx \in Nat /\ J.idx > 1 /\ J.task \in Nat
        BY <2>12, <2>0 DEF WindUpVarTask, LocatedAt, Jobs
      <3> DEFINE j == [NoJob EXCEPT !.sub = J.sub]
      <3>6. j \in Jobs /\ j.own = FALSE /\ j.sub = J.sub
        BY <3>1, NoJobLocal
      <3>7. SetJob(t, j)
        BY <2>12 DEF WindUpVarTask
      <3> HIDE DEF j
      <3>3. "announce" \in Labels /\ LocatedAt("announce", F, j)
        BY <3>1, <3>6 DEF Labels, LocatedAt, Owning, Outside, Searching, OnTask, Waking
      <3>4. ThreadsOK'
        BY <2>12, <2>0, <3>3, <3>6, <3>7, ThreadFrame DEF WindUpVarTask
      <3>5. SharedOK'
        BY <2>12, <3>1, <3>2 DEF WindUpVarTask, SharedOK
      <3> QED  BY <3>4, <3>5
    <2>13. CASE AnnounceVarTask(t)
      <3>1. J.sub \in SubGroups /\ F.order \in GroupOrders
        BY <2>13, <2>o, <2>p, <2>s DEF AnnounceVarTask, Owning, Outside
      <3>2. "load" \in Labels /\ LocatedAt("load", F, NoJob)
        BY <3>1, NoJobLocal, SearchLocated DEF Searching
      <3>3. ThreadsOK'
        BY <2>13, <2>0, <3>1, <3>2, NoJobLocal, ThreadFrame DEF AnnounceVarTask
      <3>4. SharedOK'
        BY <2>13, <3>1 DEF AnnounceVarTask, SharedOK
      <3> QED  BY <3>3, <3>4
    <2>14. CASE FinishVarTask(t)
      <3>1. J.sub \in SubGroups /\ F.order \in GroupOrders /\ J.task \in Tasks
        BY <2>14, <2>p, <2>s, <2>k DEF FinishVarTask, OnTask, Outside
      <3>2. ThreadsOK'
        <4>1. CASE /\ SetJob(t, [J EXCEPT !.own = TRUE, !.fresh = TRUE])
                   /\ SetFind(t, Found(F)) /\ Goto(t, "done")
          <5>1. Found(F) \in Searches /\ Found(F).order \in GroupOrders
            BY <2>0, <3>1 DEF Found, Searches
          <5> DEFINE j == [J EXCEPT !.own = TRUE, !.fresh = TRUE]
          <5>2. j \in Jobs /\ j.own = TRUE /\ j.sub = J.sub /\ j.task = J.task
            BY <2>0 DEF Jobs
          <5> HIDE DEF j
          <5>3. "done" \in Labels /\ LocatedAt("done", Found(F), j)
            BY <3>1, <5>1, <5>2, OwnerLocated DEF Owning
          <5> QED  BY <4>1, <5>1, <5>2, <5>3, ThreadFrame DEF j
        <4>2. CASE SetJob(t, NoJob) /\ NextSubgroup(t, F, J.sub)
          <5>1. PICK l \in {"load", "check", "enter"}, h \in Searches :
                        h.order \in GroupOrders /\ Goto(t, l) /\ SetFind(t, h)
            BY <2>0, <3>1, <4>2, NextSubgroupLocal
          <5>2. l \in Labels /\ LocatedAt(l, h, NoJob)
            BY <3>1, <5>1, NoJobLocal, SearchLocated DEF Searching
          <5> QED  BY <3>1, <4>2, <5>1, <5>2, NoJobLocal, ThreadFrame
        <4> QED  BY <2>14, <4>1, <4>2 DEF FinishVarTask
      <3>3. SharedOK'
        BY <2>14, <3>1 DEF FinishVarTask, SharedOK
      <3> QED  BY <3>2, <3>3
    <2>15. CASE LeaveSubgroup(t)
      <3>1. J.sub \in SubGroups /\ F.order \in GroupOrders
        BY <2>15, <2>o, <2>p, <2>s DEF LeaveSubgroup, Owning, Outside
      <3>2. "load" \in Labels /\ LocatedAt("load", F, NoJob)
        BY <3>1, NoJobLocal, SearchLocated DEF Searching
      <3>3. ThreadsOK'
        BY <2>15, <2>0, <3>1, <3>2, NoJobLocal, ThreadFrame DEF LeaveSubgroup
      <3>4. SharedOK'
        BY <2>15, <3>1 DEF LeaveSubgroup, SharedOK
      <3> QED  BY <3>3, <3>4
    <2>16. CASE MarkDone(t)
      <3>1. J.own = TRUE /\ J.sub \in SubGroups /\ F.order \in GroupOrders /\ J.task \in Tasks
        BY <2>16, <2>o, <2>s, <2>k DEF MarkDone, Owning, OnTask, Outside
      <3>2. NextTasks[J.task] \in SUBSET Tasks
        BY <3>1, GraphAssumption DEF WellFormed
      <3> DEFINE j == [J EXCEPT !.todo = NextTasks[J.task]]
      <3>3. j \in Jobs /\ j.own = TRUE /\ j.sub = J.sub /\ j.task = J.task
        BY <2>0, <3>1, <3>2 DEF Jobs
      <3>4. AfterDone(j) \in Labels /\ LocatedAt(AfterDone(j), F, j)
        <4> HIDE DEF j
        <4>1. AfterDone(j) \in Owning \cup Waking /\ AfterDone(j) # "windup"
          BY LabelsAfter DEF Owning, Waking
        <4> QED  BY <3>1, <3>3, <4>1, OwnerLocated
      <3>7. SetJob(t, j) /\ Goto(t, AfterDone(j)) /\ find' = find
        BY <2>16, <3>2 DEF MarkDone
      <3> HIDE DEF j
      <3>5. ThreadsOK'
        BY <2>0, <3>3, <3>4, <3>7, ThreadFrame
      <3>6. SharedOK'
        BY <2>16, <3>1, <3>2 DEF MarkDone, SharedOK, States
      <3> QED  BY <3>5, <3>6
    <2>17. CASE NotifyNext(t)
      <3>1. J.own = TRUE /\ J.sub \in SubGroups /\ F.order \in GroupOrders /\ J.task \in Tasks
        BY <2>17, <2>o, <2>s, <2>k DEF NotifyNext, Owning, OnTask, Outside
      <3>2. PICK n \in J.todo, P \in SUBSET SubGroups :
                /\ deps' = [deps EXCEPT ![n] = IF Target(n) = 0 THEN 0 ELSE deps[n] + 1]
                /\ state' \in {state, [state EXCEPT ![n] = "PENDING"]}
                /\ SetJob(t, [J EXCEPT !.todo = @ \ {n}, !.publish = P])
                /\ Goto(t, AfterDone([J EXCEPT !.todo = @ \ {n}, !.publish = P]))
        <4>1. \A n \in J.todo : J.publish \cup {SubGroupOf[n]} \in SUBSET SubGroups
          BY <2>0, GraphAssumption DEF Jobs, WellFormed
        <4>2. J.publish \in SUBSET SubGroups
          BY <2>0 DEF Jobs
        <4> QED  BY <2>17, <4>1, <4>2 DEF NotifyNext
      <3> DEFINE j == [J EXCEPT !.todo = @ \ {n}, !.publish = P]
      <3>3. j \in Jobs /\ j.own = TRUE /\ j.sub = J.sub /\ j.task = J.task
        BY <2>0, <3>1 DEF Jobs
      <3>4. AfterDone(j) \in Labels /\ LocatedAt(AfterDone(j), F, j)
        <4> HIDE DEF j
        <4>1. AfterDone(j) \in Owning \cup Waking /\ AfterDone(j) # "windup"
          BY LabelsAfter DEF Owning, Waking
        <4> QED  BY <3>1, <3>3, <4>1, OwnerLocated
      <3>7. SetJob(t, j) /\ Goto(t, AfterDone(j)) /\ find' = find
        BY <2>17, <3>2 DEF NotifyNext
      <3> HIDE DEF j
      <3>5. ThreadsOK'
        BY <2>0, <3>3, <3>4, <3>7, ThreadFrame
      <3>6. SharedOK'
        BY <2>17, <3>1, <3>2, <2>0 DEF NotifyNext, SharedOK, States, Jobs
      <3> QED  BY <3>5, <3>6
    <2>18. CASE PublishGroup(t)
      <3>1. J.own = TRUE /\ J.sub \in SubGroups /\ F.order \in GroupOrders /\ J.task \in Tasks
        BY <2>18, <2>o, <2>s, <2>k DEF PublishGroup, Owning, OnTask, Outside
      <3>2. PICK g \in Groups :
                /\ pending' = pending \cup (J.publish \cap Members(g))
                /\ SetJob(t, [J EXCEPT !.publish = @ \ Members(g)])
                /\ Goto(t, AfterDone([J EXCEPT !.publish = @ \ Members(g)]))
        BY <2>18 DEF PublishGroup
      <3> DEFINE j == [J EXCEPT !.publish = @ \ Members(g)]
      <3>3. j \in Jobs /\ j.own = TRUE /\ j.sub = J.sub /\ j.task = J.task
        BY <2>0, <3>1 DEF Jobs
      <3>4. AfterDone(j) \in Labels /\ LocatedAt(AfterDone(j), F, j)
        <4> HIDE DEF j
        <4>1. AfterDone(j) \in Owning \cup Waking /\ AfterDone(j) # "windup"
          BY LabelsAfter DEF Owning, Waking
        <4> QED  BY <3>1, <3>3, <4>1, OwnerLocated
      <3>7. SetJob(t, j) /\ Goto(t, AfterDone(j)) /\ find' = find
        BY <2>18, <3>2 DEF PublishGroup
      <3> HIDE DEF j
      <3>5. ThreadsOK'
        BY <2>0, <3>3, <3>4, <3>7, ThreadFrame
      <3>6. SharedOK'
        BY <2>18, <3>1, <3>2, <2>0 DEF PublishGroup, SharedOK, States, Members
      <3> QED  BY <3>5, <3>6
    <2>19. CASE EnterSubGraph(t)
      <3>1. PICK g \in SubGraphs, d \in SUBSET Tasks, l \in {"done", "skip", "reset"} :
                /\ Scans(t, Entry[g]) /\ Goto(t, l)
                /\ \/ SetJob(t, Take(t, Entry[g]))
                   \/ SetJob(t, [Take(t, Entry[g]) EXCEPT !.todo = d])
                /\ \E n \in Nat :
                       remaining' = [remaining EXCEPT ![g] = IF n = 0 THEN -2 ELSE n - 1]
        <4>1. PICK g \in SubGraphs : /\ Scans(t, Entry[g])
                /\ \E n \in IF remaining[g] < 0 THEN TaskNum[Entry[g]] ELSE {remaining[g]} :
                    /\ remaining' = [remaining EXCEPT ![g] = IF n = 0 THEN -2 ELSE n - 1]
                    /\ \/ SetJob(t, Take(t, Entry[g])) /\ Goto(t, "done")
                       \/ /\ SetJob(t, [Take(t, Entry[g]) EXCEPT !.todo = Body[g]])
                          /\ Goto(t, "skip") \/ Goto(t, "reset")
          BY <2>19 DEF EnterSubGraph
        <4>2. /\ Body[g] \in SUBSET Tasks /\ TaskNum[Entry[g]] \subseteq Nat
              /\ remaining[g] \in Int
          BY GraphAssumption DEF SharedOK, WellFormed
        <4>3. \A n \in IF remaining[g] < 0 THEN TaskNum[Entry[g]] ELSE {remaining[g]} : n \in Nat
          BY <4>2
        <4> QED  BY <4>1, <4>2, <4>3
      <3>2. J.own = TRUE /\ J.sub \in SubGroups /\ F.order \in GroupOrders
        BY <3>1, <2>o, <2>s DEF Scans, Owning, Outside
      <3>3. Entry[g] \in Tasks /\ Entry[g] \in Nat
        BY GraphAssumption DEF WellFormed
      <3>4. PICK j \in Jobs : j.own = TRUE /\ j.sub = J.sub /\ j.task = Entry[g] /\ SetJob(t, j)
        <4>1. /\ Take(t, Entry[g]) \in Jobs /\ Take(t, Entry[g]).own = TRUE
              /\ Take(t, Entry[g]).sub = J.sub /\ Take(t, Entry[g]).task = Entry[g]
          BY <2>0, <3>2, <3>3 DEF Jobs, Take
        <4>2. /\ [Take(t, Entry[g]) EXCEPT !.todo = d] \in Jobs
              /\ [Take(t, Entry[g]) EXCEPT !.todo = d].own = TRUE
              /\ [Take(t, Entry[g]) EXCEPT !.todo = d].sub = J.sub
              /\ [Take(t, Entry[g]) EXCEPT !.todo = d].task = Entry[g]
          BY <4>1 DEF Jobs
        <4> QED  BY <3>1, <4>1, <4>2
      <3>5. l \in Labels /\ LocatedAt(l, F, j)
        BY <3>1, <3>2, <3>3, <3>4, OwnerLocated DEF Owning
      <3>6. ThreadsOK'
        BY <2>19, <2>0, <3>1, <3>4, <3>5, ThreadFrame DEF EnterSubGraph
      <3>7. SharedOK'
        BY <2>19, <3>1 DEF EnterSubGraph, SharedOK
      <3> QED  BY <3>6, <3>7
    <2>20. CASE SkipTask(t)
      <3>1. J.own = TRUE /\ J.sub \in SubGroups /\ F.order \in GroupOrders /\ J.task \in Tasks
        BY <2>20, <2>o, <2>s, <2>k DEF SkipTask, Owning, OnTask, Outside
      <3>2. PICK k \in J.todo : /\ SetJob(t, [J EXCEPT !.todo = @ \ {k}])
                                /\ state' = [state EXCEPT ![k] = "DONE"]
        BY <2>20 DEF SkipTask
      <3>3. /\ [J EXCEPT !.todo = @ \ {k}] \in Jobs /\ [J EXCEPT !.todo = @ \ {k}].own = TRUE
            /\ [J EXCEPT !.todo = @ \ {k}].sub = J.sub
            /\ [J EXCEPT !.todo = @ \ {k}].task = J.task
        BY <2>0, <3>1 DEF Jobs
      <3>4. L \in Labels /\ LocatedAt(L, F, [J EXCEPT !.todo = @ \ {k}])
        BY <2>20, <3>1, <3>3, OwnerLocated DEF SkipTask, Owning
      <3>5. ThreadsOK'
        BY <2>20, <2>0, <3>2, <3>3, <3>4, ThreadFrame DEF SkipTask
      <3>6. SharedOK'
        BY <2>20, <3>2 DEF SkipTask, SharedOK, States, Reset
      <3> QED  BY <3>5, <3>6
    <2>21. CASE SkipEnds(t)
      <3>1. J.own = TRUE /\ J.sub \in SubGroups /\ F.order \in GroupOrders
        BY <2>21, <2>o, <2>s DEF SkipEnds, Owning, Outside
      <3>2. PICK g \in SubGraphs : SetJob(t, [J EXCEPT !.task = Exit[g]])
        BY <2>21 DEF SkipEnds
      <3>3. Exit[g] \in Tasks /\ Exit[g] \in Nat
        BY GraphAssumption DEF WellFormed
      <3>4. /\ [J EXCEPT !.task = Exit[g]] \in Jobs /\ [J EXCEPT !.task = Exit[g]].own = TRUE
            /\ [J EXCEPT !.task = Exit[g]].sub = J.sub
            /\ [J EXCEPT !.task = Exit[g]].task = Exit[g]
        BY <2>0, <3>1, <3>3 DEF Jobs
      <3>5. "done" \in Labels /\ LocatedAt("done", F, [J EXCEPT !.task = Exit[g]])
        BY <3>1, <3>3, <3>4, OwnerLocated DEF Owning
      <3>6. ThreadsOK'
        BY <2>21, <2>0, <3>2, <3>4, <3>5, ThreadFrame DEF SkipEnds
      <3>7. SharedOK'
        BY <2>21 DEF SkipEnds, SharedOK, States
      <3> QED  BY <3>6, <3>7
    <2>22. CASE LeaveSubGraph(t)
      <3>1. PICK g \in SubGraphs, d \in SUBSET Tasks, l \in {"done", "reset"} :
                /\ Scans(t, Exit[g]) /\ Goto(t, l)
                /\ \/ SetJob(t, Take(t, Exit[g]))
                   \/ SetJob(t, [Take(t, Exit[g]) EXCEPT !.todo = d])
                /\ remaining' \in {remaining, [remaining EXCEPT ![g] = -2]}
        <4>1. \A g \in SubGraphs : Body[g] \in SUBSET Tasks
          BY GraphAssumption DEF WellFormed
        <4> QED  BY <2>22, <4>1 DEF LeaveSubGraph
      <3>2. J.own = TRUE /\ J.sub \in SubGroups /\ F.order \in GroupOrders
        BY <3>1, <2>o, <2>s DEF Scans, Owning, Outside
      <3>3. Exit[g] \in Tasks /\ Exit[g] \in Nat
        BY GraphAssumption DEF WellFormed
      <3>4. PICK j \in Jobs : j.own = TRUE /\ j.sub = J.sub /\ j.task = Exit[g] /\ SetJob(t, j)
        <4>1. /\ Take(t, Exit[g]) \in Jobs /\ Take(t, Exit[g]).own = TRUE
              /\ Take(t, Exit[g]).sub = J.sub /\ Take(t, Exit[g]).task = Exit[g]
          BY <2>0, <3>2, <3>3 DEF Jobs, Take
        <4>2. /\ [Take(t, Exit[g]) EXCEPT !.todo = d] \in Jobs
              /\ [Take(t, Exit[g]) EXCEPT !.todo = d].own = TRUE
              /\ [Take(t, Exit[g]) EXCEPT !.todo = d].sub = J.sub
              /\ [Take(t, Exit[g]) EXCEPT !.todo = d].task = Exit[g]
          BY <4>1 DEF Jobs
        <4> QED  BY <3>1, <4>1, <4>2
      <3>5. l \in Labels /\ LocatedAt(l, F, j)
        BY <3>1, <3>2, <3>3, <3>4, OwnerLocated DEF Owning
      <3>6. ThreadsOK'
        BY <2>22, <2>0, <3>1, <3>4, <3>5, ThreadFrame DEF LeaveSubGraph
      <3>7. SharedOK'
        BY <2>22, <3>1 DEF LeaveSubGraph, SharedOK
      <3> QED  BY <3>6, <3>7
    <2>23. CASE ResetTask(t)
      <3>1. J.own = TRUE /\ J.sub \in SubGroups /\ F.order \in GroupOrders /\ J.task \in Tasks
        BY <2>23, <2>o, <2>s, <2>k DEF ResetTask, Owning, OnTask, Outside
      <3>2. PICK k \in J.todo : SetJob(t, [J EXCEPT !.todo = @ \ {k}]) /\ Reset(k)
        BY <2>23 DEF ResetTask
      <3>3. /\ [J EXCEPT !.todo = @ \ {k}] \in Jobs /\ [J EXCEPT !.todo = @ \ {k}].own = TRUE
            /\ [J EXCEPT !.todo = @ \ {k}].sub = J.sub
            /\ [J EXCEPT !.todo = @ \ {k}].task = J.task
        BY <2>0, <3>1 DEF Jobs
      <3>4. L \in Labels /\ LocatedAt(L, F, [J EXCEPT !.todo = @ \ {k}])
        BY <2>23, <3>1, <3>3, OwnerLocated DEF ResetTask, Owning
      <3>5. ThreadsOK'
        BY <2>23, <2>0, <3>2, <3>3, <3>4, ThreadFrame DEF ResetTask
      <3>6. SharedOK'
        BY <2>23, <3>2 DEF ResetTask, SharedOK, States, Reset
      <3> QED  BY <3>5, <3>6
    <2>24. CASE ResetExit(t)
      <3>1. J.own = TRUE /\ J.sub \in SubGroups /\ F.order \in GroupOrders /\ J.task \in Tasks
        BY <2>24, <2>o, <2>s, <2>k DEF ResetExit, Owning, OnTask, Outside
      <3>2. PICK g \in SubGraphs, l \in {"done", "restart"} : Reset(Exit[g]) /\ Goto(t, l)
        BY <2>24 DEF ResetExit
      <3>3. l \in Labels /\ LocatedAt(l, F, J)
        BY <3>1, <3>2, OwnerLocated DEF Owning
      <3>4. ThreadsOK'
        BY <2>24, <2>0, <3>2, <3>3, ThreadFrame DEF ResetExit
      <3>5. SharedOK'
        BY <2>24, <3>2 DEF ResetExit, SharedOK, States, Reset
      <3> QED  BY <3>4, <3>5
    <2>25. CASE RestartSubGraph(t)
      <3>1. J.own = TRUE /\ J.sub \in SubGroups /\ F.order \in GroupOrders /\ J.task \in Tasks
        BY <2>25, <2>o, <2>s, <2>k DEF RestartSubGraph, Owning, OnTask, Outside
      <3>2. PICK g \in SubGraphs : SetJob(t, [J EXCEPT !.publish = {SubGroupOf[Entry[g]]}])
        BY <2>25 DEF RestartSubGraph
      <3> DEFINE P == {SubGroupOf[Entry[g]]}
      <3>3. P \in SUBSET SubGroups
        <4>1. Entry[g] \in Tasks
          BY GraphAssumption DEF WellFormed
        <4>2. SubGroupOf[Entry[g]] \in SubGroups
          BY <4>1, GraphAssumption DEF WellFormed
        <4> QED  BY <4>2
      <3> HIDE DEF P
      <3>4. /\ [J EXCEPT !.publish = P] \in Jobs /\ [J EXCEPT !.publish = P].own = TRUE
            /\ [J EXCEPT !.publish = P].sub = J.sub /\ [J EXCEPT !.publish = P].task = J.task
        BY <2>0, <3>1, <3>3 DEF Jobs
      <3>5. "notify" \in Labels /\ LocatedAt("notify", F, [J EXCEPT !.publish = P])
        BY <3>1, <3>4, OwnerLocated DEF Owning
      <3>6. ThreadsOK'
        BY <2>25, <2>0, <3>2, <3>4, <3>5, ThreadFrame DEF RestartSubGraph, P
      <3>7. SharedOK'
        BY <2>25 DEF RestartSubGraph, SharedOK, States
      <3> QED  BY <3>6, <3>7
    <2>26. CASE CheckTask(t)
      <3>1. J.own = FALSE /\ F.order \in GroupOrders
        BY <2>26, <2>n, <2>s DEF CheckTask, Searching, Outside
      <3>2. PICK k \in Tasks :
                \/ SetJob(t, [J EXCEPT !.scanned = @ \cup {k}]) /\ UNCHANGED <<pc, find>>
                \/ Goto(t, "sleep") /\ UNCHANGED <<find, job>>
                \/ \E l \in {"exited", "waiting"} : Return(t, l)
        BY <2>26 DEF CheckTask
      <3>3. ASSUME SetJob(t, [J EXCEPT !.scanned = @ \cup {k}]), UNCHANGED <<pc, find>>
            PROVE  ThreadsOK'
        <4>1. /\ [J EXCEPT !.scanned = @ \cup {k}] \in Jobs
              /\ [J EXCEPT !.scanned = @ \cup {k}].own = FALSE
          BY <2>0, <3>1 DEF Jobs
        <4>2. LocatedAt(L, F, [J EXCEPT !.scanned = @ \cup {k}])
          <5>1. L = "check"
            BY <2>26 DEF CheckTask
          <5> QED  BY <3>1, <4>1, <5>1 DEF LocatedAt, Searching, Outside, Owning, OnTask, Waking
        <4> QED  BY <2>0, <3>3, <4>1, <4>2, ThreadFrame
      <3>4. ASSUME Goto(t, "sleep"), UNCHANGED <<find, job>> PROVE ThreadsOK'
        <4>1. "sleep" \in Labels /\ LocatedAt("sleep", F, J)
          BY <3>1 DEF Labels, LocatedAt, Searching, Outside, Owning, OnTask, Waking
        <4> QED  BY <2>0, <3>4, <4>1, ThreadFrame
      <3>5. ASSUME NEW l \in {"exited", "waiting"}, Return(t, l) PROVE ThreadsOK'
        <4>1. /\ [NoSearch EXCEPT !.group = F.group] \in Searches
              /\ NoJob \in Jobs
              /\ NoJob.own = FALSE
          BY <2>0, GroupCntPositive DEF NoSearch, Searches, NoJob, Jobs
        <4>2. l \in Labels /\ LocatedAt(l, [NoSearch EXCEPT !.group = F.group], NoJob)
          BY <4>1, SearchLocated DEF Outside
        <4> QED  BY <3>5, <4>1, <4>2, ThreadFrame DEF Return
      <3>6. SharedOK'
        BY <2>26 DEF CheckTask, SharedOK
      <3> QED  BY <3>2, <3>3, <3>4, <3>5, <3>6
    <2>27. CASE MarkSleeping(t)
      <3>1. ThreadsOK'
        <4> DEFINE l == "waiting"
        <4>1. /\ [NoSearch EXCEPT !.group = F.group] \in Searches
              /\ NoJob \in Jobs
              /\ NoJob.own = FALSE
          BY <2>0, GroupCntPositive DEF NoSearch, Searches, NoJob, Jobs
        <4>2. l \in Labels /\ LocatedAt(l, [NoSearch EXCEPT !.group = F.group], NoJob)
          BY <4>1, SearchLocated DEF Outside
        <4> QED  BY <2>27, <4>1, <4>2, ThreadFrame DEF MarkSleeping, Return
      <3>2. SharedOK'
        BY <2>27 DEF MarkSleeping, SharedOK
      <3> QED  BY <3>1, <3>2
    <2> QED
      BY <1>2, <2>1, <2>2, <2>3, <2>4, <2>5, <2>6, <2>7, <2>8, <2>9, <2>10, <2>11, <2>12,
         <2>13, <2>14, <2>15, <2>16, <2>17, <2>18, <2>19, <2>20, <2>21, <2>22, <2>23, <2>24,
         <2>25, <2>26, <2>27 DEF Step
  <1> QED  BY <1>0, <1>1, <1>2 DEF Next, Finished

\* Every variable has its type, and with it what the code relies on in its indices: a
\* thread in a subgroup has a subgroup of the graph, a thread on a task a task (doThread
\* and the functions it calls).
THEOREM TypeCorrect == Spec => []TypeOK
  <1>1. LocalInv => TypeOK
    BY DEF LocalInv, SharedOK, ThreadsOK, TypeOK
  <1> QED  BY <1>1, LocalInit, LocalStep, PTL DEF Spec

\* The local invariant holds in every state of every execution.
LEMMA LocalInvariant == Spec => []LocalInv
  BY LocalInit, LocalStep, PTL DEF Spec

------------------------------------------------------------------------------
(***************************************************************************)
(* Who is in a subgroup.  A subgroup has one owner, or the threads that    *)
(* acquired invocations of its variadic task, never both; and it is        *)
(* executing in either case.                                               *)
(***************************************************************************)
Owns(t, s) == job[t].own /\ job[t].sub = s

\* t is one of Invocations(job[t].sub).
Invokes(t) == pc[t] \in {"gather", "wake", "piece"} /\ ~job[t].own

ExecutingApart == \A s, r \in executing : s # r => r \notin Excluded[s]

OwnersApart ==
    /\ \A t \in Threads : job[t].own => job[t].sub \in executing
    /\ \A t, u \in Threads : job[t].own /\ job[u].own /\ job[t].sub = job[u].sub => t = u

InvocationsApart ==
    /\ \A t \in Threads : Invokes(t) =>
        /\ job[t].task \in SelfParallel
        /\ varTask[job[t].sub].cnt > 0 => varTask[job[t].sub].task = job[t].task
    /\ \A t, u \in Threads : Invokes(t) /\ Invokes(u) /\ job[t].sub = job[u].sub /\ t # u =>
        job[t].task = job[u].task /\ job[t].idx # job[u].idx

OwnershipInv == ExecutingApart /\ OwnersApart /\ InvocationsApart /\ VarTaskAccounting

\* What the invariant speaks of is not changed.
KeepsOwnership ==
    /\ UNCHANGED <<executing, varTask, varLeft>>
    /\ \A t \in Threads :
        /\ job'[t].own = job[t].own
        /\ job[t].own => job'[t].sub = job[t].sub
        /\ Invokes(t)' = Invokes(t)
        /\ Invokes(t) => /\ job'[t].sub = job[t].sub
                         /\ job'[t].task = job[t].task
                         /\ job'[t].idx = job[t].idx

\* A step that changes nothing the ownership invariant speaks of keeps it.
LEMMA OwnershipFrame ==
    ASSUME OwnershipInv, KeepsOwnership
    PROVE  OwnershipInv'
  <1>1. \A s \in SubGroups : Invocations(s)' = Invocations(s)
    BY DEF KeepsOwnership, Invocations, Invokes
  <1>2. \A s, t : t \in Invocations(s) => t \in Threads /\ Invokes(t) /\ job[t].sub = s
    BY DEF Invocations, Invokes
  <1>3. ExecutingApart'
    BY DEF KeepsOwnership, OwnershipInv, ExecutingApart
  <1>4. OwnersApart'
    BY DEF KeepsOwnership, OwnershipInv, OwnersApart
  <1>5. InvocationsApart'
    BY DEF KeepsOwnership, OwnershipInv, InvocationsApart
  <1>6. VarTaskAccounting'
    <2> SUFFICES ASSUME NEW s \in SubGroups
                 PROVE  /\ varLeft'[s] = varTask'[s].cnt + Cardinality(Invocations(s)')
                        /\ \A t \in Invocations(s)' : job'[t].idx >= varTask'[s].cnt
                        /\ varLeft'[s] > 0 => s \in executing'
                             /\ ~\E t \in Threads : job'[t].own /\ job'[t].sub = s
      BY DEF VarTaskAccounting
    <2>1. /\ varLeft[s] = varTask[s].cnt + Cardinality(Invocations(s))
          /\ \A t \in Invocations(s) : job[t].idx >= varTask[s].cnt
          /\ varLeft[s] > 0 => s \in executing
                             /\ ~\E t \in Threads : job[t].own /\ job[t].sub = s
      BY DEF OwnershipInv, VarTaskAccounting
    <2> QED  BY <1>1, <1>2, <2>1 DEF KeepsOwnership
  <1> QED  BY <1>3, <1>4, <1>5, <1>6 DEF OwnershipInv

\* A thread that owns its subgroup before and after the step.
LEMMA OwnerKeeps ==
    ASSUME LocalInv, NEW t \in Threads, job[t].own, UNCHANGED <<executing, varTask, varLeft>>,
           NEW l, NEW j, pc' = [pc EXCEPT ![t] = l], job' = [job EXCEPT ![t] = j],
           j.own = TRUE, j.sub = job[t].sub
    PROVE  KeepsOwnership
  BY DEF LocalInv, ThreadsOK, Jobs, KeepsOwnership, Invokes

\* A thread that is in no subgroup before and after the step.
LEMMA StrangerKeeps ==
    ASSUME LocalInv, NEW t \in Threads, ~job[t].own, ~Invokes(t),
           UNCHANGED <<executing, varTask, varLeft>>,
           NEW l, NEW j, pc' = [pc EXCEPT ![t] = l], job' = [job EXCEPT ![t] = j],
           j.own = FALSE, l \notin {"gather", "wake", "piece"}
    PROVE  KeepsOwnership
  BY DEF LocalInv, ThreadsOK, Jobs, KeepsOwnership, Invokes

\* The actions that neither enter nor leave a subgroup.
LEMMA OwnershipKept ==
    ASSUME LocalInv, NEW t \in Threads,
           \/ CallDoThread(t) \/ LoadPending(t) \/ LoadExecuting(t) \/ EnterFails(t)
           \/ AnnounceVarTask(t) \/ CheckTask(t) \/ MarkSleeping(t)
           \/ ClearPending(t) \/ PassTask(t) \/ StartTask(t)
           \/ MarkDone(t) \/ NotifyNext(t) \/ PublishGroup(t)
           \/ EnterSubGraph(t) \/ SkipTask(t) \/ SkipEnds(t) \/ LeaveSubGraph(t)
           \/ ResetTask(t) \/ ResetExit(t) \/ RestartSubGraph(t)
    PROVE  KeepsOwnership
  <1> USE DEF LocalInv, SetFind, SetJob, Goto, graphState
  <1> DEFINE L == pc[t]  F == find[t]  J == job[t]
  <1>0. /\ L \in Labels /\ F \in Searches /\ J \in Jobs
        /\ LocatedAt(L, F, J)
        /\ pc = [pc EXCEPT ![t] = L] /\ job = [job EXCEPT ![t] = J]
    BY ThreadHere DEF ThreadsOK
  <1>1. CASE CallDoThread(t)
    <2>1. L \notin {"gather", "wake", "piece"} /\ J.own = FALSE
      BY <1>1, <1>0 DEF CallDoThread, LocatedAt, Outside, Searching, Owning, Waking
    <2>2. PICK l \in {"load"} : pc' = [pc EXCEPT ![t] = l]
      BY <1>1 DEF CallDoThread
    <2>3. job' = [job EXCEPT ![t] = J] /\ UNCHANGED <<executing, varTask, varLeft>>
      BY <1>1, <1>0 DEF CallDoThread
    <2> QED  BY <2>1, <2>2, <2>3, StrangerKeeps DEF Invokes
  <1>2. CASE LoadPending(t)
    <2>1. L \notin {"gather", "wake", "piece"} /\ J.own = FALSE
      BY <1>2, <1>0 DEF LoadPending, LocatedAt, Outside, Searching, Owning, Waking
    <2>2. PICK l \in {"load", "check", "look"} : pc' = [pc EXCEPT ![t] = l]
      <3>1. CASE NextGroup(t, F)
        BY <3>1 DEF NextGroup
      <3> QED  BY <1>2, <3>1 DEF LoadPending
    <2>3. job' = [job EXCEPT ![t] = J] /\ UNCHANGED <<executing, varTask, varLeft>>
      BY <1>2, <1>0 DEF LoadPending
    <2> QED  BY <2>1, <2>2, <2>3, StrangerKeeps DEF Invokes
  <1>3. CASE LoadExecuting(t)
    <2>1. L \notin {"gather", "wake", "piece"} /\ J.own = FALSE
      BY <1>3, <1>0 DEF LoadExecuting, LocatedAt, Outside, Searching, Owning, Waking
    <2>2. PICK l \in {"enter"} : pc' = [pc EXCEPT ![t] = l]
      BY <1>3 DEF LoadExecuting
    <2>3. job' = [job EXCEPT ![t] = J] /\ UNCHANGED <<executing, varTask, varLeft>>
      BY <1>3, <1>0 DEF LoadExecuting
    <2> QED  BY <2>1, <2>2, <2>3, StrangerKeeps DEF Invokes
  <1>4. CASE EnterFails(t)
    <2>1. L \notin {"gather", "wake", "piece"} /\ J.own = FALSE
      BY <1>4, <1>0 DEF EnterFails, LocatedAt, Outside, Searching, Owning, Waking
    <2>2. PICK l \in {"load", "check", "enter", "acquire"} : pc' = [pc EXCEPT ![t] = l]
      BY <1>4 DEF EnterFails, NextSubgroup, NextGroup
    <2>3. job' = [job EXCEPT ![t] = J] /\ UNCHANGED <<executing, varTask, varLeft>>
      BY <1>4, <1>0 DEF EnterFails
    <2> QED  BY <2>1, <2>2, <2>3, StrangerKeeps DEF Invokes
  <1>5. CASE AnnounceVarTask(t)
    <2>1. L = "announce" /\ J.own = FALSE
      BY <1>5, <1>0 DEF AnnounceVarTask, LocatedAt, Jobs
    <2>2. /\ pc' = [pc EXCEPT ![t] = "load"] /\ job' = [job EXCEPT ![t] = NoJob]
          /\ UNCHANGED <<executing, varTask, varLeft>>
      BY <1>5 DEF AnnounceVarTask
    <2>3. NoJob.own = FALSE
      BY DEF NoJob
    <2> QED  BY <2>1, <2>2, <2>3, StrangerKeeps DEF Invokes
  <1>6. CASE CheckTask(t)
    <2>1. L = "check" /\ J.own = FALSE
      BY <1>6, <1>0 DEF CheckTask, LocatedAt, Searching, Jobs
    <2>2. UNCHANGED <<executing, varTask, varLeft>>
      BY <1>6 DEF CheckTask
    <2>3. PICK k \in Tasks :
              \/ SetJob(t, [J EXCEPT !.scanned = @ \cup {k}]) /\ UNCHANGED <<pc, find>>
              \/ Goto(t, "sleep") /\ UNCHANGED <<find, job>>
              \/ \E l \in {"exited", "waiting"} : Return(t, l)
      BY <1>6 DEF CheckTask
    <2>4. [J EXCEPT !.scanned = @ \cup {k}].own = FALSE
      BY <1>0, <2>1 DEF Jobs
    <2>5. ASSUME SetJob(t, [J EXCEPT !.scanned = @ \cup {k}]), UNCHANGED <<pc, find>>
          PROVE  KeepsOwnership
      <3>1. pc' = [pc EXCEPT ![t] = "check"]
        BY <1>0, <2>1, <2>5
      <3> QED  BY <2>1, <2>2, <2>4, <2>5, <3>1, StrangerKeeps DEF Invokes
    <2>6. ASSUME Goto(t, "sleep"), UNCHANGED <<find, job>> PROVE KeepsOwnership
      <3>1. job' = [job EXCEPT ![t] = J]
        BY <1>0, <2>6
      <3> QED  BY <2>1, <2>2, <2>6, <3>1, StrangerKeeps DEF Invokes
    <2>7. ASSUME NEW l \in {"exited", "waiting"}, Return(t, l) PROVE KeepsOwnership
      <3>1. NoJob.own = FALSE
        BY DEF NoJob
      <3> QED  BY <2>1, <2>2, <2>7, <3>1, StrangerKeeps DEF Return, Invokes
    <2> QED  BY <2>3, <2>5, <2>6, <2>7
  <1>7. CASE MarkSleeping(t)
    <2>1. L = "sleep" /\ J.own = FALSE
      BY <1>7, <1>0 DEF MarkSleeping, LocatedAt, Searching, Jobs
    <2>2. /\ pc' = [pc EXCEPT ![t] = "waiting"] /\ job' = [job EXCEPT ![t] = NoJob]
          /\ UNCHANGED <<executing, varTask, varLeft>>
      BY <1>7 DEF MarkSleeping, Return
    <2>3. NoJob.own = FALSE
      BY DEF NoJob
    <2> QED  BY <2>1, <2>2, <2>3, StrangerKeeps DEF Invokes
  <1>8. CASE ClearPending(t)
    <2>1. J.own = TRUE
      BY <1>8, <1>0 DEF ClearPending, LocatedAt, Owning
    <2>2. \E l : /\ pc' = [pc EXCEPT ![t] = l]
                   /\ job' = [job EXCEPT ![t] = [NoJob EXCEPT !.sub = J.sub, !.own = TRUE]]
      BY <1>8, <1>0 DEF ClearPending, Take
    <2>3. /\ [NoJob EXCEPT !.sub = J.sub, !.own = TRUE].own = TRUE
          /\ [NoJob EXCEPT !.sub = J.sub, !.own = TRUE].sub = J.sub
      BY <1>0, <2>1 DEF Jobs, NoJob
    <2>4. UNCHANGED <<executing, varTask, varLeft>>
      BY <1>8 DEF ClearPending
    <2> QED  BY <2>1, <2>2, <2>3, <2>4, OwnerKeeps
  <1>9. CASE PassTask(t)
    <2>1. J.own = TRUE
      BY <1>9, <1>0 DEF PassTask, LocatedAt, Owning, Scans
    <2>2. PICK k \in Tasks : \E l : /\ pc' = [pc EXCEPT ![t] = l]
                   /\ job' = [job EXCEPT ![t] = [J EXCEPT !.scanned = @ \cup {k}]]
      BY <1>9, <1>0 DEF PassTask, Take
    <2>3. /\ [J EXCEPT !.scanned = @ \cup {k}].own = TRUE
          /\ [J EXCEPT !.scanned = @ \cup {k}].sub = J.sub
      BY <1>0, <2>1 DEF Jobs, NoJob
    <2>4. UNCHANGED <<executing, varTask, varLeft>>
      BY <1>9 DEF PassTask
    <2> QED  BY <2>1, <2>2, <2>3, <2>4, OwnerKeeps
  <1>10. CASE StartTask(t)
    <2>1. J.own = TRUE
      BY <1>10, <1>0 DEF StartTask, LocatedAt, Owning, Scans
    <2>2. PICK k \in Tasks \ SubGraphEnds : \E n \in TaskNum[k] :
              IF n < 2 \/ k \notin SelfParallel
              THEN SetJob(t, Take(t, k)) /\ Goto(t, "run")
              ELSE SetJob(t, [Take(t, k) EXCEPT !.idx = n]) /\ Goto(t, "windup")
      BY <1>10, Zenon DEF StartTask
    <2>3. PICK n \in TaskNum[k] :
              \/ SetJob(t, Take(t, k)) /\ Goto(t, "run")
              \/ SetJob(t, [Take(t, k) EXCEPT !.idx = n]) /\ Goto(t, "windup")
      BY <2>2, Zenon
    <2>4. UNCHANGED <<executing, varTask, varLeft>>
      BY <1>10 DEF StartTask
    <2>5. /\ Take(t, k).own = TRUE /\ Take(t, k).sub = J.sub
          /\ [Take(t, k) EXCEPT !.idx = n].own = TRUE
          /\ [Take(t, k) EXCEPT !.idx = n].sub = J.sub
      BY <1>0, <2>1 DEF Jobs, Take
    <2> QED  BY <2>1, <2>3, <2>4, <2>5, OwnerKeeps
  <1>11. CASE MarkDone(t)
    <2>1. J.own = TRUE
      BY <1>11, <1>0 DEF MarkDone, LocatedAt, Owning
    <2>2. \E l : /\ pc' = [pc EXCEPT ![t] = l]
                   /\ job' = [job EXCEPT ![t] = [J EXCEPT !.todo = NextTasks[J.task]]]
      BY <1>11, <1>0 DEF MarkDone, Take
    <2>3. /\ [J EXCEPT !.todo = NextTasks[J.task]].own = TRUE
          /\ [J EXCEPT !.todo = NextTasks[J.task]].sub = J.sub
      BY <1>0, <2>1 DEF Jobs, NoJob
    <2>4. UNCHANGED <<executing, varTask, varLeft>>
      BY <1>11 DEF MarkDone
    <2> QED  BY <2>1, <2>2, <2>3, <2>4, OwnerKeeps
  <1>12. CASE NotifyNext(t)
    <2>1. J.own = TRUE
      BY <1>12, <1>0 DEF NotifyNext, LocatedAt, Owning
    <2> DEFINE counted(n) == IF Target(n) = 0 THEN 0 ELSE deps[n] + 1
               other(n) == SubGroupOf[n] # SubGroupOf[J.task]
               P(n) == IF counted(n) = Target(n) /\ other(n)
                       THEN J.publish \cup {SubGroupOf[n]} ELSE J.publish
    <2>2. \E n \in J.todo :
              /\ SetJob(t, [J EXCEPT !.todo = @ \ {n}, !.publish = P(n)])
              /\ Goto(t, AfterDone([J EXCEPT !.todo = @ \ {n}, !.publish = P(n)]))
      BY <1>12 DEF NotifyNext
    <2> HIDE DEF P
    <2>3. PICK n : \E l : /\ SetJob(t, [J EXCEPT !.todo = @ \ {n}, !.publish = P(n)])
                          /\ Goto(t, l)
      BY <2>2
    <2>4. /\ [J EXCEPT !.todo = @ \ {n}, !.publish = P(n)].own = TRUE
          /\ [J EXCEPT !.todo = @ \ {n}, !.publish = P(n)].sub = J.sub
      BY <1>0, <2>1 DEF Jobs
    <2>5. UNCHANGED <<executing, varTask, varLeft>>
      BY <1>12 DEF NotifyNext
    <2> QED  BY <2>1, <2>3, <2>4, <2>5, OwnerKeeps
  <1>13. CASE PublishGroup(t)
    <2>1. J.own = TRUE
      BY <1>13, <1>0 DEF PublishGroup, LocatedAt, Owning
    <2>2. PICK g : \E l : /\ pc' = [pc EXCEPT ![t] = l]
                   /\ job' = [job EXCEPT ![t] = [J EXCEPT !.publish = @ \ Members(g)]]
      BY <1>13, <1>0 DEF PublishGroup, Take
    <2>3. /\ [J EXCEPT !.publish = @ \ Members(g)].own = TRUE
          /\ [J EXCEPT !.publish = @ \ Members(g)].sub = J.sub
      BY <1>0, <2>1 DEF Jobs, NoJob
    <2>4. UNCHANGED <<executing, varTask, varLeft>>
      BY <1>13 DEF PublishGroup
    <2> QED  BY <2>1, <2>2, <2>3, <2>4, OwnerKeeps
  <1>14. CASE EnterSubGraph(t)
    <2>1. J.own = TRUE
      BY <1>14, <1>0 DEF EnterSubGraph, LocatedAt, Owning, Scans
    <2>2. PICK g \in SubGraphs : \E l :
                  /\ pc' = [pc EXCEPT ![t] = l]
                     /\ \/ job' = [job EXCEPT ![t] = Take(t, Entry[g])]
                        \/ job' = [job EXCEPT ![t] = [Take(t, Entry[g]) EXCEPT !.todo = Body[g]]]
      BY <1>14, <1>0 DEF EnterSubGraph
    <2>3. /\ \A n : /\ Take(t, Entry[g]).own = TRUE /\ Take(t, Entry[g]).sub = J.sub
                 /\ [Take(t, Entry[g]) EXCEPT !.todo = Body[g]].own = TRUE
                 /\ [Take(t, Entry[g]) EXCEPT !.todo = Body[g]].sub = J.sub
      BY <1>0, <2>1 DEF Jobs, Take
    <2>4. UNCHANGED <<executing, varTask, varLeft>>
      BY <1>14 DEF EnterSubGraph
    <2> QED  BY <2>1, <2>2, <2>3, <2>4, OwnerKeeps
  <1>15. CASE SkipTask(t)
    <2>1. J.own = TRUE
      BY <1>15, <1>0 DEF SkipTask, LocatedAt, Owning
    <2>2. PICK k : \E l : /\ pc' = [pc EXCEPT ![t] = l]
                   /\ job' = [job EXCEPT ![t] = [J EXCEPT !.todo = @ \ {k}]]
      BY <1>15, <1>0 DEF SkipTask, Take
    <2>3. [J EXCEPT !.todo = @ \ {k}].own = TRUE /\ [J EXCEPT !.todo = @ \ {k}].sub = J.sub
      BY <1>0, <2>1 DEF Jobs, NoJob
    <2>4. UNCHANGED <<executing, varTask, varLeft>>
      BY <1>15 DEF SkipTask
    <2> QED  BY <2>1, <2>2, <2>3, <2>4, OwnerKeeps
  <1>16. CASE SkipEnds(t)
    <2>1. J.own = TRUE
      BY <1>16, <1>0 DEF SkipEnds, LocatedAt, Owning
    <2>2. PICK g : \E l : /\ pc' = [pc EXCEPT ![t] = l]
                   /\ job' = [job EXCEPT ![t] = [J EXCEPT !.task = Exit[g]]]
      BY <1>16, <1>0 DEF SkipEnds, Take
    <2>3. [J EXCEPT !.task = Exit[g]].own = TRUE /\ [J EXCEPT !.task = Exit[g]].sub = J.sub
      BY <1>0, <2>1 DEF Jobs, NoJob
    <2>4. UNCHANGED <<executing, varTask, varLeft>>
      BY <1>16 DEF SkipEnds
    <2> QED  BY <2>1, <2>2, <2>3, <2>4, OwnerKeeps
  <1>17. CASE LeaveSubGraph(t)
    <2>1. J.own = TRUE
      BY <1>17, <1>0 DEF LeaveSubGraph, LocatedAt, Owning, Scans
    <2>2. PICK g \in SubGraphs : \E l :
                  /\ pc' = [pc EXCEPT ![t] = l]
                     /\ \/ job' = [job EXCEPT ![t] = Take(t, Exit[g])]
                        \/ job' = [job EXCEPT ![t] = [Take(t, Exit[g]) EXCEPT !.todo = Body[g]]]
      BY <1>17, <1>0 DEF LeaveSubGraph
    <2>3. /\ \A n : /\ Take(t, Exit[g]).own = TRUE /\ Take(t, Exit[g]).sub = J.sub
                 /\ [Take(t, Exit[g]) EXCEPT !.todo = Body[g]].own = TRUE
                 /\ [Take(t, Exit[g]) EXCEPT !.todo = Body[g]].sub = J.sub
      BY <1>0, <2>1 DEF Jobs, Take
    <2>4. UNCHANGED <<executing, varTask, varLeft>>
      BY <1>17 DEF LeaveSubGraph
    <2> QED  BY <2>1, <2>2, <2>3, <2>4, OwnerKeeps
  <1>18. CASE ResetTask(t)
    <2>1. J.own = TRUE
      BY <1>18, <1>0 DEF ResetTask, LocatedAt, Owning
    <2>2. PICK k : \E l : /\ pc' = [pc EXCEPT ![t] = l]
                   /\ job' = [job EXCEPT ![t] = [J EXCEPT !.todo = @ \ {k}]]
      BY <1>18, <1>0 DEF ResetTask, Take
    <2>3. [J EXCEPT !.todo = @ \ {k}].own = TRUE /\ [J EXCEPT !.todo = @ \ {k}].sub = J.sub
      BY <1>0, <2>1 DEF Jobs, NoJob
    <2>4. UNCHANGED <<executing, varTask, varLeft>>
      BY <1>18 DEF ResetTask
    <2> QED  BY <2>1, <2>2, <2>3, <2>4, OwnerKeeps
  <1>19. CASE ResetExit(t)
    <2>1. J.own = TRUE
      BY <1>19, <1>0 DEF ResetExit, LocatedAt, Owning
    <2>2. \E l : /\ pc' = [pc EXCEPT ![t] = l]
                   /\ job' = [job EXCEPT ![t] = J]
      BY <1>19, <1>0 DEF ResetExit, Take
    <2>3. J.own = TRUE /\ J.sub = J.sub
      BY <1>0, <2>1 DEF Jobs, NoJob
    <2>4. UNCHANGED <<executing, varTask, varLeft>>
      BY <1>19 DEF ResetExit
    <2> QED  BY <2>1, <2>2, <2>3, <2>4, OwnerKeeps
  <1>20. CASE RestartSubGraph(t)
    <2>1. J.own = TRUE
      BY <1>20, <1>0 DEF RestartSubGraph, LocatedAt, Owning
    <2>2. PICK g : \E l : /\ pc' = [pc EXCEPT ![t] = l]
                   /\ job' = [job EXCEPT ![t] = [J EXCEPT !.publish = {SubGroupOf[Entry[g]]}]]
      BY <1>20, <1>0 DEF RestartSubGraph, Take
    <2>3. /\ [J EXCEPT !.publish = {SubGroupOf[Entry[g]]}].own = TRUE
          /\ [J EXCEPT !.publish = {SubGroupOf[Entry[g]]}].sub = J.sub
      BY <1>0, <2>1 DEF Jobs, NoJob
    <2>4. UNCHANGED <<executing, varTask, varLeft>>
      BY <1>20 DEF RestartSubGraph
    <2> QED  BY <2>1, <2>2, <2>3, <2>4, OwnerKeeps
  <1> QED
    BY <1>1, <1>2, <1>3, <1>4, <1>5, <1>6, <1>7, <1>8, <1>9, <1>10, <1>11, <1>12, <1>13, <1>14,
       <1>15, <1>16, <1>17, <1>18, <1>19, <1>20

Accounted(s) ==
    /\ varLeft[s] = varTask[s].cnt + Cardinality(Invocations(s))
    /\ \A t \in Invocations(s) : job[t].idx >= varTask[s].cnt
    /\ varLeft[s] > 0 => s \in executing /\ ~\E t \in Threads : Owns(t, s)

\* The accounting, one subgroup at a time.
LEMMA AccountedDef == VarTaskAccounting <=> \A s \in SubGroups : Accounted(s)
  BY DEF VarTaskAccounting, Accounted, Owns

\* The invocations of a subgroup that are running can be counted.
LEMMA InvocationsFinite ==
    ASSUME NEW s
    PROVE  /\ IsFiniteSet(Invocations(s)) /\ Cardinality(Invocations(s)) \in Nat
           /\ Invocations(s) = {t \in Threads : Invokes(t) /\ job[t].sub = s}
  BY ExecutorAssumption, FS_Subset, FS_CardinalityType DEF Invocations, Invokes

\* What is true of a subgroup's invocations when one of the three is not empty.
LEMMA OwnedHasNoInvocations ==
    ASSUME LocalInv, OwnershipInv, NEW t \in Threads, job[t].own, job[t].sub \in SubGroups
    PROVE  LET s == job[t].sub
           IN  /\ s \in executing /\ varLeft[s] = 0 /\ varTask[s].cnt = 0 /\ Invocations(s) = {}
               /\ \A u \in Threads : Owns(u, s) => u = t
               /\ \A u \in Threads : Invokes(u) => job[u].sub # s
  <1> DEFINE s == job[t].sub
  <1>1. Accounted(s)
    BY AccountedDef DEF OwnershipInv
  <1>2. varTask[s].cnt \in Nat /\ varLeft[s] \in Int
    BY DEF LocalInv, SharedOK
  <1>3. Cardinality(Invocations(s)) \in Nat /\ IsFiniteSet(Invocations(s))
    BY InvocationsFinite
  <1>4. ~(varLeft[s] > 0)
    BY <1>1 DEF Accounted, Owns
  <1>5. varLeft[s] = 0 /\ varTask[s].cnt = 0 /\ Cardinality(Invocations(s)) = 0
    BY <1>1, <1>2, <1>3, <1>4 DEF Accounted
  <1>6. Invocations(s) = {}
    BY <1>3, <1>5, FS_EmptySet
  <1> QED  BY <1>5, <1>6, InvocationsFinite DEF OwnershipInv, OwnersApart, Owns

\* A running invocation is counted as remaining, and nobody owns its subgroup; if
\* one remains, none is left to acquire and the thread runs the last one.
LEMMA InvocationMeansLeft ==
    ASSUME LocalInv, OwnershipInv, NEW t \in Threads, Invokes(t), job[t].sub \in SubGroups
    PROVE  LET s == job[t].sub
           IN  /\ t \in Invocations(s) /\ varLeft[s] > 0 /\ s \in executing
               /\ \A u \in Threads : ~Owns(u, s)
               /\ varLeft[s] = 1 => varTask[s].cnt = 0 /\ Invocations(s) = {t}
  <1> DEFINE s == job[t].sub
             I == Invocations(s)
  <1>1. Accounted(s)
    BY AccountedDef DEF OwnershipInv
  <1>2. varTask[s].cnt \in Nat /\ varLeft[s] \in Int
    BY DEF LocalInv, SharedOK
  <1>3. Cardinality(I) \in Nat /\ IsFiniteSet(I) /\ t \in I
    BY InvocationsFinite
  <1>4. /\ IsFiniteSet(I \ {t}) /\ Cardinality(I \ {t}) = Cardinality(I) - 1
        /\ Cardinality(I \ {t}) \in Nat
    BY <1>3, FS_RemoveElement, FS_CardinalityType
  <1>5. varLeft[s] = varTask[s].cnt + Cardinality(I)
    BY <1>1 DEF Accounted
  <1>6. varLeft[s] > 0
    BY <1>2, <1>3, <1>4, <1>5
  <1>7. ASSUME varLeft[s] = 1 PROVE varTask[s].cnt = 0 /\ I = {t}
    <2>1. varTask[s].cnt = 0 /\ Cardinality(I \ {t}) = 0
      BY <1>2, <1>3, <1>4, <1>5, <1>7
    <2>2. I \ {t} = {}
      BY <1>4, <2>1, FS_EmptySet
    <2> QED  BY <1>3, <2>1, <2>2
  <1> QED  BY <1>1, <1>3, <1>6, <1>7 DEF Accounted

\* Nothing changes for a subgroup that no thread enters or leaves.
LEMMA AccountedFrame ==
    ASSUME NEW s, Accounted(s),
           varLeft'[s] = varLeft[s], varTask'[s] = varTask[s],
           s \in executing => s \in executing',
           \A u \in Threads : Owns(u, s)' => Owns(u, s) \/ varLeft[s] = 0,
           Invocations(s)' = Invocations(s),
           \A u \in Invocations(s) : job'[u].idx = job[u].idx
    PROVE  Accounted(s)'
  BY DEF Accounted

\* tryEnterSubgroup: the CAS lets a thread in only when no other one is.
LEMMA OwnershipEnter ==
    ASSUME LocalInv, OwnershipInv, NEW t \in Threads, EnterSubgroup(t)
    PROVE  OwnershipInv'
  <1> DEFINE J(s) == [NoJob EXCEPT !.sub = s, !.own = TRUE]
  <1>1. PICK s \in find[t].bits : /\ MayEnter(t, s)
                                  /\ executing' = executing \cup {s}
                                  /\ SetJob(t, J(s))
    BY Zenon DEF EnterSubgroup
  <1>2. /\ pc[t] = "enter" /\ pc' = [pc EXCEPT ![t] = Owned]
        /\ UNCHANGED <<varTask, varLeft>>
    BY DEF EnterSubgroup, Goto
  <1>3. s \in SubGroups /\ executing \subseteq SubGroups
    BY DEF LocalInv, SharedOK, ThreadsOK, Searches
  <1>4. /\ job[t].own = FALSE
        /\ ~Invokes(t)
        /\ pc \in [Threads -> Labels]
        /\ job \in [Threads -> Jobs]
    BY <1>2, ThreadHere DEF LocalInv, ThreadsOK, LocatedAt, Searching, Jobs, Invokes
  <1>5. \A r \in executing : r \notin Excluded[s]
    BY <1>1 DEF MayEnter
  <1>6. s \notin executing
    BY <1>3, <1>5, GraphAssumption DEF WellFormed
  <1>7. J(s).own = TRUE /\ J(s).sub = s
    BY DEF NoJob
  <1> HIDE DEF J
  <1>8. /\ job'[t] = J(s) /\ ~Invokes(t)'
        /\ \A u \in Threads : u # t =>
                pc'[u] = pc[u] /\ job'[u] = job[u] /\ Invokes(u)' = Invokes(u)
    BY <1>1, <1>2, <1>4, <1>7 DEF SetJob, Invokes
  <1>9. ExecutingApart'
    <2> SUFFICES ASSUME NEW a \in executing', NEW b \in executing', a # b
             PROVE  b \notin Excluded[a]
      BY DEF ExecutingApart
    <2>1. CASE a = s
      BY <1>1, <1>5, <2>1
    <2>2. CASE b = s
      BY <1>1, <1>3, <1>5, <2>2, GraphAssumption DEF WellFormed
    <2>3. CASE a # s /\ b # s
      BY <1>1, <2>3 DEF OwnershipInv, ExecutingApart
    <2> QED  BY <2>1, <2>2, <2>3
  <1>10. OwnersApart'
    BY <1>1, <1>6, <1>7, <1>8 DEF OwnershipInv, OwnersApart
  <1>11. InvocationsApart'
    BY <1>2, <1>8 DEF OwnershipInv, InvocationsApart
  <1>12. VarTaskAccounting'
    <2> SUFFICES ASSUME NEW r \in SubGroups PROVE Accounted(r)'
      BY DEF VarTaskAccounting, Accounted, Owns
    <2>1. Accounted(r)
      BY AccountedDef DEF OwnershipInv
    <2>2. Invocations(r)' = Invocations(r) /\ \A u \in Invocations(r) : job'[u].idx = job[u].idx
      BY <1>4, <1>8 DEF Invocations, Invokes
    <2>3. varLeft[r] \in Int /\ varTask[r].cnt \in Nat /\ Cardinality(Invocations(r)) \in Nat
      BY InvocationsFinite DEF LocalInv, SharedOK
    <2>4. r = s => varLeft[r] = 0
      BY <1>6, <2>1, <2>3 DEF Accounted
    <2>5. \A u \in Threads : Owns(u, r)' => Owns(u, r) \/ varLeft[r] = 0
      BY <1>7, <1>8, <2>4 DEF Owns
    <2> QED  BY <1>1, <1>2, <2>1, <2>2, <2>5, AccountedFrame
  <1> QED  BY <1>9, <1>10, <1>11, <1>12 DEF OwnershipInv

\* What is left after one invocation was acquired.
LEMMA OneLessEffect ==
    ASSUME NEW v \in [task : Nat, cnt : Nat], v.cnt > 0
    PROVE  /\ OneLess(v).cnt = v.cnt - 1 /\ OneLess(v).cnt \in Nat
           /\ OneLess(v).cnt > 0 => OneLess(v).task = v.task
  BY DEF OneLess, NoVarTask

\* tryAcquireVarTask: the new invocation has an index of its own.
LEMMA OwnershipAcquire ==
    ASSUME LocalInv, OwnershipInv, NEW t \in Threads, AcquireVarTask(t)
    PROVE  OwnershipInv'
  <1> DEFINE J(s) == [NoJob EXCEPT !.sub = s, !.task = varTask[s].task, !.idx = varTask[s].cnt - 1]
  <1>1. /\ pc[t] = "acquire" /\ UNCHANGED <<executing, varLeft>>
        /\ pc \in [Threads -> Labels] /\ job \in [Threads -> Jobs]
    BY DEF AcquireVarTask, LocalInv, ThreadsOK
  <1>2. job[t].own = FALSE /\ ~Invokes(t)
    BY <1>1, ThreadHere DEF LocalInv, LocatedAt, Searching, Jobs, Invokes
  <1>3. PICK s \in find[t].bits :
            \/ NextSubgroup(t, find[t], s) /\ UNCHANGED <<varTask, job>>
            \/ /\ varTask[s].cnt > 0
               /\ varTask' = [varTask EXCEPT ![s] = OneLess(varTask[s])]
               /\ SetJob(t, J(s)) /\ Goto(t, Piece(varTask[s].cnt))
    BY DEF AcquireVarTask
  <1>4. s \in SubGroups /\ varTask[s] \in [task : Nat, cnt : Nat]
    BY DEF LocalInv, SharedOK, ThreadsOK, Searches
  <1>5. CASE NextSubgroup(t, find[t], s) /\ UNCHANGED <<varTask, job>>
    <2>1. find[t] \in Searches /\ find[t].order \in GroupOrders
      BY <1>1, ThreadHere DEF LocalInv, LocatedAt, Outside
    <2>2. PICK l \in {"load", "check", "enter"} : Goto(t, l)
      BY <1>5, <2>1, NextSubgroupLocal
    <2>3. job' = [job EXCEPT ![t] = job[t]]
      BY <1>1, <1>5
    <2>4. KeepsOwnership
      BY <1>1, <1>2, <1>5, <2>2, <2>3, StrangerKeeps DEF Goto
    <2> QED  BY <2>4, OwnershipFrame
  <1>6. CASE /\ varTask[s].cnt > 0
             /\ varTask' = [varTask EXCEPT ![s] = OneLess(varTask[s])]
             /\ SetJob(t, J(s)) /\ Goto(t, Piece(varTask[s].cnt))
    <2>1. /\ J(s).own = FALSE /\ J(s).sub = s /\ J(s).task = varTask[s].task
          /\ J(s).idx = varTask[s].cnt - 1
      BY DEF NoJob
    <2>2. Piece(varTask[s].cnt) \in {"gather", "piece"}
      BY DEF Piece
    <2>3. job' = [job EXCEPT ![t] = J(s)] /\ pc' = [pc EXCEPT ![t] = Piece(varTask[s].cnt)]
      BY <1>6 DEF SetJob, Goto
    <2> HIDE DEF J
    <2>4. /\ job'[t] = J(s) /\ Invokes(t)'
          /\ \A u \in Threads : u # t =>
                pc'[u] = pc[u] /\ job'[u] = job[u] /\ Invokes(u)' = Invokes(u)
      BY <1>1, <2>1, <2>2, <2>3 DEF Invokes
    <2>5. /\ varTask'[s].cnt = varTask[s].cnt - 1 /\ varTask'[s].cnt \in Nat
          /\ varTask'[s].cnt > 0 => varTask'[s].task = varTask[s].task
          /\ \A r \in SubGroups : r # s => varTask'[r] = varTask[r]
      BY <1>4, <1>6, OneLessEffect DEF LocalInv, SharedOK
    <2>6. /\ t \notin Invocations(s) /\ Invocations(s)' = Invocations(s) \cup {t}
          /\ \A r : r # s => Invocations(r)' = Invocations(r)
      BY <1>2, <2>1, <2>4 DEF Invocations, Invokes
    <2>7. Accounted(s)
      BY <1>4, AccountedDef DEF OwnershipInv
    <2>8. \A u \in Invocations(s) : u \in Threads /\ Invokes(u) /\ job[u].sub = s
      BY DEF Invocations, Invokes
    <2>9. \A u \in Threads : Invokes(u) /\ job[u].sub = s => u \in Invocations(s)
      BY DEF Invocations, Invokes
    <2>10. ExecutingApart'
      BY <1>1 DEF OwnershipInv, ExecutingApart
    <2>11. OwnersApart'
      BY <1>1, <1>2, <2>1, <2>4 DEF OwnershipInv, OwnersApart
    <2>12. \A u \in Threads : job[u].idx \in Nat
      BY <1>1 DEF Jobs
    <2>13. InvocationsApart'
      <3>1. varTask[s].task \in SelfParallel
        BY <1>4, <1>6 DEF LocalInv, SharedOK
      <3>2. \A u \in Threads : Invokes(u) => job[u].sub \in SubGroups
        BY DEF LocalInv, ThreadsOK, Located, LocatedAt, Invokes, Outside, Searching
      <3>3. ASSUME NEW u \in Threads, Invokes(u)'
            PROVE  /\ job'[u].task \in SelfParallel
                   /\ varTask'[job'[u].sub].cnt > 0 => varTask'[job'[u].sub].task = job'[u].task
        <4>1. CASE u = t
          BY <2>1, <2>4, <2>5, <3>1, <4>1
        <4>2. CASE u # t
          <5>1. /\ Invokes(u) /\ job'[u] = job[u] /\ job[u].task \in SelfParallel
                /\ varTask[job[u].sub].cnt > 0 => varTask[job[u].sub].task = job[u].task
            BY <2>4, <3>3, <4>2 DEF OwnershipInv, InvocationsApart
          <5> QED  BY <1>6, <2>5, <3>2, <5>1
        <4> QED  BY <4>1, <4>2
      <3>4. ASSUME NEW u \in Threads, Invokes(u)', job'[u].sub = s, u # t
            PROVE  job'[u].task = varTask[s].task /\ job'[u].idx > varTask[s].cnt - 1
        <4>1. Invokes(u) /\ job'[u] = job[u] /\ job[u].sub = s
          BY <2>4, <3>4
        <4>2. job[u].task = varTask[s].task
          BY <1>6, <4>1 DEF OwnershipInv, InvocationsApart
        <4>3. job[u].idx >= varTask[s].cnt
          BY <2>7, <2>9, <4>1 DEF Accounted
        <4> QED  BY <1>4, <2>12, <4>1, <4>2, <4>3
      <3>5. ASSUME NEW u \in Threads, NEW w \in Threads, Invokes(u)', Invokes(w)',
                   job'[u].sub = job'[w].sub, u # w
            PROVE  job'[u].task = job'[w].task /\ job'[u].idx # job'[w].idx
        <4>1. CASE u = t
          BY <1>4, <2>1, <2>4, <2>12, <3>4, <3>5, <4>1
        <4>2. CASE w = t
          BY <1>4, <2>1, <2>4, <2>12, <3>4, <3>5, <4>2
        <4>3. CASE u # t /\ w # t
          BY <2>4, <3>5, <4>3 DEF OwnershipInv, InvocationsApart
        <4> QED  BY <4>1, <4>2, <4>3
      <3> QED  BY <3>3, <3>5 DEF InvocationsApart
    <2>14. VarTaskAccounting'
      <3> SUFFICES ASSUME NEW r \in SubGroups PROVE Accounted(r)'
        BY DEF VarTaskAccounting, Accounted, Owns
      <3>1. CASE r # s
        <4>1. Accounted(r)
          BY AccountedDef DEF OwnershipInv
        <4>2. \A u \in Invocations(r) : job'[u].idx = job[u].idx
          BY <1>2, <2>4 DEF Invocations, Invokes
        <4>3. \A u \in Threads : Owns(u, r)' => Owns(u, r)
          BY <2>1, <2>4 DEF Owns
        <4> QED  BY <1>1, <2>5, <2>6, <3>1, <4>1, <4>2, <4>3, AccountedFrame
      <3>2. CASE r = s
        <4>1. /\ varLeft[s] = varTask[s].cnt + Cardinality(Invocations(s))
              /\ varLeft[s] > 0 => s \in executing /\ ~\E u \in Threads : Owns(u, s)
          BY <2>7 DEF Accounted
        <4>2. Cardinality(Invocations(s)') = Cardinality(Invocations(s)) + 1
          BY <2>6, InvocationsFinite, FS_AddElement
        <4>3. varLeft'[s] = varTask'[s].cnt + Cardinality(Invocations(s)')
          BY <1>1, <1>4, <2>5, <4>1, <4>2, InvocationsFinite
        <4>4. \A u \in Invocations(s)' : job'[u].idx >= varTask'[s].cnt
          <5> SUFFICES ASSUME NEW u \in Invocations(s)' PROVE job'[u].idx >= varTask'[s].cnt
            OBVIOUS
          <5>1. CASE u = t
            BY <1>4, <2>1, <2>4, <2>5, <5>1
          <5>2. CASE u # t
            <6>1. u \in Invocations(s) /\ job'[u] = job[u] /\ job[u].idx >= varTask[s].cnt
              BY <2>4, <2>6, <2>7, <2>8, <5>2 DEF Accounted
            <6> QED  BY <1>4, <2>5, <2>8, <2>12, <6>1
          <5> QED  BY <5>1, <5>2
        <4>5. varLeft'[s] > 0 => s \in executing' /\ ~\E u \in Threads : Owns(u, s)'
          BY <1>1, <2>1, <2>4, <4>1 DEF Owns
        <4> QED  BY <3>2, <4>3, <4>4, <4>5 DEF Accounted
      <3> QED  BY <3>1, <3>2
    <2> QED  BY <2>10, <2>11, <2>13, <2>14 DEF OwnershipInv
  <1> QED  BY <1>3, <1>5, <1>6

\* Waking threads changes neither who owns a subgroup nor who holds an invocation.
LEMMA OwnershipWake ==
    ASSUME LocalInv, OwnershipInv, NEW t \in Threads, GatherThreads(t) \/ WakeThreads(t)
    PROVE  OwnershipInv'
  <1>1. /\ UNCHANGED <<executing, varTask, varLeft>>
        /\ pc \in [Threads -> Labels] /\ job \in [Threads -> Jobs]
        /\ pc[t] \in {"gather", "wake"}
    BY DEF GatherThreads, WakeThreads, LocalInv, ThreadsOK, graphState
  <1>2. PICK w, l : /\ job' = [job EXCEPT ![t] = [job[t] EXCEPT !.wake = w]]
                    /\ pc' = [pc EXCEPT ![t] = l]
                    /\ l \in {"gather", "wake", "piece"} <=> l = "wake" \/ ~job[t].own
    <2>1. CASE GatherThreads(t)
      BY <2>1 DEF GatherThreads, SetJob, Goto
    <2>2. CASE WakeThreads(t)
      <3> DEFINE l == IF job[t].own THEN "clear" ELSE "piece"
      <3>1. /\ job' = [job EXCEPT ![t] = [job[t] EXCEPT !.wake = {}]]
            /\ pc' = [pc EXCEPT ![t] = l]
        BY <2>2 DEF WakeThreads, SetJob, Goto
      <3>2. l \in {"gather", "wake", "piece"} <=> l = "wake" \/ ~job[t].own
        OBVIOUS
      <3> HIDE DEF l
      <3> QED  BY <3>1, <3>2
    <2> QED  BY <2>1, <2>2
  <1>3. /\ job'[t].own = job[t].own /\ job'[t].sub = job[t].sub /\ job'[t].task = job[t].task
        /\ job'[t].idx = job[t].idx /\ Invokes(t)' = Invokes(t)
    BY <1>1, <1>2 DEF Jobs, Invokes
  <1>4. KeepsOwnership
    BY <1>1, <1>2, <1>3 DEF KeepsOwnership, Invokes
  <1> QED  BY <1>4, OwnershipFrame

\* doSubGroup winds a variadic task up and gives its subgroup away.
LEMMA OwnershipWindUp ==
    ASSUME LocalInv, OwnershipInv, NEW t \in Threads, WindUpVarTask(t)
    PROVE  OwnershipInv'
  <1>0. PICK s, n, k : s = job[t].sub /\ n = job[t].idx /\ k = job[t].task
    OBVIOUS
  <1>1. /\ pc[t] = "windup" /\ pc \in [Threads -> Labels] /\ job \in [Threads -> Jobs]
        /\ job[t].own /\ s \in SubGroups /\ n \in Nat /\ n > 1
        /\ k \in SelfParallel
    BY <1>0, ThreadHere DEF WindUpVarTask, LocalInv, ThreadsOK, LocatedAt, Owning, Outside,
                            Searching,
                      Waking, OnTask, Jobs
  <1>2. /\ executing' = executing
        /\ varLeft' = [varLeft EXCEPT ![s] = n]
        /\ varTask' = [varTask EXCEPT ![s] = [task |-> k, cnt |-> n]]
        /\ pc' = [pc EXCEPT ![t] = "announce"]
        /\ job' = [job EXCEPT ![t] = [NoJob EXCEPT !.sub = s]]
    BY <1>0 DEF WindUpVarTask, SetJob, Goto
  <1>3. /\ s \in executing /\ Invocations(s) = {}
        /\ \A u \in Threads : Owns(u, s) => u = t
        /\ \A u \in Threads : Invokes(u) => job[u].sub # s
    BY <1>0, <1>1, OwnedHasNoInvocations
  <1>4. /\ job'[t].own = FALSE /\ ~Invokes(t) /\ ~Invokes(t)'
        /\ \A u \in Threads : u # t => job'[u] = job[u] /\ Invokes(u)' = Invokes(u)
    BY <1>1, <1>2 DEF NoJob, Invokes
  <1>5. \A r : Invocations(r)' = Invocations(r)
    BY <1>4 DEF Invocations, Invokes
  <1>6. /\ varLeft'[s] = n /\ varTask'[s] = [task |-> k, cnt |-> n]
        /\ \A r \in SubGroups : r # s => varLeft'[r] = varLeft[r] /\ varTask'[r] = varTask[r]
    BY <1>1, <1>2 DEF LocalInv, SharedOK
  <1>7. ExecutingApart'
    BY <1>2 DEF OwnershipInv, ExecutingApart
  <1>8. OwnersApart'
    BY <1>2, <1>4 DEF OwnershipInv, OwnersApart
  <1>9. InvocationsApart'
    <2>1. \A u \in Threads : Invokes(u) => job[u].sub \in SubGroups
      BY DEF LocalInv, ThreadsOK, Located, LocatedAt, Invokes, Outside, Searching
    <2>2. \A u \in Threads : Invokes(u)' =>
            /\ u # t /\ Invokes(u) /\ job'[u] = job[u]
            /\ varTask'[job[u].sub] = varTask[job[u].sub]
      BY <1>3, <1>4, <1>6, <2>1
    <2> QED  BY <2>2 DEF OwnershipInv, InvocationsApart
  <1>10. VarTaskAccounting'
    <2> SUFFICES ASSUME NEW r \in SubGroups PROVE Accounted(r)'
      BY DEF VarTaskAccounting, Accounted, Owns
    <2>1. CASE r # s
      <3>1. Accounted(r)
        BY AccountedDef DEF OwnershipInv
      <3>2. \A u \in Invocations(r) : job'[u].idx = job[u].idx
        BY <1>4 DEF Invocations, Invokes
      <3>3. \A u \in Threads : Owns(u, r)' => Owns(u, r)
        BY <1>4 DEF Owns
      <3> QED  BY <1>2, <1>5, <1>6, <2>1, <3>1, <3>2, <3>3, AccountedFrame
    <2>2. CASE r = s
      <3>1. Invocations(s)' = {} /\ Cardinality(Invocations(s)') = 0
        BY <1>3, <1>5, FS_EmptySet
      <3>2. \A u \in Threads : ~Owns(u, s)'
        BY <1>3, <1>4 DEF Owns
      <3>3. varLeft'[s] = varTask'[s].cnt + Cardinality(Invocations(s)')
        BY <1>1, <1>6, <3>1
      <3> QED  BY <1>2, <1>3, <2>2, <3>1, <3>2, <3>3 DEF Accounted
    <2> QED  BY <2>1, <2>2
  <1> QED  BY <1>7, <1>8, <1>9, <1>10 DEF OwnershipInv

\* doVarTask: the last invocation to finish takes the subgroup over.
LEMMA OwnershipFinish ==
    ASSUME LocalInv, OwnershipInv, NEW t \in Threads, FinishVarTask(t)
    PROVE  OwnershipInv'
  <1>0. PICK s : s = job[t].sub
    OBVIOUS
  <1>1. /\ pc[t] = "piece" /\ pc \in [Threads -> Labels] /\ job \in [Threads -> Jobs]
        /\ job[t].own = FALSE /\ s \in SubGroups /\ Invokes(t)
    BY <1>0, ThreadHere DEF FinishVarTask, LocalInv, ThreadsOK, LocatedAt, Outside, Searching,
                            Jobs, Invokes
  <1>2. /\ executing' = executing /\ varTask' = varTask
        /\ varLeft' = [varLeft EXCEPT ![s] = @ - 1]
    BY <1>0 DEF FinishVarTask
  <1>3. /\ varLeft'[s] = varLeft[s] - 1 /\ varLeft[s] \in Int /\ varTask[s].cnt \in Nat
        /\ \A r \in SubGroups : r # s => varLeft'[r] = varLeft[r]
    BY <1>1, <1>2 DEF LocalInv, SharedOK
  <1>4. /\ t \in Invocations(s) /\ varLeft[s] > 0 /\ s \in executing
        /\ \A u \in Threads : ~Owns(u, s)
        /\ varLeft[s] = 1 => varTask[s].cnt = 0 /\ Invocations(s) = {t}
    BY <1>0, <1>1, InvocationMeansLeft
  <1>5. PICK l, j :
            /\ pc' = [pc EXCEPT ![t] = l] /\ job' = [job EXCEPT ![t] = j]
            /\ \/ varLeft[s] = 1 /\ j.own = TRUE /\ j.sub = s
               \/ varLeft[s] # 1 /\ j.own = FALSE /\ l \in {"load", "check", "enter"}
    <2>1. CASE varLeft[s] = 1
      <3>1. /\ pc' = [pc EXCEPT ![t] = "done"]
            /\ job' = [job EXCEPT ![t] = [job[t] EXCEPT !.own = TRUE, !.fresh = TRUE]]
        BY <1>0, <2>1 DEF FinishVarTask, SetJob, Goto
      <3>2. /\ [job[t] EXCEPT !.own = TRUE, !.fresh = TRUE].own = TRUE
            /\ [job[t] EXCEPT !.own = TRUE, !.fresh = TRUE].sub = s
        BY <1>0, <1>1 DEF Jobs
      <3> QED  BY <2>1, <3>1, <3>2
    <2>2. CASE varLeft[s] # 1
      <3>1. find[t] \in Searches /\ find[t].order \in GroupOrders
        BY <1>1, ThreadHere DEF LocalInv, LocatedAt, Outside
      <3>2. NextSubgroup(t, find[t], s) /\ job' = [job EXCEPT ![t] = NoJob] /\ NoJob.own = FALSE
        BY <1>0, <2>2 DEF FinishVarTask, SetJob, NoJob
      <3>3. PICK l \in {"load", "check", "enter"} : Goto(t, l)
        BY <3>1, <3>2, NextSubgroupLocal
      <3> QED  BY <2>2, <3>2, <3>3 DEF Goto
    <2> QED  BY <2>1, <2>2
  <1>6. /\ job'[t] = j /\ ~Invokes(t)'
        /\ \A u \in Threads : u # t => job'[u] = job[u] /\ Invokes(u)' = Invokes(u)
    BY <1>1, <1>5 DEF Invokes
  <1>7. /\ Invocations(s)' = Invocations(s) \ {t}
        /\ \A r : r # s => Invocations(r)' = Invocations(r)
    BY <1>0, <1>1, <1>5, <1>6 DEF Invocations, Invokes
  <1>8. ExecutingApart'
    BY <1>2 DEF OwnershipInv, ExecutingApart
  <1>9. OwnersApart'
    BY <1>2, <1>4, <1>5, <1>6 DEF OwnershipInv, OwnersApart, Owns
  <1>10. InvocationsApart'
    BY <1>2, <1>6 DEF OwnershipInv, InvocationsApart
  <1>11. VarTaskAccounting'
    <2> SUFFICES ASSUME NEW r \in SubGroups PROVE Accounted(r)'
      BY DEF VarTaskAccounting, Accounted, Owns
    <2>0. Accounted(r)
      BY AccountedDef DEF OwnershipInv
    <2>1. CASE r # s
      <3>1. \A u \in Invocations(r) : job'[u].idx = job[u].idx
        BY <1>0, <1>1, <1>6, <2>1 DEF Invocations, Invokes
      <3>2. \A u \in Threads : Owns(u, r)' => Owns(u, r)
        BY <1>5, <1>6, <2>1 DEF Owns
      <3> QED  BY <1>2, <1>3, <1>7, <2>0, <2>1, <3>1, <3>2, AccountedFrame
    <2>2. CASE r = s
      <3>1. /\ varLeft[s] = varTask[s].cnt + Cardinality(Invocations(s))
            /\ \A u \in Invocations(s) : job[u].idx >= varTask[s].cnt
        BY <2>0, <2>2 DEF Accounted
      <3>2. Cardinality(Invocations(s)') = Cardinality(Invocations(s)) - 1
        BY <1>4, <1>7, InvocationsFinite, FS_RemoveElement
      <3>3. varLeft'[s] = varTask'[s].cnt + Cardinality(Invocations(s)')
        BY <1>2, <1>3, <3>1, <3>2, InvocationsFinite
      <3>4. \A u \in Invocations(s)' : job'[u].idx >= varTask'[s].cnt
        BY <1>2, <1>6, <1>7, <3>1, InvocationsFinite
      <3>5. ASSUME varLeft'[s] > 0 PROVE s \in executing' /\ ~\E u \in Threads : Owns(u, s)'
        <4>1. j.own = FALSE
          BY <1>3, <1>5, <3>5
        <4> QED  BY <1>2, <1>4, <1>6, <4>1 DEF Owns
      <3> QED  BY <2>2, <3>3, <3>4, <3>5 DEF Accounted
    <2> QED  BY <2>1, <2>2
  <1> QED  BY <1>8, <1>9, <1>10, <1>11 DEF OwnershipInv

\* leaveSubgroup clears the bit of a subgroup that only this thread was in.
LEMMA OwnershipLeave ==
    ASSUME LocalInv, OwnershipInv, NEW t \in Threads, LeaveSubgroup(t)
    PROVE  OwnershipInv'
  <1> DEFINE s == job[t].sub
  <1>1. /\ pc[t] = "leave" /\ pc \in [Threads -> Labels] /\ job \in [Threads -> Jobs]
        /\ job[t].own /\ s \in SubGroups
    BY ThreadHere DEF LeaveSubgroup, LocalInv, ThreadsOK, LocatedAt, Owning, Outside, Searching
  <1>2. /\ executing' = executing \ {s} /\ varTask' = varTask /\ varLeft' = varLeft
        /\ pc' = [pc EXCEPT ![t] = "load"] /\ job' = [job EXCEPT ![t] = NoJob]
    BY DEF LeaveSubgroup, SetJob, Goto
  <1>3. /\ varLeft[s] = 0 /\ \A u \in Threads : Owns(u, s) => u = t
    BY <1>1, OwnedHasNoInvocations
  <1>4. /\ job'[t].own = FALSE /\ ~Invokes(t) /\ ~Invokes(t)'
        /\ \A u \in Threads : u # t => job'[u] = job[u] /\ Invokes(u)' = Invokes(u)
    BY <1>1, <1>2 DEF NoJob, Invokes
  <1>5. \A r : Invocations(r)' = Invocations(r)
    BY <1>4 DEF Invocations, Invokes
  <1>6. ExecutingApart'
    BY <1>2 DEF OwnershipInv, ExecutingApart
  <1>7. OwnersApart'
    BY <1>2, <1>3, <1>4 DEF OwnershipInv, OwnersApart, Owns
  <1>8. InvocationsApart'
    BY <1>2, <1>4 DEF OwnershipInv, InvocationsApart
  <1>9. VarTaskAccounting'
    <2> SUFFICES ASSUME NEW r \in SubGroups PROVE Accounted(r)'
      BY DEF VarTaskAccounting, Accounted, Owns
    <2>1. Accounted(r)
      BY AccountedDef DEF OwnershipInv
    <2>2. \A u \in Invocations(r) : job'[u].idx = job[u].idx
      BY <1>4 DEF Invocations, Invokes
    <2>3. \A u \in Threads : Owns(u, r)' => Owns(u, r)
      BY <1>4 DEF Owns
    <2>4. CASE r # s
      BY <1>2, <1>5, <2>1, <2>2, <2>3, <2>4, AccountedFrame
    <2>5. CASE r = s
      BY <1>2, <1>3, <1>5, <2>1, <2>2, <2>5 DEF Accounted
    <2> QED  BY <2>4, <2>5
  <1> QED  BY <1>6, <1>7, <1>8, <1>9 DEF OwnershipInv

\* Nobody is in a subgroup of a graph that was just compiled.
LEMMA OwnershipInit == Init => OwnershipInv
  <1> SUFFICES ASSUME Init PROVE OwnershipInv
    OBVIOUS
  <1>1. \A t \in Threads : job[t] = NoJob /\ pc[t] = "exited" /\ job[t].own = FALSE
    BY DEF Init, NoJob
  <1>2. \A s \in SubGroups : Invocations(s) = {} /\ varTask[s].cnt = 0 /\ varLeft[s] = 0
    BY <1>1 DEF Init, Invocations, NoVarTask
  <1> QED  BY <1>1, <1>2, FS_EmptySet
           DEF Init, OwnershipInv, ExecutingApart, OwnersApart, InvocationsApart, Invokes,
               VarTaskAccounting

\* No thread is in a subgroup when an execution is prepared.
LEMMA OwnershipPrepare ==
    ASSUME LocalInv, OwnershipInv, Prepare
    PROVE  OwnershipInv'
  <1>1. \A t \in Threads : job[t].own = FALSE /\ ~Invokes(t) /\ ~Invokes(t)'
    BY ThreadHere DEF Prepare, AllExited, LocalInv, LocatedAt, Outside, Jobs, Invokes
  <1>2. UNCHANGED <<executing, varTask, varLeft, job>>
    BY DEF Prepare
  <1>3. KeepsOwnership
    BY <1>1, <1>2 DEF KeepsOwnership, Invokes
  <1> QED  BY <1>3, OwnershipFrame

\* Every step keeps the ownership invariant.
LEMMA OwnershipStep == LocalInv /\ OwnershipInv /\ [Next]_vars => OwnershipInv'
  <1> SUFFICES ASSUME LocalInv, OwnershipInv, [Next]_vars PROVE OwnershipInv'
    OBVIOUS
  <1>1. CASE UNCHANGED vars \/ Finished
    <2>1. KeepsOwnership
      BY <1>1 DEF vars, graphState, Finished, KeepsOwnership, Invokes
    <2> QED  BY <2>1, OwnershipFrame
  <1>2. CASE Prepare
    BY <1>2, OwnershipPrepare
  <1>3. ASSUME NEW t \in Threads, Step(t) PROVE OwnershipInv'
    BY <1>3, OwnershipEnter, OwnershipAcquire, OwnershipWake, OwnershipWindUp, OwnershipFinish,
       OwnershipLeave, OwnershipKept, OwnershipFrame DEF Step
  <1> QED  BY <1>1, <1>2, <1>3 DEF Next

\* The ownership invariant holds in every state of every execution.
LEMMA OwnershipInvariant == Spec => [](LocalInv /\ OwnershipInv)
  <1>1. LocalInv /\ OwnershipInv /\ [Next]_vars => (LocalInv /\ OwnershipInv)'
    BY LocalStep, OwnershipStep
  <1> QED  BY <1>1, LocalInit, OwnershipInit, PTL DEF Spec

\* The invocations of a variadic task are accounted for: curVarTask and the threads
\* that run invocations add up to remainingVarTasks, no index is handed out twice, and
\* the subgroup stays closed with no owner (doSubGroup, tryAcquireVarTask, doVarTask).
THEOREM InvocationsAccounted == Spec => []VarTaskAccounting
  <1>1. OwnershipInv => VarTaskAccounting
    BY DEF OwnershipInv
  <1> QED  BY <1>1, OwnershipInvariant, PTL

\* Task functions that run at the same time belong to subgroups that do not exclude
\* each other, or are invocations of one self-parallel task with different indices
\* (tryEnterSubgroup's CAS, leaveSubgroup, doVarTask).
THEOREM MutualExclusionHolds == Spec => []MutualExclusion
  <1>1. LocalInv /\ OwnershipInv => MutualExclusion
    <2> SUFFICES ASSUME LocalInv, OwnershipInv, NEW t \in Threads, NEW u \in Threads, t # u,
                        Running(t), Running(u), job[u].sub \in Excluded[job[t].sub]
                 PROVE  /\ pc[t] = "piece" /\ pc[u] = "piece"
                        /\ job[t].task = job[u].task /\ job[t].task \in SelfParallel
                        /\ job[t].idx # job[u].idx
      BY DEF MutualExclusion
    <2>1. \A w \in Threads : Running(w) =>
            /\ job[w].sub \in SubGroups
            /\ \/ pc[w] = "run" /\ job[w].own
               \/ pc[w] = "piece" /\ Invokes(w)
      BY ThreadHere DEF LocalInv, LocatedAt, Running, Outside, Searching, Owning, Invokes
    <2>2. \A w \in Threads : Running(w) => job[w].sub \in executing
      BY <2>1, OwnedHasNoInvocations, InvocationMeansLeft
    <2>3. job[t].sub = job[u].sub
      BY <2>2 DEF OwnershipInv, ExecutingApart
    <2>4. ~job[t].own /\ ~job[u].own
      BY <2>1, <2>3, OwnedHasNoInvocations DEF Owns
    <2>5. pc[t] = "piece" /\ pc[u] = "piece" /\ Invokes(t) /\ Invokes(u)
      BY <2>1, <2>4
    <2> QED  BY <2>3, <2>5 DEF OwnershipInv, InvocationsApart
  <1> QED  BY <1>1, OwnershipInvariant, PTL

------------------------------------------------------------------------------
(***************************************************************************)
(* No pending task is overlooked.  What a thread has noted of the tasks it *)
(* made pending is the inductive part: it publishes subgroups only while   *)
(* it notifies, and it does not leave its subgroup before it has read the  *)
(* states once more after its last task.                                   *)
(***************************************************************************)

\* The task is one of the thread's subgroup, or the exit of a sub-graph it skips.
AtHome(k, s) == SubGroupOf[k] = s \/ \E g \in SubGraphs : k = Exit[g]

NotedAt(l, j) ==
    /\ l # "notify" => j.publish = {}
    /\ l \in {"run", "windup", "skip", "reset", "restart"} => j.again
    /\ l \in {"done", "notify"} => j.again \/ j.fresh
    /\ l = "scan" => ~j.fresh
    /\ l = "leave" => ~j.again /\ ~j.fresh
    /\ l \in OnTask \/ (l \in Waking /\ ~j.own) => AtHome(j.task, j.sub)
    /\ l = "notify" => j.todo \subseteq NextTasks[j.task]
    /\ l = "restart" => j.todo = {}

\* Thread t keeps task k from being overlooked, by its place l and its job j.
CoversAt(l, j, k) ==
    LET s == SubGroupOf[k]
    IN  \/ s \in j.publish
        \/ j.own /\ j.sub = s /\ (l \in {"gather", "wake", "clear"} \/ j.again \/ j.fresh)
        \/ l = "announce" /\ j.sub = s
        \/ l = "scan" /\ j.sub = s /\ k \notin j.scanned

VarTasksAtHome == \A s \in SubGroups : varTask[s].cnt > 0 => AtHome(varTask[s].task, s)

AllNoted == VarTasksAtHome /\ \A t \in Threads : NotedAt(pc[t], job[t])

\* After a step of thread t, which ends at l with job j, no pending task depends
\* on what t did for it before.
SeenTo(t, l, j) ==
    \A k \in Tasks : state'[k] = "PENDING" =>
        \/ SubGroupOf[k] \in pending' \/ CoversAt(l, j, k)
        \/ /\ state[k] = "PENDING" /\ SubGroupOf[k] \notin pending
           /\ ~CoversAt(pc[t], job[t], k)

LookoutInv == AllNoted /\ NoLostWork

\* NoLostWork in terms of what covers a task.
LEMMA NoLostWorkDef ==
    NoLostWork <=> \A k \in Tasks : state[k] = "PENDING" =>
        SubGroupOf[k] \in pending \/ \E t \in Threads : CoversAt(pc[t], job[t], k)
  BY DEF NoLostWork, CoversAt, Rescans

\* A step of one thread keeps the lookout invariant if the thread has noted what it
\* must and drops no task that only it covers.
LEMMA LookoutFrame ==
    ASSUME LocalInv, LookoutInv, NEW t \in Threads, NEW l, NEW j,
           pc' = [pc EXCEPT ![t] = l], job' = [job EXCEPT ![t] = j], NotedAt(l, j),
           VarTasksAtHome', SeenTo(t, l, j)
    PROVE  LookoutInv'
  <1>1. /\ pc'[t] = l /\ job'[t] = j
        /\ \A u \in Threads : u # t => pc'[u] = pc[u] /\ job'[u] = job[u]
    BY DEF LocalInv, ThreadsOK
  <1>2. AllNoted'
    <2>1. \A u \in Threads : NotedAt(pc'[u], job'[u])
      <3> SUFFICES ASSUME NEW u \in Threads PROVE NotedAt(pc'[u], job'[u])
        OBVIOUS
      <3>1. CASE u = t
        BY <1>1, <3>1
      <3>2. CASE u # t
        <4>1. pc'[u] = pc[u] /\ job'[u] = job[u]
          BY <1>1, <3>2
        <4> QED  BY <4>1 DEF LookoutInv, AllNoted
      <3> QED  BY <3>1, <3>2
    <2> QED  BY <2>1 DEF AllNoted
  <1>3. NoLostWork'
    <2> SUFFICES ASSUME NEW k \in Tasks, state'[k] = "PENDING"
                 PROVE  \/ SubGroupOf[k] \in pending'
                        \/ \E u \in Threads : CoversAt(pc'[u], job'[u], k)
      BY DEF NoLostWork, CoversAt, Rescans
    <2>1. CASE SubGroupOf[k] \in pending' \/ CoversAt(l, j, k)
      BY <1>1, <2>1
    <2>2. CASE /\ state[k] = "PENDING" /\ SubGroupOf[k] \notin pending
               /\ ~CoversAt(pc[t], job[t], k)
      <3>1. PICK u \in Threads : CoversAt(pc[u], job[u], k)
        BY <2>2, NoLostWorkDef DEF LookoutInv
      <3>2. u # t
        BY <2>2, <3>1
      <3>3. pc'[u] = pc[u] /\ job'[u] = job[u]
        BY <1>1, <3>2
      <3>4. CoversAt(pc'[u], job'[u], k)
        BY <3>1, <3>3
      <3> QED  BY <3>4
    <2> QED  BY <2>1, <2>2 DEF SeenTo
  <1> QED  BY <1>2, <1>3 DEF LookoutInv

\* A thread that covers nothing makes no task pending and takes no bit away.
LEMMA StrangerLooks ==
    ASSUME LocalInv, LookoutInv, NEW t \in Threads, NEW l, NEW j,
           ~job[t].own, pc[t] \notin {"announce", "scan", "notify"},
           UNCHANGED <<pending, state>>,
           VarTasksAtHome',
           pc' = [pc EXCEPT ![t] = l], job' = [job EXCEPT ![t] = j], NotedAt(l, j)
    PROVE  LookoutInv'
  <1>1. NotedAt(pc[t], job[t])
    BY DEF LookoutInv, AllNoted
  <1>2. SeenTo(t, l, j)
    BY <1>1 DEF NotedAt, CoversAt, SeenTo
  <1> QED  BY <1>2, LookoutFrame

\* A thread that will read the states of its subgroup again.
LEMMA BusyLooks ==
    ASSUME LocalInv, LookoutInv, NEW t \in Threads, NEW l, NEW j,
           job[t].own, pc[t] \in Owning, varTask' = varTask,
           pc' = [pc EXCEPT ![t] = l], job' = [job EXCEPT ![t] = j], NotedAt(l, j),
           j.own = TRUE, j.sub = job[t].sub, j.again \/ j.fresh,
           pending \subseteq pending',
           \A s \in job[t].publish : s \in j.publish \/ s \in pending',
           \A k \in Tasks : state'[k] = "PENDING" =>
                \/ state[k] = "PENDING"
                \/ SubGroupOf[k] \in pending' \cup j.publish
                \/ SubGroupOf[k] = j.sub
    PROVE  LookoutInv'
  <1>1. SeenTo(t, l, j)
    BY DEF CoversAt, Owning, SeenTo
  <1>2. VarTasksAtHome'
    BY DEF LookoutInv, AllNoted, VarTasksAtHome
  <1> QED  BY <1>1, <1>2, LookoutFrame

\* afterTaskDone returns to a place where the thread will look again.
LEMMA AfterDoneNoted ==
    ASSUME NEW j, j.own = TRUE, j.again \/ j.fresh, AtHome(j.task, j.sub),
           j.todo \subseteq NextTasks[j.task]
    PROVE  NotedAt(AfterDone(j), j)
  BY DEF AfterDone, AfterTask, Owned, NotedAt, OnTask, Waking

\* A thread that is not in a subgroup has nothing to note.
LEMMA SearchNoted ==
    ASSUME NEW l \in Outside \cup Searching, NEW j, j.publish = {}
    PROVE  NotedAt(l, j)
  BY DEF NotedAt, Outside, Searching, OnTask, Waking

\* No step of a thread lets a pending task be overlooked.
LEMMA LookoutStep ==
    ASSUME LocalInv, LookoutInv, NEW t \in Threads, Step(t)
    PROVE  LookoutInv'
  <1> USE DEF LocalInv, SetFind, SetJob, Goto, graphState
  <1> DEFINE L == pc[t]  F == find[t]  J == job[t]
  <1>0. /\ L \in Labels /\ F \in Searches /\ J \in Jobs
        /\ LocatedAt(L, F, J)
        /\ pc = [pc EXCEPT ![t] = L] /\ job = [job EXCEPT ![t] = J]
    BY ThreadHere DEF ThreadsOK
  <1>1. NotedAt(L, J) /\ VarTasksAtHome
    BY DEF LookoutInv, AllNoted
  <1>2. CASE CallDoThread(t)
    <2>1. L \in Outside \cup Searching /\ J.own = FALSE
      BY <1>2, <1>0 DEF CallDoThread, LocatedAt, Outside, Searching
    <2>2. PICK l \in {"load"} : pc' = [pc EXCEPT ![t] = l]
      BY <1>2 DEF CallDoThread
    <2>3. job' = [job EXCEPT ![t] = J] /\ UNCHANGED <<pending, state, varTask>>
      BY <1>2, <1>0 DEF CallDoThread
    <2>4. J.publish = {} /\ L \notin {"announce", "scan", "notify"}
      BY <2>1, <1>1 DEF NotedAt, Outside, Searching
    <2>5. NotedAt(l, J)
      BY <2>4, SearchNoted DEF Outside, Searching
    <2>6. VarTasksAtHome'
      BY <1>1, <2>3 DEF VarTasksAtHome
    <2> QED  BY <2>1, <2>2, <2>3, <2>4, <2>5, <2>6, StrangerLooks
  <1>3. CASE LoadPending(t)
    <2>1. L \in Outside \cup Searching /\ J.own = FALSE
      BY <1>3, <1>0 DEF LoadPending, LocatedAt, Outside, Searching
    <2>2. PICK l \in {"load", "check", "look"} : pc' = [pc EXCEPT ![t] = l]
      <3>1. CASE NextGroup(t, F)
        BY <3>1 DEF NextGroup
      <3> QED  BY <1>3, <3>1 DEF LoadPending
    <2>3. job' = [job EXCEPT ![t] = J] /\ UNCHANGED <<pending, state, varTask>>
      BY <1>3, <1>0 DEF LoadPending
    <2>4. J.publish = {} /\ L \notin {"announce", "scan", "notify"}
      BY <2>1, <1>1 DEF NotedAt, Outside, Searching
    <2>5. NotedAt(l, J)
      BY <2>4, SearchNoted DEF Outside, Searching
    <2>6. VarTasksAtHome'
      BY <1>1, <2>3 DEF VarTasksAtHome
    <2> QED  BY <2>1, <2>2, <2>3, <2>4, <2>5, <2>6, StrangerLooks
  <1>4. CASE LoadExecuting(t)
    <2>1. L \in Outside \cup Searching /\ J.own = FALSE
      BY <1>4, <1>0 DEF LoadExecuting, LocatedAt, Outside, Searching
    <2>2. PICK l \in {"enter"} : pc' = [pc EXCEPT ![t] = l]
      BY <1>4 DEF LoadExecuting
    <2>3. job' = [job EXCEPT ![t] = J] /\ UNCHANGED <<pending, state, varTask>>
      BY <1>4, <1>0 DEF LoadExecuting
    <2>4. J.publish = {} /\ L \notin {"announce", "scan", "notify"}
      BY <2>1, <1>1 DEF NotedAt, Outside, Searching
    <2>5. NotedAt(l, J)
      BY <2>4, SearchNoted DEF Outside, Searching
    <2>6. VarTasksAtHome'
      BY <1>1, <2>3 DEF VarTasksAtHome
    <2> QED  BY <2>1, <2>2, <2>3, <2>4, <2>5, <2>6, StrangerLooks
  <1>5. CASE EnterFails(t)
    <2>1. L \in Outside \cup Searching /\ J.own = FALSE
      BY <1>5, <1>0 DEF EnterFails, LocatedAt, Outside, Searching
    <2>2. PICK l \in {"load", "check", "enter", "acquire"} : pc' = [pc EXCEPT ![t] = l]
      BY <1>5 DEF EnterFails, NextSubgroup, NextGroup
    <2>3. job' = [job EXCEPT ![t] = J] /\ UNCHANGED <<pending, state, varTask>>
      BY <1>5, <1>0 DEF EnterFails
    <2>4. J.publish = {} /\ L \notin {"announce", "scan", "notify"}
      BY <2>1, <1>1 DEF NotedAt, Outside, Searching
    <2>5. NotedAt(l, J)
      BY <2>4, SearchNoted DEF Outside, Searching
    <2>6. VarTasksAtHome'
      BY <1>1, <2>3 DEF VarTasksAtHome
    <2> QED  BY <2>1, <2>2, <2>3, <2>4, <2>5, <2>6, StrangerLooks
  <1>6. CASE CheckTask(t)
    <2>1. L = "check" /\ J.own = FALSE /\ J.publish = {} /\ UNCHANGED <<pending, state, varTask>>
      BY <1>6, <1>0, <1>1 DEF CheckTask, LocatedAt, Searching, Jobs, NotedAt
    <2>2. VarTasksAtHome'
      BY <1>1, <2>1 DEF VarTasksAtHome
    <2>3. PICK k \in Tasks :
              \/ SetJob(t, [J EXCEPT !.scanned = @ \cup {k}]) /\ UNCHANGED <<pc, find>>
              \/ Goto(t, "sleep") /\ UNCHANGED <<find, job>>
              \/ \E l \in {"exited", "waiting"} : Return(t, l)
      BY <1>6 DEF CheckTask
    <2>4. ASSUME SetJob(t, [J EXCEPT !.scanned = @ \cup {k}]), UNCHANGED <<pc, find>>
          PROVE  LookoutInv'
      <3>1. [J EXCEPT !.scanned = @ \cup {k}].publish = {}
        BY <1>0, <2>1 DEF Jobs
      <3>2. NotedAt("check", [J EXCEPT !.scanned = @ \cup {k}])
        BY <3>1, SearchNoted DEF Searching
      <3>3. pc' = [pc EXCEPT ![t] = "check"]
        BY <1>0, <2>1, <2>4
      <3> QED  BY <2>1, <2>2, <2>4, <3>2, <3>3, StrangerLooks
    <2>5. ASSUME Goto(t, "sleep"), UNCHANGED <<find, job>> PROVE LookoutInv'
      <3>1. job' = [job EXCEPT ![t] = J] /\ NotedAt("sleep", J)
        BY <1>0, <2>1, <2>5, SearchNoted DEF Searching
      <3> QED  BY <2>1, <2>2, <2>5, <3>1, StrangerLooks
    <2>6. ASSUME NEW l \in {"exited", "waiting"}, Return(t, l) PROVE LookoutInv'
      <3>1. NotedAt(l, NoJob)
        BY SearchNoted DEF NoJob, Outside
      <3> QED  BY <2>1, <2>2, <2>6, <3>1, StrangerLooks DEF Return
    <2> QED  BY <2>3, <2>4, <2>5, <2>6
  <1>7. CASE MarkSleeping(t)
    <2>1. L = "sleep" /\ J.own = FALSE /\ UNCHANGED <<pending, state, varTask>>
      BY <1>7, <1>0 DEF MarkSleeping, LocatedAt, Searching, Jobs
    <2>2. VarTasksAtHome' /\ NotedAt("waiting", NoJob)
      BY <1>1, <2>1, SearchNoted DEF VarTasksAtHome, NoJob, Outside
    <2>3. pc' = [pc EXCEPT ![t] = "waiting"] /\ job' = [job EXCEPT ![t] = NoJob]
      BY <1>7 DEF MarkSleeping, Return
    <2> QED  BY <2>1, <2>2, <2>3, StrangerLooks
  <1>8. CASE EnterSubgroup(t)
    <2>1. L = "enter" /\ J.own = FALSE /\ UNCHANGED <<pending, state, varTask>>
      BY <1>8, <1>0 DEF EnterSubgroup, LocatedAt, Searching, Jobs
    <2>2. PICK s : job' = [job EXCEPT ![t] = [NoJob EXCEPT !.sub = s, !.own = TRUE]]
      BY <1>8 DEF EnterSubgroup
    <2>3. pc' = [pc EXCEPT ![t] = Owned] /\ Owned \in {"gather", "clear"}
      BY <1>8, LabelsAfter DEF EnterSubgroup
    <2>4. NotedAt(Owned, [NoJob EXCEPT !.sub = s, !.own = TRUE])
      BY <2>3 DEF NotedAt, NoJob, OnTask, Waking
    <2>5. VarTasksAtHome'
      BY <1>1, <2>1 DEF VarTasksAtHome
    <2> QED  BY <2>1, <2>2, <2>3, <2>4, <2>5, StrangerLooks
  <1>9. CASE AcquireVarTask(t)
    <2> DEFINE j(s) == [NoJob EXCEPT !.sub = s, !.task = varTask[s].task,
                                     !.idx = varTask[s].cnt - 1]
    <2>1. L = "acquire" /\ J.own = FALSE /\ J.publish = {} /\ UNCHANGED <<pending, state>>
      BY <1>9, <1>0, <1>1 DEF AcquireVarTask, LocatedAt, Searching, Jobs, NotedAt
    <2>2. PICK s \in F.bits :
              \/ NextSubgroup(t, F, s) /\ UNCHANGED <<varTask, job>>
              \/ /\ varTask[s].cnt > 0
                 /\ varTask' = [varTask EXCEPT ![s] = OneLess(varTask[s])]
                 /\ SetJob(t, j(s)) /\ Goto(t, Piece(varTask[s].cnt))
      BY <1>9 DEF AcquireVarTask
    <2>3. s \in SubGroups /\ varTask[s] \in [task : Nat, cnt : Nat]
      BY <1>0 DEF LocalInv, SharedOK, Searches
    <2>4. ASSUME NextSubgroup(t, F, s), UNCHANGED <<varTask, job>> PROVE LookoutInv'
      <3>1. F.order \in GroupOrders
        BY <1>0, <2>1 DEF LocatedAt, Outside
      <3>2. PICK l \in {"load", "check", "enter"} : Goto(t, l)
        BY <1>0, <2>4, <3>1, NextSubgroupLocal
      <3>3. job' = [job EXCEPT ![t] = J] /\ NotedAt(l, J)
        BY <1>0, <2>1, <2>4, SearchNoted DEF Searching
      <3>4. VarTasksAtHome'
        BY <1>1, <2>4 DEF VarTasksAtHome
      <3> QED  BY <2>1, <3>2, <3>3, <3>4, StrangerLooks
    <2>5. ASSUME varTask[s].cnt > 0, varTask' = [varTask EXCEPT ![s] = OneLess(varTask[s])],
                 SetJob(t, j(s)), Goto(t, Piece(varTask[s].cnt))
          PROVE  LookoutInv'
      <3>1. /\ j(s).publish = {} /\ j(s).own = FALSE /\ j(s).sub = s
            /\ j(s).task = varTask[s].task
        BY DEF NoJob
      <3> HIDE DEF j
      <3>2. AtHome(varTask[s].task, s)
        BY <1>1, <2>3, <2>5 DEF VarTasksAtHome
      <3>3. Piece(varTask[s].cnt) \in {"gather", "piece"}
        BY DEF Piece
      <3>4. NotedAt(Piece(varTask[s].cnt), j(s))
        BY <3>1, <3>2, <3>3 DEF NotedAt
      <3>5. VarTasksAtHome'
        <4> SUFFICES ASSUME NEW r \in SubGroups, varTask'[r].cnt > 0
                     PROVE  AtHome(varTask'[r].task, r)
          BY DEF VarTasksAtHome
        <4>1. CASE r = s
          BY <2>3, <2>5, <3>2, <4>1, OneLessEffect DEF LocalInv, SharedOK
        <4>2. CASE r # s
          <5>1. varTask'[r] = varTask[r]
            BY <2>5, <4>2 DEF LocalInv, SharedOK
          <5> QED  BY <1>1, <5>1 DEF VarTasksAtHome
        <4> QED  BY <4>1, <4>2
      <3> QED  BY <2>1, <2>5, <3>4, <3>5, StrangerLooks
    <2> QED  BY <2>2, <2>4, <2>5
  <1>10. CASE GatherThreads(t)
    <2>1. L = "gather" /\ UNCHANGED <<pending, state, varTask>>
      BY <1>10 DEF GatherThreads
    <2>2. PICK w : job' = [job EXCEPT ![t] = [J EXCEPT !.wake = w]]
      BY <1>10 DEF GatherThreads
    <2>3. pc' = [pc EXCEPT ![t] = "wake"]
      BY <1>10 DEF GatherThreads
    <2>4. PICK j : j = [J EXCEPT !.wake = w]
      OBVIOUS
    <2>5. PICK l : l = "wake"
      OBVIOUS
    <2>6. /\ j.own = J.own /\ j.sub = J.sub /\ j.task = J.task /\ j.publish = J.publish
          /\ j.again = J.again /\ j.fresh = J.fresh
      BY <1>0, <2>4 DEF Jobs
    <2>7. NotedAt(l, j)
      BY <1>1, <2>1, <2>5, <2>6 DEF NotedAt, OnTask, Waking
    <2>8. SeenTo(t, l, j)
      BY <1>1, <2>1, <2>5, <2>6 DEF NotedAt, CoversAt, SeenTo
    <2>9. VarTasksAtHome'
      BY <1>1, <2>1 DEF VarTasksAtHome
    <2> QED  BY <2>2, <2>3, <2>4, <2>5, <2>7, <2>8, <2>9, LookoutFrame
  <1>11. CASE WakeThreads(t)
    <2>1. L = "wake" /\ UNCHANGED <<pending, state, varTask>>
      BY <1>11 DEF WakeThreads
    <2>2. job' = [job EXCEPT ![t] = [J EXCEPT !.wake = {}]]
      BY <1>11 DEF WakeThreads
    <2>3. pc' = [pc EXCEPT ![t] = IF J.own THEN "clear" ELSE "piece"]
      BY <1>11 DEF WakeThreads
    <2>4. PICK j : j = [J EXCEPT !.wake = {}]
      OBVIOUS
    <2>5. PICK l : l = IF J.own THEN "clear" ELSE "piece"
      OBVIOUS
    <2>6. /\ j.own = J.own /\ j.sub = J.sub /\ j.task = J.task /\ j.publish = J.publish
          /\ j.again = J.again /\ j.fresh = J.fresh
      BY <1>0, <2>4 DEF Jobs
    <2>7. NotedAt(l, j)
      BY <1>1, <2>1, <2>5, <2>6 DEF NotedAt, OnTask, Waking
    <2>8. SeenTo(t, l, j)
      BY <1>1, <2>1, <2>5, <2>6 DEF NotedAt, CoversAt, SeenTo
    <2>9. VarTasksAtHome'
      BY <1>1, <2>1 DEF VarTasksAtHome
    <2> QED  BY <2>2, <2>3, <2>4, <2>5, <2>7, <2>8, <2>9, LookoutFrame
  <1>12. CASE ClearPending(t)
    <2>1. PICK j : j = [NoJob EXCEPT !.sub = J.sub, !.own = TRUE]
      OBVIOUS
    <2>2. /\ L = "clear" /\ pending' = pending \ {J.sub} /\ UNCHANGED <<state, varTask>>
          /\ job' = [job EXCEPT ![t] = j] /\ pc' = [pc EXCEPT ![t] = "scan"]
      BY <1>12, <2>1 DEF ClearPending
    <2>3. /\ j.own = TRUE /\ j.sub = J.sub /\ j.publish = {} /\ j.scanned = {} /\ j.fresh = FALSE
          /\ J.publish = {}
      BY <1>1, <2>1, <2>2 DEF NoJob, NotedAt
    <2>4. NotedAt("scan", j)
      BY <2>3 DEF NotedAt, OnTask, Waking
    <2>5. SeenTo(t, "scan", j)
      BY <2>2, <2>3 DEF CoversAt, SeenTo
    <2>6. VarTasksAtHome'
      BY <1>1, <2>2 DEF VarTasksAtHome
    <2> QED  BY <2>2, <2>4, <2>5, <2>6, LookoutFrame
  <1>13. CASE PassTask(t)
    <2>1. PICK k \in Tasks :
              /\ Scans(t, k) /\ state[k] # "PENDING"
              /\ SetJob(t, [J EXCEPT !.scanned = @ \cup {k}])
              /\ Goto(t, AfterTask([J EXCEPT !.scanned = @ \cup {k}]))
      BY <1>13, Zenon DEF PassTask
    <2>2. PICK j : j = [J EXCEPT !.scanned = @ \cup {k}]
      OBVIOUS
    <2>3. /\ L = "scan" /\ UNCHANGED <<pending, state, varTask>>
          /\ job' = [job EXCEPT ![t] = j] /\ pc' = [pc EXCEPT ![t] = AfterTask(j)]
      BY <1>13, <2>1, <2>2 DEF PassTask, Scans
    <2>4. /\ j.own = J.own /\ j.sub = J.sub /\ j.publish = J.publish /\ j.again = J.again
          /\ j.fresh = J.fresh /\ j.scanned = J.scanned \cup {k}
      BY <1>0, <2>2 DEF Jobs
    <2>5. J.own = TRUE /\ J.publish = {} /\ ~J.fresh
      BY <1>0, <1>1, <2>3 DEF NotedAt, LocatedAt, Owning
    <2>6. NotedAt(AfterTask(j), j)
      BY <2>4, <2>5 DEF AfterTask, NotedAt, OnTask, Waking
    <2>7. SeenTo(t, AfterTask(j), j)
      <3> SUFFICES ASSUME NEW n \in Tasks, state[n] = "PENDING", CoversAt(L, J, n)
                   PROVE  CoversAt(AfterTask(j), j, n)
        BY <2>3 DEF SeenTo
      <3>1. SubGroupOf[n] = J.sub /\ n # k
        BY <2>1, <2>3, <2>5 DEF CoversAt
      <3>2. CASE J.again
        BY <2>4, <2>5, <3>1, <3>2 DEF CoversAt
      <3>3. CASE ~J.again
        <4>1. n \notin j.scanned
          BY <2>3, <2>4, <2>5, <3>1, <3>3 DEF CoversAt
        <4>2. n \in TasksOf(j.sub)
          BY <2>4, <3>1 DEF TasksOf
        <4>3. AfterTask(j) = "scan"
          BY <4>1, <4>2 DEF AfterTask
        <4> QED  BY <2>4, <3>1, <4>1, <4>3 DEF CoversAt
      <3> QED  BY <3>2, <3>3
    <2>8. VarTasksAtHome'
      BY <1>1, <2>3 DEF VarTasksAtHome
    <2> QED  BY <2>3, <2>6, <2>7, <2>8, LookoutFrame
  <1>14. CASE StartTask(t)
    <2>1. PICK k \in Tasks \ SubGraphEnds :
              /\ Scans(t, k)
              /\ state' = [state EXCEPT ![k] = "EXECUTING"]
              /\ \E n \in TaskNum[k] :
                  IF n < 2 \/ k \notin SelfParallel
                  THEN SetJob(t, Take(t, k)) /\ Goto(t, "run")
                  ELSE SetJob(t, [Take(t, k) EXCEPT !.idx = n]) /\ Goto(t, "windup")
      BY <1>14, Zenon DEF StartTask
    <2>2. PICK n \in TaskNum[k] :
              \/ SetJob(t, Take(t, k)) /\ Goto(t, "run")
              \/ SetJob(t, [Take(t, k) EXCEPT !.idx = n]) /\ Goto(t, "windup")
      BY <2>1, Zenon
    <2>3. PICK j : /\ j = Take(t, k) \/ j = [Take(t, k) EXCEPT !.idx = n]
                   /\ SetJob(t, j) /\ (Goto(t, "run") \/ Goto(t, "windup"))
      BY <2>2
    <2>4. /\ L = "scan" /\ J.own = TRUE /\ J.publish = {} /\ SubGroupOf[k] = J.sub
          /\ UNCHANGED <<pending, varTask>>
      BY <1>14, <1>0, <1>1, <2>1 DEF StartTask, Scans, NotedAt, LocatedAt, Owning, Lowest, TasksOf
    <2>5. j.own = TRUE /\ j.sub = J.sub /\ j.publish = {} /\ j.again = TRUE /\ j.task = k
      BY <1>0, <2>3, <2>4 DEF Jobs, Take
    <2>6. NotedAt("run", j) /\ NotedAt("windup", j)
      BY <2>4, <2>5 DEF NotedAt, AtHome
    <2>7. \A m \in Tasks : state'[m] = "PENDING" => state[m] = "PENDING"
      BY <2>1 DEF LocalInv, SharedOK
    <2> QED  BY <2>3, <2>4, <2>5, <2>6, <2>7, BusyLooks DEF Owning
  <1>15. CASE WindUpVarTask(t)
    <2>1. PICK j, s : j = [NoJob EXCEPT !.sub = s] /\ s = J.sub
      OBVIOUS
    <2>2. /\ L = "windup" /\ UNCHANGED <<pending, state>>
          /\ varTask' = [varTask EXCEPT ![s] = [task |-> J.task, cnt |-> J.idx]]
          /\ job' = [job EXCEPT ![t] = j] /\ pc' = [pc EXCEPT ![t] = "announce"]
      BY <1>15, <2>1 DEF WindUpVarTask
    <2>3. j.own = FALSE /\ j.sub = s /\ j.publish = {} /\ J.publish = {} /\ AtHome(J.task, s)
      BY <1>1, <2>1, <2>2 DEF NoJob, NotedAt, OnTask
    <2>4. NotedAt("announce", j)
      BY <2>3 DEF NotedAt, OnTask, Waking
    <2>5. SeenTo(t, "announce", j)
      BY <2>1, <2>2, <2>3 DEF CoversAt, SeenTo
    <2>6. VarTasksAtHome'
      <3> SUFFICES ASSUME NEW r \in SubGroups, varTask'[r].cnt > 0
                   PROVE  AtHome(varTask'[r].task, r)
        BY DEF VarTasksAtHome
      <3>1. CASE r = s
        BY <2>2, <2>3, <3>1 DEF LocalInv, SharedOK
      <3>2. CASE r # s
        <4>1. varTask'[r] = varTask[r]
          BY <2>2, <3>2 DEF LocalInv, SharedOK
        <4> QED  BY <1>1, <4>1 DEF VarTasksAtHome
      <3> QED  BY <3>1, <3>2
    <2> QED  BY <2>2, <2>4, <2>5, <2>6, LookoutFrame
  <1>16. CASE AnnounceVarTask(t)
    <2>1. /\ L = "announce" /\ J.own = FALSE /\ J.publish = {} /\ UNCHANGED <<state, varTask>>
          /\ pending' = pending \cup {J.sub}
          /\ job' = [job EXCEPT ![t] = NoJob] /\ pc' = [pc EXCEPT ![t] = "load"]
      BY <1>16, <1>0, <1>1 DEF AnnounceVarTask, LocatedAt, Jobs, NotedAt
    <2>2. NotedAt("load", NoJob)
      BY SearchNoted DEF NoJob, Searching
    <2>3. SeenTo(t, "load", NoJob)
      BY <2>1 DEF CoversAt, SeenTo
    <2>4. VarTasksAtHome'
      BY <1>1, <2>1 DEF VarTasksAtHome
    <2> QED  BY <2>1, <2>2, <2>3, <2>4, LookoutFrame
  <1>17. CASE FinishVarTask(t)
    <2>1. /\ L = "piece" /\ J.own = FALSE /\ J.publish = {} /\ AtHome(J.task, J.sub)
          /\ UNCHANGED <<pending, state, varTask>> /\ F.order \in GroupOrders
      BY <1>17, <1>0, <1>1 DEF FinishVarTask, LocatedAt, Jobs, NotedAt, OnTask, Outside
    <2>2. VarTasksAtHome'
      BY <1>1, <2>1 DEF VarTasksAtHome
    <2>3. CASE varLeft[J.sub] = 1
      <3>1. PICK j : j = [J EXCEPT !.own = TRUE, !.fresh = TRUE]
        OBVIOUS
      <3>2. job' = [job EXCEPT ![t] = j] /\ pc' = [pc EXCEPT ![t] = "done"]
        BY <1>17, <2>3, <3>1 DEF FinishVarTask
      <3>3. j.publish = {} /\ j.fresh = TRUE /\ j.task = J.task /\ j.sub = J.sub
        BY <1>0, <2>1, <3>1 DEF Jobs
      <3>4. NotedAt("done", j)
        BY <2>1, <3>3 DEF NotedAt
      <3> QED  BY <2>1, <2>2, <3>2, <3>4, StrangerLooks
    <2>4. CASE varLeft[J.sub] # 1
      <3>1. NextSubgroup(t, F, J.sub) /\ job' = [job EXCEPT ![t] = NoJob]
        BY <1>17, <2>4 DEF FinishVarTask
      <3>2. PICK l \in {"load", "check", "enter"} : Goto(t, l)
        BY <1>0, <2>1, <3>1, NextSubgroupLocal
      <3>3. NotedAt(l, NoJob)
        BY SearchNoted DEF NoJob, Searching
      <3> QED  BY <2>1, <2>2, <3>1, <3>2, <3>3, StrangerLooks
    <2> QED  BY <2>3, <2>4
  <1>18. CASE LeaveSubgroup(t)
    <2>1. /\ L = "leave" /\ J.publish = {} /\ ~J.again /\ ~J.fresh
          /\ UNCHANGED <<pending, state, varTask>>
          /\ job' = [job EXCEPT ![t] = NoJob] /\ pc' = [pc EXCEPT ![t] = "load"]
      BY <1>18, <1>1 DEF LeaveSubgroup, NotedAt
    <2>2. NotedAt("load", NoJob)
      BY SearchNoted DEF NoJob, Searching
    <2>3. SeenTo(t, "load", NoJob)
      BY <2>1 DEF CoversAt, SeenTo
    <2>4. VarTasksAtHome'
      BY <1>1, <2>1 DEF VarTasksAtHome
    <2> QED  BY <2>1, <2>2, <2>3, <2>4, LookoutFrame
  <1>19. CASE MarkDone(t)
    <2>1. PICK j : j = [J EXCEPT !.todo = NextTasks[J.task]]
      OBVIOUS
    <2>2. /\ L \in {"run", "done"} /\ UNCHANGED <<pending, varTask>>
          /\ state' = [state EXCEPT ![J.task] = "DONE"]
          /\ job' = [job EXCEPT ![t] = j] /\ pc' = [pc EXCEPT ![t] = AfterDone(j)]
      BY <1>19, <2>1 DEF MarkDone
    <2>3. J.own = TRUE /\ J.publish = {} /\ (J.again \/ J.fresh) /\ AtHome(J.task, J.sub)
      BY <1>0, <1>1, <2>2 DEF NotedAt, LocatedAt, Owning, OnTask
    <2>4. /\ j.own = TRUE /\ j.sub = J.sub /\ (j.again \/ j.fresh) /\ j.task = J.task
          /\ j.publish = {} /\ j.todo = NextTasks[j.task]
      BY <1>0, <2>1, <2>3 DEF Jobs
    <2>5. NotedAt(AfterDone(j), j)
      BY <2>3, <2>4, AfterDoneNoted
    <2>6. \A k \in Tasks : state'[k] = "PENDING" => state[k] = "PENDING"
      BY <2>2 DEF LocalInv, SharedOK
    <2> QED  BY <2>2, <2>3, <2>4, <2>5, <2>6, BusyLooks DEF Owning
  <1>20. CASE NotifyNext(t)
    <2> DEFINE counted(n) == IF Target(n) = 0 THEN 0 ELSE deps[n] + 1
               other(n) == SubGroupOf[n] # SubGroupOf[J.task]
               P(n) == IF counted(n) = Target(n) /\ other(n)
                       THEN J.publish \cup {SubGroupOf[n]} ELSE J.publish
    <2>1. \E n \in J.todo :
              /\ SetJob(t, [J EXCEPT !.todo = @ \ {n}, !.publish = P(n)])
              /\ Goto(t, AfterDone([J EXCEPT !.todo = @ \ {n}, !.publish = P(n)]))
              /\ state' = IF counted(n) = Target(n)
                          THEN [state EXCEPT ![n] = "PENDING"] ELSE state
      BY <1>20 DEF NotifyNext
    <2> HIDE DEF P, counted
    <2>2. PICK n \in J.todo :
              /\ SetJob(t, [J EXCEPT !.todo = @ \ {n}, !.publish = P(n)])
              /\ Goto(t, AfterDone([J EXCEPT !.todo = @ \ {n}, !.publish = P(n)]))
              /\ state' = IF counted(n) = Target(n)
                          THEN [state EXCEPT ![n] = "PENDING"] ELSE state
      BY <2>1, Zenon
    <2>3. PICK j : j = [J EXCEPT !.todo = @ \ {n}, !.publish = P(n)]
      OBVIOUS
    <2>4. L = "notify" /\ UNCHANGED <<pending, varTask>>
      BY <1>20 DEF NotifyNext
    <2>5. job' = [job EXCEPT ![t] = j] /\ pc' = [pc EXCEPT ![t] = AfterDone(j)]
      BY <2>2, <2>3
    <2>6. J.own = TRUE /\ (J.again \/ J.fresh) /\ AtHome(J.task, J.sub) /\ n \in Tasks
          /\ J.todo \subseteq NextTasks[J.task] /\ J.task \in Tasks
      BY <1>0, <1>1, <2>4 DEF NotedAt, LocatedAt, Owning, OnTask, Jobs
    <2>7. /\ j.own = TRUE /\ j.sub = J.sub /\ (j.again \/ j.fresh) /\ j.task = J.task
          /\ j.publish = P(n) /\ j.todo \subseteq NextTasks[j.task]
      BY <1>0, <2>3, <2>6 DEF Jobs
    <2>8. NotedAt(AfterDone(j), j)
      BY <2>6, <2>7, AfterDoneNoted
    <2>9. \A s \in J.publish : s \in j.publish
      BY <2>7 DEF P
    <2>10. \A k \in Tasks : state'[k] = "PENDING" =>
              \/ state[k] = "PENDING"
              \/ SubGroupOf[k] \in pending' \cup j.publish
              \/ SubGroupOf[k] = j.sub
      <3> SUFFICES ASSUME NEW k \in Tasks, state'[k] = "PENDING", state[k] # "PENDING"
                   PROVE  SubGroupOf[k] \in j.publish \/ SubGroupOf[k] = j.sub
        OBVIOUS
      <3>1. k = n /\ counted(n) = Target(n)
        BY <2>2 DEF LocalInv, SharedOK
      <3>2. CASE SubGroupOf[n] # SubGroupOf[J.task]
        BY <2>7, <3>1, <3>2 DEF P
      <3>3. CASE SubGroupOf[n] = SubGroupOf[J.task]
        <4>1. CASE SubGroupOf[J.task] = J.sub
          BY <2>7, <3>1, <3>3, <4>1
        <4>2. CASE SubGroupOf[J.task] # J.sub
          <5>1. PICK g \in SubGraphs : J.task = Exit[g]
            BY <2>6, <4>2 DEF AtHome
          <5>2. n \in TasksOf(SubGroupOf[Exit[g]])
            BY <2>6, <3>3, <5>1 DEF TasksOf
          <5>3. TasksOf(SubGroupOf[Exit[g]]) = {Exit[g]}
            BY <5>1, GraphAssumption DEF WellFormed
          <5>4. n = J.task
            BY <5>1, <5>2, <5>3
          <5>5. n \in NextTasks[J.task]
            BY <2>6
          <5> QED  BY <2>6, <5>4, <5>5, GraphAssumption DEF WellFormed
        <4> QED  BY <4>1, <4>2
      <3> QED  BY <3>2, <3>3
    <2> QED  BY <2>4, <2>5, <2>6, <2>7, <2>8, <2>9, <2>10, BusyLooks DEF Owning
  <1>21. CASE PublishGroup(t)
    <2>1. PICK g \in Groups :
              /\ pending' = pending \cup (J.publish \cap Members(g))
              /\ SetJob(t, [J EXCEPT !.publish = @ \ Members(g)])
              /\ Goto(t, AfterDone([J EXCEPT !.publish = @ \ Members(g)]))
      BY <1>21, Zenon DEF PublishGroup
    <2>2. PICK j : j = [J EXCEPT !.publish = @ \ Members(g)]
      OBVIOUS
    <2>3. /\ L = "notify" /\ J.todo = {} /\ UNCHANGED <<state, varTask>>
          /\ job' = [job EXCEPT ![t] = j] /\ pc' = [pc EXCEPT ![t] = AfterDone(j)]
      BY <1>21, <2>1, <2>2 DEF PublishGroup
    <2>4. J.own = TRUE /\ (J.again \/ J.fresh) /\ AtHome(J.task, J.sub)
      BY <1>0, <1>1, <2>3 DEF NotedAt, LocatedAt, Owning, OnTask
    <2>5. /\ j.own = TRUE /\ j.sub = J.sub /\ (j.again \/ j.fresh) /\ j.task = J.task
          /\ j.publish = J.publish \ Members(g) /\ j.todo = {}
      BY <1>0, <2>2, <2>3, <2>4 DEF Jobs
    <2>6. NotedAt(AfterDone(j), j)
      BY <2>4, <2>5, AfterDoneNoted
    <2>7. \A s \in J.publish : s \in j.publish \/ s \in pending'
      BY <2>1, <2>5
    <2> QED  BY <2>1, <2>3, <2>4, <2>5, <2>6, <2>7, BusyLooks DEF Owning
  <1>22. CASE EnterSubGraph(t)
    <2>1. PICK g \in SubGraphs :
              /\ Scans(t, Entry[g])
              /\ \E l \in {"done", "skip", "reset"} :
                  /\ Goto(t, l)
                  /\ \/ SetJob(t, Take(t, Entry[g]))
                     \/ SetJob(t, [Take(t, Entry[g]) EXCEPT !.todo = Body[g]])
      BY <1>22 DEF EnterSubGraph
    <2>2. PICK l \in {"done", "skip", "reset"} :
              /\ Goto(t, l)
              /\ \/ SetJob(t, Take(t, Entry[g]))
                 \/ SetJob(t, [Take(t, Entry[g]) EXCEPT !.todo = Body[g]])
      BY <2>1, Zenon
    <2>3. PICK j : /\ SetJob(t, j)
                   /\ \/ j = Take(t, Entry[g])
                      \/ j = [Take(t, Entry[g]) EXCEPT !.todo = Body[g]]
      BY <2>2, Zenon
    <2>4. /\ L = "scan" /\ J.own = TRUE /\ J.publish = {} /\ SubGroupOf[Entry[g]] = J.sub
          /\ UNCHANGED <<pending, state, varTask>>
      BY <1>22, <1>0, <1>1, <2>1
         DEF EnterSubGraph, Scans, NotedAt, LocatedAt, Owning, Lowest, TasksOf
    <2>5. j.own = TRUE /\ j.sub = J.sub /\ j.publish = {} /\ j.again = TRUE /\ j.task = Entry[g]
      BY <1>0, <2>3, <2>4 DEF Jobs, Take
    <2>6. NotedAt(l, j)
      BY <2>2, <2>4, <2>5 DEF NotedAt, AtHome
    <2> QED  BY <2>2, <2>3, <2>4, <2>5, <2>6, BusyLooks DEF Owning
  <1>23. CASE LeaveSubGraph(t)
    <2>1. PICK g \in SubGraphs :
              /\ Scans(t, Exit[g])
              /\ \E l \in {"done", "reset"} :
                  /\ Goto(t, l)
                  /\ \/ SetJob(t, Take(t, Exit[g]))
                     \/ SetJob(t, [Take(t, Exit[g]) EXCEPT !.todo = Body[g]])
      BY <1>23 DEF LeaveSubGraph
    <2>2. PICK l \in {"done", "reset"} :
              /\ Goto(t, l)
              /\ \/ SetJob(t, Take(t, Exit[g]))
                 \/ SetJob(t, [Take(t, Exit[g]) EXCEPT !.todo = Body[g]])
      BY <2>1, Zenon
    <2>3. PICK j : /\ SetJob(t, j)
                   /\ \/ j = Take(t, Exit[g])
                      \/ j = [Take(t, Exit[g]) EXCEPT !.todo = Body[g]]
      BY <2>2, Zenon
    <2>4. /\ L = "scan" /\ J.own = TRUE /\ J.publish = {} /\ SubGroupOf[Exit[g]] = J.sub
          /\ UNCHANGED <<pending, state, varTask>>
      BY <1>23, <1>0, <1>1, <2>1
         DEF LeaveSubGraph, Scans, NotedAt, LocatedAt, Owning, Lowest, TasksOf
    <2>5. j.own = TRUE /\ j.sub = J.sub /\ j.publish = {} /\ j.again = TRUE /\ j.task = Exit[g]
      BY <1>0, <2>3, <2>4 DEF Jobs, Take
    <2>6. NotedAt(l, j)
      BY <2>2, <2>4, <2>5 DEF NotedAt, AtHome
    <2> QED  BY <2>2, <2>3, <2>4, <2>5, <2>6, BusyLooks DEF Owning
  <1>24. CASE SkipTask(t)
    <2>1. PICK k \in J.todo :
              /\ state' = [state EXCEPT ![k] = "DONE"]
              /\ SetJob(t, [J EXCEPT !.todo = @ \ {k}])
      BY <1>24, Zenon DEF SkipTask
    <2>2. PICK j : j = [J EXCEPT !.todo = @ \ {k}]
      OBVIOUS
    <2>3. /\ L = "skip" /\ UNCHANGED <<pending, varTask>>
          /\ job' = [job EXCEPT ![t] = j] /\ pc' = [pc EXCEPT ![t] = "skip"]
      BY <1>24, <1>0, <2>1, <2>2 DEF SkipTask
    <2>4. J.own = TRUE /\ J.again /\ J.publish = {} /\ AtHome(J.task, J.sub)
      BY <1>0, <1>1, <2>3 DEF NotedAt, LocatedAt, Owning, OnTask
    <2>5. /\ j.own = TRUE /\ j.sub = J.sub /\ j.again /\ j.task = J.task /\ j.publish = {}
      BY <1>0, <2>2, <2>4 DEF Jobs
    <2>6. NotedAt("skip", j) /\ NotedAt("reset", j)
      BY <2>4, <2>5 DEF NotedAt
    <2>7. \A m \in Tasks : state'[m] = "PENDING" => state[m] = "PENDING"
      BY <2>1 DEF LocalInv, SharedOK
    <2> QED  BY <2>3, <2>4, <2>5, <2>6, <2>7, BusyLooks DEF Owning
  <1>25. CASE ResetTask(t)
    <2>1. PICK k \in J.todo :
              /\ state' = [state EXCEPT ![k] = "NONE"]
              /\ SetJob(t, [J EXCEPT !.todo = @ \ {k}])
      BY <1>25, Zenon DEF ResetTask, Reset
    <2>2. PICK j : j = [J EXCEPT !.todo = @ \ {k}]
      OBVIOUS
    <2>3. /\ L = "reset" /\ UNCHANGED <<pending, varTask>>
          /\ job' = [job EXCEPT ![t] = j] /\ pc' = [pc EXCEPT ![t] = "reset"]
      BY <1>25, <1>0, <2>1, <2>2 DEF ResetTask
    <2>4. J.own = TRUE /\ J.again /\ J.publish = {} /\ AtHome(J.task, J.sub)
      BY <1>0, <1>1, <2>3 DEF NotedAt, LocatedAt, Owning, OnTask
    <2>5. /\ j.own = TRUE /\ j.sub = J.sub /\ j.again /\ j.task = J.task /\ j.publish = {}
      BY <1>0, <2>2, <2>4 DEF Jobs
    <2>6. NotedAt("skip", j) /\ NotedAt("reset", j)
      BY <2>4, <2>5 DEF NotedAt
    <2>7. \A m \in Tasks : state'[m] = "PENDING" => state[m] = "PENDING"
      BY <2>1 DEF LocalInv, SharedOK
    <2> QED  BY <2>3, <2>4, <2>5, <2>6, <2>7, BusyLooks DEF Owning
  <1>26. CASE SkipEnds(t)
    <2>1. PICK g \in SubGraphs :
              /\ state' = [state EXCEPT ![Entry[g]] = "DONE"]
              /\ SetJob(t, [J EXCEPT !.task = Exit[g]])
      BY <1>26, Zenon DEF SkipEnds
    <2>2. PICK j : j = [J EXCEPT !.task = Exit[g]]
      OBVIOUS
    <2>3. /\ L = "skip" /\ UNCHANGED <<pending, varTask>>
          /\ job' = [job EXCEPT ![t] = j] /\ pc' = [pc EXCEPT ![t] = "done"]
      BY <1>26, <2>1, <2>2 DEF SkipEnds
    <2>4. J.own = TRUE /\ J.again /\ J.publish = {}
      BY <1>0, <1>1, <2>3 DEF NotedAt, LocatedAt, Owning
    <2>5. /\ j.own = TRUE /\ j.sub = J.sub /\ j.again /\ j.task = Exit[g] /\ j.publish = {}
      BY <1>0, <2>2, <2>4 DEF Jobs
    <2>6. NotedAt("done", j)
      BY <2>5 DEF NotedAt, AtHome
    <2>7. \A m \in Tasks : state'[m] = "PENDING" => state[m] = "PENDING"
      BY <2>1 DEF LocalInv, SharedOK
    <2> QED  BY <2>3, <2>4, <2>5, <2>6, <2>7, BusyLooks DEF Owning
  <1>27. CASE ResetExit(t)
    <2>1. PICK g \in SubGraphs, l \in {"done", "restart"} :
              state' = [state EXCEPT ![Exit[g]] = "NONE"] /\ Goto(t, l)
      BY <1>27 DEF ResetExit, Reset
    <2>2. /\ L = "reset"
          /\ J.todo = {}
          /\ UNCHANGED <<pending, varTask>>
          /\ job' = [job EXCEPT ![t] = J]
      BY <1>27, <1>0 DEF ResetExit
    <2>3. J.own = TRUE /\ J.again /\ J.publish = {} /\ AtHome(J.task, J.sub)
      BY <1>0, <1>1, <2>2 DEF NotedAt, LocatedAt, Owning, OnTask
    <2>4. NotedAt(l, J)
      BY <2>2, <2>3 DEF NotedAt
    <2>5. \A m \in Tasks : state'[m] = "PENDING" => state[m] = "PENDING"
      BY <2>1 DEF LocalInv, SharedOK
    <2> QED  BY <2>1, <2>2, <2>3, <2>4, <2>5, BusyLooks DEF Owning
  <1>28. CASE RestartSubGraph(t)
    <2>1. PICK g \in SubGraphs :
              /\ state' = [state EXCEPT ![Entry[g]] = "PENDING"]
              /\ SetJob(t, [J EXCEPT !.publish = {SubGroupOf[Entry[g]]}])
      BY <1>28, Zenon DEF RestartSubGraph
    <2>2. PICK j : j = [J EXCEPT !.publish = {SubGroupOf[Entry[g]]}]
      OBVIOUS
    <2>3. /\ L = "restart" /\ UNCHANGED <<pending, varTask>>
          /\ job' = [job EXCEPT ![t] = j] /\ pc' = [pc EXCEPT ![t] = "notify"]
      BY <1>28, <2>1, <2>2 DEF RestartSubGraph
    <2>4. J.own = TRUE /\ J.again /\ J.publish = {} /\ AtHome(J.task, J.sub) /\ J.todo = {}
      BY <1>0, <1>1, <2>3 DEF NotedAt, LocatedAt, Owning, OnTask
    <2>5. /\ j.own = TRUE /\ j.sub = J.sub /\ j.again /\ j.task = J.task /\ j.todo = {}
          /\ j.publish = {SubGroupOf[Entry[g]]}
      BY <1>0, <2>2, <2>4 DEF Jobs
    <2>6. NotedAt("notify", j)
      BY <2>4, <2>5 DEF NotedAt
    <2>7. \A m \in Tasks : state'[m] = "PENDING" => state[m] = "PENDING" \/ m = Entry[g]
      BY <2>1 DEF LocalInv, SharedOK
    <2> QED  BY <2>3, <2>4, <2>5, <2>6, <2>7, BusyLooks DEF Owning
  <1> QED
    BY <1>2, <1>3, <1>4, <1>5, <1>6, <1>7, <1>8, <1>9, <1>10, <1>11, <1>12, <1>13, <1>14,
       <1>15, <1>16, <1>17, <1>18, <1>19, <1>20, <1>21, <1>22, <1>23, <1>24, <1>25,
       <1>26, <1>27, <1>28
       DEF Step

\* At the start of an execution the pending bits of the first tasks are set.
LEMMA LookoutPrepare ==
    ASSUME LocalInv, LookoutInv, Prepare
    PROVE  LookoutInv'
  <1>1. /\ job' = job /\ varTask' = varTask /\ pending' = InitialPending
        /\ state' = [k \in Tasks |-> IF k \in PendingOnStart THEN "PENDING" ELSE "NONE"]
        /\ pc' = [t \in Threads |-> "ready"]
    BY DEF Prepare
  <1>2. AllNoted'
    <2>1. \A t \in Threads : NotedAt("ready", job[t])
      <3> SUFFICES ASSUME NEW t \in Threads PROVE NotedAt("ready", job[t])
        OBVIOUS
      <3>1. job[t].publish = {}
        BY DEF Prepare, AllExited, LookoutInv, AllNoted, NotedAt
      <3> QED  BY <3>1, SearchNoted DEF Outside
    <2>2. \A t \in Threads : NotedAt(pc'[t], job'[t])
      BY <1>1, <2>1
    <2>3. VarTasksAtHome'
      BY <1>1 DEF LookoutInv, AllNoted, VarTasksAtHome
    <2> QED  BY <2>2, <2>3 DEF AllNoted
  <1>3. NoLostWork'
    <2>1. \A k \in Tasks : state'[k] = "PENDING" => SubGroupOf[k] \in pending'
      BY <1>1 DEF InitialPending
    <2> QED  BY <2>1 DEF NoLostWork
  <1> QED  BY <1>2, <1>3 DEF LookoutInv

\* Nothing is pending in a graph that was just compiled.
LEMMA LookoutInit == Init => LookoutInv
  <1> SUFFICES ASSUME Init PROVE LookoutInv
    OBVIOUS
  <1>1. \A t \in Threads : NotedAt(pc[t], job[t])
    <2>1. NoJob.publish = {}
      BY DEF NoJob
    <2> QED  BY <2>1, SearchNoted DEF Init, Outside
  <1>2. VarTasksAtHome
    BY DEF Init, VarTasksAtHome, NoVarTask
  <1>3. NoLostWork
    BY DEF Init, NoLostWork
  <1> QED  BY <1>1, <1>2, <1>3 DEF LookoutInv, AllNoted

\* Every step keeps the lookout invariant.
LEMMA LookoutNext == LocalInv /\ LookoutInv /\ [Next]_vars => LookoutInv'
  <1> SUFFICES ASSUME LocalInv, LookoutInv, [Next]_vars PROVE LookoutInv'
    OBVIOUS
  <1>1. CASE UNCHANGED vars \/ Finished
    BY <1>1 DEF vars, graphState, Finished, LookoutInv, AllNoted, VarTasksAtHome, NoLostWork,
                Rescans
  <1>2. CASE Prepare
    BY <1>2, LookoutPrepare
  <1>3. ASSUME NEW t \in Threads, Step(t) PROVE LookoutInv'
    BY <1>3, LookoutStep
  <1> QED  BY <1>1, <1>2, <1>3 DEF Next

\* No pending task is overlooked, however the threads interleave: its bit is
\* set, or a thread is bound to set it or to read the state (setNext,
\* doSubGroup, doVarTask).
THEOREM NoLostWorkHolds == Spec => []NoLostWork
  <1>1. LocalInv /\ LookoutInv /\ [Next]_vars => (LocalInv /\ LookoutInv)'
    BY LocalStep, LookoutNext
  <1>2. Init => LocalInv /\ LookoutInv
    BY LocalInit, LookoutInit
  <1>3. LookoutInv => NoLostWork
    BY DEF LookoutInv
  <1> QED  BY <1>1, <1>2, <1>3, PTL DEF Spec

==============================================================================

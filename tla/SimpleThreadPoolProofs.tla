------------------------ MODULE SimpleThreadPoolProofs ------------------------
(***************************************************************************)
(* Theorems about SimpleThreadPool and their proofs, for any numbers of    *)
(* threads below the width of a word: calls return when all is done, a     *)
(* worker that pauses can be woken, and no notification is lost.           *)
(***************************************************************************)
EXTENDS SimpleThreadPool, TLAPS

\* What (1 << size) - 1 is defined for.
Narrow == \A n \in ThreadNums : n < WordBits

------------------------------------------------------------------------------
(***************************************************************************)
(* The stages of a call of the owner.                                      *)
(***************************************************************************)
AtRest    == \/ pc[Main] \in {"user", "validate", "woundUp"}
             \/ pc[Main] = "wakeAll" /\ ~running
Calling   == pc[Main] = "wakeAll" /\ running
Executing == \/ pc[Main] = "wokeAll" /\ running
             \/ pc[Main] = "waitDone" /\ threadNum = 0
WindingUp == \/ pc[Main] \in {"spawn", "count"}
             \/ pc[Main] = "waitDone" /\ threadNum # 0
Stopping  == pc[Main] \in {"wokeAll", "join"} /\ ~running

\* A thread that runs; the last one may not be counted yet.
Exists(t) == t < size \/ (t = size /\ pc[Main] = "count")

\* What a worker can be doing, and its bits in the idle and the done event.
Home == {"finished", "rouse", "roused", "idle"}
Bits(t, idle, done) == (t \in word["idle"]) = idle /\ (t \in word["done"]) = done
Away(t)    == place[t] = "exited" /\ Bits(t, FALSE, FALSE)

Absent(t)  == pc[t] = "none" /\ Away(t)
Resting(t) == pc[t] \in Home /\ Away(t)
Called(t)  == pc[t] \in Home /\ place[t] = "ready" /\ Bits(t, FALSE, FALSE)
Invited(t) == pc[t] \in Home /\ place[t] = "ready" /\ Bits(t, TRUE, FALSE)
Busy(t)    == /\ Bits(t, FALSE, FALSE)
              /\ \/ pc[t] = "loop" /\ place[t] \in {"ready", "waiting"}
                 \/ pc[t] \in {"execute", "woken"} /\ place[t] \in {"inside", "dozing", "waiting"}
                 \/ pc[t] = "pause" /\ place[t] = "waiting"
Leaving(t) == pc[t] = "finish" /\ Away(t)
Back(t)    == pc[t] \in Home /\ place[t] = "exited" /\ Bits(t, FALSE, TRUE)
Stopped(t) == \/ pc[t] \in Home /\ place[t] = "exited" /\ Bits(t, TRUE, FALSE)
              \/ pc[t] \in {"loop", "returned"} /\ Away(t)

\* The numbers the owner works with at each of its places.
OwnerOK ==
    /\ pc[Main] \in {"user", "validate"} => threadNum = 0
    /\ pc[Main] \in {"wakeAll", "wokeAll"} /\ running => threadNum = 0
    /\ pc[Main] \in {"spawn", "count"} => running /\ threadNum \in ThreadNums /\ size < threadNum
    /\ pc[Main] \in {"waitDone", "woundUp", "validate"} => running /\ size > 0
    /\ pc[Main] \in {"wakeAll", "wokeAll", "join"} => size > 0
    /\ pc[Main] = "user" => running \/ size = 0
    /\ pc[Main] \in {"join", "joined"} => ~running
    /\ pc[Main] = "joined" => size = 0
    /\ size = 0 \/ \E n \in ThreadNums : size =< n

\* Where every worker is at each stage.
WorkerOK(t) ==
    IF ~Exists(t) THEN Absent(t)
    ELSE /\ AtRest => Resting(t)
         /\ Calling => Called(t)
         /\ Executing => Invited(t) \/ Busy(t) \/ Leaving(t) \/ Back(t)
         /\ WindingUp => Leaving(t) \/ Back(t)
         /\ Stopping => Stopped(t)

WorkersOK == \A t \in Threads : WorkerOK(t)

\* An execution with nobody left in it is done.
ExecutionOK ==
    /\ Executing => phase = "done" \/ \E t \in Threads : place[t] # "exited"
    /\ pc[Main] = "validate" => phase = "done"

PoolInv == TypeOK /\ OwnerOK /\ WorkersOK /\ ExecutionOK
------------------------------------------------------------------------------
(***************************************************************************)
(* Facts about the constants and the masks.                                *)
(***************************************************************************)

\* Threads are numbered from 0, and the owner is none of them.
LEMMA ThreadFacts ==
    /\ Threads \subseteq Nat
    /\ Main \notin Threads
    /\ \A n \in ThreadNums : n \in Nat \ {0} /\ 0..(n - 1) \subseteq Threads
  BY PoolAssumption DEF Threads, Main

\* The mask of all threads has their bits and no others (waitDone, wakeAll).
LEMMA MaskOfAll ==
  ASSUME Narrow, PoolInv
  PROVE  Masks(size) = {Pool} /\ Pool \subseteq Threads
  <1>1. size \in Nat /\ (size = 0 \/ \E n \in ThreadNums : size =< n)
    BY DEF PoolInv, OwnerOK, TypeOK
  <1>2. PICK n \in ThreadNums : size =< n
    <2>1. CASE size = 0
      <3>1. PICK n \in ThreadNums : n \in Nat
        BY PoolAssumption
      <3> QED BY <2>1, <3>1
    <2> QED BY <1>1, <2>1
  <1>3. size < WordBits
    <2>1. n \in Nat /\ WordBits \in Nat /\ n < WordBits
      BY PoolAssumption DEF Narrow
    <2> QED BY <1>1, <1>2, <2>1
  <1> QED BY <1>1, <1>3 DEF Masks, Pool, PoolInv, TypeOK

\* The initial pool has no threads.
LEMMA InitPoolInv == ASSUME Init PROVE PoolInv
  <1> USE ThreadFacts, PoolAssumption
  <1>1. TypeOK
    <2>1. /\ place \in [Threads -> {"ready", "inside", "dozing", "waiting", "exited"}]
          /\ phase \in {"open", "started", "done"}
          /\ asleep \subseteq Threads /\ waking \in [Threads -> SUBSET Threads]
      BY DEF Init, Executor!Init
    <2>2. /\ size \in Nat /\ Pool \subseteq Threads
          /\ threadNum \in ThreadNums \cup {0} /\ calls \in 0..MaxCalls
      BY DEF Init, Pool
    <2>5. running \in BOOLEAN /\ useWait \in BOOLEAN
      BY DEF Init
    <2>3. /\ word \in [Events -> SUBSET Threads]
          /\ blocked \in [Events -> SUBSET (Threads \cup {Main})]
          /\ attempts \in [Threads -> 0..MaxAttempts]
      BY DEF Init
    <2>4. /\ pc \in [Threads \cup {Main} -> OwnerLabels \cup WorkerLabels]
          /\ pc[Main] \in OwnerLabels /\ \A t \in Threads : pc[t] \in WorkerLabels
      BY DEF Init, OwnerLabels, WorkerLabels
    <2> QED BY <2>1, <2>2, <2>3, <2>4, <2>5 DEF TypeOK
  <1>2. OwnerOK
    BY DEF Init, OwnerOK
  <1>3. WorkersOK
    BY DEF Init, Executor!Init, WorkersOK, WorkerOK, Exists, Absent, Away, Bits, Events
  <1>4. ExecutionOK
    BY DEF Init, ExecutionOK, Executing
  <1> QED BY <1>1, <1>2, <1>3, <1>4 DEF PoolInv

------------------------------------------------------------------------------
(***************************************************************************)
(* The steps of the workers.                                               *)
(***************************************************************************)

\* What a step of worker t leaves alone.
KeepsOthers(t) ==
    /\ UNCHANGED poolVars
    /\ pc'[Main] = pc[Main]
    /\ \A u \in Threads \ {t} :
        /\ pc'[u] = pc[u] /\ place'[u] = place[u]
        /\ u \in word'["idle"] <=> u \in word["idle"]
        /\ u \in word'["done"] <=> u \in word["done"]

\* A step of worker t preserves the invariant if it does so for t, and if it
\* does not take the last thread out of an execution that is not done.
LEMMA WorkerFrame ==
  ASSUME PoolInv, NEW t \in Threads, KeepsOthers(t), TypeOK', WorkerOK(t)',
         pc[Main] = "validate" => phase' = phase,
         Executing => phase' = "done" \/ \E u \in Threads : place'[u] # "exited"
  PROVE  PoolInv'
  <1>1. OwnerOK'
    BY DEF PoolInv, OwnerOK, KeepsOthers, poolVars
  <1>2. (Executing <=> Executing') /\ \A u \in Threads : Exists(u) <=> Exists(u)'
    BY DEF KeepsOthers, poolVars, Executing, Exists
  <1>3. \A u \in Threads \ {t} : WorkerOK(u)'
    <2>1. TAKE u \in Threads \ {t}
    <2>2. WorkerOK(u)
      BY DEF PoolInv, WorkersOK
    <2> QED
      BY <2>2 DEF WorkerOK, KeepsOthers, poolVars, Exists, AtRest, Calling, Executing,
                  WindingUp, Stopping, Absent, Resting, Called, Invited, Busy, Leaving, Back,
                  Stopped, Away, Bits
  <1>4. WorkersOK'
    BY <1>3 DEF WorkersOK
  <1>5. ExecutionOK'
    BY <1>2 DEF PoolInv, ExecutionOK, KeepsOthers
  <1> QED BY <1>1, <1>4, <1>5 DEF PoolInv

------------------------------------------------------------------------------
(***************************************************************************)
(* Types.                                                                  *)
(***************************************************************************)

\* The types of the variables that change in the executor only.
ExecTypes ==
    /\ place \in [Threads -> {"ready", "inside", "dozing", "waiting", "exited"}]
    /\ phase \in {"open", "started", "done"}
    /\ asleep \subseteq Threads /\ waking \in [Threads -> SUBSET Threads]

\* The types of the events and of the places of the threads.
EventTypes ==
    /\ word \in [Events -> SUBSET Threads]
    /\ blocked \in [Events -> SUBSET (Threads \cup {Main})]
PlaceTypes ==
    /\ pc \in [Threads \cup {Main} -> OwnerLabels \cup WorkerLabels]
    /\ pc[Main] \in OwnerLabels /\ \A t \in Threads : pc[t] \in WorkerLabels

\* A worker goes to a worker's place.
LEMMA WorkerGoes ==
  ASSUME PlaceTypes, NEW t \in Threads, NEW l \in WorkerLabels, Goto(t, l)
  PROVE  /\ PlaceTypes'
         /\ pc'[t] = l /\ pc'[Main] = pc[Main]
         /\ \A u \in Threads \ {t} : pc'[u] = pc[u]
  BY ThreadFacts DEF PlaceTypes, Goto

\* The owner goes to an owner's place.
LEMMA OwnerGoes ==
  ASSUME PlaceTypes, NEW l \in OwnerLabels, Goto(Main, l)
  PROVE  /\ PlaceTypes'
         /\ pc'[Main] = l
         /\ \A u \in Threads : pc'[u] = pc[u]
  BY ThreadFacts DEF PlaceTypes, Goto

\* A notification changes no word.
LEMMA NotifyTypes ==
  ASSUME EventTypes, NEW e \in Events, blocked' = [blocked EXCEPT ![e] = {}], UNCHANGED word
  PROVE  EventTypes'
  BY DEF EventTypes

\* The outcome of a wait: the thread goes on and its bits are cleared, or it
\* stays where it is.
LEMMA WaitOutcome ==
  ASSUME EventTypes, NEW p \in Threads \cup {Main}, NEW e \in Events,
         NEW mask \in SUBSET Threads, NEW l, Wait(p, e, mask, l)
  PROVE  /\ EventTypes'
         /\ \A f \in Events \ {e} : word'[f] = word[f]
         /\ \/ /\ mask \subseteq word[e] /\ word'[e] = word[e] \ mask
               /\ Goto(p, l)
            \/ UNCHANGED <<word, pc>>
  BY DEF EventTypes, Wait, Take

\* The parts of the type invariant.
LEMMA TypeParts ==
  ASSUME TypeOK
  PROVE  ExecTypes /\ EventTypes /\ PlaceTypes
  BY DEF TypeOK, ExecTypes, EventTypes, PlaceTypes

\* A worker changes none of the owner's variables.
LEMMA WorkerTypes ==
  ASSUME TypeOK, UNCHANGED poolVars, ExecTypes', EventTypes', PlaceTypes',
         attempts' \in [Threads -> 0..MaxAttempts]
  PROVE  TypeOK'
  BY DEF TypeOK, poolVars, Pool, ExecTypes, EventTypes, PlaceTypes

------------------------------------------------------------------------------
(***************************************************************************)
(* The steps of a worker outside the executor.                             *)
(***************************************************************************)

\* The events outside the executor: the execution is where it was.
LEMMA OutsideFrame ==
  ASSUME PoolInv, NEW t \in Threads, KeepsOthers(t), UNCHANGED <<execVars, attempts>>,
         EventTypes', PlaceTypes', WorkerOK(t)'
  PROVE  PoolInv'
  <1>1. TypeOK'
    <2>1. ExecTypes' /\ attempts' \in [Threads -> 0..MaxAttempts]
      BY TypeParts DEF PoolInv, TypeOK, ExecTypes, execVars
    <2> QED BY <2>1, WorkerTypes DEF PoolInv, KeepsOthers
  <1>2. Executing => phase' = "done" \/ \E u \in Threads : place'[u] # "exited"
    BY DEF PoolInv, ExecutionOK, execVars
  <1> QED BY <1>1, <1>2, WorkerFrame DEF execVars

\* A step that only changes who is blocked, and where.
LEMMA StillFrame ==
  ASSUME PoolInv, EventTypes', UNCHANGED <<execVars, poolVars, word, pc, attempts>>
  PROVE  PoolInv'
  <1>1. TypeOK'
    <2>1. ExecTypes' /\ PlaceTypes' /\ attempts' \in [Threads -> 0..MaxAttempts]
      BY TypeParts DEF PoolInv, TypeOK, ExecTypes, PlaceTypes, execVars
    <2> QED BY <2>1, WorkerTypes DEF PoolInv
  <1>2. OwnerOK'
    BY DEF PoolInv, OwnerOK, poolVars
  <1>3. WorkersOK'
    BY DEF PoolInv, WorkersOK, WorkerOK, poolVars, execVars, Exists, AtRest, Calling, Executing,
           WindingUp, Stopping, Absent, Resting, Called, Invited, Busy, Leaving, Back, Stopped,
           Away, Bits
  <1>4. ExecutionOK'
    BY DEF PoolInv, ExecutionOK, Executing, poolVars, execVars
  <1> QED BY <1>1, <1>2, <1>3, <1>4 DEF PoolInv

\* Finish: the done bit is set by a worker that is leaving.
LEMMA FinishStep ==
  ASSUME PoolInv, NEW t \in Threads, Finish(t)
  PROVE  PoolInv'
  <1>1. Goto(t, "finished") /\ "finished" \in WorkerLabels
    BY DEF Finish, Set, WorkerLabels
  <1>2. /\ EventTypes' /\ word'["done"] = word["done"] \cup {t}
        /\ word'["idle"] = word["idle"]
    <2>1. /\ EventTypes /\ "done" \in Events /\ "idle" \in Events
          /\ word' = [word EXCEPT !["done"] = @ \cup {t}] /\ UNCHANGED blocked
      BY TypeParts DEF Finish, Set, Events, PoolInv
    <2> QED BY <2>1 DEF EventTypes
  <1>3. PlaceTypes' /\ KeepsOthers(t) /\ pc'[t] = "finished" /\ pc'[Main] = pc[Main]
    BY <1>1, <1>2, TypeParts, WorkerGoes DEF Finish, KeepsOthers, PoolInv, execVars
  <1>4. WorkerOK(t)'
    <2>1. WorkerOK(t)
      BY DEF PoolInv, WorkersOK
    <2> QED
      BY <1>2, <1>3, <2>1
      DEF Finish, WorkerOK, poolVars, execVars, Exists, AtRest, Calling, Executing, WindingUp,
          Stopping, Absent, Resting, Called, Invited, Busy, Leaving, Back, Stopped, Home, Away,
          Bits
  <1> QED BY <1>2, <1>3, <1>4, OutsideFrame DEF Finish

\* Rouse and the two notifications: the worker stays where it is at home.
LEMMA HomeStep ==
  ASSUME Narrow, PoolInv, NEW t \in Threads, Finished(t) \/ Rouse(t) \/ Roused(t)
  PROVE  PoolInv'
  <1>1. /\ pc[t] \in Home
        /\ UNCHANGED <<execVars, attempts>> /\ UNCHANGED poolVars
    BY DEF Finished, Rouse, Roused, Home
  <1>2. PICK l \in WorkerLabels \cap Home : Goto(t, l)
    BY DEF Finished, Rouse, Roused, Notify, Set, Home, WorkerLabels
  <1>3. EventTypes' /\ word'["done"] = word["done"] /\ word'["idle"] = word["idle"]
    <2>1. CASE Finished(t) \/ Roused(t)
      BY <2>1, TypeParts, NotifyTypes DEF Finished, Roused, Notify, Events, PoolInv
    <2>2. CASE Rouse(t)
      <3>1. /\ word' = [word EXCEPT !["wake"] = @ \cup Pool] /\ UNCHANGED blocked
            /\ Pool \subseteq Threads
        BY <2>2, MaskOfAll DEF Rouse, Set
      <3>2. EventTypes /\ {"idle", "wake", "done"} = Events
        BY TypeParts DEF Events, PoolInv
      <3> QED BY <3>1, <3>2 DEF EventTypes
    <2> QED BY <2>1, <2>2
  <1>4. /\ PlaceTypes' /\ pc'[t] \in Home /\ pc'[Main] = pc[Main]
        /\ \A u \in Threads \ {t} : pc'[u] = pc[u]
    <2>1. l \in WorkerLabels /\ l \in Home /\ PlaceTypes
      BY TypeParts DEF PoolInv
    <2> QED BY <2>1, <1>2, WorkerGoes
  <1>6. KeepsOthers(t)
    BY <1>1, <1>3, <1>4 DEF KeepsOthers, execVars
  <1>5. WorkerOK(t)'
    <2>1. WorkerOK(t)
      BY DEF PoolInv, WorkersOK
    <2> QED
      BY <1>1, <1>3, <1>4, <2>1
      DEF WorkerOK, poolVars, execVars, Exists, AtRest, Calling, Executing, WindingUp,
          Stopping, Absent, Resting, Called, Invited, Busy, Leaving, Back, Stopped, Home, Away,
          Bits
  <1> QED BY <1>1, <1>3, <1>4, <1>5, <1>6, OutsideFrame

\* WaitIdle: an invited worker takes its bit, another one stays.
LEMMA WaitIdleStep ==
  ASSUME PoolInv, NEW t \in Threads, WaitIdle(t)
  PROVE  PoolInv'
  <1>1. /\ EventTypes' /\ word'["done"] = word["done"]
        /\ \/ t \in word["idle"] /\ word'["idle"] = word["idle"] \ {t} /\ Goto(t, "loop")
           \/ UNCHANGED <<word, pc>>
    BY TypeParts, WaitOutcome DEF WaitIdle, Events, PoolInv
  <1>2. CASE UNCHANGED <<word, pc>>
    <2> QED BY <1>1, <1>2, StillFrame DEF WaitIdle
  <1>3. CASE /\ t \in word["idle"] /\ word'["idle"] = word["idle"] \ {t} /\ Goto(t, "loop")
    <2>1. PlaceTypes' /\ KeepsOthers(t) /\ pc'[t] = "loop" /\ pc'[Main] = pc[Main]
      BY <1>1, <1>3, TypeParts, WorkerGoes
      DEF WaitIdle, KeepsOthers, PoolInv, execVars, WorkerLabels
    <2>2. WorkerOK(t)
      BY DEF PoolInv, WorkersOK
    <2>3. WorkerOK(t)'
      BY <1>1, <1>3, <2>1, <2>2
      DEF WaitIdle, WorkerOK, poolVars, execVars, Exists, AtRest, Calling, Executing, WindingUp,
          Stopping, Absent, Resting, Called, Invited, Busy, Leaving, Back, Stopped, Home, Away,
          Bits
    <2> QED BY <1>1, <2>1, <2>3, OutsideFrame DEF WaitIdle
  <1> QED BY <1>1, <1>2, <1>3
------------------------------------------------------------------------------
(***************************************************************************)
(* The steps of a worker between invitation and exit.                      *)
(***************************************************************************)

\* While there are workers, the owner is at one of the stages.
LEMMA StagesOfOwner ==
  ASSUME OwnerOK, pc[Main] \in OwnerLabels, pc[Main] # "joined"
  PROVE  AtRest \/ Calling \/ Executing \/ WindingUp \/ Stopping
  <1>1. pc[Main] = "wakeAll" => AtRest \/ Calling
    BY DEF AtRest, Calling
  <1>2. pc[Main] = "wokeAll" => Executing \/ Stopping
    BY DEF Executing, Stopping
  <1>3. pc[Main] = "waitDone" => Executing \/ WindingUp
    BY DEF Executing, WindingUp
  <1>4. pc[Main] = "join" => Stopping
    BY DEF OwnerOK, Stopping
  <1>5. pc[Main] \in {"user", "validate", "woundUp"} => AtRest
    BY DEF AtRest
  <1>6. pc[Main] \in {"spawn", "count"} => WindingUp
    BY DEF WindingUp
  <1> QED BY <1>1, <1>2, <1>3, <1>4, <1>5, <1>6 DEF OwnerLabels

\* A worker that is called or in the executor is so while the owner executes.
LEMMA BusyFacts ==
  ASSUME PoolInv, NEW t \in Threads,
         pc[t] \in {"execute", "woken", "pause"} \/ (pc[t] = "loop" /\ running)
  PROVE  Busy(t) /\ Executing /\ Exists(t) /\ running
  <1>1. WorkerOK(t) /\ OwnerOK
    BY DEF PoolInv, WorkersOK
  <1>2. pc[Main] \in OwnerLabels
    BY DEF PoolInv, TypeOK
  <1>3. Exists(t)
    BY <1>1 DEF WorkerOK, Absent
  <1>4. pc[Main] # "joined"
    BY <1>1, <1>3, ThreadFacts DEF OwnerOK, Exists
  <1>5. AtRest \/ Calling \/ Executing \/ WindingUp \/ Stopping
    BY <1>1, <1>2, <1>4, StagesOfOwner
  <1>6. ~AtRest /\ ~Calling /\ ~WindingUp
    BY <1>1, <1>3 DEF WorkerOK, Resting, Called, Leaving, Back, Home
  <1>7. ~Stopping
    BY <1>1, <1>3 DEF WorkerOK, Stopped, Stopping, Home
  <1>8. Executing
    BY <1>5, <1>6, <1>7
  <1>9. running
    BY <1>1, <1>8 DEF OwnerOK, Executing
  <1> QED BY <1>1, <1>3, <1>8, <1>9 DEF WorkerOK, Invited, Leaving, Back, Home

\* The executor changes the place of the thread that is in it, and no other's.
LEMMA ExecutorTypes ==
  ASSUME ExecTypes, NEW t \in Threads,
         \/ Executor!Call(t) \/ Executor!Advance(t) \/ Executor!Gather(t)
         \/ Executor!Callback(t) \/ Executor!GiveUp(t, useWait) \/ Executor!ReturnWait(t)
         \/ Executor!ReturnExit(t)
  PROVE  ExecTypes' /\ \A u \in Threads \ {t} : place'[u] = place[u]
  <1>1. CASE Executor!Call(t)
    BY <1>1 DEF ExecTypes, Executor!Call
  <1>2. CASE Executor!Advance(t)
    BY <1>2 DEF ExecTypes, Executor!Advance, Executor!Before
  <1>3. CASE Executor!Gather(t)
    <2>1. PICK w \in (SUBSET asleep) \ {{}} :
            waking' = [waking EXCEPT ![t] = w] /\ asleep' = asleep \ w
      BY <1>3 DEF Executor!Gather
    <2> QED BY <1>3, <2>1 DEF ExecTypes, Executor!Gather
  <1>4. CASE Executor!Callback(t)
    BY <1>4 DEF ExecTypes, Executor!Callback
  <1>5. CASE Executor!GiveUp(t, useWait)
    BY <1>5 DEF ExecTypes, Executor!GiveUp
  <1>6. CASE Executor!ReturnWait(t)
    BY <1>6 DEF ExecTypes, Executor!ReturnWait
  <1>7. CASE Executor!ReturnExit(t)
    BY <1>7 DEF ExecTypes, Executor!ReturnExit
  <1> QED BY <1>1, <1>2, <1>3, <1>4, <1>5, <1>6, <1>7

\* A worker that stays busy keeps the invariant: it is not out of the executor.
LEMMA BusyFrame ==
  ASSUME PoolInv, NEW t \in Threads, Executing, Exists(t),
         ExecTypes', EventTypes', PlaceTypes', attempts' \in [Threads -> 0..MaxAttempts],
         KeepsOthers(t), Busy(t)'
  PROVE  PoolInv'
  <1>1. TypeOK'
    BY WorkerTypes DEF PoolInv, KeepsOthers
  <1>2. Executing' /\ Exists(t)'
    BY DEF KeepsOthers, poolVars, Executing, Exists
  <1>3. WorkerOK(t)'
    BY <1>2 DEF WorkerOK, AtRest, Calling, Executing, WindingUp, Stopping
  <1>4. place'[t] # "exited"
    BY DEF Busy
  <1> QED BY <1>1, <1>3, <1>4, WorkerFrame DEF Executing

\* The steps within the executor that leave the thread where it is.
LEMMA InsideStep ==
  ASSUME PoolInv, NEW t \in Threads,
         CallAgain(t) \/ Advance(t) \/ GatherThreads(t) \/ GiveUp(t)
  PROVE  PoolInv'
  <1>1. pc[t] = "execute" /\ UNCHANGED <<poolVars, word, blocked, pc>>
    BY DEF CallAgain, Advance, GatherThreads, GiveUp
  <1>2. Busy(t) /\ Executing /\ Exists(t)
    BY <1>1, BusyFacts
  <1>3. ExecTypes' /\ \A u \in Threads \ {t} : place'[u] = place[u]
    BY TypeParts, ExecutorTypes DEF PoolInv, CallAgain, Advance, GatherThreads, GiveUp
  <1>4. attempts' \in [Threads -> 0..MaxAttempts]
    <2>1. attempts \in [Threads -> 0..MaxAttempts] /\ MaxAttempts \in Nat
      BY PoolAssumption DEF PoolInv, TypeOK
    <2>2. CASE CallAgain(t)
      BY <2>1, <2>2 DEF CallAgain
    <2>3. CASE UNCHANGED attempts
      BY <2>1, <2>3
    <2> QED BY <2>2, <2>3 DEF CallAgain, Advance, GatherThreads, GiveUp
  <1>5. EventTypes' /\ PlaceTypes'
    BY <1>1, TypeParts DEF PoolInv, EventTypes, PlaceTypes
  <1>6. KeepsOthers(t)
    BY <1>1, <1>3 DEF KeepsOthers
  <1>7. place'[t] \in {"inside", "dozing", "waiting"}
    <2>1. place \in [Threads -> {"ready", "inside", "dozing", "waiting", "exited"}]
      BY DEF PoolInv, TypeOK
    <2>2. place[t] \in {"inside", "dozing", "waiting"}
      BY <1>1, <1>2 DEF Busy
    <2>3. CASE CallAgain(t)
      BY <2>1, <2>3 DEF CallAgain, Executor!Call
    <2>4. CASE Advance(t) \/ GatherThreads(t)
      BY <2>2, <2>4 DEF Advance, GatherThreads, Executor!Advance, Executor!Gather
    <2>5. CASE GiveUp(t)
      BY <2>1, <2>5 DEF GiveUp, Executor!GiveUp, Executor!ReturnWait
    <2> QED BY <2>3, <2>4, <2>5
  <1>8. Busy(t)'
    BY <1>1, <1>2, <1>7 DEF Busy, Bits
  <1> QED BY <1>2, <1>3, <1>4, <1>5, <1>6, <1>8, BusyFrame

\* The wake-up callback: another event, and no thread changes its place.
LEMMA WakeStep ==
  ASSUME PoolInv, NEW t \in Threads, WakeThreads(t) \/ Woken(t)
  PROVE  PoolInv'
  <1>1. pc[t] \in {"execute", "woken"} /\ UNCHANGED <<poolVars, attempts>>
    BY DEF WakeThreads, Woken
  <1>2. Busy(t) /\ Executing /\ Exists(t)
    BY <1>1, BusyFacts
  <1>3. ExecTypes' /\ place' = place
    <2>1. CASE WakeThreads(t)
      BY <2>1, TypeParts, ExecutorTypes DEF PoolInv, WakeThreads, Executor!Callback
    <2>2. CASE Woken(t)
      BY <2>2, TypeParts DEF PoolInv, Woken, execVars, ExecTypes
    <2> QED BY <2>1, <2>2
  <1>4. EventTypes' /\ word'["done"] = word["done"] /\ word'["idle"] = word["idle"]
    <2>1. CASE WakeThreads(t)
      <3>1. /\ word' = [word EXCEPT !["wake"] = @ \cup waking[t]] /\ UNCHANGED blocked
            /\ waking[t] \subseteq Threads
        BY <2>1, TypeParts DEF PoolInv, ExecTypes, WakeThreads, Set
      <3>2. EventTypes /\ {"idle", "wake", "done"} = Events
        BY TypeParts DEF Events, PoolInv
      <3> QED BY <3>1, <3>2 DEF EventTypes
    <2>2. CASE Woken(t)
      BY <2>2, TypeParts, NotifyTypes DEF Woken, Notify, Events, PoolInv
    <2> QED BY <2>1, <2>2
  <1>5. PICK l \in {"execute", "woken"} : Goto(t, l)
    BY DEF WakeThreads, Woken, Notify, Set
  <1>6. PlaceTypes' /\ pc'[t] = l /\ pc'[Main] = pc[Main] /\ \A u \in Threads \ {t} : pc'[u] = pc[u]
    <2>1. l \in WorkerLabels /\ PlaceTypes
      BY TypeParts DEF PoolInv, WorkerLabels
    <2> QED BY <1>5, <2>1, WorkerGoes
  <1>7. KeepsOthers(t)
    BY <1>1, <1>3, <1>4, <1>6 DEF KeepsOthers
  <1>8. attempts' \in [Threads -> 0..MaxAttempts]
    BY <1>1 DEF PoolInv, TypeOK
  <1>9. Busy(t)'
    BY <1>1, <1>2, <1>3, <1>4, <1>6 DEF Busy, Bits
  <1> QED BY <1>2, <1>3, <1>4, <1>6, <1>7, <1>8, <1>9, BusyFrame

\* A worker at the head of its loop calls the executor.
LEMMA EnterStep ==
  ASSUME PoolInv, NEW t \in Threads, EnterExecutor(t)
  PROVE  PoolInv'
  <1>1. Busy(t) /\ Executing /\ Exists(t)
    BY BusyFacts DEF EnterExecutor
  <1>2. ExecTypes' /\ \A u \in Threads \ {t} : place'[u] = place[u]
    BY TypeParts, ExecutorTypes DEF PoolInv, EnterExecutor
  <1>3. place'[t] = "inside"
    BY TypeParts DEF PoolInv, ExecTypes, EnterExecutor, Executor!Call
  <1>4. EventTypes' /\ UNCHANGED <<word, poolVars>>
    BY TypeParts DEF PoolInv, EventTypes, EnterExecutor
  <1>5. PlaceTypes' /\ pc'[t] = "execute" /\ pc'[Main] = pc[Main]
        /\ \A u \in Threads \ {t} : pc'[u] = pc[u]
    <2>1. "execute" \in WorkerLabels /\ PlaceTypes /\ Goto(t, "execute")
      BY TypeParts DEF PoolInv, WorkerLabels, EnterExecutor
    <2> QED BY <2>1, WorkerGoes
  <1>6. attempts' \in [Threads -> 0..MaxAttempts]
    <2>1. attempts \in [Threads -> 0..MaxAttempts] /\ 1 \in 0..MaxAttempts
      BY PoolAssumption DEF PoolInv, TypeOK
    <2> QED BY <2>1 DEF EnterExecutor
  <1>7. KeepsOthers(t)
    BY <1>2, <1>4, <1>5 DEF KeepsOthers
  <1>8. Busy(t)'
    BY <1>1, <1>3, <1>4, <1>5 DEF Busy, Bits
  <1> QED BY <1>1, <1>2, <1>4, <1>5, <1>6, <1>7, <1>8, BusyFrame

\* A worker that has waited, and one that is out of attempts: the place in the
\* executor is "waiting", whatever the worker does until it calls again.
LEMMA PauseStep ==
  ASSUME PoolInv, NEW t \in Threads, OutOfAttempts(t) \/ WaitPaused(t)
  PROVE  PoolInv'
  <1>1. pc[t] \in {"execute", "pause"} /\ UNCHANGED <<execVars, attempts>> /\ UNCHANGED poolVars
    BY DEF OutOfAttempts, WaitPaused
  <1>2. Busy(t) /\ Executing /\ Exists(t)
    BY <1>1, BusyFacts
  <1>3. place[t] = "waiting"
    BY <1>2 DEF OutOfAttempts, WaitPaused, Busy
  <1>4. /\ EventTypes' /\ word'["done"] = word["done"] /\ word'["idle"] = word["idle"]
        /\ (\E l \in {"pause", "loop"} : Goto(t, l)) \/ UNCHANGED <<word, pc>>
    <2>1. CASE OutOfAttempts(t)
      <3>1. \E l \in {"pause", "loop"} : Goto(t, l)
        BY <2>1 DEF OutOfAttempts
      <3> QED BY <2>1, <3>1, TypeParts DEF OutOfAttempts, PoolInv, EventTypes
    <2>2. CASE WaitPaused(t)
      BY <2>2, TypeParts, WaitOutcome DEF WaitPaused, Events, PoolInv
    <2> QED BY <2>1, <2>2
  <1>5. CASE UNCHANGED <<word, pc>>
    BY <1>1, <1>4, <1>5, StillFrame
  <1>6. CASE \E l \in {"pause", "loop"} : Goto(t, l)
    <2>1. PICK l \in {"pause", "loop"} : Goto(t, l)
      BY <1>6
    <2>2. PlaceTypes' /\ pc'[t] = l /\ pc'[Main] = pc[Main]
          /\ \A u \in Threads \ {t} : pc'[u] = pc[u]
      <3>1. l \in WorkerLabels /\ PlaceTypes
        BY TypeParts DEF PoolInv, WorkerLabels
      <3> QED BY <2>1, <3>1, WorkerGoes
    <2>3. KeepsOthers(t)
      BY <1>1, <1>4, <2>2 DEF KeepsOthers, execVars
    <2>4. Busy(t)'
      BY <1>1, <1>2, <1>3, <1>4, <2>2 DEF Busy, Bits, execVars
    <2>5. ExecTypes' /\ attempts' \in [Threads -> 0..MaxAttempts]
      BY <1>1, TypeParts DEF PoolInv, TypeOK, ExecTypes, execVars
    <2> QED BY <1>2, <1>4, <2>2, <2>3, <2>4, <2>5, BusyFrame
  <1> QED BY <1>4, <1>5, <1>6

\* A worker that is told to stop returns.
LEMMA LeaveStep ==
  ASSUME PoolInv, NEW t \in Threads, LeaveLoop(t)
  PROVE  PoolInv'
  <1>1. /\ UNCHANGED <<execVars, poolVars, word, attempts>> /\ UNCHANGED blocked
        /\ pc[t] = "loop" /\ ~running
    BY DEF LeaveLoop
  <1>2. PlaceTypes' /\ pc'[t] = "returned" /\ pc'[Main] = pc[Main]
        /\ \A u \in Threads \ {t} : pc'[u] = pc[u]
    <2>1. "returned" \in WorkerLabels /\ PlaceTypes /\ Goto(t, "returned")
      BY TypeParts DEF PoolInv, WorkerLabels, LeaveLoop
    <2> QED BY <2>1, WorkerGoes
  <1>3. KeepsOthers(t)
    BY <1>1, <1>2 DEF KeepsOthers, execVars
  <1>4. WorkerOK(t)'
    <2>1. WorkerOK(t) /\ (Executing => running)
      BY DEF PoolInv, WorkersOK, OwnerOK, Executing
    <2> QED BY <1>1, <1>2, <2>1
      DEF WorkerOK, poolVars, execVars, Exists, AtRest, Calling, Executing, WindingUp,
          Stopping, Absent, Resting, Called, Leaving, Back, Stopped, Home, Away, Bits
  <1>5. EventTypes'
    BY <1>1, TypeParts DEF PoolInv, EventTypes
  <1> QED BY <1>1, <1>2, <1>3, <1>4, <1>5, OutsideFrame

\* EXIT: the execution is done, or another worker is still in the executor.
LEMMA ExitStep ==
  ASSUME PoolInv, NEW t \in Threads, ExitExecutor(t)
  PROVE  PoolInv'
  <1>1. Busy(t) /\ Executing /\ Exists(t) /\ running
    BY BusyFacts DEF ExitExecutor
  <1>2. ExecTypes' /\ \A u \in Threads \ {t} : place'[u] = place[u]
    BY TypeParts, ExecutorTypes DEF PoolInv, ExitExecutor
  <1>3. place'[t] = "exited"
    BY TypeParts DEF PoolInv, ExecTypes, ExitExecutor, Executor!ReturnExit
  <1>4. EventTypes' /\ UNCHANGED <<word, poolVars>>
    BY TypeParts DEF PoolInv, EventTypes, ExitExecutor
  <1>5. PlaceTypes' /\ pc'[t] = "finish" /\ pc'[Main] = pc[Main]
        /\ \A u \in Threads \ {t} : pc'[u] = pc[u]
    <2>1. "finish" \in WorkerLabels /\ PlaceTypes /\ Goto(t, "finish")
      BY <1>1, TypeParts DEF PoolInv, WorkerLabels, ExitExecutor
    <2> QED BY <2>1, WorkerGoes
  <1>6. KeepsOthers(t)
    BY <1>2, <1>4, <1>5 DEF KeepsOthers
  <1>7. TypeOK'
    <2>1. attempts' \in [Threads -> 0..MaxAttempts]
      BY DEF PoolInv, TypeOK, ExitExecutor
    <2> QED BY <1>2, <1>4, <1>5, <2>1, WorkerTypes DEF PoolInv
  <1>8. WorkerOK(t)'
    <2>1. Leaving(t)'
      BY <1>1, <1>3, <1>4, <1>5 DEF Leaving, Away, Busy, Bits
    <2>2. Executing' /\ Exists(t)'
      BY <1>1, <1>4, <1>5 DEF poolVars, Executing, Exists
    <2> QED BY <2>1, <2>2 DEF WorkerOK, AtRest, Calling, Executing, WindingUp, Stopping
  <1>9. phase' = "done" \/ \E u \in Threads : place'[u] # "exited"
    <2>1. phase' = phase /\ (phase = "done" \/ \E u \in Threads \ {t} : place[u] = "inside")
      BY DEF ExitExecutor, Executor!ReturnExit
    <2> QED BY <1>2, <2>1
  <1> QED BY <1>1, <1>6, <1>7, <1>8, <1>9, WorkerFrame DEF Executing

\* Every step of a worker.
LEMMA WorkerStep ==
  ASSUME Narrow, PoolInv, NEW t \in Threads, Worker(t) \/ Advance(t)
  PROVE  PoolInv'
  BY FinishStep, HomeStep, WaitIdleStep, InsideStep, WakeStep, EnterStep, PauseStep, LeaveStep,
     ExitStep DEF Worker
------------------------------------------------------------------------------
(***************************************************************************)
(* The steps of the owner.                                                 *)
(***************************************************************************)

\* The type invariant, from the types of what a step of the owner changes.
LEMMA OwnerTypes ==
  ASSUME TypeOK, ExecTypes', EventTypes', PlaceTypes', UNCHANGED attempts,
         running' \in BOOLEAN, useWait' \in BOOLEAN, size' \in Nat, Pool' \subseteq Threads,
         threadNum' \in ThreadNums \cup {0}, calls' \in 0..MaxCalls
  PROVE  TypeOK'
  BY DEF TypeOK, ExecTypes, EventTypes, PlaceTypes

\* WindUpOrShutdown: the workers rest, and are told to stop running.
LEMMA WindUpStep ==
  ASSUME PoolInv, WindUpOrShutdown
  PROVE  PoolInv'
  <1>1. PICK l \in {"joined", "wakeAll"} : Goto(Main, l) /\ (l = "joined" <=> size = 0)
    BY DEF WindUpOrShutdown
  <1>2. PlaceTypes' /\ pc'[Main] = l /\ \A u \in Threads : pc'[u] = pc[u]
    <2>1. l \in OwnerLabels /\ PlaceTypes
      BY TypeParts DEF PoolInv, OwnerLabels
    <2> QED BY <1>1, <2>1, OwnerGoes
  <1>3. UNCHANGED <<execVars, useWait, size, word, blocked, attempts>> /\ running' = FALSE
    BY DEF WindUpOrShutdown
  <1>4. TypeOK'
    <2>1. ExecTypes' /\ EventTypes'
      BY <1>3, TypeParts DEF PoolInv, ExecTypes, EventTypes, execVars
    <2>2. useWait' \in BOOLEAN /\ running' \in BOOLEAN
      BY <1>3 DEF PoolInv, TypeOK
    <2>3. size' \in Nat /\ Pool' \subseteq Threads /\ UNCHANGED attempts
          /\ threadNum' \in ThreadNums \cup {0}
      BY <1>3 DEF PoolInv, TypeOK, Pool, WindUpOrShutdown
    <2>4. calls' \in 0..MaxCalls
      BY PoolAssumption DEF PoolInv, TypeOK, WindUpOrShutdown
    <2> QED BY <1>2, <2>1, <2>2, <2>3, <2>4, OwnerTypes DEF PoolInv
  <1>5. OwnerOK'
    <2>1. size = 0 \/ \E n \in ThreadNums : size =< n
      BY DEF PoolInv, OwnerOK
    <2>2. size \in Nat
      BY DEF PoolInv, TypeOK
    <2> QED BY <1>1, <1>2, <1>3, <2>1, <2>2 DEF OwnerOK
  <1>6. WorkersOK'
    <2>1. SUFFICES ASSUME NEW u \in Threads PROVE WorkerOK(u)'
      BY DEF WorkersOK
    <2>2. WorkerOK(u) /\ pc[Main] = "user" /\ u \in Nat
      BY ThreadFacts DEF PoolInv, WorkersOK, WindUpOrShutdown
    <2>3. CASE size = 0
      BY <1>1, <1>2, <1>3, <2>2, <2>3 DEF WorkerOK, Exists, Absent, Away, Bits, execVars
    <2>4. CASE size # 0
      BY <1>1, <1>2, <1>3, <2>2, <2>4
      DEF WorkerOK, Exists, Absent, Away, Bits, execVars, AtRest, Calling, Executing,
          WindingUp, Stopping, Resting
    <2> QED BY <2>3, <2>4
  <1>7. ExecutionOK'
    BY <1>2 DEF ExecutionOK, Executing
  <1> QED BY <1>4, <1>5, <1>6, <1>7 DEF PoolInv

\* JoinThreads: every worker has returned, and is gone.
LEMMA JoinStep ==
  ASSUME PoolInv, JoinThreads
  PROVE  PoolInv'
  <1>1. /\ pc[Main] = "join" /\ size' = 0 /\ \A t \in Pool : pc[t] = "returned"
        /\ UNCHANGED <<execVars, useWait, threadNum, calls, word, blocked, attempts>>
        /\ UNCHANGED running
    BY DEF JoinThreads
  <1>2. PlaceTypes' /\ pc'[Main] = "joined" /\ \A u \in Threads : pc'[u] = "none"
    BY ThreadFacts DEF JoinThreads, PlaceTypes, OwnerLabels, WorkerLabels
  <1>3. ~running
    BY <1>1 DEF PoolInv, OwnerOK
  <1>4. TypeOK'
    <2>1. ExecTypes' /\ EventTypes'
      BY <1>1, TypeParts DEF PoolInv, ExecTypes, EventTypes, execVars
    <2>2. useWait' \in BOOLEAN /\ running' \in BOOLEAN
      BY <1>1 DEF PoolInv, TypeOK
    <2>3. size' \in Nat /\ Pool' \subseteq Threads /\ UNCHANGED attempts
          /\ threadNum' \in ThreadNums \cup {0} /\ calls' \in 0..MaxCalls
      BY <1>1 DEF PoolInv, TypeOK, Pool
    <2> QED BY <1>2, <2>1, <2>2, <2>3, OwnerTypes DEF PoolInv
  <1>5. OwnerOK'
    BY <1>1, <1>2, <1>3 DEF OwnerOK
  <1>6. WorkersOK'
    <2>1. SUFFICES ASSUME NEW u \in Threads PROVE WorkerOK(u)'
      BY DEF WorkersOK
    <2>2. WorkerOK(u) /\ u \in Nat
      BY ThreadFacts DEF PoolInv, WorkersOK
    <2>3. ~Exists(u)'
      BY <1>1, <1>2, <2>2 DEF Exists
    <2>4. Away(u)
      <3>1. CASE Exists(u)
        <4>1. u \in Pool
          BY <1>1, <2>2, <3>1 DEF Exists, Pool, PoolInv, TypeOK
        <4>2. Stopping
          BY <1>1, <1>3 DEF Stopping
        <4> QED BY <1>1, <2>2, <3>1, <4>1, <4>2 DEF WorkerOK, Stopped, Home
      <3>2. CASE ~Exists(u)
        BY <2>2, <3>2 DEF WorkerOK, Absent
      <3> QED BY <3>1, <3>2
    <2> QED BY <1>1, <1>2, <2>3, <2>4 DEF WorkerOK, Absent, Away, Bits, execVars
  <1>7. ExecutionOK'
    BY <1>2 DEF ExecutionOK, Executing
  <1> QED BY <1>4, <1>5, <1>6, <1>7 DEF PoolInv

\* ShutdownReturns: there is no worker.
LEMMA ShutdownStep ==
  ASSUME PoolInv, ShutdownReturns
  PROVE  PoolInv'
  <1>1. /\ pc[Main] = "joined" /\ running' = (threadNum # 0)
        /\ UNCHANGED <<execVars, useWait, size, threadNum, calls, word, blocked, attempts>>
    BY DEF ShutdownReturns
  <1>2. PICK l \in {"user", "spawn"} : Goto(Main, l) /\ (l = "user" <=> threadNum = 0)
    BY DEF ShutdownReturns
  <1>3. PlaceTypes' /\ pc'[Main] = l /\ \A u \in Threads : pc'[u] = pc[u]
    <2>1. l \in OwnerLabels /\ PlaceTypes
      BY TypeParts DEF PoolInv, OwnerLabels
    <2> QED BY <1>2, <2>1, OwnerGoes
  <1>4. size = 0
    BY <1>1 DEF PoolInv, OwnerOK
  <1>5. TypeOK'
    <2>1. ExecTypes' /\ EventTypes'
      BY <1>1, TypeParts DEF PoolInv, ExecTypes, EventTypes, execVars
    <2>2. useWait' \in BOOLEAN /\ running' \in BOOLEAN
      BY <1>1 DEF PoolInv, TypeOK
    <2>3. size' \in Nat /\ Pool' \subseteq Threads /\ UNCHANGED attempts
          /\ threadNum' \in ThreadNums \cup {0} /\ calls' \in 0..MaxCalls
      BY <1>1 DEF PoolInv, TypeOK, Pool
    <2> QED BY <1>3, <2>1, <2>2, <2>3, OwnerTypes DEF PoolInv
  <1>6. OwnerOK'
    <2>1. threadNum # 0 => threadNum \in ThreadNums /\ 0 < threadNum
      BY PoolAssumption DEF PoolInv, TypeOK
    <2>2. size' = 0 /\ threadNum' = threadNum /\ (running' <=> threadNum # 0)
      BY <1>1, <1>4
    <2> QED BY <1>2, <1>3, <2>1, <2>2 DEF OwnerOK
  <1>7. WorkersOK'
    <2>1. SUFFICES ASSUME NEW u \in Threads PROVE WorkerOK(u)'
      BY DEF WorkersOK
    <2>2. WorkerOK(u) /\ u \in Nat
      BY ThreadFacts DEF PoolInv, WorkersOK
    <2> QED BY <1>1, <1>3, <1>4, <2>2 DEF WorkerOK, Exists, Absent, Away, Bits, execVars
  <1>8. ExecutionOK'
    BY <1>3 DEF ExecutionOK, Executing
  <1> QED BY <1>5, <1>6, <1>7, <1>8 DEF PoolInv

\* StartThread: the new worker has no bits and no place in the executor.
LEMMA StartStep ==
  ASSUME PoolInv, StartThread
  PROVE  PoolInv'
  <1>1. /\ pc[Main] = "spawn"
        /\ UNCHANGED <<execVars, word, blocked, attempts>> /\ UNCHANGED poolVars
        /\ pc' = [pc EXCEPT ![Main] = "count", ![size] = "finish"]
    BY DEF StartThread
  <1>2. threadNum \in ThreadNums /\ size < threadNum /\ size \in Nat
    BY <1>1 DEF PoolInv, OwnerOK, TypeOK
  <1>3. size \in Threads
    <2>1. threadNum \in Nat \ {0} /\ 0..(threadNum - 1) \subseteq Threads
      BY <1>2, ThreadFacts
    <2> QED BY <1>2, <2>1
  <1>4. PlaceTypes' /\ pc'[Main] = "count" /\ pc'[size] = "finish"
        /\ \A u \in Threads \ {size} : pc'[u] = pc[u]
    <2>1. PlaceTypes
      BY TypeParts DEF PoolInv
    <2> QED BY <1>1, <1>3, <2>1, ThreadFacts DEF PlaceTypes, OwnerLabels, WorkerLabels
  <1>5. TypeOK'
    <2>1. ExecTypes' /\ EventTypes'
      BY <1>1, TypeParts DEF PoolInv, ExecTypes, EventTypes, execVars
    <2>2. useWait' \in BOOLEAN /\ running' \in BOOLEAN
      BY <1>1 DEF PoolInv, TypeOK, poolVars
    <2>3. size' \in Nat /\ Pool' \subseteq Threads /\ UNCHANGED attempts
          /\ threadNum' \in ThreadNums \cup {0} /\ calls' \in 0..MaxCalls
      BY <1>1 DEF PoolInv, TypeOK, Pool, poolVars
    <2> QED BY <1>4, <2>1, <2>2, <2>3, OwnerTypes DEF PoolInv
  <1>6. OwnerOK'
    BY <1>1, <1>4 DEF PoolInv, OwnerOK, poolVars
  <1>7. WorkersOK'
    <2>1. SUFFICES ASSUME NEW u \in Threads PROVE WorkerOK(u)'
      BY DEF WorkersOK
    <2>2. WorkerOK(u)
      BY DEF PoolInv, WorkersOK
    <2>3. CASE u = size
      <3>1. Away(u)
        BY <1>1, <1>2, <2>2, <2>3 DEF WorkerOK, Exists, Absent
      <3>2. Leaving(u)'
        BY <1>1, <1>4, <2>3, <3>1 DEF Leaving, Away, Bits, execVars
      <3>3. Exists(u)'
        BY <1>1, <1>4, <2>3 DEF Exists, poolVars
      <3> QED BY <1>4, <3>2, <3>3
          DEF WorkerOK, AtRest, Calling, Executing, WindingUp, Stopping
    <2>4. CASE u # size
      <3>1. pc'[u] = pc[u] /\ (Exists(u)' <=> Exists(u))
        BY <1>1, <1>4, <2>4 DEF Exists, poolVars
      <3>2. WindingUp /\ ~AtRest' /\ ~Calling' /\ ~Executing' /\ ~Stopping'
        BY <1>1, <1>4 DEF AtRest, Calling, Executing, WindingUp, Stopping
      <3> QED BY <1>1, <2>2, <3>1, <3>2
          DEF WorkerOK, Absent, Leaving, Back, Away, Bits, execVars
    <2> QED BY <2>3, <2>4
  <1>8. ExecutionOK'
    BY <1>4 DEF ExecutionOK, Executing
  <1> QED BY <1>5, <1>6, <1>7, <1>8 DEF PoolInv

\* CountThread: the new worker stays where it is when it is counted.
LEMMA CountStep ==
  ASSUME PoolInv, CountThread
  PROVE  PoolInv'
  <1>1. /\ pc[Main] = "count" /\ size' = size + 1
        /\ UNCHANGED <<execVars, useWait, threadNum, calls, word, blocked, attempts>>
        /\ UNCHANGED running
    BY DEF CountThread
  <1>2. threadNum \in ThreadNums /\ threadNum \in Nat /\ size < threadNum /\ size \in Nat
        /\ 0..(threadNum - 1) \subseteq Threads
    <2>1. threadNum \in ThreadNums /\ size < threadNum /\ size \in Nat
      BY <1>1 DEF PoolInv, OwnerOK, TypeOK
    <2> QED BY <2>1, ThreadFacts
  <1>3. PICK l \in {"waitDone", "spawn"} : Goto(Main, l) /\ (l = "waitDone" <=> size' = threadNum)
    BY DEF CountThread
  <1>4. PlaceTypes' /\ pc'[Main] = l /\ \A u \in Threads : pc'[u] = pc[u]
    <2>1. l \in OwnerLabels /\ PlaceTypes
      BY TypeParts DEF PoolInv, OwnerLabels
    <2> QED BY <1>3, <2>1, OwnerGoes
  <1>5. TypeOK'
    <2>1. ExecTypes' /\ EventTypes'
      BY <1>1, TypeParts DEF PoolInv, ExecTypes, EventTypes, execVars
    <2>2. useWait' \in BOOLEAN /\ running' \in BOOLEAN
      BY <1>1 DEF PoolInv, TypeOK
    <2>3. UNCHANGED attempts /\ threadNum' \in ThreadNums \cup {0} /\ calls' \in 0..MaxCalls
      BY <1>1 DEF PoolInv, TypeOK
    <2>4. size' \in Nat /\ Pool' \subseteq Threads
      BY <1>1, <1>2 DEF Pool
    <2> QED BY <1>4, <2>1, <2>2, <2>3, <2>4, OwnerTypes DEF PoolInv
  <1>6. OwnerOK'
    <2>1. running
      BY <1>1 DEF PoolInv, OwnerOK
    <2>2. size' > 0 /\ size' =< threadNum /\ (l = "spawn" => size' < threadNum)
      BY <1>1, <1>2, <1>3
    <2> QED BY <1>1, <1>2, <1>4, <2>1, <2>2 DEF OwnerOK
  <1>7. WorkersOK'
    <2>1. SUFFICES ASSUME NEW u \in Threads PROVE WorkerOK(u)'
      BY DEF WorkersOK
    <2>2. WorkerOK(u) /\ u \in Nat
      BY ThreadFacts DEF PoolInv, WorkersOK
    <2>3. Exists(u)' <=> Exists(u)
      BY <1>1, <1>2, <1>4, <2>2 DEF Exists
    <2>4. WindingUp /\ ~AtRest' /\ ~Calling' /\ ~Stopping'
      BY <1>1, <1>4 DEF AtRest, Calling, WindingUp, Stopping
    <2>5. ~Executing'
      BY <1>1, <1>2, <1>4 DEF Executing, PoolInv, OwnerOK
    <2> QED BY <1>1, <1>4, <2>2, <2>3, <2>4, <2>5
        DEF WorkerOK, Absent, Leaving, Back, Away, Bits, execVars
  <1>8. ExecutionOK'
    <2>1. threadNum' # 0
      BY <1>1, <1>2
    <2> QED BY <1>4, <2>1 DEF ExecutionOK, Executing
  <1> QED BY <1>5, <1>6, <1>7, <1>8 DEF PoolInv

\* ExecuteAndWait: the resting workers are called.
LEMMA ExecuteStep ==
  ASSUME PoolInv, ExecuteAndWait
  PROVE  PoolInv'
  <1>1. /\ pc[Main] = "user" /\ size > 0
        /\ UNCHANGED <<size, threadNum, blocked, attempts>> /\ UNCHANGED running
        /\ word' = [word EXCEPT !["done"] = {}]
        /\ Executor!Prepare(Pool)
    BY DEF ExecuteAndWait
  <1>2. PlaceTypes' /\ pc'[Main] = "wakeAll" /\ \A u \in Threads : pc'[u] = pc[u]
    <2>1. "wakeAll" \in OwnerLabels /\ PlaceTypes /\ Goto(Main, "wakeAll")
      BY TypeParts DEF PoolInv, OwnerLabels, ExecuteAndWait
    <2> QED BY <2>1, OwnerGoes
  <1>3. EventTypes' /\ word'["done"] = {} /\ word'["idle"] = word["idle"]
    <2>1. EventTypes /\ {"idle", "wake", "done"} = Events
      BY TypeParts DEF Events, PoolInv
    <2> QED BY <1>1, <2>1 DEF EventTypes
  <1>4. ExecTypes' /\ \A u \in Threads : place'[u] = IF u \in Pool THEN "ready" ELSE "exited"
    BY <1>1, TypeParts DEF PoolInv, ExecTypes, Executor!Prepare
  <1>5. running /\ threadNum = 0
    BY <1>1 DEF PoolInv, OwnerOK
  <1>6. TypeOK'
    <2>1. useWait' \in BOOLEAN
      BY DEF ExecuteAndWait
    <2>2. running' \in BOOLEAN
      BY <1>1 DEF PoolInv, TypeOK
    <2>3. size' \in Nat /\ Pool' \subseteq Threads /\ UNCHANGED attempts
          /\ threadNum' \in ThreadNums \cup {0}
      BY <1>1 DEF PoolInv, TypeOK, Pool
    <2>4. calls' \in 0..MaxCalls
      BY PoolAssumption DEF PoolInv, TypeOK, ExecuteAndWait
    <2> QED BY <1>2, <1>3, <1>4, <2>1, <2>2, <2>3, <2>4, OwnerTypes DEF PoolInv
  <1>7. OwnerOK'
    BY <1>1, <1>2, <1>5 DEF PoolInv, OwnerOK
  <1>8. WorkersOK'
    <2>1. SUFFICES ASSUME NEW u \in Threads PROVE WorkerOK(u)'
      BY DEF WorkersOK
    <2>2. WorkerOK(u) /\ u \in Nat /\ size \in Nat
      BY ThreadFacts DEF PoolInv, WorkersOK, TypeOK
    <2>3. (Exists(u) <=> u \in Pool) /\ (Exists(u)' <=> u \in Pool)
      BY <1>1, <1>2, <2>2 DEF Exists, Pool
    <2>4. CASE u \in Pool
      <3>1. Resting(u)
        BY <1>1, <2>2, <2>3, <2>4 DEF WorkerOK, AtRest
      <3>2. Called(u)'
        BY <1>2, <1>3, <1>4, <2>4, <3>1 DEF Resting, Called, Away, Bits, Home
      <3>3. Calling' /\ ~AtRest' /\ ~Executing' /\ ~WindingUp' /\ ~Stopping'
        BY <1>1, <1>2, <1>5 DEF AtRest, Calling, Executing, WindingUp, Stopping
      <3> QED BY <2>3, <2>4, <3>2, <3>3 DEF WorkerOK
    <2>5. CASE u \notin Pool
      BY <1>2, <1>3, <1>4, <2>2, <2>3, <2>5 DEF WorkerOK, Absent, Away, Bits
    <2> QED BY <2>4, <2>5
  <1>9. ExecutionOK'
    BY <1>2 DEF ExecutionOK, Executing
  <1> QED BY <1>6, <1>7, <1>8, <1>9 DEF PoolInv

\* WakeAll: every worker is invited, or told to stop.
LEMMA WakeAllStep ==
  ASSUME Narrow, PoolInv, WakeAll
  PROVE  PoolInv'
  <1>1. /\ pc[Main] = "wakeAll" /\ size > 0 /\ size \in Nat
        /\ UNCHANGED <<execVars, blocked, attempts>> /\ UNCHANGED poolVars
        /\ Pool # {} /\ Pool \subseteq Threads
    BY DEF WakeAll, PoolInv, OwnerOK, TypeOK, Pool
  <1>2. word' = [word EXCEPT !["idle"] = @ \cup Pool] /\ Goto(Main, "wokeAll")
    BY <1>1, MaskOfAll DEF WakeAll, Set
  <1>3. PlaceTypes' /\ pc'[Main] = "wokeAll" /\ \A u \in Threads : pc'[u] = pc[u]
    <2>1. "wokeAll" \in OwnerLabels /\ PlaceTypes
      BY TypeParts DEF PoolInv, OwnerLabels
    <2> QED BY <1>2, <2>1, OwnerGoes
  <1>4. /\ EventTypes' /\ word'["done"] = word["done"] /\ word'["idle"] = word["idle"] \cup Pool
    <2>1. EventTypes /\ {"idle", "wake", "done"} = Events
      BY TypeParts DEF Events, PoolInv
    <2> QED BY <1>1, <1>2, <2>1 DEF EventTypes
  <1>5. TypeOK'
    <2>1. ExecTypes'
      BY <1>1, TypeParts DEF PoolInv, ExecTypes, execVars
    <2>2. useWait' \in BOOLEAN /\ running' \in BOOLEAN
      BY <1>1 DEF PoolInv, TypeOK, poolVars
    <2>3. size' \in Nat /\ Pool' \subseteq Threads /\ UNCHANGED attempts
          /\ threadNum' \in ThreadNums \cup {0} /\ calls' \in 0..MaxCalls
      BY <1>1 DEF PoolInv, TypeOK, Pool, poolVars
    <2> QED BY <1>3, <1>4, <2>1, <2>2, <2>3, OwnerTypes DEF PoolInv
  <1>6. OwnerOK'
    BY <1>1, <1>3 DEF PoolInv, OwnerOK, poolVars
  <1>7. WorkersOK'
    <2>1. SUFFICES ASSUME NEW u \in Threads PROVE WorkerOK(u)'
      BY DEF WorkersOK
    <2>2. WorkerOK(u) /\ u \in Nat
      BY ThreadFacts DEF PoolInv, WorkersOK
    <2>3. (Exists(u) <=> u \in Pool) /\ (Exists(u)' <=> u \in Pool)
      BY <1>1, <1>3, <2>2 DEF Exists, Pool, poolVars
    <2>4. CASE u \in Pool /\ running
      <3>1. Called(u)
        BY <1>1, <2>2, <2>3, <2>4 DEF WorkerOK, Calling
      <3>2. Invited(u)'
        BY <1>1, <1>3, <1>4, <2>4, <3>1 DEF Called, Invited, Bits, Home, execVars
      <3>3. Executing' /\ ~AtRest' /\ ~Calling' /\ ~WindingUp' /\ ~Stopping'
        BY <1>1, <1>3, <2>4 DEF AtRest, Calling, Executing, WindingUp, Stopping, poolVars
      <3> QED BY <2>3, <2>4, <3>2, <3>3 DEF WorkerOK
    <2>5. CASE u \in Pool /\ ~running
      <3>1. Resting(u)
        BY <1>1, <2>2, <2>3, <2>5 DEF WorkerOK, AtRest
      <3>2. Stopped(u)'
        BY <1>1, <1>3, <1>4, <2>5, <3>1 DEF Resting, Stopped, Away, Bits, Home, execVars
      <3>3. ~Executing' /\ ~AtRest' /\ ~Calling' /\ ~WindingUp' /\ Stopping'
        BY <1>1, <1>3, <2>5 DEF AtRest, Calling, Executing, WindingUp, Stopping, poolVars
      <3> QED BY <2>3, <2>5, <3>2, <3>3 DEF WorkerOK
    <2>6. CASE u \notin Pool
      BY <1>1, <1>3, <1>4, <2>2, <2>3, <2>6 DEF WorkerOK, Absent, Away, Bits, execVars
    <2> QED BY <2>4, <2>5, <2>6
  <1>8. ExecutionOK'
    <2>1. SUFFICES ASSUME Executing' PROVE \E t \in Threads : place'[t] # "exited"
      BY <1>3 DEF ExecutionOK
    <2>2. running
      BY <1>1, <1>3, <2>1 DEF Executing, poolVars
    <2>3. 0 \in Threads /\ Exists(0)
      BY <1>1 DEF Pool, Exists
    <2>4. WorkerOK(0)
      BY <2>3 DEF PoolInv, WorkersOK
    <2>5. place[0] = "ready"
      BY <1>1, <2>2, <2>3, <2>4 DEF WorkerOK, Calling, Called
    <2> QED BY <1>1, <2>3, <2>5 DEF execVars
  <1> QED BY <1>5, <1>6, <1>7, <1>8 DEF PoolInv

\* WokeAll: nothing but the place of the owner changes.
LEMMA WokeAllStep ==
  ASSUME PoolInv, WokeAll
  PROVE  PoolInv'
  <1>1. /\ pc[Main] = "wokeAll"
        /\ UNCHANGED <<execVars, word, attempts>> /\ UNCHANGED poolVars
    BY DEF WokeAll
  <1>2. PICK l \in {"waitDone", "join"} : Goto(Main, l) /\ (l = "waitDone" <=> running)
    BY DEF WokeAll, Notify
  <1>3. PlaceTypes' /\ pc'[Main] = l /\ \A u \in Threads : pc'[u] = pc[u]
    <2>1. l \in OwnerLabels /\ PlaceTypes
      BY TypeParts DEF PoolInv, OwnerLabels
    <2> QED BY <1>2, <2>1, OwnerGoes
  <1>4. EventTypes'
    BY TypeParts, NotifyTypes DEF WokeAll, Notify, Events, PoolInv
  <1>5. TypeOK'
    <2>1. ExecTypes'
      BY <1>1, TypeParts DEF PoolInv, ExecTypes, execVars
    <2>2. useWait' \in BOOLEAN /\ running' \in BOOLEAN
      BY <1>1 DEF PoolInv, TypeOK, poolVars
    <2>3. size' \in Nat /\ Pool' \subseteq Threads /\ UNCHANGED attempts
          /\ threadNum' \in ThreadNums \cup {0} /\ calls' \in 0..MaxCalls
      BY <1>1 DEF PoolInv, TypeOK, Pool, poolVars
    <2> QED BY <1>3, <1>4, <2>1, <2>2, <2>3, OwnerTypes DEF PoolInv
  <1>6. OwnerOK'
    BY <1>1, <1>2, <1>3 DEF PoolInv, OwnerOK, poolVars
  <1>7. running => threadNum = 0
    BY <1>1 DEF PoolInv, OwnerOK
  <1>8. (Executing' <=> Executing) /\ (Stopping' <=> Stopping)
        /\ ~AtRest' /\ ~Calling' /\ ~WindingUp'
    BY <1>1, <1>2, <1>3, <1>7
    DEF AtRest, Calling, Executing, WindingUp, Stopping, poolVars
  <1>9. WorkersOK'
    <2>1. SUFFICES ASSUME NEW u \in Threads PROVE WorkerOK(u)'
      BY DEF WorkersOK
    <2>2. WorkerOK(u)
      BY DEF PoolInv, WorkersOK
    <2>3. Exists(u) <=> Exists(u)'
      BY <1>1, <1>3 DEF Exists, poolVars
    <2> QED BY <1>1, <1>3, <1>8, <2>2, <2>3
        DEF WorkerOK, Absent, Invited, Busy, Leaving, Back, Stopped, Away, Bits, execVars
  <1>10. ExecutionOK'
    BY <1>1, <1>3, <1>8 DEF PoolInv, ExecutionOK, execVars
  <1> QED BY <1>5, <1>6, <1>9, <1>10 DEF PoolInv

\* WaitDone: with the bits of all workers set, every worker is back.
LEMMA WaitDoneStep ==
  ASSUME Narrow, PoolInv, WaitDone
  PROVE  PoolInv'
  <1>1. /\ pc[Main] = "waitDone"
        /\ UNCHANGED <<execVars, attempts>> /\ UNCHANGED poolVars
        /\ Pool \subseteq Threads
    BY DEF WaitDone, PoolInv, TypeOK
  <1>2. PICK l \in {"validate", "woundUp"} :
           (l = "validate" <=> threadNum = 0) /\ Wait(Main, "done", Pool, l)
    <2>1. \E l \in {"validate", "woundUp"} :
            (l = "validate" <=> threadNum = 0) /\ l = IF threadNum = 0 THEN "validate" ELSE "woundUp"
      OBVIOUS
    <2> QED BY <2>1, MaskOfAll DEF WaitDone
  <1>3. /\ EventTypes'
        /\ \A f \in Events \ {"done"} : word'[f] = word[f]
        /\ \/ Pool \subseteq word["done"] /\ word'["done"] = word["done"] \ Pool /\ Goto(Main, l)
           \/ UNCHANGED <<word, pc>>
    BY <1>1, <1>2, TypeParts, WaitOutcome DEF PoolInv, Events
  <1>4. CASE UNCHANGED <<word, pc>>
    BY <1>1, <1>3, <1>4, StillFrame
  <1>5. CASE Pool \subseteq word["done"] /\ word'["done"] = word["done"] \ Pool /\ Goto(Main, l)
    <2>1. PlaceTypes' /\ pc'[Main] = l /\ \A u \in Threads : pc'[u] = pc[u]
      <3>1. l \in OwnerLabels /\ PlaceTypes
        BY TypeParts DEF PoolInv, OwnerLabels
      <3> QED BY <1>5, <3>1, OwnerGoes
    <2>2. word'["idle"] = word["idle"]
      BY <1>3 DEF Events
    <2>3. TypeOK'
      <3>1. ExecTypes'
        BY <1>1, TypeParts DEF PoolInv, ExecTypes, execVars
      <3>2. useWait' \in BOOLEAN /\ running' \in BOOLEAN
        BY <1>1 DEF PoolInv, TypeOK, poolVars
      <3>3. size' \in Nat /\ Pool' \subseteq Threads /\ UNCHANGED attempts
            /\ threadNum' \in ThreadNums \cup {0} /\ calls' \in 0..MaxCalls
        BY <1>1 DEF PoolInv, TypeOK, Pool, poolVars
      <3> QED BY <1>3, <2>1, <3>1, <3>2, <3>3, OwnerTypes DEF PoolInv
    <2>4. OwnerOK'
      BY <1>1, <1>2, <2>1 DEF PoolInv, OwnerOK, poolVars
    <2>5. \A u \in Threads : (u \in Pool => Back(u)) /\ (u \notin Pool => Absent(u))
      <3>1. TAKE u \in Threads
      <3>2. WorkerOK(u) /\ u \in Nat /\ size \in Nat
        BY ThreadFacts DEF PoolInv, WorkersOK, TypeOK
      <3>3. Exists(u) <=> u \in Pool
        BY <1>1, <3>2 DEF Exists, Pool
      <3>4. Executing \/ WindingUp
        BY <1>1 DEF Executing, WindingUp
      <3>5. CASE u \in Pool
        <4>1. Invited(u) \/ Busy(u) \/ Leaving(u) \/ Back(u)
          BY <3>2, <3>3, <3>4, <3>5 DEF WorkerOK
        <4> QED BY <1>5, <3>5, <4>1 DEF Invited, Busy, Leaving, Away, Bits
      <3>6. CASE u \notin Pool
        BY <3>2, <3>3, <3>6 DEF WorkerOK
      <3> QED BY <3>5, <3>6
    <2>6. WorkersOK'
      <3>1. SUFFICES ASSUME NEW u \in Threads PROVE WorkerOK(u)'
        BY DEF WorkersOK
      <3>2. AtRest' /\ ~Calling' /\ ~Executing' /\ ~WindingUp' /\ ~Stopping'
        BY <2>1 DEF AtRest, Calling, Executing, WindingUp, Stopping
      <3>3. u \in Nat /\ size \in Nat /\ size' = size
        BY <1>1, ThreadFacts DEF PoolInv, TypeOK, poolVars
      <3>4. Exists(u)' <=> u \in Pool
        BY <2>1, <3>3 DEF Exists, Pool
      <3>5. CASE u \in Pool
        <4>1. Resting(u)'
          BY <1>1, <1>5, <2>1, <2>2, <2>5, <3>5 DEF Back, Resting, Away, Bits, Home, execVars
        <4> QED BY <3>2, <3>4, <3>5, <4>1 DEF WorkerOK
      <3>6. CASE u \notin Pool
        <4>1. Absent(u)'
          BY <1>1, <1>5, <2>1, <2>2, <2>5, <3>6 DEF Absent, Away, Bits, execVars
        <4> QED BY <3>4, <3>6, <4>1 DEF WorkerOK
      <3> QED BY <3>5, <3>6
    <2>7. ExecutionOK'
      <3>1. \A u \in Threads : place[u] = "exited"
        BY <2>5 DEF Back, Absent, Away
      <3>2. l = "validate" => Executing
        BY <1>1, <1>2 DEF Executing
      <3>3. ~Executing'
        BY <2>1 DEF Executing
      <3> QED BY <1>1, <2>1, <3>1, <3>2, <3>3 DEF PoolInv, ExecutionOK, execVars
    <2> QED BY <2>3, <2>4, <2>6, <2>7 DEF PoolInv
  <1> QED BY <1>3, <1>4, <1>5

\* ReturnToUser: the workers rest, and still do.
LEMMA ReturnStep ==
  ASSUME PoolInv, ReturnToUser
  PROVE  PoolInv'
  <1>1. /\ pc[Main] \in {"validate", "woundUp"} /\ threadNum' = 0
        /\ UNCHANGED <<execVars, useWait, size, calls, word, blocked, attempts>>
        /\ UNCHANGED running
    BY DEF ReturnToUser
  <1>2. PlaceTypes' /\ pc'[Main] = "user" /\ \A u \in Threads : pc'[u] = pc[u]
    <2>1. "user" \in OwnerLabels /\ PlaceTypes /\ Goto(Main, "user")
      BY TypeParts DEF PoolInv, OwnerLabels, ReturnToUser
    <2> QED BY <2>1, OwnerGoes
  <1>3. TypeOK'
    <2>1. ExecTypes' /\ EventTypes'
      BY <1>1, TypeParts DEF PoolInv, ExecTypes, EventTypes, execVars
    <2>2. useWait' \in BOOLEAN /\ running' \in BOOLEAN
      BY <1>1 DEF PoolInv, TypeOK
    <2>3. size' \in Nat /\ Pool' \subseteq Threads /\ UNCHANGED attempts
          /\ threadNum' \in ThreadNums \cup {0} /\ calls' \in 0..MaxCalls
      BY <1>1 DEF PoolInv, TypeOK, Pool
    <2> QED BY <1>2, <2>1, <2>2, <2>3, OwnerTypes DEF PoolInv
  <1>4. OwnerOK'
    BY <1>1, <1>2 DEF PoolInv, OwnerOK
  <1>5. WorkersOK'
    <2>1. SUFFICES ASSUME NEW u \in Threads PROVE WorkerOK(u)'
      BY DEF WorkersOK
    <2>2. WorkerOK(u)
      BY DEF PoolInv, WorkersOK
    <2>3. Exists(u) <=> Exists(u)'
      BY <1>1, <1>2 DEF Exists
    <2>4. AtRest /\ AtRest' /\ ~Calling' /\ ~Executing' /\ ~WindingUp' /\ ~Stopping'
      BY <1>1, <1>2 DEF AtRest, Calling, Executing, WindingUp, Stopping
    <2> QED BY <1>1, <1>2, <2>2, <2>3, <2>4 DEF WorkerOK, Absent, Resting, Away, Bits, execVars
  <1>6. ExecutionOK'
    BY <1>2 DEF ExecutionOK, Executing
  <1> QED BY <1>3, <1>4, <1>5, <1>6 DEF PoolInv

------------------------------------------------------------------------------
(***************************************************************************)
(* The theorems.                                                           *)
(***************************************************************************)

\* The invariant is inductive.
LEMMA StepKeepsPoolInv ==
  ASSUME Narrow, PoolInv, [Next]_vars
  PROVE  PoolInv'
  <1>1. CASE WindUpOrShutdown
    BY <1>1, WindUpStep
  <1>2. CASE ExecuteAndWait
    BY <1>2, ExecuteStep
  <1>3. CASE Owner
    BY <1>3, JoinStep, ShutdownStep, StartStep, CountStep, WakeAllStep, WokeAllStep,
       WaitDoneStep, ReturnStep DEF Owner
  <1>4. CASE \E t \in Threads : Worker(t) \/ Advance(t)
    BY <1>4, WorkerStep
  <1>5. CASE SpuriousWakeUp
    <2>1. UNCHANGED <<execVars, poolVars, word, pc, attempts>>
      BY <1>5 DEF SpuriousWakeUp
    <2>2. EventTypes'
      <3>1. EventTypes
        BY TypeParts DEF PoolInv
      <3>2. PICK e \in Events : \E p \in blocked[e] : blocked' = [blocked EXCEPT ![e] = @ \ {p}]
        BY <1>5 DEF SpuriousWakeUp
      <3> QED BY <2>1, <3>1, <3>2 DEF EventTypes
    <2> QED BY <2>1, <2>2, StillFrame
  <1>6. CASE UNCHANGED vars
    <2>1. EventTypes' /\ UNCHANGED <<execVars, poolVars, word, pc, attempts>>
      BY <1>6, TypeParts DEF PoolInv, EventTypes, vars
    <2> QED BY <2>1, StillFrame
  <1> QED BY <1>1, <1>2, <1>3, <1>4, <1>5, <1>6 DEF Next, Quiet

\* What holds of every state of the pool.
LEMMA PoolInvariant == ASSUME Narrow PROVE Spec => []PoolInv
  <1>1. Init => PoolInv
    BY InitPoolInv
  <1>2. PoolInv /\ [Next]_vars => PoolInv'
    BY StepKeepsPoolInv
  <1> QED BY <1>1, <1>2, PTL DEF Spec

\* executeAndWait returns only when every task is done and every worker has
\* left the executor, for any number of threads, attempts and calls
\* (waitDone and validateAllDone at the end of executeAndWait).
THEOREM CallsReturnWhenDone == ASSUME Narrow PROVE Spec => []ReturnsWhenDone
  <1>1. PoolInv => ReturnsWhenDone
    <2>1. SUFFICES ASSUME PoolInv, pc[Main] = "validate"
                   PROVE  phase = "done" /\ \A t \in Threads : place[t] = "exited"
      BY DEF ReturnsWhenDone
    <2>2. phase = "done"
      BY <2>1 DEF PoolInv, ExecutionOK
    <2>3. ASSUME NEW t \in Threads PROVE place[t] = "exited"
      <3>1. WorkerOK(t) /\ AtRest
        BY <2>1 DEF PoolInv, WorkersOK, AtRest
      <3> QED BY <3>1 DEF WorkerOK, Absent, Resting, Away
    <2> QED BY <2>2, <2>3
  <1> QED BY <1>1, PoolInvariant, PTL

\* Between two calls of the owner, and when executeAndWait validates, every
\* worker is out of the executor and on its way to wait for the next
\* execution (doThread), so that the owner may change the graph.
THEOREM WorkersIdleBetweenCalls == ASSUME Narrow PROVE Spec => []WorkersAreIdle
  <1>1. PoolInv => WorkersAreIdle
    <2>1. SUFFICES ASSUME PoolInv, pc[Main] \in {"user", "validate"}, NEW t \in Threads
                   PROVE  /\ place[t] = "exited"
                          /\ pc[t] \in IF t < size THEN Home ELSE {"none"}
      BY DEF WorkersAreIdle, Home
    <2>2. WorkerOK(t) /\ AtRest /\ (Exists(t) <=> t < size)
      BY <2>1 DEF PoolInv, WorkersOK, AtRest, Exists
    <2> QED BY <2>2 DEF WorkerOK, Absent, Resting, Away
  <1> QED BY <1>1, PoolInvariant, PTL

\* The idle bit of a worker outlives the call that set it and the executor
\* that it calls the worker for, and still every worker is called once for
\* every execution (executeAndWait, doThread).
THEOREM WorkersCalledOncePerExecution ==
  ASSUME Narrow PROVE Spec => []CalledOncePerExecution
  <1>1. PoolInv => CalledOncePerExecution
    <2>1. SUFFICES ASSUME PoolInv, NEW t \in Threads
                   PROVE  /\ place[t] = "ready" =>
                               t \in word["idle"] \/ pc[t] = "loop" \/ pc[Main] = "wakeAll"
                          /\ running /\ t \in word["idle"] => place[t] = "ready" /\ pc[t] # "loop"
                          /\ pc[Main] = "user" => t \notin word["idle"]
      BY DEF CalledOncePerExecution
    <2>2. WorkerOK(t) /\ OwnerOK /\ pc[Main] \in OwnerLabels /\ t \in Nat
      BY <2>1, ThreadFacts DEF PoolInv, WorkersOK, TypeOK
    <2>3. CASE ~Exists(t)
      BY <2>2, <2>3 DEF WorkerOK, Absent, Away, Bits
    <2>4. CASE Exists(t)
      <3>1. pc[Main] # "joined"
        BY <2>2, <2>4 DEF OwnerOK, Exists
      <3>2. CASE AtRest
        BY <2>2, <2>4, <3>2 DEF WorkerOK, Resting, Away, Bits
      <3>3. CASE Calling
        BY <2>2, <2>4, <3>3 DEF WorkerOK, Calling, Called, Bits
      <3>4. CASE Executing
        BY <2>2, <2>4, <3>4
        DEF WorkerOK, Executing, Invited, Busy, Leaving, Back, Away, Bits, Home
      <3>5. CASE WindingUp
        BY <2>2, <2>4, <3>5 DEF WorkerOK, WindingUp, Leaving, Back, Away, Bits
      <3>6. CASE Stopping
        BY <2>2, <2>4, <3>6 DEF WorkerOK, Stopping, Stopped, Away, Bits
      <3> QED BY <2>2, <3>1, <3>2, <3>3, <3>4, <3>5, <3>6, StagesOfOwner
    <2> QED BY <2>3, <2>4
  <1> QED BY <1>1, PoolInvariant, PTL

\* No worker has finished an execution, or its first bit, before the execution
\* begins (the assertion of executeAndWait that no done bit is set).
THEOREM NobodyFinishesEarly == ASSUME Narrow PROVE Spec => []NobodyDoneEarly
  <1>1. PoolInv => NobodyDoneEarly
    <2>1. SUFFICES ASSUME PoolInv, pc[Main] = "wakeAll", NEW t \in word["done"] PROVE FALSE
      BY DEF NobodyDoneEarly
    <2>2. t \in Threads
      BY <2>1 DEF PoolInv, TypeOK, Events
    <2>3. WorkerOK(t) /\ (AtRest \/ Calling)
      BY <2>1, <2>2 DEF PoolInv, WorkersOK, AtRest, Calling
    <2> QED BY <2>3 DEF WorkerOK, Absent, Resting, Called, Away, Bits
  <1> QED BY <1>1, PoolInvariant, PTL

\* Every variable has its type.
THEOREM PoolTypes == ASSUME Narrow PROVE Spec => []TypeOK
  <1>1. PoolInv => TypeOK
    BY DEF PoolInv
  <1> QED BY <1>1, PoolInvariant, PTL

------------------------------------------------------------------------------
(***************************************************************************)
(* Pausing.                                                                *)
(***************************************************************************)

\* The workers that a wake-up is on its way to, or that a thread may find
\* asleep.
Reach == asleep \cup word["wake"] \cup UNION {waking[u] : u \in Threads}

\* A worker that has returned WAIT is in reach before it pauses, from the time
\* it is put in the sleeping mask; and only with useWait does it pause.
InReach(t) ==
    /\ pc[t] = "pause" => useWait
    /\ useWait /\ place[t] = "waiting" /\ pc[t] \in {"execute", "woken", "pause"} => t \in Reach

ReachInv == \A t \in Threads : InReach(t)

\* A step of worker t takes no other worker out of reach.
LEMMA ReachFrame ==
  ASSUME ReachInv, NEW t \in Threads, UNCHANGED useWait,
         \A u \in Threads \ {t} : pc'[u] = pc[u] /\ place'[u] = place[u],
         Reach \ {t} \subseteq Reach', InReach(t)'
  PROVE  ReachInv'
  <1>1. ASSUME NEW u \in Threads \ {t} PROVE InReach(u)'
    BY <1>1 DEF ReachInv, InReach
  <1> QED BY <1>1 DEF ReachInv

\* A step of worker t goes to one place, and the others stay where they are.
LEMMA WorkerMoves ==
  ASSUME PlaceTypes, NEW t \in Threads, NEW l, Goto(t, l)
  PROVE  pc'[t] = l /\ \A u \in Threads \ {t} : pc'[u] = pc[u]
  BY ThreadFacts DEF PlaceTypes, Goto

\* A worker outside the executor does not pause where it goes, and takes no
\* bit of another one.
LEMMA HomeReach ==
  ASSUME PoolInv, ReachInv, NEW t \in Threads,
         \/ Finish(t) \/ Finished(t) \/ Rouse(t) \/ Roused(t) \/ WaitIdle(t) \/ LeaveLoop(t)
  PROVE  ReachInv'
  <1>1. /\ UNCHANGED execVars /\ UNCHANGED poolVars
        /\ pc[t] \notin {"execute", "woken", "pause"}
    BY DEF Finish, Finished, Rouse, Roused, WaitIdle, LeaveLoop
  <1>2. UNCHANGED pc \/ \E l \in {"finished", "rouse", "roused", "idle", "loop", "returned"} : Goto(t, l)
    BY DEF Finish, Finished, Rouse, Roused, WaitIdle, LeaveLoop, Set, Notify, Wait
  <1>3. /\ pc'[t] \notin {"execute", "woken", "pause"}
        /\ \A u \in Threads \ {t} : pc'[u] = pc[u]
    <2>1. CASE UNCHANGED pc
      BY <1>1, <2>1
    <2>2. CASE \E l \in {"finished", "rouse", "roused", "idle", "loop", "returned"} : Goto(t, l)
      BY <2>2, TypeParts, WorkerMoves DEF PoolInv
    <2> QED BY <1>2, <2>1, <2>2
  <1>4. word["wake"] \subseteq word'["wake"]
    <2>1. word \in [Events -> SUBSET Threads] /\ {"idle", "wake", "done"} = Events
      BY DEF PoolInv, TypeOK, Events
    <2>2. CASE Finished(t) \/ Roused(t) \/ LeaveLoop(t)
      BY <2>2 DEF Finished, Roused, LeaveLoop
    <2>3. CASE Finish(t)
      BY <2>1, <2>3 DEF Finish, Set
    <2>4. CASE Rouse(t)
      BY <2>1, <2>4 DEF Rouse, Set
    <2>5. CASE WaitIdle(t)
      BY <2>1, <2>5 DEF WaitIdle, Wait, Take
    <2> QED BY <2>2, <2>3, <2>4, <2>5
  <1>5. Reach \subseteq Reach'
    BY <1>1, <1>4 DEF Reach, execVars
  <1>6. InReach(t)'
    BY <1>3 DEF InReach
  <1> QED BY <1>1, <1>3, <1>5, <1>6, ReachFrame DEF execVars, poolVars

\* A call takes the worker itself out of the sleeping mask, and it is inside.
LEMMA CallReach ==
  ASSUME PoolInv, ReachInv, NEW t \in Threads, EnterExecutor(t) \/ CallAgain(t)
  PROVE  ReachInv'
  <1>1. Executor!Call(t) /\ UNCHANGED <<poolVars, word>>
    BY DEF EnterExecutor, CallAgain
  <1>2. /\ \A u \in Threads \ {t} : place'[u] = place[u]
        /\ place'[t] = "inside" /\ asleep' = asleep \ {t} /\ waking' = waking
    BY <1>1, TypeParts, ExecutorTypes DEF PoolInv, Executor!Call, ExecTypes
  <1>3. pc'[t] # "pause" /\ \A u \in Threads \ {t} : pc'[u] = pc[u]
    BY TypeParts, WorkerMoves DEF PoolInv, EnterExecutor, CallAgain
  <1>4. Reach \ {t} \subseteq Reach'
    BY <1>1, <1>2 DEF Reach
  <1>5. InReach(t)'
    BY <1>2, <1>3 DEF InReach
  <1> QED BY <1>1, <1>2, <1>3, <1>4, <1>5, ReachFrame DEF poolVars

\* Inside the executor: whom a thread takes out of the sleeping mask it is about
\* to wake, and a thread that returns WAIT with useWait has set its own bit.
LEMMA InsideReach ==
  ASSUME PoolInv, ReachInv, NEW t \in Threads,
         Advance(t) \/ GatherThreads(t) \/ GiveUp(t) \/ ExitExecutor(t)
  PROVE  ReachInv'
  <1>1. pc[t] = "execute" /\ UNCHANGED <<poolVars, word>>
    BY DEF Advance, GatherThreads, GiveUp, ExitExecutor
  <1>2. ExecTypes
    BY TypeParts DEF PoolInv
  <1>3. \A u \in Threads \ {t} : place'[u] = place[u]
    BY <1>2, ExecutorTypes DEF Advance, GatherThreads, GiveUp, ExitExecutor
  <1>4. pc'[t] # "pause" /\ \A u \in Threads \ {t} : pc'[u] = pc[u]
    <2>1. CASE Advance(t) \/ GatherThreads(t) \/ GiveUp(t)
      BY <1>1, <2>1 DEF Advance, GatherThreads, GiveUp
    <2>2. CASE ExitExecutor(t)
      BY <2>2, TypeParts, WorkerMoves DEF PoolInv, ExitExecutor
    <2> QED BY <2>1, <2>2
  <1>5. Reach \subseteq Reach'
    <2>1. CASE GatherThreads(t)
      <3>1. PICK w \in (SUBSET asleep) \ {{}} :
              waking' = [waking EXCEPT ![t] = w] /\ asleep' = asleep \ w
        BY <2>1 DEF GatherThreads, Executor!Gather
      <3>2. waking[t] = {}
        BY <2>1 DEF GatherThreads, Executor!Gather, Executor!Working
      <3>3. waking'[t] = w /\ \A u \in Threads \ {t} : waking'[u] = waking[u]
        BY <1>2, <3>1 DEF ExecTypes
      <3> QED BY <1>1, <3>1, <3>2, <3>3 DEF Reach
    <2>2. CASE Advance(t) \/ GiveUp(t) \/ ExitExecutor(t)
      <3>1. waking' = waking /\ asleep \subseteq asleep'
        BY <2>2 DEF Advance, GiveUp, ExitExecutor, Executor!Advance, Executor!GiveUp,
                    Executor!ReturnWait, Executor!ReturnExit
      <3> QED BY <1>1, <3>1 DEF Reach
    <2> QED BY <2>1, <2>2
  <1>6. InReach(t)'
    <2>1. CASE Advance(t) \/ GatherThreads(t)
      <3>1. place' = place /\ pc' = pc /\ useWait' = useWait
        BY <2>1 DEF Advance, GatherThreads, Executor!Advance, Executor!Gather, poolVars
      <3> QED BY <1>5, <3>1 DEF ReachInv, InReach
    <2>2. CASE ExitExecutor(t)
      <3>1. place'[t] = "exited"
        BY <1>2, <2>2 DEF ExitExecutor, Executor!ReturnExit, ExecTypes
      <3> QED BY <1>4, <3>1 DEF InReach
    <2>3. CASE GiveUp(t)
      <3>1. CASE Executor!GiveUp(t, useWait)
        <4>1. place'[t] = IF useWait THEN "dozing" ELSE "waiting"
          BY <1>2, <3>1 DEF Executor!GiveUp, ExecTypes
        <4> QED BY <1>1, <1>4, <4>1 DEF InReach, poolVars
      <3>2. CASE Executor!ReturnWait(t)
        <4>1. t \in Reach'
          BY <3>2 DEF Executor!ReturnWait, Reach
        <4> QED BY <1>4, <4>1 DEF InReach
      <3> QED BY <2>3, <3>1, <3>2 DEF GiveUp
    <2> QED BY <2>1, <2>2, <2>3
  <1> QED BY <1>1, <1>3, <1>4, <1>5, <1>6, ReachFrame DEF poolVars

\* The callback hands those it wakes over from the mask to the event.
LEMMA WakeReach ==
  ASSUME PoolInv, ReachInv, NEW t \in Threads, WakeThreads(t) \/ Woken(t)
  PROVE  ReachInv'
  <1>1. /\ pc[t] \in {"execute", "woken"} /\ UNCHANGED poolVars /\ UNCHANGED place
    BY DEF WakeThreads, Woken, Executor!Callback, execVars
  <1>2. PICK l \in {"execute", "woken"} : Goto(t, l)
    BY DEF WakeThreads, Woken, Set, Notify
  <1>3. pc'[t] \in {"execute", "woken"} /\ \A u \in Threads \ {t} : pc'[u] = pc[u]
    BY <1>2, TypeParts, WorkerMoves DEF PoolInv
  <1>4. Reach \subseteq Reach'
    <2>1. CASE WakeThreads(t)
      <3>1. /\ word' = [word EXCEPT !["wake"] = @ \cup waking[t]]
            /\ waking' = [waking EXCEPT ![t] = {}] /\ asleep' = asleep
        BY <2>1 DEF WakeThreads, Set, Executor!Callback
      <3>2. word'["wake"] = word["wake"] \cup waking[t]
        BY <3>1 DEF PoolInv, TypeOK, Events
      <3>3. \A u \in Threads \ {t} : waking'[u] = waking[u]
        BY <3>1 DEF PoolInv, TypeOK
      <3> QED BY <3>1, <3>2, <3>3 DEF Reach
    <2>2. CASE Woken(t)
      BY <2>2 DEF Woken, Reach, execVars
    <2> QED BY <2>1, <2>2
  <1>5. InReach(t)'
    BY <1>1, <1>3, <1>4 DEF ReachInv, InReach, poolVars
  <1> QED BY <1>1, <1>3, <1>4, <1>5, ReachFrame DEF poolVars

\* A worker pauses with useWait only, and takes its own bit when it goes on.
LEMMA PauseReach ==
  ASSUME PoolInv, ReachInv, NEW t \in Threads, OutOfAttempts(t) \/ WaitPaused(t)
  PROVE  ReachInv'
  <1>1. UNCHANGED execVars /\ UNCHANGED poolVars
    BY DEF OutOfAttempts, WaitPaused
  <1>2. CASE OutOfAttempts(t)
    <2>1. /\ pc[t] = "execute" /\ UNCHANGED word
          /\ Goto(t, IF useWait THEN "pause" ELSE "loop")
      BY <1>2 DEF OutOfAttempts
    <2>2. /\ pc'[t] = IF useWait THEN "pause" ELSE "loop"
          /\ \A u \in Threads \ {t} : pc'[u] = pc[u]
      BY <2>1, TypeParts, WorkerMoves DEF PoolInv
    <2>3. Reach' = Reach
      BY <1>1, <2>1 DEF Reach, execVars
    <2>4. InReach(t)'
      BY <1>1, <2>1, <2>2, <2>3 DEF ReachInv, InReach, execVars, poolVars
    <2> QED BY <1>1, <2>2, <2>3, <2>4, ReachFrame DEF execVars, poolVars
  <1>3. CASE WaitPaused(t)
    <2>1. \/ word' = [word EXCEPT !["wake"] = @ \ {t}] /\ Goto(t, "loop")
          \/ UNCHANGED <<word, pc>>
      BY <1>3 DEF WaitPaused, Wait, Take
    <2>2. CASE word' = [word EXCEPT !["wake"] = @ \ {t}] /\ Goto(t, "loop")
      <3>1. word'["wake"] = word["wake"] \ {t}
        BY <2>2 DEF PoolInv, TypeOK, Events
      <3>2. pc'[t] = "loop" /\ \A u \in Threads \ {t} : pc'[u] = pc[u]
        BY <2>2, TypeParts, WorkerMoves DEF PoolInv
      <3>3. Reach \ {t} \subseteq Reach'
        BY <1>1, <3>1 DEF Reach, execVars
      <3>4. InReach(t)'
        BY <3>2 DEF InReach
      <3> QED BY <1>1, <3>2, <3>3, <3>4, ReachFrame DEF execVars, poolVars
    <2>3. CASE UNCHANGED <<word, pc>>
      BY <1>1, <2>3 DEF ReachInv, InReach, Reach, execVars, poolVars
    <2> QED BY <2>1, <2>2, <2>3
  <1> QED BY <1>2, <1>3

\* A call of the owner leaves every worker in reach that was; it begins an
\* execution only when none can pause.
LEMMA OwnerReach ==
  ASSUME PoolInv, ReachInv, WindUpOrShutdown \/ ExecuteAndWait \/ Owner
  PROVE  ReachInv'
  <1>1. CASE ExecuteAndWait
    <2>1. SUFFICES ASSUME NEW t \in Threads PROVE InReach(t)'
      BY DEF ReachInv
    <2>2. WorkerOK(t) /\ AtRest
      BY <1>1 DEF ExecuteAndWait, PoolInv, WorkersOK, AtRest
    <2>3. pc[t] \notin {"execute", "woken", "pause"}
      BY <2>2 DEF WorkerOK, Absent, Resting, Home
    <2>4. pc'[t] = pc[t]
      BY <1>1, TypeParts, OwnerGoes DEF ExecuteAndWait, PoolInv, OwnerLabels
    <2> QED BY <2>3, <2>4 DEF InReach
  <1>2. CASE JoinThreads
    <2>1. \A t \in Threads : pc'[t] = "none"
      BY <1>2, ThreadFacts DEF JoinThreads
    <2> QED BY <2>1 DEF ReachInv, InReach
  <1>3. CASE StartThread
    <2>1. pc' = [pc EXCEPT ![Main] = "count", ![size] = "finish"]
          /\ UNCHANGED <<execVars, poolVars, word>>
      BY <1>3 DEF StartThread
    <2>2. \A t \in Threads : pc'[t] = pc[t] \/ pc'[t] = "finish"
      BY <2>1, ThreadFacts DEF PoolInv, TypeOK
    <2> QED BY <2>1, <2>2 DEF ReachInv, InReach, Reach, execVars, poolVars
  <1>4. CASE \/ WindUpOrShutdown \/ ShutdownReturns \/ CountThread
             \/ WakeAll \/ WokeAll \/ WaitDone \/ ReturnToUser
    <2>1. UNCHANGED execVars /\ UNCHANGED useWait
      BY <1>4 DEF WindUpOrShutdown, ShutdownReturns, CountThread, WakeAll, WokeAll, WaitDone,
                  ReturnToUser, poolVars
    <2>2. UNCHANGED pc \/ \E l \in OwnerLabels : Goto(Main, l)
      BY <1>4 DEF WindUpOrShutdown, ShutdownReturns, CountThread, WakeAll, WokeAll, WaitDone,
                  ReturnToUser, Set, Notify, Wait, OwnerLabels
    <2>3. \A t \in Threads : pc'[t] = pc[t]
      BY <2>2, TypeParts, OwnerGoes DEF PoolInv
    <2>4. word'["wake"] = word["wake"]
      <3>1. word \in [Events -> SUBSET Threads] /\ {"idle", "wake", "done"} = Events
        BY DEF PoolInv, TypeOK, Events
      <3> QED BY <1>4, <3>1 DEF WindUpOrShutdown, ShutdownReturns, CountThread, WakeAll, WokeAll,
                                WaitDone, ReturnToUser, Set, Wait, Take
    <2> QED BY <2>1, <2>3, <2>4 DEF ReachInv, InReach, Reach, execVars
  <1> QED BY <1>1, <1>2, <1>3, <1>4 DEF Owner

\* Being in reach survives every step.
LEMMA StepKeepsReach ==
  ASSUME PoolInv, ReachInv, [Next]_vars
  PROVE  ReachInv'
  <1>1. CASE WindUpOrShutdown \/ ExecuteAndWait \/ Owner
    BY <1>1, OwnerReach
  <1>2. CASE \E t \in Threads : Worker(t) \/ Advance(t)
    BY <1>2, HomeReach, CallReach, InsideReach, WakeReach, PauseReach DEF Worker
  <1>3. CASE SpuriousWakeUp \/ UNCHANGED vars
    BY <1>3 DEF SpuriousWakeUp, vars, ReachInv, InReach, Reach, execVars, poolVars
  <1> QED BY <1>1, <1>2, <1>3 DEF Next, Quiet

\* Whatever comes between a worker's decision to return WAIT, its bit in the
\* sleeping mask and its pause (simple_thread_pool.cpp:108-134), when it pauses
\* a wake-up is on its way to it or it can be found asleep.
THEOREM PausedIsInReach == ASSUME Narrow PROVE Spec => []PausedCanBeWoken
  <1>1. Init => ReachInv
    <2>1. Init => \A t \in Threads : pc[t] = "none"
      BY ThreadFacts DEF Init
    <2> QED BY <2>1 DEF ReachInv, InReach
  <1>2. PoolInv /\ ReachInv /\ [Next]_vars => ReachInv'
    BY StepKeepsReach
  <1>3. PoolInv /\ ReachInv => PausedCanBeWoken
    <2>1. SUFFICES ASSUME PoolInv, ReachInv, NEW t \in Threads, pc[t] = "pause" PROVE t \in Reach
      BY DEF PausedCanBeWoken, Reach
    <2>2. place[t] = "waiting"
      BY <2>1, BusyFacts DEF Busy
    <2> QED BY <2>1, <2>2 DEF ReachInv, InReach
  <1> QED BY <1>1, <1>2, <1>3, PoolInvariant, PTL DEF Spec

------------------------------------------------------------------------------
(***************************************************************************)
(* Notifications.                                                          *)
(***************************************************************************)

\* The owner is blocked only where it waits for the workers.
OwnerBlocked == \A e \in Events : Main \in blocked[e] => e = "done" /\ pc[Main] = "waitDone"

NotificationInv == NoLostNotification /\ OwnerBlocked

\* An event is settled by a step that leaves a notification to come or nobody
\* blocked, or that sets no bit and blocks only who lacks one.
Settled(e) ==
    \/ Notifying(e)' \/ blocked'[e] = {}
    \/ /\ ~Notifying(e) /\ word'[e] \subseteq word[e]
       /\ \A p \in blocked'[e] :
            \/ p \in blocked[e] /\ Awaited(p) \subseteq Awaited(p)'
            \/ ~(Awaited(p)' \subseteq word'[e])

\* If every event is settled, no notification is lost in the step.
LEMMA SettledFrame ==
  ASSUME NotificationInv, OwnerBlocked', \A e \in Events : Settled(e)
  PROVE  NotificationInv'
  <1>1. SUFFICES ASSUME NEW e \in Events, NEW p \in blocked'[e], Awaited(p)' \subseteq word'[e]
                 PROVE  Notifying(e)'
    BY DEF NotificationInv, NoLostNotification
  <1>2. SUFFICES ASSUME ~Notifying(e)' PROVE FALSE
    OBVIOUS
  <1>3. /\ ~Notifying(e) /\ word'[e] \subseteq word[e]
        /\ p \in blocked[e] /\ Awaited(p) \subseteq Awaited(p)'
    BY <1>1, <1>2 DEF Settled
  <1> QED BY <1>1, <1>3 DEF NotificationInv, NoLostNotification

\* The places of a worker from which it notifies event e.
Notifies(l, e) == \/ e = "wake" /\ l \in {"roused", "woken"}
                  \/ e = "done" /\ l = "finished"

\* The same for a step of worker t.
LEMMA WorkerSettles ==
  ASSUME NotificationInv, NEW t \in Threads, UNCHANGED poolVars,
         pc'[Main] = pc[Main], \A u \in Threads \ {t} : pc'[u] = pc[u],
         \A e \in Events :
            /\ blocked'[e] \subseteq blocked[e] \cup {t}
            /\ \/ Notifies(pc'[t], e) \/ blocked'[e] = {}
               \/ /\ ~Notifies(pc[t], e) /\ word'[e] \subseteq word[e]
                  /\ t \in blocked[e] \/ t \notin blocked'[e] \/ t \notin word'[e]
  PROVE  NotificationInv'
  <1>1. OwnerBlocked'
    BY ThreadFacts DEF NotificationInv, OwnerBlocked
  <1>2. ASSUME NEW e \in Events PROVE Settled(e)
    <2>1. CASE Notifies(pc'[t], e)
      BY <2>1 DEF Settled, Notifies, Notifying
    <2>2. CASE blocked'[e] = {}
      BY <2>2 DEF Settled
    <2>3. CASE /\ ~Notifies(pc[t], e) /\ word'[e] \subseteq word[e]
               /\ t \in blocked[e] \/ t \notin blocked'[e] \/ t \notin word'[e]
      <3>1. Notifying(e) => Notifying(e)'
        BY <1>2, <2>3 DEF Notifying, Notifies, Events
      <3>2. \A p : Awaited(p)' = Awaited(p)
        BY DEF Awaited, Pool, poolVars
      <3>3. Awaited(t)' = {t}
        BY ThreadFacts DEF Awaited
      <3>4. ASSUME NEW p \in blocked'[e]
            PROVE  \/ p \in blocked[e] /\ Awaited(p) \subseteq Awaited(p)'
                   \/ ~(Awaited(p)' \subseteq word'[e])
        BY <1>2, <2>3, <3>2, <3>3
      <3> QED BY <2>3, <3>1, <3>4 DEF Settled
    <2> QED BY <1>2, <2>1, <2>2, <2>3
  <1> QED BY <1>1, <1>2, SettledFrame

\* A step of worker t sets the bits of an event before it goes to notify it,
\* notifies all, or blocks itself when its bit is not set.
LEMMA WorkerNotifies ==
  ASSUME PoolInv, NotificationInv, NEW t \in Threads, Worker(t) \/ Advance(t)
  PROVE  NotificationInv'
  <1>1. /\ pc \in [Threads \cup {Main} -> OwnerLabels \cup WorkerLabels]
        /\ word \in [Events -> SUBSET Threads]
        /\ blocked \in [Events -> SUBSET (Threads \cup {Main})]
        /\ Main \notin Threads /\ {"idle", "wake", "done"} = Events
    BY ThreadFacts DEF PoolInv, TypeOK, Events
  <1>2. UNCHANGED poolVars
    BY DEF Worker, Finish, Finished, Rouse, Roused, WaitIdle, EnterExecutor, LeaveLoop, CallAgain,
           OutOfAttempts, WaitPaused, GatherThreads, WakeThreads, Woken, GiveUp, ExitExecutor,
           Advance
  <1> DEFINE Moves == pc'[Main] = pc[Main] /\ \A u \in Threads \ {t} : pc'[u] = pc[u]
             Settles == \A e \in Events :
                /\ blocked'[e] \subseteq blocked[e] \cup {t}
                /\ \/ Notifies(pc'[t], e) \/ blocked'[e] = {}
                   \/ /\ ~Notifies(pc[t], e) /\ word'[e] \subseteq word[e]
                      /\ t \in blocked[e] \/ t \notin blocked'[e] \/ t \notin word'[e]
  <1>3. ASSUME NEW l, Goto(t, l) PROVE Moves /\ pc'[t] = l
    BY <1>1, <1>3 DEF Goto
  <1>4. ASSUME UNCHANGED pc PROVE Moves
    BY <1>4
  <1>5. ASSUME NEW e \in Events, NEW mask, NEW n, NEW r, Set(t, e, mask, n, r),
               UNCHANGED blocked, Notifies(n, e), \A f \in Events : ~Notifies(pc[t], f)
        PROVE  Moves /\ Settles
    <2>1. word' = [word EXCEPT ![e] = @ \cup mask] /\ Goto(t, IF mask = {} THEN r ELSE n)
      BY <1>5 DEF Set
    <2>2. Moves /\ pc'[t] = IF mask = {} THEN r ELSE n
      BY <1>3, <2>1
    <2>3. \A f \in Events : f # e \/ mask = {} => word'[f] = word[f]
      BY <1>1, <2>1
    <2>4. \A f \in Events : f = e /\ mask # {} => Notifies(pc'[t], f)
      BY <1>5, <2>2
    <2>5. Settles
      BY <1>5, <2>3, <2>4
    <2> QED BY <2>2, <2>5
  <1>6. ASSUME NEW e \in Events, NEW r, Notify(t, e, r), UNCHANGED word,
               \A f \in Events \ {e} : ~Notifies(pc[t], f)
        PROVE  Moves /\ Settles
    <2>1. blocked' = [blocked EXCEPT ![e] = {}] /\ Goto(t, r)
      BY <1>6 DEF Notify
    <2>2. Moves
      BY <1>3, <2>1
    <2>3. blocked'[e] = {} /\ \A f \in Events \ {e} : blocked'[f] = blocked[f]
      BY <1>1, <2>1
    <2>4. Settles
      BY <1>6, <2>3
    <2> QED BY <2>2, <2>4
  <1>7. ASSUME NEW e \in Events, NEW r, Wait(t, e, {t}, r), \A f \in Events : ~Notifies(pc[t], f)
        PROVE  Moves /\ Settles
    <2>1. CASE t \in word[e]
      <3>1. word' = [word EXCEPT ![e] = @ \ {t}] /\ Goto(t, r) /\ UNCHANGED blocked
        BY <1>7, <2>1 DEF Wait, Take
      <3>2. Moves
        BY <1>3, <3>1
      <3>3. \A f \in Events : word'[f] \subseteq word[f]
        BY <1>1, <3>1
      <3> QED BY <1>7, <3>1, <3>2, <3>3
    <2>2. CASE t \notin word[e]
      <3>1. blocked' = [blocked EXCEPT ![e] = @ \cup {t}] /\ UNCHANGED <<word, pc>>
        BY <1>7, <2>2 DEF Wait
      <3>2. /\ blocked'[e] = blocked[e] \cup {t}
            /\ \A f \in Events \ {e} : blocked'[f] = blocked[f]
        BY <1>1, <3>1
      <3>3. Settles
        BY <1>7, <2>2, <3>1, <3>2
      <3> QED BY <1>4, <3>1, <3>3
    <2> QED BY <2>1, <2>2
  <1>8. ASSUME UNCHANGED <<word, blocked>>, \A f \in Events : ~Notifies(pc[t], f)
        PROVE  Settles
    BY <1>8
  <1> SUFFICES Moves /\ Settles
    BY <1>2, WorkerSettles
  <1> HIDE DEF Moves, Settles
  <1>9. CASE Finish(t) \/ Rouse(t) \/ WakeThreads(t)
    <2>1. UNCHANGED blocked /\ \A f \in Events : ~Notifies(pc[t], f)
      BY <1>9 DEF Finish, Rouse, WakeThreads, Notifies
    <2>2. CASE Finish(t)
      BY <1>1, <1>5, <2>1, <2>2 DEF Finish, Notifies
    <2>3. CASE Rouse(t)
      <3>1. PICK mask : Set(t, "wake", mask, "roused", "idle")
        BY <2>3 DEF Rouse
      <3> QED BY <1>1, <1>5, <2>1, <3>1 DEF Notifies
    <2>4. CASE WakeThreads(t)
      BY <1>1, <1>5, <2>1, <2>4 DEF WakeThreads, Notifies
    <2> QED BY <1>9, <2>2, <2>3, <2>4
  <1>10. CASE Finished(t) \/ Roused(t) \/ Woken(t)
    <2>1. CASE Finished(t)
      BY <1>1, <1>6, <2>1 DEF Finished, Notifies
    <2>2. CASE Roused(t)
      BY <1>1, <1>6, <2>2 DEF Roused, Notifies
    <2>3. CASE Woken(t)
      BY <1>1, <1>6, <2>3 DEF Woken, Notifies
    <2> QED BY <1>10, <2>1, <2>2, <2>3
  <1>11. CASE WaitIdle(t) \/ WaitPaused(t)
    <2>1. CASE WaitIdle(t)
      BY <1>1, <1>7, <2>1 DEF WaitIdle, Notifies
    <2>2. CASE WaitPaused(t)
      BY <1>1, <1>7, <2>2 DEF WaitPaused, Notifies
    <2> QED BY <1>11, <2>1, <2>2
  <1>12. CASE \/ EnterExecutor(t) \/ LeaveLoop(t) \/ CallAgain(t) \/ OutOfAttempts(t)
              \/ GatherThreads(t) \/ GiveUp(t) \/ ExitExecutor(t) \/ Advance(t)
    <2>1. UNCHANGED <<word, blocked>> /\ pc[t] \in {"loop", "execute"}
      BY <1>12 DEF EnterExecutor, LeaveLoop, CallAgain, OutOfAttempts, GatherThreads, GiveUp,
                   ExitExecutor, Advance
    <2>2. Settles
      BY <1>8, <2>1 DEF Notifies
    <2>3. UNCHANGED pc \/ \E l : Goto(t, l)
      BY <1>12 DEF EnterExecutor, LeaveLoop, CallAgain, OutOfAttempts, GatherThreads, GiveUp,
                   ExitExecutor, Advance
    <2> QED BY <1>3, <1>4, <2>2, <2>3
  <1> QED BY <1>9, <1>10, <1>11, <1>12 DEF Worker

\* A step of the owner that leaves the workers alone, when the owner is not
\* blocked or the workers it waits for are the same.
LEMMA OwnerSettles ==
  ASSUME NotificationInv, OwnerBlocked', Main \notin Threads,
         \A t \in Threads : pc'[t] = pc[t],
         \A e \in Events :
            \/ e = "idle" /\ pc'[Main] = "wokeAll"
            \/ blocked'[e] = {}
            \/ /\ e = "idle" => pc[Main] # "wokeAll"
               /\ word'[e] \subseteq word[e]
               /\ Main \in blocked'[e] => \/ ~(Pool' \subseteq word'[e])
                                          \/ Main \in blocked[e] /\ Pool' = Pool
               /\ blocked'[e] \ {Main} \subseteq blocked[e]
  PROVE  NotificationInv'
  <1>1. ASSUME NEW e \in Events PROVE Settled(e)
    <2>1. CASE e = "idle" /\ pc'[Main] = "wokeAll"
      BY <2>1 DEF Settled, Notifying
    <2>2. CASE blocked'[e] = {}
      BY <2>2 DEF Settled
    <2>3. CASE /\ e = "idle" => pc[Main] # "wokeAll"
               /\ word'[e] \subseteq word[e]
               /\ Main \in blocked'[e] => \/ ~(Pool' \subseteq word'[e])
                                          \/ Main \in blocked[e] /\ Pool' = Pool
               /\ blocked'[e] \ {Main} \subseteq blocked[e]
      <3>1. Notifying(e) => Notifying(e)'
        BY <1>1, <2>3 DEF Notifying, Events
      <3>2. ASSUME NEW p \in blocked'[e]
            PROVE  \/ p \in blocked[e] /\ Awaited(p) \subseteq Awaited(p)'
                   \/ ~(Awaited(p)' \subseteq word'[e])
        BY <2>3, <3>2 DEF Awaited
      <3> QED BY <2>3, <3>1, <3>2 DEF Settled
    <2> QED BY <1>1, <2>1, <2>2, <2>3
  <1> QED BY <1>1, SettledFrame

\* The owner wakes all workers from where it is not blocked, waits for all of
\* them or none of the pool, and ends the threads when no worker is about to
\* notify.
LEMMA OwnerNotifies ==
  ASSUME Narrow, PoolInv, NotificationInv, WindUpOrShutdown \/ ExecuteAndWait \/ Owner
  PROVE  NotificationInv'
  <1>1. /\ PlaceTypes /\ word \in [Events -> SUBSET Threads]
        /\ blocked \in [Events -> SUBSET (Threads \cup {Main})]
        /\ Main \notin Threads /\ {"idle", "wake", "done"} = Events
    BY ThreadFacts, TypeParts DEF PoolInv, EventTypes, Events
  <1>2. ASSUME pc[Main] # "waitDone" PROVE \A e \in Events : Main \notin blocked[e]
    BY <1>2 DEF NotificationInv, OwnerBlocked
  <1>3. CASE \/ WindUpOrShutdown \/ ShutdownReturns \/ CountThread \/ ReturnToUser
             \/ ExecuteAndWait
    <2>1. /\ pc[Main] \in {"user", "joined", "count", "validate", "woundUp"}
          /\ UNCHANGED blocked
          /\ word' = word \/ word' = [word EXCEPT !["done"] = {}]
          /\ \E l \in OwnerLabels : Goto(Main, l)
      BY <1>3 DEF WindUpOrShutdown, ShutdownReturns, CountThread, ReturnToUser, ExecuteAndWait,
                  OwnerLabels
    <2>2. \A t \in Threads : pc'[t] = pc[t]
      BY <1>1, <2>1, OwnerGoes
    <2>3. \A e \in Events : Main \notin blocked'[e] /\ word'[e] \subseteq word[e]
      BY <1>1, <1>2, <2>1
    <2>4. OwnerBlocked'
      BY <2>3 DEF OwnerBlocked
    <2> QED BY <1>1, <2>1, <2>2, <2>3, <2>4, OwnerSettles
  <1>4. CASE WakeAll
    <2>1. PICK mask \in SUBSET Threads :
            Set(Main, "idle", mask, "wokeAll", IF running THEN "waitDone" ELSE "join")
      BY <1>4, MaskOfAll DEF WakeAll
    <2>2. pc[Main] = "wakeAll" /\ UNCHANGED blocked
      BY <1>4 DEF WakeAll
    <2>3. PICK l \in OwnerLabels : Goto(Main, l) /\ (l = "wokeAll" \/ mask = {})
      BY <2>1 DEF Set, OwnerLabels
    <2>4. pc'[Main] = l /\ \A t \in Threads : pc'[t] = pc[t]
      BY <1>1, <2>3, OwnerGoes
    <2>5. \A e \in Events : e # "idle" \/ mask = {} => word'[e] = word[e]
      BY <1>1, <2>1 DEF Set
    <2>6. \A e \in Events : Main \notin blocked'[e]
      BY <1>2, <2>2
    <2>7. OwnerBlocked'
      BY <2>6 DEF OwnerBlocked
    <2> QED BY <1>1, <2>2, <2>3, <2>4, <2>5, <2>6, <2>7, OwnerSettles
  <1>5. CASE WokeAll
    <2>1. PICK l \in OwnerLabels : Goto(Main, l)
      BY <1>5 DEF WokeAll, Notify, OwnerLabels
    <2>2. \A t \in Threads : pc'[t] = pc[t]
      BY <1>1, <2>1, OwnerGoes
    <2>3. /\ pc[Main] = "wokeAll" /\ UNCHANGED word
          /\ blocked' = [blocked EXCEPT !["idle"] = {}]
      BY <1>5 DEF WokeAll, Notify
    <2>4. /\ blocked'["idle"] = {} /\ \A e \in Events \ {"idle"} : blocked'[e] = blocked[e]
          /\ \A e \in Events : Main \notin blocked'[e]
      BY <1>1, <1>2, <2>3
    <2>5. OwnerBlocked'
      BY <2>4 DEF OwnerBlocked
    <2> QED BY <1>1, <2>2, <2>3, <2>4, <2>5, OwnerSettles
  <1>6. CASE WaitDone
    <2>1. Wait(Main, "done", Pool, IF threadNum = 0 THEN "validate" ELSE "woundUp")
      BY <1>6, MaskOfAll DEF WaitDone
    <2>2. pc[Main] = "waitDone" /\ UNCHANGED poolVars
      BY <1>6 DEF WaitDone
    <2>3. \A e \in Events \ {"done"} : Main \notin blocked[e]
      BY DEF NotificationInv, OwnerBlocked
    <2>4. CASE Pool \subseteq word["done"]
      <3>1. /\ word' = [word EXCEPT !["done"] = @ \ Pool] /\ UNCHANGED blocked
            /\ Main \notin blocked["done"]
            /\ \E l \in OwnerLabels : Goto(Main, l)
        BY <2>1, <2>4 DEF Wait, Take, OwnerLabels
      <3>2. \A t \in Threads : pc'[t] = pc[t]
        BY <1>1, <3>1, OwnerGoes
      <3>3. \A e \in Events : word'[e] \subseteq word[e] /\ Main \notin blocked'[e]
        BY <1>1, <2>3, <3>1
      <3>4. OwnerBlocked'
        BY <3>3 DEF OwnerBlocked
      <3> QED BY <1>1, <2>2, <3>1, <3>2, <3>3, <3>4, OwnerSettles
    <2>5. CASE ~(Pool \subseteq word["done"])
      <3>1. blocked' = [blocked EXCEPT !["done"] = @ \cup {Main}] /\ UNCHANGED <<word, pc>>
        BY <2>1, <2>5 DEF Wait
      <3>2. /\ blocked'["done"] = blocked["done"] \cup {Main}
            /\ \A e \in Events \ {"done"} : blocked'[e] = blocked[e]
        BY <1>1, <3>1
      <3>3. OwnerBlocked'
        BY <2>2, <2>3, <3>1, <3>2 DEF OwnerBlocked
      <3>4. Pool' = Pool
        BY <2>2 DEF Pool, poolVars
      <3> QED BY <1>1, <2>2, <2>3, <2>5, <3>1, <3>2, <3>3, <3>4, OwnerSettles
    <2> QED BY <2>4, <2>5
  <1>7. CASE JoinThreads
    <2>1. pc[Main] = "join" /\ UNCHANGED <<word, blocked>>
          /\ \A t \in Pool : pc[t] = "returned"
      BY <1>7 DEF JoinThreads
    <2>2. ASSUME NEW t \in Threads PROVE pc[t] \in {"none", "returned"}
      <3>1. WorkerOK(t) /\ t \in Nat /\ size \in Nat
        BY ThreadFacts DEF PoolInv, WorkersOK, TypeOK
      <3>2. CASE Exists(t)
        BY <2>1, <3>1, <3>2 DEF Exists, Pool
      <3>3. CASE ~Exists(t)
        BY <3>1, <3>3 DEF WorkerOK, Absent
      <3> QED BY <3>2, <3>3
    <2>3. \A e \in Events : ~Notifying(e)
      BY <2>1, <2>2 DEF Notifying, Events
    <2>4. \A e \in Events : Main \notin blocked'[e]
      BY <1>2, <2>1
    <2>5. \A p \in Threads : Awaited(p)' = Awaited(p)
      BY <1>1 DEF Awaited
    <2>6. OwnerBlocked'
      BY <2>4 DEF OwnerBlocked
    <2>7. \A e \in Events : Settled(e)
      BY <1>1, <2>1, <2>3, <2>4, <2>5 DEF Settled
    <2> QED BY <2>6, <2>7, SettledFrame
  <1>8. CASE StartThread
    <2>1. /\ pc[Main] = "spawn" /\ UNCHANGED <<word, blocked>>
          /\ pc' = [pc EXCEPT ![Main] = "count", ![size] = "finish"]
      BY <1>8 DEF StartThread
    <2>2. ASSUME NEW t \in Threads PROVE pc'[t] = pc[t] \/ (pc[t] = "none" /\ pc'[t] = "finish")
      <3>1. CASE t = size
        <4>1. WorkerOK(t) /\ ~Exists(t)
          BY <2>1, <3>1 DEF PoolInv, WorkersOK, Exists, TypeOK
        <4>2. pc[t] = "none"
          BY <4>1 DEF WorkerOK, Absent
        <4> QED BY <1>1, <2>1, <3>1, <4>2 DEF PlaceTypes
      <3>2. CASE t # size
        BY <1>1, <2>1, <3>2 DEF PlaceTypes
      <3> QED BY <3>1, <3>2
    <2>3. \A e \in Events : Notifying(e) => Notifying(e)'
      <3>1. \A t \in Threads : /\ pc[t] \in {"roused", "woken"} => pc'[t] \in {"roused", "woken"}
                               /\ pc[t] = "finished" => pc'[t] = "finished"
        BY <2>2
      <3> QED BY <2>1, <3>1 DEF Notifying, Events
    <2>4. \A e \in Events : Main \notin blocked'[e]
      BY <1>2, <2>1
    <2>5. \A p \in Threads : Awaited(p)' = Awaited(p)
      BY <1>1 DEF Awaited
    <2>6. OwnerBlocked'
      BY <2>4 DEF OwnerBlocked
    <2>7. \A e \in Events : Settled(e)
      BY <1>1, <2>1, <2>3, <2>4, <2>5 DEF Settled
    <2> QED BY <2>6, <2>7, SettledFrame
  <1> QED BY <1>3, <1>4, <1>5, <1>6, <1>7, <1>8 DEF Owner

\* A thread that wakes for no reason is blocked no longer.
LEMMA StepKeepsNotification ==
  ASSUME Narrow, PoolInv, NotificationInv, [Next]_vars
  PROVE  NotificationInv'
  <1>1. CASE WindUpOrShutdown \/ ExecuteAndWait \/ Owner
    BY <1>1, OwnerNotifies
  <1>2. CASE \E t \in Threads : Worker(t) \/ Advance(t)
    BY <1>2, WorkerNotifies
  <1>3. CASE SpuriousWakeUp \/ UNCHANGED vars
    <2>1. UNCHANGED <<poolVars, word, pc>>
      BY <1>3 DEF SpuriousWakeUp, vars
    <2>2. \A e \in Events : blocked'[e] \subseteq blocked[e]
      <3>1. CASE SpuriousWakeUp
        <4>1. PICK e \in Events : \E p \in blocked[e] : blocked' = [blocked EXCEPT ![e] = @ \ {p}]
          BY <3>1 DEF SpuriousWakeUp
        <4> QED BY <4>1 DEF PoolInv, TypeOK
      <3> QED BY <1>3, <3>1 DEF vars
    <2>3. /\ \A e \in Events : Notifying(e)' = Notifying(e)
          /\ \A p : Awaited(p)' = Awaited(p)
      BY <2>1 DEF Notifying, Awaited, Pool, poolVars, Events
    <2> QED BY <2>1, <2>2, <2>3 DEF NotificationInv, NoLostNotification, OwnerBlocked
  <1> QED BY <1>1, <1>2, <1>3 DEF Next, Quiet

\* wakeMask sets the bits under the mutex and notifies after it has unlocked;
\* waitMaskImpl tests and blocks under the mutex.  Whatever comes between the
\* bits and the notification, the thread that waits for them is notified
\* (simple_thread_pool.cpp:156-184).
THEOREM NotificationsAreNotLost == ASSUME Narrow PROVE Spec => []NoLostNotification
  <1>1. Init => NotificationInv
    <2>1. Init => \A e \in Events : blocked[e] = {}
      BY DEF Init
    <2> QED BY <2>1 DEF NotificationInv, NoLostNotification, OwnerBlocked
  <1>2. PoolInv /\ NotificationInv /\ [Next]_vars => NotificationInv'
    BY StepKeepsNotification
  <1>3. NotificationInv => NoLostNotification
    BY DEF NotificationInv
  <1> QED BY <1>1, <1>2, <1>3, PoolInvariant, PTL DEF Spec
==============================================================================

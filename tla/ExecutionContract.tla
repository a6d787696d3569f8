-------------------------- MODULE ExecutionContract --------------------------
(***************************************************************************)
(* What ThreadedTaskGraphExecutor promises to the pool that runs it: when  *)
(* doThread may return, and what.  Tasks are abstracted to how far the     *)
(* execution as a whole has come.                                          *)
(***************************************************************************)

CONSTANT Threads

VARIABLES
    place,    \* where each thread is: outside doThread it is ready (not called
              \* yet), waiting or exited (what doThread returned last)
    phase,    \* "open", then "started" (no task is left to start), then "done"
    asleep,   \* sleepingThreadsMask
    waking    \* whom each thread is about to wake with its callback

vars == <<place, phase, asleep, waking>>

Before(p) == CASE p = "open" -> {} [] p = "started" -> {"open"} [] p = "done" -> {"open", "started"}

Working(t) == place[t] = "inside" /\ waking[t] = {}

Init ==
    /\ place = [t \in Threads |-> "exited"]
    /\ phase = "open"
    /\ asleep = {}
    /\ waking = [t \in Threads |-> {}]

\* prepareForExecution for the given threads.
Prepare(active) ==
    /\ \A t \in Threads : place[t] = "exited"
    /\ place' = [t \in Threads |-> IF t \in active THEN "ready" ELSE "exited"]
    /\ phase' = "open"
    /\ asleep' = {}
    /\ UNCHANGED waking

Call(t) ==
    /\ place[t] \in {"ready", "waiting"}
    /\ place' = [place EXCEPT ![t] = "inside"]
    /\ asleep' = asleep \ {t}
    /\ UNCHANGED <<phase, waking>>

\* The last task is started, or the last one to finish is done.
Advance(t) ==
    /\ Working(t)
    /\ \E p \in {"started", "done"} : phase \in Before(p) /\ phase' = p
    /\ UNCHANGED <<place, asleep, waking>>

\* Threads that sleep are taken out of the mask, then the callback is called.
Gather(t) ==
    /\ Working(t)
    /\ \E w \in (SUBSET asleep) \ {{}} :
        /\ waking' = [waking EXCEPT ![t] = w]
        /\ asleep' = asleep \ w
    /\ UNCHANGED <<place, phase>>

Callback(t) ==
    /\ waking[t] # {}
    /\ waking' = [waking EXCEPT ![t] = {}]
    /\ UNCHANGED <<place, phase, asleep>>

\* A thread found a task that has not started.  It gives up only if another
\* thread is at work; with a callback it goes to sleep before it returns.
GiveUp(t, hasWakeCb) ==
    /\ Working(t)
    /\ phase = "open"
    /\ \E u \in Threads \ {t} : place[u] = "inside"
    /\ place' = [place EXCEPT ![t] = IF hasWakeCb THEN "dozing" ELSE "waiting"]
    /\ UNCHANGED <<phase, asleep, waking>>

ReturnWait(t) ==
    /\ place[t] = "dozing"
    /\ place' = [place EXCEPT ![t] = "waiting"]
    /\ asleep' = asleep \cup {t}
    /\ UNCHANGED <<phase, waking>>

\* EXIT: nothing is left to start; the last thread at work leaves nothing undone.
ReturnExit(t) ==
    /\ Working(t)
    /\ phase # "open"
    /\ phase = "done" \/ \E u \in Threads \ {t} : place[u] = "inside"
    /\ place' = [place EXCEPT ![t] = "exited"]
    /\ UNCHANGED <<phase, asleep, waking>>

Next ==
    \/ \E active \in SUBSET Threads : Prepare(active)
    \/ \E t \in Threads :
        \/ Call(t) \/ Advance(t) \/ Gather(t) \/ Callback(t)
        \/ \E hasWakeCb \in BOOLEAN : GiveUp(t, hasWakeCb)
        \/ ReturnWait(t) \/ ReturnExit(t)

Spec == Init /\ [][Next]_vars
==============================================================================

---------------------- MODULE ExecutorImplementsContract ----------------------
(***************************************************************************)
(* TaskGraphExecutor implements ExecutionContract.                         *)
(***************************************************************************)
EXTENDS TaskGraphExecutor

Place(t) == CASE pc[t] \in {"ready", "waiting", "exited"} -> pc[t]
              [] pc[t] = "sleep" -> "dozing"
              [] OTHER -> "inside"

Phase == IF \A k \in Tasks : state[k] = "DONE" THEN "done"
         ELSE IF \A k \in Tasks : state[k] \in {"EXECUTING", "DONE"} THEN "started"
         ELSE "open"

Contract == INSTANCE ExecutionContract
                WITH place <- [t \in Threads |-> Place(t)], phase <- Phase,
                     asleep <- sleeping, waking <- [t \in Threads |-> job[t].wake]

\* The executor keeps the contract a pool relies on: a thread returns WAIT
\* only while another one is at work, EXIT only when nothing is left to start,
\* the last one to leave has finished everything, and nothing is undone before
\* the next execution (doThread, validateAllDone).
KeepsContract == Contract!Spec
==============================================================================

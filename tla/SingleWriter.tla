---------------------------- MODULE SingleWriter ----------------------------
(***************************************************************************)
(* What the writer lock promises, without the lock: at most one worker     *)
(* writes at a time, a task in progress is the writer's own, and a worker  *)
(* that takes over puts back what its predecessor left in progress.        *)
(* WriterLock implements this specification as long as no lock session is  *)
(* cut under a live process.                                               *)
(***************************************************************************)
CONSTANTS Workers, Tasks, None

VARIABLES
    writer,     \* the worker whose loop runs, or None
    queue       \* etl_tasks.status

vars == <<writer, queue>>

Init ==
    /\ writer = None
    /\ queue = [t \in Tasks |-> "pending"]

Begin(w) ==
    /\ writer = None
    /\ writer' = w
    /\ queue' = [t \in Tasks |->
                    IF queue[t] = "in_progress" THEN "pending" ELSE queue[t]]

Take(w, t) ==
    /\ writer = w
    /\ queue[t] = "pending"
    /\ queue' = [queue EXCEPT ![t] = "in_progress"]
    /\ UNCHANGED writer

Finish(w, t) ==
    /\ writer = w
    /\ queue[t] = "in_progress"
    /\ queue' = [queue EXCEPT ![t] = "complete"]
    /\ UNCHANGED writer

\* The loop ends or its process dies: what it had in progress stays so.
End(w) ==
    /\ writer = w
    /\ writer' = None
    /\ UNCHANGED queue

Next ==
    \E w \in Workers :
        \/ Begin(w) \/ End(w)
        \/ \E t \in Tasks : Take(w, t) \/ Finish(w, t)

Spec == Init /\ [][Next]_vars

\* What the writers owe, whoever of them ends and begins in between.
TasksFinish == <>(\A t \in Tasks : queue[t] = "complete")
=============================================================================

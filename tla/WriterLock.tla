----------------------------- MODULE WriterLock -----------------------------
(***************************************************************************)
(* The writer lock (services/lock.py) and the life of a worker process     *)
(* around it (worker/main.py): open a session of its own, try the advisory *)
(* lock, start the run in one transaction (etl_runs row, orphans put back) *)
(* and loop over the queue; on the way out close the row, unlock, close    *)
(* the session.  PostgreSQL frees the lock of a session it finds dead,     *)
(* which may be well after the process has died.  The worker never looks   *)
(* at its lock session again, so a cut session goes unnoticed.  The        *)
(* readiness probe (services/health.py) reads the lock and the runs in two *)
(* connections.                                                            *)
(***************************************************************************)
EXTENDS Naturals, FiniteSets

CONSTANTS
    Workers,        \* the processes started with the worker's command
    Tasks,          \* etl_tasks rows
    None,           \* nobody holds the lock
    Ghost,          \* a dead process's session the server still keeps
    MaxFaults,      \* crashes and failed run transactions
    MaxStops,       \* SIGTERMs
    MaxDrops        \* lock sessions cut under a live process

\* A process is neither of the markers, and None is no task.
ConstantsOK ==
    /\ IsFiniteSet(Workers) /\ Workers \cap {None, Ghost} = {} /\ None # Ghost
    /\ None \notin Tasks
    /\ {MaxFaults, MaxStops, MaxDrops} \subseteq Nat

VARIABLES
    pc,             \* where each process is
    holder,         \* who holds the advisory lock, as the server sees it
    queue,          \* etl_tasks.status
    mine,           \* the task each process works on, or None
    openRuns,       \* how many etl_runs rows of each are still open
    ready,          \* the probe: "idle", then what it read of the lock
    faults, stops, drops

vars == <<pc, holder, queue, mine, openRuns, ready, faults, stops, drops>>

Phases == {"down", "open", "busy", "locked", "running", "ending", "closing"}

Init ==
    /\ pc = [w \in Workers |-> "down"]
    /\ holder = None
    /\ queue = [t \in Tasks |-> "pending"]
    /\ mine = [w \in Workers |-> None]
    /\ openRuns = [w \in Workers |-> 0]
    /\ ready = "idle"
    /\ faults = 0 /\ stops = 0 /\ drops = 0

Goto(w, phase) == pc' = [pc EXCEPT ![w] = phase]

-----------------------------------------------------------------------------
\* The container starts the process, which opens its lock session.
Boot(w) ==
    /\ pc[w] = "down"
    /\ Goto(w, "open")
    /\ UNCHANGED <<holder, queue, mine, openRuns, ready, faults, stops, drops>>

\* Mutant: The answer of pg_try_advisory_lock is not looked at.
TryAcquireUnread(w) ==
    /\ pc[w] = "open"
    /\ holder' = IF holder = None THEN w ELSE holder
    /\ Goto(w, "locked")
    /\ UNCHANGED <<queue, mine, openRuns, ready, faults, stops, drops>>

\* pg_try_advisory_lock: never waits.
TryAcquire(w) ==
    /\ pc[w] = "open"
    /\ IF holder = None
       THEN holder' = w /\ Goto(w, "locked")
       ELSE Goto(w, "busy") /\ UNCHANGED holder
    /\ UNCHANGED <<queue, mine, openRuns, ready, faults, stops, drops>>

\* Mutant: the process stays up without the lock.
LeaveBusyLingers(w) ==
    /\ pc[w] = "busy"
    /\ UNCHANGED vars

\* LockBusyError: the session is closed and the process leaves.
LeaveBusy(w) ==
    /\ pc[w] = "busy"
    /\ Goto(w, "down")
    /\ UNCHANGED <<holder, queue, mine, openRuns, ready, faults, stops, drops>>

\* Mutant: The first transaction forgets the orphans.
RequeueNothing == UNCHANGED queue

RequeueOrphans ==
    queue' = [t \in Tasks |->
                IF queue[t] = "in_progress" THEN "pending" ELSE queue[t]]

record_run_start(w) == openRuns' = [openRuns EXCEPT ![w] = @ + 1]

record_run_end(w) == openRuns' = [openRuns EXCEPT ![w] = @ - 1]

\* The first transaction of run_locked_loop.
StartRun(w) ==
    /\ pc[w] = "locked"
    /\ record_run_start(w)
    /\ RequeueOrphans
    /\ Goto(w, "running")
    /\ UNCHANGED <<holder, mine, ready, faults, stops, drops>>

\* It rolls back as a whole; record_run_end then finds no row to close.
StartFails(w) ==
    /\ pc[w] = "locked"
    /\ faults < MaxFaults
    /\ faults' = faults + 1
    /\ Goto(w, "closing")
    /\ UNCHANGED <<holder, queue, mine, openRuns, ready, stops, drops>>

Take(w, t) ==
    /\ pc[w] = "running" /\ mine[w] = None
    /\ queue[t] = "pending"
    /\ queue' = [queue EXCEPT ![t] = "in_progress"]
    /\ mine' = [mine EXCEPT ![w] = t]
    /\ UNCHANGED <<pc, holder, openRuns, ready, faults, stops, drops>>

Finish(w) ==
    /\ pc[w] = "running" /\ mine[w] # None
    /\ queue' = [queue EXCEPT ![mine[w]] = "complete"]
    /\ mine' = [mine EXCEPT ![w] = None]
    /\ UNCHANGED <<pc, holder, openRuns, ready, faults, stops, drops>>

\* Mutant: The lock is given back before the run row is closed.
ReleaseBeforeRecord(w) ==
    /\ pc[w] = "running"
    /\ stops < MaxStops
    /\ stops' = stops + 1
    /\ mine' = [mine EXCEPT ![w] = None]
    /\ holder' = IF holder = w THEN None ELSE holder
    /\ Goto(w, "ending")
    /\ UNCHANGED <<queue, openRuns, ready, faults, drops>>

\* The stop event is looked at between calls; an error of the loop leaves
\* it the same way, with its task still in progress.
Stop(w) ==
    /\ pc[w] = "running"
    /\ stops < MaxStops
    /\ stops' = stops + 1
    /\ mine' = [mine EXCEPT ![w] = None]
    /\ Goto(w, "ending")
    /\ UNCHANGED <<holder, queue, openRuns, ready, faults, drops>>

EndRun(w) ==
    /\ pc[w] = "ending"
    /\ record_run_end(w)
    /\ Goto(w, "closing")
    /\ UNCHANGED <<holder, queue, mine, ready, faults, stops, drops>>

EndRunFails(w) ==
    /\ pc[w] = "ending"
    /\ faults < MaxFaults
    /\ faults' = faults + 1
    /\ Goto(w, "closing")
    /\ UNCHANGED <<holder, queue, mine, openRuns, ready, stops, drops>>

\* Unlock and close.  On a cut session the unlock raises; the process ends
\* all the same and takes nobody else's lock with it.
Release(w) ==
    /\ pc[w] = "closing"
    /\ holder' = IF holder = w THEN None ELSE holder
    /\ Goto(w, "down")
    /\ UNCHANGED <<queue, mine, openRuns, ready, faults, stops, drops>>

-----------------------------------------------------------------------------
\* The process dies; its session is a ghost until the server notices.
Crash(w) ==
    /\ pc[w] # "down"
    /\ faults < MaxFaults
    /\ faults' = faults + 1
    /\ holder' = IF holder = w THEN Ghost ELSE holder
    /\ mine' = [mine EXCEPT ![w] = None]
    /\ Goto(w, "down")
    /\ UNCHANGED <<queue, openRuns, ready, stops, drops>>

\* Keepalives on the session run out.
ServerNotices ==
    /\ holder = Ghost
    /\ holder' = None
    /\ UNCHANGED <<pc, queue, mine, openRuns, ready, faults, stops, drops>>

\* The server ends the lock session of a live process (an administrator, a
\* failover, keepalives lost on the way): nothing in the worker notices.
DropSession(w) ==
    /\ holder = w
    /\ drops < MaxDrops
    /\ drops' = drops + 1
    /\ holder' = None
    /\ UNCHANGED <<pc, queue, mine, openRuns, ready, faults, stops>>

\* inspect_ready: the lock in one connection, the open runs in the next.
ReadLock ==
    /\ ready \in {"idle", "ready", "not_ready"}
    /\ ready' = IF holder # None THEN "held" ELSE "free"
    /\ UNCHANGED <<pc, holder, queue, mine, openRuns, faults, stops, drops>>

ReadRuns ==
    /\ ready \in {"held", "free"}
    /\ ready' = IF ready = "held" /\ (\E w \in Workers : openRuns[w] > 0)
                THEN "ready" ELSE "not_ready"
    /\ UNCHANGED <<pc, holder, queue, mine, openRuns, faults, stops, drops>>

-----------------------------------------------------------------------------
Work(w) ==
    \/ Boot(w) \/ TryAcquire(w) \/ LeaveBusy(w)
    \/ StartRun(w) \/ Finish(w) \/ EndRun(w) \/ Release(w)
    \/ \E t \in Tasks : Take(w, t)

Fault(w) ==
    \/ StartFails(w) \/ EndRunFails(w) \/ Stop(w) \/ Crash(w)
    \/ DropSession(w)

Next ==
    \/ \E w \in Workers : Work(w) \/ Fault(w)
    \/ ServerNotices
    \/ ReadLock \/ ReadRuns

Spec == Init /\ [][Next]_vars

\* `restart: unless-stopped` boots a process that left, the event loop runs
\* on, and the keepalives of a dead session run out.
Fairness ==
    /\ \A w \in Workers : WF_vars(Work(w))
    /\ WF_vars(ServerNotices)

FairSpec == Spec /\ Fairness

-----------------------------------------------------------------------------
TypeOK ==
    /\ pc \in [Workers -> Phases]
    /\ holder \in Workers \cup {None, Ghost}
    /\ queue \in [Tasks -> {"pending", "in_progress", "complete"}]
    /\ mine \in [Workers -> Tasks \cup {None}]
    /\ openRuns \in [Workers -> 0..(MaxFaults + 1)]
    /\ ready \in {"idle", "held", "free", "ready", "not_ready"}
    /\ faults \in 0..MaxFaults /\ stops \in 0..MaxStops /\ drops \in 0..MaxDrops

\* The refinement mapping: the writer is the worker whose loop runs.
Running == {w \in Workers : pc[w] = "running"}

writer == IF Running = {} THEN None ELSE CHOOSE w \in Running : TRUE

\* The workers together behave as one writer (lock.py: "Session advisory
\* lock for the single writer"): two loops never overlap, whatever the order
\* of starts, stops and crashes, each loop begins by putting back the tasks
\* left in progress (worker/main.py run_locked_loop), and every task is worked
\* to its end (Spec and TasksFinish).  It holds for MaxDrops = 0: what a worker
\* that lost its session leaves in progress is put back by no one before the
\* next start.
Abstract == INSTANCE SingleWriter

Inside == {w \in Workers : pc[w] \in {"locked", "running", "ending", "closing"}}

\* Every process past the lock still holds it, but for one for each session
\* that was cut: two loops overlap for no other reason (lock.py: the worker
\* never asks again whether it holds the lock).
WritersNeedACut == Cardinality({w \in Inside : holder # w}) <= drops

\* As long as no transaction of a run failed and no process died, the open
\* run row the readiness probe looks for belongs to the lock's holder
\* (queue/core.py record_run_end runs before lock.release()).
OpenRunHoldsLock ==
    faults = 0 /\ drops = 0 => \A w \in Workers : openRuns[w] > 0 => holder = w
=============================================================================

------------------------------ MODULE SyncRun ------------------------------
(***************************************************************************)
(* Runs of the Xero sync and the lease that keeps them apart: the          *)
(* dispatcher (apps/xero/sync_service.py), the Celery task                 *)
(* (sync_worker.py), the command (start_xero_sync.py) and the lock         *)
(* (sync_constants.py), a key of the shared cache that expires.            *)
(*                                                                         *)
(* A run is named by its task id, which is the lock's value. Each call to  *)
(* the cache is a step of its own, so anything can come between the two    *)
(* calls of a renewal or a release. Messages are acknowledged when the     *)
(* task ends (CELERY_TASK_ACKS_LATE): one whose worker died comes back,    *)
(* and so does one whose task outlasts the broker's visibility timeout.    *)
(* When only the pool process of a task dies, the worker acknowledges the  *)
(* message (CELERY_TASK_REJECT_ON_WORKER_LOST is not set).                 *)
(***************************************************************************)
EXTENDS Integers, FiniteSets

CONSTANTS
    Runs,             \* task ids; each is dispatched once
    Inline,           \* those of the command, which has no message
    Workers,          \* processes that execute runs
    NoRun,            \* the lock's key is absent
    MaxEvents,        \* bound: progress events of one execution
    MaxLapses,        \* bound: leases that expire
    MaxRedeliveries,  \* bound: messages the broker delivers again
    MaxCrashes,       \* bound: workers that die
    MaxDeaths         \* bound: processes that die with what they were doing

ASSUME RunAssumption ==
    /\ Inline \subseteq Runs /\ NoRun \notin Runs
    /\ {MaxEvents, MaxLapses, MaxRedeliveries, MaxCrashes, MaxDeaths} \subseteq Nat

VARIABLES
    lock,      \* the value of SYNC_STATUS_KEY
    dispatch,  \* [Runs -> where its dispatcher is]
    queue,     \* [Runs -> messages waiting for a worker]
    worker,    \* [Workers -> execution under way]
    left       \* what the bounds still allow

vars == <<lock, dispatch, queue, worker, left>>

Idle == [run |-> NoRun, pc |-> "idle", events |-> 0, stale |-> 0]

\* stale: events begun since the execution last began one holding the lock.
Execution(r, pc) == [run |-> r, pc |-> pc, events |-> 0, stale |-> 0]

Places == {"idle", "guard", "working", "renew", "touch", "release", "delete"}

Bounds == [lapses |-> MaxLapses, redeliveries |-> MaxRedeliveries,
           crashes |-> MaxCrashes, deaths |-> MaxDeaths]

TypeOK ==
    /\ lock \in Runs \cup {NoRun}
    /\ dispatch \in [Runs -> {"new", "token", "release", "delete", "done"}]
    /\ queue \in [Runs -> 0 .. 1 + MaxRedeliveries]
    /\ worker \in [Workers -> [run : Runs \cup {NoRun}, pc : Places,
                               events : 0 .. MaxEvents, stale : Nat]]
    /\ left \in [lapses : 0 .. MaxLapses, redeliveries : 0 .. MaxRedeliveries,
                 crashes : 0 .. MaxCrashes, deaths : 0 .. MaxDeaths]

Init ==
    /\ lock = NoRun
    /\ dispatch = [r \in Runs |-> "new"]
    /\ queue = [r \in Runs |-> 0]
    /\ worker = [w \in Workers |-> Idle]
    /\ left = Bounds

Spend(b) == left[b] > 0 /\ left' = [left EXCEPT ![b] = @ - 1]

-----------------------------------------------------------------------------
(* Starting a run *)

Dispatched(r, at) == dispatch' = [dispatch EXCEPT ![r] = at]

\* Fault: the key is set whether it is there or not.
Acquire_Set(r) ==
    /\ dispatch[r] = "new"
    /\ lock' = r

\* cache.add: only one of several requests gets the key.
Acquire(r) ==
    /\ dispatch[r] = "new" /\ lock = NoRun
    /\ lock' = r

\* start_sync, before it asks for a token.
StartSync(r) ==
    /\ r \notin Inline
    /\ Acquire(r) /\ Dispatched(r, "token")
    /\ UNCHANGED <<queue, worker, left>>

\* start_sync: the message is sent.
Enqueue(r) ==
    /\ dispatch[r] = "token"
    /\ queue' = [queue EXCEPT ![r] = @ + 1]
    /\ Dispatched(r, "done")
    /\ UNCHANGED <<lock, worker, left>>

\* start_sync: no valid token, or no broker.
GiveUp(r) ==
    /\ dispatch[r] = "token"
    /\ Dispatched(r, "release")
    /\ UNCHANGED <<lock, queue, worker, left>>

\* release_sync_lock of the dispatcher: get, then delete.
RollbackChecks(r) ==
    /\ dispatch[r] = "release"
    /\ Dispatched(r, IF lock = r THEN "delete" ELSE "done")
    /\ UNCHANGED <<lock, queue, worker, left>>

RollbackDeletes(r) ==
    /\ dispatch[r] = "delete"
    /\ lock' = NoRun
    /\ Dispatched(r, "done")
    /\ UNCHANGED <<queue, worker, left>>

\* The command acquires the lock and runs in its own process.
StartInline(r, w) ==
    /\ r \in Inline /\ worker[w] = Idle
    /\ Acquire(r) /\ Dispatched(r, "done")
    /\ worker' = [worker EXCEPT ![w] = Execution(r, "working")]
    /\ UNCHANGED <<queue, left>>

Deliver(r, w) ==
    /\ queue[r] > 0 /\ worker[w] = Idle
    /\ queue' = [queue EXCEPT ![r] = @ - 1]
    /\ worker' = [worker EXCEPT ![w] = Execution(r, "guard")]
    /\ UNCHANGED <<lock, dispatch, left>>

-----------------------------------------------------------------------------
(* Executing it: xero_sync_task, and _drain of the command *)

Goes(w, pc) == worker' = [worker EXCEPT ![w].pc = pc]

\* An event begins: the run writes what it read from Xero.
Begins(w) ==
    worker' = [worker EXCEPT ![w].pc = "working",
                             ![w].stale = IF lock = worker[w].run THEN 0 ELSE @ + 1]

Guard(w) ==
    /\ worker[w].pc = "guard"
    /\ IF lock = worker[w].run THEN Begins(w) ELSE worker' = [worker EXCEPT ![w] = Idle]
    /\ UNCHANGED <<lock, dispatch, queue, left>>

\* The event is published.
Event(w) ==
    /\ worker[w].pc = "working" /\ worker[w].events < MaxEvents
    /\ worker' = [worker EXCEPT ![w].pc = "renew", ![w].events = @ + 1]
    /\ UNCHANGED <<lock, dispatch, queue, left>>

\* The generator is exhausted, or raises.
Ends(w) ==
    /\ worker[w].pc = "working"
    /\ Goes(w, "release")
    /\ UNCHANGED <<lock, dispatch, queue, left>>

\* Fault: the lease is extended whoever holds it.
RenewChecks_Unowned(w) ==
    /\ worker[w].pc = "renew"
    /\ Goes(w, "touch")
    /\ UNCHANGED <<lock, dispatch, queue, left>>

\* renew_sync_lock: get, then touch, which tells whether there is a key.
RenewChecks(w) ==
    /\ worker[w].pc = "renew"
    /\ Goes(w, IF lock = worker[w].run THEN "touch" ELSE "release")
    /\ UNCHANGED <<lock, dispatch, queue, left>>

Touches(w) ==
    /\ worker[w].pc = "touch"
    /\ IF lock # NoRun THEN Begins(w) ELSE Goes(w, "release")
    /\ UNCHANGED <<lock, dispatch, queue, left>>

\* Fault: an execution that found the lock its own forgets to delete it.
ReleaseChecks_Kept(w) ==
    /\ worker[w].pc = "release"
    /\ worker' = [worker EXCEPT ![w] = Idle]
    /\ UNCHANGED <<lock, dispatch, queue, left>>

\* release_sync_lock: get, then delete; the message is acknowledged.
ReleaseChecks(w) ==
    /\ worker[w].pc = "release"
    /\ IF lock = worker[w].run THEN Goes(w, "delete")
       ELSE worker' = [worker EXCEPT ![w] = Idle]
    /\ UNCHANGED <<lock, dispatch, queue, left>>

Deletes(w) ==
    /\ worker[w].pc = "delete"
    /\ lock' = NoRun
    /\ worker' = [worker EXCEPT ![w] = Idle]
    /\ UNCHANGED <<dispatch, queue, left>>

-----------------------------------------------------------------------------
(* What goes wrong *)

\* Nothing touched the key for LOCK_TIMEOUT.
Lapse ==
    /\ lock # NoRun
    /\ Spend("lapses")
    /\ lock' = NoRun
    /\ UNCHANGED <<dispatch, queue, worker>>

\* The task outlasts the broker's visibility timeout.
Redeliver(w) ==
    /\ worker[w] # Idle /\ worker[w].run \notin Inline
    /\ Spend("redeliveries")
    /\ queue' = [queue EXCEPT ![worker[w].run] = @ + 1]
    /\ UNCHANGED <<lock, dispatch, worker>>

\* Fault: the message was acknowledged when it was delivered.
Crash_AckedEarly(w) ==
    /\ worker[w] # Idle /\ worker[w].run \notin Inline
    /\ Spend("crashes")
    /\ worker' = [worker EXCEPT ![w] = Idle]
    /\ UNCHANGED <<lock, dispatch, queue>>

\* The worker service dies, and its unacknowledged message comes back.
Crash(w) ==
    /\ worker[w] # Idle /\ worker[w].run \notin Inline
    /\ Spend("crashes")
    /\ queue' = [queue EXCEPT ![worker[w].run] = @ + 1]
    /\ worker' = [worker EXCEPT ![w] = Idle]
    /\ UNCHANGED <<lock, dispatch>>

\* The pool process of a task, or the command, is killed: nothing comes back.
Dies(w) ==
    /\ worker[w] # Idle
    /\ Spend("deaths")
    /\ worker' = [worker EXCEPT ![w] = Idle]
    /\ UNCHANGED <<lock, dispatch, queue>>

\* The process that dispatches is killed between acquiring and sending.
DispatcherDies(r) ==
    /\ dispatch[r] \in {"token", "release", "delete"}
    /\ Spend("deaths")
    /\ Dispatched(r, "done")
    /\ UNCHANGED <<lock, queue, worker>>

-----------------------------------------------------------------------------
DispatchStep(r) ==
    \/ Enqueue(r) \/ GiveUp(r) \/ RollbackChecks(r) \/ RollbackDeletes(r)

Execute(w) ==
    \/ Guard(w) \/ Event(w) \/ Ends(w)
    \/ RenewChecks(w) \/ Touches(w) \/ ReleaseChecks(w) \/ Deletes(w)

Next ==
    \/ \E r \in Runs : StartSync(r) \/ DispatchStep(r) \/ DispatcherDies(r)
    \/ \E r \in Runs, w \in Workers : StartInline(r, w) \/ Deliver(r, w)
    \/ \E w \in Workers : Execute(w) \/ Redeliver(w) \/ Crash(w) \/ Dies(w)
    \/ Lapse

\* Requests are answered, a waiting message is delivered to some worker, and an
\* execution goes on: a generator yields or ends. Nobody need start a run.
Fairness ==
    /\ \A r \in Runs : WF_vars(DispatchStep(r))
    /\ \A r \in Runs : WF_vars(\E w \in Workers : Deliver(r, w))
    /\ \A w \in Workers : WF_vars(Execute(w))

Spec == Init /\ [][Next]_vars
FairSpec == Spec /\ Fairness

-----------------------------------------------------------------------------
(* Properties *)

Writing(w) == worker[w].pc = "working"

OneWriter == \A v, w \in Workers : Writing(v) /\ Writing(w) => v = w

NoLapse == left.lapses = MaxLapses
NoRedelivery == left.redeliveries = MaxRedeliveries
NobodyKilled == left.deaths = MaxDeaths

\* Two executions never write what they read from Xero at the same time, unless
\* a lease has lapsed under a live run or a live run's message has come twice.
\* (the sync lock)
OneRunAtATime == NoLapse /\ NoRedelivery => OneWriter

\* Nor in the latter case: "a delivery that no longer owns the lock must not run
\* a second concurrent sync". (the guard at the head of xero_sync_task)
RedeliveryIsSkipped == NoLapse => OneWriter

\* As long as no process is killed: whoever holds the lock is on the way to
\* releasing it, being dispatched, queued or executed. No end of a run, good or
\* bad, leaves the lock behind for its four hours. (the finally blocks)
LockHasAHolder ==
    NobodyKilled /\ lock # NoRun =>
        \/ dispatch[lock] \in {"token", "release", "delete"}
        \/ queue[lock] > 0
        \/ \E w \in Workers : worker[w].run = lock

\* A run that has lost its lock begins at most one more event, and no renewal
\* keeps a stale run alive on its successor's lease. (renew_sync_lock)
StaleRunStops == \A w \in Workers : worker[w].stale <= 1

\* A run gives the lock back, though its worker may die on the way.
\* (CELERY_TASK_ACKS_LATE, the redelivery guard and the release)
LockIsGivenBack == \A r \in Runs : lock = r ~> lock # r \/ ~NobodyKilled
=============================================================================

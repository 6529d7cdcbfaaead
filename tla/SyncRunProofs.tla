--------------------------- MODULE SyncRunProofs ---------------------------
(***************************************************************************)
(* Three results about sync runs, for any number of runs and workers and   *)
(* any bounds: a run never leaves its lock behind unless a process is      *)
(* killed; runs exclude each other until a lease lapses under a live run   *)
(* or a live run's message is delivered again; and a run that has lost its *)
(* lock stops, whatever else goes wrong.                                   *)
(***************************************************************************)
EXTENDS SyncRun, TLAPS

\* What the steps need to know of the shape of the state.
Shape ==
    /\ lock \in Runs \cup {NoRun}
    /\ dispatch \in [Runs -> {"new", "token", "release", "delete", "done"}]
    /\ queue \in [Runs -> Nat]
    /\ worker \in [Workers -> [run : Runs \cup {NoRun}, pc : Places,
                               events : 0 .. MaxEvents, stale : Nat]]
    /\ left \in [lapses : 0 .. MaxLapses, redeliveries : 0 .. MaxRedeliveries,
                 crashes : 0 .. MaxCrashes, deaths : 0 .. MaxDeaths]
    /\ \A w \in Workers : worker[w] # Idle => worker[w].run \in Runs

\* Small helpers of the actions, visible to every leaf.
USE DEF Spend, Bounds, Idle, Execution, Places, Dispatched, Acquire, Goes, Begins

\* The initial state has the shape.
LEMMA InitShape == Init => Shape
  BY RunAssumption DEF Init, Shape

\* Dispatching a run keeps the shape. (start_sync)
LEMMA DispatchShape ==
    ASSUME Shape, NEW r \in Runs, StartSync(r) \/ DispatchStep(r) \/ DispatcherDies(r)
    PROVE  Shape'
  <1>1. CASE StartSync(r)
    BY <1>1 DEF Shape, StartSync
  <1>2. CASE Enqueue(r)
    BY <1>2 DEF Shape, Enqueue
  <1>3. CASE GiveUp(r)
    BY <1>3 DEF Shape, GiveUp
  <1>4. CASE RollbackChecks(r)
    BY <1>4 DEF Shape, RollbackChecks
  <1>5. CASE RollbackDeletes(r)
    BY <1>5 DEF Shape, RollbackDeletes
  <1>6. CASE DispatcherDies(r)
    BY <1>6, RunAssumption DEF Shape, DispatcherDies
  <1> QED BY <1>1, <1>2, <1>3, <1>4, <1>5, <1>6 DEF DispatchStep

\* A run that enters or is given to a worker keeps the shape. (the command's
\* acquisition; the broker's delivery)
LEMMA EntryShape ==
    ASSUME Shape, NEW r \in Runs, NEW w \in Workers, StartInline(r, w) \/ Deliver(r, w)
    PROVE  Shape'
  <1>1. CASE StartInline(r, w)
    BY <1>1, RunAssumption DEF Shape, StartInline
  <1>2. CASE Deliver(r, w)
    BY <1>2, RunAssumption DEF Shape, Deliver
  <1> QED BY <1>1, <1>2

\* An execution keeps the shape at each of its steps. (xero_sync_task)
LEMMA ExecuteShape ==
    ASSUME Shape, NEW w \in Workers, Execute(w)
    PROVE  Shape'
  <1>1. CASE Guard(w)
    BY <1>1, RunAssumption DEF Shape, Guard
  <1>2. CASE Event(w)
    BY <1>2, RunAssumption DEF Shape, Event
  <1>3. CASE Ends(w)
    BY <1>3, RunAssumption DEF Shape, Ends
  <1>4. CASE RenewChecks(w)
    BY <1>4, RunAssumption DEF Shape, RenewChecks
  <1>5. CASE Touches(w)
    BY <1>5, RunAssumption DEF Shape, Touches
  <1>6. CASE ReleaseChecks(w)
    BY <1>6, RunAssumption DEF Shape, ReleaseChecks
  <1>7. CASE Deletes(w)
    BY <1>7, RunAssumption DEF Shape, Deletes
  <1> QED BY <1>1, <1>2, <1>3, <1>4, <1>5, <1>6, <1>7 DEF Execute

\* What goes wrong keeps the shape: a lease expires, a message comes back, a
\* worker or a process dies.
LEMMA FaultShape ==
    ASSUME Shape, Lapse \/ \E w \in Workers : Redeliver(w) \/ Crash(w) \/ Dies(w)
    PROVE  Shape'
  <1>1. CASE Lapse
    BY <1>1, RunAssumption DEF Shape, Lapse
  <1>2. ASSUME NEW w \in Workers, Redeliver(w) PROVE Shape'
    BY <1>2, RunAssumption DEF Shape, Redeliver
  <1>3. ASSUME NEW w \in Workers, Crash(w) PROVE Shape'
    BY <1>3, RunAssumption DEF Shape, Crash
  <1>4. ASSUME NEW w \in Workers, Dies(w) PROVE Shape'
    BY <1>4, RunAssumption DEF Shape, Dies
  <1> QED BY <1>1, <1>2, <1>3, <1>4

-----------------------------------------------------------------------------
(* The lock always has a holder *)

\* Every step keeps the shape.
LEMMA NextShape ==
    ASSUME Shape, [Next]_vars
    PROVE  Shape'
  <1>1. CASE UNCHANGED vars
    BY <1>1 DEF Shape, vars
  <1>2. CASE Next
    BY <1>2, DispatchShape, EntryShape, ExecuteShape, FaultShape DEF Next
  <1> QED BY <1>1, <1>2

\* No step takes the last holder of the lock away and leaves the lock: whoever
\* stops being one deletes the key or hands it on. (the finally blocks)
LEMMA HolderStep ==
    ASSUME Shape, LockHasAHolder, [Next]_vars
    PROVE  LockHasAHolder'
  <1>0. ASSUME NEW r \in Runs, StartSync(r) PROVE LockHasAHolder'
    BY <1>0, RunAssumption DEF Shape, LockHasAHolder, NobodyKilled, StartSync
  <1>1. ASSUME NEW r \in Runs, Enqueue(r) PROVE LockHasAHolder'
    BY <1>1, RunAssumption DEF Shape, LockHasAHolder, NobodyKilled, Enqueue
  <1>2. ASSUME NEW r \in Runs, GiveUp(r) PROVE LockHasAHolder'
    BY <1>2, RunAssumption DEF Shape, LockHasAHolder, NobodyKilled, GiveUp
  <1>3. ASSUME NEW r \in Runs, RollbackChecks(r) PROVE LockHasAHolder'
    BY <1>3, RunAssumption DEF Shape, LockHasAHolder, NobodyKilled, RollbackChecks
  <1>4. ASSUME NEW r \in Runs, RollbackDeletes(r) PROVE LockHasAHolder'
    BY <1>4, RunAssumption DEF Shape, LockHasAHolder, NobodyKilled, RollbackDeletes
  <1>5. ASSUME NEW r \in Runs, NEW w \in Workers, StartInline(r, w) PROVE LockHasAHolder'
    BY <1>5, RunAssumption DEF Shape, LockHasAHolder, NobodyKilled, StartInline
  <1>6. ASSUME NEW r \in Runs, NEW w \in Workers, Deliver(r, w) PROVE LockHasAHolder'
    BY <1>6, RunAssumption DEF Shape, LockHasAHolder, NobodyKilled, Deliver
  <1>7. ASSUME NEW w \in Workers, Execute(w) PROVE LockHasAHolder'
    <2>1. CASE Guard(w)
      BY <2>1, RunAssumption DEF Shape, LockHasAHolder, NobodyKilled, Guard
    <2>2. CASE Event(w)
      BY <2>2, RunAssumption DEF Shape, LockHasAHolder, NobodyKilled, Event
    <2>3. CASE Ends(w)
      BY <2>3, RunAssumption DEF Shape, LockHasAHolder, NobodyKilled, Ends
    <2>4. CASE RenewChecks(w)
      BY <2>4, RunAssumption DEF Shape, LockHasAHolder, NobodyKilled, RenewChecks
    <2>5. CASE Touches(w)
      BY <2>5, RunAssumption DEF Shape, LockHasAHolder, NobodyKilled, Touches
    <2>6. CASE ReleaseChecks(w)
      BY <2>6, RunAssumption DEF Shape, LockHasAHolder, NobodyKilled, ReleaseChecks
    <2>7. CASE Deletes(w)
      BY <2>7, RunAssumption DEF Shape, LockHasAHolder, NobodyKilled, Deletes
    <2> QED BY <1>7, <2>1, <2>2, <2>3, <2>4, <2>5, <2>6, <2>7 DEF Execute
  <1>8. ASSUME NEW w \in Workers, Redeliver(w) PROVE LockHasAHolder'
    BY <1>8, RunAssumption DEF Shape, LockHasAHolder, NobodyKilled, Redeliver
  <1>9. ASSUME NEW w \in Workers, Crash(w) PROVE LockHasAHolder'
    BY <1>9, RunAssumption DEF Shape, LockHasAHolder, NobodyKilled, Crash
  <1>10. CASE Lapse
    BY <1>10, RunAssumption DEF Shape, LockHasAHolder, NobodyKilled, Lapse
  <1>11. CASE UNCHANGED vars
    BY <1>11 DEF LockHasAHolder, NobodyKilled, vars
  <1>12. ASSUME NEW w \in Workers, Dies(w) PROVE LockHasAHolder'
    BY <1>12, RunAssumption DEF Shape, LockHasAHolder, NobodyKilled, Dies
  <1>13. ASSUME NEW r \in Runs, DispatcherDies(r) PROVE LockHasAHolder'
    BY <1>13, RunAssumption DEF Shape, LockHasAHolder, NobodyKilled, DispatcherDies
  <1> QED BY <1>0, <1>1, <1>2, <1>3, <1>4, <1>5, <1>6, <1>7, <1>8, <1>9, <1>10, <1>11,
             <1>12, <1>13
          DEF Next, DispatchStep

\* For any number of runs and workers, and any number of lapses, worker crashes
\* and redeliveries: a lock that is set is being dispatched, queued or executed.
\* No path through start_sync, xero_sync_task or the command forgets it; only a
\* process that is killed with its message acknowledged does.
THEOREM LockHeldByHolder == Spec => []LockHasAHolder
  <1>1. Init => Shape /\ LockHasAHolder
    BY InitShape DEF Init, LockHasAHolder
  <1>2. Shape /\ LockHasAHolder /\ [Next]_vars => (Shape /\ LockHasAHolder)'
    BY NextShape, HolderStep
  <1> QED BY <1>1, <1>2, PTL DEF Spec

-----------------------------------------------------------------------------
(* Runs exclude each other *)

\* No execution is under way for r, and no message of r waits for one.
Alone(r) == queue[r] = 0 /\ \A w \in Workers : worker[w].run # r

\* At most one thing stands for a run, and it holds the lock: a dispatcher that
\* has acquired it, one message, or one execution. OneRunAtATime is not
\* inductive without it: nothing else tells that a run delivered by the broker
\* is not one already under way.
Sole ==
    /\ \A r \in Runs : dispatch[r] = "new" => Alone(r) /\ lock # r
    /\ \A r \in Runs : dispatch[r] \in {"token", "release", "delete"} => Alone(r) /\ lock = r
    /\ \A r \in Runs : queue[r] > 0 =>
          queue[r] = 1 /\ lock = r /\ \A w \in Workers : worker[w].run # r
    /\ \A w \in Workers : worker[w].run \in Runs => lock = worker[w].run
    /\ \A v, w \in Workers : worker[v].run \in Runs /\ worker[v].run = worker[w].run => v = w

\* So far the leases were renewed in time and nothing live was delivered again.
\* Workers may have died: their messages come back when no longer executed.
Undisturbed == NoLapse /\ NoRedelivery

\* The initial state: nobody has acquired anything.
LEMMA InitSole == Init => Sole
  BY RunAssumption DEF Init, Sole, Alone

\* A dispatcher's step keeps the runs apart. (start_sync)
LEMMA DispatchSole ==
    ASSUME Shape, Sole, NEW r \in Runs, StartSync(r) \/ DispatchStep(r) \/ DispatcherDies(r)
    PROVE  Sole'
  <1>1. CASE StartSync(r)
    BY <1>1, RunAssumption DEF Shape, Sole, Alone, StartSync
  <1>2. CASE Enqueue(r)
    BY <1>2, RunAssumption DEF Shape, Sole, Alone, Enqueue
  <1>3. CASE GiveUp(r)
    BY <1>3, RunAssumption DEF Shape, Sole, Alone, GiveUp
  <1>4. CASE RollbackChecks(r)
    BY <1>4, RunAssumption DEF Shape, Sole, Alone, RollbackChecks
  <1>5. CASE RollbackDeletes(r)
    BY <1>5, RunAssumption DEF Shape, Sole, Alone, RollbackDeletes
  <1>6. CASE DispatcherDies(r)
    BY <1>6, RunAssumption DEF Shape, Sole, Alone, DispatcherDies
  <1> QED BY <1>1, <1>2, <1>3, <1>4, <1>5, <1>6 DEF DispatchStep

\* Entering an execution keeps the runs apart. (the command's acquisition; the
\* broker's delivery)
LEMMA EntrySole ==
    ASSUME Shape, Sole, NEW r \in Runs, NEW w \in Workers, StartInline(r, w) \/ Deliver(r, w)
    PROVE  Sole'
  <1>1. CASE StartInline(r, w)
    BY <1>1, RunAssumption DEF Shape, Sole, Alone, StartInline
  <1>2. CASE Deliver(r, w)
    BY <1>2, RunAssumption DEF Shape, Sole, Alone, Deliver
  <1> QED BY <1>1, <1>2

\* An execution keeps the runs apart until it deletes the lock, its own, and is
\* over. (xero_sync_task)
LEMMA ExecuteSole ==
    ASSUME Shape, Sole, NEW w \in Workers, Execute(w)
    PROVE  Sole'
  <1>1. CASE Guard(w)
    BY <1>1, RunAssumption DEF Shape, Sole, Alone, Guard
  <1>2. CASE Event(w)
    BY <1>2, RunAssumption DEF Shape, Sole, Alone, Event
  <1>3. CASE Ends(w)
    BY <1>3, RunAssumption DEF Shape, Sole, Alone, Ends
  <1>4. CASE RenewChecks(w)
    BY <1>4, RunAssumption DEF Shape, Sole, Alone, RenewChecks
  <1>5. CASE Touches(w)
    BY <1>5, RunAssumption DEF Shape, Sole, Alone, Touches
  <1>6. CASE ReleaseChecks(w)
    BY <1>6, RunAssumption DEF Shape, Sole, Alone, ReleaseChecks
  <1>7. CASE Deletes(w)
    BY <1>7, RunAssumption DEF Shape, Sole, Alone, Deletes
  <1> QED BY <1>1, <1>2, <1>3, <1>4, <1>5, <1>6, <1>7 DEF Execute

\* Undisturbed, only a worker's or a process's death goes wrong: it turns an
\* execution back into a message, or ends it with the lock left behind.
LEMMA FaultSole ==
    ASSUME Shape, Sole, Undisturbed',
           Lapse \/ \E w \in Workers : Redeliver(w) \/ Crash(w) \/ Dies(w)
    PROVE  Sole'
  <1>1. CASE Lapse
    BY <1>1, RunAssumption DEF Undisturbed, NoLapse, Shape, Lapse
  <1>2. ASSUME NEW w \in Workers, Redeliver(w) PROVE FALSE
    BY <1>2, RunAssumption DEF Undisturbed, NoRedelivery, Shape, Redeliver
  <1>3. ASSUME NEW w \in Workers, Crash(w) PROVE Sole'
    BY <1>3, RunAssumption DEF Shape, Sole, Alone, Crash
  <1>4. ASSUME NEW w \in Workers, Dies(w) PROVE Sole'
    BY <1>4, RunAssumption DEF Shape, Sole, Alone, Dies
  <1> QED BY <1>1, <1>2, <1>3, <1>4

\* A step that leaves the runs undisturbed found them so: what the bounds have
\* spent is never given back.
LEMMA UndisturbedBefore ==
    ASSUME Shape, [Next]_vars, Undisturbed'
    PROVE  Undisturbed
  <1>1. left' = left \/ \E b \in DOMAIN left : left[b] > 0 /\ left' = [left EXCEPT ![b] = @ - 1]
    <2>1. CASE \E r \in Runs : StartSync(r) \/ DispatchStep(r)
      BY <2>1 DEF StartSync, DispatchStep, Enqueue, GiveUp, RollbackChecks, RollbackDeletes
    <2>2. CASE \E r \in Runs : DispatcherDies(r)
      BY <2>2 DEF DispatcherDies, Shape
    <2>3. CASE \E r \in Runs, w \in Workers : StartInline(r, w) \/ Deliver(r, w)
      BY <2>3 DEF StartInline, Deliver
    <2>4. CASE \E w \in Workers : Execute(w)
      BY <2>4 DEF Execute, Guard, Event, Ends, RenewChecks, Touches, ReleaseChecks, Deletes
    <2>5. CASE Lapse \/ \E w \in Workers : Redeliver(w) \/ Crash(w) \/ Dies(w)
      BY <2>5 DEF Lapse, Redeliver, Crash, Dies, Shape
    <2>6. CASE UNCHANGED vars
      BY <2>6 DEF vars
    <2> QED BY <2>1, <2>2, <2>3, <2>4, <2>5, <2>6 DEF Next
  <1> QED BY <1>1, RunAssumption DEF Undisturbed, NoLapse, NoRedelivery, Shape

\* Every step that leaves them undisturbed keeps the runs apart.
LEMMA NextSole ==
    ASSUME Shape, Undisturbed => Sole, [Next]_vars
    PROVE  (Undisturbed => Sole)'
  <1> SUFFICES ASSUME Undisturbed' PROVE Sole'
    OBVIOUS
  <1>0. Sole
    BY UndisturbedBefore
  <1>1. CASE UNCHANGED vars
    BY <1>0, <1>1 DEF Sole, Alone, vars
  <1>2. CASE Next
    BY <1>0, <1>2, DispatchSole, EntrySole, ExecuteSole, FaultSole DEF Next
  <1> QED BY <1>1, <1>2

\* For any number of runs, workers, crashes and deaths: as long as no lease has
\* lapsed and no live run's message has been delivered again, two executions
\* never write at the same time. (the sync lock and the redelivery guard)
THEOREM MutualExclusion == Spec => []OneRunAtATime
  <1>1. Init => Shape /\ (Undisturbed => Sole)
    BY InitShape, InitSole
  <1>2. Shape /\ (Undisturbed => Sole) /\ [Next]_vars => (Shape /\ (Undisturbed => Sole))'
    BY NextShape, NextSole
  <1>3. Shape /\ (Undisturbed => Sole) => OneRunAtATime
    BY DEF Shape, Sole, Undisturbed, OneRunAtATime, OneWriter, Writing
  <1> QED BY <1>1, <1>2, <1>3, PTL DEF Spec

-----------------------------------------------------------------------------
(* A run that lost its lock stops *)

\* A run acquires its lock once, before anything is sent or executed for it, so
\* a lock that is lost stays lost: an execution that began an event without it
\* never reaches the touch again.
LostForGood ==
    /\ \A r \in Runs : queue[r] > 0 => dispatch[r] # "new"
    /\ \A w \in Workers :
          /\ worker[w].run \in Runs => dispatch[worker[w].run] # "new"
          /\ worker[w].stale > 0 => lock # worker[w].run
          /\ worker[w].pc \in {"guard", "touch"} => worker[w].stale = 0
          /\ worker[w].stale <= 1

\* Every step keeps it. The touch is the only step that may begin an event
\* without the lock, and it follows a check that found the lock.
LEMMA LostStep ==
    ASSUME Shape, LostForGood, [Next]_vars
    PROVE  LostForGood'
  <1>0. ASSUME NEW r \in Runs, StartSync(r) PROVE LostForGood'
    BY <1>0, RunAssumption DEF Shape, LostForGood, StartSync
  <1>1. ASSUME NEW r \in Runs, Enqueue(r) PROVE LostForGood'
    BY <1>1, RunAssumption DEF Shape, LostForGood, Enqueue
  <1>2. ASSUME NEW r \in Runs, GiveUp(r) PROVE LostForGood'
    BY <1>2, RunAssumption DEF Shape, LostForGood, GiveUp
  <1>3. ASSUME NEW r \in Runs, RollbackChecks(r) PROVE LostForGood'
    BY <1>3, RunAssumption DEF Shape, LostForGood, RollbackChecks
  <1>4. ASSUME NEW r \in Runs, RollbackDeletes(r) PROVE LostForGood'
    BY <1>4, RunAssumption DEF Shape, LostForGood, RollbackDeletes
  <1>5. ASSUME NEW r \in Runs, NEW w \in Workers, StartInline(r, w) PROVE LostForGood'
    BY <1>5, RunAssumption DEF Shape, LostForGood, StartInline
  <1>6. ASSUME NEW r \in Runs, NEW w \in Workers, Deliver(r, w) PROVE LostForGood'
    BY <1>6, RunAssumption DEF Shape, LostForGood, Deliver
  <1>7. ASSUME NEW w \in Workers, Execute(w) PROVE LostForGood'
    <2>1. CASE Guard(w)
      BY <2>1, RunAssumption DEF Shape, LostForGood, Guard
    <2>2. CASE Event(w)
      BY <2>2, RunAssumption DEF Shape, LostForGood, Event
    <2>3. CASE Ends(w)
      BY <2>3, RunAssumption DEF Shape, LostForGood, Ends
    <2>4. CASE RenewChecks(w)
      BY <2>4, RunAssumption DEF Shape, LostForGood, RenewChecks
    <2>5. CASE Touches(w)
      BY <2>5, RunAssumption DEF Shape, LostForGood, Touches
    <2>6. CASE ReleaseChecks(w)
      <3>1. CASE lock = worker[w].run
        BY <2>6, <3>1 DEF Shape, LostForGood, ReleaseChecks
      <3>2. CASE lock # worker[w].run
        BY <2>6, <3>2, RunAssumption DEF Shape, LostForGood, ReleaseChecks
      <3> QED BY <3>1, <3>2
    <2>7. CASE Deletes(w)
      BY <2>7, RunAssumption DEF Shape, LostForGood, Deletes
    <2> QED BY <1>7, <2>1, <2>2, <2>3, <2>4, <2>5, <2>6, <2>7 DEF Execute
  <1>8. ASSUME NEW w \in Workers, Redeliver(w) PROVE LostForGood'
    BY <1>8, RunAssumption DEF Shape, LostForGood, Redeliver
  <1>9. ASSUME NEW w \in Workers, Crash(w) PROVE LostForGood'
    BY <1>9, RunAssumption DEF Shape, LostForGood, Crash
  <1>10. CASE Lapse
    BY <1>10, RunAssumption DEF Shape, LostForGood, Lapse
  <1>11. CASE UNCHANGED vars
    BY <1>11 DEF LostForGood, vars
  <1>12. ASSUME NEW w \in Workers, Dies(w) PROVE LostForGood'
    BY <1>12, RunAssumption DEF Shape, LostForGood, Dies
  <1>13. ASSUME NEW r \in Runs, DispatcherDies(r) PROVE LostForGood'
    BY <1>13, RunAssumption DEF Shape, LostForGood, DispatcherDies
  <1> QED BY <1>0, <1>1, <1>2, <1>3, <1>4, <1>5, <1>6, <1>7, <1>8, <1>9, <1>10, <1>11,
             <1>12, <1>13
          DEF Next, DispatchStep

\* For any number of lapses, deaths and redeliveries: a run that has lost its
\* lock begins at most one more event. (renew_sync_lock, whose check and touch
\* are two calls)
THEOREM StaleStops == Spec => []StaleRunStops
  <1>1. Init => Shape /\ LostForGood
    BY InitShape, RunAssumption DEF Init, LostForGood
  <1>2. Shape /\ LostForGood /\ [Next]_vars => (Shape /\ LostForGood)'
    BY NextShape, LostStep
  <1>3. LostForGood => StaleRunStops
    BY DEF LostForGood, StaleRunStops
  <1> QED BY <1>1, <1>2, <1>3, PTL DEF Spec
=============================================================================

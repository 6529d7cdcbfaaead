----------------------------- MODULE PayrollRun -----------------------------
(***************************************************************************)
(* Posting a week of approved hours to Xero Payroll: the request that      *)
(* claims the calendar (timesheet/services/payroll_service.py), the claim  *)
(* and the run's document (payroll_runs.py), the Celery task               *)
(* (timesheet/tasks.py) and the calls it makes to Xero (payroll_push.py,   *)
(* payroll_leave.py).                                                      *)
(*                                                                         *)
(* One payroll calendar, one week. A run is named by its run id, which is  *)
(* the claim's value. A call to Xero is a step; what lies between two      *)
(* calls takes far less than the claim's ten minutes, so checking the      *)
(* claim and writing the document under it is one step. All staff are      *)
(* employed in the week and linked to Xero.                                *)
(***************************************************************************)
EXTENDS Integers, FiniteSets

CONSTANTS
    Runs,             \* run ids; each is requested once
    Workers,          \* processes that execute the task
    Staff,            \* who is posted
    Salaried,         \* those of them on a salary
    NoRun,            \* the claim's key is absent; no document
    NoSheet,          \* a staff member has no timesheet in Xero
    MaxEdits,         \* bound: changes of what is approved
    MaxTroubles       \* bound: troubles of any kind

ASSUME PayrollAssumption ==
    /\ Staff # {} /\ Salaried \subseteq Staff
    /\ IsFiniteSet(Workers)
    /\ NoRun \notin Runs
    /\ MaxEdits \in Nat /\ MaxTroubles \in Nat

VARIABLES
    recorded,  \* [Staff -> approved time of the week]
    claim,     \* the value of claim_key
    doc,       \* the run document
    request,   \* [Runs -> where the request that starts it is]
    queue,     \* [Runs -> messages waiting for a worker]
    worker,    \* [Workers -> execution under way]
    leave,     \* [Staff -> leave that Xero holds]
    sheets,    \* [Staff -> timesheets that Xero holds]
    payRun,    \* the week's pay run in Xero
    left,      \* what the bounds still allow
    seen       \* the kinds of trouble there have been

serverVars == <<claim, doc, request, queue>>
xeroVars == <<leave, sheets, payRun>>
limits == <<left, seen>>
vars == <<recorded, serverVars, worker, xeroVars, limits>>

\* Each batch goes through the staff in the order of its list.
First(S) == CHOOSE s \in S : TRUE

\* A week's approved time, by the surface of Xero it reaches.
Week == [work : 0..1, leave : 0..1]

Pending == [state |-> "pending"]
Failed == [state |-> "failed"]
Posted(week) == [state |-> "posted", week |-> week]
Outcomes == {Pending, Failed} \cup {Posted(week) : week \in Week}
Results == [Staff -> Outcomes]
NoResults == [s \in Staff |-> Pending]

\* refused: "never started, nothing was posted", beside the other failures.
Document == [run : Runs, status : {"running", "succeeded", "failed", "refused"},
             results : Results]
NoDoc == [run |-> NoRun, status |-> "none", results |-> NoResults]

Sheet == [id : Nat, by : Runs, status : {"draft", "approved", "paid"}, work : 0..1]

ASSUME SheetAssumption == NoSheet \notin Sheet

\* The calls to Xero of an execution, "begin" and "close" apart.
Calls == {"preflight", "leave", "payrun", "fetch", "compare",
          "revert", "delete", "create", "approve", "report", "mirror"}

\* read, sheet and draft are what it read at the start, sheet then the one it
\* creates; results is its own copy of the document's.
Idle == [run |-> NoRun, pc |-> "idle"]
Execution == [run : Runs, pc : Calls \cup {"begin", "close"},
              read : [Staff -> Week], draft : {"none", "draft", "posted"},
              sheet : [Staff -> Sheet \cup {NoSheet}], todo : SUBSET Staff,
              at : Staff, result : Outcomes, results : Results]

NothingRead == [s \in Staff |-> [work |-> 0, leave |-> 0]]
NoneFound == [s \in Staff |-> NoSheet]

\* fault: a call to Xero fails or its answer is lost; record: the store of the claim
\* and the document, its publication or the error record fails, perhaps after it took
\* effect; send: a message sent is reported as refused; wait, hang: a claim lapses
\* under a waiting message, under a call to Xero; redelivery: the message of a live
\* execution is delivered again; crash: a worker dies and gives its message back;
\* death: a process dies with what it was doing.
Troubles == {"fault", "record", "send", "wait", "hang", "redelivery", "crash", "death"}

Init ==
    /\ recorded = [s \in Staff |-> [work |-> 1, leave |-> 0]]
    /\ claim = NoRun /\ doc = NoDoc
    /\ request = [r \in Runs |-> "new"]
    /\ queue = [r \in Runs |-> 0]
    /\ worker = [w \in Workers |-> Idle]
    /\ leave = [s \in Staff |-> 0]
    /\ sheets = [s \in Staff |-> {}]
    /\ payRun = "none"
    /\ left = [edits |-> MaxEdits, troubles |-> MaxTroubles] /\ seen = {}

Trouble(kind) ==
    /\ left.troubles > 0
    /\ left' = [left EXCEPT !.troubles = @ - 1]
    /\ seen' = seen \cup {kind}

-----------------------------------------------------------------------------
(* The claim and the document *)

Doc(r, status, results) == [run |-> r, status |-> status, results |-> results]

running(r) == doc' = Doc(r, "running", NoResults)

\* Fault: the claim is not asked for.
reclaim_or_refuse_Always(r) == TRUE

\* Still this run's, or expired and free to take again.
reclaim_or_refuse(r) == claim \in {r, NoRun}

\* _close_run_if_owned, and the release in the task's finally: a claim that was
\* taken again is given back too.
Close(r, status, results) ==
    /\ doc' = IF reclaim_or_refuse(r) THEN Doc(r, status, results) ELSE doc
    /\ claim' = IF reclaim_or_refuse(r) THEN NoRun ELSE claim

release_run_claim(r) == claim' = IF claim = r THEN NoRun ELSE claim

-----------------------------------------------------------------------------
(* The request: start_post_week_task *)

Requested(r, at) == request' = [request EXCEPT ![r] = at]
Requests(r) == request[r] \in {"claimed", "opened", "unsent"}

\* Fault: two tabs, two operators.
acquire_run_claim_Set(r) == claim' = r

acquire_run_claim(r) == claim = NoRun /\ claim' = r

Start(r) ==
    /\ request[r] = "new"
    /\ acquire_run_claim(r)
    /\ Requested(r, "claimed")
    /\ UNCHANGED <<recorded, doc, queue, worker, xeroVars, limits>>

\* Xero cannot be read, or this is not the week that can be posted next.
Refuse(r) ==
    /\ request[r] = "claimed"
    /\ release_run_claim(r)
    /\ Requested(r, "done")
    /\ UNCHANGED <<recorded, doc, queue, worker, xeroVars, limits>>

Open(r) ==
    /\ request[r] = "claimed" /\ payRun # "posted"
    /\ running(r)
    /\ Requested(r, "opened")
    /\ UNCHANGED <<recorded, claim, queue, worker, xeroVars, limits>>

Send(r) ==
    /\ request[r] = "opened"
    /\ queue' = [queue EXCEPT ![r] = @ + 1]
    /\ \/ Requested(r, "done") /\ UNCHANGED limits
       \/ Requested(r, "unsent") /\ Trouble("send")
    /\ UNCHANGED <<recorded, claim, doc, worker, xeroVars>>

\* delay raised: the document is closed and the claim released.
SendFailed(r) ==
    /\ request[r] \in {"opened", "unsent"}
    /\ doc' = Doc(r, "failed", NoResults)
    /\ release_run_claim(r)
    /\ Requested(r, "done")
    /\ UNCHANGED <<recorded, queue, worker, xeroVars, limits>>

\* running stores the document and publishes it: what it raises is answered with a
\* release alone, for there is no document to close yet; nor is one closed if the
\* write that would close it fails. A claim whose taking or release raises is kept.
RequestFails(r) ==
    /\ \/ request[r] = "claimed" /\ payRun # "posted" /\ running(r)
       \/ Requests(r) /\ UNCHANGED doc
    /\ release_run_claim(r) \/ UNCHANGED claim
    /\ Requested(r, "done")
    /\ Trouble("record")
    /\ UNCHANGED <<recorded, queue, worker, xeroVars>>

-----------------------------------------------------------------------------
(* The task: post_payroll_week_task *)

Goes(w, pc) == worker' = [worker EXCEPT ![w].pc = pc]
Stops(w) == worker' = [worker EXCEPT ![w] = Idle]

Taken(r) == queue[r] > 0 /\ queue' = [queue EXCEPT ![r] = @ - 1]

Deliver(r, w) ==
    /\ worker[w] = Idle
    /\ Taken(r)
    /\ worker' = [worker EXCEPT ![w] =
         [run |-> r, pc |-> "begin", read |-> NothingRead, draft |-> "none",
          sheet |-> NoneFound, todo |-> Staff, at |-> First(Staff),
          result |-> Pending, results |-> NoResults]]
    /\ UNCHANGED <<recorded, claim, doc, request, xeroVars, limits>>

\* The redelivery guard: only under its claim does a run begin, or begin again.
Begin(w) ==
    LET r == worker[w].run IN
    /\ worker[w].pc = "begin"
    /\ IF claim = r
       THEN running(r) /\ UNCHANGED claim /\ Goes(w, "preflight")
       ELSE Close(r, "refused", NoResults) /\ Stops(w)
    /\ UNCHANGED <<recorded, request, queue, xeroVars, limits>>

\* Neither the guard nor the first heartbeat is in the try: what they raise ends the
\* execution, with the claim as it is and the document as far as it got.
BeginFails(w) ==
    LET r == worker[w].run IN
    /\ worker[w].pc = "begin"
    /\ \/ UNCHANGED <<claim, doc>>
       \/ /\ reclaim_or_refuse(r) /\ claim' = r
          /\ \/ running(r) \/ UNCHANGED doc
             \/ claim # r /\ doc' = Doc(r, "refused", NoResults)
    /\ Stops(w)
    /\ Trouble("record")
    /\ UNCHANGED <<recorded, request, queue, xeroVars>>

\* Fault: the claim is released, the panel's document left running.
Abort_Silent(w) == release_run_claim(worker[w].run) /\ UNCHANGED doc /\ Stops(w)

\* An exception out of the batch, with the results so far.
Abort(w) == Close(worker[w].run, "failed", worker[w].results) /\ Stops(w)

\* A call before the first result fails: the whole week fails.
BatchFails(w) ==
    /\ worker[w].pc \in {"preflight", "leave", "payrun", "fetch"}
    /\ Abort(w)
    /\ Trouble("fault")
    /\ UNCHANGED <<recorded, request, queue, xeroVars>>

\* with_result
Reported(e) == [e.results EXCEPT ![e.at] = e.result]

\* An exception whose handling may raise in its turn, from persist_app_error, the
\* closing write or the release: the document is closed or left, after the result or the
\* outcome under way was stored or before, the claim given back or kept. Behind the last
\* result the posting is reported failed all the same.
RecordFails(w) ==
    LET e == worker[w] IN
    /\ e.pc \in Calls \cup {"close"}
    /\ IF reclaim_or_refuse(e.run)
       THEN /\ \/ UNCHANGED doc
               \/ doc' = Doc(e.run, "failed", e.results)
               \/ e.pc = "close" /\ doc' = Doc(e.run, "succeeded", e.results)
               \/ /\ e.pc = "report" /\ claim = e.run
                  /\ \E status \in {"running", "failed"} : doc' = Doc(e.run, status, Reported(e))
            /\ claim' \in {e.run, NoRun}
       ELSE UNCHANGED <<claim, doc>>
    /\ Stops(w)
    /\ Trouble("record")
    /\ UNCHANGED <<recorded, request, queue, xeroVars>>

\* require_dispatched_tenant and validate_pay_items_for_week pass; the lines
\* are read, and the mirror of the pay runs is refreshed.
Preflight(w) ==
    /\ worker[w].pc = "preflight"
    /\ worker' = [worker EXCEPT ![w].pc = "leave", ![w].read = recorded,
                               ![w].draft = payRun]
    /\ UNCHANGED <<recorded, serverVars, xeroVars, limits>>

\* reconcile_leave_for_staff_week: leave the week no longer has is deleted, which
\* Xero refuses once there is a pay run; what is missing is created.
ReconcileLeave(w) ==
    LET s == First(worker[w].todo)
        want == worker[w].read[s].leave
        refused == leave[s] = 1 /\ want = 0 /\ payRun # "none"
    IN
    /\ worker[w].pc = "leave" /\ worker[w].todo # {}
    /\ IF refused THEN Abort(w) /\ UNCHANGED <<leave, limits>>
       ELSE \/ /\ leave' = [leave EXCEPT ![s] = want]
               /\ worker' = [worker EXCEPT ![w].todo = @ \ {s}]
               /\ UNCHANGED <<claim, doc, limits>>
            \/ /\ leave[s] # want
               /\ leave' = [leave EXCEPT ![s] = want]
               /\ Abort(w) /\ Trouble("fault")
    /\ UNCHANGED <<recorded, request, queue, sheets, payRun>>

\* ensure_pay_run_for_week, by the mirror: the week's draft is used again; Xero
\* creates one if the calendar has none, and for another week if this one's is
\* posted.
EnsurePayRun(w) ==
    /\ worker[w].pc = "leave" /\ worker[w].todo = {}
    /\ CASE worker[w].draft = "draft" ->
               Goes(w, "fetch") /\ UNCHANGED <<claim, doc, payRun>>
         [] worker[w].draft = "none" /\ payRun = "none" ->
               Goes(w, "payrun") /\ payRun' = "draft" /\ UNCHANGED <<claim, doc>>
         [] OTHER -> Abort(w) /\ UNCHANGED payRun
    /\ UNCHANGED <<recorded, request, queue, leave, sheets, limits>>

\* create_pay_run reads what it created.
ReadPayRun(w) ==
    /\ worker[w].pc = "payrun"
    /\ Goes(w, "fetch")
    /\ UNCHANGED <<recorded, serverVars, xeroVars, limits>>

\* existing_timesheets_for_week: two sheets of one employee refuse the week.
FetchSheets(w) ==
    /\ worker[w].pc = "fetch"
    /\ IF \E s \in Staff : Cardinality(sheets[s]) > 1
       THEN Abort(w)
       ELSE /\ worker' = [worker EXCEPT ![w].pc = "compare", ![w].todo = Staff,
                     ![w].sheet = [s \in Staff |->
                         IF sheets[s] = {} THEN NoSheet ELSE CHOOSE x \in sheets[s] : TRUE]]
            /\ UNCHANGED <<claim, doc>>
    /\ UNCHANGED <<recorded, request, queue, xeroVars, limits>>

-----------------------------------------------------------------------------
(* One staff member: _post_one_staff_week, post_timesheet *)

\* Any failure is this staff member's own result.
StaffFails(w) == worker' = [worker EXCEPT ![w].pc = "report", ![w].result = Failed]

\* The sheet that was found, as it is now.
StillThere(w, s) ==
    IF worker[w].sheet[s] = NoSheet THEN {}
    ELSE {x \in sheets[s] : x.id = worker[w].sheet[s].id}

\* Fault: matching lines are enough.
AlreadyPosted_Unapproved(w, s) ==
    \E x \in StillThere(w, s) : x.work = worker[w].read[s].work

AlreadyPosted(w, s) ==
    /\ worker[w].sheet[s].status = "approved"
    /\ \E x \in StillThere(w, s) : x.work = worker[w].read[s].work

NotYetApproved(w, s) ==
    /\ worker[w].sheet[s].status = "draft"
    /\ \E x \in StillThere(w, s) : x.work = worker[w].read[s].work

\* Fault: the sheet that is there is not in the way of a new one.
FirstOfDelete_Kept(found) == IF found.status = "draft" THEN "create" ELSE "revert"

\* _delete_timesheet: a paid sheet is not touched.
FirstOfDelete(found) ==
    CASE found.status = "approved" -> "revert"
      [] found.status = "draft" -> "delete"
      [] OTHER -> "failed"

\* What to do about s, by the sheet found and the lines it now holds. A salary
\* only has its sheet removed.
NextCall(w, s) ==
    LET found == worker[w].sheet[s] IN
    CASE found = NoSheet -> IF s \in Salaried THEN "report" ELSE "create"
      [] s \notin Salaried /\ AlreadyPosted(w, s) -> "report"
      [] s \notin Salaried /\ NotYetApproved(w, s) -> "approve"
      [] OTHER -> FirstOfDelete(found)

Compare(w) ==
    LET s == First(worker[w].todo)
        found == worker[w].sheet[s]
        next == NextCall(w, s)
        lost == found # NoSheet /\ s \notin Salaried /\ StillThere(w, s) = {}
    IN
    /\ worker[w].pc = "compare"
    /\ \E fails \in BOOLEAN :
          /\ IF fails THEN found # NoSheet /\ Trouble("fault") ELSE UNCHANGED limits
          /\ LET failed == fails \/ lost \/ next = "failed" IN
             worker' = [worker EXCEPT ![w].todo = @ \ {s}, ![w].at = s,
                 ![w].pc = IF failed THEN "report" ELSE next,
                 ![w].result = IF failed THEN Failed ELSE Posted(worker[w].read[s])]
    /\ UNCHANGED <<recorded, serverVars, xeroVars>>

\* The call to Xero that an execution at pc makes, which sets the sheets of its
\* staff member: it may not arrive, or its answer may be lost.
Call(w, pc, accepted, sheetsThen, next) ==
    LET s == worker[w].at IN
    /\ worker[w].pc = pc
    /\ \/ /\ accepted
          /\ sheets' = [sheets EXCEPT ![s] = sheetsThen]
          /\ \/ Goes(w, next) /\ UNCHANGED limits
             \/ StaffFails(w) /\ Trouble("fault")
       \/ /\ ~accepted
          /\ StaffFails(w)
          /\ UNCHANGED <<sheets, limits>>
       \/ /\ StaffFails(w) /\ Trouble("fault")
          /\ UNCHANGED sheets
    /\ UNCHANGED <<recorded, serverVars, leave, payRun>>

Become(S, status) == {[x EXCEPT !.status = status] : x \in S}

Revert(w) ==
    LET s == worker[w].at
        it == StillThere(w, s)
    IN Call(w, "revert", \E x \in it : x.status = "approved",
            (sheets[s] \ it) \cup Become(it, "draft"), "delete")

Delete(w) ==
    LET s == worker[w].at
        it == StillThere(w, s)
    IN Call(w, "delete", \E x \in it : x.status = "draft", sheets[s] \ it,
            IF s \in Salaried THEN "report" ELSE "create")

\* An id no sheet of s has and no execution knows.
NewId(s) ==
    LET known == {x.id : x \in sheets[s] \cup
                    {worker[v].sheet[s] : v \in {u \in Workers :
                       worker[u] # Idle /\ worker[u].sheet[s] # NoSheet}}}
    IN CHOOSE n \in 0..Cardinality(known) : n \notin known

\* The new sheet takes the place of the one found.
Create(w) ==
    LET s == worker[w].at
        new == [id |-> NewId(s), by |-> worker[w].run, status |-> "draft",
                work |-> worker[w].read[s].work]
        made == sheets' = [sheets EXCEPT ![s] = @ \cup {new}]
    IN
    /\ worker[w].pc = "create"
    /\ \/ made /\ UNCHANGED limits
          /\ worker' = [worker EXCEPT ![w].pc = "approve", ![w].sheet[s] = new]
       \/ (made \/ UNCHANGED sheets) /\ StaffFails(w) /\ Trouble("fault")
    /\ UNCHANGED <<recorded, serverVars, leave, payRun>>

Approve(w) ==
    LET s == worker[w].at
        it == StillThere(w, s)
    IN Call(w, "approve", \E x \in it : x.status = "draft",
            (sheets[s] \ it) \cup Become(it, "approved"), "report")

\* The result is written under a claim renewed for it, or the run ends without it.
Report(w) ==
    LET e == worker[w]
        results == Reported(e)
    IN
    /\ e.pc = "report"
    /\ IF claim = e.run
       THEN /\ doc' = Doc(e.run, "running", results)
            /\ worker' = [worker EXCEPT ![w].results = results, ![w].result = Pending,
                             ![w].sheet[e.at] = NoSheet, ![w].at = First(Staff),
                             ![w].pc = IF e.todo = {} THEN "close" ELSE "compare"]
            /\ UNCHANGED claim
       ELSE Abort(w)
    /\ UNCHANGED <<recorded, request, queue, xeroVars, limits>>

\* The outcome is the posting's alone, written before the mirror is refreshed.
Succeed(w) ==
    LET e == worker[w] IN
    /\ e.pc = "close"
    /\ IF reclaim_or_refuse(e.run)
       THEN doc' = Doc(e.run, "succeeded", e.results) /\ claim' = e.run
       ELSE UNCHANGED <<doc, claim>>
    /\ Goes(w, "mirror")
    /\ UNCHANGED <<recorded, request, queue, xeroVars, limits>>

\* The best-effort refresh of the mirror ends and the claim is released.
Finish(w) ==
    /\ worker[w].pc = "mirror"
    /\ release_run_claim(worker[w].run)
    /\ Stops(w)
    /\ UNCHANGED <<recorded, doc, request, queue, xeroVars, limits>>

-----------------------------------------------------------------------------
(* What else happens *)

\* The office changes and approves the week's time again.
Reapprove(s) ==
    /\ left.edits > 0 /\ left' = [left EXCEPT !.edits = @ - 1]
    /\ \E week \in Week \ {recorded[s]} : recorded' = [recorded EXCEPT ![s] = week]
    /\ UNCHANGED <<serverVars, worker, xeroVars, seen>>

\* Someone posts the pay run in Xero: approved timesheets are paid.
PaysOut ==
    /\ payRun = "draft"
    /\ payRun' = "posted"
    /\ sheets' = [s \in Staff |->
         {IF x.status = "approved" THEN [x EXCEPT !.status = "paid"] ELSE x : x \in sheets[s]}]
    /\ UNCHANGED <<recorded, serverVars, worker, leave, limits>>

Executes(r) == \E w \in Workers : worker[w].run = r

\* CLAIM_TTL_SECONDS pass without a renewal: the run is waiting or dead, or a call
\* to Xero, which has no timeout, hangs. A request is ended by its server sooner.
Lapse ==
    LET r == claim IN
    /\ r # NoRun /\ ~Requests(r)
    /\ CASE Executes(r) -> /\ \E w \in Workers : worker[w].run = r /\ worker[w].pc \in Calls
                           /\ Trouble("hang")
         [] ~Executes(r) /\ queue[r] > 0 -> Trouble("wait")
         [] OTHER -> UNCHANGED limits
    /\ claim' = NoRun
    /\ UNCHANGED <<recorded, doc, request, queue, worker, xeroVars>>

\* The message of an execution under way outlasts the visibility timeout.
Redeliver(r) ==
    /\ Executes(r)
    /\ queue' = [queue EXCEPT ![r] = @ + 1]
    /\ Trouble("redelivery")
    /\ UNCHANGED <<recorded, claim, doc, request, worker, xeroVars>>

\* CELERY_TASK_ACKS_LATE: the message of a worker that died comes back.
Crash(w) ==
    /\ worker[w] # Idle
    /\ queue' = [queue EXCEPT ![worker[w].run] = @ + 1]
    /\ Stops(w)
    /\ Trouble("crash")
    /\ UNCHANGED <<recorded, claim, doc, request, xeroVars>>

\* A pool process, or a web server's, is killed with what it was doing.
Dies ==
    /\ Trouble("death")
    /\ \/ \E w \in Workers : worker[w] # Idle /\ Stops(w) /\ UNCHANGED request
       \/ \E r \in Runs : Requests(r) /\ Requested(r, "done") /\ UNCHANGED worker
    /\ UNCHANGED <<recorded, claim, doc, queue, xeroVars>>

-----------------------------------------------------------------------------

Request(r) == Start(r) \/ Refuse(r) \/ Open(r) \/ Send(r) \/ SendFailed(r) \/ RequestFails(r)

Batch(w) ==
    \/ Begin(w) \/ BeginFails(w) \/ BatchFails(w) \/ RecordFails(w)
    \/ Preflight(w) \/ EnsurePayRun(w) \/ ReadPayRun(w) \/ FetchSheets(w)
    \/ Revert(w) \/ Delete(w) \/ Create(w) \/ Approve(w)
    \/ Report(w) \/ Succeed(w) \/ Finish(w) \/ ReconcileLeave(w) \/ Compare(w)

World ==
    \/ PaysOut \/ Lapse \/ Dies
    \/ \E s \in Staff : Reapprove(s)
    \/ \E r \in Runs : Redeliver(r)
    \/ \E w \in Workers : Crash(w)

Next ==
    \/ \E r \in Runs : Request(r) \/ \E w \in Workers : Deliver(r, w)
    \/ \E w \in Workers : Batch(w)
    \/ World

Spec == Init /\ [][Next]_vars

-----------------------------------------------------------------------------
(***************************************************************************)
(* Properties                                                              *)
(***************************************************************************)

\* Runs, executions and sheets keep their shape; no message is taken twice.
TypeOK ==
    /\ recorded \in [Staff -> Week]
    /\ claim \in Runs \cup {NoRun}
    /\ doc \in Document \cup {NoDoc}
    /\ request \in [Runs -> {"new", "claimed", "opened", "unsent", "done"}]
    /\ queue \in [Runs -> Nat]
    /\ worker \in [Workers -> Execution \cup {Idle}]
    /\ leave \in [Staff -> 0..1]
    /\ sheets \in [Staff -> SUBSET Sheet]
    /\ payRun \in {"none", "draft", "posted"}
    /\ left \in [edits : Nat, troubles : Nat] /\ seen \subseteq Troubles

\* No claim lapsed under a call, no message of a live run came twice, and the
\* broker never refused a message it had taken.
Undisturbed == seen \cap {"hang", "redelivery", "send"} = {}

Posting(w) == worker[w].pc \notin {"idle", "begin"}

\* "one live posting run per connected organisation": two runs never post at once,
\* though messages wait past their claim, workers die and are replaced, and the
\* claim is taken by the request and used by the task.
OneRunPosts ==
    Undisturbed => \A v, w \in Workers : Posting(v) /\ Posting(w) => v = w

\* No employee ever has two timesheets for the week, which would both be paid,
\* though calls fail after they took effect and weeks are posted again.
OneSheetEach ==
    Undisturbed => \A s \in Staff : Cardinality(sheets[s]) <= 1

Pays(s, week) ==
    /\ leave[s] = week.leave
    /\ IF s \in Salaried THEN sheets[s] = {}
       ELSE \E x \in sheets[s] : x.status \in {"approved", "paid"} /\ x.work = week.work

\* A result that the panel shows as posted is what Xero pays: an approved sheet
\* with those hours and that leave, whatever failed halfway before.
ReportedIsPaid ==
    Undisturbed => \A s \in Staff :
        doc.results[s].state = "posted" => Pays(s, doc.results[s].week)

\* The message shown for a run that was refused at its start says that nothing was
\* posted; no timesheet of that run is in Xero.
NothingPostedIsTrue ==
    doc.status = "refused" => \A s \in Staff : \A x \in sheets[s] : x.by # doc.run

Running == doc.status = "running"
HasARunner(r) == Requests(r) \/ queue[r] > 0 \/ Executes(r)

\* A document that says a run is running has someone to finish it: its request, a
\* message or an execution, whatever calls to Xero fail at whichever step; unless the
\* claim lapsed, a process was killed or the keeping of the record itself failed.
RunningHasARunner == Running /\ seen \subseteq {"fault"} => HasARunner(doc.run)

\* "Every exit path that OWNS the claim writes a TERMINAL document": also when the
\* heartbeat, the error record or the write itself fails. (post_payroll_week_task)
EveryExitCloses == Running /\ seen \subseteq {"fault", "record"} => HasARunner(doc.run)

\* "would land on whichever run took the calendar over": while a run holds the
\* claim no other run replaces its document.
LiveRunKeepsItsDocument ==
    [][doc.run # NoRun /\ doc'.run # doc.run /\ "send" \notin seen
       => claim # doc.run]_vars
=============================================================================

# DocketWorks: specifications, model checking and proofs

DocketWorks runs a jobbing workshop: jobs and their costs, the material on the
rack, purchase orders, timesheets, and the link to Xero, which does the
accounting. It is a Django application (`src/apps`) with Celery tasks, a Redis
cache, PostgreSQL, and a React front end (`src/frontend`).

This directory specifies the parts of it whose correctness depends on the order
of things: who writes when, what was read before, what has failed in between.
Everything here is translated from the source; `PROJECT.json` gives the lines of
every definition.

## 1. Inventory

### Components

| Component | State | Operations | What makes it hard | What makes it correct |
|---|---|---|---|---|
| **Stock ledger** (`purchasing/services/stock_movement_service.py`, `stock_service.py`) | `Stock` rows with a balance and an `inventory_version`; `StockMovement` rows; the material `CostLine`s they charge | create, edit, retire; draft, edit, approve a cost line; consume; return; receive; reverse; post a count | long mixes of requests; retries; the generic cost line editor reaching the same lines | balance = history; every issue has its job cost; nothing created or lost; history never rewritten |
| **Stocktake** (`stocktake_service.py`, `stocktake_api.py`) | counts with lines, a revision, a status | create, observe, save, post, correct | the workshop moves what is being counted; two people hold one draft | a difference is posted only to a row that stood still, once, with evidence |
| **Stocktake screen and concurrency layer** (`StocktakeDetailPage.tsx`, `lib/concurrency`) | query cache, ETag store, editor rows and version, requests in flight | open, edit, save, post, correct, reload, leave | answers out of order, lost answers, two stores not written together | an accepted save never drops another's edits |
| **Delivery receipts and allocations** (`delivery_receipt_service.py`, `allocation_service.py`) | received quantities of order lines, receipts | receive, reverse | the same material reachable by two routes | one reversal per receipt; order status follows totals |
| **Purchase orders** (`purchase_order_service.py`) | order and lines, status | create, patch, receive outstanding | a patch contains a receipt; ETag preconditions | status agrees with lines |
| **Purchase order mirror** (`accounting_mirror.py`, `xero/documents/po.py`, a stage of `xero/sync.py`) | `xero_push_due`, `xero_id`; Xero's document | send on change, hourly catch-up, manual create and delete | a vendor call inside a transaction; lost answers; a crash between the two commits; a batch limit | an order that owes nothing agrees with its copy; what is owed is sent |
| **Xero sync run** (`xero/sync_service.py`, `sync_worker.py`, `sync_constants.py`, `start_xero_sync.py`) | a lock with a lease in Redis, queued messages, executions | dispatch, execute, renew, release | leases that lapse, redelivery, dead workers, calls that are not atomic together | one run at a time; the lock is given back |
| **Xero OAuth** (`xero/auth.py`, `active_app.py`, `oauth_views.py`) | tokens of the apps, the active one, a refresh lock, the OAuth state | get a token, refresh, consent, swap, disconnect, change or delete an app | a rotating refresh token used twice is lost; a row that changes under a refresh | one refresh per token; a stored token works |
| **Xero sync engine** (`xero/sync.py`, `transforms.py`, `single_sync.py`, `stock_sync.py`) | cursors, mirrored rows | pull each entity, push stock and orders | partial runs; the same row from two sides | pulls are idempotent |
| **Xero documents, provider, client** (`xero/documents`, `provider.py`, `client.py`) | request pacing, quota | invoices, quotes, orders | minute and day limits | |
| **Xero webhooks, tasks, endpoints** (`xero/webhooks.py`, `tasks.py`, `api.py`) | queued events | receive, queue, sync one | duplicates | idempotence |
| **Xero payroll** (`xero/payroll_*.py`) | pay runs, timesheets, leave in Xero | push, reconcile | many calls, each may fail | each employee is pushed or reported |
| **Jobs, deltas, undo** (`job/services/job_service.py`, `job/models/job.py`) | jobs, cost sets, events, rejected deltas | patch by delta, undo, accept, notes, cost lines | stale authors, replays, saves of every field of a row read before | no lost update; undo restores; the history explains the job |
| **Kanban** (`kanban_service.py`) | columns, priorities | move, reorder | concurrent reorders | a total order per column |
| **Timesheets** (`timesheet/services`) | days, entries, breaks, General work, approvals, leave | clock, submit, approve, sweep, take leave | lock order across staff, days and jobs; every write changes what General work has to fill | an hour is paid once; an approval stands for what was seen |
| **Payroll runs** (`timesheet/services/payroll_runs.py`, `tasks.py`) | a claim, per-employee results | claim, renew, post, reclaim | as the sync lock, with a takeover | one posting run per calendar |
| **Companies and people** (`company/services`) | companies, people, contact methods | merge, edit | references from everywhere | nothing points at a merged row |
| **Phone calls** (`crm`), **process forms** (`process`), **quoting** (`quoting`), **AI gateway** (`ai`), **search**, **diagnostics**, **accounts**, **accounting reports**, **platform** | their own tables | CRUD, pulls, reports | little | |
| **Core** (`core`) | ETags, envelope, middleware, events | precondition, error persistence | | a stale If-Match is refused |
| **Operations push** (`operations/push.py`) | a cross-process notice of changed data | publish, stream | notices may be lost | clients refetch |

### How they interact

* A request is one database transaction. Its precondition is an ETag
  (`If-Match`), its serialisation the row locks it takes (`select_for_update`).
* Orders, receipts and counts all end in `move_stock`, the single writer of a
  balance, and in a material `CostLine` on a job.
* A write of an order calls Xero inside its transaction (`send_state_change`);
  what fails stays owed and an hourly stage of the sync run sends it.
* The sync run is a Celery task guarded by a lock in the shared cache, which the
  API, beat and the command all compete for.
* The screen keeps what it fetched in a query cache and the ETags in a store of
  its own, which an interceptor fills and reads.

The hazards, each at its line with the property that covers it or the reason
none does, are in `PROJECT.json`.

## 2. Modules

| Module | Models | Extends or instantiates |
|---|---|---|
| `AccountBook` | what an inventory ledger promises, abstractly | |
| `StockLedger` | the ledger, one action per transaction | instantiates `AccountBook` |
| `SumLemmas` | what sums over finite sets obey | `FiniteSetTheorems`, `TLAPS` |
| `Stocktake` | counts over the ledger, in its variables and its own | `StockLedger` |
| `StockProofs` | theorems about the ledger, its refinement of `AccountBook`, and the counts | `Stocktake`, `SumLemmas` |
| `StocktakeEditor` | a browser tab, the server's counts and other sessions | |
| `PurchaseOrder` | one order's quantities and status, and its clients | |
| `AccountingMirror` | purchase orders and their copies in Xero | |
| `PurchaseOrderProofs` | theorems about both | `PurchaseOrder`, `AccountingMirror`, `SumLemmas` |
| `SyncRun` | runs of the sync and their lock | |
| `SyncRunProofs` | theorems about them | `SyncRun`, `TLAPS` |
| `TokenRefresh` | the tokens of the Xero connection | |
| `TokenRefreshProofs` | theorems about them | `TokenRefresh`, `TLAPS` |
| `PayrollRun` | posting a week's hours to Xero Payroll | |
| `PayrollRunProofs` | theorems about it | `PayrollRun`, `TLAPS` |
| `TimesheetDay` | one person's day | |
| `DayLocks` | the locks the writes of days take, and their order | |
| `TimesheetDayProofs` | theorems about both | `TimesheetDay`, `DayLocks`, `TLAPS` |
| `JobRecord` | one job, its history and who writes to it | |
| `JobRecordProofs` | theorems about it and about the stocktake screen | `JobRecord`, `StocktakeEditor`, `TLAPS` |
| `MC*` | instances for TLC, with their `.cfg` files | |

A name with a suffix after an underscore, under a comment that begins with
"Fault:", is the definition next to it with a plausible mistake in it. It is not
used by the specification; it is there to show that the property it belongs to
would notice.

Some definitions state what the code's own comments say and the code does not
do. Section 5 lists them.

### AccountBook and StockLedger

`stock` is a function from identities to accounts: whether the row exists, is
active, came from an order, its balance, its version, and its movements as a
sequence. `costLines` is the sequence of cost lines of actual cost sets, in the
order they were created; a deleted line stays with `live = FALSE`, so positions
can stand for primary keys. An action is one committed transaction, named as its
function. `move_stock` is the operator every writer of a balance goes through,
as in the code. Atomic actions are justified by the locks: each transaction
locks the stock row, or the cost line and then its job, before it reads what it
decides on. Prices, descriptions, locations and actors are left out. A row found
in a count (`post_lines` on a row that does not exist) is created and moved in
the one transaction, as in `post_stocktake`. `StocksAssumption` says that the
identities a table can hold are finitely many, so that the quantities on the
rows have a sum.

`AccountBook` is what the ledger is for, without its requests: pages to which
entries are only added, each carrying the balance it leaves; an entry that
concerns a party has a charge of the opposite amount with it; an entry that
undoes another undoes all of it, for the same party, and nothing is undone
twice. Its one step, `Post`, adds any such entries with their charges all
together. The refinement mapping (`Book` in `StockLedger`) reads a row's
movements as its page and the owned cost lines that a movement names as the
charges; drafts and lines from the generic editor are not in the book. So
`KeepsTheBook` says in one formula that no request, and no order of requests,
writes an entry without its charge, a charge without its entry, or anything
over what stands.

### Stocktake

Adds `counts`. Lines record what was expected and the `inventory_version` at the
time, the counted quantity, and the movement that posting gave them. While a
count is open the workshop may take material (`Issued`), give it back and
receive more. `post_lines` of `StockLedger` is the ledger's part of a posting.

### StocktakeEditor

The content of a count is a set of edits, because the property is whether edits
are lost. The server keeps every revision's content. `_detail` reads a count's
version and its lines in two queries, so an answer is put together in two steps
and another session may save in between. The tab sends GETs and mutations that
are answered late, out of order, or never; it may leave the page and come back,
and its query cache and ETag store outlive the page. Two limits: the followed
tab has one mutation under way at a time, and a request that was given up before
it was delivered is not delivered later. `NoDataAssumption` says that the mark for
an empty cache is no answer of the server. One module of theorems extends this
module and `JobRecord`, which share no names.

### PurchaseOrder

Quantities are thousandths, as the ledger keeps them; the columns of a line keep
two decimals, so `Round` is applied wherever the code assigns one, and the
quantities of receipts are not rounded. A receipt names a parcel for any of the
lines and is applied to all of them or to none: the `total` it was sent with,
which is what the line is credited with, and the `split` into allocations, which
is what the ledger keeps; the two may differ by `Tolerance`, a thousandth
(`ALLOCATION_TOLERANCE`), and a request where they differ by more is refused; a PATCH sets the status, deletes
a line or writes one, and a PATCH that completes the order receives what is
outstanding by the rows as it has just edited them; a reversal takes one receipt
off. Every request carries the ETag its client was shown. The server reads the
order and its lines in two queries, so a client's picture is put together in two
steps (`reading`, `reviewing`); an answer may be lost, and then the client sends
the same request again (`taken` remembers that the first was applied). The
client is idealised: it shows what it was sent and sends the ETag that came with
it. What a screen may do instead is in `StocktakeEditor`. Whether the goods go
to a job or to the rack is the ledger's; the call to Xero that a moved status
owes is the mirror's.

### AccountingMirror

`po` holds the committed rows: status, how much was received, whether Xero is
owed a call (`xero_push_due`), whether it is linked (`xero_id`). `xero` is
Xero's copy. A call in flight carries the row its transaction will commit, so
that a crash loses exactly what a rollback loses and nothing of what Xero did.
The operator's handlers and the hourly stage hold the order's lock across the
call; the manual endpoints do not. A handler that must wait for a lock is a
handler that is not enabled. The stage takes `Limit` of the owed orders and only
then sets aside those it does not send, as `sync.py:725-731` does. Xero's part, `Refuses` and `XeroApplies`, is
modelled from how `provider.py` uses it: the linked document, else the one with
the order's number, else a new one is written; a deleted one is refused.
`Orders` includes orders that Xero raised, which are acknowledged without a
call but take a place in the stage's slice. How much
of an order has been received is none, some or all of it; lines, amounts and the
contents of the payload are left out. Its names differ from those of
`PurchaseOrder`, so that one module of theorems extends both.

### SyncRun

`lock` is the value of the key, `dispatch` where a dispatcher is, `queue` how
many messages wait, `worker` what each worker executes. Each call to the cache
is a step, so a renewal (get, touch) and a release (get, delete) can be
interrupted. A run that is executing is "working" between a renewal and the next
progress event, which is when it reads and writes; `stale` counts the events it
began after it had lost its lock. The command runs in its own process
(`Inline`) and has no message. The broker is Celery on Redis with
`CELERY_TASK_ACKS_LATE`: when the worker service dies its message comes back
(`Crash`), when only the pool process dies the message is acknowledged
(`Dies`, since `CELERY_TASK_REJECT_ON_WORKER_LOST` is not set), and a live
run's message can come back when the visibility timeout passes (`Redeliver`).
A killed process leaves the lock set until its four hours are over; `Lapse` is
that expiry, and the only recovery.

### TokenRefresh

`rows` is the table of apps with their credentials (`client` counts their
changes), the token and whether it is near its expiry; `lock` the value of the
refresh lock's key; `state` the OAuth state in the cache. A call of
`get_valid_token` (`caller`) takes one step for each statement to the cache or
the database and one for the exchange with Xero, so that two processes and the
administrator's requests meet between any two of them. Xero (external) takes a
refresh token once, with the credentials it was issued to, and gives another:
`accepted` is what it would take. The consent callback reads the state, spends
it, exchanges the code and saves, one step each. A process builds its client
from the row it read; the client has no state of its own here. A lease may lapse
under its holder, an answer of Xero be lost, and a process die; each is a
"trouble" that is remembered in `seen`, because a rotated token that was never
saved is gone and nothing in the code brings it back.

### PayrollRun

One payroll calendar and one week. `claim` is the value of the cache key that
names the run allowed to post, `doc` the run's document that the panel polls,
`request` the HTTP request that starts a run, `queue` the Celery messages,
`worker` the executions with what they read at their start. Every call to Xero
is a step that may fail before or after it took effect: leave, the pay run, and
per employee revert, delete, create and approve. What lies between two calls
takes far less than the claim's ten minutes, so checking the claim and writing
the document under it is one step. The troubles are failed calls, the
keeping of the record (the store, the publication and the error record may each
raise, in the request, at the task's opening and in its `except` and `finally`,
before or after what they do took effect: `RequestFails`, `BeginFails`,
`RecordFails`), a broker that refuses a message it took, claims that lapse under a
waiting message or under a call that hangs, redelivery, crashes and killed
processes. Xero's sheets and pay
run are external. Leave and work of a week are each none or some, all staff are
employed and linked. The request is bounded by gunicorn's 180 s
(`scripts/server/templates/gunicorn-instance.service.template:24`), well within
the claim's 600. `StaffAssumption` says that a run has somebody to pay
(`payroll_service.py:398` refuses a week without staff), that the workers are
finitely many and that no sheet is the sheet `NoSheet`.

### TimesheetDay

One person's day in slots of an hour. `row` is the `AttendanceDay`, `entries`
the time lines on jobs, `breaks` those on the Break job, `rest` those that fill
the day with General work, `leave` the leave line. An entry has its hours and
the slots it is drawn on, none when it would run past midnight. `Refilled` is
`refill_general_work`, and each write ends in it where the code does. A line of
General work is a line like another: its hours and its place are refused, but it
may be given another day's date or put on a job, and an entry that a refill once
made (`swept`) may be put back on the General work job. A line of `rest` has the
name of the entry it was, or `Made` if the refill made it and nobody has touched
it. Lines leave for other days and come from there (`GoesToAnotherDay`,
`ComesFromAnotherDay`), to days that are filled and days that are not, and on a
day that is not filled nothing is made again round them. An action
is a request: clocking, times set by hand, entries written, changed and deleted,
breaks, the fill, sending the day, approval of a day or a line, the sweep, leave
and time going by. Every one holds the person's lock and is one step; the locks
are the next module's subject. Left out: rates, overtime, the choice between jobs
other than General work, the audit trail. One leave line a day; breaks are
unpaid; an entry is drawn over exactly its hours.

### DayLocks

Which locks the transactions that write days take, and in which order: `Staff`
rows, `AttendanceDay` rows, `Job` rows, and the share locks that foreign keys
take at commit because Django declares them deferred. `Handlers` has a request
for every function with the sequence of its locks; `Begin` starts any of them,
`Take` takes the next lock when nobody holds it in a conflicting mode, `Commit`
gives all back, `Detect` is PostgreSQL's deadlock detector, which fails one
request of a circle. A lock that is asked for again is taken without a wait.
`LocksAssumption` says that keys are naturals and that the tables of people and
jobs are finite; of requests there may be any number.

### JobRecord

`job` is the row with the fields that matter: status, a text, whether the quote
was accepted, whether it is paid, whether `completed_at` is set. `events` are
the `JobEvent`s with the values before and after, `rejections` the recorded
deltas. Tabs send deltas with the ETag of their store and the baseline of their
page, which may differ (`_set_job_etag` answers without a row); undo, accept and
note. Writers are the board, the quote's revision and the nightly tasks, which
read a job, compare it and save it in steps of their own. `overtaken` remembers
that a save was overtaken between its reading, its comparison and its write.
`softFail` is the installation's setting that lets mismatches through. Left out:
deleting a job, priorities, checklist items, a merge of companies, what removes
repeated notes, a crash between a commit and the rejection's own, and the
autosave queue of the page.

## 3. Runs

| Run | States | Shows |
|---|---|---|
| `ledger` | 861,048 | every mix of requests on two rows keeps the ledger explained, charged and conserved, and implements `AccountBook` |
| `stocktake` | 627,447 | a difference is posted once, to a row that stood still, with evidence |
| `editor` | 2,014,578 | rows and version taken from one answer are saved and posted under what they were read with |
| `editor_lost_update` | violated | rows from the cache with a version from the store lose a save |
| `orders` | 1,052,581 | a request takes effect once and only on what its author saw; a line shows what stands of its receipts, within the tolerance and the rounding; completing takes each line to what is ordered |
| `mirror` | 666,070 | owing nothing means agreeing; acknowledgements belong to what stands; what is owed is sent unless unsendable orders fill the slice |
| `sync` | 428,542 | executions exclude each other, a stale run stops, the lock is given back |
| `token` | 1,277,511 | a refresh token is spent once, a stored token works, the state is spent once, a waiter that saw the lock go is not told "not connected" beside a fresh token |
| `payroll` | 5,547,908 | one run posts at a time, one sheet each, what is reported is what Xero pays, while only calls fail a run that is said to run has someone to run it |
| `timesheets` | 945,513 | on a filled day no hour is paid twice, General work is what the rest leaves, approval stays with what was approved, a sweep finishes a day |
| `locks` | 2,293,115 | every circle of waiting requests has one in it that strays from the order |
| `job` | 1,811,713 | the history explains the job, an undo puts back what was replaced, a delta replaces only what its author saw |

Some properties hold until something happens that the code does not survive.
They say so. `left` and `seen` show what the bounds have been spent on and
`overtaken` which reads were overtaken: `NothingOwedMeansAgreed` is about
behaviours in which nobody has yet used the manual endpoints and no worker has
died in a call; `OneRunAtATime` about those in which no lease has lapsed and no
live run was redelivered; `LockHasAHolder` and `LockIsGivenBack` about those in
which no process was killed; `NeverSpentTwice` and `StoredTokenWorks` about
those in which no lease lapsed under its holder, no answer of Xero was lost, no
process died and no credentials were changed; the payroll properties about those
in which no claim lapsed under a call, no live run's message came twice and the
broker did not refuse a message it took, and `RunningHasARunner` about those in
which calls to Xero are all that failed; `OwedIsSent` about orders that are not
kept out of the stage's slice for good by owed orders it cannot send; the first
part of `NothingPaidTwice`, `GeneralWorkIsTheRest` and `RestKeepsItsApproval`
about days that are filled with General work; `HistoryExplainsTheJob`,
`CompletedWhileFinished` and part of `OwnFieldsOnly` about those in which no
save of a whole row was overtaken. The same runs let those things happen, and
the properties without a condition hold through them.

The violated run states what the code's own words say and is explained, with
those words, under "findings" in `PROJECT.json`.

### Bounds

* **ledger**: two rows, one job beside the adjustment job, receipts of 2 and
  drafts of 0 and 1 so that a draft can be approved for nothing, less than, and
  (negative balances are allowed) more than there is; four movements on a row
  are receipt, issue, return and reversal; three cost lines let a job line, its
  credit and a draft coexist. The theorems lift these bounds for all of its
  properties.
* **stocktake**: two counts so that a count can be corrected and two drafts can
  race; one save each after creation; the four movements of a row let material
  leave and come back before the count is posted.
* **editor**: two edits are needed to lose one; two saves of a count make an old
  answer; the second count is the correction of the first. The theorems lift
  these bounds for its two invariants.
* **orders**: two lines, so that a request can touch one, both or write one
  while the other is received; two people; quantities of 10 and 20 thousandths
  (one and two hundredths); a parcel of 10 in two allocations of 5, the smallest
  amount that rounding can lose; one of 5 whose allocation is 4, which the line
  shows as 10, the most it can be off by; and one of 20 with an allocation of 10,
  which is refused; three writes of the order and three
  receipts of a line allow receive, reverse, receive again and complete; one
  lost answer, since a request is sent again at most once. The theorems lift
  these bounds for all of its properties.
* **mirror**: an order of ours and one of Xero's, which the stage must pass
  over; orders meet only in the stage's slice and in who waits for whom. Three
  handler writes take an order from draft through a receipt and back; two faults
  make a deferral after a deferral; one manual call and one crash are enough to
  cross with anything. The slice holds one order (`Limit = 1`), so that one that
  cannot be sent, Xero's or one that Xero holds as deleted, fills it; 50 in the
  code. The theorems lift these bounds for its two safety properties.
* **sync**: two workers and three runs (one executing, one waiting or being
  dispatched, a successor), one of them the command's; two events let a run pass
  a renewal after its lease lapsed; two lapses take the lock from a run and from
  its successor; one redelivery, one crash and one killed process.
* **token**: two processes (the holder and a waiter), two landings of one
  consent, two apps; one expiry, two changes by administrators (a swap and
  anything else), one trouble. The theorems lift these bounds for all of its
  properties.
* **payroll**: two runs and two workers, an employee on wages and one on a
  salary, one change of the approved hours between the runs, two troubles, so
  that a call fails and a worker dies, or the record of it fails, over it. The theorems lift these bounds for
  all of its properties.
* **timesheets**: a day of four hours of which the standard day is the first
  three with the break in the second, so that work can lie before, over and
  after it; he clocks at any hour, and times and breaks given by hand are at 2;
  two entries of two hours, which can leave a gap, meet, overlap each other or a
  break, run past midnight, or be lines of another day. The theorems lift these bounds for all of its properties.
* **locks**: three requests, the smallest circle that is not a pair and the
  largest any two orders can hide; two people of whom one is office staff and
  one member of the office without days; jobs for leave, General work, Break.
  The theorem lifts these bounds.
* **job**: one tab beside one unlocked save, since two tabs are serialised by
  the row's lock and meet as versions do; two texts, two statuses (one that
  finishes the job); four versions let a change be made, overtaken, undone. The
  theorems lift these bounds for all of its properties.

`CHECK_DEADLOCK FALSE` is set for `AccountingMirror`, `SyncRun`, `PayrollRun`,
`TokenRefresh`, `PurchaseOrder` and `JobRecord`: their bounds run out and nobody
need do anything more.

### Fairness

* `AccountingMirror`: the hourly stage runs and goes on, and Xero answers or
  refuses a call, or the connection breaks. The SDK's calls carry no timeout of
  their own (`client.py:167`), so this assumes that a connection does not hang
  for good; the lost answers themselves are bounded.
* `SyncRun`: a dispatcher's request ends, a waiting message is delivered to some
  idle worker, and an execution goes on. Beat need not start a run.
* The others state none: their properties are safety properties, and nothing is
  assumed of users. That a reload of the stocktake screen ends is stated as the
  invariant it rests on, that a request is under way for it
  (`ReloadHasARequest`, proved as `ReloadIsUnderWay`); that a payroll run can end
  as long as only calls to Xero fail, as `RunningHasARunner`, that there is someone
  to end it.

## 4. Proofs

The proofs hold for every value of the constants under the modules' `ASSUME`s.
TLC checked every invariant below on a small instance before it was proved.

**SumLemmas.** A sum over a finite set is `SumFunctionOnSet` of `Functions`: a
choice of one function over the subsets, and of an element of each. The lemmas
show that such a function exists (`SumsExist`), that the order does not matter
(`SumsAgree`), and from these what a change of one term does to the sum, that
sums add and that a set may be summed in parts. An induction would need an
operator as a parameter; two lemmas stand in for it: a set of naturals has a
least member (`Smallest`), and a set of subsets that holds the empty set and
grows by one element at a time holds them all (`Subsets`).

**StockProofs, the ledger.** `IInv` is `TypeOK`, `HistoryShape` (a row that does not
exist has no movements, one that an order brought has some),
`LedgerContinuity` and `JobCostCounterparts`. The last two are not inductive
alone: that a new movement takes a cost line that no movement had needs the
lines' owner, and that the generic editor cannot break a counterpart needs the
owner again. The argument has three layers: what `move_stock` does to one row
(`MoveStockFields`, `MoveStockChain`), what it takes for a step to be harmless
(`Preserved`, `PreservedKeeps`: rows only extend, owned costs stay, new job
movements take fresh costs), and one lemma per kind of request showing that it is
such a step. Results: `TypeCorrect`, `LedgerContinuous`, `CounterpartsHold`, and
`HistoryAppendOnly`, the action property.

**StockProofs, the book.** That the ledger implements `AccountBook` is `BookIsKept`:
`Init` maps to an empty book, and every request maps to one `Post` or to a
stutter. A step that is `Preserved` keeps what stands in the book; `Booked` says
what more a step must do, namely that the entries it adds carry exactly their
charges and that the charges it adds have their entries; the two together are
`Book!Post`. `IInv` does not suffice. `BookInv` adds `MovementsSound` (a
reversal names an earlier movement of its row that was itself no reversal,
undoes all of it and charges the same job), `DeliveredFirst` (the history of a
row that an order brought begins with its delivery, which is what a reversal of
the receipt looks for) and `OwnedCostsAreLinked`: without the first, an entry
that undoes another could take its charge from a different job; without the
last, a charge could be in the book before the entry that it belongs to. On the
way it proves `ReversalsAreEvidenced` and `OwnedAreLinked`.

`MaterialIsConserved` needs no invariant of its own. By the chain of its
movements a row's balance is the sum of them; movements that concern no job are
receipts, receipt reversals and adjustments, and the others answer the owned
cost lines one to one, each of the opposite quantity; so the sum of the balances
falls into what suppliers brought and what stands on jobs (`SumOfParts`). That
the identities of rows are finitely many (`StocksAssumption`) is what gives the
balances a sum.

**StockProofs, the counts.** `CountInv` is the ledger's `IInv` with, for the counts,
`NothingMovedSinceCount`, `PostedOnRows` (what was posted stands on a row),
`LinesMoved` (a draft has moved nothing, a posted count all its differences) and
`AnsweredOnce`, which says what `StocktakeEvidence` says without counting: a
stocktake movement has a line, and no two posted lines name one movement. The
steps fall in two kinds. Those that post nothing, the workshop's traffic and the
drafts, keep it because rows only extend and no new movement is a count's
(`NoPosting`, `Drafting`, `DraftingKeeps`). A posting is `PostingStep` of the
ledger, for lines of any number and any difference; `PostedRows` says that each
line's movement is the next on its row, `OrderFacts` that the row is as the line
saw it, and two posted lines cannot share a movement because the next one is on
no row yet (`NextIsNew`). That rows and quantities are finitely many
(`CountAssumption`) is what puts a draft's lines in an order.

**SyncRunProofs.** `MutualExclusion` needs, while nothing has lapsed or been
redelivered (`Undisturbed`), the invariant `Sole`: at most one thing stands for
a run (a dispatcher, a message or an execution) and it holds the lock.
`OneRunAtATime` alone says nothing about a message that is about to become a
second execution. `UndisturbedBefore` carries the condition backwards over a
step, because what the bounds have spent is never given back.
`LockHeldByHolder` is inductive with the state's shape. `StaleStops` holds
whatever goes wrong; it needs `LostForGood`: a run acquires its lock once, so a
run that was stale at an event fails its next renewal. All bounds are constants
of any size, so the theorems cover any number of faults.

**TokenRefreshProofs.** `TypeCorrect` includes that the active row always
exists. `SingleConsent` (at most one landing has spent the state) is inductive
whatever goes wrong and gives `ConsentOnce`. `TokensGood` is about calm
behaviours, those without a trouble: only the holder of the lock is about to
spend a token (`HolderOnly`); the token of a row is one Xero takes for the row's
credentials, unless its successor is in the holder's hands (`RowTokens`,
`CallerTokens`); a landing exchanges with the credentials its row still has, and
what it got is good (`ConsentTokens`); and what a landing is about to save is
nobody else's token (`Apart`), so that no refresh spends it first. Most steps are quiet, in that no token
is issued, read or saved; `QuietKeeps` deals with all of them and six remain.
`NoFalseAnswer` is a property of single steps that needs only the shapes: a
caller is refused by one of two looks at its row, and neither found a fresh
token there (`ToldNot`).

**TimesheetDayProofs.** `Inv` is the shape of the day, `FillHolds` and
`ApprovedAreWritten` (what is approved is written). `FillHolds` is what makes
`NothingPaidTwice` and `GeneralWorkIsTheRest` inductive: a day that is not filled
holds no General work that a refill made there, and one that is has been clocked,
and its General work lies apart and is the gaps, or there is none while the
finish is not known or was assumed. Lines that come from other days or change
their job enter a filled day only through a refill, and `RefillKeeps` is about a
refill of any lines. The operator at the heart of it,
which turns a set of free slots into the stretches between them, is shown to
cover exactly those slots with stretches that do not meet (`StretchesApart`,
`StretchesCover`, `LinesOverStretches`). That each slot belongs to a stretch
would be an induction over the length of the day; it is proved instead from the
least-number principle (`Least`), which follows from `WFMin` and the
well-foundedness of the naturals and has no operator as parameter. `RefillKeeps`
then covers each step that ends in a refill, `PlacesKeep` the approvals.
`CheckedStands` is about every write there is: each either leaves an approved
line or takes its approval off (`ChangesWait`); for breaks that needs
`BreaksThere`, that what is approved of them is a line.

**TimesheetDayProofs, the locks.** `NoCircleAmongOrderly` says of any number of
people, jobs and requests that requests which keep the order the code's comments
give are never a circle, whatever the others lock meanwhile. The rank is people
by key, then jobs by id; rows of days and the share locks of foreign keys have
none. `NoCircle` says nothing about locks still to come, so the invariant
`LocksInv` has, for each such request, its `Plan`: of what it has still to take
the lower of two ranked locks comes first (`Climbs`) and is above all it holds
(`Above`); the person comes before the rows of his days (`Guarded`) and before
his own name in an event (`Named`); and two requests hold one row only if both
share it (`Exclusive`). A day's row is thereby never waited for among these
requests, since who comes to it already holds the person its holder needs; nor
is a foreign key of one's own. What remains is ranked, each waits for a lock
higher than the one before it (`WaitsClimb`), and a finite set has a greatest
member (`Greatest`): first of the jobs waited for, then of the people. That every
handler begins with a plan rests on what `InOrder` lists (`InOrderIs`: a set
once, climbing) and on what may be appended to a rising sequence (`JoinRises`):
locks that were named before, as General work is on every rebuild, or higher ones
that rise.

**JobRecordProofs.** `HistoryExplainsTheJob` chooses the last change of a field
before another; the invariant says the same of every candidate (`Chain`), so
that adding an event is a matter of cases (`SaveChains`) and the choice is
resolved once (`Greatest`, `ChainExplains`). Saves under the row's lock compare
with what they read (`LockedSave`). For the others the invariant keeps what they
hold against the row: it is the row as read with their own fields changed
(`Saves`), and what they write over is exactly what `overtaken` gains
(`StepWrite`). An undo is made without the lock and sent later; `UndoHolds` says
it is the recorded change back to front and that, if the version it names is
still the version, the row still has the values it undoes. `Inv` implies all the
properties that the run `job` checks.

**JobRecordProofs, the counts on a screen.** The two invariants of
`StocktakeEditor` speak of what the page shows while its rows and its version
come from one answer (`fetched`); neither is inductive, because an answer under
way may become what is shown. `EditorInv` says of every count that a posted one
has the lines of its last draft (`CountOK`); of every answer in flight that its
tag is no newer than its lines, which are those of one revision (`GetOK`,
`AnswerOK`): the server reads the version first and the lines after it, so a save
between the two can make the lines newer than the tag and never older; and of the
page and of the write under way that what they show goes back to such an answer,
with the tab's own edits added (`PageOK`, `WriteOK`, `ShownIn`, `CoversIn`). A
step of the server only adds revisions (`Grown`), and whatever the others know
outlives that (`RowKeeps`). It gives `RowsCoverTheirVersion` and
`PostsWhatWasReviewed`, for any edits, counts and number of revisions; from the
same invariant follow `FetchedSavesLoseNothing`, that an accepted save of such
rows drops nobody's edits, and `ReloadIsUnderWay`. Of a page that was shown from
the cache `EditorInv` knows only that it has some version, and there the run
`editor_lost_update` finds the save that loses another's.

**PurchaseOrderProofs, the order.** `Inv` is the type invariant, `GoodRows` and
`Known`. A good row keeps columns of whole hundredths, and what it shows as
received differs from the sum of its standing receipts by at most what the
tolerance and rounding lost: half a hundredth and a thousandth for each receipt
that is not whole hundredths and half a hundredth more for each of these that was
reversed. A receipt of whole hundredths leaves nothing, whatever total within the
tolerance came with it (`RoundedOff`). A row changes by edits, a receipt or a reversal, and
each is one lemma over `SumLemmas`. `Known` says what a client's screen is worth:
whoever is reviewing with the order's own version sees its lines, whoever sends
a request again is behind, so that it is taken at most once; with it
`AcceptedOnlyAsSeen` follows. `CompletedExactly` adds that what is outstanding by
the edited rows is what a receipt brings to each. `ReceiptsStay` says that no
request forgets a receipt or undoes a reversal.

**PurchaseOrderProofs, the mirror.** `NothingOwedMeansAgreed` says nothing about a
call in flight, and is not inductive. The invariant has two parts. `MirrorInv`
holds whatever happens: the operator and the stage never hold one order
(`OneHolder`), the row a call will commit owes that call, a handler that calls
twice owed one before, and the stage's row is the committed one (`Holds`). `Kept`
holds in the behaviours the property is about: what Xero was told under a lock
stands there until it is acknowledged (`Told`, while the manual endpoints are not
used); a call Xero has not applied yet can be dropped and leave what was agreed
before (`Untold`, while nobody has died either); and an order of ours owes,
agrees or is held (`Settled`). `Frame` says once what a step of one agent about
one order leaves alone; the lemmas for writes, starts, ends and the manual
endpoints fill in what it is about. `AcknowledgedAsItStands` needs
`MirrorInv` alone, so it holds through manual calls and crashes.

**PayrollRunProofs.** `Inv` has three parts. `Shape` and `Openers` hold whatever
happens. While nothing has disturbed the claim (`Undisturbed`) there are `Sole` (a
run is in one place, its request, a message or an execution), `PostersSound`
(what posts holds the claim, and what each of its positions knows of Xero's
sheets, leave and pay run), `SheetsApart` and `ReportedHolds`. While calls are
all that fails (`Faultless`) there are `LiveHolds` and `RunningHasARunner`. What
ends an execution without its record, in all the ways that can happen, is one
lemma (`GivesUpKeeps`): whatever it leaves of the claim and the document, what is
reported posted is posted.
`OneRunPosts` alone is not inductive: it says nothing about a message that is
about to become a second poster. A call may fail after it took effect, so
`AtSheet` allows each position both outcomes, and a new sheet's identity is
fresh because there are more identities than sheets (`Fresh`). The steps are
grouped by what they touch (`MovedKeeps`, `OneStaffKeeps`, `CallKeeps`,
`AbortKeeps`, `ClaimKeeps`). `DocumentKept` follows from `WrittenUnderClaim`: an
execution writes the document only under its own claim or a free one.

Every safety property of a passing run is a theorem. Only model-checked:

* `NeverOverCredited` and the type invariant of `SyncRun` (its bound on the queue
  counts deaths), which no run lists;
* all liveness (`OwedIsSent`, `LockIsGivenBack`), with what rests on `ENABLED`;
  the provers have no rule for it.

## 5. What the code does not do, and what is not modelled

### Statements that are untrue of the code

Each of these is a definition whose comment gives the code's words or names the
requests that stray. TLC finds it violated when it is put into the configuration
of its module; only the first of the table is kept as a run.

| Definition | Says | The code |
|---|---|---|
| `StocktakeEditor!NoLostUpdate` | an accepted save drops no other's edits | rows come from the query cache, the version from the ETag store |
| `SyncRun!RedeliveryIsSkipped` | a message that comes twice is skipped (`sync_worker.py:122`) | its lock is its own, and it runs beside itself |
| `AccountingMirror!NoneIsStarved` | no refusal may "starve every other order of its push" (`sync_local_purchase_orders_to_xero`) | the slice is cut before the orders that cannot be sent are set aside (`sync.py:725-731`): enough of them fill it at every run |
| `AccountingMirror!PushesDoNotCross`, `DeathLeavesItOwed` | a call is about what stands; what a dead worker was sending is still owed | the manual endpoints hold no lock; the flag is committed after the call |
| `PurchaseOrder!ReversedLeavesNothing` | after all its receipts are reversed a line has received nothing | receipts keep three decimals, a line two (`allocation_service.py:395`) |
| `TokenRefresh!DisconnectedStaysSo`, `NoTokenOfOldCredentials` | a disconnected app has no tokens; a token belongs to the credentials beside it | a refresh under way saves over both (`api.py:218`) |
| `PayrollRun!NothingPostedIsTrue` | of a run that was refused at its start nothing is in Xero (`tasks.py:97`) | a second delivery is refused and speaks for the first |
| `PayrollRun!EveryExitCloses` | "Every exit path that OWNS the claim writes a TERMINAL document" (`post_payroll_week_task`) | the guard and the first heartbeat are outside the `try` (`tasks.py:112`), and an error record or a write that raises in an `except` skips the closing write: the document says running and nobody is left |
| `TimesheetDay!NothingPaidTwiceAnywhere` | "any time that isn't on a job or break is general work" (`refill_general_work`), and no other | a line of General work moved to a day that is not filled, or put back on General work there, stays under what is entered over it (`workshop_timesheet_service.py:748`, `:1129`, `:1202`) |
| `TimesheetDay!LeaveIsNotBookedAgain` | approved hours leave no second booking of the same leave | a change after approval does |
| `DayLocks!NoCircleAtAll`, `PersonFirst` | person first, then jobs (`approval.py:162`, `:467`) | approving one line, sending a day of several rows, clocking in, closures and changed leave stray from it, and whatever else an office person with a day of his own does to another's day or to a job |
| `JobRecord!NothingWrittenOver` | a save keeps what others wrote (`job_service.py:3110`) | the tasks and a quote's revision write every field back as read |

Stated and true, but outside the runs: the type invariants of most modules,
`NeverOverCredited`, `PostedIsFrozen` and `ReloadHasARequest` (which are proved),
`ReceiptsAreKept`, `UnseenIsRecorded`.

### Not modelled

* Reports, search, rendering, files and mail are reads or I/O. Phone calls,
  process forms, quoting, the AI gateway and diagnostics write single rows of
  their own or call out.
* The rest of the vendor traffic is copied field by field, in upserts that a
  repetition leaves as they are.
* Rates, overtime and the kanban's priorities are arithmetic on decimals and
  floats.
* Merges of companies and of people repoint references in one transaction; they
  touch dozens of tables and no state that another step of theirs reads.
* In `SyncRun`, what a run writes to the mirrored tables is one step per event.
  That Celery beat may not run at all is not a behaviour; a web process killed
  between acquiring the lock and sending the message is (`DispatcherDies`). A send
  that took effect and then raised is not: `SyncRun` takes the broker's word.
* In `TimesheetDay`, an entry whose finish is given by hand and lies later than
  its hours; a move between the Break job and another; a change of the General
  work job in the company's defaults, which changes what counts as General work
  on every day.
* In `AccountingMirror` requests are serialised per order by its lock, as in the
  code, but the lock is not a queue: a waiting handler has no place.
* `PurchaseOrder` includes that deleting the last outstanding line does not
  recompute the status; nothing in the code says that it should.

## 6. Plan

1. The job page's autosave queue and the order page, on the model of
   `StocktakeEditor`, as clients of `JobRecord` and `PurchaseOrder`.
2. `StockTransactions`: the ledger's requests as lock acquisitions, reads and
   writes, shown to implement `StockLedger` and to be free of deadlock.
3. A lock with a lease, stated abstractly, that `SyncRun` and `PayrollRun`
   implement.
4. Time entry rates as operators against a reference definition; the kanban's
   order of a column under concurrent moves; merges of companies and people.

Theorems next: that submissions, clocking in and closures, each in an order of its
own, form no circle with themselves, which needs a rank per kind; that
`StockTransactions` implements `StockLedger`; that both users of a lease
implement the abstract one.

------------------------------ MODULE DayLocks ------------------------------
(***************************************************************************)
(* The locks the writes of timesheet days take, and in which order: Staff  *)
(* rows (select_for_update), AttendanceDay rows and their unique key, Job  *)
(* rows with their cost sets (lock_costing_jobs). A foreign key takes a    *)
(* lock too: Django's constraints are deferred, so at its commit a request *)
(* takes FOR KEY SHARE on the Staff rows its audit events name, which      *)
(* waits for whoever holds one of them FOR UPDATE. Locks are held until    *)
(* the transaction ends. What the requests write is in TimesheetDay.       *)
(***************************************************************************)
EXTENDS Integers, Sequences, FiniteSets

CONSTANTS
    Requests,  \* transactions under way at once
    People,    \* primary keys of staff with days of their own
    Office,    \* primary keys of the office staff who act for others
    Jobs,      \* ids of jobs
    General,   \* the General work job
    BreakJob,  \* the Break job
    LeaveJobs  \* the jobs of the leave types

ASSUME LocksAssumption ==
    /\ People \cup Office \cup Jobs \subseteq Nat
    /\ {General, BreakJob} \cup LeaveJobs \subseteq Jobs
    /\ BreakJob # General /\ {General, BreakJob} \cap LeaveJobs = {}
    /\ IsFiniteSet(People) /\ IsFiniteSet(Jobs)

VARIABLES
    request  \* [Requests -> what it is, the locks it has still to take and those it holds]

lockVars == <<request>>

WorkJobs == Jobs \ ({BreakJob} \cup LeaveJobs)

NoRequest == [kind |-> "none", people |-> {}, actor |-> 0, todo |-> <<>>, held |-> {}]

-----------------------------------------------------------------------------
(* Locks *)

staff(p) == [row |-> <<"staff", p>>, shared |-> FALSE]
day(p) == [row |-> <<"day", p>>, shared |-> FALSE]
job(j) == [row |-> <<"job", j>>, shared |-> FALSE]
foreign_key(p) == [row |-> <<"staff", p>>, shared |-> TRUE]

\* The members of a set of numbers in their order.
InOrder(S) == [i \in 1 .. Cardinality(S) |-> CHOOSE n \in S : Cardinality({k \in S : k <= n}) = i]

EveryOrder(S) == {f \in [1 .. Cardinality(S) -> S] : \A n \in S : \E i \in DOMAIN f : f[i] = n}

Each(LockOf(_), seq) == [i \in DOMAIN seq |-> LockOf(seq[i])]

\* In the order of their ids, in one step.
lock_costing_jobs(ids) == Each(job, InOrder(ids))

\* Fault: General work is locked only when it is rebuilt.
with_general_work_Later(ids) == ids

with_general_work(ids) == ids \cup {General}

\* The jobs of a write to a day, and General work again when it is made anew.
DayJobs(ids) == lock_costing_jobs(with_general_work(ids)) \o lock_costing_jobs({General})

-----------------------------------------------------------------------------
(* Requests, each with its locks in the order it takes them; the last are those of *)
(* its events' foreign keys.                                                        *)

Request(kind, actor, people, locks) ==
    [kind |-> kind, people |-> people, actor |-> actor,
     todo |-> locks \o <<foreign_key(actor)>>, held |-> {}]

\* Who may act on a person's day: he, or the office.
Actors(w) == {w} \cup Office

\* create_entry, update_entry and delete_entry, of the job or jobs of the entry.
EntryWrites(w) ==
    {Request("entry", a, {w}, <<staff(w)>> \o DayJobs({i, j})) :
        a \in Actors(w), i \in Jobs \ LeaveJobs, j \in Jobs \ LeaveJobs}

\* approve_day, of whatever waits.
Approvals(w) ==
    {Request("approve_day", a, {w}, <<staff(w)>> \o lock_costing_jobs(ids)) :
        a \in Office, ids \in (SUBSET (Jobs \ LeaveJobs)) \ {{}}}

\* sweep_person and sweep_everyone, and the row of each day they settle.
Sweeps ==
    {Request("sweep", a, S, Each(staff, InOrder(S))
                 \o lock_costing_jobs(ids \cup {General, BreakJob}) \o Each(day, InOrder(S))) :
        a \in Office, ids \in SUBSET WorkJobs, S \in (SUBSET People) \ {{}}}

\* clock_out, set_clock_times and fill_with_general_work: the breaks that come and go.
DayTimes(w) ==
    {Request("times", a, {w}, <<staff(w), day(w)>> \o DayJobs(ids)) :
        a \in Actors(w), ids \in {{}, {BreakJob}}}

\* create_leave_request and delete_leave_request, and update_leave_request, which
\* takes one leave away before it makes the other.
Leaves(w) ==
    {Request(IF old = new THEN "leave" ELSE "leave_change", a, {w},
             <<staff(w)>> \o DayJobs({old}) \o DayJobs({new})) :
        a \in Office, old \in LeaveJobs, new \in LeaveJobs}

\* submit_day: the breaks of a day it settles, then a row at a time.
Submissions(w) ==
    {Request("submit_day", a, {w}, <<staff(w), day(w)>> \o DayJobs({i}) \o DayJobs({j})) :
        a \in Actors(w), i \in WorkJobs \cup {BreakJob}, j \in WorkJobs}

\* clock_in: the row first, and then each break as an entry.
ClockIns(w) == {Request("clock_in", w, {w}, <<day(w), staff(w)>> \o DayJobs({BreakJob}))}

\* create_office_closure: one person after another, by name.
Closures ==
    {Request("closure", a, People,
             <<staff(people[1])>> \o DayJobs({l}) \o Each(staff, Tail(people))) :
        a \in Office, l \in LeaveJobs, people \in EveryOrder(People)}

\* approve_cost_line of an entry: no lock on the person, whom its event names.
LineApprovals(w) ==
    {Request("approve_cost_line", a, {w}, lock_costing_jobs({j}) \o <<foreign_key(w)>>) :
        a \in Office, j \in Jobs \ LeaveJobs}

\* update_job and the other writes of one job that record an event.
JobWrites == {Request("job", a, {}, <<job(j)>>) : a \in Office, j \in Jobs}

Handlers ==
    Sweeps \cup Closures \cup JobWrites
        \cup UNION {EntryWrites(w) \cup Approvals(w) \cup DayTimes(w) \cup Leaves(w)
                        \cup Submissions(w) \cup ClockIns(w) \cup LineApprovals(w) : w \in People}

-----------------------------------------------------------------------------

\* r waits for q, which holds the row r needs next.
Waits(r, q) ==
    /\ q # r /\ request[r].todo # <<>>
    /\ LET next == Head(request[r].todo) IN
        \E l \in request[q].held : l.row = next.row /\ ~(l.shared /\ next.shared)

\* Requests that wait for each other in a circle.
Circle(C) == C # {} /\ \A r \in C : \E q \in C : Waits(r, q)

LocksInit == request = [r \in Requests |-> NoRequest]

Begin(r) ==
    /\ request[r] = NoRequest
    /\ \E h \in Handlers : request' = [request EXCEPT ![r] = h]

\* The lock that is next, once nobody holds it. Asking again for a lock that is held
\* does not wait.
Taken(call) == [call EXCEPT !.todo = Tail(call.todo), !.held = @ \cup {Head(call.todo)}]

Take(r) ==
    /\ request[r].todo # <<>>
    /\ ~\E q \in Requests : Waits(r, q)
    /\ request' = [request EXCEPT ![r] = Taken(@)]

Commit(r) ==
    /\ request[r] # NoRequest /\ request[r].todo = <<>>
    /\ request' = [request EXCEPT ![r] = NoRequest]

\* PostgreSQL ends a circle by failing a request in it.
Detect(r) ==
    /\ \E C \in SUBSET Requests : r \in C /\ Circle(C)
    /\ request' = [request EXCEPT ![r] = NoRequest]

LocksNext == \E r \in Requests : Begin(r) \/ Take(r) \/ Commit(r) \/ Detect(r)

LocksSpec == LocksInit /\ [][LocksNext]_lockVars

-----------------------------------------------------------------------------
(* Properties *)

\* The requests that take a person, then the jobs: not approve_cost_line, submit_day,
\* clock_in, a closure, a leave that is changed or a write of one job. An office person
\* with a day of his own is named by a foreign key after the jobs, unless it is his own
\* day he writes to.
Orderly(r) ==
    /\ request[r].kind \in {"entry", "approve_day", "sweep", "times", "leave"}
    /\ request[r].actor \in People => request[r].people = {request[r].actor}

\* "The person first, then the jobs: the order the sweep and every write to his day
\* take them in, so none of them waits on another in a circle" (approve_day): so it is
\* for the requests that keep to that order, whatever else runs beside them.
NoCircle == \A C \in SUBSET Requests : Circle(C) => \E r \in C : ~Orderly(r)

\* The same of every request. Untrue: approve_cost_line takes the job of an entry
\* without the person, whom its event names when it commits; submit_day locks jobs a
\* row at a time, clock_in the row before the person, a closure people after jobs, a
\* change of a leave jobs after jobs; an office person with a day of his own who writes
\* to another's day or to a job is named after its jobs.
NoCircleAtAll == \A C \in SUBSET Requests : ~Circle(C)

\* "Every write to a person's day takes his lock first" (_sweep). Untrue of
\* approve_cost_line and of the second person of a closure.
PersonFirst ==
    \A r \in Requests :
        (\E l \in request[r].held : l.row[1] = "job")
            => \A p \in request[r].people : staff(p) \in request[r].held

=============================================================================

----------------------------- MODULE JobRecord -----------------------------
(***************************************************************************)
(* One job, the history of its changes and everybody who writes to it:     *)
(* browser tabs, which send deltas, undo them, accept the quote and add    *)
(* notes under the job's row lock and an ETag; and the kanban board, the   *)
(* quote's revision and the nightly tasks, which save a job they read      *)
(* before. Job.save compares what it saves with the row as it finds it,    *)
(* records the difference as one event, and keeps completed_at in step.    *)
(***************************************************************************)
EXTENDS Naturals, Sequences, FiniteSets

CONSTANTS
    Tabs,       \* browser tabs on the job
    Writers,    \* requests and tasks that save the job without its lock
    Texts,      \* values of the free text
    Statuses,   \* statuses a tab or the board moves the job to
    MaxVersion  \* bound on updated_at

ASSUME RecordAssumption ==
    /\ Texts # {} /\ MaxVersion \in Nat \ {0}
    /\ Statuses \subseteq {"draft", "approved", "recently_completed", "archived"}

VARIABLES
    job,        \* the row: its fields and whether completed_at is set
    version,    \* updated_at, which the ETag names
    events,     \* the JobEvents that record a change, oldest first
    rejections, \* JobDeltaRejections: the version a mismatch was let through at, or that one was refused
    tabs,       \* [Tabs -> the ETag in the store, the baseline, and the request under way]
    writers,    \* [Writers -> what an unlocked save read and found when it compared]
    overtaken,  \* which of these reads some save was overtaken after, so far
    softFail    \* CompanyDefaults.job_delta_soft_fail

vars == <<job, version, events, rejections, tabs, writers, overtaken, softFail>>

Tracked == {"status", "text", "accepted", "paid"}
Row == Tracked \cup {"completed"}
Finished == {"recently_completed", "archived"}

NoFields == [f \in {} |-> FALSE]
NoDelta == [tag |-> 0, undo |-> 0, before |-> NoFields, after |-> NoFields]
NoWriter == [kind |-> "none"]

Init ==
    /\ \E s \in {"draft", "recently_completed"}, t \in Texts :
        job = [f \in Row |->
                CASE f = "status" -> s
                  [] f = "text" -> t
                  [] f = "completed" -> s \in Finished
                  [] OTHER -> FALSE]
    /\ version = 1 /\ events = <<>> /\ rejections = {}
    /\ tabs = [u \in Tabs |-> [tag |-> version, seen |-> job, doing |-> "nothing", held |-> 0, delta |-> NoDelta]]
    /\ writers = [w \in Writers |-> NoWriter]
    /\ overtaken = {} /\ softFail \in BOOLEAN

-----------------------------------------------------------------------------
(* Job.save *)

\* _detect_field_changes: of the fields that are saved.
Changed(original, new, fields) == {f \in Tracked \cap fields : original[f] # new[f]}

\* Fault: completed_at stays when a job is taken up again.
SideEffect_KeptWhenReopened(new, changed) ==
    "status" \in changed /\ new["status"] \in Finished /\ ~new["completed"]

\* _apply_change_side_effects: completed_at follows the status, as the saved object has it.
SideEffect(new, changed) ==
    "status" \in changed /\ (new["status"] \in Finished) # new["completed"]

\* The row after a save of those fields.
Written(original, new, fields) ==
    LET effect == SideEffect(new, Changed(original, new, fields)) IN
        [f \in Row |->
            IF f = "completed" /\ effect THEN ~new["completed"]
            ELSE IF f \in fields THEN new[f] ELSE job[f]]

\* A JobEvent: what made it, the delta it undoes, the fields the request is about,
\* the values its author gave as the ones before, and the fields that changed.
Event(kind, undo, own, said) ==
    [kind |-> kind, at |-> version, undo |-> undo, own |-> own, said |-> said, before |-> NoFields, after |-> NoFields]

\* _record_change_event, if anything changed.
Recorded(original, new, fields, event) ==
    LET changed == Changed(original, new, fields) IN
        IF changed = {} THEN events
        ELSE Append(events, [event EXCEPT !.before = [f \in changed |-> original[f]],
                                          !.after = [f \in changed |-> new[f]]])

save(original, new, fields, event) ==
    /\ version < MaxVersion
    /\ job' = Written(original, new, fields)
    /\ events' = Recorded(original, new, fields, event)
    /\ version' = version + 1

\* A write that leaves the fields alone (touch_updated_at).
Touch == version < MaxVersion /\ version' = version + 1 /\ UNCHANGED <<job, events>>

With(row, changes) == [f \in Row |-> IF f \in DOMAIN changes THEN changes[f] ELSE row[f]]

-----------------------------------------------------------------------------
(* Deltas: the row is locked, so the save is compared with what was validated *)

Values(f) == CASE f = "text" -> Texts [] f = "status" -> Statuses [] OTHER -> BOOLEAN

Mismatched(delta) == \E f \in DOMAIN delta.before : job[f] # delta.before[f]

\* Fault: the precondition alone decides.
_validate_delta_payload_Unchecked(delta) == TRUE

\* _validate_delta_payload, unless the installation lets mismatches through.
_validate_delta_payload(delta) == softFail \/ ~Mismatched(delta)

SoftFailed(delta) == softFail /\ Mismatched(delta)

Applies(delta) == _validate_delta_payload(delta) /\ delta.tag = version

\* update_job where it applies, and what it records of a mismatch.
Apply(delta) ==
    /\ Applies(delta)
    /\ save(job, With(job, delta.after), Row,
            Event("delta", delta.undo, DOMAIN delta.after, delta.before))
    /\ rejections' = IF SoftFailed(delta) THEN rejections \cup {<<"soft-fail", version>>}
                     ELSE rejections

\* update_job where it does not: a mismatch is recorded, the ETag's is not.
Refuse(delta) ==
    /\ ~Applies(delta)
    /\ rejections' = IF Mismatched(delta) THEN rejections \cup {<<"refused">>}
                     ELSE rejections
    /\ UNCHANGED <<job, version, events>>

Delta(u, fields, to) ==
    [tag |-> tabs[u].tag, undo |-> 0, before |-> [f \in fields |-> tabs[u].seen[f]],
     after |-> [f \in fields |-> to[f]]]

\* Fault: an undo that looks at the row only when it is sent.
Undoable_Any(i) == TRUE

\* The fields of the change still have the values it gave them.
Undoable(i) == \A f \in DOMAIN events[i].after : job[f] = events[i].after[f]

-----------------------------------------------------------------------------
(* A tab *)

Tab(u, tab) == tabs' = [tabs EXCEPT ![u] = tab]
OnlyTab(u, tab) == Tab(u, tab) /\ UNCHANGED <<job, version, events, rejections, writers, overtaken, softFail>>
OthersStay == UNCHANGED <<writers, overtaken, softFail>>

\* get_full_job reads the ETag first and the row in a later statement.
get_full_job(u) ==
    /\ tabs[u].doing = "nothing"
    /\ OnlyTab(u, [tabs[u] EXCEPT !.doing = "loading", !.held = version])

JobArrives(u) ==
    /\ tabs[u].doing = "loading"
    /\ OnlyTab(u, [tabs[u] EXCEPT !.doing = "nothing", !.tag = tabs[u].held, !.held = 0, !.seen = job])

\* A PATCH of what differs from the baseline. Its answer may be lost.
update_job(u) ==
    /\ tabs[u].doing = "nothing"
    /\ \E s \in Statuses \cup {tabs[u].seen["status"]}, t \in Texts :
        LET edited == [f \in {"status", "text"} |-> IF f = "status" THEN s ELSE t]
            fields == {f \in DOMAIN edited : edited[f] # tabs[u].seen[f]}
            delta == Delta(u, fields, edited) IN
            /\ fields # {}
            /\ \/ Apply(delta) /\ Tab(u, [tabs[u] EXCEPT !.tag = version', !.seen = With(@, delta.after)])
               \/ (Apply(delta) \/ Refuse(delta)) /\ UNCHANGED tabs
    /\ OthersStay

\* undo_job_change reads the row without a lock, and refuses if it has moved on.
undo_job_change(u) ==
    /\ tabs[u].doing = "nothing"
    /\ \E i \in DOMAIN events :
        LET fields == DOMAIN events[i].after IN
            /\ events[i].kind = "delta"
            /\ IF Undoable(i)
               THEN OnlyTab(u, [tabs[u] EXCEPT !.doing = "undoing",
                        !.delta = [tag |-> tabs[u].tag, undo |-> i, after |-> events[i].before,
                                   before |-> [f \in fields |-> job[f]]]])
               ELSE /\ rejections' = rejections \cup {<<"undo">>}
                    /\ UNCHANGED <<job, version, events, tabs>> /\ OthersStay

\* and then sends the reverse through update_job.
UndoApplies(u) ==
    /\ tabs[u].doing = "undoing"
    /\ \/ Apply(tabs[u].delta) /\ Tab(u, [tabs[u] EXCEPT !.doing = "nothing", !.delta = NoDelta, !.tag = version'])
       \/ Refuse(tabs[u].delta) /\ Tab(u, [tabs[u] EXCEPT !.doing = "nothing", !.delta = NoDelta])
    /\ OthersStay

add_job_event(u) ==
    /\ tabs[u].doing = "nothing" /\ tabs[u].tag = version
    /\ Touch /\ Tab(u, [tabs[u] EXCEPT !.doing = "answering"])
    /\ UNCHANGED rejections /\ OthersStay

accept_quote(u) ==
    /\ tabs[u].doing = "nothing" /\ tabs[u].tag = version
    /\ ~job["accepted"] /\ job["status"] = "draft"
    /\ LET accepted == [f \in {"status", "accepted"} |-> IF f = "status" THEN "approved" ELSE TRUE] IN
        save(job, With(job, accepted), Row, Event("quote", 0, DOMAIN accepted, NoFields))
    /\ Tab(u, [tabs[u] EXCEPT !.doing = "answering"])
    /\ UNCHANGED rejections /\ OthersStay

\* _set_job_etag: the answers of these two carry the ETag as it is by then, and no row.
Answer(u) ==
    /\ tabs[u].doing = "answering"
    /\ OnlyTab(u, [tabs[u] EXCEPT !.doing = "nothing", !.tag = version])

-----------------------------------------------------------------------------
(* Saves of a job that was read without its lock: the row is read, changed in *)
(* memory, compared with the row as it is then, and written.                   *)

Writer(w, writer) == writers' = [writers EXCEPT ![w] = writer]

Reading(w, kind, changes, fields) ==
    /\ writers[w] = NoWriter
    /\ Writer(w, [kind |-> kind, own |-> DOMAIN changes, fields |-> fields, seen |-> job,
                   new |-> With(job, changes), original |-> NoFields, found |-> NoFields])
    /\ UNCHANGED <<job, version, events, rejections, tabs, overtaken, softFail>>

Set(f, value) == [g \in {f} |-> value]

\* Fault: the board saves the whole row.
MovedFields_All == Row

MovedFields == {"status"}

\* update_job_status and reorder_job of the board: update_fields names the status.
update_job_status(w) == \E s \in Statuses : Reading(w, "moved", Set("status", s), MovedFields)

\* update_paid_flags
update_paid_flags(w) ==
    /\ job["status"] = "recently_completed" /\ ~job["paid"]
    /\ Reading(w, "paid", Set("paid", TRUE), Row)

auto_archive_completed_jobs(w) ==
    /\ job["status"] = "recently_completed" /\ job["paid"]
    /\ Reading(w, "archived", Set("status", "archived"), Row)

\* create_quote_revision and copy_estimate_to_quote: the view has read the job.
create_quote_revision(w) == Reading(w, "revised", Set("accepted", FALSE), Row)

\* Fault: the object is compared with itself as it was read.
Original_AsRead(w) == writers[w].seen

Original(w) == job

\* Job.save reads the row again.
Compare(w) ==
    /\ writers[w].kind \in {"moved", "paid", "archived"} /\ writers[w].original = NoFields
    /\ Writer(w, [writers[w] EXCEPT !.original = Original(w), !.found = job])
    /\ UNCHANGED <<job, version, events, rejections, tabs, overtaken, softFail>>

\* What the write of w undoes without having seen it.
Overtaken(w, found) ==
    LET fields == writers[w].fields IN
        (IF \E f \in fields \cup {"completed"} : writers[w].seen[f] # job[f] THEN {"read"} ELSE {})
            \cup (IF \E f \in fields : found[f] # job[f] THEN {"compared"} ELSE {})

\* A quote is revised under the lock of the job, taken after the job was read.
Write(w) ==
    /\ \/ writers[w].kind = "revised"
       \/ writers[w].kind \in {"moved", "paid", "archived"} /\ writers[w].original # NoFields
    /\ LET revised == writers[w].kind = "revised"
           original == IF revised THEN Original(w) ELSE writers[w].original
           found == IF revised THEN job ELSE writers[w].found IN
        /\ save(original, writers[w].new, writers[w].fields,
                Event(writers[w].kind, 0, writers[w].own, NoFields))
        /\ overtaken' = overtaken \cup Overtaken(w, found)
    /\ Writer(w, NoWriter)
    /\ UNCHANGED <<rejections, tabs, softFail>>

-----------------------------------------------------------------------------

Next ==
    \/ \E u \in Tabs :
        \/ get_full_job(u) \/ JobArrives(u) \/ update_job(u) \/ undo_job_change(u)
        \/ UndoApplies(u) \/ add_job_event(u) \/ accept_quote(u) \/ Answer(u)
    \/ \E w \in Writers :
        \/ update_job_status(w) \/ update_paid_flags(w) \/ auto_archive_completed_jobs(w)
        \/ create_quote_revision(w) \/ Compare(w) \/ Write(w)

Spec == Init /\ [][Next]_vars

-----------------------------------------------------------------------------
(* Properties *)

Of(f) == {i \in DOMAIN events : f \in DOMAIN events[i].after}
LastBefore(f, i) == CHOOSE j \in Of(f) : j < i /\ \A k \in Of(f) : k < i => k <= j

\* The history explains the job: each change of a field starts from the value the one
\* before left, and the last leaves the value the job has, until a save writes over
\* what came after its comparison.
HistoryExplainsTheJob ==
    "compared" \notin overtaken =>
        \A f \in Tracked :
            /\ \A i \in Of(f) : \A j \in Of(f) :
                j < i /\ LastBefore(f, i) = j => events[i].before[f] = events[j].after[f]
            /\ \A i \in Of(f) : (\A j \in Of(f) : j <= i) => events[i].after[f] = job[f]

\* completed_at is set while the job is finished, until a save works on an overtaken
\* reading or comparison.
CompletedWhileFinished ==
    overtaken = {} => job["completed"] = (job["status"] \in Finished)

\* A delta, an undo, an acceptance and a move on the board change the fields they are
\* about, whatever runs beside them; a save of the whole row does so only until some
\* save was overtaken.
OwnFieldsOnly ==
    \A i \in DOMAIN events :
        \/ DOMAIN events[i].after \subseteq events[i].own
        \/ events[i].kind \in {"paid", "archived", "revised"} /\ overtaken # {}

\* Where mismatches are refused, a delta only ever replaces the values its author had
\* before him, though the ETag he sends may be newer than what he sees.
AppliedAsSeen ==
    ~softFail => \A i \in DOMAIN events : events[i].kind = "delta" =>
        \A f \in DOMAIN events[i].before : events[i].said[f] = events[i].before[f]

\* Where they are not, what was replaced unseen is on record.
UnseenIsRecorded ==
    \A i \in DOMAIN events :
        (events[i].kind = "delta" /\ \E f \in DOMAIN events[i].before : events[i].said[f] # events[i].before[f])
            => <<"soft-fail", events[i].at>> \in rejections

\* An undo puts back exactly what the change replaced, and takes away nothing that
\* came after it, mismatches refused or not.
UndoPutsBack ==
    \A i \in DOMAIN events : events[i].undo # 0 =>
        LET undone == events[events[i].undo] IN
            events[i].before = undone.after /\ events[i].after = undone.before

\* A save keeps what others wrote since it read the job. Untrue of the tasks and of a
\* quote's revision: they write every field back as they read it.
NothingWrittenOver ==
    \A i \in DOMAIN events : DOMAIN events[i].after \subseteq events[i].own

=============================================================================

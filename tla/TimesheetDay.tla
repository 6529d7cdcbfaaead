---------------------------- MODULE TimesheetDay ----------------------------
(***************************************************************************)
(* One person's day as he and the office write it: clock times             *)
(* (attendance.py), entries, breaks and General work                       *)
(* (workshop_timesheet_service.py), the day he sends (day_submission.py),  *)
(* approval and the sweep (approval.py) and leave (leave_service.py).      *)
(*                                                                         *)
(* The day is a row of slots of one hour. An entry keeps its hours and the *)
(* slots it is drawn on, none when it would run past midnight. Every write *)
(* holds the person's lock and is one step; DayLocks has the locks. Lines  *)
(* come from his other days and go there. Rates, overtime, the audit trail *)
(* and jobs other than Break and General work are left out.                *)
(***************************************************************************)
EXTENDS Integers, FiniteSets

CONSTANTS
    Last,     \* the last slot before midnight
    Finish,   \* the last slot of the company's standard day, which starts with slot 1
    Lunch,    \* the slot of the standard break
    Times,    \* bound: the slots a clock time or a start given by hand may name
    Pauses,   \* bound: the slots a break may be put in
    Entries,  \* lines somebody wrote, those not yet written included
    Made,     \* a General work line that the refill made
    Hours     \* lengths of an entry

ASSUME DayAssumption ==
    /\ {Last, Finish, Lunch} \subseteq Nat \ {0}
    /\ Lunch < Finish /\ Finish < Last
    /\ Lunch \in Pauses /\ Pauses \cup Times \subseteq 1 .. Last
    /\ Hours \subseteq Nat \ {0}
    /\ Made \notin Entries

VARIABLES
    now,      \* slots gone by; beyond Last the day is over
    row,      \* AttendanceDay
    entries,  \* [Entries -> time lines on jobs]
    breaks,   \* [Slot -> the time line on the Break job there]
    rest,     \* the time lines that are General work filling a day
    leave     \* hours of the leave line

time == <<row, entries, breaks, rest, leave>>
vars == <<now, time>>

Slot == 1 .. Last
Open == 0

NoRow == [in |-> 0, out |-> Open, sent |-> FALSE, fill |-> FALSE, breaksGenerated |-> FALSE, assumed |-> "nothing"]
Row == [in : 0 .. Last, out : 0 .. Last, sent : BOOLEAN, fill : BOOLEAN, breaksGenerated : BOOLEAN,
        assumed : {"nothing", "finish", "day"}]  \* what the defaults stood in for when it was settled
\* A line keeps in meta that a refill once made it, whatever job it is on since.
NoEntry == [hours |-> 0, on |-> {}, approved |-> FALSE, swept |-> FALSE]
Entry == [hours : Nat, on : SUBSET Slot, approved : BOOLEAN, swept : BOOLEAN]
NoBreak == [there |-> FALSE, untouched |-> FALSE, approved |-> FALSE]
Break == [there : BOOLEAN, untouched : BOOLEAN, approved : BOOLEAN]

\* Nobody has written anything on the day yet.
Init ==
    /\ now = 0 /\ row = NoRow /\ rest = {} /\ leave = 0
    /\ entries = [e \in Entries |-> NoEntry]
    /\ breaks = [s \in Slot |-> NoBreak]

-----------------------------------------------------------------------------
(* The day as it is drawn *)

GoneBy == now > Last

Clocked(r) == r.in # 0

BreakLines(bs) == {s \in Slot : bs[s].there}

\* day_breaks: the standard break is planned on a day that has no times yet.
BreaksOf(r, bs) == BreakLines(bs) \cup (IF Clocked(r) THEN {} ELSE {Lunch})

\* day_span: the slots he was here for, none while that is not known.
Span(r) ==
    CASE ~Clocked(r) -> 1 .. Finish
      [] r.out # Open -> r.in .. r.out
      [] GoneBy /\ r.in <= Finish -> r.in .. Finish
      [] OTHER -> {}

Written(es) == {e \in Entries : es[e].hours > 0}

Drawn(es) == UNION {es[e].on : e \in Entries}

Up(S, s) == {t \in S : t <= s}

\* finish_in_the_day: the slots work of these hours takes from a start on, stepping
\* over the breaks; none when it would run past midnight.
Laid(start, hours, bs) ==
    LET free == (start .. Last) \ bs IN
    IF Cardinality(free) < hours THEN {}
    ELSE LET end == CHOOSE s \in free : Cardinality(Up(free, s)) = hours
             begin == CHOOSE s \in free : Cardinality(Up(free, s)) = 1
         IN begin .. end

\* default_entry_start
NextStart(r, es) ==
    CASE Drawn(es) # {} -> (CHOOSE s \in Drawn(es) : \A t \in Drawn(es) : t <= s) + 1
      [] Drawn(es) = {} /\ Clocked(r) -> r.in
      [] OTHER -> 1

Loose(es) == {e \in Written(es) : es[e].on = {}}

\* How many of the hours that are drawn nowhere there are, at most Last of them.
LooseHours(es) ==
    Cardinality(UNION {{e} \X (1 .. es[e].hours) : e \in Loose(es)})

\* unallocated_windows: what of the span holds no entry and no break. Entries without
\* times take what is free first. Leave takes none of it.
Gaps(r, es, bs) ==
    LET free == Span(r) \ (Drawn(es) \cup BreaksOf(r, bs))
    IN {s \in free : Cardinality(Up(free, s)) > LooseHours(es)}

\* The stretches a set of slots is made of.
Stretches(S) ==
    {w \in {a .. b : a, b \in S} :
        w # {} /\ w \subseteq S /\ \A s \in S \ w : s + 1 \notin w /\ s - 1 \notin w}

Filled(lines) == UNION {l.on : l \in lines}

\* is_general_work_fill: a refill made the line, and it is on the General work job. One
\* that was on another job, or on another day, is here under its own name.
Fill(line, name) == [line |-> name, hours |-> line.hours, on |-> line.on, approved |-> FALSE]

Making(S) == {[line |-> Made, hours |-> Cardinality(w), on |-> w, approved |-> FALSE] : w \in Stretches(S)}

\* No two lines lie on one slot, and every line lies somewhere.
LinesApart(lines) == \A l, m \in lines : l # m => l.on \cap m.on = {}
AllDrawn(lines) == \A l \in lines : l.on # {}

\* Fault: General work is only ever added.
Refilled_Grown(r, es, bs, lines) ==
    IF r.fill THEN lines \cup Making(Gaps(r, es, bs) \ Filled(lines)) ELSE lines

\* Fault: General work is made again at every change.
Refilled_Always(r, es, bs, lines) == IF r.fill THEN Making(Gaps(r, es, bs)) ELSE lines

\* refill_general_work: on a filled day the General work is made again, waiting, when
\* the gaps are no longer what it fills, or it fills them twice.
Refilled(r, es, bs, lines) ==
    IF ~r.fill \/ (Filled(lines) = Gaps(r, es, bs) /\ LinesApart(lines) /\ AllDrawn(lines))
    THEN lines
    ELSE Making(Gaps(r, es, bs))

-----------------------------------------------------------------------------
(* Writing the day *)

Refill(r, es, bs) == rest' = Refilled(r, es, bs, rest)

\* generate_default_breaks, once in a day's life, and drop_breaks_after_finish.
Generated(r, bs) ==
    IF r.breaksGenerated \/ Lunch < r.in \/ (r.out # Open /\ Lunch > r.out) \/ bs[Lunch].there
    THEN bs ELSE [bs EXCEPT ![Lunch] = [there |-> TRUE, untouched |-> TRUE, approved |-> FALSE]]

Dropped(r, bs) ==
    [s \in Slot |-> IF r.out # Open /\ s > r.out /\ bs[s].untouched THEN NoBreak ELSE bs[s]]

WithBreaks(r) == [r EXCEPT !.breaksGenerated = TRUE]

\* The day has these times from now on.
TimesAre(r) ==
    LET bs == Dropped(r, Generated(r, breaks)) IN
    /\ row' = WithBreaks(r) /\ breaks' = bs
    /\ Refill(r, entries, bs)

clock_in ==
    /\ now < Last /\ ~Clocked(row)
    /\ LET r == [NoRow EXCEPT !.in = now + 1] IN
        row' = WithBreaks(r) /\ breaks' = Generated(r, breaks)
    /\ UNCHANGED <<now, entries, rest, leave>>

\* One who forgot to clock in started at the standard start.
clock_out ==
    /\ now \in Slot /\ row.out = Open
    /\ Clocked(row) => row.in <= now
    /\ TimesAre([row EXCEPT !.in = IF Clocked(row) THEN @ ELSE 1, !.out = now])
    /\ UNCHANGED <<now, entries, leave>>

\* Times set by hand; without a finish the day is open again. What was sent is no
\* longer what is recorded.
set_clock_times ==
    /\ \E in \in Times, out \in Times \cup {Open} :
        /\ out # Open => in <= out
        /\ TimesAre([row EXCEPT !.in = in, !.out = out, !.sent = FALSE,
                                !.assumed = "nothing"])
    /\ UNCHANGED <<now, entries, leave>>

\* settle_day: whether the day has both its times, by default if need be, and the row
\* and the breaks then.
Settles == Span(row) # {} /\ (row.out = Open => now >= Finish)

SettledRow ==
    IF row.out # Open THEN row
    ELSE [row EXCEPT !.in = IF Clocked(row) THEN @ ELSE 1, !.out = Finish, !.breaksGenerated = TRUE,
                     !.assumed = IF Clocked(row) THEN "finish" ELSE "day"]

SettledBreaks ==
    IF row.out # Open THEN breaks
    ELSE Dropped(SettledRow, IF Clocked(row) THEN breaks ELSE Generated([SettledRow EXCEPT !.breaksGenerated = FALSE], breaks))

-----------------------------------------------------------------------------
(* Entries, breaks and General work *)

\* The day's lines are these, and what the refill makes of them.
LinesAre(es, lines) ==
    /\ entries' = es /\ rest' = Refilled(row, es, breaks, lines)
    /\ UNCHANGED <<now, row, breaks, leave>>

EntriesAre(es) == LinesAre(es, rest)

\* Lines that are nowhere on the day.
Free == Entries \ (Written(entries) \cup {l.line : l \in rest})

\* Where a line is drawn that starts there.
Drawing(start, hours) == Laid(start, hours, BreaksOf(row, breaks))

\* create_entry: at a start he gives, or after his latest entry.
create_entry ==
    \E e \in Free, h \in Hours, start \in Times \cup {NextStart(row, entries)} :
        EntriesAre([entries EXCEPT ![e] =
            [hours |-> h, on |-> Drawing(start, h), approved |-> FALSE, swept |-> FALSE]])

\* Fault: a change leaves the approval on.
a_change_takes_the_approval_off_Kept(line) == line.approved

a_change_takes_the_approval_off(line) == FALSE

\* An entry after an edit: as it was, or drawn again from its start or a new one. What
\* is drawn nowhere stays so without a start.
Changed(line) == [line EXCEPT !.approved = a_change_takes_the_approval_off(line)]
Starts(line) == Times \cup {s \in line.on : \A t \in line.on : s <= t}

Longer(line, h) == [Changed(line) EXCEPT !.hours = h]
Redrawn(line, h, start) == [Longer(line, h) EXCEPT !.on = Drawing(start, h)]

Edits(line) ==
    {Changed(line)} \cup {Redrawn(line, h, s) : h \in Hours, s \in Starts(line)}
                    \cup {Longer(line, h) : h \in {x \in Hours : line.on = {}}}

\* update_entry, of an entry.
update_entry ==
    \E e \in Written(entries) : \E line \in Edits(entries[e]) : EntriesAre([entries EXCEPT ![e] = line])

\* update_entry, of an entry that a refill once made: put on the General work job it is
\* General work again.
BackToGeneralWork ==
    \E e \in Written(entries) : \E line \in Edits(entries[e]) :
        line.swept /\ LinesAre([entries EXCEPT ![e] = NoEntry], rest \cup {Fill(line, e)})

\* update_entry, of a General work line: its hours and its place are refused. Put on a
\* job it is an entry.
UpdateFill ==
    \E l \in rest :
        \/ LinesAre(entries, (rest \ {l}) \cup {Changed(l)})
        \/ \E e \in IF l.line = Made THEN Free ELSE {l.line} :
            LinesAre([entries EXCEPT ![e] =
                [hours |-> l.hours, on |-> l.on, approved |-> FALSE, swept |-> TRUE]], rest \ {l})

\* update_entry, of a line that goes to another day.
GoesToAnotherDay ==
    \/ \E e \in Written(entries) : EntriesAre([entries EXCEPT ![e] = NoEntry])
    \/ \E l \in rest : LinesAre(entries, rest \ {l})

\* update_entry, of a line of another day, its General work included, that comes to this
\* one: drawn again from where it starts, if it was drawn.
ComesFromAnotherDay ==
    \E e \in Free, h \in Hours, start \in Times, drawn, swept \in BOOLEAN :
        LET line == [hours |-> h, on |-> IF drawn THEN Drawing(start, h) ELSE {},
                     approved |-> FALSE, swept |-> swept]
        IN \/ EntriesAre([entries EXCEPT ![e] = line])
           \/ swept /\ LinesAre(entries, rest \cup {Fill(line, e)})

delete_entry ==
    \E e \in Written(entries) : EntriesAre([entries EXCEPT ![e] = NoEntry])

\* delete_entry of a General work line turns the fill off.
GeneralWorkOff ==
    /\ rest # {}
    /\ row' = [row EXCEPT !.fill = FALSE] /\ rest' = {}
    /\ UNCHANGED <<now, entries, breaks, leave>>

\* Fault: General work is not made again round a changed break.
BreaksAre_Alone(bs) == breaks' = bs /\ UNCHANGED <<now, row, entries, rest, leave>>

\* A break is a line, and is written as one.
BreaksAre(bs) == breaks' = bs /\ Refill(row, entries, bs) /\ UNCHANGED <<now, row, entries, leave>>

add_break ==
    \E s \in Pauses : ~breaks[s].there /\
        BreaksAre([breaks EXCEPT ![s] = [there |-> TRUE, untouched |-> FALSE, approved |-> FALSE]])

change_break ==
    \E s \in BreakLines(breaks), t \in Pauses : (t = s \/ ~breaks[t].there) /\
        BreaksAre([breaks EXCEPT ![s] = NoBreak, ![t] =
            [there |-> TRUE, untouched |-> FALSE, approved |-> a_change_takes_the_approval_off(breaks[s])]])

remove_break == \E s \in BreakLines(breaks) : BreaksAre([breaks EXCEPT ![s] = NoBreak])

fill_with_general_work ==
    /\ Settles
    /\ LET r == [SettledRow EXCEPT !.fill = TRUE] IN
        /\ row' = r /\ breaks' = SettledBreaks
        /\ Refill(r, entries, SettledBreaks)
    /\ UNCHANGED <<now, entries, leave>>

\* What the entries are once a row of hours is added after the latest of them.
RowAdded(es) ==
    {[es EXCEPT ![e] = [hours |-> h, approved |-> FALSE, swept |-> FALSE,
            on |-> Laid(NextStart(SettledRow, es), h, BreakLines(SettledBreaks))]] :
        e \in Free \ Written(es), h \in Hours}

\* submit_day: the rows he filled in, none, one or two, become entries one after another.
submit_day ==
    /\ Settles
    /\ \E es \in {entries} \cup RowAdded(entries) \cup UNION {RowAdded(x) : x \in RowAdded(entries)} :
        /\ entries' = es
        /\ rest' = IF es = entries /\ SettledBreaks = breaks THEN rest
                   ELSE Refilled(SettledRow, es, SettledBreaks, rest)
    /\ row' = [SettledRow EXCEPT !.sent = TRUE]
    /\ breaks' = SettledBreaks
    /\ UNCHANGED <<now, leave>>

-----------------------------------------------------------------------------
(* The office *)

ApprovedAll(es) == [e \in Entries |-> [es[e] EXCEPT !.approved = e \in Written(es)]]
ApprovedBreaks(bs) == [s \in Slot |-> [bs[s] EXCEPT !.approved = bs[s].there]]
ApprovedRest(lines) == {[l EXCEPT !.approved = TRUE] : l \in lines}

\* approve_day: whatever is waiting, whoever wrote it and when.
approve_day ==
    /\ entries' = ApprovedAll(entries) /\ breaks' = ApprovedBreaks(breaks) /\ rest' = ApprovedRest(rest)
    /\ UNCHANGED <<now, row, leave>>

\* approve_cost_line
approve_cost_line ==
    \/ \E e \in Written(entries) : ~entries[e].approved
        /\ entries' = [entries EXCEPT ![e].approved = TRUE] /\ UNCHANGED <<now, row, breaks, rest, leave>>
    \/ \E l \in rest : ~l.approved
        /\ rest' = (rest \ {l}) \cup ApprovedRest({l}) /\ UNCHANGED <<now, row, breaks, entries, leave>>
    \/ \E s \in BreakLines(breaks) : ~breaks[s].approved
        /\ breaks' = [breaks EXCEPT ![s].approved = TRUE] /\ UNCHANGED <<now, row, entries, rest, leave>>

\* _assumed_standard: he did not clock, and is taken to have worked the standard day.
AssumedStandard == ~Clocked(row) /\ GoneBy /\ leave = 0

\* Fault: the day is approved before it is filled.
Swept_EarlyApproval(r, es, bs) ==
    /\ entries' = ApprovedAll(es) /\ breaks' = ApprovedBreaks(bs)
    /\ rest' = Refilled(r, es, bs, ApprovedRest(rest))

Swept(r, es, bs) ==
    /\ entries' = ApprovedAll(es) /\ breaks' = ApprovedBreaks(bs)
    /\ rest' = ApprovedRest(Refilled(r, es, bs, rest))

\* sweep_person
sweep ==
    /\ Clocked(row) \/ AssumedStandard
    /\ Span(row) # {}
    /\ Settles
    /\ LET r == [SettledRow EXCEPT !.fill = TRUE] IN
        /\ row' = [r EXCEPT !.sent = TRUE]
        /\ Swept(r, entries, SettledBreaks)
    /\ UNCHANGED <<now, leave>>

\* Hours of the standard day that are paid, and hours already paid on the day.
Scheduled == Finish - 1

Paid ==
    Cardinality(UNION {{e} \X (1 .. entries[e].hours) : e \in Entries})
        + Cardinality(UNION {{l} \X (1 .. l.hours) : l \in rest})

\* create_leave_request: what is left of the scheduled hours, refused when nothing is.
create_leave_request ==
    /\ leave = 0 /\ Scheduled > Paid
    /\ leave' = Scheduled - Paid
    /\ Refill(row, entries, breaks)
    /\ UNCHANGED <<now, row, entries, breaks>>

\* update_leave_request: taken off and booked again.
update_leave_request ==
    /\ leave > 0 /\ Scheduled > Paid
    /\ leave' = Scheduled - Paid
    /\ Refill(row, entries, breaks)
    /\ UNCHANGED <<now, row, entries, breaks>>

delete_leave_request ==
    /\ leave > 0
    /\ leave' = 0
    /\ Refill(row, entries, breaks)
    /\ UNCHANGED <<now, row, entries, breaks>>

-----------------------------------------------------------------------------

\* An hour passes; Last + 1 is any later day.
Tick == ~GoneBy /\ now' = now + 1 /\ UNCHANGED time

Next ==
    \/ clock_in \/ clock_out \/ set_clock_times
    \/ create_entry \/ update_entry \/ BackToGeneralWork \/ UpdateFill
    \/ delete_entry \/ GeneralWorkOff \/ GoesToAnotherDay \/ ComesFromAnotherDay
    \/ add_break \/ change_break \/ remove_break
    \/ fill_with_general_work \/ submit_day
    \/ approve_day \/ approve_cost_line \/ sweep
    \/ create_leave_request \/ update_leave_request \/ delete_leave_request
    \/ Tick

Spec == Init /\ [][Next]_vars

-----------------------------------------------------------------------------
(* Properties *)

\* Rows, lines and breaks keep their shape.
TypeOK ==
    /\ now \in 0 .. Last + 1 /\ row \in Row /\ leave \in 0 .. Scheduled
    /\ entries \in [Entries -> Entry] /\ breaks \in [Slot -> Break]
    /\ rest \subseteq [line : Entries \cup {Made}, hours : Nat, on : SUBSET Slot, approved : BOOLEAN]

\* On a filled day no hour is paid as General work and as an entry or a break, or as
\* General work twice; on any other day nothing is General work but a line that came back
\* to it or came from another day. Whatever order the day was written in
\* (refill_general_work, _general_work_off).
NothingPaidTwice ==
    /\ row.fill => /\ Filled(rest) \cap (Drawn(entries) \cup BreakLines(breaks)) = {}
                   /\ LinesApart(rest) /\ AllDrawn(rest)
    /\ ~row.fill => \A l \in rest : l.line # Made

\* "Any time that isn't on a job or break is general work", on every day: but a line that
\* came to a day that is not filled stays under what is entered over it.
NothingPaidTwiceAnywhere ==
    Filled(rest) \cap (Drawn(entries) \cup BreakLines(breaks)) = {} /\ LinesApart(rest)

\* "On a day filled with it, any time that isn't on a job or break is General work":
\* on a filled day whose times he gave, General work is exactly the gaps
\* (refill_general_work). Times that were assumed are SweptIsFinished's.
GeneralWorkIsTheRest ==
    row.fill /\ row.out # Open /\ row.assumed = "nothing" => Filled(rest) = Gaps(row, entries, breaks)

\* A change elsewhere on the day takes approvals off the General work only when the gaps
\* are no longer what they were (refill_general_work), or an entry becomes General work.
RestKeepsItsApproval ==
    [][ /\ row.fill /\ row'.fill /\ (entries' # entries \/ breaks' # breaks \/ leave' # leave)
        /\ \E l \in rest \ rest' : l.approved
        => Gaps(row', entries', breaks') # Gaps(row, entries, breaks) \/ BackToGeneralWork ]_vars

\* What stays approved is what the office checked: the hours and place of an approved
\* line change only with its approval off (update_entry).
ApprovedIsUnchanged ==
    [][ /\ \A e \in Entries : entries[e].approved /\ entries'[e].approved => entries'[e] = entries[e]
        /\ \A s \in Slot : breaks[s].approved /\ breaks'[s].approved => breaks'[s] = breaks[s] ]_vars

\* A sweep finishes a day for good: it is sent, nothing on it waits, and whatever he or
\* the defaults say of its times, the General work is the gaps (sweep_person).
SweptIsFinished ==
    [][ sweep => /\ row'.sent
                 /\ entries' = ApprovedAll(entries') /\ breaks' = ApprovedBreaks(breaks')
                 /\ rest' = ApprovedRest(rest')
                 /\ Filled(rest') = Gaps(row', entries', breaks') ]_vars

\* What approval.py says of a day nobody clocked: standard times are not written on a
\* day with leave, "so a second sweep would book his leave hours again". Sending or
\* filling such a day writes them, and what follows books them.
LeaveIsNotBookedAgain ==
    row.assumed = "day" /\ leave > 0 /\ rest # {} => Paid + leave <= Scheduled

=============================================================================

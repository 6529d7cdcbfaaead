--------------------------- MODULE JobRecordProofs ---------------------------
(***************************************************************************)
(* Proofs about what two kinds of record keep when several tabs edit them  *)
(* under ETag preconditions: a job with its audit trail (JobRecord), for   *)
(* any number of tabs, unlocked saves, texts and statuses, and histories   *)
(* of any length; and the counts of a stocktake screen (StocktakeEditor),  *)
(* for any number of counts, edits and revisions.                          *)
(***************************************************************************)
EXTENDS JobRecord, StocktakeEditor, WellFoundedInduction, TLAPS

-----------------------------------------------------------------------------
(* Shapes. What a field may hold is never looked at.                       *)

Val == Texts \cup Statuses \cup {"draft", "approved", "recently_completed", "archived"} \cup BOOLEAN
Rows == [Row -> Val]
Fields == UNION {[D -> Val] : D \in SUBSET Tracked}

Kinds == {"delta", "quote", "moved", "paid", "archived", "revised"}
Unlocked == {"moved", "paid", "archived", "revised"}

EventRec == [kind : Kinds, at : Nat, undo : Nat, own : SUBSET Row, said : Fields, before : Fields, after : Fields]
DeltaRec == [tag : Nat, undo : Nat, before : Fields, after : Fields]
TabRec == [tag : Nat, seen : Rows, doing : {"nothing", "loading", "undoing", "answering"}, held : Nat, delta : DeltaRec]
WriterRec == [kind : Unlocked, own : SUBSET Row, fields : SUBSET Row, seen : Rows, new : Rows,
              original : Rows \cup {NoFields}, found : Rows \cup {NoFields}]

Shape ==
    /\ job \in Rows /\ version \in Nat /\ events \in Seq(EventRec)
    /\ tabs \in [Tabs -> TabRec] /\ writers \in [Writers -> WriterRec \cup {NoWriter}]

LEMMA FieldsAre ==
    /\ \A x \in Fields : DOMAIN x \subseteq Tracked /\ x \in [DOMAIN x -> Val]
    /\ \A D \in SUBSET Tracked : [D -> Val] \subseteq Fields
BY DEF Fields

LEMMA NoFieldsIs == NoFields \in Fields /\ DOMAIN NoFields = {}
<1>1. NoFields \in [{} -> Val]
  BY DEF NoFields
<1> QED BY <1>1, FieldsAre DEF NoFields

LEMMA WithIs ==
    ASSUME NEW row \in Rows, NEW changes \in Fields
    PROVE  /\ With(row, changes) \in Rows
           /\ \A f \in Row : With(row, changes)[f] = IF f \in DOMAIN changes THEN changes[f] ELSE row[f]
<1>1. \A f \in DOMAIN changes : changes[f] \in Val
  BY FieldsAre
<1> QED BY <1>1 DEF With, Rows

-----------------------------------------------------------------------------
(* A save: the row it leaves and the event it records.                     *)

Entry(e, original, new, changed, kind, undo, own, said) ==
    /\ e.kind = kind /\ e.undo = undo /\ e.own = own /\ e.said = said
    /\ DOMAIN e.before = changed /\ DOMAIN e.after = changed
    /\ \A f \in changed : e.before[f] = original[f] /\ e.after[f] = new[f]

LEMMA SaveWrites ==
    ASSUME Shape, NEW original \in Rows, NEW new \in Rows, NEW fields \in SUBSET Row, NEW event,
           save(original, new, fields, event)
    PROVE  /\ version' = version + 1 /\ job' \in Rows
           /\ \A f \in Tracked : job'[f] = IF f \in fields THEN new[f] ELSE job[f]
<1>0. Tracked \subseteq Row /\ "completed" \notin Tracked
  BY DEF Tracked, Row
<1>1. version' = version + 1 /\ job' = Written(original, new, fields)
  BY DEF save
<1>2. job' \in Rows
  <2>1. (~new["completed"]) \in Val
    <3>1. (~new["completed"]) \in BOOLEAN
      BY Zenon
    <3>2. BOOLEAN \subseteq Val
      BY DEF Val
    <3> QED BY <3>1, <3>2, Zenon
  <2>2. \A f \in Row : new[f] \in Val /\ job[f] \in Val
    BY DEF Shape, Rows
  <2> HIDE DEF Val
  <2> QED BY <1>1, <2>1, <2>2 DEF Written, Rows
<1>3. \A f \in Tracked : job'[f] = IF f \in fields THEN new[f] ELSE job[f]
  BY <1>0, <1>1 DEF Written
<1> QED BY <1>1, <1>2, <1>3

LEMMA SaveRecords ==
    ASSUME Shape, NEW original \in Rows, NEW new \in Rows, NEW fields \in SUBSET Row,
           NEW kind \in Kinds, NEW undo \in Nat, NEW own \in SUBSET Row, NEW said \in Fields,
           NEW event, event = Event(kind, undo, own, said), save(original, new, fields, event),
           NEW changed, changed = Changed(original, new, fields)
    PROVE  \/ (\A f \in Tracked : f \notin changed) /\ events' = events
           \/ \E e \in EventRec :
                events' = Append(events, e) /\ Entry(e, original, new, changed, kind, undo, own, said)
<1>0. changed \subseteq Tracked \cap fields /\ Tracked \subseteq Row
  BY DEF Changed, Tracked, Row
<1>1. events' = Recorded(original, new, fields, event)
  BY DEF save
<1>4. ASSUME changed # {}
      PROVE  \E e \in EventRec :
                events' = Append(events, e) /\ Entry(e, original, new, changed, kind, undo, own, said)
  <2>1. PICK b : b = [f \in changed |-> original[f]]
    OBVIOUS
  <2>2. PICK a : a = [f \in changed |-> new[f]]
    OBVIOUS
  <2>3. a \in Fields /\ b \in Fields
    <3>1. a \in [changed -> Val] /\ b \in [changed -> Val] /\ changed \in SUBSET Tracked
      BY <1>0, <2>1, <2>2 DEF Rows
    <3> QED BY <3>1, FieldsAre
  <2>4. event \in EventRec
    BY NoFieldsIs DEF Event, EventRec, Shape
  <2>5. \A x \in EventRec : LET y == [x EXCEPT !.before = b, !.after = a] IN
            /\ y \in EventRec /\ y.before = b /\ y.after = a
            /\ y.kind = x.kind /\ y.at = x.at /\ y.undo = x.undo /\ y.own = x.own /\ y.said = x.said
    BY <2>3 DEF EventRec
  <2>6. events' = Append(events, [event EXCEPT !.before = b, !.after = a])
    BY <1>1, <1>4, <2>1, <2>2 DEF Recorded
  <2>7. event.kind = kind /\ event.at = version /\ event.undo = undo /\ event.own = own /\ event.said = said
    BY DEF Event
  <2> HIDE DEF EventRec
  <2>8. PICK e : e = [event EXCEPT !.before = b, !.after = a]
    OBVIOUS
  <2>9. e \in EventRec /\ e.before = b /\ e.after = a /\ e.kind = event.kind /\ e.at = event.at
        /\ e.undo = event.undo /\ e.own = event.own /\ e.said = event.said
    BY <2>4, <2>5, <2>8
  <2>10. Entry(e, original, new, changed, kind, undo, own, said)
    BY <2>1, <2>2, <2>7, <2>9 DEF Entry
  <2> QED BY <2>6, <2>8, <2>9, <2>10
<1>5. changed = {} => events' = events
  BY <1>1 DEF Recorded
<1> QED BY <1>4, <1>5

\* completed_at follows a save that works on the row as it is.
LEMMA SaveCompletes ==
    ASSUME NEW original, NEW new, NEW fields, NEW event, save(original, new, fields, event),
           "status" \in fields => original["status"] = job["status"],
           new["completed"] = job["completed"], job["completed"] \in BOOLEAN,
           job["completed"] <=> job["status"] \in Finished
    PROVE  job'["completed"] \in BOOLEAN /\ (job'["completed"] <=> job'["status"] \in Finished)
<1>1. {"status", "completed"} \subseteq Row /\ "status" \in Tracked
  BY DEF Row, Tracked
<1>2. job' = Written(original, new, fields)
  BY DEF save
<1> DEFINE effect == SideEffect(new, Changed(original, new, fields))
<1>3. /\ job'["status"] = IF "status" \in fields THEN new["status"] ELSE job["status"]
      /\ job'["completed"] = IF effect THEN ~new["completed"]
                             ELSE IF "completed" \in fields THEN new["completed"] ELSE job["completed"]
  BY <1>1, <1>2 DEF Written
<1>4. effect <=> /\ "status" \in fields /\ original["status"] # new["status"]
                 /\ (new["status"] \in Finished) # new["completed"]
  BY <1>1 DEF SideEffect, Changed
<1> HIDE DEF effect
<1>5. CASE effect
  <2>1. job'["completed"] = ~job["completed"] /\ "status" \in fields
    BY <1>3, <1>4, <1>5
  <2>2. (job["status"] \in Finished) # (new["status"] \in Finished)
    BY <1>4, <1>5
  <2>3. job["status"] \in Finished <=> ~(job'["status"] \in Finished)
    BY <1>3, <2>1, <2>2
  <2>4. CASE job["completed"] = TRUE
    BY <2>1, <2>3, <2>4
  <2>5. CASE job["completed"] = FALSE
    BY <2>1, <2>3, <2>5
  <2> QED BY <2>4, <2>5
<1>6. CASE ~effect
  <2>1. job'["completed"] = job["completed"]
    BY <1>3, <1>6
  <2>2. CASE "status" \in fields /\ original["status"] # new["status"]
    <3>1. (new["status"] \in Finished) = new["completed"]
      BY <1>4, <1>6, <2>2
    <3> QED BY <1>3, <2>1, <2>2, <3>1
  <2>3. CASE ~("status" \in fields /\ original["status"] # new["status"])
    <3>1. job'["status"] = job["status"]
      BY <1>3, <2>3
    <3> QED BY <2>1, <3>1
  <2> QED BY <2>2, <2>3
<1> QED BY <1>5, <1>6

-----------------------------------------------------------------------------
(* The history.                                                            *)

\* The change of f just before i, and the last one there is.
Prev(f, i, j) == j \in Of(f) /\ j < i /\ \A k \in Of(f) : k < i => k <= j
Final(f, i) == i \in Of(f) /\ \A k \in Of(f) : k <= i

\* What HistoryExplainsTheJob says, without a choice.
Chain ==
    \A f \in Tracked :
        /\ \A i \in Of(f) : \A j : Prev(f, i, j) => events[i].before[f] = events[j].after[f]
        /\ \A i : Final(f, i) => events[i].after[f] = job[f]

LEMMA OfGrows ==
    ASSUME events \in Seq(EventRec), NEW e \in EventRec, events' = Append(events, e)
    PROVE  /\ DOMAIN events = 1 .. Len(events) /\ Len(events) \in Nat
           /\ DOMAIN events' = 1 .. (Len(events) + 1)
           /\ \A i \in DOMAIN events : events'[i] = events[i]
           /\ events'[Len(events) + 1] = e
           /\ \A f : Of(f) \subseteq DOMAIN events
                     /\ Of(f)' = Of(f) \cup (IF f \in DOMAIN e.after THEN {Len(events) + 1} ELSE {})
<1>1. /\ DOMAIN events = 1 .. Len(events) /\ Len(events) \in Nat
      /\ DOMAIN events' = 1 .. (Len(events) + 1)
      /\ \A i \in DOMAIN events : events'[i] = events[i]
      /\ events'[Len(events) + 1] = e
  <2> HIDE DEF EventRec
  <2> QED OBVIOUS
<1>2. ASSUME NEW f
      PROVE  /\ Of(f) \subseteq DOMAIN events
             /\ Of(f)' = Of(f) \cup (IF f \in DOMAIN e.after THEN {Len(events) + 1} ELSE {})
  <2>1. Of(f) = {i \in DOMAIN events : f \in DOMAIN events[i].after}
    BY DEF Of
  <2>2. Of(f)' = {i \in DOMAIN events' : f \in DOMAIN events'[i].after}
    BY DEF Of
  <2> HIDE DEF EventRec
  <2> QED BY <1>1, <2>1, <2>2
<1> QED BY <1>1, <1>2

\* A save compared with the row as it is adds a link, and no more than one.
LEMMA SaveChains ==
    ASSUME Shape, Chain, NEW original \in Rows, NEW new \in Rows, NEW fields \in SUBSET Row,
           NEW kind \in Kinds, NEW undo \in Nat, NEW own \in SUBSET Row, NEW said \in Fields,
           NEW event, event = Event(kind, undo, own, said), save(original, new, fields, event),
           \A f \in Tracked \cap fields : original[f] = job[f]
    PROVE  Chain'
<1>p. PICK changed : changed = Changed(original, new, fields)
  OBVIOUS
<1>s. \/ (\A f \in Tracked : f \notin changed) /\ events' = events
      \/ \E e \in EventRec :
            events' = Append(events, e) /\ Entry(e, original, new, changed, kind, undo, own, said)
  BY <1>p, SaveRecords
<1>0. changed = {f \in Tracked \cap fields : original[f] # new[f]}
  BY <1>p DEF Changed
<1>1. \A f \in Tracked : job'[f] = IF f \in changed THEN new[f] ELSE job[f]
  BY <1>0, SaveWrites
<1>2. CASE (\A f \in Tracked : f \notin changed) /\ events' = events
  <2>1. events' = events /\ \A f \in Tracked : job'[f] = job[f]
    BY <1>1, <1>2
  <2>2. \A f : Of(f)' = Of(f)
    BY <2>1 DEF Of
  <2> QED BY <2>1, <2>2 DEF Chain, Prev, Final
<1>3. CASE \E e \in EventRec : events' = Append(events, e) /\ Entry(e, original, new, changed, kind, undo, own, said)
  <2>1. PICK e \in EventRec : /\ events' = Append(events, e) /\ DOMAIN e.after = changed
                              /\ \A f \in changed : e.before[f] = original[f] /\ e.after[f] = new[f]
    BY <1>3 DEF Entry
  <2> DEFINE n == Len(events) + 1
  <2>2. /\ n \in Nat /\ events'[n] = e /\ \A f : \A i \in Of(f) : i \in Nat /\ i < n /\ events'[i] = events[i]
        /\ \A f : Of(f)' = Of(f) \cup (IF f \in changed THEN {n} ELSE {})
    <3> HIDE DEF EventRec
    <3>1. DOMAIN e.after = changed
      BY <2>1
    <3> QED BY <2>1, <3>1, OfGrows DEF Shape
  <2> HIDE DEF n
  <2>3. ASSUME NEW f \in Tracked, NEW i \in Of(f)', NEW j, Prev(f, i, j)'
        PROVE  events'[i].before[f] = events'[j].after[f]
    <3>1. j \in Of(f)' /\ j < i /\ \A k \in Of(f)' : k < i => k <= j
      BY <2>3 DEF Prev
    <3>2. i \in Nat /\ j \in Nat /\ i <= n
      BY <2>2, <3>1
    <3>3. j \in Of(f) /\ j # n
      BY <2>2, <3>1, <3>2
    <3>4. CASE i \in Of(f)
      <4>1. Prev(f, i, j)
        BY <2>2, <3>1, <3>3 DEF Prev
      <4> QED BY <2>2, <3>3, <3>4, <4>1 DEF Chain
    <3>5. CASE i = n /\ f \in changed
      <4>1. Final(f, j)
        BY <2>2, <3>1, <3>3, <3>5 DEF Final
      <4>2. events[j].after[f] = job[f] /\ events'[j] = events[j]
        BY <2>2, <3>3, <4>1 DEF Chain
      <4>3. events'[n].before[f] = original[f] /\ original[f] = job[f]
        BY <1>0, <2>1, <2>2, <3>5
      <4> QED BY <3>5, <4>2, <4>3
    <3> QED BY <2>2, <3>4, <3>5
  <2>4. ASSUME NEW f \in Tracked, NEW i, Final(f, i)'
        PROVE  events'[i].after[f] = job'[f]
    <3>1. i \in Of(f)' /\ \A k \in Of(f)' : k <= i
      BY <2>4 DEF Final
    <3>2. CASE f \in changed
      <4>1. i = n
        BY <2>2, <3>1, <3>2
      <4>2. e.after[f] = new[f]
        BY <2>1, <3>2
      <4> QED BY <1>1, <2>2, <3>2, <4>1, <4>2
    <3>3. CASE f \notin changed
      <4>1. Final(f, i) /\ i \in Of(f)
        BY <2>2, <3>1, <3>3 DEF Final
      <4> QED BY <1>1, <2>2, <3>3, <4>1 DEF Chain
    <3> QED BY <3>2, <3>3
  <2> QED BY <2>3, <2>4 DEF Chain
<1> QED BY <1>s, <1>2, <1>3

\* Of some numbers below a bound one is the greatest: what stands in for induction.
LEMMA Greatest ==
    ASSUME NEW b \in Nat, NEW T, T \subseteq Nat, T # {}, \A x \in T : x <= b
    PROVE  \E m \in T : \A x \in T : x <= m
<1> DEFINE R == {ss \in Nat \X Nat : ss[1] < ss[2]}
           Short == {d \in Nat : d <= b /\ b - d \in T}
<1>1. IsWellFoundedOn(R, Nat)
  BY NatLessThanWellFounded DEF OpToRel
<1>2. \A x, y \in Nat : y < x => <<y, x>> \in R
  OBVIOUS
<1>3. Short \subseteq Nat /\ \A x \in T : b - x \in Short
  <2>1. ASSUME NEW x \in T PROVE b - x \in Nat /\ b - x <= b /\ b - (b - x) = x
    OBVIOUS
  <2> QED BY <2>1
<1>4. PICK d \in Short : \A y \in Short : ~(<<y, d>> \in R)
  <2> HIDE DEF R, Short
  <2>1. Short # {}
    BY <1>3
  <2> QED BY <1>1, <1>3, <2>1, WFMin
<1>5. b - d \in T /\ d \in Nat
  OBVIOUS
<1> HIDE DEF R, Short
<1>6. ASSUME NEW x \in T PROVE x <= b - d
  <2>1. ~(b - x < d) /\ b - x \in Nat
    BY <1>2, <1>3, <1>4, <1>5
  <2> QED BY <1>5, <2>1
<1> QED BY <1>5, <1>6

LEMMA ChainExplains ==
    ASSUME Shape, Chain, "compared" \notin overtaken
    PROVE  HistoryExplainsTheJob
<1>1. \A f : Of(f) \subseteq Nat /\ \A i \in Of(f) : i <= Len(events)
  <2> HIDE DEF EventRec
  <2> QED BY DEF Of, Shape
<1>2. ASSUME NEW f \in Tracked, NEW i \in Of(f), NEW j \in Of(f), j < i, LastBefore(f, i) = j
      PROVE  events[i].before[f] = events[j].after[f]
  <2> DEFINE T == {k \in Of(f) : k < i}
  <2>1. T \subseteq Nat /\ T # {} /\ i \in Nat /\ \A k \in T : k <= i
    BY <1>1, <1>2
  <2>2. PICK m \in T : \A k \in T : k <= m
    <3> HIDE DEF T
    <3> QED BY <2>1, Greatest
  <2>3. Prev(f, i, LastBefore(f, i))
    BY <2>2 DEF LastBefore, Prev
  <2> QED BY <1>2, <2>3 DEF Chain
<1>3. ASSUME NEW f \in Tracked, NEW i \in Of(f), \A j \in Of(f) : j <= i
      PROVE  events[i].after[f] = job[f]
  BY <1>3 DEF Chain, Final
<1> QED BY <1>2, <1>3 DEF HistoryExplainsTheJob

-----------------------------------------------------------------------------
(* The invariant.                                                          *)

\* Nobody holds an ETag of a version to come.
TagsBehind ==
    \A u \in Tabs : tabs[u].tag <= version /\ tabs[u].held <= version /\ tabs[u].delta.tag <= version

\* What an undo is about to send: the event it found, back to front, and the row as it
\* still is if the version is the one it names.
UndoHolds(d) ==
    /\ d.undo \in DOMAIN events /\ d.before = events[d.undo].after /\ d.after = events[d.undo].before
    /\ d.tag = version => \A f \in DOMAIN d.before : job[f] = d.before[f]

UndosHold == \A u \in Tabs : tabs[u].doing = "undoing" => UndoHolds(tabs[u].delta)

\* An event is of fields that changed, says no more of an undo than was undone, and of a
\* delta than its author saw.
Sound(e) ==
    /\ DOMAIN e.before = DOMAIN e.after /\ \A f \in DOMAIN e.after : e.before[f] # e.after[f]
    /\ e.undo # 0 => /\ e.undo \in DOMAIN events
                     /\ e.before = events[e.undo].after /\ e.after = events[e.undo].before
    /\ (~softFail /\ e.kind = "delta") => \A f \in DOMAIN e.before : e.said[f] = e.before[f]
    /\ \/ DOMAIN e.after \subseteq e.own
       \/ e.kind \in {"paid", "archived", "revised"} /\ overtaken # {}

EventsSound == \A i \in DOMAIN events : Sound(events[i])

\* An unlocked save changes its own fields of what it read.
Saves(r) ==
    /\ \A f \in Row \ r.own : r.new[f] = r.seen[f]
    /\ "completed" \notin r.own
    /\ r.original # NoFields => r.original = r.found
    /\ r.kind = "moved" => r.fields = {"status"} /\ r.own = {"status"}

WritersSave == \A w \in Writers : writers[w].kind \in Unlocked => writers[w] \in WriterRec /\ Saves(writers[w])

Completed == job["completed"] \in BOOLEAN /\ (job["completed"] <=> job["status"] \in Finished)

Inv ==
    /\ Shape /\ TagsBehind /\ UndosHold /\ EventsSound /\ WritersSave
    /\ "compared" \notin overtaken => Chain
    /\ overtaken = {} => Completed

LEMMA InvImpliesAll ==
    ASSUME Inv
    PROVE  HistoryExplainsTheJob /\ CompletedWhileFinished /\ OwnFieldsOnly /\ AppliedAsSeen /\ UndoPutsBack
<1>1. HistoryExplainsTheJob
  <2>1. CASE "compared" \in overtaken
    BY <2>1 DEF HistoryExplainsTheJob
  <2>2. CASE "compared" \notin overtaken
    BY <2>2, ChainExplains DEF Inv
  <2> QED BY <2>1, <2>2
<1>2. CompletedWhileFinished
  <2> SUFFICES ASSUME Completed PROVE job["completed"] = (job["status"] \in Finished)
    BY DEF Inv, CompletedWhileFinished
  <2>1. CASE job["completed"] = TRUE
    BY <2>1 DEF Completed
  <2>2. CASE job["completed"] = FALSE
    BY <2>2 DEF Completed
  <2> QED BY <2>1, <2>2 DEF Completed
<1>3. OwnFieldsOnly /\ AppliedAsSeen /\ UndoPutsBack
  BY DEF Inv, EventsSound, Sound, OwnFieldsOnly, AppliedAsSeen, UndoPutsBack
<1> QED BY <1>1, <1>2, <1>3

\* Events stay, and a sound one joins them.
LEMMA EventsGrow ==
    ASSUME events \in Seq(EventRec), EventsSound, softFail' = softFail, overtaken \subseteq overtaken',
           NEW e \in EventRec, events' = Append(events, e), 
           DOMAIN e.before = DOMAIN e.after /\ \A f \in DOMAIN e.after : e.before[f] # e.after[f],
           e.undo # 0 => /\ e.undo \in DOMAIN events
                         /\ e.before = events[e.undo].after /\ e.after = events[e.undo].before,
           (~softFail /\ e.kind = "delta") => \A f \in DOMAIN e.before : e.said[f] = e.before[f],
           \/ DOMAIN e.after \subseteq e.own
           \/ e.kind \in {"paid", "archived", "revised"} /\ overtaken' # {}
    PROVE  events' \in Seq(EventRec) /\ EventsSound'
<1>1. /\ DOMAIN events = 1 .. Len(events) /\ Len(events) \in Nat
      /\ DOMAIN events' = 1 .. (Len(events) + 1)
      /\ \A i \in DOMAIN events : events'[i] = events[i]
      /\ events'[Len(events) + 1] = e
  BY OfGrows
<1>2. events' \in Seq(EventRec)
  <2> HIDE DEF EventRec
  <2> QED OBVIOUS
<1>n. PICK n : n = Len(events) + 1
  OBVIOUS
<1>3. DOMAIN events' = DOMAIN events \cup {n} /\ events'[n] = e
  BY <1>1, <1>n
<1> HIDE DEF EventRec
<1>4. ASSUME NEW i \in DOMAIN events PROVE Sound(events[i])'
  <2>1. Sound(events[i])
    BY DEF EventsSound
  <2>2. events[i].undo # 0 => events[i].undo \in DOMAIN events
    BY <2>1 DEF Sound
  <2>3. events'[i] = events[i] /\ (events[i].undo # 0 => events'[events[i].undo] = events[events[i].undo])
    BY <1>1, <2>2
  <2>4. Sound(events[i])' <=>
          LET x == events'[i] IN
            /\ DOMAIN x.before = DOMAIN x.after /\ \A f \in DOMAIN x.after : x.before[f] # x.after[f]
            /\ x.undo # 0 => /\ x.undo \in DOMAIN events'
                             /\ x.before = events'[x.undo].after /\ x.after = events'[x.undo].before
            /\ (~softFail' /\ x.kind = "delta") => \A f \in DOMAIN x.before : x.said[f] = x.before[f]
            /\ \/ DOMAIN x.after \subseteq x.own
               \/ x.kind \in {"paid", "archived", "revised"} /\ overtaken' # {}
    BY DEF Sound
  <2>5. overtaken # {} => overtaken' # {}
    OBVIOUS
  <2> QED BY <1>3, <2>1, <2>2, <2>3, <2>4, <2>5 DEF Sound
<1>5. Sound(events[n])' 
  <2>1. e.undo # 0 => e.undo \in DOMAIN events' /\ events'[e.undo] = events[e.undo]
    BY <1>1, <1>3
  <2> QED BY <1>3, <2>1 DEF Sound
<1> QED BY <1>2, <1>3, <1>4, <1>5 DEF EventsSound

-----------------------------------------------------------------------------
(* The steps.                                                              *)

\* No tab takes up an undo, and none learns of a version to come.
TabsFollow ==
    /\ tabs' \in [Tabs -> TabRec]
    /\ \A u \in Tabs : tabs'[u].tag <= version' /\ tabs'[u].held <= version' /\ tabs'[u].delta.tag <= version'
    /\ \A u \in Tabs : tabs'[u].doing = "undoing" => tabs[u].doing = "undoing" /\ tabs'[u].delta = tabs[u].delta

LEMMA UndosFollow ==
    ASSUME Inv, TabsFollow, \A i \in DOMAIN events : i \in DOMAIN events' /\ events'[i] = events[i],
           (version' = version /\ job' = job) \/ version' = version + 1
    PROVE  TagsBehind' /\ UndosHold'
<1>1. TagsBehind'
  BY DEF TabsFollow, TagsBehind
<1>2. ASSUME NEW u \in Tabs, tabs'[u].doing = "undoing" PROVE UndoHolds(tabs[u].delta)'
  <2>1. PICK d : d = tabs[u].delta /\ d = tabs'[u].delta /\ UndoHolds(d) /\ d.tag <= version /\ d.tag \in Nat
    <3>1. tabs[u].doing = "undoing" /\ tabs'[u].delta = tabs[u].delta
      BY <1>2 DEF TabsFollow
    <3>2. tabs[u] \in TabRec
      BY DEF Inv, Shape
    <3> QED BY <3>1, <3>2 DEF Inv, UndosHold, TagsBehind, TabRec, DeltaRec
  <2>2. version \in Nat
    BY DEF Inv, Shape
  <2>3. d.tag = version' => version' = version /\ job' = job
    BY <2>1, <2>2
  <2>4. UndoHolds(d)'
    BY <2>1, <2>3 DEF UndoHolds
  <2> QED BY <2>1, <2>4 DEF UndoHolds
<1> QED BY <1>1, <1>2 DEF UndosHold

\* Steps that leave the row and its history alone.
LEMMA QuietStep ==
    ASSUME Inv, TabsFollow, UNCHANGED <<job, events, overtaken, softFail>>,
           version' = version \/ version' = version + 1,
           writers' \in [Writers -> WriterRec \cup {NoWriter}], WritersSave'
    PROVE  Inv'
<1>1. TagsBehind' /\ UndosHold'
  BY UndosFollow
<1>2. Shape'
  BY DEF Inv, Shape, TabsFollow
<1>3. EventsSound'
  BY DEF Inv, EventsSound, Sound
<1>4. (Chain => Chain') /\ (Completed => Completed')
  <2>1. \A f : Of(f)' = Of(f)
    BY DEF Of
  <2> QED BY <2>1 DEF Chain, Prev, Final, Completed
<1> QED BY <1>1, <1>2, <1>3, <1>4 DEF Inv

\* A save under the row's lock compares with what was read and writes only what it is about.
LEMMA LockedSave ==
    ASSUME Inv, TabsFollow, UNCHANGED <<writers, overtaken, softFail>>,
           NEW changes \in Fields, NEW kind \in {"delta", "quote"}, NEW undo \in Nat, NEW said \in Fields,
           save(job, With(job, changes), Row, Event(kind, undo, DOMAIN changes, said)),
           (~softFail /\ kind = "delta") => \A f \in DOMAIN changes : said[f] = job[f],
           undo # 0 => /\ undo \in DOMAIN events /\ changes = events[undo].before
                       /\ \A f \in DOMAIN events[undo].after : job[f] = events[undo].after[f]
    PROVE  Inv'
<1>1. PICK old, new, event, own : /\ old = job /\ new = With(job, changes) /\ own = DOMAIN changes
                                 /\ event = Event(kind, undo, own, said)
                                 /\ save(old, new, Row, event)
  <2>1. PICK old, new, event, own : /\ old = job /\ new = With(job, changes) /\ own = DOMAIN changes
                                   /\ event = Event(kind, undo, own, said)
    OBVIOUS
  <2>2. save(old, new, Row, event)
    BY <2>1 DEF save
  <2> QED BY <2>1, <2>2
<1>2. /\ old \in Rows /\ new \in Rows /\ Row \in SUBSET Row /\ kind \in Kinds /\ own \in SUBSET Row /\ own \subseteq Tracked
      /\ \A f \in Row : new[f] = IF f \in own THEN changes[f] ELSE old[f]
  <2>1. own \subseteq Tracked /\ Tracked \subseteq Row /\ kind \in Kinds
    BY <1>1, FieldsAre DEF Row, Kinds
  <2>2. old \in Rows
    BY <1>1 DEF Inv, Shape
  <2>3. new \in Rows /\ \A f \in Row : new[f] = IF f \in own THEN changes[f] ELSE old[f]
    BY <1>1, <2>2, WithIs
  <2> QED BY <2>1, <2>2, <2>3
<1>3. version' = version + 1 /\ job' \in Rows
  BY <1>1, <1>2, SaveWrites DEF Inv
<1>4. PICK changed : changed = Changed(old, new, Row)
  OBVIOUS
<1>5. changed = {f \in Tracked : old[f] # new[f]}
  BY <1>4 DEF Changed, Row
<1>6. changed \subseteq own
  BY <1>2, <1>5 DEF Row
<1>7. \/ events' = events
      \/ \E e \in EventRec :
            events' = Append(events, e) /\ Entry(e, old, new, changed, kind, undo, own, said)
  BY <1>1, <1>2, <1>4, SaveRecords DEF Inv
<1>8. events' \in Seq(EventRec) /\ EventsSound' /\ \A i \in DOMAIN events : i \in DOMAIN events' /\ events'[i] = events[i]
  <2>1. CASE events' = events
    BY <2>1 DEF Inv, Shape, EventsSound, Sound
  <2>2. CASE \E e \in EventRec :
            events' = Append(events, e) /\ Entry(e, old, new, changed, kind, undo, own, said)
    <3>1. PICK e \in EventRec : events' = Append(events, e) /\ Entry(e, old, new, changed, kind, undo, own, said)
      BY <2>2
    <3>2. /\ e.kind = kind /\ e.undo = undo /\ e.own = own /\ e.said = said
          /\ DOMAIN e.before = changed /\ DOMAIN e.after = changed
          /\ \A f \in changed : e.before[f] = old[f] /\ e.after[f] = new[f]
      BY <3>1 DEF Entry
    <3>3. \A f \in changed : e.before[f] # e.after[f]
      BY <1>5, <3>2
    <3>4. (~softFail /\ kind = "delta") => \A f \in changed : said[f] = e.before[f]
      BY <1>1, <1>6, <3>2
    <3>5. ASSUME undo # 0
          PROVE  undo \in DOMAIN events /\ e.before = events[undo].after /\ e.after = events[undo].before
      <4>1. PICK x \in EventRec : x = events[undo] /\ Sound(x) /\ undo \in DOMAIN events
        <5> HIDE DEF EventRec
        <5> QED BY <3>5 DEF Inv, Shape, EventsSound
      <4>2. /\ changes = x.before /\ own = DOMAIN x.after /\ DOMAIN x.before = DOMAIN x.after
            /\ \A f \in own : old[f] = x.after[f] /\ x.before[f] # x.after[f]
        BY <1>1, <3>5, <4>1 DEF Sound
      <4>3. changed = own
        BY <1>2, <1>5, <1>6, <4>2 DEF Row
      <4>4. \A f \in own : e.before[f] = x.after[f] /\ e.after[f] = x.before[f]
        BY <1>2, <3>2, <4>2, <4>3
      <4>5. e.before \in Fields /\ e.after \in Fields /\ x.before \in Fields /\ x.after \in Fields
        BY <4>1 DEF EventRec
      <4>6. /\ e.before = [f \in DOMAIN e.before |-> e.before[f]] /\ e.after = [f \in DOMAIN e.after |-> e.after[f]]
            /\ x.before = [f \in DOMAIN x.before |-> x.before[f]] /\ x.after = [f \in DOMAIN x.after |-> x.after[f]]
        <5>1. \A y \in Fields : y = [f \in DOMAIN y |-> y[f]]
          BY FieldsAre
        <5> QED BY <4>5, <5>1
      <4> QED BY <3>2, <4>1, <4>2, <4>3, <4>4, <4>6
    <3>6. events \in Seq(EventRec) /\ EventsSound
      BY DEF Inv, Shape
    <3>7. events' \in Seq(EventRec) /\ EventsSound'
      BY <1>6, <3>1, <3>2, <3>3, <3>4, <3>5, <3>6, EventsGrow
    <3> QED BY <3>1, <3>6, <3>7, OfGrows
  <2> QED BY <1>7, <2>1, <2>2
<1>9. TagsBehind' /\ UndosHold'
  BY <1>3, <1>8, UndosFollow
<1>10. Shape'
  BY <1>3, <1>8 DEF Inv, Shape, TabsFollow
<1>11. WritersSave'
  BY DEF Inv, WritersSave
<1>12. "compared" \notin overtaken' => Chain'
  <2>1. "compared" \notin overtaken => Chain
    BY DEF Inv
  <2>2. \A f \in Tracked \cap Row : old[f] = job[f]
    BY <1>1
  <2>3. Chain => Chain'
    BY <1>1, <1>2, <2>2, SaveChains DEF Inv
  <2> QED BY <2>1, <2>3
<1>13. overtaken' = {} => Completed'
  <2>1. overtaken = {} => Completed
    BY DEF Inv
  <2>2. new["completed"] = job["completed"] /\ old["status"] = job["status"]
    BY <1>1, <1>2 DEF Row, Tracked
  <2>3. Completed => Completed'
    BY <1>1, <2>2, SaveCompletes DEF Completed
  <2> QED BY <2>1, <2>3
<1> QED BY <1>8, <1>9, <1>10, <1>11, <1>12, <1>13 DEF Inv

\* A save of a job that was read before: what it writes over is in overtaken.
LEMMA StepWrite == ASSUME Inv, NEW w \in Writers, Write(w) PROVE Inv'
<1>1. PICK r : r = writers[w] /\ r.kind \in Unlocked
  BY DEF Write, Unlocked
<1>2. r \in WriterRec /\ Saves(r)
  BY <1>1 DEF Inv, WritersSave
<1>3. PICK old, event, own, kind, new, fields :
        /\ old \in Rows /\ own = r.own /\ kind = r.kind /\ new = r.new /\ fields = r.fields
        /\ event = Event(kind, 0, own, NoFields)
        /\ save(old, new, fields, event)
        /\ overtaken' = overtaken \cup Overtaken(w, old)
  <2>1. CASE r.kind = "revised"
    <3>1. PICK old : old = job /\ old \in Rows
      BY DEF Inv, Shape
    <3>2. PICK event : event = Event(r.kind, 0, r.own, NoFields)
      OBVIOUS
    <3>3. save(old, r.new, r.fields, event) /\ overtaken' = overtaken \cup Overtaken(w, old)
      BY <1>1, <2>1, <3>1, <3>2 DEF Write, Original, save, Overtaken
    <3> QED BY <3>1, <3>2, <3>3
  <2>2. CASE r.kind # "revised"
    <3>1. PICK old : old = r.original /\ old = r.found /\ old \in Rows
      BY <1>1, <1>2, <2>2 DEF Write, Saves, WriterRec
    <3>2. PICK event : event = Event(r.kind, 0, r.own, NoFields)
      OBVIOUS
    <3>3. save(old, r.new, r.fields, event) /\ overtaken' = overtaken \cup Overtaken(w, old)
      BY <1>1, <2>2, <3>1, <3>2 DEF Write, Original, save, Overtaken
    <3> QED BY <3>1, <3>2, <3>3
  <2> QED BY <2>1, <2>2
<1>4. /\ writers' = [writers EXCEPT ![w] = NoWriter] /\ UNCHANGED <<rejections, tabs, softFail>>
  BY DEF Write, Writer
<1>5. /\ new \in Rows /\ fields \in SUBSET Row /\ kind \in Kinds /\ kind \in Unlocked /\ own \in SUBSET Row
      /\ \A f \in Row \ own : new[f] = r.seen[f]
      /\ "completed" \notin own
      /\ kind = "moved" => fields = own
  BY <1>1, <1>2, <1>3 DEF WriterRec, Saves, Kinds, Unlocked
<1>6. /\ "read" \notin overtaken' => \A f \in fields \cup {"completed"} : r.seen[f] = job[f]
      /\ "compared" \notin overtaken' => \A f \in fields : old[f] = job[f]
      /\ overtaken \subseteq overtaken'
  BY <1>1, <1>3 DEF Overtaken
<1>7. version' = version + 1 /\ job' \in Rows
  BY <1>3, <1>5, SaveWrites DEF Inv
<1>8. PICK changed : changed = Changed(old, new, fields)
  OBVIOUS
<1>9. changed = {f \in Tracked \cap fields : old[f] # new[f]}
  BY <1>8 DEF Changed
<1>10. NoFields \in Fields /\ 0 \in Nat
  BY NoFieldsIs
<1>11. \/ events' = events
       \/ \E e \in EventRec :
            events' = Append(events, e) /\ Entry(e, old, new, changed, kind, 0, own, NoFields)
  BY <1>3, <1>5, <1>8, <1>10, SaveRecords DEF Inv
<1>12. changed \subseteq own \/ (kind \in {"paid", "archived", "revised"} /\ overtaken' # {})
  <2> SUFFICES ASSUME NEW f \in changed, f \notin own
               PROVE  kind \in {"paid", "archived", "revised"} /\ overtaken' # {}
    OBVIOUS
  <2>1. f \in fields /\ f \in Row /\ old[f] # new[f] /\ new[f] = r.seen[f]
    BY <1>5, <1>9
  <2>2. kind \in {"paid", "archived", "revised"}
    BY <1>5, <2>1 DEF Unlocked
  <2>3. "read" \in overtaken' \/ "compared" \in overtaken'
    BY <1>6, <2>1
  <2> QED BY <2>2, <2>3
<1>13. events' \in Seq(EventRec) /\ EventsSound' /\ \A i \in DOMAIN events : i \in DOMAIN events' /\ events'[i] = events[i]
  <2>1. CASE events' = events
    BY <1>4, <1>6, <2>1 DEF Inv, Shape, EventsSound, Sound
  <2>2. CASE \E e \in EventRec :
            events' = Append(events, e) /\ Entry(e, old, new, changed, kind, 0, own, NoFields)
    <3>1. PICK e \in EventRec : events' = Append(events, e) /\ Entry(e, old, new, changed, kind, 0, own, NoFields)
      BY <2>2
    <3>2. /\ e.kind = kind /\ e.undo = 0 /\ e.own = own
          /\ DOMAIN e.before = changed /\ DOMAIN e.after = changed
          /\ \A f \in changed : e.before[f] = old[f] /\ e.after[f] = new[f]
      BY <3>1 DEF Entry
    <3>3. \A f \in changed : e.before[f] # e.after[f]
      BY <1>9, <3>2
    <3>4. events \in Seq(EventRec) /\ EventsSound /\ kind # "delta"
      BY <1>5 DEF Inv, Shape, Unlocked
    <3>5. events' \in Seq(EventRec) /\ EventsSound'
      BY <1>4, <1>6, <1>12, <3>1, <3>2, <3>3, <3>4, EventsGrow
    <3> QED BY <3>1, <3>4, <3>5, OfGrows
  <2> QED BY <1>11, <2>1, <2>2
<1>14. TabsFollow
  <2>1. tabs \in [Tabs -> TabRec] /\ \A u \in Tabs : tabs[u].tag \in Nat /\ tabs[u].held \in Nat /\ tabs[u].delta.tag \in Nat
    BY DEF Inv, Shape, TabRec, DeltaRec
  <2>2. version \in Nat /\ TagsBehind
    BY DEF Inv, Shape
  <2> QED BY <1>4, <1>7, <2>1, <2>2 DEF TabsFollow, TagsBehind
<1>15. TagsBehind' /\ UndosHold'
  BY <1>7, <1>13, <1>14, UndosFollow
<1>16. writers' \in [Writers -> WriterRec \cup {NoWriter}] /\ WritersSave'
  <2>1. NoWriter.kind \notin Unlocked
    BY DEF NoWriter, Unlocked
  <2> HIDE DEF WriterRec
  <2> QED BY <1>4, <2>1 DEF Inv, Shape, WritersSave
<1>17. Shape'
  BY <1>7, <1>13, <1>14, <1>16 DEF Inv, Shape, TabsFollow
<1>18. "compared" \notin overtaken' => Chain'
  <2> SUFFICES ASSUME "compared" \notin overtaken' PROVE Chain'
    OBVIOUS
  <2>1. Chain /\ \A f \in Tracked \cap fields : old[f] = job[f]
    BY <1>6 DEF Inv
  <2> QED BY <1>3, <1>5, <1>10, <2>1, SaveChains DEF Inv
<1>19. overtaken' = {} => Completed'
  <2> SUFFICES ASSUME overtaken' = {} PROVE Completed'
    OBVIOUS
  <2>1. Completed
    BY <1>6 DEF Inv
  <2>2. new["completed"] = job["completed"] /\ ("status" \in fields => old["status"] = job["status"])
    BY <1>5, <1>6 DEF Row
  <2> QED BY <1>3, <2>1, <2>2, SaveCompletes DEF Completed
<1> QED BY <1>13, <1>15, <1>16, <1>17, <1>18, <1>19 DEF Inv

\* One tab changes and follows the others' rules.
LEMMA OneTab ==
    ASSUME Inv, NEW u \in Tabs, NEW tab \in TabRec, tabs' = [tabs EXCEPT ![u] = tab],
           version' = version \/ version' = version + 1,
           tab.tag <= version' /\ tab.held <= version' /\ tab.delta.tag <= version',
           tab.doing = "undoing" => tabs[u].doing = "undoing" /\ tab.delta = tabs[u].delta
    PROVE  TabsFollow
<1>1. tabs \in [Tabs -> TabRec] /\ version \in Nat /\ TagsBehind
  BY DEF Inv, Shape
<1>2. \A v \in Tabs : tabs[v].tag \in Nat /\ tabs[v].held \in Nat /\ tabs[v].delta.tag \in Nat
  BY <1>1 DEF TabRec, DeltaRec
<1> HIDE DEF TabRec
<1>3. tabs' \in [Tabs -> TabRec] /\ tabs'[u] = tab /\ \A v \in Tabs \ {u} : tabs'[v] = tabs[v]
  BY <1>1
<1> QED BY <1>1, <1>2, <1>3 DEF TabsFollow, TagsBehind

LEMMA TabIs ==
    ASSUME Inv, NEW u \in Tabs
    PROVE  /\ tabs[u] \in TabRec /\ tabs[u].tag \in Nat /\ tabs[u].held \in Nat /\ tabs[u].seen \in Rows
           /\ tabs[u].delta \in DeltaRec /\ tabs[u].delta.tag \in Nat
           /\ tabs[u].tag <= version /\ tabs[u].held <= version /\ tabs[u].delta.tag <= version
           /\ version \in Nat /\ job \in Rows
           /\ writers \in [Writers -> WriterRec \cup {NoWriter}] /\ WritersSave
BY DEF Inv, Shape, TagsBehind, TabRec, DeltaRec

LEMMA NoDeltaIs == NoDelta \in DeltaRec /\ NoDelta.tag = 0
BY NoFieldsIs DEF NoDelta, DeltaRec

\* A reload, and the late ETag of an answer.
LEMMA StepReads ==
    ASSUME Inv, NEW u \in Tabs, get_full_job(u) \/ JobArrives(u) \/ Answer(u)
    PROVE  Inv'
<1>1. UNCHANGED <<job, version, events, overtaken, softFail, writers>>
  BY DEF get_full_job, JobArrives, Answer, OnlyTab
<1>2. PICK t : t = tabs[u] /\ t \in TabRec /\ t.tag <= version /\ t.held <= version /\ t.delta.tag <= version
               /\ version \in Nat /\ job \in Rows /\ t.held \in Nat
  BY TabIs
<1>3. PICK tab \in TabRec : /\ tabs' = [tabs EXCEPT ![u] = tab] /\ tab.doing # "undoing"
                            /\ tab.tag <= version /\ tab.held <= version /\ tab.delta.tag <= version
  <2>1. CASE get_full_job(u)
    <3>1. PICK y : y = [t EXCEPT !.doing = "loading", !.held = version]
      OBVIOUS
    <3>2. tabs' = [tabs EXCEPT ![u] = y]
      BY <1>2, <3>1, <2>1 DEF get_full_job, OnlyTab, Tab
    <3>3. y \in TabRec /\ y.tag = t.tag /\ y.held = version /\ y.delta = t.delta /\ y.doing # "undoing"
      BY <1>2, <3>1 DEF TabRec
    <3>4. y.tag <= version /\ y.held <= version /\ y.delta.tag <= version
      BY <1>2, <3>3
    <3> QED BY <3>2, <3>3, <3>4, Zenon
  <2>2. CASE JobArrives(u)
    <3>1. PICK y : y = [t EXCEPT !.doing = "nothing", !.tag = t.held, !.held = 0, !.seen = job]
      OBVIOUS
    <3>2. tabs' = [tabs EXCEPT ![u] = y]
      BY <1>2, <3>1, <2>2 DEF JobArrives, OnlyTab, Tab
    <3>3. y \in TabRec /\ y.tag = t.held /\ y.held = 0 /\ y.delta = t.delta /\ y.doing # "undoing"
      BY <1>2, <3>1 DEF TabRec
    <3>4. y.tag <= version /\ y.held <= version /\ y.delta.tag <= version
      BY <1>2, <3>3
    <3> QED BY <3>2, <3>3, <3>4, Zenon
  <2>3. CASE Answer(u)
    <3>1. PICK y : y = [t EXCEPT !.doing = "nothing", !.tag = version]
      OBVIOUS
    <3>2. tabs' = [tabs EXCEPT ![u] = y]
      BY <1>2, <3>1, <2>3 DEF Answer, OnlyTab, Tab
    <3>3. y \in TabRec /\ y.tag = version /\ y.held = t.held /\ y.delta = t.delta /\ y.doing # "undoing"
      BY <1>2, <3>1 DEF TabRec
    <3>4. y.tag <= version /\ y.held <= version /\ y.delta.tag <= version
      BY <1>2, <3>3
    <3> QED BY <3>2, <3>3, <3>4, Zenon
  <2> QED BY <2>1, <2>2, <2>3
<1>4. TabsFollow
  BY <1>1, <1>3, OneTab
<1>5. writers' \in [Writers -> WriterRec \cup {NoWriter}] /\ WritersSave'
  BY <1>1, TabIs DEF WritersSave
<1> QED BY <1>1, <1>4, <1>5, QuietStep

LEMMA TabsStay ==
    ASSUME Inv, tabs' = tabs, version' = version \/ version' = version + 1
    PROVE  TabsFollow
<1>1. tabs \in [Tabs -> TabRec]
  BY DEF Inv, Shape
<1>2. \A u \in Tabs : /\ tabs[u].tag \in Nat /\ tabs[u].held \in Nat /\ tabs[u].delta.tag \in Nat
                      /\ tabs[u].tag <= version /\ tabs[u].held <= version /\ tabs[u].delta.tag <= version
                      /\ version \in Nat
  BY TabIs
<1> QED BY <1>1, <1>2 DEF TabsFollow

\* update_job where the delta applies: what it validated is what the save compares with.
LEMMA DeltaApplied ==
    ASSUME Inv, TabsFollow, UNCHANGED <<writers, overtaken, softFail>>,
           NEW d \in DeltaRec, Apply(d), DOMAIN d.before = DOMAIN d.after, d.undo # 0 => UndoHolds(d)
    PROVE  Inv'
<1>1. d.tag = version /\ (softFail \/ \A f \in DOMAIN d.before : job[f] = d.before[f])
  BY DEF Apply, Applies, _validate_delta_payload, Mismatched
<1>2. PICK changes, undo, said : /\ changes = d.after /\ undo = d.undo /\ said = d.before
                                 /\ changes \in Fields /\ undo \in Nat /\ said \in Fields
  BY DEF DeltaRec
<1>3. save(job, With(job, changes), Row, Event("delta", undo, DOMAIN changes, said))
  BY <1>2 DEF Apply
<1>4. undo # 0 => /\ undo \in DOMAIN events /\ changes = events[undo].before
                  /\ \A f \in DOMAIN events[undo].after : job[f] = events[undo].after[f]
  BY <1>1, <1>2 DEF UndoHolds
<1>5. ~softFail => \A f \in DOMAIN changes : said[f] = job[f]
  BY <1>1, <1>2
<1>6. "delta" \in {"delta", "quote"}
  OBVIOUS
<1> QED BY <1>2, <1>3, <1>4, <1>5, <1>6, LockedSave

LEMMA DeltaRefused ==
    ASSUME Inv, TabsFollow, UNCHANGED <<writers, overtaken, softFail>>, NEW d, Refuse(d)
    PROVE  Inv'
<1>1. UNCHANGED <<job, version, events>>
  BY DEF Refuse
<1>2. writers' \in [Writers -> WriterRec \cup {NoWriter}] /\ WritersSave'
  BY DEF WritersSave, Inv, Shape
<1> QED BY <1>1, <1>2, QuietStep

LEMMA StepUpdateJob ==
    ASSUME Inv, NEW u \in Tabs, update_job(u)
    PROVE  Inv'
<1>1. PICK s \in Statuses \cup {tabs[u].seen["status"]}, x \in Texts :
        LET edited == [f \in {"status", "text"} |-> IF f = "status" THEN s ELSE x]
            fields == {f \in DOMAIN edited : edited[f] # tabs[u].seen[f]}
            delta == Delta(u, fields, edited) IN
            \/ Apply(delta) /\ Tab(u, [tabs[u] EXCEPT !.tag = version', !.seen = With(@, delta.after)])
            \/ (Apply(delta) \/ Refuse(delta)) /\ UNCHANGED tabs
  BY DEF update_job
<1>2. PICK edited : edited = [f \in {"status", "text"} |-> IF f = "status" THEN s ELSE x]
  OBVIOUS
<1>3. PICK fields : fields = {f \in DOMAIN edited : edited[f] # tabs[u].seen[f]}
  OBVIOUS
<1>4. PICK d : d = Delta(u, fields, edited)
  OBVIOUS
<1>5. \/ Apply(d) /\ Tab(u, [tabs[u] EXCEPT !.tag = version', !.seen = With(@, d.after)])
      \/ (Apply(d) \/ Refuse(d)) /\ UNCHANGED tabs
  BY <1>1, <1>2, <1>3, <1>4
<1>6. /\ tabs[u] \in TabRec /\ tabs[u].seen \in Rows /\ tabs[u].tag \in Nat /\ tabs[u].tag <= version
      /\ tabs[u].held <= version /\ tabs[u].delta.tag <= version /\ version \in Nat
      /\ tabs[u].held \in Nat /\ tabs[u].delta \in DeltaRec /\ tabs[u].delta.tag \in Nat
  BY TabIs
<1>7. fields \in SUBSET Tracked /\ \A f \in fields : edited[f] \in Val /\ tabs[u].seen[f] \in Val
  <2>1. fields \subseteq {"status", "text"} /\ {"status", "text"} \subseteq Tracked /\ Tracked \subseteq Row
    BY <1>2, <1>3 DEF Tracked, Row
  <2>2. \A f \in Row : tabs[u].seen[f] \in Val
    BY <1>6 DEF Rows
  <2>3. s \in Val /\ x \in Val
    BY <2>1, <2>2 DEF Val
  <2> QED BY <1>2, <2>1, <2>2, <2>3
<1>8. /\ d \in DeltaRec /\ d.undo = 0 /\ d.tag = tabs[u].tag /\ d.after \in Fields
      /\ DOMAIN d.before = DOMAIN d.after
  <2>1. PICK b, a : b = [f \in fields |-> tabs[u].seen[f]] /\ a = [f \in fields |-> edited[f]]
    OBVIOUS
  <2>2. b \in Fields /\ a \in Fields /\ DOMAIN b = DOMAIN a
    BY <1>7, <2>1, FieldsAre
  <2>3. d = [tag |-> tabs[u].tag, undo |-> 0, before |-> b, after |-> a]
    BY <1>4, <2>1 DEF Delta
  <2> QED BY <1>6, <2>2, <2>3 DEF DeltaRec
<1>9. UNCHANGED <<writers, overtaken, softFail>>
  BY DEF update_job, OthersStay
<1>10. Apply(d) => version' = version + 1
  BY DEF Apply, save
<1>11. Refuse(d) => version' = version
  BY DEF Refuse
<1>12. CASE UNCHANGED tabs /\ (Apply(d) \/ Refuse(d))
  <2>1. TabsFollow
    BY <1>10, <1>11, <1>12, TabsStay
  <2>2. CASE Apply(d)
    BY <1>8, <1>9, <2>1, <2>2, DeltaApplied
  <2>3. CASE Refuse(d)
    BY <1>9, <2>1, <2>3, DeltaRefused
  <2> QED BY <1>12, <2>2, <2>3
<1>13. CASE Apply(d) /\ Tab(u, [tabs[u] EXCEPT !.tag = version', !.seen = With(@, d.after)])
  <2>1. PICK t, v, seen : /\ t = tabs[u] /\ v = version' /\ seen = With(t.seen, d.after)
                          /\ v \in Nat /\ v = version + 1 /\ seen \in Rows
    BY <1>6, <1>8, <1>10, <1>13, WithIs
  <2>2. PICK y : y = [t EXCEPT !.tag = v, !.seen = seen]
    OBVIOUS
  <2>3. tabs' = [tabs EXCEPT ![u] = y]
    BY <1>13, <2>1, <2>2 DEF Tab
  <2>4. y \in TabRec /\ y.tag = v /\ y.held = t.held /\ y.delta = t.delta /\ y.doing = t.doing
    BY <1>6, <2>1, <2>2 DEF TabRec
  <2>5. y.tag <= version' /\ y.held <= version' /\ y.delta.tag <= version'
    BY <1>6, <2>1, <2>4
  <2>6. TabsFollow
    BY <2>1, <2>3, <2>4, <2>5, OneTab
  <2> QED BY <1>8, <1>9, <1>13, <2>6, DeltaApplied
<1> QED BY <1>5, <1>12, <1>13

\* An undo takes the change as it is recorded and as the row still has it.
LEMMA StepUndo ==
    ASSUME Inv, NEW u \in Tabs, undo_job_change(u)
    PROVE  Inv'
<1>1. PICK i \in DOMAIN events :
        IF Undoable(i)
        THEN OnlyTab(u, [tabs[u] EXCEPT !.doing = "undoing",
                 !.delta = [tag |-> tabs[u].tag, undo |-> i, after |-> events[i].before,
                            before |-> [f \in DOMAIN events[i].after |-> job[f]]]])
        ELSE /\ rejections' = rejections \cup {<<"undo">>}
             /\ UNCHANGED <<job, version, events, tabs>> /\ OthersStay
  BY DEF undo_job_change
<1>2. UNCHANGED <<job, version, events, writers, overtaken, softFail>>
  BY <1>1 DEF OnlyTab, OthersStay
<1>3. writers' \in [Writers -> WriterRec \cup {NoWriter}] /\ WritersSave'
  BY <1>2, TabIs DEF WritersSave
<1>4. CASE ~Undoable(i)
  <2>1. TabsFollow
    BY <1>1, <1>4, TabsStay
  <2> QED BY <1>2, <1>3, <2>1, QuietStep
<1>5. CASE Undoable(i)
  <2>1. PICK t, e : /\ t = tabs[u] /\ e = events[i] /\ e \in EventRec /\ i \in Nat /\ t \in TabRec
                    /\ t.tag \in Nat /\ t.tag <= version /\ t.held <= version
    BY TabIs DEF Inv, Shape
  <2>2. PICK before : before = [f \in DOMAIN e.after |-> job[f]]
    OBVIOUS
  <2>3. before = e.after /\ \A f \in DOMAIN before : job[f] = before[f]
    <3>1. e.after \in Fields /\ \A f \in DOMAIN e.after : job[f] = e.after[f]
      BY <1>5, <2>1 DEF Undoable, EventRec
    <3>2. e.after \in [DOMAIN e.after -> Val]
      BY <3>1, FieldsAre
    <3> QED BY <2>2, <3>1, <3>2
  <2>4. PICK d : d = [tag |-> t.tag, undo |-> i, after |-> e.before, before |-> before]
    OBVIOUS
  <2>5. d \in DeltaRec /\ d.tag = t.tag /\ d.undo = i /\ d.after = e.before /\ d.before = before
    BY <2>1, <2>3, <2>4 DEF EventRec, DeltaRec
  <2>6. PICK y : y = [t EXCEPT !.doing = "undoing", !.delta = d]
    OBVIOUS
  <2>7. y \in TabRec /\ y.tag = t.tag /\ y.held = t.held /\ y.delta = d /\ y.doing = "undoing"
    BY <2>1, <2>5, <2>6 DEF TabRec
  <2>8. tabs' = [tabs EXCEPT ![u] = y]
    BY <1>1, <1>5, <2>1, <2>2, <2>4, <2>6 DEF OnlyTab, Tab
  <2>9. tabs \in [Tabs -> TabRec]
    BY DEF Inv, Shape
  <2>10. tabs' \in [Tabs -> TabRec] /\ tabs'[u] = y /\ \A v \in Tabs \ {u} : tabs'[v] = tabs[v]
    <3> HIDE DEF TabRec
    <3> QED BY <2>7, <2>8, <2>9
  <2>11. UndoHolds(d)'
    BY <1>2, <2>1, <2>3, <2>5 DEF UndoHolds
  <2>12. UndosHold'
    <3>1. ASSUME NEW v \in Tabs, tabs'[v].doing = "undoing" PROVE UndoHolds(tabs[v].delta)'
      <4>1. CASE v = u
        BY <2>7, <2>10, <2>11, <4>1 DEF UndoHolds
      <4>2. CASE v # u
        BY <1>2, <2>10, <3>1, <4>2 DEF Inv, UndosHold, UndoHolds
      <4> QED BY <4>1, <4>2
    <3> QED BY <3>1 DEF UndosHold
  <2>13. TagsBehind'
    BY <1>2, <2>1, <2>5, <2>7, <2>10 DEF Inv, TagsBehind
  <2>14. Shape'
    BY <1>2, <1>3, <2>10 DEF Inv, Shape
  <2>15. EventsSound'
    BY <1>2 DEF Inv, EventsSound, Sound
  <2>16. (Chain => Chain') /\ (Completed => Completed')
    <3>1. \A f : Of(f)' = Of(f)
      BY <1>2 DEF Of
    <3> QED BY <1>2, <3>1 DEF Chain, Prev, Final, Completed
  <2> QED BY <1>2, <1>3, <2>12, <2>13, <2>14, <2>15, <2>16 DEF Inv
<1> QED BY <1>4, <1>5

LEMMA StepUndoApplies ==
    ASSUME Inv, NEW u \in Tabs, UndoApplies(u)
    PROVE  Inv'
<1>1. PICK t, d : /\ t = tabs[u] /\ d = t.delta /\ t \in TabRec /\ d \in DeltaRec
                  /\ t.tag \in Nat /\ t.tag <= version /\ t.held \in Nat /\ t.held <= version /\ version \in Nat
  BY TabIs
<1>2. UndoHolds(d)
  BY <1>1 DEF UndoApplies, Inv, UndosHold
<1>3. DOMAIN d.before = DOMAIN d.after
  BY <1>2 DEF UndoHolds, Inv, EventsSound, Sound
<1>4. UNCHANGED <<writers, overtaken, softFail>>
  BY DEF UndoApplies, OthersStay
<1>5. \/ Apply(d) /\ Tab(u, [t EXCEPT !.doing = "nothing", !.delta = NoDelta, !.tag = version'])
      \/ Refuse(d) /\ Tab(u, [t EXCEPT !.doing = "nothing", !.delta = NoDelta])
  BY <1>1 DEF UndoApplies
<1>6. CASE Apply(d) /\ Tab(u, [t EXCEPT !.doing = "nothing", !.delta = NoDelta, !.tag = version'])
  <2>1. PICK v : v = version' /\ v = version + 1 /\ v \in Nat
    BY <1>1, <1>6 DEF Apply, save
  <2>2. PICK y : y = [t EXCEPT !.doing = "nothing", !.delta = NoDelta, !.tag = v]
    OBVIOUS
  <2>3. tabs' = [tabs EXCEPT ![u] = y]
    BY <1>6, <2>1, <2>2 DEF Tab
  <2>4. y \in TabRec /\ y.tag = v /\ y.held = t.held /\ y.delta = NoDelta /\ y.doing = "nothing"
    BY <1>1, <2>1, <2>2, NoDeltaIs DEF TabRec
  <2>5. y.tag <= version' /\ y.held <= version' /\ y.delta.tag <= version'
    BY <1>1, <2>1, <2>4, NoDeltaIs
  <2>6. TabsFollow
    BY <2>1, <2>3, <2>4, <2>5, OneTab
  <2> QED BY <1>1, <1>2, <1>3, <1>4, <1>6, <2>6, DeltaApplied
<1>7. CASE Refuse(d) /\ Tab(u, [t EXCEPT !.doing = "nothing", !.delta = NoDelta])
  <2>1. version' = version
    BY <1>7 DEF Refuse
  <2>2. PICK y : y = [t EXCEPT !.doing = "nothing", !.delta = NoDelta]
    OBVIOUS
  <2>3. tabs' = [tabs EXCEPT ![u] = y]
    BY <1>7, <2>2 DEF Tab
  <2>4. y \in TabRec /\ y.tag = t.tag /\ y.held = t.held /\ y.delta = NoDelta /\ y.doing = "nothing"
    BY <1>1, <2>2, NoDeltaIs DEF TabRec
  <2>5. y.tag <= version' /\ y.held <= version' /\ y.delta.tag <= version'
    BY <1>1, <2>1, <2>4, NoDeltaIs
  <2>6. TabsFollow
    BY <2>1, <2>3, <2>4, <2>5, OneTab
  <2> QED BY <1>4, <1>7, <2>6, DeltaRefused
<1> QED BY <1>5, <1>6, <1>7

\* Notes and acceptances of a quote leave the tab waiting for its answer.
LEMMA Answering ==
    ASSUME Inv, NEW u \in Tabs, Tab(u, [tabs[u] EXCEPT !.doing = "answering"]), version' = version + 1
    PROVE  TabsFollow
<1>1. PICK t : /\ t = tabs[u] /\ t \in TabRec /\ t.tag \in Nat /\ t.tag <= version /\ t.held \in Nat
               /\ t.held <= version /\ version \in Nat /\ t.delta.tag \in Nat /\ t.delta.tag <= version
  BY TabIs
<1>2. PICK y : y = [t EXCEPT !.doing = "answering"]
  OBVIOUS
<1>3. tabs' = [tabs EXCEPT ![u] = y]
  BY <1>1, <1>2 DEF Tab
<1>4. y \in TabRec /\ y.tag = t.tag /\ y.held = t.held /\ y.delta = t.delta /\ y.doing = "answering"
  BY <1>1, <1>2 DEF TabRec
<1>5. y.tag <= version' /\ y.held <= version' /\ y.delta.tag <= version'
  BY <1>1, <1>4
<1> QED BY <1>3, <1>4, <1>5, OneTab

LEMMA StepAddEvent ==
    ASSUME Inv, NEW u \in Tabs, add_job_event(u)
    PROVE  Inv'
<1>1. /\ UNCHANGED <<job, events, writers, overtaken, softFail>> /\ version' = version + 1
      /\ Tab(u, [tabs[u] EXCEPT !.doing = "answering"])
  BY DEF add_job_event, Touch, OthersStay
<1>2. TabsFollow
  BY <1>1, Answering
<1>3. writers' \in [Writers -> WriterRec \cup {NoWriter}] /\ WritersSave'
  BY <1>1, TabIs DEF WritersSave
<1> QED BY <1>1, <1>2, <1>3, QuietStep

LEMMA StepAcceptQuote ==
    ASSUME Inv, NEW u \in Tabs, accept_quote(u)
    PROVE  Inv'
<1>1. PICK changes, said, kind, undo :
        /\ changes = [f \in {"status", "accepted"} |-> IF f = "status" THEN "approved" ELSE TRUE]
        /\ said = NoFields /\ kind = "quote" /\ undo = 0
  OBVIOUS
<1>2. /\ save(job, With(job, changes), Row, Event(kind, undo, DOMAIN changes, said))
      /\ Tab(u, [tabs[u] EXCEPT !.doing = "answering"])
      /\ UNCHANGED <<writers, overtaken, softFail>>
  BY <1>1 DEF accept_quote, OthersStay
<1>3. changes \in Fields
  <2>1. {"status", "accepted"} \in SUBSET Tracked
    BY DEF Tracked
  <2>2. changes \in [{"status", "accepted"} -> Val]
    BY <1>1 DEF Val
  <2> QED BY <2>1, <2>2, FieldsAre
<1>4. TabsFollow
  <2>1. version' = version + 1
    BY <1>2 DEF save
  <2> QED BY <1>2, <2>1, Answering
<1>5. kind \in {"delta", "quote"} /\ kind # "delta" /\ undo \in Nat /\ undo = 0 /\ said \in Fields
  BY <1>1, NoFieldsIs
<1> QED BY <1>2, <1>3, <1>4, <1>5, LockedSave

\* A save that reads the job first: what it holds is the row with its own changes.
LEMMA ReadingKeeps ==
    ASSUME Inv, NEW w \in Writers, NEW kind \in Unlocked, NEW changes \in Fields, NEW fields \in SUBSET Row,
           Reading(w, kind, changes, fields),
           kind = "moved" => fields = {"status"} /\ DOMAIN changes = {"status"}
    PROVE  Inv'
<1>1. PICK new : new = With(job, changes) /\ new \in Rows
                 /\ \A f \in Row : new[f] = IF f \in DOMAIN changes THEN changes[f] ELSE job[f]
  BY WithIs DEF Inv, Shape
<1>2. PICK r : r = [kind |-> kind, own |-> DOMAIN changes, fields |-> fields, seen |-> job,
                    new |-> new, original |-> NoFields, found |-> NoFields]
  OBVIOUS
<1>3. DOMAIN changes \subseteq Tracked /\ Tracked \subseteq Row /\ "completed" \notin Tracked /\ job \in Rows
  BY FieldsAre DEF Tracked, Row, Inv, Shape
<1>4. r \in WriterRec /\ r.kind = kind
  BY <1>1, <1>2, <1>3 DEF WriterRec
<1>5. Saves(r)
  BY <1>1, <1>2, <1>3 DEF Saves
<1>6. /\ writers' = [writers EXCEPT ![w] = r]
      /\ UNCHANGED <<job, version, events, tabs, overtaken, softFail>>
  BY <1>1, <1>2 DEF Reading, Writer
<1>7. writers' \in [Writers -> WriterRec \cup {NoWriter}] /\ WritersSave'
  <2>1. writers \in [Writers -> WriterRec \cup {NoWriter}] /\ WritersSave
    BY DEF Inv, Shape
  <2> HIDE DEF WriterRec
  <2> QED BY <1>4, <1>5, <1>6, <2>1 DEF WritersSave
<1>8. TabsFollow
  BY <1>6, TabsStay
<1> QED BY <1>6, <1>7, <1>8, QuietStep

LEMMA SetIs ==
    ASSUME NEW f \in Tracked, NEW value \in Val
    PROVE  Set(f, value) \in Fields /\ DOMAIN Set(f, value) = {f}
<1>1. Set(f, value) \in [{f} -> Val] /\ {f} \in SUBSET Tracked
  BY DEF Set
<1> QED BY <1>1, FieldsAre DEF Set

LEMMA StepRead ==
    ASSUME Inv, NEW w \in Writers,
           \/ update_job_status(w) \/ update_paid_flags(w)
           \/ auto_archive_completed_jobs(w) \/ create_quote_revision(w)
    PROVE  Inv'
<1>1. PICK kind \in Unlocked, f \in Tracked, value \in Val, fields \in SUBSET Row :
        /\ Reading(w, kind, Set(f, value), fields)
        /\ kind = "moved" => fields = {"status"} /\ f = "status"
  <2>1. /\ {"moved", "paid", "archived", "revised"} \subseteq Unlocked
        /\ {"status", "paid", "accepted"} \subseteq Tracked /\ {"status"} \in SUBSET Row /\ Row \in SUBSET Row
        /\ TRUE \in Val /\ FALSE \in Val /\ "archived" \in Val /\ Statuses \subseteq Val
    BY DEF Unlocked, Tracked, Row, Val
  <2>2. CASE update_job_status(w)
    BY <2>1, <2>2 DEF update_job_status, MovedFields
  <2>3. CASE update_paid_flags(w)
    BY <2>1, <2>3 DEF update_paid_flags
  <2>4. CASE auto_archive_completed_jobs(w)
    BY <2>1, <2>4 DEF auto_archive_completed_jobs
  <2>5. CASE create_quote_revision(w)
    BY <2>1, <2>5 DEF create_quote_revision
  <2> QED BY <2>2, <2>3, <2>4, <2>5
<1>2. PICK changes : changes = Set(f, value) /\ changes \in Fields /\ DOMAIN changes = {f}
  BY SetIs
<1>3. Reading(w, kind, changes, fields)
  BY <1>1, <1>2
<1> QED BY <1>1, <1>2, <1>3, ReadingKeeps

LEMMA StepCompare ==
    ASSUME Inv, NEW w \in Writers, Compare(w)
    PROVE  Inv'
<1>1. PICK r, row : /\ r = writers[w] /\ r.kind \in Unlocked /\ row = job /\ row \in Rows
                    /\ writers' = [writers EXCEPT ![w] = [r EXCEPT !.original = row, !.found = row]]
                    /\ UNCHANGED <<job, version, events, tabs, overtaken, softFail>>
  BY DEF Compare, Original, Writer, Unlocked, Inv, Shape
<1>2. r \in WriterRec /\ Saves(r)
  BY <1>1 DEF Inv, WritersSave
<1>3. PICK y : y = [r EXCEPT !.original = row, !.found = row]
  OBVIOUS
<1>4. y \in WriterRec /\ y.kind = r.kind /\ y.own = r.own /\ y.new = r.new /\ y.seen = r.seen
      /\ y.fields = r.fields /\ y.original = row /\ y.found = row
  BY <1>1, <1>2, <1>3 DEF WriterRec
<1>5. Saves(y)
  BY <1>2, <1>4 DEF Saves
<1>6. writers' \in [Writers -> WriterRec \cup {NoWriter}] /\ WritersSave'
  <2>1. writers \in [Writers -> WriterRec \cup {NoWriter}] /\ WritersSave
    BY DEF Inv, Shape
  <2> HIDE DEF WriterRec
  <2> QED BY <1>1, <1>3, <1>4, <1>5, <2>1 DEF WritersSave
<1>7. TabsFollow
  BY <1>1, TabsStay
<1> QED BY <1>1, <1>6, <1>7, QuietStep

LEMMA InitInv == Init => Inv
<1> SUFFICES ASSUME Init PROVE Inv
  OBVIOUS
<1>1. PICK s \in {"draft", "recently_completed"}, x \in Texts :
        job = [f \in Row |-> CASE f = "status" -> s [] f = "text" -> x
                               [] f = "completed" -> s \in Finished [] OTHER -> FALSE]
  BY DEF Init
<1>2. /\ version = 1 /\ events = <<>> /\ overtaken = {}
      /\ tabs = [u \in Tabs |-> [tag |-> version, seen |-> job, doing |-> "nothing", held |-> 0, delta |-> NoDelta]]
      /\ writers = [w \in Writers |-> NoWriter]
  BY DEF Init
<1>3. job["status"] = s /\ job["completed"] = (s \in Finished) /\ job \in Rows
  <2>1. s \in Val /\ x \in Val /\ FALSE \in Val /\ (s \in Finished) \in Val
    BY DEF Val
  <2> HIDE DEF Val
  <2>2. \A f \in Row : job[f] \in Val
    <3> SUFFICES ASSUME NEW f \in Row PROVE job[f] \in Val
      OBVIOUS
    <3>1. f \in {"status", "text", "completed", "accepted", "paid"}
      BY DEF Row, Tracked
    <3> QED BY <1>1, <2>1, <3>1
  <2>3. {"status", "completed"} \subseteq Row
    BY DEF Row, Tracked
  <2> QED BY <1>1, <2>2, <2>3 DEF Rows
<1>4. Completed
  <2>1. CASE s \in Finished
    BY <1>3, <2>1 DEF Completed
  <2>2. CASE s \notin Finished
    <3>1. job["status"] \notin Finished
      BY <1>3, <2>2
    <3>2. PICK a : a = job["completed"] /\ a = (s \in Finished)
      BY <1>3
    <3>3. ~a
      BY <2>2, <3>2
    <3>4. a \in BOOLEAN
      BY <2>2, <3>2
    <3> QED BY <3>1, <3>2, <3>3, <3>4 DEF Completed
  <2> QED BY <2>1, <2>2
<1>5. PICK t : t = [tag |-> 1, seen |-> job, doing |-> "nothing", held |-> 0, delta |-> NoDelta]
  OBVIOUS
<1>6. t \in TabRec /\ t.tag = 1 /\ t.held = 0 /\ t.delta.tag = 0 /\ t.doing # "undoing"
  BY <1>3, <1>5, NoDeltaIs DEF TabRec
<1>7. tabs = [u \in Tabs |-> t]
  BY <1>2, <1>5
<1>8. events \in Seq(EventRec) /\ DOMAIN events = {} /\ \A f : Of(f) = {}
  <2> HIDE DEF EventRec
  <2> QED BY <1>2 DEF Of
<1>9. Shape
  <2> HIDE DEF TabRec, EventRec, WriterRec
  <2> QED BY <1>2, <1>3, <1>6, <1>7, <1>8 DEF Shape
<1>10. TagsBehind /\ UndosHold
  BY <1>2, <1>6, <1>7 DEF TagsBehind, UndosHold
<1>11. EventsSound /\ Chain
  BY <1>8 DEF EventsSound, Chain, Final
<1>12. WritersSave
  BY <1>2 DEF WritersSave, NoWriter, Unlocked
<1> QED BY <1>4, <1>9, <1>10, <1>11, <1>12 DEF Inv

LEMMA StepInv == ASSUME Inv, [Next]_vars PROVE Inv'
<1>1. CASE UNCHANGED vars
  <2>1. UNCHANGED <<job, version, events, tabs, writers, overtaken, softFail>>
    BY <1>1 DEF vars
  <2>2. TabsFollow
    BY <2>1, TabsStay
  <2>3. writers' \in [Writers -> WriterRec \cup {NoWriter}] /\ WritersSave'
    BY <2>1 DEF WritersSave, Inv, Shape
  <2> QED BY <2>1, <2>2, <2>3, QuietStep
<1>2. ASSUME NEW u \in Tabs,
             \/ get_full_job(u) \/ JobArrives(u) \/ update_job(u) \/ undo_job_change(u)
             \/ UndoApplies(u) \/ add_job_event(u) \/ accept_quote(u) \/ Answer(u)
      PROVE  Inv'
  BY <1>2, StepReads, StepUpdateJob, StepUndo, StepUndoApplies, StepAddEvent, StepAcceptQuote
<1>3. ASSUME NEW w \in Writers,
             \/ update_job_status(w) \/ update_paid_flags(w) \/ auto_archive_completed_jobs(w)
             \/ create_quote_revision(w) \/ Compare(w) \/ Write(w)
      PROVE  Inv'
  BY <1>3, StepRead, StepCompare, StepWrite
<1> QED BY <1>1, <1>2, <1>3 DEF Next

-----------------------------------------------------------------------------
(* The theorems.                                                           *)

THEOREM InvHolds == Spec => []Inv
<1>1. Inv /\ [Next]_vars => Inv'
  BY StepInv
<1> QED BY InitInv, <1>1, PTL DEF Spec

\* Job.save and _record_change_event: the events of a field follow one another to the
\* value the job has, until a save writes over what came after its own comparison.
THEOREM HistoryExplained == Spec => []HistoryExplainsTheJob
<1>1. Inv => HistoryExplainsTheJob
  BY InvImpliesAll
<1> QED BY InvHolds, <1>1, PTL

\* _apply_change_side_effects: completed_at is set exactly while the job's status is a
\* finished one, as long as no save wrote over what it had not read.
THEOREM CompletionFollows == Spec => []CompletedWhileFinished
<1>1. Inv => CompletedWhileFinished
  BY InvImpliesAll
<1> QED BY InvHolds, <1>1, PTL

\* update_job, accept_quote and the board's save with update_fields: an event of theirs
\* changes no field that its request is not about.
THEOREM OwnFields == Spec => []OwnFieldsOnly
<1>1. Inv => OwnFieldsOnly
  BY InvImpliesAll
<1> QED BY InvHolds, <1>1, PTL

\* _validate_delta_payload: unless mismatches are let through, a delta changes a field
\* from the very value its author said it had.
THEOREM DeltasAsSeen == Spec => []AppliedAsSeen
<1>1. Inv => AppliedAsSeen
  BY InvImpliesAll
<1> QED BY InvHolds, <1>1, PTL

\* undo_job_change: an undo that applies gives back what the change took, though it
\* looks at the row without a lock and sends the reverse later.
THEOREM UndosPutBack == Spec => []UndoPutsBack
<1>1. Inv => UndoPutsBack
  BY InvImpliesAll
<1> QED BY InvHolds, <1>1, PTL


-----------------------------------------------------------------------------
(* A count edited in a browser tab (StocktakeEditor): its revisions, and what *)
(* an answer in flight, the editor and a mutation in flight show of them.     *)

Content == SUBSET Edits

Present(row) == row.status # "none"

\* lines are what a revision of the count held, one not older than the version v:
\* version v is the history's entry v + 1.
ShownIn(row, lines, v) ==
    \E k \in DOMAIN row.history : k > v /\ row.history[k] = lines

CoversIn(row, lines, v) ==
    \E k \in DOMAIN row.history : k > v /\ row.history[k] \subseteq lines

\* An answer about a count on its way to the tab: header first, then its lines.
AnswerOK(call, row) ==
    /\ call.stage = "tagged" => call.tag \in 0 .. Len(row.history) - 1 /\ call.data \in Representation
    /\ call.stage = "ready" =>
          call.tag \in Nat /\ call.data \in Representation /\ ShownIn(row, call.data.lines, call.tag)

\* A correction is a count of its own, and a posted count holds what its last
\* draft held.
CountOK(row) ==
    /\ row.corrects \in Counts => Present(row)
    /\ Present(row) => Len(row.history) >= 1
    /\ row.status = "posted" =>
          /\ Len(row.history) >= 2
          /\ row.history[Len(row.history)] = row.history[Len(row.history) - 1]

GetOK(call, row) == (call.stage # "idle" => Present(row)) /\ AnswerOK(call, row)

\* What the tab keeps of a count came with an ETag.
KeptOK(data, tag) == data # NoData => tag \in Nat

PageOK ==
    /\ editor.page # Elsewhere => Present(server[editor.page])
    /\ editor.reloading => editor.page # Elsewhere
    /\ editor.mounted =>
          editor.page # Elsewhere /\ editor.version \in Nat /\ cache[editor.page] # NoData
    /\ editor.mounted /\ editor.fetched =>
          /\ CoversIn(server[editor.page], editor.rows, editor.version)
          /\ ~editor.dirty => ShownIn(server[editor.page], editor.rows, editor.version)

\* The mutation under way, from the count it was sent about to the one answered with.
SentOK(call, row) ==
    /\ Present(row)
    /\ call.stage = "sent" /\ call.fetched =>
          /\ CoversIn(row, call.lines, call.ifMatch)
          /\ call.kind = "post" => ShownIn(row, call.lines, call.ifMatch)
    /\ call.kind = "post" /\ call.stage \in {"done", "tagged", "ready"} =>
          /\ row.status = "posted"
          /\ call.fetched => call.lines = row.history[Len(row.history)]

WriteOK ==
    /\ SentOK(write, server[write.count])
    /\ Present(server[write.target]) /\ AnswerOK(write, server[write.target])

EditorShape ==
    /\ server \in [Counts -> CountRow]
    /\ cache \in [Counts -> Representation \cup {NoData}]
    /\ tags \in [Counts -> Int]
    /\ editor \in Editor
    /\ get \in [Counts -> Get]
    /\ write \in Mutation
    /\ edits \in 0 .. MaxEdits

EditorInv ==
    /\ EditorShape
    /\ \A c \in Counts :
          CountOK(server[c]) /\ GetOK(get[c], server[c]) /\ KeptOK(cache[c], tags[c])
    /\ Present(server[First])
    /\ PageOK /\ WriteOK /\ ReloadHasARequest

-----------------------------------------------------------------------------
(* The server's steps only add revisions. *)

\* The row of a count that is present, after any step of the server.
GrowsTo(old, new) ==
    /\ Present(new)
    /\ Len(new.history) >= Len(old.history)
    /\ \A k \in 1 .. Len(old.history) : new.history[k] = old.history[k]
    /\ old.status = "posted" => new = old

\* What an answer, an editor or a mutation shows of a count it shows of every
\* later state of it.
LEMMA RowKeeps ==
    ASSUME NEW old \in CountRow, NEW new \in CountRow, GrowsTo(old, new)
    PROVE  /\ \A lines, v : ShownIn(old, lines, v) => ShownIn(new, lines, v)
           /\ \A lines, v : CoversIn(old, lines, v) => CoversIn(new, lines, v)
           /\ \A call : AnswerOK(call, old) => AnswerOK(call, new)
           /\ \A call : GetOK(call, old) => GetOK(call, new)
           /\ \A call : SentOK(call, old) => SentOK(call, new)
<1>0. /\ Len(old.history) \in Nat /\ DOMAIN old.history = 1 .. Len(old.history)
      /\ Len(new.history) \in Nat /\ DOMAIN new.history = 1 .. Len(new.history)
  BY DEF CountRow
<1>1. \A k \in DOMAIN old.history : k \in DOMAIN new.history /\ new.history[k] = old.history[k]
  BY <1>0 DEF GrowsTo
<1>2. \A lines, v : ShownIn(old, lines, v) => ShownIn(new, lines, v)
  BY <1>1 DEF ShownIn
<1>3. \A lines, v : CoversIn(old, lines, v) => CoversIn(new, lines, v)
  BY <1>1 DEF CoversIn
<1>4. ASSUME NEW call, AnswerOK(call, old)
      PROVE  AnswerOK(call, new)
  <2>1. CASE call.stage = "tagged"
    BY <1>0, <1>4, <2>1 DEF AnswerOK, GrowsTo
  <2>2. CASE call.stage = "ready"
    BY <1>2, <1>4, <2>2 DEF AnswerOK
  <2> QED BY <2>1, <2>2 DEF AnswerOK
<1>5. \A call : GetOK(call, old) => GetOK(call, new)
  BY <1>4 DEF GetOK, GrowsTo
<1>6. ASSUME NEW call, SentOK(call, old)
      PROVE  SentOK(call, new)
  BY <1>2, <1>3, <1>6 DEF SentOK, GrowsTo
<1> QED BY <1>2, <1>3, <1>4, <1>5, <1>6

\* Every count, after a step of the server.
Grown ==
    /\ server' \in [Counts -> CountRow]
    /\ \A c \in Counts : CountOK(server'[c]) /\ (Present(server[c]) => GrowsTo(server[c], server'[c]))

\* A row with one more revision.
LEMMA Appended ==
    ASSUME NEW row \in CountRow, NEW lines \in Content
    PROVE  LET h == Append(row.history, lines) IN
           /\ h \in Seq(Content) /\ Len(h) = Len(row.history) + 1
           /\ h[Len(h)] = lines /\ \A k \in 1 .. Len(row.history) : h[k] = row.history[k]
BY DEF CountRow, Content

LEMMA ReadsLines ==
    ASSUME EditorShape, NEW c \in Counts, CountOK(server[c]), Present(server[c])
    PROVE  /\ Lines(c) \in Content /\ server[c] \in CountRow
           /\ Lines(c) = server[c].history[Len(server[c].history)]
           /\ Len(server[c].history) \in DOMAIN server[c].history
           /\ Len(server[c].history) \in Nat \ {0}
<1>1. server[c] \in CountRow /\ server[c].history \in Seq(Content)
  BY DEF EditorShape, CountRow, Content
<1>2. Len(server[c].history) >= 1 /\ Len(server[c].history) \in Nat
  BY <1>1 DEF CountOK
<1> QED BY <1>1, <1>2 DEF Lines

LEMMA SavedGrows ==
    ASSUME EditorShape, \A c \in Counts : CountOK(server[c]),
           NEW c \in Counts, server[c].status = "draft", NEW lines \in Content,
           server' = Saved(c, lines)
    PROVE  Grown /\ server'[c].history[Len(server'[c].history)] = lines
<1>1. server[c] \in CountRow
  BY DEF EditorShape
<1>2. /\ server' = [server EXCEPT ![c] = server'[c]]
      /\ server'[c] = [server[c] EXCEPT !.history = Append(server[c].history, lines)]
  BY DEF Saved, EditorShape
<1> DEFINE h == Append(server[c].history, lines)
<1>3. /\ h \in Seq(Content) /\ Len(h) = Len(server[c].history) + 1
      /\ h[Len(h)] = lines /\ \A k \in 1 .. Len(server[c].history) : h[k] = server[c].history[k]
  BY <1>1, Appended
<1>4. server'[c].history = h /\ server'[c].status = "draft" /\ server'[c] \in CountRow
  BY <1>1, <1>2, <1>3 DEF CountRow, Content
<1>5. Len(server[c].history) \in Nat
  BY <1>1 DEF CountRow
<1> HIDE DEF h
<1>6. CountOK(server'[c]) /\ GrowsTo(server[c], server'[c])
  BY <1>3, <1>4, <1>5 DEF CountOK, GrowsTo, Present
<1>7. \A d \in Counts : d # c => server'[d] = server[d]
  BY <1>2 DEF EditorShape
<1>8. \A d \in Counts : Present(server[d]) => GrowsTo(server[d], server[d])
  BY DEF GrowsTo, Present, EditorShape, CountRow
<1> QED BY <1>2, <1>3, <1>4, <1>6, <1>7, <1>8 DEF Grown, EditorShape

LEMMA PostedGrows ==
    ASSUME EditorShape, \A c \in Counts : CountOK(server[c]),
           NEW c \in Counts, server[c].status = "draft", server' = PostedNow(c)
    PROVE  /\ Grown /\ server'[c].status = "posted"
           /\ server'[c].history[Len(server'[c].history)] = Lines(c)
<1>1. server[c] \in CountRow /\ Lines(c) \in Content /\ Len(server[c].history) \in Nat \ {0}
      /\ Lines(c) = server[c].history[Len(server[c].history)]
  BY ReadsLines DEF Present
<1> DEFINE h == Append(server[c].history, Lines(c))
<1>2. /\ server' = [server EXCEPT ![c] = server'[c]]
      /\ server'[c] = [server[c] EXCEPT !.status = "posted", !.history = h]
  BY DEF PostedNow, EditorShape
<1>3. /\ h \in Seq(Content) /\ Len(h) = Len(server[c].history) + 1
      /\ h[Len(h)] = Lines(c) /\ \A k \in 1 .. Len(server[c].history) : h[k] = server[c].history[k]
  BY <1>1, Appended
<1> HIDE DEF h
<1>4. server'[c].history = h /\ server'[c].status = "posted" /\ server'[c] \in CountRow
  BY <1>1, <1>2, <1>3 DEF CountRow, Content
<1>5. h[Len(h) - 1] = Lines(c)
  BY <1>1, <1>3
<1>6. CountOK(server'[c]) /\ GrowsTo(server[c], server'[c])
  BY <1>1, <1>3, <1>4, <1>5 DEF CountOK, GrowsTo, Present
<1>7. \A d \in Counts : d # c => server'[d] = server[d]
  BY <1>2 DEF EditorShape
<1>8. \A d \in Counts : Present(server[d]) => GrowsTo(server[d], server[d])
  BY DEF GrowsTo, Present, EditorShape, CountRow
<1> QED BY <1>2, <1>3, <1>4, <1>6, <1>7, <1>8 DEF Grown, EditorShape

LEMMA CorrectedGrows ==
    ASSUME EditorShape, \A c \in Counts : CountOK(server[c]),
           NEW c \in Counts, NEW d \in Counts, server[d].status = "none", server' = CorrectedBy(c, d)
    PROVE  Grown /\ Present(server'[d])
<1>2. /\ server' = [server EXCEPT ![d] = server'[d]]
      /\ server'[d] = [status |-> "draft", history |-> <<{}>>, corrects |-> c]
  BY DEF CorrectedBy, EditorShape
<1>4. server'[d] \in CountRow /\ CountOK(server'[d]) /\ Present(server'[d])
  BY <1>2 DEF CountRow, CountOK, Present
<1>7. \A e \in Counts : e # d => server'[e] = server[e]
  BY <1>2 DEF EditorShape
<1>8. \A e \in Counts : Present(server[e]) => GrowsTo(server[e], server[e]) /\ e # d
  BY DEF GrowsTo, Present, EditorShape, CountRow
<1> QED BY <1>2, <1>4, <1>7, <1>8 DEF Grown, EditorShape

\* A step of the server leaves true all the tab relies on.
LEMMA GrownKeeps ==
    ASSUME EditorInv, Grown, UNCHANGED <<cache, tags, editor, get>>
    PROVE  /\ \A c \in Counts :
                 CountOK(server'[c]) /\ GetOK(get'[c], server'[c]) /\ KeptOK(cache'[c], tags'[c])
           /\ PageOK' /\ ReloadHasARequest' /\ Present(server'[First])
           /\ \A c \in Counts : \A call :
                 SentOK(call, server[c]) => SentOK(call, server'[c]) /\ Present(server'[c])
           /\ \A c \in Counts : \A call :
                 Present(server[c]) /\ AnswerOK(call, server[c]) => AnswerOK(call, server'[c])
<1>1. ASSUME NEW c \in Counts, Present(server[c])
      PROVE  /\ server[c] \in CountRow /\ server'[c] \in CountRow
             /\ GrowsTo(server[c], server'[c]) /\ Present(server'[c])
  BY <1>1 DEF Grown, EditorInv, EditorShape, GrowsTo
<1>2. ASSUME NEW c \in Counts
      PROVE  CountOK(server'[c]) /\ GetOK(get'[c], server'[c]) /\ KeptOK(cache'[c], tags'[c])
  <2>1. GetOK(get[c], server[c]) /\ KeptOK(cache[c], tags[c])
    BY DEF EditorInv
  <2>2. CASE Present(server[c])
    BY <1>1, <2>1, <2>2, RowKeeps DEF Grown
  <2>3. CASE ~Present(server[c])
    <3>1. get[c].stage = "idle"
      BY <2>1, <2>3 DEF GetOK
    <3> QED BY <2>1, <3>1 DEF GetOK, AnswerOK, Grown
  <2> QED BY <2>2, <2>3
<1>3. PageOK'
  <2>1. editor.page \in Counts \/ editor.page = Elsewhere
    BY DEF EditorInv, EditorShape, Editor
  <2>2. CASE editor.page = Elsewhere
    BY <2>2 DEF PageOK, EditorInv
  <2>3. CASE editor.page \in Counts
    <3>1. Present(server[editor.page])
      BY <2>3, EditorAssumption DEF EditorInv, PageOK
    <3> QED BY <1>1, <2>3, <3>1, RowKeeps DEF PageOK, EditorInv
  <2> QED BY <2>1, <2>2, <2>3
<1>4. ReloadHasARequest'
  BY DEF EditorInv, ReloadHasARequest
<1>5. ASSUME NEW c \in Counts, NEW call, SentOK(call, server[c])
      PROVE  SentOK(call, server'[c]) /\ Present(server'[c])
  <2>1. Present(server[c])
    BY <1>5 DEF SentOK
  <2> QED BY <1>1, <1>5, <2>1, RowKeeps
<1>6. ASSUME NEW c \in Counts, NEW call, Present(server[c]), AnswerOK(call, server[c])
      PROVE  AnswerOK(call, server'[c])
  BY <1>1, <1>6, RowKeeps
<1>7. Present(server'[First])
  BY <1>1, EditorAssumption DEF EditorInv
<1> QED BY <1>2, <1>3, <1>4, <1>5, <1>6, <1>7

\* A step of another session. (save_stocktake, post_stocktake, correct_stocktake)
LEMMA OtherSessionKeeps ==
    ASSUME EditorInv, NEW c \in Counts, OtherSession(c)
    PROVE  EditorInv'
<1>0. EditorShape /\ \A d \in Counts : CountOK(server[d])
  BY DEF EditorInv
<1>1. Grown /\ edits' \in 0 .. MaxEdits
  <2>1. CASE /\ server[c].status = "draft" /\ edits < MaxEdits
             /\ edits' = edits + 1 /\ server' = Saved(c, Lines(c) \cup {edits'})
    <3>1. edits' \in Edits /\ edits' \in 0 .. MaxEdits
      BY <1>0, <2>1, EditorAssumption DEF EditorShape, Edits
    <3>2. Lines(c) \cup {edits'} \in Content
      BY <1>0, <2>1, <3>1, ReadsLines DEF Content, Present
    <3> DEFINE lines == Lines(c) \cup {edits'}
    <3>3. server' = Saved(c, lines) /\ lines \in Content
      BY <2>1, <3>2
    <3> HIDE DEF lines
    <3> QED BY <1>0, <2>1, <3>1, <3>3, SavedGrows
  <2>2. CASE server[c].status = "draft" /\ server' = PostedNow(c) /\ UNCHANGED edits
    BY <1>0, <2>2, PostedGrows DEF EditorShape
  <2>3. ASSUME NEW d \in Counts, server[d].status = "none", server' = CorrectedBy(c, d), UNCHANGED edits
        PROVE  Grown /\ edits' \in 0 .. MaxEdits
    BY <1>0, <2>3, CorrectedGrows DEF EditorShape
  <2> QED BY <2>1, <2>2, <2>3 DEF OtherSession
<1>2. UNCHANGED <<cache, tags, editor, get, write>>
  BY DEF OtherSession
<1>3. EditorShape'
  BY <1>0, <1>1, <1>2 DEF EditorShape, Grown
<1>4. WriteOK'
  <2>1. write.count \in Counts /\ write.target \in Counts
    BY <1>0 DEF EditorShape, Mutation
  <2>2. SentOK(write, server'[write.count])
    BY <1>1, <1>2, <2>1, GrownKeeps DEF EditorInv, WriteOK
  <2>3. Present(server'[write.target]) /\ AnswerOK(write, server'[write.target])
    BY <1>1, <1>2, <2>1, GrownKeeps DEF EditorInv, WriteOK, Grown, GrowsTo
  <2> QED BY <1>2, <2>2, <2>3 DEF WriteOK
<1> QED BY <1>1, <1>2, <1>3, <1>4, GrownKeeps DEF EditorInv

\* A server that does nothing grows nothing.
LEMMA SameGrows ==
    ASSUME EditorShape, \A c \in Counts : CountOK(server[c]), UNCHANGED server
    PROVE  Grown
<1>1. \A c \in Counts : server[c] \in CountRow
  BY DEF EditorShape
<1>2. \A c \in Counts : Present(server[c]) => GrowsTo(server[c], server[c])
  BY <1>1 DEF GrowsTo, CountRow
<1> QED BY <1>2 DEF Grown, EditorShape

\* What a handler does to the counts, and what it answers.
Handled(t) ==
    /\ Grown /\ t \in Counts /\ Present(server'[t])
    /\ Done(t)

\* save_stocktake takes a save and refuses others.
LEMMA SaveHandled ==
    ASSUME EditorInv, write.stage = "sent", save_stocktake
    PROVE  write.kind = "save" /\ ((\E t \in Counts : Handled(t)) \/ Refused)
<1>0. EditorShape /\ (\A d \in Counts : CountOK(server[d])) /\ write.count \in Counts
      /\ write.lines \in Content
  BY DEF EditorInv, EditorShape, Mutation, Content
<1>1. ASSUME require_draft(write.count, write.ifMatch), server' = Saved(write.count, write.lines),
             Done(write.count)
      PROVE  Handled(write.count)
  <2>1. Grown /\ Present(server[write.count])
    BY <1>0, <1>1, SavedGrows DEF require_draft, Present
  <2> QED BY <1>0, <1>1, <2>1 DEF Handled, Grown, GrowsTo
<1> QED BY <1>0, <1>1 DEF save_stocktake

\* correct_stocktake gives the one correction there is.
LEMMA CorrectHandled ==
    ASSUME EditorInv, write.stage = "sent", correct_stocktake
    PROVE  write.kind = "correct" /\ ((\E t \in Counts : Handled(t)) \/ Refused)
<1>0. EditorShape /\ \A d \in Counts : CountOK(server[d])
  BY DEF EditorInv
<1>1. ASSUME NEW d \in Counts, server[d].corrects = write.count, UNCHANGED server, Done(d)
      PROVE  Handled(d)
  <2>1. Present(server[d])
    BY <1>0, <1>1 DEF CountOK, EditorShape, Mutation
  <2> QED BY <1>0, <1>1, <2>1, SameGrows DEF Handled
<1>2. ASSUME NEW d \in Counts, server[d].status = "none", server' = CorrectedBy(write.count, d), Done(d)
      PROVE  Handled(d)
  BY <1>0, <1>2, CorrectedGrows DEF Handled, EditorShape, Mutation
<1> QED BY <1>1, <1>2 DEF correct_stocktake

\* post_stocktake leaves the count posted, with the lines of whoever it answers.
LEMMA PostHandled ==
    ASSUME EditorInv, write.stage = "sent", post_stocktake
    PROVE  /\ write.kind = "post"
           /\ \/ /\ Handled(write.count)
                 /\ server'[write.count].status = "posted"
                 /\ write.fetched =>
                       write.lines = server'[write.count].history[Len(server'[write.count].history)]
              \/ Refused
<1> DEFINE c == write.count
<1>0. EditorShape /\ (\A d \in Counts : CountOK(server[d])) /\ c \in Counts
  BY DEF EditorInv, EditorShape, Mutation
<1>1. Present(server[c]) /\ (write.kind = "post" /\ write.fetched => ShownIn(server[c], write.lines, write.ifMatch))
  BY DEF EditorInv, WriteOK, SentOK
<1>2. write.kind = "post" /\ write.ifMatch \in Int
  BY <1>0 DEF post_stocktake, EditorShape, Mutation
<1>3. Len(server[c].history) \in Nat \ {0} /\ DOMAIN server[c].history = 1 .. Len(server[c].history)
      /\ Lines(c) = server[c].history[Len(server[c].history)]
  BY <1>0, <1>1, ReadsLines DEF EditorShape, CountRow
<1>4. ASSUME require_draft(c, write.ifMatch), server' = PostedNow(c), Done(c)
      PROVE  /\ Handled(c) /\ server'[c].status = "posted"
             /\ write.fetched => write.lines = server'[c].history[Len(server'[c].history)]
  <2>1. /\ Grown /\ server'[c].status = "posted"
        /\ server'[c].history[Len(server'[c].history)] = Lines(c)
    BY <1>0, <1>4, PostedGrows DEF require_draft
  <2>2. write.fetched => write.lines = Lines(c)
    BY <1>1, <1>2, <1>3, <1>4 DEF require_draft, revision, ShownIn
  <2> QED BY <1>0, <1>4, <2>1, <2>2 DEF Handled, Present
<1>5. ASSUME server[c].status = "posted", write.ifMatch = revision(c) - 1, UNCHANGED server, Done(c)
      PROVE  /\ Handled(c) /\ server'[c].status = "posted"
             /\ write.fetched => write.lines = server'[c].history[Len(server'[c].history)]
  <2>1. server[c].history[Len(server[c].history)] = server[c].history[Len(server[c].history) - 1]
    BY <1>0, <1>5 DEF CountOK
  <2>2. write.fetched => write.lines = Lines(c)
    BY <1>1, <1>2, <1>3, <1>5, <2>1 DEF revision, ShownIn
  <2> QED BY <1>0, <1>1, <1>3, <1>5, <2>2, SameGrows DEF Handled
<1> QED BY <1>2, <1>4, <1>5 DEF post_stocktake

\* A request that reaches the server. (save_stocktake, post_stocktake,
\* correct_stocktake)
LEMMA CommitKeeps ==
    ASSUME EditorInv, Commit
    PROVE  EditorInv'
<1>0. /\ EditorShape /\ (\A d \in Counts : CountOK(server[d]))
      /\ write \in Mutation /\ write.count \in Counts /\ write.target \in Counts
      /\ write.stage = "sent" /\ UNCHANGED <<cache, tags, editor, get, edits>>
  BY DEF EditorInv, EditorShape, Mutation, Commit, browserVars
<1>1. SentOK(write, server[write.count]) /\ Present(server[write.target])
  BY DEF EditorInv, WriteOK
<1>2. ASSUME NEW t \in Counts, Handled(t),
             write.kind = "post" =>
                /\ server'[write.count].status = "posted"
                /\ write.fetched => write.lines = server'[write.count].history[Len(server'[write.count].history)]
      PROVE  EditorInv'
  <2>1. Grown /\ Present(server'[t]) /\ write' = [write EXCEPT !.stage = "done", !.target = t]
    BY <1>2 DEF Handled, Done
  <2>2. Present(server'[write.count])
    BY <1>0, <1>1, <2>1 DEF Grown, GrowsTo, SentOK
  <2>3. /\ write' \in Mutation /\ write'.count = write.count /\ write'.target = t
        /\ write'.kind = write.kind /\ write'.fetched = write.fetched /\ write'.lines = write.lines
        /\ write'.stage = "done"
    BY <1>0, <2>1 DEF Mutation
  <2>4. WriteOK'
    BY <1>2, <2>1, <2>2, <2>3 DEF WriteOK, SentOK, AnswerOK
  <2>5. EditorShape'
    BY <1>0, <2>1, <2>3 DEF EditorShape, Grown
  <2> QED BY <1>0, <2>1, <2>4, <2>5, GrownKeeps DEF EditorInv
<1>3. ASSUME Refused
      PROVE  EditorInv'
  <2>1. Grown /\ write' = [write EXCEPT !.stage = "refused"] /\ UNCHANGED server
    BY <1>0, <1>3, SameGrows DEF Refused
  <2>2. /\ write' \in Mutation /\ write'.count = write.count /\ write'.target = write.target
        /\ write'.stage = "refused"
    BY <1>0, <2>1 DEF Mutation
  <2>3. WriteOK'
    BY <1>1, <2>1, <2>2 DEF WriteOK, SentOK, AnswerOK
  <2>4. EditorShape'
    BY <1>0, <2>1, <2>2 DEF EditorShape
  <2> QED BY <1>0, <2>1, <2>3, <2>4, GrownKeeps DEF EditorInv
<1> QED BY <1>0, <1>2, <1>3, SaveHandled, CorrectHandled, PostHandled DEF Commit

-----------------------------------------------------------------------------
(* The two queries of an answer *)

\* The header names the present version, and the lines are read no earlier.
LEMMA AnswerReads ==
    ASSUME EditorInv, NEW c \in Counts, Present(server[c]), NEW call \in Get \cup Mutation
    PROVE  /\ AnswerOK(Tagged(call, c), server[c])
           /\ call.stage = "tagged" /\ AnswerOK(call, server[c]) => AnswerOK(Read(call, c), server[c])
           /\ call \in Get => Tagged(call, c) \in Get
           /\ call \in Mutation => Tagged(call, c) \in Mutation
           /\ call.stage = "tagged" /\ AnswerOK(call, server[c]) =>
                 /\ call \in Get => Read(call, c) \in Get
                 /\ call \in Mutation => Read(call, c) \in Mutation
<1>1. /\ Lines(c) \in Content /\ server[c] \in CountRow
      /\ Lines(c) = server[c].history[Len(server[c].history)]
      /\ Len(server[c].history) \in DOMAIN server[c].history
      /\ Len(server[c].history) \in Nat \ {0}
  BY ReadsLines DEF EditorInv
<1>2. revision(c) \in Nat /\ revision(c) = Len(server[c].history) - 1
  BY <1>1 DEF revision
<1>3. server[c].status \in {"draft", "posted"}
  BY <1>1 DEF CountRow, Present
<1> DEFINE header == [status |-> server[c].status, lines |-> {}]
<1>4. header \in Representation
  BY <1>3 DEF Representation
<1> HIDE DEF header
<1>5. Tagged(call, c) = [call EXCEPT !.stage = "tagged", !.tag = revision(c), !.data = header]
  BY DEF Tagged, header
<1>6. /\ Tagged(call, c).stage = "tagged" /\ Tagged(call, c).tag = revision(c)
      /\ Tagged(call, c).data = header
      /\ call \in Get => Tagged(call, c) \in Get
      /\ call \in Mutation => Tagged(call, c) \in Mutation
  <2> DEFINE tag == revision(c)
  <2>0. tag \in Int /\ Tagged(call, c) = [call EXCEPT !.stage = "tagged", !.tag = tag, !.data = header]
    BY <1>2, <1>5
  <2> HIDE DEF tag
  <2>1. ASSUME call \in Get PROVE Tagged(call, c) \in Get
    BY <1>4, <2>0, <2>1 DEF Get
  <2>2. ASSUME call \in Mutation PROVE Tagged(call, c) \in Mutation
    BY <1>4, <2>0, <2>2 DEF Mutation
  <2>3. /\ Tagged(call, c).stage = "tagged" /\ Tagged(call, c).tag = revision(c)
        /\ Tagged(call, c).data = header
    <3>1. CASE call \in Get
      BY <1>5, <3>1 DEF Get
    <3>2. CASE call \in Mutation
      BY <1>5, <3>2 DEF Mutation
    <3> QED BY <3>1, <3>2
  <2> QED BY <2>1, <2>2, <2>3
<1>7. AnswerOK(Tagged(call, c), server[c])
  BY <1>1, <1>2, <1>4, <1>6 DEF AnswerOK
<1>8. ASSUME call.stage = "tagged", AnswerOK(call, server[c])
      PROVE  /\ AnswerOK(Read(call, c), server[c])
             /\ call \in Get => Read(call, c) \in Get
             /\ call \in Mutation => Read(call, c) \in Mutation
  <2>1. call.tag \in 0 .. Len(server[c].history) - 1 /\ call.data \in Representation
    BY <1>8 DEF AnswerOK
  <2> DEFINE data == [call.data EXCEPT !.lines = Lines(c)]
  <2>2. data \in Representation /\ data.lines = Lines(c)
    BY <1>1, <2>1 DEF Representation, Content
  <2> HIDE DEF data
  <2>3. Read(call, c) = [call EXCEPT !.stage = "ready", !.data = data]
    <3>1. CASE call \in Get
      BY <3>1 DEF Read, data, Get
    <3>2. CASE call \in Mutation
      BY <3>2 DEF Read, data, Mutation
    <3> QED BY <3>1, <3>2
  <2>4. /\ Read(call, c).stage = "ready" /\ Read(call, c).tag = call.tag
        /\ Read(call, c).data = data
    <3>1. CASE call \in Get
      BY <2>2, <2>3, <3>1 DEF Get
    <3>2. CASE call \in Mutation
      BY <2>2, <2>3, <3>2 DEF Mutation
    <3> QED BY <3>1, <3>2
  <2>6. ASSUME call \in Get PROVE Read(call, c) \in Get
    BY <2>2, <2>3, <2>6 DEF Get
  <2>7. ASSUME call \in Mutation PROVE Read(call, c) \in Mutation
    BY <2>2, <2>3, <2>7 DEF Mutation
  <2>5. ShownIn(server[c], Lines(c), call.tag)
    BY <1>1, <2>1 DEF ShownIn
  <2> QED BY <2>1, <2>2, <2>4, <2>5, <2>6, <2>7 DEF AnswerOK
<1> QED BY <1>6, <1>7, <1>8

\* A retrieval reads on. (_detail)
LEMMA RetrieveKeeps ==
    ASSUME EditorInv, NEW c \in Counts, Retrieve(c)
    PROVE  EditorInv'
<1>0. /\ EditorShape /\ get[c] \in Get /\ GetOK(get[c], server[c])
      /\ UNCHANGED <<server, cache, tags, editor, edits, write>>
  BY DEF EditorInv, EditorShape, Retrieve, browserVars
<1>1. Present(server[c])
  BY <1>0 DEF Retrieve, GetOK
<1>2. /\ get' = [get EXCEPT ![c] = get'[c]] /\ get'[c] \in Get
      /\ get'[c].stage # "idle" /\ AnswerOK(get'[c], server[c])
  <2>1. CASE get' = [get EXCEPT ![c] = Tagged(get[c], c)]
    <3>1. get'[c] = Tagged(get[c], c)
      BY <1>0, <2>1 DEF EditorShape
    <3>2. Tagged(get[c], c).stage = "tagged"
      BY <1>0 DEF Tagged, Get
    <3> QED BY <1>0, <1>1, <2>1, <3>1, <3>2, AnswerReads
  <2>2. CASE get[c].stage = "tagged" /\ get' = [get EXCEPT ![c] = Read(get[c], c)]
    <3>1. get'[c] = Read(get[c], c)
      BY <1>0, <2>2 DEF EditorShape
    <3>2. Read(get[c], c).stage = "ready"
      BY <1>0 DEF Read, Get
    <3>3. AnswerOK(get[c], server[c])
      BY <1>0 DEF GetOK
    <3> QED BY <1>0, <1>1, <2>2, <3>1, <3>2, <3>3, AnswerReads
  <2> QED BY <2>1, <2>2 DEF Retrieve
<1>3. \A d \in Counts : GetOK(get'[d], server[d])
  BY <1>0, <1>1, <1>2 DEF EditorInv, GetOK, EditorShape
<1>4. EditorShape'
  BY <1>0, <1>2 DEF EditorShape
<1>5. ReloadHasARequest'
  <2>1. editor.reloading => editor.page \in Counts /\ get[editor.page].stage # "idle"
    BY DEF EditorInv, ReloadHasARequest, PageOK, EditorShape, Editor
  <2> QED BY <1>0, <1>2, <2>1 DEF ReloadHasARequest, EditorShape
<1>6. PageOK' /\ WriteOK'
  BY <1>0 DEF EditorInv, PageOK, WriteOK
<1> QED BY <1>0, <1>3, <1>4, <1>5, <1>6 DEF EditorInv

\* The answer of a mutation reads on. (_detail)
LEMMA RenderKeeps ==
    ASSUME EditorInv, Render
    PROVE  EditorInv'
<1> DEFINE t == write.target
<1>0. /\ EditorShape /\ write \in Mutation /\ t \in Counts /\ Present(server[t])
      /\ SentOK(write, server[write.count]) /\ AnswerOK(write, server[t])
      /\ UNCHANGED <<server, cache, tags, editor, edits, get>>
  BY DEF EditorInv, EditorShape, Render, browserVars, WriteOK, Mutation
<1>1. /\ write' \in Mutation /\ write'.target = t /\ AnswerOK(write', server[t])
      /\ write'.stage \in {"tagged", "ready"} /\ write.stage \in {"done", "tagged"}
      /\ write'.count = write.count /\ write'.kind = write.kind
      /\ write'.fetched = write.fetched /\ write'.lines = write.lines
  <2>1. CASE write.stage = "done" /\ write' = Tagged(write, t)
    <3>1. /\ Tagged(write, t).stage = "tagged" /\ Tagged(write, t).target = t
          /\ Tagged(write, t).count = write.count /\ Tagged(write, t).kind = write.kind
          /\ Tagged(write, t).fetched = write.fetched /\ Tagged(write, t).lines = write.lines
      BY <1>0 DEF Tagged, Mutation
    <3> QED BY <1>0, <2>1, <3>1, AnswerReads
  <2>2. CASE write.stage = "tagged" /\ write' = Read(write, t)
    <3>1. /\ Read(write, t).stage = "ready" /\ Read(write, t).target = t
          /\ Read(write, t).count = write.count /\ Read(write, t).kind = write.kind
          /\ Read(write, t).fetched = write.fetched /\ Read(write, t).lines = write.lines
      BY <1>0 DEF Read, Mutation
    <3> QED BY <1>0, <2>2, <3>1, AnswerReads
  <2> QED BY <2>1, <2>2 DEF Render
<1>2. SentOK(write', server[write'.count])
  BY <1>0, <1>1 DEF SentOK
<1>3. WriteOK'
  BY <1>0, <1>1, <1>2 DEF WriteOK
<1>4. EditorShape'
  BY <1>0, <1>1 DEF EditorShape
<1> QED BY <1>0, <1>3, <1>4 DEF EditorInv, PageOK, ReloadHasARequest

-----------------------------------------------------------------------------
(* Answers: what they leave in the store, the cache and the editor *)

\* An editor in its relation to the count it shows and to what the tab keeps of it.
EditorOK(e, kept) ==
    /\ e.page # Elsewhere => Present(server[e.page])
    /\ e.reloading => e.page # Elsewhere
    /\ e.mounted => e.page # Elsewhere /\ e.version \in Nat /\ kept[e.page] # NoData
    /\ e.mounted /\ e.fetched =>
          /\ CoversIn(server[e.page], e.rows, e.version)
          /\ ~e.dirty => ShownIn(server[e.page], e.rows, e.version)

LEMMA PageIs ==
    /\ PageOK <=> EditorOK(editor, cache)
    /\ UNCHANGED server => (PageOK' <=> EditorOK(editor', cache'))
BY DEF PageOK, EditorOK

\* What was shown exactly is covered.
LEMMA ShownIsCovered ==
    ASSUME NEW row, NEW lines, NEW v, ShownIn(row, lines, v)
    PROVE  CoversIn(row, lines, v)
BY DEF ShownIn, CoversIn

LEMMA NoEditorIs ==
    /\ NoEditor \in Editor /\ NoEditor.page = Elsewhere /\ ~NoEditor.mounted /\ ~NoEditor.reloading
    /\ \A c \in Counts : LET e == [NoEditor EXCEPT !.page = c] IN
          e \in Editor /\ e.page = c /\ ~e.mounted /\ ~e.reloading
<1>1. NoEditor \in Editor /\ NoEditor.page = Elsewhere /\ ~NoEditor.mounted /\ ~NoEditor.reloading
  BY DEF NoEditor, Editor
<1>2. ASSUME NEW c \in Counts
      PROVE  LET e == [NoEditor EXCEPT !.page = c] IN
             e \in Editor /\ e.page = c /\ ~e.mounted /\ ~e.reloading
  BY <1>1 DEF Editor
<1> QED BY <1>1, <1>2

LEMMA MountedIs ==
    ASSUME NEW c \in Counts, NEW data \in Representation, NEW tag \in Int, NEW fetched \in BOOLEAN
    PROVE  LET e == Mounted(c, data, tag, fetched) IN
           /\ e \in Editor /\ e.page = c /\ e.mounted /\ e.rows = data.lines /\ e.version = tag
           /\ ~e.dirty /\ ~e.reloading /\ e.fetched = fetched
BY DEF Mounted, NoEditor, Editor, Representation

\* The editor takes rows and version from one answer.
LEMMA AcceptedFits ==
    ASSUME NEW c \in Counts, Present(server[c]), NEW data \in Representation, NEW tag \in Nat,
           ShownIn(server[c], data.lines, tag), NEW kept, kept[c] # NoData
    PROVE  LET e == Accepted(c, data, tag) IN e \in Editor /\ ~e.reloading /\ EditorOK(e, kept)
<1> DEFINE e == Accepted(c, data, tag)
<1>1. /\ e \in Editor /\ e.page = c /\ e.mounted /\ e.rows = data.lines /\ e.version = tag
      /\ ~e.reloading
  <2>1. data.lines \in SUBSET Edits
    BY DEF Representation
  <2>2. e = [NoEditor EXCEPT !.page = c, !.mounted = TRUE, !.rows = data.lines,
                             !.version = tag, !.fetched = TRUE]
    BY DEF Accepted, Mounted
  <2> HIDE DEF e
  <2>3. tag \in Int /\ NoEditor \in Editor /\ ~NoEditor.reloading
    BY NoEditorIs
  <2>4. e \in Editor
    BY <2>1, <2>2, <2>3 DEF Editor
  <2>5. e.page = c /\ e.mounted /\ e.rows = data.lines /\ e.version = tag
    BY <2>2, <2>3 DEF Editor
  <2>6. ~e.reloading
    BY <2>2, <2>3 DEF Editor
  <2> QED BY <2>4, <2>5, <2>6
<1> HIDE DEF e
<1>2. CoversIn(server[c], data.lines, tag)
  BY ShownIsCovered
<1>3. EditorOK(e, kept)
  BY <1>1, <1>2, EditorAssumption DEF EditorOK
<1> QED BY <1>1, <1>3 DEF e

\* Opening the page of a count takes the rows from the cache: no claim on them.
LEMMA OpenedFits ==
    ASSUME NEW c \in Counts, Present(server[c]), EditorShape, NEW tag \in Int,
           cache[c] # NoData => tag \in Nat
    PROVE  LET e == Opened(c, tag) IN e \in Editor /\ ~e.reloading /\ EditorOK(e, cache)
<1>1. CASE cache[c] = NoData
  BY <1>1, NoEditorIs, EditorAssumption DEF Opened, EditorOK
<1>2. CASE cache[c] # NoData
  <2>1. cache[c] \in Representation
    BY <1>2 DEF EditorShape
  <2> DEFINE e == Mounted(c, cache[c], tag, FALSE)
  <2>2. e \in Editor /\ e.page = c /\ e.mounted /\ e.version = tag /\ ~e.reloading /\ e.fetched = FALSE
    BY <2>1, MountedIs
  <2>3. Opened(c, tag) = e
    BY <1>2 DEF Opened
  <2> HIDE DEF e
  <2> QED BY <1>2, <2>2, <2>3, EditorAssumption DEF EditorOK
<1> QED BY <1>1, <1>2

LEMMA SentIs == Sent \in Get /\ Sent.stage = "sent" /\ NoGet \in Get /\ NoGet.stage = "idle"
BY DEF Sent, NoGet, Get

\* Asking for a count that is there.
LEMMA Asks ==
    ASSUME EditorInv, NEW c \in Counts, Present(server[c]),
           NEW g, g \in {get, [get EXCEPT ![c] = Sent]}
    PROVE  /\ g \in [Counts -> Get]
           /\ \A d \in Counts : GetOK(g[d], server[d]) /\ (get[d].stage # "idle" => g[d].stage # "idle")
<1>1. get \in [Counts -> Get] /\ \A d \in Counts : GetOK(get[d], server[d])
  BY DEF EditorInv, EditorShape
<1>2. GetOK(Sent, server[c])
  BY SentIs DEF GetOK, AnswerOK
<1> QED BY <1>1, <1>2, SentIs

LEMMA RefetchedAsks ==
    ASSUME NEW c \in Counts
    PROVE  Refetched(c) \in {get, [get EXCEPT ![c] = Sent]}
           /\ \A g \in OpenGets(c) : g \in {get, [get EXCEPT ![c] = Sent]}
BY DEF Refetched, OpenGets

\* A step of the tab: the counts stay, and each thing it holds fits them.
LEMMA TabStep ==
    ASSUME EditorInv, UNCHANGED server, edits' \in 0 .. MaxEdits,
           get' \in [Counts -> Get], \A c \in Counts : GetOK(get'[c], server[c]),
           cache' \in [Counts -> Representation \cup {NoData}], tags' \in [Counts -> Int],
           \A c \in Counts : KeptOK(cache'[c], tags'[c]),
           editor' \in Editor, EditorOK(editor', cache'),
           editor'.reloading => get'[editor'.page].stage # "idle",
           write' \in Mutation, WriteOK'
    PROVE  EditorInv'
<1>1. PageOK'
  BY PageIs
<1> QED BY <1>1 DEF EditorInv, EditorShape, ReloadHasARequest

LEMMA NoWriteIs ==
    /\ NoWrite \in Mutation /\ NoWrite.count = First /\ NoWrite.target = First
    /\ NoWrite.stage = "idle" /\ NoWrite.kind = "save"
BY EditorAssumption DEF NoWrite, Mutation

LEMMA NoWriteFits ==
    ASSUME EditorInv, UNCHANGED server, write' = NoWrite
    PROVE  write' \in Mutation /\ WriteOK'
BY NoWriteIs DEF EditorInv, WriteOK, SentOK, AnswerOK

\* The user, or the browser, asks for the page's count again.
LEMMA RefocusKeeps ==
    ASSUME EditorInv, Refocus
    PROVE  EditorInv'
<1>0. editor.page \in Counts /\ Present(server[editor.page])
      /\ UNCHANGED <<server, cache, tags, editor, edits, write>>
  BY DEF EditorInv, PageOK, EditorShape, Editor, Refocus, browserVars
<1>1. get' \in {get, [get EXCEPT ![editor.page] = Sent]}
  BY <1>0, RefetchedAsks DEF Refocus
<1>2. get' \in [Counts -> Get] /\ \A c \in Counts : GetOK(get'[c], server[c])
      /\ (get[c].stage # "idle" => get'[c].stage # "idle")
  BY <1>0, <1>1, Asks
<1>3. EditorShape' /\ WriteOK' /\ PageOK' /\ ReloadHasARequest'
  BY <1>0, <1>2 DEF EditorInv, EditorShape, WriteOK, PageOK, ReloadHasARequest
<1> QED BY <1>0, <1>2, <1>3 DEF EditorInv

\* The callbacks of a mutation die; what it sent does not change.
LEMMA AbandonedFits ==
    ASSUME EditorInv, UNCHANGED server, write' = Abandoned
    PROVE  write' \in Mutation /\ WriteOK'
<1>1. /\ write' \in Mutation /\ write'.count = write.count /\ write'.target = write.target
      /\ write'.stage = write.stage /\ write'.kind = write.kind /\ write'.lines = write.lines
      /\ write'.fetched = write.fetched /\ write'.ifMatch = write.ifMatch
      /\ write'.tag = write.tag /\ write'.data = write.data
  BY DEF EditorInv, EditorShape, Mutation, Abandoned
<1> QED BY <1>1 DEF EditorInv, WriteOK, SentOK, AnswerOK

\* The page of a count is opened. (StocktakeDetailPage)
LEMMA OpenKeeps ==
    ASSUME EditorInv, NEW c \in Counts, Open(c)
    PROVE  EditorInv'
<1>0. /\ EditorShape /\ Present(server[c]) /\ UNCHANGED <<server, cache, tags, edits>>
      /\ write' = Abandoned /\ editor' = Opened(c, tags[c])
      /\ get' \in {get, [get EXCEPT ![c] = Sent]}
      /\ \A d \in Counts : KeptOK(cache[d], tags[d])
      /\ tags[c] \in Int
  BY RefetchedAsks DEF EditorInv, EditorShape, Present, Open
<1>1. get' \in [Counts -> Get] /\ \A d \in Counts : GetOK(get'[d], server[d])
  BY <1>0, Asks
<1>2. editor' \in Editor /\ ~editor'.reloading /\ EditorOK(editor', cache)
  BY <1>0, OpenedFits DEF KeptOK
<1>3. write' \in Mutation /\ WriteOK'
  BY <1>0, AbandonedFits
<1> QED BY <1>0, <1>1, <1>2, <1>3, TabStep DEF EditorShape

\* The page is left, its callbacks with it.
LEMMA LeaveKeeps ==
    ASSUME EditorInv, Leave
    PROVE  EditorInv'
<1>0. /\ EditorShape /\ UNCHANGED <<server, cache, tags, edits, get>>
      /\ write' = Abandoned /\ editor' = NoEditor
      /\ \A d \in Counts : KeptOK(cache[d], tags[d]) /\ GetOK(get[d], server[d])
  BY DEF EditorInv, Leave
<1>1. NoEditor \in Editor /\ ~NoEditor.reloading /\ EditorOK(NoEditor, cache)
  BY NoEditorIs DEF EditorOK
<1>2. write' \in Mutation /\ WriteOK'
  BY <1>0, AbandonedFits
<1> QED BY <1>0, <1>1, <1>2, TabStep DEF EditorShape

\* An edit only adds to the rows, and they are no longer what was fetched.
LEMMA EditKeeps ==
    ASSUME EditorInv, Edit
    PROVE  EditorInv'
<1>0. /\ EditorShape /\ editor \in Editor /\ UNCHANGED <<server, cache, tags, get, write>>
      /\ EditorOK(editor, cache) /\ edits' = edits + 1 /\ edits < MaxEdits
      /\ editor' = [editor EXCEPT !.rows = editor.rows \cup {edits'}, !.dirty = TRUE]
      /\ (editor.reloading => get[editor.page].stage # "idle") /\ WriteOK /\ write \in Mutation
      /\ \A d \in Counts : KeptOK(cache[d], tags[d]) /\ GetOK(get[d], server[d])
  BY PageIs DEF EditorInv, EditorShape, Edit, ReloadHasARequest
<1>1. edits' \in Edits /\ edits' \in 0 .. MaxEdits
  BY <1>0, EditorAssumption DEF EditorShape, Edits
<1>2. /\ editor' \in Editor /\ editor'.page = editor.page /\ editor'.mounted = editor.mounted
      /\ editor.rows \subseteq editor'.rows /\ editor'.version = editor.version /\ editor'.dirty
      /\ editor'.reloading = editor.reloading /\ editor'.fetched = editor.fetched
  BY <1>0, <1>1 DEF Editor
<1>3. CoversIn(server[editor.page], editor.rows, editor.version)
         => CoversIn(server[editor.page], editor'.rows, editor.version)
  BY <1>2 DEF CoversIn
<1>4. EditorOK(editor', cache)
  BY <1>0, <1>2, <1>3 DEF EditorOK
<1>5. WriteOK'
  BY <1>0 DEF WriteOK
<1> QED BY <1>0, <1>1, <1>2, <1>4, <1>5, TabStep DEF EditorShape

\* A mutation is sent with the rows of the screen and the version beside them; only
\* rows that are not dirty are posted. (save, post, correct)
LEMMA SendKeeps ==
    ASSUME EditorInv, Save \/ Post \/ Correct
    PROVE  EditorInv'
<1>0. /\ EditorShape /\ editor \in Editor /\ UNCHANGED <<server, cache, tags, get, editor, edits>>
      /\ EditorOK(editor, cache) /\ editor.mounted
      /\ (editor.reloading => get[editor.page].stage # "idle")
      /\ \A d \in Counts : KeptOK(cache[d], tags[d]) /\ GetOK(get[d], server[d])
  BY PageIs DEF EditorInv, EditorShape, Save, Post, Correct, Send, Usable, ReloadHasARequest
<1>1. editor.page \in Counts /\ Present(server[editor.page])
  BY <1>0 DEF EditorOK, Editor
<1>2. PICK kind \in {"save", "post", "correct"} : Send(kind) /\ (kind = "post" => ~editor.dirty)
  BY DEF Save, Post, Correct
<1>3. write' = [NoWrite EXCEPT !.stage = "sent", !.kind = kind,
                               !.count = editor.page, !.target = editor.page,
                               !.ifMatch = editor.version, !.lines = editor.rows,
                               !.fetched = editor.fetched, !.mounted = TRUE]
  BY <1>2 DEF Send, IfMatch
<1>4. /\ write' \in Mutation /\ write'.stage = "sent" /\ write'.kind = kind
      /\ write'.count = editor.page /\ write'.target = editor.page
      /\ write'.ifMatch = editor.version /\ write'.lines = editor.rows
      /\ write'.fetched = editor.fetched
  <2>1. NoWrite \in Mutation
    BY NoWriteIs
  <2>2. editor.version \in Int /\ editor.rows \in SUBSET Edits /\ editor.fetched \in BOOLEAN
    BY <1>0 DEF Editor
  <2> QED BY <1>1, <1>3, <2>1, <2>2 DEF Mutation
<1>5. WriteOK'
  BY <1>0, <1>1, <1>2, <1>4 DEF WriteOK, SentOK, AnswerOK, EditorOK
<1> QED BY <1>0, <1>4, <1>5, TabStep DEF EditorShape

\* The user in conflict asks for the saved count.
LEMMA ReloadKeeps ==
    ASSUME EditorInv, ReloadSaved
    PROVE  EditorInv'
<1>0. /\ EditorShape /\ editor \in Editor /\ UNCHANGED <<server, cache, tags, write, edits>>
      /\ EditorOK(editor, cache) /\ editor.mounted /\ WriteOK /\ write \in Mutation
      /\ editor' = [editor EXCEPT !.reloading = TRUE]
      /\ get' = [get EXCEPT ![editor.page] = Sent]
      /\ \A d \in Counts : KeptOK(cache[d], tags[d])
  BY PageIs DEF EditorInv, EditorShape, ReloadSaved
<1>1. editor.page \in Counts /\ Present(server[editor.page])
  BY <1>0 DEF EditorOK, Editor
<1>2. get' \in [Counts -> Get] /\ \A d \in Counts : GetOK(get'[d], server[d])
  BY <1>0, <1>1, Asks
<1>3. /\ editor' \in Editor /\ editor'.page = editor.page /\ editor'.mounted
      /\ editor'.rows = editor.rows /\ editor'.version = editor.version
      /\ editor'.dirty = editor.dirty /\ editor'.fetched = editor.fetched
  BY <1>0 DEF Editor
<1>4. EditorOK(editor', cache)
  BY <1>0, <1>3 DEF EditorOK
<1>5. get'[editor'.page].stage = "sent"
  BY <1>0, <1>1, <1>3, SentIs DEF EditorShape
<1>6. WriteOK'
  BY <1>0 DEF WriteOK
<1> QED BY <1>0, <1>2, <1>3, <1>4, <1>5, <1>6, TabStep DEF EditorShape

\* The answer of a retrieval: its tag is stored, and the editor may take it.
LEMMA GetAnsweredKeeps ==
    ASSUME EditorInv, NEW c \in Counts, GetAnswered(c)
    PROVE  EditorInv'
<1> DEFINE data == get[c].data
           tag == get[c].tag
<1>0. /\ EditorShape /\ get[c].stage = "ready" /\ UNCHANGED <<server, write, edits>>
      /\ get' = [get EXCEPT ![c] = NoGet] /\ cache' = [cache EXCEPT ![c] = data]
      /\ tags' = [tags EXCEPT ![c] = tag]
      /\ editor' = IF editor.page = c /\ (~editor.mounted \/ editor.reloading)
                   THEN Accepted(c, data, tag) ELSE editor
      /\ WriteOK /\ write \in Mutation /\ EditorOK(editor, cache)
      /\ (editor.reloading => get[editor.page].stage # "idle")
      /\ \A d \in Counts : KeptOK(cache[d], tags[d]) /\ GetOK(get[d], server[d])
  BY PageIs DEF EditorInv, EditorShape, GetAnswered, Captured, ReloadHasARequest
<1>1. data \in Representation /\ tag \in Nat /\ ShownIn(server[c], data.lines, tag) /\ Present(server[c])
  BY <1>0 DEF GetOK, AnswerOK
<1>2. get' \in [Counts -> Get] /\ \A d \in Counts : GetOK(get'[d], server[d])
  BY <1>0, SentIs DEF EditorShape, GetOK, AnswerOK
<1>3. /\ cache' \in [Counts -> Representation \cup {NoData}] /\ tags' \in [Counts -> Int]
      /\ \A d \in Counts : KeptOK(cache'[d], tags'[d])
      /\ cache'[c] # NoData /\ \A d \in Counts : cache[d] # NoData => cache'[d] # NoData
  BY <1>0, <1>1, NoDataAssumption DEF EditorShape, KeptOK
<1>4. editor' \in Editor /\ EditorOK(editor', cache')
      /\ (editor'.reloading => get'[editor'.page].stage # "idle")
  <2>1. CASE editor.page = c /\ (~editor.mounted \/ editor.reloading)
    <3>1. editor' = Accepted(c, data, tag)
      BY <1>0, <2>1
    <3> QED BY <1>1, <1>3, <3>1, AcceptedFits
  <2>2. CASE ~(editor.page = c /\ (~editor.mounted \/ editor.reloading))
    <3>1. editor' = editor /\ editor \in Editor
      BY <1>0, <2>2 DEF EditorShape
    <3>2. editor.reloading => editor.page \in Counts /\ editor.page # c
      BY <1>0, <2>2, <3>1 DEF EditorOK, Editor
    <3>3. editor.mounted => editor.page \in Counts
      BY <1>0, <3>1 DEF EditorOK, Editor
    <3> QED BY <1>0, <1>3, <3>1, <3>2, <3>3 DEF EditorOK, EditorShape
  <2> QED BY <2>1, <2>2
<1>5. WriteOK'
  BY <1>0 DEF WriteOK
<1> QED BY <1>0, <1>2, <1>3, <1>4, <1>5, TabStep DEF EditorShape

\* A retrieval is lost: whoever waited for it no longer does.
LEMMA GetLostKeeps ==
    ASSUME EditorInv, NEW c \in Counts, GetLost(c)
    PROVE  EditorInv'
<1>0. /\ EditorShape /\ UNCHANGED <<server, cache, tags, write, edits>>
      /\ get' = [get EXCEPT ![c] = NoGet] /\ editor \in Editor
      /\ editor' = IF editor.page = c THEN Released(editor) ELSE editor
      /\ WriteOK /\ write \in Mutation /\ EditorOK(editor, cache)
      /\ (editor.reloading => get[editor.page].stage # "idle")
      /\ \A d \in Counts : KeptOK(cache[d], tags[d]) /\ GetOK(get[d], server[d])
  BY PageIs DEF EditorInv, EditorShape, GetLost, ReloadHasARequest
<1>2. get' \in [Counts -> Get] /\ \A d \in Counts : GetOK(get'[d], server[d])
  BY <1>0, SentIs DEF EditorShape, GetOK, AnswerOK
<1>3. /\ editor' \in Editor /\ editor'.page = editor.page /\ editor'.mounted = editor.mounted
      /\ editor'.rows = editor.rows /\ editor'.version = editor.version
      /\ editor'.dirty = editor.dirty /\ editor'.fetched = editor.fetched
      /\ editor'.reloading => editor.reloading /\ editor.page # c
  BY <1>0 DEF Released, Editor
<1>4. EditorOK(editor', cache)
  BY <1>0, <1>3 DEF EditorOK
<1>5. editor'.reloading => get'[editor'.page].stage # "idle"
  <2>1. editor'.reloading => editor.page \in Counts
    BY <1>0, <1>3 DEF EditorOK, Editor
  <2> QED BY <1>0, <1>3, <2>1 DEF EditorShape
<1>6. WriteOK'
  BY <1>0 DEF WriteOK
<1> QED BY <1>0, <1>2, <1>3, <1>4, <1>5, <1>6, TabStep DEF EditorShape

\* The answer of a mutation: its tag is stored whoever waits; the editor takes it, or
\* the tab goes to the correction.
LEMMA WriteAnsweredKeeps ==
    ASSUME EditorInv, WriteAnswered
    PROVE  EditorInv'
<1> DEFINE d == write.target
           data == write.data
           tag == write.tag
<1>0. /\ EditorShape /\ write.stage = "ready" /\ UNCHANGED <<server, edits>>
      /\ tags' = [tags EXCEPT ![d] = tag] /\ write' = NoWrite
      /\ EditorOK(editor, cache) /\ editor \in Editor
      /\ (editor.reloading => get[editor.page].stage # "idle")
      /\ \A c \in Counts : KeptOK(cache[c], tags[c]) /\ GetOK(get[c], server[c])
      /\ Present(server[First])
  BY PageIs DEF EditorInv, EditorShape, WriteAnswered, Captured, ReloadHasARequest
<1>1. /\ d \in Counts /\ Present(server[d]) /\ data \in Representation /\ tag \in Nat
      /\ ShownIn(server[d], data.lines, tag)
  BY <1>0 DEF EditorInv, WriteOK, AnswerOK, EditorShape, Mutation
<1>2. write' \in Mutation /\ WriteOK'
  BY <1>0, NoWriteFits
<1>3. tags' \in [Counts -> Int] /\ \A c \in Counts : KeptOK(cache[c], tags'[c])
  BY <1>0, <1>1 DEF EditorShape, KeptOK
<1>4. CASE UNCHANGED <<cache, editor, get>>
  BY <1>0, <1>2, <1>3, <1>4, TabStep DEF EditorShape
<1>5. CASE cache' = [cache EXCEPT ![d] = data] /\ editor' = Accepted(d, data, tags'[d]) /\ UNCHANGED get
  <2>1. /\ cache' \in [Counts -> Representation \cup {NoData}] /\ cache'[d] # NoData
        /\ \A c \in Counts : KeptOK(cache'[c], tags'[c])
    BY <1>0, <1>1, <1>3, <1>5, NoDataAssumption DEF EditorShape, KeptOK
  <2>2. editor' = Accepted(d, data, tag)
    BY <1>0, <1>1, <1>5 DEF EditorShape
  <2>3. editor' \in Editor /\ ~editor'.reloading /\ EditorOK(editor', cache')
    BY <1>1, <2>1, <2>2, AcceptedFits
  <2> QED BY <1>0, <1>2, <1>3, <1>5, <2>1, <2>3, TabStep DEF EditorShape
<1>6. CASE editor' = Opened(d, tags'[d]) /\ (\E g \in OpenGets(d) : get' = g) /\ UNCHANGED cache
  <2>1. editor' = Opened(d, tag) /\ tag \in Int
    BY <1>0, <1>1, <1>6 DEF EditorShape
  <2>2. editor' \in Editor /\ ~editor'.reloading /\ EditorOK(editor', cache)
    BY <1>0, <1>1, <2>1, OpenedFits
  <2>3. get' \in {get, [get EXCEPT ![d] = Sent]}
    BY <1>1, <1>6, RefetchedAsks
  <2>4. get' \in [Counts -> Get] /\ \A c \in Counts : GetOK(get'[c], server[c])
    BY <1>1, <2>3, Asks
  <2> QED BY <1>0, <1>2, <1>3, <1>6, <2>2, <2>4, TabStep DEF EditorShape
<1> QED BY <1>4, <1>5, <1>6 DEF WriteAnswered

\* A mutation refused or lost: the count is asked for again.
LEMMA WriteFailedKeeps ==
    ASSUME EditorInv, NEW conflict \in BOOLEAN, WriteFailed(conflict)
    PROVE  EditorInv'
<1>0. /\ EditorShape /\ UNCHANGED <<server, cache, tags, edits>> /\ write' = NoWrite
      /\ EditorOK(editor, cache) /\ editor \in Editor
      /\ (editor.reloading => get[editor.page].stage # "idle")
      /\ \A c \in Counts : KeptOK(cache[c], tags[c]) /\ GetOK(get[c], server[c])
      /\ Present(server[First]) /\ write.count \in Counts /\ Present(server[write.count])
  BY PageIs DEF EditorInv, EditorShape, WriteFailed, ReloadHasARequest, WriteOK, SentOK, Mutation
<1>1. write' \in Mutation /\ WriteOK'
  BY <1>0, NoWriteFits
<1>2. get' \in {get, [get EXCEPT ![write.count] = Sent]}
  BY DEF WriteFailed
<1>3. /\ get' \in [Counts -> Get]
      /\ \A c \in Counts : GetOK(get'[c], server[c]) /\ (get[c].stage # "idle" => get'[c].stage # "idle")
  BY <1>0, <1>2, Asks
<1>4. editor' \in {editor, [editor EXCEPT !.conflicted = conflict]}
  BY DEF WriteFailed
<1>5. /\ editor' \in Editor /\ editor'.page = editor.page /\ editor'.mounted = editor.mounted
      /\ editor'.rows = editor.rows /\ editor'.version = editor.version
      /\ editor'.dirty = editor.dirty /\ editor'.fetched = editor.fetched
      /\ editor'.reloading = editor.reloading
  BY <1>0, <1>4 DEF Editor
<1>6. EditorOK(editor', cache)
  BY <1>0, <1>5 DEF EditorOK
<1>7. editor'.reloading => get'[editor'.page].stage # "idle"
  <2>1. editor'.reloading => editor.page \in Counts
    BY <1>0, <1>5 DEF EditorOK, Editor
  <2> QED BY <1>0, <1>3, <1>5, <2>1
<1> QED BY <1>0, <1>1, <1>3, <1>5, <1>6, <1>7, TabStep DEF EditorShape

-----------------------------------------------------------------------------
(* The invariant, and what it says *)

LEMMA InitEditorInv == EditorInit => EditorInv
<1> SUFFICES ASSUME EditorInit PROVE EditorInv
  OBVIOUS
<1>1. \A c \in Counts : server[c] \in CountRow /\ CountOK(server[c])
  BY EditorAssumption DEF EditorInit, CountRow, CountOK, Present
<1>2. server \in [Counts -> CountRow] /\ Present(server[First])
  BY <1>1, EditorAssumption DEF EditorInit, Present
<1>3. EditorShape
  <2>1. edits \in 0 .. MaxEdits
    BY EditorAssumption DEF EditorInit
  <2>2. editor \in Editor /\ write \in Mutation /\ get \in [Counts -> Get]
    BY NoEditorIs, SentIs, NoWriteIs DEF EditorInit
  <2>3. cache \in [Counts -> Representation \cup {NoData}] /\ tags \in [Counts -> Int]
    BY DEF EditorInit
  <2> QED BY <1>2, <2>1, <2>2, <2>3 DEF EditorShape
<1>4. \A c \in Counts : GetOK(get[c], server[c]) /\ KeptOK(cache[c], tags[c])
  BY SentIs DEF EditorInit, GetOK, AnswerOK, KeptOK
<1>5. PageOK /\ ReloadHasARequest
  BY NoEditorIs DEF EditorInit, PageOK, ReloadHasARequest
<1>6. WriteOK
  BY <1>2, NoWriteIs DEF EditorInit, WriteOK, SentOK, AnswerOK
<1> QED BY <1>1, <1>2, <1>3, <1>4, <1>5, <1>6 DEF EditorInv

LEMMA NextEditorInv == EditorInv /\ [EditorNext]_editorVars => EditorInv'
<1> SUFFICES ASSUME EditorInv, [EditorNext]_editorVars PROVE EditorInv'
  OBVIOUS
<1>1. CASE Server
  BY <1>1, CommitKeeps, RenderKeeps, RetrieveKeeps, OtherSessionKeeps DEF Server
<1>2. CASE Answers
  BY <1>2, WriteAnsweredKeeps, WriteFailedKeeps, GetAnsweredKeeps, GetLostKeeps
     DEF Answers, WriteRefused, WriteLost
<1>3. CASE User
  BY <1>3, LeaveKeeps, RefocusKeeps, EditKeeps, SendKeeps, ReloadKeeps, OpenKeeps DEF User
<1>4. CASE UNCHANGED editorVars
  BY <1>4 DEF editorVars, EditorInv, EditorShape, PageOK, WriteOK, ReloadHasARequest
<1> QED BY <1>1, <1>2, <1>3, <1>4 DEF EditorNext

LEMMA EditorInvariance == EditorSpec => []EditorInv
BY InitEditorInv, NextEditorInv, PTL DEF EditorSpec

\* An editor whose rows and version came from one answer never shows, or sends, what
\* is older than the version it names, whatever the order of answers, saves in other
\* tabs and pages left and opened. (_detail, accepted, the ETag store)
THEOREM RowsCoverTheirVersion == EditorSpec => []FetchedRowsCoverTheirVersion
<1>1. EditorInv => FetchedRowsCoverTheirVersion
  BY DEF EditorInv, PageOK, WriteOK, SentOK, FetchedRowsCoverTheirVersion, Covers, CoversIn
<1> QED BY <1>1, EditorInvariance, PTL

\* A post from such an editor posts the rows on its screen, and the acknowledgement of
\* a repeated one speaks of those rows. (post_stocktake)
THEOREM PostsWhatWasReviewed == EditorSpec => []PostedAsReviewed
<1>1. EditorInv => PostedAsReviewed
  BY DEF EditorInv, WriteOK, SentOK, PostedAsReviewed, Lines
<1> QED BY <1>1, EditorInvariance, PTL

\* Whoever renders an editor has the representation and the ETag of its count:
\* snapshotEtag does not throw. (StocktakeDetailPage)
THEOREM EditorTyped == EditorSpec => []EditorTypeOK
<1>1. EditorInv => EditorTypeOK
  BY DEF EditorInv, EditorShape, PageOK, EditorTypeOK
<1> QED BY <1>1, EditorInvariance, PTL

\* An editor whose buttons are disabled for a reload has a request under way whose end
\* enables them. (ReloadSaved, the query's refetch)
THEOREM ReloadIsUnderWay == EditorSpec => []ReloadHasARequest
<1>1. EditorInv => ReloadHasARequest
  BY DEF EditorInv
<1> QED BY <1>1, EditorInvariance, PTL

\* What NoLostUpdate promises of every save and the code keeps for those of an editor
\* whose rows and version came from one answer: the revision it replaces is in it.
SavesKeepEdits ==
    [][\A c \in Counts :
          /\ Commit /\ write.kind = "save" /\ write.fetched
          /\ write.count = c /\ server'[c] # server[c]
          => Lines(c) \subseteq server'[c].history[Len(server'[c].history)]]_editorVars

\* No accepted save of such an editor drops an edit of the revision it replaces.
\* (save_stocktake, require_draft)
THEOREM FetchedSavesLoseNothing == EditorSpec => SavesKeepEdits
<1>1. ASSUME EditorInv, NEW c \in Counts, Commit, write.kind = "save", write.fetched,
             write.count = c, server'[c] # server[c]
      PROVE  Lines(c) \subseteq server'[c].history[Len(server'[c].history)]
  <2>1. /\ EditorShape /\ (\A d \in Counts : CountOK(server[d])) /\ write.lines \in Content
        /\ CoversIn(server[c], write.lines, write.ifMatch) /\ Present(server[c])
    BY <1>1 DEF EditorInv, EditorShape, Mutation, Content, Commit, WriteOK, SentOK
  <2>2. require_draft(c, write.ifMatch) /\ server' = Saved(c, write.lines)
    BY <1>1 DEF Commit, save_stocktake, post_stocktake, correct_stocktake, Refused
  <2>3. server'[c].history[Len(server'[c].history)] = write.lines
    BY <2>1, <2>2, SavedGrows DEF require_draft
  <2>4. /\ Len(server[c].history) \in Nat /\ DOMAIN server[c].history = 1 .. Len(server[c].history)
        /\ Lines(c) = server[c].history[Len(server[c].history)]
    BY <2>1, ReadsLines DEF EditorShape, CountRow
  <2>5. write.ifMatch = Len(server[c].history) - 1
    BY <2>2 DEF require_draft, revision
  <2> QED BY <2>1, <2>3, <2>4, <2>5 DEF CoversIn
<1>2. EditorInv => [\A c \in Counts :
          /\ Commit /\ write.kind = "save" /\ write.fetched
          /\ write.count = c /\ server'[c] # server[c]
          => Lines(c) \subseteq server'[c].history[Len(server'[c].history)]]_editorVars
  BY <1>1
<1> QED BY <1>2, EditorInvariance, PTL DEF SavesKeepEdits
=============================================================================

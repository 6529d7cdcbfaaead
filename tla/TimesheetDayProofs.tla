-------------------------- MODULE TimesheetDayProofs --------------------------
(***************************************************************************)
(* Proofs about TimesheetDay, for every length of the day and of the       *)
(* standard day, and every set of entries, hours, clock times and breaks;  *)
(* and about DayLocks, for any people, office staff, jobs and requests.    *)
(***************************************************************************)
EXTENDS TimesheetDay, DayLocks, WellFoundedInduction, FunctionTheorems,
        FiniteSetTheorems, TLAPS

-----------------------------------------------------------------------------
(* Stretches of a set of slots.                                            *)

\* A set of natural numbers has a least one: what stands in for induction.
LEMMA Least ==
    ASSUME NEW T, T \subseteq Nat, T # {}
    PROVE  \E x \in T : \A y \in T : x <= y
<1> DEFINE R == {ss \in Nat \X Nat : ss[1] < ss[2]}
<1>1. IsWellFoundedOn(R, Nat)
  BY NatLessThanWellFounded DEF OpToRel
<1>2. \A x, y \in Nat : y < x => <<y, x>> \in R
  OBVIOUS
<1> HIDE DEF R
<1>3. PICK x \in T : \A y \in T : ~(<<y, x>> \in R)
  BY <1>1, WFMin
<1>4. ASSUME NEW y \in T PROVE x <= y
  <2>1. ~(<<y, x>> \in R) /\ x \in Nat /\ y \in Nat
    BY <1>3
  <2>2. ~(y < x)
    BY <1>2, <2>1, Zenon
  <2> QED BY <2>1, <2>2
<1> QED BY <1>4

\* Two stretches of a set that meet are one.
LEMMA StretchesApart ==
    ASSUME NEW S, S \subseteq Int, NEW v \in Stretches(S), NEW w \in Stretches(S), v # w
    PROVE  v \cap w = {}
<1>1. PICK a \in S, b \in S : v = a .. b
  BY DEF Stretches
<1>2. PICK c \in S, d \in S : w = c .. d
  BY DEF Stretches
<1>3. /\ v # {} /\ v \subseteq S /\ \A s \in S \ v : s + 1 \notin v /\ s - 1 \notin v
      /\ w # {} /\ w \subseteq S /\ \A s \in S \ w : s + 1 \notin w /\ s - 1 \notin w
  BY DEF Stretches
<1>4. a \in Int /\ b \in Int /\ c \in Int /\ d \in Int /\ a <= b /\ c <= d
  BY <1>1, <1>2, <1>3
<1> SUFFICES ASSUME NEW x \in v, x \in w PROVE FALSE
  OBVIOUS
<1>5. x \in Int /\ a <= x /\ x <= b /\ c <= x /\ x <= d
  BY <1>1, <1>2, <1>4
<1>6. a = c
  <2>1. CASE a < c
    <3>1. c - 1 \in S \ w /\ (c - 1) + 1 = c /\ c \in w
      BY <1>1, <1>2, <1>3, <1>4, <1>5, <2>1
    <3> QED BY <1>3, <3>1
  <2>2. CASE c < a
    <3>1. a - 1 \in S \ v /\ (a - 1) + 1 = a /\ a \in v
      BY <1>1, <1>2, <1>3, <1>4, <1>5, <2>2
    <3> QED BY <1>3, <3>1
  <2> QED BY <1>4, <2>1, <2>2
<1>7. b = d
  <2>1. CASE d < b
    <3>1. d + 1 \in S \ w /\ (d + 1) - 1 = d /\ d \in w
      BY <1>1, <1>2, <1>3, <1>4, <1>5, <2>1
    <3> QED BY <1>3, <3>1
  <2>2. CASE b < d
    <3>1. b + 1 \in S \ v /\ (b + 1) - 1 = b /\ b \in v
      BY <1>1, <1>2, <1>3, <1>4, <1>5, <2>2
    <3> QED BY <1>3, <3>1
  <2> QED BY <1>4, <2>1, <2>2
<1> QED
  BY <1>1, <1>2, <1>6, <1>7

\* Every slot of a bounded set lies in a stretch: the widest there is round it.
LEMMA StretchesCover ==
    ASSUME NEW hi \in Nat, NEW S, S \subseteq 0 .. hi, NEW s \in S
    PROVE  \E w \in Stretches(S) : s \in w
<1>0. s \in Nat /\ s <= hi /\ S \subseteq Nat
  OBVIOUS
<1> DEFINE Below == {t \in Nat : t <= s /\ t .. s \subseteq S}
           Above == {d \in Nat : d <= hi - s /\ s .. (hi - d) \subseteq S}
<1>1. s \in Below /\ hi - s \in Above
  BY <1>0
<1>2. PICK a \in Below : \A t \in Below : a <= t
  <2>1. Below \subseteq Nat /\ Below # {}
    BY <1>1
  <2> HIDE DEF Below
  <2> QED BY <2>1, Least
<1>3. PICK d \in Above : \A t \in Above : d <= t
  <2>1. Above \subseteq Nat /\ Above # {}
    BY <1>1
  <2> HIDE DEF Above
  <2> QED BY <2>1, Least
<1> DEFINE b == hi - d
           w == a .. b
<1>4. /\ a \in Nat /\ b \in Nat /\ d \in Nat /\ a <= s /\ s <= b /\ b <= hi
      /\ a .. s \subseteq S /\ s .. b \subseteq S
  BY <1>0, <1>2, <1>3
<1>5. w \subseteq S /\ w # {} /\ s \in w /\ a \in S /\ b \in S
  BY <1>0, <1>4
<1>6. ASSUME NEW x \in S \ w PROVE x + 1 \notin w /\ x - 1 \notin w
  <2>0. x \in Nat /\ x <= hi /\ x \in S
    BY <1>0
  <2>1. CASE x < a
    <3>1. x + 1 # a
      <4> SUFFICES ASSUME x + 1 = a PROVE FALSE
        OBVIOUS
      <4>1. x .. s \subseteq S
        BY <1>4, <2>0
      <4>2. x \in Below
        BY <1>0, <1>4, <2>0, <4>1
      <4> HIDE DEF Below
      <4> QED BY <1>2, <1>4, <2>0, <2>1, <4>2
    <3> QED BY <1>4, <2>0, <2>1, <3>1
  <2>2. CASE x > b
    <3>1. x - 1 # b
      <4> SUFFICES ASSUME x - 1 = b PROVE FALSE
        OBVIOUS
      <4>1. s .. x \subseteq S
        BY <1>4, <2>0
      <4>2. hi - x \in Nat /\ hi - (hi - x) = x /\ hi - x <= hi - s /\ hi - x < d
        BY <1>0, <1>4, <2>0
      <4>3. hi - x \in Above
        BY <4>1, <4>2
      <4> HIDE DEF Above
      <4> QED BY <1>3, <1>4, <2>0, <4>2, <4>3
    <3> QED BY <1>4, <2>0, <2>2, <3>1
  <2> QED BY <1>4, <2>0, <2>1, <2>2
<1> HIDE DEF w
<1>7. w \in Stretches(S)
  <2>1. w \in {i .. j : i, j \in S}
    BY <1>5 DEF w
  <2> QED BY <1>5, <1>6, <2>1 DEF Stretches
<1> QED BY <1>5, <1>7

-----------------------------------------------------------------------------
(* General work made again.                                                *)

\* The rows there are; Row also bounds their times.
Times_of_day == [in : Nat, out : Nat, sent : BOOLEAN, fill : BOOLEAN, breaksGenerated : BOOLEAN,
                 assumed : {"nothing", "finish", "day"}]

\* That lines are drawn on slots of the day is left open.
Line == [line : Entries \cup {Made}, hours : Nat, on : SUBSET Int, approved : BOOLEAN]
TimeLine == [hours : Nat, on : SUBSET Int, approved : BOOLEAN, swept : BOOLEAN]

\* The day ends, whatever is known of it.
LEMMA GapsBounded ==
    ASSUME NEW r \in Times_of_day, NEW es, NEW bs
    PROVE  \E hi \in Nat : Gaps(r, es, bs) \subseteq 0 .. hi
<1>1. Gaps(r, es, bs) \subseteq Span(r)
  BY DEF Gaps
<1>2. r.in \in Nat /\ r.out \in Nat /\ Finish \in Nat
  BY DayAssumption DEF Times_of_day
<1>3. Span(r) \subseteq 0 .. Finish \/ Span(r) \subseteq 0 .. r.out
  <2>1. CASE ~Clocked(r)
    BY <1>2, <2>1 DEF Span
  <2>2. CASE Clocked(r) /\ r.out # Open
    BY <1>2, <2>2 DEF Span
  <2>3. CASE Clocked(r) /\ r.out = Open /\ GoneBy /\ r.in <= Finish
    BY <1>2, <2>3 DEF Span
  <2>4. CASE Clocked(r) /\ r.out = Open /\ ~(GoneBy /\ r.in <= Finish)
    BY <1>2, <2>4 DEF Span
  <2> QED BY <2>1, <2>2, <2>3, <2>4
<1> QED BY <1>1, <1>2, <1>3

\* Lines over the stretches of a set fill that set, each slot once.
LEMMA LinesOverStretches ==
    ASSUME NEW hi \in Nat, NEW S, S \subseteq 0 .. hi
    PROVE  LET lines == Making(S) IN
           Filled(lines) = S /\ LinesApart(lines) /\ AllDrawn(lines) /\ lines \subseteq Line
<1> DEFINE lines == Making(S)
           line(w) == [line |-> Made, hours |-> Cardinality(w), on |-> w, approved |-> FALSE]
<1>0. lines = {line(w) : w \in Stretches(S)} /\ \A w : line(w).on = w
  BY DEF Making
<1> HIDE DEF lines, line
<1>1. \A l \in lines : l.on \in Stretches(S) /\ l = line(l.on)
  BY <1>0
<1>2. \A w \in Stretches(S) : line(w) \in lines
  BY <1>0
<1>3. S \subseteq Int
  OBVIOUS
<1>4. Filled(lines) \subseteq S /\ AllDrawn(lines)
  BY <1>1 DEF Filled, Stretches, AllDrawn
<1>5. ASSUME NEW s \in S PROVE s \in Filled(lines)
  <2>1. PICK w \in Stretches(S) : s \in w
    BY StretchesCover
  <2> QED BY <1>0, <1>2, <2>1 DEF Filled
<1>6. ASSUME NEW l \in lines, NEW m \in lines, l # m PROVE l.on \cap m.on = {}
  <2>1. l.on # m.on
    BY <1>1, <1>6
  <2> QED BY <1>1, <1>3, <2>1, StretchesApart
<1>7. ASSUME NEW w \in Stretches(S) PROVE line(w) \in Line
  <2>1. PICK a \in S, b \in S : w = a .. b
    BY DEF Stretches
  <2>2. a \in Int /\ b \in Int /\ w \in SUBSET Int
    BY <1>3, <2>1
  <2>3. Cardinality(w) \in Nat
    BY <2>1, <2>2, FS_Interval, FS_CardinalityType
  <2> QED BY <2>2, <2>3 DEF Line, line
<1>8. lines \subseteq Line
  BY <1>0, <1>7
<1> QED
  BY <1>4, <1>5, <1>6, <1>8 DEF LinesApart, lines

\* On a filled day General work fills exactly the gaps once it is made again, whether
\* that took anything or not; on any other day it is left alone. (refill_general_work)
LEMMA RefillFills ==
    ASSUME NEW r \in Times_of_day, NEW es, NEW bs, NEW lines, lines \subseteq Line
    PROVE  /\ r.fill => /\ Filled(Refilled(r, es, bs, lines)) = Gaps(r, es, bs)
                        /\ LinesApart(Refilled(r, es, bs, lines)) /\ AllDrawn(Refilled(r, es, bs, lines))
           /\ ~r.fill => Refilled(r, es, bs, lines) = lines
           /\ Refilled(r, es, bs, lines) \subseteq Line
<1> DEFINE gaps == Gaps(r, es, bs)
           made == Making(gaps)
<1>1. PICK hi \in Nat : gaps \subseteq 0 .. hi
  BY GapsBounded
<1>2. Filled(made) = gaps /\ LinesApart(made) /\ AllDrawn(made) /\ made \subseteq Line
  <2> HIDE DEF gaps
  <2> QED BY <1>1, LinesOverStretches
<1>3. Refilled(r, es, bs, lines) =
        IF ~r.fill \/ (Filled(lines) = gaps /\ LinesApart(lines) /\ AllDrawn(lines)) THEN lines ELSE made
  BY DEF Refilled
<1> HIDE DEF gaps, made
<1> QED BY <1>2, <1>3 DEF gaps

\* None of the lines was made for the day.
NoneMade(lines) == \A l \in lines : l.line # Made

\* What waits and what is approved lie in the same places. (approve_day)
LEMMA ApprovedPlaces ==
    ASSUME NEW lines, lines \subseteq Line
    PROVE  /\ Filled(ApprovedRest(lines)) = Filled(lines)
           /\ LinesApart(lines) => LinesApart(ApprovedRest(lines))
           /\ AllDrawn(lines) => AllDrawn(ApprovedRest(lines))
           /\ NoneMade(lines) => NoneMade(ApprovedRest(lines))
           /\ ApprovedRest(lines) \subseteq Line
           /\ ApprovedRest(ApprovedRest(lines)) = ApprovedRest(lines)
<1> DEFINE ok(l) == [l EXCEPT !.approved = TRUE]
           all == ApprovedRest(lines)
<1>1. \A l \in Line : ok(l) \in Line /\ ok(l).on = l.on /\ ok(l).line = l.line /\ ok(ok(l)) = ok(l)
  BY DEF Line
<1>2. all = {ok(l) : l \in lines}
  BY DEF ApprovedRest
<1> HIDE DEF ok
<1>3. \A m \in all : \E l \in lines : m.on = l.on /\ m.line = l.line /\ m = ok(l)
  BY <1>1, <1>2
<1>4. ASSUME NEW l \in lines PROVE \E m \in all : m.on = l.on
  BY <1>1, <1>2
<1>5. Filled(all) = Filled(lines)
  BY <1>3, <1>4 DEF Filled
<1>6. ASSUME LinesApart(lines), NEW l \in all, NEW m \in all, l # m PROVE l.on \cap m.on = {}
  BY <1>3, <1>6 DEF LinesApart
<1>7. all \subseteq Line /\ \A m \in all : ok(m) = m
  BY <1>1, <1>2
<1>8. ApprovedRest(all) = all
  <2>1. ApprovedRest(all) = {ok(m) : m \in all}
    BY DEF ApprovedRest, ok
  <2> HIDE DEF all
  <2> QED BY <1>7, <2>1
<1>9. (AllDrawn(lines) => AllDrawn(all)) /\ (NoneMade(lines) => NoneMade(all))
  BY <1>3 DEF AllDrawn, NoneMade
<1> HIDE DEF all
<1> QED BY <1>5, <1>6, <1>7, <1>8, <1>9 DEF LinesApart, all

-----------------------------------------------------------------------------
(* The invariant.                                                          *)

DayShape ==
    /\ now \in Nat /\ row \in Times_of_day /\ (row.out # Open => Clocked(row))
    /\ entries \in [Entries -> TimeLine] /\ breaks \in [Slot -> Break] /\ rest \subseteq Line

\* A filled day is a clocked one, and its General work is the gaps, or was never laid
\* because the finish was not known, or was not when the day was settled.
FillHolds ==
    /\ ~row.fill => NoneMade(rest)
    /\ row.fill => /\ Clocked(row) /\ LinesApart(rest) /\ AllDrawn(rest)
                   /\ \/ Filled(rest) = Gaps(row, entries, breaks)
                      \/ rest = {} /\ (row.out = Open \/ row.assumed # "nothing")

\* What is approved is written.
ApprovedAreWritten == \A e \in Entries : entries[e].approved => entries[e].hours > 0

Inv == DayShape /\ FillHolds /\ ApprovedAreWritten

\* Gaps hold no work and no break: NothingPaidTwice follows.
LEMMA InvImpliesOnce == Inv => NothingPaidTwice
<1> SUFFICES ASSUME Inv PROVE NothingPaidTwice
  OBVIOUS
<1>1. row.fill => Filled(rest) = Gaps(row, entries, breaks) \/ rest = {}
  BY DEF Inv, FillHolds
<1>2. Gaps(row, entries, breaks) \cap (Drawn(entries) \cup BreakLines(breaks)) = {}
  BY DEF Gaps, BreaksOf
<1>3. rest = {} => Filled(rest) = {}
  BY DEF Filled
<1> QED BY <1>1, <1>2, <1>3 DEF Inv, FillHolds, NoneMade, NothingPaidTwice

LEMMA InvImpliesRest == Inv => GeneralWorkIsTheRest
BY DEF Inv, FillHolds, GeneralWorkIsTheRest, Filled, DayShape, Times_of_day

\* Gaps are of the times, the places and the hours, not of who was asked what.
SpanOf(gone, in, out) ==
    CASE in = 0 -> 1 .. Finish
      [] out # Open -> in .. out
      [] gone /\ in <= Finish -> in .. Finish
      [] OTHER -> {}

GapsOf(gone, in, out, es, bs) ==
    LET free == SpanOf(gone, in, out)
                    \ (Drawn(es) \cup (BreakLines(bs) \cup (IF in # 0 THEN {} ELSE {Lunch})))
    IN {s \in free : Cardinality(Up(free, s)) > LooseHours(es)}

LEMMA GapsAre ==
    /\ \A r, es, bs : Gaps(r, es, bs) = GapsOf(now > Last, r.in, r.out, es, bs)
    /\ Gaps(row, entries, breaks)' = GapsOf(now' > Last, row'.in, row'.out, entries', breaks')
<1>1. \A r, es, bs : Gaps(r, es, bs) = GapsOf(now > Last, r.in, r.out, es, bs)
  BY DEF Gaps, GapsOf, SpanOf, Span, GoneBy, Clocked, BreaksOf
<1>2. Gaps(row, entries, breaks)' = GapsOf(now' > Last, row'.in, row'.out, entries', breaks')
  BY DEF Gaps, GapsOf, SpanOf, Span, GoneBy, Clocked, BreaksOf, Drawn, BreakLines, LooseHours, Loose,
         Written, Up
<1> QED BY <1>1, <1>2

-----------------------------------------------------------------------------
(* Steps that end in a refill, and steps that leave every place alone.     *)

LEMMA RefillKeeps ==
    ASSUME Inv, UNCHANGED now, row' \in Times_of_day, Clocked(row)' \/ (row'.out = Open /\ ~row'.fill),
           entries' \in [Entries -> TimeLine], breaks' \in [Slot -> Break], ApprovedAreWritten',
           row.fill => row'.fill,
           NEW r \in Times_of_day, r.in = row'.in, r.out = row'.out, r.fill = row'.fill,
           NEW lines, lines \subseteq Line, ~row.fill => NoneMade(lines),
           \/ rest' = Refilled(r, entries', breaks', lines)
           \/ rest' = ApprovedRest(Refilled(r, entries', breaks', lines))
    PROVE  Inv' /\ (row'.fill => Filled(rest)' = Gaps(row, entries, breaks)')
<1> DEFINE made == Refilled(r, entries', breaks', lines)
<1>2. /\ r.fill => Filled(made) = Gaps(r, entries', breaks') /\ LinesApart(made) /\ AllDrawn(made)
      /\ ~r.fill => made = lines
      /\ made \subseteq Line
  BY RefillFills
<1>3. Gaps(r, entries', breaks') = Gaps(row, entries, breaks)'
  BY GapsAre
<1> HIDE DEF made
<1>4. /\ Filled(ApprovedRest(made)) = Filled(made)
      /\ LinesApart(made) => LinesApart(ApprovedRest(made))
      /\ AllDrawn(made) => AllDrawn(ApprovedRest(made))
      /\ NoneMade(made) => NoneMade(ApprovedRest(made))
      /\ ApprovedRest(made) \subseteq Line
  BY <1>2, ApprovedPlaces
<1>5. rest' = made \/ rest' = ApprovedRest(made)
  BY DEF made
<1>6. /\ Filled(rest)' = Filled(rest') /\ (LinesApart(rest') => LinesApart(rest)')
      /\ (AllDrawn(rest') => AllDrawn(rest)') /\ (NoneMade(rest') => NoneMade(rest)')
  BY DEF Filled, LinesApart, AllDrawn, NoneMade
<1>7. /\ rest' \subseteq Line
      /\ row'.fill => Filled(rest)' = Gaps(row, entries, breaks)' /\ LinesApart(rest)' /\ AllDrawn(rest)'
  BY <1>2, <1>3, <1>4, <1>5, <1>6
<1>8. ~row'.fill => NoneMade(rest)'
  BY <1>2, <1>4, <1>5, <1>6
<1> QED
  BY <1>7, <1>8 DEF Inv, DayShape, FillHolds, Clocked

\* The lines lie where the others did.
SameSlots(lines, others) ==
    /\ Filled(others) = Filled(lines) /\ (lines = {} => others = {})
    /\ LinesApart(lines) => LinesApart(others)
    /\ AllDrawn(lines) => AllDrawn(others)
    /\ NoneMade(lines) => NoneMade(others)

\* Nothing moves.
SamePlaces ==
    /\ UNCHANGED <<now, row>>
    /\ entries' \in [Entries -> TimeLine] /\ breaks' \in [Slot -> Break] /\ rest' \subseteq Line
    /\ \A e \in Entries : entries'[e].on = entries[e].on /\ entries'[e].hours = entries[e].hours
    /\ \A s \in Slot : breaks'[s].there = breaks[s].there
    /\ SameSlots(rest, rest')

LEMMA SameGaps ==
    ASSUME \A e \in Entries : entries'[e].on = entries[e].on /\ entries'[e].hours = entries[e].hours,
           \A s \in Slot : breaks'[s].there = breaks[s].there
    PROVE  \A gone, in, out : GapsOf(gone, in, out, entries', breaks') = GapsOf(gone, in, out, entries, breaks)
<1>1. BreakLines(breaks') = BreakLines(breaks)
  BY DEF BreakLines
<1>2. Drawn(entries') = Drawn(entries)
  BY DEF Drawn
<1>3. Loose(entries') = Loose(entries)
  BY DEF Loose, Written
<1>4. LooseHours(entries') = LooseHours(entries)
  <2>1. \A e \in Loose(entries) : entries'[e].hours = entries[e].hours
    BY DEF Loose, Written
  <2>2. {{e} \X (1 .. entries'[e].hours) : e \in Loose(entries')}
            = {{e} \X (1 .. entries[e].hours) : e \in Loose(entries)}
    BY <1>3, <2>1
  <2> QED BY <2>2 DEF LooseHours
<1> QED BY <1>1, <1>2, <1>4 DEF GapsOf

LEMMA PlacesKeep ==
    ASSUME Inv, SamePlaces, ApprovedAreWritten'
    PROVE  Inv' /\ Gaps(row, entries, breaks)' = Gaps(row, entries, breaks)
<1>1. Gaps(row, entries, breaks)' = Gaps(row, entries, breaks)
  BY GapsAre, SameGaps DEF SamePlaces
<1>2. /\ Filled(rest)' = Filled(rest') /\ (LinesApart(rest') => LinesApart(rest)')
      /\ (AllDrawn(rest') => AllDrawn(rest)') /\ (NoneMade(rest') => NoneMade(rest)')
  BY DEF Filled, LinesApart, AllDrawn, NoneMade
<1>3. FillHolds'
  BY <1>1, <1>2 DEF SamePlaces, SameSlots, Inv, FillHolds, Clocked
<1> QED BY <1>1, <1>3 DEF SamePlaces, Inv, DayShape, Clocked

\* One line is approved, or its approval taken off.
LEMMA OneLine ==
    ASSUME rest \subseteq Line, NEW l \in rest, NEW m \in Line, m.on = l.on, m.line = l.line,
           rest' = (rest \ {l}) \cup {m}
    PROVE  SameSlots(rest, rest') /\ rest' \subseteq Line
<1>1. \A k \in rest' : \E j \in rest : k.on = j.on /\ k.line = j.line
  OBVIOUS
<1>2. \A j \in rest : \E k \in rest' : k.on = j.on
  OBVIOUS
<1>3. Filled(rest') = Filled(rest)
  BY <1>1, <1>2 DEF Filled
<1>4. LinesApart(rest) => LinesApart(rest')
  BY DEF LinesApart
<1>5. (AllDrawn(rest) => AllDrawn(rest')) /\ (NoneMade(rest) => NoneMade(rest'))
  BY <1>1 DEF AllDrawn, NoneMade
<1> QED BY <1>3, <1>4, <1>5 DEF SameSlots

-----------------------------------------------------------------------------
(* What the steps write has its shape.                                     *)

LEMMA LaidOnSlots == \A start, hours, bs : Laid(start, hours, bs) \subseteq Int
<1>1. \A a, b : a .. b \subseteq Int
  OBVIOUS
<1> QED BY <1>1 DEF Laid

LEMMA BreaksShape ==
    ASSUME NEW bs \in [Slot -> Break], NEW r
    PROVE  Generated(r, bs) \in [Slot -> Break] /\ Dropped(r, bs) \in [Slot -> Break]
<1>1. Lunch \in Slot
  BY DayAssumption DEF Slot
<1>2. [there |-> TRUE, untouched |-> TRUE, approved |-> FALSE] \in Break /\ NoBreak \in Break
  BY DEF Break, NoBreak
<1> HIDE DEF Break
<1> QED BY <1>1, <1>2 DEF Generated, Dropped

LEMMA SettledShape ==
    ASSUME DayShape
    PROVE  /\ SettledRow \in Times_of_day /\ SettledBreaks \in [Slot -> Break]
           /\ SettledRow.fill = row.fill /\ Clocked(SettledRow) /\ SettledRow.out # Open
           /\ row.out # Open => SettledRow = row /\ SettledBreaks = breaks
           /\ row.out = Open => SettledRow.assumed # "nothing"
<1>1. row \in Times_of_day /\ Finish \in Nat \ {0} /\ (row.out # Open => Clocked(row))
  BY DayAssumption DEF DayShape
<1>2. /\ SettledRow \in Times_of_day
      /\ SettledRow.fill = row.fill /\ Clocked(SettledRow) /\ SettledRow.out # Open
      /\ row.out # Open => SettledRow = row
      /\ row.out = Open => SettledRow.assumed # "nothing"
  <2>1. ASSUME NEW in \in Nat \ {0}, NEW what \in {"finish", "day"},
               NEW r, r = [row EXCEPT !.in = in, !.out = Finish, !.breaksGenerated = TRUE, !.assumed = what]
        PROVE  r \in Times_of_day /\ r.fill = row.fill /\ r.in # 0 /\ r.out # 0 /\ r.assumed # "nothing"
    BY <1>1, <2>1 DEF Times_of_day
  <2>2. CASE row.out # Open
    BY <1>1, <2>2 DEF SettledRow
  <2>3. CASE row.out = Open /\ Clocked(row)
    <3>1. SettledRow = [row EXCEPT !.in = row.in, !.out = Finish, !.breaksGenerated = TRUE, !.assumed = "finish"]
      BY <2>3 DEF SettledRow
    <3>2. row.in \in Nat \ {0}
      BY <1>1, <2>3 DEF Times_of_day, Clocked
    <3>3. "finish" \in {"finish", "day"}
      OBVIOUS
    <3> HIDE DEF Times_of_day
    <3>4. SettledRow \in Times_of_day /\ SettledRow.fill = row.fill /\ SettledRow.in # 0
          /\ SettledRow.out # 0 /\ SettledRow.assumed # "nothing"
      BY <2>1, <3>1, <3>2, <3>3, Zenon
    <3> QED BY <2>3, <3>4 DEF Clocked, Open
  <2>4. CASE row.out = Open /\ ~Clocked(row)
    <3>1. SettledRow = [row EXCEPT !.in = 1, !.out = Finish, !.breaksGenerated = TRUE, !.assumed = "day"]
      BY <2>4 DEF SettledRow
    <3>2. 1 \in Nat \ {0} /\ "day" \in {"finish", "day"}
      OBVIOUS
    <3>3. SettledRow \in Times_of_day /\ SettledRow.fill = row.fill /\ SettledRow.in # 0
          /\ SettledRow.out # 0 /\ SettledRow.assumed # "nothing"
      BY <2>1, <3>1, <3>2, Zenon
    <3> QED BY <2>4, <3>3 DEF Clocked, Open
  <2> QED BY <2>2, <2>3, <2>4
<1>3. SettledBreaks \in [Slot -> Break] /\ (row.out # Open => SettledBreaks = breaks)
  BY BreaksShape DEF SettledBreaks, DayShape
<1> QED BY <1>2, <1>3

LEMMA RowAddedShape ==
    ASSUME NEW es, NEW x \in RowAdded(es), es \in [Entries -> TimeLine],
           \A e \in Entries : es[e].approved => es[e].hours > 0
    PROVE  x \in [Entries -> TimeLine] /\ \A e \in Entries : x[e].approved => x[e].hours > 0
<1>1. PICK e \in Entries, h \in Hours, on \in SUBSET Int :
        x = [es EXCEPT ![e] = [hours |-> h, approved |-> FALSE, swept |-> FALSE, on |-> on]]
  BY LaidOnSlots DEF RowAdded, Free
<1>2. [hours |-> h, approved |-> FALSE, swept |-> FALSE, on |-> on] \in TimeLine
  BY DayAssumption DEF TimeLine
<1>3. x \in [Entries -> TimeLine]
  <2> HIDE DEF TimeLine
  <2> QED BY <1>1, <1>2
<1> QED BY <1>1, <1>3

-----------------------------------------------------------------------------
(* The steps.                                                              *)

LEMMA RowIsClocked == Inv => (Clocked(row) \/ (row.out = Open /\ ~row.fill))
BY DEF Inv, DayShape, FillHolds

\* The writes of the day that end in a refill.
LEMMA LinesWritten ==
    ASSUME Inv, NEW es \in [Entries -> TimeLine], \A e \in Entries : es[e].approved => es[e].hours > 0,
           NEW lines, lines \subseteq Line, ~row.fill => NoneMade(lines),
           entries' = es, rest' = Refilled(row, es, breaks, lines), UNCHANGED <<now, row, breaks>>
    PROVE  Inv'
<1>1. entries' = es /\ rest' = Refilled(row, es, breaks, lines) /\ UNCHANGED <<now, row, breaks>>
  OBVIOUS
<1>2. ApprovedAreWritten'
  BY <1>1 DEF ApprovedAreWritten
<1>3. row \in Times_of_day /\ breaks \in [Slot -> Break]
  BY DEF Inv, DayShape
<1>4. (Clocked(row)' \/ (row'.out = Open /\ ~row'.fill))
  BY <1>1, RowIsClocked DEF Clocked
<1> QED BY <1>1, <1>2, <1>3, <1>4, RefillKeeps

LEMMA EntriesWritten ==
    ASSUME Inv, NEW es \in [Entries -> TimeLine], \A e \in Entries : es[e].approved => es[e].hours > 0,
           NEW lines, lines \subseteq Line, ~row.fill => NoneMade(lines), LinesAre(es, lines)
    PROVE  Inv'
BY LinesWritten DEF LinesAre

\* Taking lines out, or putting one in that was not made for the day.
LEMMA RestShape ==
    ASSUME Inv
    PROVE  /\ rest \subseteq Line /\ (~row.fill => NoneMade(rest))
           /\ \A l \in rest : ~row.fill => NoneMade(rest \ {l})
           /\ \A m \in Line : m.line # Made /\ ~row.fill => NoneMade(rest \cup {m})
BY DEF Inv, DayShape, FillHolds, NoneMade

LEMMA BreaksWritten ==
    ASSUME Inv, NEW bs \in [Slot -> Break], BreaksAre(bs)
    PROVE  Inv'
<1>0. breaks' = bs /\ UNCHANGED <<now, row, entries>> /\ rest' = Refilled(row, entries, bs, rest)
  BY DEF BreaksAre, Refill
<1>1. ApprovedAreWritten'
  BY <1>0 DEF ApprovedAreWritten, Inv
<1>2. /\ row \in Times_of_day /\ entries \in [Entries -> TimeLine]
      /\ rest \subseteq Line /\ (~row.fill => NoneMade(rest))
  BY RestShape DEF Inv, DayShape
<1>3. (Clocked(row)' \/ (row'.out = Open /\ ~row'.fill))
  BY <1>0, RowIsClocked DEF Clocked
<1> QED BY <1>0, <1>1, <1>2, <1>3, RefillKeeps

LEMMA TimesWritten ==
    ASSUME Inv, NEW r \in Times_of_day, Clocked(r), r.fill = row.fill, TimesAre(r),
           UNCHANGED <<now, entries>>
    PROVE  Inv'
<1>1. PICK bs \in [Slot -> Break] : breaks' = bs /\ rest' = Refilled(r, entries, bs, rest)
  BY BreaksShape DEF TimesAre, Refill, Inv, DayShape
<1>2. row' = [r EXCEPT !.breaksGenerated = TRUE]
  BY DEF TimesAre, WithBreaks
<1>3. row' \in Times_of_day /\ row'.in = r.in /\ row'.out = r.out /\ row'.fill = r.fill
  BY <1>2 DEF Times_of_day
<1>4. ApprovedAreWritten' /\ entries' \in [Entries -> TimeLine] /\ Clocked(row)'
  BY <1>3 DEF ApprovedAreWritten, Inv, DayShape, Clocked
<1> QED BY <1>1, <1>3, <1>4, RestShape, RefillKeeps

LEMMA EntryWritten ==
    ASSUME Inv, NEW e \in Entries, NEW line \in TimeLine, line.approved => line.hours > 0
    PROVE  /\ [entries EXCEPT ![e] = line] \in [Entries -> TimeLine]
           /\ \A x \in Entries : [entries EXCEPT ![e] = line][x].approved
                    => [entries EXCEPT ![e] = line][x].hours > 0
BY DEF Inv, DayShape, ApprovedAreWritten

LEMMA StepClockIn == Inv /\ clock_in => Inv'
<1> SUFFICES ASSUME Inv, clock_in PROVE Inv'
  OBVIOUS
<1>1. ~row.fill /\ NoneMade(rest) /\ now \in Nat
  BY DEF Inv, FillHolds, DayShape, clock_in
<1>2. PICK r : r = [NoRow EXCEPT !.in = now + 1] /\ row' = WithBreaks(r) /\ breaks' = Generated(r, breaks)
  BY DEF clock_in
<1>3. row' \in Times_of_day /\ Clocked(row)' /\ ~row'.fill
  <2>1. now + 1 \in Nat \ {0}
    BY <1>1
  <2>2. \A in \in Nat \ {0} : LET x == [[NoRow EXCEPT !.in = in] EXCEPT !.breaksGenerated = TRUE] IN
            x \in Times_of_day /\ x.in # 0 /\ ~x.fill
    BY DEF NoRow, Times_of_day, Open
  <2> HIDE DEF Times_of_day
  <2> QED BY <1>2, <2>1, <2>2 DEF WithBreaks, Clocked
<1>4. breaks' \in [Slot -> Break]
  BY <1>2, BreaksShape DEF Inv, DayShape
<1>5. UNCHANGED <<now, entries, rest>>
  BY DEF clock_in
<1> QED BY <1>1, <1>3, <1>4, <1>5 DEF Inv, DayShape, FillHolds, NoneMade, ApprovedAreWritten

LEMMA StepClockOut == Inv /\ clock_out => Inv'
<1> SUFFICES ASSUME Inv, clock_out PROVE Inv'
  OBVIOUS
<1>1. PICK in : in = (IF Clocked(row) THEN row.in ELSE 1)
  OBVIOUS
<1>2. PICK r : r = [row EXCEPT !.in = in, !.out = now] /\ TimesAre(r)
  BY <1>1 DEF clock_out
<1>3. row \in Times_of_day /\ now \in Nat /\ in \in Nat \ {0}
  BY <1>1 DEF Inv, DayShape, Times_of_day, Clocked
<1>4. r \in Times_of_day /\ r.in # 0 /\ r.fill = row.fill
  BY <1>2, <1>3 DEF Times_of_day
<1>5. UNCHANGED <<now, entries>>
  BY DEF clock_out
<1> QED BY <1>2, <1>4, <1>5, TimesWritten DEF Clocked

LEMMA StepSetTimes == Inv /\ set_clock_times => Inv'
<1> SUFFICES ASSUME Inv, set_clock_times PROVE Inv'
  OBVIOUS
<1>1. PICK in \in Times, out \in Times \cup {Open} :
        TimesAre([row EXCEPT !.in = in, !.out = out, !.sent = FALSE, !.assumed = "nothing"])
  BY DEF set_clock_times
<1>2. in \in Nat \ {0} /\ out \in Nat
  BY DayAssumption DEF Open
<1>3. PICK r : r = [row EXCEPT !.in = in, !.out = out, !.sent = FALSE, !.assumed = "nothing"] /\ TimesAre(r)
  BY <1>1
<1>4. r \in Times_of_day /\ r.in # 0 /\ r.fill = row.fill
  BY <1>2, <1>3 DEF Times_of_day, Inv, DayShape
<1>5. UNCHANGED <<now, entries>>
  BY DEF set_clock_times
<1> QED BY <1>3, <1>4, <1>5, TimesWritten DEF Clocked

LEMMA StepCreate == Inv /\ create_entry => Inv'
<1> SUFFICES ASSUME Inv, create_entry PROVE Inv'
  OBVIOUS
<1>1. PICK e \in Entries, h \in Hours, on \in SUBSET Int :
        EntriesAre([entries EXCEPT ![e] = [hours |-> h, on |-> on, approved |-> FALSE, swept |-> FALSE]])
  BY LaidOnSlots DEF create_entry, Free, Drawing
<1>2. [hours |-> h, on |-> on, approved |-> FALSE, swept |-> FALSE] \in TimeLine
  BY DayAssumption DEF TimeLine
<1> QED BY <1>1, <1>2, EntryWritten, RestShape, EntriesWritten DEF EntriesAre

\* An edited line waits, and is a line still.
LEMMA EditsShape ==
    ASSUME NEW old \in TimeLine, NEW line \in Edits(old)
    PROVE  line \in TimeLine /\ line.approved = FALSE
<1>1. Changed(old) \in TimeLine /\ Changed(old).approved = FALSE
  BY DEF Changed, a_change_takes_the_approval_off, TimeLine
<1>2. Hours \subseteq Nat /\ \A s, h : Drawing(s, h) \in SUBSET Int
  BY LaidOnSlots, DayAssumption DEF Drawing
<1>3. \A h \in Hours : Longer(old, h) \in TimeLine /\ Longer(old, h).approved = FALSE
  BY <1>1, <1>2 DEF Longer, TimeLine
<1>4. \A h \in Hours : \A s : Redrawn(old, h, s) \in TimeLine /\ Redrawn(old, h, s).approved = FALSE
  BY <1>2, <1>3 DEF Redrawn, TimeLine
<1> QED BY <1>1, <1>3, <1>4 DEF Edits

LEMMA StepUpdate == Inv /\ update_entry => Inv'
<1> SUFFICES ASSUME Inv, update_entry PROVE Inv'
  OBVIOUS
<1>1. PICK e \in Entries : \E line \in Edits(entries[e]) : EntriesAre([entries EXCEPT ![e] = line])
  BY DEF update_entry, Written
<1>2. PICK line \in Edits(entries[e]) : EntriesAre([entries EXCEPT ![e] = line])
  BY <1>1
<1>3. line \in TimeLine /\ line.approved = FALSE
  BY EditsShape DEF Inv, DayShape
<1> QED BY <1>2, <1>3, EntryWritten, RestShape, EntriesWritten DEF EntriesAre

\* A line that is General work again, or comes from another day, is a line.
LEMMA FillShape ==
    ASSUME NEW l \in TimeLine, NEW e \in Entries
    PROVE  Fill(l, e) \in Line /\ Fill(l, e).line # Made
BY DayAssumption DEF Fill, TimeLine, Line

LEMMA StepBack == Inv /\ BackToGeneralWork => Inv'
<1> SUFFICES ASSUME Inv, BackToGeneralWork PROVE Inv'
  OBVIOUS
<1>1. PICK e \in Entries : \E line \in Edits(entries[e]) :
        LinesAre([entries EXCEPT ![e] = NoEntry], rest \cup {Fill(line, e)})
  BY DEF BackToGeneralWork, Written
<1>2. PICK line \in Edits(entries[e]) : LinesAre([entries EXCEPT ![e] = NoEntry], rest \cup {Fill(line, e)})
  BY <1>1
<1>3. line \in TimeLine
  BY EditsShape DEF Inv, DayShape
<1>4. PICK m \in Line : m = Fill(line, e) /\ m.line # Made
  BY <1>3, FillShape
<1>5. NoEntry \in TimeLine /\ (NoEntry.approved => NoEntry.hours > 0)
  BY DEF NoEntry, TimeLine
<1>6. rest \cup {m} \subseteq Line /\ (~row.fill => NoneMade(rest \cup {m}))
  BY <1>4, RestShape
<1> QED BY <1>2, <1>4, <1>5, <1>6, EntryWritten, EntriesWritten

\* A General work line keeps its place, or is an entry where it lay.
LEMMA StepUpdateFill == Inv /\ UpdateFill => Inv'
<1> SUFFICES ASSUME Inv, UpdateFill PROVE Inv'
  OBVIOUS
<1>1. PICK l \in rest :
        \/ LinesAre(entries, (rest \ {l}) \cup {[l EXCEPT !.approved = FALSE]})
        \/ \E e \in Entries \cup ({l.line} \ {Made}) : LinesAre([entries EXCEPT ![e] =
                [hours |-> l.hours, on |-> l.on, approved |-> FALSE, swept |-> TRUE]], rest \ {l})
  BY DEF UpdateFill, Changed, a_change_takes_the_approval_off, Free
<1>2. l \in Line
  BY RestShape
<1>3. CASE LinesAre(entries, (rest \ {l}) \cup {[l EXCEPT !.approved = FALSE]})
  <2>1. PICK m \in Line : m = [l EXCEPT !.approved = FALSE] /\ m.line = l.line
    <3>1. [l EXCEPT !.approved = FALSE] \in Line /\ [l EXCEPT !.approved = FALSE].line = l.line
      BY <1>2 DEF Line
    <3> QED BY <3>1, Zenon
  <2>2. (rest \ {l}) \cup {m} \subseteq Line /\ (~row.fill => NoneMade((rest \ {l}) \cup {m}))
    BY <2>1, RestShape DEF NoneMade
  <2>3. entries \in [Entries -> TimeLine] /\ \A e \in Entries : entries[e].approved => entries[e].hours > 0
    BY DEF Inv, DayShape, ApprovedAreWritten
  <2> QED BY <1>3, <2>1, <2>2, <2>3, EntriesWritten
<1>4. ASSUME NEW e \in Entries \cup ({l.line} \ {Made}),
             LinesAre([entries EXCEPT ![e] =
                [hours |-> l.hours, on |-> l.on, approved |-> FALSE, swept |-> TRUE]], rest \ {l})
      PROVE  Inv'
  <2>1. e \in Entries
    BY <1>2 DEF Line
  <2>2. [hours |-> l.hours, on |-> l.on, approved |-> FALSE, swept |-> TRUE] \in TimeLine
    BY <1>2 DEF Line, TimeLine
  <2>3. rest \ {l} \subseteq Line /\ (~row.fill => NoneMade(rest \ {l}))
    BY RestShape
  <2> QED BY <1>4, <2>1, <2>2, <2>3, EntryWritten, EntriesWritten
<1> QED BY <1>1, <1>3, <1>4

LEMMA StepGoes == Inv /\ GoesToAnotherDay => Inv'
<1> SUFFICES ASSUME Inv, GoesToAnotherDay PROVE Inv'
  OBVIOUS
<1>1. CASE \E e \in Written(entries) : EntriesAre([entries EXCEPT ![e] = NoEntry])
  <2>1. PICK e \in Entries : EntriesAre([entries EXCEPT ![e] = NoEntry])
    BY <1>1 DEF Written
  <2>2. NoEntry \in TimeLine /\ (NoEntry.approved => NoEntry.hours > 0)
    BY DEF NoEntry, TimeLine
  <2> QED BY <2>1, <2>2, EntryWritten, RestShape, EntriesWritten DEF EntriesAre
<1>2. ASSUME NEW l \in rest, LinesAre(entries, rest \ {l}) PROVE Inv'
  <2>1. entries \in [Entries -> TimeLine] /\ \A e \in Entries : entries[e].approved => entries[e].hours > 0
    BY DEF Inv, DayShape, ApprovedAreWritten
  <2>2. rest \ {l} \subseteq Line /\ (~row.fill => NoneMade(rest \ {l}))
    BY RestShape
  <2> QED BY <1>2, <2>1, <2>2, EntriesWritten
<1> QED BY <1>1, <1>2 DEF GoesToAnotherDay

LEMMA StepComes == Inv /\ ComesFromAnotherDay => Inv'
<1> SUFFICES ASSUME Inv, ComesFromAnotherDay PROVE Inv'
  OBVIOUS
<1>1. PICK e \in Entries, h \in Hours, on \in SUBSET Int, swept \in BOOLEAN :
        LET line == [hours |-> h, on |-> on, approved |-> FALSE, swept |-> swept] IN
        EntriesAre([entries EXCEPT ![e] = line]) \/ LinesAre(entries, rest \cup {Fill(line, e)})
  BY LaidOnSlots DEF ComesFromAnotherDay, Free, Drawing
<1>2. PICK line \in TimeLine :
        /\ line.approved = FALSE
        /\ EntriesAre([entries EXCEPT ![e] = line]) \/ LinesAre(entries, rest \cup {Fill(line, e)})
  <2>1. [hours |-> h, on |-> on, approved |-> FALSE, swept |-> swept] \in TimeLine
    BY DayAssumption DEF TimeLine
  <2> QED BY <1>1, <2>1
<1>3. CASE EntriesAre([entries EXCEPT ![e] = line])
  BY <1>2, <1>3, EntryWritten, RestShape, EntriesWritten DEF EntriesAre
<1>4. CASE LinesAre(entries, rest \cup {Fill(line, e)})
  <2>1. PICK m \in Line : m = Fill(line, e) /\ m.line # Made
    BY FillShape
  <2>2. rest \cup {m} \subseteq Line /\ (~row.fill => NoneMade(rest \cup {m}))
    BY <2>1, RestShape
  <2>3. entries \in [Entries -> TimeLine] /\ \A x \in Entries : entries[x].approved => entries[x].hours > 0
    BY DEF Inv, DayShape, ApprovedAreWritten
  <2> QED BY <1>4, <2>1, <2>2, <2>3, EntriesWritten
<1> QED BY <1>2, <1>3, <1>4

LEMMA StepDelete == Inv /\ delete_entry => Inv'
<1> SUFFICES ASSUME Inv, delete_entry PROVE Inv'
  OBVIOUS
<1>1. PICK e \in Entries : EntriesAre([entries EXCEPT ![e] = NoEntry])
  BY DEF delete_entry, Written
<1>2. NoEntry \in TimeLine /\ (NoEntry.approved => NoEntry.hours > 0)
  BY DEF NoEntry, TimeLine
<1> QED BY <1>1, <1>2, EntryWritten, RestShape, EntriesWritten DEF EntriesAre

LEMMA StepWorkOff == Inv /\ GeneralWorkOff => Inv'
<1> SUFFICES ASSUME Inv, GeneralWorkOff PROVE Inv'
  OBVIOUS
<1>1. row' = [row EXCEPT !.fill = FALSE] /\ rest' = {} /\ UNCHANGED <<now, entries, breaks, leave>>
  BY DEF GeneralWorkOff
<1>2. row' \in Times_of_day /\ ~row'.fill /\ row'.in = row.in /\ row'.out = row.out
  BY <1>1 DEF Inv, DayShape, Times_of_day
<1> QED BY <1>1, <1>2 DEF Inv, DayShape, FillHolds, NoneMade, ApprovedAreWritten, Clocked

LEMMA StepBreaks == Inv /\ (add_break \/ change_break \/ remove_break) => Inv'
<1> SUFFICES ASSUME Inv, add_break \/ change_break \/ remove_break PROVE Inv'
  OBVIOUS
<1>1. [there |-> TRUE, untouched |-> FALSE, approved |-> FALSE] \in Break /\ NoBreak \in Break
  BY DEF Break, NoBreak
<1>2. breaks \in [Slot -> Break] /\ Pauses \subseteq Slot
  BY DayAssumption DEF Inv, DayShape, Slot
<1>3. PICK bs : BreaksAre(bs) /\ bs \in [Slot -> Break]
  <2>1. CASE add_break
    <3>1. PICK s \in Slot : BreaksAre([breaks EXCEPT ![s] =
                [there |-> TRUE, untouched |-> FALSE, approved |-> FALSE]])
      BY <1>2, <2>1 DEF add_break
    <3> HIDE DEF Break
    <3>2. [breaks EXCEPT ![s] = [there |-> TRUE, untouched |-> FALSE, approved |-> FALSE]] \in [Slot -> Break]
      BY <1>1, <1>2
    <3> QED BY <3>1, <3>2
  <2>2. CASE change_break
    <3>1. PICK s \in BreakLines(breaks), t \in Pauses :
            BreaksAre([breaks EXCEPT ![s] = NoBreak, ![t] =
                [there |-> TRUE, untouched |-> FALSE, approved |-> FALSE]])
      BY <2>2 DEF change_break, a_change_takes_the_approval_off
    <3> HIDE DEF Break
    <3>2. [breaks EXCEPT ![s] = NoBreak, ![t] =
                [there |-> TRUE, untouched |-> FALSE, approved |-> FALSE]] \in [Slot -> Break]
      BY <1>1, <1>2
    <3> QED BY <3>1, <3>2
  <2>3. CASE remove_break
    <3>1. PICK s \in Slot : BreaksAre([breaks EXCEPT ![s] = NoBreak])
      BY <2>3 DEF remove_break, BreakLines
    <3> HIDE DEF Break
    <3>2. [breaks EXCEPT ![s] = NoBreak] \in [Slot -> Break]
      BY <1>1, <1>2
    <3> QED BY <3>1, <3>2
  <2> QED BY <2>1, <2>2, <2>3
<1> QED BY <1>3, BreaksWritten

\* Filling lays General work over all of the gaps.
LEMMA StepFill == Inv /\ fill_with_general_work => Inv'
<1> SUFFICES ASSUME Inv, fill_with_general_work PROVE Inv'
  OBVIOUS
<1>1. /\ SettledRow \in Times_of_day /\ SettledBreaks \in [Slot -> Break]
      /\ Clocked(SettledRow)
  BY SettledShape DEF Inv
<1>2. PICK r : /\ r = [SettledRow EXCEPT !.fill = TRUE] /\ row' = r /\ breaks' = SettledBreaks
               /\ rest' = Refilled(r, entries, SettledBreaks, rest)
               /\ UNCHANGED <<now, entries, leave>>
  BY DEF fill_with_general_work, Refill
<1>3. r \in Times_of_day /\ r.fill /\ r.in # 0
  BY <1>1, <1>2 DEF Times_of_day, Clocked
<1>4. ApprovedAreWritten' /\ entries' \in [Entries -> TimeLine] /\ Clocked(row)'
  BY <1>2, <1>3 DEF ApprovedAreWritten, Inv, DayShape, Clocked
<1> QED BY <1>1, <1>2, <1>3, <1>4, RestShape, RefillKeeps

\* A day that is sent with nothing added keeps its General work: settling it is of no
\* account to the gaps while its times are known.
LEMMA StepSubmit == Inv /\ submit_day => Inv'
<1> SUFFICES ASSUME Inv, submit_day PROVE Inv'
  OBVIOUS
<1>1. /\ SettledRow \in Times_of_day /\ SettledBreaks \in [Slot -> Break]
      /\ SettledRow.fill = row.fill /\ Clocked(SettledRow)
      /\ row.out # Open => SettledRow = row /\ SettledBreaks = breaks
      /\ row.out = Open => SettledRow.assumed # "nothing"
  BY SettledShape DEF Inv
<1>2. PICK es \in {entries} \cup RowAdded(entries) \cup UNION {RowAdded(x) : x \in RowAdded(entries)} :
        /\ entries' = es
        /\ rest' = IF es = entries /\ SettledBreaks = breaks THEN rest
                   ELSE Refilled(SettledRow, es, SettledBreaks, rest)
  BY DEF submit_day
<1>3. /\ row' = [SettledRow EXCEPT !.sent = TRUE] /\ breaks' = SettledBreaks /\ UNCHANGED <<now, leave>>
  BY DEF submit_day
<1>4. /\ row' \in Times_of_day /\ row'.in = SettledRow.in /\ row'.out = SettledRow.out
      /\ row'.fill = row.fill /\ row'.assumed = SettledRow.assumed
  BY <1>1, <1>3 DEF Times_of_day
<1>5. es \in [Entries -> TimeLine] /\ \A e \in Entries : es[e].approved => es[e].hours > 0
  <2>1. CASE es = entries
    BY <2>1 DEF Inv, DayShape, ApprovedAreWritten
  <2>2. \A x \in RowAdded(entries) : x \in [Entries -> TimeLine] /\ \A e \in Entries : x[e].approved => x[e].hours > 0
    BY RowAddedShape DEF Inv, DayShape, ApprovedAreWritten
  <2>3. CASE \E x \in RowAdded(entries) : es \in RowAdded(x)
    BY <2>2, <2>3, RowAddedShape
  <2> QED BY <1>2, <2>1, <2>2, <2>3
<1>6. ApprovedAreWritten' /\ Clocked(row)' /\ breaks' \in [Slot -> Break] /\ entries' \in [Entries -> TimeLine]
  BY <1>1, <1>2, <1>3, <1>4, <1>5 DEF ApprovedAreWritten, Clocked
<1>7. CASE rest' = Refilled(SettledRow, es, SettledBreaks, rest)
  BY <1>1, <1>2, <1>3, <1>4, <1>6, <1>7, RestShape, RefillKeeps
<1>8. CASE rest' = rest /\ entries' = entries /\ breaks' = breaks
  <2>1. CASE row.out # Open
    <3>1. Gaps(row, entries, breaks)' = Gaps(row, entries, breaks)
      BY <1>1, <1>3, <1>4, <1>8, <2>1, GapsAre
    <3> QED BY <1>1, <1>3, <1>4, <1>6, <1>8, <2>1, <3>1
            DEF Inv, DayShape, FillHolds, LinesApart, AllDrawn, NoneMade, Filled, Clocked
  <2>2. CASE row.out = Open /\ ~row.fill
    BY <1>1, <1>3, <1>4, <1>6, <1>8, <2>2 DEF Inv, DayShape, FillHolds, NoneMade, Clocked
  <2>3. CASE row.out = Open /\ row.fill
    <3>1. Clocked(row) /\ Span(row) # {}
      BY <2>3 DEF Inv, FillHolds, submit_day, Settles
    <3>2. GoneBy /\ row.in <= Finish /\ SettledRow.in = row.in /\ SettledRow.out = Finish
      <4>1. GoneBy /\ row.in <= Finish
        BY <2>3, <3>1 DEF Span
      <4>2. PICK a : a = "finish" /\ SettledRow = [row EXCEPT !.in = row.in, !.out = Finish, !.breaksGenerated = TRUE, !.assumed = a]
        BY <2>3, <3>1 DEF SettledRow
      <4> QED BY <4>1, <4>2 DEF Inv, DayShape, Times_of_day
    <3>3. row.in # 0 /\ Finish # 0 /\ now' = now
      BY <1>3, <3>1, DayAssumption DEF Clocked
    <3>4. Gaps(row, entries, breaks)' = Gaps(row, entries, breaks)
      <4>1. Gaps(row, entries, breaks)' = GapsOf(now > Last, row.in, Finish, entries, breaks)
        BY <1>4, <1>8, <3>2, <3>3, GapsAre
      <4>2. Gaps(row, entries, breaks) = GapsOf(now > Last, row.in, Open, entries, breaks)
        BY <2>3, GapsAre
      <4>3. Finish # Open /\ now > Last
        BY <3>2, <3>3 DEF Open, GoneBy
      <4> QED BY <3>2, <3>3, <4>1, <4>2, <4>3 DEF GapsOf, SpanOf
    <3> QED BY <1>1, <1>3, <1>4, <1>6, <1>8, <2>3, <3>4
            DEF Inv, DayShape, FillHolds, LinesApart, AllDrawn, NoneMade, Filled, Clocked
  <2> QED BY <2>1, <2>2, <2>3
<1> QED BY <1>2, <1>3, <1>7, <1>8

LEMMA StepApproveDay == Inv /\ approve_day => Inv'
<1> SUFFICES ASSUME Inv, approve_day PROVE Inv'
  OBVIOUS
<1>1. entries' = ApprovedAll(entries) /\ breaks' = ApprovedBreaks(breaks) /\ rest' = ApprovedRest(rest)
      /\ UNCHANGED <<now, row>>
  BY DEF approve_day
<1>2. \A x \in TimeLine, a \in BOOLEAN : LET y == [x EXCEPT !.approved = a] IN
        y \in TimeLine /\ y.hours = x.hours /\ y.on = x.on /\ y.approved = a
  BY DEF TimeLine
<1>3. \A x \in Break, a \in BOOLEAN : LET y == [x EXCEPT !.approved = a] IN y \in Break /\ y.there = x.there
  BY DEF Break
<1>4. /\ entries' \in [Entries -> TimeLine]
      /\ \A e \in Entries : entries'[e].on = entries[e].on /\ entries'[e].hours = entries[e].hours
                            /\ (entries'[e].approved <=> e \in Written(entries))
  <2>1. entries \in [Entries -> TimeLine]
    BY DEF Inv, DayShape
  <2>2. \A e \in Entries : (e \in Written(entries)) \in BOOLEAN
    OBVIOUS
  <2> HIDE DEF TimeLine
  <2> QED BY <1>1, <1>2, <2>1, <2>2 DEF ApprovedAll
<1>5. breaks' \in [Slot -> Break] /\ \A s \in Slot : breaks'[s].there = breaks[s].there
  <2>1. breaks \in [Slot -> Break] /\ \A s \in Slot : breaks[s].there \in BOOLEAN
    BY DEF Inv, DayShape, Break
  <2> HIDE DEF Break
  <2> QED BY <1>1, <1>3, <2>1 DEF ApprovedBreaks
<1>6. SameSlots(rest, rest') /\ rest' \subseteq Line
  BY <1>1, ApprovedPlaces DEF Inv, DayShape, ApprovedRest, SameSlots
<1>7. SamePlaces
  BY <1>1, <1>4, <1>5, <1>6 DEF SamePlaces
<1>8. ApprovedAreWritten'
  BY <1>4 DEF ApprovedAreWritten, Written
<1> QED BY <1>7, <1>8, PlacesKeep

LEMMA StepApproveLine == Inv /\ approve_cost_line => Inv'
<1> SUFFICES ASSUME Inv, approve_cost_line PROVE Inv'
  OBVIOUS
<1>0. entries \in [Entries -> TimeLine] /\ breaks \in [Slot -> Break] /\ rest \subseteq Line
  BY DEF Inv, DayShape
<1>1. ASSUME NEW e \in Written(entries), entries' = [entries EXCEPT ![e].approved = TRUE],
             UNCHANGED <<now, row, breaks, rest, leave>>
      PROVE  Inv'
  <2>1. e \in Entries /\ entries[e].hours > 0
    BY DEF Written
  <2>2. \A x \in TimeLine : LET y == [x EXCEPT !.approved = TRUE] IN
          y \in TimeLine /\ y.hours = x.hours /\ y.on = x.on
    BY DEF TimeLine
  <2> HIDE DEF TimeLine
  <2>3. /\ entries' \in [Entries -> TimeLine]
        /\ \A x \in Entries : entries'[x].on = entries[x].on /\ entries'[x].hours = entries[x].hours
        /\ \A x \in Entries : x # e => entries'[x] = entries[x]
    BY <1>0, <1>1, <2>1, <2>2
  <2>4. SamePlaces
    BY <1>0, <1>1, <2>3 DEF SamePlaces, SameSlots
  <2>5. ApprovedAreWritten'
    <3> SUFFICES ASSUME NEW x \in Entries, entries'[x].approved PROVE entries'[x].hours > 0
      BY DEF ApprovedAreWritten
    <3> QED BY <2>1, <2>3 DEF Inv, ApprovedAreWritten
  <2> QED BY <2>4, <2>5, PlacesKeep
<1>2. ASSUME NEW l \in rest, rest' = (rest \ {l}) \cup ApprovedRest({l}),
             UNCHANGED <<now, row, breaks, entries, leave>>
      PROVE  Inv'
  <2>1. PICK m \in Line : m.on = l.on /\ m.line = l.line /\ ApprovedRest({l}) = {m}
    <3>1. /\ [l EXCEPT !.approved = TRUE] \in Line
          /\ [l EXCEPT !.approved = TRUE].on = l.on /\ [l EXCEPT !.approved = TRUE].line = l.line
      BY <1>0 DEF Line
    <3>2. ApprovedRest({l}) = {[l EXCEPT !.approved = TRUE]}
      BY DEF ApprovedRest
    <3> QED BY <3>1, <3>2, Zenon
  <2>2. SameSlots(rest, rest') /\ rest' \subseteq Line
    BY <1>0, <1>2, <2>1, OneLine
  <2>3. SamePlaces /\ ApprovedAreWritten'
    BY <1>0, <1>2, <2>2 DEF SamePlaces, Inv, ApprovedAreWritten
  <2> QED BY <2>3, PlacesKeep
<1>3. ASSUME NEW s \in BreakLines(breaks), breaks' = [breaks EXCEPT ![s].approved = TRUE],
             UNCHANGED <<now, row, entries, rest, leave>>
      PROVE  Inv'
  <2>1. s \in Slot
    BY DEF BreakLines
  <2>2. \A x \in Break : LET y == [x EXCEPT !.approved = TRUE] IN y \in Break /\ y.there = x.there
    BY DEF Break
  <2> HIDE DEF Break
  <2>3. breaks' \in [Slot -> Break] /\ \A x \in Slot : breaks'[x].there = breaks[x].there
    BY <1>0, <1>3, <2>1, <2>2
  <2>4. SamePlaces /\ ApprovedAreWritten'
    BY <1>0, <1>3, <2>3 DEF SamePlaces, SameSlots, Inv, ApprovedAreWritten
  <2> QED BY <2>4, PlacesKeep
<1> QED BY <1>1, <1>2, <1>3 DEF approve_cost_line

\* What the sweep leaves: the General work is the gaps, and all of it approved.
LEMMA StepSweep ==
    Inv /\ sweep => /\ Inv' /\ row'.sent
                    /\ entries' = ApprovedAll(entries') /\ breaks' = ApprovedBreaks(breaks')
                    /\ rest' = ApprovedRest(rest')
                    /\ Filled(rest)' = Gaps(row, entries, breaks)'
                    /\ \E r : /\ r.in = row'.in /\ r.out = row'.out
                             /\ rest' = ApprovedRest(Refilled(r, entries', breaks', rest))
<1> SUFFICES ASSUME Inv, sweep
             PROVE  /\ Inv' /\ row'.sent
                    /\ entries' = ApprovedAll(entries') /\ breaks' = ApprovedBreaks(breaks')
                    /\ rest' = ApprovedRest(rest')
                    /\ Filled(rest)' = Gaps(row, entries, breaks)'
                    /\ \E r : /\ r.in = row'.in /\ r.out = row'.out
                             /\ rest' = ApprovedRest(Refilled(r, entries', breaks', rest))
  OBVIOUS
<1>0. entries \in [Entries -> TimeLine] /\ rest \subseteq Line
  BY DEF Inv, DayShape
<1>1. SettledRow \in Times_of_day /\ SettledBreaks \in [Slot -> Break] /\ Clocked(SettledRow)
  BY SettledShape DEF Inv
<1>2. PICK r : /\ r = [SettledRow EXCEPT !.fill = TRUE] /\ row' = [r EXCEPT !.sent = TRUE]
               /\ entries' = ApprovedAll(entries) /\ breaks' = ApprovedBreaks(SettledBreaks)
               /\ rest' = ApprovedRest(Refilled(r, entries, SettledBreaks, rest))
               /\ UNCHANGED <<now, leave>>
  BY DEF sweep, Swept
<1>3. /\ r \in Times_of_day /\ r.fill /\ row' \in Times_of_day /\ row'.fill /\ row'.sent
      /\ row'.in = r.in /\ row'.out = r.out /\ row'.in # 0
  <2>1. r \in Times_of_day /\ r.fill /\ r.in # 0
    BY <1>1, <1>2 DEF Times_of_day, Clocked
  <2> QED BY <1>2, <2>1 DEF Times_of_day
<1>4. \A x \in TimeLine, a \in BOOLEAN : LET y == [x EXCEPT !.approved = a] IN
        /\ y \in TimeLine /\ y.hours = x.hours /\ y.on = x.on /\ y.approved = a
        /\ [y EXCEPT !.approved = a] = y
  BY DEF TimeLine
<1>5. \A x \in Break : LET y == [x EXCEPT !.approved = x.there] IN
        y \in Break /\ y.there = x.there /\ [y EXCEPT !.approved = y.there] = y
  BY DEF Break
<1>6. /\ entries' \in [Entries -> TimeLine]
      /\ \A e \in Entries : /\ entries'[e].on = entries[e].on /\ entries'[e].hours = entries[e].hours
                            /\ (entries'[e].approved <=> e \in Written(entries))
                            /\ [entries'[e] EXCEPT !.approved = e \in Written(entries)] = entries'[e]
  <2>1. \A e \in Entries : (e \in Written(entries)) \in BOOLEAN
    OBVIOUS
  <2> HIDE DEF TimeLine
  <2>2. entries' \in [Entries -> TimeLine]
    BY <1>0, <1>2, <1>4, <2>1 DEF ApprovedAll
  <2>3. \A e \in Entries : entries'[e] = [entries[e] EXCEPT !.approved = e \in Written(entries)]
    BY <1>2 DEF ApprovedAll
  <2>4. ASSUME NEW e \in Entries
        PROVE  /\ entries'[e].on = entries[e].on /\ entries'[e].hours = entries[e].hours
               /\ (entries'[e].approved <=> e \in Written(entries))
               /\ [entries'[e] EXCEPT !.approved = e \in Written(entries)] = entries'[e]
    <3>1. CASE e \in Written(entries)
      <4>1. (e \in Written(entries)) = TRUE
        BY <3>1
      <4>2. entries'[e] = [entries[e] EXCEPT !.approved = TRUE]
        BY <2>3, <4>1
      <4> QED BY <1>0, <1>4, <4>1, <4>2
    <3>2. CASE e \notin Written(entries)
      <4>1. (e \in Written(entries)) = FALSE
        BY <3>2
      <4>2. entries'[e] = [entries[e] EXCEPT !.approved = FALSE]
        BY <2>3, <4>1
      <4> QED BY <1>0, <1>4, <4>1, <4>2
    <3> QED BY <3>1, <3>2
  <2> QED BY <2>2, <2>4
<1>7. entries' = ApprovedAll(entries')
  <2>1. Written(entries') = Written(entries)
    BY <1>6 DEF Written
  <2>2. ApprovedAll(entries') = [e \in Entries |-> entries'[e]]
    BY <1>6, <2>1 DEF ApprovedAll
  <2> QED BY <1>6, <2>2
<1>8. /\ breaks' \in [Slot -> Break]
      /\ \A s \in Slot : breaks'[s].there = SettledBreaks[s].there
                         /\ [breaks'[s] EXCEPT !.approved = breaks'[s].there] = breaks'[s]
  <2> HIDE DEF Break
  <2> QED BY <1>1, <1>2, <1>5 DEF ApprovedBreaks
<1>9. breaks' = ApprovedBreaks(breaks')
  BY <1>8 DEF ApprovedBreaks
<1>10. ApprovedAreWritten'
  BY <1>6 DEF ApprovedAreWritten, Written
<1>11. Refilled(r, entries, SettledBreaks, rest) = Refilled(r, entries', breaks', rest)
  <2>1. BreakLines(breaks') = BreakLines(SettledBreaks)
    BY <1>8 DEF BreakLines
  <2>2. Drawn(entries') = Drawn(entries)
    BY <1>6 DEF Drawn
  <2>3. Loose(entries') = Loose(entries)
    BY <1>6 DEF Loose, Written
  <2>4. LooseHours(entries') = LooseHours(entries)
    <3>1. {{e} \X (1 .. entries'[e].hours) : e \in Loose(entries')}
            = {{e} \X (1 .. entries[e].hours) : e \in Loose(entries)}
      BY <1>6, <2>3 DEF Loose, Written
    <3> QED BY <3>1 DEF LooseHours
  <2>5. Gaps(r, entries', breaks') = Gaps(r, entries, SettledBreaks)
    BY <2>1, <2>2, <2>4 DEF Gaps, BreaksOf
  <2> QED BY <2>5 DEF Refilled
<1>12. rest' = ApprovedRest(Refilled(r, entries', breaks', rest))
  BY <1>2, <1>11
<1>13. Inv' /\ Filled(rest)' = Gaps(row, entries, breaks)'
  <2>1. rest \subseteq Line /\ (~row.fill => NoneMade(rest)) /\ UNCHANGED now /\ Clocked(row)'
    BY <1>2, <1>3, RestShape DEF Clocked
  <2> QED BY <1>3, <1>6, <1>8, <1>10, <1>12, <2>1, RefillKeeps
<1>14. rest' = ApprovedRest(rest')
  <2>1. Refilled(r, entries', breaks', rest) \subseteq Line
    BY <1>0, <1>3, RefillFills
  <2> QED BY <1>12, <2>1, ApprovedPlaces
<1> QED BY <1>3, <1>7, <1>9, <1>12, <1>13, <1>14

LEMMA StepLeave == Inv /\ (create_leave_request \/ update_leave_request \/ delete_leave_request) => Inv'
<1> SUFFICES ASSUME Inv, create_leave_request \/ update_leave_request \/ delete_leave_request PROVE Inv'
  OBVIOUS
<1>1. rest' = Refilled(row, entries, breaks, rest) /\ UNCHANGED <<now, row, entries, breaks>>
  BY DEF create_leave_request, update_leave_request, delete_leave_request, Refill
<1>2. /\ entries \in [Entries -> TimeLine] /\ \A e \in Entries : entries[e].approved => entries[e].hours > 0
      /\ breaks \in [Slot -> Break]
  BY DEF Inv, DayShape, ApprovedAreWritten
<1> QED BY <1>1, <1>2, RestShape, LinesWritten

\* The end of the day makes the finish known by default; until then the General work of
\* an open day was none.
LEMMA StepTick == Inv /\ Tick => Inv'
<1> SUFFICES ASSUME Inv, Tick PROVE Inv'
  OBVIOUS
<1>1. UNCHANGED <<row, entries, breaks, rest>> /\ now' = now + 1 /\ ~GoneBy
  BY DEF Tick, time
<1>2. CASE row.out # Open
  <2>1. Gaps(row, entries, breaks)' = Gaps(row, entries, breaks)
    <3>1. SpanOf(now' > Last, row.in, row.out) = SpanOf(now > Last, row.in, row.out)
      BY <1>2 DEF SpanOf
    <3>2. Gaps(row, entries, breaks)' = GapsOf(now' > Last, row.in, row.out, entries, breaks)
      BY <1>1, GapsAre
    <3> QED BY <3>1, <3>2, GapsAre DEF GapsOf
  <2> QED BY <1>1, <2>1 DEF Inv, DayShape, FillHolds, LinesApart, AllDrawn, NoneMade, ApprovedAreWritten, Clocked, Filled
<1>3. CASE row.out = Open
  <2>1. row.fill => rest = {}
    <3> SUFFICES ASSUME row.fill, Filled(rest) = Gaps(row, entries, breaks) PROVE rest = {}
      BY DEF Inv, FillHolds
    <3>1. Span(row) = {}
      BY <1>1, <1>3 DEF Span, Inv, FillHolds
    <3>2. Filled(rest) = {}
      BY <3>1 DEF Gaps
    <3>3. \A l \in rest : l.on # {} /\ l.on \subseteq Filled(rest)
      BY DEF Inv, FillHolds, AllDrawn, Filled
    <3> QED BY <3>2, <3>3
  <2> QED BY <1>1, <1>3, <2>1 DEF Inv, DayShape, FillHolds, LinesApart, AllDrawn, NoneMade, ApprovedAreWritten, Clocked
<1> QED BY <1>2, <1>3

LEMMA InitInv == Init => Inv
<1> SUFFICES ASSUME Init PROVE Inv
  OBVIOUS
<1>1. NoRow \in Times_of_day /\ ~NoRow.fill /\ NoRow.out = Open
  BY DEF NoRow, Times_of_day, Open
<1>2. NoEntry \in TimeLine /\ ~NoEntry.approved /\ NoBreak \in Break
  BY DEF NoEntry, TimeLine, NoBreak, Break
<1> HIDE DEF TimeLine, Break, Times_of_day
<1> QED BY <1>1, <1>2 DEF Init, Inv, DayShape, FillHolds, NoneMade, ApprovedAreWritten

LEMMA InvHolds == Spec => []Inv
<1>1. Init => Inv
  BY InitInv
<1>2. Inv /\ [Next]_vars => Inv'
  <2> SUFFICES ASSUME Inv, [Next]_vars PROVE Inv'
    OBVIOUS
  <2>1. CASE UNCHANGED vars
    <3>1. UNCHANGED <<now, row, entries, breaks, rest>>
      BY <2>1 DEF vars, time
    <3>2. Gaps(row, entries, breaks)' = Gaps(row, entries, breaks)
      BY <3>1, GapsAre
    <3> QED BY <3>1, <3>2
            DEF Inv, DayShape, FillHolds, LinesApart, AllDrawn, NoneMade, ApprovedAreWritten, Clocked, Filled
  <2>2. CASE clock_in \/ clock_out \/ set_clock_times
    BY <2>2, StepClockIn, StepClockOut, StepSetTimes
  <2>3. CASE \/ create_entry \/ update_entry \/ BackToGeneralWork \/ UpdateFill
             \/ delete_entry \/ GeneralWorkOff \/ GoesToAnotherDay \/ ComesFromAnotherDay
    BY <2>3, StepCreate, StepUpdate, StepBack, StepUpdateFill, StepDelete, StepWorkOff, StepGoes, StepComes
  <2>4. CASE add_break \/ change_break \/ remove_break
    BY <2>4, StepBreaks
  <2>5. CASE fill_with_general_work \/ submit_day
    BY <2>5, StepFill, StepSubmit
  <2>6. CASE approve_day \/ approve_cost_line \/ sweep
    BY <2>6, StepApproveDay, StepApproveLine, StepSweep
  <2>7. CASE create_leave_request \/ update_leave_request \/ delete_leave_request
    BY <2>7, StepLeave
  <2>8. CASE Tick
    BY <2>8, StepTick
  <2> QED BY <2>1, <2>2, <2>3, <2>4, <2>5, <2>6, <2>7, <2>8 DEF Next
<1> QED BY <1>1, <1>2, PTL DEF Spec

-----------------------------------------------------------------------------
(* What a step may do to what is approved.                                 *)

\* The steps that write a line somebody named.
LineWrites ==
    \/ create_entry \/ update_entry \/ BackToGeneralWork \/ UpdateFill
    \/ delete_entry \/ GoesToAnotherDay \/ ComesFromAnotherDay

LEMMA LineWritesOnly == LineWrites => UNCHANGED <<now, row, breaks, leave>>
BY DEF LineWrites, create_entry, update_entry, BackToGeneralWork, UpdateFill, delete_entry,
       GoesToAnotherDay, ComesFromAnotherDay, EntriesAre, LinesAre

LEMMA OnlyTicks == Next /\ ~Tick => now' = now
BY LineWritesOnly DEF Next, LineWrites, clock_in, clock_out, set_clock_times,
   GeneralWorkOff, add_break, change_break, remove_break, fill_with_general_work, submit_day,
   approve_day, approve_cost_line, sweep, create_leave_request, update_leave_request,
   delete_leave_request, BreaksAre

\* A step that changes entries, breaks or leave of a filled day refills it, takes a
\* General work line out for an entry or puts one in, or leaves the General work where it is.
LEMMA WritesRefill ==
    ASSUME Inv, Next, row.fill, row'.fill
    PROVE  \/ \E r : /\ r.in = row'.in /\ r.out = row'.out
                     /\ \/ rest' = Refilled(r, entries', breaks', rest)
                        \/ rest' = ApprovedRest(Refilled(r, entries', breaks', rest))
           \/ rest' = rest \/ rest' = ApprovedRest(rest)
           \/ (UpdateFill /\ entries' # entries) \/ BackToGeneralWork \/ UNCHANGED <<entries, breaks, leave>>
<1> DEFINE Refills == \E r : /\ r.in = row'.in /\ r.out = row'.out
                             /\ \/ rest' = Refilled(r, entries', breaks', rest)
                                \/ rest' = ApprovedRest(Refilled(r, entries', breaks', rest))
<1>0. row \in Times_of_day /\ Clocked(row) /\ now \in Nat
  BY DEF Inv, DayShape, FillHolds
<1>1. CASE clock_in
  BY <1>0, <1>1 DEF clock_in
<1>2. ASSUME NEW r \in Times_of_day, TimesAre(r), UNCHANGED entries PROVE Refills
  <2>1. row'.in = r.in /\ row'.out = r.out
    BY <1>2 DEF TimesAre, WithBreaks, Times_of_day
  <2>2. rest' = Refilled(r, entries', breaks', rest)
    BY <1>2 DEF TimesAre, Refill
  <2> QED BY <2>1, <2>2
<1>3. CASE clock_out
  <2>1. PICK r : r = [row EXCEPT !.in = row.in, !.out = now] /\ TimesAre(r)
    BY <1>0, <1>3 DEF clock_out
  <2>2. r \in Times_of_day /\ UNCHANGED entries
    BY <1>0, <1>3, <2>1 DEF Times_of_day, clock_out
  <2> QED BY <1>2, <2>1, <2>2
<1>4. CASE set_clock_times
  <2>1. PICK in \in Times, out \in Times \cup {Open} :
            TimesAre([row EXCEPT !.in = in, !.out = out, !.sent = FALSE, !.assumed = "nothing"])
    BY <1>4 DEF set_clock_times
  <2>r. PICK r : r = [row EXCEPT !.in = in, !.out = out, !.sent = FALSE, !.assumed = "nothing"] /\ TimesAre(r)
    BY <2>1
  <2>2. in \in Nat /\ out \in Nat
    BY DayAssumption DEF Open
  <2>3. r \in Times_of_day /\ UNCHANGED entries
    BY <1>0, <1>4, <2>r, <2>2 DEF Times_of_day, set_clock_times
  <2> QED BY <1>2, <2>r, <2>3
<1>5. CASE LineWrites
  <2>1. CASE \E es : EntriesAre(es)
    <3>1. rest' = Refilled(row, entries', breaks', rest) /\ row' = row
      BY <2>1 DEF EntriesAre, LinesAre
    <3> QED BY <3>1
  <2>2. CASE \E lines : LinesAre(entries, lines)
    BY <2>2 DEF LinesAre
  <2>3. CASE UpdateFill
    <3>1. entries' # entries \/ UNCHANGED <<entries, breaks, leave>>
      BY <1>5, LineWritesOnly
    <3> QED BY <2>3, <3>1
  <2> QED BY <1>5, <2>1, <2>2, <2>3
          DEF LineWrites, create_entry, update_entry, delete_entry, GoesToAnotherDay, ComesFromAnotherDay
<1>6. CASE add_break \/ change_break \/ remove_break
  BY <1>6 DEF add_break, change_break, remove_break, BreaksAre, Refill
<1>7. CASE create_leave_request \/ update_leave_request \/ delete_leave_request
  BY <1>7 DEF create_leave_request, update_leave_request, delete_leave_request, Refill
<1>8. CASE GeneralWorkOff
  BY <1>8 DEF GeneralWorkOff
<1>9. SettledRow \in Times_of_day
  BY SettledShape DEF Inv
<1>10. CASE fill_with_general_work
  <2>1. PICK r : /\ r = [SettledRow EXCEPT !.fill = TRUE] /\ row' = r
                 /\ rest' = Refilled(r, entries', breaks', rest)
    BY <1>10 DEF fill_with_general_work, Refill
  <2> QED BY <2>1
<1>11. CASE submit_day
  <2>1. row' = [SettledRow EXCEPT !.sent = TRUE]
    BY <1>11 DEF submit_day
  <2>2. row'.in = SettledRow.in /\ row'.out = SettledRow.out
    BY <1>9, <2>1 DEF Times_of_day
  <2>3. rest' = rest \/ rest' = Refilled(SettledRow, entries', breaks', rest)
    BY <1>11 DEF submit_day
  <2> QED BY <2>2, <2>3
<1>12. CASE approve_day
  BY <1>12 DEF approve_day
<1>13. CASE approve_cost_line
  BY <1>13 DEF approve_cost_line
<1>14. CASE sweep
  BY <1>14, StepSweep
<1>15. CASE Tick
  BY <1>15 DEF Tick, time
<1> QED BY <1>1, <1>3, <1>4, <1>5, <1>6, <1>7, <1>8, <1>10, <1>11, <1>12, <1>13, <1>14, <1>15
        DEF Next, LineWrites

\* A General work line put on a job leaves a gap the less.
LEMMA UpdateFillMovesGaps ==
    ASSUME Inv, UpdateFill, entries' # entries, row.fill
    PROVE  Gaps(row, entries, breaks)' # Gaps(row, entries, breaks)
<1>1. PICK l \in rest : \E e \in Entries \cup ({l.line} \ {Made}) : LinesAre([entries EXCEPT ![e] =
                [hours |-> l.hours, on |-> l.on, approved |-> FALSE, swept |-> TRUE]], rest \ {l})
  BY DEF UpdateFill, LinesAre, Free
<1>2. l.on # {} /\ l.on \subseteq Filled(rest) /\ l \in Line
  BY DEF Inv, DayShape, FillHolds, AllDrawn, Filled
<1>3. PICK e \in Entries : entries' = [entries EXCEPT ![e] =
                [hours |-> l.hours, on |-> l.on, approved |-> FALSE, swept |-> TRUE]]
  BY <1>1, <1>2 DEF LinesAre, Line
<1>4. Filled(rest) = Gaps(row, entries, breaks)
  BY <1>2 DEF Inv, FillHolds
<1>5. entries'[e].on = l.on
  BY <1>3 DEF Inv, DayShape
<1>6. l.on \subseteq Drawn(entries')
  BY <1>5 DEF Drawn
<1>7. Gaps(row', entries', breaks') \cap Drawn(entries') = {}
  BY DEF Gaps
<1>8. Gaps(row', entries', breaks') = Gaps(row, entries, breaks)'
  BY <1>1, GapsAre DEF LinesAre
<1> QED BY <1>2, <1>4, <1>6, <1>7, <1>8

LEMMA ApprovalStep ==
    ASSUME Inv, Next, entries' # entries \/ breaks' # breaks \/ leave' # leave, row.fill, row'.fill,
           Gaps(row, entries, breaks)' = Gaps(row, entries, breaks), ~BackToGeneralWork
    PROVE  {l \in rest : l.approved} \subseteq rest'
<1> SUFFICES ASSUME NEW l \in rest, l.approved PROVE l \in rest'
  OBVIOUS
<1>1. Filled(rest) = Gaps(row, entries, breaks) /\ LinesApart(rest) /\ AllDrawn(rest)
  BY DEF Inv, FillHolds
<1>2. l \in ApprovedRest(rest)
  <2>1. l \in Line
    BY DEF Inv, DayShape
  <2>2. [l EXCEPT !.approved = TRUE] = l
    BY <2>1 DEF Line
  <2> QED BY <2>2 DEF ApprovedRest
<1>3. ASSUME NEW r, r.in = row'.in, r.out = row'.out PROVE Refilled(r, entries', breaks', rest) = rest
  <2>1. CASE now' = now
    <3>1. Gaps(r, entries', breaks') = Gaps(row, entries, breaks)
      BY <1>3, <2>1, GapsAre
    <3> QED BY <1>1, <3>1 DEF Refilled
  <2>2. CASE now' # now
    <3>1. Tick
      BY <2>2, OnlyTicks
    <3> QED BY <3>1 DEF Tick, time
  <2> QED BY <2>1, <2>2
<1>4. ~(UpdateFill /\ entries' # entries)
  BY UpdateFillMovesGaps
<1> QED BY <1>2, <1>3, <1>4, WritesRefill

-----------------------------------------------------------------------------

\* Whatever order a day is written in, while it is filled no hour is paid as General work
\* and as an entry or a break, or as General work twice, whatever came to it from other
\* days; and no other day holds a line that was made for it (refill_general_work).
THEOREM OncePaid == Spec => []NothingPaidTwice
BY InvHolds, InvImpliesOnce, PTL

\* On a filled day whose times he gave, General work is exactly what no entry and no break
\* takes, after every write (refill_general_work).
THEOREM RestIsTheGaps == Spec => []GeneralWorkIsTheRest
BY InvHolds, InvImpliesRest, PTL

\* A write of a filled day that leaves the gaps as they were leaves approved General work
\* approved, unless it puts an entry on the General work job (refill_general_work,
\* approve_day, update_entry).
THEOREM ApprovalStays == Spec => RestKeepsItsApproval
<1>1. Inv /\ [Next]_vars => [
        /\ row.fill /\ row'.fill /\ (entries' # entries \/ breaks' # breaks \/ leave' # leave)
        /\ \E l \in rest \ rest' : l.approved
        => Gaps(row', entries', breaks') # Gaps(row, entries, breaks) \/ BackToGeneralWork ]_vars
  <2> SUFFICES ASSUME Inv, Next, entries' # entries \/ breaks' # breaks \/ leave' # leave, row.fill, row'.fill,
                      Gaps(row', entries', breaks') = Gaps(row, entries, breaks), ~BackToGeneralWork
               PROVE  {l \in rest : l.approved} \subseteq rest'
    OBVIOUS
  <2>1. now' = now
    BY OnlyTicks DEF Tick, time
  <2>2. Gaps(row', entries', breaks') = Gaps(row, entries, breaks)'
    BY <2>1, GapsAre
  <2> QED BY <2>2, ApprovalStep
<1> QED BY <1>1, InvHolds, PTL DEF Spec, RestKeepsItsApproval

\* A sweep leaves a day that is sent, with nothing waiting and General work over exactly its
\* gaps, whatever was known of its times (sweep_person).
THEOREM SweepFinishes == Spec => SweptIsFinished
<1>1. Inv /\ [Next]_vars => [ sweep =>
            /\ row'.sent
            /\ entries' = ApprovedAll(entries') /\ breaks' = ApprovedBreaks(breaks')
            /\ rest' = ApprovedRest(rest')
            /\ Filled(rest') = Gaps(row', entries', breaks') ]_vars
  <2> SUFFICES ASSUME Inv, sweep
               PROVE  /\ row'.sent
                      /\ entries' = ApprovedAll(entries') /\ breaks' = ApprovedBreaks(breaks')
                      /\ rest' = ApprovedRest(rest')
                      /\ Filled(rest') = Gaps(row', entries', breaks')
    OBVIOUS
  <2>1. now' = now
    BY DEF sweep
  <2>2. Gaps(row', entries', breaks') = Gaps(row, entries, breaks)' /\ Filled(rest') = Filled(rest)'
    BY <2>1, GapsAre DEF Filled
  <2> QED BY <2>2, StepSweep
<1> QED BY <1>1, InvHolds, PTL DEF Spec, SweptIsFinished

-----------------------------------------------------------------------------
(* What stays approved.                                                    *)

\* Where a line is not what it was, it waits. (a_change_takes_the_approval_off)
ChangesWait(S, old, new) == \A s \in S : new[s] = old[s] \/ ~new[s].approved

\* What is approved stays as it was, or its approval goes.
ApprovedStand(S, old, new) == \A s \in S : old[s].approved /\ new[s].approved => new[s] = old[s]

\* What is approved of the breaks is a line.
BreaksThere == \A s \in Slot : breaks[s].approved => breaks[s].there

LEMMA WaitingStands ==
    ASSUME NEW S, NEW old, NEW new, ChangesWait(S, old, new)
    PROVE  ApprovedStand(S, old, new)
BY DEF ChangesWait, ApprovedStand

\* Settling a day leaves a break as it is, drops it, or puts one where none was.
\* (generate_default_breaks, drop_breaks_after_finish)
LEMMA BreaksWait ==
    ASSUME NEW r, NEW bs \in [Slot -> Break]
    PROVE  /\ \A s \in Slot : \/ Generated(r, bs)[s] = bs[s]
                              \/ ~Generated(r, bs)[s].approved /\ ~bs[s].there
           /\ \A s \in Slot : \/ Dropped(r, bs)[s] = bs[s]
                              \/ ~Dropped(r, bs)[s].approved /\ ~Dropped(r, bs)[s].there
BY DEF Generated, Dropped, NoBreak

LEMMA SettledWait ==
    ASSUME DayShape
    PROVE  \A s \in Slot : \/ SettledBreaks[s] = breaks[s]
                           \/ ~SettledBreaks[s].approved /\ (~SettledBreaks[s].there \/ ~breaks[s].there)
<1>1. breaks \in [Slot -> Break]
  BY DEF DayShape
<1>2. CASE row.out # Open
  BY <1>2 DEF SettledBreaks
<1>3. CASE row.out = Open
  <2>1. PICK r, bs : /\ bs = breaks \/ bs = Generated(r, breaks)
                     /\ SettledBreaks = Dropped(SettledRow, bs)
    BY <1>3 DEF SettledBreaks
  <2>2. bs \in [Slot -> Break]
    BY <1>1, <2>1, BreaksShape
  <2> SUFFICES ASSUME NEW s \in Slot
               PROVE  \/ SettledBreaks[s] = breaks[s]
                      \/ ~SettledBreaks[s].approved /\ (~SettledBreaks[s].there \/ ~breaks[s].there)
    OBVIOUS
  <2>3. bs[s] = breaks[s] \/ (~bs[s].approved /\ ~breaks[s].there)
    BY <1>1, <2>1, BreaksWait
  <2>4. \/ SettledBreaks[s] = bs[s]
        \/ ~SettledBreaks[s].approved /\ ~SettledBreaks[s].there
    BY <2>1, <2>2, BreaksWait
  <2> QED BY <2>3, <2>4
<1> QED BY <1>2, <1>3

\* The rows he filled in wait. (submit_day)
LEMMA RowsWait ==
    ASSUME NEW es \in [Entries -> TimeLine], NEW x \in RowAdded(es)
    PROVE  ChangesWait(Entries, es, x)
BY DEF RowAdded, ChangesWait

\* A line that is written waits, or is taken off the day. (update_entry)
LEMMA LinesWait ==
    ASSUME Inv, LineWrites
    PROVE  ChangesWait(Entries, entries, entries')
<1>1. entries \in [Entries -> TimeLine] /\ rest \subseteq Line /\ ~NoEntry.approved
  BY DEF Inv, DayShape, NoEntry
<1>2. CASE entries' = entries
  BY <1>2 DEF ChangesWait
<1>3. ASSUME NEW e \in Entries, NEW line, ~line.approved, entries' = [entries EXCEPT ![e] = line]
      PROVE  ChangesWait(Entries, entries, entries')
  BY <1>1, <1>3 DEF ChangesWait
<1>4. CASE create_entry
  <2>1. PICK e \in Entries : \E h, on : entries' = [entries EXCEPT ![e] =
            [hours |-> h, on |-> on, approved |-> FALSE, swept |-> FALSE]]
    BY <1>4 DEF create_entry, EntriesAre, LinesAre, Free
  <2>2. PICK line : ~line.approved /\ entries' = [entries EXCEPT ![e] = line]
    BY <2>1
  <2> QED BY <1>3, <2>2
<1>5. CASE update_entry
  <2>1. PICK e \in Entries : \E line \in Edits(entries[e]) : entries' = [entries EXCEPT ![e] = line]
    BY <1>5 DEF update_entry, EntriesAre, LinesAre, Written
  <2>2. PICK line \in Edits(entries[e]) : entries' = [entries EXCEPT ![e] = line]
    BY <2>1
  <2>3. ~line.approved
    BY <1>1, EditsShape
  <2> QED BY <1>3, <2>2, <2>3
<1>6. CASE UpdateFill
  <2>1. CASE entries' # entries
    <3>1. PICK l \in rest : \E e \in Entries \cup ({l.line} \ {Made}) : entries' = [entries EXCEPT ![e] =
                [hours |-> l.hours, on |-> l.on, approved |-> FALSE, swept |-> TRUE]]
      BY <1>6, <2>1 DEF UpdateFill, LinesAre, Free
    <3>2. PICK e \in Entries : entries' = [entries EXCEPT ![e] =
                [hours |-> l.hours, on |-> l.on, approved |-> FALSE, swept |-> TRUE]]
      BY <1>1, <3>1 DEF Line
    <3>3. PICK line : ~line.approved /\ entries' = [entries EXCEPT ![e] = line]
      BY <3>2
    <3> QED BY <1>3, <3>3
  <2> QED BY <1>2, <2>1
<1>7. CASE BackToGeneralWork \/ delete_entry \/ GoesToAnotherDay
  <2>1. CASE entries' # entries
    <3>1. PICK e \in Entries : entries' = [entries EXCEPT ![e] = NoEntry]
      BY <1>7, <2>1 DEF BackToGeneralWork, delete_entry, GoesToAnotherDay, EntriesAre, LinesAre, Written
    <3> QED BY <1>1, <1>3, <3>1
  <2> QED BY <1>2, <2>1
<1>8. CASE ComesFromAnotherDay
  <2>1. CASE entries' # entries
    <3>1. PICK e \in Entries : \E h, on, swept : entries' = [entries EXCEPT ![e] =
                [hours |-> h, on |-> on, approved |-> FALSE, swept |-> swept]]
      BY <1>8, <2>1 DEF ComesFromAnotherDay, EntriesAre, LinesAre, Free
    <3>2. PICK line : ~line.approved /\ entries' = [entries EXCEPT ![e] = line]
      BY <3>1
    <3> QED BY <1>3, <3>2
  <2> QED BY <1>2, <2>1
<1> QED BY <1>4, <1>5, <1>6, <1>7, <1>8 DEF LineWrites

LEMMA EntriesStand ==
    ASSUME Inv, Next
    PROVE  ApprovedStand(Entries, entries, entries')
<1>0. entries \in [Entries -> TimeLine] /\ \A e \in Entries : entries[e] \in TimeLine
  BY DEF Inv, DayShape
<1>1. entries' = entries => ChangesWait(Entries, entries, entries')
  BY DEF ChangesWait
<1>2. ASSUME ChangesWait(Entries, entries, entries') PROVE ApprovedStand(Entries, entries, entries')
  BY <1>2, WaitingStands
<1>3. CASE LineWrites
  BY <1>2, <1>3, LinesWait
<1>7. CASE submit_day
  <2>1. PICK es : /\ es \in {entries} \cup RowAdded(entries) \cup UNION {RowAdded(x) : x \in RowAdded(entries)}
                  /\ entries' = es
    BY <1>7 DEF submit_day
  <2>2. CASE es = entries
    BY <1>1, <2>1, <2>2, WaitingStands
  <2>3. CASE es \in RowAdded(entries)
    BY <1>0, <2>1, <2>3, RowsWait, WaitingStands
  <2>4. CASE es \in UNION {RowAdded(x) : x \in RowAdded(entries)}
    <3>1. PICK x \in RowAdded(entries) : es \in RowAdded(x)
      BY <2>4
    <3>2. x \in [Entries -> TimeLine]
      BY <1>0, <3>1, RowAddedShape DEF Inv, ApprovedAreWritten
    <3>3. ChangesWait(Entries, entries, x) /\ ChangesWait(Entries, x, es)
      BY <1>0, <3>1, <3>2, RowsWait
    <3>4. ChangesWait(Entries, entries, es)
      BY <3>3 DEF ChangesWait
    <3> QED BY <2>1, <3>4, WaitingStands
  <2> QED BY <2>1, <2>2, <2>3, <2>4
<1>8. CASE approve_day \/ sweep
  <2>1. entries' = ApprovedAll(entries)
    BY <1>8 DEF approve_day, sweep, Swept
  <2> SUFFICES ASSUME NEW e \in Entries, entries[e].approved, entries'[e].approved
               PROVE  entries'[e] = entries[e]
    BY DEF ApprovedStand
  <2>2. entries'[e] = [entries[e] EXCEPT !.approved = TRUE]
    <3>1. entries'[e] = [entries[e] EXCEPT !.approved = e \in Written(entries)]
      BY <2>1 DEF ApprovedAll
    <3>2. e \in Written(entries)
      BY DEF Inv, ApprovedAreWritten, Written
    <3> QED BY <3>1, <3>2
  <2> QED BY <1>0, <2>2 DEF TimeLine
<1>9. CASE approve_cost_line
  <2>1. CASE entries' = entries
    BY <1>1, <2>1, WaitingStands
  <2>2. CASE entries' # entries
    <3>1. PICK e \in Entries : ~entries[e].approved /\ entries' = [entries EXCEPT ![e].approved = TRUE]
      BY <1>9, <2>2 DEF approve_cost_line, Written
    <3> QED BY <1>0, <3>1 DEF ApprovedStand
  <2> QED BY <2>1, <2>2
<1>10. ASSUME \/ clock_in \/ clock_out \/ set_clock_times \/ GeneralWorkOff
              \/ add_break \/ change_break \/ remove_break \/ fill_with_general_work
              \/ create_leave_request \/ update_leave_request \/ delete_leave_request \/ Tick
       PROVE  entries' = entries
  BY <1>10 DEF clock_in, clock_out, set_clock_times, GeneralWorkOff, add_break, change_break, remove_break,
     BreaksAre, fill_with_general_work, create_leave_request, update_leave_request, delete_leave_request,
     Tick, time
<1> QED
  BY <1>1, <1>3, <1>7, <1>8, <1>9, <1>10, WaitingStands DEF Next, LineWrites

LEMMA BreaksStand ==
    ASSUME Inv, BreaksThere, Next
    PROVE  ApprovedStand(Slot, breaks, breaks') /\ BreaksThere'
<1>0. breaks \in [Slot -> Break] /\ DayShape
  BY DEF Inv, DayShape
<1>1. ASSUME ChangesWait(Slot, breaks, breaks')
      PROVE  ApprovedStand(Slot, breaks, breaks') /\ BreaksThere'
  BY <1>1, WaitingStands DEF ChangesWait, BreaksThere
<1>2. CASE breaks' = breaks
  BY <1>1, <1>2 DEF ChangesWait
<1>3. CASE clock_in
  <2>1. PICK r : breaks' = Generated(r, breaks)
    BY <1>3 DEF clock_in
  <2> QED BY <1>0, <1>1, <2>1, BreaksWait DEF ChangesWait
<1>4. CASE clock_out \/ set_clock_times
  <2>1. PICK r : breaks' = Dropped(r, Generated(r, breaks))
    BY <1>4 DEF clock_out, set_clock_times, TimesAre
  <2>2. PICK bs \in [Slot -> Break] : bs = Generated(r, breaks)
    BY <1>0, BreaksShape
  <2>3. \A s \in Slot : breaks'[s] = bs[s] \/ ~breaks'[s].approved
    BY <2>1, <2>2, BreaksWait
  <2>4. \A s \in Slot : bs[s] = breaks[s] \/ ~bs[s].approved
    BY <1>0, <2>2, BreaksWait
  <2> QED BY <1>1, <2>3, <2>4 DEF ChangesWait
<1>5. CASE add_break \/ change_break \/ remove_break
  <2>2. Pauses \subseteq Slot /\ BreakLines(breaks) \subseteq Slot /\ ~NoBreak.approved
    BY DayAssumption DEF Slot, BreakLines, NoBreak
  <2>3. CASE add_break
    <3>1. PICK s \in Pauses :
            breaks' = [breaks EXCEPT ![s] = [there |-> TRUE, untouched |-> FALSE, approved |-> FALSE]]
      BY <2>3 DEF add_break, BreaksAre
    <3> QED BY <1>0, <1>1, <2>2, <3>1 DEF ChangesWait
  <2>4. CASE remove_break
    <3>1. PICK s \in BreakLines(breaks) : breaks' = [breaks EXCEPT ![s] = NoBreak]
      BY <2>4 DEF remove_break, BreaksAre
    <3> QED BY <1>0, <1>1, <2>2, <3>1 DEF ChangesWait
  <2>5. CASE change_break
    <3>1. PICK s \in BreakLines(breaks), t \in Pauses :
            breaks' = [breaks EXCEPT ![s] = NoBreak,
                                     ![t] = [there |-> TRUE, untouched |-> FALSE, approved |-> FALSE]]
      BY <2>5 DEF change_break, BreaksAre, a_change_takes_the_approval_off
    <3>2. \A x \in Slot : breaks'[x] = breaks[x] \/ ~breaks'[x].approved
      BY <1>0, <2>2, <3>1
    <3> QED BY <1>1, <3>2 DEF ChangesWait
  <2> QED BY <1>5, <2>3, <2>4, <2>5
<1>6. CASE fill_with_general_work \/ submit_day
  <2>1. breaks' = SettledBreaks
    BY <1>6 DEF fill_with_general_work, submit_day
  <2> QED BY <1>0, <1>1, <2>1, SettledWait DEF ChangesWait
<1>7. ASSUME NEW bs \in [Slot -> Break], breaks' = ApprovedBreaks(bs),
             \A s \in Slot : bs[s] = breaks[s] \/ (~bs[s].approved /\ (~bs[s].there \/ ~breaks[s].there))
      PROVE  ApprovedStand(Slot, breaks, breaks') /\ BreaksThere'
  <2> SUFFICES ASSUME NEW s \in Slot, breaks'[s].approved
               PROVE  breaks'[s].there /\ (breaks[s].approved => breaks'[s] = breaks[s])
    BY DEF ApprovedStand, BreaksThere
  <2>1. breaks'[s] = [bs[s] EXCEPT !.approved = bs[s].there]
    BY <1>7 DEF ApprovedBreaks
  <2>2. bs[s].there /\ breaks'[s].there
    BY <1>7, <2>1 DEF Break
  <2>3. ASSUME breaks[s].approved PROVE breaks'[s] = breaks[s]
    <3>1. breaks[s].there /\ bs[s] = breaks[s]
      BY <1>7, <2>2, <2>3 DEF BreaksThere
    <3> QED BY <1>0, <2>1, <2>3, <3>1 DEF Break
  <2> QED BY <2>2, <2>3
<1>8. CASE approve_day
  <2>1. breaks' = ApprovedBreaks(breaks)
    BY <1>8 DEF approve_day
  <2> QED BY <1>0, <1>7, <2>1
<1>9. CASE sweep
  <2>1. breaks' = ApprovedBreaks(SettledBreaks)
    BY <1>9 DEF sweep, Swept
  <2>2. SettledBreaks \in [Slot -> Break]
    BY <1>0, SettledShape
  <2> QED BY <1>0, <1>7, <2>1, <2>2, SettledWait
<1>10. CASE approve_cost_line
  <2>1. CASE breaks' # breaks
    <3>1. PICK s \in Slot : breaks[s].there /\ ~breaks[s].approved
                            /\ breaks' = [breaks EXCEPT ![s].approved = TRUE]
      BY <1>10, <2>1 DEF approve_cost_line, BreakLines
    <3>2. breaks'[s].there
      BY <1>0, <3>1 DEF Break
    <3> QED BY <1>0, <3>1, <3>2 DEF ApprovedStand, BreaksThere
  <2> QED BY <1>2, <2>1
<1>11. ASSUME \/ LineWrites \/ GeneralWorkOff
              \/ create_leave_request \/ update_leave_request \/ delete_leave_request \/ Tick
       PROVE  breaks' = breaks
  BY <1>11, LineWritesOnly DEF GeneralWorkOff, create_leave_request, update_leave_request, delete_leave_request, Tick, time
<1> QED
  BY <1>2, <1>3, <1>4, <1>5, <1>6, <1>8, <1>9, <1>10, <1>11 DEF Next, LineWrites

\* What stays approved is what the office checked: whoever writes the day after that,
\* and a sweep that settles it, an approved line changes only with its approval off.
\* (update_entry, generate_default_breaks, approve_day, sweep_person)
THEOREM CheckedStands == Spec => ApprovedIsUnchanged
<1> DEFINE Kept ==
      /\ \A e \in Entries : entries[e].approved /\ entries'[e].approved => entries'[e] = entries[e]
      /\ \A s \in Slot : breaks[s].approved /\ breaks'[s].approved => breaks'[s] = breaks[s]
<1>1. Init => BreaksThere
  BY DEF Init, BreaksThere, NoBreak
<1>2. Inv /\ BreaksThere /\ [Next]_vars => BreaksThere' /\ Kept
  <2> SUFFICES ASSUME Inv, BreaksThere, [Next]_vars PROVE BreaksThere' /\ Kept
    OBVIOUS
  <2>1. CASE Next
    BY <2>1, EntriesStand, BreaksStand DEF ApprovedStand
  <2>2. CASE UNCHANGED vars
    BY <2>2 DEF vars, time, BreaksThere
  <2> QED BY <2>1, <2>2
<1> QED
  BY <1>1, <1>2, InvHolds, PTL DEF Spec, ApprovedIsUnchanged

-----------------------------------------------------------------------------
(* The locks of timesheet days (DayLocks). *)

\* Two requests hold locks on one row only if both are shared.
Exclusive ==
    \A r, q \in Requests : r # q =>
        \A l \in request[r].held : \A m \in request[q].held :
            l.row = m.row => l.shared /\ m.shared

OrderlyKinds == {"entry", "approve_day", "sweep", "times", "leave"}

\* People in the order of their keys, then jobs in the order of their ids. Rows of
\* days and foreign keys have no rank.
Ranked(l) == ~l.shared /\ l.row[1] \in {"staff", "job"}

Lower(l, m) ==
    \/ l.row[1] = "staff" /\ m.row[1] = "job"
    \/ l.row[1] = m.row[1] /\ l.row[2] < m.row[2]

\* What a request that holds H takes before the i-th lock of s.
Before(s, H, l, i) == l \in H \/ \E j \in DOMAIN s : j < i /\ s[j] = l

\* Of two ranked locks the lower one is taken first, however often they are named.
Climbs(s, H) ==
    \A i, k \in DOMAIN s :
        Ranked(s[i]) /\ Ranked(s[k]) /\ Lower(s[k], s[i]) => Before(s, H, s[k], i)

Above(s, H) ==
    \A i \in DOMAIN s : Ranked(s[i]) =>
        s[i] \in H \/ \A l \in H : Ranked(l) => Lower(l, s[i])

\* The person before the rows of his days.
Guarded(s, H) ==
    \A w \in People :
        /\ day(w) \in H => staff(w) \in H
        /\ \A i \in DOMAIN s : s[i] = day(w) => Before(s, H, staff(w), i)

\* And before his name in an event.
Named(s, H, a) ==
    a \in People =>
        /\ foreign_key(a) \in H => staff(a) \in H
        /\ \A i \in DOMAIN s : s[i] = foreign_key(a) => Before(s, H, staff(a), i)

PeopleRows == {staff(p) : p \in People} \cup {day(p) : p \in People}

JobRows == {job(j) : j \in Jobs}

Rows(a) == PeopleRows \cup JobRows \cup {foreign_key(a)}

Plan(call) ==
    /\ call.actor \in Nat /\ call.todo \in Seq(Rows(call.actor)) /\ call.held \subseteq Rows(call.actor)
    /\ Climbs(call.todo, call.held) /\ Above(call.todo, call.held)
    /\ Guarded(call.todo, call.held)
    /\ (call.actor \in People => call.people = {call.actor}) => Named(call.todo, call.held, call.actor)

-----------------------------------------------------------------------------
(* A set of numbers in its order *)

\* InOrder lists a finite set of naturals, each once, climbing. (order_by("id"))
LEMMA InOrderIs ==
    ASSUME NEW S, S \subseteq Nat, IsFiniteSet(S)
    PROVE  /\ Cardinality(S) \in Nat /\ InOrder(S) \in [1 .. Cardinality(S) -> S]
           /\ \A i, j \in 1 .. Cardinality(S) : i < j => InOrder(S)[i] < InOrder(S)[j]
           /\ \A n \in S : \E i \in 1 .. Cardinality(S) : InOrder(S)[i] = n
<1> DEFINE N == Cardinality(S)
           upTo(n) == {k \in S : k <= n}
           rank == [n \in S |-> Cardinality(upTo(n))]
<1>1. N \in Nat
  BY FS_CardinalityType
<1>2. ASSUME NEW n \in S
      PROVE  /\ IsFiniteSet(upTo(n)) /\ rank[n] = Cardinality(upTo(n))
             /\ rank[n] \in 1 .. N
  <2>1. IsFiniteSet(upTo(n)) /\ Cardinality(upTo(n)) <= N
    BY FS_Subset
  <2>2. Cardinality(upTo(n)) \in Nat /\ n \in upTo(n)
    BY <2>1, FS_CardinalityType
  <2>3. Cardinality(upTo(n)) # 0
    BY <2>1, <2>2, FS_EmptySet
  <2> QED BY <1>1, <2>1, <2>2, <2>3
<1>3. ASSUME NEW n \in S, NEW m \in S, n < m
      PROVE  rank[n] < rank[m]
  <2>0. n \in Nat /\ m \in Nat /\ \A k \in S : k \in Nat
    OBVIOUS
  <2>1. \A k \in S : k <= n => k <= m
    BY <1>3, <2>0
  <2>2. m <= m /\ ~(m <= n)
    BY <1>3, <2>0
  <2>3. upTo(n) \in SUBSET upTo(m) /\ m \in upTo(m) /\ m \notin upTo(n)
    BY <2>1, <2>2
  <2>4. Cardinality(upTo(n)) <= Cardinality(upTo(m)) /\ Cardinality(upTo(n)) # Cardinality(upTo(m))
    BY <1>2, <2>3, FS_Subset
  <2> QED BY <1>1, <1>2, <2>4
<1> HIDE DEF rank
<1>4. rank \in [S -> 1 .. N] /\ \A n, m \in S : rank[n] = rank[m] => n = m
  <2>1. rank \in [S -> 1 .. N]
    BY <1>2 DEF rank
  <2>2. ASSUME NEW n \in S, NEW m \in S, rank[n] = rank[m], n # m
        PROVE  FALSE
    <3>1. n < m \/ m < n
      BY <2>2
    <3>2. rank[n] \in Nat /\ rank[m] \in Nat /\ ~(rank[n] < rank[m]) /\ ~(rank[m] < rank[n])
      <4>1. rank[n] \in 1 .. N /\ rank[m] \in 1 .. N
        BY <1>2
      <4> QED BY <1>1, <2>2, <4>1
    <3> QED BY <1>3, <3>1, <3>2
  <2> QED BY <2>1, <2>2
<1>5. \A i \in 1 .. N : \E n \in S : rank[n] = i
  <2>1. rank \in Injection(S, 1 .. N)
    BY <1>4 DEF Injection, IsInjective
  <2>2. IsFiniteSet(1 .. N) /\ Cardinality(1 .. N) = N
    BY <1>1, FS_Interval
  <2>3. rank \in Surjection(S, 1 .. N)
    BY <2>1, <2>2, FS_Injection
  <2> QED BY <2>3 DEF Surjection
<1>6. ASSUME NEW i \in 1 .. N
      PROVE  InOrder(S)[i] \in S /\ rank[InOrder(S)[i]] = i
  <2>1. InOrder(S)[i] = CHOOSE n \in S : Cardinality({k \in S : k <= n}) = i
    BY DEF InOrder
  <2>2. PICK n \in S : rank[n] = i
    BY <1>5
  <2>3. Cardinality({k \in S : k <= n}) = i
    BY <1>2, <2>2
  <2> QED BY <1>2, <2>1, <2>3
<1>7. InOrder(S) \in [1 .. N -> S]
  BY <1>6 DEF InOrder
<1>8. ASSUME NEW i \in 1 .. N, NEW j \in 1 .. N, i < j
      PROVE  InOrder(S)[i] < InOrder(S)[j]
  <2>1. InOrder(S)[i] \in Nat /\ InOrder(S)[j] \in Nat
    BY <1>6
  <2>2. InOrder(S)[j] < InOrder(S)[i] => j < i
    BY <1>3, <1>6
  <2>3. InOrder(S)[j] # InOrder(S)[i]
    BY <1>6, <1>8
  <2> QED BY <1>1, <1>8, <2>1, <2>2, <2>3
<1>9. \A n \in S : InOrder(S)[rank[n]] = n /\ rank[n] \in 1 .. N
  BY <1>2, <1>4, <1>6
<1> QED BY <1>1, <1>7, <1>8, <1>9

\* A finite set of naturals has a greatest member, its last in order.
LEMMA Greatest ==
    ASSUME NEW S, S \subseteq Nat, IsFiniteSet(S), S # {}
    PROVE  \E m \in S : \A n \in S : n <= m
<1> DEFINE N == Cardinality(S)
<1>1. N \in Nat /\ N # 0
  BY FS_CardinalityType, FS_EmptySet
<1>2. /\ InOrder(S) \in [1 .. N -> S]
      /\ \A i, j \in 1 .. N : i < j => InOrder(S)[i] < InOrder(S)[j]
      /\ \A n \in S : \E i \in 1 .. N : InOrder(S)[i] = n
  BY InOrderIs
<1> HIDE DEF N
<1>3. ASSUME NEW i \in 1 .. N
      PROVE  InOrder(S)[i] <= InOrder(S)[N]
  <2>1. N \in 1 .. N /\ (i < N \/ i = N)
    BY <1>1
  <2>2. InOrder(S)[i] \in Nat /\ InOrder(S)[N] \in Nat
    BY <1>2, <2>1
  <2> QED BY <1>2, <2>1, <2>2
<1>4. InOrder(S)[N] \in S
  BY <1>1, <1>2
<1> QED BY <1>2, <1>3, <1>4

-----------------------------------------------------------------------------
(* Locks and the order they are taken in *)

LEMMA LocksAre ==
    /\ \A p : staff(p).row = <<"staff", p>> /\ ~staff(p).shared /\ Ranked(staff(p))
    /\ \A p : day(p).row = <<"day", p>> /\ ~day(p).shared /\ ~Ranked(day(p))
    /\ \A j : job(j).row = <<"job", j>> /\ ~job(j).shared /\ Ranked(job(j))
    /\ \A a : foreign_key(a).row = <<"staff", a>> /\ foreign_key(a).shared /\ ~Ranked(foreign_key(a))
    /\ \A p, q : Lower(staff(p), staff(q)) <=> p < q
    /\ \A p, q : Lower(job(p), job(q)) <=> p < q
    /\ \A p, q : Lower(staff(p), job(q)) /\ ~Lower(job(q), staff(p))
BY DEF staff, day, job, foreign_key, Ranked, Lower

\* Different kinds of locks differ.
LEMMA LocksDiffer ==
    /\ \A p, q : staff(p) # day(q) /\ staff(p) # job(q) /\ day(p) # job(q)
    /\ \A p, q : staff(p) # foreign_key(q) /\ day(p) # foreign_key(q) /\ job(p) # foreign_key(q)
    /\ \A p, q : staff(p) = staff(q) => p = q
    /\ \A p, q : day(p) = day(q) => p = q
    /\ \A p, q : job(p) = job(q) => p = q
    /\ \A p, q : foreign_key(p) = foreign_key(q) => p = q
BY DEF staff, day, job, foreign_key

\* Ranked locks are in a total order.
LEMMA RankTotal ==
    ASSUME NEW a, NEW l \in Rows(a), NEW m \in Rows(a), Ranked(l), Ranked(m), l # m
    PROVE  Lower(l, m) \/ Lower(m, l)
<1>1. \/ \E p \in People : l = staff(p)
      \/ \E j \in Jobs : l = job(j)
  BY LocksAre DEF Rows, PeopleRows, JobRows
<1>2. \/ \E p \in People : m = staff(p)
      \/ \E j \in Jobs : m = job(j)
  BY LocksAre DEF Rows, PeopleRows, JobRows
<1>3. People \subseteq Nat /\ Jobs \subseteq Nat
  BY LocksAssumption
<1>4. \A p, q \in Nat : p < q \/ q < p \/ p = q
  OBVIOUS
<1> QED BY <1>1, <1>2, <1>3, <1>4, LocksAre

\* What Take does to a request keeps its plan, when the lock it takes is next.
LEMMA TakenKeeps ==
    ASSUME NEW call, Plan(call), call.todo # <<>>,
           call = [kind |-> call.kind, people |-> call.people, actor |-> call.actor,
                   todo |-> call.todo, held |-> call.held]
    PROVE  Plan(Taken(call))
<1> DEFINE s == call.todo
           H == call.held
           a == call.actor
           t == Tail(s)
           h == Head(s)
           G == H \cup {h}
<1>1. /\ s \in Seq(Rows(a)) /\ s # <<>> /\ H \subseteq Rows(a) /\ a \in Nat
      /\ Climbs(s, H) /\ Above(s, H) /\ Guarded(s, H)
      /\ (a \in People => call.people = {a}) => Named(s, H, a)
  BY DEF Plan
<1>2. /\ Taken(call).todo = t /\ Taken(call).held = G /\ Taken(call).actor = a
      /\ Taken(call).people = call.people
  BY DEF Taken
<1> HIDE DEF s, H, a
<1>3. /\ h \in Rows(a) /\ h = s[1] /\ 1 \in DOMAIN s /\ t \in Seq(Rows(a)) /\ G \subseteq Rows(a)
      /\ \A i \in DOMAIN t : i \in Nat /\ i + 1 \in DOMAIN s /\ t[i] = s[i + 1]
      /\ \A i \in DOMAIN s : i \in Nat /\ (i = 1 \/ i - 1 \in DOMAIN t)
      /\ \A i \in DOMAIN s : s[i] \in Rows(a)
  BY <1>1
<1> HIDE DEF t, h
<1>4. ASSUME NEW i \in DOMAIN t, NEW l, Before(s, H, l, i + 1)
      PROVE  Before(t, G, l, i)
  <2>1. CASE l \in H
    BY <2>1 DEF Before
  <2>2. ASSUME NEW j \in DOMAIN s, j < i + 1, s[j] = l PROVE Before(t, G, l, i)
    <3>1. CASE j = 1
      BY <1>3, <2>2, <3>1 DEF Before
    <3>2. CASE j # 1
      <4>1. j - 1 \in DOMAIN t /\ t[j - 1] = l /\ j - 1 < i
        BY <1>3, <2>2, <3>2
      <4> QED BY <4>1 DEF Before
    <3> QED BY <3>1, <3>2
  <2> QED BY <1>4, <2>1, <2>2 DEF Before
<1> HIDE DEF G
<1>5. Climbs(t, G)
  BY <1>1, <1>3, <1>4 DEF Climbs
<1>6. ASSUME NEW i \in DOMAIN t, Ranked(t[i]), t[i] \notin G, NEW l \in G, Ranked(l)
      PROVE  Lower(l, t[i])
  <2>1. s[i + 1] = t[i] /\ i + 1 \in DOMAIN s /\ t[i] \notin H /\ t[i] # h
    BY <1>3, <1>6 DEF G
  <2>2. CASE l \in H
    BY <1>1, <1>6, <2>1, <2>2 DEF Above
  <2>3. CASE l = h
    <3>1. ~Lower(t[i], h)
      <4> SUFFICES ASSUME Lower(t[i], h) PROVE FALSE
        OBVIOUS
      <4>1. Before(s, H, s[i + 1], 1)
        BY <1>1, <1>3, <1>6, <2>1, <2>3 DEF Climbs
      <4> QED BY <1>3, <2>1, <4>1 DEF Before
    <3> QED BY <1>3, <1>6, <2>1, <2>3, <3>1, RankTotal
  <2> QED BY <1>6, <2>2, <2>3 DEF G
<1>7. Above(t, G)
  BY <1>6 DEF Above
<1>8. Guarded(t, G)
  <2>1. ASSUME NEW w \in People, day(w) \in G PROVE staff(w) \in G
    <3>1. CASE day(w) \in H
      BY <1>1, <3>1 DEF Guarded, G
    <3>2. CASE day(w) = h
      <4>1. Before(s, H, staff(w), 1)
        BY <1>1, <1>3, <3>2 DEF Guarded
      <4> QED BY <1>3, <4>1 DEF Before, G
    <3> QED BY <2>1, <3>1, <3>2 DEF G
  <2>2. ASSUME NEW w \in People, NEW i \in DOMAIN t, t[i] = day(w) PROVE Before(t, G, staff(w), i)
    BY <1>1, <1>3, <1>4, <2>2 DEF Guarded
  <2> QED BY <2>1, <2>2 DEF Guarded
<1>9. ASSUME Named(s, H, a) PROVE Named(t, G, a)
  <2> SUFFICES ASSUME a \in People
        PROVE  /\ foreign_key(a) \in G => staff(a) \in G
               /\ \A i \in DOMAIN t : t[i] = foreign_key(a) => Before(t, G, staff(a), i)
    BY DEF Named
  <2>1. ASSUME foreign_key(a) \in G PROVE staff(a) \in G
    <3>1. CASE foreign_key(a) \in H
      BY <1>9, <3>1 DEF Named, G
    <3>2. CASE foreign_key(a) = h
      <4>1. Before(s, H, staff(a), 1)
        BY <1>3, <1>9, <3>2 DEF Named
      <4> QED BY <1>3, <4>1 DEF Before, G
    <3> QED BY <2>1, <3>1, <3>2 DEF G
  <2>2. ASSUME NEW i \in DOMAIN t, t[i] = foreign_key(a) PROVE Before(t, G, staff(a), i)
    BY <1>3, <1>4, <1>9, <2>2 DEF Named
  <2> QED BY <2>1, <2>2
<1> QED BY <1>1, <1>2, <1>3, <1>5, <1>7, <1>8, <1>9 DEF Plan

-----------------------------------------------------------------------------
(* The orders of the handlers *)

\* The order of a request that holds nothing yet.
Rising(s) == Climbs(s, {})

LEMMA RisingIs ==
    ASSUME NEW s
    PROVE  Rising(s) <=> \A i, k \in DOMAIN s :
             Ranked(s[i]) /\ Ranked(s[k]) /\ Lower(s[k], s[i]) => \E j \in DOMAIN s : j < i /\ s[j] = s[k]
BY DEF Rising, Climbs, Before

LEMMA Joined ==
    ASSUME NEW X, NEW s \in Seq(X), NEW t \in Seq(X)
    PROVE  /\ s \o t \in Seq(X) /\ Len(s) \in Nat
           /\ \A i \in DOMAIN s : i \in Nat /\ i <= Len(s) /\ i \in DOMAIN (s \o t) /\ (s \o t)[i] = s[i]
           /\ \A i \in DOMAIN t : i \in Nat /\ i > 0 /\ Len(s) + i \in DOMAIN (s \o t) /\ (s \o t)[Len(s) + i] = t[i]
           /\ \A i \in DOMAIN (s \o t) : i \in DOMAIN s \/ \E k \in DOMAIN t : i = Len(s) + k
<1>1. DOMAIN s = 1 .. Len(s) /\ DOMAIN t = 1 .. Len(t) /\ Len(s) \in Nat /\ Len(t) \in Nat
  OBVIOUS
<1>2. s \o t \in Seq(X) /\ DOMAIN (s \o t) = 1 .. Len(s) + Len(t)
  OBVIOUS
<1>3. ASSUME NEW i \in DOMAIN (s \o t), i \notin DOMAIN s
      PROVE  \E k \in DOMAIN t : i = Len(s) + k
  <2>1. i - Len(s) \in DOMAIN t /\ i = Len(s) + (i - Len(s))
    BY <1>1, <1>2, <1>3
  <2> QED BY <2>1
<1>4. \A i \in DOMAIN s : i \in Nat /\ i <= Len(s) /\ i \in DOMAIN (s \o t) /\ (s \o t)[i] = s[i]
  BY <1>1, <1>2
<1>5. \A i \in DOMAIN t : i \in Nat /\ i > 0 /\ Len(s) + i \in DOMAIN (s \o t) /\ (s \o t)[Len(s) + i] = t[i]
  BY <1>1, <1>2
<1> QED BY <1>1, <1>2, <1>3, <1>4, <1>5

\* Locks that follow may be any that were named before, and higher ones in their order.
LEMMA JoinRises ==
    ASSUME NEW X, NEW s \in Seq(X), NEW t \in Seq(X), Rising(s),
           \/ \A k \in DOMAIN t : Ranked(t[k]) => \E j \in DOMAIN s : s[j] = t[k]
           \/ Rising(t) /\ \A i \in DOMAIN s, k \in DOMAIN t : Ranked(s[i]) /\ Ranked(t[k]) => ~Lower(t[k], s[i])
    PROVE  Rising(s \o t)
<1> DEFINE u == s \o t
<1>1. /\ Len(s) \in Nat
      /\ \A i \in DOMAIN s : i \in Nat /\ i <= Len(s) /\ i \in DOMAIN u /\ u[i] = s[i]
      /\ \A i \in DOMAIN t : i \in Nat /\ i > 0 /\ Len(s) + i \in DOMAIN u /\ u[Len(s) + i] = t[i]
      /\ \A i \in DOMAIN u : i \in DOMAIN s \/ \E k \in DOMAIN t : i = Len(s) + k
  BY Joined
<1> HIDE DEF u
<1> SUFFICES ASSUME NEW i \in DOMAIN u, NEW k \in DOMAIN u, Ranked(u[i]), Ranked(u[k]), Lower(u[k], u[i])
      PROVE  \E j \in DOMAIN u : j < i /\ u[j] = u[k]
  BY RisingIs DEF u
<1>2. CASE i \in DOMAIN s /\ k \in DOMAIN s
  <2>1. PICK j \in DOMAIN s : j < i /\ s[j] = s[k]
    BY <1>1, <1>2, RisingIs
  <2> QED BY <1>1, <1>2, <2>1
<1>3. ASSUME NEW m \in DOMAIN t, i = Len(s) + m, k \in DOMAIN s
      PROVE  k < i
  BY <1>1, <1>3
<1>4. ASSUME i \in DOMAIN s, NEW n \in DOMAIN t, k = Len(s) + n
      PROVE  \E j \in DOMAIN u : j < i /\ u[j] = u[k]
  <2>1. u[i] = s[i] /\ u[k] = t[n]
    BY <1>1, <1>4
  <2>2. PICK j \in DOMAIN s : s[j] = t[n]
    BY <1>4, <2>1
  <2>3. PICK m \in DOMAIN s : m < i /\ s[m] = s[j]
    BY <1>4, <2>1, <2>2, RisingIs
  <2> QED BY <1>1, <2>1, <2>2, <2>3
<1>5. ASSUME NEW m \in DOMAIN t, i = Len(s) + m, NEW n \in DOMAIN t, k = Len(s) + n
      PROVE  \E j \in DOMAIN u : j < i /\ u[j] = u[k]
  <2>1. u[i] = t[m] /\ u[k] = t[n]
    BY <1>1, <1>5
  <2>2. CASE \E j \in DOMAIN s : s[j] = t[n]
    <3>1. PICK j \in DOMAIN s : s[j] = t[n]
      BY <2>2
    <3>2. j < i
      BY <1>1, <1>5, <3>1
    <3> QED BY <1>1, <2>1, <3>1, <3>2
  <2>3. CASE Rising(t)
    <3>1. PICK j \in DOMAIN t : j < m /\ t[j] = t[n]
      BY <2>1, <2>3, RisingIs
    <3>2. Len(s) + j \in DOMAIN u /\ Len(s) + j < i /\ u[Len(s) + j] = t[n]
      BY <1>1, <1>5, <3>1
    <3> QED BY <2>1, <3>2
  <2> QED BY <2>1, <2>2, <2>3
<1> QED BY <1>1, <1>2, <1>3, <1>4, <1>5

\* What a sequence of locks names.
Listed(s) == {s[i] : i \in DOMAIN s}

LEMMA JoinLists ==
    ASSUME NEW X, NEW s \in Seq(X), NEW t \in Seq(X)
    PROVE  s \o t \in Seq(X) /\ Listed(s \o t) = Listed(s) \cup Listed(t)
<1> DEFINE u == s \o t
<1>1. /\ u \in Seq(X)
      /\ \A i \in DOMAIN s : i \in DOMAIN u /\ u[i] = s[i]
      /\ \A i \in DOMAIN t : Len(s) + i \in DOMAIN u /\ u[Len(s) + i] = t[i]
      /\ \A i \in DOMAIN u : i \in DOMAIN s \/ \E k \in DOMAIN t : i = Len(s) + k
  BY Joined
<1> HIDE DEF u
<1>2. Listed(s) \cup Listed(t) \subseteq Listed(u)
  BY <1>1 DEF Listed
<1>3. Listed(u) \subseteq Listed(s) \cup Listed(t)
  BY <1>1 DEF Listed
<1> QED BY <1>1, <1>2, <1>3 DEF u

LEMMA EachPerson ==
    ASSUME NEW S, S \subseteq People
    PROVE  /\ Each(staff, InOrder(S)) \in Seq({staff(p) : p \in S})
           /\ Listed(Each(staff, InOrder(S))) = {staff(p) : p \in S}
           /\ Rising(Each(staff, InOrder(S)))
           /\ Each(day, InOrder(S)) \in Seq({day(p) : p \in S})
           /\ Listed(Each(day, InOrder(S))) = {day(p) : p \in S}
<1> DEFINE N == Cardinality(S)
           o == InOrder(S)
           s == Each(staff, o)
           t == Each(day, o)
<1>1. S \subseteq Nat /\ IsFiniteSet(S)
  BY LocksAssumption, FS_Subset
<1>2. /\ N \in Nat /\ o \in [1 .. N -> S]
      /\ \A i, j \in 1 .. N : i < j => o[i] < o[j]
      /\ \A n \in S : \E i \in 1 .. N : o[i] = n
  BY <1>1, InOrderIs
<1> HIDE DEF N, o
<1>3. /\ DOMAIN s = 1 .. N /\ \A i \in 1 .. N : s[i] = staff(o[i])
      /\ DOMAIN t = 1 .. N /\ \A i \in 1 .. N : t[i] = day(o[i])
  BY <1>2 DEF Each
<1>4. s \in [1 .. N -> {staff(p) : p \in S}] /\ t \in [1 .. N -> {day(p) : p \in S}]
  BY <1>2 DEF Each
<1> HIDE DEF s, t
<1>5. s \in Seq({staff(p) : p \in S}) /\ t \in Seq({day(p) : p \in S})
  <2> DEFINE X == {staff(p) : p \in S}
             Y == {day(p) : p \in S}
  <2>1. s \in [1 .. N -> X] /\ t \in [1 .. N -> Y]
    BY <1>4
  <2> HIDE DEF X, Y
  <2>2. s \in Seq(X)
    BY <1>2, <2>1
  <2>3. t \in Seq(Y)
    BY <1>2, <2>1
  <2> QED BY <2>2, <2>3 DEF X, Y
<1>6. Listed(s) = {staff(p) : p \in S} /\ Listed(t) = {day(p) : p \in S}
  BY <1>2, <1>3 DEF Listed
<1>7. Rising(s)
  <2> SUFFICES ASSUME NEW i \in 1 .. N, NEW k \in 1 .. N, Lower(s[k], s[i])
        PROVE  \E j \in 1 .. N : j < i /\ s[j] = s[k]
    BY <1>3, RisingIs
  <2>1. o[k] < o[i]
    BY <1>3, LocksAre
  <2>2. o[k] \in Nat /\ o[i] \in Nat /\ i \in Nat /\ k \in Nat
    <3>1. o[k] \in S /\ o[i] \in S
      BY <1>2
    <3>2. i \in Nat /\ k \in Nat
      OBVIOUS
    <3> QED BY <1>1, <3>1, <3>2
  <2>3. (i < k => o[i] < o[k]) /\ (i = k => o[i] = o[k])
    BY <1>2
  <2>4. k < i
    BY <2>1, <2>2, <2>3
  <2> QED BY <2>4
<1> QED BY <1>5, <1>6, <1>7 DEF s, t, o

\* The jobs of a request rise, and General work again after them.
LEMMA EachJob ==
    ASSUME NEW S, S \subseteq Jobs
    PROVE  /\ lock_costing_jobs(S) \in Seq(JobRows) /\ Listed(lock_costing_jobs(S)) = {job(j) : j \in S}
           /\ Rising(lock_costing_jobs(S))
<1> DEFINE N == Cardinality(S)
           o == InOrder(S)
           s == Each(job, o)
<1>1. S \subseteq Nat /\ IsFiniteSet(S)
  BY LocksAssumption, FS_Subset
<1>2. /\ N \in Nat /\ o \in [1 .. N -> S]
      /\ \A i, j \in 1 .. N : i < j => o[i] < o[j]
      /\ \A n \in S : \E i \in 1 .. N : o[i] = n
  BY <1>1, InOrderIs
<1> HIDE DEF N, o
<1>3. DOMAIN s = 1 .. N /\ \A i \in 1 .. N : s[i] = job(o[i])
  BY <1>2 DEF Each
<1>4. s \in [1 .. N -> JobRows]
  BY <1>2 DEF Each, JobRows
<1> HIDE DEF s
<1>5. s \in Seq(JobRows)
  BY <1>2, <1>4
<1>6. Listed(s) = {job(j) : j \in S}
  BY <1>2, <1>3 DEF Listed
<1>7. Rising(s)
  <2> SUFFICES ASSUME NEW i \in 1 .. N, NEW k \in 1 .. N, Lower(s[k], s[i])
        PROVE  \E j \in 1 .. N : j < i /\ s[j] = s[k]
    BY <1>3, RisingIs
  <2>1. o[k] < o[i]
    BY <1>3, LocksAre
  <2>2. o[k] \in Nat /\ o[i] \in Nat /\ i \in Nat /\ k \in Nat
    <3>1. o[k] \in S /\ o[i] \in S
      BY <1>2
    <3>2. i \in Nat /\ k \in Nat
      OBVIOUS
    <3> QED BY <1>1, <3>1, <3>2
  <2>3. (i < k => o[i] < o[k]) /\ (i = k => o[i] = o[k])
    BY <1>2
  <2>4. k < i
    BY <2>1, <2>2, <2>3
  <2> QED BY <2>4
<1> QED BY <1>5, <1>6, <1>7 DEF s, o, lock_costing_jobs

LEMMA DayJobsRise ==
    ASSUME NEW ids, ids \subseteq Jobs
    PROVE  /\ DayJobs(ids) \in Seq(JobRows) /\ Rising(DayJobs(ids))
           /\ Listed(DayJobs(ids)) = {job(j) : j \in ids \cup {General}}
<1> DEFINE s == lock_costing_jobs(with_general_work(ids))
           t == lock_costing_jobs({General})
<1>1. with_general_work(ids) \subseteq Jobs /\ {General} \subseteq Jobs
  BY LocksAssumption DEF with_general_work
<1>2. /\ s \in Seq(JobRows) /\ Rising(s) /\ Listed(s) = {job(j) : j \in ids \cup {General}}
      /\ t \in Seq(JobRows) /\ Listed(t) = {job(General)}
  BY <1>1, EachJob DEF with_general_work
<1>3. DayJobs(ids) = s \o t
  BY DEF DayJobs
<1> HIDE DEF s, t
<1>4. job(General) \in Listed(s)
  BY <1>2
<1>5. \A k \in DOMAIN t : \E j \in DOMAIN s : s[j] = t[k]
  BY <1>2, <1>4 DEF Listed
<1>6. Rising(s \o t)
  BY <1>2, <1>5, JoinRises
<1>7. s \o t \in Seq(JobRows) /\ Listed(s \o t) = Listed(s) \cup Listed(t)
  BY <1>2, JoinLists
<1> QED BY <1>2, <1>3, <1>4, <1>6, <1>7

\* Jobs may follow what names people and days.
LEMMA ThenJobs ==
    ASSUME NEW s \in Seq(PeopleRows), NEW t \in Seq(JobRows), Rising(s), Rising(t), Guarded(s, {})
    PROVE  /\ s \o t \in Seq(PeopleRows \cup JobRows) /\ Listed(s \o t) = Listed(s) \cup Listed(t)
           /\ Rising(s \o t) /\ Guarded(s \o t, {})
<1> DEFINE X == PeopleRows \cup JobRows
           u == s \o t
<1>1. s \in Seq(X) /\ t \in Seq(X)
  OBVIOUS
<1>2. /\ \A i \in DOMAIN s : s[i] \in PeopleRows
      /\ \A i \in DOMAIN t : t[i] \in JobRows
  OBVIOUS
<1>3. \A i \in DOMAIN s, k \in DOMAIN t : Ranked(s[i]) /\ Ranked(t[k]) => ~Lower(t[k], s[i])
  BY <1>2, LocksAre DEF PeopleRows, JobRows
<1> HIDE DEF X
<1>4. u \in Seq(X) /\ Listed(u) = Listed(s) \cup Listed(t) /\ Rising(u)
  BY <1>1, <1>3, JoinRises, JoinLists
<1>5. /\ \A i \in DOMAIN s : i \in DOMAIN u /\ u[i] = s[i]
      /\ \A i \in DOMAIN u : i \in DOMAIN s \/ \E k \in DOMAIN t : i = Len(s) + k
      /\ \A i \in DOMAIN t : u[Len(s) + i] = t[i]
  BY <1>1, Joined
<1> HIDE DEF u
<1>6. ASSUME NEW w \in People, NEW i \in DOMAIN u, u[i] = day(w)
      PROVE  Before(u, {}, staff(w), i)
  <2>1. CASE i \in DOMAIN s
    <3>1. PICK j \in DOMAIN s : j < i /\ s[j] = staff(w)
      BY <1>5, <1>6, <2>1 DEF Guarded, Before
    <3> QED BY <1>5, <3>1 DEF Before
  <2>2. ASSUME NEW k \in DOMAIN t, i = Len(s) + k PROVE FALSE
    BY <1>2, <1>5, <1>6, <2>2, LocksDiffer DEF JobRows
  <2> QED BY <1>5, <2>1, <2>2
<1>7. Guarded(u, {})
  BY <1>6 DEF Guarded
<1> QED BY <1>4, <1>7 DEF X, u

\* And after them the days of people named before.
LEMMA ThenDays ==
    ASSUME NEW s \in Seq(PeopleRows \cup JobRows), Rising(s), Guarded(s, {}),
           NEW S, S \subseteq People, \A w \in S : staff(w) \in Listed(s),
           NEW t \in Seq({day(w) : w \in S})
    PROVE  /\ s \o t \in Seq(PeopleRows \cup JobRows) /\ Listed(s) \subseteq Listed(s \o t)
           /\ Rising(s \o t) /\ Guarded(s \o t, {})
<1> DEFINE X == PeopleRows \cup JobRows
           u == s \o t
           Y == {day(w) : w \in S}
<1>0. Y \subseteq X
  BY DEF PeopleRows
<1>1. s \in Seq(X) /\ t \in Seq(X)
  <2> HIDE DEF X, Y
  <2>1. t \in Seq(Y)
    BY DEF Y
  <2>2. t \in Seq(X)
    BY <1>0, <2>1
  <2> QED BY <2>2 DEF X
<1>2. \A i \in DOMAIN t : t[i] \in Y
  OBVIOUS
<1>3. \A k \in DOMAIN t : Ranked(t[k]) => \E j \in DOMAIN s : s[j] = t[k]
  BY <1>2, LocksAre
<1> HIDE DEF X
<1>4. u \in Seq(X) /\ Listed(u) = Listed(s) \cup Listed(t) /\ Rising(u)
  BY <1>1, <1>3, JoinRises, JoinLists
<1>5. /\ Len(s) \in Nat
      /\ \A i \in DOMAIN s : i \in Nat /\ i <= Len(s) /\ i \in DOMAIN u /\ u[i] = s[i]
      /\ \A i \in DOMAIN u : i \in DOMAIN s \/ \E k \in DOMAIN t : i = Len(s) + k
      /\ \A i \in DOMAIN t : i \in Nat /\ i > 0 /\ u[Len(s) + i] = t[i]
  BY <1>1, Joined
<1> HIDE DEF u, Y
<1>6. ASSUME NEW w \in People, NEW i \in DOMAIN u, u[i] = day(w)
      PROVE  Before(u, {}, staff(w), i)
  <2>1. CASE i \in DOMAIN s
    <3>1. PICK j \in DOMAIN s : j < i /\ s[j] = staff(w)
      BY <1>5, <1>6, <2>1 DEF Guarded, Before
    <3> QED BY <1>5, <3>1 DEF Before
  <2>2. ASSUME NEW k \in DOMAIN t, i = Len(s) + k PROVE Before(u, {}, staff(w), i)
    <3>1. w \in S
      BY <1>2, <1>5, <1>6, <2>2, LocksDiffer DEF Y
    <3>2. PICK j \in DOMAIN s : s[j] = staff(w)
      BY <3>1 DEF Listed
    <3>3. j < i
      BY <1>5, <2>2, <3>2
    <3> QED BY <1>5, <3>2, <3>3 DEF Before
  <2> QED BY <1>5, <2>1, <2>2
<1>7. Guarded(u, {})
  BY <1>6 DEF Guarded
<1> QED BY <1>4, <1>7 DEF X, u

\* A request that takes such locks keeps the order, its event's foreign key last.
LEMMA Planned ==
    ASSUME NEW kind, NEW a \in Nat, NEW people, NEW s \in Seq(PeopleRows \cup JobRows),
           Rising(s), Guarded(s, {}),
           a \in People /\ people = {a} => staff(a) \in Listed(s)
    PROVE  Plan(Request(kind, a, people, s))
<1> DEFINE k == <<foreign_key(a)>>
           u == s \o k
           call == Request(kind, a, people, s)
<1>1. /\ call.actor = a /\ call.people = people /\ call.todo = u /\ call.held = {}
  BY DEF Request
<1> HIDE DEF call
<1>2. s \in Seq(Rows(a)) /\ k \in Seq(Rows(a))
  <2> DEFINE X == PeopleRows \cup JobRows
  <2>1. X \subseteq Rows(a) /\ foreign_key(a) \in Rows(a)
    BY DEF Rows
  <2>2. s \in Seq(X)
    OBVIOUS
  <2> HIDE DEF X
  <2>3. s \in Seq(Rows(a))
    BY <2>1, <2>2
  <2> QED BY <2>1, <2>3
<1>3. DOMAIN k = {1} /\ k[1] = foreign_key(a)
  OBVIOUS
<1> HIDE DEF k
<1>4. /\ u \in Seq(Rows(a)) /\ Len(s) \in Nat
      /\ \A i \in DOMAIN s : i \in Nat /\ i <= Len(s) /\ i \in DOMAIN u /\ u[i] = s[i]
      /\ \A i \in DOMAIN u : i \in DOMAIN s \/ (i = Len(s) + 1 /\ u[i] = foreign_key(a))
  BY <1>2, <1>3, Joined
<1>5. Rising(u)
  <2>1. \A i \in DOMAIN k : ~Ranked(k[i])
    BY <1>3, LocksAre
  <2> QED BY <1>2, <2>1, JoinRises
<1> HIDE DEF u
<1>6. \A i \in DOMAIN s : s[i] \in PeopleRows \cup JobRows
  OBVIOUS
<1>7. Guarded(u, {})
  <2> SUFFICES ASSUME NEW w \in People, NEW i \in DOMAIN u, u[i] = day(w)
        PROVE  Before(u, {}, staff(w), i)
    BY DEF Guarded
  <2>1. i \in DOMAIN s /\ s[i] = day(w)
    BY <1>4, LocksDiffer
  <2>2. PICK j \in DOMAIN s : j < i /\ s[j] = staff(w)
    BY <2>1 DEF Guarded, Before
  <2> QED BY <1>4, <2>2 DEF Before
<1>8. ASSUME a \in People => people = {a} PROVE Named(u, {}, a)
  <2> SUFFICES ASSUME a \in People, NEW i \in DOMAIN u, u[i] = foreign_key(a)
        PROVE  Before(u, {}, staff(a), i)
    BY DEF Named
  <2>1. i = Len(s) + 1
    BY <1>4, <1>6, LocksDiffer DEF PeopleRows, JobRows
  <2>2. PICK j \in DOMAIN s : s[j] = staff(a)
    BY <1>8 DEF Listed
  <2>3. j < i
    BY <1>4, <2>1, <2>2
  <2> QED BY <1>4, <2>2, <2>3 DEF Before
<1>9. Climbs(u, {}) /\ Above(u, {})
  BY <1>5 DEF Rising, Above
<1> QED BY <1>1, <1>4, <1>7, <1>8, <1>9 DEF Plan, call

LEMMA OnePerson ==
    ASSUME NEW w \in People, NEW s, s = <<staff(w)>> \/ s = <<staff(w), day(w)>>
    PROVE  /\ s \in Seq(PeopleRows) /\ staff(w) \in Listed(s) /\ Rising(s) /\ Guarded(s, {})
<1>1. staff(w) \in PeopleRows /\ day(w) \in PeopleRows
  BY DEF PeopleRows
<1>2. s \in Seq(PeopleRows)
  <2>1. <<staff(w)>> \in Seq(PeopleRows)
    BY <1>1
  <2>2. <<staff(w), day(w)>> \in Seq(PeopleRows)
    BY <1>1
  <2> QED BY <2>1, <2>2
<1>3. 1 \in DOMAIN s /\ s[1] = staff(w) /\ \A i \in DOMAIN s : i = 1 \/ (i = 2 /\ s[i] = day(w))
  OBVIOUS
<1>4. w \in Nat
  BY LocksAssumption
<1>5. Rising(s)
  <2> SUFFICES ASSUME NEW i \in DOMAIN s, NEW k \in DOMAIN s, Ranked(s[i]), Ranked(s[k]), Lower(s[k], s[i])
        PROVE  FALSE
    BY RisingIs
  <2>1. s[i] = staff(w) /\ s[k] = staff(w)
    BY <1>3, LocksAre
  <2>2. w < w
    BY <2>1, LocksAre
  <2> QED BY <1>4, <2>2
<1>6. ASSUME NEW p \in People, NEW i \in DOMAIN s, s[i] = day(p)
      PROVE  Before(s, {}, staff(p), i)
  <2>1. i = 2 /\ day(p) = day(w)
    BY <1>3, <1>6, LocksDiffer
  <2>2. p = w /\ 1 < i
    BY <2>1, LocksDiffer
  <2> QED BY <1>3, <2>2 DEF Before
<1> QED BY <1>2, <1>3, <1>5, <1>6 DEF Listed, Guarded

LEMMA PersonThenJobs ==
    ASSUME NEW w \in People, NEW s, s = <<staff(w)>> \/ s = <<staff(w), day(w)>>,
           NEW t \in Seq(JobRows), Rising(t), NEW kind, NEW a \in Nat
    PROVE  Plan(Request(kind, a, {w}, s \o t))
<1>1. s \in Seq(PeopleRows) /\ staff(w) \in Listed(s) /\ Rising(s) /\ Guarded(s, {})
  BY OnePerson
<1>2. /\ s \o t \in Seq(PeopleRows \cup JobRows) /\ Listed(s \o t) = Listed(s) \cup Listed(t)
      /\ Rising(s \o t) /\ Guarded(s \o t, {})
  BY <1>1, ThenJobs
<1>3. {w} = {a} => staff(a) \in Listed(s \o t)
  BY <1>1, <1>2
<1> QED BY <1>2, <1>3, Planned

\* A request as its handlers make it and Take changes it.
IsRequest(call) ==
    call = [kind |-> call.kind, people |-> call.people, actor |-> call.actor,
            todo |-> call.todo, held |-> call.held]

Begins(h) == IsRequest(h) /\ h.held = {} /\ (h.kind \in OrderlyKinds => Plan(h))

LEMMA Begun ==
    ASSUME NEW kind, NEW a, NEW people, NEW s
    PROVE  LET h == Request(kind, a, people, s) IN IsRequest(h) /\ h.held = {} /\ h.kind = kind
BY DEF Request, IsRequest

LEMMA EntriesPlanned == ASSUME NEW w \in People, NEW h \in EntryWrites(w) PROVE Begins(h)
<1> DEFINE entry(a, i, j) == Request("entry", a, {w}, <<staff(w)>> \o DayJobs({i, j}))
<1>1. EntryWrites(w) = {entry(a, i, j) : a \in Actors(w), i \in Jobs \ LeaveJobs, j \in Jobs \ LeaveJobs}
  BY DEF EntryWrites
<1> HIDE DEF entry
<1>2. PICK a \in Actors(w), i \in Jobs \ LeaveJobs, j \in Jobs \ LeaveJobs : h = entry(a, i, j)
  BY <1>1
<1>3. a \in Nat
  BY LocksAssumption DEF Actors
<1>4. DayJobs({i, j}) \in Seq(JobRows) /\ Rising(DayJobs({i, j}))
  BY DayJobsRise
<1>5. Plan(h)
  BY <1>2, <1>3, <1>4, PersonThenJobs DEF entry
<1> QED BY <1>2, <1>5, Begun DEF entry, Begins

LEMMA ApprovalsPlanned == ASSUME NEW w \in People, NEW h \in Approvals(w) PROVE Begins(h)
<1> DEFINE approval(a, ids) == Request("approve_day", a, {w}, <<staff(w)>> \o lock_costing_jobs(ids))
<1>1. Approvals(w) = {approval(a, ids) : a \in Office, ids \in (SUBSET (Jobs \ LeaveJobs)) \ {{}}}
  BY DEF Approvals
<1> HIDE DEF approval
<1>2. PICK a \in Office, ids \in (SUBSET (Jobs \ LeaveJobs)) \ {{}} : h = approval(a, ids)
  BY <1>1
<1>3. a \in Nat
  BY LocksAssumption
<1>4. lock_costing_jobs(ids) \in Seq(JobRows) /\ Rising(lock_costing_jobs(ids))
  BY EachJob
<1>5. Plan(h)
  BY <1>2, <1>3, <1>4, PersonThenJobs DEF approval
<1> QED BY <1>2, <1>5, Begun DEF approval, Begins

LEMMA TimesPlanned == ASSUME NEW w \in People, NEW h \in DayTimes(w) PROVE Begins(h)
<1> DEFINE times(a, ids) == Request("times", a, {w}, <<staff(w), day(w)>> \o DayJobs(ids))
<1>1. DayTimes(w) = {times(a, ids) : a \in Actors(w), ids \in {{}, {BreakJob}}}
  BY DEF DayTimes
<1> HIDE DEF times
<1>2. PICK a \in Actors(w), ids \in {{}, {BreakJob}} : h = times(a, ids)
  BY <1>1
<1>3. a \in Nat /\ ids \subseteq Jobs
  BY LocksAssumption DEF Actors
<1>4. DayJobs(ids) \in Seq(JobRows) /\ Rising(DayJobs(ids))
  BY <1>3, DayJobsRise
<1>5. Plan(h)
  BY <1>2, <1>3, <1>4, PersonThenJobs DEF times
<1> QED BY <1>2, <1>5, Begun DEF times, Begins

\* A leave that is made or deleted locks the jobs of one type.
LEMMA LeavesPlanned == ASSUME NEW w \in People, NEW h \in Leaves(w) PROVE Begins(h)
<1> DEFINE locks(old, new) == <<staff(w)>> \o DayJobs({old}) \o DayJobs({new})
           leaveRequest(a, old, new) ==
               Request(IF old = new THEN "leave" ELSE "leave_change", a, {w}, locks(old, new))
<1>1. Leaves(w) = {leaveRequest(a, old, new) : a \in Office, old \in LeaveJobs, new \in LeaveJobs}
  BY DEF Leaves
<1> HIDE DEF leaveRequest, locks
<1>2. PICK a \in Office, old \in LeaveJobs, new \in LeaveJobs : h = leaveRequest(a, old, new)
  BY <1>1
<1>3. a \in Nat /\ {old} \subseteq Jobs
  BY LocksAssumption
<1>4. CASE old # new
  <2>1. h = Request("leave_change", a, {w}, locks(old, new))
    BY <1>2, <1>4 DEF leaveRequest
  <2>2. IsRequest(h) /\ h.held = {} /\ h.kind = "leave_change"
    BY <2>1, Begun
  <2> QED BY <2>2 DEF Begins, OrderlyKinds
<1>5. CASE old = new
  <2> DEFINE s == <<staff(w)>>
             t == DayJobs({old})
  <2>1. t \in Seq(JobRows) /\ Rising(t)
    BY <1>3, DayJobsRise
  <2>2. s \in Seq(PeopleRows)
    BY DEF PeopleRows
  <2>3. locks(old, new) = (s \o t) \o t
    BY <1>5 DEF locks
  <2>4. h = Request("leave", a, {w}, locks(old, new))
    BY <1>2, <1>5 DEF leaveRequest
  <2> HIDE DEF s, t
  <2>5. (s \o t) \o t = s \o (t \o t)
    BY <2>1, <2>2
  <2>6. t \o t \in Seq(JobRows) /\ Rising(t \o t)
    BY <2>1, JoinRises
  <2>7. Plan(h)
    BY <1>3, <2>3, <2>4, <2>5, <2>6, PersonThenJobs DEF s
  <2> QED BY <2>4, <2>7, Begun DEF Begins
<1> QED BY <1>4, <1>5

LEMMA SweepsPlanned == ASSUME NEW h \in Sweeps PROVE Begins(h)
<1> DEFINE sweepRequest(a, ids, S) ==
               Request("sweep", a, S, Each(staff, InOrder(S))
                   \o lock_costing_jobs(ids \cup {General, BreakJob}) \o Each(day, InOrder(S)))
<1>0. Sweeps = {sweepRequest(a, ids, S) : a \in Office, ids \in SUBSET WorkJobs, S \in (SUBSET People) \ {{}}}
  BY DEF Sweeps
<1> HIDE DEF sweepRequest
<1>1. PICK a \in Office, ids \in SUBSET WorkJobs, S \in (SUBSET People) \ {{}} : h = sweepRequest(a, ids, S)
  BY <1>0
<1> DEFINE s == Each(staff, InOrder(S))
           t == lock_costing_jobs(ids \cup {General, BreakJob})
           d == Each(day, InOrder(S))
<1>2. a \in Nat /\ ids \cup {General, BreakJob} \subseteq Jobs
  BY LocksAssumption DEF WorkJobs
<1>3. t \in Seq(JobRows) /\ Rising(t)
  BY <1>2, EachJob
<1>4. /\ s \in Seq({staff(p) : p \in S}) /\ Listed(s) = {staff(p) : p \in S} /\ Rising(s)
      /\ d \in Seq({day(p) : p \in S})
  BY EachPerson
<1>5. h = Request("sweep", a, S, (s \o t) \o d)
  BY <1>1 DEF sweepRequest
<1> HIDE DEF s, t, d
<1>6. s \in Seq(PeopleRows)
  <2> DEFINE X == {staff(p) : p \in S}
  <2>1. X \subseteq PeopleRows /\ s \in Seq(X)
    BY <1>4 DEF PeopleRows
  <2> HIDE DEF X
  <2> QED BY <2>1
<1>7. Guarded(s, {})
  <2>1. \A i \in DOMAIN s : s[i] \in {staff(p) : p \in S}
    BY <1>4
  <2>2. \A i \in DOMAIN s : \A w \in People : s[i] # day(w)
    BY <2>1, LocksDiffer
  <2> QED BY <2>2 DEF Guarded
<1>8. /\ s \o t \in Seq(PeopleRows \cup JobRows) /\ Listed(s \o t) = Listed(s) \cup Listed(t)
      /\ Rising(s \o t) /\ Guarded(s \o t, {})
  BY <1>3, <1>4, <1>6, <1>7, ThenJobs
<1>9. \A w \in S : staff(w) \in Listed(s \o t)
  BY <1>4, <1>8
<1>10. /\ (s \o t) \o d \in Seq(PeopleRows \cup JobRows) /\ Listed(s \o t) \subseteq Listed((s \o t) \o d)
       /\ Rising((s \o t) \o d) /\ Guarded((s \o t) \o d, {})
  BY <1>4, <1>8, <1>9, ThenDays
<1>11. S = {a} => staff(a) \in Listed((s \o t) \o d)
  BY <1>9, <1>10
<1>12. Plan(h)
  BY <1>2, <1>5, <1>10, <1>11, Planned
<1> QED BY <1>5, <1>12, Begun DEF Begins

LEMMA OthersBegin ==
    ASSUME NEW w,
           NEW h \in Closures \cup JobWrites \cup Submissions(w) \cup ClockIns(w) \cup LineApprovals(w)
    PROVE  Begins(h)
<1>1. ASSUME NEW kind \in {"closure", "job", "submit_day", "clock_in", "approve_cost_line"},
             NEW a, NEW people, NEW s, h = Request(kind, a, people, s)
      PROVE  Begins(h)
  <2>1. IsRequest(h) /\ h.held = {} /\ h.kind = kind
    BY <1>1, Begun
  <2> QED BY <2>1 DEF Begins, OrderlyKinds
<1>2. CASE h \in Closures
  <2> DEFINE locks(l, people) == <<staff(people[1])>> \o DayJobs({l}) \o Each(staff, Tail(people))
             closure(a, l, people) == Request("closure", a, People, locks(l, people))
  <2>1. Closures = {closure(a, l, people) : a \in Office, l \in LeaveJobs, people \in EveryOrder(People)}
    BY DEF Closures
  <2> HIDE DEF closure, locks
  <2>2. PICK a \in Office, l \in LeaveJobs, people \in EveryOrder(People) : h = closure(a, l, people)
    BY <1>2, <2>1
  <2> QED BY <1>1, <2>2 DEF closure
<1>3. CASE h \in JobWrites
  <2> DEFINE write(a, j) == Request("job", a, {}, <<job(j)>>)
  <2>1. JobWrites = {write(a, j) : a \in Office, j \in Jobs}
    BY DEF JobWrites
  <2> HIDE DEF write
  <2>2. PICK a \in Office, j \in Jobs : h = write(a, j)
    BY <1>3, <2>1
  <2> QED BY <1>1, <2>2 DEF write
<1>4. CASE h \in Submissions(w)
  <2> DEFINE locks(i, j) == <<staff(w), day(w)>> \o DayJobs({i}) \o DayJobs({j})
             submission(a, i, j) == Request("submit_day", a, {w}, locks(i, j))
  <2>1. Submissions(w)
          = {submission(a, i, j) : a \in Actors(w), i \in WorkJobs \cup {BreakJob}, j \in WorkJobs}
    BY DEF Submissions
  <2> HIDE DEF submission, locks
  <2>2. PICK a \in Actors(w), i \in WorkJobs \cup {BreakJob}, j \in WorkJobs : h = submission(a, i, j)
    BY <1>4, <2>1
  <2> QED BY <1>1, <2>2 DEF submission
<1>5. CASE h \in ClockIns(w)
  <2>1. h = Request("clock_in", w, {w}, <<day(w), staff(w)>> \o DayJobs({BreakJob}))
    BY <1>5 DEF ClockIns
  <2> QED BY <1>1, <2>1
<1>6. CASE h \in LineApprovals(w)
  <2> DEFINE locks(j) == lock_costing_jobs({j}) \o <<foreign_key(w)>>
             line(a, j) == Request("approve_cost_line", a, {w}, locks(j))
  <2>1. LineApprovals(w) = {line(a, j) : a \in Office, j \in Jobs \ LeaveJobs}
    BY DEF LineApprovals
  <2> HIDE DEF line, locks
  <2>2. PICK a \in Office, j \in Jobs \ LeaveJobs : h = line(a, j)
    BY <1>6, <2>1
  <2> QED BY <1>1, <2>2 DEF line
<1> QED BY <1>2, <1>3, <1>4, <1>5, <1>6

\* Every request begins with nothing held, and the orderly ones with a plan.
LEMMA HandlersPlanned == ASSUME NEW h \in Handlers PROVE Begins(h)
<1>1. CASE h \in Sweeps
  BY <1>1, SweepsPlanned
<1>2. CASE h \in Closures \cup JobWrites
  BY <1>2, OthersBegin
<1>3. ASSUME NEW w \in People,
             h \in EntryWrites(w) \cup Approvals(w) \cup DayTimes(w) \cup Leaves(w)
                        \cup Submissions(w) \cup ClockIns(w) \cup LineApprovals(w)
      PROVE  Begins(h)
  <2>1. h \in Submissions(w) \cup ClockIns(w) \cup LineApprovals(w) => Begins(h)
    BY OthersBegin
  <2> QED BY <1>3, <2>1, EntriesPlanned, ApprovalsPlanned, TimesPlanned, LeavesPlanned
<1> QED BY <1>1, <1>2, <1>3 DEF Handlers

-----------------------------------------------------------------------------
(* No circle among orderly requests *)

LocksInv ==
    /\ request = [r \in Requests |-> request[r]]
    /\ Exclusive
    /\ \A r \in Requests :
        IsRequest(request[r]) /\ (request[r].kind \in OrderlyKinds => Plan(request[r]))

\* What one request may become, whatever the others hold.
LEMMA BecomeKeeps ==
    ASSUME LocksInv, NEW r \in Requests, NEW call, request' = [request EXCEPT ![r] = call],
           IsRequest(call), call.kind \in OrderlyKinds => Plan(call),
           \A q \in Requests \ {r} : \A l \in call.held : \A m \in request[q].held :
               l.row = m.row => l.shared /\ m.shared
    PROVE  LocksInv'
<1>1. /\ request' = [q \in Requests |-> request'[q]] /\ request'[r] = call
      /\ \A q \in Requests \ {r} : request'[q] = request[q]
  BY DEF LocksInv
<1>2. \A q \in Requests :
        IsRequest(request'[q]) /\ (request'[q].kind \in OrderlyKinds => Plan(request'[q]))
  BY <1>1 DEF LocksInv
<1>3. ASSUME NEW p \in Requests, NEW q \in Requests, p # q,
             NEW l \in request'[p].held, NEW m \in request'[q].held, l.row = m.row
      PROVE  l.shared /\ m.shared
  BY <1>1, <1>3 DEF LocksInv, Exclusive
<1>4. Exclusive'
  BY <1>3 DEF Exclusive
<1> QED BY <1>1, <1>2, <1>4 DEF LocksInv

LEMMA NoRequestKeeps ==
    ASSUME LocksInv, NEW r \in Requests, request' = [request EXCEPT ![r] = NoRequest]
    PROVE  LocksInv'
<1>1. IsRequest(NoRequest) /\ NoRequest.held = {} /\ NoRequest.kind \notin OrderlyKinds
  BY DEF IsRequest, NoRequest, OrderlyKinds
<1> QED BY <1>1, BecomeKeeps

LEMMA LocksInvInit == LocksInit => LocksInv
<1>1. IsRequest(NoRequest) /\ NoRequest.held = {} /\ NoRequest.kind \notin OrderlyKinds
  BY DEF IsRequest, NoRequest, OrderlyKinds
<1> SUFFICES ASSUME LocksInit PROVE LocksInv
  OBVIOUS
<1>2. request = [r \in Requests |-> request[r]] /\ \A r \in Requests : request[r] = NoRequest
  BY DEF LocksInit
<1> QED BY <1>1, <1>2 DEF LocksInv, Exclusive

LEMMA TakenIs ==
    ASSUME NEW call, IsRequest(call)
    PROVE  /\ IsRequest(Taken(call)) /\ Taken(call).kind = call.kind
           /\ Taken(call).held = call.held \cup {Head(call.todo)}
<1>1. ASSUME NEW kind, NEW people, NEW actor, NEW todo, NEW held,
             call = [kind |-> kind, people |-> people, actor |-> actor, todo |-> todo, held |-> held]
      PROVE  Taken(call) = [kind |-> kind, people |-> people, actor |-> actor,
                            todo |-> Tail(todo), held |-> held \cup {Head(todo)}]
  <2> DEFINE t == Tail(todo)
             g == held \cup {Head(todo)}
  <2>1. Taken(call) = [call EXCEPT !.todo = t, !.held = g]
    BY <1>1 DEF Taken
  <2> HIDE DEF t, g
  <2>2. Taken(call) = [kind |-> kind, people |-> people, actor |-> actor, todo |-> t, held |-> g]
    BY <1>1, <2>1
  <2> QED BY <2>2 DEF t, g
<1>2. Taken(call) = [kind |-> call.kind, people |-> call.people, actor |-> call.actor,
                     todo |-> Tail(call.todo), held |-> call.held \cup {Head(call.todo)}]
  BY <1>1 DEF IsRequest
<1> QED BY <1>2 DEF IsRequest

LEMMA LocksInvNext == LocksInv /\ [LocksNext]_lockVars => LocksInv'
<1> SUFFICES ASSUME LocksInv, [LocksNext]_lockVars PROVE LocksInv'
  OBVIOUS
<1>1. CASE UNCHANGED lockVars
  <2>1. request' = request
    BY <1>1 DEF lockVars
  <2> QED BY <2>1 DEF LocksInv, Exclusive
<1>2. ASSUME NEW r \in Requests, Begin(r) PROVE LocksInv'
  <2>1. PICK h \in Handlers : request' = [request EXCEPT ![r] = h]
    BY <1>2 DEF Begin
  <2>2. IsRequest(h) /\ h.held = {} /\ (h.kind \in OrderlyKinds => Plan(h))
    BY HandlersPlanned DEF Begins
  <2> QED BY <2>1, <2>2, BecomeKeeps
<1>3. ASSUME NEW r \in Requests, Take(r) PROVE LocksInv'
  <2> DEFINE old == request[r]
             call == Taken(old)
             h == Head(old.todo)
  <2>1. /\ old.todo # <<>> /\ request' = [request EXCEPT ![r] = call]
        /\ \A q \in Requests : ~Waits(r, q)
    BY <1>3 DEF Take
  <2>2. /\ IsRequest(old) /\ (old.kind \in OrderlyKinds => Plan(old))
    BY DEF LocksInv
  <2>3. \A q \in Requests \ {r} : \A m \in request[q].held : h.row = m.row => h.shared /\ m.shared
    BY <2>1 DEF Waits
  <2>4. \A q \in Requests \ {r} : \A l \in old.held : \A m \in request[q].held :
          l.row = m.row => l.shared /\ m.shared
    BY DEF LocksInv, Exclusive
  <2> HIDE DEF old
  <2>5. call.held = old.held \cup {h} /\ call.kind = old.kind /\ IsRequest(call)
    BY <2>2, TakenIs
  <2>6. old.kind \in OrderlyKinds => Plan(call)
    BY <2>1, <2>2, TakenKeeps DEF IsRequest
  <2> HIDE DEF call, h
  <2>7. \A q \in Requests \ {r} : \A l \in call.held : \A m \in request[q].held :
          l.row = m.row => l.shared /\ m.shared
    BY <2>3, <2>4, <2>5
  <2> QED BY <2>1, <2>5, <2>6, <2>7, BecomeKeeps
<1>4. ASSUME NEW r \in Requests, Commit(r) \/ Detect(r) PROVE LocksInv'
  BY <1>4, NoRequestKeeps DEF Commit, Detect
<1> QED BY <1>1, <1>2, <1>3, <1>4 DEF LocksNext

\* What an orderly request holds and has next.
LEMMA OrderlyIs ==
    ASSUME LocksInv, NEW r \in Requests, Orderly(r)
    PROVE  /\ request[r].todo \in Seq(Rows(request[r].actor)) /\ request[r].held \subseteq Rows(request[r].actor)
           /\ \A w \in People : day(w) \in request[r].held => staff(w) \in request[r].held
           /\ request[r].actor \in People /\ foreign_key(request[r].actor) \in request[r].held
                => staff(request[r].actor) \in request[r].held
           /\ request[r].todo # <<>> =>
                LET h == Head(request[r].todo) IN
                /\ h \in Rows(request[r].actor)
                /\ Ranked(h) /\ h \notin request[r].held => \A l \in request[r].held : Ranked(l) => Lower(l, h)
                /\ \A w \in People : h = day(w) => staff(w) \in request[r].held
                /\ request[r].actor \in People /\ h = foreign_key(request[r].actor)
                     => staff(request[r].actor) \in request[r].held
<1> DEFINE call == request[r]
           s == call.todo
           H == call.held
           a == call.actor
<1>1. Plan(call) /\ (a \in People => call.people = {a})
  BY DEF LocksInv, Orderly, OrderlyKinds
<1> HIDE DEF call
<1>2. /\ s \in Seq(Rows(a)) /\ H \subseteq Rows(a) /\ Above(s, H) /\ Guarded(s, H) /\ Named(s, H, a)
  BY <1>1 DEF Plan
<1> HIDE DEF s, H, a
<1>3. ASSUME s # <<>>
      PROVE  /\ Head(s) \in Rows(a) /\ Head(s) = s[1] /\ 1 \in DOMAIN s /\ \A j \in DOMAIN s : ~(j < 1)
  BY <1>2, <1>3
<1>4. ASSUME s # <<>>, NEW l, Before(s, H, l, 1) PROVE l \in H
  BY <1>3, <1>4 DEF Before
<1>5. ASSUME s # <<>>
      PROVE  /\ Ranked(Head(s)) /\ Head(s) \notin H => \A l \in H : Ranked(l) => Lower(l, Head(s))
             /\ \A w \in People : Head(s) = day(w) => staff(w) \in H
             /\ a \in People /\ Head(s) = foreign_key(a) => staff(a) \in H
  <2>1. Ranked(Head(s)) /\ Head(s) \notin H => \A l \in H : Ranked(l) => Lower(l, Head(s))
    BY <1>2, <1>3, <1>5 DEF Above
  <2>2. \A w \in People : Head(s) = day(w) => staff(w) \in H
    BY <1>2, <1>3, <1>4, <1>5 DEF Guarded
  <2>3. a \in People /\ Head(s) = foreign_key(a) => staff(a) \in H
    BY <1>2, <1>3, <1>4, <1>5 DEF Named
  <2> QED BY <2>1, <2>2, <2>3
<1>6. /\ \A w \in People : day(w) \in H => staff(w) \in H
      /\ a \in People /\ foreign_key(a) \in H => staff(a) \in H
  BY <1>2 DEF Guarded, Named
<1> QED BY <1>2, <1>3, <1>5, <1>6 DEF call, s, H, a

\* Orderly requests wait for each other only over people and jobs, held in full.
LEMMA HeadRanked ==
    ASSUME LocksInv, NEW r \in Requests, NEW q \in Requests, Orderly(r), Orderly(q), Waits(r, q)
    PROVE  Ranked(Head(request[r].todo)) /\ Head(request[r].todo) \in request[q].held
<1> DEFINE h == Head(request[r].todo)
           a == request[r].actor
           b == request[q].actor
<1>1. /\ q # r /\ request[r].todo # <<>>
      /\ \E l \in request[q].held : l.row = h.row /\ ~(l.shared /\ h.shared)
  BY DEF Waits
<1>2. PICK l \in request[q].held : l.row = h.row /\ ~(l.shared /\ h.shared)
  BY <1>1
<1>3. /\ h \in Rows(a)
      /\ \A w \in People : h = day(w) => staff(w) \in request[r].held
      /\ a \in People /\ h = foreign_key(a) => staff(a) \in request[r].held
  BY <1>1, OrderlyIs
<1>4. /\ l \in Rows(b)
      /\ \A w \in People : day(w) \in request[q].held => staff(w) \in request[q].held
      /\ b \in People /\ foreign_key(b) \in request[q].held => staff(b) \in request[q].held
  BY OrderlyIs
<1>5. ASSUME NEW w, staff(w) \in request[r].held, staff(w) \in request[q].held PROVE FALSE
  BY <1>1, <1>5, LocksAre DEF LocksInv, Exclusive
<1> HIDE DEF h, a, b
<1>6. \/ \E w \in People : l = staff(w) \/ l = day(w)
      \/ \E j \in Jobs : l = job(j)
      \/ l = foreign_key(b)
  BY <1>4 DEF Rows, PeopleRows, JobRows
<1>7. ASSUME NEW w \in People, h = day(w) PROVE FALSE
  <2>1. l.row = <<"day", w>>
    BY <1>2, <1>7, LocksAre
  <2>2. l = day(w)
    BY <1>6, <2>1, LocksAre
  <2> QED BY <1>3, <1>4, <1>5, <1>7, <2>2
<1>8. ASSUME h = foreign_key(a) PROVE FALSE
  <2>1. l.row = <<"staff", a>> /\ ~l.shared
    BY <1>2, <1>8, LocksAre
  <2>2. a \in People /\ l = staff(a)
    BY <1>6, <2>1, LocksAre
  <2> QED BY <1>3, <1>5, <1>8, <2>2
<1>9. ASSUME NEW w \in People, h = staff(w) PROVE h \in request[q].held
  <2>1. l.row = <<"staff", w>>
    BY <1>2, <1>9, LocksAre
  <2>2. l = staff(w) \/ (l = foreign_key(b) /\ b = w)
    BY <1>6, <2>1, LocksAre
  <2> QED BY <1>4, <1>9, <2>2
<1>10. ASSUME NEW j \in Jobs, h = job(j) PROVE h \in request[q].held
  <2>1. l.row = <<"job", j>>
    BY <1>2, <1>10, LocksAre
  <2>2. l = job(j)
    BY <1>6, <2>1, LocksAre
  <2> QED BY <1>10, <2>2
<1>11. \/ \E w \in People : h = staff(w)
       \/ \E j \in Jobs : h = job(j)
  BY <1>3, <1>7, <1>8 DEF Rows, PeopleRows, JobRows
<1> QED BY <1>9, <1>10, <1>11, LocksAre DEF h

\* Along a circle each waits for a higher lock than the one before.
LEMMA WaitsClimb ==
    ASSUME LocksInv, NEW r \in Requests, NEW q \in Requests, NEW s \in Requests,
           Orderly(r), Orderly(q), Orderly(s), Waits(r, q), Waits(q, s)
    PROVE  Lower(Head(request[r].todo), Head(request[q].todo))
<1> DEFINE g == Head(request[r].todo)
           h == Head(request[q].todo)
<1>1. Ranked(g) /\ g \in request[q].held
  BY HeadRanked
<1>2. Ranked(h) /\ h \in request[s].held
  BY HeadRanked
<1>3. q # s /\ request[q].todo # <<>>
  BY DEF Waits
<1>4. h \notin request[q].held
  BY <1>2, <1>3 DEF LocksInv, Exclusive, Ranked
<1>5. Ranked(h) /\ h \notin request[q].held => \A l \in request[q].held : Ranked(l) => Lower(l, h)
  BY <1>3, OrderlyIs
<1> QED BY <1>1, <1>2, <1>4, <1>5

LEMMA NoCircleHere == LocksInv => NoCircle
<1> SUFFICES ASSUME LocksInv, NEW C \in SUBSET Requests, Circle(C), \A r \in C : Orderly(r)
      PROVE  FALSE
  BY DEF NoCircle
<1> DEFINE head(r) == Head(request[r].todo)
           J == {j \in Jobs : \E r \in C : head(r) = job(j)}
           P == {p \in People : \E r \in C : head(r) = staff(p)}
<1>1. C # {} /\ \A r \in C : \E q \in C : Waits(r, q)
  BY DEF Circle
<1>2. ASSUME NEW r \in C
      PROVE  \/ \E w \in People : head(r) = staff(w)
             \/ \E j \in Jobs : head(r) = job(j)
  <2>1. PICK q \in C : Waits(r, q)
    BY <1>1
  <2>2. Ranked(head(r))
    BY <2>1, HeadRanked
  <2>3. head(r) \in Rows(request[r].actor)
    BY <2>1, OrderlyIs DEF Waits
  <2> QED BY <2>2, <2>3, LocksAre DEF Rows, PeopleRows, JobRows
<1>3. ASSUME NEW r \in C PROVE \E q \in C : Lower(head(r), head(q))
  <2>1. PICK q \in C : Waits(r, q)
    BY <1>1
  <2>2. PICK s \in C : Waits(q, s)
    BY <1>1
  <2> QED BY <2>1, <2>2, WaitsClimb
<1> HIDE DEF head
<1>4. J \subseteq Nat /\ IsFiniteSet(J) /\ P \subseteq Nat /\ IsFiniteSet(P)
  BY LocksAssumption, FS_Subset
<1>5. J = {}
  <2> SUFFICES ASSUME J # {} PROVE FALSE
    OBVIOUS
  <2>1. PICK m \in J : \A n \in J : n <= m
    BY <1>4, Greatest
  <2>2. PICK r \in C : head(r) = job(m)
    OBVIOUS
  <2>3. PICK q \in C : Lower(job(m), head(q))
    BY <1>3, <2>2
  <2>4. PICK n \in Jobs : head(q) = job(n)
    BY <1>2, <2>3, LocksAre
  <2>5. n \in J /\ m < n
    BY <2>3, <2>4, LocksAre
  <2> QED BY <1>4, <2>1, <2>5
<1>6. P # {}
  BY <1>1, <1>2, <1>5
<1>7. PICK m \in P : \A n \in P : n <= m
  BY <1>4, <1>6, Greatest
<1>8. PICK r \in C : head(r) = staff(m)
  OBVIOUS
<1>9. PICK q \in C : Lower(staff(m), head(q))
  BY <1>3, <1>8
<1>10. PICK n \in People : head(q) = staff(n)
  BY <1>2, <1>5
<1>11. n \in P /\ m < n
  BY <1>9, <1>10, LocksAre
<1> QED BY <1>4, <1>7, <1>11

\* "The person first, then the jobs ... so none of them waits on another in a circle"
\* (approve_day): of any number of people, jobs and requests, no circle of requests
\* that keep to that order, whatever the others lock meanwhile.
THEOREM NoCircleAmongOrderly == LocksSpec => []NoCircle
<1>1. LocksInit => LocksInv
  BY LocksInvInit
<1>2. LocksInv /\ [LocksNext]_lockVars => LocksInv'
  BY LocksInvNext
<1>3. LocksInv => NoCircle
  BY NoCircleHere
<1> QED BY <1>1, <1>2, <1>3, PTL DEF LocksSpec

=============================================================================

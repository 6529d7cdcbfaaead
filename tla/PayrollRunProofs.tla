--------------------------- MODULE PayrollRunProofs ---------------------------
(***************************************************************************)
(* Results about posting a week to Xero Payroll, for any number of runs,   *)
(* workers and staff and any number of troubles.                           *)
(***************************************************************************)
EXTENDS PayrollRun, FiniteSetTheorems, TLAPS

-----------------------------------------------------------------------------
(* The invariant.                                                          *)

PerStaff == {"revert", "delete", "create", "approve", "report"}

\* The list an execution goes through, at the places that rely on it.
ListFits(e) ==
    /\ e.pc = "compare" => e.todo # {}
    /\ e.pc \in {"begin", "preflight"} => e.todo = Staff /\ e.results = NoResults

\* The shape of the state, with what a worker's position says of its list.
Shape ==
    /\ TypeOK
    /\ \A s \in Staff : IsFiniteSet(sheets[s])
    /\ \A w \in Workers : ListFits(worker[w])

\* A request that has not sent its message is alone with its run, and from its
\* claim on it holds the calendar.
Openers ==
    \A r \in Runs :
        /\ request[r] \in {"new", "claimed", "opened"} => queue[r] = 0 /\ ~Executes(r)
        /\ request[r] \in {"claimed", "opened"} => claim = r
        /\ request[r] \in {"new", "claimed"} => doc.run # r
        /\ request[r] = "unsent" => "send" \in seen

\* A run is in one place: its request, one message or one execution.
Sole ==
    \A r \in Runs :
        /\ queue[r] <= 1
        /\ queue[r] > 0 => ~Executes(r)
        /\ \A v, w \in Workers : worker[v].run = r /\ worker[w].run = r => v = w

\* x is the sheet that was found, or that sheet paid.
SameSheet(found, x) ==
    x = found \/ (found.status = "approved" /\ x = [found EXCEPT !.status = "paid"])

\* What e read of s's sheet at the start is how it still is.
AsFound(e, s) ==
    IF e.sheet[s] = NoSheet THEN sheets[s] = {}
    ELSE \E x \in sheets[s] : sheets[s] = {x} /\ SameSheet(e.sheet[s], x)

\* What is known of the sheet of the staff member e is at.
AtSheet(e) ==
    CASE e.pc = "revert" -> AsFound(e, e.at)
      [] e.pc = "delete" -> \E x \in sheets[e.at] : sheets[e.at] = {x} /\ x.id = e.sheet[e.at].id
      [] e.pc = "create" -> e.at \notin Salaried /\ sheets[e.at] = {}
      [] e.pc = "approve" -> /\ e.at \notin Salaried
                             /\ sheets[e.at] = {e.sheet[e.at]}
                             /\ e.sheet[e.at].work = e.read[e.at].work
                             /\ e.sheet[e.at].status = "draft"
      [] e.pc = "report" -> e.result = Failed \/ Pays(e.at, e.read[e.at])
      [] OTHER -> TRUE

\* What an execution that posts has done and may count on.
Sound(e) ==
    /\ claim = e.run
    /\ doc.run = e.run /\ doc.results = e.results
    /\ doc.status = IF e.pc = "mirror" THEN "succeeded" ELSE "running"
    /\ e.pc \in {"preflight", "leave", "payrun", "fetch"} => e.results = NoResults
    /\ e.pc = "leave" => \A s \in Staff \ e.todo : leave[s] = e.read[s].leave
    /\ e.pc \in {"payrun", "fetch", "compare"} \cup PerStaff =>
          \A s \in Staff : leave[s] = e.read[s].leave
    /\ e.pc \in {"compare"} \cup PerStaff =>
          \A s \in e.todo : e.results[s] = Pending /\ AsFound(e, s)
    /\ e.pc \in PerStaff =>
          /\ e.at \notin e.todo /\ e.results[e.at] = Pending
          /\ e.result = Posted(e.read[e.at]) \/ (e.pc = "report" /\ e.result = Failed)
          /\ AtSheet(e)

PostersSound == \A w \in Workers : Posting(w) => Sound(worker[w])

SheetsApart == \A s \in Staff : \A x, y \in sheets[s] : x = y

ReportedHolds ==
    \A s \in Staff : doc.results[s].state = "posted" => Pays(s, doc.results[s].week)

\* What is on its way holds the calendar, while calls only fail.
LiveHolds ==
    \A r \in Runs : queue[r] > 0 \/ Executes(r) => claim = r

Faultless == seen \subseteq {"fault"}

Inv ==
    /\ Shape /\ Openers
    /\ Undisturbed => Sole /\ PostersSound /\ SheetsApart /\ ReportedHolds
    /\ Faultless => LiveHolds /\ RunningHasARunner

-----------------------------------------------------------------------------
(* Shapes.                                                                 *)

\* The fields of an execution.
LEMMA ExecutionFields ==
    ASSUME NEW e \in Execution
    PROVE  /\ e.run \in Runs /\ e.run # NoRun /\ e.pc \in Calls \cup {"begin", "close"} /\ e.pc # "idle"
           /\ e.read \in [Staff -> Week] /\ e.draft \in {"none", "draft", "posted"}
           /\ e.sheet \in [Staff -> Sheet \cup {NoSheet}] /\ e.todo \subseteq Staff
           /\ e.at \in Staff /\ e.result \in Outcomes /\ e.results \in Results
           /\ e # Idle
BY PayrollAssumption DEF Execution, Idle, Calls

LEMMA WorkerIs ==
    ASSUME Shape, NEW w \in Workers
    PROVE  /\ worker[w] \in Execution \/ worker[w] = Idle
           /\ worker[w].pc # "idle" <=> worker[w] \in Execution
           /\ worker[w] # Idle <=> worker[w] \in Execution
           /\ worker[w].run \in Runs <=> worker[w] \in Execution
<1>1. worker[w] \in Execution \/ worker[w] = Idle
  BY DEF Shape, TypeOK
<1>2. Idle.pc = "idle" /\ Idle.run = NoRun /\ NoRun \notin Runs
  BY PayrollAssumption DEF Idle
<1> QED BY <1>1, <1>2, ExecutionFields

LEMMA OutcomesAre ==
    /\ NoResults \in Results /\ \A s \in Staff : NoResults[s] = Pending
    /\ Pending \in Outcomes /\ Failed \in Outcomes /\ \A week \in Week : Posted(week) \in Outcomes
    /\ Pending.state # "posted" /\ Failed.state # "posted" /\ Failed # Pending
    /\ \A week \in Week : Posted(week).state = "posted" /\ Posted(week).week = week /\ Posted(week) # Failed
BY DEF NoResults, Results, Outcomes, Pending, Failed, Posted

LEMMA DocIs ==
    ASSUME NEW r \in Runs, NEW status \in {"running", "succeeded", "failed", "refused"}, NEW results \in Results
    PROVE  /\ Doc(r, status, results) \in Document
           /\ Doc(r, status, results).run = r /\ Doc(r, status, results).status = status
           /\ Doc(r, status, results).results = results
BY DEF Doc, Document

LEMMA NoDocIs == NoDoc.run = NoRun /\ NoDoc.status = "none" /\ NoDoc.results = NoResults
BY DEF NoDoc

\* A trouble is one of the bound's, and is remembered.
LEMMA TroubleIs ==
    ASSUME Shape, NEW kind \in Troubles, Trouble(kind)
    PROVE  /\ left' \in [edits : Nat, troubles : Nat]
           /\ seen' = seen \cup {kind} /\ seen' \subseteq Troubles
<1>1. left \in [edits : Nat, troubles : Nat] /\ seen \subseteq Troubles
  BY DEF Shape, TypeOK
<1>2. left.troubles - 1 \in Nat
  <2>1. left.troubles \in Nat /\ left.troubles > 0
    BY <1>1 DEF Trouble
  <2> QED BY <2>1
<1>3. left' \in [edits : Nat, troubles : Nat]
  BY <1>1, <1>2 DEF Trouble
<1> QED BY <1>1, <1>3 DEF Trouble

\* What disturbs does not pass.
LEMMA UndisturbedBefore ==
    ASSUME seen \subseteq seen'
    PROVE  /\ Undisturbed' => Undisturbed
           /\ Faultless' => Faultless /\ Undisturbed /\ Undisturbed'
BY DEF Undisturbed, Faultless

\* Two runs never post at once.
LEMMA PosterAlone ==
    ASSUME Inv, Undisturbed, NEW w \in Workers, Posting(w)
    PROVE  /\ worker[w] \in Execution /\ claim = worker[w].run
           /\ \A v \in Workers \ {w} : ~Posting(v) /\ worker[v].run # worker[w].run
           /\ Sound(worker[w])
<1>1. worker[w] \in Execution /\ worker[w].run \in Runs
  BY WorkerIs DEF Inv, Posting
<1>2. \A v \in Workers : worker[v].run = worker[w].run => v = w
  BY <1>1 DEF Inv, Sole
<1>3. \A v \in Workers : Posting(v) => claim = worker[v].run
  BY DEF Inv, PostersSound, Sound
<1> QED BY <1>1, <1>2, <1>3 DEF Inv, PostersSound

-----------------------------------------------------------------------------
(* A worker's step.                                                        *)

\* What holds of any step of worker w, whose execution becomes new.
Moved(w, new) ==
    /\ worker[w] \in Execution
    /\ worker' = [worker EXCEPT ![w] = new]
    /\ new = Idle \/ (new \in Execution /\ new.run = worker[w].run)
    /\ ListFits(new) /\ new.pc # "begin"
    /\ recorded' \in [Staff -> Week]
    /\ request' = request /\ queue' = queue
    /\ left' \in [edits : Nat, troubles : Nat] /\ seen \subseteq seen' /\ seen' \subseteq Troubles
    /\ claim' = claim \/ (claim \in {worker[w].run, NoRun} /\ claim' \in {worker[w].run, NoRun})
    /\ doc' = doc \/ (doc' \in Document /\ doc'.run = worker[w].run)
    /\ leave' \in [Staff -> 0..1] /\ sheets' \in [Staff -> SUBSET Sheet]
    /\ \A s \in Staff : IsFiniteSet(sheets'[s])
    /\ payRun' \in {"none", "draft", "posted"}

LEMMA MovedShape ==
    ASSUME Inv, NEW w \in Workers, NEW new, Moved(w, new)
    PROVE  Shape' /\ Openers' /\ (Undisturbed' => Sole')
<1>0. /\ Shape /\ Openers /\ worker \in [Workers -> Execution \cup {Idle}]
      /\ claim \in Runs \cup {NoRun} /\ doc \in Document \cup {NoDoc}
      /\ request \in [Runs -> {"new", "claimed", "opened", "unsent", "done"}] /\ queue \in [Runs -> Nat]
  BY DEF Inv, Shape, TypeOK
<1>1. worker[w].run \in Runs
  BY ExecutionFields DEF Moved
<1>2. worker'[w] = new /\ \A v \in Workers \ {w} : worker'[v] = worker[v]
  BY <1>0 DEF Moved
<1>3. new.run = worker[w].run \/ new.run = NoRun
  BY DEF Moved, Idle
<1>4. \A r \in Runs : Executes(r)' => Executes(r)
  <2>1. NoRun \notin Runs
    BY PayrollAssumption
  <2>2. \A v \in Workers, r \in Runs : worker'[v].run = r => worker[v].run = r
    BY <1>2, <1>3, <2>1
  <2> QED BY <2>2 DEF Executes
<1>5. Shape'
  <2>1. worker' \in [Workers -> Execution \cup {Idle}]
    <3>1. new \in Execution \cup {Idle}
      BY DEF Moved
    <3> HIDE DEF Execution
    <3> QED BY <1>0, <3>1 DEF Moved
  <2>2. claim' \in Runs \cup {NoRun} /\ doc' \in Document \cup {NoDoc}
    BY <1>0, <1>1 DEF Moved
  <2>3. TypeOK'
    BY <1>0, <2>1, <2>2 DEF Moved, TypeOK
  <2>4. \A v \in Workers : ListFits(worker'[v])
    BY <1>2 DEF Moved, Inv, Shape
  <2> QED BY <2>3, <2>4 DEF Moved, Shape, ListFits
<1>6. Openers'
  <2>1. Executes(worker[w].run)
    BY DEF Executes
  <2>2. \A r \in Runs : request[r] \in {"new", "claimed", "opened"} => r # worker[w].run
    BY <1>0, <1>1, <2>1 DEF Openers
  <2>3. NoRun \notin Runs
    BY PayrollAssumption
  <2> SUFFICES ASSUME NEW r \in Runs
               PROVE  /\ request'[r] \in {"new", "claimed", "opened"} => queue'[r] = 0 /\ ~Executes(r)'
                      /\ request'[r] \in {"claimed", "opened"} => claim' = r
                      /\ request'[r] \in {"new", "claimed"} => doc'.run # r
                      /\ request'[r] = "unsent" => "send" \in seen'
    BY DEF Openers
  <2>4. request'[r] = request[r] /\ queue'[r] = queue[r]
    BY DEF Moved
  <2>5. request[r] \in {"claimed", "opened"} => claim' = r
    BY <1>0, <2>2, <2>3 DEF Moved, Openers
  <2>6. request[r] \in {"new", "claimed"} => doc'.run # r
    BY <1>0, <2>2 DEF Moved, Openers
  <2>7. request[r] = "unsent" => "send" \in seen'
    BY <1>0 DEF Moved, Openers
  <2> QED BY <1>0, <1>4, <2>4, <2>5, <2>6, <2>7 DEF Openers
<1>7. Undisturbed' => Sole'
  <2> SUFFICES ASSUME Undisturbed' PROVE Sole'
    OBVIOUS
  <2>1. Sole
    BY UndisturbedBefore DEF Inv, Moved
  <2>2. NoRun \notin Runs
    BY PayrollAssumption
  <2>3. \A v \in Workers, r \in Runs : worker'[v].run = r => worker[v].run = r
    BY <1>2, <1>3, <2>2
  <2> QED BY <1>4, <2>1, <2>3 DEF Sole, Moved
<1> QED BY <1>5, <1>6, <1>7

\* A worker's step keeps the invariant if it leaves its own execution sound, and
\* stops only when its document no longer says that it runs.
LEMMA MovedKeeps ==
    ASSUME Inv, NEW w \in Workers, NEW new, Moved(w, new),
           Undisturbed' => /\ new.pc \notin {"idle", "begin"} => Sound(new)'
                           /\ SheetsApart' /\ ReportedHolds'
                           /\ (\A v \in Workers \ {w} : ~Posting(v)) \/ UNCHANGED <<claim, doc, leave, sheets>>,
           Faultless' => IF new = Idle THEN doc'.status # "running" ELSE claim' = claim
    PROVE  Inv'
<1>1. Shape' /\ Openers' /\ (Undisturbed' => Sole')
  BY MovedShape
<1>2. worker'[w] = new /\ \A v \in Workers \ {w} : worker'[v] = worker[v]
  BY DEF Moved, Inv, Shape, TypeOK
<1>3. ASSUME Undisturbed' PROVE PostersSound'
  <2> SUFFICES ASSUME NEW v \in Workers, Posting(v)'
               PROVE  Sound(worker[v])'
    BY DEF PostersSound
  <2>1. CASE v = w
    <3>1. new.pc \notin {"idle", "begin"}
      BY <1>2, <2>1 DEF Posting
    <3>2. Sound(new)'
      BY <1>3, <3>1
    <3> QED BY <1>2, <2>1, <3>2 DEF Sound, AtSheet, AsFound, Pays
  <2>2. CASE v # w
    <3>1. worker'[v] = worker[v] /\ Posting(v)
      BY <1>2, <2>2 DEF Posting
    <3>2. UNCHANGED <<claim, doc, leave, sheets>>
      BY <1>3, <2>2, <3>1
    <3>3. Sound(worker[v])
      BY <1>3, <3>1, UndisturbedBefore DEF Inv, PostersSound, Moved
    <3> QED BY <3>1, <3>2, <3>3 DEF Sound, AtSheet, AsFound, Pays
  <2> QED BY <2>1, <2>2
<1>4. ASSUME Faultless' PROVE LiveHolds' /\ RunningHasARunner'
  <2>1. Faultless /\ Undisturbed /\ Undisturbed'
    BY <1>4, UndisturbedBefore DEF Moved
  <2>2. LiveHolds /\ RunningHasARunner /\ Sole
    BY <2>1 DEF Inv
  <2>3. worker[w].run \in Runs /\ Executes(worker[w].run) /\ claim = worker[w].run
    BY <2>2, ExecutionFields DEF Moved, Executes, LiveHolds
  <2>4. CASE new = Idle
    <3>1. ASSUME NEW r \in Runs, queue'[r] > 0 \/ Executes(r)' PROVE FALSE
      <4>1. PICK v : queue[r] > 0 \/ (v \in Workers \ {w} /\ worker[v].run = r)
        BY <1>2, <2>4, <3>1, PayrollAssumption DEF Moved, Executes, Idle
      <4>2. claim = r
        BY <2>2, <4>1 DEF LiveHolds, Executes
      <4> QED BY <2>2, <2>3, <4>1, <4>2 DEF Sole
    <3> QED BY <1>4, <2>4, <3>1 DEF LiveHolds, RunningHasARunner, Running, HasARunner
  <2>5. CASE new # Idle
    <3>1. claim' = claim /\ new.run = worker[w].run
      BY <1>4, <2>5 DEF Moved
    <3>2. \A r \in Runs : Executes(r)' <=> Executes(r)
      BY <1>2, <3>1 DEF Executes
    <3>3. LiveHolds'
      BY <2>2, <3>1, <3>2 DEF LiveHolds, Moved
    <3>4. RunningHasARunner'
      <4>1. doc'.status = "running" => doc'.run \in Runs
        BY <1>1, NoDocIs DEF Shape, TypeOK, Document
      <4>2. CASE doc' = doc
        BY <2>1, <2>2, <3>2, <4>1, <4>2 DEF RunningHasARunner, Running, HasARunner, Requests, Moved, Faultless
      <4>3. CASE doc'.run = worker[w].run
        BY <2>3, <3>2, <4>3 DEF RunningHasARunner, Running, HasARunner
      <4> QED BY <4>2, <4>3 DEF Moved
    <3> QED BY <3>3, <3>4
  <2> QED BY <2>4, <2>5
<1> QED BY <1>1, <1>3, <1>4 DEF Inv

-----------------------------------------------------------------------------
(* Before the first result.                                                *)

\* An execution at some of its calls is the one that posts.
LEMMA AtCall ==
    ASSUME Inv, NEW w \in Workers, worker[w].pc \notin {"idle", "begin"}
    PROVE  /\ worker[w] \in Execution /\ Posting(w) /\ ListFits(worker[w])
           /\ Undisturbed => /\ claim = worker[w].run /\ Sound(worker[w])
                             /\ (\A v \in Workers \ {w} : ~Posting(v))
                             /\ SheetsApart /\ ReportedHolds
<1>1. Posting(w) /\ worker[w] \in Execution /\ ListFits(worker[w])
  BY WorkerIs DEF Posting, Inv, Shape
<1> QED BY <1>1, PosterAlone DEF Inv

\* The parts of the state an action leaves alone keep their shape.
LEMMA ShapeKeeps ==
    ASSUME Inv
    PROVE  /\ recorded' = recorded => recorded' \in [Staff -> Week]
           /\ limits' = limits => /\ left' \in [edits : Nat, troubles : Nat]
                                  /\ seen \subseteq seen' /\ seen' \subseteq Troubles
           /\ Trouble("fault") => /\ left' \in [edits : Nat, troubles : Nat]
                                  /\ seen \subseteq seen' /\ seen' \subseteq Troubles
           /\ leave' = leave => leave' \in [Staff -> 0..1]
           /\ sheets' = sheets => /\ sheets' \in [Staff -> SUBSET Sheet]
                                  /\ \A s \in Staff : IsFiniteSet(sheets'[s])
           /\ payRun' = payRun => payRun' \in {"none", "draft", "posted"}
           /\ Undisturbed /\ sheets' = sheets => SheetsApart'
           /\ Undisturbed /\ <<doc, leave, sheets>>' = <<doc, leave, sheets>> => ReportedHolds'
<1>1. "fault" \in Troubles
  BY DEF Troubles
<1>2. Trouble("fault") => /\ left' \in [edits : Nat, troubles : Nat]
                          /\ seen \subseteq seen' /\ seen' \subseteq Troubles
  BY <1>1, TroubleIs DEF Inv
<1>3. Undisturbed /\ sheets' = sheets => SheetsApart'
  BY DEF Inv, SheetsApart
<1>4. Undisturbed /\ <<doc, leave, sheets>>' = <<doc, leave, sheets>> => ReportedHolds'
  BY DEF Inv, ReportedHolds, Pays
<1>5. limits' = limits => left' = left /\ seen' = seen
  BY DEF limits
<1> QED BY <1>2, <1>3, <1>4, <1>5 DEF Inv, Shape, TypeOK

\* A run that fails as a whole leaves the results so far, and Xero, as they are.
\* (the task's except clause)
LEMMA AbortKeeps ==
    ASSUME Inv, NEW w \in Workers, worker[w].pc \notin {"idle", "begin"}, Abort(w),
           UNCHANGED <<recorded, request, queue, sheets, payRun>>,
           limits' = limits \/ Trouble("fault"), leave' \in [Staff -> 0..1],
           leave' = leave \/ worker[w].pc = "leave"
    PROVE  Inv'
<1> DEFINE e == worker[w]
<1>1. e \in Execution /\ Posting(w) /\ e.run \in Runs /\ e.results \in Results
  BY AtCall, ExecutionFields
<1>2. /\ reclaim_or_refuse(e.run) => doc' = Doc(e.run, "failed", e.results) /\ claim' = NoRun
      /\ ~reclaim_or_refuse(e.run) => doc' = doc /\ claim' = claim
      /\ worker' = [worker EXCEPT ![w] = Idle]
  BY DEF Abort, Close, Stops
<1>3. /\ Doc(e.run, "failed", e.results) \in Document /\ Doc(e.run, "failed", e.results).run = e.run
      /\ Doc(e.run, "failed", e.results).status = "failed" /\ Doc(e.run, "failed", e.results).results = e.results
  BY <1>1, DocIs
<1>4. Moved(w, Idle)
  <2>1. Idle.pc = "idle"
    BY DEF Idle
  <2>2. claim' = claim \/ (claim \in {e.run, NoRun} /\ claim' = NoRun)
    BY <1>2 DEF reclaim_or_refuse
  <2>3. doc' = doc \/ (doc' \in Document /\ doc'.run = e.run)
    BY <1>2, <1>3
  <2> HIDE DEF e
  <2> QED BY <1>1, <1>2, <2>1, <2>2, <2>3, ShapeKeeps DEF Moved, ListFits, e
<1>5. ASSUME Undisturbed' PROVE SheetsApart' /\ ReportedHolds' /\ \A v \in Workers \ {w} : ~Posting(v)
  <2>1. Undisturbed
    BY <1>4, <1>5, UndisturbedBefore DEF Moved
  <2>2. Sound(e) /\ SheetsApart /\ ReportedHolds /\ \A v \in Workers \ {w} : ~Posting(v)
    BY <2>1, AtCall
  <2>3. doc'.results = doc.results
    BY <1>2, <1>3, <2>2 DEF Sound
  <2>4. ReportedHolds'
    <3>1. CASE leave' = leave
      BY <2>2, <2>3, <3>1 DEF ReportedHolds, Pays
    <3>2. CASE e.pc = "leave"
      BY <2>2, <2>3, <3>2, OutcomesAre DEF ReportedHolds, Sound
    <3> QED BY <3>1, <3>2
  <2> QED BY <2>1, <2>2, <2>4, ShapeKeeps
<1>6. ASSUME Faultless' PROVE doc'.status # "running"
  <2>1. Undisturbed
    BY <1>4, <1>6, UndisturbedBefore DEF Moved
  <2> QED BY <1>2, <1>3, <2>1, AtCall DEF reclaim_or_refuse
<1>7. Idle.pc = "idle"
  BY DEF Idle
<1> QED BY <1>4, <1>5, <1>6, <1>7, MovedKeeps

\* The redelivery guard.
LEMMA StepBegin ==
    ASSUME Inv, NEW w \in Workers, Begin(w)
    PROVE  Inv'
<1> DEFINE e == worker[w]
<1>1. e \in Execution /\ e.run \in Runs /\ e.pc = "begin" /\ ListFits(e)
  BY WorkerIs, ExecutionFields DEF Begin, Inv, Shape
<1>2. UNCHANGED <<recorded, request, queue, leave, sheets, payRun, left, seen>>
  BY DEF Begin, xeroVars, limits
<1>3. limits' = limits
  BY <1>2 DEF limits
<1>4. CASE claim = e.run
  <2>0. PICK new : new = [e EXCEPT !.pc = "preflight"]
    OBVIOUS
  <2>1. worker' = [worker EXCEPT ![w] = new] /\ claim' = claim /\ doc' = Doc(e.run, "running", NoResults)
    BY <1>4, <2>0 DEF Begin, Goes, running
  <2>2. /\ new \in Execution /\ new.pc = "preflight" /\ new.run = e.run
        /\ new.todo = e.todo /\ new.results = e.results
    BY <1>1, <2>0 DEF Execution, Calls
  <2>3. doc' \in Document /\ doc'.run = e.run /\ doc'.status = "running" /\ doc'.results = NoResults
    BY <1>1, <2>1, DocIs, OutcomesAre
  <2>4. new # Idle /\ ListFits(new) /\ new.results = NoResults
    BY <1>1, <2>2, ExecutionFields DEF ListFits
  <2>5. Moved(w, new)
    BY <1>1, <1>2, <1>3, <2>1, <2>2, <2>3, <2>4, ShapeKeeps DEF Moved
  <2>6. ASSUME Undisturbed'
        PROVE  Sound(new)' /\ SheetsApart' /\ ReportedHolds' /\ \A v \in Workers \ {w} : ~Posting(v)
    <3>1. Undisturbed
      BY <2>5, <2>6, UndisturbedBefore DEF Moved
    <3>2. \A v \in Workers \ {w} : ~Posting(v)
      <4>1. \A v \in Workers : Posting(v) => claim = worker[v].run
        BY <3>1 DEF Inv, PostersSound, Sound
      <4> QED BY <1>1, <1>4, <3>1, <4>1 DEF Inv, Sole
    <3>3. SheetsApart'
      BY <1>2, <3>1, ShapeKeeps
    <3>4. Sound(new)'
      BY <1>4, <2>1, <2>2, <2>3, <2>4 DEF Sound, PerStaff
    <3> QED BY <2>3, <3>2, <3>3, <3>4, OutcomesAre DEF ReportedHolds
  <2> QED BY <2>1, <2>4, <2>5, <2>6, MovedKeeps
<1>5. CASE claim # e.run
  <2>1. /\ reclaim_or_refuse(e.run) => doc' = Doc(e.run, "refused", NoResults) /\ claim' = NoRun
        /\ ~reclaim_or_refuse(e.run) => doc' = doc /\ claim' = claim
        /\ worker' = [worker EXCEPT ![w] = Idle]
    BY <1>5 DEF Begin, Close, Stops
  <2>2. /\ Doc(e.run, "refused", NoResults) \in Document /\ Doc(e.run, "refused", NoResults).run = e.run
        /\ Doc(e.run, "refused", NoResults).results = NoResults
    BY <1>1, DocIs, OutcomesAre
  <2>3. claim' = claim /\ (doc' = doc \/ (claim = NoRun /\ doc' \in Document /\ doc'.run = e.run /\ doc'.results = NoResults))
    BY <1>5, <2>1, <2>2 DEF reclaim_or_refuse
  <2>4. Idle.pc = "idle" /\ ListFits(Idle)
    BY DEF Idle, ListFits
  <2>5. Moved(w, Idle)
    BY <1>1, <1>2, <1>3, <2>1, <2>3, <2>4, ShapeKeeps DEF Moved
  <2>6. ASSUME Undisturbed'
        PROVE  /\ SheetsApart' /\ ReportedHolds'
               /\ (\A v \in Workers \ {w} : ~Posting(v)) \/ UNCHANGED <<claim, doc, leave, sheets>>
    <3>1. Undisturbed
      BY <2>5, <2>6, UndisturbedBefore DEF Moved
    <3>2. SheetsApart'
      BY <1>2, <3>1, ShapeKeeps
    <3>3. CASE doc' = doc
      BY <1>2, <2>3, <3>1, <3>2, <3>3, ShapeKeeps
    <3>4. CASE claim = NoRun /\ doc'.results = NoResults
      <4>1. \A v \in Workers : ~Posting(v)
        <5>1. ASSUME NEW v \in Workers, Posting(v) PROVE FALSE
          <6>1. worker[v] \in Execution /\ claim = worker[v].run
            BY <3>1, <5>1, PosterAlone
          <6> QED BY <3>4, <6>1, ExecutionFields
        <5> QED BY <5>1
      <4> QED BY <3>2, <3>4, <4>1, OutcomesAre DEF ReportedHolds
    <3> QED BY <2>3, <3>3, <3>4
  <2>7. ~Faultless'
    <3> SUFFICES ASSUME Faultless' PROVE FALSE
      OBVIOUS
    <3>1. Faultless
      BY <2>5, UndisturbedBefore DEF Moved
    <3> QED BY <1>1, <1>5, <3>1 DEF Inv, LiveHolds, Executes
  <2> QED BY <2>4, <2>5, <2>6, <2>7, MovedKeeps
<1> QED BY <1>4, <1>5

LEMMA StepBatchFails ==
    ASSUME Inv, NEW w \in Workers, BatchFails(w)
    PROVE  Inv'
<1>1. /\ worker[w].pc \notin {"idle", "begin"} /\ Abort(w) /\ Trouble("fault")
      /\ UNCHANGED <<recorded, request, queue, sheets, payRun, leave>>
  BY DEF BatchFails, xeroVars
<1> QED BY <1>1, AbortKeeps, ShapeKeeps

\* A step that goes on under the claim keeps the invariant, if it is sound.
LEMMA GoesOn ==
    ASSUME Inv, NEW w \in Workers, worker[w].pc \notin {"idle", "begin"},
           NEW new, worker' = [worker EXCEPT ![w] = new],
           new \in Execution, new.run = worker[w].run, new.pc # "begin", ListFits(new),
           UNCHANGED <<recorded, claim, doc, request, queue>>,
           limits' = limits \/ Trouble("fault"),
           leave' \in [Staff -> 0..1], sheets' \in [Staff -> SUBSET Sheet],
           \A s \in Staff : IsFiniteSet(sheets'[s]), payRun' \in {"none", "draft", "posted"},
           Undisturbed => Sound(new)' /\ SheetsApart' /\ ReportedHolds'
    PROVE  Inv'
<1>1. worker[w] \in Execution /\ new # Idle
  BY AtCall, ExecutionFields
<1>2. Moved(w, new)
  BY <1>1, ShapeKeeps DEF Moved
<1>3. Undisturbed' => Undisturbed
  BY <1>2, UndisturbedBefore DEF Moved
<1>4. Undisturbed => \A v \in Workers \ {w} : ~Posting(v)
  BY AtCall
<1> QED BY <1>1, <1>2, <1>3, <1>4, MovedKeeps

\* require_dispatched_tenant, validate_pay_items_for_week; the lines are read.
LEMMA StepPreflight ==
    ASSUME Inv, NEW w \in Workers, Preflight(w)
    PROVE  Inv'
<1> DEFINE e == worker[w]
<1>1. e.pc = "preflight" /\ e.pc \notin {"idle", "begin"}
  BY DEF Preflight
<1>2. e \in Execution /\ ListFits(e)
  BY <1>1, AtCall
<1>3. recorded \in [Staff -> Week] /\ payRun \in {"none", "draft", "posted"}
  BY DEF Inv, Shape, TypeOK
<1>4. PICK new : new = [e EXCEPT !.pc = "leave", !.read = recorded, !.draft = payRun]
  OBVIOUS
<1>5. UNCHANGED <<recorded, claim, doc, request, queue, leave, sheets, payRun>> /\ limits' = limits
      /\ worker' = [worker EXCEPT ![w] = new]
  BY <1>4 DEF Preflight, serverVars, xeroVars
<1>6. /\ new \in Execution /\ new.pc = "leave" /\ new.run = e.run
      /\ new.todo = e.todo /\ new.results = e.results
  BY <1>2, <1>3, <1>4 DEF Execution, Calls
<1>7. ListFits(new) /\ new.todo = Staff /\ new.results = NoResults
  BY <1>1, <1>2, <1>6 DEF ListFits
<1>8. ASSUME Undisturbed PROVE Sound(new)' /\ SheetsApart' /\ ReportedHolds'
  <2>1. Sound(e)
    BY <1>1, <1>8, AtCall
  <2>2. Sound(new)'
    BY <1>1, <1>5, <1>6, <1>7, <2>1 DEF Sound, PerStaff
  <2> QED BY <1>5, <1>8, <2>2, ShapeKeeps
<1> QED BY <1>1, <1>5, <1>6, <1>7, <1>8, GoesOn, ShapeKeeps

\* One staff member's leave: what Xero refuses ends the run.
LEMMA StepReconcileLeave ==
    ASSUME Inv, NEW w \in Workers, ReconcileLeave(w)
    PROVE  Inv'
<1> DEFINE e == worker[w]
<1>1. e.pc = "leave" /\ e.todo # {} /\ e.pc \notin {"idle", "begin"}
  BY DEF ReconcileLeave
<1>2. e \in Execution /\ e.todo \subseteq Staff /\ e.read \in [Staff -> Week]
  BY <1>1, AtCall, ExecutionFields
<1>3. PICK s \in e.todo : s = First(e.todo)
  BY <1>1 DEF First
<1>4. PICK want : want = e.read[s].leave
  OBVIOUS
<1>5. s \in Staff /\ want \in 0..1 /\ leave \in [Staff -> 0..1]
  BY <1>2, <1>3, <1>4 DEF Week, Inv, Shape, TypeOK
<1>6. UNCHANGED <<recorded, request, queue, sheets, payRun>>
  BY DEF ReconcileLeave
<1>7. \/ Abort(w) /\ UNCHANGED <<leave, limits>>
      \/ /\ leave' = [leave EXCEPT ![s] = want]
         /\ worker' = [worker EXCEPT ![w].todo = @ \ {s}]
         /\ UNCHANGED <<claim, doc, limits>>
      \/ /\ leave' = [leave EXCEPT ![s] = want]
         /\ Abort(w) /\ Trouble("fault")
  BY <1>3, <1>4 DEF ReconcileLeave
<1>8. CASE Abort(w) /\ (UNCHANGED <<leave, limits>> \/ (leave' = [leave EXCEPT ![s] = want] /\ Trouble("fault")))
  <2>1. leave' \in [Staff -> 0..1]
    BY <1>5, <1>8
  <2> QED BY <1>1, <1>6, <1>8, <2>1, AbortKeeps
<1>9. CASE /\ leave' = [leave EXCEPT ![s] = want]
           /\ worker' = [worker EXCEPT ![w].todo = @ \ {s}]
           /\ UNCHANGED <<claim, doc, limits>>
  <2>1. PICK new : new = [e EXCEPT !.todo = e.todo \ {s}]
    OBVIOUS
  <2>2. worker' = [worker EXCEPT ![w] = new]
    BY <1>9, <2>1
  <2>3. /\ new \in Execution /\ new.pc = "leave" /\ new.run = e.run /\ new.todo = e.todo \ {s}
        /\ new.results = e.results /\ new.read = e.read
    BY <1>1, <1>2, <2>1 DEF Execution
  <2>4. leave' \in [Staff -> 0..1] /\ ListFits(new)
    BY <1>5, <1>9, <2>3 DEF ListFits
  <2>5. ASSUME Undisturbed PROVE Sound(new)' /\ SheetsApart' /\ ReportedHolds'
    <3>1. Sound(e)
      BY <1>1, <2>5, AtCall
    <3>2. \A t \in Staff \ new.todo : leave'[t] = new.read[t].leave
      BY <1>1, <1>4, <1>5, <1>9, <2>3, <3>1 DEF Sound
    <3>3. Sound(new)'
      BY <1>1, <1>9, <2>3, <3>1, <3>2 DEF Sound, PerStaff
    <3>4. ReportedHolds'
      BY <1>1, <1>9, <3>1, OutcomesAre DEF Sound, ReportedHolds
    <3> QED BY <1>6, <2>5, <3>3, <3>4, ShapeKeeps
  <2> QED BY <1>1, <1>6, <1>9, <2>2, <2>3, <2>4, <2>5, GoesOn, ShapeKeeps
<1> QED BY <1>7, <1>8, <1>9

\* ensure_pay_run_for_week: the week's pay run is there, or the run ends.
LEMMA StepEnsurePayRun ==
    ASSUME Inv, NEW w \in Workers, EnsurePayRun(w)
    PROVE  Inv'
<1> DEFINE e == worker[w]
<1>1. e.pc = "leave" /\ e.todo = {} /\ e.pc \notin {"idle", "begin"}
  BY DEF EnsurePayRun
<1>2. e \in Execution
  BY <1>1, AtCall
<1>3. UNCHANGED <<recorded, request, queue, leave, sheets>> /\ limits' = limits
  BY DEF EnsurePayRun
<1>4. \/ Goes(w, "fetch") /\ UNCHANGED <<claim, doc, payRun>>
      \/ Goes(w, "payrun") /\ payRun' = "draft" /\ UNCHANGED <<claim, doc>>
      \/ Abort(w) /\ UNCHANGED payRun
  BY DEF EnsurePayRun
<1>5. CASE Abort(w) /\ UNCHANGED payRun
  BY <1>1, <1>3, <1>5, AbortKeeps, ShapeKeeps
<1>6. ASSUME NEW pc \in {"fetch", "payrun"}, Goes(w, pc), UNCHANGED <<claim, doc>>,
             payRun' \in {"none", "draft", "posted"}
      PROVE  Inv'
  <2>1. PICK new : new = [e EXCEPT !.pc = pc]
    OBVIOUS
  <2>2. worker' = [worker EXCEPT ![w] = new]
    BY <1>6, <2>1 DEF Goes
  <2>3. /\ new \in Execution /\ new.pc = pc /\ new.run = e.run
        /\ new.results = e.results /\ new.read = e.read
    BY <1>2, <2>1 DEF Execution, Calls
  <2>4. ListFits(new)
    BY <2>3 DEF ListFits
  <2>5. ASSUME Undisturbed PROVE Sound(new)' /\ SheetsApart' /\ ReportedHolds'
    <3>1. Sound(e)
      BY <1>1, <2>5, AtCall
    <3>2. Sound(new)'
      BY <1>1, <1>3, <1>6, <2>3, <3>1 DEF Sound, PerStaff
    <3> QED BY <1>3, <1>6, <2>5, <3>2, ShapeKeeps
  <2> QED BY <1>1, <1>3, <1>6, <2>2, <2>3, <2>4, <2>5, GoesOn, ShapeKeeps
<1> QED BY <1>4, <1>5, <1>6, ShapeKeeps

\* create_pay_run reads what it created.
LEMMA StepReadPayRun ==
    ASSUME Inv, NEW w \in Workers, ReadPayRun(w)
    PROVE  Inv'
<1> DEFINE e == worker[w]
<1>1. e.pc = "payrun" /\ e.pc \notin {"idle", "begin"}
  BY DEF ReadPayRun
<1>2. e \in Execution
  BY <1>1, AtCall
<1>3. UNCHANGED <<recorded, claim, doc, request, queue, leave, sheets, payRun>> /\ limits' = limits
  BY DEF ReadPayRun, serverVars, xeroVars
<1>4. PICK new : new = [e EXCEPT !.pc = "fetch"]
  OBVIOUS
<1>5. worker' = [worker EXCEPT ![w] = new]
  BY <1>4 DEF ReadPayRun, Goes
<1>6. /\ new \in Execution /\ new.pc = "fetch" /\ new.run = e.run
      /\ new.results = e.results /\ new.read = e.read
  BY <1>2, <1>4 DEF Execution, Calls
<1>7. ListFits(new)
  BY <1>6 DEF ListFits
<1>8. ASSUME Undisturbed PROVE Sound(new)' /\ SheetsApart' /\ ReportedHolds'
  <2>1. Sound(e)
    BY <1>1, <1>8, AtCall
  <2>2. Sound(new)'
    BY <1>1, <1>3, <1>6, <2>1 DEF Sound, PerStaff
  <2> QED BY <1>3, <1>8, <2>2, ShapeKeeps
<1> QED BY <1>1, <1>3, <1>5, <1>6, <1>7, <1>8, GoesOn, ShapeKeeps

\* existing_timesheets_for_week: each sheet there is becomes the one that is known.
LEMMA StepFetchSheets ==
    ASSUME Inv, NEW w \in Workers, FetchSheets(w)
    PROVE  Inv'
<1> DEFINE e == worker[w]
<1>1. e.pc = "fetch" /\ e.pc \notin {"idle", "begin"}
  BY DEF FetchSheets
<1>2. e \in Execution
  BY <1>1, AtCall
<1>3. UNCHANGED <<recorded, request, queue, leave, sheets, payRun>> /\ limits' = limits
  BY DEF FetchSheets, xeroVars
<1>4. PICK found : found = [s \in Staff |-> IF sheets[s] = {} THEN NoSheet ELSE CHOOSE x \in sheets[s] : TRUE]
  OBVIOUS
<1>5. \/ Abort(w)
      \/ worker' = [worker EXCEPT ![w].pc = "compare", ![w].todo = Staff, ![w].sheet = found]
         /\ UNCHANGED <<claim, doc>>
  BY <1>4 DEF FetchSheets
<1>6. CASE Abort(w)
  BY <1>1, <1>3, <1>6, AbortKeeps, ShapeKeeps
<1>7. CASE worker' = [worker EXCEPT ![w].pc = "compare", ![w].todo = Staff, ![w].sheet = found]
           /\ UNCHANGED <<claim, doc>>
  <2>1. PICK new : new = [e EXCEPT !.pc = "compare", !.todo = Staff, !.sheet = found]
    OBVIOUS
  <2>2. worker' = [worker EXCEPT ![w] = new]
    BY <1>7, <2>1
  <2>3. \A s \in Staff : sheets[s] \subseteq Sheet /\ (sheets[s] # {} => found[s] \in sheets[s])
    BY <1>4 DEF Inv, Shape, TypeOK
  <2>4. found \in [Staff -> Sheet \cup {NoSheet}]
    <3>1. \A s \in Staff : found[s] \in Sheet \cup {NoSheet}
      BY <1>4, <2>3
    <3> HIDE DEF Sheet
    <3> QED BY <1>4, <3>1
  <2>5. /\ new \in Execution /\ new.pc = "compare" /\ new.run = e.run /\ new.todo = Staff
        /\ new.results = e.results /\ new.read = e.read /\ new.sheet = found
    <3> HIDE DEF Sheet
    <3> QED BY <1>2, <2>1, <2>4 DEF Execution, Calls
  <2>6. ListFits(new)
    BY <2>5, PayrollAssumption DEF ListFits
  <2>7. ASSUME Undisturbed PROVE Sound(new)' /\ SheetsApart' /\ ReportedHolds'
    <3>1. Sound(e) /\ SheetsApart
      BY <1>1, <2>7, AtCall
    <3>2. \A s \in Staff : AsFound(new, s)
      <4> SUFFICES ASSUME NEW s \in Staff PROVE AsFound(new, s)
        OBVIOUS
      <4>1. CASE sheets[s] = {}
        BY <1>4, <2>5, <4>1 DEF AsFound
      <4>2. CASE sheets[s] # {}
        <5>1. found[s] \in sheets[s] /\ found[s] # NoSheet
          BY <2>3, <4>2, SheetAssumption
        <5>2. sheets[s] = {found[s]}
          BY <3>1, <5>1 DEF SheetsApart
        <5> QED BY <2>5, <5>1, <5>2 DEF AsFound, SameSheet
      <4> QED BY <4>1, <4>2
    <3>3. \A s \in Staff : new.results[s] = Pending /\ AsFound(new, s)'
      BY <1>1, <1>3, <2>5, <3>1, <3>2, OutcomesAre DEF Sound, AsFound
    <3>4. Sound(new)'
      BY <1>1, <1>3, <1>7, <2>5, <3>1, <3>3 DEF Sound, PerStaff
    <3> QED BY <1>3, <1>7, <2>7, <3>4, ShapeKeeps
  <2> QED BY <1>1, <1>3, <1>7, <2>2, <2>5, <2>6, <2>7, GoesOn, ShapeKeeps
<1> QED BY <1>5, <1>6, <1>7

-----------------------------------------------------------------------------
(* One staff member.                                                       *)

\* The decision is right for a sheet that is as it was found.
LEMMA NextCallFits ==
    ASSUME NEW w \in Workers, NEW s \in Staff, worker[w] \in Execution, AsFound(worker[w], s)
    PROVE  LET found == worker[w].sheet[s] IN
           /\ NextCall(w, s) \in {"report", "create", "approve", "revert", "delete", "failed"}
           /\ NextCall(w, s) = "report" =>
                 IF s \in Salaried THEN sheets[s] = {}
                 ELSE \E x \in sheets[s] : x.status \in {"approved", "paid"} /\ x.work = worker[w].read[s].work
           /\ NextCall(w, s) = "create" => s \notin Salaried /\ sheets[s] = {}
           /\ NextCall(w, s) = "approve" => /\ s \notin Salaried /\ sheets[s] = {found}
                                            /\ found.work = worker[w].read[s].work
                                            /\ found.status = "draft"
           /\ NextCall(w, s) = "delete" => \E x \in sheets[s] : sheets[s] = {x} /\ x.id = found.id
<1> DEFINE found == worker[w].sheet[s]
<1>1. CASE found = NoSheet
  <2>1. ~AlreadyPosted(w, s) /\ ~NotYetApproved(w, s)
    BY <1>1 DEF AlreadyPosted, NotYetApproved, StillThere
  <2>2. NextCall(w, s) = IF s \in Salaried THEN "report" ELSE "create"
    BY <1>1, <2>1 DEF NextCall
  <2> QED BY <1>1, <2>2 DEF AsFound
<1>2. CASE found # NoSheet
  <2>1. found \in Sheet
    BY <1>2, ExecutionFields
  <2>2. PICK x \in sheets[s] : sheets[s] = {x} /\ SameSheet(found, x)
    BY <1>2 DEF AsFound
  <2>3. x.id = found.id /\ x.work = found.work /\ (x = found \/ (found.status = "approved" /\ x.status = "paid"))
    BY <2>1, <2>2 DEF SameSheet, Sheet
  <2>4. FirstOfDelete(found) \in {"revert", "delete", "failed"}
    BY DEF FirstOfDelete
  <2>5. CASE s \notin Salaried /\ AlreadyPosted(w, s)
    <3>1. NextCall(w, s) = "report"
      <4>1. ~NotYetApproved(w, s)
        BY <2>5 DEF AlreadyPosted, NotYetApproved
      <4> QED BY <1>2, <2>5, <4>1 DEF NextCall
    <3>2. found.status = "approved" /\ x.work = worker[w].read[s].work
      BY <2>2, <2>5 DEF AlreadyPosted, StillThere
    <3> QED BY <2>2, <2>3, <2>5, <3>1, <3>2
  <2>6. CASE ~(s \notin Salaried /\ AlreadyPosted(w, s)) /\ s \notin Salaried /\ NotYetApproved(w, s)
    <3>1. NextCall(w, s) = "approve"
      BY <1>2, <2>6 DEF NextCall
    <3>2. found.status = "draft" /\ x.work = worker[w].read[s].work
      BY <2>2, <2>6 DEF NotYetApproved, StillThere
    <3>3. x = found
      BY <2>3, <3>2
    <3> QED BY <2>2, <2>6, <3>1, <3>2, <3>3
  <2>7. CASE /\ ~(s \notin Salaried /\ AlreadyPosted(w, s))
             /\ ~(s \notin Salaried /\ NotYetApproved(w, s))
    <3>1. NextCall(w, s) = FirstOfDelete(found)
      BY <1>2, <2>7 DEF NextCall
    <3> QED BY <2>2, <2>3, <2>4, <3>1
  <2> QED BY <2>5, <2>6, <2>7
<1> QED BY <1>1, <1>2

LEMMA StepCompare ==
    ASSUME Inv, NEW w \in Workers, Compare(w)
    PROVE  Inv'
<1> DEFINE e == worker[w]
<1>1. e.pc = "compare" /\ e.pc \notin {"idle", "begin"}
  BY DEF Compare
<1>2. e \in Execution /\ e.todo \subseteq Staff /\ e.todo # {} /\ e.read \in [Staff -> Week]
  BY <1>1, AtCall, ExecutionFields DEF ListFits
<1>3. PICK s \in e.todo : s = First(e.todo)
  BY <1>2 DEF First
<1>4. s \in Staff /\ e.read[s] \in Week
  BY <1>2, <1>3
<1>5. UNCHANGED <<recorded, claim, doc, request, queue, leave, sheets, payRun>>
  BY DEF Compare, serverVars, xeroVars
<1>6. PICK fails \in BOOLEAN :
          /\ IF fails THEN e.sheet[s] # NoSheet /\ Trouble("fault") ELSE UNCHANGED limits
          /\ LET lost == e.sheet[s] # NoSheet /\ s \notin Salaried /\ StillThere(w, s) = {}
                 failed == fails \/ lost \/ NextCall(w, s) = "failed"
             IN worker' = [worker EXCEPT ![w].todo = @ \ {s}, ![w].at = s,
                 ![w].pc = IF failed THEN "report" ELSE NextCall(w, s),
                 ![w].result = IF failed THEN Failed ELSE Posted(e.read[s])]
  BY <1>3 DEF Compare
<1>7. limits' = limits \/ Trouble("fault")
  BY <1>6
<1>8. PICK failed \in BOOLEAN :
          /\ NextCall(w, s) = "failed" => failed
          /\ worker' = [worker EXCEPT ![w].todo = @ \ {s}, ![w].at = s,
                 ![w].pc = IF failed THEN "report" ELSE NextCall(w, s),
                 ![w].result = IF failed THEN Failed ELSE Posted(e.read[s])]
  <2>1. (fails \/ (e.sheet[s] # NoSheet /\ s \notin Salaried /\ StillThere(w, s) = {}) \/ NextCall(w, s) = "failed") \in BOOLEAN
    OBVIOUS
  <2> QED BY <1>6, <2>1
<1>9. PICK pc : pc = IF failed THEN "report" ELSE NextCall(w, s)
  OBVIOUS
<1>10. PICK result : result = IF failed THEN Failed ELSE Posted(e.read[s])
  OBVIOUS
<1>11. pc \in PerStaff /\ result \in Outcomes
  <2>1. NextCall(w, s) \in {"report", "create", "approve", "revert", "delete", "failed"}
    BY DEF NextCall, FirstOfDelete
  <2> QED BY <1>4, <1>8, <1>9, <1>10, <2>1, OutcomesAre DEF PerStaff
<1>12. PICK new : new = [e EXCEPT !.todo = e.todo \ {s}, !.at = s, !.pc = pc, !.result = result]
  OBVIOUS
<1>13. worker' = [worker EXCEPT ![w] = new]
  BY <1>8, <1>9, <1>10, <1>12
<1>14. /\ new \in Execution /\ new.pc = pc /\ new.run = e.run /\ new.todo = e.todo \ {s}
       /\ new.at = s /\ new.result = result /\ new.results = e.results /\ new.read = e.read /\ new.sheet = e.sheet
  <2>1. pc \in Calls
    BY <1>11 DEF PerStaff, Calls
  <2> HIDE DEF Sheet
  <2> QED BY <1>2, <1>4, <1>11, <1>12, <2>1 DEF Execution
<1>15. ListFits(new) /\ new.pc # "begin"
  BY <1>11, <1>14 DEF ListFits, PerStaff
<1>16. ASSUME Undisturbed PROVE Sound(new)' /\ SheetsApart' /\ ReportedHolds'
  <2>1. Sound(e)
    BY <1>1, <1>16, AtCall
  <2>2. \A t \in e.todo : e.results[t] = Pending /\ AsFound(e, t)
    BY <1>1, <2>1 DEF Sound
  <2>3. \A t \in Staff : leave[t] = e.read[t].leave
    BY <1>1, <2>1 DEF Sound
  <2>4. \A t \in new.todo : new.results[t] = Pending /\ AsFound(new, t)'
    BY <1>5, <1>14, <2>2 DEF AsFound
  <2>5. new.at \notin new.todo /\ new.results[new.at] = Pending
    BY <1>14, <2>2
  <2>6. new.result = Posted(new.read[new.at]) \/ (new.pc = "report" /\ new.result = Failed)
    BY <1>9, <1>10, <1>14
  <2>7. AtSheet(new)'
    <3>1. CASE failed
      BY <1>9, <1>10, <1>14, <3>1 DEF AtSheet
    <3>2. CASE ~failed
      <4>1. AsFound(e, s) /\ pc = NextCall(w, s)
        BY <1>9, <2>2, <3>2
      <4>2. AtSheet(new)
        BY <1>2, <1>4, <1>11, <1>14, <2>3, <4>1, NextCallFits DEF AtSheet, PerStaff, AsFound, Pays
      <4> QED BY <1>5, <4>2 DEF AtSheet, AsFound, Pays
    <3> QED BY <3>1, <3>2
  <2>8. new.pc \in PerStaff /\ new.pc \notin {"preflight", "leave", "payrun", "fetch", "mirror"}
    BY <1>11, <1>14 DEF PerStaff
  <2>9. Sound(new)'
    BY <1>1, <1>5, <1>14, <2>1, <2>3, <2>4, <2>5, <2>6, <2>7, <2>8 DEF Sound
  <2> QED BY <1>5, <1>16, <2>9, ShapeKeeps
<1> QED BY <1>1, <1>5, <1>7, <1>13, <1>14, <1>15, <1>16, GoesOn, ShapeKeeps

\* A call for one staff member touches that member's sheets alone.
LEMMA OneStaffKeeps ==
    ASSUME Inv, NEW w \in Workers, worker[w].pc \in {"revert", "delete", "create", "approve"},
           NEW new, worker' = [worker EXCEPT ![w] = new], new \in Execution, new.run = worker[w].run,
           new.pc \in PerStaff, new.todo = worker[w].todo, new.at = worker[w].at,
           new.read = worker[w].read, new.results = worker[w].results,
           \A t \in Staff \ {new.at} : new.sheet[t] = worker[w].sheet[t] /\ sheets'[t] = sheets[t],
           UNCHANGED <<recorded, serverVars, leave, payRun>>,
           limits' = limits \/ Trouble("fault"),
           sheets' \in [Staff -> SUBSET Sheet], IsFiniteSet(sheets'[new.at]),
           Undisturbed => /\ \A x, y \in sheets'[new.at] : x = y
                          /\ new.result = Posted(new.read[new.at]) \/ (new.pc = "report" /\ new.result = Failed)
                          /\ AtSheet(new)'
    PROVE  Inv'
<1> DEFINE e == worker[w]
<1>1. e.pc \notin {"idle", "begin"} /\ e.pc \in PerStaff
  BY DEF PerStaff
<1>2. e \in Execution /\ e.at \in Staff /\ e.todo \subseteq Staff
  BY <1>1, AtCall, ExecutionFields
<1>3. UNCHANGED <<recorded, claim, doc, request, queue, leave, payRun>>
  BY DEF serverVars
<1>4. ListFits(new) /\ new.pc \notin {"begin", "preflight", "leave", "payrun", "fetch", "mirror"}
  BY DEF ListFits, PerStaff
<1>5. \A t \in Staff : IsFiniteSet(sheets'[t])
  BY DEF Inv, Shape
<1>6. ASSUME Undisturbed PROVE Sound(new)' /\ SheetsApart' /\ ReportedHolds'
  <2>1. Sound(e) /\ SheetsApart /\ ReportedHolds
    BY <1>1, <1>6, AtCall
  <2>2. \A t \in e.todo : e.results[t] = Pending /\ AsFound(e, t)
    BY <1>1, <2>1 DEF Sound
  <2>3. e.at \notin e.todo /\ e.results[e.at] = Pending
    BY <1>1, <2>1 DEF Sound
  <2>4. \A t \in new.todo : new.results[t] = Pending /\ AsFound(new, t)'
    BY <1>2, <2>2, <2>3 DEF AsFound
  <2>5. \A t \in Staff : leave'[t] = new.read[t].leave
    BY <1>1, <1>3, <2>1 DEF Sound
  <2>6. Sound(new)'
    BY <1>1, <1>3, <1>4, <1>6, <2>1, <2>3, <2>4, <2>5 DEF Sound, PerStaff
  <2>7. SheetsApart'
    BY <1>2, <1>6, <2>1 DEF SheetsApart
  <2>8. ReportedHolds'
    <3> SUFFICES ASSUME NEW t \in Staff, doc.results[t].state = "posted"
                 PROVE  Pays(t, doc.results[t].week)'
      BY <1>3 DEF ReportedHolds
    <3>1. t # e.at
      BY <2>1, <2>3, OutcomesAre DEF Sound
    <3> QED BY <1>3, <2>1, <3>1 DEF ReportedHolds, Pays
  <2> QED BY <2>6, <2>7, <2>8
<1> QED BY <1>1, <1>3, <1>4, <1>5, <1>6, GoesOn, ShapeKeeps

\* A call for one staff member that is refused or fails: the result says so, and
\* the sheets are as the call left them.
LEMMA StaffFailsKeeps ==
    ASSUME Inv, NEW w \in Workers, worker[w].pc \in {"revert", "delete", "create", "approve"},
           StaffFails(w), NEW S \in SUBSET Sheet, IsFiniteSet(S), Undisturbed => \A x, y \in S : x = y,
           sheets' = [sheets EXCEPT ![worker[w].at] = S],
           UNCHANGED <<recorded, serverVars, leave, payRun>>,
           limits' = limits \/ Trouble("fault")
    PROVE  Inv'
<1> DEFINE e == worker[w]
<1>1. e \in Execution /\ e.at \in Staff
  BY AtCall, ExecutionFields
<1>2. PICK new : new = [e EXCEPT !.pc = "report", !.result = Failed]
  OBVIOUS
<1>3. worker' = [worker EXCEPT ![w] = new]
  BY <1>2 DEF StaffFails
<1>4. /\ new \in Execution /\ new.pc = "report" /\ new.run = e.run /\ new.todo = e.todo /\ new.at = e.at
      /\ new.result = Failed /\ new.results = e.results /\ new.read = e.read /\ new.sheet = e.sheet
  <2> HIDE DEF Sheet
  <2> QED BY <1>1, <1>2, OutcomesAre DEF Execution, Calls
<1>5. sheets \in [Staff -> SUBSET Sheet]
  BY DEF Inv, Shape, TypeOK
<1>6. sheets' \in [Staff -> SUBSET Sheet] /\ sheets'[e.at] = S /\ \A t \in Staff \ {e.at} : sheets'[t] = sheets[t]
  BY <1>1, <1>5
<1>7. AtSheet(new)' /\ new.pc \in PerStaff
  BY <1>4 DEF AtSheet, PerStaff
<1>8. /\ \A t \in Staff \ {new.at} : new.sheet[t] = worker[w].sheet[t] /\ sheets'[t] = sheets[t]
      /\ IsFiniteSet(sheets'[new.at])
      /\ Undisturbed => \A x, y \in sheets'[new.at] : x = y
      /\ new.pc = "report" /\ new.result = Failed
  BY <1>4, <1>6
<1> HIDE DEF e
<1> QED BY <1>3, <1>4, <1>6, <1>7, <1>8, OneStaffKeeps DEF e

\* new is w's execution, at its next call.
Onward(w, new, next) == new = [worker[w] EXCEPT !.pc = next]

\* A call that takes effect, and whose answer arrives or is lost.
Accepted(w, S, next) ==
    /\ sheets' = [sheets EXCEPT ![worker[w].at] = S]
    /\ (Goes(w, next) /\ UNCHANGED limits) \/ (StaffFails(w) /\ Trouble("fault"))

\* A call that Xero refuses, or that never arrives.
NotAccepted(w) ==
    /\ StaffFails(w) /\ UNCHANGED sheets
    /\ UNCHANGED limits \/ Trouble("fault")

\* A call that is not taken leaves the sheets as they are.
LEMMA NotTakenKeeps ==
    ASSUME Inv, NEW w \in Workers, worker[w].pc \in {"revert", "delete", "create", "approve"},
           NotAccepted(w), UNCHANGED <<recorded, serverVars, leave, payRun>>
    PROVE  Inv'
<1> DEFINE e == worker[w]
<1>1. e.pc \notin {"idle", "begin"} /\ e.at \in Staff
  BY AtCall, ExecutionFields
<1>2. sheets \in [Staff -> SUBSET Sheet] /\ \A t \in Staff : IsFiniteSet(sheets[t])
  BY DEF Inv, Shape, TypeOK
<1>3. sheets' = [sheets EXCEPT ![e.at] = sheets[e.at]] /\ sheets[e.at] \in SUBSET Sheet /\ IsFiniteSet(sheets[e.at])
  BY <1>1, <1>2 DEF NotAccepted
<1>4. Undisturbed => \A x, y \in sheets[e.at] : x = y
  BY <1>1, AtCall DEF SheetsApart
<1>5. PICK S \in SUBSET Sheet : S = sheets[e.at]
  BY <1>3
<1>6. sheets' = [sheets EXCEPT ![e.at] = S] /\ IsFiniteSet(S) /\ (Undisturbed => \A x, y \in S : x = y)
  BY <1>3, <1>4, <1>5
<1> QED BY <1>6, StaffFailsKeeps DEF NotAccepted

\* Revert, delete or approve: taken, taken with its answer lost, or not taken.
LEMMA CallKeeps ==
    ASSUME Inv, NEW w \in Workers, worker[w].pc \in {"revert", "delete", "approve"},
           NEW next \in PerStaff, NEW S \in SUBSET Sheet, IsFiniteSet(S),
           Undisturbed => \A x, y \in S : x = y,
           Accepted(w, S, next) \/ NotAccepted(w),
           UNCHANGED <<recorded, serverVars, leave, payRun>>,
           NEW new, Onward(w, new, next),
           Undisturbed /\ leave' = leave /\ sheets'[new.at] = S => AtSheet(new)'
    PROVE  Inv'
<1> DEFINE e == worker[w]
<1>1. e.pc \notin {"idle", "begin"} /\ e.pc \in PerStaff /\ e.pc # "report"
  BY DEF PerStaff
<1>2. e \in Execution /\ e.at \in Staff
  BY <1>1, AtCall, ExecutionFields
<1>3. sheets \in [Staff -> SUBSET Sheet] /\ \A t \in Staff : IsFiniteSet(sheets[t])
  BY DEF Inv, Shape, TypeOK
<1>4. CASE NotAccepted(w)
  BY <1>4, NotTakenKeeps
<1>5. CASE sheets' = [sheets EXCEPT ![e.at] = S] /\ StaffFails(w) /\ Trouble("fault")
  BY <1>5, StaffFailsKeeps
<1>6. CASE sheets' = [sheets EXCEPT ![e.at] = S] /\ Goes(w, next) /\ UNCHANGED limits
  <2>1. worker' = [worker EXCEPT ![w] = new]
    BY <1>6 DEF Goes, Onward
  <2>2. /\ new \in Execution /\ new.pc = next /\ new.run = e.run /\ new.todo = e.todo /\ new.at = e.at
        /\ new.result = e.result /\ new.results = e.results /\ new.read = e.read /\ new.sheet = e.sheet
    <3>1. next \in Calls
      BY DEF PerStaff, Calls
    <3> HIDE DEF Sheet
    <3> QED BY <1>2, <3>1 DEF Execution, Onward
  <2>3. sheets' \in [Staff -> SUBSET Sheet] /\ sheets'[e.at] = S /\ \A t \in Staff \ {e.at} : sheets'[t] = sheets[t]
    BY <1>2, <1>3, <1>6
  <2>4. Undisturbed => e.result = Posted(e.read[e.at])
    BY <1>1, AtCall DEF Sound
  <2>5. /\ \A t \in Staff \ {new.at} : new.sheet[t] = worker[w].sheet[t] /\ sheets'[t] = sheets[t]
        /\ IsFiniteSet(sheets'[new.at])
        /\ Undisturbed => \A x, y \in sheets'[new.at] : x = y
        /\ Undisturbed => new.result = Posted(new.read[new.at])
        /\ Undisturbed => AtSheet(new)'
    BY <2>2, <2>3, <2>4 DEF serverVars
  <2>6. limits' = limits /\ new.pc \in PerStaff
    BY <1>6, <2>2
  <2> QED BY <2>1, <2>2, <2>3, <2>5, <2>6, OneStaffKeeps
<1> QED BY <1>4, <1>5, <1>6 DEF Accepted

LEMMA BecomeIs ==
    ASSUME NEW T \in SUBSET Sheet, IsFiniteSet(T), NEW status \in {"draft", "approved", "paid"}
    PROVE  Become(T, status) \in SUBSET Sheet /\ IsFiniteSet(Become(T, status))
<1>1. Become(T, status) \in SUBSET Sheet
  BY DEF Become, Sheet
<1>2. PICK f : f = [x \in T |-> [x EXCEPT !.status = status]]
  OBVIOUS
<1>3. f \in Surjection(T, Become(T, status))
  BY <1>2 DEF Surjection, Become
<1> QED BY <1>1, <1>3, FS_Surjection DEF ExistsSurjection

LEMMA SheetsOf ==
    ASSUME Inv, NEW s \in Staff, NEW T \in SUBSET sheets[s], NEW status \in {"draft", "approved", "paid"}
    PROVE  /\ sheets[s] \in SUBSET Sheet /\ IsFiniteSet(sheets[s])
           /\ sheets[s] \ T \in SUBSET Sheet /\ IsFiniteSet(sheets[s] \ T)
           /\ (sheets[s] \ T) \cup Become(T, status) \in SUBSET Sheet
           /\ IsFiniteSet((sheets[s] \ T) \cup Become(T, status))
<1>1. sheets[s] \in SUBSET Sheet /\ IsFiniteSet(sheets[s])
  BY DEF Inv, Shape, TypeOK
<1>2. T \in SUBSET Sheet /\ IsFiniteSet(T) /\ IsFiniteSet(sheets[s] \ T)
  BY <1>1, FS_Subset
<1>3. Become(T, status) \in SUBSET Sheet /\ IsFiniteSet(Become(T, status))
  BY <1>2, BecomeIs
<1> QED BY <1>1, <1>2, <1>3, FS_Union

\* The sheet found is set back to draft.
LEMMA StepRevert ==
    ASSUME Inv, NEW w \in Workers, Revert(w)
    PROVE  Inv'
<1> DEFINE e == worker[w]
           it == StillThere(w, e.at)
<1>1. e.pc = "revert" /\ e.pc \notin {"idle", "begin"}
  BY DEF Revert, Call
<1>2. e \in Execution /\ e.at \in Staff
  BY <1>1, AtCall, ExecutionFields
<1>3. UNCHANGED <<recorded, serverVars, leave, payRun>>
  BY DEF Revert, Call
<1>4. PICK S : S = (sheets[e.at] \ it) \cup Become(it, "draft")
  OBVIOUS
<1>5. \/ it # {} /\ Accepted(w, S, "delete")
      \/ NotAccepted(w)
  BY <1>4 DEF Revert, Call, Accepted, NotAccepted
<1>6. S \in SUBSET Sheet /\ IsFiniteSet(S)
  <2>1. it \in SUBSET sheets[e.at]
    BY DEF StillThere
  <2> QED BY <1>2, <1>4, <2>1, SheetsOf
<1>7. CASE it = {}
  BY <1>1, <1>3, <1>5, <1>7, NotTakenKeeps
<1>8. CASE it # {}
  <2>1. ASSUME Undisturbed
        PROVE  \E y \in S : S = {y} /\ y.id = e.sheet[e.at].id
    <3>1. Sound(e)
      BY <1>1, <2>1, AtCall
    <3>2. AsFound(e, e.at)
      BY <1>1, <3>1 DEF Sound, AtSheet, PerStaff
    <3>3. PICK x \in it : sheets[e.at] = {x} /\ x.id = e.sheet[e.at].id
      BY <1>8, <3>2 DEF AsFound, StillThere
    <3>4. it = {x}
      BY <3>3 DEF StillThere
    <3>5. S = {[x EXCEPT !.status = "draft"]}
      BY <1>4, <3>3, <3>4 DEF Become
    <3>6. x \in Sheet
      BY <1>2, <3>3 DEF Inv, Shape, TypeOK
    <3>7. [x EXCEPT !.status = "draft"].id = x.id
      BY <3>6 DEF Sheet
    <3> QED BY <3>3, <3>5, <3>7
  <2>2. PICK new : Onward(w, new, "delete")
    BY DEF Onward
  <2>3. new.pc = "delete" /\ new.at = e.at /\ new.sheet = e.sheet
    BY <1>2, <2>2 DEF Execution, Onward
  <2>4. Undisturbed /\ leave' = leave /\ sheets'[new.at] = S => AtSheet(new)'
    BY <2>1, <2>3 DEF AtSheet
  <2>5. "delete" \in PerStaff
    BY DEF PerStaff
  <2>6. Undisturbed => \A x, y \in S : x = y
    BY <2>1
  <2>7. Accepted(w, S, "delete") \/ NotAccepted(w)
    BY <1>5
  <2> HIDE DEF it
  <2> QED BY <1>1, <1>3, <1>6, <2>2, <2>4, <2>5, <2>6, <2>7, CallKeeps
<1> QED BY <1>7, <1>8

\* The sheet is deleted; a salary is done with that.
LEMMA StepDelete ==
    ASSUME Inv, NEW w \in Workers, Delete(w)
    PROVE  Inv'
<1> DEFINE e == worker[w]
           it == StillThere(w, e.at)
<1>1. e.pc = "delete" /\ e.pc \notin {"idle", "begin"}
  BY DEF Delete, Call
<1>2. e \in Execution /\ e.at \in Staff
  BY <1>1, AtCall, ExecutionFields
<1>3. UNCHANGED <<recorded, serverVars, leave, payRun>>
  BY DEF Delete, Call
<1>4. PICK S : S = sheets[e.at] \ it
  OBVIOUS
<1>5. PICK next : next = IF e.at \in Salaried THEN "report" ELSE "create"
  OBVIOUS
<1>6. \/ it # {} /\ Accepted(w, S, next)
      \/ NotAccepted(w)
  BY <1>4, <1>5 DEF Delete, Call, Accepted, NotAccepted
<1>7. S \in SUBSET Sheet /\ IsFiniteSet(S)
  <2>1. it \in SUBSET sheets[e.at]
    BY DEF StillThere
  <2> QED BY <1>2, <1>4, <2>1, SheetsOf
<1>8. CASE it = {}
  BY <1>1, <1>3, <1>6, <1>8, NotTakenKeeps
<1>9. CASE it # {}
  <2>1. ASSUME Undisturbed PROVE S = {} /\ leave[e.at] = e.read[e.at].leave
    <3>1. Sound(e)
      BY <1>1, <2>1, AtCall
    <3>2. PICK x \in sheets[e.at] : sheets[e.at] = {x}
      BY <1>1, <3>1 DEF Sound, AtSheet, PerStaff
    <3>3. it = {x}
      BY <1>9, <3>2 DEF StillThere
    <3> QED BY <1>1, <1>2, <1>4, <3>1, <3>2, <3>3 DEF Sound, PerStaff
  <2>2. PICK new : Onward(w, new, next)
    BY DEF Onward
  <2>3. new.pc = next /\ new.at = e.at /\ new.read = e.read
    BY <1>2, <2>2 DEF Execution, Onward
  <2>4. Undisturbed /\ leave' = leave /\ sheets'[new.at] = S => AtSheet(new)'
    BY <1>5, <2>1, <2>3 DEF AtSheet, Pays
  <2>5. next \in PerStaff
    BY <1>5 DEF PerStaff
  <2>6. Undisturbed => \A x, y \in S : x = y
    BY <2>1
  <2>7. Accepted(w, S, next) \/ NotAccepted(w)
    BY <1>6
  <2> HIDE DEF it
  <2> QED BY <1>1, <1>3, <1>7, <2>2, <2>4, <2>5, <2>6, <2>7, CallKeeps
<1> QED BY <1>8, <1>9

\* The new sheet, or the one found as a draft, is approved.
LEMMA StepApprove ==
    ASSUME Inv, NEW w \in Workers, Approve(w)
    PROVE  Inv'
<1> DEFINE e == worker[w]
           it == StillThere(w, e.at)
<1>1. e.pc = "approve" /\ e.pc \notin {"idle", "begin"}
  BY DEF Approve, Call
<1>2. e \in Execution /\ e.at \in Staff
  BY <1>1, AtCall, ExecutionFields
<1>3. UNCHANGED <<recorded, serverVars, leave, payRun>>
  BY DEF Approve, Call
<1>4. PICK S : S = (sheets[e.at] \ it) \cup Become(it, "approved")
  OBVIOUS
<1>5. \/ it # {} /\ Accepted(w, S, "report")
      \/ NotAccepted(w)
  BY <1>4 DEF Approve, Call, Accepted, NotAccepted
<1>6. S \in SUBSET Sheet /\ IsFiniteSet(S)
  <2>1. it \in SUBSET sheets[e.at]
    BY DEF StillThere
  <2> QED BY <1>2, <1>4, <2>1, SheetsOf
<1>7. CASE it = {}
  BY <1>1, <1>3, <1>5, <1>7, NotTakenKeeps
<1>8. CASE it # {}
  <2>1. ASSUME Undisturbed
        PROVE  /\ \E y \in S : S = {y} /\ y.status = "approved" /\ y.work = e.read[e.at].work
               /\ leave[e.at] = e.read[e.at].leave /\ e.at \notin Salaried
    <3>1. Sound(e)
      BY <1>1, <2>1, AtCall
    <3>2. PICK x : x = e.sheet[e.at]
      OBVIOUS
    <3>3. e.at \notin Salaried /\ sheets[e.at] = {x} /\ x.work = e.read[e.at].work
      BY <1>1, <3>1, <3>2 DEF Sound, AtSheet, PerStaff
    <3>4. it = {x}
      BY <1>8, <3>3 DEF StillThere
    <3>5. S = {[x EXCEPT !.status = "approved"]}
      BY <1>4, <3>3, <3>4 DEF Become
    <3>6. x \in Sheet
      BY <1>2, <3>3 DEF Inv, Shape, TypeOK
    <3>7. [x EXCEPT !.status = "approved"].work = x.work /\ [x EXCEPT !.status = "approved"].status = "approved"
      BY <3>6 DEF Sheet
    <3> QED BY <1>1, <1>2, <3>1, <3>3, <3>5, <3>7 DEF Sound, PerStaff
  <2>2. PICK new : Onward(w, new, "report")
    BY DEF Onward
  <2>3. new.pc = "report" /\ new.at = e.at /\ new.read = e.read
    BY <1>2, <2>2 DEF Execution, Onward
  <2>4. Undisturbed /\ leave' = leave /\ sheets'[new.at] = S => AtSheet(new)'
    BY <2>1, <2>3 DEF AtSheet, Pays
  <2>5. "report" \in PerStaff
    BY DEF PerStaff
  <2>6. Undisturbed => \A x, y \in S : x = y
    BY <2>1
  <2>7. Accepted(w, S, "report") \/ NotAccepted(w)
    BY <1>5
  <2> HIDE DEF it
  <2> QED BY <1>1, <1>3, <1>6, <2>2, <2>4, <2>5, <2>6, <2>7, CallKeeps
<1> QED BY <1>7, <1>8

\* Of one more number than a finite set has members, one is not in it.
LEMMA Fresh ==
    ASSUME NEW K, IsFiniteSet(K)
    PROVE  Cardinality(K) \in Nat /\ \E n \in 0..Cardinality(K) : n \notin K
<1>1. Cardinality(K) \in Nat
  BY FS_CardinalityType
<1>2. \E n \in 0..Cardinality(K) : n \notin K
  <2> SUFFICES ASSUME 0..Cardinality(K) \in SUBSET K PROVE FALSE
    OBVIOUS
  <2>1. Cardinality(0..Cardinality(K)) <= Cardinality(K)
    BY FS_Subset
  <2>2. Cardinality(0..Cardinality(K)) = Cardinality(K) + 1
    BY <1>1, FS_Interval
  <2> QED BY <1>1, <2>1, <2>2
<1> QED BY <1>1, <1>2

LEMMA NewIdIs ==
    ASSUME Inv, NEW s \in Staff
    PROVE  NewId(s) \in Nat
<1> DEFINE V == {u \in Workers : worker[u] # Idle /\ worker[u].sheet[s] # NoSheet}
           K == sheets[s] \cup {worker[v].sheet[s] : v \in V}
<1>1. IsFiniteSet(V)
  BY PayrollAssumption, FS_Subset
<1>2. IsFiniteSet({worker[v].sheet[s] : v \in V})
  <2>1. PICK f : f = [v \in V |-> worker[v].sheet[s]]
    OBVIOUS
  <2>2. f \in Surjection(V, {worker[v].sheet[s] : v \in V})
    BY <2>1 DEF Surjection
  <2> HIDE DEF V
  <2> QED BY <1>1, <2>2, FS_Surjection
<1>3. IsFiniteSet(K)
  <2>1. IsFiniteSet(sheets[s])
    BY DEF Inv, Shape
  <2> HIDE DEF V
  <2> QED BY <1>2, <2>1, FS_Union
<1>4. IsFiniteSet({x.id : x \in K})
  <2>1. PICK f : f = [x \in K |-> x.id]
    OBVIOUS
  <2>2. f \in Surjection(K, {x.id : x \in K})
    BY <2>1 DEF Surjection
  <2> HIDE DEF K
  <2> QED BY <1>3, <2>2, FS_Surjection
<1>5. PICK L : L = {x.id : x \in K}
  OBVIOUS
<1>6. NewId(s) = CHOOSE n \in 0..Cardinality(L) : n \notin L
  BY <1>5 DEF NewId
<1>7. Cardinality(L) \in Nat /\ \E n \in 0..Cardinality(L) : n \notin L
  <2> HIDE DEF K
  <2> QED BY <1>4, <1>5, Fresh
<1> HIDE DEF K
<1> QED BY <1>6, <1>7

\* The new sheet, in the place of the one that was there.
LEMMA StepCreate ==
    ASSUME Inv, NEW w \in Workers, Create(w)
    PROVE  Inv'
<1> DEFINE e == worker[w]
<1>1. e.pc = "create" /\ e.pc \notin {"idle", "begin"} /\ e.pc \in PerStaff
  BY DEF Create, PerStaff
<1>2. e \in Execution /\ e.at \in Staff /\ e.run \in Runs /\ e.read \in [Staff -> Week]
      /\ e.sheet \in [Staff -> Sheet \cup {NoSheet}]
  BY <1>1, AtCall, ExecutionFields
<1>3. UNCHANGED <<recorded, serverVars, leave, payRun>>
  BY DEF Create
<1>4. PICK x : x = [id |-> NewId(e.at), by |-> e.run, status |-> "draft", work |-> e.read[e.at].work]
  OBVIOUS
<1>5. x \in Sheet /\ x.work = e.read[e.at].work /\ x.status = "draft"
  <2>1. NewId(e.at) \in Nat
    BY <1>2, NewIdIs
  <2>2. e.read[e.at].work \in 0..1
    BY <1>2 DEF Week
  <2> QED BY <1>2, <1>4, <2>1, <2>2 DEF Sheet
<1>6. PICK S : S = sheets[e.at] \cup {x}
  OBVIOUS
<1>7. \/ /\ sheets' = [sheets EXCEPT ![e.at] = S] /\ UNCHANGED limits
         /\ worker' = [worker EXCEPT ![w].pc = "approve", ![w].sheet[e.at] = x]
      \/ /\ sheets' = [sheets EXCEPT ![e.at] = S]
         /\ StaffFails(w) /\ Trouble("fault")
      \/ NotAccepted(w)
  BY <1>4, <1>6 DEF Create, NotAccepted
<1>8. S \in SUBSET Sheet /\ IsFiniteSet(S) /\ sheets \in [Staff -> SUBSET Sheet]
  <2>1. sheets \in [Staff -> SUBSET Sheet] /\ sheets[e.at] \in SUBSET Sheet /\ IsFiniteSet(sheets[e.at])
    BY <1>2 DEF Inv, Shape, TypeOK
  <2>2. IsFiniteSet(S)
    BY <1>6, <2>1, FS_AddElement
  <2> QED BY <1>5, <1>6, <2>1, <2>2
<1>9. ASSUME Undisturbed
      PROVE  /\ S = {x} /\ e.at \notin Salaried /\ e.result = Posted(e.read[e.at])
  <2>1. Sound(e)
    BY <1>1, <1>9, AtCall
  <2> QED BY <1>1, <1>6, <2>1 DEF Sound, AtSheet
<1>10. CASE NotAccepted(w)
  BY <1>1, <1>3, <1>10, NotTakenKeeps
<1>11. CASE sheets' = [sheets EXCEPT ![e.at] = S] /\ StaffFails(w) /\ Trouble("fault")
  BY <1>1, <1>3, <1>8, <1>9, <1>11, StaffFailsKeeps
<1>12. CASE /\ sheets' = [sheets EXCEPT ![e.at] = S] /\ UNCHANGED limits
            /\ worker' = [worker EXCEPT ![w].pc = "approve", ![w].sheet[e.at] = x]
  <2>1. PICK known : known = [e.sheet EXCEPT ![e.at] = x]
    OBVIOUS
  <2>2. PICK new : new = [e EXCEPT !.pc = "approve", !.sheet = known]
    OBVIOUS
  <2>3. known \in [Staff -> Sheet \cup {NoSheet}] /\ known[e.at] = x /\ \A t \in Staff \ {e.at} : known[t] = e.sheet[t]
    BY <1>2, <1>5, <2>1
  <2>4. worker' = [worker EXCEPT ![w] = new]
    BY <1>12, <2>1, <2>2
  <2>5. /\ new \in Execution /\ new.pc = "approve" /\ new.run = e.run /\ new.todo = e.todo /\ new.at = e.at
        /\ new.result = e.result /\ new.results = e.results /\ new.read = e.read /\ new.sheet = known
    <3> HIDE DEF Sheet
    <3> QED BY <1>2, <2>2, <2>3 DEF Execution, Calls
  <2>6. sheets' \in [Staff -> SUBSET Sheet] /\ sheets'[e.at] = S /\ \A t \in Staff \ {e.at} : sheets'[t] = sheets[t]
    BY <1>2, <1>8, <1>12
  <2>7. Undisturbed => AtSheet(new)'
    BY <1>5, <1>9, <2>3, <2>5, <2>6 DEF AtSheet
  <2>8. /\ \A t \in Staff \ {new.at} : new.sheet[t] = worker[w].sheet[t] /\ sheets'[t] = sheets[t]
        /\ IsFiniteSet(sheets'[new.at])
        /\ Undisturbed => \A y, z \in sheets'[new.at] : y = z
        /\ Undisturbed => new.result = Posted(new.read[new.at])
        /\ new.pc \in PerStaff
    BY <1>8, <1>9, <2>3, <2>5, <2>6 DEF PerStaff
  <2> QED BY <1>1, <1>3, <1>12, <2>4, <2>5, <2>6, <2>7, <2>8, OneStaffKeeps
<1> QED BY <1>7, <1>10, <1>11, <1>12

\* The result is written under the claim, or the run ends without it.
LEMMA StepReport ==
    ASSUME Inv, NEW w \in Workers, Report(w)
    PROVE  Inv'
<1> DEFINE e == worker[w]
<1>1. e.pc = "report" /\ e.pc \notin {"idle", "begin"} /\ e.pc \in PerStaff
  BY DEF Report, PerStaff
<1>2. /\ e \in Execution /\ e.at \in Staff /\ e.run \in Runs /\ e.todo \subseteq Staff
      /\ e.sheet \in [Staff -> Sheet \cup {NoSheet}] /\ e.results \in Results /\ e.result \in Outcomes
      /\ e.read \in [Staff -> Week]
  BY <1>1, AtCall, ExecutionFields
<1>3. UNCHANGED <<recorded, request, queue, leave, sheets, payRun>> /\ limits' = limits
  BY DEF Report, xeroVars
<1>4. CASE claim # e.run
  <2>1. Abort(w)
    BY <1>4 DEF Report
  <2> QED BY <1>1, <1>3, <2>1, AbortKeeps, ShapeKeeps
<1>5. CASE claim = e.run
  <2>1. PICK results : results = [e.results EXCEPT ![e.at] = e.result]
    OBVIOUS
  <2>2. results \in Results /\ results[e.at] = e.result /\ \A t \in Staff \ {e.at} : results[t] = e.results[t]
    BY <1>2, <2>1 DEF Results
  <2>3. PICK known : known = [e.sheet EXCEPT ![e.at] = NoSheet]
    OBVIOUS
  <2>4. known \in [Staff -> Sheet \cup {NoSheet}] /\ \A t \in Staff \ {e.at} : known[t] = e.sheet[t]
    BY <1>2, <2>3
  <2>5. PICK pc \in {"close", "compare"} : pc = IF e.todo = {} THEN "close" ELSE "compare"
    OBVIOUS
  <2>6. PICK at \in Staff : at = First(Staff)
    BY PayrollAssumption DEF First
  <2>7. PICK new : new = [e EXCEPT !.results = results, !.result = Pending, !.sheet = known, !.at = at, !.pc = pc]
    OBVIOUS
  <2>8. worker' = [worker EXCEPT ![w] = new] /\ claim' = claim /\ doc' = Doc(e.run, "running", results)
    <3>1. /\ claim' = claim /\ doc' = Doc(e.run, "running", results)
          /\ worker' = [worker EXCEPT ![w].results = results, ![w].result = Pending,
                             ![w].sheet[e.at] = NoSheet, ![w].at = at, ![w].pc = pc]
      BY <1>5, <2>1, <2>5, <2>6 DEF Report, Reported
    <3>2. worker' = [worker EXCEPT ![w] = [worker[w] EXCEPT !.results = results, !.result = Pending,
                             !.sheet[e.at] = NoSheet, !.at = at, !.pc = pc]]
      BY <3>1
    <3>3. new = [worker[w] EXCEPT !.results = results, !.result = Pending,
                             !.sheet[e.at] = NoSheet, !.at = at, !.pc = pc]
      BY <2>3, <2>7
    <3> QED BY <3>1, <3>2, <3>3
  <2>9. /\ new \in Execution /\ new.pc = pc /\ new.run = e.run /\ new.todo = e.todo
        /\ new.results = results /\ new.read = e.read /\ new.sheet = known
    <3> HIDE DEF Sheet
    <3> QED BY <1>2, <2>2, <2>4, <2>7, OutcomesAre DEF Execution, Calls
  <2>10. doc' \in Document /\ doc'.run = e.run /\ doc'.status = "running" /\ doc'.results = results
    BY <1>2, <2>2, <2>8, DocIs
  <2>11. new # Idle /\ ListFits(new) /\ new.pc # "begin"
    BY <2>5, <2>9, ExecutionFields DEF ListFits
  <2>12. Moved(w, new)
    BY <1>2, <1>3, <2>8, <2>9, <2>10, <2>11, ShapeKeeps DEF Moved
  <2>13. ASSUME Undisturbed'
         PROVE  Sound(new)' /\ SheetsApart' /\ ReportedHolds' /\ \A v \in Workers \ {w} : ~Posting(v)
    <3>1. Undisturbed
      BY <2>12, <2>13, UndisturbedBefore DEF Moved
    <3>2. Sound(e) /\ ReportedHolds /\ SheetsApart /\ \A v \in Workers \ {w} : ~Posting(v)
      BY <1>1, <3>1, AtCall
    <3>3. \A t \in e.todo : e.results[t] = Pending /\ AsFound(e, t)
      BY <1>1, <3>2 DEF Sound
    <3>4. e.at \notin e.todo /\ (e.result = Failed \/ (e.result = Posted(e.read[e.at]) /\ Pays(e.at, e.read[e.at])))
      BY <1>1, <3>2 DEF Sound, AtSheet
    <3>5. \A t \in new.todo : new.results[t] = Pending /\ AsFound(new, t)'
      BY <1>2, <1>3, <2>2, <2>4, <2>9, <3>3, <3>4 DEF AsFound
    <3>6. \A t \in Staff : leave'[t] = new.read[t].leave
      BY <1>1, <1>3, <2>9, <3>2 DEF Sound
    <3>7. Sound(new)'
      BY <1>5, <2>5, <2>8, <2>9, <2>10, <3>5, <3>6 DEF Sound, PerStaff
    <3>8. ReportedHolds'
      <4> SUFFICES ASSUME NEW t \in Staff, results[t].state = "posted"
                   PROVE  Pays(t, results[t].week)'
        BY <2>10 DEF ReportedHolds
      <4>1. Pays(t, results[t].week)
        <5>1. CASE t = e.at
          BY <1>2, <2>2, <3>4, <5>1, OutcomesAre
        <5>2. CASE t # e.at
          BY <2>2, <3>2, <5>2 DEF ReportedHolds, Sound
        <5> QED BY <5>1, <5>2
      <4> QED BY <1>3, <4>1 DEF Pays
    <3> QED BY <1>3, <3>1, <3>2, <3>7, <3>8, ShapeKeeps
  <2> QED BY <2>8, <2>11, <2>12, <2>13, MovedKeeps
<1> QED BY <1>4, <1>5

\* The run has succeeded, if it still holds its calendar.
LEMMA StepSucceed ==
    ASSUME Inv, NEW w \in Workers, Succeed(w)
    PROVE  Inv'
<1> DEFINE e == worker[w]
<1>1. e.pc = "close" /\ e.pc \notin {"idle", "begin"}
  BY DEF Succeed
<1>2. e \in Execution /\ e.run \in Runs /\ e.results \in Results
  BY <1>1, AtCall, ExecutionFields
<1>3. UNCHANGED <<recorded, request, queue, leave, sheets, payRun>> /\ limits' = limits
  BY DEF Succeed, xeroVars
<1>4. PICK new : new = [e EXCEPT !.pc = "mirror"]
  OBVIOUS
<1>5. worker' = [worker EXCEPT ![w] = new]
  BY <1>4 DEF Succeed, Goes
<1>6. /\ reclaim_or_refuse(e.run) => doc' = Doc(e.run, "succeeded", e.results) /\ claim' = e.run
      /\ ~reclaim_or_refuse(e.run) => doc' = doc /\ claim' = claim
  BY DEF Succeed
<1>7. /\ new \in Execution /\ new.pc = "mirror" /\ new.run = e.run /\ new.results = e.results
  BY <1>2, <1>4 DEF Execution, Calls
<1>8. /\ Doc(e.run, "succeeded", e.results) \in Document /\ Doc(e.run, "succeeded", e.results).run = e.run
      /\ Doc(e.run, "succeeded", e.results).status = "succeeded"
      /\ Doc(e.run, "succeeded", e.results).results = e.results
  BY <1>2, DocIs
<1>9. new # Idle /\ ListFits(new)
  BY <1>7, ExecutionFields DEF ListFits
<1>10. Moved(w, new)
  BY <1>2, <1>3, <1>5, <1>6, <1>7, <1>8, <1>9, ShapeKeeps DEF Moved, reclaim_or_refuse
<1>11. ASSUME Undisturbed'
       PROVE  /\ Sound(new)' /\ SheetsApart' /\ ReportedHolds'
              /\ (\A v \in Workers \ {w} : ~Posting(v)) /\ claim' = claim
  <2>1. Undisturbed
    BY <1>10, <1>11, UndisturbedBefore DEF Moved
  <2>2. /\ Sound(e) /\ claim = e.run /\ ReportedHolds /\ \A v \in Workers \ {w} : ~Posting(v)
    BY <1>1, <2>1, AtCall
  <2>3. claim' = claim /\ doc'.run = e.run /\ doc'.status = "succeeded" /\ doc'.results = e.results
    BY <1>6, <1>8, <2>2 DEF reclaim_or_refuse
  <2>4. Sound(new)'
    BY <1>7, <2>2, <2>3 DEF Sound, PerStaff
  <2>5. ReportedHolds'
    BY <1>3, <2>2, <2>3 DEF ReportedHolds, Pays, Sound
  <2> QED BY <1>3, <2>1, <2>2, <2>3, <2>4, <2>5, ShapeKeeps
<1>12. Faultless' => Undisturbed'
  BY DEF Undisturbed, Faultless
<1> QED BY <1>5, <1>7, <1>9, <1>10, <1>11, <1>12, MovedKeeps

\* The claim is given back.
LEMMA StepFinish ==
    ASSUME Inv, NEW w \in Workers, Finish(w)
    PROVE  Inv'
<1> DEFINE e == worker[w]
<1>1. e.pc = "mirror" /\ e.pc \notin {"idle", "begin"}
  BY DEF Finish
<1>2. e \in Execution /\ e.run \in Runs
  BY <1>1, AtCall, ExecutionFields
<1>3. UNCHANGED <<recorded, doc, request, queue, leave, sheets, payRun>> /\ limits' = limits
      /\ worker' = [worker EXCEPT ![w] = Idle]
  BY DEF Finish, xeroVars, Stops
<1>4. claim' = IF claim = e.run THEN NoRun ELSE claim
  BY DEF Finish, release_run_claim
<1>5. Idle.pc = "idle" /\ ListFits(Idle)
  BY DEF Idle, ListFits
<1>6. Moved(w, Idle)
  BY <1>2, <1>3, <1>4, <1>5, ShapeKeeps DEF Moved
<1>7. ASSUME Undisturbed'
      PROVE  /\ SheetsApart' /\ ReportedHolds' /\ doc'.status = "succeeded"
             /\ \A v \in Workers \ {w} : ~Posting(v)
  <2>1. Undisturbed
    BY <1>6, <1>7, UndisturbedBefore DEF Moved
  <2>2. Sound(e) /\ \A v \in Workers \ {w} : ~Posting(v)
    BY <1>1, <2>1, AtCall
  <2> QED BY <1>1, <1>3, <2>1, <2>2, ShapeKeeps DEF Sound
<1>8. Faultless' => Undisturbed'
  BY DEF Undisturbed, Faultless
<1> QED BY <1>5, <1>6, <1>7, <1>8, MovedKeeps

\* Every step of an execution.
\* An execution that ends because its record could not be kept leaves Xero as it is,
\* and the results as they were.
LEMMA GivesUpKeeps ==
    ASSUME Inv, NEW w \in Workers, worker[w] \in Execution,
           worker' = [worker EXCEPT ![w] = Idle], Trouble("record"),
           UNCHANGED <<recorded, request, queue, leave, sheets, payRun>>,
           \/ UNCHANGED <<claim, doc>>
           \/ /\ claim \in {worker[w].run, NoRun} /\ claim' \in {worker[w].run, NoRun}
              /\ \/ doc' = doc
                 \/ /\ doc' \in Document /\ doc'.run = worker[w].run
                    /\ \/ doc'.results = NoResults
                       \/ Posting(w) /\ doc'.results = worker[w].results
                       \/ worker[w].pc = "report" /\ doc'.results = Reported(worker[w])
    PROVE  Inv'
<1>1. "record" \in Troubles /\ Idle.pc = "idle" /\ ListFits(Idle)
  BY DEF Troubles, Idle, ListFits
<1>2. /\ left' \in [edits : Nat, troubles : Nat]
      /\ seen' = seen \cup {"record"} /\ seen' \subseteq Troubles
  BY <1>1, TroubleIs DEF Inv
<1>3. Moved(w, Idle)
  BY <1>1, <1>2, ShapeKeeps DEF Moved
<1>4. ~Faultless'
  BY <1>2 DEF Faultless
<1>5. ASSUME Undisturbed'
      PROVE  /\ SheetsApart' /\ ReportedHolds'
             /\ (\A v \in Workers \ {w} : ~Posting(v)) \/ UNCHANGED <<claim, doc, leave, sheets>>
  <2>1. Undisturbed
    BY <1>2, <1>5, UndisturbedBefore
  <2>2. SheetsApart'
    BY <2>1, ShapeKeeps
  <2>3. (\A v \in Workers \ {w} : ~Posting(v)) \/ UNCHANGED <<claim, doc>>
    <3>1. ASSUME NEW v \in Workers \ {w}, Posting(v) PROVE claim \notin {worker[w].run, NoRun}
      <4>1. claim = worker[v].run /\ claim # NoRun /\ worker[w].run # claim
        BY <2>1, <3>1, PosterAlone, ExecutionFields
      <4> QED BY <4>1
    <3> QED BY <3>1
  <2>4. ReportedHolds'
    <3>1. CASE doc' = doc
      BY <2>1, <3>1, ShapeKeeps
    <3>2. CASE doc'.results = NoResults
      BY <3>2, OutcomesAre DEF ReportedHolds
    <3>3. CASE Posting(w) /\ doc'.results = worker[w].results
      <4>1. doc.results = worker[w].results
        BY <2>1, <3>3, PosterAlone DEF Sound
      <4> QED BY <2>1, <3>3, <4>1 DEF Inv, ReportedHolds, Pays
    <3>4. CASE worker[w].pc = "report" /\ doc'.results = Reported(worker[w])
      <4> PICK e : e = worker[w]
        OBVIOUS
      <4> PICK results : results = Reported(e)
        OBVIOUS
      <4>1. Posting(w) /\ Sound(e) /\ ReportedHolds
        BY <2>1, <3>4, AtCall
      <4>2. e.at \in Staff /\ e.results \in Results /\ e.read \in [Staff -> Week]
        BY ExecutionFields
      <4>3. e.result = Failed \/ (e.result = Posted(e.read[e.at]) /\ Pays(e.at, e.read[e.at]))
        BY <3>4, <4>1 DEF Sound, AtSheet, PerStaff
      <4>4. /\ results[e.at] = e.result
            /\ \A t \in Staff \ {e.at} : results[t] = e.results[t]
        BY <4>2 DEF Reported, Results
      <4>5. ASSUME NEW t \in Staff, results[t].state = "posted" PROVE Pays(t, results[t].week)
        <5>1. CASE t = e.at
          <6>1. e.result = Posted(e.read[e.at]) /\ Pays(e.at, e.read[e.at])
            BY <4>3, <4>4, <4>5, <5>1, OutcomesAre
          <6>2. results[t].week = e.read[e.at]
            BY <4>2, <4>4, <5>1, <6>1, OutcomesAre
          <6> QED BY <5>1, <6>1, <6>2
        <5>2. CASE t # e.at
          BY <4>1, <4>4, <4>5, <5>2 DEF Sound, ReportedHolds
        <5> QED BY <5>1, <5>2
      <4>6. doc'.results = results
        BY <3>4
      <4>7. ASSUME NEW t \in Staff, results[t].state = "posted" PROVE Pays(t, results[t].week)'
        BY <4>5, <4>7 DEF Pays
      <4> QED BY <4>6, <4>7 DEF ReportedHolds
    <3> QED BY <3>1, <3>2, <3>3, <3>4
  <2> QED BY <2>2, <2>3, <2>4
<1> QED BY <1>1, <1>3, <1>4, <1>5, MovedKeeps

\* The guard or the first heartbeat raises.
LEMMA StepBeginFails ==
    ASSUME Inv, NEW w \in Workers, BeginFails(w)
    PROVE  Inv'
<1>1. worker[w] \in Execution /\ worker[w].run \in Runs
  BY WorkerIs, ExecutionFields DEF BeginFails, Inv
<1>2. \A status \in {"running", "refused"} :
         LET d == Doc(worker[w].run, status, NoResults)
         IN  d \in Document /\ d.run = worker[w].run /\ d.results = NoResults
  BY <1>1, DocIs, OutcomesAre
<1>3. /\ worker' = [worker EXCEPT ![w] = Idle] /\ Trouble("record")
      /\ UNCHANGED <<recorded, request, queue, leave, sheets, payRun>>
      /\ \/ UNCHANGED <<claim, doc>>
         \/ /\ claim \in {worker[w].run, NoRun} /\ claim' = worker[w].run
            /\ \/ doc' = doc
               \/ \E status \in {"running", "refused"} : doc' = Doc(worker[w].run, status, NoResults)
  BY DEF BeginFails, Stops, running, reclaim_or_refuse, xeroVars
<1> QED BY <1>1, <1>2, <1>3, GivesUpKeeps

\* The handling of an exception raises in its turn.
LEMMA StepRecordFails ==
    ASSUME Inv, NEW w \in Workers, RecordFails(w)
    PROVE  Inv'
<1>1. worker[w].pc \notin {"idle", "begin"}
  BY DEF RecordFails, Calls
<1>2. worker[w] \in Execution /\ Posting(w) /\ worker[w].run \in Runs /\ worker[w].results \in Results
  BY <1>1, AtCall, ExecutionFields
<1>3. Reported(worker[w]) \in Results
  BY <1>2, ExecutionFields DEF Reported, Results
<1>4. \A status \in {"running", "succeeded", "failed"}, results \in {worker[w].results, Reported(worker[w])} :
         LET d == Doc(worker[w].run, status, results)
         IN  d \in Document /\ d.run = worker[w].run /\ d.results = results
  BY <1>2, <1>3, DocIs
<1>5. /\ worker' = [worker EXCEPT ![w] = Idle] /\ Trouble("record")
      /\ UNCHANGED <<recorded, request, queue, leave, sheets, payRun>>
      /\ \/ UNCHANGED <<claim, doc>>
         \/ /\ claim \in {worker[w].run, NoRun} /\ claim' \in {worker[w].run, NoRun}
            /\ \/ doc' = doc
               \/ \E status \in {"succeeded", "failed"} : doc' = Doc(worker[w].run, status, worker[w].results)
               \/ /\ worker[w].pc = "report"
                  /\ \E status \in {"running", "failed"} :
                        doc' = Doc(worker[w].run, status, Reported(worker[w]))
  BY DEF RecordFails, Stops, reclaim_or_refuse, xeroVars
<1> QED BY <1>2, <1>4, <1>5, GivesUpKeeps

LEMMA StepBatch ==
    ASSUME Inv, NEW w \in Workers, Batch(w)
    PROVE  Inv'
BY StepBegin, StepBatchFails, StepPreflight, StepEnsurePayRun, StepReadPayRun, StepFetchSheets,
   StepRevert, StepDelete, StepCreate, StepApprove, StepReport, StepSucceed, StepFinish,
   StepReconcileLeave, StepCompare, StepBeginFails, StepRecordFails DEF Batch

-----------------------------------------------------------------------------
(* The request, and the claim.                                             *)

\* Without its execution a claim has no one who posts under it.
LEMMA NobodyPosts ==
    ASSUME Inv, Undisturbed, claim = NoRun \/ ~Executes(claim), NEW w \in Workers
    PROVE  ~Posting(w)
<1> SUFFICES ASSUME Posting(w) PROVE FALSE
  OBVIOUS
<1>1. worker[w] \in Execution /\ claim = worker[w].run
  BY PosterAlone
<1> QED BY <1>1, ExecutionFields DEF Executes

\* A step of the request, or of the claim, while nothing is on its way under it.
LEMMA ClaimKeeps ==
    ASSUME Inv, UNCHANGED <<recorded, queue, worker, leave, sheets, payRun>>,
           left' \in [edits : Nat, troubles : Nat], seen \subseteq seen', seen' \subseteq Troubles,
           claim' \in Runs \cup {NoRun},
           request' \in [Runs -> {"new", "claimed", "opened", "unsent", "done"}],
           doc' = doc \/ (doc' \in Document /\ doc'.results = NoResults),
           Openers',
           Undisturbed' => claim = NoRun \/ ~Executes(claim),
           Faultless' => /\ claim = NoRun \/ (~Executes(claim) /\ queue[claim] = 0)
                         /\ doc'.status = "running" => Requests(doc.run)' \/ (doc' = doc /\ (Requests(doc.run) => Requests(doc.run)'))
    PROVE  Inv'
<1>1. Shape'
  BY DEF Inv, Shape, TypeOK, ListFits
<1>2. ASSUME Undisturbed' PROVE Sole' /\ PostersSound' /\ SheetsApart' /\ ReportedHolds'
  <2>1. Undisturbed
    BY <1>2, UndisturbedBefore
  <2>2. \A w \in Workers : ~Posting(w)
    BY <1>2, <2>1, NobodyPosts
  <2>3. PostersSound'
    BY <2>2 DEF PostersSound, Posting
  <2>4. ReportedHolds'
    BY <2>1, OutcomesAre DEF Inv, ReportedHolds, Pays
  <2>5. Sole' /\ SheetsApart'
    BY <2>1 DEF Inv, Sole, Executes, SheetsApart
  <2> QED BY <2>3, <2>4, <2>5
<1>3. ASSUME Faultless' PROVE LiveHolds' /\ RunningHasARunner'
  <2>1. Faultless /\ LiveHolds /\ RunningHasARunner
    BY <1>3, UndisturbedBefore DEF Inv
  <2>2. ASSUME NEW r \in Runs, queue[r] > 0 \/ Executes(r) PROVE FALSE
    <3>1. claim = r
      BY <2>1, <2>2 DEF LiveHolds
    <3> QED BY <1>3, <2>2, <3>1, PayrollAssumption
  <2>3. LiveHolds'
    BY <2>2 DEF LiveHolds, Executes
  <2>4. RunningHasARunner'
    BY <1>3, <2>1 DEF RunningHasARunner, Running, HasARunner, Executes, Faultless
  <2> QED BY <2>3, <2>4
<1> QED BY <1>1, <1>2, <1>3 DEF Inv

LEMMA RequestIs ==
    ASSUME Inv
    PROVE  /\ request \in [Runs -> {"new", "claimed", "opened", "unsent", "done"}]
           /\ claim \in Runs \cup {NoRun} /\ Openers /\ queue \in [Runs -> Nat]
           /\ left \in [edits : Nat, troubles : Nat] /\ seen \subseteq Troubles
           /\ limits' = limits => /\ left' \in [edits : Nat, troubles : Nat]
                                  /\ seen' = seen /\ seen' \subseteq Troubles
<1>1. limits' = limits => left' = left /\ seen' = seen
  BY DEF limits
<1> QED BY <1>1 DEF Inv, Shape, TypeOK

\* acquire_run_claim: the calendar was free.
LEMMA StepStart ==
    ASSUME Inv, NEW r \in Runs, Start(r)
    PROVE  Inv'
<1>1. /\ request[r] = "new" /\ claim = NoRun /\ claim' = r /\ request' = [request EXCEPT ![r] = "claimed"]
      /\ UNCHANGED <<recorded, queue, worker, leave, sheets, payRun, doc>> /\ limits' = limits
  BY DEF Start, acquire_run_claim, Requested, xeroVars
<1>2. Openers'
  BY <1>1, RequestIs, PayrollAssumption DEF Openers, Executes
<1>3. \A q : Requests(q) /\ q \in Runs => Requests(q)'
  BY <1>1, RequestIs DEF Requests
<1>4. doc.status = "running" => doc.run \in Runs
  BY NoDocIs DEF Inv, Shape, TypeOK, Document
<1> QED BY <1>1, <1>2, <1>3, <1>4, RequestIs, ClaimKeeps

\* The request's own run has nothing on its way.
LEMMA RequestHolds ==
    ASSUME Inv, NEW r \in Runs, request[r] \in {"claimed", "opened"}
    PROVE  claim = r /\ ~Executes(r) /\ queue[r] = 0
BY RequestIs DEF Openers

LEMMA StepRefuse ==
    ASSUME Inv, NEW r \in Runs, Refuse(r)
    PROVE  Inv'
<1>1. /\ request[r] = "claimed" /\ request' = [request EXCEPT ![r] = "done"]
      /\ claim' = (IF claim = r THEN NoRun ELSE claim)
      /\ UNCHANGED <<recorded, queue, worker, leave, sheets, payRun, doc>> /\ limits' = limits
  BY DEF Refuse, release_run_claim, Requested, xeroVars
<1>2. claim = r /\ ~Executes(r) /\ queue[r] = 0 /\ claim' = NoRun
  BY <1>1, RequestHolds
<1>3. Openers' /\ doc.run # r
  BY <1>1, <1>2, RequestIs, PayrollAssumption DEF Openers, Executes
<1>4. doc.status = "running" => doc.run \in Runs
  BY NoDocIs DEF Inv, Shape, TypeOK, Document
<1>5. doc.status = "running" => (Requests(doc.run) => Requests(doc.run)')
  BY <1>1, <1>3, <1>4, RequestIs DEF Requests
<1> QED BY <1>1, <1>2, <1>3, <1>5, RequestIs, ClaimKeeps

LEMMA StepOpen ==
    ASSUME Inv, NEW r \in Runs, Open(r)
    PROVE  Inv'
<1>1. /\ request[r] = "claimed" /\ request' = [request EXCEPT ![r] = "opened"]
      /\ doc' = Doc(r, "running", NoResults)
      /\ UNCHANGED <<recorded, queue, worker, leave, sheets, payRun, claim>> /\ limits' = limits
  BY DEF Open, running, Requested, xeroVars
<1>2. claim = r /\ ~Executes(r) /\ queue[r] = 0
  BY <1>1, RequestHolds
<1>3. doc' \in Document /\ doc'.run = r /\ doc'.results = NoResults
  BY <1>1, DocIs, OutcomesAre
<1>4. Openers'
  BY <1>1, <1>2, <1>3, RequestIs DEF Openers, Executes
<1>5. Requests(doc.run)'
  BY <1>1, <1>3, RequestIs DEF Requests
<1> QED BY <1>1, <1>2, <1>3, <1>4, <1>5, RequestIs, ClaimKeeps

\* delay raised, and the message was not taken or, by a broker's fault, was.
LEMMA StepSendFailed ==
    ASSUME Inv, NEW r \in Runs, SendFailed(r)
    PROVE  Inv'
<1>1. /\ request[r] \in {"opened", "unsent"} /\ request' = [request EXCEPT ![r] = "done"]
      /\ doc' = Doc(r, "failed", NoResults) /\ claim' = (IF claim = r THEN NoRun ELSE claim)
      /\ UNCHANGED <<recorded, queue, worker, leave, sheets, payRun>> /\ limits' = limits
  BY DEF SendFailed, release_run_claim, Requested, xeroVars
<1>2. doc' \in Document /\ doc'.run = r /\ doc'.results = NoResults /\ doc'.status = "failed"
  BY <1>1, DocIs, OutcomesAre
<1>3. Openers'
  BY <1>1, <1>2, RequestIs, PayrollAssumption DEF Openers, Executes
<1>4. Undisturbed' \/ Faultless' => claim = r /\ ~Executes(r) /\ queue[r] = 0
  <2>1. seen' = seen
    BY <1>1, RequestIs
  <2>2. Undisturbed' \/ Faultless' => request[r] = "opened"
    BY <1>1, <2>1, RequestIs DEF Openers, Undisturbed, Faultless
  <2> QED BY <2>2, RequestHolds
<1> QED BY <1>1, <1>2, <1>3, <1>4, RequestIs, ClaimKeeps

\* Storing or publishing the document raises: the claim is released, nothing closed.
LEMMA StepRequestFails ==
    ASSUME Inv, NEW r \in Runs, RequestFails(r)
    PROVE  Inv'
<1>1. /\ request[r] \in {"claimed", "opened", "unsent"} /\ request' = [request EXCEPT ![r] = "done"]
      /\ doc' = doc \/ (request[r] = "claimed" /\ doc' = Doc(r, "running", NoResults))
      /\ claim' = claim \/ claim' = (IF claim = r THEN NoRun ELSE claim)
      /\ UNCHANGED <<recorded, queue, worker, leave, sheets, payRun>> /\ Trouble("record")
  BY DEF RequestFails, Requests, release_run_claim, running, Requested, xeroVars
<1>2. Doc(r, "running", NoResults) \in Document /\ Doc(r, "running", NoResults).run = r
      /\ Doc(r, "running", NoResults).results = NoResults
  BY DocIs, OutcomesAre
<1>3. "record" \in Troubles
  BY DEF Troubles
<1>4. /\ left' \in [edits : Nat, troubles : Nat] /\ seen \subseteq seen' /\ seen' \subseteq Troubles
      /\ ~Faultless'
  BY <1>1, <1>3, TroubleIs DEF Inv, Faultless
<1>5. Openers'
  BY <1>1, <1>2, <1>4, RequestIs, PayrollAssumption DEF Openers, Executes
<1>6. Undisturbed' => claim = r /\ ~Executes(r) /\ queue[r] = 0
  <2>1. Undisturbed' => request[r] \in {"claimed", "opened"}
    BY <1>1, <1>4, RequestIs DEF Openers, Undisturbed
  <2> QED BY <2>1, RequestHolds
<1> QED BY <1>1, <1>2, <1>4, <1>5, <1>6, RequestIs, ClaimKeeps

\* CLAIM_TTL_SECONDS pass: under a hanging call, under a waiting message, or with
\* no one left.
LEMMA StepLapse ==
    ASSUME Inv, Lapse
    PROVE  Inv'
<1>1. /\ claim # NoRun /\ ~Requests(claim) /\ claim' = NoRun
      /\ UNCHANGED <<recorded, doc, request, queue, worker, leave, sheets, payRun>>
      /\ Trouble("hang") \/ (~Executes(claim) /\ queue[claim] > 0 /\ Trouble("wait"))
         \/ (~Executes(claim) /\ ~(queue[claim] > 0) /\ limits' = limits)
  BY DEF Lapse, xeroVars
<1>2. claim \in Runs /\ (~(queue[claim] > 0) => queue[claim] = 0)
  BY <1>1, RequestIs
<1>3. Openers'
  <2>1. \A r \in Runs : request[r] \notin {"claimed", "opened"}
    BY <1>1, RequestIs DEF Openers, Requests
  <2>2. seen \subseteq seen'
    BY <1>1, RequestIs DEF Trouble
  <2> QED BY <1>1, <2>1, <2>2, RequestIs DEF Openers, Executes
<1>4. "hang" \in Troubles /\ "wait" \in Troubles
  BY DEF Troubles
<1>5. /\ left' \in [edits : Nat, troubles : Nat] /\ seen \subseteq seen' /\ seen' \subseteq Troubles
      /\ Undisturbed' => ~Executes(claim)
      /\ Faultless' => ~Executes(claim) /\ queue[claim] = 0
  <2>1. CASE Trouble("hang")
    BY <1>4, <2>1, TroubleIs DEF Inv, Undisturbed, Faultless
  <2>2. CASE ~Executes(claim) /\ queue[claim] > 0 /\ Trouble("wait")
    BY <1>4, <2>2, TroubleIs DEF Inv, Undisturbed, Faultless
  <2>3. CASE ~Executes(claim) /\ ~(queue[claim] > 0) /\ limits' = limits
    BY <1>2, <2>3, RequestIs
  <2> QED BY <1>1, <2>1, <2>2, <2>3
<1>6. Requests(doc.run) => Requests(doc.run)'
  BY <1>1 DEF Requests
<1> QED BY <1>1, <1>3, <1>5, <1>6, RequestIs, ClaimKeeps

-----------------------------------------------------------------------------
(* Messages, processes and the world.                                      *)

\* An execution that goes on posting, with its document and with Xero as they were.
LEMMA PostersStaySound ==
    ASSUME Inv, Undisturbed, UNCHANGED <<claim, doc, leave, sheets>>,
           \A w \in Workers : Posting(w)' => worker'[w] = worker[w]
    PROVE  PostersSound' /\ SheetsApart' /\ ReportedHolds'
<1>1. PostersSound'
  <2> SUFFICES ASSUME NEW w \in Workers, Posting(w)' PROVE Sound(worker[w])'
    BY DEF PostersSound
  <2>1. worker'[w] = worker[w] /\ Posting(w)
    BY DEF Posting
  <2>2. Sound(worker[w])
    BY <2>1 DEF Inv, PostersSound
  <2> QED BY <2>1, <2>2 DEF Sound, AtSheet, AsFound, Pays
<1> QED BY <1>1 DEF Inv, SheetsApart, ReportedHolds, Pays

\* delay: the message is sent, though it may be reported as refused.
LEMMA StepSend ==
    ASSUME Inv, NEW r \in Runs, Send(r)
    PROVE  Inv'
<1>1. /\ request[r] = "opened" /\ queue' = [queue EXCEPT ![r] = queue[r] + 1]
      /\ UNCHANGED <<recorded, claim, doc, worker, leave, sheets, payRun>>
      /\ \/ request' = [request EXCEPT ![r] = "done"] /\ limits' = limits
         \/ request' = [request EXCEPT ![r] = "unsent"] /\ Trouble("send")
  BY DEF Send, Requested, xeroVars
<1>2. claim = r /\ ~Executes(r) /\ queue[r] = 0
  BY <1>1, RequestHolds
<1>3. "send" \in Troubles
  BY DEF Troubles
<1>4. /\ left' \in [edits : Nat, troubles : Nat] /\ seen \subseteq seen' /\ seen' \subseteq Troubles
      /\ request' \in [Runs -> {"new", "claimed", "opened", "unsent", "done"}]
      /\ request'[r] = "done" \/ (request'[r] = "unsent" /\ "send" \in seen')
      /\ \A q \in Runs \ {r} : request'[q] = request[q]
  BY <1>1, <1>3, RequestIs, TroubleIs DEF Inv
<1>5. /\ queue' \in [Runs -> Nat] /\ queue'[r] = 1
      /\ \A q \in Runs \ {r} : queue'[q] = queue[q]
  BY <1>1, <1>2, RequestIs
<1>6. Shape'
  BY <1>1, <1>4, <1>5 DEF Inv, Shape, TypeOK, ListFits
<1>7. Openers'
  BY <1>1, <1>4, <1>5, RequestIs DEF Openers, Executes
<1>8. ASSUME Undisturbed' PROVE Sole' /\ PostersSound' /\ SheetsApart' /\ ReportedHolds'
  <2>1. Undisturbed
    BY <1>4, <1>8, UndisturbedBefore
  <2>2. Sole'
    BY <1>1, <1>2, <1>5, <2>1 DEF Inv, Sole, Executes
  <2> QED BY <1>1, <2>1, <2>2, PostersStaySound
<1>9. ASSUME Faultless' PROVE LiveHolds' /\ RunningHasARunner'
  <2>1. Faultless /\ LiveHolds /\ RunningHasARunner
    BY <1>4, <1>9, UndisturbedBefore DEF Inv
  <2>2. LiveHolds'
    BY <1>1, <1>2, <1>5, <2>1 DEF LiveHolds, Executes
  <2>3. doc.status = "running" => doc.run \in Runs
    BY NoDocIs DEF Inv, Shape, TypeOK, Document
  <2>4. RunningHasARunner'
    BY <1>1, <1>4, <1>5, <2>1, <2>3 DEF RunningHasARunner, Running, HasARunner, Requests, Executes, Faultless
  <2> QED BY <2>2, <2>4
<1> QED BY <1>6, <1>7, <1>8, <1>9 DEF Inv

\* A worker takes a message.
LEMMA StepDeliver ==
    ASSUME Inv, NEW r \in Runs, NEW w \in Workers, Deliver(r, w)
    PROVE  Inv'
<1>0. PICK new : new = [run |-> r, pc |-> "begin", read |-> NothingRead, draft |-> "none",
                        sheet |-> NoneFound, todo |-> Staff, at |-> First(Staff),
                        result |-> Pending, results |-> NoResults]
  OBVIOUS
<1>1. /\ worker[w] = Idle /\ queue[r] > 0 /\ queue' = [queue EXCEPT ![r] = queue[r] - 1]
      /\ worker' = [worker EXCEPT ![w] = new]
      /\ UNCHANGED <<recorded, claim, doc, request, leave, sheets, payRun>> /\ limits' = limits
  BY <1>0 DEF Deliver, Taken, xeroVars
<1>2. new \in Execution /\ new.run = r /\ new.pc = "begin" /\ ListFits(new)
  <2>1. First(Staff) \in Staff
    BY PayrollAssumption DEF First
  <2>2. NothingRead \in [Staff -> Week] /\ NoneFound \in [Staff -> Sheet \cup {NoSheet}]
    BY DEF NothingRead, NoneFound, Week
  <2>3. new \in Execution
    <3> HIDE DEF Sheet, NothingRead, NoneFound
    <3> QED BY <1>0, <2>1, <2>2, OutcomesAre DEF Execution
  <2> QED BY <1>0, <2>3 DEF ListFits
<1>3. worker \in [Workers -> Execution \cup {Idle}]
  BY DEF Inv, Shape, TypeOK
<1>4. /\ worker' \in [Workers -> Execution \cup {Idle}] /\ worker'[w] = new
      /\ \A v \in Workers \ {w} : worker'[v] = worker[v]
  <2> HIDE DEF Execution
  <2> QED BY <1>1, <1>2, <1>3
<1>5. /\ queue' \in [Runs -> Nat] /\ queue'[r] = queue[r] - 1 /\ \A q \in Runs \ {r} : queue'[q] = queue[q]
  BY <1>1, RequestIs
<1>6. worker[w].run = NoRun /\ NoRun \notin Runs
  BY <1>1, PayrollAssumption DEF Idle
<1>7. Executes(r)' /\ \A q \in Runs \ {r} : Executes(q)' <=> Executes(q)
  BY <1>2, <1>4, <1>6 DEF Executes
<1>8. Shape'
  <2>1. TypeOK'
    BY <1>1, <1>4, <1>5, RequestIs DEF Inv, Shape, TypeOK, limits
  <2>2. \A v \in Workers : ListFits(worker'[v])
    BY <1>2, <1>4 DEF Inv, Shape
  <2> QED BY <1>1, <2>1, <2>2 DEF Inv, Shape, ListFits
<1>9. Openers'
  <2>1. request[r] \notin {"new", "claimed", "opened"}
    BY <1>1, RequestIs DEF Openers
  <2> QED BY <1>1, <1>5, <1>7, <2>1, RequestIs DEF Openers
<1>10. ASSUME Undisturbed' PROVE Sole' /\ PostersSound' /\ SheetsApart' /\ ReportedHolds'
  <2>1. Undisturbed /\ Sole
    BY <1>1, <1>10, RequestIs DEF Undisturbed, Inv
  <2>2. queue[r] = 1 /\ ~Executes(r)
    BY <1>1, <2>1, RequestIs DEF Sole
  <2>3. Sole'
    BY <1>2, <1>4, <1>5, <1>7, <2>1, <2>2 DEF Sole, Executes
  <2>4. \A v \in Workers : Posting(v)' => worker'[v] = worker[v]
    BY <1>2, <1>4 DEF Posting
  <2> QED BY <1>1, <2>1, <2>3, <2>4, PostersStaySound
<1>11. ASSUME Faultless' PROVE LiveHolds' /\ RunningHasARunner'
  <2>1. Faultless /\ LiveHolds /\ RunningHasARunner
    BY <1>1, <1>11, RequestIs DEF Faultless, Inv
  <2>2. LiveHolds'
    BY <1>1, <1>5, <1>7, <2>1 DEF LiveHolds
  <2>3. doc.status = "running" => doc.run \in Runs
    BY NoDocIs DEF Inv, Shape, TypeOK, Document
  <2>4. RunningHasARunner'
    BY <1>1, <1>5, <1>7, <2>1, <2>3 DEF RunningHasARunner, Running, HasARunner, Requests, Faultless
  <2> QED BY <2>2, <2>4
<1> QED BY <1>8, <1>9, <1>10, <1>11 DEF Inv

\* The office changes what is approved: no execution reads it again.
LEMMA StepReapprove ==
    ASSUME Inv, NEW s \in Staff, Reapprove(s)
    PROVE  Inv'
<1>1. PICK week \in Week : recorded' = [recorded EXCEPT ![s] = week]
  BY DEF Reapprove
<1>2. /\ left.edits > 0 /\ left' = [left EXCEPT !.edits = left.edits - 1]
      /\ UNCHANGED <<claim, doc, request, queue, worker, leave, sheets, payRun, seen>>
  BY DEF Reapprove, serverVars, xeroVars
<1>3. left' \in [edits : Nat, troubles : Nat] /\ recorded' \in [Staff -> Week]
  <2>1. left.edits - 1 \in Nat
    BY <1>2, RequestIs
  <2> QED BY <1>1, <1>2, <2>1, RequestIs DEF Inv, Shape, TypeOK
<1>4. Shape'
  BY <1>2, <1>3 DEF Inv, Shape, TypeOK, ListFits
<1>5. Undisturbed => PostersSound' /\ SheetsApart' /\ ReportedHolds'
  BY <1>2, PostersStaySound
<1> QED BY <1>2, <1>4, <1>5 DEF Inv, Openers, Sole, LiveHolds, RunningHasARunner, Running, HasARunner, Requests, Executes,
             Undisturbed, Faultless

\* The message of an execution under way is delivered again.
LEMMA StepRedeliver ==
    ASSUME Inv, NEW r \in Runs, Redeliver(r)
    PROVE  Inv'
<1>1. /\ Executes(r) /\ queue' = [queue EXCEPT ![r] = queue[r] + 1] /\ Trouble("redelivery")
      /\ UNCHANGED <<recorded, claim, doc, request, worker, leave, sheets, payRun>>
  BY DEF Redeliver, xeroVars
<1>2. "redelivery" \in Troubles
  BY DEF Troubles
<1>3. /\ left' \in [edits : Nat, troubles : Nat] /\ seen \subseteq seen' /\ seen' \subseteq Troubles
      /\ ~Undisturbed' /\ ~Faultless'
  BY <1>1, <1>2, TroubleIs DEF Inv, Undisturbed, Faultless
<1>4. queue' \in [Runs -> Nat] /\ \A q \in Runs \ {r} : queue'[q] = queue[q]
  BY <1>1, RequestIs
<1>5. Shape'
  BY <1>1, <1>3, <1>4 DEF Inv, Shape, TypeOK, ListFits
<1>6. Openers'
  BY <1>1, <1>3, <1>4, RequestIs DEF Openers, Executes
<1> QED BY <1>3, <1>5, <1>6 DEF Inv

\* Executions end: their runs are where they were, or one message has come back.
LEMMA EndedKeeps ==
    ASSUME Inv, NEW w \in Workers, worker[w] # Idle, worker' = [worker EXCEPT ![w] = Idle],
           UNCHANGED <<recorded, claim, doc, request, leave, sheets, payRun>>,
           queue' = queue \/ queue' = [queue EXCEPT ![worker[w].run] = queue[worker[w].run] + 1],
           NEW kind \in {"crash", "death"}, Trouble(kind)
    PROVE  Inv'
<1>0. PICK r : r = worker[w].run
  OBVIOUS
<1>1. worker[w] \in Execution /\ r \in Runs /\ worker \in [Workers -> Execution \cup {Idle}]
  BY <1>0, WorkerIs, ExecutionFields DEF Inv, Shape, TypeOK
<1>2. /\ worker' \in [Workers -> Execution \cup {Idle}] /\ worker'[w] = Idle
      /\ \A v \in Workers \ {w} : worker'[v] = worker[v]
  <2> HIDE DEF Execution
  <2> QED BY <1>1
<1>3. Idle.run = NoRun /\ NoRun \notin Runs /\ Idle.pc = "idle" /\ ListFits(Idle)
  BY PayrollAssumption DEF Idle, ListFits
<1>4. /\ queue' \in [Runs -> Nat] /\ queue'[r] \in {queue[r], queue[r] + 1}
      /\ \A q \in Runs \ {r} : queue'[q] = queue[q]
  BY <1>0, <1>1, RequestIs
<1>5. kind \in Troubles
  BY DEF Troubles
<1>6. /\ left' \in [edits : Nat, troubles : Nat] /\ seen \subseteq seen' /\ seen' \subseteq Troubles /\ ~Faultless'
  BY <1>5, TroubleIs DEF Inv, Faultless
<1>7. Executes(r) /\ \A q \in Runs : Executes(q)' => Executes(q)
  BY <1>0, <1>1, <1>2, <1>3 DEF Executes
<1>8. Shape'
  <2>1. TypeOK'
    BY <1>2, <1>4, <1>6 DEF Inv, Shape, TypeOK
  <2>2. \A v \in Workers : ListFits(worker'[v])
    BY <1>2, <1>3 DEF Inv, Shape
  <2> QED BY <2>1, <2>2 DEF Inv, Shape, ListFits
<1>9. Openers'
  BY <1>1, <1>4, <1>6, <1>7, RequestIs DEF Openers
<1>10. ASSUME Undisturbed' PROVE Sole' /\ PostersSound' /\ SheetsApart' /\ ReportedHolds'
  <2>1. Undisturbed /\ Sole
    BY <1>6, <1>10, UndisturbedBefore DEF Inv
  <2>2. queue[r] = 0 /\ \A v \in Workers : worker[v].run = r => v = w
    BY <1>0, <1>1, <1>7, <2>1, RequestIs DEF Sole
  <2>3. ~Executes(r)'
    BY <1>1, <1>2, <1>3, <2>2 DEF Executes
  <2>4. \A v, u \in Workers, q \in Runs : worker'[v].run = q /\ worker'[u].run = q => v = u
    BY <1>2, <1>3, <2>1 DEF Sole
  <2>5. Sole'
    BY <1>1, <1>4, <1>7, <2>1, <2>2, <2>3, <2>4 DEF Sole
  <2>6. \A v \in Workers : Posting(v)' => worker'[v] = worker[v]
    BY <1>2, <1>3 DEF Posting
  <2> QED BY <2>1, <2>5, <2>6, PostersStaySound
<1> QED BY <1>6, <1>8, <1>9, <1>10 DEF Inv

LEMMA StepCrash ==
    ASSUME Inv, NEW w \in Workers, Crash(w)
    PROVE  Inv'
<1>1. /\ worker[w] # Idle /\ queue' = [queue EXCEPT ![worker[w].run] = queue[worker[w].run] + 1]
      /\ worker' = [worker EXCEPT ![w] = Idle] /\ Trouble("crash")
      /\ UNCHANGED <<recorded, claim, doc, request, leave, sheets, payRun>>
  BY DEF Crash, Stops, xeroVars
<1> QED BY <1>1, EndedKeeps

\* A process dies with its execution, or a web server's with its request.
LEMMA StepDies ==
    ASSUME Inv, Dies
    PROVE  Inv'
<1>1. /\ Trouble("death") /\ UNCHANGED <<recorded, claim, doc, queue, leave, sheets, payRun>>
      /\ \/ \E w \in Workers : worker[w] # Idle /\ worker' = [worker EXCEPT ![w] = Idle] /\ UNCHANGED request
         \/ \E r \in Runs : request' = [request EXCEPT ![r] = "done"] /\ UNCHANGED worker
  BY DEF Dies, Stops, Requested, xeroVars
<1>2. CASE \E w \in Workers : worker[w] # Idle /\ worker' = [worker EXCEPT ![w] = Idle] /\ UNCHANGED request
  BY <1>1, <1>2, EndedKeeps
<1>3. CASE \E r \in Runs : request' = [request EXCEPT ![r] = "done"] /\ UNCHANGED worker
  <2>1. PICK r \in Runs : request' = [request EXCEPT ![r] = "done"] /\ UNCHANGED worker
    BY <1>3
  <2>2. "death" \in Troubles
    BY DEF Troubles
  <2>3. /\ left' \in [edits : Nat, troubles : Nat] /\ seen \subseteq seen' /\ seen' \subseteq Troubles /\ ~Faultless'
    BY <1>1, <2>2, TroubleIs DEF Inv, Faultless
  <2>4. request' \in [Runs -> {"new", "claimed", "opened", "unsent", "done"}]
        /\ \A q \in Runs : request'[q] = request[q] \/ request'[q] = "done"
    BY <2>1, RequestIs
  <2>5. Shape'
    BY <1>1, <2>1, <2>3, <2>4 DEF Inv, Shape, TypeOK, ListFits
  <2>6. Openers'
    BY <1>1, <2>1, <2>3, <2>4, RequestIs DEF Openers, Executes
  <2>7. ASSUME Undisturbed' PROVE Sole' /\ PostersSound' /\ SheetsApart' /\ ReportedHolds'
    <3>1. Undisturbed
      BY <2>3, <2>7, UndisturbedBefore
    <3> QED BY <1>1, <2>1, <3>1, PostersStaySound DEF Inv, Sole, Executes
  <2> QED BY <2>3, <2>5, <2>6, <2>7 DEF Inv
<1> QED BY <1>1, <1>2, <1>3

-----------------------------------------------------------------------------
(* The pay run is posted in Xero.                                          *)

PaidSheet(x) == IF x.status = "approved" THEN [x EXCEPT !.status = "paid"] ELSE x

LEMMA PaidSheetIs ==
    ASSUME NEW x \in Sheet
    PROVE  /\ PaidSheet(x) \in Sheet /\ PaidSheet(x).id = x.id /\ PaidSheet(x).work = x.work
           /\ x.status = "draft" => PaidSheet(x) = x
           /\ x.status \in {"approved", "paid"} => PaidSheet(x).status = "paid"
           /\ \A found \in Sheet : SameSheet(found, x) => SameSheet(found, PaidSheet(x))
BY DEF PaidSheet, Sheet, SameSheet

LEMMA PaidStaysPaid ==
    ASSUME NEW s \in Staff, sheets[s] \in SUBSET Sheet,
           sheets'[s] = {PaidSheet(x) : x \in sheets[s]}, leave' = leave
    PROVE  \A week : Pays(s, week) => Pays(s, week)'
<1> SUFFICES ASSUME NEW week, Pays(s, week) PROVE Pays(s, week)'
  OBVIOUS
<1>1. CASE s \in Salaried
  <2>1. sheets[s] = {} => sheets'[s] = {}
    OBVIOUS
  <2> QED BY <1>1, <2>1 DEF Pays
<1>2. CASE s \notin Salaried
  <2>1. PICK x \in sheets[s] : x.status \in {"approved", "paid"} /\ x.work = week.work
    BY <1>2 DEF Pays
  <2>2. PaidSheet(x) \in sheets'[s] /\ PaidSheet(x).status = "paid" /\ PaidSheet(x).work = week.work
    BY <2>1, PaidSheetIs
  <2> QED BY <1>2, <2>2 DEF Pays
<1> QED BY <1>1, <1>2

\* What is counted on stays so when the approved sheets are paid.
LEMMA PaidKeeps ==
    ASSUME NEW e \in Execution, NEW s \in Staff, sheets[s] \in SUBSET Sheet,
           sheets'[s] = {PaidSheet(x) : x \in sheets[s]}, leave' = leave
    PROVE  /\ AsFound(e, s) => AsFound(e, s)'
           /\ \A week : Pays(s, week) => Pays(s, week)'
           /\ s = e.at => (AtSheet(e) => AtSheet(e)')
<1>1. e.sheet[s] \in Sheet \cup {NoSheet} /\ e.at \in Staff
  BY ExecutionFields
<1>2. \A x : sheets[s] = {x} => x \in Sheet /\ sheets'[s] = {PaidSheet(x)}
  OBVIOUS
<1>3. sheets[s] = {} => sheets'[s] = {}
  OBVIOUS
<1>4. AsFound(e, s) => AsFound(e, s)'
  BY <1>1, <1>2, <1>3, PaidSheetIs DEF AsFound
<1>5. \A week : Pays(s, week) => Pays(s, week)'
  BY PaidStaysPaid
<1>6. s = e.at => (AtSheet(e) => AtSheet(e)')
  <2> SUFFICES ASSUME s = e.at, AtSheet(e) PROVE AtSheet(e)'
    OBVIOUS
  <2>1. CASE e.pc = "revert"
    BY <1>4, <2>1 DEF AtSheet
  <2>2. CASE e.pc = "delete"
    <3>1. PICK x \in sheets[s] : sheets[s] = {x} /\ x.id = e.sheet[s].id
      BY <2>2 DEF AtSheet
    <3>2. sheets'[s] = {PaidSheet(x)} /\ PaidSheet(x).id = e.sheet[s].id
      BY <1>2, <3>1, PaidSheetIs
    <3> QED BY <2>2, <3>2 DEF AtSheet
  <2>3. CASE e.pc = "create"
    BY <1>3, <2>3 DEF AtSheet
  <2>4. CASE e.pc = "approve"
    BY <1>2, <2>4, PaidSheetIs DEF AtSheet
  <2>5. CASE e.pc = "report"
    BY <1>1, <1>5, <2>5 DEF AtSheet
  <2>6. CASE e.pc \notin PerStaff
    BY <2>6 DEF AtSheet, PerStaff
  <2> QED BY <2>1, <2>2, <2>3, <2>4, <2>5, <2>6 DEF PerStaff
<1> QED BY <1>4, <1>5, <1>6

LEMMA StepPaysOut ==
    ASSUME Inv, PaysOut
    PROVE  Inv'
<1>1. /\ payRun' = "posted" /\ sheets' = [s \in Staff |-> {PaidSheet(x) : x \in sheets[s]}]
      /\ UNCHANGED <<recorded, claim, doc, request, queue, worker, leave>> /\ limits' = limits
  BY DEF PaysOut, PaidSheet, serverVars
<1>2. \A s \in Staff : sheets[s] \in SUBSET Sheet /\ IsFiniteSet(sheets[s])
  BY DEF Inv, Shape, TypeOK
<1>3. \A s \in Staff : sheets'[s] = {PaidSheet(x) : x \in sheets[s]}
  BY <1>1
<1>4. \A s \in Staff : sheets'[s] \in SUBSET Sheet
  BY <1>2, <1>3, PaidSheetIs
<1>5. ASSUME NEW s \in Staff PROVE IsFiniteSet(sheets'[s])
  <2>1. PICK f : f = [x \in sheets[s] |-> PaidSheet(x)]
    OBVIOUS
  <2>2. f \in Surjection(sheets[s], sheets'[s])
    BY <1>3, <2>1 DEF Surjection
  <2> QED BY <1>2, <2>2, FS_Surjection
<1>6. Shape'
  <2>1. sheets' \in [Staff -> SUBSET Sheet]
    BY <1>1, <1>4
  <2> QED BY <1>1, <1>5, <2>1, RequestIs DEF Inv, Shape, TypeOK, ListFits
<1>7. seen' = seen
  BY <1>1, RequestIs
<1>8. ASSUME Undisturbed PROVE PostersSound' /\ SheetsApart' /\ ReportedHolds'
  <2>1. SheetsApart'
    BY <1>3, <1>8 DEF Inv, SheetsApart
  <2>2. ReportedHolds'
    <3> SUFFICES ASSUME NEW s \in Staff, doc.results[s].state = "posted"
                 PROVE  Pays(s, doc.results[s].week)'
      BY <1>1 DEF ReportedHolds
    <3>1. Pays(s, doc.results[s].week)
      BY <1>8 DEF Inv, ReportedHolds
    <3>2. PICK week : week = doc.results[s].week
      OBVIOUS
    <3>3. Pays(s, week)'
      BY <1>1, <1>2, <1>3, <3>1, <3>2, PaidStaysPaid
    <3> QED BY <1>1, <3>2, <3>3
  <2>3. PostersSound'
    <3> SUFFICES ASSUME NEW w \in Workers, Posting(w)' PROVE Sound(worker[w])'
      BY DEF PostersSound
    <3>1. PICK e : e = worker[w]
      OBVIOUS
    <3>2. worker'[w] = e /\ Posting(w)
      BY <1>1, <3>1 DEF Posting
    <3>3. e \in Execution /\ Sound(e) /\ e.at \in Staff /\ e.todo \subseteq Staff
      BY <1>8, <3>1, <3>2, PosterAlone, ExecutionFields
    <3>4. \A s \in Staff : AsFound(e, s) => AsFound(e, s)'
      BY <1>1, <1>2, <1>3, <3>3, PaidKeeps
    <3>5. AtSheet(e) => AtSheet(e)'
      BY <1>1, <1>2, <1>3, <3>3, PaidKeeps
    <3>6. Sound(e)'
      BY <1>1, <3>3, <3>4, <3>5 DEF Sound
    <3> QED BY <3>2, <3>6 DEF Sound, AtSheet, AsFound, Pays
  <2> QED BY <2>1, <2>2, <2>3
<1> QED BY <1>1, <1>6, <1>7, <1>8 DEF Inv, Openers, Sole, LiveHolds, RunningHasARunner, Running, HasARunner, Requests, Executes,
             Undisturbed, Faultless

-----------------------------------------------------------------------------
(* The invariant holds.                                                    *)

LEMMA InitInv == Init => Inv
<1> SUFFICES ASSUME Init PROVE Inv
  OBVIOUS
<1>1. /\ Idle.pc = "idle" /\ Idle.run = NoRun /\ NoRun \notin Runs
      /\ \A w \in Workers : worker[w] = Idle
  BY PayrollAssumption DEF Init, Idle
<1>2. Shape
  <2>1. TypeOK
    BY PayrollAssumption, OutcomesAre DEF Init, TypeOK, Week, Troubles
  <2>2. \A s \in Staff : IsFiniteSet(sheets[s])
    BY FS_EmptySet DEF Init
  <2> QED BY <1>1, <2>1, <2>2 DEF Shape, ListFits
<1>3. \A r \in Runs : queue[r] = 0 /\ ~Executes(r)
  BY <1>1 DEF Init, Executes
<1>4. doc.run = NoRun /\ doc.status = "none" /\ \A s \in Staff : doc.results[s] = Pending
  BY NoDocIs, OutcomesAre DEF Init
<1>5. Openers
  BY <1>1, <1>3, <1>4 DEF Init, Openers
<1>6. Sole /\ PostersSound /\ SheetsApart /\ ReportedHolds
  BY <1>1, <1>3, <1>4, OutcomesAre DEF Init, Sole, PostersSound, Posting, SheetsApart, ReportedHolds
<1>7. LiveHolds /\ RunningHasARunner
  BY <1>3, <1>4 DEF LiveHolds, RunningHasARunner, Running, HasARunner
<1> QED BY <1>2, <1>5, <1>6, <1>7 DEF Inv

LEMMA StepInv == Inv /\ [Next]_vars => Inv'
<1> SUFFICES ASSUME Inv, [Next]_vars PROVE Inv'
  OBVIOUS
<1>1. ASSUME NEW r \in Runs, Request(r) PROVE Inv'
  BY <1>1, StepStart, StepRefuse, StepOpen, StepSend, StepSendFailed, StepRequestFails DEF Request
<1>2. ASSUME World PROVE Inv'
  BY <1>2, StepPaysOut, StepLapse, StepDies, StepReapprove, StepRedeliver, StepCrash DEF World
<1>3. CASE UNCHANGED vars
  <2>1. /\ UNCHANGED <<recorded, claim, doc, request, queue, worker, leave, sheets, payRun>>
        /\ limits' = limits /\ left' = left /\ seen' = seen
    BY <1>3 DEF vars, serverVars, xeroVars, limits
  <2>2. Shape'
    BY <2>1 DEF Inv, Shape, TypeOK, ListFits
  <2>3. Undisturbed => PostersSound' /\ SheetsApart' /\ ReportedHolds'
    BY <2>1, PostersStaySound
  <2> QED BY <2>1, <2>2, <2>3 DEF Inv, Openers, Sole, LiveHolds, RunningHasARunner, Running, HasARunner, Requests, Executes,
               Undisturbed, Faultless
<1> QED BY <1>1, <1>2, <1>3, StepDeliver, StepBatch DEF Next

LEMMA Invariance == Spec => []Inv
BY InitInv, StepInv, PTL DEF Spec

-----------------------------------------------------------------------------
(* The results.                                                            *)

\* Runs, executions and sheets keep their shape, and no message is taken twice,
\* whatever fails.
THEOREM TypeCorrect == Spec => []TypeOK
<1>1. Inv => TypeOK
  BY DEF Inv, Shape
<1> QED BY <1>1, Invariance, PTL

\* "one live posting run per connected organisation": two executions never post at
\* once, whatever calls fail, messages wait and workers die.
THEOREM RunsExclude == Spec => []OneRunPosts
<1>1. Inv => OneRunPosts
  <2> SUFFICES ASSUME Inv, Undisturbed, NEW v \in Workers, NEW w \in Workers, Posting(v), Posting(w)
               PROVE  v = w
    BY DEF OneRunPosts
  <2> QED BY PosterAlone
<1> QED BY <1>1, Invariance, PTL

\* No employee ever has two timesheets for the week, though calls fail after they
\* took effect and weeks are posted again.
THEOREM OneSheet == Spec => []OneSheetEach
<1>1. Inv => OneSheetEach
  <2> SUFFICES ASSUME Inv, Undisturbed, NEW s \in Staff
               PROVE  Cardinality(sheets[s]) <= 1
    BY DEF OneSheetEach
  <2>1. CASE sheets[s] = {}
    BY <2>1, FS_EmptySet
  <2>2. CASE sheets[s] # {}
    <3>1. PICK x : sheets[s] = {x}
      BY <2>2 DEF Inv, SheetsApart
    <3> QED BY <3>1, FS_Singleton
  <2> QED BY <2>1, <2>2
<1> QED BY <1>1, Invariance, PTL

\* A result the panel shows as posted is what Xero pays, whatever failed halfway.
THEOREM ReportedPaid == Spec => []ReportedIsPaid
<1>1. Inv => ReportedIsPaid
  BY DEF Inv, ReportedIsPaid, ReportedHolds
<1> QED BY <1>1, Invariance, PTL

\* A document that says a run is running has someone to finish it, while all that
\* fails is calls to Xero. It says nothing of a heartbeat, an error record or a
\* closing write that fails.
THEOREM RunnerThere == Spec => []RunningHasARunner
<1>1. Inv => RunningHasARunner
  BY DEF Inv, RunningHasARunner, Running, HasARunner, Faultless
<1> QED BY <1>1, Invariance, PTL

\* An execution writes the document only under its own claim, or a free one.
LEMMA WrittenUnderClaim ==
    ASSUME NEW w \in Workers, Batch(w)
    PROVE  doc' = doc \/ (doc'.run = worker[w].run /\ claim \in {worker[w].run, NoRun})
<1> DEFINE Goal == doc' = doc \/ (doc'.run = worker[w].run /\ claim \in {worker[w].run, NoRun})
<1>1. ASSUME NEW r, NEW status, NEW results PROVE Doc(r, status, results).run = r
  BY DEF Doc
<1>2. ASSUME Abort(w) PROVE Goal
  BY <1>1, <1>2 DEF Abort, Close, reclaim_or_refuse
<1>3. ASSUME Begin(w) PROVE Goal
  BY <1>1, <1>3 DEF Begin, Close, running, reclaim_or_refuse
<1>4. ASSUME BatchFails(w) PROVE Goal
  BY <1>2, <1>4 DEF BatchFails
<1>5. ASSUME ReconcileLeave(w) PROVE Goal
  BY <1>2, <1>5 DEF ReconcileLeave
<1>6. ASSUME EnsurePayRun(w) PROVE Goal
  BY <1>2, <1>6 DEF EnsurePayRun
<1>7. ASSUME FetchSheets(w) PROVE Goal
  BY <1>2, <1>7 DEF FetchSheets
<1>8. ASSUME Report(w) PROVE Goal
  BY <1>1, <1>2, <1>8 DEF Report
<1>9. ASSUME Succeed(w) PROVE Goal
  BY <1>1, <1>9 DEF Succeed, reclaim_or_refuse
<1>10. ASSUME UNCHANGED serverVars \/ UNCHANGED doc PROVE Goal
  BY <1>10 DEF serverVars
<1>11. ASSUME Preflight(w) \/ ReadPayRun(w) \/ Compare(w) \/ Finish(w) PROVE Goal
  BY <1>10, <1>11 DEF Preflight, ReadPayRun, Compare, Finish
<1>12. ASSUME Revert(w) \/ Delete(w) \/ Create(w) \/ Approve(w) PROVE Goal
  BY <1>10, <1>12 DEF Revert, Delete, Create, Approve, Call
<1>13. ASSUME BeginFails(w) \/ RecordFails(w) PROVE Goal
  BY <1>1, <1>13 DEF BeginFails, RecordFails, running, reclaim_or_refuse
<1> QED BY <1>3, <1>4, <1>5, <1>6, <1>7, <1>8, <1>9, <1>11, <1>12, <1>13 DEF Batch

\* While a run holds the claim no other run replaces its document.
THEOREM DocumentKept == Spec => LiveRunKeepsItsDocument
<1> DEFINE Kept == doc.run # NoRun /\ doc'.run # doc.run /\ "send" \notin seen => claim # doc.run
<1>1. Inv /\ [Next]_vars => Kept
  <2> SUFFICES ASSUME Inv, [Next]_vars, doc.run # NoRun, doc'.run # doc.run,
                      "send" \notin seen, claim = doc.run
               PROVE  FALSE
    OBVIOUS
  <2>1. ASSUME NEW r \in Runs, Request(r) PROVE doc' = doc \/ (doc'.run = r /\ claim = r)
    <3>1. ASSUME Start(r) \/ Refuse(r) \/ Send(r) PROVE doc' = doc
      BY <3>1 DEF Start, Refuse, Send
    <3>2. ASSUME Open(r) PROVE doc'.run = r /\ claim = r
      BY <3>2, RequestHolds DEF Open, running, Doc
    <3>3. ASSUME SendFailed(r) PROVE doc'.run = r /\ claim = r
      <4>1. request[r] = "opened"
        BY <3>3, RequestIs DEF SendFailed, Openers
      <4> QED BY <3>3, <4>1, RequestHolds DEF SendFailed, Doc
    <3>4. ASSUME RequestFails(r) PROVE doc' = doc \/ (doc'.run = r /\ claim = r)
      BY <3>4, RequestHolds DEF RequestFails, running, Doc
    <3> QED BY <2>1, <3>1, <3>2, <3>3, <3>4 DEF Request
  <2>2. ASSUME NEW r \in Runs, NEW w \in Workers, Deliver(r, w) PROVE doc' = doc
    BY <2>2 DEF Deliver
  <2>3. ASSUME World PROVE doc' = doc
    BY <2>3 DEF World, PaysOut, Lapse, Dies, Reapprove, Redeliver, Crash, serverVars
  <2>4. ASSUME UNCHANGED vars PROVE doc' = doc
    BY <2>4 DEF vars, serverVars
  <2> QED BY <2>1, <2>2, <2>3, <2>4, WrittenUnderClaim DEF Next
<1> QED BY <1>1, Invariance, PTL DEF Spec, LiveRunKeepsItsDocument
=============================================================================

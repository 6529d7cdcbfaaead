------------------------------ MODULE Stocktake ------------------------------
(***************************************************************************)
(* Physical counts of the workshop (apps/purchasing stocktake_service).    *)
(*                                                                         *)
(* A draft holds observations: for each stock row the balance and          *)
(* inventory_version seen when it was counted, and the quantity found.     *)
(* Material keeps moving while people count.  Posting turns every counted  *)
(* difference into a ledger movement, in one transaction, once; a posted   *)
(* count is corrected by one linked recount.                               *)
(*                                                                         *)
(* The ledger underneath is module StockLedger, from which posting and the *)
(* workshop's own traffic take their actions.  Reasons, costs and          *)
(* locations of a line are left out.                                       *)
(***************************************************************************)
EXTENDS StockLedger

CONSTANTS
    Counts,       \* identities a Stocktake may have
    NoCount,      \* corrects IS NULL
    Found,        \* a line whose stock is NULL: material newly found
    NotCounted,   \* counted_quantity IS NULL
    PhysicalQuantities,    \* physical quantities a person may enter
    Issued,       \* quantities the workshop takes while a count is open
    MaxSaves      \* bound: revisions of one count

ASSUME CountAssumption ==
    /\ NoCount \notin Counts
    /\ Found \notin Stocks
    /\ IsFiniteSet(Stocks) /\ IsFiniteSet(PhysicalQuantities)
    /\ PhysicalQuantities \subseteq Nat
    /\ NotCounted \notin Nat
    /\ Issued \subseteq Quantities
    /\ MaxSaves \in Nat

VARIABLE counts     \* [Counts -> Count]: the Stocktake rows with their StocktakeLine rows

countVars == <<stock, costLines, counts>>

\* movement is the position of the line's StockMovement in its row; 0 is none.
Line ==
    [stock : Stocks \cup {Found}, expected : Int, version : Nat,
     counted : Nat \cup {NotCounted}, movement : Nat]

Count ==
    [status : {"none", "draft", "posted"}, version : Nat,
     corrects : Counts \cup {NoCount}, lines : SUBSET Line]

NoStocktake == [status |-> "none", version |-> 0, corrects |-> NoCount, lines |-> {}]

Draft(original, lines) ==
    [status |-> "draft", version |-> 0, corrects |-> original, lines |-> lines]

\* What a person at the rack, or a fresh line of the draft, records of row s.
Observation(s, counted) ==
    [stock |-> s, expected |-> stock[s].quantity, version |-> stock[s].version,
     counted |-> counted, movement |-> 0]

NewlyFound(counted) ==
    [stock |-> Found, expected |-> 0, version |-> 0, counted |-> counted, movement |-> 0]

\* countable_stock
require_workshop_stock(s) == stock[s].made /\ stock[s].active

CountInit == Init /\ counts = [c \in Counts |-> NoStocktake]

(***************************************************************************)
(* Drafts                                                                  *)
(***************************************************************************)

create_stocktake(c, lines) ==
    /\ counts[c].status = "none"
    /\ lines = {} \/ \E s \in Stocks : /\ require_workshop_stock(s)
                                       /\ lines = {Observation(s, NotCounted)}
    /\ counts' = [counts EXCEPT ![c] = Draft(NoCount, lines)]
    /\ UNCHANGED ledgerVars

require_draft(c, version) ==
    /\ counts[c].status = "draft"
    /\ counts[c].version = version

\* Fault: the balance alone decides whether an observation is current.
IsCurrent_QuantityOnly(line) ==
    IF line.stock = Found THEN line.expected = 0
    ELSE /\ require_workshop_stock(line.stock)
         /\ stock[line.stock].quantity = line.expected

\* Nothing has moved on the row since the line was observed.
IsCurrent(line) ==
    IF line.stock = Found THEN line.expected = 0 /\ line.version = 0
    ELSE /\ require_workshop_stock(line.stock)
         /\ stock[line.stock].version = line.version
         /\ stock[line.stock].quantity = line.expected

CountedOnce(lines) ==
    \A x, y \in lines : x.stock = y.stock /\ x.stock # Found => x = y

\* Replace the draft's lines, if the caller saw its current revision.
save_stocktake(c, version, lines) ==
    /\ require_draft(c, version)
    /\ CountedOnce(lines)
    /\ \A line \in lines : IsCurrent(line)
    /\ counts' = [counts EXCEPT ![c].lines = lines, ![c].version = @ + 1]
    /\ UNCHANGED ledgerVars

(***************************************************************************)
(* Posting                                                                 *)
(***************************************************************************)

CountedLines(lines) == {line \in lines : line.counted # NotCounted}

Differing(lines) == {line \in CountedLines(lines) : line.counted # line.expected}

\* Line x is line with the row it is posted to: a found line's row is inserted
\* under an id no row has.
Places(line, x) ==
    /\ x = [line EXCEPT !.stock = x.stock]
    /\ IF line.stock = Found THEN ~stock[x.stock].made ELSE x.stock = line.stock

\* Stock ids are random: the lines may come in any order of their rows.
PostingOrders(lines) ==
    {order \in [1..Cardinality(Differing(lines)) ->
                   {[line EXCEPT !.stock = s] : line \in Differing(lines), s \in Stocks}] :
        /\ \A k, m \in DOMAIN order : order[k].stock = order[m].stock => k = m
        /\ \A k \in DOMAIN order : \E line \in Differing(lines) : Places(line, order[k])
        /\ \A line \in Differing(lines) : \E k \in DOMAIN order : Places(line, order[k])}

\* Fault: the movement is not linked to its line.
Posted_Unlinked(line) == line

\* A line after posting: linked to its row and its movement.
Posted(line) == [line EXCEPT !.movement = stock[line.stock].version + 1]

\* A retry naming the revision that was posted returns the count: no step.
post_stocktake(c, version, order) ==
    LET lines == counts[c].lines IN
    /\ require_draft(c, version)
    /\ CountedLines(lines) # {}
    /\ \A line \in CountedLines(lines) : IsCurrent(line)
    /\ IF order = <<>> THEN UNCHANGED ledgerVars
       ELSE post_lines([k \in DOMAIN order |->
                           [stock |-> order[k].stock,
                            difference |-> order[k].counted - order[k].expected]])
    /\ counts' = [counts EXCEPT ![c].status = "posted", ![c].version = @ + 1,
                     ![c].lines = (lines \ Differing(lines))
                                  \cup {Posted(order[k]) : k \in DOMAIN order}]

Corrected(c) == \E d \in Counts : counts[d].corrects = c

\* A recount of the rows the posted count named, as they are now.  When the
\* correction exists it is returned: no step.
correct_stocktake(c, d) ==
    /\ counts[c].status = "posted"
    /\ counts[d].status = "none"
    /\ ~Corrected(c)
    /\ counts' = [counts EXCEPT ![d] =
                     Draft(c, {Observation(line.stock, NotCounted) :
                                  line \in {l \in counts[c].lines : l.stock # Found}})]
    /\ UNCHANGED ledgerVars

(***************************************************************************)
(* The workshop works on                                                   *)
(***************************************************************************)

\* The ledger actions that move, create, edit and retire the rows being counted.
Workshop ==
    /\ \E s \in Stocks :
          \/ create_stock(s)
          \/ update_stock(s)
          \/ deactivate_stock(s)
          \/ \E j \in Jobs, q \in Issued : consume_stock(s, j, q)
          \/ \E i \in DOMAIN stock[s].log : reverse_issue(s, i)
    /\ UNCHANGED counts

\* Payloads that pass for current: each row at most once, as it is now.
CurrentLines ==
    {lines \in SUBSET ({Observation(s, q) : s \in Stocks, q \in PhysicalQuantities \cup {NotCounted}}
                       \cup {NewlyFound(q) : q \in PhysicalQuantities}) :
        /\ CountedOnce(lines)
        /\ Cardinality({line \in lines : line.stock = Found}) <= 1
        /\ \A line \in lines : IsCurrent(line)}

CountNext ==
    \/ Workshop
    \/ \E c \in Counts :
          \/ create_stocktake(c, {})
          \/ \E s \in Stocks : create_stocktake(c, {Observation(s, NotCounted)})
          \/ /\ counts[c].version < MaxSaves
             /\ \E version \in 0..counts[c].version, lines \in CurrentLines :
                   save_stocktake(c, version, lines)
          \/ \E version \in 0..counts[c].version, order \in PostingOrders(counts[c].lines) :
                post_stocktake(c, version, order)
          \/ \E d \in Counts : correct_stocktake(c, d)

CountSpec == CountInit /\ [][CountNext]_countVars

-----------------------------------------------------------------------------
(***************************************************************************)
(* Properties                                                              *)
(***************************************************************************)

\* The three tables have their shapes; a count has one line per stock row.
CountTypeOK ==
    /\ TypeOK
    /\ counts \in [Counts -> Count]
    /\ \A c \in Counts : \A x, y \in counts[c].lines :
          x.stock = y.stock /\ x.stock # Found => x = y

PostedLines(c) == {line \in counts[c].lines : line.movement # 0}

\* Whoever counted, the row stood still from the observation to the posting:
\* the movement is the very next one after the version observed, takes the
\* balance from what the line expected and leaves it at what was counted.  An
\* issue and its return in between restore the balance but not the version.
NothingMovedSinceCount ==
    \A c \in Counts : \A line \in PostedLines(c) :
        /\ line.movement = line.version + 1
        /\ line.movement \in DOMAIN stock[line.stock].log
        /\ LET m == stock[line.stock].log[line.movement] IN
           /\ m.kind = "stocktake"
           /\ m.before = line.expected
           /\ m.after = line.counted

\* The lines of counts that movement i of row s answers.
Answered(s, i) ==
    {w \in Counts \X UNION {counts[c].lines : c \in Counts} :
        w[2] \in counts[w[1]].lines /\ w[2].stock = s /\ w[2].movement = i}

\* "Stocktake evidence": posted lines and stocktake movements answer each other
\* one to one.  A draft has moved nothing, and no count was posted twice.
StocktakeEvidence ==
    /\ \A c \in Counts : counts[c].status # "posted" => PostedLines(c) = {}
    /\ \A c \in Counts : counts[c].status = "posted" =>
          \A line \in Differing(counts[c].lines) : line.movement # 0
    /\ \A s \in Stocks : \A i \in DOMAIN stock[s].log :
          stock[s].log[i].kind = "stocktake" => Cardinality(Answered(s, i)) = 1

\* What was posted stays posted as it was, whatever happens to its rows later.
PostedIsFrozen ==
    [][\A c \in Counts : counts[c].status = "posted" => counts'[c] = counts[c]]_countVars
=============================================================================

----------------------------- MODULE StockLedger -----------------------------
(***************************************************************************)
(* The workshop inventory ledger of apps/purchasing.                       *)
(*                                                                         *)
(* A Stock row is an account: its balance and inventory_version, and the   *)
(* StockMovement rows that explain them.  The row a movement takes from or *)
(* gives to is a material CostLine on a job, so the ledger is double       *)
(* entry: what leaves the workshop is charged to a job, in one             *)
(* transaction.  An action is one committed transaction: each locks the    *)
(* rows it reads before it decides (select_for_update).                    *)
(*                                                                         *)
(* Quantities are integers: thousandths of a unit, the width of the        *)
(* quantity columns.  Prices, descriptions and actors are left out.        *)
(***************************************************************************)
EXTENDS Integers, Sequences, FiniteSets, Functions

CONSTANTS
    Stocks,         \* identities a Stock row may have
    Jobs,           \* jobs that carry costs
    AdjustmentJob,  \* the job StocktakeConfiguration names
    NoJob,          \* counterpart_job IS NULL
    OrderRef,       \* ext_refs naming a purchase order line
    NoRef,          \* empty ext_refs
    Quantities,     \* positive quantities a request may name
    DraftQuantities,\* quantities a draft line may be edited to
    MaxLines,       \* bound: lines of one posted stocktake
    MaxMovements,   \* bound: movements on one stock row
    MaxCostLines    \* bound: cost lines ever created

ASSUME LedgerAssumption ==
    /\ Quantities \subseteq Nat \ {0}
    /\ DraftQuantities \subseteq Nat
    /\ AdjustmentJob \in Jobs
    /\ NoJob \notin Jobs
    /\ OrderRef \notin Stocks
    /\ NoRef \notin Stocks \cup {OrderRef}
    /\ MaxLines \in Nat
    /\ MaxMovements \in Nat
    /\ MaxCostLines \in Nat

\* A table holds finitely many rows.
ASSUME StocksAssumption == IsFiniteSet(Stocks)

VARIABLES
    stock,      \* [Stocks -> Account]: the Stock rows, each with its StockMovement rows
    costLines   \* Seq(CostLine): the material CostLine rows of actual cost sets

ledgerVars == <<stock, costLines>>

MovementKind == {"delivery", "delivery_reversal", "issue", "return", "stocktake"}

\* The kinds whose balance is answered by a job cost.
JobKind == {"issue", "return", "stocktake"}

\* cost and reverses are positions (in costLines, in the same log); 0 is NULL.
StockMovement ==
    [kind : MovementKind, change : Int, before : Int, after : Int,
     job : Jobs \cup {NoJob}, cost : Nat, reverses : Nat]

Account ==
    [made : BOOLEAN, active : BOOLEAN, ordered : BOOLEAN,
     quantity : Int, version : Nat, log : Seq(StockMovement)]

Owner == {"none", "stock", "stocktake"}

CostLine ==
    [live : BOOLEAN, job : Jobs, quantity : Int, approved : BOOLEAN,
     managedBy : Owner, ref : Stocks \cup {OrderRef, NoRef}]

(***************************************************************************)
(* The single writer of balances                                           *)
(***************************************************************************)

MovementContext(kind, job, cost, reverses) ==
    [kind |-> kind, job |-> job, cost |-> cost, reverses |-> reverses]

\* An identity that does not exist yet, and one just inserted with quantity 0.
NoRow == [made |-> FALSE, active |-> FALSE, ordered |-> FALSE,
          quantity |-> 0, version |-> 0, log |-> <<>>]

NewRow(ordered) == [made |-> TRUE, active |-> TRUE, ordered |-> ordered,
                    quantity |-> 0, version |-> 0, log |-> <<>>]

Recorded(row, change, context) ==
    [kind |-> context.kind, change |-> change,
     before |-> row.quantity, after |-> row.quantity + change,
     job |-> context.job, cost |-> context.cost, reverses |-> context.reverses]

\* A movement that leaves a balance brings a retired identity back into use.
ActiveAfter(row, change) == row.active \/ row.quantity + change # 0

\* Fault: the row's version is not stepped.
move_stock_VersionKept(row, change, context) ==
    [made     |-> row.made,
     active   |-> ActiveAfter(row, change),
     ordered  |-> row.ordered,
     quantity |-> row.quantity + change,
     version  |-> row.version,
     log      |-> Append(row.log, Recorded(row, change, context))]

\* Record one movement on a locked row and project it onto the balance.
move_stock(row, change, context) ==
    [made     |-> row.made,
     active   |-> ActiveAfter(row, change),
     ordered  |-> row.ordered,
     quantity |-> row.quantity + change,
     version  |-> row.version + 1,
     log      |-> Append(row.log, Recorded(row, change, context))]

Moves(row, n) == Len(row.log) + n <= MaxMovements

Costs(n) == Len(costLines) + n <= MaxCostLines

OwnedCost(job, quantity, owner, ref) ==
    [live |-> TRUE, job |-> job, quantity |-> quantity, approved |-> TRUE,
     managedBy |-> owner, ref |-> ref]

NextCost == Len(costLines) + 1

\* Fault: a retry is taken for a first request.
Reversed_Forgotten(row, i) == FALSE

Reversed(row, i) == \E k \in DOMAIN row.log : row.log[k].reverses = i

Init ==
    /\ stock = [s \in Stocks |-> NoRow]
    /\ costLines = <<>>

(***************************************************************************)
(* Stock identities                                                        *)
(***************************************************************************)

create_stock(s) ==
    /\ ~stock[s].made
    /\ stock' = [stock EXCEPT ![s] = NewRow(FALSE)]
    /\ UNCHANGED costLines

\* Metadata only: the whole row is saved as it was read under its lock.
update_stock(s) ==
    /\ stock[s].made
    /\ UNCHANGED ledgerVars

deactivate_stock(s) ==
    /\ stock[s].made
    /\ stock[s].quantity = 0
    /\ stock' = [stock EXCEPT ![s].active = FALSE]
    /\ UNCHANGED costLines

(***************************************************************************)
(* Workshop drafts: unapproved material lines that name a stock row        *)
(***************************************************************************)

\* The row must exist for its id to be known; the code does not check it.
create_cost_line(s, j, q) ==
    /\ stock[s].made
    /\ Costs(1)
    /\ costLines' = Append(costLines,
                       [live |-> TRUE, job |-> j, quantity |-> q, approved |-> FALSE,
                        managedBy |-> "none", ref |-> s])
    /\ UNCHANGED stock

\* Fault: only the lines of issues are protected, not those of counts.
refuse_workflow_managed_StockOnly(line) == line.managedBy = "stock"

\* Fault: nothing is protected.
refuse_workflow_managed_Dropped(line) == FALSE

\* The generic editor refuses a line a stock movement owns.
refuse_workflow_managed(line) == line.managedBy \in {"stock", "stocktake"}

update_cost_line(l, s, q) ==
    /\ costLines[l].live
    /\ ~refuse_workflow_managed(costLines[l])
    /\ ~costLines[l].approved
    /\ costLines' = [costLines EXCEPT ![l].quantity = q, ![l].ref = s]
    /\ UNCHANGED stock

delete_cost_line(l) ==
    /\ costLines[l].live
    /\ ~refuse_workflow_managed(costLines[l])
    /\ costLines' = [costLines EXCEPT ![l].live = FALSE]
    /\ UNCHANGED stock

(***************************************************************************)
(* Issues and returns                                                      *)
(***************************************************************************)

consume_stock(s, j, q) ==
    /\ stock[s].made
    /\ Moves(stock[s], 1) /\ Costs(1)
    /\ costLines' = Append(costLines, OwnedCost(j, q, "stock", s))
    /\ stock' = [stock EXCEPT ![s] =
                    move_stock(@, -q, MovementContext("issue", j, NextCost, 0))]

\* Fault: a line is approved again.
IsUnissuedDraft_Any(line) == TRUE

IsUnissuedDraft(line) == line.managedBy = "none" /\ ~line.approved

\* consume_stock given a line: the office approves a draft in place.
approve_cost_line(l) ==
    LET line == costLines[l] IN
    /\ line.live
    /\ IsUnissuedDraft(line)
    /\ line.ref \in Stocks
    /\ stock[line.ref].made
    /\ line.quantity > 0
    /\ Moves(stock[line.ref], 1)
    /\ costLines' = [costLines EXCEPT ![l] =
                        OwnedCost(line.job, line.quantity, "stock", line.ref)]
    /\ stock' = [stock EXCEPT ![line.ref] =
                    move_stock(@, -line.quantity, MovementContext("issue", line.job, l, 0))]

\* The account after movement i of row was returned, its credit being cost line c.
Returned(row, i, c) ==
    move_stock(row, -row.log[i].change,
               MovementContext("return", row.log[i].job, c, i))

Credit(row, i) == OwnedCost(row.log[i].job, row.log[i].change, "stock", NoRef)

\* A retry finds the reversal that exists and changes nothing: a stuttering step.
reverse_issue(s, i) ==
    /\ stock[s].log[i].kind = "issue"
    /\ ~Reversed(stock[s], i)
    /\ Moves(stock[s], 1) /\ Costs(1)
    /\ costLines' = Append(costLines, Credit(stock[s], i))
    /\ stock' = [stock EXCEPT ![s] = Returned(@, i, NextCost)]

(***************************************************************************)
(* Supplier receipts                                                       *)
(***************************************************************************)

DeliveryContext == MovementContext("delivery", NoJob, 0, 0)

create_stock_from_allocation(s, q) ==
    /\ ~stock[s].made
    /\ Moves(NoRow, 1)
    /\ stock' = [stock EXCEPT ![s] = move_stock(NewRow(TRUE), q, DeliveryContext)]
    /\ UNCHANGED costLines

\* Fault: the job is charged and the material stays in the workshop.
create_costline_from_allocation_NotIssued(s, j, q) ==
    /\ ~stock[s].made
    /\ Moves(NoRow, 2) /\ Costs(1)
    /\ costLines' = Append(costLines, OwnedCost(j, q, "stock", OrderRef))
    /\ stock' = [stock EXCEPT ![s] = move_stock(NewRow(TRUE), q, DeliveryContext)]

\* Material received straight onto a job: in through the workshop and out again.
create_costline_from_allocation(s, j, q) ==
    /\ ~stock[s].made
    /\ Moves(NoRow, 2) /\ Costs(1)
    /\ costLines' = Append(costLines, OwnedCost(j, q, "stock", OrderRef))
    /\ stock' = [stock EXCEPT ![s] =
                    move_stock(move_stock(NewRow(TRUE), q, DeliveryContext),
                               -q, MovementContext("issue", j, NextCost, 0))]

\* The issue a job receipt made: the one whose cost names the order.
IsReceiptIssue(row, i) ==
    /\ row.log[i].kind = "issue"
    /\ costLines[row.log[i].cost].ref = OrderRef

\* DELIVERY is the first movement of an ordered row.
ReverseDelivery(row) ==
    move_stock(row, -row.log[1].change, MovementContext("delivery_reversal", NoJob, 0, 1))

\* allocation_type "stock"
reverse_stock_allocation(s) ==
    /\ stock[s].ordered
    /\ ~Reversed(stock[s], 1)
    /\ Moves(stock[s], 1)
    /\ stock' = [stock EXCEPT ![s] = ReverseDelivery(@)]
    /\ UNCHANGED costLines

\* allocation_type "job": the job is credited first, unless it already was.
reverse_job_allocation(s, i) ==
    /\ stock[s].ordered
    /\ IsReceiptIssue(stock[s], i)
    /\ ~Reversed(stock[s], 1)
    /\ \/ /\ Reversed(stock[s], i)
          /\ Moves(stock[s], 1)
          /\ stock' = [stock EXCEPT ![s] = ReverseDelivery(@)]
          /\ UNCHANGED costLines
       \/ /\ ~Reversed(stock[s], i)
          /\ Moves(stock[s], 2) /\ Costs(1)
          /\ stock' = [stock EXCEPT ![s] = ReverseDelivery(Returned(@, i, NextCost))]
          /\ costLines' = Append(costLines, Credit(stock[s], i))

(***************************************************************************)
(* Stocktake postings                                                      *)
(***************************************************************************)

\* The row a difference is posted to: material newly found gets an identity.
Counted(s) == IF stock[s].made THEN stock[s] ELSE NewRow(FALSE)

\* Post every counted difference of one stocktake in one transaction: the
\* k-th line charges the k-th new cost line and moves its own stock row.
post_lines(lines) ==
    /\ lines # <<>>
    /\ \A k \in DOMAIN lines :
          /\ stock[lines[k].stock].made => stock[lines[k].stock].active
          /\ Moves(stock[lines[k].stock], 1)
    /\ Costs(Len(lines))
    /\ costLines' = costLines \o
          [k \in DOMAIN lines |->
              OwnedCost(AdjustmentJob, -lines[k].difference, "stocktake", NoRef)]
    /\ stock' = [s \in Stocks |->
          IF \E k \in DOMAIN lines : lines[k].stock = s
          THEN LET k == CHOOSE k \in DOMAIN lines : lines[k].stock = s
               IN  move_stock(Counted(s), lines[k].difference,
                              MovementContext("stocktake", AdjustmentJob, Len(costLines) + k, 0))
          ELSE stock[s]]

Differences == Quantities \cup {-q : q \in Quantities}

\* Each stock row has at most one line: the constraint stocktake_unique_stock.
CountLines ==
    {lines \in UNION {[1..n -> [stock : Stocks, difference : Differences]] : n \in 1..MaxLines} :
        \A k, m \in DOMAIN lines : lines[k].stock = lines[m].stock => k = m}

Next ==
    \/ \E s \in Stocks :
          \/ create_stock(s)
          \/ update_stock(s)
          \/ deactivate_stock(s)
          \/ reverse_stock_allocation(s)
          \/ \E i \in DOMAIN stock[s].log :
                reverse_issue(s, i) \/ reverse_job_allocation(s, i)
          \/ \E q \in Quantities :
                \/ create_stock_from_allocation(s, q)
                \/ \E j \in Jobs :
                      \/ create_cost_line(s, j, q)
                      \/ consume_stock(s, j, q)
                      \/ create_costline_from_allocation(s, j, q)
    \/ \E l \in DOMAIN costLines :
          \/ delete_cost_line(l)
          \/ approve_cost_line(l)
          \/ \E s \in Stocks, q \in DraftQuantities : update_cost_line(l, s, q)
    \/ \E lines \in CountLines : post_lines(lines)

Spec == Init /\ [][Next]_ledgerVars

-----------------------------------------------------------------------------
(***************************************************************************)
(* Properties                                                              *)
(***************************************************************************)

\* Every row and every cost line has the shape of its table.
TypeOK ==
    /\ stock \in [Stocks -> Account]
    /\ costLines \in Seq(CostLine)

\* The history of one row explains its balance: the movements form a chain from
\* zero to the stored quantity, and inventory_version counts them.
ChainFrom(row) ==
    /\ row.version = Len(row.log)
    /\ row.quantity = IF row.log = <<>> THEN 0 ELSE row.log[Len(row.log)].after
    /\ \A i \in DOMAIN row.log :
          /\ row.log[i].after = row.log[i].before + row.log[i].change
          /\ row.log[i].before = IF i = 1 THEN 0 ELSE row.log[i - 1].after

\* "Movement continuity" and "Stock balances" of inventory_audit_findings: no
\* sequence of receipts, issues, returns, counts and retirements leaves a gap
\* in a row's history or a balance that history does not explain.
LedgerContinuity == \A s \in Stocks : ChainFrom(stock[s])

OwnerOf(kind) == IF kind = "stocktake" THEN "stocktake" ELSE "stock"

\* c is the job cost of movement m.
Answers(c, m) ==
    /\ c.live /\ c.approved
    /\ c.managedBy = OwnerOf(m.kind)
    /\ c.job = m.job
    /\ c.quantity = -m.change

\* "Job cost counterparts": what a movement takes from the workshop stands on
\* its job as an approved, live cost of the opposite quantity, whatever the
\* cost-line editor did since; cost_line is one to one.
JobCostCounterparts ==
    /\ \A s \in Stocks : \A i \in DOMAIN stock[s].log :
          LET m == stock[s].log[i] IN
          m.kind \in JobKind =>
             m.cost \in DOMAIN costLines /\ Answers(costLines[m.cost], m)
    /\ \A s, t \in Stocks : \A i \in DOMAIN stock[s].log, k \in DOMAIN stock[t].log :
          /\ stock[s].log[i].kind \in JobKind
          /\ stock[t].log[k].kind \in JobKind
          /\ stock[s].log[i].cost = stock[t].log[k].cost
          => s = t /\ i = k

Owned(line) == line.managedBy # "none"

\* "Unlinked inventory costs": a cost owned by the inventory workflows always
\* has a movement behind it, so no job is charged for material nobody took.
OwnedCostsAreLinked ==
    \A l \in DOMAIN costLines :
        Owned(costLines[l]) =>
            \E s \in Stocks : \E i \in DOMAIN stock[s].log :
                stock[s].log[i].kind \in JobKind /\ stock[s].log[i].cost = l

\* "Reversal evidence": a return or a delivery reversal names an earlier
\* movement of its own row, of the kind it undoes, and undoes all of it; a
\* movement is reversed once, however often the request is repeated.
ReversalEvidence ==
    \A s \in Stocks :
        LET log == stock[s].log IN
        /\ \A k \in DOMAIN log :
              log[k].kind \in {"return", "delivery_reversal"} =>
                 /\ log[k].reverses \in 1..(k - 1)
                 /\ LET original == log[log[k].reverses] IN
                    /\ original.kind = IF log[k].kind = "return" THEN "issue" ELSE "delivery"
                    /\ log[k].job = original.job
                    /\ log[k].change = -original.change
        /\ \A k, m \in DOMAIN log :
              log[k].reverses = log[m].reverses /\ log[k].reverses # 0 => k = m

Delivered(row) ==
    SumFunction([i \in DOMAIN row.log |->
        IF row.log[i].kind \in {"delivery", "delivery_reversal"} THEN row.log[i].change ELSE 0])

\* Double entry: the workshop balance and the material charged to jobs together
\* are what suppliers delivered and did not take back.  Drafts, edits, deleted
\* lines, returns and counts move material between the two sides only.
MaterialConserved ==
    SumFunction([s \in Stocks |-> stock[s].quantity])
    + SumFunction([l \in DOMAIN costLines |->
          IF costLines[l].live /\ Owned(costLines[l]) THEN costLines[l].quantity ELSE 0])
    = SumFunction([s \in Stocks |-> Delivered(stock[s])])

NetIssued(row, j) ==
    SumFunction([i \in DOMAIN row.log |->
        IF row.log[i].kind \in {"issue", "return"} /\ row.log[i].job = j
        THEN -row.log[i].change ELSE 0])

\* A job is never credited for more of a row than it was issued: repeated
\* returns, and a job receipt reversed after its issue was returned, credit once.
NeverOverCredited == \A s \in Stocks, j \in Jobs : NetIssued(stock[s], j) >= 0

\* What a step leaves of the past: every recorded movement, and every cost line
\* that a movement owns.
AppendOnly ==
    /\ \A s \in Stocks :
          /\ Len(stock[s].log) <= Len(stock'[s].log)
          /\ \A i \in DOMAIN stock[s].log : stock'[s].log[i] = stock[s].log[i]
    /\ \A l \in DOMAIN costLines :
          Owned(costLines[l]) => l \in DOMAIN costLines' /\ costLines'[l] = costLines[l]

\* History is append only: no step changes or drops a recorded movement, or
\* touches a cost line that a movement owns.
HistoryImmutable == [][AppendOnly]_ledgerVars
-----------------------------------------------------------------------------
(***************************************************************************)
(* The book this ledger keeps                                              *)
(***************************************************************************)

\* The page of a row: what its movements say, without what the workshop calls them.
Page(row) ==
    [i \in DOMAIN row.log |->
        [change |-> row.log[i].change, balance |-> row.log[i].after, party |-> row.log[i].job,
         charge |-> row.log[i].cost, undoes |-> row.log[i].reverses]]

\* The charges are the cost lines the inventory owns; drafts and the lines of other
\* workflows are none.
StandingCharges ==
    [l \in {k \in DOMAIN costLines : Owned(costLines[k]) /\ costLines[k].live} |->
        [party |-> costLines[l].job, amount |-> costLines[l].quantity]]

Book == INSTANCE AccountBook WITH
    Accounts <- Stocks, Parties <- Jobs, Nobody <- NoJob,
    book <- [s \in Stocks |-> Page(stock[s])], charges <- StandingCharges

\* The ledger implements the account book: a request, whichever handler serves it and
\* however often it is sent, adds sound entries with exactly their charges in one
\* step, or leaves book and charges alone.
KeepsTheBook == Book!Spec
=============================================================================

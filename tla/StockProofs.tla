------------------------------ MODULE StockProofs ------------------------------
(***************************************************************************)
(* Proofs about StockLedger, that it implements AccountBook, and about     *)
(* Stocktake, which extends it: for every set of stock rows, jobs, counts  *)
(* and quantities and every bound.                                         *)
(***************************************************************************)
EXTENDS Stocktake, SumLemmas

-----------------------------------------------------------------------------
(* The ledger.                                                             *)

USE LedgerAssumption

Context ==
    [kind : MovementKind, job : Jobs \cup {NoJob}, cost : Nat, reverses : Nat]

-----------------------------------------------------------------------------
(* What the single writer does to one row.                                 *)

\* A movement appends exactly one entry, keeps the earlier ones, and steps the
\* balance and the version with it.
LEMMA MoveStockFields ==
    ASSUME NEW row \in Account, NEW change \in Int, NEW context \in Context
    PROVE  LET after == move_stock(row, change, context) IN
           /\ after \in Account
           /\ after.made = row.made
           /\ after.quantity = row.quantity + change
           /\ after.version = row.version + 1
           /\ Len(after.log) = Len(row.log) + 1
           /\ \A i \in DOMAIN row.log : after.log[i] = row.log[i]
           /\ after.log[Len(row.log) + 1] = Recorded(row, change, context)
<1> DEFINE after == move_stock(row, change, context)
<1>1. Recorded(row, change, context) \in StockMovement
  BY DEF Recorded, Account, Context, StockMovement
<1>2. after.log = Append(row.log, Recorded(row, change, context))
  BY DEF move_stock, Recorded, Account
<1>3. row.log \in Seq(StockMovement)
  BY DEF Account
<1>4. /\ after.log \in Seq(StockMovement)
      /\ Len(after.log) = Len(row.log) + 1
      /\ \A i \in DOMAIN row.log : after.log[i] = row.log[i]
      /\ after.log[Len(row.log) + 1] = Recorded(row, change, context)
  BY <1>1, <1>2, <1>3
<1>5. /\ after.made = row.made
      /\ after.quantity = row.quantity + change
      /\ after.version = row.version + 1
  BY DEF move_stock, Account
<1>6. ActiveAfter(row, change) \in BOOLEAN
  BY DEF ActiveAfter
<1>7. after \in Account
  BY <1>4, <1>6 DEF move_stock, Account
<1> QED
  BY <1>4, <1>5, <1>7

\* A movement extends a chain to a chain.
LEMMA MoveStockChain ==
    ASSUME NEW row \in Account, NEW change \in Int, NEW context \in Context,
           ChainFrom(row)
    PROVE  ChainFrom(move_stock(row, change, context))
<1> DEFINE after == move_stock(row, change, context)
           n == Len(row.log)
<1>1. /\ after \in Account
      /\ after.quantity = row.quantity + change
      /\ after.version = row.version + 1
      /\ Len(after.log) = n + 1
      /\ \A i \in DOMAIN row.log : after.log[i] = row.log[i]
      /\ after.log[n + 1] = Recorded(row, change, context)
  BY MoveStockFields
<1>2. /\ row.log \in Seq(StockMovement) /\ n \in Nat /\ DOMAIN row.log = 1..n
      /\ row.quantity \in Int
      /\ row.version = n
      /\ row.quantity = IF row.log = <<>> THEN 0 ELSE row.log[n].after
      /\ \A i \in 1..n :
            /\ row.log[i].after = row.log[i].before + row.log[i].change
            /\ row.log[i].before = IF i = 1 THEN 0 ELSE row.log[i - 1].after
  BY DEF ChainFrom, Account
<1>3. after.log \in Seq(StockMovement) /\ DOMAIN after.log = 1..(n + 1) /\ after.log # <<>>
  BY <1>1, <1>2 DEF Account
<1>4. after.quantity = after.log[Len(after.log)].after
  BY <1>1, <1>2 DEF Recorded
<1>5. ASSUME NEW i \in 1..(n + 1)
      PROVE  /\ after.log[i].after = after.log[i].before + after.log[i].change
             /\ after.log[i].before = IF i = 1 THEN 0 ELSE after.log[i - 1].after
  <2>1. CASE i \in 1..n
    <3>1. after.log[i] = row.log[i]
      BY <2>1, <1>1, <1>2
    <3>2. ASSUME i # 1 PROVE i - 1 \in 1..n /\ after.log[i - 1] = row.log[i - 1]
      <4>1. i - 1 \in 1..n
        BY <2>1, <3>2, <1>2
      <4> QED
        BY <4>1, <1>1, <1>2
    <3> QED
      BY <2>1, <3>1, <3>2, <1>2
  <2>2. CASE i = n + 1
    <3>1. after.log[i] = Recorded(row, change, context)
      BY <2>2, <1>1
    <3>2. CASE n = 0
      BY <2>2, <3>1, <3>2, <1>2 DEF Recorded
    <3>3. CASE n # 0
      <4>1. n \in 1..n /\ row.log # <<>> /\ i # 1 /\ i - 1 = n
        BY <3>3, <2>2, <1>2
      <4>2. after.log[i - 1] = row.log[n]
        BY <4>1, <1>1, <1>2
      <4> QED
        BY <3>1, <4>1, <4>2, <1>2 DEF Recorded
    <3> QED BY <3>2, <3>3
  <2> QED BY <2>1, <2>2, <1>2
<1> QED
  BY <1>1, <1>2, <1>3, <1>4, <1>5 DEF ChainFrom

\* A row that does not exist and a row just created are accounts whose empty
\* chain explains their balance and version. (create_stock)
LEMMA NewRowFacts ==
    /\ NoRow \in Account /\ ChainFrom(NoRow) /\ NoRow.log = <<>>
    /\ \A o \in BOOLEAN :
          /\ NewRow(o) \in Account /\ ChainFrom(NewRow(o))
          /\ NewRow(o).log = <<>> /\ NewRow(o).quantity = 0
<1>1. NoRow \in Account /\ ChainFrom(NoRow) /\ NoRow.log = <<>>
  BY DEF NoRow, Account, ChainFrom
<1>2. ASSUME NEW o \in BOOLEAN
      PROVE  /\ NewRow(o) \in Account
             /\ NewRow(o).log = <<>> /\ NewRow(o).quantity = 0
             /\ NewRow(o).version = 0
  BY DEF NewRow, Account
<1>3. ASSUME NEW o \in BOOLEAN PROVE ChainFrom(NewRow(o))
  BY <1>2 DEF ChainFrom
<1> QED BY <1>1, <1>2, <1>3

-----------------------------------------------------------------------------
(* The inductive invariant, and what a step must show to keep it.          *)

\* An identity without a row has no history, and an ordered one begins with
\* its delivery.
HistoryShape ==
    \A s \in Stocks : /\ ~stock[s].made => stock[s].log = <<>>
                      /\ stock[s].ordered => stock[s].log # <<>>

\* TypeOK alone is not inductive: a return charges the job its issue names, and
\* that this is a job at all follows from the issue's cost line.
IInv == TypeOK /\ HistoryShape /\ LedgerContinuity /\ JobCostCounterparts

\* new is old with movements appended.
Extends(old, new) ==
    /\ new \in Account
    /\ ChainFrom(new)
    /\ ~new.made => new.log = <<>>
    /\ new.ordered => new.log # <<>>
    /\ Len(old.log) <= Len(new.log)
    /\ \A i \in DOMAIN old.log : new.log[i] = old.log[i]

\* The cost lines movements own survive the step.
OwnedKept ==
    /\ costLines' \in Seq(CostLine)
    /\ \A l \in DOMAIN costLines :
          Owned(costLines[l]) => l \in DOMAIN costLines' /\ costLines'[l] = costLines[l]

\* (s, i) is a job movement this step recorded.
Fresh(s, i) ==
    /\ i \in DOMAIN stock'[s].log
    /\ i \notin DOMAIN stock[s].log
    /\ stock'[s].log[i].kind \in JobKind

\* Its cost line was not owned before.
FreshIsAnswered(s, i) ==
    LET c == stock'[s].log[i].cost IN
    /\ c \in DOMAIN costLines'
    /\ Answers(costLines'[c], stock'[s].log[i])
    /\ ~(c \in DOMAIN costLines /\ Owned(costLines[c]))

Preserved ==
    /\ stock' \in [Stocks -> Account]
    /\ \A s \in Stocks : Extends(stock[s], stock'[s])
    /\ OwnedKept
    /\ \A s \in Stocks : \A i : Fresh(s, i) => FreshIsAnswered(s, i)
    /\ \A s, t \in Stocks : \A i, k :
          /\ Fresh(s, i) /\ Fresh(t, k)
          /\ stock'[s].log[i].cost = stock'[t].log[k].cost
          => s = t /\ i = k

\* A step that only appends, and whose job movements take cost lines nobody
\* owned, keeps the invariant.
LEMMA PreservedKeeps ==
    ASSUME IInv, Preserved
    PROVE  IInv' /\ AppendOnly
<1>1. AppendOnly
  BY DEF Preserved, Extends, OwnedKept, AppendOnly
<1>2. TypeOK' /\ HistoryShape' /\ LedgerContinuity'
  BY DEF Preserved, Extends, OwnedKept, TypeOK, HistoryShape, LedgerContinuity
<1>3. ASSUME NEW s \in Stocks, NEW i \in DOMAIN stock'[s].log,
             stock'[s].log[i].kind \in JobKind
      PROVE  /\ stock'[s].log[i].cost \in DOMAIN costLines'
             /\ Answers(costLines'[stock'[s].log[i].cost], stock'[s].log[i])
             /\ ~Fresh(s, i) =>
                   /\ i \in DOMAIN stock[s].log
                   /\ stock[s].log[i] = stock'[s].log[i]
                   /\ stock'[s].log[i].cost \in DOMAIN costLines
                   /\ Owned(costLines[stock'[s].log[i].cost])
  <2>1. CASE Fresh(s, i)
    BY <2>1 DEF Preserved, FreshIsAnswered
  <2>2. CASE ~Fresh(s, i)
    <3>1. i \in DOMAIN stock[s].log /\ stock'[s].log[i] = stock[s].log[i]
      BY <1>3, <2>2 DEF Fresh, Preserved, Extends
    <3> DEFINE c == stock[s].log[i].cost
    <3>2. c \in DOMAIN costLines /\ Answers(costLines[c], stock[s].log[i])
      BY <1>3, <3>1 DEF IInv, JobCostCounterparts
    <3>3. Owned(costLines[c])
      BY <3>2 DEF Answers, Owned, OwnerOf
    <3>4. c \in DOMAIN costLines' /\ costLines'[c] = costLines[c]
      BY <3>2, <3>3 DEF Preserved, OwnedKept
    <3> QED BY <3>1, <3>2, <3>3, <3>4
  <2> QED BY <2>1, <2>2
<1>4. ASSUME NEW s \in Stocks, NEW t \in Stocks,
             NEW i \in DOMAIN stock'[s].log, NEW k \in DOMAIN stock'[t].log,
             stock'[s].log[i].kind \in JobKind, stock'[t].log[k].kind \in JobKind,
             stock'[s].log[i].cost = stock'[t].log[k].cost
      PROVE  s = t /\ i = k
  <2>1. CASE Fresh(s, i) /\ Fresh(t, k)
    BY <1>4, <2>1 DEF Preserved
  <2>2. CASE Fresh(s, i) /\ ~Fresh(t, k)
    BY <1>3, <1>4, <2>2 DEF Preserved, FreshIsAnswered
  <2>3. CASE ~Fresh(s, i) /\ Fresh(t, k)
    BY <1>3, <1>4, <2>3 DEF Preserved, FreshIsAnswered
  <2>4. CASE ~Fresh(s, i) /\ ~Fresh(t, k)
    BY <1>3, <1>4, <2>4 DEF IInv, JobCostCounterparts
  <2> QED BY <2>1, <2>2, <2>3, <2>4
<1>5. JobCostCounterparts'
  BY <1>3, <1>4 DEF JobCostCounterparts
<1> QED
  BY <1>1, <1>2, <1>5 DEF IInv

-----------------------------------------------------------------------------
(* Steps by the number of movements they record.                           *)

\* A context put together from well-formed parts is one. (MovementContext)
LEMMA ContextType ==
    ASSUME NEW kind \in MovementKind, NEW job \in Jobs \cup {NoJob},
           NEW cost \in Nat, NEW reverses \in Nat
    PROVE  MovementContext(kind, job, cost, reverses) \in Context
BY DEF MovementContext, Context

\* A row an action found, or the new row it moves instead.
Base(s, base) ==
    /\ base \in Account
    /\ ChainFrom(base)
    /\ base.made
    /\ base.log = stock[s].log

\* The row a request starts from, the stored one or the one just created, is an
\* existing account with the stored log and an explained balance.
LEMMA BaseExists ==
    ASSUME IInv, NEW s \in Stocks
    PROVE  /\ stock[s].made => Base(s, stock[s])
           /\ ~stock[s].made => \A o \in BOOLEAN : Base(s, NewRow(o))
<1>1. stock[s].made => Base(s, stock[s])
  BY DEF IInv, TypeOK, LedgerContinuity, Base
<1>2. ASSUME ~stock[s].made, NEW o \in BOOLEAN PROVE Base(s, NewRow(o))
  <2>1. NewRow(o).made
    BY DEF NewRow
  <2> QED
    BY <1>2, <2>1, NewRowFacts DEF IInv, HistoryShape, Base
<1> QED BY <1>1, <1>2

\* A row that no movement touched extends itself.
LEMMA ExtendsItself ==
    ASSUME IInv, NEW s \in Stocks
    PROVE  Extends(stock[s], stock[s])
<1>1. stock[s] \in Account /\ stock[s].log \in Seq(StockMovement)
  BY DEF IInv, TypeOK, Account
<1>2. Len(stock[s].log) \in Nat
  BY <1>1
<1> QED
  BY <1>1, <1>2 DEF IInv, HistoryShape, LedgerContinuity, Extends

\* A row after one movement extends the row it was.
LEMMA MoveExtends ==
    ASSUME NEW old \in Account, NEW base \in Account, ChainFrom(base), base.made,
           base.log = old.log, NEW change \in Int, NEW context \in Context
    PROVE  /\ Extends(old, move_stock(base, change, context))
           /\ move_stock(base, change, context).made
           /\ DOMAIN move_stock(base, change, context).log = 1..(Len(old.log) + 1)
           /\ move_stock(base, change, context).log[Len(old.log) + 1]
                 = Recorded(base, change, context)
<1> DEFINE after == move_stock(base, change, context)
<1>1. /\ after \in Account /\ after.made
      /\ Len(after.log) = Len(old.log) + 1
      /\ \A i \in DOMAIN old.log : after.log[i] = old.log[i]
      /\ after.log[Len(old.log) + 1] = Recorded(base, change, context)
  BY MoveStockFields
<1>2. ChainFrom(after)
  BY MoveStockChain
<1>3. /\ Len(old.log) \in Nat /\ DOMAIN after.log = 1..(Len(old.log) + 1)
      /\ after.log # <<>>
  BY <1>1 DEF Account
<1> QED
  BY <1>1, <1>2, <1>3 DEF Extends

\* Adding a cost line keeps every line that a movement owns.
LEMMA CostAppended ==
    ASSUME IInv, NEW c \in CostLine, costLines' = Append(costLines, c)
    PROVE  /\ OwnedKept
           /\ NextCost \in Nat
           /\ NextCost \in DOMAIN costLines'
           /\ NextCost \notin DOMAIN costLines
           /\ costLines'[NextCost] = c
<1>1. costLines \in Seq(CostLine) /\ Len(costLines) \in Nat
  BY DEF IInv, TypeOK
<1> QED
  BY <1>1 DEF OwnedKept, NextCost

\* A request that leaves the cost lines alone keeps those a movement owns.
LEMMA CostsUnchanged ==
    ASSUME IInv, UNCHANGED costLines
    PROVE  OwnedKept
BY DEF IInv, TypeOK, OwnedKept

\* No movement: the logs stand.
LEMMA NoMovement ==
    ASSUME IInv, stock' \in [Stocks -> Account], OwnedKept,
           \A s \in Stocks : /\ Extends(stock[s], stock'[s])
                             /\ stock'[s].log = stock[s].log
    PROVE  Preserved
BY DEF Preserved, Fresh

\* One movement on row s.
LEMMA OneMovement ==
    ASSUME IInv, NEW s \in Stocks, NEW base, Base(s, base),
           NEW change \in Int, NEW context \in Context,
           stock' = [stock EXCEPT ![s] = move_stock(base, change, context)],
           OwnedKept,
           context.kind \in JobKind =>
              /\ context.cost \in DOMAIN costLines'
              /\ Answers(costLines'[context.cost], Recorded(base, change, context))
              /\ ~(context.cost \in DOMAIN costLines /\ Owned(costLines[context.cost]))
    PROVE  Preserved
<1> DEFINE n == Len(stock[s].log)
<1>0. stock \in [Stocks -> Account] /\ stock[s].log \in Seq(StockMovement) /\ n \in Nat
  BY DEF IInv, TypeOK, Account
<1>1. /\ stock'[s] = move_stock(base, change, context)
      /\ \A t \in Stocks : t # s => stock'[t] = stock[t]
  BY <1>0
<1>2. /\ Extends(stock[s], stock'[s])
      /\ DOMAIN stock'[s].log = 1..(n + 1)
      /\ stock'[s].log[n + 1] = Recorded(base, change, context)
  BY <1>0, <1>1, MoveExtends DEF Base
<1>3. \A t \in Stocks : Extends(stock[t], stock'[t])
  BY <1>1, <1>2, ExtendsItself
<1>4. stock' \in [Stocks -> Account]
  BY <1>0, <1>2 DEF Extends
<1>5. ASSUME NEW t \in Stocks, NEW i, Fresh(t, i)
      PROVE  t = s /\ i = n + 1
  <2>1. t = s
    BY <1>1, <1>5 DEF Fresh
  <2> QED
    BY <2>1, <1>0, <1>2, <1>5 DEF Fresh
<1>6. ASSUME NEW t \in Stocks, NEW i, Fresh(t, i)
      PROVE  FreshIsAnswered(t, i)
  <2>1. t = s /\ stock'[t].log[i] = Recorded(base, change, context)
    BY <1>2, <1>5, <1>6
  <2>2. context.kind \in JobKind
    BY <1>6, <2>1 DEF Fresh, Recorded
  <2>3. stock'[t].log[i].cost = context.cost
    BY <2>1 DEF Recorded
  <2> QED
    BY <2>1, <2>2, <2>3 DEF FreshIsAnswered
<1> QED
  BY <1>3, <1>4, <1>5, <1>6 DEF Preserved

\* Two movements on row s, of which at most one has a job cost.
LEMMA TwoMovements ==
    ASSUME IInv, NEW s \in Stocks, NEW base, Base(s, base),
           NEW x \in Int, NEW first \in Context,
           NEW y \in Int, NEW second \in Context,
           stock' = [stock EXCEPT ![s] =
                        move_stock(move_stock(base, x, first), y, second)],
           OwnedKept,
           NEW c, c \in DOMAIN costLines',
           ~(c \in DOMAIN costLines /\ Owned(costLines[c])),
           ~(first.kind \in JobKind /\ second.kind \in JobKind),
           first.kind \in JobKind =>
              first.cost = c /\ Answers(costLines'[c], Recorded(base, x, first)),
           second.kind \in JobKind =>
              /\ second.cost = c
              /\ Answers(costLines'[c], Recorded(move_stock(base, x, first), y, second))
    PROVE  Preserved
<1> DEFINE n == Len(stock[s].log)
           mid == move_stock(base, x, first)
           new == move_stock(mid, y, second)
<1>0. stock \in [Stocks -> Account] /\ stock[s].log \in Seq(StockMovement) /\ n \in Nat
  BY DEF IInv, TypeOK, Account
<1>1. stock'[s] = new /\ \A t \in Stocks : t # s => stock'[t] = stock[t]
  BY <1>0
<1>2. /\ Extends(stock[s], mid) /\ mid.made /\ mid \in Account /\ ChainFrom(mid)
      /\ DOMAIN mid.log = 1..(n + 1) /\ Len(mid.log) = n + 1
      /\ mid.log[n + 1] = Recorded(base, x, first)
  <2>1. /\ Extends(stock[s], mid) /\ mid.made
        /\ DOMAIN mid.log = 1..(n + 1)
        /\ mid.log[n + 1] = Recorded(base, x, first)
    BY <1>0, MoveExtends DEF Base
  <2> QED
    BY <1>0, <2>1, MoveStockFields DEF Extends, Base
<1>3. /\ Extends(mid, new)
      /\ DOMAIN new.log = 1..(n + 2)
      /\ new.log[n + 2] = Recorded(mid, y, second)
  BY <1>0, <1>2, MoveExtends
<1>4. Extends(stock[s], new) /\ new.log[n + 1] = Recorded(base, x, first)
  <2>1. mid.log \in Seq(StockMovement) /\ new.log \in Seq(StockMovement)
    BY <1>2, <1>3 DEF Account, Extends
  <2>2. DOMAIN stock[s].log \subseteq DOMAIN mid.log /\ n + 1 \in DOMAIN mid.log
    BY <1>0, <1>2
  <2>3. Len(stock[s].log) <= Len(new.log)
    BY <1>0, <1>2, <1>3, <2>1
  <2> QED
    BY <1>2, <1>3, <2>2, <2>3 DEF Extends
<1>5. \A t \in Stocks : Extends(stock[t], stock'[t])
  BY <1>1, <1>4, ExtendsItself
<1>6. stock' \in [Stocks -> Account]
  BY <1>0, <1>3 DEF Extends
<1>7. ASSUME NEW t \in Stocks, NEW i, Fresh(t, i)
      PROVE  /\ t = s
             /\ \/ i = n + 1 /\ first.kind \in JobKind /\ stock'[t].log[i] = Recorded(base, x, first)
                \/ i = n + 2 /\ second.kind \in JobKind /\ stock'[t].log[i] = Recorded(mid, y, second)
  <2>1. t = s
    BY <1>1, <1>7 DEF Fresh
  <2>2. i = n + 1 \/ i = n + 2
    BY <1>0, <1>1, <1>3, <1>7, <2>1 DEF Fresh
  <2> QED
    BY <1>1, <1>3, <1>4, <1>7, <2>1, <2>2 DEF Fresh, Recorded
<1>8. ASSUME NEW t \in Stocks, NEW i, Fresh(t, i)
      PROVE  FreshIsAnswered(t, i)
  <2>1. CASE first.kind \in JobKind /\ stock'[t].log[i] = Recorded(base, x, first)
    BY <2>1 DEF FreshIsAnswered, Recorded
  <2>2. CASE second.kind \in JobKind /\ stock'[t].log[i] = Recorded(mid, y, second)
    BY <2>2 DEF FreshIsAnswered, Recorded
  <2> QED
    BY <1>7, <1>8, <2>1, <2>2
<1>9. \A t, u \in Stocks : \A i, k : Fresh(t, i) /\ Fresh(u, k) => t = u /\ i = k
  BY <1>7
<1> QED
  BY <1>5, <1>6, <1>8, <1>9 DEF Preserved

-----------------------------------------------------------------------------
(* One lemma per kind of request.                                          *)

\* Identities and drafts record no movement.
LEMMA IdentityStep ==
    ASSUME IInv, NEW s \in Stocks,
           create_stock(s) \/ update_stock(s) \/ deactivate_stock(s)
    PROVE  Preserved
<1>0. stock \in [Stocks -> Account] /\ stock[s] \in Account
  BY DEF IInv, TypeOK
<1>1. OwnedKept
  BY CostsUnchanged DEF create_stock, update_stock, deactivate_stock, ledgerVars
<1>2. ASSUME NEW row \in Account, stock' = [stock EXCEPT ![s] = row],
             Extends(stock[s], row), row.log = stock[s].log
      PROVE  Preserved
  <2>1. stock' \in [Stocks -> Account]
    BY <1>0, <1>2
  <2>2. \A t \in Stocks : Extends(stock[t], stock'[t]) /\ stock'[t].log = stock[t].log
    BY <1>0, <1>2, ExtendsItself
  <2> QED
    BY <1>1, <2>1, <2>2, NoMovement
<1>3. CASE create_stock(s)
  <2>1. Base(s, NewRow(FALSE))
    BY <1>3, BaseExists DEF create_stock
  <2>2. Extends(stock[s], NewRow(FALSE))
    <3>1. ~NewRow(FALSE).ordered
      BY DEF NewRow
    <3> QED
      BY <2>1, <3>1, <1>0, ExtendsItself DEF Base, Extends
  <2> QED
    BY <1>2, <1>3, <2>1, <2>2 DEF create_stock, Base
<1>4. CASE update_stock(s)
  BY <1>4, <1>0, <1>2, ExtendsItself DEF update_stock, ledgerVars
<1>5. CASE deactivate_stock(s)
  <2> DEFINE row == [stock[s] EXCEPT !.active = FALSE]
  <2>1. /\ row \in Account /\ row.log = stock[s].log
        /\ row.made = stock[s].made /\ row.ordered = stock[s].ordered
        /\ row.version = stock[s].version /\ row.quantity = stock[s].quantity
    BY <1>0 DEF Account
  <2>2. Extends(stock[s], row)
    BY <2>1, ExtendsItself DEF Extends, ChainFrom
  <2>3. stock' = [stock EXCEPT ![s] = row]
    BY <1>5 DEF deactivate_stock
  <2> QED
    BY <1>2, <2>1, <2>2, <2>3
<1> QED BY <1>3, <1>4, <1>5

\* A request that records no movement and keeps the owned cost lines preserves
\* the invariant's parts.
LEMMA StockUnchanged ==
    ASSUME IInv, UNCHANGED stock, OwnedKept
    PROVE  Preserved
<1>1. stock' \in [Stocks -> Account]
  BY DEF IInv, TypeOK
<1>2. \A t \in Stocks : Extends(stock[t], stock'[t]) /\ stock'[t].log = stock[t].log
  BY ExtendsItself
<1> QED
  BY <1>1, <1>2, NoMovement

\* Adding a draft cost line records no movement. (create_cost_line)
LEMMA CreateDraftStep ==
    ASSUME IInv, NEW s \in Stocks, NEW j \in Jobs, NEW q \in Quantities,
           create_cost_line(s, j, q)
    PROVE  Preserved
<1> DEFINE c == [live |-> TRUE, job |-> j, quantity |-> q, approved |-> FALSE,
                 managedBy |-> "none", ref |-> s]
<1>1. c \in CostLine
  BY DEF CostLine, Owner
<1>2. costLines' = Append(costLines, c) /\ UNCHANGED stock
  BY DEF create_cost_line
<1> QED
  BY <1>1, <1>2, CostAppended, StockUnchanged

\* The generic editor reaches only lines that nothing owns.
LEMMA EditDraftStep ==
    ASSUME IInv, NEW l \in DOMAIN costLines,
           \/ delete_cost_line(l)
           \/ \E s \in Stocks, q \in DraftQuantities : update_cost_line(l, s, q)
    PROVE  Preserved
<1>0. costLines \in Seq(CostLine) /\ costLines[l] \in CostLine
  BY DEF IInv, TypeOK
<1>1. ~Owned(costLines[l]) /\ UNCHANGED stock
  BY <1>0 DEF delete_cost_line, update_cost_line, refuse_workflow_managed, Owned, CostLine, Owner
<1>2. ASSUME NEW c \in CostLine, costLines' = [costLines EXCEPT ![l] = c]
      PROVE  OwnedKept
  BY <1>0, <1>1, <1>2 DEF OwnedKept
<1>3. CASE delete_cost_line(l)
  <2> DEFINE line == costLines[l]
             c == [line EXCEPT !.live = FALSE]
  <2>1. c \in CostLine
    <3>1. line \in CostLine
      BY <1>0
    <3> HIDE DEF line
    <3> QED BY <3>1 DEF CostLine
  <2>2. costLines' = [costLines EXCEPT ![l] = c]
    BY <1>3 DEF delete_cost_line
  <2> QED
    BY <1>1, <1>2, <2>1, <2>2, StockUnchanged
<1>4. ASSUME NEW s \in Stocks, NEW q \in DraftQuantities, update_cost_line(l, s, q)
      PROVE  Preserved
  <2> DEFINE line == costLines[l]
             c == [line EXCEPT !.quantity = q, !.ref = s]
  <2>1. c \in CostLine
    <3>1. line \in CostLine /\ q \in Int /\ s \in Stocks \cup {OrderRef, NoRef}
      BY <1>0
    <3> HIDE DEF line
    <3> DEFINE requantified == [line EXCEPT !.quantity = q]
    <3>2. requantified \in CostLine
      BY <3>1 DEF CostLine
    <3> HIDE DEF requantified
    <3>3. [requantified EXCEPT !.ref = s] \in CostLine
      BY <3>1, <3>2 DEF CostLine
    <3> QED BY <3>3 DEF requantified
  <2>2. costLines' = [costLines EXCEPT ![l] = c]
    BY <1>4, <1>0 DEF update_cost_line
  <2> QED
    BY <1>1, <1>2, <2>1, <2>2, StockUnchanged
<1> QED BY <1>3, <1>4

\* A cost line written for a movement is well formed.
LEMMA OwnedCostType ==
    ASSUME NEW j \in Jobs, NEW q \in Int, NEW o \in Owner,
           NEW r \in Stocks \cup {OrderRef, NoRef}
    PROVE  OwnedCost(j, q, o, r) \in CostLine
BY DEF OwnedCost, CostLine

\* Consuming stock on a job records one issue with its own new cost line.
\* (consume_stock)
LEMMA ConsumeStep ==
    ASSUME IInv, NEW s \in Stocks, NEW j \in Jobs, NEW q \in Quantities,
           consume_stock(s, j, q)
    PROVE  Preserved
<1> DEFINE c == OwnedCost(j, q, "stock", s)
           context == MovementContext("issue", j, NextCost, 0)
<1>1. c \in CostLine /\ q \in Int /\ -q \in Int
  BY OwnedCostType DEF Owner
<1>2. costLines' = Append(costLines, c)
  BY DEF consume_stock
<1>3. /\ OwnedKept /\ NextCost \in Nat /\ NextCost \in DOMAIN costLines'
      /\ NextCost \notin DOMAIN costLines /\ costLines'[NextCost] = c
  BY <1>1, <1>2, CostAppended
<1>4. context \in Context
  BY <1>3, ContextType DEF MovementKind
<1>5. Base(s, stock[s])
  BY BaseExists DEF consume_stock
<1>6. context.cost = NextCost /\ Answers(c, Recorded(stock[s], -q, context))
  BY <1>1 DEF Answers, OwnedCost, Recorded, MovementContext, OwnerOf
<1>7. stock' = [stock EXCEPT ![s] = move_stock(stock[s], -q, context)]
  BY DEF consume_stock
<1> QED
  BY <1>1, <1>3, <1>4, <1>5, <1>6, <1>7, OneMovement

\* Approving a draft material line records one issue that takes the draft as its
\* cost. (approve_cost_line)
LEMMA ApproveStep ==
    ASSUME IInv, NEW l \in DOMAIN costLines, approve_cost_line(l)
    PROVE  Preserved
<1> DEFINE line == costLines[l]
           s == line.ref
           q == line.quantity
           c == OwnedCost(line.job, q, "stock", s)
           context == MovementContext("issue", line.job, l, 0)
<1>0. costLines \in Seq(CostLine) /\ line \in CostLine /\ l \in Nat
  BY DEF IInv, TypeOK
<1>1. q \in Int /\ line.job \in Jobs
  BY <1>0 DEF CostLine
<1>2. -q \in Int
  BY <1>1
<1>3. /\ s \in Stocks /\ stock[s].made
      /\ ~Owned(line)
      /\ stock' = [stock EXCEPT ![s] = move_stock(stock[s], -q, context)]
      /\ costLines' = [costLines EXCEPT ![l] = c]
  BY <1>0 DEF approve_cost_line, IsUnissuedDraft, Owned
<1>4. c \in CostLine
  BY <1>1, <1>3, OwnedCostType DEF Owner
<1>5. OwnedKept /\ l \in DOMAIN costLines' /\ costLines'[l] = c
  BY <1>0, <1>3, <1>4 DEF OwnedKept
<1>6. context \in Context
  BY <1>0, <1>1, ContextType DEF MovementKind
<1>7. Base(s, stock[s])
  BY <1>3, BaseExists
<1>8. context.cost = l /\ Answers(c, Recorded(stock[s], -q, context))
  BY <1>1 DEF Answers, OwnedCost, Recorded, MovementContext, OwnerOf
<1> HIDE DEF s, q, c, context, line
<1>9. Answers(costLines'[context.cost], Recorded(stock[s], -q, context))
  BY <1>5, <1>8
<1>10. ~Owned(costLines[l])
  BY <1>3 DEF line
<1> QED
  BY <1>2, <1>3, <1>5, <1>6, <1>7, <1>8, <1>9, <1>10, OneMovement

\* The issue a return undoes is on record with its job and its cost.
LEMMA IssueFacts ==
    ASSUME IInv, NEW s \in Stocks, NEW i \in DOMAIN stock[s].log,
           stock[s].log[i].kind = "issue"
    PROVE  /\ stock[s].made /\ Base(s, stock[s])
           /\ i \in Nat
           /\ stock[s].log[i].job \in Jobs
           /\ stock[s].log[i].change \in Int
           /\ -stock[s].log[i].change \in Int
           /\ Credit(stock[s], i) \in CostLine
<1> DEFINE m == stock[s].log[i]
<1>1. stock[s].log \in Seq(StockMovement) /\ stock[s].log # <<>> /\ i \in Nat
  BY DEF IInv, TypeOK, Account
<1>2. stock[s].made
  BY <1>1 DEF IInv, HistoryShape
<1>3. m \in StockMovement
  BY <1>1
<1>4. m.change \in Int /\ -m.change \in Int
  <2>1. m.change \in Int
    BY <1>3 DEF StockMovement
  <2> QED BY <2>1
<1>5. m.cost \in DOMAIN costLines /\ costLines[m.cost].job = m.job
  BY DEF IInv, JobCostCounterparts, Answers, JobKind
<1>6. m.job \in Jobs
  <2>1. costLines \in Seq(CostLine)
    BY DEF IInv, TypeOK
  <2>2. costLines[m.cost] \in CostLine
    BY <1>5, <2>1
  <2> QED
    BY <1>5, <2>2 DEF CostLine
<1>7. Credit(stock[s], i) \in CostLine
  BY <1>4, <1>6, OwnedCostType DEF Credit, Owner
<1> QED
  BY <1>1, <1>2, <1>4, <1>6, <1>7, BaseExists

\* The credit answers the movement that puts the material back.
LEMMA CreditAnswers ==
    ASSUME IInv, NEW s \in Stocks, NEW i \in DOMAIN stock[s].log,
           stock[s].log[i].kind = "issue", NEW c \in Nat
    PROVE  LET context == MovementContext("return", stock[s].log[i].job, c, i) IN
           /\ context \in Context
           /\ Answers(Credit(stock[s], i), Recorded(stock[s], -stock[s].log[i].change, context))
<1>1. /\ stock[s].log[i].job \in Jobs /\ i \in Nat
      /\ stock[s].log[i].change \in Int
  BY IssueFacts
<1>2. MovementContext("return", stock[s].log[i].job, c, i) \in Context
  BY <1>1, ContextType DEF MovementKind
<1> QED
  BY <1>1, <1>2 DEF Answers, Credit, OwnedCost, Recorded, MovementContext, OwnerOf

\* Returning an issue records one return with a credit line of its own.
\* (reverse_issue)
LEMMA ReverseIssueStep ==
    ASSUME IInv, NEW s \in Stocks, NEW i \in DOMAIN stock[s].log, reverse_issue(s, i)
    PROVE  Preserved
<1> DEFINE change == -stock[s].log[i].change
           c == Credit(stock[s], i)
           context == MovementContext("return", stock[s].log[i].job, NextCost, i)
<1>1. /\ Base(s, stock[s]) /\ change \in Int /\ c \in CostLine
  BY IssueFacts DEF reverse_issue
<1>2. /\ costLines' = Append(costLines, c)
      /\ stock' = [stock EXCEPT ![s] = move_stock(stock[s], change, context)]
  BY DEF reverse_issue, Returned
<1>3. /\ OwnedKept /\ NextCost \in Nat /\ NextCost \in DOMAIN costLines'
      /\ NextCost \notin DOMAIN costLines /\ costLines'[NextCost] = c
  BY <1>1, <1>2, CostAppended
<1>4. context \in Context /\ Answers(c, Recorded(stock[s], change, context))
  BY <1>3, CreditAnswers DEF reverse_issue
<1>5. context.cost = NextCost
  BY DEF MovementContext
<1> QED
  BY <1>1, <1>2, <1>3, <1>4, <1>5, OneMovement

\* Deliveries and their reversals have well-formed contexts and no job cost.
LEMMA DeliveryContextType ==
    /\ DeliveryContext \in Context /\ DeliveryContext.kind \notin JobKind
    /\ MovementContext("delivery_reversal", NoJob, 0, 1) \in Context
    /\ MovementContext("delivery_reversal", NoJob, 0, 1).kind \notin JobKind
<1>1. /\ DeliveryContext \in Context
      /\ MovementContext("delivery_reversal", NoJob, 0, 1) \in Context
  BY ContextType DEF DeliveryContext, MovementKind
<1>2. /\ DeliveryContext.kind \notin JobKind
      /\ MovementContext("delivery_reversal", NoJob, 0, 1).kind \notin JobKind
  BY DEF DeliveryContext, MovementContext, JobKind
<1> QED BY <1>1, <1>2

\* A receipt into the workshop records one delivery. (create_stock_from_allocation)
LEMMA ReceiveStockStep ==
    ASSUME IInv, NEW s \in Stocks, NEW q \in Quantities, create_stock_from_allocation(s, q)
    PROVE  Preserved
<1>1. q \in Int
  OBVIOUS
<1>2. Base(s, NewRow(TRUE))
  BY BaseExists DEF create_stock_from_allocation
<1>3. OwnedKept
  BY CostsUnchanged DEF create_stock_from_allocation
<1> QED
  BY <1>1, <1>2, <1>3, DeliveryContextType, OneMovement DEF create_stock_from_allocation

\* A receipt straight onto a job records a delivery and its issue, the issue with
\* a new cost line. (create_costline_from_allocation)
LEMMA ReceiveOnJobStep ==
    ASSUME IInv, NEW s \in Stocks, NEW j \in Jobs, NEW q \in Quantities,
           create_costline_from_allocation(s, j, q)
    PROVE  Preserved
<1> DEFINE c == OwnedCost(j, q, "stock", OrderRef)
           issue == MovementContext("issue", j, NextCost, 0)
           mid == move_stock(NewRow(TRUE), q, DeliveryContext)
<1>1. q \in Int /\ -q \in Int /\ c \in CostLine
  BY OwnedCostType DEF Owner
<1>2. /\ costLines' = Append(costLines, c)
      /\ stock' = [stock EXCEPT ![s] = move_stock(mid, -q, issue)]
      /\ Base(s, NewRow(TRUE))
  BY BaseExists DEF create_costline_from_allocation
<1>3. /\ OwnedKept /\ NextCost \in Nat /\ NextCost \in DOMAIN costLines'
      /\ NextCost \notin DOMAIN costLines /\ costLines'[NextCost] = c
  BY <1>1, <1>2, CostAppended
<1>4. issue \in Context
  BY <1>3, ContextType DEF MovementKind
<1>5. issue.cost = NextCost /\ Answers(c, Recorded(mid, -q, issue))
  BY <1>1 DEF Answers, OwnedCost, Recorded, MovementContext, OwnerOf
<1>6. stock' = [stock EXCEPT ![s] =
                   move_stock(move_stock(NewRow(TRUE), q, DeliveryContext), -q, issue)]
  BY <1>2
<1>7. Answers(costLines'[NextCost],
              Recorded(move_stock(NewRow(TRUE), q, DeliveryContext), -q, issue))
  BY <1>3, <1>5
<1> HIDE DEF issue, mid, c
<1> QED
  BY <1>1, <1>2, <1>3, <1>4, <1>5, <1>6, <1>7, DeliveryContextType, TwoMovements

\* Reversing a workshop receipt records one reversal of the delivery.
\* (reverse_stock_allocation)
LEMMA ReverseStockAllocationStep ==
    ASSUME IInv, NEW s \in Stocks, reverse_stock_allocation(s)
    PROVE  Preserved
<1> DEFINE context == MovementContext("delivery_reversal", NoJob, 0, 1)
           change == -stock[s].log[1].change
<1>1. stock[s].log \in Seq(StockMovement) /\ stock[s].log # <<>> /\ stock[s].made
  BY DEF IInv, TypeOK, Account, HistoryShape, reverse_stock_allocation
<1>2. stock[s].log[1] \in StockMovement
  BY <1>1
<1>3. stock[s].log[1].change \in Int
  BY <1>2 DEF StockMovement
<1>4. change \in Int
  BY <1>3
<1>5. Base(s, stock[s]) /\ OwnedKept
  BY <1>1, BaseExists, CostsUnchanged DEF reverse_stock_allocation
<1>6. stock' = [stock EXCEPT ![s] = move_stock(stock[s], change, context)]
  BY DEF reverse_stock_allocation, ReverseDelivery
<1> HIDE DEF change, context
<1>7. context \in Context /\ context.kind \notin JobKind
  BY DeliveryContextType DEF context
<1> QED
  BY <1>4, <1>5, <1>6, <1>7, OneMovement

\* The issue is returned first, then the delivery; either may have been before.
LEMMA ReverseJobAllocationStep ==
    ASSUME IInv, NEW s \in Stocks, NEW i \in DOMAIN stock[s].log,
           reverse_job_allocation(s, i)
    PROVE  Preserved
<1> DEFINE undo == MovementContext("delivery_reversal", NoJob, 0, 1)
           change == -stock[s].log[1].change
           back == -stock[s].log[i].change
           context == MovementContext("return", stock[s].log[i].job, NextCost, i)
           c == Credit(stock[s], i)
           returned == move_stock(stock[s], back, context)
<1>1. stock[s].log \in Seq(StockMovement) /\ stock[s].log # <<>>
  BY DEF IInv, TypeOK, Account, HistoryShape, reverse_job_allocation
<1>2. stock[s].log[1] \in StockMovement /\ 1 \in DOMAIN stock[s].log
  BY <1>1
<1>3. stock[s].log[1].change \in Int
  BY <1>2 DEF StockMovement
<1>4. change \in Int
  BY <1>3
<1>5. /\ stock[s].log[i].kind = "issue"
      /\ Base(s, stock[s]) /\ back \in Int /\ c \in CostLine
  BY IssueFacts DEF reverse_job_allocation, IsReceiptIssue
<1>6. undo \in Context /\ undo.kind \notin JobKind
  BY DeliveryContextType
<1>7. CASE /\ stock' = [stock EXCEPT ![s] = ReverseDelivery(stock[s])]
           /\ UNCHANGED costLines
  <2>1. stock' = [stock EXCEPT ![s] = move_stock(stock[s], change, undo)]
    BY <1>7 DEF ReverseDelivery
  <2>2. OwnedKept
    BY <1>7, CostsUnchanged
  <2> HIDE DEF change, undo
  <2> QED
    BY <1>4, <1>5, <1>6, <2>1, <2>2, OneMovement
<1>8. CASE /\ stock' = [stock EXCEPT ![s] = ReverseDelivery(Returned(stock[s], i, NextCost))]
           /\ costLines' = Append(costLines, c)
  <2>1. /\ OwnedKept /\ NextCost \in Nat /\ NextCost \in DOMAIN costLines'
        /\ NextCost \notin DOMAIN costLines /\ costLines'[NextCost] = c
    BY <1>5, <1>8, CostAppended
  <2>2. context \in Context /\ Answers(c, Recorded(stock[s], back, context))
    BY <1>5, <2>1, CreditAnswers
  <2>3. context.cost = NextCost
    BY DEF MovementContext
  <2>4. returned.log[1] = stock[s].log[1]
    BY <1>2, <1>5, <2>2, MoveStockFields DEF Base
  <2>5. stock' = [stock EXCEPT ![s] =
                     move_stock(move_stock(stock[s], back, context), change, undo)]
    BY <1>8, <2>4 DEF ReverseDelivery, Returned
  <2>6. Answers(costLines'[NextCost], Recorded(stock[s], back, context))
    BY <2>1, <2>2
  <2> HIDE DEF change, undo, back, context, c, returned
  <2> QED
    BY <1>4, <1>5, <1>6, <2>1, <2>2, <2>3, <2>5, <2>6, TwoMovements
<1> QED
  BY <1>7, <1>8 DEF reverse_job_allocation

\* The lines of a count are a sequence that names no row twice. (save_stocktake's
\* refusal of duplicates)
LEMMA CountLinesFacts ==
    ASSUME NEW lines \in CountLines
    PROVE  /\ Len(lines) \in Nat
           /\ lines \in Seq([stock : Stocks, difference : Differences])
           /\ \A k, m \in DOMAIN lines : lines[k].stock = lines[m].stock => k = m
<1>1. PICK n \in 1..MaxLines : lines \in [1..n -> [stock : Stocks, difference : Differences]]
  BY DEF CountLines
<1> DEFINE CountLine == [stock : Stocks, difference : Differences]
<1>2. lines \in [1..n -> CountLine] /\ n \in Nat
  BY <1>1
<1>3. lines \in Seq(CountLine)
  <2> HIDE DEF CountLine
  <2> QED BY <1>2
<1>4. Len(lines) \in Nat
  <2> HIDE DEF CountLine
  <2> QED BY <1>3
<1>5. \A k, m \in DOMAIN lines : lines[k].stock = lines[m].stock => k = m
  BY DEF CountLines
<1> QED
  BY <1>3, <1>4, <1>5

\* Each line of a count moves its own row and charges its own new cost line, whatever
\* the differences.
LEMMA PostingStep ==
    ASSUME IInv, NEW lines, Len(lines) \in Nat, DOMAIN lines = 1..Len(lines),
           \A k \in DOMAIN lines : lines[k].stock \in Stocks /\ lines[k].difference \in Int,
           \A k, m \in DOMAIN lines : lines[k].stock = lines[m].stock => k = m,
           post_lines(lines)
    PROVE  Preserved
<1> DEFINE n == Len(costLines)
           d(k) == lines[k].difference
           cost(k) == OwnedCost(AdjustmentJob, -d(k), "stocktake", NoRef)
           context(k) == MovementContext("stocktake", AdjustmentJob, n + k, 0)
           LineOf(s) == CHOOSE k \in DOMAIN lines : lines[k].stock = s
           Hit(s) == \E k \in DOMAIN lines : lines[k].stock = s
<1>0. /\ costLines \in Seq(CostLine) /\ n \in Nat /\ DOMAIN costLines = 1..n
      /\ stock \in [Stocks -> Account]
  BY DEF IInv, TypeOK
<1>1. /\ Len(lines) \in Nat /\ DOMAIN lines = 1..Len(lines)
      /\ \A k, m \in DOMAIN lines : lines[k].stock = lines[m].stock => k = m
  OBVIOUS
<1>2. ASSUME NEW k \in DOMAIN lines
      PROVE  d(k) \in Int /\ -d(k) \in Int /\ k \in Nat /\ cost(k) \in CostLine
  <2>1. d(k) \in Int /\ -d(k) \in Int /\ k \in Nat
    BY <1>1
  <2> HIDE DEF d
  <2> QED
    BY <2>1, OwnedCostType DEF Owner
<1> DEFINE charged == [k \in DOMAIN lines |-> cost(k)]
<1>3. charged \in Seq(CostLine) /\ Len(charged) = Len(lines)
  <2> HIDE DEF cost
  <2> QED BY <1>1, <1>2
<1>4. costLines' = costLines \o charged
  BY DEF post_lines
<1>5. /\ costLines' \in Seq(CostLine)
      /\ DOMAIN costLines' = 1..(n + Len(lines))
      /\ \A l \in 1..n : costLines'[l] = costLines[l]
      /\ \A k \in DOMAIN lines : costLines'[n + k] = cost(k)
  <2> HIDE DEF cost
  <2>1. \A k \in DOMAIN lines : charged[k] = cost(k)
    OBVIOUS
  <2> HIDE DEF charged, n
  <2>2. n = Len(costLines)
    BY DEF n
  <2>3. costLines' \in Seq(CostLine) /\ Len(costLines') = n + Len(lines)
    <3>1. costLines' \in Seq(CostLine)
      BY <1>0, <1>3, <1>4
    <3>2. Len(costLines \o charged) = Len(costLines) + Len(charged)
      BY <1>0, <1>3
    <3>3. Len(costLines') = Len(costLines \o charged)
      BY <1>4
    <3> QED BY <1>3, <2>2, <3>1, <3>2, <3>3
  <2>4. DOMAIN costLines' = 1..(n + Len(lines))
    BY <1>0, <1>1, <2>3
  <2>5. \A l \in 1..n : costLines'[l] = costLines[l]
    BY <1>0, <1>3, <1>4, <2>2
  <2>6. ASSUME NEW k \in DOMAIN lines PROVE costLines'[n + k] = cost(k)
    <3>1. k \in 1..Len(charged) /\ n + k \in 1..(n + Len(charged)) /\ n + k > n
      BY <1>0, <1>1, <1>3
    <3>2. costLines'[n + k] = charged[k]
      BY <1>0, <1>3, <1>4, <2>2, <3>1
    <3> QED BY <2>1, <3>2
  <2> QED BY <2>3, <2>4, <2>5, <2>6
<1>6. OwnedKept
  BY <1>0, <1>1, <1>5 DEF OwnedKept
<1>7. stock' = [s \in Stocks |->
                   IF Hit(s) THEN move_stock(Counted(s), d(LineOf(s)), context(LineOf(s)))
                   ELSE stock[s]]
  BY DEF post_lines
<1>8. ASSUME NEW s \in Stocks, Hit(s)
      PROVE  /\ LineOf(s) \in DOMAIN lines /\ lines[LineOf(s)].stock = s
             /\ context(LineOf(s)) \in Context
             /\ Base(s, Counted(s))
  <2>1. LineOf(s) \in DOMAIN lines /\ lines[LineOf(s)].stock = s
    BY <1>8
  <2>2. n + LineOf(s) \in Nat
    BY <1>0, <1>2, <2>1
  <2>3. context(LineOf(s)) \in Context
    BY <2>2, ContextType DEF MovementKind
  <2>4. Base(s, Counted(s))
    BY BaseExists DEF Counted
  <2> QED BY <2>1, <2>3, <2>4
<1>9. ASSUME NEW s \in Stocks, Hit(s)
      PROVE  /\ Extends(stock[s], stock'[s])
             /\ DOMAIN stock'[s].log = 1..(Len(stock[s].log) + 1)
             /\ stock'[s].log[Len(stock[s].log) + 1]
                   = Recorded(Counted(s), d(LineOf(s)), context(LineOf(s)))
  <2>1. stock'[s] = move_stock(Counted(s), d(LineOf(s)), context(LineOf(s)))
    BY <1>7, <1>9
  <2>2. /\ d(LineOf(s)) \in Int /\ context(LineOf(s)) \in Context
        /\ Base(s, Counted(s)) /\ stock[s] \in Account
    BY <1>0, <1>2, <1>8, <1>9
  <2> HIDE DEF d, context, LineOf
  <2> QED
    BY <2>1, <2>2, MoveExtends DEF Base
<1>10. \A s \in Stocks : Extends(stock[s], stock'[s])
  <2>1. \A s \in Stocks : ~Hit(s) => stock'[s] = stock[s]
    BY <1>7
  <2> HIDE DEF Hit
  <2> QED BY <1>9, <2>1, ExtendsItself
<1>11. stock' \in [Stocks -> Account]
  <2>1. DOMAIN stock' = Stocks /\ stock' = [s \in Stocks |-> stock'[s]]
    BY <1>7
  <2> QED
    BY <1>10, <2>1 DEF Extends
<1>12. ASSUME NEW s \in Stocks, NEW i, Fresh(s, i)
       PROVE  /\ Hit(s)
              /\ i = Len(stock[s].log) + 1
              /\ stock'[s].log[i] = Recorded(Counted(s), d(LineOf(s)), context(LineOf(s)))
              /\ stock'[s].log[i].cost = n + LineOf(s)
  <2>1. Hit(s)
    BY <1>7, <1>12 DEF Fresh
  <2>2. stock[s].log \in Seq(StockMovement)
    BY <1>0 DEF Account
  <2>3. i = Len(stock[s].log) + 1
    <3>1. Len(stock[s].log) \in Nat /\ DOMAIN stock[s].log = 1..Len(stock[s].log)
      BY <2>2
    <3>2. DOMAIN stock'[s].log = 1..(Len(stock[s].log) + 1)
      BY <1>9, <2>1
    <3> QED BY <1>12, <3>1, <3>2 DEF Fresh
  <2>4. stock'[s].log[i] = Recorded(Counted(s), d(LineOf(s)), context(LineOf(s)))
    BY <1>9, <2>1, <2>3
  <2> QED
    BY <2>1, <2>3, <2>4 DEF Recorded, MovementContext
<1>13. ASSUME NEW s \in Stocks, NEW i, Fresh(s, i)
       PROVE  FreshIsAnswered(s, i)
  <2> DEFINE k == LineOf(s)
  <2>1. k \in DOMAIN lines
    BY <1>8, <1>12, <1>13
  <2>2. n + k \in DOMAIN costLines' /\ n + k \notin DOMAIN costLines
    BY <1>0, <1>1, <1>2, <1>5, <2>1
  <2>3. costLines'[n + k] = cost(k)
    BY <1>5, <2>1
  <2>4. Answers(cost(k), Recorded(Counted(s), d(k), context(k)))
    BY <1>2, <2>1 DEF Answers, OwnedCost, Recorded, MovementContext, OwnerOf
  <2> HIDE DEF k, cost, d, context
  <2> QED
    BY <1>12, <1>13, <2>2, <2>3, <2>4 DEF FreshIsAnswered, k
<1>14. ASSUME NEW s \in Stocks, NEW t \in Stocks, NEW i, NEW k,
              Fresh(s, i), Fresh(t, k),
              stock'[s].log[i].cost = stock'[t].log[k].cost
       PROVE  s = t /\ i = k
  <2>1. n + LineOf(s) = n + LineOf(t) /\ Hit(s) /\ Hit(t)
    BY <1>12, <1>14
  <2>2. /\ LineOf(s) \in DOMAIN lines /\ lines[LineOf(s)].stock = s
        /\ LineOf(t) \in DOMAIN lines /\ lines[LineOf(t)].stock = t
    BY <1>8, <2>1
  <2>3. LineOf(s) = LineOf(t)
    <3> HIDE DEF LineOf
    <3> QED BY <1>0, <1>2, <2>1, <2>2
  <2>4. s = t
    BY <2>2, <2>3
  <2> QED
    BY <1>12, <1>14, <2>4
<1> QED
  BY <1>6, <1>10, <1>11, <1>13, <1>14 DEF Preserved

LEMMA PostLinesStep ==
    ASSUME IInv, NEW lines \in CountLines, post_lines(lines)
    PROVE  Preserved
<1>1. ASSUME NEW x \in Differences PROVE x \in Int
  <2>1. CASE x \in Quantities
    BY <2>1
  <2>2. CASE x \notin Quantities
    <3>1. PICK q \in Quantities : x = -q
      BY <2>2 DEF Differences
    <3>2. q \in Int
      OBVIOUS
    <3> QED BY <3>1, <3>2
  <2> QED BY <2>1, <2>2
<1> DEFINE CountLine == [stock : Stocks, difference : Differences]
<1>2. lines \in Seq(CountLine) /\ Len(lines) \in Nat
  BY CountLinesFacts
<1>3. DOMAIN lines = 1..Len(lines) /\ \A k \in DOMAIN lines : lines[k] \in CountLine
  <2> HIDE DEF CountLine
  <2> QED BY <1>2
<1>4. \A k \in DOMAIN lines : lines[k].stock \in Stocks /\ lines[k].difference \in Int
  BY <1>1, <1>3
<1>5. \A k, m \in DOMAIN lines : lines[k].stock = lines[m].stock => k = m
  BY CountLinesFacts
<1> QED
  BY <1>2, <1>3, <1>4, <1>5, PostingStep

-----------------------------------------------------------------------------
(* The theorems.                                                           *)

\* The empty ledger satisfies the invariant.
LEMMA InitInvariant == Init => IInv
<1> SUFFICES ASSUME Init PROVE IInv
  OBVIOUS
<1>1. stock \in [Stocks -> Account] /\ \A s \in Stocks : stock[s] = NoRow
  BY NewRowFacts DEF Init
<1>2. costLines = <<>> /\ costLines \in Seq(CostLine)
  BY DEF Init
<1>3. NoRow.log = <<>> /\ ~NoRow.ordered
  BY DEF NoRow
<1>4. HistoryShape /\ LedgerContinuity
  BY <1>1, <1>3, NewRowFacts DEF HistoryShape, LedgerContinuity
<1>5. \A s \in Stocks : DOMAIN stock[s].log = {}
  BY <1>1, <1>3
<1>6. JobCostCounterparts
  BY <1>5 DEF JobCostCounterparts
<1> QED
  BY <1>1, <1>2, <1>4, <1>6 DEF IInv, TypeOK

\* Every request keeps the invariant and leaves the past as it was.
LEMMA StepInvariant ==
    ASSUME IInv, [Next]_ledgerVars
    PROVE  IInv' /\ (AppendOnly \/ UNCHANGED ledgerVars)
<1>1. CASE UNCHANGED ledgerVars
  <2>1. Preserved
    BY <1>1, CostsUnchanged, StockUnchanged DEF ledgerVars
  <2> QED
    BY <1>1, <2>1, PreservedKeeps
<1>2. ASSUME Next PROVE Preserved
  <2>1. ASSUME NEW s \in Stocks,
               create_stock(s) \/ update_stock(s) \/ deactivate_stock(s)
        PROVE  Preserved
    BY <2>1, IdentityStep
  <2>2. ASSUME NEW s \in Stocks, reverse_stock_allocation(s) PROVE Preserved
    BY <2>2, ReverseStockAllocationStep
  <2>3. ASSUME NEW s \in Stocks, NEW i \in DOMAIN stock[s].log, reverse_issue(s, i)
        PROVE  Preserved
    BY <2>3, ReverseIssueStep
  <2>4. ASSUME NEW s \in Stocks, NEW i \in DOMAIN stock[s].log,
               reverse_job_allocation(s, i)
        PROVE  Preserved
    BY <2>4, ReverseJobAllocationStep
  <2>5. ASSUME NEW s \in Stocks, NEW q \in Quantities, create_stock_from_allocation(s, q)
        PROVE  Preserved
    BY <2>5, ReceiveStockStep
  <2>6. ASSUME NEW s \in Stocks, NEW q \in Quantities, NEW j \in Jobs,
               create_cost_line(s, j, q)
        PROVE  Preserved
    BY <2>6, CreateDraftStep
  <2>7. ASSUME NEW s \in Stocks, NEW q \in Quantities, NEW j \in Jobs,
               consume_stock(s, j, q)
        PROVE  Preserved
    BY <2>7, ConsumeStep
  <2>8. ASSUME NEW s \in Stocks, NEW q \in Quantities, NEW j \in Jobs,
               create_costline_from_allocation(s, j, q)
        PROVE  Preserved
    BY <2>8, ReceiveOnJobStep
  <2>9. ASSUME NEW l \in DOMAIN costLines,
               \/ delete_cost_line(l)
               \/ \E s \in Stocks, q \in DraftQuantities : update_cost_line(l, s, q)
        PROVE  Preserved
    BY <2>9, EditDraftStep
  <2>10. ASSUME NEW l \in DOMAIN costLines, approve_cost_line(l) PROVE Preserved
    BY <2>10, ApproveStep
  <2>11. ASSUME NEW lines \in CountLines, post_lines(lines) PROVE Preserved
    BY <2>11, PostLinesStep
  <2> QED
    BY <1>2, <2>1, <2>2, <2>3, <2>4, <2>5, <2>6, <2>7, <2>8, <2>9, <2>10, <2>11 DEF Next
<1> QED
  BY <1>1, <1>2, PreservedKeeps

\* For every value of the constants, every reachable ledger has well-formed rows,
\* balances its movements explain, and job costs that answer them: the inductive
\* invariant behind the results below.
THEOREM Invariance == Spec => []IInv
<1>1. IInv /\ [Next]_ledgerVars => IInv'
  BY StepInvariant
<1> QED
  BY InitInvariant, <1>1, PTL DEF Spec

\* Every row and cost line keeps the shape of its table, whatever is requested:
\* in particular a return never credits a job that does not exist.
THEOREM TypeCorrect == Spec => []TypeOK
<1>1. IInv => TypeOK
  BY DEF IInv
<1> QED
  BY Invariance, <1>1, PTL

\* The balances and versions move_stock stores are always what the row's own
\* movements explain.
THEOREM LedgerContinuous == Spec => []LedgerContinuity
<1>1. IInv => LedgerContinuity
  BY DEF IInv
<1> QED
  BY Invariance, <1>1, PTL

\* Every issue, return and count difference has its own approved, live job cost
\* of the opposite quantity.
THEOREM CounterpartsHold == Spec => []JobCostCounterparts
<1>1. IInv => JobCostCounterparts
  BY DEF IInv
<1> QED
  BY Invariance, <1>1, PTL

\* No request alters a recorded movement or the cost a movement owns.
THEOREM HistoryAppendOnly == Spec => HistoryImmutable
<1>1. IInv /\ [Next]_ledgerVars => [AppendOnly]_ledgerVars
  BY StepInvariant
<1> QED
  BY Invariance, <1>1, PTL DEF Spec, HistoryImmutable

-----------------------------------------------------------------------------
(* The ledger implements AccountBook; and what the inventory audit looks   *)
(* for on the way: reversals undo one movement each, and no cost stands    *)
(* without its movement. These proofs cite LedgerAssumption where they     *)
(* need it.                                                                *)
HIDE LedgerAssumption

\* The kind a reversing movement undoes.
Undone(kind) == IF kind = "return" THEN "issue" ELSE "delivery"

\* m may follow the first n - 1 movements of log.
Sound(log, n, m) ==
    /\ m.kind \notin JobKind => m.job = NoJob
    /\ m.kind \notin {"return", "delivery_reversal"} => m.reverses = 0
    /\ m.kind \in {"return", "delivery_reversal"} =>
          /\ m.reverses \in 1..(n - 1)
          /\ log[m.reverses].kind = Undone(m.kind)
          /\ log[m.reverses].job = m.job
          /\ m.change = -log[m.reverses].change
          /\ \A k \in 1..(n - 1) : log[k].reverses # m.reverses

MovementsSound ==
    \A s \in Stocks : \A i \in DOMAIN stock[s].log : Sound(stock[s].log, i, stock[s].log[i])

\* The history of a row an order brought begins with its delivery.
DeliveredFirst ==
    \A s \in Stocks : stock[s].ordered => stock[s].log[1].kind = "delivery"

\* ReversalEvidence alone is not inductive: that what a request undoes was itself no
\* reversal, and charged the same job, is known from how it was recorded.
BookInv == IInv /\ MovementsSound /\ DeliveredFirst /\ OwnedCostsAreLinked

\* (s, i) is a movement this step recorded.
Recent(s, i) == i \in DOMAIN stock'[s].log /\ i \notin DOMAIN stock[s].log

RecentIsSound ==
    \A s \in Stocks : \A i : Recent(s, i) => Sound(stock'[s].log, i, stock'[s].log[i])

\* A cost line that comes to be owned answers a movement of the same step.
RecentIsLinked ==
    \A l \in DOMAIN costLines' : Owned(costLines'[l]) =>
        \/ l \in DOMAIN costLines /\ Owned(costLines[l])
        \/ \E s \in Stocks : \E i : Fresh(s, i) /\ stock'[s].log[i].cost = l

Booked == RecentIsSound /\ DeliveredFirst' /\ RecentIsLinked

-----------------------------------------------------------------------------
(* What follows from a sound step.                                         *)

\* Whether a movement may follow depends on what it follows only.
LEMMA SoundFollows ==
    ASSUME NEW old, NEW new, NEW n \in Nat, NEW m,
           \A i \in 1..(n - 1) : new[i] = old[i], Sound(old, n, m)
    PROVE  Sound(new, n, m)
<1>1. CASE m.kind \in {"return", "delivery_reversal"}
  BY <1>1 DEF Sound
<1>2. CASE m.kind \notin {"return", "delivery_reversal"}
  BY <1>2 DEF Sound
<1> QED
  BY <1>1, <1>2

\* A sound step keeps the invariant.
LEMMA BookedKeeps ==
    ASSUME BookInv, Preserved, Booked
    PROVE  BookInv'
<1>1. IInv'
  BY PreservedKeeps DEF BookInv
<1>2. MovementsSound'
  <2> SUFFICES ASSUME NEW s \in Stocks, NEW i \in DOMAIN stock'[s].log
               PROVE  Sound(stock'[s].log, i, stock'[s].log[i])
    BY DEF MovementsSound
  <2>1. CASE i \in DOMAIN stock[s].log
    <3>1. /\ stock[s].log \in Seq(StockMovement)
          /\ \A k \in DOMAIN stock[s].log : stock'[s].log[k] = stock[s].log[k]
      BY DEF BookInv, IInv, TypeOK, Account, Preserved, Extends
    <3>2. i \in Nat /\ 1..(i - 1) \subseteq DOMAIN stock[s].log
      BY <2>1, <3>1
    <3>3. Sound(stock[s].log, i, stock[s].log[i])
      BY <2>1 DEF BookInv, MovementsSound
    <3> QED
      BY <2>1, <3>1, <3>2, <3>3, SoundFollows
  <2>2. CASE i \notin DOMAIN stock[s].log
    BY <2>2 DEF Booked, RecentIsSound, Recent
  <2> QED BY <2>1, <2>2
<1>3. OwnedCostsAreLinked'
  <2> SUFFICES ASSUME NEW l \in DOMAIN costLines', Owned(costLines'[l])
               PROVE  \E s \in Stocks : \E i \in DOMAIN stock'[s].log :
                         stock'[s].log[i].kind \in JobKind /\ stock'[s].log[i].cost = l
    BY DEF OwnedCostsAreLinked
  <2>1. CASE l \in DOMAIN costLines /\ Owned(costLines[l])
    <3>0. PICK s \in Stocks : \E i \in DOMAIN stock[s].log :
             stock[s].log[i].kind \in JobKind /\ stock[s].log[i].cost = l
      BY <2>1 DEF BookInv, OwnedCostsAreLinked
    <3>1. PICK i \in DOMAIN stock[s].log :
             stock[s].log[i].kind \in JobKind /\ stock[s].log[i].cost = l
      BY <3>0
    <3>2. i \in DOMAIN stock'[s].log /\ stock'[s].log[i] = stock[s].log[i]
      <4>1. /\ stock[s].log \in Seq(StockMovement) /\ stock'[s].log \in Seq(StockMovement)
            /\ Len(stock[s].log) <= Len(stock'[s].log)
            /\ \A k \in DOMAIN stock[s].log : stock'[s].log[k] = stock[s].log[k]
        BY DEF BookInv, IInv, TypeOK, Account, Preserved, Extends
      <4> QED BY <4>1
    <3> QED BY <3>1, <3>2
  <2>2. ASSUME NEW s \in Stocks, NEW i, Fresh(s, i), stock'[s].log[i].cost = l
        PROVE  \E t \in Stocks : \E k \in DOMAIN stock'[t].log :
                  stock'[t].log[k].kind \in JobKind /\ stock'[t].log[k].cost = l
    BY <2>2 DEF Fresh
  <2> QED
    BY <2>1, <2>2 DEF Booked, RecentIsLinked
<1> QED
  BY <1>1, <1>2, <1>3 DEF BookInv, Booked

-----------------------------------------------------------------------------
(* What the book sees of a sound step.                                     *)

\* A page has an entry for each movement.
LEMMA PageEntries ==
    ASSUME NEW row \in Account
    PROVE  /\ DOMAIN Page(row) = DOMAIN row.log
           /\ Page(row) \in Seq(Book!Entry)
           /\ \A i \in DOMAIN row.log :
                 /\ Page(row)[i].change = row.log[i].change
                 /\ Page(row)[i].balance = row.log[i].after
                 /\ Page(row)[i].party = row.log[i].job
                 /\ Page(row)[i].charge = row.log[i].cost
                 /\ Page(row)[i].undoes = row.log[i].reverses
<1>1. /\ row.log \in Seq(StockMovement) /\ Len(row.log) \in Nat
      /\ DOMAIN row.log = 1..Len(row.log)
  BY DEF Account
<1>2. ASSUME NEW i \in DOMAIN row.log PROVE Page(row)[i] \in Book!Entry
  <2>1. row.log[i] \in StockMovement
    BY <1>1
  <2> QED BY <2>1 DEF Page, StockMovement, Book!Entry
<1>3. DOMAIN Page(row) = 1..Len(row.log)
  BY <1>1 DEF Page
<1>4. Page(row) = [i \in DOMAIN row.log |-> Page(row)[i]]
  BY DEF Page
<1>5. Page(row) \in Seq(Book!Entry)
  <2> DEFINE n == Len(row.log)
             E == Book!Entry
             page == Page(row)
  <2>1. page = [i \in 1..n |-> page[i]] /\ n \in Nat /\ \A i \in 1..n : page[i] \in E
    BY <1>1, <1>2, <1>4
  <2> HIDE DEF n, E, page
  <2>2. page \in [1..n -> E]
    BY <2>1
  <2>3. page \in Seq(E)
    BY <2>1, <2>2
  <2> QED BY <2>3 DEF E, page
<1> QED
  BY <1>1, <1>3, <1>5 DEF Page

\* The new entries are those of the recent movements.
LEMMA NewEntries ==
    ASSUME BookInv, Preserved, NEW s \in Stocks
    PROVE  /\ Book!New(s) = {i \in DOMAIN stock'[s].log : Recent(s, i)}
           /\ \A i \in DOMAIN stock'[s].log : Book!EntryAt(<<s, i>>) = Page(stock'[s])[i]
<1>1. stock[s] \in Account /\ stock'[s] \in Account
  BY DEF BookInv, IInv, TypeOK, Preserved
<1>2. Book!New(s) = DOMAIN Page(stock'[s]) \ DOMAIN Page(stock[s])
  BY DEF Book!New
<1> QED
  BY <1>1, <1>2, PageEntries DEF Recent, Book!EntryAt

\* An undoing movement undoes one entry, entirely and for the first time.
LEMMA SoundUndoesOnce ==
    ASSUME NEW row \in Account, NEW i \in DOMAIN row.log,
           \A k \in DOMAIN row.log : Sound(row.log, k, row.log[k])
    PROVE  Book!UndoesOnce(Page(row), i)
<1> SUFFICES ASSUME Page(row)[i].undoes # 0
             PROVE  /\ Page(row)[i].undoes \in 1 .. (i - 1)
                    /\ Page(row)[Page(row)[i].undoes].undoes = 0
                    /\ Page(row)[Page(row)[i].undoes].party = Page(row)[i].party
                    /\ Page(row)[Page(row)[i].undoes].change = -Page(row)[i].change
                    /\ \A k \in 1 .. (i - 1) : Page(row)[k].undoes # Page(row)[i].undoes
  BY DEF Book!UndoesOnce
<1> DEFINE m == row.log[i]
           o == m.reverses
<1>1. /\ row.log \in Seq(StockMovement) /\ i \in Nat
      /\ 1 .. (i - 1) \subseteq DOMAIN row.log
  BY DEF Account
<1>2. o # 0 /\ Page(row)[i].undoes = o /\ Page(row)[i].party = m.job
      /\ Page(row)[i].change = m.change
  BY PageEntries
<1>3. /\ m.kind \in {"return", "delivery_reversal"}
      /\ o \in 1 .. (i - 1)
      /\ row.log[o].kind = Undone(m.kind)
      /\ row.log[o].job = m.job
      /\ m.change = -row.log[o].change
      /\ \A k \in 1..(i - 1) : row.log[k].reverses # o
  BY <1>2 DEF Sound
<1>4. o \in DOMAIN row.log /\ row.log[o].reverses = 0 /\ row.log[o].change \in Int
  <2>1. o \in DOMAIN row.log /\ row.log[o] \in StockMovement
    BY <1>1, <1>3
  <2>2. Undone(m.kind) \notin {"return", "delivery_reversal"}
    BY DEF Undone
  <2> QED
    BY <1>3, <2>1, <2>2 DEF Sound, StockMovement
<1>5. row.log[o].change = -m.change
  BY <1>3, <1>4
<1>6. /\ Page(row)[o].undoes = 0 /\ Page(row)[o].party = m.job
      /\ Page(row)[o].change = -m.change
  BY <1>3, <1>4, <1>5, PageEntries
<1>7. \A k \in 1 .. (i - 1) : Page(row)[k].undoes # o
  BY <1>1, <1>3, PageEntries
<1> HIDE DEF o, m
<1> QED
  BY <1>2, <1>3, <1>6, <1>7

\* The pages grow by sound entries.
LEMMA BookedWrites ==
    ASSUME BookInv, Preserved, Booked
    PROVE  Book!Written
<1> SUFFICES ASSUME NEW s \in Stocks
             PROVE  /\ Page(stock'[s]) \in Seq(Book!Entry)
                    /\ \A i \in DOMAIN Page(stock[s]) :
                          i \in DOMAIN Page(stock'[s]) /\ Page(stock'[s])[i] = Page(stock[s])[i]
                    /\ \A i \in Book!New(s) :
                          Book!Follows(Page(stock'[s]), i) /\ Book!UndoesOnce(Page(stock'[s]), i)
  BY DEF Book!Written
<1>1. /\ stock[s] \in Account /\ stock'[s] \in Account /\ ChainFrom(stock'[s])
      /\ stock[s].log \in Seq(StockMovement) /\ stock'[s].log \in Seq(StockMovement)
      /\ Len(stock[s].log) <= Len(stock'[s].log)
      /\ \A i \in DOMAIN stock[s].log : stock'[s].log[i] = stock[s].log[i]
  BY DEF BookInv, IInv, TypeOK, Account, Preserved, Extends
<1>2. DOMAIN stock[s].log \subseteq DOMAIN stock'[s].log
  BY <1>1
<1>3. ASSUME NEW i \in DOMAIN Page(stock[s])
      PROVE  i \in DOMAIN Page(stock'[s]) /\ Page(stock'[s])[i] = Page(stock[s])[i]
  BY <1>1, <1>2, <1>3, PageEntries DEF Page
<1>4. ASSUME NEW i \in Book!New(s)
      PROVE  Book!Follows(Page(stock'[s]), i) /\ Book!UndoesOnce(Page(stock'[s]), i)
  <2>1. i \in DOMAIN stock'[s].log
    BY <1>4, NewEntries
  <2>2. Book!Follows(Page(stock'[s]), i)
    <3>1. /\ stock'[s].log[i].after = stock'[s].log[i].before + stock'[s].log[i].change
          /\ stock'[s].log[i].before = IF i = 1 THEN 0 ELSE stock'[s].log[i - 1].after
      BY <1>1, <2>1 DEF ChainFrom
    <3>2. i = 1 \/ i - 1 \in DOMAIN stock'[s].log
      BY <1>1, <2>1
    <3>3. stock'[s].log[i] \in StockMovement
      BY <1>1, <2>1
    <3>4. stock'[s].log[i].before \in Int /\ stock'[s].log[i].change \in Int
      BY <3>3 DEF StockMovement
    <3> QED
      BY <1>1, <2>1, <3>1, <3>2, <3>4, PageEntries DEF Book!Follows
  <2>3. \A k \in DOMAIN stock'[s].log : Sound(stock'[s].log, k, stock'[s].log[k])
    BY BookedKeeps DEF BookInv, MovementsSound
  <2> QED
    BY <1>1, <2>1, <2>2, <2>3, SoundUndoesOnce
<1> QED
  BY <1>1, <1>3, <1>4, PageEntries

\* Every job has a movement, or none: the movements that charge a job are the fresh
\* ones.
LEMMA ChargingIsFresh ==
    ASSUME BookInv, Preserved, Booked, NEW s \in Stocks, NEW i \in DOMAIN stock'[s].log,
           Recent(s, i)
    PROVE  (stock'[s].log[i].job # NoJob) <=> Fresh(s, i)
<1>1. CASE Fresh(s, i)
  <2>1. /\ stock'[s].log[i].cost \in DOMAIN costLines'
        /\ costLines'[stock'[s].log[i].cost].job = stock'[s].log[i].job
    BY <1>1 DEF Preserved, FreshIsAnswered, Answers
  <2>2. costLines'[stock'[s].log[i].cost] \in CostLine
    BY <2>1 DEF Preserved, OwnedKept
  <2>3. stock'[s].log[i].job \in Jobs
    BY <2>1, <2>2 DEF CostLine
  <2> QED BY <1>1, <2>3, LedgerAssumption
<1>2. CASE ~Fresh(s, i)
  BY <1>2 DEF Fresh, Recent, Booked, RecentIsSound, Sound
<1> QED BY <1>1, <1>2

\* What a step charges are its fresh movements.
LEMMA Charges ==
    ASSUME BookInv, Preserved, Booked
    PROVE  /\ \A at \in Book!Charging : \E s \in Stocks : \E i : at = <<s, i>> /\ Fresh(s, i)
           /\ \A s \in Stocks : \A i : Fresh(s, i) =>
                 /\ <<s, i>> \in Book!Charging
                 /\ Book!EntryAt(<<s, i>>).charge = stock'[s].log[i].cost
                 /\ Book!EntryAt(<<s, i>>).party = stock'[s].log[i].job
                 /\ Book!EntryAt(<<s, i>>).change = stock'[s].log[i].change
<1>1. \A s \in Stocks : \A i \in DOMAIN stock'[s].log :
         /\ Book!EntryAt(<<s, i>>) = Page(stock'[s])[i]
         /\ Page(stock'[s])[i].party = stock'[s].log[i].job
         /\ Page(stock'[s])[i].charge = stock'[s].log[i].cost
         /\ Page(stock'[s])[i].change = stock'[s].log[i].change
  BY NewEntries, PageEntries DEF Preserved, Extends
<1>2. ASSUME NEW at \in Book!Charging
      PROVE  \E s \in Stocks : \E i : at = <<s, i>> /\ Fresh(s, i)
  <2>1. PICK s \in Stocks : \E i \in Book!New(s) : at = <<s, i>> /\ Page(stock'[s])[i].party # NoJob
    BY DEF Book!Charging
  <2>2. PICK i \in Book!New(s) : at = <<s, i>> /\ Page(stock'[s])[i].party # NoJob
    BY <2>1
  <2>3. i \in DOMAIN stock'[s].log /\ Recent(s, i)
    BY NewEntries
  <2>4. Fresh(s, i)
    BY <1>1, <2>2, <2>3, ChargingIsFresh
  <2> QED BY <2>2, <2>4
<1>3. ASSUME NEW s \in Stocks, NEW i, Fresh(s, i)
      PROVE  /\ <<s, i>> \in Book!Charging
             /\ i \in DOMAIN stock'[s].log
  <2>1. i \in DOMAIN stock'[s].log /\ Recent(s, i)
    BY <1>3 DEF Fresh, Recent
  <2>2. i \in Book!New(s) /\ Page(stock'[s])[i].party # NoJob
    BY <1>1, <1>3, <2>1, NewEntries, ChargingIsFresh
  <2> QED BY <2>1, <2>2 DEF Book!Charging
<1> QED
  BY <1>1, <1>2, <1>3

\* The cost lines that stand as charges.
Standing(lines) == {l \in DOMAIN lines : Owned(lines[l]) /\ lines[l].live}

\* A cost that is owned stands: it answers a movement.
LEMMA OwnedStands ==
    ASSUME BookInv, NEW l \in DOMAIN costLines, Owned(costLines[l])
    PROVE  costLines[l].live
<1>1. PICK s \in Stocks : \E i \in DOMAIN stock[s].log :
         stock[s].log[i].kind \in JobKind /\ stock[s].log[i].cost = l
  BY DEF BookInv, OwnedCostsAreLinked
<1>2. PICK i \in DOMAIN stock[s].log :
         stock[s].log[i].kind \in JobKind /\ stock[s].log[i].cost = l
  BY <1>1
<1> QED
  BY <1>2 DEF BookInv, IInv, JobCostCounterparts, Answers

\* The charges that stand stay, and the new ones are those of the fresh movements.
LEMMA BookedCharges ==
    ASSUME BookInv, Preserved, Booked
    PROVE  Book!Charged
<1>1. /\ DOMAIN StandingCharges = Standing(costLines)
      /\ DOMAIN StandingCharges' = Standing(costLines')
      /\ \A l \in Standing(costLines) :
            StandingCharges[l] = [party |-> costLines[l].job, amount |-> costLines[l].quantity]
      /\ \A l \in Standing(costLines') :
            StandingCharges'[l] = [party |-> costLines'[l].job, amount |-> costLines'[l].quantity]
  BY DEF StandingCharges, Standing
<1>2. ASSUME NEW l \in Standing(costLines)
      PROVE  l \in Standing(costLines') /\ costLines'[l] = costLines[l]
  BY <1>2 DEF Standing, Preserved, OwnedKept
<1>3. ASSUME NEW s \in Stocks, NEW i, Fresh(s, i)
      PROVE  LET c == stock'[s].log[i].cost IN
             /\ c \in Standing(costLines') /\ c \notin Standing(costLines)
             /\ costLines'[c].job = stock'[s].log[i].job
             /\ costLines'[c].quantity = -stock'[s].log[i].change
  BY <1>3 DEF Preserved, FreshIsAnswered, Answers, Standing, Owned, OwnerOf
<1>4. ASSUME NEW l \in Standing(costLines'), l \notin Standing(costLines)
      PROVE  \E s \in Stocks : \E i : Fresh(s, i) /\ stock'[s].log[i].cost = l
  BY <1>4, OwnedStands DEF Standing, Booked, RecentIsLinked
<1>5. \A c \in DOMAIN StandingCharges :
         c \in DOMAIN StandingCharges' /\ StandingCharges'[c] = StandingCharges[c]
  BY <1>1, <1>2
<1>6. DOMAIN StandingCharges'
         = DOMAIN StandingCharges \cup {Book!EntryAt(at).charge : at \in Book!Charging}
  <2>1. ASSUME NEW at \in Book!Charging PROVE Book!EntryAt(at).charge \in Standing(costLines')
    <3>1. PICK s \in Stocks : \E i : at = <<s, i>> /\ Fresh(s, i)
      BY Charges
    <3>2. PICK i : at = <<s, i>> /\ Fresh(s, i)
      BY <3>1
    <3> QED BY <1>3, <3>2, Charges
  <2>2. ASSUME NEW l \in Standing(costLines'), l \notin Standing(costLines)
        PROVE  \E at \in Book!Charging : Book!EntryAt(at).charge = l
    <3>1. PICK s \in Stocks : \E i : Fresh(s, i) /\ stock'[s].log[i].cost = l
      BY <1>4, <2>2
    <3>2. PICK i : Fresh(s, i) /\ stock'[s].log[i].cost = l
      BY <3>1
    <3> QED BY <3>2, Charges
  <2> QED BY <1>1, <1>2, <2>1, <2>2
<1>7. ASSUME NEW at \in Book!Charging
      PROVE  /\ Book!EntryAt(at).charge \notin DOMAIN StandingCharges
             /\ StandingCharges'[Book!EntryAt(at).charge] =
                   [party |-> Book!EntryAt(at).party, amount |-> -Book!EntryAt(at).change]
  <2>1. PICK s \in Stocks : \E i : at = <<s, i>> /\ Fresh(s, i)
    BY Charges
  <2>2. PICK i : at = <<s, i>> /\ Fresh(s, i)
    BY <2>1
  <2>3. /\ Book!EntryAt(at).charge = stock'[s].log[i].cost
        /\ Book!EntryAt(at).party = stock'[s].log[i].job
        /\ Book!EntryAt(at).change = stock'[s].log[i].change
    BY <2>2, Charges
  <2> QED BY <1>1, <1>3, <2>2, <2>3
<1>8. ASSUME NEW at \in Book!Charging, NEW other \in Book!Charging,
             Book!EntryAt(at).charge = Book!EntryAt(other).charge
      PROVE  at = other
  <2>1. PICK s \in Stocks : \E i : at = <<s, i>> /\ Fresh(s, i)
    BY Charges
  <2>2. PICK i : at = <<s, i>> /\ Fresh(s, i)
    BY <2>1
  <2>3. PICK t \in Stocks : \E k : other = <<t, k>> /\ Fresh(t, k)
    BY Charges
  <2>4. PICK k : other = <<t, k>> /\ Fresh(t, k)
    BY <2>3
  <2>5. stock'[s].log[i].cost = stock'[t].log[k].cost
    BY <1>8, <2>2, <2>4, Charges
  <2>6. s = t /\ i = k
    BY <2>2, <2>4, <2>5 DEF Preserved
  <2> QED BY <2>2, <2>4, <2>6
<1> QED
  BY <1>5, <1>6, <1>7, <1>8 DEF Book!Charged

\* A sound step is one of the book.
LEMMA BookedPosts ==
    ASSUME BookInv, Preserved, Booked
    PROVE  Book!Post
BY BookedWrites, BookedCharges DEF Book!Post

-----------------------------------------------------------------------------
(* Sound steps by the number of movements they record.                     *)

\* A request that records no movement makes no row an ordered one.
LEMMA NoneBooked ==
    ASSUME BookInv,
           \A s \in Stocks :
              stock'[s].log = stock[s].log /\ stock'[s].ordered = stock[s].ordered
    PROVE  RecentIsSound /\ DeliveredFirst'
BY DEF BookInv, DeliveredFirst, RecentIsSound, Recent

\* The row a movement is recorded on: an order's row begins with its delivery.
From(s, base, m) ==
    base.ordered => stock[s].ordered \/ (stock[s].log = <<>> /\ m.kind = "delivery")

\* One sound movement on row s.
LEMMA OneBooked ==
    ASSUME BookInv, NEW s \in Stocks, NEW base, Base(s, base),
           NEW change \in Int, NEW context \in Context,
           stock' = [stock EXCEPT ![s] = move_stock(base, change, context)],
           From(s, base, context),
           Sound(stock[s].log, Len(stock[s].log) + 1, Recorded(base, change, context))
    PROVE  /\ RecentIsSound
           /\ DeliveredFirst'
           /\ context.kind \in JobKind =>
                 \E i : Fresh(s, i) /\ stock'[s].log[i].cost = context.cost
<1> DEFINE n == Len(stock[s].log)
           m == Recorded(base, change, context)
<1>1. /\ stock \in [Stocks -> Account] /\ stock[s].log \in Seq(StockMovement) /\ n \in Nat
      /\ stock[s].ordered => stock[s].log # <<>>
  BY DEF BookInv, IInv, TypeOK, Account, HistoryShape
<1>2. /\ stock'[s] = move_stock(base, change, context)
      /\ \A t \in Stocks : t # s => stock'[t] = stock[t]
  BY <1>1
<1>3. /\ DOMAIN stock'[s].log = 1..(n + 1)
      /\ stock'[s].log[n + 1] = m
      /\ \A i \in DOMAIN stock[s].log : stock'[s].log[i] = stock[s].log[i]
  <2>1. /\ base \in Account /\ ChainFrom(base) /\ base.made /\ base.log = stock[s].log
        /\ stock[s] \in Account
    BY <1>1 DEF Base
  <2> QED
    BY <1>2, <2>1, MoveExtends DEF Extends
<1>4. m.kind = context.kind /\ m.cost = context.cost
  BY DEF Recorded
<1>5. ASSUME NEW t \in Stocks, NEW i, Recent(t, i)
      PROVE  t = s /\ i = n + 1
  <2>1. t = s
    BY <1>2, <1>5 DEF Recent
  <2> QED
    BY <2>1, <1>1, <1>3, <1>5 DEF Recent
<1>6. Sound(stock'[s].log, n + 1, m)
  <2>1. \A i \in 1..((n + 1) - 1) : stock'[s].log[i] = stock[s].log[i]
    BY <1>1, <1>3
  <2>2. n + 1 \in Nat /\ Sound(stock[s].log, n + 1, m)
    BY <1>1
  <2> HIDE DEF n, m
  <2> QED BY <2>1, <2>2, SoundFollows
<1>7. RecentIsSound
  BY <1>3, <1>5, <1>6 DEF RecentIsSound
<1>8. DeliveredFirst'
  <2> SUFFICES ASSUME NEW t \in Stocks, stock'[t].ordered
               PROVE  stock'[t].log[1].kind = "delivery"
    BY DEF DeliveredFirst
  <2>1. CASE t # s
    BY <2>1, <1>2 DEF BookInv, DeliveredFirst
  <2>2. CASE t = s
    <3>1. base.ordered
      BY <1>2, <2>2 DEF move_stock
    <3>2. CASE stock[s].ordered
      <4>1. stock[s].log # <<>> /\ stock[s].log[1].kind = "delivery"
        BY <1>1, <3>2 DEF BookInv, DeliveredFirst
      <4>2. 1 \in DOMAIN stock[s].log
        BY <1>1, <4>1
      <4> QED BY <1>3, <2>2, <4>1, <4>2
    <3>3. CASE stock[s].log = <<>> /\ context.kind = "delivery"
      <4>1. n = 0
        BY <3>3
      <4> QED BY <1>3, <1>4, <2>2, <3>3, <4>1
    <3> QED BY <3>1, <3>2, <3>3 DEF From
  <2> QED BY <2>1, <2>2
<1>9. ASSUME context.kind \in JobKind
      PROVE  Fresh(s, n + 1) /\ stock'[s].log[n + 1].cost = context.cost
  <2>1. n + 1 \in DOMAIN stock'[s].log /\ n + 1 \notin DOMAIN stock[s].log
    BY <1>1, <1>3
  <2> QED BY <1>3, <1>4, <1>9, <2>1 DEF Fresh
<1> QED
  BY <1>7, <1>8, <1>9

\* Two sound movements on row s.
TwoMoves(s, base, x, first, y, second) ==
    /\ Base(s, base)
    /\ x \in Int /\ first \in Context
    /\ y \in Int /\ second \in Context
    /\ stock' = [stock EXCEPT ![s] = move_stock(move_stock(base, x, first), y, second)]
    /\ From(s, base, first)
    /\ Sound(stock[s].log, Len(stock[s].log) + 1, Recorded(base, x, first))
    /\ Sound(move_stock(base, x, first).log, Len(stock[s].log) + 2,
             Recorded(move_stock(base, x, first), y, second))

\* They are a sound step, and those that charge a job are fresh.
LEMMA TwoBooked ==
    ASSUME BookInv, NEW s \in Stocks, NEW base, NEW x, NEW first, NEW y, NEW second,
           TwoMoves(s, base, x, first, y, second)
    PROVE  /\ RecentIsSound
           /\ DeliveredFirst'
           /\ first.kind \in JobKind =>
                 \E i : Fresh(s, i) /\ stock'[s].log[i].cost = first.cost
           /\ second.kind \in JobKind =>
                 \E i : Fresh(s, i) /\ stock'[s].log[i].cost = second.cost
<1> USE DEF TwoMoves
<1> DEFINE n == Len(stock[s].log)
           mid == move_stock(base, x, first)
           new == move_stock(mid, y, second)
           m == Recorded(base, x, first)
           k == Recorded(mid, y, second)
<1>1. /\ stock \in [Stocks -> Account] /\ stock[s].log \in Seq(StockMovement) /\ n \in Nat
      /\ stock[s].ordered => stock[s].log # <<>>
  BY DEF BookInv, IInv, TypeOK, Account, HistoryShape
<1>2. stock'[s] = new /\ \A t \in Stocks : t # s => stock'[t] = stock[t]
  BY <1>1
<1>3. /\ base \in Account /\ ChainFrom(base) /\ base.made /\ base.log = stock[s].log
      /\ stock[s] \in Account
  BY <1>1 DEF Base
<1>4. /\ mid \in Account /\ mid.made /\ ChainFrom(mid)
      /\ DOMAIN mid.log = 1..(n + 1) /\ Len(mid.log) = n + 1
      /\ mid.log[n + 1] = m
      /\ \A i \in 1..n : mid.log[i] = stock[s].log[i]
  <2>1. DOMAIN stock[s].log = 1..n
    BY <1>1
  <2> QED BY <1>3, <2>1, MoveExtends, MoveStockFields DEF Extends
<1>5. /\ DOMAIN new.log = 1..(n + 2)
      /\ new.log[n + 2] = k
      /\ \A i \in 1..(n + 1) : new.log[i] = mid.log[i]
  BY <1>1, <1>4, MoveExtends DEF Extends
<1>6. /\ new.log[n + 1] = m
      /\ \A i \in 1..n : new.log[i] = stock[s].log[i]
  <2>1. n + 1 \in 1..(n + 1) /\ 1..n \subseteq 1..(n + 1)
    BY <1>1
  <2> QED BY <1>4, <1>5, <2>1
<1>7. m.kind = first.kind /\ m.cost = first.cost /\ k.kind = second.kind /\ k.cost = second.cost
  BY DEF Recorded
<1>8. base.ordered = new.ordered
  BY DEF move_stock
<1> HIDE DEF mid, new, m, k
<1>9. ASSUME NEW t \in Stocks, NEW i, Recent(t, i)
      PROVE  t = s /\ (i = n + 1 \/ i = n + 2)
  <2>1. t = s
    BY <1>2, <1>9 DEF Recent
  <2> QED
    BY <2>1, <1>1, <1>2, <1>5, <1>9 DEF Recent
<1>10. Sound(new.log, n + 1, m) /\ Sound(new.log, n + 2, k)
  <2>1. Sound(stock[s].log, n + 1, m) /\ Sound(mid.log, n + 2, k)
    BY DEF m, k, mid
  <2>2. /\ \A i \in 1..((n + 1) - 1) : new.log[i] = stock[s].log[i]
        /\ \A i \in 1..((n + 2) - 1) : new.log[i] = mid.log[i]
        /\ n + 1 \in Nat /\ n + 2 \in Nat
    BY <1>1, <1>5, <1>6
  <2> HIDE DEF n
  <2> QED BY <2>1, <2>2, SoundFollows
<1>11. RecentIsSound
  BY <1>2, <1>5, <1>6, <1>9, <1>10 DEF RecentIsSound
<1>12. DeliveredFirst'
  <2> SUFFICES ASSUME NEW t \in Stocks, stock'[t].ordered
               PROVE  stock'[t].log[1].kind = "delivery"
    BY DEF DeliveredFirst
  <2>1. CASE t # s
    BY <2>1, <1>2 DEF BookInv, DeliveredFirst
  <2>2. CASE t = s
    <3>1. base.ordered
      BY <1>2, <1>8, <2>2
    <3>2. CASE stock[s].ordered
      <4>1. stock[s].log # <<>> /\ stock[s].log[1].kind = "delivery"
        BY <1>1, <3>2 DEF BookInv, DeliveredFirst
      <4>2. 1 \in 1..n
        BY <1>1, <4>1
      <4> QED BY <1>2, <1>6, <2>2, <4>1, <4>2
    <3>3. CASE stock[s].log = <<>> /\ first.kind = "delivery"
      <4>1. n = 0
        BY <3>3
      <4> QED BY <1>2, <1>6, <1>7, <2>2, <3>3, <4>1
    <3> QED BY <3>1, <3>2, <3>3 DEF From
  <2> QED BY <2>1, <2>2
<1>13. /\ first.kind \in JobKind => Fresh(s, n + 1) /\ stock'[s].log[n + 1].cost = first.cost
       /\ second.kind \in JobKind => Fresh(s, n + 2) /\ stock'[s].log[n + 2].cost = second.cost
  <2>1. /\ n + 1 \in DOMAIN stock'[s].log /\ n + 1 \notin DOMAIN stock[s].log
        /\ n + 2 \in DOMAIN stock'[s].log /\ n + 2 \notin DOMAIN stock[s].log
    BY <1>1, <1>2, <1>5
  <2> QED BY <1>2, <1>5, <1>6, <1>7, <2>1 DEF Fresh
<1> QED
  BY <1>11, <1>12, <1>13

\* What an added or replaced cost line must show: that nothing owns it, or that it
\* answers a movement of the step.
LEMMA CostLinked ==
    ASSUME BookInv, NEW c \in CostLine, NEW l \in Nat,
           \/ l = NextCost /\ costLines' = Append(costLines, c)
           \/ l \in DOMAIN costLines /\ costLines' = [costLines EXCEPT ![l] = c],
           Owned(c) => \E s \in Stocks : \E i : Fresh(s, i) /\ stock'[s].log[i].cost = l
    PROVE  RecentIsLinked
<1>1. costLines \in Seq(CostLine)
  BY DEF BookInv, IInv, TypeOK
<1>2. ASSUME NEW k \in DOMAIN costLines'
      PROVE  \/ k = l /\ costLines'[k] = c
             \/ k \in DOMAIN costLines /\ costLines'[k] = costLines[k]
  <2>1. CASE l = NextCost /\ costLines' = Append(costLines, c)
    BY <1>1, <1>2, <2>1 DEF NextCost
  <2>2. CASE l \in DOMAIN costLines /\ costLines' = [costLines EXCEPT ![l] = c]
    BY <1>1, <1>2, <2>2
  <2> QED BY <2>1, <2>2
<1> QED
  BY <1>2 DEF RecentIsLinked

LEMMA CostsLinked ==
    ASSUME UNCHANGED costLines
    PROVE  RecentIsLinked
BY DEF RecentIsLinked

\* A movement that undoes nothing is sound wherever it is recorded.
LEMMA PlainIsSound ==
    ASSUME NEW log, NEW n, NEW row, NEW change, NEW context \in Context,
           context.kind \notin {"return", "delivery_reversal"}, context.reverses = 0,
           context.kind \in JobKind \/ context.job = NoJob
    PROVE  Sound(log, n, Recorded(row, change, context))
BY DEF Sound, Recorded, JobKind

-----------------------------------------------------------------------------
(* One lemma per kind of request.                                          *)

\* Identities, drafts and edits record no movement. (create_stock, update_stock,
\* deactivate_stock)
LEMMA IdentityBooked ==
    ASSUME BookInv, NEW s \in Stocks,
           create_stock(s) \/ update_stock(s) \/ deactivate_stock(s)
    PROVE  Booked
<1>1. stock \in [Stocks -> Account]
  BY DEF BookInv, IInv, TypeOK
<1>2. \A t \in Stocks : stock'[t].log = stock[t].log
  <2>1. CASE create_stock(s)
    BY <1>1, <2>1, NewRowFacts DEF create_stock, BookInv, IInv, HistoryShape
  <2>2. CASE update_stock(s)
    BY <2>2 DEF update_stock, ledgerVars
  <2>3. CASE deactivate_stock(s)
    BY <1>1, <2>3 DEF deactivate_stock, Account
  <2> QED BY <2>1, <2>2, <2>3
<1>3. DeliveredFirst'
  <2> SUFFICES ASSUME NEW t \in Stocks, stock'[t].ordered
               PROVE  stock[t].ordered
    BY <1>2 DEF DeliveredFirst, BookInv
  <2>1. CASE create_stock(s)
    BY <1>1, <2>1 DEF create_stock, NewRow
  <2>2. CASE update_stock(s)
    BY <2>2 DEF update_stock, ledgerVars
  <2>3. CASE deactivate_stock(s)
    BY <1>1, <2>3 DEF deactivate_stock, Account
  <2> QED BY <2>1, <2>2, <2>3
<1>4. RecentIsSound
  BY <1>2 DEF RecentIsSound, Recent
<1>5. RecentIsLinked
  BY CostsLinked DEF create_stock, update_stock, deactivate_stock, ledgerVars
<1> QED
  BY <1>3, <1>4, <1>5 DEF Booked

\* (create_cost_line)
LEMMA CreateDraftBooked ==
    ASSUME BookInv, NEW s \in Stocks, NEW j \in Jobs, NEW q \in Quantities,
           create_cost_line(s, j, q)
    PROVE  Booked
<1> DEFINE c == [live |-> TRUE, job |-> j, quantity |-> q, approved |-> FALSE,
                 managedBy |-> "none", ref |-> s]
<1>1. c \in CostLine /\ ~Owned(c)
  BY LedgerAssumption DEF CostLine, Owner, Owned
<1>2. costLines' = Append(costLines, c) /\ UNCHANGED stock
  BY DEF create_cost_line
<1>3. NextCost \in Nat
  BY DEF NextCost, BookInv, IInv, TypeOK
<1>4. RecentIsLinked
  BY <1>1, <1>2, <1>3, CostLinked
<1> QED
  BY <1>2, <1>4, NoneBooked DEF Booked

\* (update_cost_line, delete_cost_line)
LEMMA EditDraftBooked ==
    ASSUME BookInv, NEW l \in DOMAIN costLines,
           \/ delete_cost_line(l)
           \/ \E s \in Stocks, q \in DraftQuantities : update_cost_line(l, s, q)
    PROVE  Booked
<1>0. costLines \in Seq(CostLine) /\ costLines[l] \in CostLine
  BY DEF BookInv, IInv, TypeOK
<1>1. ~Owned(costLines[l]) /\ UNCHANGED stock
  BY <1>0 DEF delete_cost_line, update_cost_line, refuse_workflow_managed, Owned, CostLine, Owner
<1>2. /\ DOMAIN costLines' = DOMAIN costLines
      /\ costLines'[l].managedBy = costLines[l].managedBy
      /\ \A k \in DOMAIN costLines : k # l => costLines'[k] = costLines[k]
  <2>1. CASE delete_cost_line(l)
    BY <1>0, <2>1 DEF delete_cost_line, CostLine
  <2>2. CASE \E s \in Stocks, q \in DraftQuantities : update_cost_line(l, s, q)
    BY <1>0, <2>2 DEF update_cost_line, CostLine
  <2> QED BY <2>1, <2>2
<1>3. RecentIsLinked
  BY <1>1, <1>2 DEF RecentIsLinked, Owned
<1> QED
  BY <1>1, <1>3, NoneBooked DEF Booked

\* (consume_stock)
LEMMA ConsumeBooked ==
    ASSUME BookInv, NEW s \in Stocks, NEW j \in Jobs, NEW q \in Quantities,
           consume_stock(s, j, q)
    PROVE  Booked
<1> DEFINE c == OwnedCost(j, q, "stock", s)
           context == MovementContext("issue", j, NextCost, 0)
<1>1. c \in CostLine /\ -q \in Int /\ IInv
  BY OwnedCostType, LedgerAssumption DEF Owner, BookInv
<1>2. /\ costLines' = Append(costLines, c)
      /\ stock' = [stock EXCEPT ![s] = move_stock(stock[s], -q, context)]
      /\ stock[s].made
  BY DEF consume_stock
<1>3. NextCost \in Nat /\ Base(s, stock[s])
  BY <1>1, <1>2, CostAppended, BaseExists
<1>4. /\ context \in Context /\ context.kind = "issue" /\ context.reverses = 0
      /\ context.cost = NextCost /\ context.kind \in JobKind
  BY <1>3, ContextType DEF MovementKind, MovementContext, JobKind
<1> HIDE DEF context, c
<1>5. Sound(stock[s].log, Len(stock[s].log) + 1, Recorded(stock[s], -q, context))
  BY <1>4, PlainIsSound
<1>6. From(s, stock[s], context)
  BY DEF From
<1>7. /\ RecentIsSound /\ DeliveredFirst'
      /\ \E i : Fresh(s, i) /\ stock'[s].log[i].cost = NextCost
  BY <1>1, <1>2, <1>3, <1>4, <1>5, <1>6, OneBooked
<1>8. RecentIsLinked
  BY <1>1, <1>2, <1>3, <1>7, CostLinked
<1> QED
  BY <1>7, <1>8 DEF Booked

\* (approve_cost_line)
LEMMA ApproveBooked ==
    ASSUME BookInv, NEW l \in DOMAIN costLines, approve_cost_line(l)
    PROVE  Booked
<1> DEFINE line == costLines[l]
           s == line.ref
           q == line.quantity
           c == OwnedCost(line.job, q, "stock", s)
           context == MovementContext("issue", line.job, l, 0)
<1>0. costLines \in Seq(CostLine) /\ line \in CostLine /\ l \in Nat /\ IInv
  BY DEF BookInv, IInv, TypeOK
<1>1. q \in Int /\ line.job \in Jobs
  BY <1>0 DEF CostLine
<1>2. -q \in Int
  BY <1>1
<1>3. /\ s \in Stocks /\ stock[s].made
      /\ stock' = [stock EXCEPT ![s] = move_stock(stock[s], -q, context)]
      /\ costLines' = [costLines EXCEPT ![l] = c]
  BY <1>0 DEF approve_cost_line
<1>4. c \in CostLine
  BY <1>1, <1>3, OwnedCostType DEF Owner
<1>5. Base(s, stock[s])
  BY <1>0, <1>3, BaseExists
<1>6. /\ context \in Context /\ context.kind = "issue" /\ context.reverses = 0
      /\ context.cost = l /\ context.kind \in JobKind
  BY <1>0, <1>1, ContextType DEF MovementKind, MovementContext, JobKind
<1> HIDE DEF context, c, s, q, line
<1>7. Sound(stock[s].log, Len(stock[s].log) + 1, Recorded(stock[s], -q, context))
  BY <1>6, PlainIsSound
<1>8. From(s, stock[s], context)
  BY DEF From
<1>9. /\ RecentIsSound /\ DeliveredFirst'
      /\ \E i : Fresh(s, i) /\ stock'[s].log[i].cost = l
  BY <1>2, <1>3, <1>5, <1>6, <1>7, <1>8, OneBooked
<1>10. RecentIsLinked
  BY <1>0, <1>3, <1>4, <1>9, CostLinked
<1> QED
  BY <1>9, <1>10 DEF Booked

\* What undoes a movement that was not undone before is sound after any history that
\* holds it.
LEMMA UndoIsSound ==
    ASSUME NEW log, NEW n \in Nat, NEW i \in 1..n, NEW row, NEW change,
           NEW kind \in {"return", "delivery_reversal"}, NEW job, NEW cost,
           log[i].kind = Undone(kind), log[i].job = job, change = -log[i].change,
           \A k \in 1..n : log[k].reverses # i,
           kind = "return" \/ job = NoJob
    PROVE  Sound(log, n + 1, Recorded(row, change, MovementContext(kind, job, cost, i)))
<1> DEFINE m == Recorded(row, change, MovementContext(kind, job, cost, i))
<1>1. m.kind = kind /\ m.job = job /\ m.reverses = i /\ m.change = change
  BY DEF Recorded, MovementContext
<1>2. (n + 1) - 1 = n
  OBVIOUS
<1> HIDE DEF m
<1>3. Sound(log, n + 1, m)
  BY <1>1, <1>2 DEF Sound, JobKind
<1> QED BY <1>3 DEF m

\* (reverse_issue)
LEMMA ReverseIssueBooked ==
    ASSUME BookInv, NEW s \in Stocks, NEW i \in DOMAIN stock[s].log, reverse_issue(s, i)
    PROVE  Booked
<1> DEFINE change == -stock[s].log[i].change
           c == Credit(stock[s], i)
           context == MovementContext("return", stock[s].log[i].job, NextCost, i)
           n == Len(stock[s].log)
<1>0. /\ IInv /\ stock[s].log \in Seq(StockMovement) /\ n \in Nat
      /\ DOMAIN stock[s].log = 1..n
  BY DEF BookInv, IInv, TypeOK, Account
<1>1. Base(s, stock[s]) /\ change \in Int /\ c \in CostLine
  BY <1>0, IssueFacts DEF reverse_issue
<1>2. /\ costLines' = Append(costLines, c)
      /\ stock' = [stock EXCEPT ![s] = move_stock(stock[s], change, context)]
      /\ stock[s].log[i].kind = "issue"
      /\ \A k \in 1..n : stock[s].log[k].reverses # i
  BY <1>0 DEF reverse_issue, Returned, Reversed
<1>3. NextCost \in Nat
  BY <1>0, <1>1, <1>2, CostAppended
<1>4. context \in Context
  BY <1>0, <1>2, <1>3, CreditAnswers
<1>5. context.cost = NextCost /\ context.kind \in JobKind
  BY DEF MovementContext, JobKind
<1>6. Sound(stock[s].log, n + 1, Recorded(stock[s], change, context))
  BY <1>0, <1>2, UndoIsSound DEF Undone
<1>7. From(s, stock[s], context)
  BY DEF From
<1> HIDE DEF context, c, change
<1>8. /\ RecentIsSound /\ DeliveredFirst'
      /\ \E k : Fresh(s, k) /\ stock'[s].log[k].cost = NextCost
  BY <1>1, <1>2, <1>4, <1>5, <1>6, <1>7, OneBooked
<1>9. RecentIsLinked
  BY <1>1, <1>2, <1>3, <1>8, CostLinked
<1> QED
  BY <1>8, <1>9 DEF Booked

\* (create_stock_from_allocation)
LEMMA ReceiveStockBooked ==
    ASSUME BookInv, NEW s \in Stocks, NEW q \in Quantities, create_stock_from_allocation(s, q)
    PROVE  Booked
<1>1. q \in Int /\ IInv
  BY LedgerAssumption DEF BookInv
<1>2. /\ stock' = [stock EXCEPT ![s] = move_stock(NewRow(TRUE), q, DeliveryContext)]
      /\ ~stock[s].made /\ UNCHANGED costLines
  BY DEF create_stock_from_allocation
<1>3. Base(s, NewRow(TRUE))
  BY <1>1, <1>2, BaseExists
<1>4. /\ DeliveryContext \in Context /\ DeliveryContext.kind = "delivery"
      /\ DeliveryContext.reverses = 0 /\ DeliveryContext.job = NoJob
  BY DeliveryContextType DEF DeliveryContext, MovementContext
<1>5. From(s, NewRow(TRUE), DeliveryContext)
  BY <1>1, <1>2, <1>4 DEF From, IInv, HistoryShape
<1>6. Sound(stock[s].log, Len(stock[s].log) + 1, Recorded(NewRow(TRUE), q, DeliveryContext))
  BY <1>4, PlainIsSound
<1>7. RecentIsSound /\ DeliveredFirst'
  BY <1>1, <1>2, <1>3, <1>4, <1>5, <1>6, OneBooked
<1> QED
  BY <1>2, <1>7, CostsLinked DEF Booked

\* (create_costline_from_allocation)
LEMMA ReceiveOnJobBooked ==
    ASSUME BookInv, NEW s \in Stocks, NEW j \in Jobs, NEW q \in Quantities,
           create_costline_from_allocation(s, j, q)
    PROVE  Booked
<1> DEFINE c == OwnedCost(j, q, "stock", OrderRef)
           issue == MovementContext("issue", j, NextCost, 0)
           base == NewRow(TRUE)
           mid == move_stock(base, q, DeliveryContext)
<1>1. q \in Int /\ -q \in Int /\ c \in CostLine /\ IInv
  BY OwnedCostType, LedgerAssumption DEF Owner, BookInv
<1>2. /\ costLines' = Append(costLines, c)
      /\ stock' = [stock EXCEPT ![s] =
                      move_stock(move_stock(base, q, DeliveryContext), -q, issue)]
      /\ ~stock[s].made
  BY DEF create_costline_from_allocation
<1>3. Base(s, base) /\ NextCost \in Nat
  BY <1>1, <1>2, BaseExists, CostAppended
<1>4. /\ DeliveryContext \in Context /\ DeliveryContext.kind = "delivery"
      /\ DeliveryContext.reverses = 0 /\ DeliveryContext.job = NoJob
  BY DeliveryContextType DEF DeliveryContext, MovementContext
<1>5. /\ issue \in Context /\ issue.kind = "issue" /\ issue.reverses = 0
      /\ issue.cost = NextCost /\ issue.kind \in JobKind
  BY <1>3, ContextType DEF MovementKind, MovementContext, JobKind
<1>6. From(s, base, DeliveryContext)
  BY <1>1, <1>2, <1>4 DEF From, IInv, HistoryShape
<1> HIDE DEF issue, c, base
<1>7. /\ Sound(stock[s].log, Len(stock[s].log) + 1, Recorded(base, q, DeliveryContext))
      /\ Sound(mid.log, Len(stock[s].log) + 2, Recorded(mid, -q, issue))
  BY <1>4, <1>5, PlainIsSound
<1>8. TwoMoves(s, base, q, DeliveryContext, -q, issue)
  BY <1>1, <1>2, <1>3, <1>4, <1>5, <1>6, <1>7 DEF TwoMoves
<1>9. /\ RecentIsSound /\ DeliveredFirst'
      /\ \E i : Fresh(s, i) /\ stock'[s].log[i].cost = NextCost
  BY <1>5, <1>8, TwoBooked
<1>10. RecentIsLinked
  BY <1>1, <1>2, <1>3, <1>9, CostLinked
<1> QED
  BY <1>9, <1>10 DEF Booked

\* What an order's row begins with is a delivery that can be undone.
LEMMA DeliveryFacts ==
    ASSUME BookInv, NEW s \in Stocks, stock[s].ordered
    PROVE  /\ Base(s, stock[s])
           /\ 1 \in DOMAIN stock[s].log
           /\ stock[s].log[1].kind = "delivery"
           /\ stock[s].log[1].job = NoJob
           /\ -stock[s].log[1].change \in Int
<1>1. stock[s].log \in Seq(StockMovement) /\ stock[s].log # <<>> /\ stock[s].made
  BY DEF BookInv, IInv, TypeOK, Account, HistoryShape
<1>2. 1 \in DOMAIN stock[s].log /\ stock[s].log[1] \in StockMovement
  BY <1>1
<1>3. stock[s].log[1].kind = "delivery"
  BY DEF BookInv, DeliveredFirst
<1>4. stock[s].log[1].job = NoJob
  BY <1>2, <1>3 DEF BookInv, MovementsSound, Sound, JobKind
<1>5. stock[s].log[1].change \in Int
  BY <1>2 DEF StockMovement
<1> QED
  BY <1>1, <1>2, <1>3, <1>4, <1>5, BaseExists DEF BookInv

\* (reverse_allocation of a receipt into the workshop)
LEMMA ReverseStockAllocationBooked ==
    ASSUME BookInv, NEW s \in Stocks, reverse_stock_allocation(s)
    PROVE  Booked
<1> DEFINE context == MovementContext("delivery_reversal", NoJob, 0, 1)
           change == -stock[s].log[1].change
           n == Len(stock[s].log)
<1>0. stock[s].log \in Seq(StockMovement) /\ n \in Nat /\ DOMAIN stock[s].log = 1..n
  BY DEF BookInv, IInv, TypeOK, Account
<1>1. /\ Base(s, stock[s]) /\ 1 \in 1..n /\ change \in Int
      /\ stock[s].log[1].kind = "delivery" /\ stock[s].log[1].job = NoJob
  BY <1>0, DeliveryFacts DEF reverse_stock_allocation
<1>2. /\ stock' = [stock EXCEPT ![s] = move_stock(stock[s], change, context)]
      /\ \A k \in 1..n : stock[s].log[k].reverses # 1
      /\ UNCHANGED costLines
  BY <1>0 DEF reverse_stock_allocation, ReverseDelivery, Reversed
<1>3. Sound(stock[s].log, n + 1, Recorded(stock[s], change, context))
  BY <1>0, <1>1, <1>2, UndoIsSound DEF Undone
<1>4. context \in Context /\ From(s, stock[s], context)
  BY DeliveryContextType DEF From
<1> HIDE DEF change, context
<1>5. RecentIsSound /\ DeliveredFirst'
  BY <1>1, <1>2, <1>3, <1>4, OneBooked
<1> QED
  BY <1>2, <1>5, CostsLinked DEF Booked

\* The issue is returned first, unless it was before; then the delivery is undone.
\* (reverse_allocation of a receipt onto a job)
LEMMA ReverseJobAllocationBooked ==
    ASSUME BookInv, NEW s \in Stocks, NEW i \in DOMAIN stock[s].log,
           reverse_job_allocation(s, i)
    PROVE  Booked
<1> DEFINE undo == MovementContext("delivery_reversal", NoJob, 0, 1)
           change == -stock[s].log[1].change
           back == -stock[s].log[i].change
           context == MovementContext("return", stock[s].log[i].job, NextCost, i)
           c == Credit(stock[s], i)
           returned == move_stock(stock[s], back, context)
           n == Len(stock[s].log)
<1>0. /\ IInv /\ stock[s].log \in Seq(StockMovement) /\ n \in Nat
      /\ DOMAIN stock[s].log = 1..n /\ stock[s] \in Account
  BY DEF BookInv, IInv, TypeOK, Account
<1>1. /\ Base(s, stock[s]) /\ 1 \in 1..n /\ change \in Int
      /\ stock[s].log[1].kind = "delivery" /\ stock[s].log[1].job = NoJob
  BY <1>0, DeliveryFacts DEF reverse_job_allocation
<1>2. /\ stock[s].log[i].kind = "issue"
      /\ back \in Int /\ c \in CostLine
      /\ \A k \in 1..n : stock[s].log[k].reverses # 1
  BY <1>0, IssueFacts DEF reverse_job_allocation, IsReceiptIssue, Reversed
<1>3. undo \in Context
  BY DeliveryContextType
<1>4. From(s, stock[s], undo) /\ From(s, stock[s], context)
  BY DEF From
<1>5. CASE /\ stock' = [stock EXCEPT ![s] = ReverseDelivery(stock[s])]
           /\ UNCHANGED costLines
  <2>1. stock' = [stock EXCEPT ![s] = move_stock(stock[s], change, undo)]
    BY <1>5 DEF ReverseDelivery
  <2>2. Sound(stock[s].log, n + 1, Recorded(stock[s], change, undo))
    BY <1>0, <1>1, <1>2, UndoIsSound DEF Undone
  <2> HIDE DEF change, undo
  <2>3. RecentIsSound /\ DeliveredFirst'
    BY <1>1, <1>3, <1>4, <2>1, <2>2, OneBooked
  <2> QED
    BY <1>5, <2>3, CostsLinked DEF Booked
<1>6. CASE /\ ~Reversed(stock[s], i)
           /\ stock' = [stock EXCEPT ![s] = ReverseDelivery(Returned(stock[s], i, NextCost))]
           /\ costLines' = Append(costLines, c)
  <2>1. NextCost \in Nat
    BY <1>0, <1>2, <1>6, CostAppended
  <2>2. context \in Context /\ context.cost = NextCost /\ context.kind \in JobKind
    <3>1. context \in Context
      BY <1>0, <1>2, <2>1, CreditAnswers
    <3> QED BY <3>1 DEF MovementContext, JobKind
  <2>3. /\ Len(returned.log) = n + 1
        /\ \A k \in 1..n : returned.log[k] = stock[s].log[k]
        /\ returned.log[n + 1] = Recorded(stock[s], back, context)
    <3>1. stock[s] \in Account /\ back \in Int /\ context \in Context
      BY <1>0, <1>2, <2>2
    <3> HIDE DEF back, context, n
    <3>2. /\ Len(returned.log) = Len(stock[s].log) + 1
          /\ \A k \in 1..Len(stock[s].log) : returned.log[k] = stock[s].log[k]
          /\ returned.log[Len(stock[s].log) + 1] = Recorded(stock[s], back, context)
      BY <3>1, MoveStockFields
    <3> QED BY <3>2 DEF n
  <2>4. returned.log[1] = stock[s].log[1]
    BY <1>1, <2>3
  <2>5. stock' = [stock EXCEPT ![s] =
                     move_stock(move_stock(stock[s], back, context), change, undo)]
    BY <1>6, <2>4 DEF ReverseDelivery, Returned
  <2>6. Sound(stock[s].log, n + 1, Recorded(stock[s], back, context))
    BY <1>0, <1>2, <1>6, UndoIsSound DEF Undone, Reversed
  <2>7. Sound(returned.log, n + 2, Recorded(returned, change, undo))
    <3>1. i # 1
      BY <1>1, <1>2
    <3>2. \A k \in 1..(n + 1) : returned.log[k].reverses # 1
      <4>1. ASSUME NEW k \in 1..(n + 1), k \notin 1..n PROVE k = n + 1
        BY <1>0, <4>1
      <4>2. returned.log[n + 1].reverses = i
        BY <2>3 DEF Recorded, MovementContext
      <4> QED BY <1>2, <2>3, <3>1, <4>1, <4>2
    <3>3. n + 1 \in Nat /\ 1 \in 1..(n + 1) /\ (n + 1) + 1 = n + 2
      BY <1>0
    <3>4. Sound(returned.log, (n + 1) + 1, Recorded(returned, change, undo))
      <4>1. returned.log[1].kind = "delivery" /\ returned.log[1].job = NoJob
            /\ change = -returned.log[1].change
        BY <1>1, <2>4
      <4>2. NoJob = NoJob /\ Undone("delivery_reversal") = "delivery"
        BY DEF Undone
      <4> HIDE DEF returned, n, change
      <4> QED
        BY <3>2, <3>3, <4>1, <4>2, UndoIsSound
    <3> QED BY <3>3, <3>4
  <2>8. TwoMoves(s, stock[s], back, context, change, undo)
    <3> HIDE DEF back, context, change, undo
    <3> QED
      BY <1>1, <1>2, <1>3, <1>4, <2>2, <2>5, <2>6, <2>7 DEF TwoMoves
  <2> HIDE DEF back, context, change, undo, c
  <2>9. /\ RecentIsSound /\ DeliveredFirst'
        /\ \E k : Fresh(s, k) /\ stock'[s].log[k].cost = NextCost
    BY <2>2, <2>8, TwoBooked
  <2>10. RecentIsLinked
    BY <1>2, <1>6, <2>1, <2>9, CostLinked
  <2> QED
    BY <2>9, <2>10 DEF Booked
<1> QED
  BY <1>5, <1>6 DEF reverse_job_allocation

\* Each line of a count records a movement that undoes nothing, on a row of its own,
\* and charges a new cost line. (post_stocktake)
LEMMA PostLinesBooked ==
    ASSUME BookInv, NEW lines \in CountLines, post_lines(lines)
    PROVE  Booked
<1> DEFINE n == Len(costLines)
           d(k) == lines[k].difference
           cost(k) == OwnedCost(AdjustmentJob, -d(k), "stocktake", NoRef)
           context(k) == MovementContext("stocktake", AdjustmentJob, n + k, 0)
           LineOf(s) == CHOOSE k \in DOMAIN lines : lines[k].stock = s
           Hit(s) == \E k \in DOMAIN lines : lines[k].stock = s
           after(s) == move_stock(Counted(s), d(LineOf(s)), context(LineOf(s)))
<1>0. /\ costLines \in Seq(CostLine) /\ n \in Nat /\ DOMAIN costLines = 1..n
      /\ stock \in [Stocks -> Account] /\ IInv
  BY DEF BookInv, IInv, TypeOK
<1>l. \A s \in Stocks : /\ stock[s].log \in Seq(StockMovement) /\ Len(stock[s].log) \in Nat
                          /\ DOMAIN stock[s].log = 1..Len(stock[s].log)
  BY <1>0 DEF Account
<1>1. /\ Len(lines) \in Nat /\ DOMAIN lines = 1..Len(lines)
      /\ \A k, m \in DOMAIN lines : lines[k].stock = lines[m].stock => k = m
  BY CountLinesFacts
<1>2. ASSUME NEW k \in DOMAIN lines
      PROVE  k \in Nat /\ lines[k].stock \in Stocks /\ d(k) \in Int
  <2>1. k \in Nat /\ lines[k] \in [stock : Stocks, difference : Differences]
    <3> DEFINE CountLine == [stock : Stocks, difference : Differences]
    <3>1. lines \in Seq(CountLine)
      BY CountLinesFacts
    <3> HIDE DEF CountLine
    <3>2. lines[k] \in CountLine
      BY <3>1
    <3> QED BY <1>1, <3>2 DEF CountLine
  <2>2. lines[k].stock \in Stocks /\ lines[k].difference \in Differences
    BY <2>1
  <2>3. ASSUME NEW x \in Differences PROVE x \in Int
    <3>1. CASE x \in Quantities
      BY <3>1, LedgerAssumption
    <3>2. CASE x \notin Quantities
      <4>1. PICK q \in Quantities : x = -q
        BY <3>2 DEF Differences
      <4>2. q \in Int
        BY LedgerAssumption
      <4> QED BY <4>1, <4>2
    <3> QED BY <3>1, <3>2
  <2> QED BY <2>1, <2>2, <2>3
<1>3. \A s \in Stocks : stock'[s] = IF Hit(s) THEN after(s) ELSE stock[s]
  BY DEF post_lines
<1>4. ASSUME NEW s \in Stocks, Hit(s)
      PROVE  /\ LineOf(s) \in DOMAIN lines /\ lines[LineOf(s)].stock = s
             /\ context(LineOf(s)) \in Context
             /\ Base(s, Counted(s))
             /\ d(LineOf(s)) \in Int
  <2>1. LineOf(s) \in DOMAIN lines /\ lines[LineOf(s)].stock = s
    BY <1>4
  <2>2. n + LineOf(s) \in Nat /\ d(LineOf(s)) \in Int
    BY <1>0, <1>2, <2>1
  <2>3. context(LineOf(s)) \in Context
    BY <2>2, ContextType, LedgerAssumption DEF MovementKind
  <2>4. Base(s, Counted(s))
    BY <1>0, BaseExists DEF Counted
  <2> QED BY <2>1, <2>2, <2>3, <2>4
<1>5. ASSUME NEW s \in Stocks, Hit(s)
      PROVE  /\ DOMAIN stock'[s].log = 1..(Len(stock[s].log) + 1)
             /\ stock'[s].log[Len(stock[s].log) + 1]
                   = Recorded(Counted(s), d(LineOf(s)), context(LineOf(s)))
             /\ \A i \in DOMAIN stock[s].log : stock'[s].log[i] = stock[s].log[i]
             /\ stock'[s].ordered => stock[s].ordered
  <2>1. stock'[s] = after(s)
    BY <1>3, <1>5
  <2>2. Counted(s) \in Account /\ ChainFrom(Counted(s)) /\ Counted(s).made
        /\ Counted(s).log = stock[s].log /\ stock[s] \in Account
    BY <1>0, <1>4, <1>5 DEF Base
  <2>3. Counted(s).ordered => stock[s].ordered
    BY DEF Counted, NewRow
  <2>4. d(LineOf(s)) \in Int /\ context(LineOf(s)) \in Context
    BY <1>4, <1>5
  <2>5. after(s).ordered = Counted(s).ordered
    BY DEF move_stock
  <2> HIDE DEF d, context, LineOf
  <2>6. /\ Extends(stock[s], after(s))
        /\ DOMAIN after(s).log = 1..(Len(stock[s].log) + 1)
        /\ after(s).log[Len(stock[s].log) + 1]
              = Recorded(Counted(s), d(LineOf(s)), context(LineOf(s)))
    BY <2>2, <2>4, MoveExtends
  <2> HIDE DEF after
  <2> QED
    BY <2>1, <2>3, <2>5, <2>6 DEF Extends
<1>6. ASSUME NEW s \in Stocks, NEW i, Recent(s, i)
      PROVE  /\ Hit(s) /\ i = Len(stock[s].log) + 1
             /\ stock'[s].log[i] = Recorded(Counted(s), d(LineOf(s)), context(LineOf(s)))
  <2>1. Hit(s)
    BY <1>3, <1>6 DEF Recent
  <2>2. i \in 1..(Len(stock[s].log) + 1) /\ i \notin 1..Len(stock[s].log)
    BY <1>5, <1>6, <1>l, <2>1 DEF Recent
  <2>3. i = Len(stock[s].log) + 1
    BY <1>l, <2>2
  <2> QED BY <1>5, <2>1, <2>3
<1>7. RecentIsSound
  <2> SUFFICES ASSUME NEW s \in Stocks, NEW i, Recent(s, i)
               PROVE  Sound(stock'[s].log, i, stock'[s].log[i])
    BY DEF RecentIsSound
  <2>1. stock'[s].log[i] = Recorded(Counted(s), d(LineOf(s)), context(LineOf(s)))
    BY <1>6
  <2>2. context(LineOf(s)) \in Context
    BY <1>4, <1>6
  <2>3. context(LineOf(s)).kind = "stocktake" /\ context(LineOf(s)).reverses = 0
    BY DEF MovementContext
  <2> HIDE DEF context, d, LineOf
  <2> QED
    BY <2>1, <2>2, <2>3, PlainIsSound DEF JobKind
<1>8. DeliveredFirst'
  <2> SUFFICES ASSUME NEW s \in Stocks, stock'[s].ordered
               PROVE  stock'[s].log[1].kind = "delivery"
    BY DEF DeliveredFirst
  <2>1. stock[s].ordered
    BY <1>3, <1>5
  <2>2. /\ stock[s].log[1].kind = "delivery"
        /\ stock[s].log # <<>> /\ stock[s].log \in Seq(StockMovement)
    BY <1>0, <2>1 DEF BookInv, DeliveredFirst, IInv, HistoryShape, Account
  <2>3. 1 \in DOMAIN stock[s].log
    BY <2>2
  <2>4. stock'[s].log[1] = stock[s].log[1]
    <3>1. CASE Hit(s)
      BY <1>5, <2>3, <3>1
    <3>2. CASE ~Hit(s)
      BY <1>3, <3>2
    <3> QED BY <3>1, <3>2
  <2> QED BY <2>2, <2>4
<1>9. ASSUME NEW l \in DOMAIN costLines', l \notin DOMAIN costLines
      PROVE  \E s \in Stocks : \E i : Fresh(s, i) /\ stock'[s].log[i].cost = l
  <2> DEFINE charged == [k \in DOMAIN lines |-> cost(k)]
             k == l - n
  <2>1. costLines' = costLines \o charged /\ DOMAIN charged = 1..Len(lines)
    BY <1>1 DEF post_lines
  <2>2. Len(charged) = Len(lines)
    BY <1>1, <2>1
  <2> HIDE DEF charged
  <2>3. DOMAIN costLines' = 1..(n + Len(lines))
    <3>1. costLines' \in Seq(CostLine)
      BY PostLinesStep, <1>0 DEF Preserved, OwnedKept
    <3>2. Len(costLines \o charged) = Len(costLines) + Len(charged)
      BY <1>0, <1>1, <2>1
    <3> QED BY <1>0, <1>1, <2>1, <2>2, <3>1, <3>2
  <2>4. k \in DOMAIN lines /\ n + k = l
    BY <1>0, <1>1, <1>9, <2>3
  <2> HIDE DEF k
  <2> DEFINE s == lines[k].stock
             i == Len(stock[s].log) + 1
  <2>5. s \in Stocks /\ Hit(s)
    BY <1>2, <2>4
  <2>6. LineOf(s) = k
    BY <1>1, <1>4, <2>4, <2>5
  <2>7. i \in DOMAIN stock'[s].log /\ i \notin DOMAIN stock[s].log
    <3> DEFINE old == Len(stock[s].log)
    <3>1. old \in Nat /\ DOMAIN stock[s].log = 1..old
      BY <1>l, <2>5
    <3>2. DOMAIN stock'[s].log = 1..(old + 1)
      BY <1>5, <2>5
    <3>3. i = old + 1
      OBVIOUS
    <3> HIDE DEF s, i, old
    <3> QED BY <3>1, <3>2, <3>3
  <2>8. stock'[s].log[i] = Recorded(Counted(s), d(LineOf(s)), context(LineOf(s)))
    <3> HIDE DEF s
    <3> QED BY <1>5, <2>5
  <2> HIDE DEF LineOf, s, i
  <2>9. stock'[s].log[i].kind = "stocktake" /\ stock'[s].log[i].cost = n + k
    BY <2>6, <2>8 DEF Recorded, MovementContext
  <2> HIDE DEF s, i
  <2> QED
    BY <2>4, <2>5, <2>7, <2>9 DEF Fresh, JobKind
<1>10. ASSUME NEW l \in DOMAIN costLines PROVE costLines'[l] = costLines[l]
  <2> DEFINE charged == [k \in DOMAIN lines |-> cost(k)]
  <2>1. costLines' = costLines \o charged
    BY DEF post_lines
  <2>2. Len(charged) = Len(lines) /\ DOMAIN charged = 1..Len(lines)
    BY <1>1
  <2> HIDE DEF charged
  <2> QED BY <1>0, <1>1, <2>1, <2>2
<1>11. RecentIsLinked
  BY <1>9, <1>10 DEF RecentIsLinked
<1> QED
  BY <1>7, <1>8, <1>11 DEF Booked

-----------------------------------------------------------------------------
(* The theorems.                                                           *)

\* The empty ledger keeps an empty book.
LEMMA InitBook == Init => BookInv /\ Book!Init
<1> SUFFICES ASSUME Init PROVE BookInv /\ Book!Init
  OBVIOUS
<1>1. /\ \A s \in Stocks : stock[s] = NoRow
      /\ costLines = <<>> /\ NoRow.log = <<>> /\ ~NoRow.ordered
  BY DEF Init, NoRow
<1>2. \A s \in Stocks : DOMAIN stock[s].log = {}
  BY <1>1
<1>3. DOMAIN costLines = {}
  BY <1>1
<1>4. BookInv
  BY <1>1, <1>2, <1>3, InitInvariant DEF BookInv, MovementsSound, DeliveredFirst, OwnedCostsAreLinked
<1>5. \A s \in Stocks : Page(stock[s]) = <<>>
  BY <1>2 DEF Page
<1>6. StandingCharges = [c \in {} |-> 0]
  BY <1>3 DEF StandingCharges
<1> QED
  BY <1>4, <1>5, <1>6 DEF Book!Init

\* Every request is a sound step of the ledger.
LEMMA NextBooked ==
    ASSUME BookInv, [Next]_ledgerVars
    PROVE  Preserved /\ Booked
<1>0. IInv
  BY DEF BookInv
<1>1. CASE UNCHANGED ledgerVars
  <2>1. UNCHANGED stock /\ UNCHANGED costLines
    BY <1>1 DEF ledgerVars
  <2>2. Preserved
    BY <1>0, <2>1, CostsUnchanged, StockUnchanged
  <2>3. Booked
    BY <2>1, NoneBooked, CostsLinked DEF Booked
  <2> QED BY <2>2, <2>3
<1>2. ASSUME NEW s \in Stocks,
             create_stock(s) \/ update_stock(s) \/ deactivate_stock(s)
      PROVE  Preserved /\ Booked
  BY <1>0, <1>2, IdentityStep, IdentityBooked
<1>3. ASSUME NEW s \in Stocks, reverse_stock_allocation(s) PROVE Preserved /\ Booked
  BY <1>0, <1>3, ReverseStockAllocationStep, ReverseStockAllocationBooked
<1>4. ASSUME NEW s \in Stocks, NEW i \in DOMAIN stock[s].log, reverse_issue(s, i)
      PROVE  Preserved /\ Booked
  BY <1>0, <1>4, ReverseIssueStep, ReverseIssueBooked
<1>5. ASSUME NEW s \in Stocks, NEW i \in DOMAIN stock[s].log, reverse_job_allocation(s, i)
      PROVE  Preserved /\ Booked
  BY <1>0, <1>5, ReverseJobAllocationStep, ReverseJobAllocationBooked
<1>6. ASSUME NEW s \in Stocks, NEW q \in Quantities, create_stock_from_allocation(s, q)
      PROVE  Preserved /\ Booked
  BY <1>0, <1>6, ReceiveStockStep, ReceiveStockBooked
<1>7. ASSUME NEW s \in Stocks, NEW q \in Quantities, NEW j \in Jobs, create_cost_line(s, j, q)
      PROVE  Preserved /\ Booked
  BY <1>0, <1>7, CreateDraftStep, CreateDraftBooked
<1>8. ASSUME NEW s \in Stocks, NEW q \in Quantities, NEW j \in Jobs, consume_stock(s, j, q)
      PROVE  Preserved /\ Booked
  BY <1>0, <1>8, ConsumeStep, ConsumeBooked
<1>9. ASSUME NEW s \in Stocks, NEW q \in Quantities, NEW j \in Jobs,
             create_costline_from_allocation(s, j, q)
      PROVE  Preserved /\ Booked
  BY <1>0, <1>9, ReceiveOnJobStep, ReceiveOnJobBooked
<1>10. ASSUME NEW l \in DOMAIN costLines,
              \/ delete_cost_line(l)
              \/ \E s \in Stocks, q \in DraftQuantities : update_cost_line(l, s, q)
       PROVE  Preserved /\ Booked
  BY <1>0, <1>10, EditDraftStep, EditDraftBooked
<1>11. ASSUME NEW l \in DOMAIN costLines, approve_cost_line(l) PROVE Preserved /\ Booked
  BY <1>0, <1>11, ApproveStep, ApproveBooked
<1>12. ASSUME NEW lines \in CountLines, post_lines(lines) PROVE Preserved /\ Booked
  BY <1>0, <1>12, PostLinesStep, PostLinesBooked
<1> QED
  BY <1>1, <1>2, <1>3, <1>4, <1>5, <1>6, <1>7, <1>8, <1>9, <1>10, <1>11, <1>12 DEF Next

\* For every value of the constants, what reversals undo and what owned costs answer
\* is on record: the inductive invariant behind the results below.
THEOREM BookInvariance == Spec => []BookInv
<1>1. BookInv /\ [Next]_ledgerVars => BookInv'
  BY NextBooked, BookedKeeps
<1> QED
  BY InitBook, <1>1, PTL DEF Spec

\* The ledger implements the account book: whichever handler serves a request and
\* however often it is sent, it adds sound entries with exactly their charges in
\* one step, or leaves book and charges alone.
THEOREM BookIsKept == Spec => KeepsTheBook
<1>1. BookInv /\ [Next]_ledgerVars => [Book!Post]_(Book!bookVars)
  BY NextBooked, BookedPosts
<1> QED
  BY InitBook, BookInvariance, <1>1, PTL DEF Spec, KeepsTheBook, Book!Spec

\* A return or a reversal of a receipt undoes an earlier movement of its row entirely,
\* and once, however often it is requested and by whichever route.
THEOREM ReversalsAreEvidenced == Spec => []ReversalEvidence
<1>1. ASSUME BookInv PROVE ReversalEvidence
  <2> SUFFICES ASSUME NEW s \in Stocks
               PROVE  LET log == stock[s].log IN
                      /\ \A k \in DOMAIN log :
                            log[k].kind \in {"return", "delivery_reversal"} =>
                               /\ log[k].reverses \in 1..(k - 1)
                               /\ LET original == log[log[k].reverses] IN
                                  /\ original.kind = IF log[k].kind = "return" THEN "issue" ELSE "delivery"
                                  /\ log[k].job = original.job
                                  /\ log[k].change = -original.change
                      /\ \A k, m \in DOMAIN log :
                            log[k].reverses = log[m].reverses /\ log[k].reverses # 0 => k = m
    BY DEF ReversalEvidence
  <2> DEFINE log == stock[s].log
  <2>1. log \in Seq(StockMovement) /\ \A k \in DOMAIN log : Sound(log, k, log[k])
    BY <1>1 DEF BookInv, IInv, TypeOK, Account, MovementsSound
  <2>2. ASSUME NEW k \in DOMAIN log, NEW m \in DOMAIN log, k < m,
               log[k].reverses = log[m].reverses, log[k].reverses # 0
        PROVE  FALSE
    <3>1. k \in 1..(m - 1) /\ log[m].reverses # 0
      BY <2>1, <2>2
    <3>2. log[m].kind \in {"return", "delivery_reversal"}
      BY <2>1, <3>1 DEF Sound
    <3> QED
      BY <2>1, <2>2, <3>1, <3>2 DEF Sound
  <2>3. ASSUME NEW k \in DOMAIN log, NEW m \in DOMAIN log,
               log[k].reverses = log[m].reverses, log[k].reverses # 0
        PROVE  k = m
    <3>1. k \in Nat /\ m \in Nat
      BY <2>1
    <3> QED BY <2>2, <2>3, <3>1
  <2>4. ASSUME NEW k \in DOMAIN log, log[k].kind \in {"return", "delivery_reversal"}
        PROVE  /\ log[k].reverses \in 1..(k - 1)
               /\ log[log[k].reverses].kind = IF log[k].kind = "return" THEN "issue" ELSE "delivery"
               /\ log[k].job = log[log[k].reverses].job
               /\ log[k].change = -log[log[k].reverses].change
    BY <2>1, <2>4 DEF Sound, Undone
  <2> QED BY <2>3, <2>4
<1> QED
  BY BookInvariance, <1>1, PTL

\* No job is charged by the inventory for material that no movement took.
THEOREM OwnedAreLinked == Spec => []OwnedCostsAreLinked
<1>1. BookInv => OwnedCostsAreLinked
  BY DEF BookInv
<1> QED
  BY BookInvariance, <1>1, PTL

-----------------------------------------------------------------------------
(* The workshop and the jobs together.                                     *)

\* What a row's movements took from the workshop or gave it, other than supplies.
\* The row has the quantity its movements add up to. (move_stock)
Changes(row) == [i \in DOMAIN row.log |-> row.log[i].change]

\* What a movement charges, by itself and in the whole log.
Charged(m) == IF m.kind \in JobKind THEN -m.change ELSE 0
Charges_of(row) == [i \in DOMAIN row.log |-> Charged(row.log[i])]

\* What a cost line charges to its job.
Amount == [l \in DOMAIN costLines |->
             IF costLines[l].live /\ Owned(costLines[l]) THEN costLines[l].quantity ELSE 0]

LEMMA LogFacts ==
    ASSUME IInv, NEW s \in Stocks
    PROVE  /\ Len(stock[s].log) \in Nat /\ DOMAIN stock[s].log = 1 .. Len(stock[s].log)
           /\ IsFiniteSet(DOMAIN stock[s].log)
           /\ stock[s].quantity \in Int
           /\ \A i \in DOMAIN stock[s].log : stock[s].log[i] \in StockMovement
<1>1. stock[s] \in Account
  BY DEF IInv, TypeOK
<1>2. stock[s].log \in Seq(StockMovement) /\ stock[s].quantity \in Int
  BY <1>1 DEF Account
<1>3. /\ Len(stock[s].log) \in Nat /\ DOMAIN stock[s].log = 1 .. Len(stock[s].log)
      /\ \A i \in DOMAIN stock[s].log : stock[s].log[i] \in StockMovement
  BY <1>2
<1>4. IsFiniteSet(1 .. Len(stock[s].log))
  BY <1>3, FS_Interval
<1> QED BY <1>2, <1>3, <1>4

\* The chain of a row adds up. (move_stock)
LEMMA QuantityIsItsChanges ==
    ASSUME IInv, NEW s \in Stocks
    PROVE  SumFunctionOnSet(Changes(stock[s]), DOMAIN stock[s].log) = stock[s].quantity
<1> DEFINE log == stock[s].log
<1>1. PICK N \in Nat : N = Len(log) /\ DOMAIN log = 1 .. N
  BY LogFacts
<1>2. PICK level : level = [n \in 0 .. N |-> IF n = 0 THEN 0 ELSE log[n].after]
  OBVIOUS
<1>3. \A i \in 1 .. N : /\ log[i].after \in Int /\ log[i].change \in Int
                        /\ log[i].after = log[i].before + log[i].change
                        /\ log[i].before = IF i = 1 THEN 0 ELSE log[i - 1].after
  <2>1. \A i \in 1 .. N : log[i] \in StockMovement
    BY <1>1, LogFacts
  <2>2. ChainFrom(stock[s])
    BY DEF IInv, LedgerContinuity
  <2> QED BY <1>1, <2>1, <2>2 DEF ChainFrom, StockMovement
<1>4. PICK f : f = Changes(stock[s])
  OBVIOUS
<1>5. ASSUME NEW i \in 1 .. N
      PROVE  f[i] \in Int /\ level[i] \in Int /\ level[i] = level[i - 1] + f[i]
  <2>1. f[i] = log[i].change /\ level[i] = log[i].after
    BY <1>1, <1>2, <1>4 DEF Changes
  <2>2. level[i - 1] = log[i].before
    <3>1. CASE i = 1
      BY <1>2, <1>3, <3>1
    <3>2. CASE i # 1
      <4>1. i - 1 \in 0 .. N /\ i - 1 # 0
        BY <3>2
      <4> QED BY <1>2, <1>3, <3>2, <4>1
    <3> QED BY <3>1, <3>2
  <2> QED BY <1>3, <2>1, <2>2
<1>6. level[0] = 0
  BY <1>2
<1>7. SumFunctionOnSet(f, 1 .. N) = level[N]
  BY <1>5, <1>6, SumOfSteps
<1>8. level[N] = stock[s].quantity
  <2>1. ChainFrom(stock[s]) /\ (log = <<>> <=> N = 0)
    <3>1. log \in Seq(StockMovement)
      BY DEF IInv, TypeOK, Account
    <3> QED BY <1>1, <3>1 DEF IInv, LedgerContinuity
  <2> QED BY <1>1, <1>2, <2>1 DEF ChainFrom
<1> QED BY <1>1, <1>4, <1>7, <1>8

\* A row holds what was delivered to it less what was charged for it.
LEMMA RowAddsUp ==
    ASSUME IInv, NEW s \in Stocks
    PROVE  /\ Delivered(stock[s]) \in Int
           /\ SumFunctionOnSet(Charges_of(stock[s]), DOMAIN stock[s].log) \in Int
           /\ Delivered(stock[s]) = stock[s].quantity
                 + SumFunctionOnSet(Charges_of(stock[s]), DOMAIN stock[s].log)
<1> DEFINE log == stock[s].log
<1>1. PICK D : D = DOMAIN log /\ IsFiniteSet(D)
  BY LogFacts
<1>2. PICK d : d = [i \in D |-> IF log[i].kind \in {"delivery", "delivery_reversal"} THEN log[i].change ELSE 0]
  OBVIOUS
<1>3. Delivered(stock[s]) = SumFunctionOnSet(d, D)
  BY <1>1, <1>2 DEF Delivered, SumFunction
<1>4. PICK f : f = Changes(stock[s])
  OBVIOUS
<1>5. PICK h : h = Charges_of(stock[s])
  OBVIOUS
<1>6. ASSUME NEW i \in D PROVE f[i] \in Int /\ h[i] \in Int /\ d[i] \in Int /\ d[i] = f[i] + h[i]
  <2>1. log[i].change \in Int /\ log[i].kind \in MovementKind
    BY <1>1, LogFacts DEF StockMovement
  <2>2. /\ f[i] = log[i].change /\ h[i] = Charged(log[i])
        /\ d[i] = IF log[i].kind \in {"delivery", "delivery_reversal"} THEN log[i].change ELSE 0
    BY <1>1, <1>2, <1>4, <1>5 DEF Changes, Charges_of
  <2> QED BY <2>1, <2>2 DEF Charged, MovementKind, JobKind
<1>7. SumFunctionOnSet(d, D) = SumFunctionOnSet(f, D) + SumFunctionOnSet(h, D)
  BY <1>1, <1>6, SumOfSums
<1>8. SumFunctionOnSet(d, D) \in Int /\ SumFunctionOnSet(h, D) \in Int
  BY <1>1, <1>6, SumType
<1>9. SumFunctionOnSet(f, D) = stock[s].quantity
  BY <1>1, <1>4, QuantityIsItsChanges
<1> QED BY <1>1, <1>3, <1>5, <1>7, <1>8, <1>9

\* The rows of cost lines: where the movement is that a line answers.
LinkedTo(l, s) == \E i \in DOMAIN stock[s].log : stock[s].log[i].kind \in JobKind /\ stock[s].log[i].cost = l
OwnedLines == {l \in DOMAIN costLines : Owned(costLines[l])}

LEMMA LinesHaveRows ==
    ASSUME BookInv
    PROVE  \E p : \A l \in OwnedLines : p[l] \in Stocks /\ \A s \in Stocks : LinkedTo(l, s) <=> p[l] = s
<1>1. PICK p : p = [l \in OwnedLines |-> CHOOSE s \in Stocks : LinkedTo(l, s)]
  OBVIOUS
<1>2. ASSUME NEW l \in OwnedLines
      PROVE  p[l] \in Stocks /\ \A s \in Stocks : LinkedTo(l, s) <=> p[l] = s
  <2>1. \E s \in Stocks : LinkedTo(l, s)
    BY DEF BookInv, OwnedCostsAreLinked, OwnedLines, LinkedTo
  <2>2. p[l] \in Stocks /\ LinkedTo(l, p[l])
    BY <1>1, <2>1
  <2>3. \A s, t \in Stocks : LinkedTo(l, s) /\ LinkedTo(l, t) => s = t
    BY DEF BookInv, IInv, JobCostCounterparts, LinkedTo
  <2> QED BY <2>2, <2>3
<1> QED BY <1>2

\* What stands on jobs for a row is what its movements charge. (JobCostCounterparts)
LEMMA RowIsCharged ==
    ASSUME BookInv, NEW s \in Stocks, NEW p,
           \A l \in OwnedLines : p[l] \in Stocks /\ \A t \in Stocks : LinkedTo(l, t) <=> p[l] = t
    PROVE  SumFunctionOnSet(Amount, Part(OwnedLines, p, s))
              = SumFunctionOnSet(Charges_of(stock[s]), DOMAIN stock[s].log)
<1> DEFINE log == stock[s].log
<1>0. IInv
  BY DEF BookInv
<1>1. PICK D : D = DOMAIN log /\ IsFiniteSet(D)
  BY <1>0, LogFacts
<1>2. PICK h : h = Charges_of(stock[s])
  OBVIOUS
<1>3. PICK J : J = {i \in D : log[i].kind \in JobKind}
  OBVIOUS
<1>4. PICK c : c = [i \in J |-> log[i].cost]
  OBVIOUS
<1>5. PICK T : T = Part(OwnedLines, p, s)
  OBVIOUS
<1>6. \A i \in D : h[i] \in Int /\ (i \notin J => h[i] = 0) /\ (i \in J => h[i] = -log[i].change)
  <2>1. \A i \in D : log[i].change \in Int /\ h[i] = Charged(log[i])
    BY <1>0, <1>1, <1>2, LogFacts DEF StockMovement, Charges_of
  <2> QED BY <1>3, <2>1 DEF Charged
<1>7. IsFiniteSet(J) /\ J \subseteq D
  BY <1>1, <1>3, FS_Subset
<1>8. ASSUME NEW i \in J
      PROVE  c[i] \in OwnedLines /\ LinkedTo(c[i], s) /\ Amount[c[i]] = h[i]
  <2>1. i \in DOMAIN log /\ log[i].kind \in JobKind /\ c[i] = log[i].cost
    BY <1>1, <1>3, <1>4
  <2>2. c[i] \in DOMAIN costLines /\ Answers(costLines[c[i]], log[i])
    BY <1>0, <2>1 DEF IInv, JobCostCounterparts
  <2>3. Owned(costLines[c[i]]) /\ costLines[c[i]].live /\ costLines[c[i]].quantity = -log[i].change
    BY <2>2 DEF Answers, Owned, OwnerOf
  <2> QED BY <1>6, <1>7, <2>1, <2>2, <2>3 DEF Amount, OwnedLines, LinkedTo
<1>9. T = {c[i] : i \in J}
  <2>1. ASSUME NEW l \in T PROVE \E i \in J : c[i] = l
    <3>1. LinkedTo(l, s)
      BY <1>5 DEF Part
    <3> QED BY <1>1, <1>3, <1>4, <3>1 DEF LinkedTo
  <2>2. ASSUME NEW i \in J PROVE c[i] \in T
    BY <1>5, <1>8 DEF Part
  <2> QED BY <1>5, <2>1, <2>2
<1>10. \A i, k \in J : c[i] = c[k] => i = k
  BY <1>0, <1>1, <1>3, <1>4 DEF IInv, JobCostCounterparts
<1>11. SumFunctionOnSet(Amount, T) = SumFunctionOnSet(h, J)
  <2>1. \A i \in J : h[i] \in Int
    BY <1>6, <1>7
  <2>2. \A i \in J : Amount[c[i]] = h[i]
    BY <1>8
  <2>3. PICK a : a = Amount
    OBVIOUS
  <2>4. SumFunctionOnSet(a, T) = SumFunctionOnSet(h, J)
    BY <1>7, <1>9, <1>10, <2>1, <2>2, <2>3, SumMoved
  <2> QED BY <2>3, <2>4
<1>12. SumFunctionOnSet(h, D) = SumFunctionOnSet(h, J)
  <2>1. \A i \in D : h[i] \in Int
    BY <1>6
  <2>2. \A i \in D \ J : h[i] = 0
    BY <1>6
  <2> QED BY <1>1, <1>7, <2>1, <2>2, SumOfRest
<1> QED BY <1>1, <1>2, <1>5, <1>11, <1>12

\* Double entry is what the chain of each row and the links of the cost lines say together.
LEMMA DoubleEntry == BookInv => MaterialConserved
<1> SUFFICES ASSUME BookInv PROVE MaterialConserved
  OBVIOUS
<1>0. IInv /\ IsFiniteSet(Stocks)
  BY StocksAssumption DEF BookInv
<1>1. PICK p : \A l \in OwnedLines : p[l] \in Stocks /\ \A s \in Stocks : LinkedTo(l, s) <=> p[l] = s
  BY LinesHaveRows
<1>2. PICK q : q = [s \in Stocks |-> stock[s].quantity]
  OBVIOUS
<1>3. PICK t : t = [s \in Stocks |-> SumFunctionOnSet(Charges_of(stock[s]), DOMAIN stock[s].log)]
  OBVIOUS
<1>4. PICK d : d = [s \in Stocks |-> Delivered(stock[s])]
  OBVIOUS
<1>5. PICK a : a = Amount
  OBVIOUS
<1>6. PICK L : L = DOMAIN costLines
  OBVIOUS
<1>7. IsFiniteSet(L) /\ OwnedLines \subseteq L /\ IsFiniteSet(OwnedLines)
  <2>1. costLines \in Seq(CostLine)
    BY <1>0 DEF IInv, TypeOK
  <2>2. L = 1 .. Len(costLines) /\ Len(costLines) \in Nat
    BY <1>6, <2>1
  <2>3. IsFiniteSet(L)
    BY <2>2, FS_Interval
  <2>4. OwnedLines \in SUBSET L
    BY <1>6 DEF OwnedLines
  <2> QED BY <2>3, <2>4, FS_Subset
<1>8. \A l \in L : a[l] \in Int /\ (l \notin OwnedLines => a[l] = 0)
  <2>1. \A l \in L : costLines[l] \in CostLine
    BY <1>0, <1>6 DEF IInv, TypeOK
  <2> QED BY <1>5, <1>6, <2>1 DEF Amount, CostLine, OwnedLines
<1>9. SumFunctionOnSet(t, Stocks) = SumFunctionOnSet(a, OwnedLines)
  <2>1. \A s \in Stocks : t[s] = SumFunctionOnSet(a, Part(OwnedLines, p, s))
    BY <1>1, <1>3, <1>5, RowIsCharged
  <2>2. \A l \in OwnedLines : p[l] \in Stocks /\ a[l] \in Int
    BY <1>1, <1>7, <1>8
  <2> QED BY <1>0, <1>7, <2>1, <2>2, SumOfParts
<1>10. SumFunctionOnSet(a, L) = SumFunctionOnSet(a, OwnedLines)
  BY <1>7, <1>8, SumOfRest
<1>11. \A s \in Stocks : q[s] \in Int /\ t[s] \in Int /\ d[s] = q[s] + t[s]
  BY <1>0, <1>2, <1>3, <1>4, RowAddsUp, LogFacts
<1>12. SumFunctionOnSet(d, Stocks) = SumFunctionOnSet(q, Stocks) + SumFunctionOnSet(t, Stocks)
  BY <1>0, <1>11, SumOfSums
<1>13. /\ SumFunction([s \in Stocks |-> stock[s].quantity]) = SumFunctionOnSet(q, Stocks)
       /\ SumFunction([s \in Stocks |-> Delivered(stock[s])]) = SumFunctionOnSet(d, Stocks)
  BY <1>2, <1>4 DEF SumFunction
<1>14. SumFunction([l \in DOMAIN costLines |->
          IF costLines[l].live /\ Owned(costLines[l]) THEN costLines[l].quantity ELSE 0])
       = SumFunctionOnSet(a, L)
  BY <1>5, <1>6 DEF SumFunction, Amount
<1> QED BY <1>9, <1>10, <1>12, <1>13, <1>14 DEF MaterialConserved

\* Double entry: the workshop's balances and what stands on jobs are together what
\* suppliers delivered and did not take back, whatever was issued, returned, counted,
\* drafted, edited and deleted in between. (move_stock, post_lines, approve_cost_line)
THEOREM MaterialIsConserved == Spec => []MaterialConserved
BY BookInvariance, DoubleEntry, PTL

-----------------------------------------------------------------------------
(* Stocktakes.                                                             *)

-----------------------------------------------------------------------------
(* The invariant.                                                          *)

\* What was posted stands on a row.
PostedOnRows ==
    \A c \in Counts : \A line \in PostedLines(c) : line.stock \in Stocks

\* Drafts have moved nothing; of a posted count every difference has.
LinesMoved ==
    /\ \A c \in Counts : counts[c].status # "posted" => PostedLines(c) = {}
    /\ \A c \in Counts : counts[c].status = "posted" =>
          \A line \in Differing(counts[c].lines) : line.movement # 0

AnsweredBy(c, line, s, i) == line \in counts[c].lines /\ line.stock = s /\ line.movement = i

\* StocktakeEvidence without counting.
AnsweredOnce ==
    /\ \A s \in Stocks : \A i \in DOMAIN stock[s].log : stock[s].log[i].kind = "stocktake" =>
          \E c \in Counts : \E line : AnsweredBy(c, line, s, i)
    /\ \A c, d \in Counts : \A x \in PostedLines(c), y \in PostedLines(d) :
          x.stock = y.stock /\ x.movement = y.movement => c = d /\ x = y

\* A draft's lines can be put in an order.
DraftsFinite == \A c \in Counts : counts[c].status = "draft" => IsFiniteSet(counts[c].lines)

CountInv ==
    /\ IInv /\ counts \in [Counts -> Count] /\ DraftsFinite
    /\ NothingMovedSinceCount /\ PostedOnRows /\ LinesMoved /\ AnsweredOnce

LEMMA CountOf ==
    ASSUME CountInv, NEW c \in Counts
    PROVE  /\ counts[c] \in Count /\ counts[c].lines \subseteq Line
           /\ \A line \in counts[c].lines : line \in Line /\ line.version \in Nat /\ line.expected \in Int
                 /\ line.counted \in Nat \cup {NotCounted} /\ line.movement \in Nat
                 /\ line.stock \in Stocks \cup {Found}
BY DEF CountInv, Count, Line

\* Of the pairs that answer a movement there is one.
LEMMA EvidenceFollows ==
    ASSUME CountInv
    PROVE  StocktakeEvidence
<1>1. ASSUME NEW s \in Stocks, NEW i \in DOMAIN stock[s].log, stock[s].log[i].kind = "stocktake"
      PROVE  Cardinality(Answered(s, i)) = 1
  <2>1. PICK c, line : c \in Counts /\ AnsweredBy(c, line, s, i)
    BY <1>1 DEF CountInv, AnsweredOnce
  <2>2. i \in Nat \ {0}
    <3>1. stock[s].log \in Seq(StockMovement)
      BY DEF CountInv, IInv, TypeOK, Account
    <3> QED BY <3>1
  <2>3. Answered(s, i) = {<<c, line>>}
    <3>1. <<c, line>> \in Answered(s, i)
      BY <2>1 DEF Answered, AnsweredBy
    <3>2. ASSUME NEW w \in Answered(s, i) PROVE w = <<c, line>>
      <4>1. PICK d, y : d \in Counts /\ w = <<d, y>> /\ AnsweredBy(d, y, s, i)
        BY DEF Answered, AnsweredBy
      <4>2. line \in PostedLines(c) /\ y \in PostedLines(d) /\ line.stock = y.stock /\ line.movement = y.movement
        BY <2>1, <2>2, <4>1 DEF AnsweredBy, PostedLines
      <4> QED BY <2>1, <4>1, <4>2 DEF CountInv, AnsweredOnce
    <3> QED BY <3>1, <3>2
  <2> QED BY <2>3, FS_Singleton
<1> QED BY <1>1 DEF CountInv, LinesMoved, StocktakeEvidence

-----------------------------------------------------------------------------
(* Steps that post nothing.                                                *)

\* No movement of this step is a count's.
NoPosting ==
    \A s \in Stocks : \A i \in DOMAIN stock'[s].log :
        i \in DOMAIN stock[s].log \/ stock'[s].log[i].kind # "stocktake"

\* Drafts come and go.
Drafting ==
    \A c \in Counts : \/ counts'[c] = counts[c]
                      \/ /\ counts[c].status # "posted" /\ counts'[c].status = "draft"
                         /\ \A line \in counts'[c].lines : line.movement = 0
                         /\ IsFiniteSet(counts'[c].lines)

LEMMA LogsStay ==
    ASSUME IInv, Preserved
    PROVE  \A s \in Stocks : \A i \in DOMAIN stock[s].log :
              i \in DOMAIN stock'[s].log /\ stock'[s].log[i] = stock[s].log[i]
<1> SUFFICES ASSUME NEW s \in Stocks, NEW i \in DOMAIN stock[s].log
             PROVE  i \in DOMAIN stock'[s].log /\ stock'[s].log[i] = stock[s].log[i]
  OBVIOUS
<1>1. Extends(stock[s], stock'[s])
  BY DEF Preserved
<1>2. stock[s].log \in Seq(StockMovement) /\ stock'[s].log \in Seq(StockMovement)
  BY <1>1 DEF Extends, IInv, TypeOK, Account
<1>3. Len(stock[s].log) <= Len(stock'[s].log) /\ stock'[s].log[i] = stock[s].log[i]
  BY <1>1 DEF Extends
<1> QED BY <1>2, <1>3

LEMMA DraftingKeeps ==
    ASSUME CountInv, Preserved, NoPosting, Drafting, counts' \in [Counts -> Count]
    PROVE  CountInv' /\ \A c \in Counts : counts[c].status = "posted" => counts'[c] = counts[c]
<1>1. IInv'
  BY PreservedKeeps DEF CountInv
<1>2. \A s \in Stocks : \A i \in DOMAIN stock[s].log :
          i \in DOMAIN stock'[s].log /\ stock'[s].log[i] = stock[s].log[i]
  BY LogsStay DEF CountInv
<1>3. \A c \in Counts : PostedLines(c)' = PostedLines(c)
  <2> SUFFICES ASSUME NEW c \in Counts PROVE PostedLines(c)' = PostedLines(c)
    OBVIOUS
  <2>1. CASE counts'[c] = counts[c]
    BY <2>1 DEF PostedLines
  <2>2. CASE counts[c].status # "posted" /\ \A line \in counts'[c].lines : line.movement = 0
    BY <2>2 DEF PostedLines, CountInv, LinesMoved
  <2> QED BY <2>1, <2>2 DEF Drafting
<1>4. NothingMovedSinceCount' /\ PostedOnRows'
  <2>1. \A c \in Counts : \A line \in PostedLines(c) :
            line.stock \in Stocks /\ line.movement \in DOMAIN stock[line.stock].log
    BY DEF CountInv, PostedOnRows, NothingMovedSinceCount
  <2> QED BY <1>2, <1>3, <2>1 DEF CountInv, PostedOnRows, NothingMovedSinceCount
<1>5. LinesMoved'
  <2>1. \A c \in Counts : counts'[c].status # "posted" => PostedLines(c) = {}
    BY DEF Drafting, CountInv, LinesMoved
  <2>2. \A c \in Counts : counts'[c].status = "posted" => counts'[c] = counts[c]
    BY DEF Drafting
  <2> QED BY <1>3, <2>1, <2>2 DEF CountInv, LinesMoved, Differing, CountedLines
<1>6. AnsweredOnce'
  <2>1. ASSUME NEW s \in Stocks, NEW i \in DOMAIN stock'[s].log, stock'[s].log[i].kind = "stocktake"
        PROVE  \E c \in Counts : \E line : AnsweredBy(c, line, s, i)'
    <3>1. i \in DOMAIN stock[s].log /\ stock[s].log[i].kind = "stocktake"
      BY <1>2, <2>1 DEF NoPosting
    <3>2. PICK c, line : c \in Counts /\ AnsweredBy(c, line, s, i)
      BY <3>1 DEF CountInv, AnsweredOnce
    <3>3. i # 0
      <4>1. stock[s].log \in Seq(StockMovement)
        BY DEF CountInv, IInv, TypeOK, Account
      <4> QED BY <3>1, <4>1
    <3>4. line \in PostedLines(c)
      BY <3>2, <3>3 DEF AnsweredBy, PostedLines
    <3>5. line \in PostedLines(c)'
      BY <1>3, <3>2, <3>4
    <3>6. line \in counts'[c].lines
      BY <3>5 DEF PostedLines
    <3> QED BY <3>2, <3>6 DEF AnsweredBy
  <2>2. \A c, d \in Counts : \A x \in PostedLines(c)', y \in PostedLines(d)' :
            x.stock = y.stock /\ x.movement = y.movement => c = d /\ x = y
    BY <1>3 DEF CountInv, AnsweredOnce
  <2> QED BY <2>1, <2>2 DEF AnsweredOnce
<1>7. DraftsFinite'
  BY DEF Drafting, CountInv, DraftsFinite
<1>8. \A c \in Counts : counts[c].status = "posted" => counts'[c] = counts[c]
  BY DEF Drafting
<1> QED BY <1>1, <1>4, <1>5, <1>6, <1>7, <1>8 DEF CountInv

LEMMA OneMoveIsNoPosting ==
    ASSUME IInv, NEW s \in Stocks, NEW base, Base(s, base), NEW change \in Int, NEW context \in Context,
           stock' = [stock EXCEPT ![s] = move_stock(base, change, context)], context.kind # "stocktake"
    PROVE  NoPosting
<1>1. stock \in [Stocks -> Account] /\ stock[s] \in Account
  BY DEF IInv, TypeOK
<1>2. stock'[s] = move_stock(base, change, context) /\ \A t \in Stocks \ {s} : stock'[t] = stock[t]
  BY <1>1
<1>3. /\ DOMAIN stock'[s].log = 1..(Len(stock[s].log) + 1)
      /\ stock'[s].log[Len(stock[s].log) + 1] = Recorded(base, change, context)
  BY <1>1, <1>2, MoveExtends DEF Base
<1>4. Len(stock[s].log) \in Nat /\ DOMAIN stock[s].log = 1..Len(stock[s].log)
  BY <1>1 DEF Account
<1>5. Recorded(base, change, context).kind # "stocktake"
  BY DEF Recorded
<1> QED BY <1>2, <1>3, <1>4, <1>5 DEF NoPosting

LEMMA SameLogsIsNoPosting ==
    ASSUME \A s \in Stocks : stock'[s].log = stock[s].log
    PROVE  NoPosting
BY DEF NoPosting

\* The workshop's own traffic.
LEMMA WorkshopStep ==
    ASSUME CountInv, Workshop
    PROVE  Preserved /\ NoPosting /\ Drafting /\ counts' \in [Counts -> Count]
<1>0. IInv /\ counts' = counts /\ stock \in [Stocks -> Account]
  BY DEF CountInv, Workshop, IInv, TypeOK
<1>1. PICK s \in Stocks :
        \/ create_stock(s) \/ update_stock(s) \/ deactivate_stock(s)
        \/ \E j \in Jobs, q \in Issued : consume_stock(s, j, q)
        \/ \E i \in DOMAIN stock[s].log : reverse_issue(s, i)
  BY DEF Workshop
<1>2. Preserved /\ NoPosting
  <2>1. CASE create_stock(s) \/ update_stock(s) \/ deactivate_stock(s)
    <3>1. \A t \in Stocks : stock'[t].log = stock[t].log
      <4>1. CASE create_stock(s)
        <5>1. stock[s].log = <<>> /\ NewRow(FALSE).log = <<>>
          BY <1>0, <4>1 DEF IInv, HistoryShape, create_stock, NewRow
        <5> QED BY <1>0, <4>1, <5>1 DEF create_stock
      <4>2. CASE update_stock(s)
        BY <4>2 DEF update_stock, ledgerVars
      <4>3. CASE deactivate_stock(s)
        <5>1. [stock[s] EXCEPT !.active = FALSE].log = stock[s].log
          BY <1>0 DEF Account
        <5> QED BY <1>0, <4>3, <5>1 DEF deactivate_stock
      <4> QED BY <2>1, <4>1, <4>2, <4>3
    <3> QED BY <1>0, <2>1, <3>1, IdentityStep, SameLogsIsNoPosting
  <2>2. CASE \E j \in Jobs, q \in Issued : consume_stock(s, j, q)
    <3>1. PICK j \in Jobs, q \in Quantities : consume_stock(s, j, q)
      BY <2>2, CountAssumption
    <3>2. Preserved
      BY <1>0, <3>1, ConsumeStep
    <3> DEFINE context == MovementContext("issue", j, NextCost, 0)
    <3>3. context \in Context /\ context.kind # "stocktake"
      <4>1. NextCost \in Nat
        BY <1>0 DEF IInv, TypeOK, NextCost
      <4> QED BY <4>1, ContextType DEF MovementKind, MovementContext
    <3>4. Base(s, stock[s])
      BY <1>0, <3>1, BaseExists DEF consume_stock
    <3>6. -q \in Int
      BY LedgerAssumption
    <3>5. stock' = [stock EXCEPT ![s] = move_stock(stock[s], -q, context)]
      BY <3>1 DEF consume_stock
    <3> HIDE DEF context
    <3> QED BY <1>0, <3>2, <3>3, <3>4, <3>5, <3>6, OneMoveIsNoPosting
  <2>3. CASE \E i \in DOMAIN stock[s].log : reverse_issue(s, i)
    <3>1. PICK i \in DOMAIN stock[s].log : reverse_issue(s, i)
      BY <2>3
    <3>2. Preserved
      BY <1>0, <3>1, ReverseIssueStep
    <3> DEFINE context == MovementContext("return", stock[s].log[i].job, NextCost, i)
    <3>3. /\ Base(s, stock[s]) /\ -stock[s].log[i].change \in Int /\ stock[s].log[i].job \in Jobs /\ i \in Nat
      BY <1>0, <3>1, IssueFacts DEF reverse_issue
    <3>4. context \in Context /\ context.kind # "stocktake"
      <4>1. NextCost \in Nat
        BY <1>0 DEF IInv, TypeOK, NextCost
      <4> QED BY <3>3, <4>1, ContextType DEF MovementKind, MovementContext
    <3>5. stock' = [stock EXCEPT ![s] = move_stock(stock[s], -stock[s].log[i].change, context)]
      BY <3>1 DEF reverse_issue, Returned
    <3> HIDE DEF context
    <3> QED BY <1>0, <3>2, <3>3, <3>4, <3>5, OneMoveIsNoPosting
  <2> QED BY <1>1, <2>1, <2>2, <2>3
<1> QED BY <1>0, <1>2 DEF Drafting, CountInv

\* Steps of a draft leave the ledger alone.
LEMMA QuietLedger ==
    ASSUME IInv, UNCHANGED ledgerVars
    PROVE  Preserved /\ NoPosting
BY CostsUnchanged, StockUnchanged, SameLogsIsNoPosting DEF ledgerVars

LEMMA DraftedKeeps ==
    ASSUME CountInv, UNCHANGED ledgerVars, NEW c \in Counts, counts[c].status # "posted",
           NEW x \in Count, x.status = "draft", \A line \in x.lines : line.movement = 0, IsFiniteSet(x.lines),
           counts' = [counts EXCEPT ![c] = x]
    PROVE  CountInv' /\ \A d \in Counts : counts[d].status = "posted" => counts'[d] = counts[d]
<1>1. Preserved /\ NoPosting
  BY QuietLedger DEF CountInv
<1>2. counts' \in [Counts -> Count] /\ Drafting
  <2>1. counts \in [Counts -> Count]
    BY DEF CountInv
  <2> HIDE DEF Count
  <2> QED BY <2>1 DEF Drafting
<1> QED BY <1>1, <1>2, DraftingKeeps

LEMMA ObservationIs ==
    ASSUME IInv, NEW s \in Stocks, NEW q \in PhysicalQuantities \cup {NotCounted}
    PROVE  Observation(s, q) \in Line /\ Observation(s, q).movement = 0
<1>1. stock[s] \in Account
  BY DEF IInv, TypeOK
<1>2. stock[s].quantity \in Int /\ stock[s].version \in Nat /\ q \in Nat \cup {NotCounted}
  BY <1>1, CountAssumption DEF Account
<1> QED BY <1>2 DEF Observation, Line

LEMMA FoundIs ==
    ASSUME NEW q \in PhysicalQuantities
    PROVE  NewlyFound(q) \in Line /\ NewlyFound(q).movement = 0
BY CountAssumption DEF NewlyFound, Line

\* All that a draft can hold.
LEMMA ObservationsFinite ==
    /\ IsFiniteSet({Observation(s, NotCounted) : s \in Stocks})
    /\ IsFiniteSet({Observation(s, q) : s \in Stocks, q \in PhysicalQuantities \cup {NotCounted}}
                   \cup {NewlyFound(q) : q \in PhysicalQuantities})
<1> DEFINE Q == PhysicalQuantities \cup {NotCounted}
           O == {Observation(s, q) : s \in Stocks, q \in Q}
           F == {NewlyFound(q) : q \in PhysicalQuantities}
           P == Stocks \X Q
           o == [w \in P |-> Observation(w[1], w[2])]
           f == [q \in PhysicalQuantities |-> NewlyFound(q)]
<1>1. IsFiniteSet(Stocks) /\ IsFiniteSet(PhysicalQuantities) /\ IsFiniteSet(Q)
  BY CountAssumption, FS_AddElement
<1>2. IsFiniteSet(O)
  <2>1. IsFiniteSet(P)
    <3> HIDE DEF Q
    <3> QED BY <1>1, FS_Product
  <2>2. o \in Surjection(P, O)
    <3>1. \A w \in P : w[1] \in Stocks /\ w[2] \in Q /\ o[w] = Observation(w[1], w[2])
      OBVIOUS
    <3>3. DOMAIN o = P /\ o = [w \in P |-> o[w]]
      OBVIOUS
    <3>4. \A w \in P : o[w] \in O
      <4> HIDE DEF Q, P, o
      <4> QED BY <3>1
    <3>5. ASSUME NEW x \in O PROVE \E w \in P : o[w] = x
      <4>1. PICK s \in Stocks, q \in Q : x = Observation(s, q)
        OBVIOUS
      <4>2. <<s, q>> \in P
        OBVIOUS
      <4>3. o[<<s, q>>] = Observation(s, q)
        OBVIOUS
      <4> HIDE DEF P, o
      <4> QED BY <4>1, <4>2, <4>3
    <3> HIDE DEF P, O, o
    <3>6. o \in [P -> O]
      BY <3>3, <3>4
    <3> QED BY <3>5, <3>6 DEF Surjection
  <2> HIDE DEF P, O, o
  <2> QED BY <2>1, <2>2, FS_Surjection
<1>3. IsFiniteSet(F)
  <2>1. f \in Surjection(PhysicalQuantities, F)
    BY DEF Surjection
  <2> HIDE DEF F, f
  <2> QED BY <1>1, <2>1, FS_Surjection
<1>4. IsFiniteSet(O \cup F)
  <2> HIDE DEF O, F
  <2> QED BY <1>2, <1>3, FS_Union
<1>5. {Observation(s, NotCounted) : s \in Stocks} \in SUBSET O
  OBVIOUS
<1>6. IsFiniteSet({Observation(s, NotCounted) : s \in Stocks})
  <2> HIDE DEF O
  <2> QED BY <1>2, <1>5, FS_Subset
<1> QED BY <1>4, <1>6

LEMMA StepCreate ==
    ASSUME CountInv, NEW c \in Counts, NEW lines, create_stocktake(c, lines)
    PROVE  CountInv' /\ \A d \in Counts : counts[d].status = "posted" => counts'[d] = counts[d]
<1>1. lines \subseteq Line /\ (\A line \in lines : line.movement = 0) /\ IsFiniteSet(lines)
  <2>1. CASE lines = {}
    BY <2>1, FS_EmptySet
  <2>2. CASE \E s \in Stocks : lines = {Observation(s, NotCounted)}
    <3>1. PICK s \in Stocks : lines = {Observation(s, NotCounted)}
      BY <2>2
    <3>2. Observation(s, NotCounted) \in Line /\ Observation(s, NotCounted).movement = 0
      BY ObservationIs DEF CountInv
    <3>3. IsFiniteSet(lines)
      BY <3>1, FS_Singleton
    <3> HIDE DEF Line
    <3> QED BY <3>1, <3>2, <3>3
  <2> QED BY <2>1, <2>2 DEF create_stocktake
<1>2. PICK x : x = Draft(NoCount, lines)
  OBVIOUS
<1>3. x \in Count /\ x.status = "draft" /\ x.lines = lines
  BY <1>1, <1>2 DEF Draft, Count
<1>4. UNCHANGED ledgerVars /\ counts' = [counts EXCEPT ![c] = x] /\ counts[c].status # "posted"
  BY <1>2 DEF create_stocktake
<1> HIDE DEF Count
<1> QED BY <1>1, <1>3, <1>4, DraftedKeeps

LEMMA StepSave ==
    ASSUME CountInv, NEW c \in Counts, NEW version, NEW lines \in CurrentLines,
           save_stocktake(c, version, lines)
    PROVE  CountInv' /\ \A d \in Counts : counts[d].status = "posted" => counts'[d] = counts[d]
<1>1. lines \subseteq Line /\ (\A line \in lines : line.movement = 0) /\ IsFiniteSet(lines)
  <2> DEFINE B == {Observation(s, q) : s \in Stocks, q \in PhysicalQuantities \cup {NotCounted}}
                  \cup {NewlyFound(q) : q \in PhysicalQuantities}
  <2>1. lines \in SUBSET B
    BY DEF CurrentLines
  <2>2. \A line \in B : line \in Line /\ line.movement = 0
    BY ObservationIs, FoundIs DEF CountInv
  <2>3. IsFiniteSet(B)
    BY ObservationsFinite
  <2> HIDE DEF B
  <2> QED BY <2>1, <2>2, <2>3, FS_Subset
<1>2. PICK old, x : /\ old = counts[c] /\ old \in Count /\ old.status = "draft"
                    /\ x = [old EXCEPT !.lines = lines, !.version = @ + 1]
  BY CountOf DEF save_stocktake, require_draft
<1>3. x \in Count /\ x.status = "draft" /\ x.lines = lines
  <2>1. old.version + 1 \in Nat
    <3>1. old.version \in Nat
      BY <1>2 DEF Count
    <3> QED BY <3>1
  <2> HIDE DEF Line
  <2> QED BY <1>1, <1>2, <2>1 DEF Count
<1>4. UNCHANGED ledgerVars /\ counts' = [counts EXCEPT ![c] = x] /\ counts[c].status # "posted"
  BY <1>2 DEF save_stocktake
<1> HIDE DEF Count
<1> QED BY <1>1, <1>3, <1>4, DraftedKeeps

LEMMA StepCorrect ==
    ASSUME CountInv, NEW c \in Counts, NEW d \in Counts, correct_stocktake(c, d)
    PROVE  CountInv' /\ \A e \in Counts : counts[e].status = "posted" => counts'[e] = counts[e]
<1>1. PICK lines : lines = {Observation(line.stock, NotCounted) : line \in {l \in counts[c].lines : l.stock # Found}}
  OBVIOUS
<1>2. lines \in SUBSET {Observation(s, NotCounted) : s \in Stocks}
  BY <1>1, CountOf
<1>3. lines \subseteq Line /\ (\A line \in lines : line.movement = 0) /\ IsFiniteSet(lines)
  <2>1. \A line \in lines : line \in Line /\ line.movement = 0
    BY <1>2, ObservationIs DEF CountInv
  <2> QED BY <1>2, <2>1, ObservationsFinite, FS_Subset
<1>4. PICK x : x = Draft(c, lines)
  OBVIOUS
<1>5. x \in Count /\ x.status = "draft" /\ x.lines = lines
  BY <1>3, <1>4 DEF Draft, Count
<1>6. UNCHANGED ledgerVars /\ counts' = [counts EXCEPT ![d] = x] /\ counts[d].status # "posted"
  BY <1>1, <1>4 DEF correct_stocktake
<1> HIDE DEF Count
<1> QED BY <1>3, <1>5, <1>6, DraftedKeeps

-----------------------------------------------------------------------------
(* Posting.                                                                *)

\* Where a line of a posting goes, the row is as the line saw it.
LEMMA OrderFacts ==
    ASSUME CountInv, NEW c \in Counts, NEW version, NEW order \in PostingOrders(counts[c].lines),
           post_stocktake(c, version, order)
    PROVE  /\ \E n \in Nat : DOMAIN order = 1..n
           /\ \A k \in DOMAIN order :
                 /\ order[k] \in Line /\ order[k].stock \in Stocks /\ order[k].counted \in Nat
                 /\ order[k].expected \in Int /\ order[k].version \in Nat
                 /\ order[k].version = stock[order[k].stock].version
                 /\ order[k].expected = Counted(order[k].stock).quantity
           /\ \A k, m \in DOMAIN order : order[k].stock = order[m].stock => k = m
<1> DEFINE D == Differing(counts[c].lines)
<1>1. counts[c].status = "draft" /\ IsFiniteSet(counts[c].lines)
  BY DEF post_stocktake, require_draft, CountInv, DraftsFinite
<1>2. IsFiniteSet(D) /\ Cardinality(D) \in Nat
  <2>1. D \in SUBSET counts[c].lines
    BY DEF Differing, CountedLines
  <2> HIDE DEF D
  <2> QED BY <1>1, <2>1, FS_Subset, FS_CardinalityType
<1>3. DOMAIN order = 1..Cardinality(D)
  BY DEF PostingOrders
<1>4. ASSUME NEW k \in DOMAIN order
      PROVE  /\ order[k] \in Line /\ order[k].stock \in Stocks /\ order[k].counted \in Nat
             /\ order[k].expected \in Int /\ order[k].version \in Nat
             /\ order[k].version = stock[order[k].stock].version
             /\ order[k].expected = Counted(order[k].stock).quantity
  <2>1. PICK line \in D : Places(line, order[k])
    BY DEF PostingOrders
  <2>2. /\ line \in Line /\ line.version \in Nat /\ line.expected \in Int /\ line.counted \in Nat
        /\ IsCurrent(line) /\ line.stock \in Stocks \cup {Found}
    <3>1. line \in counts[c].lines /\ line.counted # NotCounted
      BY <2>1 DEF Differing, CountedLines
    <3>2. line \in CountedLines(counts[c].lines)
      BY <2>1 DEF Differing
    <3>3. IsCurrent(line)
      BY <3>2 DEF post_stocktake
    <3> QED BY <3>1, <3>3, CountOf
  <2>3. PICK s : s = order[k].stock /\ s \in Stocks
    <3>1. PICK x \in D, t \in Stocks : order[k] = [x EXCEPT !.stock = t]
      BY <1>3 DEF PostingOrders
    <3>2. x \in Line
      BY <3>1, CountOf DEF Differing, CountedLines
    <3> QED BY <3>1, <3>2 DEF Line
  <2>4. /\ order[k] \in Line /\ order[k].counted = line.counted
        /\ order[k].expected = line.expected /\ order[k].version = line.version
    BY <2>1, <2>2, <2>3 DEF Places, Line
  <2>5. line.version = stock[s].version /\ line.expected = Counted(s).quantity
    <3>1. CASE line.stock = Found
      <4>1. ~stock[s].made /\ line.expected = 0 /\ line.version = 0
        BY <2>1, <2>2, <2>3, <3>1 DEF Places, IsCurrent
      <4>2. stock[s].log = <<>>
        BY <2>3, <4>1 DEF CountInv, IInv, HistoryShape
      <4>3. ChainFrom(stock[s])
        BY <2>3 DEF CountInv, IInv, LedgerContinuity
      <4>4. stock[s].version = 0
        BY <4>2, <4>3 DEF ChainFrom
      <4> QED BY <4>1, <4>4 DEF Counted, NewRow
    <3>2. CASE line.stock # Found
      BY <2>1, <2>2, <2>3, <3>2 DEF Places, IsCurrent, require_workshop_stock, Counted
    <3> QED BY <3>1, <3>2
  <2> QED BY <2>2, <2>3, <2>4, <2>5
<1>5. \A k, m \in DOMAIN order : order[k].stock = order[m].stock => k = m
  <2> DEFINE B == [1..Cardinality(D) -> {[line EXCEPT !.stock = s] : line \in D, s \in Stocks}]
  <2>1. order \in {o \in B :
                     /\ \A k, m \in DOMAIN o : o[k].stock = o[m].stock => k = m
                     /\ \A k \in DOMAIN o : \E line \in D : Places(line, o[k])
                     /\ \A line \in D : \E k \in DOMAIN o : Places(line, o[k])}
    BY DEF PostingOrders
  <2> HIDE DEF B, D
  <2> QED BY <2>1
<1> QED BY <1>2, <1>3, <1>4, <1>5

\* The movement a posting records on row s.
NextMovement(s) == stock[s].version + 1

\* A posting records one movement for each of its lines, and no other: from what the
\* line expected to what was counted.
LEMMA PostedRows ==
    ASSUME CountInv, NEW c \in Counts, NEW version, NEW order \in PostingOrders(counts[c].lines),
           post_stocktake(c, version, order)
    PROVE  /\ Preserved
           /\ \A k \in DOMAIN order : \A s \in Stocks : s = order[k].stock =>
                 /\ NextMovement(s) \in DOMAIN stock'[s].log
                 /\ stock'[s].log[NextMovement(s)].kind = "stocktake"
                 /\ stock'[s].log[NextMovement(s)].before = order[k].expected
                 /\ stock'[s].log[NextMovement(s)].after = order[k].counted
           /\ \A s \in Stocks : \A i \in DOMAIN stock'[s].log :
                 \/ i \in DOMAIN stock[s].log
                 \/ i = NextMovement(s) /\ \E k \in DOMAIN order : order[k].stock = s
<1>1. CASE order = <<>>
  <2>1. UNCHANGED ledgerVars
    BY <1>1 DEF post_stocktake
  <2>2. DOMAIN order = {} /\ stock' = stock
    BY <1>1, <2>1 DEF ledgerVars
  <2>3. Preserved
    BY <2>1, QuietLedger DEF CountInv
  <2> QED BY <2>2, <2>3
<1>2. CASE order # <<>>
  <2> DEFINE lines == [k \in DOMAIN order |-> [stock |-> order[k].stock,
                                               difference |-> order[k].counted - order[k].expected]]
             context(k) == MovementContext("stocktake", AdjustmentJob, Len(costLines) + k, 0)
             d(k) == order[k].counted - order[k].expected
  <2>1. post_lines(lines)
    BY <1>2 DEF post_stocktake
  <2>2. \A k, m \in DOMAIN order : order[k].stock = order[m].stock => k = m
    BY OrderFacts
  <2>3. PICK n \in Nat : DOMAIN order = 1..n
    BY OrderFacts
  <2>4. \A k \in DOMAIN order : /\ order[k].stock \in Stocks /\ order[k].counted \in Int
                                /\ order[k].expected \in Int /\ d(k) \in Int /\ k \in Nat
                                /\ order[k].expected = Counted(order[k].stock).quantity
    <3> SUFFICES ASSUME NEW k \in DOMAIN order
                 PROVE  /\ order[k].stock \in Stocks /\ order[k].counted \in Int
                        /\ order[k].expected \in Int /\ d(k) \in Int /\ k \in Nat
                        /\ order[k].expected = Counted(order[k].stock).quantity
      OBVIOUS
    <3>1. /\ order[k].stock \in Stocks /\ order[k].counted \in Nat /\ order[k].expected \in Int
          /\ order[k].expected = Counted(order[k].stock).quantity
      BY OrderFacts
    <3> QED BY <2>3, <3>1
  <2>5. \A k \in DOMAIN order : lines[k].stock = order[k].stock /\ lines[k].difference = d(k)
    OBVIOUS
  <2>6. DOMAIN lines = DOMAIN order /\ Len(lines) = n
    BY <2>3
  <2>7. Preserved
    <3> HIDE DEF lines, d
    <3> QED BY <2>1, <2>2, <2>3, <2>4, <2>5, <2>6, PostingStep DEF CountInv
  <2>8. ASSUME NEW k \in DOMAIN order, NEW s \in Stocks, s = order[k].stock
        PROVE  stock'[s] = move_stock(Counted(s), d(k), context(k))
    <3>1. k = CHOOSE m \in DOMAIN lines : lines[m].stock = s
      <4> HIDE DEF lines
      <4> QED BY <2>2, <2>5, <2>6, <2>8
    <3>2. \E m \in DOMAIN lines : lines[m].stock = s
      BY <2>8
    <3>3. stock'[s] = move_stock(Counted(s), lines[k].difference, context(k))
      <4> HIDE DEF lines
      <4> QED BY <2>1, <3>1, <3>2 DEF post_lines
    <3> QED BY <2>5, <3>3
  <2>9. ASSUME NEW s \in Stocks, ~\E k \in DOMAIN order : order[k].stock = s
        PROVE  stock'[s] = stock[s]
    <3>1. ~\E m \in DOMAIN lines : lines[m].stock = s
      BY <2>9
    <3> HIDE DEF lines
    <3> QED BY <2>1, <3>1 DEF post_lines
  <2>10. ASSUME NEW k \in DOMAIN order, NEW s \in Stocks, s = order[k].stock
         PROVE  /\ DOMAIN stock[s].log = 1..stock[s].version /\ stock[s].version \in Nat
                /\ DOMAIN stock'[s].log = 1..NextMovement(s)
                /\ stock'[s].log[NextMovement(s)] = Recorded(Counted(s), d(k), context(k))
    <3>1. Base(s, Counted(s))
      BY BaseExists DEF Counted, CountInv
    <3>2. stock[s] \in Account /\ ChainFrom(stock[s])
      BY DEF CountInv, IInv, TypeOK, LedgerContinuity
    <3>3. stock[s].version = Len(stock[s].log) /\ Len(stock[s].log) \in Nat
          /\ DOMAIN stock[s].log = 1..Len(stock[s].log)
      BY <3>2 DEF ChainFrom, Account
    <3>4. context(k) \in Context /\ d(k) \in Int
      <4>1. Len(costLines) + k \in Nat
        BY <2>4, <2>10 DEF CountInv, IInv, TypeOK
      <4>2. context(k) \in Context
        BY <4>1, ContextType, LedgerAssumption DEF MovementKind
      <4> HIDE DEF context, d
      <4> QED BY <2>4, <2>10, <4>2
    <3>5. stock'[s] = move_stock(Counted(s), d(k), context(k))
      BY <2>8, <2>10
    <3>6. /\ DOMAIN stock'[s].log = 1..(Len(stock[s].log) + 1)
          /\ stock'[s].log[Len(stock[s].log) + 1] = Recorded(Counted(s), d(k), context(k))
      <4>1. /\ Counted(s) \in Account /\ ChainFrom(Counted(s)) /\ Counted(s).made
            /\ Counted(s).log = stock[s].log
        BY <3>1 DEF Base
      <4> HIDE DEF context, d
      <4> QED BY <3>2, <3>4, <3>5, <4>1, MoveExtends
    <3>7. NextMovement(s) = Len(stock[s].log) + 1
      BY <3>3 DEF NextMovement
    <3> HIDE DEF context, d
    <3> QED BY <3>3, <3>6, <3>7
  <2>11. ASSUME NEW k \in DOMAIN order, NEW s \in Stocks, s = order[k].stock
         PROVE  /\ NextMovement(s) \in DOMAIN stock'[s].log
                /\ stock'[s].log[NextMovement(s)].kind = "stocktake"
                /\ stock'[s].log[NextMovement(s)].before = order[k].expected
                /\ stock'[s].log[NextMovement(s)].after = order[k].counted
    <3>1. /\ Recorded(Counted(s), d(k), context(k)).kind = "stocktake"
          /\ Recorded(Counted(s), d(k), context(k)).before = Counted(s).quantity
          /\ Recorded(Counted(s), d(k), context(k)).after = Counted(s).quantity + d(k)
      BY DEF Recorded, MovementContext
    <3>2. Counted(s).quantity = order[k].expected /\ order[k].expected \in Int /\ order[k].counted \in Int
      BY <2>4, <2>11
    <3>3. NextMovement(s) \in 1..NextMovement(s)
      BY <2>10, <2>11 DEF NextMovement
    <3>4. Counted(s).quantity + d(k) = order[k].counted
      BY <3>2
    <3> HIDE DEF d, context
    <3> QED BY <2>10, <2>11, <3>1, <3>2, <3>3, <3>4
  <2>12. ASSUME NEW s \in Stocks, NEW i \in DOMAIN stock'[s].log, i \notin DOMAIN stock[s].log
         PROVE  i = NextMovement(s) /\ \E k \in DOMAIN order : order[k].stock = s
    <3>1. PICK k \in DOMAIN order : order[k].stock = s
      BY <2>9, <2>12
    <3>2. /\ DOMAIN stock[s].log = 1..stock[s].version /\ stock[s].version \in Nat
          /\ DOMAIN stock'[s].log = 1..NextMovement(s)
      BY <2>10, <3>1
    <3> QED BY <2>12, <3>1, <3>2 DEF NextMovement
  <2> QED BY <2>7, <2>11, <2>12
<1> QED BY <1>1, <1>2

\* The movement after a row's last is on no row yet.
LEMMA NextIsNew ==
    ASSUME IInv, NEW s \in Stocks
    PROVE  NextMovement(s) \in Nat \ {0} /\ NextMovement(s) \notin DOMAIN stock[s].log /\ 0 \notin DOMAIN stock[s].log
<1>1. stock[s] \in Account /\ ChainFrom(stock[s])
  BY DEF IInv, TypeOK, LedgerContinuity
<1>2. stock[s].version = Len(stock[s].log) /\ Len(stock[s].log) \in Nat /\ DOMAIN stock[s].log = 1..Len(stock[s].log)
  BY <1>1 DEF ChainFrom, Account
<1> QED BY <1>2 DEF NextMovement

\* What a posted count holds as posted: its differences, each as its own movement.
LEMMA PostedLinesAre ==
    ASSUME CountInv, NEW c \in Counts, NEW version, NEW order \in PostingOrders(counts[c].lines),
           post_stocktake(c, version, order)
    PROVE  /\ counts' \in [Counts -> Count] /\ counts[c].status = "draft" /\ counts'[c].status = "posted"
           /\ \A d \in Counts : d # c => counts'[d] = counts[d]
           /\ PostedLines(c) = {}
           /\ PostedLines(c)' = {Posted(order[k]) : k \in DOMAIN order}
           /\ \A line \in counts'[c].lines : \/ line \notin Differing(counts[c].lines) /\ line \in counts[c].lines
                                             \/ line.movement # 0
           /\ \A k \in DOMAIN order :
                 /\ Posted(order[k]).stock = order[k].stock /\ Posted(order[k]).version = order[k].version
                 /\ Posted(order[k]).expected = order[k].expected /\ Posted(order[k]).counted = order[k].counted
                 /\ Posted(order[k]).movement = NextMovement(order[k].stock)
<1>1. PICK old, x : /\ old = counts[c] /\ x = counts'[c] /\ old \in Count /\ old.status = "draft"
                    /\ x = [old EXCEPT !.status = "posted", !.version = @ + 1,
                               !.lines = (old.lines \ Differing(old.lines)) \cup {Posted(order[k]) : k \in DOMAIN order}]
                    /\ counts' = [counts EXCEPT ![c] = x]
  <2>1. counts \in [Counts -> Count]
    BY DEF CountInv
  <2> HIDE DEF Count
  <2> QED BY <2>1 DEF post_stocktake, require_draft
<1>2. ASSUME NEW k \in DOMAIN order
      PROVE  /\ Posted(order[k]) \in Line /\ Posted(order[k]).movement # 0
             /\ Posted(order[k]).stock = order[k].stock /\ Posted(order[k]).version = order[k].version
             /\ Posted(order[k]).expected = order[k].expected /\ Posted(order[k]).counted = order[k].counted
             /\ Posted(order[k]).movement = NextMovement(order[k].stock)
  <2>1. order[k] \in Line /\ order[k].stock \in Stocks
    BY OrderFacts
  <2>2. NextMovement(order[k].stock) \in Nat \ {0}
    BY <2>1, NextIsNew DEF CountInv
  <2>3. Posted(order[k]) = [order[k] EXCEPT !.movement = NextMovement(order[k].stock)]
    BY DEF Posted, NextMovement
  <2> QED BY <2>1, <2>2, <2>3 DEF Line
<1> DEFINE P == {Posted(order[k]) : k \in DOMAIN order}
<1>3. old.version + 1 \in Nat /\ old.lines \subseteq Line
  <2>1. old.version \in Nat /\ old.lines \subseteq Line
    BY <1>1 DEF Count
  <2> QED BY <2>1
<1>4. x.status = "posted" /\ x.lines = (old.lines \ Differing(old.lines)) \cup P
  BY <1>1 DEF Count
<1>5. x \in Count
  <2>1. P \subseteq Line
    BY <1>2
  <2> HIDE DEF P, Line
  <2>2. (old.lines \ Differing(old.lines)) \cup P \subseteq Line
    BY <1>3, <2>1
  <2> QED BY <1>1, <1>3, <2>2 DEF Count, P
<1>6. counts' \in [Counts -> Count] /\ \A d \in Counts : d # c => counts'[d] = counts[d]
  <2>1. counts \in [Counts -> Count]
    BY DEF CountInv
  <2> HIDE DEF Count
  <2> QED BY <1>1, <1>5, <2>1
<1>7. PostedLines(c) = {} /\ \A line \in old.lines : line.movement = 0
  BY <1>1 DEF CountInv, LinesMoved, PostedLines
<1>8. \A line \in P : line.movement # 0
  BY <1>2
<1>9. PostedLines(c)' = {line \in x.lines : line.movement # 0}
  BY <1>1 DEF PostedLines
<1>10. PostedLines(c)' = P
  <2> HIDE DEF P
  <2> QED BY <1>4, <1>7, <1>8, <1>9
<1>11. \A line \in x.lines : \/ line \notin Differing(old.lines) /\ line \in old.lines
                             \/ line.movement # 0
  <2> HIDE DEF P
  <2> QED BY <1>4, <1>8
<1> QED BY <1>1, <1>2, <1>4, <1>6, <1>7, <1>10, <1>11

\* Posting keeps the invariant, and what was posted before.
LEMMA StepPost ==
    ASSUME CountInv, NEW c \in Counts, NEW version, NEW order \in PostingOrders(counts[c].lines),
           post_stocktake(c, version, order)
    PROVE  CountInv' /\ \A d \in Counts : counts[d].status = "posted" => counts'[d] = counts[d]
<1>1. /\ counts' \in [Counts -> Count] /\ counts[c].status = "draft" /\ counts'[c].status = "posted"
      /\ \A d \in Counts : d # c => counts'[d] = counts[d]
      /\ PostedLines(c) = {}
      /\ PostedLines(c)' = {Posted(order[k]) : k \in DOMAIN order}
      /\ \A line \in counts'[c].lines : \/ line \notin Differing(counts[c].lines) /\ line \in counts[c].lines
                                        \/ line.movement # 0
  BY PostedLinesAre
<1>2. \A k \in DOMAIN order :
         /\ Posted(order[k]).stock = order[k].stock /\ Posted(order[k]).version = order[k].version
         /\ Posted(order[k]).expected = order[k].expected /\ Posted(order[k]).counted = order[k].counted
         /\ Posted(order[k]).movement = NextMovement(order[k].stock)
  BY PostedLinesAre
<1>3. \A k \in DOMAIN order : order[k].stock \in Stocks /\ order[k].version = stock[order[k].stock].version
  BY OrderFacts
<1>4. \A k, m \in DOMAIN order : order[k].stock = order[m].stock => k = m
  BY OrderFacts
<1>5. Preserved
  BY PostedRows
<1>6. \A k \in DOMAIN order : \A s \in Stocks : s = order[k].stock =>
         /\ NextMovement(s) \in DOMAIN stock'[s].log
         /\ stock'[s].log[NextMovement(s)].kind = "stocktake"
         /\ stock'[s].log[NextMovement(s)].before = order[k].expected
         /\ stock'[s].log[NextMovement(s)].after = order[k].counted
  BY PostedRows
<1>7. \A s \in Stocks : \A i \in DOMAIN stock'[s].log :
         \/ i \in DOMAIN stock[s].log
         \/ i = NextMovement(s) /\ \E k \in DOMAIN order : order[k].stock = s
  BY PostedRows
<1>8. IInv' /\ \A s \in Stocks : \A i \in DOMAIN stock[s].log :
                  i \in DOMAIN stock'[s].log /\ stock'[s].log[i] = stock[s].log[i]
  BY <1>5, LogsStay, PreservedKeeps DEF CountInv
<1>9. \A d \in Counts \ {c} : PostedLines(d)' = PostedLines(d)
  BY <1>1 DEF PostedLines
<1>10. \A d \in Counts : \A line \in PostedLines(d) :
          line.stock \in Stocks /\ line.movement \in DOMAIN stock[line.stock].log
  BY DEF CountInv, PostedOnRows, NothingMovedSinceCount
<1>11. NothingMovedSinceCount'
  <2> SUFFICES ASSUME NEW d \in Counts, NEW line \in PostedLines(d)'
               PROVE  /\ line.movement = line.version + 1
                      /\ line.movement \in DOMAIN stock'[line.stock].log
                      /\ stock'[line.stock].log[line.movement].kind = "stocktake"
                      /\ stock'[line.stock].log[line.movement].before = line.expected
                      /\ stock'[line.stock].log[line.movement].after = line.counted
    BY DEF NothingMovedSinceCount
  <2>1. CASE d = c
    <3>1. PICK k \in DOMAIN order : line = Posted(order[k])
      BY <1>1, <2>1
    <3> QED BY <1>2, <1>3, <1>6, <3>1 DEF NextMovement
  <2>2. CASE d # c
    <3>1. line \in PostedLines(d)
      BY <1>9, <2>2
    <3> QED BY <1>8, <1>10, <3>1 DEF CountInv, NothingMovedSinceCount
  <2> QED BY <2>1, <2>2
<1>12. PostedOnRows'
  <2>1. \A line \in PostedLines(c)' : line.stock \in Stocks
    BY <1>1, <1>2, <1>3
  <2>2. \A d \in Counts \ {c} : \A line \in PostedLines(d)' : line.stock \in Stocks
    BY <1>9, <1>10
  <2> QED BY <2>1, <2>2 DEF PostedOnRows
<1>13. LinesMoved'
  <2>1. ASSUME NEW d \in Counts, counts'[d].status # "posted" PROVE PostedLines(d)' = {}
    BY <1>1, <1>9, <2>1 DEF CountInv, LinesMoved
  <2>2. ASSUME NEW d \in Counts, counts'[d].status = "posted", NEW line \in Differing(counts'[d].lines)
        PROVE  line.movement # 0
    <3>1. line \in counts'[d].lines /\ line.counted # NotCounted /\ line.counted # line.expected
      BY DEF Differing, CountedLines
    <3>2. CASE d = c
      BY <1>1, <3>1, <3>2 DEF Differing, CountedLines
    <3>3. CASE d # c
      BY <1>1, <2>2, <3>3 DEF CountInv, LinesMoved
    <3> QED BY <3>2, <3>3
  <2> QED BY <2>1, <2>2 DEF LinesMoved, Differing, CountedLines
<1>14. AnsweredOnce'
  <2>1. ASSUME NEW s \in Stocks, NEW i \in DOMAIN stock'[s].log, stock'[s].log[i].kind = "stocktake"
        PROVE  \E d \in Counts : \E line : AnsweredBy(d, line, s, i)'
    <3>1. CASE i \in DOMAIN stock[s].log
      <4>1. PICK d, line : d \in Counts /\ AnsweredBy(d, line, s, i)
        BY <1>8, <2>1, <3>1 DEF CountInv, AnsweredOnce
      <4>2. i # 0
        BY <3>1, NextIsNew DEF CountInv
      <4>3. d # c
        BY <1>1, <4>1, <4>2 DEF AnsweredBy, PostedLines
      <4>4. AnsweredBy(d, line, s, i)'
        BY <1>1, <4>1, <4>3 DEF AnsweredBy
      <4> QED BY <4>1, <4>4
    <3>2. CASE i \notin DOMAIN stock[s].log
      <4>1. PICK k \in DOMAIN order : i = NextMovement(s) /\ order[k].stock = s
        BY <1>7, <3>2
      <4>2. Posted(order[k]) \in PostedLines(c)'
        BY <1>1
      <4>3. PICK line : line = Posted(order[k])
        OBVIOUS
      <4>4. line \in counts'[c].lines /\ line.stock = s /\ line.movement = i
        BY <1>2, <4>1, <4>2, <4>3 DEF PostedLines
      <4>5. AnsweredBy(c, line, s, i)'
        BY <4>4 DEF AnsweredBy
      <4> QED BY <4>5
    <3> QED BY <3>1, <3>2
  <2>2. ASSUME NEW d \in Counts, NEW e \in Counts, NEW x \in PostedLines(d)', NEW y \in PostedLines(e)',
               x.stock = y.stock, x.movement = y.movement
        PROVE  d = e /\ x = y
    <3>1. ASSUME NEW z \in PostedLines(c)', NEW f \in Counts \ {c}, NEW w \in PostedLines(f)',
                 z.stock = w.stock, z.movement = w.movement
          PROVE  FALSE
      <4>1. PICK k \in DOMAIN order : z = Posted(order[k])
        BY <1>1
      <4>2. z.stock \in Stocks /\ z.movement = NextMovement(z.stock)
        BY <1>2, <1>3, <4>1
      <4>3. w \in PostedLines(f)
        BY <1>9
      <4>4. w.movement \in DOMAIN stock[w.stock].log
        BY <1>10, <4>3
      <4> QED BY <3>1, <4>2, <4>4, NextIsNew DEF CountInv
    <3>2. CASE d = c /\ e = c
      <4>1. PICK k \in DOMAIN order, m \in DOMAIN order : x = Posted(order[k]) /\ y = Posted(order[m])
        BY <1>1, <3>2
      <4> QED BY <1>2, <1>4, <2>2, <3>2, <4>1
    <3>3. CASE d # c /\ e # c
      <4>1. x \in PostedLines(d) /\ y \in PostedLines(e)
        BY <1>9, <3>3
      <4> QED BY <2>2, <4>1 DEF CountInv, AnsweredOnce
    <3>4. CASE (d = c /\ e # c) \/ (d # c /\ e = c)
      BY <2>2, <3>1, <3>4
    <3> QED BY <3>2, <3>3, <3>4
  <2> QED BY <2>1, <2>2 DEF AnsweredOnce
<1>15. DraftsFinite'
  BY <1>1 DEF CountInv, DraftsFinite
<1>16. CountInv'
  BY <1>1, <1>8, <1>11, <1>12, <1>13, <1>14, <1>15 DEF CountInv
<1> QED BY <1>1, <1>16

-----------------------------------------------------------------------------
(* The theorems.                                                           *)

LEMMA CountStarts ==
    ASSUME CountInit
    PROVE  CountInv
<1>1. IInv
  BY InitInvariant DEF CountInit
<1>2. NoStocktake \in Count /\ NoStocktake.status = "none" /\ NoStocktake.lines = {}
  BY DEF NoStocktake, Count
<1>3. \A c \in Counts : counts[c] = NoStocktake /\ PostedLines(c) = {}
  BY <1>2 DEF CountInit, PostedLines
<1>4. counts \in [Counts -> Count]
  <2> HIDE DEF Count, NoStocktake
  <2> QED BY <1>2 DEF CountInit
<1>5. \A s \in Stocks : DOMAIN stock[s].log = {}
  BY DEF CountInit, Init, NoRow
<1> QED
  BY <1>1, <1>2, <1>3, <1>4, <1>5
  DEF CountInv, DraftsFinite, NothingMovedSinceCount, PostedOnRows, LinesMoved, AnsweredOnce

LEMMA CountSteps ==
    ASSUME CountInv, [CountNext]_countVars
    PROVE  CountInv' /\ \A c \in Counts : counts[c].status = "posted" => counts'[c] = counts[c]
<1>1. CASE UNCHANGED countVars
  <2>1. UNCHANGED ledgerVars /\ counts' = counts
    BY <1>1 DEF countVars, ledgerVars
  <2>2. Drafting /\ counts' \in [Counts -> Count]
    BY <2>1 DEF Drafting, CountInv
  <2> QED BY <2>1, <2>2, QuietLedger, DraftingKeeps DEF CountInv
<1>2. CASE Workshop
  BY <1>2, WorkshopStep, DraftingKeeps
<1>3. ASSUME NEW c \in Counts, NEW lines, create_stocktake(c, lines)
      PROVE  CountInv' /\ \A d \in Counts : counts[d].status = "posted" => counts'[d] = counts[d]
  BY <1>3, StepCreate
<1>4. ASSUME NEW c \in Counts, NEW version, NEW lines \in CurrentLines, save_stocktake(c, version, lines)
      PROVE  CountInv' /\ \A d \in Counts : counts[d].status = "posted" => counts'[d] = counts[d]
  BY <1>4, StepSave
<1>5. ASSUME NEW c \in Counts, NEW version, NEW order \in PostingOrders(counts[c].lines),
             post_stocktake(c, version, order)
      PROVE  CountInv' /\ \A d \in Counts : counts[d].status = "posted" => counts'[d] = counts[d]
  BY <1>5, StepPost
<1>6. ASSUME NEW c \in Counts, NEW d \in Counts, correct_stocktake(c, d)
      PROVE  CountInv' /\ \A e \in Counts : counts[e].status = "posted" => counts'[e] = counts[e]
  BY <1>6, StepCorrect
<1> QED BY <1>1, <1>2, <1>3, <1>4, <1>5, <1>6 DEF CountNext

\* Whatever the workshop does while people count, and in whatever order drafts are
\* saved, posted and corrected, the counts and the ledger satisfy the invariant.
THEOREM CountInvariance == CountSpec => []CountInv
<1>1. CountInv /\ [CountNext]_countVars => CountInv'
  BY CountSteps
<1> QED
  BY CountStarts, <1>1, PTL DEF CountSpec

\* The version check of _require_current is enough: every movement post_stocktake
\* writes is the first on its row since the line was observed, from the balance
\* expected to the quantity counted.
THEOREM RowsStoodStill == CountSpec => []NothingMovedSinceCount
<1>1. CountInv => NothingMovedSinceCount
  BY DEF CountInv
<1> QED
  BY CountInvariance, <1>1, PTL

\* Posted lines and stocktake movements answer each other one to one: post_stocktake
\* posts a count once, every difference of it, and correct_stocktake posts nothing.
THEOREM EvidenceComplete == CountSpec => []StocktakeEvidence
<1>1. CountInv => StocktakeEvidence
  BY EvidenceFollows
<1> QED
  BY CountInvariance, <1>1, PTL

\* No save, posting, correction or movement changes a count that was posted.
THEOREM PostedStays == CountSpec => PostedIsFrozen
<1>1. CountInv /\ [CountNext]_countVars
        => [\A c \in Counts : counts[c].status = "posted" => counts'[c] = counts[c]]_countVars
  BY CountSteps
<1> QED
  BY CountInvariance, <1>1, PTL DEF CountSpec, PostedIsFrozen

\* Posting counts, of any number of lines, keeps the ledger's own promises: balances
\* their history explains, and a job cost for every difference.
THEOREM LedgerHolds == CountSpec => [](LedgerContinuity /\ JobCostCounterparts)
<1>1. CountInv => LedgerContinuity /\ JobCostCounterparts
  BY DEF CountInv, IInv
<1> QED
  BY CountInvariance, <1>1, PTL

=============================================================================

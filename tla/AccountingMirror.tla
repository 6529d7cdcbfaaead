-------------------------- MODULE AccountingMirror --------------------------
(***************************************************************************)
(* Keeping the accounting system's copy of a purchase order in step with   *)
(* DocketWorks': apps/purchasing/services/accounting_mirror.py, the order  *)
(* write paths that call it, the hourly catch-up stage of                  *)
(* apps/xero/sync.py and the two manual endpoints of apps/xero/api.py.     *)
(*                                                                         *)
(* A handler works on the order's locked row and asks Xero before it       *)
(* commits, so a call in flight carries the row it will commit: nothing of *)
(* it shows in `po` until the call ends, and a crash loses it. What Xero   *)
(* did with the request stays. The manual endpoints hold no lock across    *)
(* their call.                                                             *)
(*                                                                         *)
(* Quantities are abstracted to how much of an order has been received,    *)
(* and Xero's document to its status and who holds its number.             *)
(***************************************************************************)
EXTENDS Integers, Sequences, FiniteSets

CONSTANTS
    Orders,      \* purchase orders
    Ours,        \* those DocketWorks raised; Xero raised the others
    Limit,       \* orders one run of the stage takes (50 in the code)
    MaxChanges,  \* bound: handlers that write an order's row
    MaxFaults,   \* bound: outages, lost answers and refusals of Xero's
    MaxManual,   \* bound: calls of the manual endpoints
    MaxCrashes   \* bound: workers that die during a call

ASSUME MirrorAssumption ==
    /\ Ours \subseteq Orders /\ IsFiniteSet(Orders)
    /\ Limit \in Nat \ {0}
    /\ {MaxChanges, MaxFaults, MaxManual, MaxCrashes} \subseteq Nat

VARIABLES
    po,      \* committed order rows
    xero,    \* Xero's copy of each order
    oldest,  \* the orders by updated_at, the longest untouched first
    batch,   \* orders the running stage has still to send
    call,    \* the call each agent has in flight
    left     \* what the bounds still allow

mirrorVars == <<po, xero, oldest, batch, call, left>>

OrderStatuses == {"draft", "submitted", "partially_received", "fully_received", "deleted"}
Portions == {"none", "some", "all"}
RECEIPTABLE_STATUSES == {"submitted", "partially_received", "fully_received"}

XeroStatus == [draft |-> "DRAFT", submitted |-> "SUBMITTED",
               partially_received |-> "AUTHORISED",
               fully_received |-> "AUTHORISED", deleted |-> "DELETED"]

\* "RELEASED": voided and renamed, so that the order's number is free again.
XeroCopies == {"none", "RELEASED"} \cup {XeroStatus[s] : s \in OrderStatuses}

Agents == {"operator", "stage", "manual"}
Bounds == [changes |-> MaxChanges, faults |-> MaxFaults,
           manual |-> MaxManual, crashes |-> MaxCrashes]

Row == [status : OrderStatuses, received : Portions, owed : BOOLEAN, linked : BOOLEAN]

\* row: the row the call's transaction will commit. sends: pushes it still
\* makes, this one included. spent: pushes it has made. at: where it is.
Call == [order : Orders, row : Row, sends : 0 .. 2, spent : 1 .. 2,
         void : BOOLEAN, at : {"calling", "applied"}]
Idle == [at |-> "idle"]

MirrorTypeOK ==
    /\ po \in [Orders -> Row]
    /\ xero \in [Orders -> XeroCopies]
    /\ Len(oldest) = Cardinality(Orders) /\ {oldest[i] : i \in DOMAIN oldest} = Orders
    /\ batch \in Seq(Ours) /\ Len(batch) <= Limit
    /\ call \in [Agents -> Call \cup {Idle}]
    /\ \A b \in DOMAIN Bounds : left[b] \in 0 .. Bounds[b]

MirrorInit ==
    /\ po = [o \in Orders |-> [status |-> IF o \in Ours THEN "draft" ELSE "submitted",
                               received |-> "none", owed |-> FALSE, linked |-> o \notin Ours]]
    /\ xero = [o \in Orders |-> IF o \in Ours THEN "none" ELSE "SUBMITTED"]
    /\ oldest \in {q \in [1 .. Cardinality(Orders) -> Orders] :
                      {q[i] : i \in DOMAIN q} = Orders}
    /\ batch = <<>>
    /\ call = [a \in Agents |-> Idle]
    /\ left = Bounds

-----------------------------------------------------------------------------
(* The order's row *)

Free(a) == call[a] = Idle

\* Fault: the stage does not hold the row across its call.
Locked_NotByStage(o) == ~Free("operator") /\ call["operator"].order = o

\* The row lock: the operator's handlers and the stage hold it across the call.
Locked(o) == \E a \in {"operator", "stage"} : ~Free(a) /\ call[a].order = o

Spend(b) == left[b] > 0 /\ left' = [left EXCEPT ![b] = @ - 1]

\* What the line totals say the status is.
StatusOf(row) ==
    CASE row.received = "none" -> IF row.status = "deleted" THEN "deleted" ELSE "submitted"
      [] row.received = "some" -> "partially_received"
      [] row.received = "all"  -> "fully_received"

\* Fault: the moved status owes no call.
Recompute_NotOwed(row) == [row EXCEPT !.status = StatusOf(row)]

\* recompute_purchase_order_status: the status follows the line totals, and a
\* moved status owes Xero a call.
Recompute(row) ==
    [row EXCEPT !.status = StatusOf(row), !.owed = @ \/ StatusOf(row) # row.status]

\* The members of the sequence that are in S, in their order.
Only(seq, S) ==
    LET f[i \in 0 .. Len(seq)] ==
            IF i = 0 THEN <<>>
            ELSE IF seq[i] \in S THEN Append(f[i - 1], seq[i]) ELSE f[i - 1]
    IN f[Len(seq)]

\* Every write but an acknowledgement moves updated_at.
Touch(o) == oldest' = Append(Only(oldest, Orders \ {o}), o)

Commit(o, row) == po' = [po EXCEPT ![o] = row] /\ Touch(o)

\* send_state_change: an order Xero raised is acknowledged without a call.
Send(o, row, sends) ==
    IF o \in Ours
    THEN /\ Free("operator")
         /\ call' = [call EXCEPT !["operator"] =
                        [order |-> o, row |-> row, sends |-> sends, spent |-> 1,
                         void |-> FALSE, at |-> "calling"]]
         /\ UNCHANGED <<po, oldest>>
    ELSE Commit(o, [row EXCEPT !.owed = FALSE]) /\ UNCHANGED call

Write(o, row, sends) ==
    /\ ~Locked(o)
    /\ Spend("changes")
    /\ IF sends = 0 THEN Commit(o, row) /\ UNCHANGED call ELSE Send(o, row, sends)
    /\ UNCHANGED <<xero, batch>>

-----------------------------------------------------------------------------
(* The handlers that write an order *)

\* A PATCH. Editing lines can move the ordered quantity across
\* the received one; deleting lines alone can complete an order too, and does
\* not recompute it. Choosing fully_received receives what is outstanding: that
\* receipt sends an order that already owed a call, and the moved status then
\* owes and sends another.
update_purchase_order(o) ==
    \E asked \in OrderStatuses \cup {"unset"}, lines \in BOOLEAN :
    \E received \in CASE po[o].received = "none" -> {"none"}
                      [] po[o].received # "none" /\ lines -> {"some", "all"}
                      [] po[o].received # "none" /\ ~lines -> {po[o].received, "all"} :
        LET written == [po[o] EXCEPT !.status = IF asked = "unset" THEN @ ELSE asked,
                                     !.received = received]
            receives == asked = "fully_received"
            row == CASE receives -> [written EXCEPT !.received = "all"]
                     [] ~receives /\ lines /\ received # "none" -> Recompute(written)
                     [] OTHER -> written
            moved == row.status # po[o].status
            inner == receives /\ received # "all" /\ row.owed
        IN Write(o, [row EXCEPT !.owed = @ \/ moved],
                 (IF inner THEN 1 ELSE 0) + (IF moved THEN 1 ELSE 0))

\* A receipt leaves the order received in part or in full.
process_delivery_receipt(o) ==
    /\ po[o].status \in RECEIPTABLE_STATUSES
    /\ \E received \in IF po[o].received = "all" THEN {"all"} ELSE {"some", "all"} :
          LET row == Recompute([po[o] EXCEPT !.received = received])
          IN Write(o, row, IF row.owed THEN 1 ELSE 0)

\* The status may move, and nothing is sent.
reverse_allocation(o) ==
    /\ po[o].received # "none"
    /\ \E received \in Portions :
          /\ po[o].received = "some" => received # "all"
          /\ Write(o, Recompute([po[o] EXCEPT !.received = received]), 0)

\* The inbound sync: our order takes only its link;
\* Xero's takes Xero's lines, and Xero's status until goods have been received.
transform_purchase_order(o) ==
    /\ xero[o] \notin {"none", "RELEASED", "DELETED"}
    /\ IF o \in Ours
       THEN Write(o, [po[o] EXCEPT !.linked = TRUE], 0)
       ELSE IF po[o].received = "none"
       THEN Write(o, [po[o] EXCEPT !.status = "submitted"], 0)
       ELSE \E received \in {"some", "all"} :
               Write(o, Recompute([po[o] EXCEPT !.received = received]), 0)

-----------------------------------------------------------------------------
(* The hourly stage: sync_local_purchase_orders_to_xero *)

Start(a, o, void) ==
    call' = [call EXCEPT ![a] = [order |-> o, row |-> po[o], sends |-> 1, spent |-> 1,
                                 void |-> void, at |-> "calling"]]

\* The owed orders, the longest untouched first.
Owed == Only(oldest, {o \in Orders : po[o].owed})

\* Fault: an order that returned to draft is passed over.
StageList_NoDrafts ==
    /\ batch = <<>> /\ Free("stage")
    /\ batch' = Only(Owed, {o \in Ours : po[o].status # "draft"})
    /\ batch' # <<>>
    /\ UNCHANGED <<po, xero, oldest, call, left>>

\* The slice is taken of the owed orders, and ours are picked from the slice.
StageList ==
    /\ batch = <<>> /\ Free("stage")
    /\ batch' = Only(SubSeq(Owed, 1, IF Len(Owed) < Limit THEN Len(Owed) ELSE Limit), Ours)
    /\ batch' # <<>>
    /\ UNCHANGED <<po, xero, oldest, call, left>>

\* The list was read without a lock: an order pushed since owes nothing now.
StageSend ==
    /\ batch # <<>> /\ Free("stage") /\ ~Locked(Head(batch))
    /\ IF po[Head(batch)].owed
       THEN Start("stage", Head(batch), FALSE) /\ UNCHANGED batch
       ELSE batch' = Tail(batch) /\ UNCHANGED call
    /\ UNCHANGED <<po, xero, oldest, left>>

-----------------------------------------------------------------------------
(* The manual endpoints *)

\* xero_create_purchase_order: _snapshot locks the row and lets it go again.
ManualPush(o) ==
    /\ Free("manual") /\ ~Locked(o)
    /\ Spend("manual")
    /\ Start("manual", o, FALSE)
    /\ UNCHANGED <<po, xero, oldest, batch>>

\* xero_delete_purchase_order: the row is read without a lock.
ManualVoid(o) ==
    /\ Free("manual") /\ po[o].linked
    /\ Spend("manual")
    /\ Start("manual", o, TRUE)
    /\ UNCHANGED <<po, xero, oldest, batch>>

-----------------------------------------------------------------------------
(* A call in flight *)

\* Xero updates the document the order is linked to, else the one that holds
\* its number, else creates one. It never updates a deleted document.
RefusedByXero(c) ==
    \/ xero[c.order] = "DELETED"
    \/ xero[c.order] = "RELEASED" /\ c.row.linked

Ends(a) == call' = [call EXCEPT ![a] = Idle]

\* The stage goes on to its next order.
StageGoesOn(a) == batch' = IF a = "stage" THEN Tail(batch) ELSE batch

XeroApplies(a) ==
    /\ call[a].at = "calling" /\ ~RefusedByXero(call[a])
    /\ xero' = [xero EXCEPT ![call[a].order] =
                   IF call[a].void THEN "RELEASED" ELSE XeroStatus[call[a].row.status]]
    /\ call' = [call EXCEPT ![a].at = "applied"]
    /\ UNCHANGED <<po, oldest, batch, left>>

\* The next push of a handler that makes two.
Again(c, row) ==
    [c EXCEPT !.row = [row EXCEPT !.owed = TRUE], !.sends = @ - 1,
              !.spent = @ + 1, !.at = "calling"]

\* The handler's transaction ends with this row, or owes and sends once more.
Conclude(a, row) ==
    IF call[a].sends > 1
    THEN /\ call' = [call EXCEPT ![a] = Again(@, row)]
         /\ UNCHANGED <<po, oldest, batch>>
    ELSE /\ IF a = "operator" THEN Commit(call[a].order, row)
            ELSE /\ po' = [po EXCEPT ![call[a].order] =
                              [@ EXCEPT !.linked = row.linked, !.owed = row.owed]]
                 /\ UNCHANGED oldest
         /\ Ends(a) /\ StageGoesOn(a)

\* Success: the link is stored and the order owes nothing.
Acknowledge(a) ==
    /\ a # "manual" /\ call[a].at = "applied"
    /\ Conclude(a, [call[a].row EXCEPT !.linked = TRUE, !.owed = FALSE])
    /\ UNCHANGED <<xero, left>>

\* An outage, a spent quota or a lost answer: the change stands and stays owed.
Defer(a) ==
    /\ a # "manual" /\ ~Free(a)
    /\ Spend("faults")
    /\ Conclude(a, call[a].row)
    /\ UNCHANGED xero

\* A validation refusal, of Xero's or our own: the handler rolls back.
Refuse(a) ==
    /\ call[a].at = "calling"
    /\ IF RefusedByXero(call[a]) THEN UNCHANGED left ELSE Spend("faults")
    /\ Ends(a) /\ StageGoesOn(a)
    /\ UNCHANGED <<po, xero, oldest>>

\* The manual endpoint stores what Xero answered, in the row as it is now.
ManualStored ==
    /\ call["manual"].at = "applied" /\ ~Locked(call["manual"].order)
    /\ po' = [po EXCEPT ![call["manual"].order] =
                 IF call["manual"].void
                 THEN [@ EXCEPT !.linked = FALSE, !.status = "deleted"]
                 ELSE [@ EXCEPT !.linked = TRUE]]
    /\ Ends("manual")
    /\ UNCHANGED <<xero, oldest, batch, left>>

ManualFails ==
    /\ ~Free("manual")
    /\ Spend("faults")
    /\ Ends("manual")
    /\ UNCHANGED <<po, xero, oldest, batch>>

\* The worker dies, or fails unexpectedly, before its transaction commits.
Crash(a) ==
    /\ ~Free(a)
    /\ Spend("crashes")
    /\ Ends(a)
    /\ batch' = IF a = "stage" THEN <<>> ELSE batch
    /\ UNCHANGED <<po, xero, oldest>>

MirrorNext ==
    \/ \E o \in Orders : \/ update_purchase_order(o) \/ process_delivery_receipt(o)
                         \/ reverse_allocation(o) \/ transform_purchase_order(o)
    \/ \E o \in Orders : ManualPush(o) \/ ManualVoid(o)
    \/ StageList \/ StageSend
    \/ \E a \in Agents : XeroApplies(a) \/ Acknowledge(a) \/ Defer(a) \/ Refuse(a) \/ Crash(a)
    \/ ManualStored \/ ManualFails

\* The sync runs every hour, and Xero answers a call or the connection breaks
\* (no request timeout is set: a call that hung for good would hold the row).
Fairness ==
    /\ WF_mirrorVars(StageList) /\ WF_mirrorVars(StageSend)
    /\ \A a \in Agents : WF_mirrorVars(XeroApplies(a) \/ Acknowledge(a) \/ Refuse(a))
    /\ WF_mirrorVars(ManualStored)

MirrorSpec == MirrorInit /\ [][MirrorNext]_mirrorVars
FairSpec == MirrorSpec /\ Fairness

-----------------------------------------------------------------------------
(* Properties *)

UnderWay(o) == \E a \in Agents : ~Free(a) /\ call[a].order = o

Agreed(o) ==
    \/ xero[o] = XeroStatus[po[o].status]
    \/ xero[o] = "none" /\ po[o].status = "draft"
    \/ xero[o] = "RELEASED" /\ po[o].status = "deleted"

\* One of our orders that owes Xero no call, and has none under way, has a copy
\* in Xero that says what the order says: an order Xero has never been told of
\* is a draft, and one it voided is deleted. (xero_push_due, send_state_change)
OwesOrAgrees == \A o \in Ours : po[o].owed \/ UnderWay(o) \/ Agreed(o)

NoManual == left.manual = MaxManual
NoCrash == left.crashes = MaxCrashes

\* So it is while nobody has used the manual endpoints and no worker has died in
\* a call, whatever Xero refuses, defers or leaves unanswered.
NothingOwedMeansAgreed == NoManual /\ NoCrash => OwesOrAgrees

\* "Two pushes of one order cannot cross at Xero." (send_state_change)
PushesDoNotCross == NoCrash => OwesOrAgrees

\* What "a worker dying" left undone is still owed. (the catch-up stage)
DeathLeavesItOwed == NoManual => OwesOrAgrees

\* Only an acknowledged push of the status that is being committed clears what
\* an order of ours owed: nothing is acknowledged for a newer version than was
\* sent. (send_state_change's row lock)
AcknowledgesWhatStands ==
    [][\A o \in Ours :
          po[o].owed /\ ~po'[o].owed =>
              \E a \in {"operator", "stage"} :
                  /\ call[a].at = "applied" /\ call[a].order = o
                  /\ call[a].row.status = po'[o].status]_mirrorVars

\* Of ours, and not deleted in Xero, which refuses every push of such an order.
Sendable(o) == o \in Ours /\ xero[o] # "DELETED"

\* A slice's worth of orders is owed that no push of the stage can clear.
Crowded == Cardinality({o \in Orders : po[o].owed /\ ~Sendable(o)}) >= Limit

\* An order of ours that owes a call is sent in the end, unless Xero holds it as
\* deleted, the manual endpoints intervened, or orders that cannot be sent fill the
\* stage's slice for good. (sync_local_purchase_orders_to_xero)
OwedIsSent ==
    \A o \in Ours :
        po[o].owed ~> ~po[o].owed \/ ~Sendable(o) \/ ~NoManual \/ []Crowded

\* Nor do those: one refusal does not "starve every other order of its push".
\* (sync_local_purchase_orders_to_xero)
NoneIsStarved ==
    \A o \in Ours : po[o].owed ~> ~po[o].owed \/ ~Sendable(o) \/ ~NoManual

\* An order Xero does not know is not created there as a cancelled one.
\* (XeroPurchaseOrderManager.state_valid_for_xero)
NeverCreatesCancelled ==
    [][\A o \in Ours : xero[o] = "none" => xero'[o] # "DELETED"]_mirrorVars

\* One change of the operator's spends one call. (update_purchase_order)
OneCallPerChange ==
    ~Free("operator") => call["operator"].spent = 1
=============================================================================

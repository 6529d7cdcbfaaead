---------------------------- MODULE PurchaseOrder ----------------------------
(***************************************************************************)
(* The quantities and the status of one purchase order, and the people who *)
(* work on it: receipts (delivery_receipt_service.py), reversals           *)
(* (allocation_service.py), edits (purchase_order_service.py) and the ETag *)
(* every one of them is sent with (purchasing/etag.py).                    *)
(*                                                                         *)
(* Quantities are thousandths, as the ledger keeps them; a line keeps      *)
(* hundredths, so its columns hold multiples of Hundredth. Whether goods   *)
(* go to a job or to the rack is StockLedger's, the call to Xero that a    *)
(* moved status owes is AccountingMirror's.                                *)
(***************************************************************************)
EXTENDS Integers, Sequences, FiniteSets, Functions

CONSTANTS
    Lines,       \* the order's lines, those not yet written included
    Clients,     \* people with the order on their screen
    NoLine,      \* a PATCH that deletes or writes no line
    NoParcel,    \* a line a receipt leaves out
    NoAsk,       \* a client that has sent nothing
    Quantities,  \* what can be ordered of a line
    Parcels,     \* what a receipt may say of a line
    MaxVersion,  \* bound: writes of the order
    MaxReceipts, \* bound: receipts of a line
    MaxLost      \* bound: answers that do not arrive

Hundredth == 10

\* ALLOCATION_TOLERANCE. A total finer than thousandths counts as its whole thousandths:
\* it is rounded to the same hundredths.
Tolerance == 1

\* What arrived of a line, and the allocations it is split into; those of nothing are
\* passed over.
Parcel == [total : Nat, split : Seq(Nat \ {0})]

ASSUME OrderAssumption ==
    /\ NoLine \notin Lines
    /\ \A q \in Quantities : q \in Nat /\ q % Hundredth = 0
    /\ Parcels \subseteq Parcel /\ NoParcel \notin Parcel
    /\ {MaxVersion, MaxReceipts, MaxLost} \subseteq Nat

VARIABLES
    status,   \* PurchaseOrder.status
    version,  \* updated_at, which is the ETag
    lines,    \* [Lines -> row of PurchaseOrderLine with its receipts]
    client,   \* [Clients -> screen and request]
    lost      \* answers lost

order == <<status, lines>>
vars == <<status, version, lines, client, lost>>

Statuses == {"draft", "submitted", "partially_received", "fully_received", "deleted"}
Receiptable == {"submitted", "partially_received", "fully_received"}

\* A receipt is the stock row it created, with its delivery movement.
Receipt == [quantity : Nat, reversed : BOOLEAN]
Line == [exists : BOOLEAN, priced : BOOLEAN, quantity : Nat, received : Nat, receipts : Seq(Receipt)]
NewLine(q, p) == [exists |-> TRUE, priced |-> p, quantity |-> q, received |-> 0, receipts |-> <<>>]
NoRow == [exists |-> FALSE, priced |-> FALSE, quantity |-> 0, received |-> 0, receipts |-> <<>>]

Nothing == [l \in Lines |-> NoParcel]

\* What can be asked for. A receipt names a parcel for some of the lines; a PATCH sets
\* the status, deletes a line or writes one, and may write and set at once.
Receipts == {r \in [op : {"receive"}, of : [Lines -> Parcels \cup {NoParcel}]] : r.of # Nothing}
Patches ==
    {p \in [op : {"patch"}, status : Statuses \cup {"unset"}, drop : Lines \cup {NoLine},
            edit : Lines \cup {NoLine}, quantity : Quantities \cup {0}, priced : BOOLEAN] :
        /\ NoLine \in {p.drop, p.edit}
        /\ p.edit = NoLine <=> p.quantity = 0
        /\ p.edit = NoLine => ~p.priced}
Reversals == [op : {"reverse"}, line : Lines, n : 1 .. MaxReceipts]

Away == [at |-> "away", version |-> 0, seen |-> [l \in Lines |-> NoRow], ask |-> NoAsk, taken |-> 0]

\* create_purchase_order has written the first lines, and nothing was received yet.
Init ==
    /\ status \in {"draft", "submitted"} /\ version = 0
    /\ lines \in [Lines -> {NoRow} \cup {NewLine(q, TRUE) : q \in Quantities}]
    /\ client = [c \in Clients |-> Away]
    /\ lost = 0

-----------------------------------------------------------------------------
(* Quantities *)

\* PostgreSQL's assignment to numeric(10, 2).
Round(q) == ((q + Hundredth \div 2) \div Hundredth) * Hundredth

Total(split) == FoldFunction(+, 0, split)

Written(rows) == {l \in Lines : rows[l].exists}

\* recompute_purchase_order_status
Derived(rows, before) ==
    LET live == Written(rows) IN
    CASE \A l \in live : rows[l].received = 0 ->
            IF before = "deleted" THEN "deleted" ELSE "submitted"
      [] \E l \in live : rows[l].received < rows[l].quantity -> "partially_received"
      [] OTHER -> "fully_received"

New(split) == [i \in DOMAIN split |-> [quantity |-> split[i], reversed |-> FALSE]]

\* Fault: what a line has received is replaced, not added to.
Received_Replaced(rows, of) ==
    [l \in Lines |->
        IF of[l] = NoParcel THEN rows[l]
        ELSE [rows[l] EXCEPT !.received = Round(of[l].total), !.receipts = @ \o New(of[l].split)]]

\* The rows after a receipt of these parcels: a line has received the total, whatever it
\* is split into.
Received(rows, of) ==
    [l \in Lines |->
        IF of[l] = NoParcel THEN rows[l]
        ELSE [rows[l] EXCEPT !.received = Round(@ + of[l].total), !.receipts = @ \o New(of[l].split)]]

Priced(rows, of) == \A l \in Lines : of[l] # NoParcel => rows[l].exists /\ rows[l].priced

\* The allocations come to the total but for the tolerance, and something is received.
Reconciles(parcel) ==
    /\ Total(parcel.split) - parcel.total <= Tolerance /\ parcel.total - Total(parcel.split) <= Tolerance
    /\ parcel.split # <<>> \/ parcel.total # 0

\* _validate_and_prepare_allocations, of every line a receipt names.
Validated(rows, of) == Priced(rows, of) /\ \A l \in Lines : of[l] # NoParcel => Reconciles(of[l])

-----------------------------------------------------------------------------
(* The handlers *)

\* What the screen offers: receipts of lines it shows, edits of them and of new
\* ones, reversals of receipts that stand.
OfferedReceipts(seen) ==
    {r \in Receipts : \A l \in Lines : r.of[l] # NoParcel =>
        seen[l].exists /\ Len(seen[l].receipts) + Len(r.of[l].split) <= MaxReceipts}

OfferedPatches(seen) ==
    {p \in Patches : p.drop # NoLine => seen[p.drop].exists}

OfferedReversals(seen) ==
    {v \in Reversals :
        v.n \in DOMAIN seen[v.line].receipts /\ ~seen[v.line].receipts[v.n].reversed}

\* What may reach the server from a client: what it composes from what it sees, or
\* what it sent before, as it was, because "retried requests must preserve the
\* precondition under which the user made the change".
Arrives(c, kinds, offered) ==
    CASE client[c].at = "reviewing" -> offered
      [] client[c].at = "retrying"  -> {client[c].ask} \cap kinds
      [] OTHER -> {}

\* The request has changed the order, and with it updated_at. Its answer arrives,
\* and the screen reads the order again; or it is lost.
Writes(c, ask, st, rows) ==
    /\ status' = st /\ lines' = rows
    /\ version < MaxVersion /\ version' = version + 1
    /\ \/ client' = [client EXCEPT ![c] = Away] /\ UNCHANGED lost
       \/ /\ lost < MaxLost /\ lost' = lost + 1
          /\ client' = [client EXCEPT ![c].at = "retrying", ![c].ask = ask, ![c].taken = @ + 1]

\* A refused request would be refused again: its version is no longer the order's,
\* or the order is still the same.
Refuses(c) == client' = [client EXCEPT ![c] = Away] /\ UNCHANGED <<order, version, lost>>

\* Fault: the version is not looked at.
Current_Any(c) == TRUE

\* require_current_etag, with the order's row locked.
Current(c) == client[c].version = version

\* PreconditionFailedError, whatever was asked; and a reversal that is sent again is
\* acknowledged on any version, with the same effect on the order: none.
Stale(c) ==
    /\ client[c].at \in {"reviewing", "retrying"} /\ ~Current(c)
    /\ Refuses(c)

\* process_delivery_receipt
Deliver(c) ==
    /\ Current(c)
    /\ \E ask \in Arrives(c, Receipts, OfferedReceipts(client[c].seen)) :
        IF status \in Receiptable /\ Validated(lines, ask.of)
        THEN LET rows == Received(lines, ask.of) IN Writes(c, ask, Derived(rows, status), rows)
        ELSE Refuses(c)

\* No stock row came from the line, reversed ones included.
Deletable(l) == lines[l].receipts = <<>>

\* validate_ordered_quantity
Orderable(l, quantity) == lines[l].exists => quantity >= lines[l].received

\* The rows as the request writes them, before anything is received. An edit of a
\* line that is not there writes a new one.
Edited(ask) ==
    [l \in Lines |->
        CASE l = ask.drop -> NoRow
          [] l = ask.edit /\ l # ask.drop ->
                IF lines[l].exists
                THEN [lines[l] EXCEPT !.quantity = ask.quantity, !.priced = ask.priced]
                ELSE NewLine(ask.quantity, ask.priced)
          [] OTHER -> lines[l]]

\* All of a quantity at once, in one allocation.
InOne(quantity) == [total |-> quantity, split |-> <<quantity>>]

\* Fault: the order as it was before the request's own edits.
Outstanding_Before(rows) ==
    [l \in Lines |-> IF lines[l].quantity > lines[l].received
                     THEN InOne(lines[l].quantity - lines[l].received) ELSE NoParcel]

\* receive_outstanding_order: each outstanding line at once.
Outstanding(rows) ==
    [l \in Lines |-> IF rows[l].quantity > rows[l].received
                     THEN InOne(rows[l].quantity - rows[l].received) ELSE NoParcel]

\* update_purchase_order
Patched(c, ask) ==
    LET rows == Edited(ask)
        asked == IF ask.status = "unset" THEN status ELSE ask.status
        due == IF ask.status = "fully_received" THEN Outstanding(rows) ELSE Nothing
        after == Received(rows, due)
    IN
    IF /\ ask.drop # NoLine => Deletable(ask.drop)
       /\ ask.edit # NoLine => ask.edit # ask.drop /\ Orderable(ask.edit, ask.quantity)
       /\ Validated(rows, due)
    THEN CASE due # Nothing -> Writes(c, ask, Derived(after, asked), after)
           [] /\ ask.status # "fully_received" /\ ask.edit # NoLine
              /\ \E l \in Lines : rows[l].received > 0 -> Writes(c, ask, Derived(rows, asked), rows)
           [] OTHER -> Writes(c, ask, asked, rows)
    ELSE Refuses(c)

Patch(c) == Current(c) /\ \E ask \in Arrives(c, Patches, OfferedPatches(client[c].seen)) : Patched(c, ask)

\* reverse_allocation
Reverse(c) ==
    /\ Current(c)
    /\ \E ask \in Arrives(c, Reversals, OfferedReversals(client[c].seen)) :
        LET l == ask.line
            quantity == lines[l].receipts[ask.n].quantity
            rows == [lines EXCEPT ![l].received = Round(@ - quantity),
                                  ![l].receipts[ask.n].reversed = TRUE]
        IN IF ~lines[l].receipts[ask.n].reversed /\ lines[l].received >= quantity
           THEN Writes(c, ask, Derived(rows, status), rows)
           ELSE Refuses(c)

\* An acknowledgement by the mirror, a pull: updated_at moves and nothing else here.
Touched ==
    /\ version < MaxVersion /\ version' = version + 1
    /\ UNCHANGED <<order, client, lost>>

-----------------------------------------------------------------------------
(* A client *)

\* retrieve_purchase_order reads the order, names its version, and then its lines.
ReadOrder(c) ==
    /\ client[c].at = "away"
    /\ client' = [client EXCEPT ![c].at = "reading", ![c].version = version]
    /\ UNCHANGED <<order, version, lost>>

ReadLines(c) ==
    /\ client[c].at = "reading"
    /\ client' = [client EXCEPT ![c].at = "reviewing", ![c].seen = lines]
    /\ UNCHANGED <<order, version, lost>>

-----------------------------------------------------------------------------

Handles(c) == Stale(c) \/ Deliver(c) \/ Patch(c) \/ Reverse(c)

Next ==
    \/ \E c \in Clients : ReadOrder(c) \/ ReadLines(c) \/ Handles(c)
    \/ Touched

Spec == Init /\ [][Next]_vars

-----------------------------------------------------------------------------
(***************************************************************************)
(* Properties                                                              *)
(***************************************************************************)

\* Rows, screens and requests keep their shape, and a line's columns hold whole
\* hundredths.
TypeOK ==
    /\ status \in Statuses
    /\ version \in 0 .. MaxVersion
    /\ lines \in [Lines -> Line]
    /\ \A l \in Lines : lines[l].quantity % Hundredth = 0 /\ lines[l].received % Hundredth = 0
    /\ client \in [Clients -> [at : {"away", "reading", "reviewing", "retrying"},
                               version : 0 .. MaxVersion, seen : [Lines -> Line],
                               ask : Receipts \cup Patches \cup Reversals \cup {NoAsk},
                               taken : 0 .. MaxVersion]]
    /\ lost \in 0 .. MaxLost

Acts(c) == client'[c] # client[c] /\ order' # order

\* "so a check-then-write race cannot slip through": a request changes an order that
\* is, line by line, the one its author was looking at, and one whose answer was
\* lost changes nothing when it is sent again.
AcceptedAsSeen ==
    [][\A c \in Clients : Acts(c) => client[c].taken = 0 /\ client[c].seen = lines]_vars

Standing(l) == {i \in DOMAIN lines[l].receipts : ~lines[l].receipts[i].reversed}
Broken(l) == {i \in DOMAIN lines[l].receipts : lines[l].receipts[i].quantity % Hundredth # 0}
Sum(l, S) == FoldFunctionOnSet(+, 0, [i \in DOMAIN lines[l].receipts |-> lines[l].receipts[i].quantity], S)

\* What a line shows as received is what stands of its receipts: exactly, as long as
\* they are whole hundredths, whatever total they were sent with, and else but for the
\* tolerance and the rounding of each receipt and the rounding of each reversal.
ReceivedIsWhatStands ==
    \A l \in Lines :
        LET slack == (Hundredth \div 2 + Tolerance) * Cardinality(Broken(l))
                        + (Hundredth \div 2) * Cardinality(Broken(l) \ Standing(l))
            off == lines[l].received - Sum(l, Standing(l))
        IN off <= slack /\ -off <= slack

\* "DocketWorks keeps that record": a receipt is never forgotten, whatever is done to
\* its line and its order, and a reversal is never undone.
ReceiptsAreKept ==
    [][\A l \in Lines : \A i \in DOMAIN lines[l].receipts :
          /\ i \in DOMAIN lines'[l].receipts
          /\ lines'[l].receipts[i].quantity = lines[l].receipts[i].quantity
          /\ lines[l].receipts[i].reversed => lines'[l].receipts[i].reversed]_vars

\* "Submit only outstanding quantities": an edit that receives leaves no line short
\* of what is now ordered of it, and takes no line beyond that.
CompletesExactly ==
    [][\A c \in Clients :
          (\E l \in Lines : lines'[l].receipts # lines[l].receipts) /\ Patch(c) =>
              \A l \in Written(lines') :
                  /\ lines'[l].received >= lines'[l].quantity
                  /\ lines'[l].received # lines[l].received => lines'[l].received = lines'[l].quantity]_vars

\* "No receipts means submitted": once all that was received has been reversed, no
\* line shows anything received.
ReversedLeavesNothing ==
    \A l \in Lines : Standing(l) = {} => lines[l].received = 0
=============================================================================

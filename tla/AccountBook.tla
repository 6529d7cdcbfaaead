----------------------------- MODULE AccountBook -----------------------------
(***************************************************************************)
(* What an inventory ledger promises, whatever requests it serves: a book  *)
(* with a page for each account, to which entries are only ever added.  An *)
(* entry carries the balance it leaves.  One that concerns a party stands  *)
(* as a charge of the opposite amount with that party, under an id of its  *)
(* own; one that undoes another undoes all of it, and nothing is undone    *)
(* twice.  StockLedger implements it.                                      *)
(***************************************************************************)
EXTENDS Integers, Sequences

CONSTANTS
    Accounts,  \* the accounts with a page in the book
    Parties,   \* who can be charged
    Nobody     \* an entry that charges nobody

VARIABLES
    book,     \* [Accounts -> Seq(Entry)]
    charges   \* [ids of charges -> the party and the amount]

bookVars == <<book, charges>>

Entry ==
    [change : Int, balance : Int, party : Parties \cup {Nobody}, charge : Nat, undoes : Nat]

Init ==
    /\ book = [a \in Accounts |-> <<>>]
    /\ charges = [c \in {} |-> 0]

\* An entry carries the balance of the one before on.
Follows(page, i) ==
    page[i].balance = page[i].change + (IF i = 1 THEN 0 ELSE page[i - 1].balance)

\* An entry that undoes another undoes an earlier one of its page, for the same
\* party, entirely and for the first time.
UndoesOnce(page, i) ==
    page[i].undoes # 0 =>
        /\ page[i].undoes \in 1 .. (i - 1)
        /\ LET undone == page[page[i].undoes] IN
              undone.undoes = 0 /\ undone.party = page[i].party /\ undone.change = -page[i].change
        /\ \A k \in 1 .. (i - 1) : page[k].undoes # page[i].undoes

\* The entries a step adds to a page.
New(a) == DOMAIN book'[a] \ DOMAIN book[a]

\* Where a step charges a party.
Charging ==
    UNION {{<<a, i>> : i \in {k \in New(a) : book'[a][k].party # Nobody}} : a \in Accounts}

EntryAt(at) == book'[at[1]][at[2]]

\* The pages grow.
Written ==
    \A a \in Accounts : book'[a] # book[a] =>
        /\ book'[a] \in Seq(Entry)
        /\ \A i \in DOMAIN book[a] : i \in DOMAIN book'[a] /\ book'[a][i] = book[a][i]
        /\ \A i \in New(a) : Follows(book'[a], i) /\ UndoesOnce(book'[a], i)

\* The charges that stand stay, and the new ones are those of the new entries, each
\* with an id of its own.
Charged ==
    LET charging == Charging IN
    /\ \A c \in DOMAIN charges : c \in DOMAIN charges' /\ charges'[c] = charges[c]
    /\ DOMAIN charges' = DOMAIN charges \cup {EntryAt(at).charge : at \in charging}
    /\ \A at \in charging :
          /\ EntryAt(at).charge \notin DOMAIN charges
          /\ charges'[EntryAt(at).charge] =
                [party |-> EntryAt(at).party, amount |-> -EntryAt(at).change]
    /\ \A at, other \in charging : EntryAt(at).charge = EntryAt(other).charge => at = other

\* One transaction: entries on any pages, with their charges, all together.
Post == Written /\ Charged

Spec == Init /\ [][Post]_bookVars

=============================================================================

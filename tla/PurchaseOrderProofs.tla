------------------------- MODULE PurchaseOrderProofs -------------------------
(***************************************************************************)
(* Proofs about PurchaseOrder, for any lines, people, quantities, parcels  *)
(* and bounds, and about AccountingMirror, for any orders and bounds.      *)
(***************************************************************************)
EXTENDS PurchaseOrder, AccountingMirror, SumLemmas

-----------------------------------------------------------------------------
(* Whole hundredths.                                                       *)

Whole(q) == q % Hundredth = 0

\* A sum or a difference of whole hundredths is one.
LEMMA WholeSum ==
    /\ Whole(0)
    /\ \A a, b \in Int : Whole(a) /\ Whole(b) => Whole(a + b) /\ Whole(a - b)
BY DEF Whole, Hundredth

\* What a column keeps of a quantity is whole, at most half a hundredth off, and the
\* quantity itself if that is whole. (numeric(10, 2))
LEMMA Rounded ==
    ASSUME NEW q \in Int
    PROVE  /\ Round(q) \in Int /\ Whole(Round(q))
           /\ Round(q) - q <= 5 /\ q - Round(q) <= 5
           /\ Whole(q) => Round(q) = q
           /\ q >= 0 => Round(q) \in Nat
BY DEF Whole, Hundredth, Round

\* A thousandth more or less than whole hundredths is not kept. (ALLOCATION_TOLERANCE)
LEMMA RoundedOff ==
    ASSUME NEW w \in Int, Whole(w), NEW t \in Int, t <= Tolerance, -Tolerance <= t
    PROVE  Round(w + t) = w
<1>1. t \in {-1, 0, 1} /\ w % 10 = 0
  BY DEF Tolerance, Whole, Hundredth
<1>2. (w + t + 5) \div 10 = w \div 10 /\ (w \div 10) * 10 = w
  BY <1>1
<1> QED BY <1>2 DEF Round, Hundredth

\* A receipt's quantity is what it is split into, of at least nothing, and whole if
\* the parts are. (receive_outstanding_order receives in one part)
LEMMA TotalType ==
    ASSUME NEW split \in Seq(Nat \ {0})
    PROVE  /\ Total(split) = SumFunctionOnSet(split, DOMAIN split)
           /\ Total(split) \in Nat
           /\ (\A i \in DOMAIN split : Whole(split[i])) => Whole(Total(split))
<1>1. Total(split) = SumFunctionOnSet(split, DOMAIN split)
  BY DEF Total, FoldFunction, SumFunctionOnSet
<1>2. DOMAIN split = 1 .. Len(split) /\ Len(split) \in Nat /\ IsFiniteSet(DOMAIN split)
  BY FS_Interval
<1>3. SumFunctionOnSet(split, DOMAIN split) \in Nat
  <2>1. 0 \in Nat /\ (\A a, b \in Nat : a + b \in Nat) /\ \A i \in DOMAIN split : split[i] \in Nat
    BY <1>2
  <2> QED BY <1>2, <2>1, SumIn
<1>4. ASSUME \A i \in DOMAIN split : Whole(split[i])
      PROVE  Whole(SumFunctionOnSet(split, DOMAIN split))
  <2> DEFINE K == {q \in Int : Whole(q)}
  <2>1. \A i \in DOMAIN split : split[i] \in K
    BY <1>2, <1>4
  <2>2. 0 \in K /\ \A a, b \in K : a + b \in K
    BY WholeSum
  <2> HIDE DEF K
  <2>3. SumFunctionOnSet(split, DOMAIN split) \in K
    BY <1>2, <2>1, <2>2, SumIn
  <2> QED BY <2>3 DEF K
<1> QED BY <1>1, <1>3, <1>4

-----------------------------------------------------------------------------
(* One line.                                                               *)

Lined == {row \in Line : Whole(row.quantity) /\ Whole(row.received)}

Quantity(row) == [i \in DOMAIN row.receipts |-> row.receipts[i].quantity]
Stands(row) == {i \in DOMAIN row.receipts : ~row.receipts[i].reversed}
Uneven(row) == {i \in DOMAIN row.receipts : ~Whole(row.receipts[i].quantity)}
Stood(row) == SumFunctionOnSet(Quantity(row), Stands(row))
Slack(row) == (Hundredth \div 2 + Tolerance) * Cardinality(Uneven(row))
                + (Hundredth \div 2) * Cardinality(Uneven(row) \ Stands(row))

\* The line shows what stands of its receipts, but for the tolerance and their rounding.
Fair(row) == row.received - Stood(row) <= Slack(row) /\ Stood(row) - row.received <= Slack(row)

\* A row that is not there shows nothing.
Absent(row) == ~row.exists => row = NoRow

LEMMA RowFacts ==
    ASSUME NEW row \in Lined
    PROVE  /\ row.receipts \in Seq(Receipt) /\ DOMAIN row.receipts = 1 .. Len(row.receipts)
           /\ Len(row.receipts) \in Nat /\ IsFiniteSet(DOMAIN row.receipts)
           /\ row.received \in Nat /\ row.quantity \in Nat
           /\ \A i \in DOMAIN row.receipts : /\ row.receipts[i].quantity \in Nat
                                             /\ Quantity(row)[i] = row.receipts[i].quantity
           /\ IsFiniteSet(Stands(row)) /\ IsFiniteSet(Uneven(row))
           /\ IsFiniteSet(Uneven(row) \ Stands(row))
           /\ Cardinality(Uneven(row)) \in Nat /\ Cardinality(Uneven(row) \ Stands(row)) \in Nat
           /\ Stood(row) \in Int
<1>1. /\ row.receipts \in Seq(Receipt) /\ DOMAIN row.receipts = 1 .. Len(row.receipts)
      /\ Len(row.receipts) \in Nat /\ row.received \in Nat /\ row.quantity \in Nat
  BY DEF Lined, Line
<1>2. \A i \in DOMAIN row.receipts : /\ row.receipts[i].quantity \in Nat
                                     /\ Quantity(row)[i] = row.receipts[i].quantity
  <2>1. \A i \in DOMAIN row.receipts : row.receipts[i] \in Receipt
    BY <1>1
  <2> QED BY <2>1 DEF Receipt, Quantity
<1>3. IsFiniteSet(DOMAIN row.receipts)
  <2>1. \A n \in Nat : IsFiniteSet(1 .. n)
    BY FS_Interval
  <2> QED BY <1>1, <2>1
<1>4. /\ IsFiniteSet(Stands(row)) /\ IsFiniteSet(Uneven(row))
      /\ IsFiniteSet(Uneven(row) \ Stands(row))
  <2>1. /\ Stands(row) \subseteq DOMAIN row.receipts /\ Uneven(row) \subseteq DOMAIN row.receipts
        /\ Uneven(row) \ Stands(row) \subseteq DOMAIN row.receipts
    BY DEF Stands, Uneven
  <2> QED BY <1>3, <2>1, FS_Subset
<1>5. Cardinality(Uneven(row)) \in Nat /\ Cardinality(Uneven(row) \ Stands(row)) \in Nat
  BY <1>4, FS_CardinalityType
<1>6. Stood(row) \in Int
  <2>1. \A i \in Stands(row) : Quantity(row)[i] \in Int
    BY <1>2 DEF Stands
  <2> QED BY <1>4, <2>1, SumType DEF Stood
<1> QED BY <1>1, <1>2, <1>3, <1>4, <1>5, <1>6

LEMMA Units == Hundredth \div 2 = 5 /\ Hundredth \div 2 + Tolerance = 6
BY DEF Hundredth, Tolerance

\* A line nothing was received of.
LEMMA EmptyFair ==
    ASSUME NEW row \in Lined, row.receipts = <<>>, row.received = 0
    PROVE  Fair(row)
<1>1. Stands(row) = {}
  BY DEF Stands
<1>2. Stood(row) = 0
  BY <1>1, SumOfNone DEF Stood
<1>3. Slack(row) \in Nat
  <2>1. Cardinality(Uneven(row)) \in Nat /\ Cardinality(Uneven(row) \ Stands(row)) \in Nat
    BY RowFacts
  <2>2. \A a, b \in Nat : 6 * a + 5 * b \in Nat
    OBVIOUS
  <2> QED BY <2>1, <2>2, Units DEF Slack
<1> QED BY <1>2, <1>3 DEF Fair

\* A line with the same receipts, of which as much is received.
LEMMA SameFair ==
    ASSUME NEW row, NEW after, Fair(row),
           after.receipts = row.receipts, after.received = row.received
    PROVE  Fair(after)
BY DEF Fair, Stood, Slack, Stands, Uneven, Quantity

\* Two sequences one after the other.
LEMMA Joined ==
    ASSUME NEW S, NEW s \in Seq(S), NEW t \in Seq(S)
    PROVE  /\ s \o t \in Seq(S)
           /\ DOMAIN (s \o t) = 1 .. Len(s) + Len(t)
           /\ \A i \in 1 .. Len(s) : (s \o t)[i] = s[i]
           /\ \A i \in 1 .. Len(t) : (s \o t)[Len(s) + i] = t[i]
OBVIOUS

\* Where the i-th part of a receipt is kept.
Later(row, i) == Len(row.receipts) + i

Taking(row, parcel) ==
    [row EXCEPT !.received = Round(@ + parcel.total), !.receipts = @ \o New(parcel.split)]

\* The row after a receipt: the old receipts as they were, and the parts of the new.
LEMMA TakingFacts ==
    ASSUME NEW row \in Lined, NEW parcel \in Parcel
    PROVE  LET after == Taking(row, parcel)
               split == parcel.split
               n == Len(row.receipts)
           IN  /\ after \in Lined
               /\ after.exists = row.exists /\ after.quantity = row.quantity
               /\ after.received = Round(row.received + parcel.total)
               /\ DOMAIN after.receipts = 1 .. n + Len(split)
               /\ \A i \in DOMAIN row.receipts :
                    i \in DOMAIN after.receipts /\ after.receipts[i] = row.receipts[i]
               /\ \A i \in DOMAIN split :
                    /\ Later(row, i) \in DOMAIN after.receipts
                    /\ after.receipts[Later(row, i)].quantity = split[i]
                    /\ ~after.receipts[Later(row, i)].reversed
<1> DEFINE after == Taking(row, parcel)
           split == parcel.split
           n == Len(row.receipts)
           m == Len(split)
           new == New(split)
<1>1. /\ row \in Line /\ Whole(row.quantity) /\ row.receipts \in Seq(Receipt)
      /\ row.received \in Nat /\ n \in Nat /\ DOMAIN row.receipts = 1 .. n
  BY RowFacts DEF Lined
<1>0. split \in Seq(Nat \ {0}) /\ parcel.total \in Nat
  BY DEF Parcel
<1>2. m \in Nat /\ DOMAIN split = 1 .. m
  BY <1>0
<1>3. /\ new \in Seq(Receipt) /\ Len(new) = m
      /\ \A i \in 1 .. m : new[i] = [quantity |-> split[i], reversed |-> FALSE]
  <2>1. \A i \in 1 .. m : split[i] \in Nat
    BY <1>0, <1>2
  <2> QED BY <1>2, <2>1 DEF New, Receipt
<1>4. Round(row.received + parcel.total) \in Nat /\ Whole(Round(row.received + parcel.total))
  <2>1. row.received + parcel.total \in Int /\ row.received + parcel.total >= 0
    BY <1>0, <1>1
  <2> QED BY <2>1, Rounded
<1> HIDE DEF new
<1>5. /\ row.receipts \o new \in Seq(Receipt)
      /\ DOMAIN (row.receipts \o new) = 1 .. n + m
      /\ \A i \in 1 .. n : (row.receipts \o new)[i] = row.receipts[i]
      /\ \A i \in 1 .. m : (row.receipts \o new)[n + i] = new[i]
  <2>1. row.receipts \in Seq(Receipt) /\ new \in Seq(Receipt)
    BY <1>1, <1>3
  <2>2. /\ row.receipts \o new \in Seq(Receipt)
        /\ DOMAIN (row.receipts \o new) = 1 .. Len(row.receipts) + Len(new)
        /\ \A i \in 1 .. Len(row.receipts) : (row.receipts \o new)[i] = row.receipts[i]
        /\ \A i \in 1 .. Len(new) : (row.receipts \o new)[Len(row.receipts) + i] = new[i]
    BY <2>1, Joined
  <2> QED BY <1>3, <2>2
<1>6. /\ after.received = Round(row.received + parcel.total)
      /\ after.receipts = row.receipts \o new
      /\ after.quantity = row.quantity /\ after.exists = row.exists
  BY <1>1 DEF Taking, Line, new
<1>7. after \in Lined
  BY <1>1, <1>4, <1>5, <1>6 DEF Taking, Lined, Line, new
<1>8. \A i \in DOMAIN row.receipts :
         i \in DOMAIN after.receipts /\ after.receipts[i] = row.receipts[i]
  BY <1>1, <1>2, <1>5, <1>6
<1>9. \A i \in DOMAIN split :
         /\ Later(row, i) \in DOMAIN after.receipts
         /\ after.receipts[Later(row, i)].quantity = split[i]
         /\ ~after.receipts[Later(row, i)].reversed
  <2> SUFFICES ASSUME NEW i \in 1 .. m
               PROVE  /\ Later(row, i) \in DOMAIN after.receipts
                      /\ after.receipts[Later(row, i)].quantity = split[i]
                      /\ ~after.receipts[Later(row, i)].reversed
    BY <1>2
  <2>1. Later(row, i) = n + i /\ n + i \in 1 .. n + m
    <3>1. Later(row, i) = n + i /\ n \in Nat /\ m \in Nat
      BY <1>1, <1>2 DEF Later
    <3> HIDE DEF n, m
    <3> QED BY <3>1
  <2>2. (row.receipts \o new)[n + i] = new[i]
    BY <1>5
  <2>3. new[i].quantity = split[i] /\ ~new[i].reversed
    <3>1. new[i] = [quantity |-> split[i], reversed |-> FALSE]
      BY <1>3
    <3> QED BY <3>1
  <2> HIDE DEF after
  <2>4. after.receipts[Later(row, i)] = new[i] /\ Later(row, i) \in DOMAIN after.receipts
    BY <1>5, <1>6, <2>1, <2>2
  <2> QED BY <2>3, <2>4
<1> HIDE DEF after
<1> QED BY <1>5, <1>6, <1>7, <1>8, <1>9 DEF after

\* A receipt keeps the line fair: whole parts count exactly, whatever total they were
\* sent with, and if a part is not whole the tolerance and the rounding of the receipt
\* are within what that part allows.
\* (process_delivery_receipt, receive_outstanding_order)
LEMMA TakingIsFair ==
    ASSUME NEW row \in Lined, Fair(row), NEW parcel \in Parcel, Reconciles(parcel)
    PROVE  Fair(Taking(row, parcel))
<1> DEFINE after == Taking(row, parcel)
           split == parcel.split
           total == parcel.total
           n == Len(row.receipts)
           m == Len(split)
           p == [i \in 1 .. m |-> Later(row, i)]
           N == {p[i] : i \in 1 .. m}
           f == Quantity(after)
<1>0. /\ n \in Nat /\ m \in Nat /\ DOMAIN row.receipts = 1 .. n /\ DOMAIN split = 1 .. m
      /\ split \in Seq(Nat \ {0}) /\ total \in Nat
  BY RowFacts DEF Parcel
<1>1. /\ after \in Lined
      /\ after.received = Round(row.received + total)
      /\ DOMAIN after.receipts = 1 .. n + m
      /\ \A i \in DOMAIN row.receipts :
            i \in DOMAIN after.receipts /\ after.receipts[i] = row.receipts[i]
      /\ \A i \in DOMAIN split :
            /\ Later(row, i) \in DOMAIN after.receipts
            /\ after.receipts[Later(row, i)].quantity = split[i]
            /\ ~after.receipts[Later(row, i)].reversed
  BY TakingFacts
<1> HIDE DEF after, split, total
<1>2. \A i \in DOMAIN after.receipts : i \in DOMAIN row.receipts \/ \E k \in 1 .. m : i = p[k]
  <2> SUFFICES ASSUME NEW i \in 1 .. n + m, i \notin 1 .. n
               PROVE  \E k \in 1 .. m : i = p[k]
    BY <1>0, <1>1
  <2>1. i - n \in 1 .. m /\ p[i - n] = i
    BY <1>0 DEF Later
  <2> QED BY <2>1
<1>3. N \cap DOMAIN row.receipts = {}
  BY <1>0 DEF Later
<1>4. Stands(after) = Stands(row) \cup N
  <2>1. \A i \in Stands(row) : i \in Stands(after)
    BY <1>1 DEF Stands
  <2>2. \A k \in 1 .. m : p[k] \in Stands(after)
    BY <1>0, <1>1 DEF Stands
  <2>3. \A i \in Stands(after) : i \in Stands(row) \/ \E k \in 1 .. m : i = p[k]
    BY <1>1, <1>2 DEF Stands
  <2> HIDE DEF p
  <2> QED BY <2>1, <2>2, <2>3
<1>5. Uneven(row) \subseteq Uneven(after) /\ Uneven(after) \ Stands(after) = Uneven(row) \ Stands(row)
  <2>1. Uneven(row) \subseteq Uneven(after)
    BY <1>1 DEF Uneven
  <2>2. \A i \in Uneven(after) \ Stands(after) : i \in DOMAIN row.receipts
    BY <1>2, <1>4 DEF Uneven
  <2>3. Uneven(after) \ Stands(after) \subseteq Uneven(row) \ Stands(row)
    BY <1>1, <2>2 DEF Uneven, Stands
  <2>4. Stands(row) \subseteq DOMAIN row.receipts /\ Uneven(row) \subseteq DOMAIN row.receipts
    BY DEF Stands, Uneven
  <2> QED BY <1>3, <1>4, <2>1, <2>3, <2>4
<1>6. /\ IsFiniteSet(N)
      /\ SumFunctionOnSet(f, N) = Total(split)
  <2>1. /\ IsFiniteSet(1 .. m) /\ \A x \in 1 .. m : split[x] \in Int
        /\ \A x, y \in 1 .. m : p[x] = p[y] => x = y
    <3>1. IsFiniteSet(1 .. m)
      BY <1>0, FS_Interval
    <3> QED BY <1>0, <3>1 DEF Later
  <2>2. \A x \in 1 .. m : f[p[x]] = split[x]
    <3> SUFFICES ASSUME NEW x \in 1 .. m PROVE f[Later(row, x)] = split[x]
      OBVIOUS
    <3>1. Later(row, x) \in DOMAIN after.receipts /\ after.receipts[Later(row, x)].quantity = split[x]
      BY <1>0, <1>1
    <3> QED BY <3>1 DEF Quantity
  <2>3. Total(split) = SumFunctionOnSet(split, 1 .. m)
    BY <1>0, TotalType
  <2> HIDE DEF p, f
  <2>4. IsFiniteSet(N) /\ SumFunctionOnSet(f, N) = SumFunctionOnSet(split, 1 .. m)
    <3>1. N = {p[x] : x \in 1 .. m} /\ \A x \in 1 .. m : split[x] \in Int
      BY <2>1
    <3>2. IsFiniteSet(1 .. m) /\ \A x, y \in 1 .. m : p[x] = p[y] => x = y
      BY <2>1
    <3> HIDE DEF m, N
    <3> DEFINE S == 1 .. m
    <3> HIDE DEF S
    <3>3. N = {p[x] : x \in S} /\ IsFiniteSet(S) /\ (\A x \in S : split[x] \in Int)
      BY <3>1, <3>2 DEF S
    <3>4. (\A x, y \in S : p[x] = p[y] => x = y) /\ \A x \in S : f[p[x]] = split[x]
      BY <2>2, <3>2 DEF S
    <3>5. IsFiniteSet(N) /\ SumFunctionOnSet(f, N) = SumFunctionOnSet(split, S)
      BY <3>3, <3>4, SumMoved
    <3> QED BY <3>5 DEF S
  <2> QED BY <2>3, <2>4
<1>7. Stood(after) = Stood(row) + Total(split)
  <2>1. IsFiniteSet(Stands(row)) /\ Stands(row) \cap N = {}
    BY <1>3, RowFacts DEF Stands
  <2>2. \A x \in Stands(row) \cup N : f[x] \in Int
    <3>1. \A x \in DOMAIN after.receipts : f[x] \in Int
      <4>1. \A x \in DOMAIN after.receipts :
               after.receipts[x].quantity \in Nat /\ f[x] = after.receipts[x].quantity
        BY <1>1, RowFacts
      <4> QED BY <4>1
    <3> QED BY <1>4, <3>1 DEF Stands
  <2>3. \A x \in Stands(row) : f[x] = Quantity(row)[x]
    BY <1>1 DEF Quantity, Stands
  <2> HIDE DEF f, N
  <2>4. SumFunctionOnSet(f, Stands(row) \cup N)
           = SumFunctionOnSet(f, Stands(row)) + SumFunctionOnSet(f, N)
    BY <1>6, <2>1, <2>2, SumOfBoth
  <2>5. SumFunctionOnSet(f, Stands(row)) = SumFunctionOnSet(Quantity(row), Stands(row))
    BY <2>1, <2>3, SumSame
  <2> QED BY <1>4, <1>6, <2>4, <2>5 DEF Stood, f
<1>8. /\ row.received \in Nat /\ Whole(row.received) /\ Stood(row) \in Int
      /\ Total(split) \in Nat /\ row.received + total \in Int /\ total \in Nat
      /\ Total(split) - total <= Tolerance /\ total - Total(split) <= Tolerance
  <2>1. row.received \in Nat /\ Stood(row) \in Int
    BY RowFacts
  <2>2. Total(split) \in Nat
    BY <1>0, TotalType
  <2>3. Whole(row.received)
    BY DEF Lined
  <2>4. Total(split) - total <= Tolerance /\ total - Total(split) <= Tolerance
    BY DEF Reconciles, split, total
  <2> QED BY <1>0, <2>1, <2>2, <2>3, <2>4
<1>9. CASE \A i \in DOMAIN split : Whole(split[i])
  <2>1. Whole(row.received + Total(split))
    <3>1. Whole(Total(split))
      BY <1>0, <1>9, TotalType
    <3>2. row.received \in Int /\ Total(split) \in Int
      BY <1>8
    <3> QED BY <1>8, <3>1, <3>2, WholeSum
  <2>2. after.received = row.received + Total(split)
    <3> DEFINE w == row.received + Total(split)
               t == total - Total(split)
    <3>1. /\ w \in Int /\ Whole(w) /\ t \in Int /\ t <= Tolerance /\ -Tolerance <= t
          /\ w + t = row.received + total
      BY <1>8, <2>1 DEF Tolerance
    <3> HIDE DEF w, t
    <3>2. Round(w + t) = w
      BY <3>1, RoundedOff
    <3> QED BY <1>1, <3>1, <3>2 DEF w
  <2>3. Uneven(after) = Uneven(row)
    <3>1. \A k \in 1 .. m : p[k] \notin Uneven(after)
      <4> SUFFICES ASSUME NEW k \in DOMAIN split PROVE Later(row, k) \notin Uneven(after)
        BY <1>0
      <4>1. after.receipts[Later(row, k)].quantity = split[k]
        BY <1>1
      <4> QED BY <1>9, <4>1 DEF Uneven
    <3>2. \A i \in Uneven(after) : i \in DOMAIN row.receipts
      BY <1>2, <3>1 DEF Uneven
    <3> QED BY <1>1, <1>5, <3>2 DEF Uneven
  <2>4. Slack(after) = Slack(row)
    BY <1>5, <2>3 DEF Slack
  <2>5. after.received - Stood(after) = row.received - Stood(row)
        /\ Stood(after) - after.received = Stood(row) - row.received
    BY <1>7, <1>8, <2>2
  <2> QED BY <2>4, <2>5 DEF Fair, after
<1>10. CASE \E i \in DOMAIN split : ~Whole(split[i])
  <2>1. PICK k \in 1 .. m : ~Whole(split[k])
    BY <1>0, <1>10
  <2>2. Later(row, k) \in Uneven(after) /\ Later(row, k) \notin Uneven(row)
    <3>1. /\ Later(row, k) \in DOMAIN after.receipts /\ Later(row, k) \notin DOMAIN row.receipts
          /\ after.receipts[Later(row, k)].quantity = split[k]
      <4>1. Later(row, k) \notin DOMAIN row.receipts
        BY <1>0 DEF Later
      <4> QED BY <1>0, <1>1, <4>1
    <3> QED BY <2>1, <3>1 DEF Uneven
  <2> DEFINE a == Cardinality(Uneven(row))
             b == Cardinality(Uneven(row) \ Stands(row))
             c == Cardinality(Uneven(after))
  <2>3. a \in Nat /\ b \in Nat /\ c \in Nat
    BY <1>1, RowFacts
  <2>4. a < c
    <3>1. /\ IsFiniteSet(Uneven(after)) /\ Uneven(row) \in SUBSET Uneven(after)
          /\ Uneven(row) # Uneven(after)
      BY <1>1, <1>5, <2>2, RowFacts
    <3>2. a <= c /\ (c = a => Uneven(after) = Uneven(row))
      BY <3>1, FS_Subset
    <3> QED BY <2>3, <3>1, <3>2
  <2>5. Slack(row) = 6 * a + 5 * b /\ Slack(after) = 6 * c + 5 * b
    BY <1>5, Units DEF Slack
  <2>6. /\ Round(row.received + total) \in Int
        /\ Round(row.received + total) - (row.received + total) <= 5
        /\ (row.received + total) - Round(row.received + total) <= 5
    BY <1>8, Rounded
  <2>7. \A r, t, g, u, v, x, y, z \in Int :
           /\ v - (r + g) <= 5 /\ (r + g) - v <= 5 /\ x < z
           /\ t - g <= 1 /\ g - t <= 1
           /\ r - u <= 6 * x + 5 * y /\ u - r <= 6 * x + 5 * y
           => v - (u + t) <= 6 * z + 5 * y /\ (u + t) - v <= 6 * z + 5 * y
    OBVIOUS
  <2> HIDE DEF a, b, c
  <2>8. row.received - Stood(row) <= 6 * a + 5 * b /\ Stood(row) - row.received <= 6 * a + 5 * b
    BY <2>5 DEF Fair
  <2>9. /\ after.received - (Stood(row) + Total(split)) <= 6 * c + 5 * b
        /\ (Stood(row) + Total(split)) - after.received <= 6 * c + 5 * b
    <3> DEFINE r == row.received
               t == Total(split)
               g == total
               u == Stood(row)
               v == after.received
    <3>1. /\ r \in Int /\ t \in Int /\ g \in Int /\ u \in Int /\ v \in Int
          /\ a \in Int /\ b \in Int /\ c \in Int
      BY <1>1, <1>8, <2>3, <2>6
    <3>2. /\ v - (r + g) <= 5 /\ (r + g) - v <= 5 /\ a < c
          /\ t - g <= 1 /\ g - t <= 1
          /\ r - u <= 6 * a + 5 * b /\ u - r <= 6 * a + 5 * b
      BY <1>1, <1>8, <2>4, <2>6, <2>8 DEF Tolerance
    <3> HIDE DEF r, t, g, u, v
    <3>3. v - (u + t) <= 6 * c + 5 * b /\ (u + t) - v <= 6 * c + 5 * b
      BY <2>7, <3>1, <3>2
    <3> QED BY <3>3 DEF r, t, g, u, v
  <2> QED BY <1>7, <2>5, <2>9 DEF Fair, after
<1> QED BY <1>9, <1>10 DEF after

Undoing(row, n) ==
    [row EXCEPT !.received = Round(@ - row.receipts[n].quantity),
                !.receipts[n].reversed = TRUE]

\* A reversal of a receipt that stands keeps the line fair: what is whole is taken off
\* exactly, and what is not is now also allowed for among what no longer stands.
\* (reverse_allocation)
LEMMA UndoingIsFair ==
    ASSUME NEW row \in Lined, Fair(row), NEW n \in DOMAIN row.receipts,
           ~row.receipts[n].reversed, row.received >= row.receipts[n].quantity
    PROVE  LET after == Undoing(row, n)
           IN  /\ after \in Lined /\ Fair(after)
               /\ after.exists = row.exists /\ after.quantity = row.quantity
               /\ DOMAIN after.receipts = DOMAIN row.receipts
               /\ \A i \in DOMAIN row.receipts :
                    /\ after.receipts[i].quantity = row.receipts[i].quantity
                    /\ row.receipts[i].reversed => after.receipts[i].reversed
<1> DEFINE after == Undoing(row, n)
           q == row.receipts[n].quantity
           D == DOMAIN row.receipts
<1>1. /\ row \in Line /\ row.receipts \in Seq(Receipt) /\ row.received \in Nat /\ q \in Nat
      /\ Stood(row) \in Int /\ IsFiniteSet(Stands(row)) /\ IsFiniteSet(Uneven(row))
      /\ IsFiniteSet(Uneven(row) \ Stands(row))
      /\ \A i \in D : Quantity(row)[i] \in Int
  <2>1. /\ row.receipts \in Seq(Receipt) /\ row.received \in Nat /\ Stood(row) \in Int
        /\ IsFiniteSet(Stands(row)) /\ IsFiniteSet(Uneven(row))
        /\ IsFiniteSet(Uneven(row) \ Stands(row))
    BY RowFacts
  <2>2. \A i \in D : /\ row.receipts[i].quantity \in Nat
                     /\ Quantity(row)[i] = row.receipts[i].quantity
    BY RowFacts
  <2>3. row \in Line
    BY DEF Lined
  <2> QED BY <2>1, <2>2, <2>3
<1>2. Round(row.received - q) \in Nat /\ Whole(Round(row.received - q))
  <2>1. row.received - q \in Int /\ row.received - q >= 0
    BY <1>1
  <2> QED BY <2>1, Rounded
<1>3. /\ after.received = Round(row.received - q)
      /\ after.exists = row.exists /\ after.quantity = row.quantity
      /\ after.receipts = [row.receipts EXCEPT ![n].reversed = TRUE]
  BY <1>1 DEF Undoing, Line
<1>4. /\ after.receipts \in Seq(Receipt) /\ DOMAIN after.receipts = D
      /\ \A i \in D : after.receipts[i].quantity = row.receipts[i].quantity
      /\ \A i \in D : after.receipts[i].reversed <=> i = n \/ row.receipts[i].reversed
  <2> DEFINE old == row.receipts
             new == after.receipts
  <2>1. new = [old EXCEPT ![n] = [old[n] EXCEPT !.reversed = TRUE]]
    BY <1>3
  <2>2. /\ \A i \in D : old[i] \in Receipt
        /\ DOMAIN old = 1 .. Len(old)
    BY <1>1
  <2>3. /\ [old[n] EXCEPT !.reversed = TRUE] \in Receipt
        /\ [old[n] EXCEPT !.reversed = TRUE].quantity = old[n].quantity
        /\ [old[n] EXCEPT !.reversed = TRUE].reversed
    BY <2>2 DEF Receipt
  <2> DEFINE x == [old[n] EXCEPT !.reversed = TRUE]
  <2>4. old \in Seq(Receipt) /\ new = [old EXCEPT ![n] = x] /\ x \in Receipt /\ n \in DOMAIN old
        /\ x.quantity = old[n].quantity /\ x.reversed
    BY <1>1, <2>1, <2>3
  <2> HIDE DEF old, new, x
  <2>5. new \in Seq(Receipt) /\ DOMAIN new = DOMAIN old
    BY <2>4
  <2>6. \A i \in DOMAIN old : new[i] = IF i = n THEN x ELSE old[i]
    BY <2>4
  <2>7. \A i \in DOMAIN old :
           new[i].quantity = old[i].quantity /\ (new[i].reversed <=> i = n \/ old[i].reversed)
    <3> SUFFICES ASSUME NEW i \in DOMAIN old
                 PROVE  new[i].quantity = old[i].quantity /\ (new[i].reversed <=> i = n \/ old[i].reversed)
      OBVIOUS
    <3>1. CASE i = n
      BY <2>4, <2>6, <3>1
    <3>2. CASE i # n
      BY <2>6, <3>2
    <3> QED BY <3>1, <3>2
  <2> QED BY <2>5, <2>7 DEF old, new
<1>5. after \in Lined
  BY <1>1, <1>2, <1>3, <1>4 DEF Undoing, Lined, Line
<1> HIDE DEF after
<1>6. /\ Stands(after) = Stands(row) \ {n} /\ n \in Stands(row)
      /\ Uneven(after) = Uneven(row) /\ Quantity(after) = Quantity(row)
  BY <1>4 DEF Stands, Uneven, Quantity
<1>7. Stood(row) = q + Stood(after) /\ Stood(after) \in Int
  <2>1. /\ \A x \in Stands(row) : Quantity(row)[x] \in Int
        /\ Quantity(row)[n] = q
    BY <1>1 DEF Stands, Quantity
  <2>2. SumFunctionOnSet(Quantity(row), Stands(row))
           = Quantity(row)[n] + SumFunctionOnSet(Quantity(row), Stands(row) \ {n})
    BY <1>1, <1>6, <2>1, SumOfAny
  <2>3. Stood(after) \in Int
    BY <1>5, RowFacts
  <2> QED BY <1>6, <2>1, <2>2, <2>3 DEF Stood
<1>8. Whole(row.received) /\ Fair(row)
  BY DEF Lined
<1>9. CASE Whole(q)
  <2>1. after.received = row.received - q
    BY <1>1, <1>3, <1>8, <1>9, WholeSum, Rounded
  <2>2. Uneven(after) \ Stands(after) = Uneven(row) \ Stands(row)
    BY <1>6, <1>9 DEF Uneven
  <2>3. Slack(after) = Slack(row)
    BY <1>6, <2>2 DEF Slack
  <2>4. /\ after.received - Stood(after) = row.received - Stood(row)
        /\ Stood(after) - after.received = Stood(row) - row.received
    BY <1>1, <1>7, <2>1
  <2> QED BY <1>3, <1>4, <1>5, <1>8, <2>3, <2>4 DEF Fair, after
<1>10. CASE ~Whole(q)
  <2> DEFINE a == Cardinality(Uneven(row))
             b == Cardinality(Uneven(row) \ Stands(row))
             c == Cardinality(Uneven(after) \ Stands(after))
  <2>1. Uneven(after) \ Stands(after) = (Uneven(row) \ Stands(row)) \cup {n}
    BY <1>6, <1>10 DEF Uneven
  <2>2. a \in Nat /\ b \in Nat
    BY RowFacts
  <2>3. c = b + 1
    BY <1>1, <1>6, <2>1, FS_AddElement
  <2>4. Slack(row) = 6 * a + 5 * b /\ Slack(after) = 6 * a + 5 * c
    BY <1>6, Units DEF Slack
  <2>5. /\ Round(row.received - q) - (row.received - q) <= 5
        /\ (row.received - q) - Round(row.received - q) <= 5
    <3>1. row.received - q \in Int
      BY <1>1
    <3> QED BY <3>1, Rounded
  <2>6. \A r, t, u, v, w, x, y, z \in Int :
           /\ v - (r - t) <= 5 /\ (r - t) - v <= 5 /\ z = y + 1 /\ u = t + w
           /\ r - u <= 6 * x + 5 * y /\ u - r <= 6 * x + 5 * y
           => v - w <= 6 * x + 5 * z /\ w - v <= 6 * x + 5 * z
    OBVIOUS
  <2> HIDE DEF a, b, c, q
  <2>7. row.received - Stood(row) <= 6 * a + 5 * b /\ Stood(row) - row.received <= 6 * a + 5 * b
    BY <1>8, <2>4 DEF Fair
  <2>8. after.received - Stood(after) <= 6 * a + 5 * c /\ Stood(after) - after.received <= 6 * a + 5 * c
    <3> DEFINE r == row.received
               u == Stood(row)
               v == after.received
               w == Stood(after)
    <3>1. /\ r \in Int /\ q \in Int /\ u \in Int /\ v \in Int /\ w \in Int
          /\ a \in Int /\ b \in Int /\ c \in Int
      BY <1>1, <1>2, <1>3, <1>7, <2>2, <2>3
    <3>2. /\ v - (r - q) <= 5 /\ (r - q) - v <= 5 /\ c = b + 1 /\ u = q + w
          /\ r - u <= 6 * a + 5 * b /\ u - r <= 6 * a + 5 * b
      BY <1>3, <1>7, <2>3, <2>5, <2>7
    <3> HIDE DEF r, u, v, w
    <3>3. v - w <= 6 * a + 5 * c /\ w - v <= 6 * a + 5 * c
      BY <2>6, <3>1, <3>2
    <3> QED BY <3>3 DEF r, u, v, w
  <2>9. Fair(after)
    BY <2>4, <2>8 DEF Fair
  <2> QED BY <1>3, <1>4, <1>5, <2>9 DEF after
<1> QED BY <1>9, <1>10

-----------------------------------------------------------------------------
(* What a request does to the lines.                                       *)

GoodRow(row) == row \in Lined /\ Fair(row) /\ Absent(row)

\* No receipt of the row is forgotten and no reversal undone.
Keeps(row, after) ==
    \A i \in DOMAIN row.receipts :
        /\ i \in DOMAIN after.receipts
        /\ after.receipts[i].quantity = row.receipts[i].quantity
        /\ row.receipts[i].reversed => after.receipts[i].reversed

GoodRows(rows) == rows \in [Lines -> Lined] /\ \A l \in Lines : GoodRow(rows[l])
KeepsRows(rows, after) == \A l \in Lines : Keeps(rows[l], after[l])

LEMMA NoRowIsGood == GoodRow(NoRow) /\ NoRow.receipts = <<>> /\ NoRow.received = 0 /\ NoRow.quantity = 0
<1>1. NoRow \in Lined
  BY WholeSum DEF NoRow, Lined, Line
<1>2. NoRow.receipts = <<>> /\ NoRow.received = 0 /\ NoRow.quantity = 0
  BY DEF NoRow
<1> QED BY <1>1, <1>2, EmptyFair DEF GoodRow, Absent

LEMMA NewLineIsGood ==
    ASSUME NEW q \in Nat, Whole(q), NEW p \in BOOLEAN
    PROVE  /\ GoodRow(NewLine(q, p)) /\ NewLine(q, p).receipts = <<>> /\ NewLine(q, p).received = 0
           /\ NewLine(q, p).quantity = q /\ NewLine(q, p).exists
<1>1. NewLine(q, p) \in Lined
  BY WholeSum DEF NewLine, Lined, Line
<1>2. /\ NewLine(q, p).receipts = <<>> /\ NewLine(q, p).received = 0
      /\ NewLine(q, p).exists /\ NewLine(q, p).quantity = q
  BY DEF NewLine
<1> QED BY <1>1, <1>2, EmptyFair DEF GoodRow, Absent

\* The lines after a receipt. (process_delivery_receipt, receive_outstanding_order)
LEMMA ReceivedIsGood ==
    ASSUME NEW rows, GoodRows(rows), NEW of \in [Lines -> Parcel \cup {NoParcel}],
           Validated(rows, of)
    PROVE  GoodRows(Received(rows, of)) /\ KeepsRows(rows, Received(rows, of))
<1> DEFINE after == Received(rows, of)
<1>1. \A l \in Lines : after[l] = IF of[l] = NoParcel THEN rows[l] ELSE Taking(rows[l], of[l])
  BY DEF Received, Taking
<1>2. DOMAIN after = Lines /\ after = [l \in Lines |-> after[l]]
  BY DEF Received
<1> HIDE DEF after
<1>3. ASSUME NEW l \in Lines
      PROVE  GoodRow(after[l]) /\ Keeps(rows[l], after[l])
  <2>1. GoodRow(rows[l])
    BY DEF GoodRows
  <2>2. CASE of[l] = NoParcel
    BY <1>1, <2>1, <2>2 DEF Keeps
  <2>3. CASE of[l] # NoParcel
    <3> DEFINE row == rows[l]
               parcel == of[l]
               next == Taking(row, parcel)
    <3>1. row \in Lined /\ Fair(row) /\ parcel \in Parcel /\ Reconciles(parcel) /\ row.exists
      BY <2>1, <2>3 DEF GoodRow, Priced, Validated
    <3> HIDE DEF row, parcel
    <3>2. /\ next \in Lined /\ next.exists = row.exists /\ next.quantity = row.quantity
          /\ \A i \in DOMAIN row.receipts :
               i \in DOMAIN next.receipts /\ next.receipts[i] = row.receipts[i]
      BY <3>1, TakingFacts
    <3>3. Fair(next)
      BY <3>1, TakingIsFair
    <3> HIDE DEF next
    <3>4. GoodRow(next) /\ Keeps(row, next)
      BY <3>1, <3>2, <3>3 DEF GoodRow, Absent, Keeps
    <3> QED BY <1>1, <2>3, <3>4 DEF next, row, parcel
  <2> QED BY <2>2, <2>3
<1>4. GoodRows(after)
  BY <1>2, <1>3 DEF GoodRows, GoodRow
<1>5. KeepsRows(rows, after)
  BY <1>3 DEF KeepsRows
<1> QED BY <1>4, <1>5 DEF after

LEMMA AskedQuantity ==
    ASSUME NEW ask \in Patches
    PROVE  /\ ask.quantity \in Nat /\ Whole(ask.quantity) /\ ask.priced \in BOOLEAN
           /\ ask.drop \in Lines \cup {NoLine} /\ ask.edit \in Lines \cup {NoLine}
           /\ ask.status \in Statuses \cup {"unset"}
           /\ ask.edit # NoLine => ask.quantity > 0
<1>1. /\ ask.quantity \in Quantities \cup {0} /\ ask.priced \in BOOLEAN
      /\ ask.drop \in Lines \cup {NoLine} /\ ask.edit \in Lines \cup {NoLine}
      /\ ask.status \in Statuses \cup {"unset"}
      /\ ask.edit = NoLine <=> ask.quantity = 0
  BY DEF Patches
<1>2. \A q \in Quantities : q \in Nat /\ Whole(q)
  BY OrderAssumption DEF Whole
<1>3. ask.quantity \in Nat /\ Whole(ask.quantity)
  BY <1>1, <1>2, WholeSum
<1> QED BY <1>1, <1>3

\* The lines a request writes, before anything is received: a line is only deleted
\* while no receipt refers to it. (update_purchase_order, Deletable)
LEMMA EditedIsGood ==
    ASSUME GoodRows(lines), NEW ask \in Patches, ask.drop # NoLine => Deletable(ask.drop)
    PROVE  /\ GoodRows(Edited(ask)) /\ KeepsRows(lines, Edited(ask))
           /\ \A l \in Lines : Edited(ask)[l].receipts = lines[l].receipts
           /\ \A l \in Lines : \/ Edited(ask)[l].received = lines[l].received
                              \/ ~Edited(ask)[l].exists
<1> DEFINE after == Edited(ask)
<1>1. /\ ask.quantity \in Nat /\ Whole(ask.quantity) /\ ask.priced \in BOOLEAN
  BY AskedQuantity
<1>2. \A l \in Lines : after[l] = CASE l = ask.drop -> NoRow
                                  [] l = ask.edit /\ l # ask.drop ->
                                        IF lines[l].exists
                                        THEN [lines[l] EXCEPT !.quantity = ask.quantity, !.priced = ask.priced]
                                        ELSE NewLine(ask.quantity, ask.priced)
                                  [] OTHER -> lines[l]
  BY DEF Edited
<1>3. DOMAIN after = Lines /\ after = [l \in Lines |-> after[l]]
  BY DEF Edited
<1> HIDE DEF after
<1>4. ASSUME NEW l \in Lines
      PROVE  /\ GoodRow(after[l]) /\ after[l].receipts = lines[l].receipts
             /\ after[l].received = lines[l].received \/ ~after[l].exists
  <2>1. GoodRow(lines[l])
    BY DEF GoodRows
  <2>2. CASE l = ask.drop
    <3>1. l # NoLine
      BY OrderAssumption
    <3>2. lines[l].receipts = <<>>
      BY <2>2, <3>1 DEF Deletable
    <3>3. after[l] = NoRow
      BY <1>2, <2>2
    <3> QED BY <3>2, <3>3, NoRowIsGood DEF NoRow
  <2>3. CASE l = ask.edit /\ l # ask.drop /\ lines[l].exists
    <3> DEFINE row == lines[l]
               next == [row EXCEPT !.quantity = ask.quantity, !.priced = ask.priced]
    <3>1. after[l] = next
      BY <1>2, <2>3
    <3>2. row \in Lined /\ row \in Line /\ Fair(row) /\ row.exists
      BY <2>1, <2>3 DEF GoodRow, Lined
    <3> HIDE DEF row
    <3>3. /\ next.receipts = row.receipts /\ next.received = row.received /\ next.exists
          /\ next.quantity = ask.quantity /\ next \in Line
      BY <1>1, <3>2 DEF Line
    <3> HIDE DEF next
    <3>4. next \in Lined
      BY <1>1, <3>2, <3>3 DEF Lined
    <3>5. Fair(next)
      BY <3>2, <3>3, SameFair
    <3> QED BY <3>1, <3>3, <3>4, <3>5 DEF GoodRow, Absent, row
  <2>4. CASE l = ask.edit /\ l # ask.drop /\ ~lines[l].exists
    <3>1. after[l] = NewLine(ask.quantity, ask.priced)
      BY <1>2, <2>4
    <3>2. lines[l].receipts = <<>> /\ lines[l].received = 0
      BY <2>1, <2>4, NoRowIsGood DEF GoodRow, Absent
    <3> QED BY <1>1, <3>1, <3>2, NewLineIsGood
  <2>5. CASE l # ask.edit /\ l # ask.drop
    BY <1>2, <2>1, <2>5
  <2> QED BY <2>2, <2>3, <2>4, <2>5
<1>5. GoodRows(after)
  BY <1>3, <1>4 DEF GoodRows, GoodRow
<1>6. KeepsRows(lines, after)
  BY <1>4 DEF KeepsRows, Keeps
<1> QED BY <1>4, <1>5, <1>6 DEF after

\* What is outstanding of each line, in one part if there is anything.
LEMMA OutstandingType ==
    ASSUME NEW rows, GoodRows(rows)
    PROVE  Outstanding(rows) \in [Lines -> Parcel \cup {NoParcel}]
<1>1. \A l \in Lines : rows[l].quantity \in Nat /\ rows[l].received \in Nat
  BY RowFacts DEF GoodRows
<1>2. \A q \in Nat \ {0} : InOne(q) \in Parcel
  BY DEF InOne, Parcel
<1>3. \A l \in Lines : rows[l].quantity > rows[l].received =>
         rows[l].quantity - rows[l].received \in Nat \ {0}
  BY <1>1
<1> QED BY <1>2, <1>3 DEF Outstanding

\* The lines after a reversal. (reverse_allocation)
LEMMA ReversedIsGood ==
    ASSUME GoodRows(lines), NEW l \in Lines, NEW n \in DOMAIN lines[l].receipts,
           ~lines[l].receipts[n].reversed, lines[l].received >= lines[l].receipts[n].quantity,
           NEW after, after = [lines EXCEPT ![l] = Undoing(lines[l], n)]
    PROVE  GoodRows(after) /\ KeepsRows(lines, after)
<1> DEFINE next == Undoing(lines[l], n)
<1>1. GoodRow(lines[l]) /\ lines \in [Lines -> Lined]
  BY DEF GoodRows
<1>2. lines[l].exists
  BY <1>1, NoRowIsGood DEF GoodRow, Absent
<1>3. /\ next \in Lined /\ Fair(next) /\ next.exists = lines[l].exists
      /\ DOMAIN next.receipts = DOMAIN lines[l].receipts
      /\ \A i \in DOMAIN lines[l].receipts :
            /\ next.receipts[i].quantity = lines[l].receipts[i].quantity
            /\ lines[l].receipts[i].reversed => next.receipts[i].reversed
  BY <1>1, UndoingIsFair DEF GoodRow
<1> HIDE DEF next
<1>4. GoodRow(next) /\ Keeps(lines[l], next)
  BY <1>2, <1>3 DEF GoodRow, Absent, Keeps
<1>5. \A k \in Lines : after[k] = IF k = l THEN next ELSE lines[k]
  BY <1>1 DEF next
<1>6. \A k \in Lines : GoodRow(after[k]) /\ Keeps(lines[k], after[k])
  BY <1>4, <1>5 DEF GoodRows, Keeps
<1>7. after \in [Lines -> Lined]
  BY <1>1, <1>3 DEF next
<1> QED BY <1>6, <1>7 DEF GoodRows, KeepsRows

-----------------------------------------------------------------------------
(* The invariant.                                                          *)

Asks == Receipts \cup Patches \cup Reversals \cup {NoAsk}
Screen == [at : {"away", "reading", "reviewing", "retrying"}, version : 0 .. MaxVersion,
           seen : [Lines -> Line], ask : Asks, taken : 0 .. MaxVersion]

\* What a client knows of the order as it is: nothing while it reads, everything it
\* shows when its version is the order's, and what it sends again is of an order that
\* has been written since, by itself.
Known(c) ==
    /\ client[c].at = "reading" => client[c].version <= version
    /\ client[c].at = "reviewing" =>
         /\ client[c].version <= version
         /\ client[c].version = version => client[c].seen = lines
    /\ client[c].at = "retrying" => client[c].version < version
    /\ client[c].at # "retrying" => client[c].taken = 0

Inv ==
    /\ TypeOK
    /\ GoodRows(lines)
    /\ \A c \in Clients : Known(c)

LEMMA InvShape ==
    ASSUME Inv
    PROVE  /\ status \in Statuses /\ version \in 0 .. MaxVersion /\ lost \in 0 .. MaxLost
           /\ client \in [Clients -> Screen] /\ GoodRows(lines)
           /\ \A c \in Clients : Known(c)
BY DEF Inv, TypeOK, Screen, Asks

\* The invariant after a step, from its parts.
LEMMA InvMade ==
    ASSUME status' \in Statuses, version' \in 0 .. MaxVersion, lost' \in 0 .. MaxLost,
           client' \in [Clients -> Screen], GoodRows(lines'), \A c \in Clients : Known(c)'
    PROVE  Inv'
<1>1. lines' \in [Lines -> Lined] /\ \A l \in Lines : lines'[l] \in Lined
  BY DEF GoodRows
<1>2. lines' \in [Lines -> Line]
  BY <1>1 DEF Lined
<1>3. \A l \in Lines : lines'[l].quantity % Hundredth = 0 /\ lines'[l].received % Hundredth = 0
  BY <1>1 DEF Lined, Whole
<1>4. GoodRows(lines)'
  BY DEF GoodRows, GoodRow, Lined, Fair, Absent, Stood, Slack, Stands, Uneven, Quantity
<1> QED BY <1>2, <1>3, <1>4 DEF Inv, TypeOK, Screen, Asks

\* What every step does: the invariant holds after it, no receipt is forgotten, and who
\* changes the order was looking at it as it is.
Sound ==
    /\ Inv'
    /\ KeepsRows(lines, lines')
    /\ \A c \in Clients : Acts(c) => client[c].taken = 0 /\ client[c].seen = lines

LEMMA KeepsItself ==
    ASSUME NEW row
    PROVE  Keeps(row, row)
BY DEF Keeps

\* A step that leaves the order alone.
LEMMA OnlyClient ==
    ASSUME Inv, UNCHANGED <<order, lost>>, version' \in 0 .. MaxVersion, version <= version',
           client' \in [Clients -> Screen], \A c \in Clients : Known(c)'
    PROVE  Sound
<1>1. status' = status /\ lines' = lines /\ lost' = lost /\ order' = order
  BY DEF order
<1>2. Inv'
  BY <1>1, InvShape, InvMade
<1> QED BY <1>1, <1>2, KeepsItself DEF Sound, KeepsRows, Acts

LEMMA AwayType == Away \in Screen /\ Away.at = "away" /\ Away.taken = 0
<1>1. NoRow \in Line /\ 0 \in 0 .. MaxVersion
  BY OrderAssumption, NoRowIsGood DEF GoodRow, Lined
<1>2. NoAsk \in Asks
  BY DEF Asks
<1> HIDE DEF Asks
<1> QED BY <1>1, <1>2 DEF Away, Screen

\* The order is written by who sees it, and nobody else is current any more.
\* (require_current_etag, updated_at)
LEMMA WriteSound ==
    ASSUME Inv, NEW c \in Clients, Current(c), client[c].at \in {"reviewing", "retrying"},
           NEW ask \in Asks, NEW st \in Statuses, NEW rows, GoodRows(rows), KeepsRows(lines, rows),
           Writes(c, ask, st, rows)
    PROVE  Sound
<1>1. /\ status \in Statuses /\ version \in 0 .. MaxVersion /\ lost \in 0 .. MaxLost
      /\ client \in [Clients -> Screen] /\ MaxVersion \in Nat /\ MaxLost \in Nat
      /\ \A d \in Clients : Known(d)
  BY InvShape, OrderAssumption
<1>2. /\ status' = st /\ lines' = rows /\ version' = version + 1 /\ version' \in 0 .. MaxVersion
      /\ version \in Nat
  BY <1>1 DEF Writes
<1>3. client[c].at = "reviewing" /\ client[c].seen = lines /\ client[c].taken = 0
      /\ client[c].version = version
  BY <1>1, <1>2 DEF Known, Current
<1>4. CASE client' = [client EXCEPT ![c] = Away] /\ lost' = lost
  <2>1. client' \in [Clients -> Screen]
    BY <1>1, <1>4, AwayType
  <2>2. \A d \in Clients : client'[d] = IF d = c THEN Away ELSE client[d]
    BY <1>1, <1>4
  <2>3. \A d \in Clients : Known(d)'
    <3> SUFFICES ASSUME NEW d \in Clients PROVE Known(d)'
      OBVIOUS
    <3>1. client[d].version \in 0 .. MaxVersion /\ client[d].at \in {"away", "reading", "reviewing", "retrying"}
      BY <1>1 DEF Screen
    <3>2. CASE d = c
      BY <2>2, <3>2, AwayType DEF Known
    <3>3. CASE d # c
      BY <1>1, <1>2, <2>2, <3>1, <3>3 DEF Known
    <3> QED BY <3>2, <3>3
  <2>4. Inv'
    BY <1>1, <1>2, <1>4, <2>1, <2>3, InvMade
  <2>5. \A d \in Clients : Acts(d) => d = c
    BY <2>2 DEF Acts
  <2> QED BY <1>2, <1>3, <2>4, <2>5 DEF Sound
<1>5. CASE /\ lost < MaxLost /\ lost' = lost + 1
           /\ client' = [client EXCEPT ![c].at = "retrying", ![c].ask = ask, ![c].taken = @ + 1]
  <2> DEFINE next == [client[c] EXCEPT !.at = "retrying", !.ask = ask, !.taken = @ + 1]
  <2>1. next \in Screen /\ next.at = "retrying" /\ next.version = client[c].version
    <3>1. client[c] \in Screen /\ client[c].taken + 1 \in 0 .. MaxVersion
      BY <1>1, <1>2, <1>3
    <3> HIDE DEF Asks
    <3> QED BY <3>1 DEF Screen
  <2>2. client' = [client EXCEPT ![c] = next]
    BY <1>1, <1>5
  <2> HIDE DEF next
  <2>3. client' \in [Clients -> Screen]
    BY <1>1, <2>1, <2>2
  <2>4. \A d \in Clients : client'[d] = IF d = c THEN next ELSE client[d]
    BY <1>1, <2>2
  <2>5. \A d \in Clients : Known(d)'
    <3> SUFFICES ASSUME NEW d \in Clients PROVE Known(d)'
      OBVIOUS
    <3>1. client[d].version \in 0 .. MaxVersion /\ client[d].at \in {"away", "reading", "reviewing", "retrying"}
      BY <1>1 DEF Screen
    <3>2. CASE d = c
      BY <1>2, <1>3, <2>1, <2>4, <3>2 DEF Known
    <3>3. CASE d # c
      BY <1>1, <1>2, <2>4, <3>1, <3>3 DEF Known
    <3> QED BY <3>2, <3>3
  <2>6. lost' \in 0 .. MaxLost
    BY <1>1, <1>5
  <2>7. Inv'
    BY <1>1, <1>2, <2>3, <2>5, <2>6, InvMade
  <2>8. \A d \in Clients : Acts(d) => d = c
    BY <2>4 DEF Acts
  <2> QED BY <1>2, <1>3, <2>7, <2>8 DEF Sound
<1> QED BY <1>4, <1>5 DEF Writes

\* A refusal leaves the order alone and the client to read it again.
LEMMA RefuseSound ==
    ASSUME Inv, NEW c \in Clients, Refuses(c)
    PROVE  Sound
<1>1. version \in 0 .. MaxVersion /\ client \in [Clients -> Screen] /\ \A d \in Clients : Known(d)
  BY InvShape
<1>2. /\ client' = [client EXCEPT ![c] = Away] /\ version' = version
      /\ UNCHANGED <<order, lost>> /\ lines' = lines
  BY DEF Refuses, order
<1>3. client' \in [Clients -> Screen]
  BY <1>1, <1>2, AwayType
<1>4. \A d \in Clients : client'[d] = IF d = c THEN Away ELSE client[d]
  BY <1>1, <1>2
<1>5. \A d \in Clients : Known(d)'
  BY <1>1, <1>2, <1>4, AwayType DEF Known
<1>6. version' \in 0 .. MaxVersion /\ version <= version'
  BY <1>1, <1>2
<1> QED BY <1>2, <1>3, <1>5, <1>6, OnlyClient

-----------------------------------------------------------------------------
(* The handlers.                                                           *)

LEMMA InitInv == Init => Inv
<1> SUFFICES ASSUME Init PROVE Inv
  OBVIOUS
<1>1. \A q \in Quantities : q \in Nat /\ Whole(q)
  BY OrderAssumption DEF Whole
<1>2. \A l \in Lines : lines[l] = NoRow \/ \E q \in Quantities : lines[l] = NewLine(q, TRUE)
  BY DEF Init
<1>3. \A l \in Lines : GoodRow(lines[l])
  BY <1>1, <1>2, NoRowIsGood, NewLineIsGood
<1>4. DOMAIN lines = Lines /\ lines = [l \in Lines |-> lines[l]]
  BY DEF Init
<1>5. GoodRows(lines)
  BY <1>3, <1>4 DEF GoodRows, GoodRow
<1>6. lines \in [Lines -> Line] /\ \A l \in Lines : Whole(lines[l].quantity) /\ Whole(lines[l].received)
  BY <1>5 DEF GoodRows, Lined
<1>7. client \in [Clients -> Screen] /\ \A c \in Clients : client[c] = Away
  BY AwayType DEF Init
<1>8. \A c \in Clients : Known(c)
  BY <1>7, AwayType DEF Known
<1>9. status \in Statuses /\ version \in 0 .. MaxVersion /\ lost \in 0 .. MaxLost
  BY OrderAssumption DEF Init, Statuses
<1> QED BY <1>5, <1>6, <1>7, <1>8, <1>9 DEF Inv, TypeOK, Whole, Screen, Asks

LEMMA DerivedType ==
    ASSUME NEW rows, NEW before \in Statuses
    PROVE  Derived(rows, before) \in Statuses
BY DEF Derived, Statuses

\* What arrives comes from a screen, or was sent from one.
LEMMA ArrivesFacts ==
    ASSUME NEW c, NEW kinds, NEW offered, NEW ask \in Arrives(c, kinds, offered), offered \subseteq kinds
    PROVE  ask \in kinds /\ client[c].at \in {"reviewing", "retrying"}
BY DEF Arrives

LEMMA StaleSound ==
    ASSUME Inv, NEW c \in Clients, Stale(c)
    PROVE  Sound
BY RefuseSound DEF Stale

LEMMA DeliverSound ==
    ASSUME Inv, NEW c \in Clients, Deliver(c)
    PROVE  Sound
<1>1. PICK ask \in Arrives(c, Receipts, OfferedReceipts(client[c].seen)) :
         IF status \in Receiptable /\ Validated(lines, ask.of)
         THEN Writes(c, ask, Derived(Received(lines, ask.of), status), Received(lines, ask.of))
         ELSE Refuses(c)
  BY DEF Deliver
<1>2. ask \in Receipts /\ client[c].at \in {"reviewing", "retrying"}
  <2>1. OfferedReceipts(client[c].seen) \subseteq Receipts
    BY DEF OfferedReceipts
  <2> QED BY <2>1, ArrivesFacts
<1>3. ask \in Asks
  BY <1>2 DEF Asks
<1>4. CASE status \in Receiptable /\ Validated(lines, ask.of)
  <2>1. ask.of \in [Lines -> Parcel \cup {NoParcel}]
    <3>1. ask.of \in [Lines -> Parcels \cup {NoParcel}]
      BY <1>2 DEF Receipts
    <3> HIDE DEF Asks
    <3> QED BY <3>1, OrderAssumption
  <2> DEFINE rows == Received(lines, ask.of)
  <2>2. GoodRows(rows) /\ KeepsRows(lines, rows)
    BY <1>4, <2>1, InvShape, ReceivedIsGood
  <2>3. Derived(rows, status) \in Statuses
    BY InvShape, DerivedType
  <2>4. Writes(c, ask, Derived(rows, status), rows) /\ Current(c)
    BY <1>1, <1>4 DEF Deliver
  <2> HIDE DEF rows
  <2> QED BY <1>2, <1>3, <2>2, <2>3, <2>4, WriteSound
<1>5. CASE ~(status \in Receiptable /\ Validated(lines, ask.of))
  BY <1>1, <1>5, RefuseSound
<1> QED BY <1>4, <1>5

\* A PATCH that is accepted writes its edits; and what it receives on top of them is
\* exactly what is outstanding of each line.
LEMMA PatchedLines ==
    ASSUME Inv, NEW c \in Clients, NEW ask \in Patches, Patched(c, ask)
    PROVE  LET rows == Edited(ask)
               due == IF ask.status = "fully_received" THEN Outstanding(rows) ELSE Nothing
               after == Received(rows, due)
           IN  \/ Refuses(c)
               \/ /\ GoodRows(rows) /\ KeepsRows(lines, rows)
                  /\ \A l \in Lines : rows[l].receipts = lines[l].receipts
                  /\ \A l \in Lines : rows[l].received = lines[l].received \/ ~rows[l].exists
                  /\ \/ /\ due = Outstanding(rows) /\ Validated(rows, due)
                        /\ \E st \in Statuses : Writes(c, ask, st, after)
                     \/ \E st \in Statuses : Writes(c, ask, st, rows)
<1> DEFINE rows == Edited(ask)
           due == IF ask.status = "fully_received" THEN Outstanding(rows) ELSE Nothing
           after == Received(rows, due)
           asked == IF ask.status = "unset" THEN status ELSE ask.status
           fine == /\ ask.drop # NoLine => Deletable(ask.drop)
                   /\ ask.edit # NoLine => ask.edit # ask.drop /\ Orderable(ask.edit, ask.quantity)
                   /\ Validated(rows, due)
<1> SUFFICES \/ Refuses(c)
             \/ /\ GoodRows(rows) /\ KeepsRows(lines, rows)
                /\ \A l \in Lines : rows[l].receipts = lines[l].receipts
                /\ \A l \in Lines : rows[l].received = lines[l].received \/ ~rows[l].exists
                /\ \/ /\ due = Outstanding(rows) /\ Validated(rows, due)
                      /\ \E st \in Statuses : Writes(c, ask, st, after)
                   \/ \E st \in Statuses : Writes(c, ask, st, rows)
  OBVIOUS
<1>1. CASE ~fine
  BY <1>1 DEF Patched
<1>2. CASE fine
  <2>1. /\ GoodRows(rows) /\ KeepsRows(lines, rows)
        /\ \A l \in Lines : rows[l].receipts = lines[l].receipts
        /\ \A l \in Lines : rows[l].received = lines[l].received \/ ~rows[l].exists
    BY <1>2, InvShape, EditedIsGood
  <2>2. asked \in Statuses
    BY InvShape, AskedQuantity
  <2>3. Derived(after, asked) \in Statuses /\ Derived(rows, asked) \in Statuses
    BY <2>2, DerivedType
  <2>4. CASE due # Nothing
    <3>1. Writes(c, ask, Derived(after, asked), after)
      BY <1>2, <2>4 DEF Patched
    <3>2. due = Outstanding(rows)
      BY <2>4
    <3> HIDE DEF rows, due, after, asked
    <3> QED BY <1>2, <2>1, <2>3, <3>1, <3>2
  <2>5. CASE due = Nothing
    <3>1. \/ Writes(c, ask, Derived(rows, asked), rows)
          \/ Writes(c, ask, asked, rows)
      BY <1>2, <2>5 DEF Patched
    <3> HIDE DEF rows, due, after, asked
    <3> QED BY <2>1, <2>2, <2>3, <3>1
  <2> QED BY <2>4, <2>5
<1> QED BY <1>1, <1>2

LEMMA KeepsOnward ==
    ASSUME NEW a, NEW b, NEW d, KeepsRows(a, b), KeepsRows(b, d)
    PROVE  KeepsRows(a, d)
BY DEF KeepsRows, Keeps

LEMMA PatchSound ==
    ASSUME Inv, NEW c \in Clients, Patch(c)
    PROVE  Sound
<1>1. PICK ask \in Arrives(c, Patches, OfferedPatches(client[c].seen)) : Patched(c, ask)
  BY DEF Patch
<1>2. ask \in Patches /\ client[c].at \in {"reviewing", "retrying"} /\ Current(c)
  BY ArrivesFacts DEF OfferedPatches, Patch
<1>3. ask \in Asks
  BY <1>2 DEF Asks
<1> DEFINE rows == Edited(ask)
           due == IF ask.status = "fully_received" THEN Outstanding(rows) ELSE Nothing
           after == Received(rows, due)
<1>4. CASE Refuses(c)
  BY <1>4, RefuseSound
<1>5. CASE /\ GoodRows(rows) /\ KeepsRows(lines, rows)
           /\ \E st \in Statuses : Writes(c, ask, st, rows)
  <2>1. PICK st \in Statuses : Writes(c, ask, st, rows)
    BY <1>5
  <2> HIDE DEF rows
  <2> QED BY <1>2, <1>3, <1>5, <2>1, WriteSound
<1>6. CASE /\ GoodRows(rows) /\ KeepsRows(lines, rows)
           /\ due = Outstanding(rows) /\ Validated(rows, due)
           /\ \E st \in Statuses : Writes(c, ask, st, after)
  <2> HIDE DEF rows
  <2>1. due \in [Lines -> Parcel \cup {NoParcel}]
    BY <1>6, OutstandingType
  <2> HIDE DEF due
  <2>2. GoodRows(after) /\ KeepsRows(rows, after)
    BY <1>6, <2>1, ReceivedIsGood
  <2>3. KeepsRows(lines, after)
    BY <1>6, <2>2, KeepsOnward
  <2>4. PICK st \in Statuses : Writes(c, ask, st, after)
    BY <1>6
  <2> HIDE DEF after
  <2> QED BY <1>2, <1>3, <2>2, <2>3, <2>4, WriteSound
<1>7. \/ Refuses(c)
      \/ /\ GoodRows(rows) /\ KeepsRows(lines, rows)
         /\ \/ /\ due = Outstanding(rows) /\ Validated(rows, due)
               /\ \E st \in Statuses : Writes(c, ask, st, after)
            \/ \E st \in Statuses : Writes(c, ask, st, rows)
  BY <1>1, <1>2, PatchedLines
<1> HIDE DEF rows, due, after
<1> QED BY <1>4, <1>5, <1>6, <1>7

LEMMA ReverseSound ==
    ASSUME Inv, NEW c \in Clients, Reverse(c)
    PROVE  Sound
<1>1. PICK ask \in Arrives(c, Reversals, OfferedReversals(client[c].seen)) :
         LET l == ask.line
             quantity == lines[l].receipts[ask.n].quantity
             rows == [lines EXCEPT ![l].received = Round(@ - quantity),
                                   ![l].receipts[ask.n].reversed = TRUE]
         IN IF ~lines[l].receipts[ask.n].reversed /\ lines[l].received >= quantity
            THEN Writes(c, ask, Derived(rows, status), rows)
            ELSE Refuses(c)
  BY DEF Reverse
<1>2. ask \in Reversals /\ client[c].at \in {"reviewing", "retrying"} /\ Current(c)
  <2>1. OfferedReversals(client[c].seen) \subseteq Reversals
    BY DEF OfferedReversals
  <2>2. ask \in Reversals /\ client[c].at \in {"reviewing", "retrying"}
    BY <2>1, ArrivesFacts
  <2> QED BY <2>2 DEF Reverse
<1>3. ask \in Asks /\ ask.line \in Lines
  BY <1>2 DEF Asks, Reversals
<1> DEFINE l == ask.line
           n == ask.n
           rows == [lines EXCEPT ![l].received = Round(@ - lines[l].receipts[n].quantity),
                                 ![l].receipts[n].reversed = TRUE]
<1>4. CASE Refuses(c)
  BY <1>4, RefuseSound
<1>5. CASE /\ ~lines[l].receipts[n].reversed /\ lines[l].received >= lines[l].receipts[n].quantity
           /\ Writes(c, ask, Derived(rows, status), rows)
  <2>1. GoodRows(lines) /\ status \in Statuses /\ version \in Nat /\ Known(c)
    BY InvShape
  <2>2. client[c].at = "reviewing" /\ client[c].seen = lines
    BY <1>2, <2>1 DEF Known, Current
  <2>3. n \in DOMAIN lines[l].receipts
    BY <2>2 DEF Arrives, OfferedReversals
  <2>4. rows = [lines EXCEPT ![l] = Undoing(lines[l], n)]
    BY <1>3, <2>1 DEF Undoing, GoodRows
  <2>5. Derived(rows, status) \in Statuses
    BY <2>1, DerivedType
  <2> HIDE DEF rows
  <2>6. GoodRows(rows) /\ KeepsRows(lines, rows)
    BY <1>3, <1>5, <2>1, <2>3, <2>4, ReversedIsGood
  <2> QED BY <1>2, <1>3, <1>5, <2>5, <2>6, WriteSound
<1> QED BY <1>1, <1>4, <1>5

LEMMA TouchedSound ==
    ASSUME Inv, Touched
    PROVE  Sound
<1>1. /\ version \in 0 .. MaxVersion /\ client \in [Clients -> Screen] /\ \A c \in Clients : Known(c)
      /\ MaxVersion \in Nat
  BY InvShape, OrderAssumption
<1>2. /\ version' = version + 1 /\ version' \in 0 .. MaxVersion /\ client' = client
      /\ UNCHANGED <<order, lost>>
  BY <1>1 DEF Touched
<1>3. \A c \in Clients : client[c].version \in 0 .. MaxVersion
  BY <1>1 DEF Screen
<1>4. \A c \in Clients : Known(c)'
  BY <1>1, <1>2, <1>3 DEF Known
<1> QED BY <1>1, <1>2, <1>4, OnlyClient

LEMMA ReadOrderSound ==
    ASSUME Inv, NEW c \in Clients, ReadOrder(c)
    PROVE  Sound
<1>1. version \in 0 .. MaxVersion /\ client \in [Clients -> Screen] /\ \A d \in Clients : Known(d)
  BY InvShape
<1> DEFINE next == [client[c] EXCEPT !.at = "reading", !.version = version]
<1>2. /\ client' = [client EXCEPT ![c] = next] /\ version' = version /\ UNCHANGED <<order, lost>>
      /\ lines' = lines /\ client[c].at = "away"
  BY <1>1 DEF ReadOrder, order
<1>3. next \in Screen /\ next.at = "reading" /\ next.version = version /\ next.taken = client[c].taken
  <2>1. client[c] \in Screen
    BY <1>1
  <2> QED BY <1>1, <2>1 DEF Screen
<1> HIDE DEF next
<1>4. client' \in [Clients -> Screen]
  BY <1>1, <1>2, <1>3
<1>5. \A d \in Clients : client'[d] = IF d = c THEN next ELSE client[d]
  BY <1>1, <1>2
<1>6. \A d \in Clients : Known(d)'
  BY <1>1, <1>2, <1>3, <1>5 DEF Known
<1> QED BY <1>1, <1>2, <1>4, <1>6, OnlyClient

LEMMA ReadLinesSound ==
    ASSUME Inv, NEW c \in Clients, ReadLines(c)
    PROVE  Sound
<1>1. /\ version \in 0 .. MaxVersion /\ client \in [Clients -> Screen] /\ \A d \in Clients : Known(d)
      /\ lines \in [Lines -> Line]
  BY InvShape DEF Inv, TypeOK
<1> DEFINE next == [client[c] EXCEPT !.at = "reviewing", !.seen = lines]
<1>2. /\ client' = [client EXCEPT ![c] = next] /\ version' = version /\ UNCHANGED <<order, lost>>
      /\ lines' = lines /\ client[c].at = "reading"
  BY <1>1 DEF ReadLines, order
<1>3. /\ next \in Screen /\ next.at = "reviewing" /\ next.version = client[c].version
      /\ next.seen = lines /\ next.taken = client[c].taken
  <2>1. client[c] \in Screen
    BY <1>1
  <2> QED BY <1>1, <2>1 DEF Screen
<1> HIDE DEF next
<1>4. client' \in [Clients -> Screen]
  BY <1>1, <1>2, <1>3
<1>5. \A d \in Clients : client'[d] = IF d = c THEN next ELSE client[d]
  BY <1>1, <1>2
<1>6. \A d \in Clients : Known(d)'
  BY <1>1, <1>2, <1>3, <1>5 DEF Known
<1> QED BY <1>1, <1>2, <1>4, <1>6, OnlyClient

LEMMA StepSound ==
    ASSUME Inv, [Next]_vars
    PROVE  Sound
<1>1. CASE UNCHANGED vars
  <2>1. /\ version' = version /\ client' = client /\ UNCHANGED <<order, lost>> /\ lines' = lines
        /\ version \in 0 .. MaxVersion /\ client \in [Clients -> Screen] /\ \A c \in Clients : Known(c)
    BY <1>1, InvShape DEF vars, order
  <2>2. version' \in 0 .. MaxVersion /\ version <= version' /\ client' \in [Clients -> Screen]
    BY <2>1
  <2>3. \A c \in Clients : Known(c)'
    BY <2>1 DEF Known
  <2> QED BY <2>1, <2>2, <2>3, OnlyClient
<1>2. ASSUME NEW c \in Clients, ReadOrder(c) PROVE Sound
  BY <1>2, ReadOrderSound
<1>3. ASSUME NEW c \in Clients, ReadLines(c) PROVE Sound
  BY <1>3, ReadLinesSound
<1>4. ASSUME NEW c \in Clients, Stale(c) PROVE Sound
  BY <1>4, StaleSound
<1>5. ASSUME NEW c \in Clients, Deliver(c) PROVE Sound
  BY <1>5, DeliverSound
<1>6. ASSUME NEW c \in Clients, Patch(c) PROVE Sound
  BY <1>6, PatchSound
<1>7. ASSUME NEW c \in Clients, Reverse(c) PROVE Sound
  BY <1>7, ReverseSound
<1>8. CASE Touched
  BY <1>8, TouchedSound
<1> QED BY <1>1, <1>2, <1>3, <1>4, <1>5, <1>6, <1>7, <1>8 DEF Next, Handles

-----------------------------------------------------------------------------
(* Results.                                                                *)

\* For every value of the constants: the inductive invariant behind the results below.
THEOREM Invariance == Spec => []Inv
<1>1. Inv /\ [Next]_vars => Inv'
  BY StepSound DEF Sound
<1> QED
  BY InitInv, <1>1, PTL DEF Spec

\* Rows, screens and requests keep their shape, and a line's columns hold whole
\* hundredths, whatever is received, edited and reversed.
THEOREM TypeCorrect == Spec => []TypeOK
<1>1. Inv => TypeOK
  BY DEF Inv
<1> QED
  BY Invariance, <1>1, PTL

\* What a line shows as received is what stands of its receipts, exactly if they are
\* whole and else but for the rounding of each. (received_quantity, numeric(10, 2))
THEOREM ReceivedStands == Spec => []ReceivedIsWhatStands
<1>1. Inv => ReceivedIsWhatStands
  <2> SUFFICES ASSUME Inv, NEW l \in Lines
               PROVE  LET slack == (Hundredth \div 2 + Tolerance) * Cardinality(Broken(l))
                                        + (Hundredth \div 2) * Cardinality(Broken(l) \ Standing(l))
                          off == lines[l].received - Sum(l, Standing(l))
                      IN off <= slack /\ -off <= slack
    BY DEF ReceivedIsWhatStands
  <2>1. lines[l] \in Lined /\ Fair(lines[l])
    BY DEF Inv, GoodRows, GoodRow
  <2>2. Broken(l) = Uneven(lines[l]) /\ Standing(l) = Stands(lines[l])
    BY DEF Broken, Uneven, Standing, Stands, Whole
  <2>3. Sum(l, Standing(l)) = Stood(lines[l])
    BY <2>2 DEF Sum, Stood, Quantity, SumFunctionOnSet
  <2>4. lines[l].received \in Int /\ Stood(lines[l]) \in Int
    <3>1. \A row \in Lined : row.received \in Nat /\ Stood(row) \in Int
      BY RowFacts
    <3> QED BY <2>1, <3>1
  <2>5. -(lines[l].received - Stood(lines[l])) = Stood(lines[l]) - lines[l].received
    BY <2>4
  <2> QED BY <2>1, <2>2, <2>3, <2>5 DEF Fair, Slack
<1> QED
  BY Invariance, <1>1, PTL

\* A request changes an order that is, line by line, the one its author was looking at,
\* and one that is sent again changes nothing. (require_current_etag)
THEOREM AcceptedOnlyAsSeen == Spec => AcceptedAsSeen
<1>1. Inv /\ [Next]_vars => \A c \in Clients : Acts(c) => client[c].taken = 0 /\ client[c].seen = lines
  BY StepSound DEF Sound
<1> QED
  BY Invariance, <1>1, PTL DEF Spec, AcceptedAsSeen

\* A receipt is never forgotten, whatever is done to its line and its order, and a
\* reversal is never undone. (Deletable)
THEOREM ReceiptsStay == Spec => ReceiptsAreKept
<1> DEFINE kept ==
      \A l \in Lines : \A i \in DOMAIN lines[l].receipts :
          /\ i \in DOMAIN lines'[l].receipts
          /\ lines'[l].receipts[i].quantity = lines[l].receipts[i].quantity
          /\ lines[l].receipts[i].reversed => lines'[l].receipts[i].reversed
<1>1. Inv /\ [Next]_vars => kept
  BY StepSound DEF Sound, KeepsRows, Keeps
<1> QED
  BY Invariance, <1>1, PTL DEF Spec, ReceiptsAreKept

\* Receiving all that is outstanding fills each line up to what is ordered of it.
LEMMA FilledExactly ==
    ASSUME NEW rows, GoodRows(rows), Validated(rows, Outstanding(rows)), NEW l \in Lines
    PROVE  LET after == Received(rows, Outstanding(rows))
           IN  /\ after[l].exists = rows[l].exists
               /\ after[l].received >= after[l].quantity
               /\ after[l].received = rows[l].received \/ after[l].received = after[l].quantity
<1> DEFINE due == Outstanding(rows)
           after == Received(rows, due)
<1>1. /\ rows[l].quantity \in Nat /\ Whole(rows[l].quantity) /\ rows[l].received \in Nat
      /\ rows[l] \in Line
  <2>1. rows[l] \in Lined
    BY DEF GoodRows
  <2>2. \A row \in Lined : row.received \in Nat /\ row.quantity \in Nat
    BY RowFacts
  <2> QED BY <2>1, <2>2 DEF Lined
<1>2. due[l] = IF rows[l].quantity > rows[l].received
               THEN InOne(rows[l].quantity - rows[l].received) ELSE NoParcel
  BY DEF Outstanding
<1>3. after[l] = IF due[l] = NoParcel THEN rows[l] ELSE Taking(rows[l], due[l])
  BY DEF Received, Taking
<1>4. CASE rows[l].quantity > rows[l].received
  <2> DEFINE q == rows[l].quantity - rows[l].received
  <2>1. q \in Nat \ {0} /\ rows[l].received + q = rows[l].quantity
    BY <1>1, <1>4
  <2> HIDE DEF q
  <2>2. due[l] = InOne(q) /\ due[l] # NoParcel
    <3>1. InOne(q) \in Parcel
      BY <2>1 DEF InOne, Parcel
    <3> QED BY <1>2, <1>4, <3>1, OrderAssumption DEF q
  <2> HIDE DEF due
  <2>3. due[l].total = q
    BY <2>2 DEF InOne
  <2>4. after[l] = Taking(rows[l], due[l])
    BY <1>3, <2>2
  <2>5. /\ after[l].received = Round(rows[l].quantity)
        /\ after[l].quantity = rows[l].quantity /\ after[l].exists = rows[l].exists
    BY <1>1, <2>1, <2>3, <2>4 DEF Taking, Line
  <2>6. Round(rows[l].quantity) = rows[l].quantity
    BY <1>1, Rounded
  <2> QED BY <1>1, <2>5, <2>6 DEF due
<1>5. CASE ~(rows[l].quantity > rows[l].received)
  <2>1. after[l] = rows[l]
    BY <1>2, <1>3, <1>5
  <2> QED BY <1>1, <1>5, <2>1
<1> QED BY <1>4, <1>5

Exact ==
    \A c \in Clients :
        (\E l \in Lines : lines'[l].receipts # lines[l].receipts) /\ Patch(c) =>
            \A l \in Written(lines') :
                /\ lines'[l].received >= lines'[l].quantity
                /\ lines'[l].received # lines[l].received => lines'[l].received = lines'[l].quantity

LEMMA PatchExact ==
    ASSUME Inv
    PROVE  Exact
<1> SUFFICES ASSUME NEW c \in Clients, NEW k \in Lines, lines'[k].receipts # lines[k].receipts, Patch(c),
                    NEW l \in Written(lines')
             PROVE  /\ lines'[l].received >= lines'[l].quantity
                    /\ lines'[l].received # lines[l].received => lines'[l].received = lines'[l].quantity
  BY DEF Exact
<1>1. PICK ask \in Arrives(c, Patches, OfferedPatches(client[c].seen)) : Patched(c, ask)
  BY DEF Patch
<1>2. ask \in Patches
  BY ArrivesFacts DEF OfferedPatches
<1> DEFINE rows == Edited(ask)
           due == IF ask.status = "fully_received" THEN Outstanding(rows) ELSE Nothing
           after == Received(rows, due)
<1>3. /\ GoodRows(rows)
      /\ \A x \in Lines : rows[x].receipts = lines[x].receipts
      /\ \A x \in Lines : rows[x].received = lines[x].received \/ ~rows[x].exists
      /\ \/ due = Outstanding(rows) /\ Validated(rows, due) /\ lines' = after
         \/ lines' = rows
  <2>1. ~Refuses(c)
    BY DEF Refuses, order
  <2>2. /\ (\E st \in Statuses : Writes(c, ask, st, after)) => lines' = after
        /\ (\E st \in Statuses : Writes(c, ask, st, rows)) => lines' = rows
    BY DEF Writes
  <2>3. \/ Refuses(c)
        \/ /\ GoodRows(rows)
           /\ \A x \in Lines : rows[x].receipts = lines[x].receipts
           /\ \A x \in Lines : rows[x].received = lines[x].received \/ ~rows[x].exists
           /\ \/ /\ due = Outstanding(rows) /\ Validated(rows, due)
                 /\ \E st \in Statuses : Writes(c, ask, st, after)
              \/ \E st \in Statuses : Writes(c, ask, st, rows)
    BY <1>1, <1>2, PatchedLines
  <2> QED BY <2>1, <2>2, <2>3
<1> HIDE DEF rows
<1>4. Validated(rows, Outstanding(rows)) /\ lines' = Received(rows, Outstanding(rows))
  BY <1>3 DEF after
<1>5. l \in Lines /\ lines'[l].exists
  BY DEF Written
<1>6. /\ lines'[l].exists = rows[l].exists
      /\ lines'[l].received >= lines'[l].quantity
      /\ lines'[l].received = rows[l].received \/ lines'[l].received = lines'[l].quantity
  BY <1>3, <1>4, <1>5, FilledExactly
<1> QED BY <1>3, <1>5, <1>6

\* An edit that receives leaves no line short of what is now ordered of it, and takes no
\* line beyond that. (receive_outstanding_order)
THEOREM CompletedExactly == Spec => CompletesExactly
<1>1. Inv /\ [Next]_vars => Exact
  BY PatchExact
<1> QED
  BY Invariance, <1>1, PTL DEF Spec, CompletesExactly, Exact

-----------------------------------------------------------------------------
(* The orders' copies in Xero: AccountingMirror.                           *)

-----------------------------------------------------------------------------
(* Sequences of orders.                                                    *)

\* f is the selection from the first i members, for each i up to n.
Selects(f, seq, S, n) ==
    f = [i \in 0 .. n |->
            IF i = 0 THEN <<>>
            ELSE IF seq[i] \in S THEN Append(f[i - 1], seq[i]) ELSE f[i - 1]]

\* The selection, as the choice of the function that makes it.
LEMMA OnlyIs ==
    ASSUME NEW seq, NEW S
    PROVE  Only(seq, S) = (CHOOSE f : Selects(f, seq, S, Len(seq)))[Len(seq)]
BY DEF Only, Selects

\* A selection has members of the sequence only, and of the set.
LEMMA OnlyType ==
    ASSUME NEW A, NEW seq \in Seq(A), NEW S
    PROVE  Only(seq, S) \in Seq(A \cap S)
<1> DEFINE n == Len(seq)
           M == {k \in Nat : k <= n /\ ~\E f : Selects(f, seq, S, k)}
<1>0. n \in Nat
  OBVIOUS
<1>1. M = {}
  <2> SUFFICES ASSUME M # {} PROVE FALSE
    OBVIOUS
  <2>1. PICK k \in M : \A j \in M : k <= j
    <3>1. M \subseteq Nat
      OBVIOUS
    <3> HIDE DEF M
    <3> QED BY <3>1, Smallest
  <2>2. k \in Nat /\ k <= n /\ ~\E f : Selects(f, seq, S, k)
    OBVIOUS
  <2>3. k # 0
    <3> DEFINE g == [i \in 0 .. 0 |-> <<>>]
    <3>1. Selects(g, seq, S, 0)
      BY DEF Selects
    <3> QED BY <2>2, <3>1
  <2>4. k - 1 \in Nat /\ k - 1 <= n /\ k - 1 \notin M
    <3> HIDE DEF M
    <3> QED BY <1>0, <2>1, <2>2, <2>3
  <2>5. PICK f : Selects(f, seq, S, k - 1)
    BY <2>4
  <2> DEFINE last == IF seq[k] \in S THEN Append(f[k - 1], seq[k]) ELSE f[k - 1]
             g == [i \in 0 .. k |-> IF i = k THEN last ELSE f[i]]
  <2>6. \A i \in 0 .. k - 1 :
           f[i] = IF i = 0 THEN <<>>
                  ELSE IF seq[i] \in S THEN Append(f[i - 1], seq[i]) ELSE f[i - 1]
    BY <2>5 DEF Selects
  <2>7. \A i \in 0 .. k :
           g[i] = IF i = 0 THEN <<>>
                  ELSE IF seq[i] \in S THEN Append(g[i - 1], seq[i]) ELSE g[i - 1]
    <3> SUFFICES ASSUME NEW i \in 0 .. k
                 PROVE  g[i] = IF i = 0 THEN <<>>
                               ELSE IF seq[i] \in S THEN Append(g[i - 1], seq[i]) ELSE g[i - 1]
      OBVIOUS
    <3>1. CASE i = k
      <4>1. g[i] = last /\ g[i - 1] = f[k - 1]
        BY <2>2, <2>3, <3>1
      <4> QED BY <2>3, <3>1, <4>1
    <3>2. CASE i # k
      <4>1. i \in 0 .. k - 1 /\ g[i] = f[i] /\ (i # 0 => g[i - 1] = f[i - 1])
        BY <2>2, <3>2
      <4> HIDE DEF g
      <4> QED BY <2>6, <4>1
    <3> QED BY <3>1, <3>2
  <2>8. Selects(g, seq, S, k)
    <3>1. g = [i \in 0 .. k |-> g[i]]
      OBVIOUS
    <3> HIDE DEF g
    <3> QED BY <2>7, <3>1 DEF Selects
  <2> QED BY <2>2, <2>8
<1>2. PICK f : f = (CHOOSE g : Selects(g, seq, S, n)) /\ Selects(f, seq, S, n)
  <2>1. \E g : Selects(g, seq, S, n)
    BY <1>0, <1>1
  <2> QED BY <2>1
<1>3. \A i \in 0 .. n :
         f[i] = IF i = 0 THEN <<>>
                ELSE IF seq[i] \in S THEN Append(f[i - 1], seq[i]) ELSE f[i - 1]
  BY <1>2 DEF Selects
<1> DEFINE B == {k \in Nat : k <= n /\ f[k] \notin Seq(A \cap S)}
<1>4. B = {}
  <2> SUFFICES ASSUME B # {} PROVE FALSE
    OBVIOUS
  <2>1. PICK k \in B : \A j \in B : k <= j
    <3>1. B \subseteq Nat
      OBVIOUS
    <3> HIDE DEF B
    <3> QED BY <3>1, Smallest
  <2>2. k \in Nat /\ k <= n /\ f[k] \notin Seq(A \cap S) /\ k \in 0 .. n
    BY <1>0
  <2>3. f[k] = IF k = 0 THEN <<>>
               ELSE IF seq[k] \in S THEN Append(f[k - 1], seq[k]) ELSE f[k - 1]
    BY <1>3, <2>2
  <2>4. k # 0
    BY <2>2, <2>3
  <2>5. k - 1 \in Nat /\ k - 1 <= n /\ k - 1 \notin B
    <3> HIDE DEF B
    <3> QED BY <1>0, <2>1, <2>2, <2>4
  <2>6. f[k - 1] \in Seq(A \cap S) /\ seq[k] \in A
    BY <2>2, <2>4, <2>5
  <2>7. CASE seq[k] \in S
    BY <2>2, <2>3, <2>4, <2>6, <2>7
  <2>8. CASE seq[k] \notin S
    BY <2>2, <2>3, <2>4, <2>6, <2>8
  <2> QED BY <2>7, <2>8
<1>5. f[n] \in Seq(A \cap S)
  BY <1>0, <1>4
<1> QED BY <1>2, <1>5, OnlyIs

-----------------------------------------------------------------------------
(* Shapes.                                                                 *)

Shape ==
    /\ po \in [Orders -> Row]
    /\ xero \in [Orders -> XeroCopies]
    /\ oldest \in Seq(Orders)
    /\ batch \in Seq(Ours)
    /\ call \in [Agents -> Call \cup {Idle}]
    /\ left \in [{"changes", "faults", "manual", "crashes"} -> Nat]
    /\ left.manual <= MaxManual /\ left.crashes <= MaxCrashes
    /\ call["stage"] # Idle => batch # <<>>

\* The agents that hold a row across their call, and the order an agent's call is about.
Holders == {"operator", "stage"}

Busy(a, o) == call[a] # Idle /\ call[a].order = o

\* What an agent that holds a row knows of it: the row it will commit owes the call
\* it is making; one that calls twice had owed one before; and the stage took
\* the row as it stands.
Holds(a) ==
    call[a] # Idle =>
        /\ call[a].order \in Ours /\ ~call[a].void
        /\ call[a].row.owed
        /\ call[a].sends = 2 => po[call[a].order].owed /\ call[a].spent = 1
        /\ a = "stage" => /\ po[call[a].order].owed
                          /\ po[call[a].order].status = call[a].row.status

OneHolder == \A o \in Orders : ~(Busy("operator", o) /\ Busy("stage", o))

MirrorInv ==
    /\ Shape
    /\ \A a \in Holders : Holds(a)
    /\ OneHolder

\* What Xero was told under the lock stands in Xero until it is acknowledged.
Told(a) ==
    call[a] # Idle /\ call[a].at = "applied" =>
        xero[call[a].order] = XeroStatus[call[a].row.status]

\* A call Xero has not applied yet can fail and leave what was agreed before.
Untold(a) ==
    call[a] # Idle /\ call[a].at = "calling" =>
        \/ po[call[a].order].owed
        \/ call[a].sends = 1 /\ Agreed(call[a].order)

Settled(o) == po[o].owed \/ Agreed(o) \/ \E a \in Holders : Busy(a, o)

\* While the manual endpoints are not used; and while also nobody has died.
Kept ==
    /\ NoManual => /\ call["manual"] = Idle
                   /\ \A a \in Holders : Told(a)
    /\ NoManual /\ NoCrash => /\ \A a \in Holders : Untold(a)
                              /\ \A o \in Ours : Settled(o)

\* What is assumed of the constants.
LEMMA Constants ==
    /\ Ours \subseteq Orders /\ Cardinality(Orders) \in Nat
    /\ MaxChanges \in Nat /\ MaxFaults \in Nat /\ MaxManual \in Nat /\ MaxCrashes \in Nat
    /\ Agents = {"operator", "stage", "manual"} /\ Holders \subseteq Agents
BY MirrorAssumption, FS_CardinalityType DEF Agents, Holders

\* A call is not an idle agent.
LEMMA CallFacts ==
    /\ Idle \notin Call
    /\ \A c \in Call : /\ c.order \in Orders /\ c.row \in Row
                              /\ c.sends \in 0 .. 2 /\ c.spent \in 1 .. 2
                              /\ c.void \in BOOLEAN /\ c.at \in {"calling", "applied"}
                              /\ c # Idle
<1>1. \A c \in Call : c.at \in {"calling", "applied"}
  BY DEF Call
<1>2. Idle.at = "idle"
  BY DEF Idle
<1> QED BY <1>1, <1>2 DEF Call

ClearedBy(o) ==
    \E a \in {"operator", "stage"} :
        /\ call[a].at = "applied" /\ call[a].order = o
        /\ call[a].row.status = po'[o].status

Cleared == \A o \in Ours : po[o].owed /\ ~po'[o].owed => ClearedBy(o)

MirrorSound == MirrorInv' /\ Kept' /\ Cleared

\* A step of one agent about one order: what it is about is to be shown, and what it is
\* not about stays.
LEMMA Frame ==
    ASSUME MirrorInv, Kept, Shape', NEW a \in Agents, NEW o \in Orders,
           \A p \in Orders \ {o} : po'[p] = po[p] /\ xero'[p] = xero[p],
           \A b \in Agents \ {a} : call'[b] = call[b],
           \/ call' = call
           \/ /\ call[a] # Idle => call[a].order = o
              /\ call'[a] # Idle => call'[a].order = o,
           a \in Holders => Holds(a)',
           \A b \in Holders \ {a} :
               Busy(b, o) => (po'[o] = po[o] /\ (call'[a] = Idle \/ a = "manual")),
           NoManual' => (/\ NoManual /\ call'["manual"] = Idle
                         /\ (a \in Holders => Told(a)')
                         /\ (\A b \in Holders \ {a} : (Busy(b, o) => xero'[o] = xero[o]))),
           (NoManual' /\ NoCrash') => (/\ NoCrash
                                      /\ (a \in Holders => Untold(a)')
                                      /\ (o \in Ours => Settled(o)')),
           (o \in Ours /\ po[o].owed /\ ~po'[o].owed) => ClearedBy(o)
    PROVE  MirrorSound
<1>1. /\ po \in [Orders -> Row] /\ xero \in [Orders -> XeroCopies]
      /\ call \in [Agents -> Call \cup {Idle}]
      /\ Ours \subseteq Orders /\ Holders \subseteq Agents
  BY Constants DEF MirrorInv, Shape
<1>2. ASSUME NEW b \in Holders, b # a, call[b] # Idle
      PROVE  /\ call'[b] = call[b] /\ call[b].order \in Ours /\ call[b].order \in Orders
             /\ po'[call[b].order] = po[call[b].order]
             /\ NoManual' => xero'[call[b].order] = xero[call[b].order]
  <2>1. call[b].order \in Ours /\ call[b].order \in Orders /\ call'[b] = call[b]
    BY <1>1, <1>2 DEF MirrorInv, Holds
  <2>2. CASE call[b].order = o
    BY <1>2, <2>1, <2>2 DEF Busy
  <2>3. CASE call[b].order # o
    BY <2>1, <2>3
  <2> QED BY <2>1, <2>2, <2>3
<1>3. \A b \in Holders : Holds(b)'
  <2> SUFFICES ASSUME NEW b \in Holders, b # a PROVE Holds(b)'
    OBVIOUS
  <2>1. call'[b] = call[b] /\ Holds(b)
    BY <1>1 DEF MirrorInv
  <2>2. CASE call[b] = Idle
    BY <2>1, <2>2 DEF Holds
  <2>3. CASE call[b] # Idle
    BY <1>2, <2>1, <2>3 DEF Holds
  <2> QED BY <2>2, <2>3
<1>4. OneHolder'
  <2> SUFFICES ASSUME NEW p \in Orders, Busy("operator", p)', Busy("stage", p)' PROVE FALSE
    BY DEF OneHolder
  <2>1. ~(Busy("operator", p) /\ Busy("stage", p))
    BY DEF MirrorInv, OneHolder
  <2>2. call' # call
    BY <2>1 DEF Busy
  <2>3. a \in Holders
    <3>1. CASE a = "manual"
      <4>1. call'["operator"] = call["operator"] /\ call'["stage"] = call["stage"]
        BY <3>1, Constants
      <4> QED BY <2>1, <4>1 DEF Busy
    <3> QED BY <3>1, Constants DEF Holders
  <2>4. p = o
    BY <2>2, <2>3 DEF Busy, Holders
  <2>5. PICK b \in Holders \ {a} : Busy(b, o)'
    BY <2>3, <2>4 DEF Holders
  <2>6. Busy(b, o)
    BY <1>1, <2>5 DEF Busy
  <2>7. call'[a] # Idle
    BY <2>3, <2>4 DEF Busy, Holders
  <2> QED BY <2>3, <2>5, <2>6, <2>7 DEF Holders
<1>5. MirrorInv'
  BY <1>3, <1>4 DEF MirrorInv
<1>6. ASSUME NoManual' PROVE call'["manual"] = Idle /\ \A b \in Holders : Told(b)'
  <2> SUFFICES ASSUME NEW b \in Holders, b # a PROVE Told(b)'
    BY <1>6
  <2>1. call'[b] = call[b] /\ Told(b)
    BY <1>1, <1>6 DEF Kept
  <2>2. CASE call[b] = Idle
    BY <2>1, <2>2 DEF Told
  <2>3. CASE call[b] # Idle
    BY <1>2, <1>6, <2>1, <2>3 DEF Told
  <2> QED BY <2>2, <2>3
<1>7. ASSUME NoManual', NoCrash'
      PROVE  (\A b \in Holders : Untold(b)') /\ \A p \in Ours : Settled(p)'
  <2>1. NoManual /\ NoCrash
    BY <1>7
  <2>2. ASSUME NEW b \in Holders, b # a PROVE Untold(b)'
    <3>1. call'[b] = call[b] /\ Untold(b)
      BY <1>1, <2>1, <2>2 DEF Kept
    <3>2. CASE call[b] = Idle
      BY <3>1, <3>2 DEF Untold
    <3>3. CASE call[b] # Idle
      BY <1>2, <1>7, <2>2, <3>1, <3>3 DEF Untold, Agreed
    <3> QED BY <3>2, <3>3
  <2>3. ASSUME NEW p \in Ours, p # o PROVE Settled(p)'
    <3>1. po'[p] = po[p] /\ xero'[p] = xero[p] /\ Settled(p)
      BY <1>1, <2>1, <2>3 DEF Kept
    <3>2. ASSUME NEW b \in Holders, Busy(b, p) PROVE Busy(b, p)'
      <4>1. CASE b = a
        BY <2>3, <3>2, <4>1 DEF Busy
      <4>2. CASE b # a
        BY <1>1, <3>2, <4>2 DEF Busy
      <4> QED BY <4>1, <4>2
    <3> QED BY <3>1, <3>2 DEF Settled, Agreed
  <2> QED BY <1>7, <2>2, <2>3
<1>8. Kept'
  BY <1>6, <1>7 DEF Kept
<1>9. Cleared
  <2> SUFFICES ASSUME NEW p \in Ours, po[p].owed, ~po'[p].owed
               PROVE  ClearedBy(p)
    BY DEF Cleared
  <2>1. p = o
    BY <1>1
  <2> QED BY <2>1
<1> QED BY <1>5, <1>8, <1>9 DEF MirrorSound

\* What the bounds have spent is never given back.
LeftFalls ==
    /\ left' \in [{"changes", "faults", "manual", "crashes"} -> Nat]
    /\ left'.manual <= MaxManual /\ left'.crashes <= MaxCrashes
    /\ NoManual' => NoManual
    /\ NoCrash' => NoCrash

LEMMA SpendFacts ==
    ASSUME Shape, NEW b \in {"changes", "faults", "manual", "crashes"}, Spend(b)
    PROVE  LeftFalls /\ (b = "manual" => ~NoManual') /\ (b = "crashes" => ~NoCrash')
<1>1. /\ left \in [{"changes", "faults", "manual", "crashes"} -> Nat]
      /\ left.manual <= MaxManual /\ left.crashes <= MaxCrashes
      /\ left[b] > 0 /\ left' = [left EXCEPT ![b] = left[b] - 1]
  BY DEF Shape, Spend
<1>2. \A c \in {"changes", "faults", "manual", "crashes"} :
          left'[c] = IF c = b THEN left[c] - 1 ELSE left[c]
  BY <1>1
<1>3. left' \in [{"changes", "faults", "manual", "crashes"} -> Nat]
  BY <1>1
<1>4. MaxManual \in Nat /\ MaxCrashes \in Nat
  BY Constants
<1> QED BY <1>1, <1>2, <1>3, <1>4 DEF LeftFalls, NoManual, NoCrash

\* A step that spends nothing.
LEMMA LeftStays ==
    ASSUME Shape, UNCHANGED left
    PROVE  LeftFalls
BY DEF Shape, LeftFalls, NoManual, NoCrash

\* Touching an order keeps the others in line.
LEMMA TouchType ==
    ASSUME Shape, NEW o \in Orders, Touch(o)
    PROVE  oldest' \in Seq(Orders)
<1>1. Only(oldest, Orders \ {o}) \in Seq(Orders \cap (Orders \ {o}))
  BY OnlyType DEF Shape
<1>2. Only(oldest, Orders \ {o}) \in Seq(Orders)
  <2>1. Orders \cap (Orders \ {o}) \subseteq Orders
    OBVIOUS
  <2> QED BY <1>1, <2>1
<1> QED BY <1>2 DEF Touch

\* The invariant holds of the initial states.
LEMMA InitMirrored ==
    ASSUME MirrorInit
    PROVE  MirrorInv /\ Kept
<1>1. Shape
  <2>1. po \in [Orders -> Row] /\ xero \in [Orders -> XeroCopies]
    BY DEF MirrorInit, Row, OrderStatuses, Portions, XeroCopies,
           XeroStatus
  <2>2. oldest \in Seq(Orders)
    <3>1. PICK n \in Nat : n = Cardinality(Orders)
      BY Constants
    <3>2. oldest \in [1 .. n -> Orders]
      BY <3>1 DEF MirrorInit
    <3> QED BY <3>2
  <2>3. batch \in Seq(Ours) /\ call \in [Agents -> Call \cup {Idle}]
    BY DEF MirrorInit
  <2>4. call["stage"] = Idle
    BY DEF MirrorInit, Agents
  <2>5. /\ left \in [{"changes", "faults", "manual", "crashes"} -> Nat]
        /\ left.manual = MaxManual /\ left.crashes = MaxCrashes
    BY Constants DEF MirrorInit, Bounds
  <2> QED BY <2>1, <2>2, <2>3, <2>4, <2>5, Constants DEF Shape
<1>2. \A a \in Agents : call[a] = Idle
  BY DEF MirrorInit
<1>3. \A o \in Ours : xero[o] = "none" /\ po[o].status = "draft"
  BY Constants DEF MirrorInit
<1>4. MirrorInv
  BY <1>1, <1>2, Constants DEF MirrorInv, Holds, OneHolder, Busy, Agents
<1>5. Kept
  BY <1>2, <1>3, Constants DEF Kept, Told, Untold, Settled, Agreed, Agents
<1> QED BY <1>4, <1>5

\* A step that touches no order and no call.
LEMMA Quiet ==
    ASSUME MirrorInv, Kept, Shape', UNCHANGED <<po, xero, call, left>>
    PROVE  MirrorSound
<1>1. \A a : Holds(a)' = Holds(a) /\ Told(a)' = Told(a) /\ Untold(a)' = Untold(a)
  BY DEF Holds, Told, Untold, Agreed
<1>2. \A o : Settled(o)' = Settled(o)
  BY DEF Settled, Agreed, Busy
<1>3. OneHolder' = OneHolder /\ NoManual' = NoManual /\ NoCrash' = NoCrash
  BY DEF OneHolder, Busy, NoManual, NoCrash
<1> QED BY <1>1, <1>2, <1>3 DEF MirrorInv, Kept, MirrorSound, Cleared

\* Nobody holds an order that is not locked.
LEMMA Unlocked ==
    ASSUME NEW o \in Orders, ~Locked(o)
    PROVE  \A a \in Holders : ~Busy(a, o)
BY DEF Locked, Free, Busy, Holders

-----------------------------------------------------------------------------
(* The handlers that write an order.                                       *)

\* What a handler may write: it owes what was owed and what its moved status owes, it
\* sends only what is owed, and twice only if it owed a call before.
Fit(o, row, sends) ==
    /\ po[o].owed => row.owed
    /\ row.owed \/ row.status = po[o].status
    /\ sends > 0 => row.owed
    /\ sends = 2 => po[o].owed

\* A write that is committed without a call.
LEMMA CommitMirrored ==
    ASSUME MirrorInv, Kept, NEW o \in Orders, NEW row \in Row, ~Locked(o), LeftFalls,
           Commit(o, row), UNCHANGED <<xero, batch, call>>,
           o \in Ours => Fit(o, row, 0)
    PROVE  MirrorSound
<1>1. Shape'
  BY TouchType DEF MirrorInv, Shape, Commit, LeftFalls
<1>2. po' = [po EXCEPT ![o] = row] /\ po'[o] = row /\ \A p \in Orders \ {o} : po'[p] = po[p]
  BY DEF Commit, MirrorInv, Shape
<1>3. \A a \in Holders : ~Busy(a, o)
  BY Unlocked
<1>4. Holds("operator")'
  <2>1. Holds("operator")
    BY DEF MirrorInv, Holders
  <2>2. CASE call["operator"] = Idle
    BY <2>2 DEF Holds
  <2>3. CASE call["operator"] # Idle
    <3>1. call["operator"].order \in Orders \ {o}
      BY <1>3, <2>1, <2>3, Constants DEF Holds, Busy, Holders
    <3> QED BY <1>2, <2>1, <3>1 DEF Holds
  <2> QED BY <2>2, <2>3
<1>5. NoManual' => NoManual /\ call'["manual"] = Idle /\ Told("operator")'
  BY DEF LeftFalls, Kept, Told, Holders
<1>6. ASSUME NoManual', NoCrash'
      PROVE  NoCrash /\ Untold("operator")' /\ (o \in Ours => Settled(o)')
  <2>1. NoManual /\ NoCrash
    BY <1>6 DEF LeftFalls
  <2>2. Untold("operator")'
    <3>1. Untold("operator")
      BY <2>1 DEF Kept, Holders
    <3>2. CASE call["operator"] = Idle
      BY <3>2 DEF Untold
    <3>3. CASE call["operator"] # Idle
      <4>1. call["operator"].order \in Orders \ {o}
        BY <1>3, <3>3, Constants DEF MirrorInv, Holds, Busy, Holders
      <4> QED BY <1>2, <3>1, <4>1 DEF Untold, Agreed
    <3> QED BY <3>2, <3>3
  <2>3. ASSUME o \in Ours PROVE Settled(o)'
    <3>1. Settled(o)
      BY <2>1, <2>3 DEF Kept
    <3>2. po[o].owed \/ Agreed(o)
      BY <1>3, <3>1 DEF Settled
    <3> QED BY <1>2, <2>3, <3>2 DEF Fit, Settled, Agreed
  <2> QED BY <2>1, <2>2, <2>3
<1>7. (o \in Ours /\ po[o].owed /\ ~po'[o].owed) => ClearedBy(o)
  BY <1>2 DEF Fit
<1>8. "operator" \in Agents
  BY Constants
<1>9. /\ \A p \in Orders \ {o} : po'[p] = po[p] /\ xero'[p] = xero[p]
      /\ \A b \in Agents \ {"operator"} : call'[b] = call[b]
      /\ \A b \in Holders \ {"operator"} : ~Busy(b, o)
  BY <1>2, <1>3
<1> QED BY <1>1, <1>4, <1>5, <1>6, <1>7, <1>8, <1>9, Frame

\* A call that begins under the row's lock.
LEMMA BeginMirrored ==
    ASSUME MirrorInv, Kept, NEW a \in Holders, NEW o \in Ours, ~Locked(o),
           call[a] = Idle, LeftFalls,
           Shape', UNCHANGED <<po, xero>>,
           \A b \in Agents \ {a} : call'[b] = call[b],
           call'[a] # Idle, call'[a].order = o, call'[a].at = "calling", Holds(a)',
           call'[a].sends = 2 => po[o].owed,
           call'[a].sends \in 1 .. 2
    PROVE  MirrorSound
<1>1. o \in Orders /\ a \in Agents
  BY Constants
<1>2. \A b \in Holders : ~Busy(b, o)
  BY <1>1, Unlocked
<1>3. NoManual' => NoManual /\ call'["manual"] = Idle /\ Told(a)'
  BY Constants DEF LeftFalls, Kept, Told, Holders
<1>4. ASSUME NoManual', NoCrash' PROVE NoCrash /\ Untold(a)' /\ Settled(o)'
  <2>1. NoManual /\ NoCrash
    BY <1>4 DEF LeftFalls
  <2>2. po[o].owed \/ Agreed(o)
    BY <1>2, <2>1 DEF Kept, Settled
  <2>3. Untold(a)'
    BY <2>2 DEF Untold, Agreed
  <2>4. Settled(o)'
    BY DEF Settled, Busy
  <2> QED BY <2>1, <2>3, <2>4
<1>5. ~(po[o].owed /\ ~po'[o].owed)
  OBVIOUS
<1>6. /\ \A p \in Orders \ {o} : po'[p] = po[p] /\ xero'[p] = xero[p]
      /\ \A b \in Holders \ {a} : ~Busy(b, o)
  BY <1>2
<1> QED BY <1>1, <1>3, <1>4, <1>5, <1>6, Frame

LEMMA WriteMirrored ==
    ASSUME MirrorInv, Kept, NEW o \in Orders, NEW row \in Row, NEW sends \in 0 .. 2,
           Write(o, row, sends), o \in Ours => Fit(o, row, sends)
    PROVE  MirrorSound
<1>1. ~Locked(o) /\ UNCHANGED <<xero, batch>>
  BY DEF Write
<1>2. LeftFalls
  BY SpendFacts DEF Write, MirrorInv
<1>3. CASE sends = 0
  <2>1. Commit(o, row) /\ UNCHANGED call
    BY <1>3 DEF Write
  <2> QED BY <1>1, <1>2, <1>3, <2>1, CommitMirrored
<1>4. CASE sends # 0 /\ o \notin Ours
  <2> DEFINE r == [row EXCEPT !.owed = FALSE]
  <2>1. Commit(o, r) /\ UNCHANGED call
    BY <1>4 DEF Write, Send
  <2>2. r \in Row
    BY DEF Row
  <2> HIDE DEF r
  <2> QED BY <1>1, <1>2, <1>4, <2>1, <2>2, CommitMirrored
<1>5. CASE sends # 0 /\ o \in Ours
  <2> DEFINE c == [order |-> o, row |-> row, sends |-> sends, spent |-> 1,
                   void |-> FALSE, at |-> "calling"]
  <2>1. /\ call["operator"] = Idle /\ call' = [call EXCEPT !["operator"] = c]
        /\ UNCHANGED <<po, oldest>>
    BY <1>5 DEF Write, Send, Free
  <2>2. /\ c \in Call /\ c.order = o /\ c.row = row /\ c.sends = sends /\ c.spent = 1
        /\ c.void = FALSE /\ c.at = "calling"
    BY DEF Call
  <2> HIDE DEF c
  <2>3. c # Idle
    BY <2>2, CallFacts
  <2>4. call'["operator"] = c /\ \A b \in Agents \ {"operator"} : call'[b] = call[b]
    BY <2>1, Constants DEF MirrorInv, Shape
  <2>5. call' \in [Agents -> Call \cup {Idle}]
    BY <2>1, <2>2 DEF MirrorInv, Shape
  <2>6. Shape'
    BY <1>1, <1>2, <2>1, <2>4, <2>5, Constants DEF MirrorInv, Shape, LeftFalls
  <2>7. Holds("operator")'
    BY <1>5, <2>1, <2>2, <2>4 DEF Holds, Fit
  <2> QED BY <1>1, <1>2, <1>5, <2>1, <2>2, <2>3, <2>4, <2>6, <2>7, BeginMirrored DEF Fit, Holders
<1> QED BY <1>3, <1>4, <1>5

\* A recomputed row owes what it owed, and whatever its moved status owes.
LEMMA RecomputeFacts ==
    ASSUME NEW row \in Row
    PROVE  /\ Recompute(row) \in Row
           /\ row.owed => Recompute(row).owed
           /\ Recompute(row).owed \/ Recompute(row).status = row.status
<1>1. /\ row.status \in OrderStatuses /\ row.received \in Portions
      /\ row.owed \in BOOLEAN /\ row.linked \in BOOLEAN
  BY DEF Row
<1>2. StatusOf(row) \in OrderStatuses
  BY <1>1 DEF StatusOf, OrderStatuses, Portions
<1>3. Recompute(row) = [row EXCEPT !.status = StatusOf(row),
                                   !.owed = row.owed \/ StatusOf(row) # row.status]
  BY DEF Recompute
<1>4. /\ Recompute(row).status = StatusOf(row)
      /\ Recompute(row).owed = (row.owed \/ StatusOf(row) # row.status)
  BY <1>3 DEF Row
<1> QED BY <1>1, <1>2, <1>3, <1>4 DEF Row

LEMMA PatchMirrored ==
    ASSUME MirrorInv, Kept, NEW o \in Orders, update_purchase_order(o)
    PROVE  MirrorSound
<1>1. po[o] \in Row
  BY DEF MirrorInv, Shape
<1>2. PICK asked \in OrderStatuses \cup {"unset"}, edits \in BOOLEAN :
      \E received \in CASE po[o].received = "none" -> {"none"}
                          [] po[o].received # "none" /\ edits -> {"some", "all"}
                          [] po[o].received # "none" /\ ~edits -> {po[o].received, "all"} :
        LET written == [po[o] EXCEPT !.status = IF asked = "unset" THEN @ ELSE asked,
                                     !.received = received]
            receives == asked = "fully_received"
            row == CASE receives -> [written EXCEPT !.received = "all"]
                     [] ~receives /\ edits /\ received # "none" -> Recompute(written)
                     [] OTHER -> written
            moved == row.status # po[o].status
            inner == receives /\ received # "all" /\ row.owed
        IN Write(o, [row EXCEPT !.owed = @ \/ moved],
                 (IF inner THEN 1 ELSE 0) + (IF moved THEN 1 ELSE 0))
  BY DEF update_purchase_order
<1>3. PICK received \in CASE po[o].received = "none" -> {"none"}
                          [] po[o].received # "none" /\ edits -> {"some", "all"}
                          [] po[o].received # "none" /\ ~edits -> {po[o].received, "all"} :
        LET written == [po[o] EXCEPT !.status = IF asked = "unset" THEN @ ELSE asked,
                                     !.received = received]
            receives == asked = "fully_received"
            row == CASE receives -> [written EXCEPT !.received = "all"]
                     [] ~receives /\ edits /\ received # "none" -> Recompute(written)
                     [] OTHER -> written
            moved == row.status # po[o].status
            inner == receives /\ received # "all" /\ row.owed
        IN Write(o, [row EXCEPT !.owed = @ \/ moved],
                 (IF inner THEN 1 ELSE 0) + (IF moved THEN 1 ELSE 0))
  BY <1>2
<1> DEFINE written == [po[o] EXCEPT !.status = IF asked = "unset" THEN po[o].status ELSE asked,
                                    !.received = received]
           receives == asked = "fully_received"
           row == CASE receives -> [written EXCEPT !.received = "all"]
                    [] ~receives /\ edits /\ received # "none" -> Recompute(written)
                    [] OTHER -> written
           moved == row.status # po[o].status
           inner == receives /\ received # "all" /\ row.owed
           final == [row EXCEPT !.owed = row.owed \/ moved]
           sends == (IF inner THEN 1 ELSE 0) + (IF moved THEN 1 ELSE 0)
<1>4. received \in Portions
  BY <1>1 DEF Portions, Row
<1>5. written \in Row /\ written.owed = po[o].owed
  BY <1>1, <1>4 DEF Row
<1>6. row \in Row /\ (po[o].owed => row.owed) /\ (receives => row.owed = po[o].owed)
  <2> HIDE DEF written
  <2>1. CASE receives
    <3>1. row = [written EXCEPT !.received = "all"]
      BY <2>1
    <3> QED BY <1>5, <2>1, <3>1 DEF Row, Portions
  <2>2. CASE ~receives /\ edits /\ received # "none"
    <3>1. row = Recompute(written)
      BY <2>2
    <3> QED BY <1>5, <2>2, <3>1, RecomputeFacts
  <2>3. CASE ~receives /\ ~(edits /\ received # "none")
    <3>1. row = written
      BY <2>3
    <3> QED BY <1>5, <2>3, <3>1
  <2> QED BY <2>1, <2>2, <2>3
<1>7. Write(o, final, sends)
  BY <1>3
<1> HIDE DEF row
<1>8. final \in Row /\ final.status = row.status /\ final.owed = (row.owed \/ moved)
  BY <1>6 DEF Row
<1> HIDE DEF final
<1>9. sends \in 0 .. 2 /\ (sends > 0 => inner \/ moved) /\ (sends = 2 => inner)
  OBVIOUS
<1>10. Fit(o, final, sends)
  <2> HIDE DEF sends
  <2> QED BY <1>6, <1>8, <1>9 DEF Fit
<1> HIDE DEF sends
<1> QED BY <1>7, <1>8, <1>9, <1>10, WriteMirrored

LEMMA ReceiveMirrored ==
    ASSUME MirrorInv, Kept, NEW o \in Orders, process_delivery_receipt(o)
    PROVE  MirrorSound
<1>1. po[o] \in Row
  BY DEF MirrorInv, Shape
<1>2. PICK received \in IF po[o].received = "all" THEN {"all"} ELSE {"some", "all"} :
          LET row == Recompute([po[o] EXCEPT !.received = received])
          IN Write(o, row, IF row.owed THEN 1 ELSE 0)
  BY DEF process_delivery_receipt
<1> DEFINE w == [po[o] EXCEPT !.received = received]
           row == Recompute(w)
           sends == IF row.owed THEN 1 ELSE 0
<1>3. w \in Row /\ w.owed = po[o].owed /\ w.status = po[o].status
  BY <1>1 DEF Row, Portions
<1>4. Write(o, row, sends)
  BY <1>2
<1> HIDE DEF w
<1>5. row \in Row /\ (w.owed => row.owed) /\ (row.owed \/ row.status = w.status)
  BY <1>3, RecomputeFacts
<1> HIDE DEF row
<1>6. Fit(o, row, sends) /\ sends \in 0 .. 2
  BY <1>3, <1>5 DEF Fit
<1> HIDE DEF sends
<1> QED BY <1>4, <1>5, <1>6, WriteMirrored

LEMMA ReverseMirrored ==
    ASSUME MirrorInv, Kept, NEW o \in Orders, reverse_allocation(o)
    PROVE  MirrorSound
<1>1. po[o] \in Row
  BY DEF MirrorInv, Shape
<1>2. PICK received \in Portions :
          Write(o, Recompute([po[o] EXCEPT !.received = received]), 0)
  BY DEF reverse_allocation
<1> DEFINE w == [po[o] EXCEPT !.received = received]
           row == Recompute(w)
<1>3. w \in Row /\ w.owed = po[o].owed /\ w.status = po[o].status
  BY <1>1 DEF Row
<1>4. Write(o, row, 0)
  BY <1>2
<1> HIDE DEF w
<1>5. row \in Row /\ (w.owed => row.owed) /\ (row.owed \/ row.status = w.status)
  BY <1>3, RecomputeFacts
<1> HIDE DEF row
<1>6. Fit(o, row, 0)
  BY <1>3, <1>5 DEF Fit
<1> QED BY <1>4, <1>5, <1>6, WriteMirrored

LEMMA PullMirrored ==
    ASSUME MirrorInv, Kept, NEW o \in Orders, transform_purchase_order(o)
    PROVE  MirrorSound
<1>1. po[o] \in Row
  BY DEF MirrorInv, Shape
<1>2. CASE o \in Ours
  <2> DEFINE row == [po[o] EXCEPT !.linked = TRUE]
  <2>1. Write(o, row, 0)
    BY <1>2 DEF transform_purchase_order
  <2>2. row \in Row /\ row.owed = po[o].owed /\ row.status = po[o].status
    BY <1>1 DEF Row
  <2> HIDE DEF row
  <2>3. Fit(o, row, 0)
    BY <2>2 DEF Fit
  <2> QED BY <2>1, <2>2, <2>3, WriteMirrored
<1>3. CASE o \notin Ours /\ po[o].received = "none"
  <2> DEFINE row == [po[o] EXCEPT !.status = "submitted"]
  <2>1. Write(o, row, 0)
    BY <1>3 DEF transform_purchase_order
  <2>2. row \in Row
    BY <1>1 DEF Row, OrderStatuses
  <2> HIDE DEF row
  <2> QED BY <1>3, <2>1, <2>2, WriteMirrored
<1>4. CASE o \notin Ours /\ po[o].received # "none"
  <2>1. PICK received \in {"some", "all"} :
            Write(o, Recompute([po[o] EXCEPT !.received = received]), 0)
    BY <1>4 DEF transform_purchase_order
  <2> DEFINE w == [po[o] EXCEPT !.received = received]
             row == Recompute(w)
  <2>2. w \in Row
    BY <1>1 DEF Row, Portions
  <2>3. Write(o, row, 0)
    BY <2>1
  <2> HIDE DEF w
  <2>4. row \in Row
    BY <2>2, RecomputeFacts
  <2> HIDE DEF row
  <2> QED BY <1>4, <2>3, <2>4, WriteMirrored
<1> QED BY <1>2, <1>3, <1>4

-----------------------------------------------------------------------------
(* The stage and the manual endpoints.                                     *)

LEMMA StageListMirrored ==
    ASSUME MirrorInv, Kept, StageList
    PROVE  MirrorSound
<1>1. UNCHANGED <<po, xero, oldest, call, left>>
  BY DEF StageList
<1>2. batch' \in Seq(Ours)
  <2> DEFINE n == IF Len(Owed) < Limit THEN Len(Owed) ELSE Limit
             slice == SubSeq(Owed, 1, n)
  <2>1. Owed \in Seq(Orders \cap {o \in Orders : po[o].owed})
    BY OnlyType DEF Owed, MirrorInv, Shape
  <2>2. Owed \in Seq(Orders)
    <3>1. Orders \cap {o \in Orders : po[o].owed} \subseteq Orders
      OBVIOUS
    <3> QED BY <2>1, <3>1
  <2>3. slice \in Seq(Orders)
    <3>1. n \in Nat /\ n <= Len(Owed)
      BY <2>2, MirrorAssumption
    <3> HIDE DEF n
    <3> QED BY <2>2, <3>1
  <2>4. batch' = Only(slice, Ours)
    BY DEF StageList
  <2> HIDE DEF slice
  <2>5. batch' \in Seq(Orders \cap Ours)
    BY <2>3, <2>4, OnlyType
  <2>6. Orders \cap Ours = Ours
    BY Constants
  <2> QED BY <2>5, <2>6
<1>3. call["stage"] = Idle
  BY DEF StageList, Free
<1>4. Shape'
  BY <1>1, <1>2, <1>3 DEF MirrorInv, Shape
<1> QED BY <1>1, <1>4, Quiet

LEMMA StageSendMirrored ==
    ASSUME MirrorInv, Kept, StageSend
    PROVE  MirrorSound
<1> DEFINE o == Head(batch)
<1>1. /\ batch # <<>> /\ call["stage"] = Idle /\ ~Locked(o)
      /\ UNCHANGED <<po, xero, oldest, left>>
  BY DEF StageSend, Free
<1>2. batch \in Seq(Ours) /\ o \in Ours /\ o \in Orders /\ Tail(batch) \in Seq(Ours)
  BY <1>1, Constants DEF MirrorInv, Shape
<1>3. LeftFalls
  BY <1>1, LeftStays DEF MirrorInv
<1>4. CASE po[o].owed
  <2> DEFINE c == [order |-> o, row |-> po[o], sends |-> 1, spent |-> 1,
                   void |-> FALSE, at |-> "calling"]
  <2>1. call' = [call EXCEPT !["stage"] = c] /\ UNCHANGED batch
    BY <1>4 DEF StageSend, Start
  <2>2. po[o] \in Row
    BY <1>2 DEF MirrorInv, Shape
  <2> HIDE DEF o
  <2>3. /\ c \in Call /\ c.order = o /\ c.row = po[o] /\ c.sends = 1 /\ c.spent = 1
        /\ c.void = FALSE /\ c.at = "calling"
    BY <1>2, <2>2 DEF Call
  <2> HIDE DEF c
  <2>4. c # Idle
    BY <2>3, CallFacts
  <2>5. call'["stage"] = c /\ \A b \in Agents \ {"stage"} : call'[b] = call[b]
    BY <2>1, Constants DEF MirrorInv, Shape
  <2>6. call' \in [Agents -> Call \cup {Idle}]
    BY <2>1, <2>3 DEF MirrorInv, Shape
  <2>7. Shape'
    BY <1>1, <2>1, <2>6 DEF MirrorInv, Shape
  <2>8. Holds("stage")'
    BY <1>1, <1>2, <1>4, <2>3, <2>5 DEF Holds
  <2> QED BY <1>1, <1>2, <1>3, <2>3, <2>4, <2>5, <2>7, <2>8, BeginMirrored DEF Holders
<1>5. CASE ~po[o].owed
  <2>1. batch' = Tail(batch) /\ UNCHANGED call
    BY <1>5 DEF StageSend
  <2>2. Shape'
    BY <1>1, <1>2, <2>1 DEF MirrorInv, Shape
  <2> QED BY <1>1, <2>1, <2>2, Quiet
<1> QED BY <1>4, <1>5

\* A step of a manual endpoint about one order: nothing is said of the order after it
\* that calm behaviours rely on.
LEMMA ManualMirrored ==
    ASSUME MirrorInv, Kept, NEW o \in Orders, LeftFalls, UNCHANGED <<xero, oldest, batch>>,
           ~NoManual',
           \A b \in Agents \ {"manual"} : call'[b] = call[b],
           call' \in [Agents -> Call \cup {Idle}],
           call["manual"] # Idle => call["manual"].order = o,
           call'["manual"] # Idle => call'["manual"].order = o,
           po' \in [Orders -> Row],
           \A p \in Orders \ {o} : po'[p] = po[p],
           po'[o] = po[o] \/ (~Locked(o) /\ po'[o].owed = po[o].owed)
    PROVE  MirrorSound
<1>1. "manual" \in Agents /\ "manual" \notin Holders /\ "stage" \in Agents \ {"manual"}
  BY Constants DEF Holders
<1>2. Shape'
  BY <1>1 DEF MirrorInv, Shape, LeftFalls
<1>3. \A b \in Holders \ {"manual"} : Busy(b, o) => po'[o] = po[o]
  BY Unlocked
<1>4. \A p \in Orders \ {o} : po'[p] = po[p] /\ xero'[p] = xero[p]
  OBVIOUS
<1>5. ~(o \in Ours /\ po[o].owed /\ ~po'[o].owed)
  OBVIOUS
<1> QED BY <1>1, <1>2, <1>3, <1>4, <1>5, Frame

LEMMA ManualStartMirrored ==
    ASSUME MirrorInv, Kept, NEW o \in Orders, ManualPush(o) \/ ManualVoid(o)
    PROVE  MirrorSound
<1>1. PICK void \in BOOLEAN : Start("manual", o, void)
  BY DEF ManualPush, ManualVoid
<1>2. call["manual"] = Idle /\ Spend("manual") /\ UNCHANGED <<po, xero, oldest, batch>>
  BY DEF ManualPush, ManualVoid, Free
<1>3. LeftFalls /\ ~NoManual'
  BY <1>2, SpendFacts DEF MirrorInv
<1> DEFINE c == [order |-> o, row |-> po[o], sends |-> 1, spent |-> 1,
                 void |-> void, at |-> "calling"]
<1>4. call' = [call EXCEPT !["manual"] = c]
  BY <1>1 DEF Start
<1>5. po[o] \in Row
  BY DEF MirrorInv, Shape
<1>6. c \in Call /\ c.order = o
  BY <1>5 DEF Call
<1> HIDE DEF c
<1>7. /\ \A b \in Agents \ {"manual"} : call'[b] = call[b]
      /\ call'["manual"] = c
      /\ call' \in [Agents -> Call \cup {Idle}]
  BY <1>4, <1>6, Constants DEF MirrorInv, Shape
<1>8. po' \in [Orders -> Row] /\ \A p \in Orders : po'[p] = po[p]
  BY <1>2 DEF MirrorInv, Shape
<1> QED BY <1>2, <1>3, <1>6, <1>7, <1>8, ManualMirrored

\* While the manual endpoints are not used, they have no call in flight.
LEMMA ManualUsed ==
    ASSUME Kept, call["manual"] # Idle, LeftFalls
    PROVE  ~NoManual'
BY DEF Kept, LeftFalls

LEMMA ManualEndMirrored ==
    ASSUME MirrorInv, Kept, ManualStored \/ ManualFails
    PROVE  MirrorSound
<1> DEFINE o == call["manual"].order
<1>1. call["manual"] # Idle /\ Ends("manual") /\ UNCHANGED <<xero, oldest, batch>>
  <2>1. Idle.at = "idle"
    BY DEF Idle
  <2> QED BY <2>1 DEF ManualStored, ManualFails, Free
<1>2. o \in Orders
  BY <1>1, CallFacts, Constants DEF MirrorInv, Shape
<1>3. LeftFalls
  BY LeftStays, SpendFacts DEF MirrorInv, ManualStored, ManualFails
<1>4. ~NoManual'
  BY <1>1, <1>3, ManualUsed
<1>5. /\ \A b \in Agents \ {"manual"} : call'[b] = call[b]
      /\ call'["manual"] = Idle
      /\ call' \in [Agents -> Call \cup {Idle}]
  BY <1>1, Constants DEF MirrorInv, Shape, Ends
<1>6. /\ po' \in [Orders -> Row]
      /\ \A p \in Orders \ {o} : po'[p] = po[p]
      /\ po'[o] = po[o] \/ (~Locked(o) /\ po'[o].owed = po[o].owed)
  <2>1. CASE ManualStored
    <3>1. po[o] \in Row
      BY <1>2 DEF MirrorInv, Shape
    <3> DEFINE r == IF call["manual"].void
                    THEN [po[o] EXCEPT !.linked = FALSE, !.status = "deleted"]
                    ELSE [po[o] EXCEPT !.linked = TRUE]
    <3>2. r \in Row /\ r.owed = po[o].owed
      BY <3>1 DEF Row, OrderStatuses
    <3>3. po' = [po EXCEPT ![o] = r] /\ ~Locked(o)
      BY <2>1 DEF ManualStored
    <3> HIDE DEF o, r
    <3> QED BY <1>2, <3>2, <3>3 DEF MirrorInv, Shape
  <2>2. CASE ManualFails
    BY <1>2, <2>2 DEF ManualFails, MirrorInv, Shape
  <2> QED BY <2>1, <2>2
<1> HIDE DEF o
<1>7. call["manual"] # Idle => call["manual"].order = o
  BY DEF o
<1> QED BY <1>1, <1>2, <1>3, <1>4, <1>5, <1>6, <1>7, ManualMirrored

-----------------------------------------------------------------------------
(* A call in flight.                                                       *)

\* A call in flight is about an order that nobody else holds.
LEMMA InFlight ==
    ASSUME MirrorInv, NEW a \in Agents, call[a] # Idle
    PROVE  /\ call[a] \in Call /\ call[a].order \in Orders
           /\ a \in Holders =>
                  /\ call[a].order \in Ours
                  /\ \A b \in Holders \ {a} : ~Busy(b, call[a].order)
<1>1. call[a] \in Call /\ call[a].order \in Orders
  BY CallFacts DEF MirrorInv, Shape
<1>2. ASSUME a \in Holders
      PROVE  /\ call[a].order \in Ours
             /\ \A b \in Holders \ {a} : ~Busy(b, call[a].order)
  BY <1>1, <1>2 DEF MirrorInv, Holds, OneHolder, Busy, Holders
<1> QED BY <1>1, <1>2

LEMMA ApplyMirrored ==
    ASSUME MirrorInv, Kept, NEW a \in Agents, XeroApplies(a)
    PROVE  MirrorSound
<1>1. call[a] # Idle
  BY DEF XeroApplies, Idle
<1>2. PICK o \in Orders : o = call[a].order
  BY <1>1, InFlight
<1> DEFINE c == [call[a] EXCEPT !.at = "applied"]
           x == IF call[a].void THEN "RELEASED" ELSE XeroStatus[call[a].row.status]
<1>3. /\ call[a] \in Call
      /\ a \in Holders => o \in Ours /\ \A b \in Holders \ {a} : ~Busy(b, o)
  BY <1>1, <1>2, InFlight
<1>4. /\ call[a].at = "calling"
      /\ xero' = [xero EXCEPT ![o] = x] /\ call' = [call EXCEPT ![a] = c]
      /\ UNCHANGED <<po, oldest, batch, left>>
  BY <1>2 DEF XeroApplies
<1>5. /\ c \in Call /\ c.order = o /\ c.row = call[a].row /\ c.sends = call[a].sends
      /\ c.spent = call[a].spent /\ c.void = call[a].void /\ c.at = "applied"
  BY <1>2, <1>3 DEF Call
<1>6. x \in XeroCopies
  BY <1>3 DEF Call, Row, XeroCopies
<1>7. LeftFalls
  BY <1>4, LeftStays DEF MirrorInv
<1>8. a = "manual" => ~NoManual'
  BY <1>1, <1>7, ManualUsed
<1>9. c # Idle
  BY <1>5, CallFacts
<1>10. o = call[a].order /\ (~call[a].void => x = XeroStatus[call[a].row.status])
  BY <1>2
<1> HIDE DEF c, x
<1>11. /\ \A p \in Orders \ {o} : po'[p] = po[p] /\ xero'[p] = xero[p]
       /\ po' = po /\ xero'[o] = x
       /\ call'[a] = c /\ \A b \in Agents \ {a} : call'[b] = call[b]
       /\ call' \in [Agents -> Call \cup {Idle}]
       /\ xero' \in [Orders -> XeroCopies]
  BY <1>4, <1>3, <1>5, <1>6 DEF MirrorInv, Shape
<1>12. Shape'
  <2>1. call'["stage"] # Idle => call["stage"] # Idle
    BY <1>1, <1>11, Constants
  <2> QED BY <1>4, <1>7, <1>11, <2>1 DEF MirrorInv, Shape, LeftFalls
<1>13. ASSUME a \in Holders
       PROVE  /\ Holds(a)'
              /\ NoManual' => NoManual /\ call'["manual"] = Idle /\ Told(a)'
              /\ Untold(a)' /\ Settled(o)'
  <2>1. Holds(a)
    BY <1>13 DEF MirrorInv
  <2>2. Holds(a)'
    BY <1>1, <1>5, <1>10, <1>11, <2>1 DEF Holds
  <2>3. Told(a)'
    BY <1>1, <1>5, <1>10, <1>11, <2>1 DEF Holds, Told
  <2>4. a # "manual"
    BY <1>13 DEF Holders
  <2>5. NoManual' => NoManual /\ call'["manual"] = Idle
    BY <1>7, <1>11, <2>4, Constants DEF LeftFalls, Kept
  <2>6. Untold(a)'
    BY <1>5, <1>11 DEF Untold
  <2>7. Settled(o)'
    BY <1>5, <1>9, <1>11, <1>13 DEF Settled, Busy
  <2> QED BY <2>2, <2>3, <2>5, <2>6, <2>7
<1>14. a \in Holders \/ a = "manual"
  BY Constants DEF Holders
<1>15. NoCrash' => NoCrash
  BY <1>7 DEF LeftFalls
<1>16. /\ ~(o \in Ours /\ po[o].owed /\ ~po'[o].owed)
       /\ (call[a] # Idle => call[a].order = o)
       /\ (call'[a] # Idle => call'[a].order = o)
       /\ \A b \in Holders \ {a} :
              Busy(b, o) => (po'[o] = po[o] /\ (call'[a] = Idle \/ a = "manual"))
  BY <1>3, <1>5, <1>10, <1>11, <1>14
<1> QED
  <2>1. CASE a \in Holders
    <3>1. NoManual' => (/\ NoManual /\ call'["manual"] = Idle
                        /\ (a \in Holders => Told(a)')
                        /\ (\A b \in Holders \ {a} : (Busy(b, o) => xero'[o] = xero[o])))
      BY <1>3, <1>13, <2>1
    <3>2. (NoManual' /\ NoCrash') => (/\ NoCrash
                                      /\ (a \in Holders => Untold(a)')
                                      /\ (o \in Ours => Settled(o)'))
      BY <1>13, <1>15, <2>1
    <3> QED BY <1>3, <1>11, <1>12, <1>13, <1>16, <2>1, <3>1, <3>2, Frame
  <2>2. CASE a = "manual"
    <3>1. ~NoManual' /\ a \notin Holders
      BY <1>8, <2>2 DEF Holders
    <3> QED BY <1>3, <1>11, <1>12, <1>16, <3>1, Frame
  <2> QED BY <1>14, <2>1, <2>2

\* A call that ends, however it ends, about an order of ours under its lock.
LEMMA EndMirrored ==
    ASSUME MirrorInv, Kept, NEW a \in Holders, NEW o \in Orders,
           call[a] # Idle, call[a].order = o,
           LeftFalls, Shape', UNCHANGED xero,
           Ends(a), \A p \in Orders \ {o} : po'[p] = po[p],
           NoManual' /\ NoCrash' => po'[o].owed \/ Agreed(o)',
           po[o].owed /\ ~po'[o].owed => ClearedBy(o)
    PROVE  MirrorSound
<1>1. a \in Agents /\ a # "manual"
  BY Constants DEF Holders
<1>2. o \in Ours /\ \A b \in Holders \ {a} : ~Busy(b, o)
  BY <1>1, InFlight
<1>3. call'[a] = Idle /\ \A b \in Agents \ {a} : call'[b] = call[b]
  BY <1>1 DEF Ends, MirrorInv, Shape
<1>4. Holds(a)' /\ Told(a)' /\ Untold(a)'
  BY <1>3 DEF Holds, Told, Untold
<1>5. NoManual' => NoManual /\ call'["manual"] = Idle
  BY <1>1, <1>3, Constants DEF LeftFalls, Kept
<1>6. NoCrash' => NoCrash
  BY DEF LeftFalls
<1>7. NoManual' /\ NoCrash' => Settled(o)'
  BY DEF Settled
<1>8. (o \in Ours /\ po[o].owed /\ ~po'[o].owed) => ClearedBy(o)
  OBVIOUS
<1>9. \A p \in Orders \ {o} : po'[p] = po[p] /\ xero'[p] = xero[p]
  OBVIOUS
<1>10. /\ call[a] # Idle => call[a].order = o
       /\ call'[a] # Idle => call'[a].order = o
  BY <1>3
<1> QED BY <1>1, <1>2, <1>3, <1>4, <1>5, <1>6, <1>7, <1>8, <1>9, <1>10, Frame

\* A second call owes what it sends.
LEMMA AgainFacts ==
    ASSUME NEW c \in Call, c.sends = 2, c.spent = 1, NEW row \in Row
    PROVE  /\ Again(c, row) \in Call
           /\ Again(c, row).order = c.order /\ Again(c, row).void = c.void
           /\ Again(c, row).sends = 1 /\ Again(c, row).at = "calling"
           /\ Again(c, row).row.owed /\ Again(c, row).row.status = row.status
<1> DEFINE r == [row EXCEPT !.owed = TRUE]
<1>1. r \in Row /\ r.owed /\ r.status = row.status
  BY DEF Row
<1>2. Again(c, row) = [c EXCEPT !.row = r, !.sends = 2 - 1, !.spent = 1 + 1,
                                       !.at = "calling"]
  BY DEF Again
<1> HIDE DEF r
<1>3. Again(c, row) = [c EXCEPT !.row = r, !.sends = 1, !.spent = 2, !.at = "calling"]
  BY <1>2
<1>4. c = [order |-> c.order, row |-> c.row, sends |-> c.sends, spent |-> c.spent,
           void |-> c.void, at |-> c.at]
  BY DEF Call
<1>5. Again(c, row) = [order |-> c.order, row |-> r, sends |-> 1, spent |-> 2,
                       void |-> c.void, at |-> "calling"]
  BY <1>3, <1>4
<1>6. c.order \in Orders /\ c.void \in BOOLEAN
  BY DEF Call
<1> DEFINE d == [order |-> c.order, row |-> r, sends |-> 1, spent |-> 2,
                 void |-> c.void, at |-> "calling"]
<1>7. d \in Call
  BY <1>1, <1>6 DEF Call
<1>8. /\ d.order = c.order /\ d.void = c.void /\ d.sends = 1 /\ d.at = "calling" /\ d.row = r
  OBVIOUS
<1>9. Again(c, row) = d
  BY <1>5
<1> HIDE DEF d
<1> QED BY <1>1, <1>7, <1>8, <1>9

\* The handler's transaction ends, or owes and sends once more.
LEMMA ConcludeMirrored ==
    ASSUME MirrorInv, Kept, NEW a \in Holders, NEW row \in Row,
           call[a] # Idle, LeftFalls,
           Conclude(a, row), UNCHANGED xero,
           row.status = call[a].row.status,
           row.owed \/ call[a].at = "applied"
    PROVE  MirrorSound
<1>1. a \in Agents /\ a # "manual"
  BY Constants DEF Holders
<1>2. PICK o \in Orders : o = call[a].order
  BY <1>1, InFlight
<1>3. /\ call[a] \in Call /\ o \in Ours /\ po[o] \in Row /\ Holds(a)
      /\ \A b \in Holders \ {a} : ~Busy(b, o)
  BY <1>1, <1>2, InFlight DEF MirrorInv, Shape
<1>4. CASE call[a].sends > 1
  <2>1. call[a].sends = 2 /\ po[o].owed /\ call[a].spent = 1
    BY <1>2, <1>3, <1>4 DEF Call, Holds
  <2> DEFINE c == Again(call[a], row)
  <2>2. call' = [call EXCEPT ![a] = c] /\ UNCHANGED <<po, oldest, batch>>
    BY <1>4 DEF Conclude
  <2>4. /\ c \in Call /\ c.order = o /\ c.sends = 1 /\ c.void = call[a].void
        /\ c.at = "calling" /\ c.row.owed /\ c.row.status = row.status
    BY <1>2, <1>3, <2>1, AgainFacts
  <2> HIDE DEF c
  <2>5. c # Idle
    BY <2>4, CallFacts
  <2>6. /\ call'[a] = c /\ \A b \in Agents \ {a} : call'[b] = call[b]
        /\ call' \in [Agents -> Call \cup {Idle}]
    BY <1>1, <2>2, <2>4 DEF MirrorInv, Shape
  <2>7. Shape'
    <3>1. call'["stage"] # Idle => call["stage"] # Idle
      BY <1>1, <2>6, Constants
    <3> QED BY <2>2, <2>6, <3>1 DEF MirrorInv, Shape, LeftFalls
  <2>8. Holds(a)'
    BY <1>2, <1>3, <2>1, <2>2, <2>4, <2>6 DEF Holds
  <2>9. NoManual' => NoManual /\ call'["manual"] = Idle /\ Told(a)'
    <3>1. Told(a)'
      BY <2>4, <2>6 DEF Told
    <3> QED BY <1>1, <2>6, <3>1, Constants DEF LeftFalls, Kept
  <2>10. NoManual' /\ NoCrash' => NoCrash /\ Untold(a)' /\ Settled(o)'
    BY <2>1, <2>2, <2>4, <2>6 DEF LeftFalls, Untold, Settled
  <2>11. /\ ~(o \in Ours /\ po[o].owed /\ ~po'[o].owed)
         /\ \A p \in Orders \ {o} : po'[p] = po[p] /\ xero'[p] = xero[p]
         /\ (call[a] # Idle => call[a].order = o)
         /\ (call'[a] # Idle => call'[a].order = o)
    BY <1>2, <2>2, <2>4, <2>6
  <2> QED BY <1>1, <1>3, <2>6, <2>7, <2>8, <2>9, <2>10, <2>11, Frame
<1>5. CASE ~(call[a].sends > 1)
  <2>1. Ends(a) /\ StageGoesOn(a)
    BY <1>5 DEF Conclude
  <2>2. /\ po' \in [Orders -> Row] /\ oldest' \in Seq(Orders)
        /\ \A p \in Orders \ {o} : po'[p] = po[p]
        /\ po'[o].owed = row.owed /\ po'[o].status = row.status
    <3>1. CASE a = "operator"
      <4>1. Commit(o, row)
        BY <1>2, <1>5, <3>1 DEF Conclude
      <4>2. oldest' \in Seq(Orders)
        BY <4>1, TouchType DEF Commit, MirrorInv
      <4> QED BY <4>1, <4>2 DEF Commit, MirrorInv, Shape
    <3>2. CASE a # "operator"
      <4> DEFINE r == [po[o] EXCEPT !.linked = row.linked, !.owed = row.owed]
      <4>1. po' = [po EXCEPT ![o] = r] /\ UNCHANGED oldest
        BY <1>2, <1>5, <3>2 DEF Conclude
      <4>2. r \in Row /\ r.owed = row.owed /\ r.status = po[o].status
        BY <1>3 DEF Row
      <4> HIDE DEF r
      <4>3. a = "stage"
        BY <3>2 DEF Holders
      <4>4. po[o].status = row.status
        BY <1>2, <1>3, <4>3 DEF Holds
      <4> QED BY <4>1, <4>2, <4>4 DEF MirrorInv, Shape
    <3> QED BY <3>1, <3>2
  <2>3. Shape'
    <3>1. call' \in [Agents -> Call \cup {Idle}] /\ call'[a] = Idle
          /\ \A b \in Agents \ {a} : call'[b] = call[b]
      BY <1>1, <2>1 DEF Ends, MirrorInv, Shape
    <3>2. batch' \in Seq(Ours) /\ (call'["stage"] # Idle => batch' # <<>>)
      <4>1. CASE a = "stage"
        <5>1. batch # <<>> /\ batch \in Seq(Ours) /\ batch' = Tail(batch)
          BY <2>1, <4>1 DEF StageGoesOn, MirrorInv, Shape
        <5> QED BY <3>1, <4>1, <5>1
      <4>2. CASE a # "stage"
        BY <2>1, <3>1, <4>2, Constants DEF StageGoesOn, MirrorInv, Shape
      <4> QED BY <4>1, <4>2
    <3> QED BY <2>2, <3>1, <3>2 DEF MirrorInv, Shape, LeftFalls
  <2>4. NoManual' /\ NoCrash' => po'[o].owed \/ Agreed(o)'
    <3>1. ASSUME NoManual', ~row.owed PROVE xero[o] = XeroStatus[row.status]
      <4>1. Told(a)
        BY <3>1 DEF LeftFalls, Kept
      <4> QED BY <1>2, <3>1, <4>1 DEF Told
    <3> QED BY <2>2, <3>1 DEF Agreed
  <2>5. po[o].owed /\ ~po'[o].owed => ClearedBy(o)
    BY <1>2, <2>2 DEF ClearedBy, Holders
  <2> QED BY <1>2, <2>1, <2>2, <2>3, <2>4, <2>5, EndMirrored
<1> QED BY <1>4, <1>5

LEMMA AcknowledgeMirrored ==
    ASSUME MirrorInv, Kept, NEW a \in Agents, Acknowledge(a)
    PROVE  MirrorSound
<1> DEFINE row == [call[a].row EXCEPT !.linked = TRUE, !.owed = FALSE]
<1>1. /\ a \in Holders /\ call[a].at = "applied" /\ call[a] # Idle
      /\ Conclude(a, row) /\ UNCHANGED <<xero, left>>
  BY Constants DEF Acknowledge, Holders, Idle
<1>2. call[a].row \in Row
  BY <1>1, InFlight, CallFacts
<1>3. row \in Row /\ row.status = call[a].row.status
  BY <1>2 DEF Row
<1> HIDE DEF row
<1>4. LeftFalls
  BY <1>1, LeftStays DEF MirrorInv
<1> QED BY <1>1, <1>3, <1>4, ConcludeMirrored

LEMMA DeferMirrored ==
    ASSUME MirrorInv, Kept, NEW a \in Agents, Defer(a)
    PROVE  MirrorSound
<1>1. /\ a \in Holders /\ call[a] # Idle
      /\ Conclude(a, call[a].row) /\ Spend("faults") /\ UNCHANGED xero
  BY Constants DEF Defer, Holders, Free
<1>2. call[a].row \in Row /\ call[a].row.owed
  BY <1>1, InFlight, CallFacts DEF MirrorInv, Holds
<1>3. LeftFalls
  BY <1>1, SpendFacts DEF MirrorInv
<1> QED BY <1>1, <1>2, <1>3, ConcludeMirrored

\* A call that ends and leaves the row alone.
LEMMA DropMirrored ==
    ASSUME MirrorInv, Kept, NEW a \in Agents, call[a] # Idle, LeftFalls,
           UNCHANGED <<po, xero, oldest>>, Ends(a), batch' \in Seq(Ours),
           a # "stage" => batch' = batch,
           a \in Holders => (call[a].at = "calling" \/ ~NoCrash')
    PROVE  MirrorSound
<1>1. PICK o \in Orders : o = call[a].order
  BY InFlight
<1>2. /\ call' \in [Agents -> Call \cup {Idle}] /\ call'[a] = Idle
      /\ \A b \in Agents \ {a} : call'[b] = call[b]
  BY DEF Ends, MirrorInv, Shape
<1>3. Shape'
  BY <1>2, Constants DEF MirrorInv, Shape, LeftFalls
<1>4. CASE a \in Holders
  <2>1. NoManual' /\ NoCrash' => po'[o].owed \/ Agreed(o)'
    <3> SUFFICES ASSUME NoManual', NoCrash' PROVE po[o].owed \/ Agreed(o)
      BY DEF Agreed
    <3>1. Untold(a)
      BY <1>4 DEF LeftFalls, Kept
    <3> QED BY <1>1, <1>4, <3>1 DEF Untold
  <2> QED BY <1>1, <1>3, <1>4, <2>1, EndMirrored
<1>5. CASE a = "manual"
  <2>1. ~NoManual'
    BY <1>5, ManualUsed
  <2>2. batch' = batch /\ po' \in [Orders -> Row]
    BY <1>5 DEF MirrorInv, Shape
  <2> QED BY <1>1, <1>2, <1>5, <2>1, <2>2, ManualMirrored
<1> QED BY <1>4, <1>5, Constants DEF Holders

LEMMA RefuseMirrored ==
    ASSUME MirrorInv, Kept, NEW a \in Agents, Refuse(a)
    PROVE  MirrorSound
<1>1. /\ call[a].at = "calling" /\ call[a] # Idle /\ Ends(a) /\ StageGoesOn(a)
      /\ UNCHANGED <<po, xero, oldest>>
  BY DEF Refuse, Idle
<1>2. LeftFalls
  BY LeftStays, SpendFacts DEF Refuse, MirrorInv
<1>3. batch' \in Seq(Ours) /\ (a # "stage" => batch' = batch)
  <2>1. CASE a = "stage"
    <3>1. batch # <<>> /\ batch \in Seq(Ours) /\ batch' = Tail(batch)
      BY <1>1, <2>1 DEF StageGoesOn, MirrorInv, Shape
    <3> QED BY <2>1, <3>1
  <2>2. CASE a # "stage"
    BY <1>1, <2>2 DEF StageGoesOn, MirrorInv, Shape
  <2> QED BY <2>1, <2>2
<1> QED BY <1>1, <1>2, <1>3, DropMirrored

LEMMA CrashMirrored ==
    ASSUME MirrorInv, Kept, NEW a \in Agents, Crash(a)
    PROVE  MirrorSound
<1>1. /\ call[a] # Idle /\ Ends(a) /\ UNCHANGED <<po, xero, oldest>>
      /\ batch' = IF a = "stage" THEN <<>> ELSE batch
  BY DEF Crash, Free
<1>2. LeftFalls /\ ~NoCrash'
  BY SpendFacts DEF Crash, MirrorInv
<1>3. batch' \in Seq(Ours) /\ (a # "stage" => batch' = batch)
  BY <1>1 DEF MirrorInv, Shape
<1> QED BY <1>1, <1>2, <1>3, DropMirrored

-----------------------------------------------------------------------------
(* Results.                                                                *)

\* Every step keeps the invariant and clears only what was acknowledged.
LEMMA NextMirrored ==
    ASSUME MirrorInv, Kept, [MirrorNext]_mirrorVars
    PROVE  MirrorSound
<1>1. CASE \E o \in Orders :
               update_purchase_order(o) \/ process_delivery_receipt(o) \/ reverse_allocation(o) \/ transform_purchase_order(o)
  BY <1>1, PatchMirrored, ReceiveMirrored, ReverseMirrored, PullMirrored
<1>2. CASE \E o \in Orders : ManualPush(o) \/ ManualVoid(o)
  BY <1>2, ManualStartMirrored
<1>3. CASE StageList \/ StageSend
  BY <1>3, StageListMirrored, StageSendMirrored
<1>4. CASE \E a \in Agents :
               XeroApplies(a) \/ Acknowledge(a) \/ Defer(a) \/ Refuse(a) \/ Crash(a)
  BY <1>4, ApplyMirrored, AcknowledgeMirrored, DeferMirrored, RefuseMirrored, CrashMirrored
<1>5. CASE ManualStored \/ ManualFails
  BY <1>5, ManualEndMirrored
<1>6. CASE UNCHANGED mirrorVars
  <2>1. Shape'
    BY <1>6 DEF mirrorVars, MirrorInv, Shape
  <2> QED BY <1>6, <2>1, Quiet DEF mirrorVars
<1> QED BY <1>1, <1>2, <1>3, <1>4, <1>5, <1>6 DEF MirrorNext

\* What holds of every reachable state of the mirror.
THEOREM MirrorInvariance ==
    MirrorSpec => [](MirrorInv /\ Kept)
<1>1. MirrorInit => MirrorInv /\ Kept
  BY InitMirrored
<1>2. MirrorInv /\ Kept /\ [MirrorNext]_mirrorVars => (MirrorInv /\ Kept)'
  BY NextMirrored DEF MirrorSound
<1> QED BY <1>1, <1>2, PTL DEF MirrorSpec

\* An order of ours that owes Xero nothing, and has no call under way, is in Xero as it
\* stands, while nobody has used the manual endpoints and no worker has died in a call.
\* (xero_push_due, send_state_change)
THEOREM OwesNothingAgrees ==
    MirrorSpec => []NothingOwedMeansAgreed
<1>1. MirrorInv /\ Kept => NothingOwedMeansAgreed
  <2> SUFFICES ASSUME MirrorInv, Kept, NoManual, NoCrash, NEW o \in Ours
               PROVE  po[o].owed \/ UnderWay(o) \/ Agreed(o)
    BY DEF NothingOwedMeansAgreed, OwesOrAgrees
  <2>1. Settled(o)
    BY DEF Kept
  <2> QED BY <2>1, Constants DEF Settled, Busy, UnderWay, Free
<1> QED BY <1>1, MirrorInvariance, PTL

\* What an order owed is cleared only by a call that Xero applied, for the status that is
\* being committed. (send_state_change's row lock)
THEOREM AcknowledgedAsItStands ==
    MirrorSpec => AcknowledgesWhatStands
<1>1. MirrorInv /\ Kept /\ [MirrorNext]_mirrorVars =>
          [\A o \in Ours :
              po[o].owed /\ ~po'[o].owed =>
                  \E a \in {"operator", "stage"} :
                      /\ call[a].at = "applied" /\ call[a].order = o
                      /\ call[a].row.status = po'[o].status]_mirrorVars
  BY NextMirrored DEF MirrorSound, Cleared, ClearedBy
<1> QED BY <1>1, MirrorInvariance, PTL DEF MirrorSpec, AcknowledgesWhatStands

=============================================================================

---------------------------- MODULE OfficeProofs ---------------------------
(***************************************************************************)
(* What the office has to do with its parties, its staff and its database:  *)
(* BillsAndAdvancesAddUp of Bills for every limit, every number of calls    *)
(* and rows and every amount, TaxIsTracked of Tds for every section,        *)
(* invoices and challans, and so on down to ContextIsOwn of ConnectionPool. *)
(*                                                                         *)
(* Bills: a row that is locked is what its one holder has seen, so what is  *)
(* written back is computed from what the row holds; the status of a row is *)
(* that of its amount, so what counts against the limit is all that is      *)
(* pending; and while the party's bills are made one at a time, what        *)
(* validate_credit_limit saw still holds when the bill is made, because     *)
(* payments only lower it.                                                  *)
(*                                                                         *)
(* Costs: SharesAddUp for every entry, class and set of calls.  An entry     *)
(* that was allocated when posted stays so: what the trigger lets pass has  *)
(* deleted all of the one allocation that stands, so until it commits no    *)
(* other passes; and the shares add up because the last takes what rounding *)
(* left.                                                                    *)
(*                                                                         *)
(* Tds: the tracker's row is inserted by one call, and before that nothing  *)
(* is booked; what a call has read of it is at most what is booked, and one *)
(* at a time it is what the row still holds.                                *)
(*                                                                         *)
(* Provisions: ProvisionalIsPostedOnce for every number of bills, vouchers  *)
(* and calls.  A posting relies on its row lock: while it is held the row   *)
(* is not converted and no other call holds it.  A provisioning run relies  *)
(* on its cursor: a bill it has passed it does not meet again, and what     *)
(* others committed since it looked comes after what it saw.                *)
(*                                                                         *)
(* Payroll: the register, the run and the journal agree for every staff,    *)
(* every terms and any calls; what is left is that an approval has seen a   *)
(* run, and that a run listed everybody if nobody is hired.                 *)
(*                                                                         *)
(* Payslip: PayslipAddsUp for every contract, days lost and terms.  The      *)
(* loop over the slabs is unrolled and compared with the marginal rates by  *)
(* arithmetic; what a head loses to absence is off by a rupee and a half at *)
(* most, and so are sums of heads, times their number.                      *)
(*                                                                         *)
(* ConnectionPool: ContextIsOwn for every pool and every set of callers.    *)
(* What a session carries is its holder's own, so the invariant needs that  *)
(* a client has one holder; a client is handed to the head of the queue, so *)
(* that needs that who queues holds none of the kind it queues for; and a   *)
(* timer takes one entry of the queue, so that needs that nobody is in it   *)
(* twice.                                                                   *)
(***************************************************************************)
EXTENDS Bills, Costs, Tds, Provisions, Payroll, ConnectionPool, SumTheorems

(* Bills and advances                                                       *)
BillPlaces == {"start", "checked", "locked", "done", "refused"}
Payments == [bill : Nat, amount : Nat]

BillTypes ==
    /\ billAsked \in BillSettings
    /\ billStep \in [BillCall -> BillPlaces]
    /\ billSeen = [c \in BillCall |-> billSeen[c]]
    /\ bills \in Seq(BillRows)
    /\ history \in Seq(Payments)
    /\ given \in Seq(Payments)

(* The status of a row is that of its amount.                               *)
StatusFollows(b) ==
    /\ b.type = "NEW_REF" =>
          /\ b.status \in {"PENDING", "PARTIALLY_PAID", "SETTLED"}
          /\ (b.status = "SETTLED") <=> (b.pending = 0)
    /\ b.type = "ADVANCE" => b.status \in {"ADVANCE_PENDING", "ADVANCE_CONSUMED"}
StatusesFollow == \A i \in DOMAIN bills : StatusFollows(bills[i])

(* A row that is locked is still what its holder has seen, and has one      *)
(* holder.                                                                  *)
BillHeld(c) ==
    /\ BillIs(c, "adjust", "locked") => Adjustable(c) /\ billSeen[c] = RowOf(c)
    /\ BillIs(c, "consume", "locked") => Available(c) /\ billSeen[c] = RowOf(c)
BillsHeld == \A c \in BillCall : BillHeld(c)
BillsExclude == \A c, d \in DOMAIN billAsked :
    billStep[c] = "locked" /\ billStep[d] = "locked" /\ billAsked[c].bill = billAsked[d].bill => c = d

(* Who is paid is there.                                                    *)
PaidIsThere ==
    /\ \A h \in DOMAIN history : history[h].bill \in DOMAIN bills
    /\ \A g \in DOMAIN given : given[g].bill \in DOMAIN bills

(* While the party's bills are made one at a time, what validate_credit_limit *)
(* saw holds until the bill is made.                                        *)
OneBill == Cardinality({c \in DOMAIN billAsked : billAsked[c].kind = "bill"}) <= 1
Owed == PendingOf(bills, NewRefs(bills))
WithinLimit == OneBill =>
    /\ Owed <= CreditLimit
    /\ \A c \in BillCall : BillIs(c, "bill", "checked") => Owed + billAsked[c].amount <= CreditLimit

BillInv ==
    /\ BillTypes /\ StatusesFollow /\ BillsHeld /\ BillsExclude /\ PaidIsThere /\ WithinLimit
    /\ BillsAddUp /\ AdvancesAddUp

-----------------------------------------------------------------------------
(* Sums of amounts and of what is pending.                                  *)
LEMMA AmountIs ==
    ASSUME NEW rows, NEW S, IsFiniteSet(S), \A n \in S : rows[n].amount \in Int
    PROVE  /\ Weighs([n \in S |-> rows[n].amount], S)
           /\ AmountOf(rows, S) = SumFunctionOnSet([n \in S |-> rows[n].amount], S)
<1>1. PICK w : w = [n \in S |-> rows[n].amount]
  OBVIOUS
<1>2. Weighs(w, S)
  BY <1>1 DEF Weighs
<1>3. PICK h : Unrolls(h, S, w) /\ SumFunctionOnSet(w, S) = h[S]
  BY <1>2, SumUnrolls
<1>4. PICK g : g = CHOOSE f : f = [s \in SUBSET S |->
                     IF s = {} THEN 0 ELSE rows[AnyOf(s)].amount + f[s \ {AnyOf(s)}]]
  OBVIOUS
<1>5. AmountOf(rows, S) = g[S]
  BY <1>4 DEF AmountOf, MapThenSumSet, MapThenFoldSet, AnyOf
<1>6. \A s \in SUBSET S : s # {} => w[AnyOf(s)] = rows[AnyOf(s)].amount
  BY <1>1, AnyOfIsIn
<1>7. h = [s \in SUBSET S |-> IF s = {} THEN 0 ELSE rows[AnyOf(s)].amount + h[s \ {AnyOf(s)}]]
  BY <1>3, <1>6 DEF Unrolls
<1>8. g = [s \in SUBSET S |-> IF s = {} THEN 0 ELSE rows[AnyOf(s)].amount + g[s \ {AnyOf(s)}]]
  BY <1>4, <1>7, Zenon
<1>9. Unrolls(g, S, w)
  BY <1>6, <1>8 DEF Unrolls
<1> QED
  BY <1>1, <1>2, <1>3, <1>5, <1>9, SameValues

LEMMA PendingIs ==
    ASSUME NEW rows, NEW S, IsFiniteSet(S), \A n \in S : rows[n].pending \in Int
    PROVE  /\ Weighs([n \in S |-> rows[n].pending], S)
           /\ PendingOf(rows, S) = SumFunctionOnSet([n \in S |-> rows[n].pending], S)
<1>1. PICK w : w = [n \in S |-> rows[n].pending]
  OBVIOUS
<1>2. Weighs(w, S)
  BY <1>1 DEF Weighs
<1>3. PICK h : Unrolls(h, S, w) /\ SumFunctionOnSet(w, S) = h[S]
  BY <1>2, SumUnrolls
<1>4. PICK g : g = CHOOSE f : f = [s \in SUBSET S |->
                     IF s = {} THEN 0 ELSE rows[AnyOf(s)].pending + f[s \ {AnyOf(s)}]]
  OBVIOUS
<1>5. PendingOf(rows, S) = g[S]
  BY <1>4 DEF PendingOf, MapThenSumSet, MapThenFoldSet, AnyOf
<1>6. \A s \in SUBSET S : s # {} => w[AnyOf(s)] = rows[AnyOf(s)].pending
  BY <1>1, AnyOfIsIn
<1>7. h = [s \in SUBSET S |-> IF s = {} THEN 0 ELSE rows[AnyOf(s)].pending + h[s \ {AnyOf(s)}]]
  BY <1>3, <1>6 DEF Unrolls
<1>8. g = [s \in SUBSET S |-> IF s = {} THEN 0 ELSE rows[AnyOf(s)].pending + g[s \ {AnyOf(s)}]]
  BY <1>4, <1>7, Zenon
<1>9. Unrolls(g, S, w)
  BY <1>6, <1>8 DEF Unrolls
<1> QED
  BY <1>1, <1>2, <1>3, <1>5, <1>9, SameValues

PaidFor(rows, b) == {n \in DOMAIN rows : rows[n].bill = b}

LEMMA RowsAreFinite ==
    ASSUME NEW T, NEW rows \in Seq(T), NEW S \in SUBSET DOMAIN rows
    PROVE  IsFiniteSet(S)
<1>1. DOMAIN rows = 1 .. Len(rows) /\ Len(rows) \in Nat
  OBVIOUS
<1>2. IsFiniteSet(1 .. Len(rows))
  BY <1>1, FS_Interval
<1> QED
  BY <1>1, <1>2, FS_Subset

LEMMA AmountOfNone == ASSUME NEW rows PROVE AmountOf(rows, {}) = 0
  BY AmountIs, SumOfNone, FS_EmptySet

LEMMA PaymentCounts ==
    ASSUME NEW rows \in Seq(Payments), NEW p \in Payments, NEW b
    PROVE  /\ AmountOf(rows, PaidFor(rows, b)) \in Int
           /\ p.bill = b => AmountOf(Append(rows, p), PaidFor(Append(rows, p), b))
                              = AmountOf(rows, PaidFor(rows, b)) + p.amount
           /\ p.bill # b => AmountOf(Append(rows, p), PaidFor(Append(rows, p), b))
                              = AmountOf(rows, PaidFor(rows, b))
<1>1. PICK more : more = Append(rows, p)
  OBVIOUS
<1>2. PICK n : n = Len(rows) + 1
  OBVIOUS
<1>3. /\ DOMAIN rows = 1 .. n - 1 /\ DOMAIN more = 1 .. n /\ more[n] = p /\ n \in Nat \ {0} /\ n \notin DOMAIN rows
      /\ \A i \in DOMAIN rows : more[i] = rows[i] /\ rows[i] \in Payments
      /\ more \in Seq(Payments)
  BY <1>1, <1>2
<1>4. PICK S : S = PaidFor(rows, b)
  OBVIOUS
<1>5. PICK T : T = PaidFor(more, b)
  OBVIOUS
<1>6. S \subseteq DOMAIN rows /\ T \subseteq DOMAIN more
  BY <1>4, <1>5 DEF PaidFor
<1>7. IsFiniteSet(S) /\ IsFiniteSet(T)
  BY <1>3, <1>6, RowsAreFinite
<1>16. \A q \in Payments : q.amount \in Int
  BY DEF Payments
<1>17. \A i \in DOMAIN more : more[i] \in Payments
  BY <1>3
<1>8. (\A i \in S : rows[i].amount \in Int) /\ (\A i \in T : more[i].amount \in Int)
  BY <1>3, <1>6, <1>16, <1>17
<1>9. PICK w : w = [i \in S |-> rows[i].amount]
  OBVIOUS
<1>10. PICK v : v = [i \in T |-> more[i].amount]
  OBVIOUS
<1>11. /\ Weighs(w, S) /\ AmountOf(rows, S) = SumFunctionOnSet(w, S)
       /\ Weighs(v, T) /\ AmountOf(more, T) = SumFunctionOnSet(v, T)
  BY <1>7, <1>8, <1>9, <1>10, AmountIs
<1>12. \A i \in S : i \in T /\ w[i] = v[i]
  BY <1>3, <1>4, <1>5, <1>9, <1>10 DEF PaidFor
<1>13. AmountOf(rows, S) = SumFunctionOnSet(v, S) /\ Weighs(v, S) /\ AmountOf(rows, S) \in Int
  BY <1>11, <1>12, SumIsSame, SumIsInt DEF Weighs
<1>14. CASE p.bill = b
  <2>1. DOMAIN more = DOMAIN rows \cup {n} /\ n \notin S
    BY <1>3, <1>6
  <2>2. T = S \cup {n}
    BY <1>3, <1>4, <1>5, <1>14, <2>1 DEF PaidFor
  <2>3. v[n] = p.amount /\ v[n] \in Int
    BY <1>3, <1>10, <1>16, <2>2
  <2> QED
    BY <1>1, <1>4, <1>5, <1>11, <1>13, <1>14, <2>1, <2>2, <2>3, SumOfMore
<1>15. CASE p.bill # b
  <2>1. T = S
    BY <1>3, <1>4, <1>5, <1>15 DEF PaidFor
  <2> QED
    BY <1>1, <1>4, <1>5, <1>11, <1>13, <1>15, <2>1
<1> QED
  BY <1>14, <1>15

(* What is pending: of a row more, and of a row changed.                    *)
LEMMA PendingOfMore ==
    ASSUME NEW rows \in Seq(BillRows), NEW row \in BillRows
    PROVE  /\ PendingOf(rows, NewRefs(rows)) \in Int
           /\ PendingOf(Append(rows, row), NewRefs(Append(rows, row)))
                = PendingOf(rows, NewRefs(rows)) + (IF row.type = "NEW_REF" THEN row.pending ELSE 0)
<1>1. PICK more : more = Append(rows, row)
  OBVIOUS
<1>2. PICK n : n = Len(rows) + 1
  OBVIOUS
<1>3. /\ DOMAIN rows = 1 .. n - 1 /\ DOMAIN more = 1 .. n /\ more[n] = row /\ n \in Nat \ {0} /\ n \notin DOMAIN rows
      /\ \A i \in DOMAIN rows : more[i] = rows[i] /\ rows[i] \in BillRows
      /\ more \in Seq(BillRows)
  BY <1>1, <1>2
<1>4. PICK S : S = NewRefs(rows)
  OBVIOUS
<1>5. PICK T : T = NewRefs(more)
  OBVIOUS
<1>6. S \subseteq DOMAIN rows /\ T \subseteq DOMAIN more
  BY <1>4, <1>5 DEF NewRefs
<1>7. IsFiniteSet(S) /\ IsFiniteSet(T)
  BY <1>3, <1>6, RowsAreFinite
<1>8. \A q \in BillRows : q.pending \in Int
  BY DEF BillRows
<1>9. \A i \in DOMAIN more : more[i] \in BillRows
  BY <1>3
<1>10. (\A i \in S : rows[i].pending \in Int) /\ (\A i \in T : more[i].pending \in Int)
  BY <1>3, <1>6, <1>8, <1>9
<1>11. PICK w : w = [i \in S |-> rows[i].pending]
  OBVIOUS
<1>12. PICK v : v = [i \in T |-> more[i].pending]
  OBVIOUS
<1>13. /\ Weighs(w, S) /\ PendingOf(rows, S) = SumFunctionOnSet(w, S)
       /\ Weighs(v, T) /\ PendingOf(more, T) = SumFunctionOnSet(v, T)
  BY <1>7, <1>10, <1>11, <1>12, PendingIs
<1>14. \A i \in S : i \in T /\ w[i] = v[i]
  BY <1>3, <1>4, <1>5, <1>11, <1>12 DEF NewRefs
<1>15. PendingOf(rows, S) = SumFunctionOnSet(v, S) /\ Weighs(v, S) /\ PendingOf(rows, S) \in Int
  BY <1>13, <1>14, SumIsSame, SumIsInt DEF Weighs
<1>16. DOMAIN more = DOMAIN rows \cup {n} /\ n \notin S
  BY <1>3, <1>6
<1>17. CASE row.type = "NEW_REF"
  <2>1. T = S \cup {n}
    BY <1>3, <1>4, <1>5, <1>16, <1>17 DEF NewRefs
  <2>2. v[n] = row.pending /\ v[n] \in Int
    BY <1>3, <1>8, <1>12, <2>1
  <2> QED
    BY <1>1, <1>4, <1>5, <1>13, <1>15, <1>16, <1>17, <2>1, <2>2, SumOfMore
<1>18. CASE row.type # "NEW_REF"
  <2>1. T = S
    BY <1>3, <1>4, <1>5, <1>18 DEF NewRefs
  <2> QED
    BY <1>1, <1>4, <1>5, <1>13, <1>15, <1>18, <2>1
<1> QED
  BY <1>17, <1>18

LEMMA PendingOfChanged ==
    ASSUME NEW rows \in Seq(BillRows), NEW b \in DOMAIN rows, NEW row \in BillRows, row.type = rows[b].type
    PROVE  /\ PendingOf(rows, NewRefs(rows)) \in Int
           /\ PendingOf([rows EXCEPT ![b] = row], NewRefs([rows EXCEPT ![b] = row]))
                = PendingOf(rows, NewRefs(rows))
                    + (IF row.type = "NEW_REF" THEN row.pending - rows[b].pending ELSE 0)
<1>1. PICK new : new = [rows EXCEPT ![b] = row]
  OBVIOUS
<1>2. /\ DOMAIN new = DOMAIN rows /\ new[b] = row /\ new \in Seq(BillRows)
      /\ \A i \in DOMAIN rows \ {b} : new[i] = rows[i]
  BY <1>1
<1>3. PICK S : S = NewRefs(rows)
  OBVIOUS
<1>4. S = NewRefs(new) /\ S \subseteq DOMAIN rows
  BY <1>2, <1>3 DEF NewRefs
<1>5. \A q \in BillRows : q.pending \in Int
  BY DEF BillRows
<1>6. \A i \in DOMAIN rows : rows[i] \in BillRows /\ new[i] \in BillRows
  BY <1>2
<1>7. IsFiniteSet(S) /\ \A i \in S : rows[i].pending \in Int /\ new[i].pending \in Int
  BY <1>4, <1>5, <1>6, RowsAreFinite
<1>8. PICK w : w = [i \in S |-> rows[i].pending]
  OBVIOUS
<1>9. PICK v : v = [i \in S |-> new[i].pending]
  OBVIOUS
<1>10. /\ Weighs(w, S) /\ PendingOf(rows, S) = SumFunctionOnSet(w, S)
       /\ Weighs(v, S) /\ PendingOf(new, S) = SumFunctionOnSet(v, S)
  BY <1>7, <1>8, <1>9, PendingIs
<1>11. \A i \in S \ {b} : v[i] = w[i]
  BY <1>2, <1>4, <1>8, <1>9
<1>12. SumFunctionOnSet(w, S) \in Int
  BY <1>10, SumIsInt
<1>13. CASE b \in S
  <2>1. /\ w[b] = rows[b].pending /\ v[b] = row.pending /\ v[b] \in Int /\ row.type = "NEW_REF"
        /\ rows[b].pending \in Int /\ row.pending \in Int
    BY <1>2, <1>3, <1>7, <1>8, <1>9, <1>13 DEF NewRefs
  <2>2. SumFunctionOnSet(v, S) = SumFunctionOnSet(w, S) - w[b] + v[b]
    BY <1>10, <1>11, <1>13, <2>1, SumChanges
  <2> QED
    BY <1>1, <1>3, <1>4, <1>10, <1>12, <2>1, <2>2
<1>14. CASE b \notin S
  <2>1. SumFunctionOnSet(v, S) = SumFunctionOnSet(w, S) /\ row.type # "NEW_REF"
    BY <1>3, <1>10, <1>11, <1>14, SumIsSame DEF NewRefs
  <2> QED
    BY <1>1, <1>3, <1>4, <1>10, <1>12, <2>1
<1> QED
  BY <1>13, <1>14

(* What is counted against the limit is all that is pending: a bill that is *)
(* settled has nothing left.                                                *)
LEMMA ExposureIsOwed ==
    ASSUME BillTypes, StatusesFollow
    PROVE  Exposure = Owed
<1>1. PICK S : S = NewRefs(bills)
  OBVIOUS
<1>2. PICK T : T = {n \in DOMAIN bills : Counted(bills[n])}
  OBVIOUS
<1>3. \A q \in BillRows : q.pending \in Int /\ q.type \in {"NEW_REF", "ADVANCE"}
  BY DEF BillRows
<1>4. \A i \in DOMAIN bills : bills[i] \in BillRows
  BY DEF BillTypes
<1>5. T \subseteq S /\ S \subseteq DOMAIN bills /\ \A i \in S \ T : bills[i].pending = 0
  BY <1>1, <1>2, <1>3, <1>4 DEF NewRefs, Counted, StatusesFollow, StatusFollows
<1>6. IsFiniteSet(S) /\ IsFiniteSet(T) /\ IsFiniteSet(S \ T)
  BY <1>5, RowsAreFinite, FS_Subset DEF BillTypes
<1>7. PICK w : w = [i \in S |-> bills[i].pending]
  OBVIOUS
<1>8. PICK v : v = [i \in T |-> bills[i].pending]
  OBVIOUS
<1>9. /\ Weighs(w, S) /\ PendingOf(bills, S) = SumFunctionOnSet(w, S)
      /\ Weighs(v, T) /\ PendingOf(bills, T) = SumFunctionOnSet(v, T)
  BY <1>3, <1>4, <1>5, <1>6, <1>7, <1>8, PendingIs
<1>10. SumFunctionOnSet(w, S \ T) = 0 /\ Weighs(w, S \ T)
  BY <1>5, <1>6, <1>7, SumOfZeros
<1>11. SumFunctionOnSet(w, T) = SumFunctionOnSet(v, T) /\ Weighs(w, T) /\ SumFunctionOnSet(v, T) \in Int
  BY <1>5, <1>7, <1>8, <1>9, SumIsSame, SumIsInt DEF Weighs
<1>12. S = T \cup (S \ T) /\ T \cap (S \ T) = {}
  BY <1>5
<1>13. SumFunctionOnSet(w, S) = SumFunctionOnSet(w, T) + SumFunctionOnSet(w, S \ T)
  BY <1>10, <1>11, <1>12, SumOfBoth
<1> QED
  BY <1>1, <1>2, <1>9, <1>10, <1>11, <1>13 DEF Exposure, Owed

LEMMA OwedIsInt == ASSUME BillTypes PROVE Owed \in Int
<1>1. BillRow("ADVANCE", 1, "ADVANCE_PENDING") \in BillRows
  BY DEF BillRow, BillRows
<1> QED
  BY <1>1, PendingOfMore DEF Owed, BillTypes

-----------------------------------------------------------------------------
LEMMA BillAsks ==
    ASSUME BillTypes, NEW c \in DOMAIN billAsked
    PROVE  c \in BillCall /\ billAsked[c].amount \in Nat \ {0}
  BY BillAssumption DEF BillTypes

(* What the rows are made of.                                               *)
LEMMA BillRowIs ==
    /\ \A n \in Nat \ {0} :
          /\ BillRow("NEW_REF", n, "PENDING") \in BillRows
          /\ BillRow("ADVANCE", n, "ADVANCE_PENDING") \in BillRows
    /\ \A b \in BillRows :
          /\ b.type \in {"NEW_REF", "ADVANCE"} /\ b.original \in Nat \ {0} /\ b.pending \in Nat /\ b.settled \in Nat
  BY DEF BillRow, BillRows

LEMMA BillStarts == BillInit => BillInv
<1> SUFFICES ASSUME BillInit PROVE BillInv
  OBVIOUS
<1>1. /\ bills = OldBills /\ bills \in Seq(BillRows) /\ history = <<>> /\ given = <<>>
      /\ \A i \in DOMAIN bills : \E n \in Nat \ {0} :
            bills[i] \in {BillRow("NEW_REF", n, "PENDING"), BillRow("ADVANCE", n, "ADVANCE_PENDING")}
  <2>1. bills = OldBills /\ bills \in Seq(BillRows) /\ history = <<>> /\ given = <<>>
    BY OldBillsAssumption DEF BillInit
  <2> SUFFICES ASSUME NEW i \in DOMAIN bills
               PROVE \E n \in Nat \ {0} :
                  bills[i] \in {BillRow("NEW_REF", n, "PENDING"), BillRow("ADVANCE", n, "ADVANCE_PENDING")}
    BY <2>1
  <2>2. bills[i] \in BillRows
    BY <2>1
  <2> QED
    BY <2>1, <2>2, OldBillsAssumption, BillRowIs
<1>2. BillTypes
  BY <1>1 DEF BillInit, BillTypes, BillPlaces
<1>3. StatusesFollow
  BY <1>1 DEF StatusesFollow, StatusFollows, BillRow
<1>4. \A c : (billStep[c] # "locked" /\ billStep[c] # "checked") \/ c \notin BillCall
  BY DEF BillInit
<1>5. DOMAIN billAsked \subseteq BillCall
  BY <1>2, BillAsks
<1>6. BillsHeld /\ BillsExclude /\ PaidIsThere
  BY <1>1, <1>4, <1>5 DEF BillsHeld, BillHeld, BillIs, BillsExclude, PaidIsThere
<1>7. WithinLimit
  BY <1>1, <1>4, OldBillsAssumption DEF WithinLimit, Owed, BillIs
<1>8. \A i : getBillHistory(i) = {} /\ {g \in DOMAIN given : given[g].bill = i} = {}
  BY <1>1 DEF getBillHistory
<1>9. BillsAddUp /\ AdvancesAddUp
  <2>1. \A i \in DOMAIN bills :
          bills[i].settled = 0 /\ bills[i].pending = bills[i].original /\ bills[i].original \in Nat
    BY <1>1 DEF BillRow
  <2>2. AmountOf(history, {}) = 0 /\ AmountOf(given, {}) = 0
    BY AmountOfNone
  <2>3. BillsAddUp
    BY <1>8, <2>1, <2>2 DEF BillsAddUp
  <2>4. AdvancesAddUp
    BY <1>8, <2>1, <2>2 DEF AdvancesAddUp
  <2> QED
    BY <2>3, <2>4
<1> QED
  BY <1>2, <1>3, <1>6, <1>7, <1>9 DEF BillInv

-----------------------------------------------------------------------------
(* A call that goes on, or gives up, with the tables as they are.           *)
LEMMA BillWaits ==
    ASSUME BillInv, NEW c \in DOMAIN billAsked, NEW where \in BillPlaces, BillGoto(c, where),
           NEW seen, billSeen' = [billSeen EXCEPT ![c] = seen], UNCHANGED <<billAsked, billTables>>,
           where = "checked" => (OneBill => Owed + billAsked[c].amount <= CreditLimit),
           where = "locked" => BillFree(c) /\ seen = RowOf(c)
              /\ (billAsked[c].kind = "adjust" => Adjustable(c))
              /\ (billAsked[c].kind = "consume" => Available(c))
    PROVE  BillInv'
<1>1. /\ UNCHANGED <<bills, history, given>>
      /\ c \in BillCall /\ billStep' = [billStep EXCEPT ![c] = where]
      /\ billStep'[c] = where /\ billSeen'[c] = seen
      /\ \A d \in BillCall \ {c} : billStep'[d] = billStep[d] /\ billSeen'[d] = billSeen[d]
  BY BillAsks DEF BillInv, BillTypes, BillGoto, billTables
<1>2. BillTypes'
  BY <1>1 DEF BillInv, BillTypes
<1>3. BillsHeld'
  BY <1>1 DEF BillInv, BillsHeld, BillHeld, BillIs, Adjustable, Available, Exists, RowOf
<1>4. BillsExclude'
  BY <1>1, BillAsks DEF BillInv, BillsExclude, BillFree
<1>5. WithinLimit'
  BY <1>1 DEF BillInv, WithinLimit, OneBill, Owed, BillIs
<1> QED
  BY <1>1, <1>2, <1>3, <1>4, <1>5
  DEF BillInv, StatusesFollow, PaidIsThere, BillsAddUp, AdvancesAddUp, getBillHistory

(* A call that commits leaves the rows others hold as they were.            *)
LEMMA OthersHold ==
    ASSUME BillInv, NEW c \in DOMAIN billAsked, BillEnd(c, "done"), UNCHANGED billAsked,
           DOMAIN bills \subseteq DOMAIN bills',
           \A d \in DOMAIN billAsked \ {c} :
              billStep[d] = "locked" /\ billAsked[d].bill \in DOMAIN bills =>
                 bills'[billAsked[d].bill] = bills[billAsked[d].bill]
    PROVE  /\ BillsHeld' /\ BillsExclude'
           /\ billStep' \in [BillCall -> BillPlaces] /\ billSeen' = [d \in BillCall |-> billSeen'[d]]
           /\ billAsked' \in BillSettings
           /\ \A d \in BillCall : BillIs(d, "bill", "checked")' => d # c /\ BillIs(d, "bill", "checked")
<1>1. /\ c \in BillCall /\ billStep'[c] = "done"
      /\ \A d \in BillCall \ {c} : billStep'[d] = billStep[d] /\ billSeen'[d] = billSeen[d]
      /\ billStep' \in [BillCall -> BillPlaces] /\ billSeen' = [d \in BillCall |-> billSeen'[d]]
      /\ billAsked' \in BillSettings
  BY BillAsks DEF BillInv, BillTypes, BillEnd, BillGoto, BillPlaces
<1>2. BillsHeld'
  <2> SUFFICES ASSUME NEW d \in BillCall, d # c, d \in DOMAIN billAsked, billStep[d] = "locked" PROVE BillHeld(d)'
    BY <1>1 DEF BillsHeld, BillHeld, BillIs
  <2>1. BillHeld(d) /\ billStep'[d] = "locked" /\ billSeen'[d] = billSeen[d]
    BY <1>1 DEF BillInv, BillsHeld
  <2> QED
    BY <2>1 DEF BillHeld, BillIs, Adjustable, Available, Exists, RowOf
<1>3. BillsExclude'
  BY <1>1, BillAsks DEF BillInv, BillsExclude
<1> QED
  BY <1>1, <1>2, <1>3 DEF BillIs

LEMMA OnlyOneBill ==
    ASSUME BillTypes, OneBill, NEW c \in DOMAIN billAsked, NEW d \in DOMAIN billAsked,
           billAsked[c].kind = "bill", billAsked[d].kind = "bill"
    PROVE  c = d
<1> SUFFICES ASSUME c # d PROVE FALSE
  OBVIOUS
<1>1. PICK S : S = {e \in DOMAIN billAsked : billAsked[e].kind = "bill"}
  OBVIOUS
<1>2. S \subseteq BillCall /\ IsFiniteSet(BillCall)
  BY <1>1, BillAsks, BillAssumption
<1>3. IsFiniteSet(S)
  BY <1>2, FS_Subset
<1>4. {c, d} \subseteq S
  BY <1>1
<1>5. Cardinality({c, d}) = 2
  <2>1. IsFiniteSet({c}) /\ Cardinality({c}) = 1
    BY FS_Singleton
  <2>2. d \notin {c} /\ {c, d} = {c} \cup {d}
    OBVIOUS
  <2>3. Cardinality({c} \cup {d}) = Cardinality({c}) + 1
    BY <2>1, <2>2, FS_AddElement
  <2> QED
    BY <2>1, <2>2, <2>3
<1>6. Cardinality({c, d}) <= Cardinality(S) /\ Cardinality(S) \in Nat
  BY <1>3, <1>4, FS_Subset, FS_CardinalityType
<1> QED
  BY <1>1, <1>5, <1>6 DEF OneBill

(* A new bill, which the limit has room for, or a new advance.              *)
LEMMA BillMade ==
    ASSUME BillInv, NEW c \in DOMAIN billAsked, NEW row, bills' = Append(bills, row), BillEnd(c, "done"),
           UNCHANGED <<billAsked, history, given>>,
           \/ (row = BillRow("NEW_REF", billAsked[c].amount, "PENDING") /\ BillIs(c, "bill", "checked"))
           \/ row = BillRow("ADVANCE", billAsked[c].amount, "ADVANCE_PENDING")
    PROVE  BillInv'
<1>1. /\ billAsked[c].amount \in Nat \ {0} /\ row \in BillRows /\ bills \in Seq(BillRows)
      /\ c \in BillCall
  BY BillAsks, BillRowIs DEF BillInv, BillTypes
<1>2. PICK n : n = Len(bills) + 1
  OBVIOUS
<1>3. /\ n \in Nat \ {0} /\ bills' \in Seq(BillRows) /\ DOMAIN bills = 1 .. n - 1 /\ DOMAIN bills' = 1 .. n
      /\ n \notin DOMAIN bills /\ bills'[n] = row /\ \A i \in DOMAIN bills : bills'[i] = bills[i]
  BY <1>1, <1>2
<1>4. DOMAIN bills' = DOMAIN bills \cup {n}
  BY <1>3
<1>5. /\ BillsHeld' /\ BillsExclude'
      /\ billStep' \in [BillCall -> BillPlaces] /\ billSeen' = [d \in BillCall |-> billSeen'[d]]
      /\ billAsked' \in BillSettings
      /\ \A d \in BillCall : BillIs(d, "bill", "checked")' => d # c /\ BillIs(d, "bill", "checked")
  BY <1>3, <1>4, OthersHold
<1>6. BillTypes'
  BY <1>3, <1>5 DEF BillInv, BillTypes
<1>7. StatusesFollow' /\ PaidIsThere'
  <2>1. StatusFollows(row)
    BY <1>1 DEF StatusFollows, BillRow
  <2> QED
    BY <1>3, <1>4, <2>1 DEF BillInv, StatusesFollow, PaidIsThere
<1>8. WithinLimit'
  <2> SUFFICES ASSUME OneBill
               PROVE  /\ Owed' <= CreditLimit
                      /\ \A d \in BillCall : BillIs(d, "bill", "checked")' =>
                            Owed' + billAsked[d].amount <= CreditLimit
    BY DEF WithinLimit, OneBill
  <2>1. Owed \in Int /\ Owed' = Owed + (IF row.type = "NEW_REF" THEN row.pending ELSE 0)
    BY <1>1, PendingOfMore DEF Owed
  <2>2. Owed <= CreditLimit /\ \A d \in BillCall : BillIs(d, "bill", "checked") => Owed + billAsked[d].amount <= CreditLimit
    BY DEF BillInv, WithinLimit
  <2>3. CASE row = BillRow("NEW_REF", billAsked[c].amount, "PENDING") /\ BillIs(c, "bill", "checked")
    <3>1. Owed' = Owed + billAsked[c].amount
      BY <2>1, <2>3 DEF BillRow
    <3>2. \A d \in BillCall : ~ BillIs(d, "bill", "checked")'
      BY <1>5, <2>3, OnlyOneBill DEF BillIs, BillInv
    <3> QED
      BY <1>1, <2>2, <2>3, <3>1, <3>2
  <2>4. CASE row = BillRow("ADVANCE", billAsked[c].amount, "ADVANCE_PENDING")
    <3>1. Owed' = Owed
      BY <2>1, <2>4 DEF BillRow
    <3> QED
      BY <1>5, <2>2, <3>1
  <2> QED
    BY <2>3, <2>4
<1>9. /\ getBillHistory(n) = {} /\ {g \in DOMAIN given : given[g].bill = n} = {}
  BY <1>3 DEF BillInv, PaidIsThere, getBillHistory
<1>10. row.settled = 0 /\ row.pending = row.original /\ row.original \in Nat
  BY <1>1 DEF BillRow
<1>11. AmountOf(history, {}) = 0 /\ AmountOf(given, {}) = 0
  BY AmountOfNone
<1>12. BillsAddUp' /\ AdvancesAddUp'
  <2>1. history' = history /\ given' = given
    OBVIOUS
  <2>2. \A i \in DOMAIN bills' : (i = n /\ bills'[i] = row) \/ (i \in DOMAIN bills /\ bills'[i] = bills[i])
    BY <1>3, <1>4
  <2>3. ASSUME NEW i \in DOMAIN bills', bills'[i].type = "NEW_REF"
        PROVE  /\ bills'[i].pending >= 0 /\ bills'[i].pending + bills'[i].settled = bills'[i].original
               /\ bills'[i].settled = AmountOf(history, getBillHistory(i))
    <3>1. CASE i = n /\ bills'[i] = row
      <4>1. AmountOf(history, getBillHistory(i)) = 0
        BY <1>9, <1>11, <3>1
      <4> QED
        BY <1>10, <3>1, <4>1
    <3>2. CASE i \in DOMAIN bills /\ bills'[i] = bills[i]
      <4>1. \A j \in DOMAIN bills : bills[j].type = "NEW_REF" =>
              /\ bills[j].pending >= 0 /\ bills[j].pending + bills[j].settled = bills[j].original
              /\ bills[j].settled = AmountOf(history, getBillHistory(j))
        BY DEF BillInv, BillsAddUp
      <4>2. PICK old : old = bills[i]
        OBVIOUS
      <4> QED
        BY <2>3, <3>2, <4>1, <4>2
    <3> QED
      BY <2>2, <3>1, <3>2
  <2>4. ASSUME NEW i \in DOMAIN bills', bills'[i].type = "ADVANCE"
        PROVE  /\ bills'[i].pending >= 0
               /\ bills'[i].original = bills'[i].pending + AmountOf(given, {g \in DOMAIN given : given[g].bill = i})
    <3>1. CASE i = n /\ bills'[i] = row
      <4>1. {g \in DOMAIN given : given[g].bill = i} = {}
        BY <1>9, <3>1
      <4>2. AmountOf(given, {g \in DOMAIN given : given[g].bill = i}) = 0
        BY <1>11, <4>1
      <4> QED
        BY <1>10, <3>1, <4>2
    <3>2. CASE i \in DOMAIN bills /\ bills'[i] = bills[i]
      <4>1. \A j \in DOMAIN bills : bills[j].type = "ADVANCE" =>
              /\ bills[j].pending >= 0
              /\ bills[j].original = bills[j].pending + AmountOf(given, {g \in DOMAIN given : given[g].bill = j})
        BY DEF BillInv, AdvancesAddUp
      <4>2. PICK old : old = bills[i]
        OBVIOUS
      <4> QED
        BY <2>4, <3>2, <4>1, <4>2
    <3> QED
      BY <2>2, <3>1, <3>2
  <2>5. BillsAddUp'
    <3>1. \A i : getBillHistory(i)' = getBillHistory(i)
      BY DEF getBillHistory
    <3> QED
      BY <2>3, <3>1 DEF BillsAddUp
  <2>6. AdvancesAddUp'
    BY <2>1, <2>4 DEF AdvancesAddUp
  <2> QED
    BY <2>5, <2>6
<1> QED
  BY <1>5, <1>6, <1>7, <1>8, <1>12 DEF BillInv

(* A row is changed by the call that holds it.                              *)
LEMMA BillChanged ==
    ASSUME BillInv, NEW c \in DOMAIN billAsked, billStep[c] = "locked", NEW b \in DOMAIN bills,
           b = billAsked[c].bill, NEW row \in BillRows, row.type = bills[b].type, row.pending <= bills[b].pending,
           StatusFollows(row), bills' = [bills EXCEPT ![b] = row], BillEnd(c, "done"), UNCHANGED billAsked
    PROVE  /\ BillsHeld' /\ BillsExclude' /\ WithinLimit' /\ StatusesFollow'
           /\ billStep' \in [BillCall -> BillPlaces] /\ billSeen' = [d \in BillCall |-> billSeen'[d]]
           /\ billAsked' \in BillSettings /\ bills' \in Seq(BillRows)
           /\ DOMAIN bills' = DOMAIN bills /\ bills'[b] = row
           /\ \A i \in DOMAIN bills \ {b} : bills'[i] = bills[i]
<1>1. /\ bills \in Seq(BillRows) /\ bills' \in Seq(BillRows)
      /\ DOMAIN bills' = DOMAIN bills /\ bills'[b] = row
      /\ \A i \in DOMAIN bills \ {b} : bills'[i] = bills[i]
  BY DEF BillInv, BillTypes
<1>2. \A d \in DOMAIN billAsked \ {c} : billStep[d] = "locked" => billAsked[d].bill # b
  BY DEF BillInv, BillsExclude
<1>3. /\ BillsHeld' /\ BillsExclude'
      /\ billStep' \in [BillCall -> BillPlaces] /\ billSeen' = [d \in BillCall |-> billSeen'[d]]
      /\ billAsked' \in BillSettings
      /\ \A d \in BillCall : BillIs(d, "bill", "checked")' => d # c /\ BillIs(d, "bill", "checked")
  BY <1>1, <1>2, OthersHold
<1>4. WithinLimit'
  <2> SUFFICES ASSUME OneBill
               PROVE  /\ Owed' <= CreditLimit
                      /\ \A d \in BillCall : BillIs(d, "bill", "checked")' =>
                            Owed' + billAsked[d].amount <= CreditLimit
    BY DEF WithinLimit, OneBill
  <2>1. Owed \in Int /\ Owed' = Owed + (IF row.type = "NEW_REF" THEN row.pending - bills[b].pending ELSE 0)
    BY <1>1, PendingOfChanged, ZenonT(60) DEF Owed
  <2>2. row.pending \in Nat /\ bills[b].pending \in Nat
    BY <1>1, BillRowIs
  <2>3. Owed' \in Int /\ Owed' <= Owed
    BY <2>1, <2>2
  <2>4. /\ Owed <= CreditLimit
        /\ \A d \in BillCall : BillIs(d, "bill", "checked") => Owed + billAsked[d].amount <= CreditLimit
    BY DEF BillInv, WithinLimit
  <2>5. \A d \in BillCall : BillIs(d, "bill", "checked") => billAsked[d].amount \in Nat
    BY BillAsks DEF BillInv, BillIs
  <2> QED
    BY <1>3, <2>1, <2>3, <2>4, <2>5, BillAssumption
<1>5. StatusesFollow'
  BY <1>1 DEF BillInv, StatusesFollow
<1> QED
  BY <1>1, <1>3, <1>4, <1>5

LEMMA BillPaid == ASSUME BillInv, NEW c \in BillCall, adjustBill(c) PROVE BillInv'
<1>1. /\ c \in DOMAIN billAsked /\ billStep[c] = "locked" /\ Adjustable(c) /\ billSeen[c] = RowOf(c)
      /\ BillEnd(c, "done") /\ UNCHANGED <<billAsked, given>>
  BY DEF adjustBill, BillIs, BillInv, BillsHeld, BillHeld
<1>2. PICK b, old, amount : b = billAsked[c].bill /\ old = bills[b] /\ amount = billAsked[c].amount
  OBVIOUS
<1>3. /\ b \in DOMAIN bills /\ old \in BillRows /\ old.type = "NEW_REF" /\ amount \in Nat \ {0}
      /\ amount <= old.pending /\ old.status # "SETTLED" /\ b \in Nat /\ RowOf(c) = old
  BY <1>1, <1>2, BillAsks DEF Adjustable, Exists, RowOf, BillInv, BillTypes
<1>4. PICK row : row = [old EXCEPT !.pending = old.pending - amount, !.status = NewStatus(old.pending - amount),
                                  !.settled = old.settled + amount]
  OBVIOUS
<1>5. bills' = [bills EXCEPT ![b] = row] /\ history' = Append(history, [bill |-> b, amount |-> amount])
  BY <1>1, <1>2, <1>3, <1>4 DEF adjustBill
<1>6. /\ row \in BillRows /\ row.type = "NEW_REF" /\ row.pending = old.pending - amount
      /\ row.settled = old.settled + amount /\ row.original = old.original
      /\ row.status = NewStatus(old.pending - amount)
  <2>1. old.pending \in Nat /\ old.settled \in Nat
    BY <1>3, BillRowIs
  <2>2. /\ old.pending - amount \in Nat /\ old.settled + amount \in Nat
        /\ NewStatus(old.pending - amount) \in {"SETTLED", "PARTIALLY_PAID"}
    BY <1>3, <2>1 DEF NewStatus
  <2> QED
    BY <1>3, <1>4, <2>2 DEF BillRows
<1>7. StatusFollows(row) /\ row.pending <= bills[b].pending /\ row.pending >= 0
  BY <1>2, <1>3, <1>6, BillRowIs DEF StatusFollows, NewStatus
<1>8. /\ BillsHeld' /\ BillsExclude' /\ WithinLimit' /\ StatusesFollow'
      /\ billStep' \in [BillCall -> BillPlaces] /\ billSeen' = [d \in BillCall |-> billSeen'[d]]
      /\ billAsked' \in BillSettings /\ bills' \in Seq(BillRows)
      /\ DOMAIN bills' = DOMAIN bills /\ bills'[b] = row
      /\ \A i \in DOMAIN bills \ {b} : bills'[i] = bills[i]
  BY <1>1, <1>2, <1>3, <1>5, <1>6, <1>7, BillChanged
<1>9. PICK p : p = [bill |-> b, amount |-> amount]
  OBVIOUS
<1>10. p \in Payments /\ p.bill = b /\ p.amount = amount /\ history \in Seq(Payments) /\ history' = Append(history, p)
  BY <1>3, <1>5, <1>9 DEF Payments, BillInv, BillTypes
<1>11. BillTypes' /\ PaidIsThere'
  <2>1. /\ history' \in Seq(Payments)
        /\ \A h \in DOMAIN history' : (h \in DOMAIN history /\ history'[h] = history[h]) \/ history'[h] = p
    BY <1>10
  <2> QED
    BY <1>1, <1>3, <1>8, <1>10, <2>1 DEF BillInv, BillTypes, PaidIsThere
<1>12. BillsAddUp'
  <2> SUFFICES ASSUME NEW i \in DOMAIN bills, bills'[i].type = "NEW_REF"
               PROVE  /\ bills'[i].pending >= 0 /\ bills'[i].pending + bills'[i].settled = bills'[i].original
                      /\ bills'[i].settled = AmountOf(history', PaidFor(history', i))
    BY <1>8 DEF BillsAddUp, getBillHistory, PaidFor
  <2>1. bills[i].type = "NEW_REF" => /\ bills[i].pending >= 0 /\ bills[i].pending + bills[i].settled = bills[i].original
                                     /\ bills[i].settled = AmountOf(history, PaidFor(history, i))
    BY DEF BillInv, BillsAddUp, getBillHistory, PaidFor
  <2>2. CASE i = b
    <3>1. AmountOf(history', PaidFor(history', i)) = AmountOf(history, PaidFor(history, i)) + amount
      BY <1>10, <2>2, PaymentCounts
    <3>2. /\ old.pending \in Nat /\ old.settled \in Nat /\ old.original \in Nat
          /\ old.pending + old.settled = old.original /\ old.settled = AmountOf(history, PaidFor(history, i))
      BY <1>2, <1>3, <2>1, <2>2, BillRowIs
    <3> QED
      BY <1>3, <1>6, <1>7, <1>8, <2>2, <3>1, <3>2
  <2>3. CASE i # b
    <3>1. AmountOf(history', PaidFor(history', i)) = AmountOf(history, PaidFor(history, i))
      BY <1>10, <2>3, PaymentCounts
    <3> QED
      BY <1>8, <2>1, <2>3, <3>1
  <2> QED
    BY <2>2, <2>3
<1>13. AdvancesAddUp'
  BY <1>1, <1>6, <1>8, ZenonT(60) DEF BillInv, AdvancesAddUp
<1> QED
  BY <1>8, <1>11, <1>12, <1>13 DEF BillInv

(* What is taken of an advance: no more than is left of it.                 *)
LEMMA LesserIs ==
    ASSUME NEW a \in Int, NEW b \in Int
    PROVE  Min({a, b}) = IF a <= b THEN a ELSE b
  BY DEF Min

LEMMA AdvanceUsed == ASSUME BillInv, NEW c \in BillCall, consumeAdvance(c) PROVE BillInv'
<1>1. /\ c \in DOMAIN billAsked /\ billStep[c] = "locked" /\ Available(c) /\ billSeen[c] = RowOf(c)
      /\ BillEnd(c, "done") /\ UNCHANGED <<billAsked, history>>
  BY DEF consumeAdvance, BillIs, BillInv, BillsHeld, BillHeld
<1>2. PICK b, old, used : b = billAsked[c].bill /\ old = bills[b] /\ used = Consumed(c)
  OBVIOUS
<1>3. /\ b \in DOMAIN bills /\ old \in BillRows /\ old.type = "ADVANCE" /\ billAsked[c].amount \in Nat \ {0}
      /\ b \in Nat /\ RowOf(c) = old
  BY <1>1, <1>2, BillAsks DEF Available, Exists, RowOf, BillInv, BillTypes
<1>4. used \in Nat /\ used <= old.pending /\ old.pending \in Nat
  <2>1. old.pending \in Nat
    BY <1>3, BillRowIs
  <2>2. used = IF old.pending <= billAsked[c].amount THEN old.pending ELSE billAsked[c].amount
    BY <1>1, <1>2, <1>3, <2>1, LesserIs DEF Consumed
  <2> QED
    BY <1>3, <2>1, <2>2
<1>5. PICK row : row = [old EXCEPT !.pending = old.pending - used,
                          !.status = IF old.pending - used <= 0 THEN "ADVANCE_CONSUMED" ELSE "ADVANCE_PENDING"]
  OBVIOUS
<1>6. bills' = [bills EXCEPT ![b] = row] /\ given' = Append(given, [bill |-> b, amount |-> used])
  BY <1>1, <1>2, <1>3, <1>5 DEF consumeAdvance
<1>7. /\ row \in BillRows /\ row.type = "ADVANCE" /\ row.pending = old.pending - used
      /\ row.original = old.original /\ StatusFollows(row) /\ row.pending <= bills[b].pending /\ row.pending >= 0
  <2>1. old.pending - used \in Nat
    BY <1>4
  <2>2. row \in BillRows /\ row.type = "ADVANCE" /\ row.pending = old.pending - used /\ row.original = old.original
        /\ row.status \in {"ADVANCE_CONSUMED", "ADVANCE_PENDING"}
    BY <1>3, <1>5, <2>1 DEF BillRows
  <2> QED
    BY <1>2, <1>4, <2>1, <2>2 DEF StatusFollows
<1>8. /\ BillsHeld' /\ BillsExclude' /\ WithinLimit' /\ StatusesFollow'
      /\ billStep' \in [BillCall -> BillPlaces] /\ billSeen' = [d \in BillCall |-> billSeen'[d]]
      /\ billAsked' \in BillSettings /\ bills' \in Seq(BillRows)
      /\ DOMAIN bills' = DOMAIN bills /\ bills'[b] = row
      /\ \A i \in DOMAIN bills \ {b} : bills'[i] = bills[i]
  BY <1>1, <1>2, <1>3, <1>6, <1>7, BillChanged
<1>9. PICK p : p = [bill |-> b, amount |-> used]
  OBVIOUS
<1>10. p \in Payments /\ p.bill = b /\ p.amount = used /\ given \in Seq(Payments) /\ given' = Append(given, p)
  BY <1>3, <1>4, <1>6, <1>9 DEF Payments, BillInv, BillTypes
<1>11. BillTypes' /\ PaidIsThere'
  <2>1. /\ given' \in Seq(Payments)
        /\ \A g \in DOMAIN given' : (g \in DOMAIN given /\ given'[g] = given[g]) \/ given'[g] = p
    BY <1>10
  <2> QED
    BY <1>1, <1>3, <1>8, <1>10, <2>1 DEF BillInv, BillTypes, PaidIsThere
<1>12. AdvancesAddUp'
  <2> SUFFICES ASSUME NEW i \in DOMAIN bills, bills'[i].type = "ADVANCE"
               PROVE  /\ bills'[i].pending >= 0
                      /\ bills'[i].original = bills'[i].pending + AmountOf(given', PaidFor(given', i))
    BY <1>8 DEF AdvancesAddUp, PaidFor
  <2>1. bills[i].type = "ADVANCE" => /\ bills[i].pending >= 0
                                     /\ bills[i].original = bills[i].pending + AmountOf(given, PaidFor(given, i))
    BY DEF BillInv, AdvancesAddUp, PaidFor
  <2>2. CASE i = b
    <3>1. /\ AmountOf(given', PaidFor(given', i)) = AmountOf(given, PaidFor(given, i)) + used
          /\ AmountOf(given, PaidFor(given, i)) \in Int
      BY <1>10, <2>2, PaymentCounts
    <3>2. old.original = old.pending + AmountOf(given, PaidFor(given, i))
      BY <1>2, <1>3, <2>1, <2>2
    <3> QED
      BY <1>4, <1>7, <1>8, <2>2, <3>1, <3>2
  <2>3. CASE i # b
    <3>1. AmountOf(given', PaidFor(given', i)) = AmountOf(given, PaidFor(given, i))
      BY <1>10, <2>3, PaymentCounts
    <3> QED
      BY <1>8, <2>1, <2>3, <3>1
  <2> QED
    BY <2>2, <2>3
<1>13. BillsAddUp'
  <2> SUFFICES ASSUME NEW i \in DOMAIN bills, bills'[i].type = "NEW_REF"
               PROVE  /\ bills'[i].pending >= 0 /\ bills'[i].pending + bills'[i].settled = bills'[i].original
                      /\ bills'[i].settled = AmountOf(history, getBillHistory(i))
    BY <1>1, <1>8, ZenonT(60) DEF BillsAddUp, getBillHistory
  <2>1. i # b /\ bills'[i] = bills[i]
    BY <1>7, <1>8
  <2> QED
    BY <2>1 DEF BillInv, BillsAddUp
<1> QED
  BY <1>8, <1>11, <1>12, <1>13 DEF BillInv

-----------------------------------------------------------------------------
LEMMA BillStepKeeps == ASSUME BillInv, NEW c \in BillCall,
           \/ validateCredit(c) \/ createBill(c) \/ createAdvance(c) \/ LockBill(c)
           \/ LockAdvance(c) \/ BillRefused(c) \/ adjustBill(c) \/ consumeAdvance(c) \/ BillFail(c)
    PROVE  BillInv'
<1>1. CASE validateCredit(c)
  <2>1. c \in DOMAIN billAsked /\ UNCHANGED <<billAsked, billTables>>
    BY <1>1 DEF validateCredit, BillIs
  <2>2. CASE Exposure + billAsked[c].amount > CreditLimit
    BY <1>1, <2>1, <2>2, BillWaits DEF validateCredit, BillEnd, BillPlaces
  <2>3. CASE ~ (Exposure + billAsked[c].amount > CreditLimit)
    <3>1. BillGoto(c, "checked") /\ billSeen' = [billSeen EXCEPT ![c] = billSeen[c]]
      BY <1>1, <2>3 DEF validateCredit, BillInv, BillTypes
    <3>2. Owed \in Int /\ Exposure = Owed /\ billAsked[c].amount \in Nat
      BY <2>1, ExposureIsOwed, OwedIsInt, BillAsks DEF BillInv
    <3>3. Owed + billAsked[c].amount <= CreditLimit
      BY <2>3, <3>2, BillAssumption
    <3> QED
      BY <2>1, <3>1, <3>3, BillWaits DEF BillPlaces
  <2> QED
    BY <2>2, <2>3
<1>2. CASE createBill(c)
  <2>1. PICK row : row = BillRow("NEW_REF", billAsked[c].amount, "PENDING")
    OBVIOUS
  <2> QED
    BY <1>2, <2>1, BillMade DEF createBill, BillIs
<1>3. CASE createAdvance(c)
  <2>1. PICK row : row = BillRow("ADVANCE", billAsked[c].amount, "ADVANCE_PENDING")
    OBVIOUS
  <2> QED
    BY <1>3, <2>1, BillMade DEF createAdvance, BillIs
<1>4. CASE LockBill(c)
  BY <1>4, BillWaits DEF LockBill, Take, BillIs, BillPlaces
<1>5. CASE LockAdvance(c)
  BY <1>5, BillWaits DEF LockAdvance, Take, BillIs, BillPlaces
<1>6. CASE BillRefused(c)
  BY <1>6, BillWaits DEF BillRefused, BillEnd, BillIs, BillPlaces
<1>7. CASE adjustBill(c)
  BY <1>7, BillPaid
<1>8. CASE consumeAdvance(c)
  BY <1>8, AdvanceUsed
<1>9. CASE BillFail(c)
  BY <1>9, BillWaits DEF BillFail, BillEnd, BillPlaces
<1> QED
  BY <1>1, <1>2, <1>3, <1>4, <1>5, <1>6, <1>7, <1>8, <1>9

LEMMA BillStutters == ASSUME BillInv, UNCHANGED billVars PROVE BillInv'
<1>1. UNCHANGED <<billAsked, billStep, billSeen, bills, history, given>>
  BY DEF billVars
<1>2. BillTypes' /\ StatusesFollow' /\ PaidIsThere'
  BY <1>1 DEF BillInv, BillTypes, StatusesFollow, PaidIsThere
<1>3. BillsHeld' /\ BillsExclude'
  BY <1>1 DEF BillInv, BillsHeld, BillHeld, BillIs, Adjustable, Available, Exists, RowOf, BillsExclude
<1>4. WithinLimit'
  BY <1>1 DEF BillInv, WithinLimit, OneBill, Owed, BillIs
<1>5. BillsAddUp' /\ AdvancesAddUp'
  BY <1>1 DEF BillInv, BillsAddUp, AdvancesAddUp, getBillHistory
<1> QED
  BY <1>2, <1>3, <1>4, <1>5 DEF BillInv

LEMMA BillInvIsKept == BillSpec => []BillInv
<1>1. BillInv /\ [BillNext]_billVars => BillInv'
  BY BillStepKeeps, BillStutters DEF BillNext
<1> QED
  BY <1>1, BillStarts, PTL DEF BillSpec

LEMMA BillInvAddsUp == BillInv => BillsAndAdvancesAddUp
<1> SUFFICES ASSUME BillInv PROVE BillsAndAdvancesAddUp
  OBVIOUS
<1>1. OffersWhatCanBeSettled
  <2> SUFFICES ASSUME NEW i \in DOMAIN bills, bills[i].type = "NEW_REF"
               PROVE  bills[i].status \in {"PENDING", "PARTIALLY_PAID"} /\ bills[i].pending > 0
                         <=> bills[i].status \notin {"SETTLED", "CANCELLED"}
    BY DEF OffersWhatCanBeSettled, getPendingBills
  <2>1. bills[i].pending \in Nat /\ StatusFollows(bills[i])
    BY BillRowIs DEF BillInv, BillTypes, StatusesFollow
  <2> QED
    BY <2>1 DEF StatusFollows
<1>2. LimitHoldsForOneBill
  BY DEF BillInv, WithinLimit, OneBill, Owed, LimitHoldsForOneBill
<1> QED
  BY <1>1, <1>2 DEF BillsAndAdvancesAddUp, BillInv

(* In whatever order the bills and advances of a party are made, settled    *)
(* and used, they add up, the list a payment is matched from is right, and  *)
(* the limit holds while bills are made one at a time.                      *)
THEOREM SettledInAnyOrder == BillSpec => []BillsAndAdvancesAddUp
  BY BillInvIsKept, BillInvAddsUp, PTL

-----------------------------------------------------------------------------
(* Tax deducted at source                                                   *)
TdsPlaces == {"start", "tracked", "missed", "created", "listed", "done", "refused"}
TrackerRow == [there : BOOLEAN, taxable : Int, tds : Int]
BookedRow == [taxable : Nat, tds : Int]
Challan == [serial : Nat, total : Int, entries : SUBSET Nat]

TdsTypes ==
    /\ tdsAsked \in TdsSettings
    /\ tdsStep \in [TdsCall -> TdsPlaces]
    /\ tracked \in [TdsCall -> Int]
    /\ listed \in [TdsCall -> SUBSET Nat]
    /\ tracker \in TrackerRow
    /\ booked \in Seq(BookedRow)
    /\ tdsEntries \in Seq(Int)
    /\ challans \in Seq(Challan)

(* The row of the tracker is there from the first deduction on; who read it *)
(* or inserts it goes on from an amount that is booked.                     *)
TrackerIsThere ==
    /\ ~tracker.there => tracker = NoTracker /\ booked = <<>>
    /\ \A c \in TdsCall :
          /\ tdsStep[c] = "tracked" => tracker.there
          /\ tdsStep[c] = "created" => ~tracker.there
          /\ tdsStep[c] # "tracked" => tracked[c] = 0
          /\ tracked[c] <= Upto(Len(booked))
    /\ \A c, d \in TdsCall : tdsStep[c] = "created" /\ tdsStep[d] = "created" => c = d

(* One at a time, what a call has read still holds when it commits.         *)
OneAtATime == tdsAsked.serial =>
    /\ \A c, d \in TdsCall : Busy(c) /\ Busy(d) => c = d
    /\ \A c \in TdsCall : tdsStep[c] = "tracked" => tracked[c] = tracker.taxable
    /\ \A c \in TdsCall : tdsStep[c] = "listed" =>
          \A p \in DOMAIN challans : listed[c] \cap challans[p].entries = {}

DepositsList == \A c \in DOMAIN tdsAsked.calls : tdsStep[c] = "listed" => Bill(c).kind = "deposit"

TdsInv ==
    /\ TdsTypes /\ TrackerIsThere /\ OneAtATime /\ DepositsList
    /\ TrackedTdsIsDeducted /\ TrackedAmountIsBooked /\ DeductedPastThreshold /\ DepositedOnce

-----------------------------------------------------------------------------
(* Tax is taken of an amount that is not negative, and is not negative.     *)
LEMMA TaxesAreInt ==
    ASSUME TdsTypes
    PROVE  \A n \in Nat : TdsOn(n) \in Int
<1>1. \A a, b \in Int : RoundTax(a, 100) \in Int /\ RoundTax(a, 10000) \in Int
  BY DEF RoundTax
<1>2. \A a, b \in Int : PercentOf(a, b) \in Int
  BY <1>1 DEF PercentOf
<1>3. PICK s : s = tdsAsked.section
  OBVIOUS
<1>4. /\ s \in TdsSections
      /\ s.default \in Int /\ s.special \in Int /\ s.lower \in Int /\ s.surcharge \in Int /\ s.cess \in Int
  BY <1>3, TdsAssumption DEF TdsTypes, TdsSections
<1>5. Max({s.default, 2000}) \in Int
  BY <1>4 DEF Max
<1>6. Rate \in Int
  BY <1>3, <1>4, <1>5 DEF Rate
<1> SUFFICES ASSUME NEW n \in Nat PROVE TdsOn(n) \in Int
  OBVIOUS
<1>7. PICK tax : tax = PercentOf(n, Rate)
  OBVIOUS
<1>8. tax \in Int
  BY <1>2, <1>6, <1>7
<1>9. PercentOf(tax, s.surcharge) \in Int
  BY <1>2, <1>4, <1>8
<1>10. PICK both : both = tax + PercentOf(tax, s.surcharge)
  OBVIOUS
<1>11. both \in Int
  BY <1>8, <1>9, <1>10
<1>11a. PercentOf(both, s.cess) \in Int
  BY <1>2, <1>4, <1>11
<1>12. TdsOn(n) = both + PercentOf(both, s.cess)
  BY <1>3, <1>7, <1>10 DEF TdsOn
<1> QED
  BY <1>11, <1>11a, <1>12

-----------------------------------------------------------------------------
(* Sums of what is booked and of the deductions.                            *)
LEMMA SumTdsIs ==
    ASSUME NEW seq \in Seq(Int)
    PROVE  Weighs(seq, DOMAIN seq) /\ SumTds(seq) = SumFunctionOnSet(seq, DOMAIN seq)
<1>0. PICK S : S = DOMAIN seq
  OBVIOUS
<1>1. IsFiniteSet(S) /\ \A i \in S : seq[i] \in Int
  <2>1. DOMAIN seq = 1 .. Len(seq) /\ Len(seq) \in Nat
    OBVIOUS
  <2> QED
    BY <1>0, <2>1, FS_Interval
<1>2. Weighs(seq, S)
  BY <1>1 DEF Weighs
<1>3. PICK h : Unrolls(h, S, seq) /\ SumFunctionOnSet(seq, S) = h[S]
  BY <1>2, SumUnrolls
<1>4. PICK g : g = CHOOSE f : f = [s \in SUBSET S |-> IF s = {} THEN 0 ELSE seq[AnyOf(s)] + f[s \ {AnyOf(s)}]]
  OBVIOUS
<1>5. SumTds(seq) = g[S]
  BY <1>0, <1>4 DEF SumTds, MapThenSumSet, MapThenFoldSet, AnyOf
<1>6. h = [s \in SUBSET S |-> IF s = {} THEN 0 ELSE seq[AnyOf(s)] + h[s \ {AnyOf(s)}]]
  BY <1>3 DEF Unrolls
<1>7. g = [s \in SUBSET S |-> IF s = {} THEN 0 ELSE seq[AnyOf(s)] + g[s \ {AnyOf(s)}]]
  BY <1>4, <1>6, Zenon
<1>8. Unrolls(g, S, seq)
  BY <1>7 DEF Unrolls
<1> QED
  BY <1>0, <1>2, <1>3, <1>5, <1>8, SameValues

LEMMA TaxableOfIs ==
    ASSUME NEW rows, NEW n \in Nat, NEW v, \A i \in 1 .. n : v[i] = rows[i].taxable /\ v[i] \in Int
    PROVE  Weighs(v, 1 .. n) /\ TaxableOf(rows, n) = SumFunctionOnSet(v, 1 .. n)
<1>0. PICK S : S = 1 .. n
  OBVIOUS
<1>1. PICK w : w = [i \in S |-> rows[i].taxable]
  OBVIOUS
<1>2. IsFiniteSet(S) /\ Weighs(w, S) /\ Weighs(v, S) /\ \A i \in S : w[i] = v[i]
  <2>1. IsFiniteSet(1 .. n)
    BY FS_Interval
  <2>2. \A i \in S : w[i] = v[i] /\ v[i] \in Int
    BY <1>0, <1>1
  <2> QED
    BY <1>0, <2>1, <2>2 DEF Weighs
<1>2a. Weighs(w, S)
  BY <1>2
<1>3. PICK h : Unrolls(h, S, w) /\ SumFunctionOnSet(w, S) = h[S]
  BY <1>2a, SumUnrolls
<1>4. PICK g : g = CHOOSE f : f = [s \in SUBSET S |->
                     IF s = {} THEN 0 ELSE rows[AnyOf(s)].taxable + f[s \ {AnyOf(s)}]]
  OBVIOUS
<1>5. TaxableOf(rows, n) = g[S]
  BY <1>0, <1>4 DEF TaxableOf, MapThenSumSet, MapThenFoldSet, AnyOf
<1>6. \A s \in SUBSET S : s # {} => w[AnyOf(s)] = rows[AnyOf(s)].taxable
  BY <1>1, AnyOfIsIn
<1>7. h = [s \in SUBSET S |-> IF s = {} THEN 0 ELSE rows[AnyOf(s)].taxable + h[s \ {AnyOf(s)}]]
  BY <1>3, <1>6 DEF Unrolls
<1>8. g = [s \in SUBSET S |-> IF s = {} THEN 0 ELSE rows[AnyOf(s)].taxable + g[s \ {AnyOf(s)}]]
  BY <1>4, <1>7, Zenon
<1>9. Unrolls(g, S, w)
  BY <1>6, <1>8 DEF Unrolls
<1>10. g[S] = h[S]
  BY <1>2, <1>3, <1>9, SameValues
<1>11. SumFunctionOnSet(w, S) = SumFunctionOnSet(v, S)
  BY <1>2, SumIsSame
<1> QED
  BY <1>0, <1>2, <1>3, <1>5, <1>10, <1>11

LEMMA DeductionCounts ==
    ASSUME NEW seq \in Seq(Int), NEW tax \in Int
    PROVE  SumTds(seq) \in Int /\ SumTds(Append(seq, tax)) = SumTds(seq) + tax
<1>1. PICK more : more = Append(seq, tax)
  OBVIOUS
<1>2. PICK n : n = Len(seq) + 1
  OBVIOUS
<1>3. /\ DOMAIN seq = 1 .. n - 1 /\ DOMAIN more = 1 .. n /\ more[n] = tax /\ n \in Nat \ {0} /\ n \notin DOMAIN seq
      /\ \A i \in DOMAIN seq : more[i] = seq[i]
      /\ more \in Seq(Int)
  BY <1>1, <1>2
<1>4. DOMAIN more = DOMAIN seq \cup {n}
  BY <1>3
<1>5. /\ Weighs(seq, DOMAIN seq) /\ SumTds(seq) = SumFunctionOnSet(seq, DOMAIN seq)
      /\ Weighs(more, DOMAIN more) /\ SumTds(more) = SumFunctionOnSet(more, DOMAIN more)
  BY <1>3, SumTdsIs
<1>6. PICK S : S = DOMAIN seq
  OBVIOUS
<1>7. SumFunctionOnSet(seq, S) = SumFunctionOnSet(more, S) /\ Weighs(more, S) /\ SumFunctionOnSet(seq, S) \in Int
  BY <1>3, <1>5, <1>6, SumIsSame, SumIsInt DEF Weighs
<1>8. SumFunctionOnSet(more, S \cup {n}) = SumFunctionOnSet(more, S) + more[n]
  BY <1>3, <1>6, <1>7, SumOfMore
<1> QED
  BY <1>1, <1>3, <1>4, <1>5, <1>6, <1>7, <1>8

LEMMA NothingTaxable == \A rows : TaxableOf(rows, 0) = 0
<1> SUFFICES ASSUME NEW rows PROVE TaxableOf(rows, 0) = 0
  OBVIOUS
<1>1. 1 .. 0 = {} /\ 0 \in Nat
  OBVIOUS
<1>2. TaxableOf(rows, 0) = SumFunctionOnSet([i \in 1 .. 0 |-> rows[i].taxable], 1 .. 0)
  BY <1>1, TaxableOfIs
<1> QED
  BY <1>1, <1>2, SumOfNone

LEMMA BookedCounts ==
    ASSUME NEW rows \in Seq(BookedRow), NEW row \in BookedRow
    PROVE  /\ \A m \in 0 .. Len(rows) : TaxableOf(rows, m) \in Nat /\ TaxableOf(Append(rows, row), m) = TaxableOf(rows, m)
           /\ TaxableOf(Append(rows, row), Len(rows) + 1) = TaxableOf(rows, Len(rows)) + row.taxable
<1>1. PICK more : more = Append(rows, row)
  OBVIOUS
<1>2. PICK n : n = Len(rows) + 1
  OBVIOUS
<1>3. /\ DOMAIN rows = 1 .. n - 1 /\ DOMAIN more = 1 .. n /\ more[n] = row /\ n \in Nat \ {0} /\ n \notin DOMAIN rows
      /\ n - 1 = Len(rows) /\ n - 1 \in Nat
      /\ \A i \in DOMAIN rows : more[i] = rows[i] /\ rows[i] \in BookedRow
      /\ more \in Seq(BookedRow)
  BY <1>1, <1>2
<1>4. \A q \in BookedRow : q.taxable \in Nat
  BY DEF BookedRow
<1>5. \A i \in 1 .. n : more[i].taxable \in Nat
  BY <1>3, <1>4
<1>6. PICK v : v = [i \in 1 .. n |-> more[i].taxable]
  OBVIOUS
<1>7. ASSUME NEW m \in 0 .. n - 1
      PROVE  /\ TaxableOf(rows, m) \in Nat /\ TaxableOf(more, m) = TaxableOf(rows, m)
             /\ TaxableOf(more, m) = SumFunctionOnSet(v, 1 .. m) /\ Weighs(v, 1 .. m)
  <2>1. m \in Nat /\ 1 .. m \subseteq 1 .. n /\ 1 .. m \subseteq DOMAIN rows
    BY <1>3
  <2>2. \A i \in 1 .. m : v[i] = more[i].taxable /\ v[i] = rows[i].taxable /\ v[i] \in Nat
    BY <1>3, <1>5, <1>6, <2>1
  <2>3. Weighs(v, 1 .. m) /\ TaxableOf(rows, m) = SumFunctionOnSet(v, 1 .. m)
    BY <2>1, <2>2, TaxableOfIs
  <2>4. TaxableOf(more, m) = SumFunctionOnSet(v, 1 .. m)
    BY <2>1, <2>2, TaxableOfIs
  <2>5. SumFunctionOnSet(v, 1 .. m) \in Nat
    <3>1. IsFiniteSet(1 .. m)
      BY <2>1, FS_Interval
    <3> QED
      BY <2>2, <3>1, SumOfNaturals
  <2> QED
    BY <2>3, <2>4, <2>5
<1>8. TaxableOf(more, n) = TaxableOf(rows, n - 1) + row.taxable
  <2>1. PICK T : T = 1 .. n - 1
    OBVIOUS
  <2>2. 1 .. n = T \cup {n} /\ n \notin T /\ n - 1 \in 0 .. n - 1
    BY <1>3, <2>1
  <2>3. Weighs(v, T) /\ TaxableOf(rows, n - 1) = SumFunctionOnSet(v, T)
    BY <1>7, <2>1, <2>2
  <2>4. v[n] = row.taxable /\ v[n] \in Int
    BY <1>3, <1>5, <1>6
  <2>5. SumFunctionOnSet(v, T \cup {n}) = SumFunctionOnSet(v, T) + v[n]
    BY <2>2, <2>3, <2>4, SumOfMore
  <2>6. TaxableOf(more, n) = SumFunctionOnSet(v, 1 .. n)
    BY <1>3, <1>5, <1>6, TaxableOfIs
  <2> QED
    BY <2>2, <2>3, <2>4, <2>5, <2>6
<1> QED
  BY <1>1, <1>2, <1>3, <1>7, <1>8

-----------------------------------------------------------------------------
LEMMA TdsAsksAre ==
    ASSUME TdsTypes, NEW c \in DOMAIN tdsAsked.calls
    PROVE  /\ c \in TdsCall
           /\ Bill(c).kind = "deduct" => Bill(c).taxable \in Nat
           /\ Bill(c).kind = "deposit" => Bill(c).serial \in Nat /\ Bill(c).total \in Int
<1>1. PICK ask : ask = Bill(c)
  OBVIOUS
<1>2. c \in TdsCall /\ ask \in TdsAsks
  BY <1>1, TdsAssumption DEF TdsTypes, Bill
<1>3. /\ ask.kind = "deduct" => ask.taxable \in Nat
      /\ ask.kind = "deposit" => ask.serial \in Nat /\ ask.total \in Int
  BY <1>2 DEF TdsAsks
<1> QED
  BY <1>1, <1>2, <1>3

LEMMA UptoIs ==
    ASSUME TdsTypes
    PROVE  /\ Upto(Len(booked)) \in Nat /\ \A n \in DOMAIN booked : Upto(n) \in Nat
           /\ booked = <<>> => Upto(Len(booked)) = 0
<1>1. PICK row : row = [taxable |-> 0, tds |-> 0]
  OBVIOUS
<1>2. row \in BookedRow /\ booked \in Seq(BookedRow)
  BY <1>1 DEF BookedRow, TdsTypes
<1>3. \A m \in 0 .. Len(booked) : TaxableOf(booked, m) \in Nat
  BY <1>2, BookedCounts
<1>4. DOMAIN booked \subseteq 0 .. Len(booked) /\ Len(booked) \in 0 .. Len(booked) /\ (booked = <<>> => Len(booked) = 0)
  BY <1>2
<1> QED
  BY <1>3, <1>4, NothingTaxable DEF Upto

LEMMA TdsStarts == TdsInit => TdsInv
<1> SUFFICES ASSUME TdsInit PROVE TdsInv
  OBVIOUS
<1>1. TdsTypes
  BY DEF TdsInit, TdsTypes, TdsPlaces, NoTracker, TrackerRow
<1>2. Upto(Len(booked)) = 0 /\ booked = <<>> /\ tracker = NoTracker /\ tracker.taxable = 0 /\ tracker.tds = 0
      /\ challans = <<>>
  BY <1>1, UptoIs DEF TdsInit, NoTracker
<1>3. TrackerIsThere
  BY <1>2 DEF TdsInit, TrackerIsThere
<1>4. OneAtATime /\ DepositsList
  <2>1. DOMAIN tdsAsked.calls \subseteq TdsCall
    BY <1>1, TdsAsksAre
  <2> QED
    BY <2>1 DEF TdsInit, OneAtATime, Busy, DepositsList
<1>5. TrackedTdsIsDeducted
  <2>1. tdsEntries = <<>> /\ tdsEntries \in Seq(Int) /\ DOMAIN tdsEntries = {}
    BY DEF TdsInit
  <2>2. SumTds(tdsEntries) = 0
    BY <2>1, SumTdsIs, SumOfNone
  <2> QED
    BY <1>2, <2>2 DEF TrackedTdsIsDeducted
<1>6. TrackedAmountIsBooked /\ DeductedPastThreshold /\ DepositedOnce
  BY <1>2 DEF TrackedAmountIsBooked, DeductedPastThreshold, DepositedOnce
<1> QED
  BY <1>1, <1>3, <1>4, <1>5, <1>6 DEF TdsInv

-----------------------------------------------------------------------------
(* A call that only reads, or ends without a change.                        *)
LEMMA TdsWaits ==
    ASSUME TdsInv, NEW c \in TdsCall, NEW where \in TdsPlaces, NEW amount \in Int, NEW list \in SUBSET Nat,
           tdsStep' = [tdsStep EXCEPT ![c] = where], tracked' = [tracked EXCEPT ![c] = amount],
           listed' = [listed EXCEPT ![c] = list], UNCHANGED <<tdsAsked, tdsTables>>,
           where = "tracked" => tracker.there /\ amount = tracker.taxable,
           where # "tracked" => amount = 0,
           where = "created" => ~tracker.there /\ \A d \in TdsCall : tdsStep[d] # "created",
           where = "listed" => /\ Bill(c).kind = "deposit"
                               /\ \A p \in DOMAIN challans : list \cap challans[p].entries = {},
           where \in {"tracked", "missed", "created", "listed"} /\ tdsAsked.serial =>
              \A d \in TdsCall \ {c} : ~Busy(d)
    PROVE  TdsInv'
<1>1. /\ UNCHANGED <<tdsAsked, tracker, booked, tdsEntries, challans>>
      /\ tdsStep'[c] = where /\ tracked'[c] = amount /\ listed'[c] = list
      /\ \A d \in TdsCall \ {c} : tdsStep'[d] = tdsStep[d] /\ tracked'[d] = tracked[d] /\ listed'[d] = listed[d]
      /\ tdsStep' \in [TdsCall -> TdsPlaces] /\ tracked' \in [TdsCall -> Int] /\ listed' \in [TdsCall -> SUBSET Nat]
  BY DEF TdsInv, TdsTypes, tdsTables
<1>2. TdsTypes'
  BY <1>1 DEF TdsInv, TdsTypes
<1>3. Upto(Len(booked))' = Upto(Len(booked)) /\ Upto(Len(booked)) \in Nat
  BY <1>1, UptoIs DEF TdsInv, Upto
<1>4. amount <= Upto(Len(booked))
  BY <1>3 DEF TdsInv, TrackedAmountIsBooked
<1>5. TrackerIsThere'
  BY <1>1, <1>3, <1>4 DEF TdsInv, TrackerIsThere
<1>6. OneAtATime' /\ DepositsList'
  <2>1. DOMAIN tdsAsked.calls \subseteq TdsCall
    BY TdsAsksAre DEF TdsInv
  <2>2. OneAtATime'
    BY <1>1 DEF TdsInv, OneAtATime, Busy
  <2>3. DepositsList'
    BY <1>1, <2>1 DEF TdsInv, DepositsList, Bill
  <2> QED
    BY <2>2, <2>3
<1>7. TrackedTdsIsDeducted' /\ DepositedOnce'
  BY <1>1 DEF TdsInv, TrackedTdsIsDeducted, DepositedOnce
<1>8. TrackedAmountIsBooked' /\ DeductedPastThreshold'
  BY <1>1 DEF TdsInv, TrackedAmountIsBooked, DeductedPastThreshold, Upto
<1> QED
  BY <1>2, <1>5, <1>6, <1>7, <1>8 DEF TdsInv

(* Who goes on from somewhere is, one at a time, the only one.              *)
LEMMA AloneWhenBusy ==
    ASSUME TdsInv, NEW c \in TdsCall, Busy(c), tdsAsked.serial
    PROVE  \A d \in TdsCall \ {c} : ~Busy(d)
  BY DEF TdsInv, OneAtATime

(* A call that commits: nobody else creates the row, whose amount grows by  *)
(* that of the invoice.                                                     *)
LEMMA TdsDeducts == ASSUME TdsInv, NEW c \in DOMAIN tdsAsked.calls, computeDeduction(c) PROVE TdsInv'
<1>1. PICK bill : bill = Bill(c)
  OBVIOUS
<1>2. /\ c \in TdsCall /\ bill.kind = "deduct" /\ bill.taxable \in Nat /\ tdsStep[c] \in {"tracked", "created"}
      /\ tdsStep' = [tdsStep EXCEPT ![c] = "done"] /\ tracked' = [tracked EXCEPT ![c] = 0]
      /\ listed' = [listed EXCEPT ![c] = {}] /\ UNCHANGED <<tdsAsked, challans>>
  BY <1>1, TdsAsksAre DEF TdsInv, computeDeduction, TdsEnd, TdsGoto
<1>3. PICK after : after = tracked[c] + bill.taxable
  OBVIOUS
<1>4. PICK tax : tax = IF Within(after) THEN 0 ELSE TdsOn(bill.taxable)
  OBVIOUS
<1>5. /\ Within(after) \/ SplitPosts(c, tax)
      /\ tracker' = [there |-> TRUE, taxable |-> after, tds |-> tracker.tds + tax]
      /\ booked' = Append(booked, [taxable |-> bill.taxable, tds |-> tax])
      /\ tdsEntries' = IF Within(after) THEN tdsEntries ELSE Append(tdsEntries, tax)
  BY <1>1, <1>3, <1>4 DEF computeDeduction, updateTracker
<1>6. PICK row : row = [taxable |-> bill.taxable, tds |-> tax]
  OBVIOUS
<1>7. /\ tax \in Int /\ row \in BookedRow /\ row.taxable = bill.taxable /\ row.tds = tax /\ after \in Int
      /\ booked \in Seq(BookedRow) /\ booked' = Append(booked, row)
      /\ tracker \in TrackerRow /\ tracker.taxable \in Int /\ tracker.tds \in Int /\ tracker' \in TrackerRow
      /\ tracker'.there = TRUE /\ tracker'.taxable = after /\ tracker'.tds = tracker.tds + tax
      /\ tracked[c] \in Int
  <2>1. tax \in Int
    BY <1>2, <1>4, TaxesAreInt DEF TdsInv
  <2>2. tracked[c] \in Int /\ after \in Int
    BY <1>2, <1>3 DEF TdsInv, TdsTypes
  <2>3. tracker \in TrackerRow /\ booked \in Seq(BookedRow)
    BY DEF TdsInv, TdsTypes
  <2>4. tracker.taxable \in Int /\ tracker.tds \in Int
    BY <2>3 DEF TrackerRow
  <2> QED
    BY <1>2, <1>5, <1>6, <2>1, <2>2, <2>3, <2>4 DEF BookedRow, TrackerRow
<1>8. PICK n : n = Len(booked) + 1
  OBVIOUS
<1>9. /\ n \in Nat \ {0} /\ Len(booked') = n /\ booked' \in Seq(BookedRow) /\ DOMAIN booked' = 1 .. n
      /\ DOMAIN booked = 1 .. n - 1 /\ booked'[n] = row /\ \A m \in DOMAIN booked : booked'[m] = booked[m]
  BY <1>7, <1>8
<1>10. /\ Upto(n)' = Upto(Len(booked)) + bill.taxable /\ Upto(Len(booked))' = Upto(n)'
       /\ Upto(Len(booked)) \in Nat
       /\ \A m \in DOMAIN booked : Upto(m)' = Upto(m)
  <2>1. /\ \A m \in 0 .. Len(booked) : TaxableOf(booked, m) \in Nat /\ TaxableOf(booked', m) = TaxableOf(booked, m)
        /\ TaxableOf(booked', n) = TaxableOf(booked, Len(booked)) + row.taxable
    BY <1>7, <1>8, BookedCounts
  <2>2. DOMAIN booked \subseteq 0 .. Len(booked) /\ Len(booked) \in 0 .. Len(booked)
    BY <1>7
  <2> QED
    BY <1>7, <1>9, <2>1, <2>2 DEF Upto
<1>11. tracked[c] <= Upto(Len(booked))
  BY <1>2 DEF TdsInv, TrackerIsThere
<1>12. TdsTypes'
  <2>1. tdsEntries' \in Seq(Int)
    BY <1>5, <1>7 DEF TdsInv, TdsTypes
  <2> QED
    BY <1>2, <1>7, <1>9, <2>1 DEF TdsInv, TdsTypes, TdsPlaces
<1>13. /\ tdsStep'[c] = "done" /\ tracked'[c] = 0
       /\ \A d \in TdsCall \ {c} : tdsStep'[d] = tdsStep[d] /\ tracked'[d] = tracked[d] /\ listed'[d] = listed[d]
  BY <1>2 DEF TdsInv, TdsTypes
<1>14. \A d \in TdsCall : tdsStep'[d] # "created"
  <2>1. CASE tdsStep[c] = "created"
    BY <1>2, <1>13, <2>1 DEF TdsInv, TrackerIsThere
  <2>2. CASE tdsStep[c] = "tracked"
    BY <1>2, <1>13, <2>2 DEF TdsInv, TrackerIsThere
  <2> QED
    BY <1>2, <2>1, <2>2
<1>15. TrackerIsThere'
  <2>1. \A d \in TdsCall : (tdsStep'[d] # "tracked" => tracked'[d] = 0) /\ tracked'[d] <= Upto(n)'
    <3>1. \A d \in TdsCall : (tdsStep[d] # "tracked" => tracked[d] = 0) /\ tracked[d] <= Upto(Len(booked))
      BY DEF TdsInv, TrackerIsThere
    <3>2. \A d \in TdsCall : tracked[d] \in Int
      BY DEF TdsInv, TdsTypes
    <3> QED
      BY <1>2, <1>10, <1>13, <3>1, <3>2
  <2> QED
    BY <1>7, <1>10, <1>14, <2>1 DEF TrackerIsThere
<1>16. OneAtATime' /\ DepositsList'
  <2>1. DOMAIN tdsAsked.calls \subseteq TdsCall
    BY TdsAsksAre DEF TdsInv
  <2>2. OneAtATime'
    BY <1>2, <1>13, AloneWhenBusy DEF TdsInv, OneAtATime, Busy
  <2>3. DepositsList'
    BY <1>2, <1>13, <2>1 DEF TdsInv, DepositsList, Bill
  <2> QED
    BY <2>2, <2>3
<1>17. TrackedTdsIsDeducted'
  <2>1. tdsEntries \in Seq(Int) /\ tracker.tds = SumTds(tdsEntries)
    BY DEF TdsInv, TdsTypes, TrackedTdsIsDeducted
  <2>2. tracker'.tds = SumTds(tdsEntries')
    <3>1. CASE Within(after)
      BY <1>4, <1>5, <1>7, <2>1, <3>1
    <3>2. CASE ~Within(after)
      BY <1>5, <1>7, <2>1, <3>2, DeductionCounts
    <3> QED
      BY <3>1, <3>2
  <2> QED
    BY <2>2 DEF TrackedTdsIsDeducted
<1>18. tdsAsked.serial => after = Upto(n)'
  <2> SUFFICES ASSUME tdsAsked.serial PROVE after = Upto(n)'
    OBVIOUS
  <2>1. tracked[c] = tracker.taxable
    <3>1. CASE tdsStep[c] = "tracked"
      BY <1>2, <3>1 DEF TdsInv, OneAtATime
    <3>2. CASE tdsStep[c] = "created"
      <4>1. tracked[c] = 0 /\ tracker = NoTracker
        BY <1>2, <3>2 DEF TdsInv, TrackerIsThere
      <4> QED
        BY <4>1 DEF NoTracker
    <3> QED
      BY <1>2, <3>1, <3>2
  <2>2. tracker.taxable = Upto(Len(booked))
    BY DEF TdsInv, TrackedAmountIsBooked
  <2> QED
    BY <1>3, <1>10, <2>1, <2>2
<1>19. TrackedAmountIsBooked'
  BY <1>2, <1>3, <1>7, <1>10, <1>11, <1>18 DEF TrackedAmountIsBooked
<1>20. DeductedPastThreshold'
  <2> SUFFICES ASSUME NEW m \in DOMAIN booked'
               PROVE  /\ booked'[m].tds > 0 => Upto(m)' > tdsAsked.section.aggregate
                      /\ tdsAsked.serial => (Upto(m)' > tdsAsked.section.aggregate => booked'[m].tds > 0)
    BY <1>2 DEF DeductedPastThreshold
  <2>1. CASE m \in DOMAIN booked
    <3>1. booked'[m] = booked[m] /\ Upto(m)' = Upto(m)
      BY <1>9, <1>10, <2>1
    <3>2. /\ booked[m].tds > 0 => Upto(m) > tdsAsked.section.aggregate
          /\ tdsAsked.serial => (Upto(m) > tdsAsked.section.aggregate => booked[m].tds > 0)
      BY <2>1 DEF TdsInv, DeductedPastThreshold
    <3> QED
      BY <3>1, <3>2
  <2>2. CASE m = n
    <3>0. tdsAsked.section.aggregate \in Nat
      BY TdsAssumption DEF TdsInv, TdsTypes, TdsSections
    <3>1. booked'[m].tds = tax
      BY <1>7, <1>9, <2>2
    <3>2. PICK upto : upto = Upto(m)'
      OBVIOUS
    <3>3. upto \in Int /\ after <= upto /\ (tdsAsked.serial => after = upto)
      BY <1>2, <1>3, <1>7, <1>10, <1>11, <1>18, <2>2, <3>2
    <3>4. CASE Within(after)
      <4>1. tax = 0 /\ after <= tdsAsked.section.aggregate
        BY <1>4, <3>4 DEF Within
      <4> QED
        BY <1>7, <3>0, <3>1, <3>2, <3>3, <4>1
    <3>5. CASE ~Within(after)
      <4>1. tax > 0 /\ tax < bill.taxable
        BY <1>1, <1>5, <3>5 DEF SplitPosts
      <4>2. upto > 0
        BY <1>2, <1>7, <1>10, <2>2, <3>2, <4>1
      <4>b. PICK bar \in Nat : bar = tdsAsked.section.aggregate
        BY <3>0
      <4>c. bar = 0 \/ bar < after
        BY <1>7, <3>5, <4>b DEF Within
      <4>d. after \in Int /\ upto \in Int /\ after <= upto
        BY <1>7, <3>3
      <4>3. upto > tdsAsked.section.aggregate
        BY <4>2, <4>b, <4>c, <4>d
      <4> QED
        BY <3>1, <3>2, <4>1, <4>3
    <3> QED
      BY <3>4, <3>5
  <2> QED
    BY <1>9, <2>1, <2>2
<1>21. DepositedOnce'
  BY <1>2 DEF TdsInv, DepositedOnce
<1> QED
  BY <1>12, <1>15, <1>16, <1>17, <1>19, <1>20, <1>21 DEF TdsInv

(* What a challan pays was unpaid when it was listed and, one at a time, is *)
(* so still.                                                                *)
LEMMA ChallanPays ==
    ASSUME TdsInv, NEW c \in DOMAIN tdsAsked.calls, recordChallan(c)
    PROVE  TdsInv'
<1>1. PICK bill : bill = Bill(c)
  OBVIOUS
<1>2. /\ c \in TdsCall /\ bill.serial \in Nat /\ bill.total \in Int /\ tdsStep[c] = "listed"
      /\ tdsStep' = [tdsStep EXCEPT ![c] = "done"] /\ tracked' = [tracked EXCEPT ![c] = 0]
      /\ listed' = [listed EXCEPT ![c] = {}] /\ UNCHANGED <<tdsAsked, tracker, booked, tdsEntries>>
  BY <1>1, TdsAsksAre DEF TdsInv, DepositsList, recordChallan, TdsEnd, TdsGoto
<1>3. PICK challan : challan = [serial |-> bill.serial, total |-> bill.total, entries |-> listed[c]]
  OBVIOUS
<1>4. /\ challan \in Challan /\ challan.entries = listed[c] /\ challans' = Append(challans, challan)
      /\ challans \in Seq(Challan)
  BY <1>1, <1>2, <1>3 DEF recordChallan, Challan, TdsInv, TdsTypes
<1>5. PICK n : n = Len(challans) + 1
  OBVIOUS
<1>6. /\ challans' \in Seq(Challan) /\ DOMAIN challans' = DOMAIN challans \cup {n} /\ challans'[n] = challan
      /\ \A p \in DOMAIN challans : challans'[p] = challans[p]
  BY <1>4, <1>5
<1>7. /\ tdsStep'[c] = "done" /\ tracked'[c] = 0
      /\ \A d \in TdsCall \ {c} : tdsStep'[d] = tdsStep[d] /\ tracked'[d] = tracked[d] /\ listed'[d] = listed[d]
  BY <1>2 DEF TdsInv, TdsTypes
<1>8. TdsTypes'
  BY <1>2, <1>6 DEF TdsInv, TdsTypes, TdsPlaces
<1>9. TrackerIsThere'
  <2>1. Upto(Len(booked))' = Upto(Len(booked)) /\ Upto(Len(booked)) \in Nat
    BY <1>2, UptoIs DEF TdsInv, Upto
  <2> QED
    BY <1>2, <1>7, <2>1 DEF TdsInv, TrackerIsThere
<1>10. OneAtATime' /\ DepositsList'
  <2>1. DOMAIN tdsAsked.calls \subseteq TdsCall
    BY TdsAsksAre DEF TdsInv
  <2>2. OneAtATime'
    BY <1>2, <1>7, AloneWhenBusy DEF OneAtATime, Busy
  <2>3. DepositsList'
    BY <1>2, <1>7, <2>1 DEF TdsInv, DepositsList, Bill
  <2> QED
    BY <2>2, <2>3
<1>11. DepositedOnce'
  <2> SUFFICES ASSUME tdsAsked.serial, NEW p \in DOMAIN challans', NEW q \in DOMAIN challans', p # q
               PROVE  challans'[p].entries \cap challans'[q].entries = {}
    BY <1>2 DEF DepositedOnce
  <2>1. \A r \in DOMAIN challans : listed[c] \cap challans[r].entries = {}
    BY <1>2 DEF TdsInv, OneAtATime
  <2> QED
    BY <1>4, <1>6, <2>1 DEF TdsInv, DepositedOnce
<1>12. TrackedTdsIsDeducted' /\ TrackedAmountIsBooked' /\ DeductedPastThreshold'
  BY <1>2 DEF TdsInv, TrackedTdsIsDeducted, TrackedAmountIsBooked, DeductedPastThreshold, Upto
<1> QED
  BY <1>8, <1>9, <1>10, <1>11, <1>12 DEF TdsInv

-----------------------------------------------------------------------------
LEMMA TdsEnds ==
    ASSUME TdsInv, NEW c \in TdsCall, NEW how \in {"done", "refused"}, TdsEnd(c, how),
           UNCHANGED <<tdsAsked, tdsTables>>
    PROVE  TdsInv'
<1>1. PICK amount, list : amount = 0 /\ list = {}
  OBVIOUS
<1>2. /\ tdsStep' = [tdsStep EXCEPT ![c] = how] /\ tracked' = [tracked EXCEPT ![c] = amount]
      /\ listed' = [listed EXCEPT ![c] = list]
  BY <1>1 DEF TdsEnd, TdsGoto
<1>3. /\ amount \in Int /\ list \in SUBSET Nat /\ how \in TdsPlaces /\ amount = 0
      /\ how \notin {"tracked", "missed", "created", "listed"}
  BY <1>1 DEF TdsPlaces
<1> QED
  BY <1>2, <1>3, TdsWaits

LEMMA TdsSteps == ASSUME TdsInv, NEW c \in DOMAIN tdsAsked.calls,
           \/ RateRefused(c) \/ SmallBill(c) \/ FindTracker(c) \/ MissTracker(c) \/ CreateTracker(c)
           \/ computeDeduction(c) \/ DeductionRefused(c)
           \/ ListUnpaid(c) \/ recordChallan(c) \/ ChallanRefused(c)
    PROVE  TdsInv'
<1>0. /\ c \in TdsCall /\ tracked[c] \in Int /\ listed[c] \in SUBSET Nat
      /\ tracked = [tracked EXCEPT ![c] = tracked[c]] /\ listed = [listed EXCEPT ![c] = listed[c]]
      /\ tdsStep[c] # "tracked" => tracked[c] = 0
  BY TdsAsksAre DEF TdsInv, TdsTypes, TrackerIsThere
<1>a. CASE RateRefused(c)
  BY <1>0, <1>a, TdsEnds DEF RateRefused
<1>1. CASE SmallBill(c)
  BY <1>0, <1>1, TdsEnds DEF SmallBill
<1>2. CASE FindTracker(c)
  <2>1. tracker.there /\ tracker.taxable \in Int /\ UNCHANGED <<tdsAsked, listed, tdsTables>>
    BY <1>2 DEF FindTracker, TdsInv, TdsTypes, TrackerRow
  <2>2. tdsStep' = [tdsStep EXCEPT ![c] = "tracked"] /\ tracked' = [tracked EXCEPT ![c] = tracker.taxable]
    BY <1>2 DEF FindTracker, TdsGoto
  <2>3. tdsAsked.serial => \A d \in TdsCall \ {c} : ~Busy(d)
    BY <1>2 DEF FindTracker, TdsIs
  <2> QED
    BY <1>0, <2>1, <2>2, <2>3, TdsWaits DEF TdsPlaces
<1>3. CASE MissTracker(c)
  <2>1. tracked[c] = 0 /\ tdsStep' = [tdsStep EXCEPT ![c] = "missed"] /\ UNCHANGED <<tdsAsked, tracked, listed, tdsTables>>
    BY <1>0, <1>3 DEF MissTracker, TdsGoto, TdsIs
  <2>2. tdsAsked.serial => \A d \in TdsCall \ {c} : ~Busy(d)
    BY <1>3 DEF MissTracker, TdsIs
  <2> QED
    BY <1>0, <2>1, <2>2, TdsWaits DEF TdsPlaces
<1>4. CASE CreateTracker(c)
  <2>1. CASE tracker.there
    BY <1>0, <1>4, <2>1, TdsEnds DEF CreateTracker
  <2>2. CASE ~tracker.there
    <3>1. /\ tracked[c] = 0 /\ tdsStep' = [tdsStep EXCEPT ![c] = "created"]
          /\ UNCHANGED <<tdsAsked, tracked, listed, tdsTables>> /\ \A d \in TdsCall : tdsStep[d] # "created"
      BY <1>0, <1>4, <2>2 DEF CreateTracker, TdsGoto
    <3>2. tdsAsked.serial => \A d \in TdsCall \ {c} : ~Busy(d)
      BY <1>0, <1>4, AloneWhenBusy DEF CreateTracker, Busy
    <3> QED
      BY <1>0, <2>2, <3>1, <3>2, TdsWaits DEF TdsPlaces
  <2> QED
    BY <2>1, <2>2
<1>5. CASE computeDeduction(c)
  BY <1>5, TdsDeducts
<1>6. CASE DeductionRefused(c)
  BY <1>0, <1>6, TdsEnds DEF DeductionRefused
<1>7. CASE ListUnpaid(c)
  <2>1. PICK list : list = getUnpaidTdsEntries
    OBVIOUS
  <2>2. /\ list \in SUBSET Nat /\ \A p \in DOMAIN challans : list \cap challans[p].entries = {}
    BY <2>1 DEF getUnpaidTdsEntries, Paid, TdsInv, TdsTypes
  <2>3. /\ tracked[c] = 0 /\ Bill(c).kind = "deposit" /\ tdsStep' = [tdsStep EXCEPT ![c] = "listed"]
        /\ listed' = [listed EXCEPT ![c] = list] /\ UNCHANGED <<tdsAsked, tracked, tdsTables>>
    BY <1>0, <1>7, <2>1 DEF ListUnpaid, TdsGoto, TdsIs, Bill
  <2>4. tdsAsked.serial => \A d \in TdsCall \ {c} : ~Busy(d)
    BY <1>7 DEF ListUnpaid, TdsIs
  <2> QED
    BY <1>0, <2>2, <2>3, <2>4, TdsWaits DEF TdsPlaces
<1>8. CASE recordChallan(c)
  BY <1>8, ChallanPays
<1>9. CASE ChallanRefused(c)
  BY <1>0, <1>9, TdsEnds DEF ChallanRefused
<1> QED
  BY <1>a, <1>1, <1>2, <1>3, <1>4, <1>5, <1>6, <1>7, <1>8, <1>9

LEMMA TdsStutters == ASSUME TdsInv, UNCHANGED tdsVars PROVE TdsInv'
<1>1. UNCHANGED <<tdsAsked, tdsStep, tracked, listed, tracker, booked, tdsEntries, challans>>
  BY DEF tdsVars
<1>2. TdsTypes' /\ OneAtATime' /\ DepositsList' /\ TrackedTdsIsDeducted' /\ DepositedOnce'
  BY <1>1 DEF TdsInv, TdsTypes, OneAtATime, Busy, DepositsList, Bill, TrackedTdsIsDeducted, DepositedOnce
<1>3. TrackerIsThere' /\ TrackedAmountIsBooked' /\ DeductedPastThreshold'
  BY <1>1 DEF TdsInv, TrackerIsThere, TrackedAmountIsBooked, DeductedPastThreshold, Upto
<1> QED
  BY <1>2, <1>3 DEF TdsInv

(* The marginal rule, case by case.                                         *)
LEMMA TcsAdds == TdsTypes => TcsIsMarginal
<1> SUFFICES ASSUME TdsTypes, NEW rate \in TcsRates, NEW before, before = tdsAsked.received,
                    NEW amount, amount = tdsAsked.invoice
             PROVE  calculateTcs(before, amount, rate)
                      = Paise(Max({0, (before + amount) - TcsThreshold}) - Max({0, before - TcsThreshold}), rate)
  BY DEF TcsIsMarginal
<1>1. before \in Nat /\ amount \in Nat /\ TcsThreshold \in Nat
  BY TdsAssumption DEF TdsTypes, TcsThreshold
<1>2. \A n \in Int : Max({0, n}) = IF n <= 0 THEN 0 ELSE n
  BY DEF Max
<1>3. Paise(0, rate) = 0
  BY DEF Paise, RoundTax, TcsRates
<1>4. PICK more, less : more = Max({0, (before + amount) - TcsThreshold}) /\ less = Max({0, before - TcsThreshold})
  OBVIOUS
<1>5. /\ more = IF before + amount <= TcsThreshold THEN 0 ELSE before + amount - TcsThreshold
      /\ less = IF before <= TcsThreshold THEN 0 ELSE before - TcsThreshold
  BY <1>1, <1>2, <1>4
<1>6. CASE before + amount <= TcsThreshold
  <2>1. more - less = 0
    BY <1>1, <1>5, <1>6
  <2> QED
    BY <1>3, <1>4, <1>6, <2>1 DEF calculateTcs
<1>7. CASE before + amount > TcsThreshold /\ before >= TcsThreshold
  <2>1. more - less = amount
    BY <1>1, <1>5, <1>7
  <2> QED
    BY <1>1, <1>4, <1>7, <2>1 DEF calculateTcs
<1>8. CASE before < TcsThreshold /\ before + amount > TcsThreshold
  <2>1. more - less = before + amount - TcsThreshold
    BY <1>1, <1>5, <1>8
  <2> QED
    BY <1>1, <1>4, <1>8, <2>1 DEF calculateTcs
<1> QED
  BY <1>1, <1>6, <1>7, <1>8

LEMMA TdsInvIsKept == TdsSpec => []TdsInv
<1>1. TdsInv /\ [TdsNext]_tdsVars => TdsInv'
  BY TdsSteps, TdsStutters DEF TdsNext
<1> QED
  BY <1>1, TdsStarts, PTL DEF TdsSpec

(* Tracker, deductions and challans of a vendor agree, whatever calls       *)
(* overlap; and the tax collected at source is marginal.                    *)
THEOREM TrackedTax == TdsSpec => []TaxIsTracked
<1>1. TdsInv => TaxIsTracked
  BY TcsAdds DEF TdsInv, TaxIsTracked
<1> QED
  BY <1>1, TdsInvIsKept, PTL

-----------------------------------------------------------------------------
(* Provisional interest and scenario vouchers                               *)
ProvPlaces == {"start", "scanning", "locked", "done", "refused"}
ProvBills == DOMAIN provAsked.bills
ProvisionRows == [bill : ProvBills, date : Int, principal : Int, txn : Nat, interest : Int, saw : Nat]
VoucherRows == [lines : Seq(Int), txn : Nat]
Transactions == [source : {"interest", "scenario"}, row : Nat, lines : Seq(Int)]
Cursors == [left : SUBSET ProvBills, pending : [ProvBills -> Int], new : Seq(ProvisionRows)]

ProvTypes ==
    /\ provAsked \in ProvSettings
    /\ provStep \in [ProvCall -> ProvPlaces]
    /\ provSeen = [c \in ProvCall |-> provSeen[c]]
    /\ pending \in [ProvBills -> Int]
    /\ provisions \in Seq(ProvisionRows)
    /\ scenarios \in Seq(VoucherRows)
    /\ converted \in Seq(Transactions)

(* A row that is locked waits to be converted, and has one holder.          *)
Locked(c) ==
    /\ ProvIs(c, "post", "locked") => Unposted(c)
    /\ ProvIs(c, "promote", "locked") => Unpromoted(c) /\ provSeen[c] \in Seq(Int)
LocksHold == \A c \in ProvCall : Locked(c)
LocksExclude == \A c, d \in ProvCall, kind \in {"post", "promote"} :
    ProvIs(c, kind, "locked") /\ ProvIs(d, kind, "locked") /\ Called(c).row = Called(d).row => c = d

(* A row a cursor has made: of the day asked, of a bill behind the cursor,  *)
(* and after all it saw that is not posted.                                 *)
Fresh(c, row) ==
    /\ row.date = Called(c).date /\ row.txn = 0 /\ row.bill \notin provSeen[c].left
    /\ row.saw <= Len(provisions)
    /\ \A m \in DOMAIN provisions :
          provisions[m].bill = row.bill /\ provisions[m].date = row.date /\ provisions[m].txn = 0 => row.saw < m
Scanning(c) == ProvIs(c, "provision", "scanning") =>
    /\ provSeen[c] \in Cursors
    /\ \A n \in DOMAIN provSeen[c].new : Fresh(c, provSeen[c].new[n])
    /\ \A m, n \in DOMAIN provSeen[c].new : provSeen[c].new[m].bill = provSeen[c].new[n].bill => m = n
CursorsMoveOn == \A c \in ProvCall : Scanning(c)

(* What is posted was posted from a row.                                    *)
Sources == \A t \in DOMAIN converted :
    converted[t].row \in IF converted[t].source = "interest" THEN DOMAIN provisions ELSE DOMAIN scenarios

ProvInv ==
    /\ ProvTypes /\ LocksHold /\ LocksExclude /\ CursorsMoveOn /\ Sources
    /\ ProvisionalIsPostedOnce
-----------------------------------------------------------------------------

LEMMA MemberOf == ASSUME NEW S, NEW s \in Seq(S), NEW n \in DOMAIN s PROVE s[n] \in S
  OBVIOUS

LEMMA Added ==
    ASSUME NEW S, NEW s \in Seq(S), NEW e \in S
    PROVE  /\ Append(s, e) \in Seq(S) /\ DOMAIN Append(s, e) = DOMAIN s \cup {Len(s) + 1}
           /\ Len(s) \in Nat /\ DOMAIN s = 1 .. Len(s) /\ Append(s, e)[Len(s) + 1] = e
           /\ \A n \in DOMAIN s : Append(s, e)[n] = s[n]
<1> DEFINE t == Append(s, e)
<1>1. t \in Seq(S) /\ Len(t) = Len(s) + 1 /\ t[Len(s) + 1] = e /\ \A n \in DOMAIN s : t[n] = s[n]
  OBVIOUS
<1> HIDE DEF t
<1>2. DOMAIN t = 1 .. Len(t) /\ DOMAIN s = 1 .. Len(s) /\ Len(s) \in Nat
  BY <1>1
<1>3. DOMAIN t = DOMAIN s \cup {Len(s) + 1}
  BY <1>1, <1>2
<1> QED
  BY <1>1, <1>2, <1>3 DEF t

LEMMA Changed ==
    ASSUME NEW S, NEW s \in Seq(S), NEW k \in DOMAIN s, NEW e \in S, NEW u, u = [s EXCEPT ![k] = e]
    PROVE  /\ u \in Seq(S) /\ DOMAIN u = DOMAIN s /\ Len(u) = Len(s) /\ u[k] = e
           /\ \A n \in DOMAIN s \ {k} : u[n] = s[n]
  OBVIOUS

LEMMA CursorChanged ==
    ASSUME NEW A, NEW B, NEW C, NEW r \in [left : A, pending : B, new : C], NEW l \in A, NEW n \in C
    PROVE  /\ [r EXCEPT !.left = l] \in [left : A, pending : B, new : C]
           /\ [r EXCEPT !.left = l].left = l /\ [r EXCEPT !.left = l].new = r.new
           /\ [r EXCEPT !.new = n] \in [left : A, pending : B, new : C]
           /\ [r EXCEPT !.new = n].left = r.left /\ [r EXCEPT !.new = n].new = n
  OBVIOUS

LEMMA Whole == ASSUME NEW a \in Int, NEW b \in Nat \ {0} PROVE a \div b \in Int
  OBVIOUS

(* What the amounts of a row are made of.                                   *)
LEMMA Settings ==
    ASSUME provAsked \in ProvSettings
    PROVE  /\ provAsked.bills \in Seq([due : Int, pending : Int]) /\ provAsked.config \in [grace : Int, rate : Int]
           /\ provAsked.vouchers \in Seq(Seq(Int))
           /\ \A c \in DOMAIN provAsked.calls : c \in ProvCall /\ Called(c) \in Asks
  BY ProvisionAssumption DEF Called

LEMMA ProvStarts == ProvInit => ProvInv
<1> SUFFICES ASSUME ProvInit PROVE ProvInv
  OBVIOUS
<1>1. provAsked \in ProvSettings /\ provisions = <<>> /\ converted = <<>>
      /\ \A c \in ProvCall : provStep[c] = "start"
  BY DEF ProvInit
<1>2. pending \in [ProvBills -> Int]
  <2>1. \A b \in ProvBills : provAsked.bills[b] \in [due : Int, pending : Int]
    BY <1>1, Settings, MemberOf DEF ProvBills
  <2> QED
    BY <2>1 DEF ProvInit, ProvBills
<1>3. scenarios \in Seq(VoucherRows) /\ \A n \in DOMAIN scenarios : scenarios[n].txn = 0
  <2>1. \A n \in DOMAIN provAsked.vouchers : provAsked.vouchers[n] \in Seq(Int)
    BY <1>1, Settings, MemberOf
  <2>2. DOMAIN provAsked.vouchers = 1 .. Len(provAsked.vouchers) /\ Len(provAsked.vouchers) \in Nat
    BY <1>1, Settings
  <2>3. \A n \in DOMAIN provAsked.vouchers : [lines |-> provAsked.vouchers[n], txn |-> 0] \in VoucherRows
    BY <2>1 DEF VoucherRows
  <2> QED
    BY <2>2, <2>3 DEF ProvInit
<1>4. ProvTypes
  BY <1>1, <1>2, <1>3 DEF ProvInit, ProvTypes, ProvPlaces
<1>5. LocksHold /\ LocksExclude /\ CursorsMoveOn
  BY <1>1 DEF LocksHold, Locked, LocksExclude, CursorsMoveOn, Scanning, ProvIs
<1>6. Sources /\ ProvisionalIsPostedOnce
  <2>1. \A source, row : PostedFrom(source, row) = {}
    BY <1>1 DEF PostedFrom
  <2> QED
    BY <1>1, <1>3, <2>1
    DEF Sources, ProvisionalIsPostedOnce, ConvertedOnce, ProvisionedOnceADay, ForecastsStayOut
<1> QED
  BY <1>4, <1>5, <1>6 DEF ProvInv

(* A call that goes on, or gives up, with the tables as they are.           *)
LEMMA ProvTurns ==
    ASSUME ProvInv, NEW c \in ProvCall, NEW where \in ProvPlaces, NEW what, ProvHas(c, where, what),
           UNCHANGED provAsked, UNCHANGED provTables, Locked(c)', Scanning(c)',
           where = "locked" => \A kind \in {"post", "promote"} : Called(c).kind = kind => Held(c, kind) = {}
    PROVE  ProvInv'
<1>1. UNCHANGED <<pending, provisions, scenarios, converted, provAsked>>
  BY DEF provTables
<1>2. /\ provStep' \in [ProvCall -> ProvPlaces] /\ provStep'[c] = where
      /\ provSeen' = [d \in ProvCall |-> provSeen'[d]]
      /\ \A d \in ProvCall \ {c} : provStep'[d] = provStep[d] /\ provSeen'[d] = provSeen[d]
  BY DEF ProvHas, ProvInv, ProvTypes
<1>3. ProvTypes'
  BY <1>1, <1>2 DEF ProvInv, ProvTypes, ProvBills, ProvisionRows
<1>4. \A d, kind, spot : Called(d)' = Called(d) /\ (d \in ProvCall \ {c} => ProvIs(d, kind, spot)' = ProvIs(d, kind, spot))
  BY <1>1, <1>2 DEF Called, ProvIs
<1>5. LocksHold'
  <2> SUFFICES ASSUME NEW d \in ProvCall, d # c PROVE Locked(d)'
    BY DEF LocksHold
  <2> QED
    BY <1>1, <1>2, <1>4 DEF ProvInv, LocksHold, Locked, Unposted, Unpromoted
<1>6. LocksExclude'
  <2> SUFFICES ASSUME NEW d \in ProvCall, NEW e \in ProvCall, NEW kind \in {"post", "promote"},
                      ProvIs(d, kind, "locked")', ProvIs(e, kind, "locked")',
                      Called(d).row = Called(e).row, d # e
               PROVE  FALSE
    BY <1>4 DEF LocksExclude
  <2>1. ASSUME NEW other \in ProvCall \ {c}, ProvIs(other, kind, "locked")', ProvIs(c, kind, "locked")',
               Called(c).row = Called(other).row
        PROVE  FALSE
    <3>1. Held(c, kind) = {}
      BY <1>1, <1>2, <2>1 DEF ProvIs, Called
    <3>2. other \in Held(c, kind)
      BY <1>1, <1>4, <2>1 DEF Held, SameRow, ProvIs
    <3> QED
      BY <3>1, <3>2
  <2>2. CASE d # c /\ e # c
    BY <1>4, <2>2 DEF ProvInv, LocksExclude
  <2> QED
    BY <2>1, <2>2
<1>7. CursorsMoveOn'
  <2> SUFFICES ASSUME NEW d \in ProvCall, d # c PROVE Scanning(d)'
    BY DEF CursorsMoveOn
  <2>1. Cursors' = Cursors
    BY <1>1 DEF Cursors, ProvBills, ProvisionRows
  <2>2. \A row : Fresh(d, row)' = Fresh(d, row)
    BY <1>1, <1>2, <1>4 DEF Fresh
  <2>3. Scanning(d)
    BY DEF ProvInv, CursorsMoveOn
  <2> QED
    BY <1>2, <1>4, <2>1, <2>2, <2>3 DEF Scanning
<1>8. Sources' /\ ProvisionalIsPostedOnce'
  BY <1>1 DEF ProvInv, Sources, ProvisionalIsPostedOnce, ConvertedOnce, PostedFrom, ProvisionedOnceADay,
              ForecastsStayOut
<1> QED
  BY <1>3, <1>5, <1>6, <1>7, <1>8 DEF ProvInv

LEMMA ProvGives ==
    ASSUME ProvInv, NEW c \in ProvCall, NEW how \in {"done", "refused"}, ProvEnd(c, how),
           UNCHANGED provAsked, UNCHANGED provTables
    PROVE  ProvInv'
<1>1. ProvHas(c, how, <<>>) /\ provStep'[c] = how
  BY DEF ProvEnd, ProvHas, ProvInv, ProvTypes
<1>2. Locked(c)' /\ Scanning(c)'
  BY <1>1 DEF Locked, Scanning, ProvIs
<1> QED
  BY <1>1, <1>2, ProvTurns DEF ProvPlaces

HeldStays(c) == \A d \in ProvCall \ {c} :
    /\ ProvIs(d, "post", "locked") => Unposted(d)'
    /\ ProvIs(d, "promote", "locked") => Unpromoted(d)'
RowsStay ==
    /\ provisions' \in Seq(ProvisionRows) /\ Len(provisions) <= Len(provisions')
    /\ \A m \in DOMAIN provisions' : provisions'[m].txn = 0 =>
          \/ m > Len(provisions)
          \/ /\ m \in DOMAIN provisions /\ provisions[m].txn = 0
             /\ provisions'[m].bill = provisions[m].bill /\ provisions'[m].date = provisions[m].date

(* A call that commits leaves what others hold unconverted, and nothing it  *)
(* commits is a row a cursor has already looked for.                        *)
LEMMA OthersGoOn ==
    ASSUME ProvInv, NEW c \in ProvCall, ProvEnd(c, "done"), UNCHANGED provAsked,
           HeldStays(c), RowsStay
    PROVE  LocksHold' /\ LocksExclude' /\ CursorsMoveOn'
<1>1. /\ provStep' \in [ProvCall -> ProvPlaces] /\ provStep'[c] = "done"
      /\ \A d \in ProvCall \ {c} : provStep'[d] = provStep[d] /\ provSeen'[d] = provSeen[d]
  BY DEF ProvEnd, ProvInv, ProvTypes, ProvPlaces
<1>2. \A d, kind, spot : Called(d)' = Called(d) /\ (d \in ProvCall \ {c} => ProvIs(d, kind, spot)' = ProvIs(d, kind, spot))
  BY <1>1 DEF Called, ProvIs
<1>3. LocksHold'
  <2> SUFFICES ASSUME NEW d \in ProvCall PROVE Locked(d)'
    BY DEF LocksHold
  <2>1. CASE d = c
    BY <1>1, <2>1 DEF Locked, ProvIs
  <2>2. CASE d # c
    BY <1>1, <1>2, <2>2 DEF ProvInv, LocksHold, Locked, HeldStays
  <2> QED
    BY <2>1, <2>2
<1>4. LocksExclude'
  <2>1. \A kind \in {"post", "promote"} : ~ProvIs(c, kind, "locked")'
    BY <1>1 DEF ProvIs
  <2> QED
    BY <1>2, <2>1 DEF ProvInv, LocksExclude
<1>5. CursorsMoveOn'
  <2> SUFFICES ASSUME NEW d \in ProvCall, ProvIs(d, "provision", "scanning")' PROVE Scanning(d)'
    BY DEF CursorsMoveOn, Scanning
  <2>1. d # c
    BY <1>1 DEF ProvIs
  <2>2. Scanning(d) /\ ProvIs(d, "provision", "scanning") /\ provSeen'[d] = provSeen[d]
    BY <1>1, <1>2, <2>1 DEF ProvInv, CursorsMoveOn
  <2>3. Cursors' = Cursors
    BY DEF Cursors, ProvBills, ProvisionRows
  <2>4. ASSUME NEW n \in DOMAIN provSeen[d].new PROVE Fresh(d, provSeen[d].new[n])'
    <3>1. PICK row \in ProvisionRows : row = provSeen[d].new[n]
      <4>1. provSeen[d].new \in Seq(ProvisionRows)
        BY <2>2 DEF Scanning, Cursors
      <4> QED
        BY <4>1, MemberOf
    <3>2. Fresh(d, row)
      BY <2>2, <3>1 DEF Scanning
    <3>3. row.saw \in Int /\ Len(provisions) \in Int /\ Len(provisions') \in Int /\ row.saw <= Len(provisions')
          /\ DOMAIN provisions' \subseteq Int
      BY <3>2 DEF ProvisionRows, Fresh, ProvInv, ProvTypes, RowsStay
    <3>4. ASSUME NEW m \in DOMAIN provisions', provisions'[m].bill = row.bill, provisions'[m].date = row.date,
                 provisions'[m].txn = 0
          PROVE  row.saw < m
      <4>1. CASE m > Len(provisions)
        BY <3>2, <3>3, <4>1 DEF Fresh
      <4>2. CASE /\ m \in DOMAIN provisions /\ provisions[m].txn = 0
                 /\ provisions'[m].bill = provisions[m].bill /\ provisions'[m].date = provisions[m].date
        BY <3>2, <3>4, <4>2 DEF Fresh
      <4> QED
        BY <3>4, <4>1, <4>2 DEF RowsStay
    <3>5. Fresh(d, row)'
      BY <1>2, <2>2, <3>2, <3>3, <3>4 DEF Fresh
    <3> QED
      BY <3>1, <3>5, <2>2
  <2> QED
    BY <2>2, <2>3, <2>4 DEF Scanning
<1> QED
  BY <1>3, <1>4, <1>5
-----------------------------------------------------------------------------
LEMMA Opened == ASSUME ProvInv, NEW c \in ProvCall, Scan(c) PROVE ProvInv'
<1> DEFINE seen == [left |-> Overdue(Called(c).date), pending |-> pending, new |-> <<>>]
<1>1. PICK what : what = seen
  OBVIOUS
<1>2. ProvHas(c, "scanning", what) /\ UNCHANGED provAsked /\ UNCHANGED provTables
  BY <1>1 DEF Scan
<1>3. provStep'[c] = "scanning" /\ provSeen'[c] = what
  BY <1>2 DEF ProvHas, ProvInv, ProvTypes
<1>4. Cursors' = Cursors
  BY <1>2 DEF Cursors, ProvBills, ProvisionRows
<1>5. what \in Cursors /\ what.new = <<>>
  BY <1>1 DEF Cursors, Overdue, ProvInv, ProvTypes
<1>6. Scanning(c)' /\ Locked(c)'
  BY <1>3, <1>4, <1>5 DEF Scanning, Locked, ProvIs
<1> QED
  BY <1>2, <1>6, ProvTurns DEF ProvPlaces

LEMMA ProvisionIs ==
    ASSUME ProvInv, NEW c \in ProvCall, ProvIs(c, "provision", "scanning"), NEW b \in provSeen[c].left
    PROVE  Provision(c, b) \in ProvisionRows /\ Provision(c, b).bill = b /\ Provision(c, b).txn = 0
           /\ Provision(c, b).date = Called(c).date /\ Provision(c, b).saw = Len(provisions)
<1>1. provSeen[c].left \subseteq ProvBills /\ provSeen[c].pending \in [ProvBills -> Int]
  BY DEF ProvInv, CursorsMoveOn, Scanning, Cursors
<1>2. PICK principal \in Int : principal = provSeen[c].pending[b]
  BY <1>1
<1>3. PICK date \in Int : date = Called(c).date
  BY Settings DEF ProvInv, ProvTypes, ProvIs, Asks
<1>4. DaysOver(b, date) \in Int /\ provAsked.config.rate \in Int
  <2>1. provAsked.bills[b] \in [due : Int, pending : Int]
    BY <1>1, Settings, MemberOf DEF ProvInv, ProvTypes, ProvBills
  <2> QED
    BY <2>1, Settings, SMTT(30) DEF DaysOver, ProvInv, ProvTypes
<1>5. PICK days \in Int, rate \in Int : days = DaysOver(b, date) /\ rate = provAsked.config.rate
  BY <1>4
<1>6. 200 * DaysInYear \in Nat \ {0} /\ DaysInYear \in Int
  BY ProvisionAssumption
<1>7. 2 * principal * rate * days + 100 * DaysInYear \in Int
  BY <1>6
<1>8. calculate_interest(principal, days) \in Int
  BY <1>5, <1>6, <1>7, Whole DEF calculate_interest
<1>9. Len(provisions) \in Nat /\ b \in ProvBills
  BY <1>1 DEF ProvInv, ProvTypes
<1>10. PICK interest \in Int : interest = calculate_interest(principal, days)
  BY <1>8
<1>11. Provision(c, b) = [bill |-> b, date |-> date, principal |-> principal, txn |-> 0, interest |-> interest,
                         saw |-> Len(provisions)]
  BY <1>2, <1>3, <1>5, <1>10 DEF Provision
<1> QED
  BY <1>3, <1>9, <1>11 DEF ProvisionRows

(* The bill goes behind the cursor, with a row of its own when it has none. *)
LEMMA Provided == ASSUME ProvInv, NEW c \in ProvCall, ProvideBill(c) PROVE ProvInv'
<1>1. ProvIs(c, "provision", "scanning") /\ UNCHANGED provAsked /\ UNCHANGED provTables
  BY DEF ProvideBill
<1>2. PICK b \in provSeen[c].left :
        ProvHas(c, "scanning",
            IF Provisioned(b, Called(c).date) THEN [provSeen[c] EXCEPT !.left = provSeen[c].left \ {b}]
            ELSE [[provSeen[c] EXCEPT !.left = provSeen[c].left \ {b}]
                     EXCEPT !.new = Append(provSeen[c].new, Provision(c, b))])
  <2>1. provSeen[c] \in Cursors
    BY <1>1 DEF ProvInv, CursorsMoveOn, Scanning
  <2> QED
    BY <2>1 DEF ProvideBill, Earliest, Cursors
<1>3. PICK old \in Cursors : old = provSeen[c]
  BY <1>1 DEF ProvInv, CursorsMoveOn, Scanning
<1>4. PICK row \in ProvisionRows : row = Provision(c, b) /\ row.bill = b /\ row.txn = 0
        /\ row.date = Called(c).date /\ row.saw = Len(provisions)
  BY <1>1, ProvisionIs
<1>5. PICK new \in Seq(ProvisionRows) :
        new = IF Provisioned(b, Called(c).date) THEN old.new ELSE Append(old.new, row)
  <2>1. old.new \in Seq(ProvisionRows)
    BY DEF Cursors
  <2> QED
    BY <2>1, Added
<1>6. PICK what \in Cursors : ProvHas(c, "scanning", what) /\ what.left = old.left \ {b} /\ what.new = new
  <2>1. \A r \in Cursors, l \in SUBSET ProvBills :
          [r EXCEPT !.left = l] \in Cursors /\ [r EXCEPT !.left = l].left = l /\ [r EXCEPT !.left = l].new = r.new
    BY CursorChanged DEF Cursors
  <2>2. \A r \in Cursors, n \in Seq(ProvisionRows) :
          [r EXCEPT !.new = n] \in Cursors /\ [r EXCEPT !.new = n].left = r.left /\ [r EXCEPT !.new = n].new = n
    BY CursorChanged DEF Cursors
  <2>3. old.left \ {b} \in SUBSET ProvBills
    BY DEF Cursors
  <2>4. PICK passed \in Cursors :
          /\ passed = [old EXCEPT !.left = old.left \ {b}] /\ passed.left = old.left \ {b} /\ passed.new = old.new
    BY <2>1, <2>3
  <2>5. PICK more \in Cursors :
          more = [passed EXCEPT !.new = new] /\ more.left = passed.left /\ more.new = new
    BY <2>2
  <2>6. CASE Provisioned(b, Called(c).date)
    BY <1>2, <1>3, <1>5, <2>4, <2>6
  <2>7. CASE ~Provisioned(b, Called(c).date)
    <3>1. ProvHas(c, "scanning", [passed EXCEPT !.new = Append(old.new, row)])
      BY <1>2, <1>3, <1>4, <2>4, <2>7
    <3> QED
      BY <1>5, <2>4, <2>5, <2>7, <3>1
  <2> QED
    BY <2>6, <2>7
<1>7. ProvHas(c, "scanning", what)
  BY <1>6
<1>8. provStep'[c] = "scanning" /\ provSeen'[c] = what
  BY <1>7 DEF ProvHas, ProvInv, ProvTypes
<1>9. UNCHANGED provisions /\ Cursors' = Cursors
  BY <1>1 DEF provTables, Cursors, ProvBills, ProvisionRows
<1>10. \A n \in DOMAIN old.new : old.new[n] \in ProvisionRows /\ Fresh(c, old.new[n])
  <2>1. old.new \in Seq(ProvisionRows)
    BY DEF Cursors
  <2> QED
    BY <1>1, <1>3, <2>1, MemberOf DEF ProvInv, CursorsMoveOn, Scanning
<1>11. \A n \in DOMAIN old.new : old.new[n].bill # b
  BY <1>3, <1>10 DEF Fresh
<1>12. \A r : Fresh(c, r) => Fresh(c, r)'
  BY <1>1, <1>3, <1>6, <1>8, <1>9 DEF Fresh, Called
<1>13. /\ DOMAIN new \ DOMAIN old.new = {} \/ ~Provisioned(b, Called(c).date)
       /\ \A n \in DOMAIN old.new : n \in DOMAIN new /\ new[n] = old.new[n]
       /\ \A n \in DOMAIN new \ DOMAIN old.new : n = Len(old.new) + 1 /\ new[n] = row
  <2>1. old.new \in Seq(ProvisionRows)
    BY DEF Cursors
  <2> QED
    BY <1>5, <2>1, Added
<1>14. ~Provisioned(b, Called(c).date) => Fresh(c, row)'
  <2>1. Len(provisions) \in Nat /\ b \notin what.left
    BY <1>6 DEF ProvInv, ProvTypes
  <2> QED
    BY <1>1, <1>4, <1>8, <1>9, <2>1 DEF Fresh, Provisioned, Called
<1>15. \A n \in DOMAIN new : Fresh(c, new[n])'
  <2> SUFFICES ASSUME NEW n \in DOMAIN new PROVE Fresh(c, new[n])'
    OBVIOUS
  <2>1. PICK r : r = new[n]
    OBVIOUS
  <2>2. Fresh(c, r)'
    BY <1>10, <1>12, <1>13, <1>14, <2>1
  <2> QED
    BY <2>1, <2>2
<1>16. \A m, n \in DOMAIN new : new[m].bill = new[n].bill => m = n
  <2>1. \A m, n \in DOMAIN old.new : old.new[m].bill = old.new[n].bill => m = n
    BY <1>1, <1>3 DEF ProvInv, CursorsMoveOn, Scanning
  <2> QED
    BY <1>4, <1>11, <1>13, <2>1
<1>17. Scanning(c)' /\ Locked(c)'
  BY <1>6, <1>8, <1>9, <1>15, <1>16 DEF Scanning, Locked, ProvIs
<1> QED
  BY <1>1, <1>7, <1>17, ProvTurns DEF ProvPlaces

(* A run commits what it made: rows of different bills, after all that the  *)
(* table held of their day when each was made.                              *)
LEMMA Committed == ASSUME ProvInv, NEW c \in ProvCall, CommitProvisions(c) PROVE ProvInv'
<1>1. /\ ProvIs(c, "provision", "scanning") /\ ProvEnd(c, "done")
      /\ UNCHANGED <<provAsked, pending, scenarios, converted>>
      /\ provisions' = provisions \o provSeen[c].new
  BY DEF CommitProvisions
<1>2. PICK new \in Seq(ProvisionRows) : /\ new = provSeen[c].new
        /\ \A k \in DOMAIN new : Fresh(c, new[k])
        /\ \A m, n \in DOMAIN new : new[m].bill = new[n].bill => m = n
  BY <1>1 DEF ProvInv, CursorsMoveOn, Scanning, Cursors
<1>3. /\ Len(provisions) \in Nat /\ DOMAIN provisions = 1 .. Len(provisions)
      /\ Len(new) \in Nat /\ DOMAIN new = 1 .. Len(new) /\ provisions \in Seq(ProvisionRows)
  BY DEF ProvInv, ProvTypes
<1>4. /\ provisions' \in Seq(ProvisionRows) /\ DOMAIN provisions' = 1 .. Len(provisions) + Len(new)
      /\ Len(provisions') = Len(provisions) + Len(new)
      /\ \A n \in DOMAIN provisions : provisions'[n] = provisions[n]
      /\ \A n \in DOMAIN provisions' \ DOMAIN provisions :
            n - Len(provisions) \in DOMAIN new /\ provisions'[n] = new[n - Len(provisions)]
  BY <1>1, <1>2, <1>3
<1>5. ProvTypes'
  BY <1>1, <1>4 DEF ProvInv, ProvTypes, ProvEnd, ProvPlaces, ProvBills, ProvisionRows
<1>6. LocksHold' /\ LocksExclude' /\ CursorsMoveOn'
  <2>1. HeldStays(c)
    BY <1>1, <1>3, <1>4 DEF ProvInv, LocksHold, Locked, Unposted, Unpromoted, Called, HeldStays
  <2>2. RowsStay
    BY <1>3, <1>4 DEF RowsStay
  <2> QED
    BY <1>1, <2>1, <2>2, OthersGoOn
<1>7. \A n \in DOMAIN provisions' \ DOMAIN provisions :
        provisions'[n].txn = 0 /\ provisions'[n].saw \in Nat /\ Fresh(c, provisions'[n])
  <2> SUFFICES ASSUME NEW n \in DOMAIN provisions' \ DOMAIN provisions
               PROVE  provisions'[n].txn = 0 /\ provisions'[n].saw \in Nat /\ Fresh(c, provisions'[n])
    OBVIOUS
  <2>1. PICK k \in DOMAIN new : k = n - Len(provisions) /\ provisions'[n] = new[k]
    BY <1>4
  <2>2. PICK row \in ProvisionRows : row = new[k]
    BY MemberOf
  <2> QED
    BY <1>2, <2>1, <2>2 DEF Fresh, ProvisionRows
<1>8. ConvertedOnce' /\ Sources'
  <2>1. \A n \in DOMAIN provisions' \ DOMAIN provisions : PostedFrom("interest", n) = {}
    BY DEF ProvInv, Sources, PostedFrom
  <2>2. \A source, row : PostedFrom(source, row)' = PostedFrom(source, row)
    BY <1>1 DEF PostedFrom
  <2>3. \A n \in DOMAIN provisions' : PostedFrom("interest", n) = {provisions'[n].txn} \ {0}
    <3> SUFFICES ASSUME NEW n \in DOMAIN provisions' PROVE PostedFrom("interest", n) = {provisions'[n].txn} \ {0}
      OBVIOUS
    <3>1. CASE n \in DOMAIN provisions
      BY <1>4, <3>1 DEF ProvInv, ProvisionalIsPostedOnce, ConvertedOnce
    <3>2. CASE n \notin DOMAIN provisions
      BY <1>7, <2>1, <3>2
    <3> QED
      BY <3>1, <3>2
  <2>4. ConvertedOnce'
    BY <1>1, <2>2, <2>3 DEF ProvInv, ProvisionalIsPostedOnce, ConvertedOnce
  <2>5. Sources'
    BY <1>1, <1>3, <1>4 DEF ProvInv, Sources
  <2> QED
    BY <2>4, <2>5
<1>9. ProvisionedOnceADay'
  <2> SUFFICES ASSUME NEW m \in DOMAIN provisions', NEW n \in DOMAIN provisions', m < n,
                      provisions'[m].bill = provisions'[n].bill, provisions'[m].date = provisions'[n].date,
                      provisions'[m].txn = 0
               PROVE  provisions'[n].saw < m
    BY DEF ProvisionedOnceADay
  <2>1. CASE n \in DOMAIN provisions
    <3>1. m \in DOMAIN provisions
      BY <1>3, <1>4, <2>1
    <3> QED
      BY <1>4, <2>1, <3>1 DEF ProvInv, ProvisionalIsPostedOnce, ProvisionedOnceADay
  <2>2. CASE n \notin DOMAIN provisions /\ m \in DOMAIN provisions
    BY <1>4, <1>7, <2>2 DEF Fresh
  <2>3. CASE n \notin DOMAIN provisions /\ m \notin DOMAIN provisions
    <3>1. m - Len(provisions) \in DOMAIN new /\ n - Len(provisions) \in DOMAIN new
          /\ new[m - Len(provisions)].bill = new[n - Len(provisions)].bill
      BY <1>4, <2>3
    <3>2. m - Len(provisions) = n - Len(provisions)
      BY <1>2, <3>1
    <3> QED
      BY <1>3, <1>4, <3>2
  <2> QED
    BY <2>1, <2>2, <2>3
<1> QED
  BY <1>1, <1>5, <1>6, <1>8, <1>9 DEF ProvInv, ProvisionalIsPostedOnce, ForecastsStayOut

LEMMA OverdueIsPaid == ASSUME ProvInv, NEW c \in ProvCall, PayBill(c) PROVE ProvInv'
<1>1. ProvIs(c, "pay", "start") /\ ProvEnd(c, "done") /\ UNCHANGED <<provAsked, provisions, scenarios, converted>>
      /\ pending' = [pending EXCEPT ![Called(c).bill] = pending[Called(c).bill] - Called(c).amount]
  BY DEF PayBill
<1>2. PICK amount \in Int : amount = Called(c).amount
  BY <1>1, Settings DEF ProvIs, ProvInv, ProvTypes, Asks
<1>3. pending' \in [ProvBills -> Int]
  <2>1. pending \in [ProvBills -> Int]
    BY DEF ProvInv, ProvTypes
  <2>2. \A b \in ProvBills : pending[b] - amount \in Int
    BY <2>1
  <2> QED
    BY <1>1, <1>2, <2>1, <2>2
<1>4. ProvTypes'
  BY <1>1, <1>3 DEF ProvInv, ProvTypes, ProvEnd, ProvPlaces, ProvBills, ProvisionRows
<1>5. LocksHold' /\ LocksExclude' /\ CursorsMoveOn'
  <2>1. HeldStays(c)
    BY <1>1 DEF ProvInv, LocksHold, Locked, Unposted, Unpromoted, Called, HeldStays
  <2>2. RowsStay
    BY <1>1 DEF ProvInv, ProvTypes, RowsStay
  <2> QED
    BY <1>1, <2>1, <2>2, OthersGoOn
<1>6. Sources' /\ ProvisionalIsPostedOnce'
  BY <1>1 DEF ProvInv, Sources, ProvisionalIsPostedOnce, ConvertedOnce, PostedFrom, ProvisionedOnceADay,
              ForecastsStayOut
<1> QED
  BY <1>4, <1>5, <1>6 DEF ProvInv
-----------------------------------------------------------------------------
(* A transaction more: of the row it is posted from, and of no other.       *)
LEMMA Booked ==
    ASSUME converted \in Seq(Transactions), NEW source \in {"interest", "scenario"}, NEW row \in Nat,
           NEW lines \in Seq(Int), Post(source, row, lines)
    PROVE  /\ converted' \in Seq(Transactions) /\ Len(converted) + 1 \in Nat \ {0}
           /\ DOMAIN converted' = DOMAIN converted \cup {Len(converted) + 1}
           /\ \A t \in DOMAIN converted : converted'[t] = converted[t]
           /\ converted'[Len(converted) + 1] = [source |-> source, row |-> row, lines |-> lines]
           /\ PostedFrom(source, row)' = PostedFrom(source, row) \cup {Len(converted) + 1}
           /\ \A s, r : s # source \/ r # row => PostedFrom(s, r)' = PostedFrom(s, r)
<1>0. PICK e : e = [source |-> source, row |-> row, lines |-> lines]
  OBVIOUS
<1>1. e \in Transactions /\ e.source = source /\ e.row = row
  BY <1>0 DEF Transactions
<1>2. converted' = Append(converted, e)
  BY <1>0 DEF Post
<1> DEFINE longer == Append(converted, e)
<1>3. /\ longer \in Seq(Transactions) /\ DOMAIN longer = DOMAIN converted \cup {Len(converted) + 1}
      /\ Len(converted) \in Nat /\ DOMAIN converted = 1 .. Len(converted) /\ longer[Len(converted) + 1] = e
      /\ \A t \in DOMAIN converted : longer[t] = converted[t]
  BY <1>1, Added
<1>4. converted' = longer
  BY <1>2
<1> HIDE DEF longer
<1>5. /\ converted' \in Seq(Transactions) /\ DOMAIN converted' = DOMAIN converted \cup {Len(converted) + 1}
      /\ converted'[Len(converted) + 1] = e
      /\ \A t \in DOMAIN converted : converted'[t] = converted[t]
  BY <1>3, <1>4
<1>6. PostedFrom(source, row)' = PostedFrom(source, row) \cup {Len(converted) + 1}
  BY <1>1, <1>3, <1>5 DEF PostedFrom
<1>7. \A s, r : s # source \/ r # row => PostedFrom(s, r)' = PostedFrom(s, r)
  BY <1>1, <1>5 DEF PostedFrom
<1> QED
  BY <1>0, <1>3, <1>5, <1>6, <1>7

(* The row that is posted keeps its place, its bill and its day.            *)
LEMMA PostedRow ==
    ASSUME NEW s \in Seq(ProvisionRows), NEW k \in DOMAIN s, NEW t \in Nat, NEW u, u = [s EXCEPT ![k].txn = t]
    PROVE  /\ u \in Seq(ProvisionRows) /\ DOMAIN u = DOMAIN s /\ Len(u) = Len(s) /\ u[k].txn = t
           /\ \A n \in DOMAIN s : u[n].bill = s[n].bill /\ u[n].date = s[n].date /\ u[n].saw = s[n].saw
           /\ \A n \in DOMAIN s \ {k} : u[n] = s[n]
<1>1. PICK e \in ProvisionRows :
        /\ e = [s[k] EXCEPT !.txn = t] /\ e.txn = t /\ e.bill = s[k].bill /\ e.date = s[k].date
        /\ e.saw = s[k].saw
  <2>1. PICK r \in ProvisionRows : r = s[k]
    BY MemberOf
  <2>2. PICK e : e = [r EXCEPT !.txn = t]
    OBVIOUS
  <2>3. e \in ProvisionRows /\ e.txn = t /\ e.bill = r.bill /\ e.date = r.date /\ e.saw = r.saw
    BY <2>2 DEF ProvisionRows
  <2> QED
    BY <2>1, <2>2, <2>3
<1>2. u = [s EXCEPT ![k] = e]
  BY <1>1
<1>3. /\ u \in Seq(ProvisionRows) /\ DOMAIN u = DOMAIN s /\ Len(u) = Len(s) /\ u[k] = e
      /\ \A n \in DOMAIN s \ {k} : u[n] = s[n]
  BY <1>2, Changed
<1> QED
  BY <1>1, <1>3

LEMMA ProvisionPosted == ASSUME ProvInv, NEW c \in ProvCall, postProvision(c) PROVE ProvInv'
<1>1. /\ ProvIs(c, "post", "locked") /\ ProvEnd(c, "done") /\ UNCHANGED <<provAsked, pending, scenarios>>
      /\ Unposted(c)
  BY DEF postProvision, ProvInv, LocksHold, Locked
<1>2. PICK r \in DOMAIN provisions : r = Called(c).row /\ r \in Nat /\ provisions[r].txn = 0
  BY <1>1 DEF Unposted, ProvInv, ProvTypes
<1>3. PICK lines \in Seq(Int) : CanBook(lines) /\ Post("interest", r, lines)
  <2>1. PICK row \in ProvisionRows : row = provisions[r]
    BY MemberOf DEF ProvInv, ProvTypes
  <2>2. <<row.interest, -row.interest>> \in Seq(Int)
    BY DEF ProvisionRows
  <2> QED
    BY <1>2, <2>1, <2>2 DEF postProvision
<1>4. PICK t \in Nat \ {0} : t = Len(converted) + 1
  BY DEF ProvInv, ProvTypes
<1>5. /\ converted' \in Seq(Transactions) /\ DOMAIN converted' = DOMAIN converted \cup {t}
      /\ \A u \in DOMAIN converted : converted'[u] = converted[u]
      /\ converted'[t].source = "interest" /\ converted'[t].row = r /\ converted'[t].lines = lines
      /\ PostedFrom("interest", r)' = PostedFrom("interest", r) \cup {t}
      /\ \A s, n : s # "interest" \/ n # r => PostedFrom(s, n)' = PostedFrom(s, n)
  <2>1. converted \in Seq(Transactions)
    BY DEF ProvInv, ProvTypes
  <2>2. /\ converted' \in Seq(Transactions) /\ DOMAIN converted' = DOMAIN converted \cup {t}
        /\ \A u \in DOMAIN converted : converted'[u] = converted[u]
        /\ converted'[t] = [source |-> "interest", row |-> r, lines |-> lines]
    BY <1>2, <1>3, <1>4, <2>1, Booked
  <2>3. PostedFrom("interest", r)' = PostedFrom("interest", r) \cup {t}
    BY <1>2, <1>3, <1>4, <2>1, Booked
  <2>4. \A s, n : s # "interest" \/ n # r => PostedFrom(s, n)' = PostedFrom(s, n)
    BY <1>2, <1>3, <2>1, Booked
  <2> QED
    BY <2>2, <2>3, <2>4
<1>6. provisions' = [provisions EXCEPT ![r].txn = t]
  BY <1>2, <1>4 DEF postProvision
<1>7. /\ provisions' \in Seq(ProvisionRows) /\ DOMAIN provisions' = DOMAIN provisions
      /\ Len(provisions') = Len(provisions) /\ provisions'[r].txn = t
      /\ \A n \in DOMAIN provisions :
            /\ provisions'[n].bill = provisions[n].bill /\ provisions'[n].date = provisions[n].date
            /\ provisions'[n].saw = provisions[n].saw
      /\ \A n \in DOMAIN provisions \ {r} : provisions'[n] = provisions[n]
  <2>1. provisions \in Seq(ProvisionRows)
    BY DEF ProvInv, ProvTypes
  <2> QED
    BY <1>6, <2>1, PostedRow, SMTT(30)
<1>8. ProvTypes'
  BY <1>1, <1>5, <1>7 DEF ProvInv, ProvTypes, ProvEnd, ProvPlaces, ProvBills, ProvisionRows, Transactions
<1>9. LocksHold' /\ LocksExclude' /\ CursorsMoveOn'
  <2>1. HeldStays(c)
    <3> SUFFICES ASSUME NEW d \in ProvCall \ {c}
                 PROVE  /\ ProvIs(d, "post", "locked") => Unposted(d)'
                        /\ ProvIs(d, "promote", "locked") => Unpromoted(d)'
      BY DEF HeldStays
    <3>1. Called(d)' = Called(d) /\ Locked(d)
      BY <1>1 DEF Called, ProvInv, LocksHold
    <3>2. ProvIs(d, "post", "locked") => Called(d).row # r
      BY <1>1, <1>2 DEF ProvInv, LocksExclude
    <3> QED
      BY <1>1, <1>7, <3>1, <3>2 DEF Locked, Unposted, Unpromoted
  <2>2. RowsStay
    <3>1. Len(provisions) <= Len(provisions')
      BY <1>7 DEF ProvInv, ProvTypes
    <3>2. \A m \in DOMAIN provisions' : provisions'[m].txn = 0 => m \in DOMAIN provisions /\ provisions[m].txn = 0
      BY <1>2, <1>7
    <3> QED
      BY <1>7, <3>1, <3>2 DEF RowsStay
  <2> QED
    BY <1>1, <2>1, <2>2, OthersGoOn
<1>10. ConvertedOnce' /\ Sources' /\ ForecastsStayOut'
  <2>1. ConvertedOnce'
    <3>1. PostedFrom("interest", r)' = {provisions'[r].txn} \ {0}
      BY <1>2, <1>5, <1>7 DEF ProvInv, ProvisionalIsPostedOnce, ConvertedOnce
    <3>2. \A n \in DOMAIN provisions \ {r} : PostedFrom("interest", n)' = {provisions'[n].txn} \ {0}
      BY <1>5, <1>7 DEF ProvInv, ProvisionalIsPostedOnce, ConvertedOnce
    <3>3. \A n \in DOMAIN scenarios : PostedFrom("scenario", n)' = {scenarios[n].txn} \ {0}
      BY <1>5 DEF ProvInv, ProvisionalIsPostedOnce, ConvertedOnce
    <3> QED
      BY <1>1, <1>7, <3>1, <3>2, <3>3 DEF ConvertedOnce
  <2>2. Sources'
    BY <1>1, <1>5, <1>7 DEF ProvInv, Sources
  <2>3. ForecastsStayOut'
    BY <1>3, <1>5 DEF ProvInv, ProvisionalIsPostedOnce, ForecastsStayOut, CanBook
  <2> QED
    BY <2>1, <2>2, <2>3
<1>11. ProvisionedOnceADay'
  <2>1. \A m \in DOMAIN provisions : provisions'[m].txn = 0 => provisions[m].txn = 0
    BY <1>2, <1>4, <1>7
  <2> QED
    BY <1>7, <2>1 DEF ProvInv, ProvisionalIsPostedOnce, ProvisionedOnceADay
<1> QED
  BY <1>8, <1>9, <1>10, <1>11 DEF ProvInv, ProvisionalIsPostedOnce

LEMMA VoucherPromoted == ASSUME ProvInv, NEW c \in ProvCall, promoteToActual(c) PROVE ProvInv'
<1>1. /\ ProvIs(c, "promote", "locked") /\ ProvEnd(c, "done") /\ UNCHANGED <<provAsked, pending, provisions>>
      /\ Unpromoted(c)
  BY DEF promoteToActual, ProvInv, LocksHold, Locked
<1>2. PICK r \in DOMAIN scenarios : r = Called(c).row /\ r \in Nat /\ scenarios[r].txn = 0
  BY <1>1 DEF Unpromoted, ProvInv, ProvTypes
<1>3. PICK lines \in Seq(Int) : CanBook(lines) /\ Post("scenario", r, lines)
  BY <1>1, <1>2 DEF promoteToActual, ProvInv, LocksHold, Locked
<1>4. PICK t \in Nat \ {0} : t = Len(converted) + 1
  BY DEF ProvInv, ProvTypes
<1>5. /\ converted' \in Seq(Transactions) /\ DOMAIN converted' = DOMAIN converted \cup {t}
      /\ \A u \in DOMAIN converted : converted'[u] = converted[u]
      /\ converted'[t].source = "scenario" /\ converted'[t].row = r /\ converted'[t].lines = lines
      /\ PostedFrom("scenario", r)' = PostedFrom("scenario", r) \cup {t}
      /\ \A s, n : s # "scenario" \/ n # r => PostedFrom(s, n)' = PostedFrom(s, n)
  <2>1. converted \in Seq(Transactions)
    BY DEF ProvInv, ProvTypes
  <2>2. /\ converted' \in Seq(Transactions) /\ DOMAIN converted' = DOMAIN converted \cup {t}
        /\ \A u \in DOMAIN converted : converted'[u] = converted[u]
        /\ converted'[t] = [source |-> "scenario", row |-> r, lines |-> lines]
    BY <1>2, <1>3, <1>4, <2>1, Booked
  <2>3. PostedFrom("scenario", r)' = PostedFrom("scenario", r) \cup {t}
    BY <1>2, <1>3, <1>4, <2>1, Booked
  <2>4. \A s, n : s # "scenario" \/ n # r => PostedFrom(s, n)' = PostedFrom(s, n)
    BY <1>2, <1>3, <2>1, Booked
  <2> QED
    BY <2>2, <2>3, <2>4
<1>6. PICK e \in VoucherRows : e = [scenarios[r] EXCEPT !.txn = t] /\ e.txn = t
  <2>1. PICK row \in VoucherRows : row = scenarios[r]
    BY MemberOf DEF ProvInv, ProvTypes
  <2>2. [row EXCEPT !.txn = t] \in VoucherRows /\ [row EXCEPT !.txn = t].txn = t
    BY DEF VoucherRows
  <2> QED
    BY <2>1, <2>2
<1>7. /\ scenarios' \in Seq(VoucherRows) /\ DOMAIN scenarios' = DOMAIN scenarios /\ scenarios'[r].txn = t
      /\ \A n \in DOMAIN scenarios \ {r} : scenarios'[n] = scenarios[n]
  <2>1. scenarios' = [scenarios EXCEPT ![r] = e]
    BY <1>2, <1>4, <1>6 DEF promoteToActual
  <2> QED
    BY <1>6, <2>1, Changed DEF ProvInv, ProvTypes
<1>8. ProvTypes'
  BY <1>1, <1>5, <1>7 DEF ProvInv, ProvTypes, ProvEnd, ProvPlaces, ProvBills, ProvisionRows, VoucherRows, Transactions
<1>9. LocksHold' /\ LocksExclude' /\ CursorsMoveOn'
  <2>1. HeldStays(c)
    BY <1>1, <1>2, <1>7 DEF ProvInv, LocksHold, Locked, LocksExclude, Unposted, Unpromoted, Called, HeldStays
  <2>2. RowsStay
    BY <1>1 DEF ProvInv, ProvTypes, RowsStay
  <2> QED
    BY <1>1, <2>1, <2>2, OthersGoOn
<1>10. ConvertedOnce' /\ Sources' /\ ForecastsStayOut' /\ ProvisionedOnceADay'
  <2>1. ConvertedOnce'
    BY <1>1, <1>2, <1>5, <1>7, SMTT(30) DEF ProvInv, ProvisionalIsPostedOnce, ConvertedOnce
  <2>2. Sources'
    BY <1>1, <1>5, <1>7 DEF ProvInv, Sources
  <2>3. ForecastsStayOut'
    BY <1>3, <1>5 DEF ProvInv, ProvisionalIsPostedOnce, ForecastsStayOut, CanBook
  <2>4. ProvisionedOnceADay'
    BY <1>1 DEF ProvInv, ProvisionalIsPostedOnce, ProvisionedOnceADay
  <2> QED
    BY <2>1, <2>2, <2>3, <2>4
<1> QED
  BY <1>8, <1>9, <1>10 DEF ProvInv, ProvisionalIsPostedOnce

LEMMA VoucherAdded == ASSUME ProvInv, NEW c \in ProvCall, addVoucher(c) PROVE ProvInv'
<1>1. ProvIs(c, "add", "start") /\ UNCHANGED <<provAsked, pending, provisions, converted>>
  BY DEF addVoucher, provTables
<1>2. CASE ProvEnd(c, "refused") /\ UNCHANGED provTables
  BY <1>1, <1>2, ProvGives
<1>3. CASE /\ scenarios' = Append(scenarios, [lines |-> StoredLines(Called(c).lines), txn |-> 0])
           /\ ProvEnd(c, "done")
  <2>1. PICK lines \in Seq(Int) : lines = Called(c).lines
    BY <1>1, Settings DEF ProvIs, ProvInv, ProvTypes, Asks
  <2>2. PICK stored : stored = StoredLines(lines)
    OBVIOUS
  <2>3. stored \in Seq(Int)
    <3>1. \A n \in Int : Stored(n) \in Int
      BY Whole DEF Stored
    <3>2. stored = [n \in 1 .. Len(lines) |-> Stored(lines[n])] /\ Len(lines) \in Nat
      BY <2>2 DEF StoredLines
    <3>3. \A n \in 1 .. Len(lines) : Stored(lines[n]) \in Int
      BY <3>1
    <3>4. stored \in [1 .. Len(lines) -> Int]
      BY <3>2, <3>3
    <3> QED
      BY <3>2, <3>4
  <2>12. PICK e : e = [lines |-> stored, txn |-> 0]
    OBVIOUS
  <2>13. e \in VoucherRows /\ e.txn = 0
    BY <2>3, <2>12 DEF VoucherRows
  <2> DEFINE longer == Append(scenarios, e)
  <2>4. /\ longer \in Seq(VoucherRows) /\ DOMAIN longer = DOMAIN scenarios \cup {Len(scenarios) + 1}
        /\ Len(scenarios) \in Nat /\ DOMAIN scenarios = 1 .. Len(scenarios) /\ longer[Len(scenarios) + 1] = e
        /\ \A n \in DOMAIN scenarios : longer[n] = scenarios[n]
    BY <2>13, Added DEF ProvInv, ProvTypes
  <2>5. scenarios' = longer
    BY <1>3, <2>1, <2>2, <2>12
  <2> HIDE DEF longer
  <2>6. /\ scenarios' \in Seq(VoucherRows) /\ DOMAIN scenarios' = DOMAIN scenarios \cup {Len(scenarios) + 1}
        /\ scenarios'[Len(scenarios) + 1] = e /\ \A n \in DOMAIN scenarios : scenarios'[n] = scenarios[n]
    BY <2>4, <2>5
  <2>7. ProvTypes'
    BY <1>1, <1>3, <2>6 DEF ProvInv, ProvTypes, ProvEnd, ProvPlaces, ProvBills, ProvisionRows, VoucherRows
  <2>8. LocksHold' /\ LocksExclude' /\ CursorsMoveOn'
    <3>1. HeldStays(c)
      BY <1>1, <2>6 DEF ProvInv, LocksHold, Locked, Unposted, Unpromoted, Called, HeldStays
    <3>2. RowsStay
      BY <1>1 DEF ProvInv, ProvTypes, RowsStay
    <3> QED
      BY <1>1, <1>3, <3>1, <3>2, OthersGoOn
  <2>9. PostedFrom("scenario", Len(scenarios) + 1) = {}
    BY <2>4 DEF ProvInv, Sources, PostedFrom
  <2>10. ConvertedOnce'
    <3>1. \A s, n : PostedFrom(s, n)' = PostedFrom(s, n)
      BY <1>1 DEF PostedFrom
    <3> QED
      BY <1>1, <2>13, <2>6, <2>9, <3>1 DEF ProvInv, ProvisionalIsPostedOnce, ConvertedOnce
  <2>11. Sources' /\ ForecastsStayOut' /\ ProvisionedOnceADay'
    BY <1>1, <2>6 DEF ProvInv, Sources, ProvisionalIsPostedOnce, ForecastsStayOut, ProvisionedOnceADay
  <2> QED
    BY <2>7, <2>8, <2>10, <2>11 DEF ProvInv, ProvisionalIsPostedOnce
<1> QED
  BY <1>2, <1>3 DEF addVoucher
-----------------------------------------------------------------------------
(* A lock is taken on a row that waits to be converted and nobody holds.    *)
LEMMA LockTaken == ASSUME ProvInv, NEW c \in ProvCall, LockProvision(c) \/ LockVoucher(c) PROVE ProvInv'
<1>1. UNCHANGED provAsked /\ UNCHANGED provTables /\ UNCHANGED <<provisions, scenarios>>
  BY DEF LockProvision, LockVoucher, provTables
<1>2. PICK what : ProvHas(c, "locked", what) /\ (ProvIs(c, "promote", "start") => what = scenarios[Called(c).row].lines)
  BY DEF LockProvision, LockVoucher, ProvIs
<1>3. provStep'[c] = "locked" /\ provSeen'[c] = what
  BY <1>2 DEF ProvHas, ProvInv, ProvTypes
<1>4. Scanning(c)'
  BY <1>3 DEF Scanning, ProvIs
<1>5. Locked(c)'
  <2>1. ASSUME ProvIs(c, "promote", "start"), Unpromoted(c) PROVE what \in Seq(Int)
    <3>1. scenarios[Called(c).row] \in VoucherRows
      BY <2>1, MemberOf DEF Unpromoted, ProvInv, ProvTypes
    <3> QED
      BY <1>2, <2>1, <3>1 DEF VoucherRows
  <2> QED
    BY <1>1, <1>3, <2>1 DEF Locked, LockProvision, LockVoucher, ProvIs, Called, Unposted, Unpromoted
<1>6. \A kind \in {"post", "promote"} : Called(c).kind = kind => Held(c, kind) = {}
  BY DEF LockProvision, LockVoucher, ProvIs
<1> QED
  BY <1>1, <1>2, <1>4, <1>5, <1>6, ProvTurns DEF ProvPlaces

LEMMA ProvSteps == ProvInv /\ [ProvNext]_provVars => ProvInv'
<1> SUFFICES ASSUME ProvInv, [ProvNext]_provVars PROVE ProvInv'
  OBVIOUS
<1>1. CASE UNCHANGED provVars
  <2>1. UNCHANGED <<provAsked, provStep, provSeen, pending, provisions, scenarios, converted>>
    BY <1>1 DEF provVars
  <2>2. ProvTypes'
    BY <2>1 DEF ProvInv, ProvTypes, ProvBills, ProvisionRows
  <2>3. LocksHold' /\ LocksExclude'
    BY <2>1 DEF ProvInv, LocksHold, Locked, LocksExclude, ProvIs, Called, Unposted, Unpromoted
  <2>4. CursorsMoveOn'
    <3>1. Cursors' = Cursors
      BY <2>1 DEF Cursors, ProvBills, ProvisionRows
    <3>2. \A c, row : Fresh(c, row)' = Fresh(c, row)
      BY <2>1 DEF Fresh, Called
    <3>3. \A c : Scanning(c)' = Scanning(c)
      BY <2>1, <3>1, <3>2 DEF Scanning, ProvIs, Called
    <3> QED
      BY <3>3 DEF ProvInv, CursorsMoveOn
  <2>5. Sources' /\ ProvisionalIsPostedOnce'
    BY <2>1 DEF ProvInv, Sources, ProvisionalIsPostedOnce, ConvertedOnce, PostedFrom, ProvisionedOnceADay,
                ForecastsStayOut
  <2> QED
    BY <2>2, <2>3, <2>4, <2>5 DEF ProvInv
<1>2. ASSUME NEW c \in ProvCall, Scan(c) PROVE ProvInv'
  BY <1>2, Opened
<1>3. ASSUME NEW c \in ProvCall, ProvideBill(c) PROVE ProvInv'
  BY <1>3, Provided
<1>4. ASSUME NEW c \in ProvCall, CommitProvisions(c) PROVE ProvInv'
  BY <1>4, Committed
<1>5. ASSUME NEW c \in ProvCall, PayBill(c) PROVE ProvInv'
  BY <1>5, OverdueIsPaid
<1>6. ASSUME NEW c \in ProvCall, LockProvision(c) \/ LockVoucher(c) PROVE ProvInv'
  BY <1>6, LockTaken
<1>7. ASSUME NEW c \in ProvCall, AlreadyDone(c) \/ ProvFail(c) PROVE ProvInv'
  BY <1>7, ProvGives DEF AlreadyDone, ProvFail
<1>8. ASSUME NEW c \in ProvCall, postProvision(c) PROVE ProvInv'
  BY <1>8, ProvisionPosted
<1>9. ASSUME NEW c \in ProvCall, promoteToActual(c) PROVE ProvInv'
  BY <1>9, VoucherPromoted
<1>10. ASSUME NEW c \in ProvCall, addVoucher(c) PROVE ProvInv'
  BY <1>10, VoucherAdded
<1> QED
  BY <1>1, <1>2, <1>3, <1>4, <1>5, <1>6, <1>7, <1>8, <1>9, <1>10 DEF ProvNext

(* Interest and scenario vouchers reach the books once each and balanced,   *)
(* and a day's provision of a bill is not made twice by runs that follow    *)
(* one another, however many calls overlap.                                 *)
THEOREM PostedOnceEach == ProvSpec => []ProvisionalIsPostedOnce
<1>1. ProvInv => ProvisionalIsPostedOnce
  BY DEF ProvInv
<1> QED
  BY <1>1, ProvStarts, ProvSteps, PTL DEF ProvSpec

-----------------------------------------------------------------------------
(* Payroll                                                                  *)
PayPlaces == {"start", "reading", "locked", "done", "refused"}
RunStatus == {"none", "COMPUTED", "JOURNAL_POSTED"}
IsDraft(w) == w = [list |-> w.list, done |-> w.done, rows |-> w.rows, seen |-> w.seen, status |-> w.status]
RowsDone(w) == w.rows = [e \in w.done |-> w.rows[e]]
OfStaff(w, staff) == w.list \subseteq staff /\ w.done \subseteq w.list

PayTypes ==
    /\ payAsked \in PaySettings
    /\ step \in [PayCall -> PayPlaces]
    /\ work = [c \in PayCall |-> work[c]]
    /\ \A c \in PayCall : IsDraft(work[c]) /\ OfStaff(work[c], DOMAIN structures)
    /\ DOMAIN structures = DOMAIN lostDays /\ DOMAIN register \subseteq DOMAIN structures
    /\ payRun \in [status : RunStatus, journal : 0 .. Len(postings), gross : {payRun.gross}]
    /\ postings \in Seq({postings[i] : i \in DOMAIN postings})

(* A call that is not under way holds nothing.                              *)
NothingHeld == \A c \in PayCall : step[c] \in {"start", "done", "refused"} => work[c] = Idling

(* A run has a row for each employee it is done with; nobody leaves, so     *)
(* that what it listed is everybody if nobody is hired.                     *)
NobodyHired == \A c \in DOMAIN payAsked : payAsked[c].kind # "hire"
RowsAreDone == \A c \in DOMAIN payAsked : payAsked[c].kind = "run" =>
    /\ RowsDone(work[c])
    /\ step[c] = "locked" \/ step[c] = "reading" => (NobodyHired => work[c].list = DOMAIN structures)

(* Who approves has seen a run, and a header stays.                         *)
SeenARun == \A c \in DOMAIN payAsked :
    payAsked[c].kind = "approve" /\ step[c] = "reading" => payRun.status # "none"

PayInv == PayTypes /\ NothingHeld /\ RowsAreDone /\ SeenARun /\ PostedMatchesRegister /\ RunMatchesRegister

LEMMA PayAsks == ASSUME PayTypes PROVE DOMAIN payAsked \subseteq PayCall
  BY PayrollAssumption DEF PayTypes

LEMMA PayStarts == PayrollInit => PayInv
<1> SUFFICES ASSUME PayrollInit PROVE PayInv
  OBVIOUS
<1> USE DEF PayrollInit
<1>1. \A c \in PayCall : work[c] = Idling /\ step[c] = "start"
  OBVIOUS
<1>2. IsDraft(Idling) /\ \A staff : OfStaff(Idling, staff)
  BY DEF Idling, IsDraft, OfStaff
<1>3. PayTypes
  <2>1. DOMAIN register = {} /\ DOMAIN lostDays = DOMAIN structures
    OBVIOUS
  <2>2. payRun \in [status : RunStatus, journal : 0 .. Len(postings), gross : {payRun.gross}]
    BY DEF NoRun, RunStatus
  <2>3. postings \in Seq({postings[i] : i \in DOMAIN postings})
    OBVIOUS
  <2>4. step \in [PayCall -> PayPlaces]
    BY DEF PayPlaces
  <2> QED
    BY <1>1, <1>2, <2>1, <2>2, <2>3, <2>4 DEF PayTypes
<1>4. NothingHeld
  BY <1>1 DEF NothingHeld
<1>5. RowsAreDone
  <2> SUFFICES ASSUME NEW c \in DOMAIN payAsked
               PROVE  RowsDone(work[c]) /\ step[c] = "start"
    BY DEF RowsAreDone
  <2>1. work[c] = Idling /\ step[c] = "start"
    BY <1>1, <1>3, PayAsks
  <2>2. Idling.rows = <<>> /\ Idling.done = {}
    BY DEF Idling
  <2>3. work[c].rows = <<>> /\ work[c].done = {}
    BY <2>1, <2>2
  <2>4. <<>> = [e \in {} |-> work[c].rows[e]]
    OBVIOUS
  <2> QED
    BY <2>1, <2>3, <2>4 DEF RowsDone
<1>6. SeenARun
  BY <1>1, <1>3, PayAsks DEF SeenARun
<1>7. payRun.status = "none"
  BY DEF NoRun
<1> QED
  BY <1>3, <1>4, <1>5, <1>6, <1>7 DEF PayInv, PostedMatchesRegister, RunMatchesRegister

(* A call goes on with a draft, or ends with nothing held; nobody is hired  *)
(* by it, and the run and the register stay.                                *)
GoesOn(c, where, draft) ==
    /\ step' = [step EXCEPT ![c] = where] /\ work' = [work EXCEPT ![c] = draft] /\ UNCHANGED payAsked
    /\ IsDraft(draft) /\ OfStaff(draft, DOMAIN structures)
    /\ where \in PayPlaces /\ (where \in {"start", "done", "refused"} => draft = Idling)
    /\ payAsked[c].kind = "run" =>
           /\ RowsDone(draft)
           /\ where \in {"locked", "reading"} => (NobodyHired => draft.list = DOMAIN structures)
    /\ payAsked[c].kind = "approve" /\ where = "reading" => payRun.status # "none"

(* What a call does to its own draft keeps what the drafts are, whatever it *)
(* does to the tables, if nobody leaves and a header stays.                 *)
DraftsAre(s, w, staff, asked, run) ==
    /\ s \in [PayCall -> PayPlaces]
    /\ w = [c \in PayCall |-> w[c]]
    /\ \A c \in PayCall : IsDraft(w[c])
    /\ \A c \in PayCall : OfStaff(w[c], staff)
    /\ \A c \in PayCall : s[c] \in {"start", "done", "refused"} => w[c] = Idling
    /\ \A c \in DOMAIN asked : asked[c].kind = "run" => RowsDone(w[c])
    /\ \A c \in DOMAIN asked : asked[c].kind = "run" /\ s[c] \in {"locked", "reading"} =>
           ((\A d \in DOMAIN asked : asked[d].kind # "hire") => w[c].list = staff)
    /\ \A c \in DOMAIN asked : asked[c].kind = "approve" /\ s[c] = "reading" => run.status # "none"

LEMMA DraftsNow == ASSUME PayInv PROVE DraftsAre(step, work, DOMAIN structures, payAsked, payRun)
  BY DEF PayInv, PayTypes, NothingHeld, RowsAreDone, SeenARun, DraftsAre, NobodyHired

LEMMA DraftsGoOn ==
    ASSUME PayInv, NEW c \in DOMAIN payAsked, NEW where, NEW draft, GoesOn(c, where, draft)
    PROVE  /\ DraftsAre(step', work', DOMAIN structures, payAsked, payRun)
           /\ payAsked' = payAsked
<1>0. c \in PayCall
  BY PayAsks DEF PayInv
<1>1. DraftsAre(step, work, DOMAIN structures, payAsked, payRun)
  BY DraftsNow
<1>2. PICK s, w : s = [step EXCEPT ![c] = where] /\ w = [work EXCEPT ![c] = draft]
  OBVIOUS
<1>3. s[c] = where /\ w[c] = draft
  BY <1>0, <1>1, <1>2 DEF DraftsAre
<1>4. \A d \in PayCall : d # c => s[d] = step[d] /\ w[d] = work[d]
  BY <1>0, <1>1, <1>2 DEF DraftsAre
<1>5. s \in [PayCall -> PayPlaces]
  BY <1>0, <1>1, <1>2 DEF DraftsAre, GoesOn
<1>6. w = [d \in PayCall |-> w[d]]
  BY <1>0, <1>1, <1>2 DEF DraftsAre
<1>7. \A d \in DOMAIN payAsked : d \in PayCall
  BY PayAsks DEF PayInv
<1>8. \A d \in PayCall : IsDraft(w[d])
  BY <1>1, <1>3, <1>4 DEF DraftsAre, GoesOn
<1>9. \A d \in PayCall : OfStaff(w[d], DOMAIN structures)
  BY <1>1, <1>3, <1>4 DEF DraftsAre, GoesOn
<1>10. \A d \in PayCall : s[d] \in {"start", "done", "refused"} => w[d] = Idling
  BY <1>1, <1>3, <1>4 DEF DraftsAre, GoesOn
<1>11. \A d \in DOMAIN payAsked : payAsked[d].kind = "run" => RowsDone(w[d])
  BY <1>1, <1>3, <1>4, <1>7 DEF DraftsAre, GoesOn
<1>12. \A d \in DOMAIN payAsked : payAsked[d].kind = "run" /\ s[d] \in {"locked", "reading"} =>
           ((\A b \in DOMAIN payAsked : payAsked[b].kind # "hire") => w[d].list = DOMAIN structures)
  BY <1>1, <1>3, <1>4, <1>7 DEF DraftsAre, GoesOn, NobodyHired
<1>13. \A d \in DOMAIN payAsked : payAsked[d].kind = "approve" /\ s[d] = "reading" => payRun.status # "none"
  BY <1>1, <1>3, <1>4, <1>7 DEF DraftsAre, GoesOn
<1>14. DraftsAre(s, w, DOMAIN structures, payAsked, payRun)
  BY <1>5, <1>6, <1>8, <1>9, <1>10, <1>11, <1>12, <1>13 DEF DraftsAre
<1> QED
  BY <1>2, <1>14 DEF GoesOn

(* A header, its register and its journals: what the tables say together.   *)
TablesAre(staff, lost, rows, run, journals) ==
    /\ DOMAIN staff = DOMAIN lost /\ DOMAIN rows \subseteq DOMAIN staff
    /\ run \in [status : RunStatus, journal : 0 .. Len(journals), gross : {run.gross}]
    /\ journals \in Seq({journals[i] : i \in DOMAIN journals})
    /\ run.status = "JOURNAL_POSTED" => \A p \in Part : journals[run.journal][p] = SumOver(rows, p)
    /\ run.status # "none" /\ NobodyHired => run.gross = SumOver(rows, "gross")

LEMMA TablesNow == ASSUME PayInv PROVE TablesAre(structures, lostDays, register, payRun, postings)
  BY DEF PayInv, PayTypes, PostedMatchesRegister, RunMatchesRegister, TablesAre, NobodyHired

LEMMA PayHolds ==
    ASSUME PayInv, payAsked' = payAsked,
           DraftsAre(step', work', DOMAIN structures', payAsked, payRun'),
           TablesAre(structures', lostDays', register', payRun', postings')
    PROVE  PayInv'
<1>1. PayTypes'
  BY DEF PayInv, PayTypes, DraftsAre, TablesAre
<1>2. NothingHeld' /\ SeenARun'
  BY DEF DraftsAre, NothingHeld, SeenARun
<1>3. RowsAreDone'
  BY DEF DraftsAre, RowsAreDone, NobodyHired
<1>4. PostedMatchesRegister'
  BY DEF TablesAre, PostedMatchesRegister
<1>5. RunMatchesRegister'
  BY DEF TablesAre, RunMatchesRegister, NobodyHired
<1> QED
  BY <1>1, <1>2, <1>3, <1>4, <1>5 DEF PayInv
LEMMA IdleIsDraft == IsDraft(Idling) /\ (\A staff : OfStaff(Idling, staff)) /\ RowsDone(Idling)
<1>1. IsDraft(Idling) /\ \A staff : OfStaff(Idling, staff)
  BY DEF Idling, IsDraft, OfStaff
<1>2. Idling.rows = <<>> /\ Idling.done = {}
  BY DEF Idling
<1>3. RowsDone(Idling)
  BY <1>2 DEF RowsDone
<1> QED
  BY <1>1, <1>3

LEMMA PayEnds ==
    ASSUME PayInv, NEW c \in DOMAIN payAsked, NEW how \in {"done", "refused"}, End(c, how), UNCHANGED payAsked
    PROVE  GoesOn(c, how, Idling)
  BY IdleIsDraft DEF End, Goto, GoesOn, PayPlaces

(* A call that leaves the tables alone.                                     *)
LEMMA PayReads ==
    ASSUME PayInv, NEW c \in DOMAIN payAsked, NEW where, NEW draft, GoesOn(c, where, draft), UNCHANGED tables
    PROVE  PayInv'
<1>1. DraftsAre(step', work', DOMAIN structures', payAsked, payRun')
  BY DraftsGoOn DEF tables
<1>2. TablesAre(structures', lostDays', register', payRun', postings')
  BY TablesNow DEF tables
<1> QED
  BY <1>1, <1>2, PayHolds DEF GoesOn

LEMMA DraftOf ==
    ASSUME PayInv, NEW c \in DOMAIN payAsked
    PROVE  /\ c \in PayCall /\ step[c] \in PayPlaces /\ IsDraft(work[c]) /\ OfStaff(work[c], DOMAIN structures)
           /\ step[c] = "start" => work[c] = Idling
           /\ payAsked[c].kind = "run" => RowsDone(work[c])
           /\ payAsked[c].kind = "run" /\ step[c] \in {"locked", "reading"} =>
                  (NobodyHired => work[c].list = DOMAIN structures)
           /\ payAsked[c].kind = "approve" /\ step[c] = "reading" => payRun.status # "none"
  BY PayAsks DEF PayInv, PayTypes, NothingHeld, RowsAreDone, SeenARun

LEMMA StructureRead == ASSUME PayInv, NEW c \in DOMAIN payAsked, Deactivate(c) PROVE PayInv'
<1>1. PICK draft : draft = [work[c] EXCEPT !.seen = structures[payAsked[c].emp]]
  OBVIOUS
<1>2. work' = [work EXCEPT ![c] = draft]
  BY <1>1 DEF Deactivate
<1>0. IsDraft(work[c])
  BY DraftOf
<1>3. IsDraft(draft) /\ draft.list = work[c].list /\ draft.done = work[c].done
  BY <1>0, <1>1 DEF IsDraft
<1>4. GoesOn(c, "reading", draft)
  BY <1>2, <1>3, DraftOf DEF Deactivate, Is, Goto, GoesOn, OfStaff, PayPlaces
<1> QED
  BY <1>4, PayReads DEF Deactivate

LEMMA EmployeesListed == ASSUME PayInv, NEW c \in DOMAIN payAsked, ListEmployees(c) PROVE PayInv'
<1>1. CASE DOMAIN structures = {}
  BY <1>1, PayEnds, PayReads DEF ListEmployees
<1>2. CASE DOMAIN structures # {}
  <2>1. PICK draft : draft = [work[c] EXCEPT !.list = DOMAIN structures]
    OBVIOUS
  <2>2. work' = [work EXCEPT ![c] = draft]
    BY <1>2, <2>1 DEF ListEmployees
  <2>3. work[c] = Idling
    BY DraftOf DEF ListEmployees, Is
  <2>0. IsDraft(work[c]) /\ work[c].done = {}
    <3>1. Idling.done = {}
      BY DEF Idling
    <3> QED
      BY <2>3, <3>1, DraftOf
  <2>4. /\ IsDraft(draft) /\ draft.list = DOMAIN structures /\ draft.done = {}
        /\ draft.rows = work[c].rows
    BY <2>0, <2>1 DEF IsDraft
  <2>5. RowsDone(draft)
    <3>1. Idling.rows = <<>>
      BY DEF Idling
    <3>2. draft.rows = <<>>
      BY <2>3, <2>4, <3>1
    <3> QED
      BY <2>4, <3>2 DEF RowsDone
  <2>6. GoesOn(c, "reading", draft)
    BY <1>2, <2>2, <2>4, <2>5, DraftOf DEF ListEmployees, Is, Goto, GoesOn, OfStaff, PayPlaces
  <2> QED
    BY <2>6, PayReads DEF ListEmployees
<1> QED
  BY <1>1, <1>2

LEMMA HeaderLocked == ASSUME PayInv, NEW c \in DOMAIN payAsked, UpsertHeader(c) PROVE PayInv'
<1>1. work' = [work EXCEPT ![c] = work[c]]
  BY DEF UpsertHeader, PayInv, PayTypes
<1>2. GoesOn(c, "locked", work[c])
  BY <1>1, DraftOf DEF UpsertHeader, Is, Goto, GoesOn, PayPlaces
<1> QED
  BY <1>2, PayReads DEF UpsertHeader

LEMMA PayComputed == ASSUME PayInv, NEW c \in DOMAIN payAsked, ComputePay(c) PROVE PayInv'
<1>1. PICK e \in work[c].list \ work[c].done :
          work' = [work EXCEPT ![c].done = @ \cup {e}, ![c].rows = Put(@, e, PayOf(e))]
  BY DEF ComputePay
<1>2. PICK draft : draft = [work[c] EXCEPT !.done = @ \cup {e}, !.rows = Put(@, e, PayOf(e))]
  OBVIOUS
<1>3. IsDraft(work[c]) /\ c \in PayCall /\ RowsDone(work[c])
  BY DraftOf DEF ComputePay, Is
<1>4. work' = [work EXCEPT ![c] = draft]
  BY <1>1, <1>2, <1>3 DEF PayInv, PayTypes
<1>5. /\ IsDraft(draft) /\ draft.list = work[c].list /\ draft.done = work[c].done \cup {e}
      /\ draft.rows = Put(work[c].rows, e, PayOf(e))
  BY <1>2, <1>3 DEF IsDraft
<1>6. DOMAIN work[c].rows = work[c].done
  BY <1>3 DEF RowsDone
<1>7. RowsDone(draft)
  <2>1. draft.rows = Put(work[c].rows, e, PayOf(e)) /\ draft.done = DOMAIN work[c].rows \cup {e}
    BY <1>5, <1>6
  <2> QED
    BY <2>1 DEF Put, RowsDone
<1>8. step' = [step EXCEPT ![c] = "locked"]
  BY DEF ComputePay, Is, PayInv, PayTypes
<1>9. OfStaff(draft, DOMAIN structures)
  BY <1>5, DraftOf DEF OfStaff
<1>10. GoesOn(c, "locked", draft)
  BY <1>4, <1>5, <1>7, <1>8, <1>9, DraftOf DEF ComputePay, Is, GoesOn, PayPlaces
<1> QED
  BY <1>10, PayReads DEF ComputePay

LEMMA StatusChecked == ASSUME PayInv, NEW c \in DOMAIN payAsked, CheckStatus(c) PROVE PayInv'
<1>1. CASE payRun.status = "COMPUTED"
  <2>1. PICK draft : draft = [work[c] EXCEPT !.rows = register]
    OBVIOUS
  <2>2. work' = [work EXCEPT ![c] = draft]
    BY <1>1, <2>1 DEF CheckStatus
  <2>0. IsDraft(work[c])
    BY DraftOf
  <2>3. IsDraft(draft) /\ draft.list = work[c].list /\ draft.done = work[c].done
    BY <2>0, <2>1 DEF IsDraft
  <2>4. GoesOn(c, "reading", draft)
    BY <1>1, <2>2, <2>3, DraftOf DEF CheckStatus, Is, Goto, GoesOn, OfStaff, PayPlaces
  <2> QED
    BY <2>4, PayReads DEF CheckStatus
<1>2. CASE payRun.status # "COMPUTED"
  BY <1>2, PayEnds, PayReads DEF CheckStatus
<1> QED
  BY <1>1, <1>2

LEMMA OnlyRefused ==
    ASSUME PayInv, NEW c \in DOMAIN payAsked, HeadTaken(c) \/ NotPostable(c) \/ PayFail(c) PROVE PayInv'
<1>1. End(c, "refused") /\ UNCHANGED <<payAsked, tables>>
  BY DEF HeadTaken, NotPostable, PayFail
<1> QED
  BY <1>1, PayEnds, PayReads

(* Terms, staff and attendance: the run and its register stay.              *)
LEMMA OnlyStaff ==
    ASSUME PayInv, NEW c \in DOMAIN payAsked, End(c, "done") \/ End(c, "refused"),
           UNCHANGED <<payAsked, payRun, register, postings>>,
           DOMAIN structures' = DOMAIN lostDays',
           DOMAIN structures \subseteq DOMAIN structures',
           NobodyHired => DOMAIN structures' = DOMAIN structures
    PROVE  PayInv'
<1>1. GoesOn(c, "done", Idling) \/ GoesOn(c, "refused", Idling)
  BY PayEnds
<1>2. DraftsAre(step', work', DOMAIN structures, payAsked, payRun)
  BY <1>1, DraftsGoOn
<1>3. DraftsAre(step', work', DOMAIN structures', payAsked, payRun)
  BY <1>2 DEF DraftsAre, OfStaff, NobodyHired
<1>4. TablesAre(structures', lostDays', register', payRun', postings')
  BY TablesNow DEF TablesAre
<1> QED
  BY <1>3, <1>4, PayHolds

LEMMA Hired == ASSUME PayInv, NEW c \in DOMAIN payAsked, createEmployee(c) PROVE PayInv'
<1>1. DOMAIN structures' = DOMAIN structures \cup {payAsked[c].emp}
  BY DEF createEmployee, Put
<1>2. DOMAIN lostDays' = DOMAIN lostDays \cup {payAsked[c].emp}
  BY DEF createEmployee, Put
<1>3. ~NobodyHired
  BY DEF createEmployee, Is, NobodyHired
<1>4. DOMAIN structures' = DOMAIN lostDays'
  BY <1>1, <1>2 DEF PayInv, PayTypes
<1> QED
  BY <1>1, <1>3, <1>4, OnlyStaff DEF createEmployee

LEMMA TermsSet == ASSUME PayInv, NEW c \in DOMAIN payAsked, SetStructure(c) PROVE PayInv'
<1>1. DOMAIN structures' = DOMAIN structures /\ lostDays' = lostDays
  BY DEF SetStructure
<1>2. DOMAIN structures' = DOMAIN lostDays'
  BY <1>1 DEF PayInv, PayTypes
<1> QED
  BY <1>1, <1>2, OnlyStaff DEF SetStructure

LEMMA Marked == ASSUME PayInv, NEW c \in DOMAIN payAsked, markAttendance(c) PROVE PayInv'
<1>1. structures' = structures /\ DOMAIN lostDays' = DOMAIN lostDays
  BY DEF markAttendance, MarkAll
<1>2. DOMAIN structures' = DOMAIN lostDays'
  BY <1>1 DEF PayInv, PayTypes
<1>3. End(c, "done") \/ End(c, "refused")
  BY DEF markAttendance
<1> QED
  BY <1>1, <1>2, <1>3, OnlyStaff DEF markAttendance

(* A run replaces the rows it computed; with nobody hired these are all.    *)
LEMMA RunFinished == ASSUME PayInv, NEW c \in DOMAIN payAsked, FinishRun(c) PROVE PayInv'
<1>0. DOMAIN work[c].rows = work[c].list /\ work[c].list \subseteq DOMAIN structures /\ payAsked[c].kind = "run"
  BY DraftOf DEF FinishRun, Is, OfStaff, RowsDone
<1>1. DOMAIN register' = DOMAIN register \cup DOMAIN work[c].rows
  BY DEF FinishRun, Merge
<1>2. payRun' = [status |-> "COMPUTED", journal |-> payRun.journal, gross |-> SumOver(work[c].rows, "gross")]
  BY DEF FinishRun, PayInv, PayTypes
<1>3. NobodyHired => register' = work[c].rows
  <2> SUFFICES ASSUME NobodyHired PROVE register' = work[c].rows
    OBVIOUS
  <2>1. work[c].list = DOMAIN structures
    BY DraftOf DEF FinishRun, Is
  <2>2. DOMAIN register \cup DOMAIN work[c].rows = DOMAIN work[c].rows
    BY <1>0, <2>1 DEF PayInv, PayTypes
  <2>3. work[c].rows = [e \in DOMAIN work[c].rows |-> work[c].rows[e]]
    BY <1>0, DraftOf DEF RowsDone
  <2>4. register' = [e \in DOMAIN work[c].rows |-> work[c].rows[e]]
    BY <2>2 DEF FinishRun, Merge
  <2> QED
    BY <2>3, <2>4
<1>4. DraftsAre(step', work', DOMAIN structures', payAsked, payRun')
  <2>1. DraftsAre(step', work', DOMAIN structures, payAsked, payRun)
    BY PayEnds, DraftsGoOn DEF FinishRun
  <2> QED
    BY <1>2, <2>1 DEF DraftsAre, FinishRun
<1>5. TablesAre(structures', lostDays', register', payRun', postings')
  <2>1. TablesAre(structures, lostDays, register, payRun, postings)
    BY TablesNow
  <2>2. payRun' \in [status : RunStatus, journal : 0 .. Len(postings), gross : {payRun'.gross}]
    BY <1>2, <2>1 DEF TablesAre, RunStatus
  <2>3. DOMAIN register' \subseteq DOMAIN structures
    BY <1>0, <1>1, <2>1 DEF TablesAre
  <2>4. NobodyHired => payRun'.gross = SumOver(register', "gross")
    BY <1>2, <1>3
  <2> QED
    BY <1>2, <2>1, <2>2, <2>3, <2>4 DEF TablesAre, FinishRun
<1> QED
  BY <1>4, <1>5, PayHolds DEF FinishRun

LEMMA JournalAdded ==
    ASSUME NEW s, s \in Seq({s[i] : i \in DOMAIN s}), NEW x
    PROVE  /\ Len(s) \in Nat /\ Len(Append(s, x)) = Len(s) + 1 /\ Append(s, x)[Len(s) + 1] = x
           /\ Append(s, x) \in Seq({Append(s, x)[i] : i \in DOMAIN Append(s, x)})
<1>1. PICK S : S = {s[i] : i \in DOMAIN s} \cup {x}
  OBVIOUS
<1>2. s \in Seq(S)
  BY <1>1
<1>3. PICK t : t = Append(s, x)
  OBVIOUS
<1>4. t \in Seq(S) /\ Len(t) = Len(s) + 1 /\ t[Len(s) + 1] = x /\ Len(s) \in Nat
  BY <1>1, <1>2, <1>3
<1>5. t \in Seq({t[i] : i \in DOMAIN t})
  BY <1>4
<1> QED
  BY <1>3, <1>4, <1>5

LEMMA Approved == ASSUME PayInv, NEW c \in DOMAIN payAsked, Approve(c) PROVE PayInv'
<1>0. TablesAre(structures, lostDays, register, payRun, postings)
  BY TablesNow
<1>1. PICK j : j = postings'
  OBVIOUS
<1>2. j = Append(postings, Sums)
  BY <1>1 DEF Approve
<1>3. Len(postings) \in Nat /\ Len(j) = Len(postings) + 1 /\ j[Len(j)] = Sums /\ j \in Seq({j[i] : i \in DOMAIN j})
  <2>1. postings \in Seq({postings[i] : i \in DOMAIN postings})
    BY <1>0 DEF TablesAre
  <2>2. PICK x : x = Sums
    OBVIOUS
  <2>3. j = Append(postings, x)
    BY <1>2, <2>2
  <2>4. /\ Len(postings) \in Nat /\ Len(Append(postings, x)) = Len(postings) + 1
        /\ Append(postings, x)[Len(postings) + 1] = x
        /\ Append(postings, x) \in Seq({Append(postings, x)[i] : i \in DOMAIN Append(postings, x)})
    BY <2>1, JournalAdded
  <2> QED
    BY <2>2, <2>3, <2>4
<1>4. payRun' = [status |-> "JOURNAL_POSTED", journal |-> Len(j), gross |-> payRun.gross]
  BY <1>1, <1>0 DEF Approve, TablesAre
<1>5. \A p \in Part : Sums[p] = SumOver(register, p)
  BY DEF Sums
<1>6. payRun.status # "none"
  BY DraftOf DEF Approve, Is
<1>7. DraftsAre(step', work', DOMAIN structures', payAsked, payRun')
  <2>1. DraftsAre(step', work', DOMAIN structures, payAsked, payRun)
    BY PayEnds, DraftsGoOn DEF Approve
  <2> QED
    BY <1>4, <2>1 DEF DraftsAre, Approve
<1>8. TablesAre(structures, lostDays, register, payRun', j)
  <2>1. payRun' \in [status : RunStatus, journal : 0 .. Len(j), gross : {payRun'.gross}]
    BY <1>3, <1>4 DEF RunStatus
  <2> QED
    BY <1>0, <1>3, <1>4, <1>5, <1>6, <2>1 DEF TablesAre
<1> QED
  BY <1>1, <1>7, <1>8, PayHolds DEF Approve

LEMMA PaySteps == PayInv /\ [PayrollNext]_payrollVars => PayInv'
<1> SUFFICES ASSUME PayInv, [PayrollNext]_payrollVars PROVE PayInv'
  OBVIOUS
<1>1. ASSUME NEW c \in PayCall, \/ createEmployee(c) \/ Deactivate(c) \/ SetStructure(c) \/ HeadTaken(c)
                               \/ markAttendance(c) \/ ListEmployees(c) \/ UpsertHeader(c) \/ ComputePay(c)
                               \/ FinishRun(c) \/ CheckStatus(c) \/ Approve(c) \/ NotPostable(c) \/ PayFail(c)
      PROVE  PayInv'
  <2>1. c \in DOMAIN payAsked
    BY <1>1 DEF Is, createEmployee, Deactivate, SetStructure, HeadTaken, markAttendance, ListEmployees,
       UpsertHeader, ComputePay, FinishRun, CheckStatus, Approve, NotPostable, PayFail
  <2> QED
    BY <1>1, <2>1, Hired, StructureRead, TermsSet, OnlyRefused, Marked, EmployeesListed, HeaderLocked,
       PayComputed, RunFinished, StatusChecked, Approved
<1>2. ASSUME UNCHANGED payrollVars PROVE PayInv'
  <2>1. DraftsAre(step', work', DOMAIN structures', payAsked, payRun')
    BY <1>2, DraftsNow DEF payrollVars
  <2>2. TablesAre(structures', lostDays', register', payRun', postings')
    BY <1>2, TablesNow DEF payrollVars
  <2> QED
    BY <1>2, <2>1, <2>2, PayHolds DEF payrollVars
<1> QED
  BY <1>1, <1>2 DEF PayrollNext

(* For every staff, their terms, and calls that run, approve, hire and mark *)
(* attendance in any order: the journal a payroll is linked to has the sums *)
(* of its register, and its gross is the register's unless somebody was     *)
(* hired.  The register is written and summed, and the journal made of it,  *)
(* in one statement each: what an approval read before does not matter.     *)
THEOREM PostedAsRegistered ==
    PayrollSpec => []PayrollAddsUp
<1>1. PayrollInit => PayInv
  BY PayStarts
<1>2. PayInv /\ [PayrollNext]_payrollVars => PayInv'
  BY PaySteps
<1>3. PayInv => PayrollAddsUp
  BY DEF PayInv, PayrollAddsUp, PayTypes, NothingHeld, PayrollTypeOK, RunStatus
<1> QED
  BY <1>1, <1>2, <1>3, PTL DEF PayrollSpec
-----------------------------------------------------------------------------

Places == {"idle", "waiting", "connected", "authorizing", "asking", "loading", "fetching", "calling",
           "working", "listing", "sweeping", "leaving", "done", "failed"}
Outside == {"idle", "waiting", "done", "failed"}

PoolTypes ==
    /\ poolAsked \in PoolSettings
    /\ at \in [Running -> Places]
    /\ client \in [Running -> Client \cup {0}]
    /\ inner \in [Running -> Client \cup {0}]
    /\ waiting \in Seq(Running)
    /\ context \in [Client -> {NoContext} \cup {Own(c) : c \in Running}]

(* Where a caller is says which clients it holds.                           *)
Holding == \A c \in Running :
    /\ (client[c] = 0) <=> (at[c] \in Outside)
    /\ (inner[c] = 0) <=> (at[c] # "loading")

(* A client has one holder.                                                 *)
OneHolder == \A c, d \in Running :
    /\ client[c] # 0 => client[c] # inner[d] /\ (c # d => client[c] # client[d])
    /\ inner[c] # 0 /\ c # d => inner[c] # inner[d]

(* Who is in the queue waits there, and once.                               *)
InQueue(queue, places) ==
    /\ \A n \in DOMAIN queue : places[queue[n]] \in {"waiting", "asking"}
    /\ \A m, n \in DOMAIN queue : m # n => queue[m] # queue[n]
Queued == InQueue(waiting, at)

(* The client that reads the credential has nobody's context.               *)
InnerIsBare == \A c \in Running : inner[c] # 0 => context[inner[c]] = NoContext

PoolInv == PoolTypes /\ Holding /\ OneHolder /\ Queued /\ InnerIsBare /\ ContextIsOwn
-----------------------------------------------------------------------------
(* The elements of two sequences in a row.                                  *)
LEMMA Joined ==
    ASSUME NEW S, NEW s \in Seq(S), NEW t \in Seq(S), NEW m \in 1 .. Len(s) + Len(t)
    PROVE  (s \o t)[m] = IF m <= Len(s) THEN s[m] ELSE t[m - Len(s)]
  OBVIOUS

(* An entry taken from a queue leaves the others in it, each once.          *)
LEMMA Removed ==
    ASSUME NEW S, NEW s \in Seq(S), NEW n \in DOMAIN s
    PROVE  /\ RemoveAt(s, n) \in Seq(S)
           /\ \A m \in DOMAIN RemoveAt(s, n) :
                 LET k == IF m < n THEN m ELSE m + 1
                 IN k \in DOMAIN s /\ k # n /\ RemoveAt(s, n)[m] = s[k]
<1>1. n \in 1 .. Len(s) /\ Len(s) \in Nat
  OBVIOUS
<1> DEFINE before == SubSeq(s, 1, n - 1)
           after == SubSeq(s, n + 1, Len(s))
<1>2. before \in Seq(S) /\ Len(before) = n - 1 /\ \A m \in 1 .. n - 1 : before[m] = s[m]
  BY <1>1
<1>3. after \in Seq(S) /\ Len(after) = Len(s) - n /\ \A m \in 1 .. Len(s) - n : after[m] = s[n + m]
  BY <1>1
<1>4. RemoveAt(s, n) = before \o after
  BY DEF RemoveAt
<1> HIDE DEF before, after
<1>5. before \o after \in Seq(S) /\ Len(before \o after) = Len(s) - 1
  BY <1>1, <1>2, <1>3
<1>6. ASSUME NEW m \in 1 .. Len(s) - 1, m < n
      PROVE  (before \o after)[m] = s[m]
  <2>1. m \in 1 .. Len(before) /\ m \in 1 .. n - 1 /\ m \in 1 .. Len(before) + Len(after)
    BY <1>1, <1>2, <1>3, <1>6
  <2>2. (before \o after)[m] = before[m]
    BY <1>2, <1>3, <2>1, Joined
  <2> QED
    BY <1>2, <2>1, <2>2
<1>7. ASSUME NEW m \in 1 .. Len(s) - 1, ~ (m < n)
      PROVE  (before \o after)[m] = s[m + 1]
  <2>1. PICK l : l = m - Len(before)
    OBVIOUS
  <2>2. l \in 1 .. Len(s) - n /\ n + l = m + 1
    BY <1>1, <1>2, <1>7, <2>1
  <2>3. m \in 1 .. Len(before) + Len(after) /\ ~ (m <= Len(before))
    BY <1>1, <1>2, <1>3, <1>7
  <2>4. (before \o after)[m] = after[l]
    BY <1>2, <1>3, <2>1, <2>3, Joined
  <2> QED
    BY <1>3, <2>2, <2>4
<1>8. \A m \in DOMAIN (before \o after) : m \in 1 .. Len(s) - 1
  BY <1>1, <1>5
<1>9. ASSUME NEW m \in DOMAIN RemoveAt(s, n)
      PROVE  LET k == IF m < n THEN m ELSE m + 1
             IN k \in DOMAIN s /\ k # n /\ RemoveAt(s, n)[m] = s[k]
  <2>1. m \in 1 .. Len(s) - 1
    BY <1>4, <1>8, <1>9
  <2>2. CASE m < n
    <3>1. m \in DOMAIN s /\ m # n
      BY <1>1, <2>1, <2>2
    <3> QED
      BY <1>4, <1>6, <2>1, <2>2, <3>1
  <2>3. CASE ~ (m < n)
    <3>1. m + 1 \in DOMAIN s /\ m + 1 # n
      BY <1>1, <2>1, <2>3
    <3> QED
      BY <1>4, <1>7, <2>1, <2>3, <3>1
  <2> QED
    BY <2>2, <2>3
<1> QED
  BY <1>4, <1>5, <1>9

(* The pool's size and its callers stay what they are.                      *)
LEMMA SameCast ==
    ASSUME UNCHANGED poolAsked
    PROVE  Role' = Role /\ Running' = Running /\ Client' = Client /\ \A c : Own(c)' = Own(c)
  BY DEF Role, Running, Client, Own

LEMMA Cast ==
    ASSUME PoolInv
    PROVE  0 \notin Client /\ \A c \in Running : Own(c) \in {Own(d) : d \in Running}
  BY PoolAssumption DEF PoolInv, PoolTypes, Client
-----------------------------------------------------------------------------
LEMMA PoolStarts == PoolInit => PoolInv
<1> SUFFICES ASSUME PoolInit PROVE PoolInv
  OBVIOUS
<1>1. 0 \notin Client
  BY PoolAssumption DEF PoolInit, Client
<1>2. PoolTypes
  BY DEF PoolInit, PoolTypes, Places
<1>3. Holding /\ OneHolder /\ InnerIsBare
  BY DEF PoolInit, Holding, OneHolder, InnerIsBare, Outside
<1>4. Queued
  BY DEF PoolInit, Queued, InQueue
<1>5. ContextIsOwn
  BY DEF PoolInit, ContextIsOwn, Free
<1> QED
  BY <1>2, <1>3, <1>4, <1>5 DEF PoolInv

(* A caller goes on with the clients it holds, or is refused at the door.   *)
Inside == {"authorizing", "fetching", "calling", "working", "listing", "sweeping"}
LEMMA Moves ==
    ASSUME PoolInv, NEW c \in Running, NEW to \in Places, Goes(c, to),
           UNCHANGED <<poolAsked, client, inner, waiting, context>>,
           \/ at[c] \in Inside /\ to \in Inside \cup {"leaving"}
           \/ at[c] = "idle" /\ to = "failed"
    PROVE  PoolInv'
<1>1. Role' = Role /\ Running' = Running /\ Client' = Client /\ \A d : Own(d)' = Own(d)
  BY SameCast
<1>2. at' = [at EXCEPT ![c] = to] /\ at \in [Running -> Places] /\ at[c] \notin {"waiting", "asking"}
  BY DEF Goes, PoolInv, PoolTypes, Inside
<1>3. PoolTypes'
  BY <1>1, <1>2 DEF PoolInv, PoolTypes
<1>4. Holding'
  BY <1>1, <1>2 DEF PoolInv, Holding, Outside, Inside
<1>5. OneHolder' /\ InnerIsBare'
  BY <1>1 DEF PoolInv, OneHolder, InnerIsBare
<1>6. Queued'
  BY <1>2 DEF PoolInv, PoolTypes, Queued, InQueue
<1>7. ContextIsOwn'
  BY <1>1, <1>2 DEF PoolInv, ContextIsOwn, Holding, Outside, Inside, Free
<1> QED
  BY <1>3, <1>4, <1>5, <1>6, <1>7 DEF PoolInv

(* A caller asks for a client, its first or its second, and queues.         *)
LEMMA Queues ==
    ASSUME PoolInv, NEW c \in Running, NEW to, Goes(c, to), waiting' = Append(waiting, c),
           UNCHANGED <<poolAsked, client, inner, context>>,
           \/ at[c] = "idle" /\ to = "waiting"
           \/ at[c] \in {"authorizing", "calling"} /\ to = "asking"
    PROVE  PoolInv'
<1>1. Role' = Role /\ Running' = Running /\ Client' = Client /\ \A d : Own(d)' = Own(d)
  BY SameCast
<1>2. at' = [at EXCEPT ![c] = to] /\ at \in [Running -> Places] /\ at[c] \notin {"waiting", "asking"}
  BY DEF Goes, PoolInv, PoolTypes
<1>3. waiting \in Seq(Running) /\ waiting' \in Seq(Running)
  BY DEF PoolInv, PoolTypes
<1>4. PoolTypes'
  BY <1>1, <1>2, <1>3 DEF PoolInv, PoolTypes, Places
<1>5. Holding'
  BY <1>1, <1>2 DEF PoolInv, Holding, Outside
<1>6. OneHolder' /\ InnerIsBare'
  BY <1>1 DEF PoolInv, OneHolder, InnerIsBare
<1>7. \A n \in DOMAIN waiting : at[waiting[n]] \in {"waiting", "asking"} /\ waiting[n] # c /\ waiting[n] \in Running
  BY <1>2, <1>3 DEF PoolInv, Queued, InQueue
<1>8. DOMAIN waiting' = DOMAIN waiting \cup {Len(waiting) + 1} /\ waiting'[Len(waiting) + 1] = c
      /\ \A n \in DOMAIN waiting : waiting'[n] = waiting[n]
  BY <1>3
<1>9. Queued'
  <2>1. \A n \in DOMAIN waiting' : at'[waiting'[n]] \in {"waiting", "asking"}
    BY <1>2, <1>7, <1>8
  <2>2. \A m, n \in DOMAIN waiting' : m # n => waiting'[m] # waiting'[n]
    BY <1>7, <1>8 DEF PoolInv, Queued, InQueue
  <2> QED
    BY <2>1, <2>2 DEF Queued, InQueue
<1>10. ContextIsOwn'
  BY <1>1, <1>2 DEF PoolInv, ContextIsOwn, Holding, Outside, Free
<1> QED
  BY <1>4, <1>5, <1>6, <1>9, <1>10 DEF PoolInv

-----------------------------------------------------------------------------
(* pg-pool hands a free client to the head of the queue.                    *)
LEMMA ServeKeeps == ASSUME PoolInv, Serve PROVE PoolInv'
<1>1. PICK k \in Free : LET c == Head(waiting) IN
        IF at[c] = "waiting"
        THEN client' = [client EXCEPT ![c] = k] /\ Goes(c, "connected") /\ UNCHANGED inner
        ELSE inner' = [inner EXCEPT ![c] = k] /\ Goes(c, "loading") /\ UNCHANGED client
  BY DEF Serve
<1>2. PICK c \in Running : c = Head(waiting)
  BY DEF Serve, PoolInv, PoolTypes
<1>3. Role' = Role /\ Running' = Running /\ Client' = Client /\ \A d : Own(d)' = Own(d)
  BY SameCast DEF Serve
<1>4. UNCHANGED <<poolAsked, context>> /\ waiting' = Tail(waiting) /\ waiting # <<>>
  BY DEF Serve
<1>5. k \in Client /\ k # 0 /\ context[k] = NoContext /\ \A d \in Running : client[d] # k /\ inner[d] # k
  BY Cast DEF Free, PoolInv, ContextIsOwn
<1>6. waiting \in Seq(Running) /\ waiting' \in Seq(Running) /\ c = waiting[1] /\ 1 \in DOMAIN waiting
  BY <1>2, <1>4 DEF PoolInv, PoolTypes
<1>7. \A n \in DOMAIN waiting' : n + 1 \in DOMAIN waiting /\ n + 1 # 1 /\ waiting'[n] = waiting[n + 1]
  BY <1>4, <1>6
<1>8. \A n \in DOMAIN waiting' : waiting'[n] # c /\ at[waiting'[n]] \in {"waiting", "asking"} /\ waiting'[n] \in Running
  BY <1>6, <1>7 DEF PoolInv, Queued, InQueue
<1>9. \A m, n \in DOMAIN waiting' : m # n => waiting'[m] # waiting'[n]
  <2> SUFFICES ASSUME NEW m \in DOMAIN waiting', NEW n \in DOMAIN waiting', m # n
               PROVE  waiting'[m] # waiting'[n]
    OBVIOUS
  <2>1. m \in Int /\ n \in Int
    BY <1>6
  <2>2. m + 1 # n + 1
    BY <2>1
  <2> QED
    BY <1>7, <2>2 DEF PoolInv, Queued, InQueue
<1>10. at[c] \in {"waiting", "asking"}
  BY <1>6 DEF PoolInv, Queued, InQueue
<1>11. PICK to \in {"connected", "loading"} : at' = [at EXCEPT ![c] = to]
  BY <1>1, <1>2 DEF Goes
<1>12. Queued'
  BY <1>8, <1>9, <1>11 DEF Queued, InQueue, PoolInv, PoolTypes
<1>13. CASE at[c] = "waiting"
  <2>1. client' = [client EXCEPT ![c] = k] /\ at' = [at EXCEPT ![c] = "connected"] /\ inner' = inner
        /\ client[c] = 0
    BY <1>1, <1>2, <1>13 DEF Goes, PoolInv, Holding, Outside
  <2>2. PoolTypes'
    BY <1>3, <1>4, <1>5, <1>6, <2>1 DEF PoolInv, PoolTypes, Places
  <2>3. Holding'
    BY <1>3, <1>5, <1>13, <2>1 DEF PoolInv, PoolTypes, Holding, Outside
  <2>4. OneHolder'
    BY <1>3, <1>5, <2>1 DEF PoolInv, PoolTypes, OneHolder
  <2>5. InnerIsBare'
    BY <1>3, <1>4, <2>1 DEF PoolInv, InnerIsBare
  <2>6. ContextIsOwn'
    <3>1. \A d \in Running : client'[d] # 0 =>
            context[client'[d]] = IF at'[d] = "connected" THEN NoContext ELSE Own(d)
      <4> SUFFICES ASSUME NEW d \in Running, client'[d] # 0
                   PROVE  context[client'[d]] = IF at'[d] = "connected" THEN NoContext ELSE Own(d)
        OBVIOUS
      <4>1. CASE d = c
        BY <1>5, <2>1, <4>1 DEF PoolInv, PoolTypes
      <4>2. CASE d # c
        BY <2>1, <4>2 DEF PoolInv, PoolTypes, ContextIsOwn
      <4> QED
        BY <4>1, <4>2
    <3>2. Free' \subseteq Free
      BY <1>3, <2>1, Cast DEF PoolInv, PoolTypes, Free
    <3> QED
      BY <1>3, <1>4, <3>1, <3>2 DEF PoolInv, ContextIsOwn
  <2> QED
    BY <1>12, <2>2, <2>3, <2>4, <2>5, <2>6 DEF PoolInv
<1>14. CASE at[c] = "asking"
  <2>1. inner' = [inner EXCEPT ![c] = k] /\ at' = [at EXCEPT ![c] = "loading"] /\ client' = client
        /\ inner[c] = 0
    BY <1>1, <1>2, <1>14 DEF Goes, PoolInv, Holding
  <2>2. PoolTypes'
    BY <1>3, <1>4, <1>5, <1>6, <2>1 DEF PoolInv, PoolTypes, Places
  <2>3. Holding'
    BY <1>3, <1>5, <1>14, <2>1 DEF PoolInv, PoolTypes, Holding, Outside
  <2>4. OneHolder'
    BY <1>3, <1>5, <2>1 DEF PoolInv, PoolTypes, OneHolder
  <2>5. InnerIsBare'
    BY <1>3, <1>4, <1>5, <2>1 DEF PoolInv, PoolTypes, InnerIsBare
  <2>6. ContextIsOwn'
    <3>1. \A d \in Running : (at'[d] = "connected") <=> (at[d] = "connected")
      BY <1>14, <2>1 DEF PoolInv, PoolTypes
    <3>2. Free' \subseteq Free
      BY <1>3, <2>1, Cast DEF PoolInv, PoolTypes, Free
    <3> QED
      BY <1>3, <1>4, <2>1, <3>1, <3>2 DEF PoolInv, ContextIsOwn
  <2> QED
    BY <1>12, <2>2, <2>3, <2>4, <2>5, <2>6 DEF PoolInv
<1> QED
  BY <1>10, <1>13, <1>14

(* A timer takes the caller out of the queue: a first request failed, a     *)
(* second one makes the caller give its first client back.                  *)
LEMMA TimerKeeps == ASSUME PoolInv, NEW c \in Running, TimesOut(c) PROVE PoolInv'
<1>1. PICK n \in DOMAIN waiting : waiting[n] = c /\ waiting' = RemoveAt(waiting, n)
  BY DEF TimesOut
<1>2. UNCHANGED <<poolAsked, client, inner, context>>
  BY DEF TimesOut
<1>3. Role' = Role /\ Running' = Running /\ Client' = Client /\ \A d : Own(d)' = Own(d)
  BY <1>2, SameCast
<1>4. PICK to : /\ at' = [at EXCEPT ![c] = to]
                /\ \/ at[c] = "waiting" /\ to = "failed"
                   \/ at[c] = "asking" /\ to = "leaving"
  <2>1. at[c] \in {"waiting", "asking"}
    BY <1>1 DEF PoolInv, Queued, InQueue
  <2> QED
    BY <2>1 DEF TimesOut, Goes
<1>5. waiting \in Seq(Running) /\ at \in [Running -> Places]
  BY DEF PoolInv, PoolTypes
<1>6. /\ waiting' \in Seq(Running)
      /\ \A m \in DOMAIN waiting' :
            LET k == IF m < n THEN m ELSE m + 1
            IN k \in DOMAIN waiting /\ k # n /\ waiting'[m] = waiting[k]
  BY <1>1, <1>5, Removed
<1>7. \A m \in DOMAIN waiting' :
        waiting'[m] # c /\ at[waiting'[m]] \in {"waiting", "asking"} /\ waiting'[m] \in Running
  BY <1>1, <1>5, <1>6 DEF PoolInv, Queued, InQueue
<1>8. \A l, m \in DOMAIN waiting' : l # m => waiting'[l] # waiting'[m]
  <2> SUFFICES ASSUME NEW l \in DOMAIN waiting', NEW m \in DOMAIN waiting', l # m
               PROVE  waiting'[l] # waiting'[m]
    OBVIOUS
  <2>1. l \in Int /\ m \in Int /\ n \in Int
    BY <1>5, <1>6
  <2>2. (IF l < n THEN l ELSE l + 1) # (IF m < n THEN m ELSE m + 1)
    BY <2>1
  <2> QED
    BY <1>6, <2>2 DEF PoolInv, Queued, InQueue
<1>9. PoolTypes'
  BY <1>2, <1>3, <1>4, <1>6 DEF PoolInv, PoolTypes, Places
<1>10. Holding'
  BY <1>2, <1>3, <1>4, <1>5 DEF PoolInv, Holding, Outside
<1>11. OneHolder' /\ InnerIsBare'
  BY <1>2, <1>3 DEF PoolInv, OneHolder, InnerIsBare
<1>12. Queued'
  BY <1>4, <1>5, <1>7, <1>8 DEF Queued, InQueue
<1>13. ContextIsOwn'
  BY <1>2, <1>3, <1>4, <1>5 DEF PoolInv, ContextIsOwn, Holding, Outside, Free
<1> QED
  BY <1>9, <1>10, <1>11, <1>12, <1>13 DEF PoolInv

(* A client comes back, or its connection breaks: its session is bare.      *)
LEMMA GivesBack ==
    ASSUME PoolInv, NEW c \in Running, NEW to \in {"done", "failed"}, Goes(c, to),
           client[c] # 0, at[c] \notin {"asking", "loading"},
           client' = [client EXCEPT ![c] = 0], Session(client[c], NoContext),
           UNCHANGED <<poolAsked, inner, waiting>>
    PROVE  PoolInv'
<1>1. Role' = Role /\ Running' = Running /\ Client' = Client /\ \A d : Own(d)' = Own(d)
  BY SameCast
<1>2. at' = [at EXCEPT ![c] = to] /\ at \in [Running -> Places] /\ at[c] \notin Outside
  BY DEF Goes, PoolInv, PoolTypes, Holding
<1>3. PICK k \in Client : client[c] = k /\ context' = [context EXCEPT ![k] = NoContext]
  BY DEF Session, PoolInv, PoolTypes
<1>4. inner[c] = 0 /\ \A d \in Running : inner[d] # k /\ (d # c => client[d] # k)
  BY <1>3 DEF PoolInv, Holding, OneHolder
<1>5. PoolTypes'
  BY <1>1, <1>2, <1>3 DEF PoolInv, PoolTypes, Places
<1>6. Holding'
  BY <1>1, <1>2 DEF PoolInv, PoolTypes, Holding, Outside
<1>7. OneHolder'
  BY <1>1 DEF PoolInv, PoolTypes, OneHolder
<1>8. Queued'
  BY <1>2 DEF PoolInv, PoolTypes, Queued, InQueue, Outside
<1>9. InnerIsBare'
  BY <1>1, <1>3, <1>4 DEF PoolInv, PoolTypes, InnerIsBare
<1>10. ContextIsOwn'
  BY <1>1, <1>2, <1>3, <1>4 DEF PoolInv, PoolTypes, ContextIsOwn, Free
<1> QED
  BY <1>5, <1>6, <1>7, <1>8, <1>9, <1>10 DEF PoolInv

(* A caller that was connected works under its own context.                *)
LEMMA ContextIsApplied == ASSUME PoolInv, NEW c \in Running, applySecurityContext(c) PROVE PoolInv'
<1>1. UNCHANGED <<poolAsked, client, inner, waiting>> /\ at[c] = "connected"
  BY DEF applySecurityContext
<1>2. Role' = Role /\ Running' = Running /\ Client' = Client /\ \A d : Own(d)' = Own(d)
  BY <1>1, SameCast
<1>3. at \in [Running -> Places] /\ context \in [Client -> {NoContext} \cup {Own(d) : d \in Running}]
  BY DEF PoolInv, PoolTypes
<1>4. PICK to \in {"listing", "authorizing", "working"} : at' = [at EXCEPT ![c] = to]
  BY DEF applySecurityContext, Goes
<1>5. PICK k \in Client : client[c] = k /\ k # 0
  BY <1>1, Cast DEF PoolInv, PoolTypes, Holding, Outside
<1>6. context[k] = NoContext
  BY <1>1, <1>5 DEF PoolInv, ContextIsOwn
<1>7. context' = [context EXCEPT ![k] = Own(c)]
  BY <1>5, <1>6 DEF applySecurityContext, Session, Applied
<1>8. \A d \in Running : inner[d] # k /\ (d # c => client[d] # k)
  BY <1>5 DEF PoolInv, OneHolder
<1>9. PoolTypes'
  BY <1>1, <1>2, <1>3, <1>4, <1>7 DEF PoolInv, PoolTypes, Places
<1>10. Holding'
  BY <1>1, <1>2, <1>3, <1>4 DEF PoolInv, Holding, Outside
<1>11. OneHolder'
  BY <1>1, <1>2 DEF PoolInv, OneHolder
<1>12. Queued'
  BY <1>1, <1>3, <1>4 DEF PoolInv, PoolTypes, Queued, InQueue
<1>13. InnerIsBare'
  BY <1>1, <1>2, <1>3, <1>7, <1>8 DEF PoolInv, PoolTypes, InnerIsBare
<1>14. ContextIsOwn'
  <2>1. \A d \in Running : client[d] # 0 =>
          context'[client[d]] = IF at'[d] = "connected" THEN NoContext ELSE Own(d)
    <3> SUFFICES ASSUME NEW d \in Running, client[d] # 0
                 PROVE  context'[client[d]] = IF at'[d] = "connected" THEN NoContext ELSE Own(d)
      OBVIOUS
    <3>1. CASE d = c
      BY <1>3, <1>4, <1>5, <1>7, <3>1
    <3>2. CASE d # c
      BY <1>3, <1>4, <1>5, <1>7, <1>8, <3>2 DEF PoolInv, PoolTypes, ContextIsOwn
    <3> QED
      BY <3>1, <3>2
  <2>2. Free' = Free /\ \A j \in Free : j # k /\ j \in Client
    BY <1>1, <1>2, <1>5 DEF Free
  <2>3. \A j \in Free : context'[j] = NoContext
    BY <1>3, <1>7, <2>2 DEF PoolInv, ContextIsOwn
  <2> QED
    BY <1>1, <1>2, <2>1, <2>2, <2>3 DEF ContextIsOwn
<1> QED
  BY <1>9, <1>10, <1>11, <1>12, <1>13, <1>14 DEF PoolInv

(* The second client goes back, found or not, as bare as it came.           *)
LEMMA CredentialIsRead == ASSUME PoolInv, NEW c \in Running, loadCredential(c) PROVE PoolInv'
<1>1. UNCHANGED <<poolAsked, client, waiting>> /\ at[c] = "loading"
  BY DEF loadCredential
<1>2. Role' = Role /\ Running' = Running /\ Client' = Client /\ \A d : Own(d)' = Own(d)
  BY <1>1, SameCast
<1>3. PICK to \in {"fetching", "leaving"} : at' = [at EXCEPT ![c] = to]
  BY DEF loadCredential, Goes
<1>4. inner' = [inner EXCEPT ![c] = 0]
  BY DEF loadCredential, Returned
<1>5. PICK k \in Client : inner[c] = k /\ k # 0
  BY <1>1, Cast DEF PoolInv, PoolTypes, Holding
<1>6. context[k] = NoContext
  BY <1>5 DEF PoolInv, InnerIsBare
<1>7. context' = context
  BY <1>5, <1>6 DEF loadCredential, Session, PoolInv, PoolTypes
<1>8. at \in [Running -> Places] /\ inner \in [Running -> Client \cup {0}]
  BY DEF PoolInv, PoolTypes
<1>9. PoolTypes'
  BY <1>1, <1>2, <1>3, <1>4, <1>7 DEF PoolInv, PoolTypes, Places
<1>10. Holding'
  BY <1>1, <1>2, <1>3, <1>4, <1>8 DEF PoolInv, Holding, Outside
<1>11. OneHolder'
  BY <1>1, <1>2, <1>4, <1>8 DEF PoolInv, OneHolder
<1>12. Queued'
  BY <1>1, <1>3, <1>8 DEF PoolInv, PoolTypes, Queued, InQueue
<1>13. InnerIsBare'
  BY <1>2, <1>4, <1>7, <1>8 DEF PoolInv, InnerIsBare
<1>14. ContextIsOwn'
  <2>1. \A d \in Running : (at'[d] = "connected") <=> (at[d] = "connected")
    BY <1>1, <1>3, <1>8
  <2>2. Free' \subseteq Free \cup {k}
    BY <1>1, <1>2, <1>4, <1>5, <1>8 DEF Free
  <2> QED
    BY <1>1, <1>2, <1>6, <1>7, <2>1, <2>2 DEF PoolInv, ContextIsOwn
<1> QED
  BY <1>9, <1>10, <1>11, <1>12, <1>13, <1>14 DEF PoolInv
-----------------------------------------------------------------------------
(* What the invariant reads; the steps that leave it alone.                 *)
LEMMA PoolFrame ==
    ASSUME PoolInv, UNCHANGED <<poolAsked, at, client, inner, waiting, context>>
    PROVE  PoolInv'
<1>1. Role' = Role /\ Running' = Running /\ Client' = Client /\ \A d : Own(d)' = Own(d)
  BY SameCast
<1>2. PoolTypes' /\ Holding' /\ OneHolder' /\ Queued' /\ InnerIsBare'
  BY <1>1 DEF PoolInv, PoolTypes, Holding, OneHolder, Queued, InQueue, InnerIsBare
<1>3. ContextIsOwn'
  BY <1>1 DEF PoolInv, ContextIsOwn, Free
<1> QED
  BY <1>2, <1>3 DEF PoolInv

LEMMA CallerKeeps == ASSUME PoolInv, NEW c \in Running, CallerStep(c) PROVE PoolInv'
<1>1. CASE applySecurityContext(c)
  BY <1>1, ContextIsApplied
<1>2. CASE Work(c) \/ Answered(c) \/ fetchTokenFromGsp(c)
  <2>1. PICK to \in Inside \cup {"leaving"} : Goes(c, to)
    BY <1>2 DEF Work, Answered, fetchTokenFromGsp, Inside
  <2>2. at[c] \in Inside /\ UNCHANGED <<poolAsked, client, inner, waiting, context>> /\ to \in Places
    BY <1>2 DEF Work, Answered, fetchTokenFromGsp, Inside, Places
  <2> QED
    BY <2>1, <2>2, Moves
<1>3. CASE release(c)
  <2>1. client[c] # 0 /\ client[c] \in Client
    BY <1>3 DEF release, PoolInv, PoolTypes, Holding, Outside
  <2>2. Session(client[c], NoContext)
    BY <1>3, <2>1 DEF release, Cleared, PoolInv, ContextIsOwn
  <2>3. PICK to \in {"done", "failed"} : Goes(c, to)
    BY <1>3 DEF release
  <2> QED
    BY <1>3, <2>1, <2>2, <2>3, GivesBack DEF release
<1>4. CASE getToken(c) \/ invalidateToken(c)
  <2>1. UNCHANGED <<poolAsked, client, inner, context>> /\ at[c] \in {"authorizing", "calling"}
    BY <1>4 DEF getToken, invalidateToken
  <2>2. CASE waiting' = Append(waiting, c) /\ Goes(c, "asking")
    BY <2>1, <2>2, Queues
  <2>3. CASE waiting' = waiting /\ \E to \in {"calling", "leaving"} : Goes(c, to)
    BY <2>1, <2>3, Moves DEF Inside, Places
  <2> QED
    BY <1>4, <2>2, <2>3 DEF getToken, invalidateToken, AskPool
<1>5. CASE loadCredential(c)
  BY <1>5, CredentialIsRead
<1>6. CASE sweep(c) \/ chunkArray(c)
  <2>1. PICK to \in {"sweeping", "leaving"} : Goes(c, to)
    BY <1>6 DEF sweep, chunkArray, NextRound
  <2>2. at[c] \in Inside /\ UNCHANGED <<poolAsked, client, inner, waiting, context>>
    BY <1>6 DEF sweep, chunkArray, Inside
  <2> QED
    BY <2>1, <2>2, Moves DEF Inside, Places
<1> QED
  BY <1>1, <1>2, <1>3, <1>4, <1>5, <1>6 DEF CallerStep

LEMMA PoolStep == PoolInv /\ [PoolNext]_poolVars => PoolInv'
<1> SUFFICES ASSUME PoolInv, [PoolNext]_poolVars PROVE PoolInv'
  OBVIOUS
<1>1. ASSUME NEW c \in Running, connect(c) PROVE PoolInv'
  <2>1. UNCHANGED <<poolAsked, client, inner, context>> /\ at[c] = "idle"
    BY <1>1 DEF connect
  <2>2. CASE ending = "no"
    BY <1>1, <2>1, <2>2, Queues DEF connect
  <2>3. CASE ending # "no"
    BY <1>1, <2>1, <2>3, Moves DEF connect, Places
  <2> QED
    BY <2>2, <2>3
<1>2. ASSUME NEW c \in Running, TimesOut(c) PROVE PoolInv'
  BY <1>2, TimerKeeps
<1>3. ASSUME NEW c \in Running, CallerStep(c) PROVE PoolInv'
  BY <1>3, CallerKeeps
<1>4. ASSUME NEW c \in Running, Breaks(c) PROVE PoolInv'
  BY <1>4, GivesBack DEF Breaks
<1>5. CASE Serve
  BY <1>5, ServeKeeps
<1>6. CASE TokenExpires \/ gracefulShutdown \/ Drained \/ SecondSignal
  BY <1>6, PoolFrame DEF TokenExpires, gracefulShutdown, Drained, SecondSignal, callerVars
<1>7. CASE UNCHANGED poolVars
  BY <1>7, PoolFrame DEF poolVars, callerVars
<1> QED
  BY <1>1, <1>2, <1>3, <1>4, <1>5, <1>6, <1>7 DEF PoolNext

(* Whoever holds a client works under its own company or none, and a client *)
(* in the pool is bare: for any pool size, callers, sweeps and timeouts.    *)
THEOREM OwnContext == PoolSpec => []ContextIsOwn
<1>1. PoolInv => ContextIsOwn
  BY DEF PoolInv
<1> QED
  BY <1>1, PoolStarts, PoolStep, PTL DEF PoolSpec

(* A client has one holder at a time, as its first client or as the one     *)
(* that reads a credential, whoever timed out of the queue meanwhile.       *)
THEOREM OneHolderEach == PoolSpec => []OneHolder
<1>1. PoolInv => OneHolder
  BY DEF PoolInv
<1> QED
  BY <1>1, PoolStarts, PoolStep, PTL DEF PoolSpec

-----------------------------------------------------------------------------
(* Cost centres                                                             *)
IsRows(rows) == IsFiniteSet(rows) /\ \A r \in rows : r.amount \in Int
(* Rows of calls that have committed, or of the posting.                    *)
Older(rows) == \A r \in rows, c \in CostCall : costStep[c] # "done" => r.by # c
CallKept(c) ==
    /\ costStep[c] = "start" => snapshot[c] = {}
    /\ costStep[c] = "waiting" =>
          /\ SumMatches(c) /\ Older(snapshot[c])
          /\ snapshot[c] = allocations \/ snapshot[c] \cap allocations = {}
    /\ Uncommitted(c) =>
          /\ snapshot[c] = allocations \/ snapshot[c] = {}
          /\ IsRows(mine[c]) /\ (\A r \in mine[c] : r.by = c) /\ AllocSum(mine[c]) >= costAsked.entry - 2
    /\ costStep[c] = "checked" => snapshot[c] = allocations /\ AllocSum(mine[c]) <= costAsked.entry + 2
Apart == \A c, d \in CostCall :
    c # d /\ Uncommitted(c) /\ Uncommitted(d) => snapshot[c] \cap snapshot[d] = {}
CostKept ==
    /\ IsRows(allocations) /\ costAsked.entry - AllocSum(allocations) \in -2 .. 2 /\ Older(allocations)
    /\ Apart /\ \A c \in CostCall : CallKept(c)
CostTypes ==
    /\ costAsked \in CostSettings
    /\ costStep = [c \in CostCall |-> costStep[c]]
    /\ snapshot = [c \in CostCall |-> snapshot[c]] /\ mine = [c \in CostCall |-> mine[c]]
CostInv == CostTypes /\ (costAsked.posted /\ costAsked.entry > 6 => CostKept)

OffBy(n, k) == -10000 <= 2 * (10000 * k - n) /\ 2 * (10000 * k - n) <= 10000
(* Half a unit is the most that rounding takes or adds.                     *)
LEMMA RoundedToHalf ==
    ASSUME NEW n \in Nat
    PROVE  RoundCost(n, 10000) \in Int /\ OffBy(n, RoundCost(n, 10000))
<1>1. PICK k : k = (2 * n + 10000) \div 20000
  OBVIOUS
<1>2. k \in Int /\ 20000 * k <= 2 * n + 10000 /\ 2 * n + 10000 < 20000 * k + 20000
  BY <1>1
<1>3. RoundCost(n, 10000) = k
  BY <1>1 DEF RoundCost
<1> QED
  BY <1>2, <1>3 DEF OffBy

(* What a class splits an entry into is the entry, whatever its shares.     *)
LEMMA SplitDoes ==
    ASSUME NEW entry \in Nat \ {0}, NEW split \in Seq(Nat), split # <<>>
    PROVE  LET shares == AutoSplit(entry, split) IN
           /\ DOMAIN shares = DOMAIN split /\ DOMAIN split = 1 .. Len(split) /\ Len(split) \in Nat \ {0}
           /\ Weighs(shares, DOMAIN split) /\ SumFunctionOnSet(shares, DOMAIN split) = entry
           /\ \A i \in 1 .. Len(split) - 1 : OffBy(entry * split[i], shares[i])
<1>0. PICK last : last = Len(split)
  OBVIOUS
<1>a. PICK rounded : rounded = [i \in DOMAIN split |-> RoundCost(entry * split[i], 10000)]
  OBVIOUS
<1>1. PICK shares : shares = [rounded EXCEPT ![last] = entry - SumFunctionOnSet(rounded, 1 .. last - 1)]
  OBVIOUS
<1>2. AutoSplit(entry, split) = shares
  BY <1>0, <1>a, <1>1 DEF AutoSplit
<1>3. last \in Nat \ {0} /\ DOMAIN split = 1 .. last
  BY <1>0
<1>4. ASSUME NEW i \in 1 .. last
      PROVE  rounded[i] \in Int /\ OffBy(entry * split[i], rounded[i])
  <2>1. split[i] \in Nat
    BY <1>3
  <2>2. \A a, b \in Nat : a * b \in Nat
    OBVIOUS
  <2>3. rounded[i] = RoundCost(entry * split[i], 10000)
    BY <1>a, <1>3
  <2>4. entry * split[i] \in Nat
    BY <2>1, <2>2
  <2> QED
    BY <2>3, <2>4, RoundedToHalf
<1>5. PICK most : most = 1 .. last - 1
  OBVIOUS
<1>6. /\ \A i \in most : i \in 1 .. last /\ i # last /\ shares[i] = rounded[i]
      /\ last \notin most /\ 1 .. last = most \cup {last} /\ IsFiniteSet(most)
  <2>1. \A i \in most : i \in 1 .. last /\ i # last
    BY <1>3, <1>5
  <2>2. \A i \in most : shares[i] = rounded[i]
    BY <1>a, <1>1, <1>3, <2>1
  <2>3. IsFiniteSet(most)
    BY <1>3, <1>5, FS_Interval
  <2> QED
    BY <1>3, <1>5, <2>1, <2>2, <2>3
<1>7. Weighs(rounded, most) /\ SumFunctionOnSet(rounded, most) \in Int
  BY <1>4, <1>6, SumIsInt DEF Weighs
<1>8. Weighs(shares, most) /\ SumFunctionOnSet(shares, most) = SumFunctionOnSet(rounded, most)
  BY <1>6, <1>7, SumIsSame DEF Weighs
<1>9. shares[last] = entry - SumFunctionOnSet(rounded, most) /\ shares[last] \in Int
  BY <1>a, <1>1, <1>3, <1>5, <1>7
<1>10. Weighs(shares, 1 .. last) /\ SumFunctionOnSet(shares, 1 .. last) = entry
  <2>1. SumFunctionOnSet(shares, most \cup {last}) = SumFunctionOnSet(shares, most) + shares[last]
    BY <1>6, <1>8, <1>9, SumOfMore
  <2>2. Weighs(shares, most \cup {last})
    BY <1>6, <1>8, <1>9, SumOfMore
  <2>3. SumFunctionOnSet(rounded, most) + (entry - SumFunctionOnSet(rounded, most)) = entry
    BY <1>7
  <2> QED
    BY <1>6, <1>8, <1>9, <2>1, <2>2, <2>3
<1>11. \A i \in 1 .. last - 1 : OffBy(entry * split[i], shares[i])
  BY <1>4, <1>5, <1>6
<1> QED
  BY <1>0, <1>a, <1>1, <1>2, <1>3, <1>10, <1>11

(* The rows of a call hold its positive shares, each once.                  *)
LEMMA RowsAre ==
    ASSUME NEW c, NEW shares, NEW n \in Nat, DOMAIN shares = 1 .. n, \A i \in 1 .. n : shares[i] \in Int
    PROVE  /\ IsRows(RowsOf(c, shares)) /\ \A r \in RowsOf(c, shares) : r.by = c
           /\ SumFunctionOnSet(shares, 1 .. n) \in Int /\ AllocSum(RowsOf(c, shares)) \in Int
           /\ AllocSum(RowsOf(c, shares)) >= SumFunctionOnSet(shares, 1 .. n)
           /\ (\A i \in 1 .. n : shares[i] > 0) => AllocSum(RowsOf(c, shares)) = SumFunctionOnSet(shares, 1 .. n)
<1>1. PICK S, f : /\ S = {i \in 1 .. n : shares[i] > 0}
                  /\ f = [i \in 1 .. n |-> [by |-> c, line |-> i, amount |-> shares[i]]]
  OBVIOUS
<1>2. IsFiniteSet(S) /\ \A i \in S : i \in 1 .. n
  BY <1>1, FS_Interval, FS_Subset
<1>3. RowsOf(c, shares) = {f[i] : i \in S}
  BY <1>1 DEF RowsOf
<1>4. \A i \in 1 .. n : f[i].line = i /\ f[i].amount = shares[i]
  BY <1>1
<1>5. IsRows(RowsOf(c, shares))
  BY <1>2, <1>3, <1>4, ImageIsFinite DEF IsRows
<1>6. Weighs(shares, S) /\ Weighs(shares, 1 .. n)
  BY <1>2, FS_Interval DEF Weighs
<1>7. AllocSum(RowsOf(c, shares)) = SumFunctionOnSet(shares, S)
  <2>1. PICK T, v : T = RowsOf(c, shares) /\ v = [r \in T |-> r.amount]
    OBVIOUS
  <2>2. PairsUp(f, S, T)
    <3>1. \A i, j \in S : f[i] = f[j] => i = j
      BY <1>2, <1>4
    <3>2. T = {f[i] : i \in S}
      BY <1>3, <2>1
    <3> QED
      BY <3>1, <3>2 DEF PairsUp
  <2>3. KeepsWeight(f, S, shares, v)
    BY <1>2, <1>3, <1>4, <2>1 DEF KeepsWeight
  <2>4. SumFunctionOnSet(v, T) = SumFunctionOnSet(shares, S)
    BY <1>6, <2>2, <2>3, SumOfPairs
  <2> QED
    BY <2>1, <2>4 DEF AllocSum
<1>8. PICK rest : rest = {i \in 1 .. n : shares[i] <= 0}
  OBVIOUS
<1>9. SumFunctionOnSet(shares, rest) \in Int /\ SumFunctionOnSet(shares, rest) <= 0
  <2>1. PICK Z : Z = {z \in Int : z <= 0}
    OBVIOUS
  <2>2. Z \in SUBSET Int /\ 0 \in Z /\ (\A a, b \in Z : a + b \in Z) /\ \A i \in rest : shares[i] \in Z
    BY <1>8, <2>1
  <2>3. IsFiniteSet(rest)
    BY <1>8, FS_Interval, FS_Subset
  <2>4. SumFunctionOnSet(shares, rest) \in Z
    BY <2>2, <2>3, SumStaysIn
  <2> QED
    BY <2>1, <2>4
<1>10. Weighs(shares, rest)
  BY <1>8, FS_Interval, FS_Subset DEF Weighs
<1>11. SumFunctionOnSet(shares, 1 .. n) = SumFunctionOnSet(shares, S) + SumFunctionOnSet(shares, rest)
  <2>1. 1 .. n = S \cup rest /\ S \cap rest = {}
    BY <1>1, <1>8
  <2>2. SumFunctionOnSet(shares, S \cup rest) = SumFunctionOnSet(shares, S) + SumFunctionOnSet(shares, rest)
    BY <1>6, <1>10, <2>1, SumOfBoth
  <2> QED
    BY <2>1, <2>2
<1>12. SumFunctionOnSet(shares, S) \in Int /\ SumFunctionOnSet(shares, 1 .. n) \in Int
  BY <1>6, SumIsInt
<1>13. (\A i \in 1 .. n : shares[i] > 0) => S = 1 .. n
  BY <1>1
<1>14. \A r \in RowsOf(c, shares) : r.by = c
  BY <1>1, <1>3
<1> QED
  BY <1>5, <1>7, <1>9, <1>11, <1>12, <1>13, <1>14

LEMMA SumOfRows ==
    ASSUME NEW rows, IsRows(rows)
    PROVE  AllocSum(rows) \in Int
<1>1. Weighs([r \in rows |-> r.amount], rows)
  BY DEF Weighs, IsRows
<1> QED
  BY <1>1, SumIsInt DEF AllocSum

LEMMA SumOfRowsApart ==
    ASSUME NEW rows, NEW more, IsRows(rows), IsRows(more), rows \cap more = {}
    PROVE  AllocSum(rows \cup more) = AllocSum(rows) + AllocSum(more)
<1>1. PICK w, v, u : /\ w = [r \in rows \cup more |-> r.amount]
                     /\ v = [r \in rows |-> r.amount] /\ u = [r \in more |-> r.amount]
  OBVIOUS
<1>2. Weighs(w, rows) /\ Weighs(w, more) /\ Weighs(v, rows) /\ Weighs(u, more)
  BY <1>1 DEF Weighs, IsRows
<1>3. SumFunctionOnSet(w, rows \cup more) = SumFunctionOnSet(w, rows) + SumFunctionOnSet(w, more)
  BY <1>2, SumOfBoth
<1>4. SumFunctionOnSet(w, rows) = SumFunctionOnSet(v, rows)
  BY <1>1, <1>2, SumIsSame
<1>5. SumFunctionOnSet(w, more) = SumFunctionOnSet(u, more)
  BY <1>1, <1>2, SumIsSame
<1> QED
  BY <1>1, <1>3, <1>4, <1>5 DEF AllocSum

LEMMA CostInitInv == CostInit => CostInv
<1> SUFFICES ASSUME CostInit PROVE CostInv
  OBVIOUS
<1>1. CostTypes
  BY DEF CostInit, CostTypes
<1>2. ASSUME costAsked.posted PROVE CostKept
  <2>1. PICK entry, split : entry = costAsked.entry /\ split = costAsked.split
    OBVIOUS
  <2>2. /\ entry \in Nat \ {0} /\ split \in Seq(Nat) /\ split # <<>>
        /\ \A i \in DOMAIN split : AutoSplit(entry, split)[i] > 0
    BY <1>1, <1>2, <2>1, CostAssumption DEF CostTypes
  <2>3. PICK shares, n : shares = AutoSplit(entry, split) /\ n = Len(split)
    OBVIOUS
  <2>4. /\ n \in Nat /\ DOMAIN shares = 1 .. n /\ DOMAIN split = 1 .. n
        /\ Weighs(shares, 1 .. n) /\ SumFunctionOnSet(shares, 1 .. n) = entry
    BY <2>2, <2>3, SplitDoes
  <2>5. /\ IsRows(RowsOf("posting", shares)) /\ AllocSum(RowsOf("posting", shares)) = entry
        /\ \A r \in RowsOf("posting", shares) : r.by = "posting"
    BY <2>2, <2>3, <2>4, RowsAre DEF Weighs
  <2>6. allocations = RowsOf("posting", shares)
    BY <1>2, <2>1, <2>3 DEF CostInit
  <2>7. Older(allocations)
    BY <2>5, <2>6, CostAssumption DEF Older
  <2>8. \A c \in CostCall : costStep[c] = "start" /\ snapshot[c] = {}
    BY DEF CostInit
  <2> QED
    BY <2>1, <2>2, <2>5, <2>6, <2>7, <2>8 DEF CostKept, Apart, CallKept, Uncommitted
<1> QED
  BY <1>1, <1>2 DEF CostInv

(* Until a call commits it adds nothing to what stands, and the other calls *)
(* keep what they saw.                                                      *)
LEMMA CostStays ==
    ASSUME CostTypes, CostKept, NEW c \in CostCall, NEW stage, NEW rows, NEW new,
           costStep[c] # "done", stage # "done", UNCHANGED <<costAsked, allocations>>,
           costStep' = [costStep EXCEPT ![c] = stage], snapshot' = [snapshot EXCEPT ![c] = rows],
           mine' = [mine EXCEPT ![c] = new],
           CallKept(c)',
           Uncommitted(c)' => \A d \in CostCall \ {c} : Uncommitted(d) => snapshot[d] \cap rows = {}
    PROVE  CostKept'
<1>1. /\ costStep'[c] = stage /\ snapshot'[c] = rows /\ mine'[c] = new
      /\ \A d \in CostCall \ {c} : costStep'[d] = costStep[d] /\ snapshot'[d] = snapshot[d] /\ mine'[d] = mine[d]
  BY DEF CostTypes
<1>2. \A d \in CostCall : costStep'[d] # "done" => costStep[d] # "done"
  BY <1>1
<1>3. \A S : Older(S) => (\A r \in S, d \in CostCall : costStep'[d] # "done" => r.by # d)
  BY <1>2 DEF Older
<1>4. ASSUME NEW d \in CostCall \ {c} PROVE CallKept(d)'
  <2>1. CallKept(d)
    BY DEF CostKept
  <2>2. snapshot'[d] = snapshot[d] /\ costStep'[d] = costStep[d] /\ mine'[d] = mine[d]
    BY <1>1
  <2>3. Older(snapshot[d]) => Older(snapshot[d])'
    BY <1>3, <2>2 DEF Older
  <2>4. SumMatches(d)' <=> SumMatches(d)
    BY DEF SumMatches
  <2>5. (AllocSum(mine[d]))' = AllocSum(mine[d]) /\ (IsRows(mine[d])' <=> IsRows(mine[d]))
    BY <2>2 DEF AllocSum, IsRows
  <2> QED
    BY <2>1, <2>2, <2>3, <2>4, <2>5 DEF CallKept, Uncommitted
<1>5. Apart'
  <2> SUFFICES ASSUME NEW d \in CostCall, NEW e \in CostCall, d # e, Uncommitted(d)', Uncommitted(e)'
               PROVE  snapshot'[d] \cap snapshot'[e] = {}
    BY DEF Apart
  <2>1. CASE d # c /\ e # c
    BY <1>1, <2>1 DEF Uncommitted, CostKept, Apart
  <2>2. CASE d = c
    BY <1>1, <2>2 DEF Uncommitted
  <2>3. CASE e = c
    BY <1>1, <2>3 DEF Uncommitted
  <2> QED
    BY <2>1, <2>2, <2>3
<1>6. Older(allocations)'
  BY <1>3 DEF CostKept, Older
<1>7. IsRows(allocations)' /\ (costAsked.entry - AllocSum(allocations) \in -2 .. 2)'
  BY DEF CostKept, IsRows, AllocSum
<1> QED
  BY <1>4, <1>5, <1>6, <1>7 DEF CostKept

(* What the trigger lets pass has deleted all that stands.                  *)
LEMMA CheckedIsAlone ==
    ASSUME CostTypes, CostKept, costAsked.entry > 6, NEW c \in CostCall, CostCheck(c)
    PROVE  snapshot[c] = allocations /\ AllocSum(mine[c]) <= costAsked.entry + 2
<1>1. costAsked.entry \in Nat
  BY CostAssumption DEF CostTypes
<1>2. /\ costStep[c] = "deleted" /\ CallKept(c) /\ Uncommitted(c) /\ ~Mismatch(Seen(c))
  BY DEF CostCheck, CostKept, Uncommitted
<1>3. /\ IsRows(allocations) /\ AllocSum(allocations) \in Int /\ AllocSum(allocations) >= costAsked.entry - 2
  <2>1. AllocSum(allocations) \in Int
    BY SumOfRows DEF CostKept
  <2> QED
    BY <1>1, <2>1 DEF CostKept
<1>4. IsRows(mine[c]) /\ AllocSum(mine[c]) \in Int /\ AllocSum(mine[c]) >= costAsked.entry - 2
  BY <1>2, SumOfRows DEF CallKept
<1>5. CASE snapshot[c] = allocations
  <2>1. Seen(c) = mine[c]
    BY <1>5 DEF Seen
  <2>2. AllocSum(mine[c]) <= costAsked.entry + 2
    BY <1>1, <1>2, <1>4, <2>1 DEF Mismatch
  <2> QED
    BY <1>5, <2>2
<1>6. CASE snapshot[c] = {}
  <2>1. allocations \cap mine[c] = {}
    BY <1>2 DEF CallKept, CostKept, Older
  <2>2. Seen(c) = allocations \cup mine[c]
    BY <1>6 DEF Seen
  <2>3. AllocSum(Seen(c)) = AllocSum(allocations) + AllocSum(mine[c])
    BY <1>3, <1>4, <2>1, <2>2, SumOfRowsApart
  <2>4. AllocSum(Seen(c)) <= costAsked.entry + 2
    BY <1>1, <1>2, <1>3, <1>4, <2>3 DEF Mismatch
  <2> QED
    BY <1>1, <1>3, <1>4, <2>3, <2>4
<1> QED
  BY <1>2, <1>5, <1>6 DEF CallKept

(* Of all steps only a COMMIT writes, and what it leaves is its own rows.   *)
LEMMA CommitKeeps ==
    ASSUME CostTypes, CostKept, costAsked.entry > 6, NEW c \in CostCall, CostCommit(c)
    PROVE  CostKept'
<1>1. costAsked.entry \in Nat /\ costAsked' = costAsked
  BY CostAssumption DEF CostTypes, CostCommit
<1>2. costStep[c] = "checked" /\ CallKept(c) /\ Uncommitted(c)
  BY DEF CostCommit, CostKept, Uncommitted
<1>3. snapshot[c] = allocations /\ Seen(c) = mine[c]
  BY <1>2 DEF CallKept, Seen
<1>4. /\ allocations' = mine[c]
      /\ costStep'[c] = "done" /\ snapshot'[c] = {} /\ mine'[c] = {}
      /\ \A d \in CostCall \ {c} : costStep'[d] = costStep[d] /\ snapshot'[d] = snapshot[d] /\ mine'[d] = mine[d]
  BY <1>3 DEF CostCommit, CostEnd, CostTypes
<1>5. IsRows(mine[c]) /\ (\A r \in mine[c] : r.by = c) /\ AllocSum(mine[c]) \in Int
  BY <1>2, SumOfRows DEF CallKept
<1>6. IsRows(allocations)' /\ (AllocSum(allocations))' = AllocSum(mine[c])
  BY <1>4, <1>5 DEF IsRows, AllocSum
<1>7. (costAsked.entry - AllocSum(allocations) \in -2 .. 2)'
  BY <1>1, <1>2, <1>5, <1>6 DEF CallKept
<1>8. Older(allocations)'
  BY <1>4, <1>5 DEF Older
<1>9. allocations # {}
  <2>1. AllocSum({}) = 0
    BY SumOfNone DEF AllocSum
  <2>2. costAsked.entry - AllocSum(allocations) \in -2 .. 2
    BY DEF CostKept
  <2> QED
    BY <1>1, <2>1, <2>2
<1>10. ASSUME NEW d \in CostCall \ {c}, Uncommitted(d)
       PROVE  snapshot[d] = {} /\ costStep[d] # "checked"
  <2>1. snapshot[c] \cap snapshot[d] = {}
    BY <1>2, <1>10 DEF CostKept, Apart
  <2>2. CallKept(d)
    BY <1>10 DEF CostKept
  <2> QED
    BY <1>3, <1>9, <1>10, <2>1, <2>2 DEF CallKept
<1>11. ASSUME NEW d \in CostCall \ {c} PROVE CallKept(d)'
  <2>1. CallKept(d)
    BY DEF CostKept
  <2>2. snapshot'[d] = snapshot[d] /\ costStep'[d] = costStep[d] /\ mine'[d] = mine[d]
    BY <1>4
  <2>3. Uncommitted(d)' <=> Uncommitted(d)
    BY <2>2 DEF Uncommitted
  <2>4. (AllocSum(mine[d]))' = AllocSum(mine[d]) /\ (IsRows(mine[d])' <=> IsRows(mine[d]))
    BY <2>2 DEF AllocSum, IsRows
  <2>5. ASSUME costStep[d] = "waiting"
        PROVE  SumMatches(d)' /\ Older(snapshot[d])' /\ snapshot[d] \cap mine[c] = {}
    <3>1. SumMatches(d) /\ Older(snapshot[d])
      BY <2>1, <2>5 DEF CallKept
    <3>2. SumMatches(d)'
      BY <1>1, <3>1 DEF SumMatches
    <3>3. Older(snapshot[d])'
      BY <1>2, <1>4, <2>2, <3>1 DEF Older
    <3>4. snapshot[d] \cap mine[c] = {}
      BY <1>2, <1>5, <3>1 DEF Older
    <3> QED
      BY <3>2, <3>3, <3>4
  <2>6. (costStep[d] = "start" => snapshot[d] = {})'
    BY <2>1, <2>2 DEF CallKept
  <2>7. (costStep[d] = "waiting" =>
          /\ SumMatches(d) /\ Older(snapshot[d])
          /\ snapshot[d] = allocations \/ snapshot[d] \cap allocations = {})'
    BY <1>4, <2>2, <2>5
  <2>8. (Uncommitted(d) =>
          /\ snapshot[d] = allocations \/ snapshot[d] = {}
          /\ IsRows(mine[d]) /\ (\A r \in mine[d] : r.by = d) /\ AllocSum(mine[d]) >= costAsked.entry - 2)'
    BY <1>1, <1>10, <2>1, <2>2, <2>3, <2>4 DEF CallKept
  <2>9. costStep'[d] # "checked"
    BY <1>10, <2>2 DEF Uncommitted
  <2> QED
    BY <2>6, <2>7, <2>8, <2>9 DEF CallKept
<1>12. CallKept(c)'
  BY <1>4 DEF CallKept, Uncommitted
<1>13. Apart'
  <2> SUFFICES ASSUME NEW d \in CostCall, NEW e \in CostCall, d # e, Uncommitted(d)', Uncommitted(e)'
               PROVE  snapshot'[d] \cap snapshot'[e] = {}
    BY DEF Apart
  <2>1. d # c /\ e # c
    BY <1>4 DEF Uncommitted
  <2> QED
    BY <1>4, <2>1 DEF Uncommitted, CostKept, Apart
<1> QED
  BY <1>6, <1>7, <1>8, <1>11, <1>12, <1>13 DEF CostKept

LEMMA CostStepKeeps ==
    ASSUME CostTypes, CostKept, costAsked.entry > 6, NEW c \in CostCall,
           \/ SumRefused(c) \/ FindRows(c) \/ setAllocations(c) \/ applyAutoAllocation(c)
           \/ CostCheck(c) \/ CostRefused(c) \/ CostCommit(c)
    PROVE  CostKept'
<1>1. costAsked.entry \in Nat \ {0} /\ CallKept(c)
  BY CostAssumption DEF CostTypes, CostKept
<1>2. ASSUME CostEnd(c, "refused"), UNCHANGED <<costAsked, allocations>>, costStep[c] # "done" PROVE CostKept'
  <2>1. /\ costStep' = [costStep EXCEPT ![c] = "refused"]
        /\ snapshot' = [snapshot EXCEPT ![c] = {}] /\ mine' = [mine EXCEPT ![c] = {}]
    BY <1>2 DEF CostEnd
  <2>2. costStep'[c] = "refused"
    BY <2>1 DEF CostTypes
  <2>3. CallKept(c)' /\ ~Uncommitted(c)'
    BY <2>2 DEF CallKept, Uncommitted
  <2> QED
    BY <1>2, <2>1, <2>3, CostStays
<1>3. CASE SumRefused(c)
  BY <1>2, <1>3 DEF SumRefused, CostIs
<1>4. CASE FindRows(c)
  <2>1. /\ costStep[c] = "start" /\ SumMatches(c) /\ UNCHANGED <<costAsked, mine, allocations>>
        /\ snapshot' = [snapshot EXCEPT ![c] = allocations]
        /\ costStep' = [costStep EXCEPT ![c] = "waiting"] /\ mine' = [mine EXCEPT ![c] = mine[c]]
    BY <1>4 DEF FindRows, CostIs, CostTypes
  <2>2. costStep'[c] = "waiting" /\ snapshot'[c] = allocations
    BY <2>1 DEF CostTypes
  <2>3. SumMatches(c)' /\ Older(snapshot[c])'
    BY <2>1, <2>2 DEF SumMatches, Older, CostKept, CostTypes
  <2>4. CallKept(c)' /\ ~Uncommitted(c)'
    BY <2>1, <2>2, <2>3 DEF CallKept, Uncommitted
  <2> QED
    BY <2>1, <2>4, CostStays
<1>5. CASE setAllocations(c)
  <2>1. PICK shares : shares = costAsked.calls[c].shares
    OBVIOUS
  <2>2. /\ c \in DOMAIN costAsked.calls /\ costAsked.calls[c].kind = "set" /\ costStep[c] = "waiting" /\ RowsFree(c)
        /\ snapshot' = [snapshot EXCEPT ![c] = snapshot[c] \cap allocations]
        /\ costStep' = [costStep EXCEPT ![c] = "deleted"] /\ mine' = [mine EXCEPT ![c] = RowsOf(c, shares)]
        /\ UNCHANGED <<costAsked, allocations>>
    BY <1>5, <2>1 DEF setAllocations, CostIs
  <2>3. shares \in Seq(Int)
    BY <2>1, <2>2, CostAssumption DEF CostTypes
  <2>4. Len(shares) \in Nat /\ DOMAIN shares = 1 .. Len(shares) /\ \A i \in 1 .. Len(shares) : shares[i] \in Int
    BY <2>3
  <2>5. /\ IsRows(RowsOf(c, shares)) /\ (\A r \in RowsOf(c, shares) : r.by = c)
        /\ AllocSum(RowsOf(c, shares)) \in Int /\ TotalCost(shares) \in Int
        /\ AllocSum(RowsOf(c, shares)) >= TotalCost(shares)
    BY <2>4, RowsAre DEF TotalCost
  <2>6. AllocSum(RowsOf(c, shares)) >= costAsked.entry - 2
    BY <1>1, <2>1, <2>2, <2>5 DEF CallKept, SumMatches
  <2>7. costStep'[c] = "deleted" /\ snapshot'[c] = snapshot[c] \cap allocations /\ mine'[c] = RowsOf(c, shares)
    BY <2>2 DEF CostTypes
  <2>8. snapshot'[c] = allocations \/ snapshot'[c] = {}
    BY <1>1, <2>2, <2>7 DEF CallKept
  <2>9. IsRows(mine[c])' /\ (AllocSum(mine[c]))' = AllocSum(RowsOf(c, shares))
    BY <2>5, <2>7 DEF IsRows, AllocSum
  <2>10. CallKept(c)'
    BY <2>2, <2>5, <2>6, <2>7, <2>8, <2>9 DEF CallKept
  <2>11. \A d \in CostCall \ {c} : Uncommitted(d) => snapshot[d] \cap (snapshot[c] \cap allocations) = {}
    BY <2>2 DEF RowsFree
  <2> QED
    BY <2>2, <2>10, <2>11, CostStays
<1>6. CASE applyAutoAllocation(c)
  <2>1. CASE \A i \in DOMAIN Shares : Shares[i] > 0
    <3>1. PICK n : n = Len(costAsked.split)
      OBVIOUS
    <3>2. costAsked.split \in Seq(Nat) /\ costAsked.split # <<>>
      BY CostAssumption DEF CostTypes
    <3>3. /\ n \in Nat /\ DOMAIN Shares = 1 .. n /\ (\A i \in 1 .. n : Shares[i] \in Int)
          /\ SumFunctionOnSet(Shares, 1 .. n) = costAsked.entry
      BY <1>1, <3>1, <3>2, SplitDoes DEF Shares, Weighs
    <3>4. /\ IsRows(RowsOf(c, Shares)) /\ (\A r \in RowsOf(c, Shares) : r.by = c)
          /\ AllocSum(RowsOf(c, Shares)) = costAsked.entry
      BY <2>1, <3>3, RowsAre
    <3>5. /\ costStep[c] = "start" /\ UNCHANGED <<costAsked, allocations>>
          /\ snapshot' = [snapshot EXCEPT ![c] = snapshot[c]]
          /\ costStep' = [costStep EXCEPT ![c] = "deleted"] /\ mine' = [mine EXCEPT ![c] = RowsOf(c, Shares)]
      BY <1>6, <2>1 DEF applyAutoAllocation, CostIs, CostTypes
    <3>6. costStep'[c] = "deleted" /\ snapshot'[c] = {} /\ snapshot[c] = {} /\ mine'[c] = RowsOf(c, Shares)
      BY <1>1, <3>5 DEF CostTypes, CallKept
    <3>7. IsRows(mine[c])' /\ (AllocSum(mine[c]))' = costAsked.entry
      BY <3>4, <3>6 DEF IsRows, AllocSum
    <3>8. CallKept(c)'
      BY <1>1, <3>4, <3>5, <3>6, <3>7 DEF CallKept
    <3> QED
      BY <3>5, <3>6, <3>8, CostStays
  <2>2. CASE ~\A i \in DOMAIN Shares : Shares[i] > 0
    BY <1>2, <1>6, <2>2 DEF applyAutoAllocation, CostIs
  <2> QED
    BY <2>1, <2>2
<1>7. CASE CostCheck(c)
  <2>1. /\ costStep[c] = "deleted" /\ UNCHANGED <<costAsked, snapshot, mine, allocations>>
        /\ costStep' = [costStep EXCEPT ![c] = "checked"]
        /\ snapshot' = [snapshot EXCEPT ![c] = snapshot[c]] /\ mine' = [mine EXCEPT ![c] = mine[c]]
    BY <1>7 DEF CostCheck, CostTypes
  <2>2. snapshot[c] = allocations /\ AllocSum(mine[c]) <= costAsked.entry + 2
    BY <1>7, CheckedIsAlone
  <2>3. costStep'[c] = "checked" /\ (AllocSum(mine[c]))' = AllocSum(mine[c]) /\ (IsRows(mine[c])' <=> IsRows(mine[c]))
    BY <2>1 DEF CostTypes, AllocSum, IsRows
  <2>4. CallKept(c)'
    BY <1>1, <2>1, <2>2, <2>3 DEF CallKept, Uncommitted
  <2>5. \A d \in CostCall \ {c} : Uncommitted(d) => snapshot[d] \cap snapshot[c] = {}
    BY <2>1 DEF CostKept, Apart, Uncommitted
  <2> QED
    BY <2>1, <2>4, <2>5, CostStays
<1>8. CASE CostRefused(c)
  BY <1>2, <1>8 DEF CostRefused
<1>9. CASE CostCommit(c)
  BY <1>9, CommitKeeps
<1> QED
  BY <1>3, <1>4, <1>5, <1>6, <1>7, <1>8, <1>9

LEMMA CostNextInv == CostInv /\ [CostNext]_costVars => CostInv'
<1>0. ASSUME CostInv, UNCHANGED costVars PROVE CostInv'
  <2>1. (CostTypes' <=> CostTypes) /\ costAsked' = costAsked
    BY <1>0 DEF CostTypes, costVars
  <2>2. \A c \in CostCall : CallKept(c)' <=> CallKept(c)
    BY <1>0 DEF CallKept, Older, Uncommitted, SumMatches, IsRows, AllocSum, costVars
  <2>3. (Apart' <=> Apart) /\ (Older(allocations)' <=> Older(allocations))
    BY <1>0 DEF Apart, Older, Uncommitted, costVars
  <2>4. (IsRows(allocations)' <=> IsRows(allocations)) /\ (AllocSum(allocations))' = AllocSum(allocations)
    BY <1>0 DEF IsRows, AllocSum, costVars
  <2> QED
    BY <1>0, <2>1, <2>2, <2>3, <2>4 DEF CostInv, CostKept
<1>1. SUFFICES ASSUME CostInv, CostNext PROVE CostInv'
  BY <1>0
<1>2. PICK c \in CostCall :
        \/ SumRefused(c) \/ FindRows(c) \/ setAllocations(c) \/ applyAutoAllocation(c)
        \/ CostCheck(c) \/ CostRefused(c) \/ CostCommit(c)
  BY <1>1 DEF CostNext
<1>3. costAsked' = costAsked /\ CostTypes'
  BY <1>1, <1>2 DEF CostInv, CostTypes, SumRefused, FindRows, setAllocations, applyAutoAllocation, CostCheck,
                    CostCommit, CostRefused, CostEnd
<1>4. costAsked.posted /\ costAsked.entry > 6 => CostKept'
  BY <1>1, <1>2, CostStepKeeps DEF CostInv
<1> QED
  BY <1>3, <1>4 DEF CostInv

(* Whatever calls reallocate it at the same time, an entry of more than six *)
(* paise that was allocated when it was posted stays allocated in full      *)
(* (trg_enforce_cost_center_100pct, checked before its COMMIT is visible),  *)
(* and the shares of every class make up every amount to the paisa, each    *)
(* but the last rounded to half a one (auto_allocate_cost_centers).         *)
THEOREM AllocatedWhole == CostSpec => []SharesAddUp
<1>1. CostInit => CostInv
  BY CostInitInv
<1>2. CostInv /\ [CostNext]_costVars => CostInv'
  BY CostNextInv
<1>3. CostInv => SharesAddUp
  <2> SUFFICES ASSUME CostInv PROVE SharesAddUp
    OBVIOUS
  <2>1. costAsked.entry \in Nat \ {0} /\ costAsked.split \in Seq(Nat) /\ costAsked.split # <<>>
    BY CostAssumption DEF CostInv, CostTypes
  <2>2. /\ DOMAIN Shares = 1 .. Len(costAsked.split) /\ Len(costAsked.split) \in Nat
        /\ DOMAIN costAsked.split = 1 .. Len(costAsked.split)
        /\ SumFunctionOnSet(Shares, DOMAIN costAsked.split) = costAsked.entry
        /\ \A i \in 1 .. Len(costAsked.split) - 1 : OffBy(costAsked.entry * costAsked.split[i], Shares[i])
    BY <2>1, SplitDoes DEF Shares
  <2>3. Len(Shares) = Len(costAsked.split)
    BY <2>2
  <2> QED
    BY <2>2, <2>3 DEF CostInv, CostKept, AllocatedInFull, SharesAddUp, SplitIsExact, TotalCost, OffBy
<1> QED
  BY <1>1, <1>2, <1>3, PTL DEF CostSpec

-----------------------------------------------------------------------------
(* Pay slips                                                                *)

(* Rounding is off by half of what it rounds to at most.                    *)
LEMMA QuotientIs ==
    ASSUME NEW a \in Int, NEW d \in Nat \ {0}
    PROVE  a \div d \in Int /\ d * (a \div d) <= a /\ a < d * (a \div d) + d
OBVIOUS

LEMMA RoundIs ==
    ASSUME NEW n \in Int, NEW d \in Nat \ {0}
    PROVE  /\ Round(n, d) \in Int
           /\ (2 * d) * Round(n, d) <= 2 * n + d /\ 2 * n + d < (2 * d) * Round(n, d) + 2 * d
<1>1. PICK a, b : a = 2 * n + d /\ b = 2 * d
  OBVIOUS
<1>2. a \in Int /\ b \in Nat \ {0}
  BY <1>1
<1>3. Round(n, d) = a \div b
  BY <1>1 DEF Round
<1>4. a \div b \in Int /\ b * (a \div b) <= a /\ a < b * (a \div b) + b
  BY <1>2, QuotientIs
<1> QED
  BY <1>1, <1>3, <1>4

(* The slabs are gone through one by one.                                   *)
LEMMA SlabTaxIs ==
    ASSUME NEW income, NEW a, a[0] = [left |-> income, tax |-> 0],
           \A n \in 1 .. 7 : a[n] = Taxed(a[n - 1], TaxSlabs[n])
    PROVE  SlabTax(income) = a[7].tax
<1> DEFINE Unfolds(g) == g = [n \in 0 .. Len(TaxSlabs) |->
              IF n = 0 THEN [left |-> income, tax |-> 0] ELSE Taxed(g[n - 1], TaxSlabs[n])]
<1>1. Len(TaxSlabs) = 7
  BY DEF TaxSlabs
<1>2. PICK f : f = [n \in 0 .. 7 |-> a[n]]
  OBVIOUS
<1>3. Unfolds(f)
  <2>1. \A n \in 0 .. 7 : f[n] = IF n = 0 THEN [left |-> income, tax |-> 0] ELSE Taxed(f[n - 1], TaxSlabs[n])
    <3> SUFFICES ASSUME NEW n \in 0 .. 7
                 PROVE  f[n] = IF n = 0 THEN [left |-> income, tax |-> 0] ELSE Taxed(f[n - 1], TaxSlabs[n])
      OBVIOUS
    <3>1. CASE n = 0
      BY <1>2, <3>1
    <3>2. CASE n # 0
      <4>1. n \in 1 .. 7 /\ n - 1 \in 0 .. 7
        BY <3>2
      <4>2. f[n] = a[n] /\ f[n - 1] = a[n - 1]
        BY <1>2, <4>1
      <4> QED
        BY <3>2, <4>1, <4>2
    <3> QED
      BY <3>1, <3>2
  <2>2. f = [n \in 0 .. 7 |-> f[n]]
    BY <1>2
  <2> QED
    BY <1>1, <2>1, <2>2
<1>4. PICK g : g = CHOOSE h : Unfolds(h)
  OBVIOUS
<1>5. Unfolds(g)
  BY <1>3, <1>4
<1>6. SlabTax(income) = g[7].tax
  BY <1>1, <1>4 DEF SlabTax
<1>7. /\ g[0] = a[0]
      /\ \A n \in 0 .. 7 : n # 0 => g[n] = Taxed(g[n - 1], TaxSlabs[n])
  BY <1>1, <1>5
<1>8. g[7] = a[7]
  <2>1. g[1] = a[1]
    BY <1>7
  <2>2. g[2] = a[2]
    BY <1>7, <2>1
  <2>3. g[3] = a[3]
    BY <1>7, <2>2
  <2>4. g[4] = a[4]
    BY <1>7, <2>3
  <2>5. g[5] = a[5]
    BY <1>7, <2>4
  <2>6. g[6] = a[6]
    BY <1>7, <2>5
  <2> QED
    BY <1>7, <2>6
<1> QED
  BY <1>6, <1>8

(* A slab charges what it has room for of what is left.                     *)
Takes(l, w) == IF l <= 0 THEN 0 ELSE IF l < w THEN l ELSE w
LEMMA TaxedIs ==
    ASSUME NEW l \in Int, NEW t \in Int, NEW s, Width(s) \in Nat, s.rate \in Nat
    PROVE  LET after == Taxed([left |-> l, tax |-> t], s)
           IN  after = [left |-> l - Takes(l, Width(s)), tax |-> t + Takes(l, Width(s)) * s.rate]
<1>1. PICK w, r : w = Width(s) /\ r = s.rate
  OBVIOUS
<1>2. w \in Nat /\ r \in Nat
  BY <1>1
<1>3. PICK acc : acc = [left |-> l, tax |-> t]
  OBVIOUS
<1>4. acc.left = l /\ acc.tax = t
  BY <1>3
<1>5. CASE l <= 0
  <2>1. Taxed(acc, s) = acc
    BY <1>4, <1>5 DEF Taxed
  <2>2. Takes(l, w) = 0 /\ l - 0 = l /\ t + 0 * r = t
    BY <1>2, <1>5 DEF Takes
  <2> QED
    BY <1>1, <1>3, <2>1, <2>2
<1>6. CASE ~(l <= 0)
  <2>1. LesserOf(l, w) = Takes(l, w)
    BY <1>6 DEF LesserOf, Takes
  <2>2. Taxed(acc, s) = [left |-> acc.left - LesserOf(acc.left, Width(s)),
                         tax |-> acc.tax + LesserOf(acc.left, Width(s)) * s.rate]
    BY <1>4, <1>6 DEF Taxed
  <2> QED
    BY <1>1, <1>3, <1>4, <2>1, <2>2
<1> QED
  BY <1>5, <1>6

(* What is left for each slab, and what the loop comes to.                  *)
OneSlab(n, x, t, y, q, b, u, w, r) ==
    /\ q = Takes(x, w[n]) /\ y = x - q /\ b = r[n] * q /\ u = t + b
    /\ Taxed([left |-> x, tax |-> t], TaxSlabs[n]) = [left |-> y, tax |-> u]
AllSlabs(income, l, p, w, r) ==
    /\ l[1] = income /\ \A n \in 1 .. 6 : l[n + 1] = l[n] - p[n]
    /\ \A n \in 1 .. 7 : p[n] = Takes(l[n], w[n])
    /\ SlabTax(income) = r[1] * p[1] + r[2] * p[2] + r[3] * p[3] + r[4] * p[4]
                         + r[5] * p[5] + r[6] * p[6] + r[7] * p[7]
LEMMA SlabsCharge ==
    ASSUME NEW income \in Int, NEW w \in [1 .. 7 -> Nat], NEW r \in [1 .. 7 -> Nat],
           \A n \in 1 .. 7 : Width(TaxSlabs[n]) = w[n] /\ TaxSlabs[n].rate = r[n]
    PROVE  \E l, p \in [1 .. 7 -> Int] : AllSlabs(income, l, p, w, r)
<1>0. \A x \in Int : \A y \in Nat : Takes(x, y) \in Int
  BY DEF Takes
<1>2. ASSUME NEW n \in 1 .. 7, NEW x \in Int, NEW t \in Int
      PROVE  \E y, q, b, u \in Int : OneSlab(n, x, t, y, q, b, u, w, r)
  <2>1. PICK s : s = TaxSlabs[n]
    OBVIOUS
  <2>2. Width(s) = w[n] /\ s.rate = r[n] /\ w[n] \in Nat /\ r[n] \in Nat
    BY <2>1
  <2>3. PICK q \in Int : q = Takes(x, w[n])
    BY <1>0, <2>2
  <2>4. Taxed([left |-> x, tax |-> t], s) = [left |-> x - q, tax |-> t + q * s.rate]
    BY <2>2, <2>3, TaxedIs
  <2>5. PICK b \in Int : b = r[n] * q /\ b = q * s.rate
    BY <2>2, <2>3
  <2>6. x - q \in Int /\ t + b \in Int
    BY <2>5
  <2> QED
    BY <2>1, <2>3, <2>4, <2>5, <2>6 DEF OneSlab
<1>3. PICK l1, t0 \in Int : l1 = income /\ t0 = 0
  OBVIOUS
<1>a. 1 \in 1 .. 7 /\ 2 \in 1 .. 7 /\ 3 \in 1 .. 7 /\ 4 \in 1 .. 7 /\ 5 \in 1 .. 7 /\ 6 \in 1 .. 7 /\ 7 \in 1 .. 7
  OBVIOUS
<1>4. PICK l2, p1, b1, t1 \in Int : OneSlab(1, l1, t0, l2, p1, b1, t1, w, r)
  BY <1>2, <1>a, Zenon
<1>5. PICK l3, p2, b2, t2 \in Int : OneSlab(2, l2, t1, l3, p2, b2, t2, w, r)
  BY <1>2, <1>a, Zenon
<1>6. PICK l4, p3, b3, t3 \in Int : OneSlab(3, l3, t2, l4, p3, b3, t3, w, r)
  BY <1>2, <1>a, Zenon
<1>7. PICK l5, p4, b4, t4 \in Int : OneSlab(4, l4, t3, l5, p4, b4, t4, w, r)
  BY <1>2, <1>a, Zenon
<1>8. PICK l6, p5, b5, t5 \in Int : OneSlab(5, l5, t4, l6, p5, b5, t5, w, r)
  BY <1>2, <1>a, Zenon
<1>9. PICK l7, p6, b6, t6 \in Int : OneSlab(6, l6, t5, l7, p6, b6, t6, w, r)
  BY <1>2, <1>a, Zenon
<1>10. PICK l8, p7, b7, t7 \in Int : OneSlab(7, l7, t6, l8, p7, b7, t7, w, r)
  BY <1>2, <1>a, Zenon
<1>11. SlabTax(income) = t7
  <2>1. PICK a : a = [n \in 0 .. 7 |->
             IF n = 0 THEN [left |-> l1, tax |-> t0] ELSE IF n = 1 THEN [left |-> l2, tax |-> t1]
             ELSE IF n = 2 THEN [left |-> l3, tax |-> t2] ELSE IF n = 3 THEN [left |-> l4, tax |-> t3]
             ELSE IF n = 4 THEN [left |-> l5, tax |-> t4] ELSE IF n = 5 THEN [left |-> l6, tax |-> t5]
             ELSE IF n = 6 THEN [left |-> l7, tax |-> t6] ELSE [left |-> l8, tax |-> t7]]
    OBVIOUS
  <2>2. /\ a[0] = [left |-> l1, tax |-> t0] /\ a[1] = [left |-> l2, tax |-> t1]
        /\ a[2] = [left |-> l3, tax |-> t2] /\ a[3] = [left |-> l4, tax |-> t3]
        /\ a[4] = [left |-> l5, tax |-> t4] /\ a[5] = [left |-> l6, tax |-> t5]
        /\ a[6] = [left |-> l7, tax |-> t6] /\ a[7] = [left |-> l8, tax |-> t7]
    BY <2>1
  <2>3. ASSUME NEW n \in 1 .. 7 PROVE a[n] = Taxed(a[n - 1], TaxSlabs[n])
    <3>1. n = 1 \/ n = 2 \/ n = 3 \/ n = 4 \/ n = 5 \/ n = 6 \/ n = 7
      OBVIOUS
    <3>2. a[1] = Taxed(a[0], TaxSlabs[1])
      BY <1>4, <2>2 DEF OneSlab
    <3>3. a[2] = Taxed(a[1], TaxSlabs[2])
      BY <1>5, <2>2 DEF OneSlab
    <3>4. a[3] = Taxed(a[2], TaxSlabs[3])
      BY <1>6, <2>2 DEF OneSlab
    <3>5. a[4] = Taxed(a[3], TaxSlabs[4])
      BY <1>7, <2>2 DEF OneSlab
    <3>6. a[5] = Taxed(a[4], TaxSlabs[5])
      BY <1>8, <2>2 DEF OneSlab
    <3>7. a[6] = Taxed(a[5], TaxSlabs[6])
      BY <1>9, <2>2 DEF OneSlab
    <3>8. a[7] = Taxed(a[6], TaxSlabs[7])
      BY <1>10, <2>2 DEF OneSlab
    <3> QED
      BY <3>1, <3>2, <3>3, <3>4, <3>5, <3>6, <3>7, <3>8
  <2>4. a[0] = [left |-> income, tax |-> 0]
    BY <1>3, <2>2
  <2>5. SlabTax(income) = a[7].tax
    BY <2>3, <2>4, SlabTaxIs
  <2> QED
    BY <2>2, <2>5
<1>12. PICK l : l = [n \in 1 .. 7 |-> IF n = 1 THEN l1 ELSE IF n = 2 THEN l2 ELSE IF n = 3 THEN l3
                      ELSE IF n = 4 THEN l4 ELSE IF n = 5 THEN l5 ELSE IF n = 6 THEN l6 ELSE l7]
  OBVIOUS
<1>13. PICK p : p = [n \in 1 .. 7 |-> IF n = 1 THEN p1 ELSE IF n = 2 THEN p2 ELSE IF n = 3 THEN p3
                      ELSE IF n = 4 THEN p4 ELSE IF n = 5 THEN p5 ELSE IF n = 6 THEN p6 ELSE p7]
  OBVIOUS
<1>14. l \in [1 .. 7 -> Int] /\ p \in [1 .. 7 -> Int]
  BY <1>12, <1>13
<1>15. /\ l[1] = l1 /\ l[2] = l2 /\ l[3] = l3 /\ l[4] = l4 /\ l[5] = l5 /\ l[6] = l6 /\ l[7] = l7
       /\ p[1] = p1 /\ p[2] = p2 /\ p[3] = p3 /\ p[4] = p4 /\ p[5] = p5 /\ p[6] = p6 /\ p[7] = p7
  BY <1>12, <1>13
<1>16. \A n \in 1 .. 6 : l[n + 1] = l[n] - p[n]
  <2> SUFFICES ASSUME NEW n \in 1 .. 6 PROVE l[n + 1] = l[n] - p[n]
    OBVIOUS
  <2>1. n = 1 \/ n = 2 \/ n = 3 \/ n = 4 \/ n = 5 \/ n = 6
    OBVIOUS
  <2>2. l[2] = l[1] - p[1]
    BY <1>4, <1>15 DEF OneSlab
  <2>3. l[3] = l[2] - p[2]
    BY <1>5, <1>15 DEF OneSlab
  <2>4. l[4] = l[3] - p[3]
    BY <1>6, <1>15 DEF OneSlab
  <2>5. l[5] = l[4] - p[4]
    BY <1>7, <1>15 DEF OneSlab
  <2>6. l[6] = l[5] - p[5]
    BY <1>8, <1>15 DEF OneSlab
  <2>7. l[7] = l[6] - p[6]
    BY <1>9, <1>15 DEF OneSlab
  <2>8. 1 + 1 = 2 /\ 2 + 1 = 3 /\ 3 + 1 = 4 /\ 4 + 1 = 5 /\ 5 + 1 = 6 /\ 6 + 1 = 7
    OBVIOUS
  <2> QED
    BY <2>1, <2>2, <2>3, <2>4, <2>5, <2>6, <2>7, <2>8
<1>17. \A n \in 1 .. 7 : p[n] = Takes(l[n], w[n])
  <2> SUFFICES ASSUME NEW n \in 1 .. 7 PROVE p[n] = Takes(l[n], w[n])
    OBVIOUS
  <2>1. n = 1 \/ n = 2 \/ n = 3 \/ n = 4 \/ n = 5 \/ n = 6 \/ n = 7
    OBVIOUS
  <2>2. p[1] = Takes(l[1], w[1])
    BY <1>4, <1>15 DEF OneSlab
  <2>3. p[2] = Takes(l[2], w[2])
    BY <1>5, <1>15 DEF OneSlab
  <2>4. p[3] = Takes(l[3], w[3])
    BY <1>6, <1>15 DEF OneSlab
  <2>5. p[4] = Takes(l[4], w[4])
    BY <1>7, <1>15 DEF OneSlab
  <2>6. p[5] = Takes(l[5], w[5])
    BY <1>8, <1>15 DEF OneSlab
  <2>7. p[6] = Takes(l[6], w[6])
    BY <1>9, <1>15 DEF OneSlab
  <2>8. p[7] = Takes(l[7], w[7])
    BY <1>10, <1>15 DEF OneSlab
  <2> QED
    BY <2>1, <2>2, <2>3, <2>4, <2>5, <2>6, <2>7, <2>8
<1>18. t7 = b1 + b2 + b3 + b4 + b5 + b6 + b7
  <2>1. /\ t1 = 0 + b1 /\ t2 = t1 + b2 /\ t3 = t2 + b3 /\ t4 = t3 + b4
        /\ t5 = t4 + b5 /\ t6 = t5 + b6 /\ t7 = t6 + b7
    BY <1>3, <1>4, <1>5, <1>6, <1>7, <1>8, <1>9, <1>10 DEF OneSlab
  <2> QED
    BY <2>1
<1>19. /\ b1 = r[1] * p[1] /\ b2 = r[2] * p[2] /\ b3 = r[3] * p[3] /\ b4 = r[4] * p[4]
       /\ b5 = r[5] * p[5] /\ b6 = r[6] * p[6] /\ b7 = r[7] * p[7]
  BY <1>4, <1>5, <1>6, <1>7, <1>8, <1>9, <1>10, <1>15 DEF OneSlab
<1>20. SlabTax(income) = r[1] * p[1] + r[2] * p[2] + r[3] * p[3] + r[4] * p[4]
                         + r[5] * p[5] + r[6] * p[6] + r[7] * p[7]
  BY <1>11, <1>18, <1>19
<1> QED
  BY <1>3, <1>14, <1>15, <1>16, <1>17, <1>20 DEF AllSlabs

(* Income tax as marginal rates.                                            *)
Over(income, bar) == IF income > bar THEN income - bar ELSE 0
LEMMA MarginalIs ==
    ASSUME NEW income \in Int
    PROVE  \E o \in [1 .. 6 -> Int] :
              /\ \A i \in 1 .. 6 : o[i] = Over(income, Marginal[i][1])
              /\ MarginalTax(income) = 5 * o[1] + 5 * o[2] + 5 * o[3] + 5 * o[4] + 5 * o[5] + 5 * o[6]
<1>1. /\ DOMAIN Marginal = 1 .. 6
      /\ \A i \in 1 .. 6 : Marginal[i][1] \in Int /\ Marginal[i][2] = 5
  BY SMT DEF Marginal
<1>2. PICK o : o = [i \in 1 .. 6 |-> Over(income, Marginal[i][1])]
  OBVIOUS
<1>3. o \in [1 .. 6 -> Int]
  BY <1>1, <1>2 DEF Over
<1>4. PICK m : m = [i \in DOMAIN Marginal |->
                IF income > Marginal[i][1] THEN (income - Marginal[i][1]) * Marginal[i][2] ELSE 0]
  OBVIOUS
<1>5. DOMAIN m = 1 .. 6 /\ \A i \in 1 .. 6 : m[i] = 5 * o[i] /\ m[i] \in Int
  <2> SUFFICES ASSUME NEW i \in 1 .. 6 PROVE m[i] = 5 * o[i] /\ m[i] \in Int
    BY <1>1, <1>4
  <2>1. PICK c \in Int : c = Marginal[i][1]
    BY <1>1
  <2>2. o[i] = Over(income, c) /\ m[i] = IF income > c THEN (income - c) * 5 ELSE 0
    BY <1>1, <1>2, <1>4, <2>1
  <2> QED
    BY <2>2 DEF Over
<1>6. Weighs(m, 1 .. 6)
  <2>a. PICK n \in Int : n = 6
    OBVIOUS
  <2>b. PICK k \in Int : k = 1
    OBVIOUS
  <2>c. IsFiniteSet(k .. n)
    BY FS_Interval
  <2>1. IsFiniteSet(1 .. 6)
    BY <2>a, <2>b, <2>c
  <2> QED
    BY <1>5, <2>1 DEF Weighs
<1>7. Weighs(m, 1 .. 5) /\ SumFunctionOnSet(m, 1 .. 6) = SumFunctionOnSet(m, 1 .. 5) + m[6]
  BY <1>6, SumOfNext, 5 + 1 = 6
<1>8. Weighs(m, 1 .. 4) /\ SumFunctionOnSet(m, 1 .. 5) = SumFunctionOnSet(m, 1 .. 4) + m[5]
  BY <1>7, SumOfNext, 4 + 1 = 5
<1>9. Weighs(m, 1 .. 3) /\ SumFunctionOnSet(m, 1 .. 4) = SumFunctionOnSet(m, 1 .. 3) + m[4]
  BY <1>8, SumOfNext, 3 + 1 = 4
<1>10. Weighs(m, 1 .. 2) /\ SumFunctionOnSet(m, 1 .. 3) = SumFunctionOnSet(m, 1 .. 2) + m[3]
  BY <1>9, SumOfNext, 2 + 1 = 3
<1>11. Weighs(m, 1 .. 1) /\ SumFunctionOnSet(m, 1 .. 2) = SumFunctionOnSet(m, 1 .. 1) + m[2]
  BY <1>10, SumOfNext, 1 + 1 = 2
<1>12. SumFunctionOnSet(m, 1 .. 1) = SumFunctionOnSet(m, 1 .. 0) + m[1]
  BY <1>11, SumOfNext, 0 + 1 = 1
<1>13. MarginalTax(income) = SumFunctionOnSet(m, 1 .. 6)
  BY <1>4, <1>5 DEF MarginalTax, TotalOf
<1>14. SumFunctionOnSet(m, 1 .. 6) = m[1] + m[2] + m[3] + m[4] + m[5] + m[6]
  BY <1>5, <1>7, <1>8, <1>9, <1>10, <1>11, <1>12, SumOfNoneYet
<1> QED
  BY <1>2, <1>3, <1>5, <1>13, <1>14

LEMMA SlabsAre ==
    /\ Width(TaxSlabs[1]) = 400001 /\ TaxSlabs[1].rate = 0
    /\ Width(TaxSlabs[2]) = 400000 /\ TaxSlabs[2].rate = 5
    /\ Width(TaxSlabs[3]) = 400000 /\ TaxSlabs[3].rate = 10
    /\ Width(TaxSlabs[4]) = 400000 /\ TaxSlabs[4].rate = 15
    /\ Width(TaxSlabs[5]) = 400000 /\ TaxSlabs[5].rate = 20
    /\ Width(TaxSlabs[6]) = 400000 /\ TaxSlabs[6].rate = 25
    /\ Width(TaxSlabs[7]) = LastSlabTo - 2400000 /\ LastSlabTo - 2400000 \in Nat /\ TaxSlabs[7].rate = 30
    /\ Marginal[1][1] = 400000 /\ Marginal[2][1] = 800000 /\ Marginal[3][1] = 1200000
    /\ Marginal[4][1] = 1600000 /\ Marginal[5][1] = 2000000 /\ Marginal[6][1] = 2400000
BY SlabAssumption, SMT DEF TaxSlabs, Width, Marginal

(* The loop over the slabs and the marginal rates agree.                    *)
LEMMA SlabsAgree ==
    ASSUME NEW income \in Int
    PROVE  /\ SlabTax(income) \in Int
           /\ income <= LastSlabTo + 1 => /\ 0 <= MarginalTax(income) - SlabTax(income)
                                      /\ MarginalTax(income) - SlabTax(income) <= 30
<1>1. PICK w, r : w = [n \in 1 .. 7 |-> Width(TaxSlabs[n])] /\ r = [n \in 1 .. 7 |-> TaxSlabs[n].rate]
  OBVIOUS
<1>2. ASSUME NEW n \in 1 .. 7 PROVE Width(TaxSlabs[n]) \in Nat /\ TaxSlabs[n].rate \in Nat
  <2>1. n = 1 \/ n = 2 \/ n = 3 \/ n = 4 \/ n = 5 \/ n = 6 \/ n = 7
    BY SMT
  <2> QED
    BY <2>1, SlabsAre, SMT
<1>3. w \in [1 .. 7 -> Nat] /\ r \in [1 .. 7 -> Nat] /\ \A n \in 1 .. 7 : Width(TaxSlabs[n]) = w[n] /\ TaxSlabs[n].rate = r[n]
  BY <1>1, <1>2, SMT
<1>b. PICK l \in [1 .. 7 -> Int], p \in [1 .. 7 -> Int] : AllSlabs(income, l, p, w, r)
  BY <1>3, SlabsCharge
<1>4. /\ l[1] = income /\ \A n \in 1 .. 6 : l[n + 1] = l[n] - p[n]
      /\ \A n \in 1 .. 7 : p[n] = Takes(l[n], w[n])
      /\ SlabTax(income) = r[1] * p[1] + r[2] * p[2] + r[3] * p[3] + r[4] * p[4]
                           + r[5] * p[5] + r[6] * p[6] + r[7] * p[7]
  BY <1>b DEF AllSlabs
<1>5. PICK o \in [1 .. 6 -> Int] :
              /\ \A i \in 1 .. 6 : o[i] = Over(income, Marginal[i][1])
              /\ MarginalTax(income) = 5 * o[1] + 5 * o[2] + 5 * o[3] + 5 * o[4] + 5 * o[5] + 5 * o[6]
  BY MarginalIs
<1>a. /\ l[1] \in Int /\ l[2] \in Int /\ l[3] \in Int /\ l[4] \in Int /\ l[5] \in Int /\ l[6] \in Int /\ l[7] \in Int
      /\ p[1] \in Int /\ p[2] \in Int /\ p[3] \in Int /\ p[4] \in Int /\ p[5] \in Int /\ p[6] \in Int /\ p[7] \in Int
      /\ o[1] \in Int /\ o[2] \in Int /\ o[3] \in Int /\ o[4] \in Int /\ o[5] \in Int /\ o[6] \in Int
  BY SMT
<1>6. PICK l1 \in Int, l2 \in Int, l3 \in Int, l4 \in Int, l5 \in Int, l6 \in Int, l7 \in Int :
        l1 = l[1] /\ l2 = l[2] /\ l3 = l[3] /\ l4 = l[4] /\ l5 = l[5] /\ l6 = l[6] /\ l7 = l[7]
  BY <1>a
<1>7. PICK p1 \in Int, p2 \in Int, p3 \in Int, p4 \in Int, p5 \in Int, p6 \in Int, p7 \in Int :
        p1 = p[1] /\ p2 = p[2] /\ p3 = p[3] /\ p4 = p[4] /\ p5 = p[5] /\ p6 = p[6] /\ p7 = p[7]
  BY <1>a
<1>8. PICK o1 \in Int, o2 \in Int, o3 \in Int, o4 \in Int, o5 \in Int, o6 \in Int :
        o1 = o[1] /\ o2 = o[2] /\ o3 = o[3] /\ o4 = o[4] /\ o5 = o[5] /\ o6 = o[6]
  BY <1>a
<1>9. /\ l1 = income /\ l2 = l1 - p1 /\ l3 = l2 - p2 /\ l4 = l3 - p3
      /\ l5 = l4 - p4 /\ l6 = l5 - p5 /\ l7 = l6 - p6
  BY <1>4, <1>6, <1>7, SMT
<1>10. /\ p1 = Takes(l1, 400001) /\ p2 = Takes(l2, 400000) /\ p3 = Takes(l3, 400000)
       /\ p4 = Takes(l4, 400000) /\ p5 = Takes(l5, 400000) /\ p6 = Takes(l6, 400000)
       /\ p7 = Takes(l7, LastSlabTo - 2400000)
  BY <1>3, <1>4, <1>6, <1>7, SlabsAre, SMT
<1>11. SlabTax(income) = 5 * p2 + 10 * p3 + 15 * p4 + 20 * p5 + 25 * p6 + 30 * p7
  <2>1. r[1] = 0 /\ r[2] = 5 /\ r[3] = 10 /\ r[4] = 15 /\ r[5] = 20 /\ r[6] = 25 /\ r[7] = 30
    BY <1>3, SlabsAre, SMT
  <2> QED
    BY <1>4, <1>7, <2>1, SMT
<1>12. /\ o1 = Over(income, 400000) /\ o2 = Over(income, 800000) /\ o3 = Over(income, 1200000)
       /\ o4 = Over(income, 1600000) /\ o5 = Over(income, 2000000) /\ o6 = Over(income, 2400000)
  BY <1>5, <1>8, SlabsAre, SMT
<1>13. MarginalTax(income) = 5 * o1 + 5 * o2 + 5 * o3 + 5 * o4 + 5 * o5 + 5 * o6
  BY <1>5, <1>8, SMT
<1> QED
  BY <1>9, <1>10, <1>11, <1>12, <1>13, SlabAssumption, SMTT(60) DEF Takes, Over

(* Days lost.  A full head is rounded down, a reduced one to the nearest    *)
(* rupee: at most a rupee and a half is between them.                       *)
Between(u, lost, whole) ==
    LET most == IF lost > whole THEN lost ELSE whole
    IN  -most <= u /\ u <= 2 * most
Loses(less, full, lost) ==
    /\ less \in Int /\ full \in Int
    /\ Between(2 * Working * less - (2 * Working - lost) * full, lost, 2 * Working)
LEMMA LessDaysLost ==
    ASSUME NEW n \in Int, NEW d \in {1, 100}, NEW lost \in Nat
    PROVE  Loses(adjustForLOP(n, d, lost), adjustForLOP(n, d, 0), lost)
<1>1. PICK W \in Nat \ {0} : W = 2 * Working
  BY PayslipAssumption
<1>2. PICK k \in Int : k = W - lost
  OBVIOUS
<1>3. d \in Nat \ {0}
  OBVIOUS
<1>4. PICK e \in Int : e = n \div d
  BY <1>3
<1>5. d * e <= n /\ n < d * e + d
  BY <1>3, <1>4, QuotientIs
<1>6. adjustForLOP(n, d, 0) = e
  BY <1>4 DEF adjustForLOP
<1>7. PICK r \in Nat : r = n - d * e
  BY <1>3, <1>5
<1>8. r <= d - 1
  BY <1>3, <1>5, <1>7
<1>9. CASE lost = 0
  <2>1. adjustForLOP(n, d, lost) = e
    BY <1>4, <1>9 DEF adjustForLOP
  <2>2. 2 * Working * e - (2 * Working - lost) * e = 0
    BY <1>1, <1>9
  <2>3. PICK u \in Int : u = 2 * Working * adjustForLOP(n, d, lost) - (2 * Working - lost) * adjustForLOP(n, d, 0) /\ u = 0
    BY <1>6, <2>1, <2>2
  <2>4. Between(u, lost, W)
    BY <1>1, <1>9, <2>3 DEF Between
  <2> QED
    BY <1>1, <1>6, <2>1, <2>3, <2>4 DEF Loses
<1>10. CASE lost # 0
  <2>1. PICK x \in Int, D \in Nat \ {0} : x = n * k /\ D = d * W
    BY <1>3
  <2>2. PICK f \in Int : f = Round(x, D)
    BY <2>1, RoundIs
  <2>3. (2 * D) * f <= 2 * x + D /\ 2 * x + D < (2 * D) * f + 2 * D
    BY <2>1, <2>2, RoundIs
  <2>4. adjustForLOP(n, d, lost) = f
    <3>1. n * (2 * Working - lost) = x /\ d * 2 * Working = D
      BY <1>1, <1>2, <1>3, <2>1, PayslipAssumption
    <3> QED
      BY <1>10, <2>2, <3>1 DEF adjustForLOP
  <2>5. PICK M \in Int, Q \in Int, P \in Int : M = W * f /\ Q = e * k /\ P = r * k
    OBVIOUS
  <2>6. x = d * Q + P /\ D * f = d * M
    <3>1. n = d * e + r
      BY <1>3, <1>7
    <3>2. n * k = (d * e) * k + r * k
      BY <1>3, <3>1
    <3>3. (d * e) * k = d * Q /\ D * f = d * M
      BY <1>3, <2>1, <2>5
    <3> QED
      BY <2>1, <2>5, <3>2, <3>3
  <2>7. 2 * (d * M) <= 2 * (d * Q) + 2 * P + D /\ 2 * (d * Q) + 2 * P < 2 * (d * M) + D
    BY <1>3, <2>1, <2>3, <2>5, <2>6
  <2>8. PICK K \in Int : K = (d - 1) * k
    BY <1>3
  <2>9. IF k >= 0 THEN 0 <= P /\ P <= K ELSE K <= P /\ P <= 0
    BY <1>3, <1>8, <2>5, <2>8
  <2>10. Between(M - Q, lost, W)
    <3>1. CASE d = 1
      BY <1>2, <1>10, <2>1, <2>7, <2>8, <2>9, <3>1 DEF Between
    <3>2. CASE d = 100
      BY <1>2, <1>10, <2>1, <2>7, <2>8, <2>9, <3>2 DEF Between
    <3> QED
      BY <3>1, <3>2
  <2>11. 2 * Working * f - (2 * Working - lost) * e = M - Q
    BY <1>1, <1>2, <2>5
  <2> QED
    BY <1>1, <1>6, <2>4, <2>10, <2>11 DEF Loses
<1> QED
  BY <1>9, <1>10

(* Earnings are whole rupees, and fewer for who is away.                    *)
IsContract(heads) == IsFiniteSet(heads) /\ \A h \in heads : h.rate \in Int
LEMMA EarningsAre ==
    ASSUME NEW heads, IsContract(heads), NEW lost \in Nat
    PROVE  /\ IsFiniteSet(Earnings(heads))
           /\ \A h \in Earnings(heads) : Loses(HeadPay(heads, lost)[h], HeadPay(heads, 0)[h], lost)
<1>1. IsFiniteSet(heads) /\ \A h \in heads : h.rate \in Int
  BY DEF IsContract
<1>2. IsFiniteSet(Earnings(heads)) /\ \A h \in Earnings(heads) : h.rate \in Int
  <2>1. Earnings(heads) \in SUBSET heads
    BY DEF Earnings
  <2> QED
    BY <1>1, <2>1, FS_Subset
<1>3. \A name : RateOf(heads, name) \in Int
  <2> SUFFICES ASSUME NEW name PROVE RateOf(heads, name) \in Int
    OBVIOUS
  <2>1. PICK found : found = {h \in Earnings(heads) : h.name = name}
    OBVIOUS
  <2>2. CASE found = {}
    BY <2>1, <2>2 DEF RateOf
  <2>3. CASE found # {}
    <3>1. (CHOOSE h \in found : TRUE) \in found
      BY <2>3
    <3>2. (CHOOSE h \in found : TRUE).rate \in Int
      BY <1>2, <2>1, <3>1
    <3> QED
      BY <2>1, <2>3, <3>2 DEF RateOf
  <2> QED
    BY <2>2, <2>3
<1>4. ASSUME NEW h \in Earnings(heads)
      PROVE  Loses(HeadPay(heads, lost)[h], HeadPay(heads, 0)[h], lost)
  <2>1. HeadPay(heads, lost)[h] = Earned(heads, h, lost) /\ HeadPay(heads, 0)[h] = Earned(heads, h, 0)
    BY <1>4 DEF HeadPay
  <2>2. Reference(heads, h) \in Int /\ h.rate \in Int
    BY <1>2, <1>3, <1>4 DEF Reference
  <2>3. PICK n \in Int, d \in {1, 100} : \A x : Earned(heads, h, x) = adjustForLOP(n, d, x)
    <3>1. CASE h.percent
      <4>1. h.rate * Reference(heads, h) \in Int /\ 100 \in {1, 100}
        BY <2>2
      <4>2. \A x : Earned(heads, h, x) = adjustForLOP(h.rate * Reference(heads, h), 100, x)
        BY <3>1 DEF Earned
      <4> QED
        BY <4>1, <4>2
    <3>2. CASE ~h.percent
      <4>1. \A x : Earned(heads, h, x) = adjustForLOP(h.rate, 1, x)
        BY <3>2 DEF Earned
      <4> QED
        BY <2>2, <4>1
    <3> QED
      BY <3>1, <3>2
  <2>4. Loses(adjustForLOP(n, d, lost), adjustForLOP(n, d, 0), lost)
    BY LessDaysLost
  <2>5. HeadPay(heads, lost)[h] = adjustForLOP(n, d, lost) /\ HeadPay(heads, 0)[h] = adjustForLOP(n, d, 0)
    BY <2>1, <2>3
  <2> QED
    BY <2>4, <2>5
<1> QED
  BY <1>2, <1>4

LEMMA GrossFollows ==
    ASSUME NEW heads, IsContract(heads), NEW lost \in Nat
    PROVE  LET card == Cardinality(Earnings(heads))
               most == IF lost > 2 * Working THEN lost ELSE 2 * Working
               off == 2 * Working * Gross(heads, lost) - (2 * Working - lost) * Gross(heads, 0)
           IN  /\ Gross(heads, lost) \in Int /\ Gross(heads, 0) \in Int /\ card \in Nat
               /\ -(most * card) <= off /\ off <= 2 * (most * card)
<1>1. PICK S : S = Earnings(heads)
  OBVIOUS
<1>2. PICK w, v : w = HeadPay(heads, lost) /\ v = HeadPay(heads, 0)
  OBVIOUS
<1>3. PICK W \in Nat, k \in Int, most \in Nat : W = 2 * Working /\ k = lost - W /\ most = IF lost > W THEN lost ELSE W
  <2>1. 2 * Working \in Nat
    BY PayslipAssumption
  <2> QED
    BY <2>1
<1>4. /\ IsFiniteSet(S)
      /\ \A h \in S : w[h] \in Int /\ v[h] \in Int
      /\ \A h \in S : Between(W * w[h] - (W - lost) * v[h], lost, W)
  BY <1>1, <1>2, <1>3, EarningsAre DEF Loses
<1>5. Weighs(w, S) /\ Weighs(v, S)
  BY <1>4 DEF Weighs
<1>6. PICK a, b, u : /\ a = [h \in S |-> W * w[h]] /\ b = [h \in S |-> k * v[h]]
                     /\ u = [h \in S |-> a[h] + b[h]]
  OBVIOUS
<1>7. Weighs(a, S) /\ SumFunctionOnSet(a, S) = W * SumFunctionOnSet(w, S)
  <2>1. \A h \in S : a[h] = W * w[h]
    BY <1>6
  <2> QED
    BY <1>5, <2>1, SumOfTimes
<1>8. Weighs(b, S) /\ SumFunctionOnSet(b, S) = k * SumFunctionOnSet(v, S)
  <2>1. \A h \in S : b[h] = k * v[h]
    BY <1>6
  <2> QED
    BY <1>5, <2>1, SumOfTimes
<1>9. Weighs(u, S) /\ SumFunctionOnSet(u, S) = SumFunctionOnSet(a, S) + SumFunctionOnSet(b, S)
  <2>1. \A h \in S : u[h] = a[h] + b[h]
    BY <1>6
  <2> QED
    BY <1>7, <1>8, <2>1, SumOfTwo
<1>10. PICK low \in Int, high \in Int : low = -most /\ high = 2 * most
  OBVIOUS
<1>11. \A h \in S : low <= u[h] /\ u[h] <= high
  <2> SUFFICES ASSUME NEW h \in S PROVE low <= u[h] /\ u[h] <= high
    OBVIOUS
  <2>1. PICK x \in Int, y \in Int : x = W * w[h] /\ y = k * v[h] /\ (W - lost) * v[h] = -y
    <3>1. w[h] \in Int /\ v[h] \in Int
      BY <1>4
    <3>2. \A z \in Int : (W - lost) * z = -(k * z)
      BY <1>3
    <3> QED
      BY <3>1, <3>2
  <2>2. u[h] = x + y
    BY <1>6, <2>1
  <2>3. Between(x - (-y), lost, W)
    BY <1>4, <2>1
  <2> QED
    BY <1>3, <1>10, <2>1, <2>2, <2>3 DEF Between
<1>12. PICK card \in Nat : card = Cardinality(S)
  BY <1>4, FS_CardinalityType
<1>13. low * card <= SumFunctionOnSet(u, S) /\ SumFunctionOnSet(u, S) <= high * card
  BY <1>9, <1>11, <1>12, SumIsBetween
<1>14. PICK g \in Int, g0 \in Int : g = SumFunctionOnSet(w, S) /\ g0 = SumFunctionOnSet(v, S)
  BY <1>5, SumIsInt
<1>15. Gross(heads, lost) = g /\ Gross(heads, 0) = g0
  BY <1>1, <1>2, <1>14 DEF Gross
<1>16. PICK off \in Int : off = W * g + k * g0 /\ off = 2 * Working * g - (2 * Working - lost) * g0
  <2>1. \A z \in Int : k * z = -((W - lost) * z)
    BY <1>3
  <2>2. W * g + k * g0 = W * g - (W - lost) * g0 /\ W * g + k * g0 \in Int
    BY <2>1
  <2> QED
    BY <1>3, <2>2
<1>17. SumFunctionOnSet(u, S) = off
  BY <1>7, <1>8, <1>9, <1>14, <1>16
<1>18. PICK m \in Nat : m = most * card /\ low * card = -m /\ high * card = 2 * m
  BY <1>10
<1>19. -m <= off /\ off <= 2 * m
  BY <1>13, <1>17, <1>18
<1> QED
  BY <1>1, <1>3, <1>12, <1>15, <1>16, <1>18, <1>19

(* What is deducted is whole paise.                                         *)
LEMMA FundsAre ==
    ASSUME NEW wage \in Int, NEW eligible
    PROVE  LET f == compute_pf(wage, eligible)
           IN  /\ f.employee \in Int /\ f.employer \in Int /\ f.pension \in Int /\ f.total \in Int
               /\ -1 <= f.employee + f.employer + f.pension - f.total
               /\ f.employee + f.employer + f.pension - f.total <= 1
<1>1. PICK f : f = compute_pf(wage, eligible)
  OBVIOUS
<1>2. CASE ~eligible
  <2>1. f = [employee |-> 0, employer |-> 0, pension |-> 0, total |-> 0]
    BY <1>1, <1>2 DEF compute_pf
  <2>2. f.employee = 0 /\ f.employer = 0 /\ f.pension = 0 /\ f.total = 0
    BY <2>1
  <2> QED
    BY <1>1, <2>2
<1>3. CASE ~(~eligible)
  <2>1. PICK base \in Int : base = PfWage(wage)
    BY SMT DEF PfWage
  <2>2. PICK a \in Int, b \in Int : a = Round(base * 367, 100) /\ b = Round(base * 833, 100)
    <3>1. base * 367 \in Int /\ base * 833 \in Int /\ 100 \in Nat \ {0}
      OBVIOUS
    <3>2. Round(base * 367, 100) \in Int /\ Round(base * 833, 100) \in Int
      BY <3>1, RoundIs
    <3> QED
      BY <3>2
  <2>3. /\ 200 * a <= 2 * (base * 367) + 100 /\ 2 * (base * 367) + 100 < 200 * a + 200
        /\ 200 * b <= 2 * (base * 833) + 100 /\ 2 * (base * 833) + 100 < 200 * b + 200
    <3>1. base * 367 \in Int /\ base * 833 \in Int /\ 100 \in Nat \ {0}
      OBVIOUS
    <3>2. /\ (2 * 100) * a <= 2 * (base * 367) + 100 /\ 2 * (base * 367) + 100 < (2 * 100) * a + 2 * 100
      BY <2>2, <3>1, RoundIs
    <3>3. /\ (2 * 100) * b <= 2 * (base * 833) + 100 /\ 2 * (base * 833) + 100 < (2 * 100) * b + 2 * 100
      BY <2>2, <3>1, RoundIs
    <3> QED
      BY <3>2, <3>3
  <2>4. f = [employee |-> base * 12, employer |-> a, pension |-> b, total |-> base * 24]
    BY <1>1, <1>3, <2>1, <2>2 DEF compute_pf
  <2>5. f.employee = base * 12 /\ f.employer = a /\ f.pension = b /\ f.total = base * 24
    BY <2>4
  <2> QED
    BY <1>1, <2>3, <2>5
<1> QED
  BY <1>2, <1>3

LEMMA InsuranceIs ==
    ASSUME NEW gross \in Int, NEW eligible
    PROVE  compute_esi(gross, eligible).employee \in Int /\ compute_esi(gross, eligible).employer \in Int
<1>1. Round(gross * 75, 100) \in Int /\ Round(gross * 325, 100) \in Int
  <2>1. gross * 75 \in Int /\ gross * 325 \in Int /\ 100 \in Nat \ {0}
    OBVIOUS
  <2> QED
    BY <2>1, RoundIs
<1>2. PICK a \in Int, b \in Int : compute_esi(gross, eligible) = [employee |-> a, employer |-> b]
  <2>1. \/ compute_esi(gross, eligible) = [employee |-> 0, employer |-> 0]
        \/ compute_esi(gross, eligible) = [employee |-> Round(gross * 75, 100), employer |-> Round(gross * 325, 100)]
    BY SMT DEF compute_esi
  <2> QED
    BY <1>1, <2>1
<1> QED
  BY <1>2

LEMMA ProfessionalTaxIs ==
    ASSUME NEW gross, NEW state
    PROVE  compute_professional_tax(gross, state) \in Int
<1>1. CASE state \notin DOMAIN PtSlabs
  BY <1>1, SMT DEF compute_professional_tax
<1>2. CASE state \in DOMAIN PtSlabs
  <2>1. PICK T : T = PtSlabs[state]
    OBVIOUS
  <2>2. PICK s : s = {t \in T : gross \in t[1] .. t[2]}
    OBVIOUS
  <2>3. PICK w : w = [t \in T |-> 100 * t[3]]
    OBVIOUS
  <2>4. compute_professional_tax(gross, state) = SumFunctionOnSet(w, s)
    BY <1>2, <2>1, <2>2, <2>3 DEF compute_professional_tax
  <2>5. \E a, b, c : T = {a, b, c} /\ a[3] \in Int /\ b[3] \in Int /\ c[3] \in Int
    <3> DEFINE a == <<0, 7500, 0>>
               b == <<7501, 10000, 175>>
               c == <<10001, 99999999, 200>>
               d == <<0, 14999, 0>>
               e == <<15000, 24999, 150>>
               f == <<25000, 99999999, 200>>
    <3>1. \/ T = {a, b, c}
          \/ T = {d, e, f}
      BY <1>2, <2>1, SMT DEF PtSlabs
    <3>2. /\ a[3] \in Int /\ b[3] \in Int /\ c[3] \in Int
          /\ d[3] \in Int /\ e[3] \in Int /\ f[3] \in Int
      BY SMT
    <3> HIDE DEF a, b, c, d, e, f
    <3> QED
      BY <3>1, <3>2
  <2>6. PICK a, b, c : T = {a, b, c} /\ a[3] \in Int /\ b[3] \in Int /\ c[3] \in Int
    BY <2>5
  <2>7. s \in SUBSET {a, b, c} /\ w[a] \in Int /\ w[b] \in Int /\ w[c] \in Int
    BY <2>2, <2>3, <2>6
  <2> QED
    BY <2>4, <2>7, SomeOfThree
<1> QED
  BY <1>1, <1>2

LEMMA IncomeTaxIs ==
    ASSUME NEW income \in Int, NEW regime
    PROVE  compute_income_tax_tds(income, regime) \in Int
<1>1. PICK t \in Int : t = SlabTax(income)
  BY SlabsAgree, SMT
<1>2. LesserOf(t, Rebate(income, regime)) \in Int
  BY SMT DEF LesserOf, Rebate
<1>3. PICK x \in Int : x = t - LesserOf(t, Rebate(income, regime))
  BY <1>2
<1>4. Round(x * 4, 100) \in Int
  <2>1. x * 4 \in Int /\ 100 \in Nat \ {0}
    OBVIOUS
  <2> QED
    BY <2>1, RoundIs
<1>5. Round(x + Round(x * 4, 100), 12) \in Int
  <2>1. x + Round(x * 4, 100) \in Int /\ 12 \in Nat \ {0}
    BY <1>4
  <2> QED
    BY <2>1, RoundIs
<1> QED
  BY <1>1, <1>3, <1>5 DEF compute_income_tax_tds

LEMMA VoluntaryIs ==
    ASSUME NEW heads, IsContract(heads), NEW gross \in Int
    PROVE  Voluntary(heads, gross) \in Int
<1>1. PICK w : w = [h \in heads |-> IF h.percent THEN h.rate * gross ELSE 100 * h.rate]
  OBVIOUS
<1>2. PICK S : S = {h \in heads : h.type = "DEDUCTION"}
  OBVIOUS
<1>3. IsFiniteSet(S) /\ S \subseteq heads
  BY <1>2, FS_Subset DEF IsContract
<1>4. ASSUME NEW h \in S PROVE w[h] \in Int
  <2>1. h.rate \in Int /\ h \in heads
    BY <1>3 DEF IsContract
  <2>2. h.rate * gross \in Int /\ 100 * h.rate \in Int
    BY <2>1
  <2> QED
    BY <1>1, <2>1, <2>2
<1>5. Weighs(w, S)
  BY <1>3, <1>4 DEF Weighs
<1>6. Voluntary(heads, gross) = SumFunctionOnSet(w, S)
  BY <1>1, <1>2 DEF Voluntary
<1> QED
  BY <1>5, <1>6, SumIsInt

LEMMA BasicIs ==
    ASSUME NEW heads, IsContract(heads), NEW lost \in Nat
    PROVE  BasicWage(heads, lost) \in Int
<1>1. PICK w, S : w = HeadPay(heads, lost) /\ S = {h \in Earnings(heads) : h.name \in {"BASIC", "DA"}}
  OBVIOUS
<1>2. IsFiniteSet(Earnings(heads)) /\ \A h \in Earnings(heads) : w[h] \in Int
  BY <1>1, EarningsAre DEF Loses
<1>3. S \in SUBSET Earnings(heads)
  BY <1>1
<1>4. Weighs(w, S)
  BY <1>2, <1>3, FS_Subset DEF Weighs
<1> QED
  BY <1>1, <1>4, SumIsInt DEF BasicWage

LEMMA MarginalTaxIsInt == ASSUME NEW income \in Int PROVE MarginalTax(income) \in Int
<1>1. PICK o \in [1 .. 6 -> Int] :
        MarginalTax(income) = 5 * o[1] + 5 * o[2] + 5 * o[3] + 5 * o[4] + 5 * o[5] + 5 * o[6]
  BY MarginalIs
<1>2. o[1] \in Int /\ o[2] \in Int /\ o[3] \in Int /\ o[4] \in Int /\ o[5] \in Int /\ o[6] \in Int
  OBVIOUS
<1> QED
  BY <1>1, <1>2

(* A pay slip is whole paise; what is not deducted is paid out.             *)
SlipOf(p, heads, lost, terms) ==
    /\ p.gross = 100 * Gross(heads, lost) /\ p.gross \in Int
    /\ p.pf \in Int /\ p.employerPf \in Int /\ p.esi \in Int /\ p.employerEsi \in Int
    /\ p.pt \in Int /\ p.tds \in Int /\ p.other \in Int
    /\ p.deducted = p.pf + p.esi + p.pt + p.tds + p.other
    /\ p.net = IF p.gross > p.deducted THEN p.gross - p.deducted ELSE 0
LEMMA SlipIs ==
    ASSUME NEW heads, IsContract(heads), NEW lost \in Nat, NEW terms, terms.declared \in Int
    PROVE  SlipOf(computeEmployeePay(heads, lost, terms), heads, lost, terms)
<1>1. PICK gross \in Int : gross = Gross(heads, lost)
  BY GrossFollows
<1>2. PICK pf : pf = compute_pf(BasicWage(heads, lost), terms.pf)
  OBVIOUS
<1>3. pf.employee \in Int /\ pf.employer \in Int
  BY <1>2, BasicIs, FundsAre
<1>4. PICK esi : esi = compute_esi(gross, terms.esi)
  OBVIOUS
<1>5. esi.employee \in Int /\ esi.employer \in Int
  BY <1>4, InsuranceIs
<1>6. PICK pt \in Int : pt = IF terms.pt = "none" THEN 0 ELSE compute_professional_tax(gross, terms.pt)
  BY ProfessionalTaxIs
<1>7. PICK tds \in Int : tds = compute_income_tax_tds(gross * 12 - terms.declared, terms.regime)
  <2>1. gross * 12 - terms.declared \in Int
    OBVIOUS
  <2> QED
    BY <2>1, IncomeTaxIs
<1>8. PICK other \in Int : other = Voluntary(heads, gross)
  BY VoluntaryIs
<1>9. PICK all \in Int : all = pf.employee + esi.employee + pt + tds + other
  BY <1>3, <1>5
<1>10. PICK p : p = computeEmployeePay(heads, lost, terms)
  OBVIOUS
<1>11. p = [gross |-> 100 * gross, pf |-> pf.employee, employerPf |-> pf.employer,
            esi |-> esi.employee, employerEsi |-> esi.employer, pt |-> pt, tds |-> tds,
            other |-> other, deducted |-> all,
            net |-> IF 100 * gross > all THEN 100 * gross - all ELSE 0]
  BY <1>1, <1>2, <1>4, <1>6, <1>7, <1>8, <1>9, <1>10 DEF computeEmployeePay
<1>12. /\ p.gross = 100 * gross /\ p.pf = pf.employee /\ p.employerPf = pf.employer
       /\ p.esi = esi.employee /\ p.employerEsi = esi.employer /\ p.pt = pt /\ p.tds = tds
       /\ p.other = other /\ p.deducted = all
       /\ p.net = IF 100 * gross > all THEN 100 * gross - all ELSE 0
  BY <1>11
<1>13. p.gross \in Int
  BY <1>12
<1> QED
  BY <1>1, <1>3, <1>5, <1>9, <1>10, <1>12, <1>13 DEF SlipOf

PayslipInv ==
    \/ slip.kind = "none"
    \/ /\ slip.kind = "slip" /\ IsContract(slip.heads) /\ slip.lost \in Nat /\ slip.terms.declared \in Int
       /\ SlipOf(slip.pay, slip.heads, slip.lost, slip.terms)

LEMMA PayslipInvHolds ==
    /\ PayslipInit => PayslipInv
    /\ PayslipInv /\ [PayslipNext]_payslipVars => PayslipInv'
<1>1. PayslipInit => PayslipInv
  BY DEF PayslipInit, PayslipInv, BlankSlip
<1>2. ASSUME PayslipNext PROVE PayslipInv'
  <2>1. PICK heads \in Contracts, lost \in Absence, terms \in Terms :
          slip' = [kind |-> "slip", heads |-> heads, lost |-> lost, terms |-> terms,
                   pay |-> computeEmployeePay(heads, lost, terms)]
    BY <1>2 DEF PayslipNext
  <2>2. IsContract(heads) /\ lost \in Nat /\ terms.declared \in Int
    BY <2>1, PayslipAssumption DEF IsContract
  <2>3. SlipOf(computeEmployeePay(heads, lost, terms), heads, lost, terms)
    BY <2>2, SlipIs
  <2>4. /\ slip'.kind = "slip" /\ slip'.heads = heads /\ slip'.lost = lost /\ slip'.terms = terms
        /\ slip'.pay = computeEmployeePay(heads, lost, terms)
    BY <2>1
  <2> QED
    BY <2>2, <2>3, <2>4 DEF PayslipInv
<1>3. ASSUME PayslipInv, UNCHANGED payslipVars PROVE PayslipInv'
  BY <1>3 DEF PayslipInv, payslipVars
<1> QED
  BY <1>1, <1>2, <1>3

(* The journal's two sides, line by line.                                   *)
LEMMA SidesAre ==
    ASSUME NEW s, s.gross \in Int, s.employerPf \in Int, s.employerEsi \in Int, s.net \in Int,
           s.pf \in Int, s.esi \in Int, s.pt \in Int, s.tds \in Int
    PROVE  /\ TotalOf(Debited(s)) = s.gross + s.employerPf + s.employerEsi
           /\ TotalOf(Credited(s)) = s.net + (s.pf + s.employerPf) + (s.esi + s.employerEsi) + s.pt + s.tds
<1>1. PICK d : d = Debited(s)
  OBVIOUS
<1>2. DOMAIN d = 1 .. 3 /\ d[1] = s.gross /\ d[2] = s.employerPf /\ d[3] = s.employerEsi
  BY <1>1 DEF Debited
<1>3. PICK c : c = Credited(s)
  OBVIOUS
<1>4. /\ DOMAIN c = 1 .. 5 /\ c[1] = s.net /\ c[2] = s.pf + s.employerPf
      /\ c[3] = s.esi + s.employerEsi /\ c[4] = s.pt /\ c[5] = s.tds
  BY <1>3 DEF Credited
<1>5. ASSUME NEW n \in Nat PROVE IsFiniteSet(1 .. n)
  BY FS_Interval
<1>6. Weighs(d, 1 .. 3)
  <2>1. IsFiniteSet(1 .. 3)
    BY <1>5
  <2>2. \A i \in 1 .. 3 : i = 1 \/ i = 2 \/ i = 3
    OBVIOUS
  <2> QED
    BY <1>2, <2>1, <2>2 DEF Weighs
<1>7. Weighs(c, 1 .. 5)
  <2>1. IsFiniteSet(1 .. 5)
    BY <1>5
  <2>2. \A i \in 1 .. 5 : i = 1 \/ i = 2 \/ i = 3 \/ i = 4 \/ i = 5
    OBVIOUS
  <2>3. s.pf + s.employerPf \in Int /\ s.esi + s.employerEsi \in Int
    OBVIOUS
  <2> QED
    BY <1>4, <2>1, <2>2, <2>3 DEF Weighs
<1>8. SumFunctionOnSet(d, 1 .. 3) = d[1] + d[2] + d[3]
  <2>1. Weighs(d, 1 .. 2) /\ SumFunctionOnSet(d, 1 .. 3) = SumFunctionOnSet(d, 1 .. 2) + d[3]
    BY <1>6, SumOfNext, 2 + 1 = 3
  <2>2. Weighs(d, 1 .. 1) /\ SumFunctionOnSet(d, 1 .. 2) = SumFunctionOnSet(d, 1 .. 1) + d[2]
    BY <2>1, SumOfNext, 1 + 1 = 2
  <2>3. SumFunctionOnSet(d, 1 .. 1) = SumFunctionOnSet(d, 1 .. 0) + d[1]
    BY <2>2, SumOfNext, 0 + 1 = 1
  <2> QED
    BY <1>2, <2>1, <2>2, <2>3, SumOfNoneYet
<1>9. SumFunctionOnSet(c, 1 .. 5) = c[1] + c[2] + c[3] + c[4] + c[5]
  <2>1. Weighs(c, 1 .. 4) /\ SumFunctionOnSet(c, 1 .. 5) = SumFunctionOnSet(c, 1 .. 4) + c[5]
    BY <1>7, SumOfNext, 4 + 1 = 5
  <2>2. Weighs(c, 1 .. 3) /\ SumFunctionOnSet(c, 1 .. 4) = SumFunctionOnSet(c, 1 .. 3) + c[4]
    BY <2>1, SumOfNext, 3 + 1 = 4
  <2>3. Weighs(c, 1 .. 2) /\ SumFunctionOnSet(c, 1 .. 3) = SumFunctionOnSet(c, 1 .. 2) + c[3]
    BY <2>2, SumOfNext, 2 + 1 = 3
  <2>4. Weighs(c, 1 .. 1) /\ SumFunctionOnSet(c, 1 .. 2) = SumFunctionOnSet(c, 1 .. 1) + c[2]
    BY <2>3, SumOfNext, 1 + 1 = 2
  <2>5. SumFunctionOnSet(c, 1 .. 1) = SumFunctionOnSet(c, 1 .. 0) + c[1]
    BY <2>4, SumOfNext, 0 + 1 = 1
  <2> QED
    BY <1>4, <2>1, <2>2, <2>3, <2>4, <2>5, SumOfNoneYet
<1> QED
  BY <1>1, <1>2, <1>3, <1>4, <1>8, <1>9 DEF TotalOf

(* For every contract of finitely many components at whole rates, any days  *)
(* lost and any terms, a pay slip's income tax is marginal but for a rupee, *)
(* its fund adds up to a paisa, its journal balances exactly when nothing   *)
(* is deducted voluntarily, and it follows attendance                       *)
(* (computeEmployeePay, compute_income_tax_tds).                            *)
THEOREM PaidAsDeclared == PayslipSpec => []PayslipAddsUp
<1>1. PayslipInit => PayslipInv
  BY PayslipInvHolds
<1>2. PayslipInv /\ [PayslipNext]_payslipVars => PayslipInv'
  BY PayslipInvHolds
<1>3. PayslipInv => PayslipAddsUp
  <2> SUFFICES ASSUME PayslipInv, slip.kind = "slip" PROVE PayslipAddsUp
    BY DEF PayslipInv, PayslipAddsUp, IncomeTaxIsMarginal, FundAddsUp, PayslipBalances, PayFollowsAttendance
  <2>1. /\ IsContract(slip.heads) /\ slip.lost \in Nat /\ slip.terms.declared \in Int
        /\ SlipOf(slip.pay, slip.heads, slip.lost, slip.terms)
    BY DEF PayslipInv
  <2>2. PICK gross \in Int : gross = Gross(slip.heads, slip.lost) /\ slip.pay.gross = 100 * gross
                            /\ slip.pay.gross \div 100 = gross
    <3>1. Gross(slip.heads, slip.lost) \in Int
      BY <2>1, GrossFollows
    <3>2. \A g \in Int : (100 * g) \div 100 = g
      OBVIOUS
    <3> QED
      BY <2>1, <3>1, <3>2 DEF SlipOf
  <2>3. IncomeTaxIsMarginal
    <3>1. PICK income \in Int : income = Income
      BY <2>1, <2>2 DEF Income
    <3>2. PICK m, t : m = MarginalTax(income) /\ t = SlabTax(income)
      OBVIOUS
    <3>3. income <= LastSlabTo + 1 => 0 <= m - t /\ m - t <= 30
      BY <3>2, SlabsAgree, SMT
    <3>4. income <= LastSlabTo + 1 => m - t \in Int
      BY <3>2, MarginalTaxIsInt, SlabsAgree, SMT
    <3> QED
      BY <3>1, <3>2, <3>3, <3>4, SlabAssumption, SMT DEF IncomeTaxIsMarginal
  <2>4. FundAddsUp
    <3>1. PICK wage \in Int : wage = BasicWage(slip.heads, slip.lost)
      BY <2>1, BasicIs
    <3>2. PICK f : f = compute_pf(wage, slip.terms.pf)
      OBVIOUS
    <3>3. /\ f.employee \in Int /\ f.employer \in Int /\ f.pension \in Int /\ f.total \in Int
          /\ -1 <= f.employee + f.employer + f.pension - f.total
          /\ f.employee + f.employer + f.pension - f.total <= 1
      BY <3>2, FundsAre
    <3>4. f.employee + f.employer + f.pension - f.total \in -1 .. 1
      BY <3>3
    <3> QED
      BY <3>1, <3>2, <3>4 DEF FundAddsUp
  <2>5. PayslipBalances
    <3>1. PICK p : p = slip.pay
      OBVIOUS
    <3>2. /\ p.gross \in Int /\ p.pf \in Int /\ p.employerPf \in Int /\ p.esi \in Int /\ p.employerEsi \in Int
          /\ p.pt \in Int /\ p.tds \in Int /\ p.other \in Int
          /\ p.deducted = p.pf + p.esi + p.pt + p.tds + p.other
          /\ p.net = IF p.gross > p.deducted THEN p.gross - p.deducted ELSE 0
      BY <2>1, <3>1 DEF SlipOf
    <3>3. p.deducted \in Int /\ p.net \in Int
      BY <3>2
    <3>4. /\ TotalOf(Debited(p)) = p.gross + p.employerPf + p.employerEsi
          /\ TotalOf(Credited(p)) = p.net + (p.pf + p.employerPf) + (p.esi + p.employerEsi) + p.pt + p.tds
      BY <3>2, <3>3, SidesAre
    <3>5. PICK g \in Int, a \in Int, ea \in Int, b \in Int, eb \in Int, c \in Int, d \in Int, o \in Int :
            /\ g = p.gross /\ a = p.pf /\ ea = p.employerPf /\ b = p.esi /\ eb = p.employerEsi
            /\ c = p.pt /\ d = p.tds /\ o = p.other
      BY <3>2
    <3>6. ASSUME p.deducted <= p.gross PROVE p.net = g - (a + b + c + d + o)
      BY <3>2, <3>5, <3>6
    <3>7. ASSUME p.deducted <= p.gross PROVE TotalOf(Debited(p)) = TotalOf(Credited(p)) <=> p.other = 0
      <4>1. /\ TotalOf(Debited(p)) = g + ea + eb
            /\ TotalOf(Credited(p)) = (g - (a + b + c + d + o)) + (a + ea) + (b + eb) + c + d
        BY <3>4, <3>5, <3>6, <3>7
      <4>2. (g + ea + eb = (g - (a + b + c + d + o)) + (a + ea) + (b + eb) + c + d) <=> o = 0
        OBVIOUS
      <4> QED
        BY <3>5, <4>1, <4>2
    <3> QED
      BY <3>1, <3>7 DEF PayslipBalances
  <2>6. PayFollowsAttendance
    <3>1. PICK most \in Nat, card \in Nat, full \in Int, off \in Int :
            /\ most = IF slip.lost > 2 * Working THEN slip.lost ELSE 2 * Working
            /\ card = Cardinality(Earnings(slip.heads)) /\ full = Gross(slip.heads, 0)
            /\ off = 2 * Working * gross - (2 * Working - slip.lost) * full
      <4>1. Gross(slip.heads, 0) \in Int /\ Cardinality(Earnings(slip.heads)) \in Nat
        BY <2>1, GrossFollows
      <4>2. 2 * Working \in Nat /\ 2 * Working - slip.lost \in Int
        BY <2>1, PayslipAssumption
      <4>3. \A x, y \in Int : x * y \in Int /\ x - y \in Int
        OBVIOUS
      <4>4. 2 * Working * gross - (2 * Working - slip.lost) * Gross(slip.heads, 0) \in Int
        BY <4>1, <4>2, <4>3
      <4>5. (IF slip.lost > 2 * Working THEN slip.lost ELSE 2 * Working) \in Nat
        BY <2>1, <4>2
      <4> QED
        BY <4>1, <4>4, <4>5
    <3>2. -(most * card) <= off /\ off <= 2 * (most * card)
      BY <2>1, <2>2, <3>1, GrossFollows
    <3>3. PICK room \in Nat : room = most * card
      OBVIOUS
    <3>4. off \in -room .. 2 * room
      BY <3>2, <3>3
    <3>5. off = 2 * Working * (slip.pay.gross \div 100) - full * (2 * Working - slip.lost)
      <4>1. \A x, y \in Int : x * y = y * x
        OBVIOUS
      <4>2. 2 * Working - slip.lost \in Int
        BY <2>1, PayslipAssumption
      <4>3. full * (2 * Working - slip.lost) = (2 * Working - slip.lost) * full
        BY <4>1, <4>2
      <4> QED
        BY <2>2, <3>1, <4>3
    <3> QED
      BY <3>1, <3>3, <3>4, <3>5 DEF PayFollowsAttendance
  <2> QED
    BY <2>3, <2>4, <2>5, <2>6 DEF PayslipAddsUp
<1> QED
  BY <1>1, <1>2, <1>3, PTL DEF PayslipSpec
=============================================================================

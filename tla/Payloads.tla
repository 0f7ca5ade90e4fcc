------------------------------ MODULE Payloads ------------------------------
(***************************************************************************)
(* What Inv01PayloadMapper (src/src/einvoicing/payload-mapper.ts) declares  *)
(* of an invoice to the government's portals: the tax_entries the           *)
(* calculator of Gst left for its lines are grouped by code into the items  *)
(* and totals of an e-invoice and of an e-way bill; and the distance an     *)
(* e-way bill names (distance-service.ts).                                  *)
(*                                                                         *)
(* Amounts are in paise and exact, so the mapper's rounding changes none.   *)
(* Names, addresses, dates and pin codes are left out.                      *)
(***************************************************************************)
EXTENDS Gst

CONSTANTS
    Invoices,   \* what a run declares: lines, interstate, region, buyer, seller
    Trips       \* same: one pin code; google, table: kilometres or Unknown
Unknown == -1

ASSUME PayloadAssumption == \A inv \in Invoices :
    /\ inv.interstate \in BOOLEAN
    /\ inv.lines \in Seq([code : STRING, value : Nat, rate : Nat, cess : Nat])

(* persistTaxEntries: a line leaves a row for each component of its tax,    *)
(* all with the line's code and value; half is the rate of the central and  *)
(* the state's half.                                                        *)
RateIn(i, component) ==
    CASE component = "IGST" -> i.rate [] component = "CESS" -> i.cess [] OTHER -> i.rate \div 2
RowsOfLine(inv, line) ==
    LET i == [interstate |-> inv.interstate, region |-> inv.region,
              rate |-> line.rate, cess |-> line.cess, value |-> line.value]
        cs == buildComponents(i)
    IN  [n \in DOMAIN cs |-> [code |-> line.code, taxable |-> line.value, component |-> cs[n].component,
                              rate |-> RateIn(i, cs[n].component), amount |-> cs[n].amount]]
(* The rows of a transaction by line and component, as their ids order them.*)
RowIds(inv) == UNION {{<<k, n>> : n \in DOMAIN RowsOfLine(inv, inv.lines[k])} : k \in DOMAIN inv.lines}
InvoiceRows(inv) == [x \in RowIds(inv) |-> RowsOfLine(inv, inv.lines[x[1]])[x[2]]]
Before(x, y) == x[1] < y[1] \/ (x[1] = y[1] /\ x[2] <= y[2])
First(rows) == rows[CHOOSE x \in DOMAIN rows : \A y \in DOMAIN rows : Before(x, y)]

-----------------------------------------------------------------------------
SumRows(rows, names) ==
    SumFunction([x \in DOMAIN rows |-> IF rows[x].component \in names THEN rows[x].amount ELSE 0])
Codes(rows) == {rows[x].code : x \in DOMAIN rows}
Grouped(rows, code) == [x \in {y \in DOMAIN rows : rows[y].code = code} |-> rows[x]]

StateTax == {"SGST", "UTGST"}
Taxes(rows) == [cgst |-> SumRows(rows, {"CGST"}), sgst |-> SumRows(rows, StateTax),
                igst |-> SumRows(rows, {"IGST"}), cess |-> SumRows(rows, {"CESS"})]
AllTaxes(t) == t.cgst + t.sgst + t.igst + t.cess

(* Mutant: the value of a code counted once per component.                  *)
EveryValue(rows) == SumFunction([x \in DOMAIN rows |-> rows[x].taxable])
(* The first row of a code stands for the code.                             *)
AssAmt(rows) == First(rows).taxable
ItemOf(rows) == [assessable |-> AssAmt(rows), rate |-> First(rows).rate, taxes |-> Taxes(rows),
               total |-> AssAmt(rows) + AllTaxes(Taxes(rows))]
ItemList(rows) == [code \in Codes(rows) |-> ItemOf(Grouped(rows, code))]

buildItemListAndValue(rows) ==
    LET items == ItemList(rows)
    IN  [items |-> items,
         assessable |-> SumFunction([code \in DOMAIN items |-> items[code].assessable]),
         cgst |-> SumFunction([code \in DOMAIN items |-> items[code].taxes.cgst]),
         sgst |-> SumFunction([code \in DOMAIN items |-> items[code].taxes.sgst]),
         igst |-> SumFunction([code \in DOMAIN items |-> items[code].taxes.igst]),
         cess |-> SumFunction([code \in DOMAIN items |-> items[code].taxes.cess])]
InvoiceValue(v) == v.assessable + AllTaxes(v)

(* An e-way bill's total takes each taxable_value once: new Set of them.    *)
SumOfDistinct(rows) == SumFunction([v \in {rows[x].taxable : x \in DOMAIN rows} |-> v])
aggregateTaxSummary(rows) ==
    LET t == Taxes(rows)
    IN  [assessable |-> SumOfDistinct(rows), cgst |-> t.cgst, sgst |-> t.sgst, igst |-> t.igst, cess |-> t.cess]
buildEwayBillItems(rows) == [code \in Codes(rows) |->
    LET own == Grouped(rows, code)
    IN  [assessable |-> AssAmt(own), rate |-> First(own).rate, taxes |-> Taxes(own)]]

-----------------------------------------------------------------------------
(* The seller is found by the id of its registration, a buyer by the GSTIN  *)
(* of the first row; both have to be active registrations of the tenant.    *)
(* An invoice without a GSTIN of its buyer is declared for "URP".           *)
PartiesFound(inv) == inv.seller = "active" /\ inv.buyer \in {"active", "none"}
ToGstin(inv) == IF inv.buyer = "none" THEN "URP" ELSE "buyer"

Declare(inv) ==
    /\ bill = BlankBill /\ PartiesFound(inv) /\ inv.lines # <<>>
    /\ LET rows == InvoiceRows(inv)
       IN  bill' = [kind |-> "declared", invoice |-> inv, to |-> ToGstin(inv),
                    inv01 |-> buildItemListAndValue(rows),
                    eway |-> [totals |-> aggregateTaxSummary(rows), items |-> buildEwayBillItems(rows)]]
RefuseParties(inv) == bill = BlankBill /\ ~PartiesFound(inv) /\ bill' = [kind |-> "refused"]

(* DistanceService.calculate: Google's answer, else the straight line in    *)
(* the database, else none.  Number(null) is 0: two pin codes the table     *)
(* does not know are 0 km apart by the table.                               *)
Fallback(t) == IF t.google # Unknown THEN t.google ELSE IF t.table # Unknown THEN t.table ELSE 0
Calculated(t) == IF t.same THEN 0 ELSE Fallback(t)
Measure(t) ==
    /\ bill = BlankBill
    /\ bill' = [kind |-> "trip", trip |-> t, km |-> Calculated(t)]

PayloadNext ==
    \/ \E inv \in Invoices : Declare(inv) \/ RefuseParties(inv)
    \/ \E t \in Trips : Measure(t)
PayloadSpec == GstInit /\ [][GstNext \/ PayloadNext]_gstVars

-----------------------------------------------------------------------------
Declared == bill.kind = "declared"
Sold == bill.invoice.lines
OneLineACode == \A m, n \in DOMAIN Sold : Sold[m].code = Sold[n].code => m = n
ValuesDiffer == \A m, n \in DOMAIN Sold : Sold[m].value = Sold[n].value => m = n

ComputedTax(l) ==
    SumOf(buildComponents([interstate |-> bill.invoice.interstate, region |-> bill.invoice.region,
                           rate |-> l.rate, cess |-> l.cess, value |-> l.value]))
LinesTax == SumFunction([n \in DOMAIN Sold |-> ComputedTax(Sold[n])])
LinesValue == SumFunction([n \in DOMAIN Sold |-> Sold[n].value])

(* No rupee of tax the calculator computed for a line is lost on its way to *)
(* the portal: the items and the totals declare the tax of all lines, a     *)
(* union territory's with the states', whatever codes the lines share.      *)
TaxIsDeclared ==
    Declared =>
        /\ LinesTax = AllTaxes(bill.inv01)
        /\ LinesTax = AllTaxes(bill.eway.totals)
        /\ SumFunction([code \in DOMAIN bill.inv01.items |-> bill.inv01.items[code].total])
               = InvoiceValue(bill.inv01)

(* An e-invoice declares what was invoiced, each line's value once however  *)
(* many rows its tax has, as long as no two lines have one code (the first  *)
(* of those would stand for both).                                          *)
ValueIsDeclared ==
    Declared /\ OneLineACode => InvoiceValue(bill.inv01) = LinesValue + LinesTax

(* The e-way bill that travels with the goods and the e-invoice of the sale *)
(* declare the same value and the same taxes, as long as no two lines have  *)
(* one code or one value.                                                   *)
BillAndInvoiceAgree ==
    Declared /\ OneLineACode /\ ValuesDiffer =>
        \A part \in {"assessable", "cgst", "sgst", "igst", "cess"} : bill.eway.totals[part] = bill.inv01[part]

(* When Google does not answer, the table's distance is declared: no goods  *)
(* travel on an e-way bill of 0 km unless a source says it is that near.    *)
KnownWayIsDeclared ==
    bill.kind = "trip" /\ ~bill.trip.same /\ (bill.trip.google # Unknown \/ bill.trip.table # Unknown)
        => bill.km # 0 \/ 0 \in {bill.trip.google, bill.trip.table}

(* What is charged is computed alike everywhere, and declared to both       *)
(* portals in full.                                                         *)
ChargedIsDeclared ==
    /\ TaxesAddUp
    /\ TaxIsDeclared
    /\ ValueIsDeclared
    /\ BillAndInvoiceAgree
    /\ KnownWayIsDeclared
=============================================================================

-------------------------------- MODULE Gst --------------------------------
(***************************************************************************)
(* What the tax calculator (src/src/gst) and the counter (src/src/pos)      *)
(* compute before a row is written: the components of a tax, the reverse    *)
(* charge, the check digit of a GSTIN, and the journal of a receipt.        *)
(*                                                                         *)
(* Amounts are in paise, rates in hundredths of a percent; JavaScript's     *)
(* doubles are taken as exact.  A GSTIN is a sequence of character values.  *)
(***************************************************************************)
EXTENDS Integers, Sequences, FiniteSets, SequencesExt

CONSTANTS
    Rate,           \* igst_rate of hsn_sac_master, as seeded
    Cess,           \* cess_rate, as seeded
    Price,          \* taxable values
    ReverseLimit,   \* 5000 rupees in the code
    Base,           \* characters a GSTIN is made of, 36
    Code,           \* the codes a run considers: sequences over 0 .. Base - 1
    Tenders         \* what customers pay with: sequences of [code, amount]

ASSUME GstAssumption ==
    /\ Rate \cup Cess \cup Price \subseteq Nat
    /\ \A r \in Rate : r % 2 = 0          \* no seeded rate has an odd hundredth
    /\ Base \in Nat \ {0} /\ Base % 2 = 0
    /\ Code \subseteq Seq(0 .. Base - 1)
    /\ Tenders \subseteq Seq([code : STRING, amount : Int])

VARIABLE bill       \* what was computed
gstVars == bill
BlankBill == [kind |-> "none"]

(* Math.round(x * 100) / 100 of the quotient n / d, d even.                 *)
Rounded(n, d) == (n + d \div 2) \div d
Tax(value, rate) == Rounded(value * rate, 10000)

-----------------------------------------------------------------------------

(* buildComponents; half is the rate in units half as large.                *)
HalfTax(value, rate) == Rounded(value * rate, 20000)
Second(region) == IF region = "bare" THEN "UTGST" ELSE "SGST"
Component(name, amount) == [component |-> name, amount |-> amount]

Central(i) ==
    IF i.interstate THEN <<Component("IGST", Tax(i.value, i.rate))>>
    ELSE <<Component("CGST", HalfTax(i.value, i.rate)),
           Component(Second(i.region), HalfTax(i.value, i.rate))>>
OnTop(i) == IF i.cess > 0 THEN <<Component("CESS", Tax(i.value, i.cess))>> ELSE <<>>
buildComponents(i) == Central(i) \o OnTop(i)

(* The same in SQL, determine_tax_components: the half rate is rounded to   *)
(* two decimals first.                                                      *)
SqlHalfRate(rate) == Rounded(rate, 2)
determine_tax_components(i) ==
    (IF i.interstate THEN <<Component("IGST", Tax(i.value, i.rate))>>
     ELSE <<Component("CGST", Tax(i.value, SqlHalfRate(i.rate))),
            Component(IF i.region = "bare" THEN "UTGST" ELSE "SGST",
                      Tax(i.value, SqlHalfRate(i.rate)))>>)
    \o OnTop(i)

SumOf(components) == SumFunction([n \in DOMAIN components |-> components[n].amount])

(* The reverse charge is asked for, or found: a purchase above the limit    *)
(* from a dealer who is not registered, or one under composition.           *)
isRcm(i) ==
    \/ i.asked
    \/ /\ i.direction = "INPUT"
       /\ \/ i.party = "none" /\ i.value > ReverseLimit
          \/ i.party = "COMPOSITION"

(* Every component becomes a row with the flag of the whole.                *)
Entries(i) == LET cs == buildComponents(i)
              IN  [n \in DOMAIN cs |-> [component |-> cs[n].component, amount |-> cs[n].amount,
                                        rcm |-> isRcm(i), direction |-> i.direction]]
Input == [interstate : BOOLEAN, region : {"state", "bare"}, rate : Rate, cess : Cess,
          value : Price, direction : {"INPUT", "OUTPUT"},
          party : {"none", "REGULAR", "COMPOSITION"}, asked : BOOLEAN]
Calculate(i) ==
    /\ bill = BlankBill
    /\ bill' = [kind |-> "tax", input |-> i, entries |-> Entries(i)]

-----------------------------------------------------------------------------

(* The check digit: every second character counts twice, written in Base.   *)
Doubled(x, twice) == LET a == IF twice THEN 2 * x ELSE x IN (a \div Base) + (a % Base)
Weighted(code) ==
    SumFunction([i \in DOMAIN code |-> Doubled(code[i], (Len(code) - i) % 2 = 0)])
CheckDigit(code) == (Base - (Weighted(code) % Base)) % Base

(* A GSTIN with its check digit, of which one character may be misread.     *)
Misread(code, i, x) ==
    /\ bill = BlankBill /\ i \in DOMAIN code /\ x \in 0 .. Base - 1
    /\ bill' = [kind |-> "gstin", code |-> code, digit |-> CheckDigit(code),
                typed |-> [code EXCEPT ![i] = x]]

-----------------------------------------------------------------------------
(* POSService.computeTotals and buildJournalLines: the bill is rounded to a *)
(* rupee, each tender is debited, change is credited to the cash account if *)
(* one of the tenders is cash, and the rounding goes to its own account.    *)
Rupee == 100
Grand(exact) == Rounded(exact, Rupee) * Rupee

RoundOff(exact) == Grand(exact) - exact
Paid(tenders) == SumFunction([n \in DOMAIN tenders |-> tenders[n].amount])
ByCash(tenders) == \E n \in DOMAIN tenders : tenders[n].code = "CASH"

Debits(exact, tenders) ==
    Paid(tenders) + (IF RoundOff(exact) < 0 THEN -RoundOff(exact) ELSE 0)
Credits(exact, tenders) ==
    exact + (IF ByCash(tenders) THEN Paid(tenders) - Grand(exact) ELSE 0)
          + (IF RoundOff(exact) > 0 THEN RoundOff(exact) ELSE 0)

checkout(exact, tenders) ==
    /\ bill = BlankBill
    /\ Paid(tenders) >= Grand(exact)
    /\ bill' = [kind |-> "counter", exact |-> exact, tenders |-> tenders]

GstInit == bill = BlankBill
GstNext ==
    \/ \E i \in Input : Calculate(i)
    \/ \E code \in Code : \E i \in DOMAIN code, x \in 0 .. Base - 1 : Misread(code, i, x)
    \/ \E exact \in Price, tenders \in Tenders : checkout(exact, tenders)
GstSpec == GstInit /\ [][GstNext]_gstVars

-----------------------------------------------------------------------------
(* The tax of a sale is the same, to the paisa, within the state and across *)
(* its border: splitting the rate in two halves rounds twice.               *)
PlaceCostsAPaisa ==
    bill.kind = "tax" =>
        LET here == SumOf(Central([bill.input EXCEPT !.interstate = FALSE]))
            there == SumOf(Central([bill.input EXCEPT !.interstate = TRUE]))
        IN  here - there \in -1 .. 1

(* The service and the database function of the same name compute the same  *)
(* components, row by row, for the rates the master is seeded with.         *)
CalculatorsAgree ==
    bill.kind = "tax" =>
        [n \in DOMAIN bill.entries |-> Component(bill.entries[n].component, bill.entries[n].amount)]
            = determine_tax_components(bill.input)

(* A GSTIN of which any one character is misread fails its check digit.     *)
MisreadingIsCaught ==
    bill.kind = "gstin" /\ bill.typed # bill.code => CheckDigit(bill.typed) # bill.digit

(* The journal of a counter sale balances, whatever the rounding, unless    *)
(* change is due and no tender is cash (then the code writes no line for    *)
(* it).                                                                     *)
ReceiptBalances ==
    bill.kind = "counter" =>
        \/ ~ByCash(bill.tenders) /\ Paid(bill.tenders) # Grand(bill.exact)
        \/ Debits(bill.exact, bill.tenders) = Credits(bill.exact, bill.tenders)

(* The calculator agrees with the database's, within the state and across   *)
(* its border; check digits catch a misread character; a receipt balances.  *)
TaxesAddUp ==
    /\ PlaceCostsAPaisa
    /\ CalculatorsAgree
    /\ MisreadingIsCaught
    /\ ReceiptBalances
=============================================================================

-------------------------------- MODULE Tds --------------------------------
(***************************************************************************)
(* Tax deducted at source from one vendor under one section in one year     *)
(* (src/src/tds, src/tds_schema.sql): the deduction with its threshold      *)
(* tracker, the challans that deposit it, and the tax collected at source.  *)
(* Each call is one transaction.  Amounts are in paise (those of tax        *)
(* collected at source in rupees), rates in hundredths of a percent.        *)
(***************************************************************************)
EXTENDS Integers, Sequences, FiniteSetsExt

CONSTANTS
    TdsCall,        \* calls of the services
    TdsSettings     \* [serial, section, rated, pan, cert, calls, received, invoice]

TdsSections ==
    [single : Nat, aggregate : Nat, default : Nat, special : Nat, lower : Nat, surcharge : Nat, cess : Nat]
(* An invoice is taxed on the credit of its vendor, which is not negative.  *)
TdsAsks == [kind : {"deduct"}, gross : Int, taxable : Nat] \cup [kind : {"deposit"}, serial : Nat, total : Int]

ASSUME TdsAssumption == \A s \in TdsSettings :
    /\ s.section \in TdsSections /\ {s.received, s.invoice} \subseteq Nat
    /\ DOMAIN s.calls \subseteq TdsCall /\ \A c \in DOMAIN s.calls : s.calls[c] \in TdsAsks

VARIABLES
    tdsAsked,   \* the setting: serial says that calls do not overlap
    tdsStep,    \* tdsStep[c]: "start", "tracked", "missed", "created", "listed", "done" or "refused"
    tracked,    \* tracked[c]: the cumulative amount call c read
    listed,     \* listed[c]: the unpaid entries call c was shown
    tracker,    \* the row of tds_threshold_tracker
    booked,     \* the invoices past the single threshold whose calls committed
    tdsEntries, \* the rows of tds_entries
    challans    \* the mapped entries of each tax_payments row

tdsVars == <<tdsAsked, tdsStep, tracked, listed, tracker, booked, tdsEntries, challans>>
tdsTables == <<tracker, booked, tdsEntries, challans>>

NoTracker == [there |-> FALSE, taxable |-> 0, tds |-> 0]
TdsInit ==
    /\ tdsAsked \in TdsSettings
    /\ tdsStep = [c \in TdsCall |-> "start"] /\ tracked = [c \in TdsCall |-> 0]
    /\ listed = [c \in TdsCall |-> {}]
    /\ tracker = NoTracker /\ booked = <<>> /\ tdsEntries = <<>> /\ challans = <<>>

(* getRateForDeductee, asked for a PAN without a certificate, selects        *)
(* tds_section_rates.is_active, which the schema does not define: the       *)
(* statement fails unless a database has had the column added (rated).      *)
RateReads == tdsAsked.rated \/ tdsAsked.cert # "none" \/ tdsAsked.pan = "missing"

Busy(c) == tdsStep[c] \in {"tracked", "missed", "created", "listed"}
TdsIs(c, kind, at) ==
    /\ c \in DOMAIN tdsAsked.calls /\ tdsAsked.calls[c].kind = kind /\ tdsStep[c] = at
    /\ at = "start" /\ tdsAsked.serial => ~\E d \in TdsCall : Busy(d)
Bill(c) == tdsAsked.calls[c]
TdsGoto(c, where) == tdsStep' = [tdsStep EXCEPT ![c] = where]
TdsEnd(c, how) ==
    /\ TdsGoto(c, how)
    /\ tracked' = [tracked EXCEPT ![c] = 0] /\ listed' = [listed EXCEPT ![c] = {}]

-----------------------------------------------------------------------------
RoundTax(n, d) == (2 * n + d) \div (2 * d)
PercentOf(amount, rate) == RoundTax(amount * rate, 10000)

(* A certificate goes before the PAN, and a missing PAN costs 20 % or more. *)
Rate == LET s == tdsAsked.section IN
    CASE tdsAsked.cert # "none" -> IF tdsAsked.cert = "nil" THEN 0 ELSE s.lower
      [] tdsAsked.cert = "none" /\ tdsAsked.pan = "missing" -> Max({s.default, 2000})
      [] OTHER -> IF s.special = 0 THEN s.default ELSE s.special
TdsOn(taxable) ==
    LET s == tdsAsked.section
        tax == PercentOf(taxable, Rate)
        surcharge == PercentOf(tax, s.surcharge)
    IN  tax + surcharge + PercentOf(tax + surcharge, s.cess)

TooSmall(c) == tdsAsked.section.single > 0 /\ Bill(c).taxable <= tdsAsked.section.single

Within(after) == tdsAsked.section.aggregate > 0 /\ after <= tdsAsked.section.aggregate

RateRefused(c) ==
    /\ TdsIs(c, "deduct", "start") /\ ~RateReads
    /\ TdsEnd(c, "refused") /\ UNCHANGED <<tdsAsked, tdsTables>>

(* An invoice within the single threshold is neither taxed nor counted.     *)
SmallBill(c) ==
    /\ TdsIs(c, "deduct", "start") /\ RateReads /\ TooSmall(c)
    /\ TdsEnd(c, "done") /\ UNCHANGED <<tdsAsked, tdsTables>>

(* getOrCreateTracker reads the row without a lock, or inserts it; the      *)
(* unique key makes a second INSERT wait for the first and fail.            *)
FindTracker(c) ==
    /\ TdsIs(c, "deduct", "start") /\ RateReads /\ ~TooSmall(c) /\ tracker.there
    /\ tracked' = [tracked EXCEPT ![c] = tracker.taxable]
    /\ TdsGoto(c, "tracked") /\ UNCHANGED <<tdsAsked, listed, tdsTables>>
MissTracker(c) ==
    /\ TdsIs(c, "deduct", "start") /\ RateReads /\ ~TooSmall(c) /\ ~tracker.there
    /\ TdsGoto(c, "missed") /\ UNCHANGED <<tdsAsked, tracked, listed, tdsTables>>
CreateTracker(c) ==
    /\ tdsStep[c] = "missed" /\ \A d \in TdsCall : tdsStep[d] # "created"
    /\ IF tracker.there THEN TdsEnd(c, "refused")
       ELSE TdsGoto(c, "created") /\ UNCHANGED <<tracked, listed>>
    /\ UNCHANGED <<tdsAsked, tdsTables>>

(* Mutant: the tax is written absolutely, as the amount is.                 *)
Overwrite(after, tax) == [there |-> TRUE, taxable |-> after, tds |-> tax]

(* updateTracker: the amount is what was read and this invoice, the tax is  *)
(* added to what the row holds by then.                                     *)
updateTracker(after, tax) == [there |-> TRUE, taxable |-> after, tds |-> tracker.tds + tax]

(* The vendor is credited the taxable amount less the tax, the tax goes to  *)
(* a line of its own: at COMMIT the voucher balances only if its gross is   *)
(* the taxable amount, and no line may be of nothing.                       *)
SplitPosts(c, tax) == Bill(c).gross = Bill(c).taxable /\ tax > 0 /\ tax < Bill(c).taxable

computeDeduction(c) ==
    /\ Bill(c).kind = "deduct" /\ tdsStep[c] \in {"tracked", "created"}
    /\ LET after == tracked[c] + Bill(c).taxable
           tax == IF Within(after) THEN 0 ELSE TdsOn(Bill(c).taxable)
       IN  /\ Within(after) \/ SplitPosts(c, tax)
           /\ tracker' = updateTracker(after, tax)
           /\ booked' = Append(booked, [taxable |-> Bill(c).taxable, tds |-> tax])
           /\ tdsEntries' = IF Within(after) THEN tdsEntries ELSE Append(tdsEntries, tax)
    /\ TdsEnd(c, "done") /\ UNCHANGED <<tdsAsked, challans>>
DeductionRefused(c) ==
    /\ Bill(c).kind = "deduct" /\ tdsStep[c] \in {"tracked", "created"}
    /\ LET after == tracked[c] + Bill(c).taxable
       IN  ~Within(after) /\ ~SplitPosts(c, TdsOn(Bill(c).taxable))
    /\ TdsEnd(c, "refused") /\ UNCHANGED <<tdsAsked, tdsTables>>

-----------------------------------------------------------------------------
Paid(e) == \E p \in DOMAIN challans : e \in challans[p].entries

getUnpaidTdsEntries == {e \in DOMAIN tdsEntries : ~Paid(e)}
ListUnpaid(c) ==
    /\ TdsIs(c, "deposit", "start") /\ getUnpaidTdsEntries # {}
    /\ listed' = [listed EXCEPT ![c] = getUnpaidTdsEntries]
    /\ TdsGoto(c, "listed") /\ UNCHANGED <<tdsAsked, tracked, tdsTables>>
(* Nothing says that an entry is paid once; a serial number is used once,   *)
(* and a rupee between the challan and its entries is let pass.             *)
Allocated(c) == MapThenSumSet(LAMBDA e : tdsEntries[e], listed[c])
ChallanFits(c) ==
    /\ Allocated(c) - Bill(c).total \in -100 .. 100
    /\ \A p \in DOMAIN challans : challans[p].serial # Bill(c).serial
recordChallan(c) ==
    /\ tdsStep[c] = "listed" /\ ChallanFits(c)
    /\ challans' = Append(challans, [serial |-> Bill(c).serial, total |-> Bill(c).total,
                                     entries |-> listed[c]])
    /\ TdsEnd(c, "done") /\ UNCHANGED <<tdsAsked, tracker, booked, tdsEntries>>
ChallanRefused(c) ==
    /\ tdsStep[c] = "listed" /\ ~ChallanFits(c)
    /\ TdsEnd(c, "refused") /\ UNCHANGED <<tdsAsked, tdsTables>>

TdsNext == \E c \in DOMAIN tdsAsked.calls :
    \/ RateRefused(c) \/ SmallBill(c) \/ FindTracker(c) \/ MissTracker(c) \/ CreateTracker(c)
    \/ computeDeduction(c) \/ DeductionRefused(c)
    \/ ListUnpaid(c) \/ recordChallan(c) \/ ChallanRefused(c)
TdsSpec == TdsInit /\ [][TdsNext]_tdsVars

-----------------------------------------------------------------------------
(* calculateTcs: the tax on an invoice is on what it lifts the receipts of  *)
(* the year above the threshold.                                            *)
TcsThreshold == 5000000
TcsRates == {10, 100}
Paise(rupees, rate) == RoundTax(rupees * rate, 100)

calculateTcs(before, amount, rate) ==
    IF before + amount <= TcsThreshold THEN 0
    ELSE IF before >= TcsThreshold THEN Paise(amount, rate)
    ELSE Paise(before + amount - TcsThreshold, rate)

(* However the receipts of a year are cut into invoices, each is taxed by   *)
(* what it adds above the threshold, to the paisa.                          *)
TcsIsMarginal == \A rate \in TcsRates :
    LET before == tdsAsked.received
        amount == tdsAsked.invoice
        above(x) == Max({0, x - TcsThreshold})
    IN  calculateTcs(before, amount, rate) = Paise(above(before + amount) - above(before), rate)

SumTds(seq) == MapThenSumSet(LAMBDA i : seq[i], DOMAIN seq)
TaxableOf(rows, n) == MapThenSumSet(LAMBDA i : rows[i].taxable, 1 .. n)
Upto(n) == TaxableOf(booked, n)

(* The tax the tracker shows is that of the entries, though its row is read *)
(* and written by calls that overlap.                                       *)
TrackedTdsIsDeducted == tracker.tds = SumTds(tdsEntries)

(* The tracker counts no invoice twice.  One at a time it counts every      *)
(* invoice that passes the single threshold, the others being left out.     *)
TrackedAmountIsBooked ==
    /\ tracker.taxable <= Upto(Len(booked))
    /\ tdsAsked.serial => tracker.taxable = Upto(Len(booked))

(* No invoice is taxed before the year is past the aggregate threshold,     *)
(* whatever calls overlap; one at a time, every one above the single        *)
(* threshold is taxed that takes the year past it.                          *)
DeductedPastThreshold ==
    /\ \A n \in DOMAIN booked : booked[n].tds > 0 => Upto(n) > tdsAsked.section.aggregate
    /\ tdsAsked.serial => \A n \in DOMAIN booked :
          Upto(n) > tdsAsked.section.aggregate => booked[n].tds > 0

(* One at a time, those who pay what is listed pay each deduction once.     *)
DepositedOnce ==
    tdsAsked.serial => \A p, q \in DOMAIN challans :
        p # q => challans[p].entries \cap challans[q].entries = {}

(* Tracker, deductions and challans of a vendor agree, and tax is taken of  *)
(* what passes the threshold.                                               *)
TaxIsTracked ==
    /\ TcsIsMarginal
    /\ TrackedTdsIsDeducted
    /\ TrackedAmountIsBooked
    /\ DeductedPastThreshold
    /\ DepositedOnce

-----------------------------------------------------------------------------
(* What the repository says of these and the code does not keep.            *)

(* "Cumulative amounts per vendor per section per FY": the tracker holds    *)
(* them all.  Two deductions that overlap both add to what they read.       *)
TrackerIsCumulative == tracker.taxable = Upto(Len(booked))

(* "One challan, many deductions": a deduction is paid by one challan.  Two *)
(* clerks that were shown the same unpaid entries both pay them.            *)
DepositedByOneChallan == \A p, q \in DOMAIN challans :
    p # q => challans[p].entries \cap challans[q].entries = {}

(* A vendor whose PAN is valid is charged the section's rate: one at a      *)
(* time, a deduction is refused only because its voucher cannot balance.    *)
(* It does not hold while the query for the rate fails.                     *)
PanIsCharged ==
    tdsAsked.serial => \A c \in DOMAIN tdsAsked.calls :
        Bill(c).kind = "deduct" /\ tdsStep[c] = "refused" => ~SplitPosts(c, TdsOn(Bill(c).taxable))
=============================================================================

------------------------------ MODULE Payslip ------------------------------
(***************************************************************************)
(* What one employee is paid for a period (src/src/payroll/payroll-engine.ts *)
(* and the functions of src/payroll_schema.sql it calls): earnings less the *)
(* days lost, provident fund, state insurance, professional tax, income tax. *)
(*                                                                         *)
(* Earnings are whole rupees (the code rounds them down), deductions are    *)
(* paise, rates hundredths of a percent, lost days are counted in halves.   *)
(***************************************************************************)
EXTENDS Integers, FiniteSets, Sequences, SequencesExt, FiniteSetsExt

CONSTANTS
    PayHead,     \* salary components: [name, type, rate, percent, of]
    Contracts,  \* sets of heads a run considers
    Terms,      \* terms of employment: [pf, esi, pt, regime, declared]
    Working,    \* working_days of the period
    Absence,    \* half days lost
    LastSlabTo  \* where the last slab of income ends: 9999999999 as seeded

ASSUME PayslipAssumption ==
    /\ Working \in Nat \ {0} /\ Absence \subseteq Nat /\ Contracts \subseteq SUBSET PayHead
    /\ \A heads \in Contracts : IsFiniteSet(heads) /\ \A h \in heads : h.rate \in Int
    /\ \A terms \in Terms : terms.declared \in Int

ASSUME SlabAssumption == LastSlabTo \in Nat /\ LastSlabTo >= 2400001

Round(n, d) == (2 * n + d) \div (2 * d)

-----------------------------------------------------------------------------
(* computeEarnings: a percentage refers to the rate written for another head *)
(* or for BASIC, whatever that rate is a rate of.                           *)
Earnings(heads) == {h \in heads : h.type = "EARNING"}
RateOf(heads, name) ==
    LET found == {h \in Earnings(heads) : h.name = name}
    IN  IF found = {} THEN 0 ELSE (CHOOSE h \in found : TRUE).rate
Reference(heads, h) ==
    IF h.of # h.name /\ \E g \in Earnings(heads) : g.name = h.of
    THEN RateOf(heads, h.of) ELSE RateOf(heads, "BASIC")

(* n / d rupees, less the days lost, rounded and then floored.              *)
adjustForLOP(n, d, lost) ==
    IF lost = 0 THEN n \div d ELSE Round(n * (2 * Working - lost), d * 2 * Working)
Earned(heads, h, lost) ==
    IF h.percent THEN adjustForLOP(h.rate * Reference(heads, h), 100, lost)
    ELSE adjustForLOP(h.rate, 1, lost)
HeadPay(heads, lost) == [h \in Earnings(heads) |-> Earned(heads, h, lost)]
Gross(heads, lost) == SumFunctionOnSet(HeadPay(heads, lost), Earnings(heads))
BasicWage(heads, lost) ==
    SumFunctionOnSet(HeadPay(heads, lost), {h \in Earnings(heads) : h.name \in {"BASIC", "DA"}})

-----------------------------------------------------------------------------
(* compute_pf, compute_esi: paise of rupees.                                *)
PfWage(wage) == IF wage < 15000 THEN wage ELSE 15000

compute_pf(wage, eligible) ==
    IF ~eligible THEN [employee |-> 0, employer |-> 0, pension |-> 0, total |-> 0]
    ELSE LET base == PfWage(wage)
         IN  [employee |-> base * 12, employer |-> Round(base * 367, 100),
              pension |-> Round(base * 833, 100), total |-> base * 24]

compute_esi(gross, eligible) ==
    IF ~eligible \/ gross > 21000 THEN [employee |-> 0, employer |-> 0]
    ELSE [employee |-> Round(gross * 75, 100), employer |-> Round(gross * 325, 100)]

(* The slabs seeded in statutory_rates.                                     *)
PtSlabs == [s \in {"27", "29"} |->
    IF s = "27" THEN {<<0, 7500, 0>>, <<7501, 10000, 175>>, <<10001, 99999999, 200>>}
    ELSE {<<0, 14999, 0>>, <<15000, 24999, 150>>, <<25000, 99999999, 200>>}]
compute_professional_tax(gross, state) ==
    IF state \notin DOMAIN PtSlabs THEN 0
    ELSE SumFunctionOnSet([s \in PtSlabs[state] |-> 100 * s[3]],
                          {s \in PtSlabs[state] : gross \in s[1] .. s[2]})

TaxSlabs == <<[from |-> 0, to |-> 400000, rate |-> 0],
              [from |-> 400001, to |-> 800000, rate |-> 5],
              [from |-> 800001, to |-> 1200000, rate |-> 10],
              [from |-> 1200001, to |-> 1600000, rate |-> 15],
              [from |-> 1600001, to |-> 2000000, rate |-> 20],
              [from |-> 2000001, to |-> 2400000, rate |-> 25],
              [from |-> 2400001, to |-> LastSlabTo, rate |-> 30]>>
LesserOf(a, b) == IF a < b THEN a ELSE b

WidthFromZero(s) == s.to - s.from    \* Mutant
Width(s) == s.to - s.from + 1
(* The loop of compute_income_tax_tds: each slab takes what it has room for. *)
Taxed(acc, s) ==
    LET part == LesserOf(acc.left, Width(s))
    IN  IF acc.left <= 0 THEN acc
        ELSE [left |-> acc.left - part, tax |-> acc.tax + part * s.rate]
SlabTax(income) ==
    LET after[n \in 0 .. Len(TaxSlabs)] ==
            IF n = 0 THEN [left |-> income, tax |-> 0] ELSE Taxed(after[n - 1], TaxSlabs[n])
    IN  after[Len(TaxSlabs)].tax
Rebate(income, regime) == IF regime = "NEW" /\ income <= 700000 THEN 2500000 ELSE 0
compute_income_tax_tds(income, regime) ==
    LET tax == SlabTax(income) - LesserOf(SlabTax(income), Rebate(income, regime))
    IN  Round(tax + Round(tax * 4, 100), 12)

-----------------------------------------------------------------------------
(* computeEmployeePay.  The pension part of the employer's fund is computed *)
(* and not kept; the income tax forgets the months before.                  *)
Voluntary(heads, gross) ==
    SumFunctionOnSet([h \in heads |-> IF h.percent THEN h.rate * gross ELSE 100 * h.rate],
                     {h \in heads : h.type = "DEDUCTION"})
computeEmployeePay(heads, lost, terms) ==
    LET gross == Gross(heads, lost)
        pf == compute_pf(BasicWage(heads, lost), terms.pf)
        esi == compute_esi(gross, terms.esi)
        pt == IF terms.pt = "none" THEN 0 ELSE compute_professional_tax(gross, terms.pt)
        tds == compute_income_tax_tds(gross * 12 - terms.declared, terms.regime)
        all == pf.employee + esi.employee + pt + tds + Voluntary(heads, gross)
    IN  [gross |-> 100 * gross, pf |-> pf.employee, employerPf |-> pf.employer,
         esi |-> esi.employee, employerEsi |-> esi.employer, pt |-> pt, tds |-> tds,
         other |-> Voluntary(heads, gross), deducted |-> all,
         net |-> IF 100 * gross > all THEN 100 * gross - all ELSE 0]

Part == {"gross", "pf", "employerPf", "esi", "employerEsi", "pt", "tds", "other", "deducted", "net"}

(* The lines trg_payroll_generate_journal writes for the sums of details.   *)
Debited(s) == <<s.gross, s.employerPf, s.employerEsi>>
Credited(s) == <<s.net, s.pf + s.employerPf, s.esi + s.employerEsi, s.pt, s.tds>>
TotalOf(lines) == SumFunctionOnSet(lines, DOMAIN lines)

VARIABLE slip
payslipVars == slip
BlankSlip == [kind |-> "none"]
PayslipInit == slip = BlankSlip
PayslipNext ==
    /\ slip = BlankSlip
    /\ \E heads \in Contracts, lost \in Absence, terms \in Terms :
          slip' = [kind |-> "slip", heads |-> heads, lost |-> lost, terms |-> terms,
                   pay |-> computeEmployeePay(heads, lost, terms)]
PayslipSpec == PayslipInit /\ [][PayslipNext]_payslipVars

-----------------------------------------------------------------------------
(* Income tax: thresholds and the rate above each, as marginal rates.       *)
Marginal == <<<<400000, 5>>, <<800000, 5>>, <<1200000, 5>>, <<1600000, 5>>,
              <<2000000, 5>>, <<2400000, 5>>>>
MarginalTax(income) ==
    TotalOf([i \in DOMAIN Marginal |->
                IF income > Marginal[i][1] THEN (income - Marginal[i][1]) * Marginal[i][2] ELSE 0])
Income == 12 * (slip.pay.gross \div 100) - slip.terms.declared

(* The loop over slabs charges what the rates say, each on the income above *)
(* its threshold: the first slab is a rupee wider than the others, which    *)
(* costs at most the highest rate of one rupee.  Above the last slab, ten    *)
(* thousand million rupees as seeded, nothing more is charged.              *)
IncomeTaxIsMarginal ==
    slip.kind = "slip" /\ Income <= LastSlabTo + 1 => MarginalTax(Income) - SlabTax(Income) \in 0 .. 30

(* The parts of a provident fund payment, each rounded by itself, add up to *)
(* the remittance computed from the summed rate, to the paisa.              *)
FundAddsUp ==
    slip.kind = "slip" =>
        LET f == compute_pf(BasicWage(slip.heads, slip.lost), slip.terms.pf)
        IN  f.employee + f.employer + f.pension - f.total \in -1 .. 1

(* A payslip that deducts no more than was earned makes a journal that      *)
(* balances exactly when no deduction is voluntary: the trigger writes no   *)
(* line for loans and advances.                                             *)
PayslipBalances ==
    slip.kind = "slip" /\ slip.pay.deducted <= slip.pay.gross =>
        (TotalOf(Debited(slip.pay)) = TotalOf(Credited(slip.pay)) <=> slip.pay.other = 0)

(* Who is away half of a period earns half of each head, within a rupee for *)
(* every head.  More days can be marked than a period has: pay is negative  *)
(* then, by the same rule, within what the days lost are of a period.       *)
PayFollowsAttendance ==
    slip.kind = "slip" =>
        LET full == Gross(slip.heads, 0)
            most == IF slip.lost > 2 * Working THEN slip.lost ELSE 2 * Working
            room == most * Cardinality(Earnings(slip.heads))
        IN  2 * Working * (slip.pay.gross \div 100) - full * (2 * Working - slip.lost) \in -room .. 2 * room

(* A pay slip's tax, fund, lost days and journal agree with what the rates  *)
(* say, to the roundings the code makes.                                    *)
PayslipAddsUp ==
    /\ IncomeTaxIsMarginal
    /\ FundAddsUp
    /\ PayslipBalances
    /\ PayFollowsAttendance
=============================================================================

----------------------------- MODULE MCOffice -----------------------------
(***************************************************************************)
(* Payroll runs, bills, cost allocations, TDS, provisions and the pool of   *)
(* database clients: three or four overlapping calls each; pay slips over   *)
(* bounded inputs.  They share no state: focus is the one a behaviour is    *)
(* about, the others keep the first of their values.  Only the pool's       *)
(* callers have fairness.                                                   *)
(***************************************************************************)
EXTENDS Payroll, Bills, Costs, Tds, Provisions, ConnectionPool, TLC
CONSTANTS p1, p2, p3, p4

H(name, rate) == [name |-> name, type |-> "EARNING", rate |-> rate, percent |-> FALSE, of |-> "none"]
Percent(name, rate, of) == [name |-> name, type |-> "EARNING", rate |-> rate, percent |-> TRUE, of |-> of]
Loan(rate, percent) == [name |-> "LOAN", type |-> "DEDUCTION", rate |-> rate, percent |-> percent, of |-> "none"]

Low == {H("BASIC", 9001), Percent("DA", 15, "BASIC"), Percent("HRA", 40, "DA"), H("OTHER", 9000)}
High == {H("BASIC", 60000), Percent("HRA", 50, "BASIC"), H("SPECIAL_ALLOWANCE", 47777)}
Raised == {H("BASIC", 70000), Percent("HRA", 50, "BASIC")}
Bonus == {H("BONUS", 5000)}
MCContracts == {Low, High, Raised, Bonus, Low \cup {Loan(500, FALSE)}, High \cup {Loan(10, TRUE)}}
               \cup {{H("BASIC", n)} : n \in {0, 1, 14999, 15000, 15001, 33333, 58333, 58334, 66667,
                                              100001, 133333, 166667, 200001, 250000}}
MCPayHead == UNION MCContracts
MCTerms == [pf : BOOLEAN, esi : BOOLEAN, pt : {"none", "27", "29"}, regime : {"NEW", "OLD"},
            declared : {0, 7}]
MCTermsOf == [e \in 1 .. 3 |-> [pf |-> TRUE, esi |-> TRUE, pt |-> "29", regime |-> "NEW", declared |-> 0]]
MCStaff == (1 :> Low) @@ (2 :> High)

PRun == [kind |-> "run"]
PApprove == [kind |-> "approve"]
Attend(m) == [kind |-> "attend", entries |-> m]
SetTo(e, hs) == [kind |-> "structure", emp |-> e, heads |-> hs]
PCalls(a, b, c) == (p1 :> a) @@ (p2 :> b) @@ (p3 :> c)
MCPaySettings == {
    PCalls(PRun, PRun, PApprove),
    PCalls(PRun, PApprove, PApprove),
    (p4 :> PRun) @@ PCalls(PRun, Attend({[emp |-> 1, date |-> 1, lost |-> 1], [emp |-> 2, date |-> 1, lost |-> 2]}), PApprove),
    PCalls(PRun, [kind |-> "hire", emp |-> 3], PRun),
    PCalls(SetTo(2, Raised), SetTo(2, Bonus), PRun),
    PCalls(SetTo(2, Raised), SetTo(2, High), Attend({[emp |-> 3, date |-> 1, lost |-> 2]}))}
    \cup {PCalls(SetTo(1, {Loan(500, FALSE)}), PRun, PApprove)}

Ask(kind, bill, amount) == [kind |-> kind, bill |-> bill, amount |-> amount]
MCOldBills == <<BillRow("NEW_REF", 60, "PENDING"), BillRow("ADVANCE", 50, "ADVANCE_PENDING")>>
MCBillSettings == {
    PCalls(Ask("adjust", 1, 20), Ask("adjust", 1, 40), Ask("adjust", 1, 30)),
    PCalls(Ask("consume", 2, 30), Ask("consume", 2, 30), Ask("consume", 2, 50)),
    PCalls(Ask("adjust", 1, 20), Ask("bill", 0, 45), Ask("adjust", 3, 45)),
    PCalls(Ask("bill", 0, 30), Ask("bill", 0, 40), Ask("consume", 2, 70)),
    PCalls(Ask("adjust", 1, 20), Ask("bill", 0, 55), Ask("adjust", 1, 40)),
    PCalls(Ask("advance", 0, 10), Ask("consume", 3, 4), Ask("adjust", 2, 5))
    @@ (p4 :> Ask("consume", 1, 5))}

Thirds == <<3333, 3333, 3334>>
MCSplits == {Thirds, <<10000>>, <<5000, 5000>>, <<1250, 6250, 2500>>, <<3333, 3333, 3333>>,
             <<2500, 2500, 2500, 2501>>, <<5000, 4000>>}
SetOf(shares) == [kind |-> "set", shares |-> shares]
Auto == [kind |-> "auto"]
Cost(posted, calls) == [entry |-> 10001, split |-> Thirds, posted |-> posted, calls |-> calls]
MCCostSettings ==
    {Cost(posted, calls) : posted \in BOOLEAN, calls \in {
        PCalls(SetOf(<<10001>>), SetOf(<<5000, 5000>>), SetOf(<<2500, 2500, 5003>>)),
        PCalls(SetOf(<<15001, -5000>>), SetOf(<<5000, 5004>>), SetOf(<<10001>>)),
        PCalls(Auto, SetOf(<<10001>>), Auto)}}
    \cup {[entry |-> n, split |-> s, posted |-> FALSE, calls |-> (p1 :> Auto)] :
              n \in {1, 2, 99, 100, 101, 10000, 10001, 99999}, s \in MCSplits}

Section(single, aggregate, surcharge) ==
    [single |-> single, aggregate |-> aggregate, default |-> 1000, special |-> 200, lower |-> 50,
     surcharge |-> surcharge, cess |-> 400]
Deduct(gross, taxable) == [kind |-> "deduct", gross |-> gross, taxable |-> taxable]
Of(amount) == Deduct(amount, amount)
Deposit(serial, total) == [kind |-> "deposit", serial |-> serial, total |-> total]
TdsOf(section, pan, cert, calls) ==
    {[serial |-> b, section |-> section, rated |-> TRUE, pan |-> pan, cert |-> cert, calls |-> calls,
      received |-> 0, invoice |-> 1] : b \in BOOLEAN}
MCTdsSettings == UNION {
    TdsOf(Section(3000, 10000, 0), "company", "none", PCalls(Of(5000), Of(5000), Of(8000)) @@ (p4 :> Of(3000))),
    TdsOf(Section(0, 6000, 1200), "missing", "none", PCalls(Of(5000), Of(5000), Deduct(5900, 5000))),
    TdsOf(Section(0, 6000, 0), "company", "nil", PCalls(Of(5000), Of(5000), Of(5000))),
    TdsOf(Section(0, 0, 0), "company", "lower", PCalls(Of(5000), Of(7000), Deposit(1, 60)) @@ (p4 :> Deposit(2, 60))),
    TdsOf(Section(0, 0, 0), "other", "none", PCalls(Of(5000), Deposit(1, 104), Deposit(1, 104))),
    {[s EXCEPT !.rated = FALSE] :
        s \in TdsOf(Section(3000, 10000, 0), "company", "none", PCalls(Of(5000), Of(8000), Of(3000)))},
    {[serial |-> TRUE, section |-> Section(0, 0, 0), rated |-> TRUE, pan |-> "other", cert |-> "none", calls |-> <<>>,
      received |-> before, invoice |-> amount] :
        before \in {0, 4999999, 5000000, 5000001, 4000050, 6000000},
        amount \in {1, 4, 5, 1000000, 999999, 5000000, 5000006}}}

Nightly(date) == [kind |-> "provision", date |-> date]
Convert(kind, row) == [kind |-> kind, row |-> row]
Pay(bill, amount) == [kind |-> "pay", bill |-> bill, amount |-> amount]
Forecast(lines) == [kind |-> "add", lines |-> lines]
Books(vouchers, calls) ==
    [bills |-> <<[due |-> 0, pending |-> 36500], [due |-> 10, pending |-> 100]>>,
     config |-> [grace |-> 3, rate |-> 18], vouchers |-> vouchers, calls |-> calls]
MCProvSettings == {
    Books(<<>>, PCalls(Nightly(20), Nightly(20), Convert("post", 1)) @@ (p4 :> Pay(1, 36500))),
    Books(<<>>, PCalls(Nightly(20), Convert("post", 1), Convert("post", 1)) @@ (p4 :> Nightly(12))),
    Books(<<<<100, -100>>>>, PCalls(Convert("promote", 1), Convert("promote", 1), Forecast(<<1004, 1004, -2008>>))
                             @@ (p4 :> Convert("promote", 2))),
    Books(<<>>, PCalls(Forecast(<<1006, -1000>>), Forecast(<<505, -505>>), Convert("promote", 1)))}

Party(kind, own, token, of, chunk) == [kind |-> kind, own |-> own, token |-> token, sweep |-> of, chunk |-> chunk]
ASweep == Party("sweep", 0, FALSE, p1, 0)
AnItem(chunk) == Party("item", 0, TRUE, p1, chunk)
ARequest(own, token) == Party("request", own, token, p1, 0)
Pool(max, role) == [max |-> max, role |-> role]
Sweeping(max, last) == Pool(max, (p1 :> ASweep) @@ (p2 :> AnItem(1)) @@ (p3 :> AnItem(1)) @@ (p4 :> last))
MCPoolSettings == {
    Sweeping(2, AnItem(2)), Sweeping(3, ARequest(1, FALSE)),
    Pool(3, PCalls(ASweep, AnItem(1), AnItem(1))),
    Pool(2, PCalls(ARequest(1, TRUE), ARequest(2, TRUE), ARequest(0, FALSE)))}

VARIABLE focus
Suites == {"payroll", "payslip", "bills", "costs", "tds", "provisions", "pool"}
Only(f, holds) == focus # f => holds
Init ==
    /\ focus \in Suites /\ PayslipInit
    /\ PayrollInit /\ Only("payroll", payAsked = PCalls(PRun, PRun, PApprove))
    /\ BillInit
    /\ Only("bills", billAsked = PCalls(Ask("adjust", 1, 20), Ask("adjust", 1, 40), Ask("adjust", 1, 30)))
    /\ CostInit /\ Only("costs", costAsked.entry = 1 /\ costAsked.split = Thirds)
    /\ ProvInit /\ Only("provisions", provAsked.vouchers = <<<<100, -100>>>>)
    /\ PoolInit /\ Only("pool", poolAsked.max = 2 /\ p4 \notin DOMAIN poolAsked.role)
    /\ TdsInit /\ Only("tds", tdsAsked.serial /\ tdsAsked.cert = "nil")
others == <<payrollVars, payslipVars, billVars, costVars, tdsVars, provVars>>
vars == <<others, poolVars, focus>>
InPool(A) == focus = "pool" /\ A /\ UNCHANGED <<others, focus>>
Next ==
    \/ /\ \/ /\ focus = "payroll" /\ PayrollNext
             /\ UNCHANGED <<payslipVars, billVars, costVars, tdsVars, provVars>>
          \/ /\ focus = "payslip" /\ PayslipNext
             /\ UNCHANGED <<payrollVars, billVars, costVars, tdsVars, provVars>>
          \/ /\ focus = "bills" /\ BillNext
             /\ UNCHANGED <<payrollVars, payslipVars, costVars, tdsVars, provVars>>
          \/ /\ focus = "costs" /\ CostNext
             /\ UNCHANGED <<payrollVars, payslipVars, billVars, tdsVars, provVars>>
          \/ /\ focus = "tds" /\ TdsNext
             /\ UNCHANGED <<payrollVars, payslipVars, billVars, costVars, provVars>>
          \/ /\ focus = "provisions" /\ ProvNext
             /\ UNCHANGED <<payrollVars, payslipVars, billVars, costVars, tdsVars>>
       /\ UNCHANGED <<poolVars, focus>>
    \/ InPool(PoolNext)
(* A caller takes its next step, pg-pool hands on a client that is free and *)
(* fires its timers, Promise.allSettled starts every item of a chunk, and a *)
(* drained pool resolves end().  Nobody need come, no token need expire, no *)
(* connection break and no signal arrive.                                   *)
Spec ==
    /\ Init /\ [][Next]_vars
    /\ WF_vars(InPool(Serve)) /\ WF_vars(InPool(Drained))
    /\ \A c \in {p1, p2, p3, p4} :
        /\ WF_vars(InPool(c \in Running /\ CallerStep(c)))
        /\ WF_vars(InPool(c \in Running /\ TimesOut(c)))
        /\ WF_vars(InPool(c \in Running /\ ItemStarts(c)))
=============================================================================

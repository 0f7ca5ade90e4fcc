----------------------------- MODULE Provisions -----------------------------
(***************************************************************************)
(* What is first provisional and later posted (src/src/budget,              *)
(* src/budget_interest_schema.sql): interest on overdue bills, and the      *)
(* vouchers of a scenario.  Each call is one transaction.                   *)
(*                                                                         *)
(* Lines of a scenario are in tenths of a paisa, a digit more than their    *)
(* columns store; interest and bills are in paise.  Interest is simple      *)
(* interest, rounded once; the compound formula takes fractional powers.    *)
(* As committed provision_overdue_interest names columns that are also its  *)
(* results and fails on the first overdue bill, and both postings write a   *)
(* company number into tenant_id, a UUID: they are modelled as meant.       *)
(***************************************************************************)
EXTENDS Integers, Sequences, FiniteSetsExt, SequencesExt

CONSTANTS
    ProvCall,       \* calls of the services
    ProvSettings,   \* bills (due day, pending), config, scenario vouchers and calls
    DaysInYear      \* 360 or 365, by the config's style

Asks ==
    [kind : {"provision"}, date : Int] \cup [kind : {"post", "promote"}, row : Nat]
    \cup [kind : {"pay"}, bill : Nat, amount : Int] \cup [kind : {"add"}, lines : Seq(Int)]

ASSUME ProvisionAssumption ==
    /\ DaysInYear \in {360, 365, 366}
    /\ \A s \in ProvSettings :
        /\ s.bills \in Seq([due : Int, pending : Int]) /\ s.config \in [grace : Int, rate : Int]
        /\ s.vouchers \in Seq(Seq(Int))
        /\ DOMAIN s.calls \subseteq ProvCall /\ \A c \in DOMAIN s.calls : s.calls[c] \in Asks

VARIABLES
    provAsked,      \* the setting of this behaviour
    provStep,       \* provStep[c]: "start", "scanning", "locked", "done" or "refused"
    provSeen,       \* provSeen[c]: what call c read or is about to commit
    pending,        \* pending[b]: bill_references.pending_amount
    provisions,     \* interest_provisions: committed rows
    scenarios,      \* scenario_vouchers with their entries: committed rows
    converted          \* the transactions posted: source, provision or voucher, lines

provVars == <<provAsked, provStep, provSeen, pending, provisions, scenarios, converted>>
provTables == <<pending, provisions, scenarios, converted>>

ProvInit ==
    /\ provAsked \in ProvSettings
    /\ provStep = [c \in ProvCall |-> "start"] /\ provSeen = [c \in ProvCall |-> <<>>]
    /\ pending = [b \in DOMAIN provAsked.bills |-> provAsked.bills[b].pending]
    /\ provisions = <<>> /\ converted = <<>>
    /\ scenarios = [n \in DOMAIN provAsked.vouchers |-> [lines |-> provAsked.vouchers[n], txn |-> 0]]

Called(c) == provAsked.calls[c]
ProvIs(c, kind, at) == c \in DOMAIN provAsked.calls /\ Called(c).kind = kind /\ provStep[c] = at
ProvEnd(c, how) ==
    provStep' = [provStep EXCEPT ![c] = how] /\ provSeen' = [provSeen EXCEPT ![c] = <<>>]
ProvHas(c, where, what) ==
    provStep' = [provStep EXCEPT ![c] = where] /\ provSeen' = [provSeen EXCEPT ![c] = what]

-----------------------------------------------------------------------------
(* provision_overdue_interest: a cursor over the overdue bills as they were *)
(* when it was opened, by due date and in no order among equals; each is    *)
(* looked up and inserted in turn.                                          *)
DaysOver(b, date) == date - provAsked.bills[b].due - provAsked.config.grace
Overdue(date) == {b \in DOMAIN pending : pending[b] > 0 /\ DaysOver(b, date) > 0}
calculate_interest(principal, days) ==
    (2 * principal * provAsked.config.rate * days + 100 * DaysInYear) \div (200 * DaysInYear)

Scan(c) ==
    /\ ProvIs(c, "provision", "start")
    /\ ProvHas(c, "scanning", [left |-> Overdue(Called(c).date), pending |-> pending, new |-> <<>>])
    /\ UNCHANGED <<provAsked, provTables>>

Provisioned(b, date) ==
    \E n \in DOMAIN provisions :
        provisions[n].bill = b /\ provisions[n].date = date /\ provisions[n].txn = 0
Earliest(bs) == {b \in bs : \A d \in bs : provAsked.bills[b].due <= provAsked.bills[d].due}
Provision(c, b) == LET seen == provSeen[c] days == DaysOver(b, Called(c).date) IN
    [bill |-> b, date |-> Called(c).date, principal |-> seen.pending[b], txn |-> 0,
     interest |-> calculate_interest(seen.pending[b], days), saw |-> Len(provisions)]
ProvideBill(c) ==
    /\ ProvIs(c, "provision", "scanning") /\ provSeen[c].left # {}
    /\ \E b \in Earliest(provSeen[c].left) :
        LET seen == [provSeen[c] EXCEPT !.left = @ \ {b}]
        IN  ProvHas(c, "scanning",
                IF Provisioned(b, Called(c).date) THEN seen
                ELSE [seen EXCEPT !.new = Append(@, Provision(c, b))])
    /\ UNCHANGED <<provAsked, provTables>>
CommitProvisions(c) ==
    /\ ProvIs(c, "provision", "scanning") /\ provSeen[c].left = {}
    /\ provisions' = provisions \o provSeen[c].new
    /\ ProvEnd(c, "done") /\ UNCHANGED <<provAsked, pending, scenarios, converted>>

SameRow(kind, c, d) ==
    IF kind = "promote" THEN Called(c).row = Called(d).row
    ELSE provisions[Called(c).row].bill = provisions[Called(d).row].bill

(* A payment of the bill beside it (adjustBill, module Bills): it waits for *)
(* a posting that joined the bill to its provision.                         *)
PayBill(c) ==
    /\ ProvIs(c, "pay", "start") /\ Called(c).amount <= pending[Called(c).bill]
    /\ ~\E d \in DOMAIN provAsked.calls :
          ProvIs(d, "post", "locked") /\ provisions[Called(d).row].bill = Called(c).bill
    /\ pending' = [pending EXCEPT ![Called(c).bill] = @ - Called(c).amount]
    /\ ProvEnd(c, "done") /\ UNCHANGED <<provAsked, provisions, scenarios, converted>>

-----------------------------------------------------------------------------
(* SELECT ... WHERE not yet posted FOR UPDATE: waits for who holds the row, *)
(* or the provision's bill that is joined to it, and then looks again.      *)
Held(c, kind) == {d \in DOMAIN provAsked.calls \ {c} : ProvIs(d, kind, "locked") /\ SameRow(kind, c, d)}
Unposted(c) == Called(c).row \in DOMAIN provisions /\ provisions[Called(c).row].txn = 0
Unpromoted(c) == Called(c).row \in DOMAIN scenarios /\ scenarios[Called(c).row].txn = 0

(* Mutant: SELECT without FOR UPDATE.                                       *)
ReadProvision(c) ==
    /\ ProvIs(c, "post", "start") /\ Unposted(c)
    /\ ProvHas(c, "locked", <<>>) /\ UNCHANGED <<provAsked, provTables>>
LockProvision(c) ==
    /\ ProvIs(c, "post", "start") /\ Unposted(c) /\ Held(c, "post") = {}
    /\ ProvHas(c, "locked", <<>>) /\ UNCHANGED <<provAsked, provTables>>
LockVoucher(c) ==
    /\ ProvIs(c, "promote", "start") /\ Unpromoted(c) /\ Held(c, "promote") = {}
    /\ ProvHas(c, "locked", scenarios[Called(c).row].lines) /\ UNCHANGED <<provAsked, provTables>>
AlreadyDone(c) ==
    /\ \/ ProvIs(c, "post", "start") /\ ~Unposted(c) /\ Held(c, "post") = {}
       \/ ProvIs(c, "promote", "start") /\ ~Unpromoted(c)
    /\ ProvEnd(c, "refused") /\ UNCHANGED <<provAsked, provTables>>

(* Lines are a debit when positive.  No line may be zero (chk_one_side) and *)
(* the lines of a transaction balance when it commits.                      *)
Total(lines) == FoldLeft(+, 0, lines)
AnyLines(lines) == \A n \in DOMAIN lines : lines[n] # 0
CanBook(lines) == AnyLines(lines) /\ Total(lines) = 0
Post(source, row, lines) == converted' = Append(converted, [source |-> source, row |-> row, lines |-> lines])

postProvision(c) ==
    /\ ProvIs(c, "post", "locked")
    /\ LET row == provisions[Called(c).row] IN
        /\ CanBook(<<row.interest, -row.interest>>)
        /\ Post("interest", Called(c).row, <<row.interest, -row.interest>>)
    /\ provisions' = [provisions EXCEPT ![Called(c).row].txn = Len(converted) + 1]
    /\ ProvEnd(c, "done") /\ UNCHANGED <<provAsked, pending, scenarios>>
promoteToActual(c) ==
    /\ ProvIs(c, "promote", "locked") /\ CanBook(provSeen[c])
    /\ Post("scenario", Called(c).row, provSeen[c])
    /\ scenarios' = [scenarios EXCEPT ![Called(c).row].txn = Len(converted) + 1]
    /\ ProvEnd(c, "done") /\ UNCHANGED <<provAsked, pending, provisions>>

(* addVoucher compares the sums as given, within half a paisa; the columns  *)
(* round each line.                                                         *)
Stored(n) == IF n < 0 THEN -((5 - n) \div 10) ELSE (n + 5) \div 10
StoredLines(lines) == [n \in DOMAIN lines |-> Stored(lines[n])]
OutOfBalance(lines) == Total(lines) > 5 \/ Total(lines) < -5
addVoucher(c) ==
    /\ ProvIs(c, "add", "start")
    /\ IF OutOfBalance(Called(c).lines) \/ ~AnyLines(StoredLines(Called(c).lines))
       THEN ProvEnd(c, "refused") /\ UNCHANGED provTables
       ELSE /\ scenarios' = Append(scenarios, [lines |-> StoredLines(Called(c).lines), txn |-> 0])
            /\ ProvEnd(c, "done") /\ UNCHANGED <<pending, provisions, converted>>
    /\ UNCHANGED provAsked

ProvFail(c) ==
    /\ c \in DOMAIN provAsked.calls /\ provStep[c] \in {"start", "scanning", "locked"}
    /\ ProvEnd(c, "refused") /\ UNCHANGED <<provAsked, provTables>>

ProvNext == \E c \in ProvCall :
    \/ Scan(c) \/ ProvideBill(c) \/ CommitProvisions(c) \/ PayBill(c)
    \/ LockProvision(c) \/ LockVoucher(c) \/ AlreadyDone(c)
    \/ postProvision(c) \/ promoteToActual(c) \/ addVoucher(c) \/ ProvFail(c)
ProvSpec == ProvInit /\ [][ProvNext]_provVars

-----------------------------------------------------------------------------
PostedFrom(source, row) == {t \in DOMAIN converted : converted[t].source = source /\ converted[t].row = row}

(* However calls for one provision or one voucher race, it becomes one      *)
(* transaction, the one its row names, and none before its row says so.     *)
ConvertedOnce ==
    /\ \A n \in DOMAIN provisions : PostedFrom("interest", n) = {provisions[n].txn} \ {0}
    /\ \A n \in DOMAIN scenarios : PostedFrom("scenario", n) = {scenarios[n].txn} \ {0}

(* Running the provisioning again on one day makes no second provision of a *)
(* bill beside one that waits to be posted, unless the runs overlapped and  *)
(* the later one could not see the row.  (Once it is posted, it does.)      *)
ProvisionedOnceADay ==
    \A m, n \in DOMAIN provisions :
        /\ m < n /\ provisions[m].bill = provisions[n].bill /\ provisions[m].date = provisions[n].date
        /\ provisions[m].txn = 0
        => provisions[n].saw < m

(* A scenario's lines may come out of balance when they are stored; none of *)
(* those reaches the books: every transaction made of a provision or a      *)
(* voucher balances.                                                        *)
ForecastsStayOut ==
    \A t \in DOMAIN converted : Total(converted[t].lines) = 0

(* What is provisional reaches the books once and balanced, and is made     *)
(* once a day.                                                              *)
ProvisionalIsPostedOnce ==
    /\ ConvertedOnce
    /\ ProvisionedOnceADay
    /\ ForecastsStayOut
=============================================================================

------------------------------ MODULE MCLedger ------------------------------
(***************************************************************************)
(* Small instances of Ledger.  Company 1 has a bank (4), a customer (5), a  *)
(* liability for output tax (6), rent (7) and a sales account (9); company  *)
(* 2 a customer (15) and a sales account (19).  Sales and tax start with a  *)
(* small debit balance (returns of the year before), so that some sales     *)
(* pass validateBalances and two of them compete for what is left.          *)
(*                                                                         *)
(* Requests are named by strings, so a record is a function on requests.    *)
(* The journal lines are written out: TLC evaluates them in every state,    *)
(* and the assumptions at the end say that they are what the strategies of  *)
(* Vouchers make of the payloads.                                           *)
(***************************************************************************)
EXTENDS Ledger, TLC

Acc(company, code, type) ==
    [company |-> company, code |-> code, type |-> type, active |-> TRUE]

MCChart ==
    4  :> Acc(1, "1111", "Asset")     @@ 5  :> Acc(1, "1200", "Asset") @@
    6  :> Acc(1, "2100", "Liability") @@ 7  :> Acc(1, "4100", "Expense") @@
    9  :> Acc(1, "3100", "Income")    @@
    15 :> Acc(2, "1200", "Asset")     @@ 19 :> Acc(2, "3100", "Income")

V == INSTANCE Vouchers WITH Chart <- MCChart

MCOwner ==
    [a \in Account |-> IF a \in {4, 5, 6, 7, 9} THEN 1
                       ELSE IF a \in {15, 19} THEN 2
                       ELSE NoTenant]

FirstYear == CHOOSE y \in Year : \A z \in Year : y <= z
OpeningRow(line, a, debit, credit) ==
    [txn |-> 0, line |-> line, account |-> a, year |-> FirstYear,
     debit |-> debit, credit |-> credit]
Books ==
    {OpeningRow(1, 9, 3, 0), OpeningRow(2, 6, 2, 0), OpeningRow(3, 5, 0, 5),
     OpeningRow(4, 19, 3, 0), OpeningRow(5, 15, 0, 3),
     OpeningRow(6, 4, 8, 0), OpeningRow(7, 7, 0, 8)}
MCOpening == {e \in Books : e.account \in Account}
MCOpeningBalance ==
    [b \in BalanceRow |->
        LET rows == {e \in MCOpening : e.account = b[1] /\ e.year = b[2]}
        IN  [debits |-> Debits(rows), credits |-> Credits(rows)]]

Call(key, tenant) == [key |-> key, tenant |-> tenant, year |-> 2025]

Dr(a, amount) == [account |-> a, from |-> "payload", debit |-> amount, credit |-> 0]
Cr(a, amount) == [account |-> a, from |-> "payload", debit |-> 0, credit |-> amount]
CrRow(a, amount) == [account |-> a, from |-> "row", debit |-> 0, credit |-> amount]
Made(lines) == [ok |-> TRUE, lines |-> lines]

(* A sale, its retry, another sale that competes for the sales account and  *)
(* a receipt from an account that does not exist.                           *)
ContentionCalls ==
    [sale |-> Call("k1", 1), retry |-> Call("k1", 1), other |-> Call("k2", 1),
     foreign |-> Call("k2", 1)]
ContentionLines ==
    [sale  |-> Made(<<Dr(5, 20), CrRow(9, 10), CrRow(6, 10)>>),
     retry |-> Made(<<Dr(5, 20), CrRow(9, 10), CrRow(6, 10)>>),
     other |-> Made(<<Dr(5, 25), CrRow(9, 25)>>),
     foreign |-> Made(<<Dr(5, 10), Cr(99, 10)>>)]

(* The same key used by two companies, a sale whose total is not the sum of *)
(* its parts, a sale whose tax is less than half a paisa: stored as zero,   *)
(* and a type no strategy is registered for.                                *)
TenantsCalls ==
    [ours |-> Call("k1", 1), theirs |-> Call("k1", 2), unbalanced |-> Call("k2", 1),
     trifle |-> Call("k2", 1), unknown |-> Call("k2", 1)]
TenantsLines ==
    [ours       |-> Made(<<Dr(5, 20), CrRow(9, 20)>>),
     theirs     |-> Made(<<Dr(15, 25), CrRow(19, 25)>>),
     unbalanced |-> Made(<<Dr(5, 40), CrRow(9, 10)>>),
     trifle     |-> Made(<<Dr(5, 14), CrRow(9, 10), CrRow(6, 4)>>),
     unknown    |-> [ok |-> FALSE, lines |-> <<>>]]

(* A payment and a purchase with input tax that compete for the bank.       *)
PaymentsCalls == [rent |-> Call("k1", 1), purchase |-> Call("k2", 1)]
PaymentsLines ==
    [rent     |-> Made(<<Dr(7, 50), Cr(4, 50)>>),
     purchase |-> Made(<<Dr(7, 30), Dr(6, 10), Cr(4, 40)>>)]

(* The requests of a run (a function is evaluated faster than a record).    *)
Taken(table) == [r \in Request |-> table[r]]
ContentionInput == Taken(ContentionCalls)
ContentionTranslated == Taken(ContentionLines)
TenantsInput == Taken(TenantsCalls)
TenantsTranslated == Taken(TenantsLines)
PaymentsInput == Taken(PaymentsCalls)
PaymentsTranslated == Taken(PaymentsLines)

Sale(customer, taxable, tax, total) ==
    [kind |-> "SALES_VOUCHER", customer |-> customer, taxable |-> taxable,
     tax |-> tax, total |-> total]
Payment(from, to, amount) ==
    [kind |-> "PAYMENT_VOUCHER", from |-> from, to |-> to, amount |-> amount]
Receipt(from, to, amount) == [Payment(from, to, amount) EXCEPT !.kind = "RECEIPT_VOUCHER"]
Purchase(expense, vendor, taxable, inputs, gross) ==
    [kind |-> "PURCHASE_INVOICE_VOUCHER", expense |-> expense, vendor |-> vendor,
     taxable |-> taxable, inputs |-> inputs, gross |-> gross]
Tax(account, amount) == [account |-> account, amount |-> amount]

ASSUME LinesAssumption ==
    /\ \A r \in {"sale", "retry"} :
          ContentionLines[r] = V!TranslateVoucher(Sale(5, 10, 10, 20), 1)
    /\ ContentionLines.other = V!TranslateVoucher(Sale(5, 25, 0, 25), 1)
    /\ TenantsLines.ours = V!TranslateVoucher(Sale(5, 20, 0, 20), 1)
    /\ TenantsLines.theirs = V!TranslateVoucher(Sale(15, 25, 0, 25), 2)
    /\ TenantsLines.unbalanced = V!TranslateVoucher(Sale(5, 10, 0, 40), 1)
    /\ PaymentsLines.rent = V!TranslateVoucher(Payment(4, 7, 50), 1)
    /\ PaymentsLines.purchase =
          V!TranslateVoucher(Purchase(7, 4, 30, <<Tax(6, 10), Tax(0, 10)>>, 40), 1)
    /\ TenantsLines.trifle = V!TranslateVoucher(Sale(5, 10, 4, 14), 1)
    /\ ContentionLines.foreign = V!TranslateVoucher(Receipt(99, 5, 10), 1)
    /\ TenantsLines.unknown = V!TranslateVoucher([kind |-> "JOURNAL_VOUCHER"], 1)

(* What NoOverdraft asks of the vouchers.                                   *)
ASSUME VouchersAssumption == OneCreditPerAccount
=============================================================================

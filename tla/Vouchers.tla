------------------------------ MODULE Vouchers ------------------------------
(***************************************************************************)
(* The voucher strategies (src/src/vouchers): what each makes of a payload. *)
(* A payload is a record with the field kind; an account field is a number, *)
(* 0 when it is missing; amounts are integers, in tenths of a paisa.  The   *)
(* accounts table is the function Chart, its domain the ids with a row.     *)
(***************************************************************************)
EXTENDS Integers, Sequences

CONSTANT Chart      \* Chart[a]: company, code, type and active of account a

Rejected == [ok |-> FALSE, lines |-> <<>>]
Accepted(ls) == [ok |-> TRUE, lines |-> ls]

DebitLine(a, amount)  ==
    [account |-> a, from |-> "payload", debit |-> amount, credit |-> 0]
CreditLine(a, amount) ==
    [account |-> a, from |-> "payload", debit |-> 0, credit |-> amount]

(* lines.filter(l => l.debit_amount > 0 || l.credit_amount > 0)             *)
NonZero(ls) == SelectSeq(ls, LAMBDA l : l.debit > 0 \/ l.credit > 0)

-----------------------------------------------------------------------------
PaymentLines(p) ==
    IF p.from = 0 \/ p.to = 0 \/ p.amount <= 0
    THEN Rejected
    ELSE Accepted(<<DebitLine(p.to, p.amount), CreditLine(p.from, p.amount)>>)

ReceiptLines(p) ==
    IF p.from = 0 \/ p.to = 0 \/ p.amount <= 0
    THEN Rejected
    ELSE Accepted(<<DebitLine(p.to, p.amount), CreditLine(p.from, p.amount)>>)

(* SELECT account_id ... ORDER BY preferred code first, account_id LIMIT 1; *)
(* 0 when no row qualifies.                                                 *)
FindAccount(company, codes, type) ==
    LET Coded == {a \in DOMAIN Chart : /\ Chart[a].company = company
                                       /\ Chart[a].active
                                       /\ Chart[a].code \in codes}
        Typed == {a \in DOMAIN Chart : /\ Chart[a].company = company
                                       /\ Chart[a].active
                                       /\ Chart[a].type = type}
        Least(S) == CHOOSE a \in S : \A b \in S : a <= b
    IN  IF Coded # {} THEN Least(Coded) ELSE IF Typed # {} THEN Least(Typed) ELSE 0

(* The credited accounts come from a query: their ids are the driver's.     *)
SalesLines(p, company) ==
    LET sales == FindAccount(company, {"3100"}, "Income")
        tax   == FindAccount(company, {"2115", "2116", "2117", "2100"}, "Liability")
        Queried(l) == [l EXCEPT !.from = "row"]
        base  == <<DebitLine(p.customer, p.total), Queried(CreditLine(sales, p.taxable))>>
    IN  IF \/ p.customer = 0 \/ p.taxable <= 0 \/ p.total <= 0
           \/ sales = 0
           \/ p.tax > 0 /\ tax = 0
        THEN Rejected
        ELSE Accepted(IF p.tax > 0
                      THEN Append(base, Queried(CreditLine(tax, p.tax)))
                      ELSE base)

(* inputs: the CGST, SGST, IGST and cess input accounts with their amounts; *)
(* a tax without an input account is left out.                              *)
PurchaseLines(p) ==
    LET Claimed == SelectSeq(p.inputs, LAMBDA t : t.amount > 0 /\ t.account > 0)
        taxes == [i \in 1 .. Len(Claimed) |-> DebitLine(Claimed[i].account, Claimed[i].amount)]
    IN  IF p.expense = 0 \/ p.vendor = 0 \/ p.taxable <= 0
        THEN Rejected
        ELSE Accepted(NonZero(<<DebitLine(p.expense, p.taxable)>> \o taxes
                              \o <<CreditLine(p.vendor, p.gross)>>))

(* accounts: the three expense accounts, then the five payable accounts.    *)
SalaryLines(p) ==
    IF (\E i \in 1 .. 8 : p.accounts[i] <= 0) \/ p.gross <= 0
    THEN Rejected
    ELSE Accepted(NonZero(
            <<DebitLine(p.accounts[1], p.gross),
              DebitLine(p.accounts[2], p.employerPf),
              DebitLine(p.accounts[3], p.employerEsi),
              CreditLine(p.accounts[4], p.netPay),
              CreditLine(p.accounts[5], p.employeePf + p.employerPf),
              CreditLine(p.accounts[6], p.employeeEsi + p.employerEsi),
              CreditLine(p.accounts[7], p.professionalTax),
              CreditLine(p.accounts[8], p.tds)>>))

(* VoucherFactory.resolve, then the strategy's translate.                   *)
TranslateVoucher(p, company) ==
    CASE p.kind = "PAYMENT_VOUCHER"          -> PaymentLines(p)
      [] p.kind = "RECEIPT_VOUCHER"          -> ReceiptLines(p)
      [] p.kind = "SALES_VOUCHER"            -> SalesLines(p, company)
      [] p.kind = "PURCHASE_INVOICE_VOUCHER" -> PurchaseLines(p)
      [] p.kind = "SALARY_VOUCHER"           -> SalaryLines(p)
      [] OTHER                               -> Rejected
=============================================================================

--------------------------- MODULE BankStatements ---------------------------
(***************************************************************************)
(* Bank statements and their reconciliation (src/src/banking,               *)
(* src/banking_schema.sql), for one bank account of one company.  No route  *)
(* calls the service yet: a call is taken to run in one transaction, as the *)
(* other services do.  Amounts and days are integers; a reference is a      *)
(* number, 0 when missing, whose last digit stands for its last six         *)
(* characters.  A ledger line carries the similarity, in percent, of its    *)
(* description with that of the statement.                                  *)
(***************************************************************************)
EXTENDS Integers, Sequences

CONSTANTS
    BankCall,       \* calls of the service
    BankSettings,   \* rules (the company's own or the default), ledger lines at the start, and requests
    BankLedger      \* bank_accounts.account_id

BankLine == [date : Int, ref : Int, debit : Int, credit : Int]
LedgerLine == [date : Int, ref : Int, debit : Int, credit : Int, like : Int]
BankAsks ==
    [kind : {"import"}, rows : Seq(BankLine)] \cup [kind : {"fetch"}, rows : Seq(BankLine), handle : STRING]
    \cup [kind : {"consent"}, handle : STRING] \cup [kind : {"voucher"}, entry : Nat, key : Nat, account : Nat]

(* Weights are meant to sum to 100: none is taken to be negative.           *)
ASSUME BankAssumption ==
    /\ BankLedger \in Nat \ {0}
    /\ \A s \in BankSettings :
        /\ s.rules \in [own : BOOLEAN, amount : Nat \ {0}, near : Nat, reference : Nat, description : Nat, days : Nat]
        /\ s.lines \in Seq(LedgerLine)
        /\ DOMAIN s.calls \subseteq BankCall /\ \A c \in DOMAIN s.calls : s.calls[c] \in BankAsks

VARIABLES
    bankAsked,      \* rules and requests of this behaviour
    bankStep,       \* bankStep[c]: "start", "rows", "locked", "done" or "refused"
    bankOwn,        \* bankOwn[c]: the rows call c has inserted
    bankAt,         \* bankAt[c]: the next line of its file
    statements,     \* bank_statements
    ledgerLines,    \* the lines on the bank's ledger account
    vouchers,       \* the vouchers createVoucherFromBankEntry posted
    consents        \* handles of the ACTIVE rows of aa_consents

bankTables == <<statements, ledgerLines, vouchers, consents>>
bankVars == <<bankAsked, bankStep, bankOwn, bankAt, bankTables>>

BankInit ==
    /\ bankAsked \in BankSettings
    /\ bankStep = [c \in BankCall |-> "start"]
    /\ bankOwn = [c \in BankCall |-> <<>>] /\ bankAt = [c \in BankCall |-> 1]
    /\ statements = <<>> /\ ledgerLines = bankAsked.lines /\ vouchers = <<>> /\ consents = {}

Ask(c) == bankAsked.calls[c]
BankIs(c, kind, at) == c \in DOMAIN bankAsked.calls /\ Ask(c).kind = kind /\ bankStep[c] = at
BankTo(c, where) == bankStep' = [bankStep EXCEPT ![c] = where] /\ UNCHANGED bankAsked
BankEnd(c, how) ==
    /\ BankTo(c, how) /\ bankOwn' = [bankOwn EXCEPT ![c] = <<>>]
    /\ bankAt' = [bankAt EXCEPT ![c] = 1]

-----------------------------------------------------------------------------
(* Both engines look at the lines of the bank's ledger with the amount on   *)
(* the other side, within the window.                                       *)
Rules == bankAsked.rules
Apart(row, e) == IF row.date > e.date THEN row.date - e.date ELSE e.date - row.date
Amount(row) == IF row.debit # 0 THEN row.debit ELSE row.credit
IsCandidate(row, e) ==
    /\ Apart(row, e) <= Rules.days
    /\ IF row.debit > 0 THEN e.credit = Amount(row) ELSE e.debit = Amount(row)
Candidates(row) == {i \in DOMAIN ledgerLines : IsCandidate(row, ledgerLines[i])}

Rounded(weight, percent) == (weight * percent + 50) \div 100

scoreDateProximity(apart) ==
    CASE apart = 0 -> 100 [] apart = 1 -> 85 [] apart = 2 -> 70 [] apart = 3 -> 50 [] OTHER -> 0
scoreReference(row, e) ==
    IF row.ref = 0 \/ e.ref = 0 THEN 0
    ELSE IF row.ref = e.ref THEN 100
    ELSE IF row.ref % 10 = e.ref % 10 THEN 50 ELSE 0
Score(row, e, like) ==
    Rules.amount + Rounded(Rules.near, scoreDateProximity(Apart(row, e)))
    + Rounded(Rules.reference, scoreReference(row, e)) + Rounded(Rules.description, like)

(* findCandidates: in hundredths of the most that can be had.               *)
MaxScore == Rules.amount + Rules.near + Rules.reference + Rules.description
Confidence(row, e) == (100 * Score(row, e, e.like)) \div MaxScore

(* auto_reconcile_bank_entry returns before it looks at anything when the   *)
(* company has no rule of its own; else it ends in an UPDATE, which          *)
(* PostgreSQL refuses in a function that is declared STABLE.                *)
auto_reconcile_bank_entryReturns == ~Rules.own
reconcileBatchReturns(rows) == rows = <<>> \/ auto_reconcile_bank_entryReturns

-----------------------------------------------------------------------------

(* transaction_ref = NULL is not true: a line without one is always new.    *)
SameLine(a, b) ==
    a.ref # 0 /\ a.ref = b.ref /\ a.date = b.date /\ a.debit = b.debit /\ a.credit = b.credit

Stored(line) ==
    [date |-> line.date, ref |-> line.ref, debit |-> line.debit, credit |-> line.credit,
     status |-> "PENDING", voucher |-> 0]
StartReading(c) ==
    /\ BankIs(c, "import", "start") \/ BankIs(c, "fetch", "start")
    /\ IF Ask(c).kind = "import" \/ Ask(c).handle \in consents
       THEN BankTo(c, "rows") /\ UNCHANGED <<bankOwn, bankAt>> ELSE BankEnd(c, "refused")
    /\ UNCHANGED bankTables

(* The SELECT shows what is committed and the transaction's own rows.       *)
ReadLine(c) ==
    /\ BankIs(c, "import", "rows") \/ BankIs(c, "fetch", "rows")
    /\ bankAt[c] <= Len(Ask(c).rows)
    /\ LET line == Ask(c).rows[bankAt[c]]
           seen == {statements[i] : i \in DOMAIN statements}
                   \cup {bankOwn[c][i] : i \in DOMAIN bankOwn[c]}
       IN  IF \E s \in seen : SameLine(line, s) THEN UNCHANGED bankOwn
           ELSE bankOwn' = [bankOwn EXCEPT ![c] = Append(@, Stored(line))]
    /\ bankAt' = [bankAt EXCEPT ![c] = @ + 1]
    /\ UNCHANGED <<bankAsked, bankStep, bankTables>>
ReadAll(c) == bankAt[c] > Len(Ask(c).rows)

(* The new rows stay PENDING; an error takes the import with it.            *)
importStatement(c) ==
    /\ BankIs(c, "import", "rows") /\ ReadAll(c) /\ reconcileBatchReturns(bankOwn[c])
    /\ statements' = statements \o bankOwn[c]
    /\ BankEnd(c, "done") /\ UNCHANGED <<ledgerLines, vouchers, consents>>
ImportFails(c) ==
    /\ BankIs(c, "import", "rows") /\ ReadAll(c) /\ ~reconcileBatchReturns(bankOwn[c])
    /\ BankEnd(c, "refused") /\ UNCHANGED bankTables
fetchAAStatements(c) ==
    /\ BankIs(c, "fetch", "rows") /\ ReadAll(c)
    /\ statements' = statements \o bankOwn[c]
    /\ BankEnd(c, "done") /\ UNCHANGED <<ledgerLines, vouchers, consents>>
initiateConsent(c) ==
    /\ BankIs(c, "consent", "start") /\ consents' = consents \cup {Ask(c).handle}
    /\ BankEnd(c, "done") /\ UNCHANGED <<statements, ledgerLines, vouchers>>

-----------------------------------------------------------------------------
EntryOf(c) == statements[Ask(c).entry]
Unmatched(c) == Ask(c).entry \in DOMAIN statements /\ EntryOf(c).status # "MATCHED"
EntryFree(c) == \A d \in DOMAIN bankAsked.calls \ {c} :
    bankStep[d] = "locked" => Ask(d).entry # Ask(c).entry

(* Mutant: SELECT without FOR UPDATE.                                       *)
ReadEntry(c) ==
    /\ BankIs(c, "voucher", "start")
    /\ IF Unmatched(c) THEN BankTo(c, "locked") /\ UNCHANGED <<bankOwn, bankAt>>
       ELSE BankEnd(c, "refused")
    /\ UNCHANGED bankTables

LockEntry(c) ==
    /\ BankIs(c, "voucher", "start") /\ EntryFree(c)
    /\ IF Unmatched(c) THEN BankTo(c, "locked") /\ UNCHANGED <<bankOwn, bankAt>>
       ELSE BankEnd(c, "refused")
    /\ UNCHANGED bankTables

(* The voucher type asked for gives way to the direction of the entry.      *)
Direction(row, other) ==
    IF row.debit > 0 THEN [from |-> BankLedger, to |-> other]
    ELSE [from |-> other, to |-> BankLedger]

(* TransactionManager.create: a known key returns the voucher it stands for.*)
Keyed(key) == {v \in DOMAIN vouchers : vouchers[v].key = key}
Reconciled(row, v) == [row EXCEPT !.status = "MATCHED", !.voucher = v]
OnLedger(row, debit, credit) ==
    [date |-> row.date, ref |-> row.ref, debit |-> debit, credit |-> credit, like |-> 100]
LinesOf(row, way) ==
    (IF way.to = BankLedger THEN <<OnLedger(row, Amount(row), 0)>> ELSE <<>>)
    \o (IF way.from = BankLedger THEN <<OnLedger(row, 0, Amount(row))>> ELSE <<>>)
createVoucherFromBankEntry(c) ==
    /\ BankIs(c, "voucher", "locked")
    /\ LET row == EntryOf(c)
           way == Direction(row, Ask(c).account)
           Match(v) == statements' = [statements EXCEPT ![Ask(c).entry] = Reconciled(row, v)]
       IN  \/ /\ \E v \in Keyed(Ask(c).key) : Match(v)
              /\ UNCHANGED <<ledgerLines, vouchers>>
           \/ /\ Keyed(Ask(c).key) = {} /\ Amount(row) > 0 /\ Ask(c).account # 0
              /\ Match(Len(vouchers) + 1)
              /\ vouchers' = Append(vouchers, [entry |-> Ask(c).entry, key |-> Ask(c).key, from |-> way.from,
                                               to |-> way.to, amount |-> Amount(row)])
              /\ ledgerLines' = ledgerLines \o LinesOf(row, way)
    /\ BankEnd(c, "done") /\ UNCHANGED consents

BankFail(c) ==
    /\ c \in DOMAIN bankAsked.calls /\ bankStep[c] \in {"start", "rows", "locked"}
    /\ BankEnd(c, "refused") /\ UNCHANGED bankTables

BankNext == \E c \in BankCall :
    \/ StartReading(c) \/ ReadLine(c) \/ importStatement(c) \/ ImportFails(c)
    \/ fetchAAStatements(c) \/ initiateConsent(c) \/ LockEntry(c)
    \/ createVoucherFromBankEntry(c) \/ BankFail(c)
BankSpec == BankInit /\ [][BankNext]_bankVars

-----------------------------------------------------------------------------
(* A line is left out only where the same line is already there: of a file  *)
(* or an answer that was taken in, every line is found afterwards, whatever *)
(* was imported or fetched at the same time.                                *)
Carries(row, line) == \A f \in {"date", "ref", "debit", "credit"} : row[f] = line[f]
ImportedLinesAreThere == \A c \in DOMAIN bankAsked.calls :
    bankStep[c] = "done" /\ Ask(c).kind \in {"import", "fetch"} =>
        \A i \in DOMAIN Ask(c).rows : \E s \in DOMAIN statements : Carries(statements[s], Ask(c).rows[i])

(* "Skip duplicates (same date + amount + ref for same bank account)": no   *)
(* line is there twice.  It does not hold: the check and the INSERT are two *)
(* statements, and of imports that overlap none sees the others' rows.      *)
LinesAreStoredOnce ==
    \A s, t \in DOMAIN statements : SameLine(statements[s], statements[t]) => s = t

(* However often and by whomever the voucher of an entry is asked for, one  *)
(* is posted, and the entry is matched with a posted one.                   *)
OneVoucherPerEntry ==
    /\ \A v, w \in DOMAIN vouchers : vouchers[v].entry = vouchers[w].entry => v = w
    /\ \A s \in DOMAIN statements : statements[s].voucher # 0 =>
          statements[s].status = "MATCHED" /\ statements[s].voucher \in DOMAIN vouchers

(* A voucher moves the money the way the bank did: a debit in the statement *)
(* credits the ledger of the bank, a credit debits it, by the same amount,  *)
(* and the line it leaves on the ledger is a candidate for its entry.       *)
VoucherMirrorsEntry == \A v \in DOMAIN vouchers :
    LET row == statements[vouchers[v].entry] IN
    /\ IF row.debit > 0 THEN vouchers[v].from = BankLedger ELSE vouchers[v].to = BankLedger
    /\ vouchers[v].amount \in {row.debit, row.credit} \ {0}
    /\ \E i \in Candidates(row) : Apart(row, ledgerLines[i]) = 0

(* A candidate that is nearer, or as near, with a reference and a           *)
(* description that agree as well or better, is never offered below.        *)
BetterCandidatesComeFirst == \A s \in DOMAIN statements :
    LET row == statements[s] IN \A i, j \in Candidates(row) :
        LET a == ledgerLines[i]  b == ledgerLines[j] IN
        /\ Apart(row, a) <= Apart(row, b) /\ a.like >= b.like
        /\ scoreReference(row, a) >= scoreReference(row, b)
        => Confidence(row, a) >= Confidence(row, b)

(* Every line of a statement is taken in, and mirrored by one voucher at    *)
(* most; the nearest ledger line is offered first.                          *)
StatementsAreMirrored ==
    /\ ImportedLinesAreThere
    /\ OneVoucherPerEntry
    /\ VoucherMirrorsEntry
    /\ BetterCandidatesComeFirst
=============================================================================

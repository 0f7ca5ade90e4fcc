------------------------------ MODULE Reports -------------------------------
(***************************************************************************)
(* What ReportingService and BalanceService (src/src/services) read while   *)
(* transactions are posted: the trial balance, an account's ledger and its  *)
(* snapshot.  Every query sees what is committed when it runs; a report is  *)
(* several queries.                                                         *)
(*                                                                         *)
(* How a transaction comes to be posted is Ledger's; here it writes a       *)
(* debit and a credit row and their trigger adds both to account_balances.  *)
(* A row's created_at is now(): when its transaction began, which may be    *)
(* long before it is committed.  Time is in ticks, Day of them a day; the   *)
(* last tick of a day is within its last second, after 23:59:59.            *)
(*                                                                         *)
(* Beside them rebuild_account_balances (src/reconciliation.sql) may delete *)
(* the balances and sum them again.                                         *)
(*                                                                         *)
(* Every account is an active leaf of the group that is asked for: the      *)
(* query of the leaves compares ltree <@ lquery, for which PostgreSQL has   *)
(* no operator, and is modelled as it is meant.                             *)
(***************************************************************************)
EXTENDS Integers, FiniteSets, FiniteSetsExt

CONSTANTS
    Ledgers,    \* the accounts, numbers: leaves are read in their order
    Postings,   \* the transactions: numbers from 1
    PostingOf,  \* PostingOf[p]: its debit and credit accounts, amount, year
    Questions,  \* the reports and rebuilds a run considers, one at a time
    Day,        \* ticks of a day
    LastTick    \* the clock's bound

ASSUME ReportAssumption ==
    /\ Day \in Nat /\ Day > 2 /\ LastTick \in Nat
    /\ IsFiniteSet(Ledgers) /\ Ledgers \subseteq Nat /\ IsFiniteSet(Postings)
    /\ \A p \in Postings :
          {PostingOf[p].debit, PostingOf[p].credit} \subseteq Ledgers /\ PostingOf[p].amount \in Nat
    /\ \A q \in Questions :
          \/ q.kind = "trial" /\ q.day \in Int
          \/ q.kind = "ledger" /\ {q.from, q.to} \subseteq Int
          \/ q.kind = "rebuild"

VARIABLES
    now,        \* the clock
    began,      \* began[p]: when posting p began, -1: not yet
    wrote,      \* the postings whose rows are written and not committed
    rows,       \* the committed rows of journal_entries
    totals,     \* account_balances: committed, by account and year
    asked,      \* the report or rebuild somebody asks for
    report,     \* the report that is read
    rebuild     \* how far the rebuild is

postingVars == <<began, wrote, rows>>
reportVars == <<now, postingVars, totals, asked, report, rebuild>>

NoTotals == [debit |-> 0, credit |-> 0]
NoReport == [kind |-> "none"]
NoRebuild == [stage |-> "none"]
Midnight(d) == d * Day
LastSecond(d) == d * Day + Day - 2

ReportInit ==
    /\ now = 0 /\ began = [p \in Postings |-> -1] /\ wrote = {} /\ rows = {} /\ totals = <<>>
    /\ asked \in Questions /\ report = NoReport /\ rebuild = NoRebuild
-----------------------------------------------------------------------------
Passes ==
    /\ now < LastTick /\ now' = now + 1
    /\ UNCHANGED <<postingVars, totals, asked, report, rebuild>>

BeginPosting(p) ==
    /\ began[p] = -1 /\ began' = [began EXCEPT ![p] = now]
    /\ UNCHANGED <<now, wrote, rows, totals, asked, report, rebuild>>

(* Mutant: created_at DEFAULT clock_timestamp(); the credit comes last.     *)
WhenInserted(p, side) == IF side = "debit" THEN began[p] ELSE now
CreatedAt(p, side) == began[p]
Row(p, side) == [posting |-> p, of |-> <<PostingOf[p][side], PostingOf[p].year>>,
                 created |-> CreatedAt(p, side),
                 debit |-> IF side = "debit" THEN PostingOf[p].amount ELSE 0,
                 credit |-> IF side = "credit" THEN PostingOf[p].amount ELSE 0]
RowsOf(p) == {Row(p, "debit"), Row(p, "credit")}
Touched(p) == {r.of : r \in RowsOf(p)}

SumDebits(rs) == MapThenSumSet(LAMBDA r : r.debit, rs)
SumCredits(rs) == MapThenSumSet(LAMBDA r : r.credit, rs)
Net(rs) == SumDebits(rs) - SumCredits(rs)
Summed(rs) == [debit |-> SumDebits(rs), credit |-> SumCredits(rs)]
In(rs, key) == {r \in rs : r.of = key}

(* The trigger's upsert waits for whoever has written or deleted a balance  *)
(* of the posting and not committed.                                        *)
BalancesFree(p) ==
    /\ \A q \in wrote : Touched(q) \cap Touched(p) = {}
    /\ rebuild.stage = "deleted" => Touched(p) \cap rebuild.present = {}
WritePosting(p) ==
    /\ began[p] # -1 /\ p \notin wrote /\ \A r \in rows : r.posting # p /\ BalancesFree(p)
    /\ wrote' = wrote \cup {p}
    /\ UNCHANGED <<now, began, rows, totals, asked, report, rebuild>>

(* trg_upsert_account_balance: a new row, or the old one with more.         *)
Balance(key) == IF key \in DOMAIN totals THEN totals[key] ELSE NoTotals
Upserted(key, rs) == [debit |-> Balance(key).debit + SumDebits(rs),
                      credit |-> Balance(key).credit + SumCredits(rs)]
CommitPosting(p) ==
    /\ p \in wrote /\ wrote' = wrote \ {p} /\ rows' = rows \cup RowsOf(p)
    /\ totals' = [key \in DOMAIN totals \cup Touched(p) |-> Upserted(key, In(RowsOf(p), key))]
    /\ UNCHANGED <<now, began, asked, report, rebuild>>
-----------------------------------------------------------------------------
(* rebuild_account_balances(): DELETE waits for every balance a posting has *)
(* changed, INSERT sums what is committed when it runs, in one transaction. *)
(* A balance that came since the DELETE is a duplicate key: all is undone.  *)
BeginRebuild ==
    /\ asked.kind = "rebuild" /\ rebuild.stage = "none"
    /\ rebuild' = [stage |-> "begun"]
    /\ UNCHANGED <<now, postingVars, totals, asked, report>>
DeleteBalances ==
    /\ rebuild.stage = "begun" /\ \A p \in wrote : Touched(p) \cap DOMAIN totals = {}
    /\ rebuild' = [stage |-> "deleted", present |-> DOMAIN totals]
    /\ UNCHANGED <<now, postingVars, totals, asked, report>>

InsertBalances ==
    /\ rebuild.stage = "deleted" /\ DOMAIN totals = rebuild.present
    /\ totals' = [key \in {r.of : r \in rows} |-> Summed(In(rows, key))]
    /\ rebuild' = [stage |-> "done"]
    /\ UNCHANGED <<now, postingVars, asked, report>>
RebuildFails ==
    /\ rebuild.stage = "deleted" /\ DOMAIN totals # rebuild.present
    /\ rebuild' = [stage |-> "done"]
    /\ UNCHANGED <<now, postingVars, totals, asked, report>>
-----------------------------------------------------------------------------
(* isCurrentDate: less than 24 hours from the date's midnight, either way.  *)
isCurrentDate(d) == LET gap == now - Midnight(d) IN -Day < gap /\ gap < Day

RowsOn(a) == {r \in rows : r.of[1] = a}
RowsUpTo(a, t) == {r \in RowsOn(a) : r.created <= t}

(* getAccountSnapshot, and a line of getTrialBalance: the year's balance    *)
(* when the date is current, else the sum of every row up to the date.      *)
getBalance(a, y) == Balance(<<a, y>>)
getBalanceAsOf(a, d) == Summed(RowsUpTo(a, Midnight(d)))
getAccountSnapshot(a, current) == IF current THEN getBalance(a, asked.year) ELSE getBalanceAsOf(a, asked.day)

AskTrial ==
    /\ asked.kind = "trial" /\ report = NoReport
    /\ report' = [kind |-> "trial", before |-> rows, left |-> Ledgers, lines |-> {},
                  current |-> isCurrentDate(asked.day), done |-> Ledgers = {}]
    /\ UNCHANGED <<now, postingVars, totals, asked, rebuild>>

(* The leaves are read one query after the other.                           *)
TrialLine(a, balance) == [account |-> a, debit |-> balance.debit, credit |-> balance.credit]
ReadLeaf ==
    /\ report.kind = "trial" /\ ~report.done
    /\ LET a == Min(report.left)
           line == TrialLine(a, getAccountSnapshot(a, report.current))
       IN  report' = [report EXCEPT !.left = @ \ {a}, !.lines = @ \cup {line}, !.done = report.left = {a}]
    /\ UNCHANGED <<now, postingVars, totals, asked, rebuild>>

(* getLedger: the opening balance is one query, the entries another.        *)
Opened(q) == {r \in RowsOn(q.account) : r.created < Midnight(q.from)}
Listed(q) == {r \in RowsOn(q.account) : r.created >= Midnight(q.from) /\ r.created <= LastSecond(q.to)}
OpenLedger ==
    /\ asked.kind = "ledger" /\ report = NoReport
    /\ report' = [kind |-> "ledger", before |-> rows, opening |-> Net(Opened(asked)), done |-> FALSE]
    /\ UNCHANGED <<now, postingVars, totals, asked, rebuild>>
ListEntries ==
    /\ report.kind = "ledger" /\ ~report.done
    /\ report' = [kind |-> "ledger", before |-> report.before, opening |-> report.opening,
                  closing |-> report.opening + Net(Listed(asked)), after |-> rows, done |-> TRUE]
    /\ UNCHANGED <<now, postingVars, totals, asked, rebuild>>

ReportNext ==
    \/ Passes \/ AskTrial \/ ReadLeaf \/ OpenLedger \/ ListEntries
    \/ BeginRebuild \/ DeleteBalances \/ InsertBalances \/ RebuildFails
    \/ \E p \in Postings : BeginPosting(p) \/ WritePosting(p) \/ CommitPosting(p)
ReportSpec == ReportInit /\ [][ReportNext]_reportVars
-----------------------------------------------------------------------------
(* A trial balance balances, of today and as of any day gone by, when no    *)
(* transaction was committed while it was read: the two sides of a          *)
(* transaction fall on the same side of every date, however long it took.   *)
(* (A commit between two leaves may show one side.)                         *)
TrialBalances ==
    report.kind = "trial" /\ report.done /\ rows = report.before =>
        SumDebits(report.lines) = SumCredits(report.lines)

(* A ledger's closing balance counts every row of the account up to the end *)
(* of its last day exactly once, whatever is committed between its two      *)
(* queries, but for rows whose transaction began before the first day and   *)
(* was committed in between.                                                *)
LedgerCountsOnce ==
    report.kind = "ledger" /\ report.done /\ asked.from <= asked.to =>
        report.closing = Net({r \in report.after :
            /\ r.of[1] = asked.account /\ r.created <= LastSecond(asked.to)
            /\ r \in report.before \/ r.created >= Midnight(asked.from)})

(* A balance read from account_balances is what the journal says of the     *)
(* account and year, whatever was posted before, while and after the table  *)
(* was rebuilt from the journal.                                            *)
SnapshotMatchesJournal ==
    \A a \in Ledgers, p \in Postings :
        LET key == <<a, PostingOf[p].year>> IN getBalance(key[1], key[2]) = Summed(In(rows, key))

(* What is read of the books by several queries adds up, with commits and a *)
(* rebuild between them.                                                    *)
ReportsAddUp ==
    /\ TrialBalances
    /\ LedgerCountsOnce
    /\ SnapshotMatchesJournal
=============================================================================

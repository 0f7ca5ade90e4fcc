------------------------------ MODULE YearEnd -------------------------------
(***************************************************************************)
(* The closing of a financial year (src/src/year-end, post_year_end_closing *)
(* of src/edge_cases_schema.sql) beside postings dated in it and somebody   *)
(* who opens it again.                                                      *)
(*                                                                         *)
(* Each call is one transaction and each statement of it sees what is       *)
(* committed when it runs.  An amount is what an account is credited, so    *)
(* that income is positive and an expense negative; a posting's other line, *)
(* in cash, is left out.  As committed the sums nest one aggregate in       *)
(* another and cast a company number to UUID: they are modelled as meant.   *)
(***************************************************************************)
EXTENDS Integers, Sequences, FiniteSets, FiniteSetsExt

CONSTANTS
    EndCall,        \* calls of closers, posters and of who opens the year
    EndSettings,    \* the calls of a behaviour, by EndCall
    Income,         \* the income accounts
    Expense,        \* the expense accounts
    LastDay         \* the year is the days 1 .. LastDay

ASSUME YearEndAssumption ==
    /\ IsFiniteSet(Income) /\ IsFiniteSet(Expense) /\ Income \cap Expense = {}
    /\ "retained" \notin Income \cup Expense /\ LastDay \in Nat \ {0}
    /\ \A calls \in EndSettings : \A c \in DOMAIN calls :
          \/ calls[c].kind \in {"close", "reopen"}
          \/ /\ calls[c].kind = "post" /\ calls[c].day \in Nat
             /\ \A a \in DOMAIN calls[c].lines : calls[c].lines[a] \in Int

VARIABLES
    endAsked,   \* the calls of this behaviour
    endStep,    \* endStep[c]: the statement call c comes to next
    endSeen,    \* endSeen[c]: what it has read
    yearBook,   \* the transactions in the order of their commits
    yearLock,   \* fiscal_periods: "none", "locked" or "open"
    closings    \* year_end_closings of the year

endTables == <<yearBook, yearLock, closings>>
endVars == <<endAsked, endStep, endSeen, endTables>>

EndInit ==
    /\ endAsked \in EndSettings
    /\ endStep = [c \in EndCall |-> "start"] /\ endSeen = [c \in EndCall |-> <<>>]
    /\ yearBook = <<>> /\ yearLock = "none" /\ closings = {}

EndIs(c, kind, at) == c \in DOMAIN endAsked /\ endAsked[c].kind = kind /\ endStep[c] = at
EndTo(c, at, what) ==
    endStep' = [endStep EXCEPT ![c] = at] /\ endSeen' = [endSeen EXCEPT ![c] = what]
Reads(c, at, what) == EndTo(c, at, what) /\ UNCHANGED <<endAsked, endTables>>
EndStop(c, how) == EndTo(c, how, <<>>)

-----------------------------------------------------------------------------
(* A posting: the lock is looked at when its rows are written.              *)
InYear(day) == day \in 1 .. LastDay
DayIsLocked(day) == InYear(day) /\ yearLock = "locked"
WriteEntry(c) ==
    /\ EndIs(c, "post", "start") /\ ~DayIsLocked(endAsked[c].day)
    /\ Reads(c, "written", [closed |-> closings # {}, reopened |-> yearLock = "open"])
CommitEntry(c) ==
    /\ EndIs(c, "post", "written")
    /\ yearBook' = Append(yearBook, [kind |-> "posting", day |-> endAsked[c].day, lines |-> endAsked[c].lines,
                                     closed |-> endSeen[c].closed, reopened |-> endSeen[c].reopened])
    /\ EndStop(c, "done") /\ UNCHANGED <<endAsked, yearLock, closings>>
PostRefused(c) ==
    /\ EndIs(c, "post", "start") /\ DayIsLocked(endAsked[c].day)
    /\ EndStop(c, "refused") /\ UNCHANGED <<endAsked, endTables>>

-----------------------------------------------------------------------------
YearRows(book, upto) == {n \in 1 .. upto : InYear(book[n].day)}
LineOf(lines, a) == IF a \in DOMAIN lines THEN lines[a] ELSE 0
YearTotal(book, upto, a) == MapThenSumSet(LAMBDA n : LineOf(book[n].lines, a), YearRows(book, upto))
Balances(accounts) == [a \in accounts |-> YearTotal(yearBook, Len(yearBook), a)]
SumLines(balances) == MapThenSumSet(LAMBDA a : balances[a], DOMAIN balances)
Nonzero(balances) == [a \in {b \in DOMAIN balances : balances[b] # 0} |-> -balances[a]]
Beside(f, g) == [a \in DOMAIN f \cup DOMAIN g |-> IF a \in DOMAIN f THEN f[a] ELSE g[a]]

executeYearEndClosing(c) ==
    /\ EndIs(c, "close", "start")
    /\ IF yearLock = "locked" THEN EndStop(c, "refused") /\ UNCHANGED <<endAsked, endTables>>
                              ELSE Reads(c, "exists", <<>>)
AlreadyClosed(c) ==
    /\ EndIs(c, "close", "exists")
    /\ IF closings # {} THEN EndStop(c, "refused") /\ UNCHANGED <<endAsked, endTables>>
                        ELSE Reads(c, "revenue", <<>>)
TotalRevenue(c) ==
    /\ EndIs(c, "close", "revenue")
    /\ Reads(c, "expenses", [from |-> Len(yearBook), revenue |-> SumLines(Balances(Income)),
                             expenses |-> 0, lines |-> <<>>])
TotalExpenses(c) ==
    /\ EndIs(c, "close", "expenses")
    /\ Reads(c, "closeIncome", [endSeen[c] EXCEPT !.expenses = -SumLines(Balances(Expense))])
CloseIncome(c) ==
    /\ EndIs(c, "close", "closeIncome")
    /\ Reads(c, "closeExpense", [endSeen[c] EXCEPT !.lines = Nonzero(Balances(Income))])

(* What is left goes to retained earnings.                                  *)
Retained(net) == IF net = 0 THEN <<>> ELSE [a \in {"retained"} |-> net]
AllLines(seen) ==
    Beside(Beside(seen.lines, Nonzero(Balances(Expense))), Retained(seen.revenue - seen.expenses))
CloseExpense(c) ==
    /\ EndIs(c, "close", "closeExpense")
    /\ Reads(c, "insert", [endSeen[c] EXCEPT !.lines = AllLines(endSeen[c])])

(* The lines are inserted in their columns as they are, a negative one is   *)
(* refused; so is every one when the year is locked by now.                 *)
OneSided(lines) == \A a \in DOMAIN lines :
    (a \in Income => lines[a] < 0) /\ (a \in Expense => lines[a] > 0)
InsertLines(c) ==
    /\ EndIs(c, "close", "insert")
    /\ IF OneSided(endSeen[c].lines) /\ (DOMAIN endSeen[c].lines # {} => ~DayIsLocked(LastDay))
       THEN Reads(c, "lock", endSeen[c])
       ELSE EndStop(c, "refused") /\ UNCHANGED <<endAsked, endTables>>

(* INSERT ... ON CONFLICT DO UPDATE waits for who holds the period's row.   *)
PeriodFree(c) == ~\E d \in DOMAIN endAsked \ {c} : EndIs(d, "close", "commit")
LockPeriod(c) ==
    /\ EndIs(c, "close", "lock") /\ PeriodFree(c)
    /\ Reads(c, "commit", endSeen[c])

(* One closing per company and year; the lines balance at COMMIT.           *)
Taken == closings # {}
(* Mutant: the balance of the lines is not looked at.                       *)
UncheckedSum(lines) == TRUE
LinesBalance(lines) == SumLines(lines) = 0
RecordClosing(c) == LET seen == endSeen[c] IN
    /\ EndIs(c, "close", "commit") /\ ~Taken /\ LinesBalance(seen.lines)
    /\ yearBook' = IF DOMAIN seen.lines = {} THEN yearBook
                   ELSE Append(yearBook, [kind |-> "closing", day |-> LastDay, lines |-> seen.lines,
                                          alone |-> seen.from = Len(yearBook)])
    /\ yearLock' = "locked"
    /\ closings' = closings \cup {[by |-> c, revenue |-> seen.revenue, expenses |-> seen.expenses,
                                   txn |-> IF DOMAIN seen.lines = {} THEN 0 ELSE Len(yearBook) + 1]}
    /\ EndStop(c, "done") /\ UNCHANGED endAsked
ClosingFails(c) ==
    /\ EndIs(c, "close", "commit") /\ (Taken \/ ~LinesBalance(endSeen[c].lines))
    /\ EndStop(c, "refused") /\ UNCHANGED <<endAsked, endTables>>

(* The closing stays recorded: the year can be posted to, and never closed  *)
(* again.                                                                   *)
reopenYear(c) ==
    /\ EndIs(c, "reopen", "start") /\ PeriodFree(c)
    /\ IF closings = {} THEN EndStop(c, "refused") /\ UNCHANGED yearLock
                        ELSE EndStop(c, "done") /\ yearLock' = "open"
    /\ UNCHANGED <<endAsked, yearBook, closings>>

EndNext == \E c \in EndCall :
    \/ WriteEntry(c) \/ CommitEntry(c) \/ PostRefused(c)
    \/ executeYearEndClosing(c) \/ AlreadyClosed(c) \/ TotalRevenue(c) \/ TotalExpenses(c)
    \/ CloseIncome(c) \/ CloseExpense(c) \/ InsertLines(c) \/ LockPeriod(c)
    \/ RecordClosing(c) \/ ClosingFails(c) \/ reopenYear(c)
EndSpec == EndInit /\ [][EndNext]_endVars

-----------------------------------------------------------------------------
ClosingTxns == {n \in DOMAIN yearBook : yearBook[n].kind = "closing"}

(* Closers that overlap, and one who closes what was opened again, leave    *)
(* one closing record and at most the one transaction it names.             *)
ClosedOnce ==
    /\ Cardinality(closings) <= 1
    /\ ClosingTxns = {r.txn : r \in closings} \ {0}

(* A closing that no posting overlapped leaves every income and expense     *)
(* account at zero for the year, its last day included.                     *)
ClosedAccountsAreZero ==
    \A n \in ClosingTxns : yearBook[n].alone =>
        \A a \in Income \cup Expense : YearTotal(yearBook, n, a) = 0

(* The revenue and expenses are summed by other statements than the lines:  *)
(* whatever is committed between them, what reaches retained earnings is    *)
(* the profit the closing records and what its lines took from the others.  *)
RetainsTheProfit ==
    \A r \in closings : r.txn # 0 => LET lines == yearBook[r.txn].lines IN
        /\ ("retained" \in DOMAIN lines \/ r.revenue = r.expenses)
        /\ "retained" \in DOMAIN lines =>
              /\ lines["retained"] = r.revenue - r.expenses
              /\ lines["retained"] = -SumLines([a \in DOMAIN lines \ {"retained"} |-> lines[a]])

(* What is committed in a closed year was written before it was closed, or  *)
(* after it was opened again.                                               *)
ClosedYearGainsNothingNew ==
    \A r \in closings, n \in DOMAIN yearBook :
        n > r.txn /\ r.txn # 0 /\ InYear(yearBook[n].day)
        => yearBook[n].kind = "posting" /\ (~yearBook[n].closed \/ yearBook[n].reopened)

(* A year is closed once, its income and expenses are zero then, retained   *)
(* earnings hold the profit on record, and the year gains nothing new.      *)
ClosingAddsUp ==
    /\ ClosedOnce
    /\ ClosedAccountsAreZero
    /\ RetainsTheProfit
    /\ ClosedYearGainsNothingNew
=============================================================================

------------------------------- MODULE Ledger -------------------------------
(***************************************************************************)
(* The posting transaction of the ledger: TransactionManager.create        *)
(* (src/src/services/transaction-manager.ts) run by handleCreateTransaction *)
(* (src/src/index.ts) between the BEGIN and the COMMIT or ROLLBACK of       *)
(* withTransaction (src/src/db/pool.ts), with the constraints and triggers  *)
(* PostgreSQL runs on its tables (src/schema.sql, src/security_schema.sql). *)
(*                                                                         *)
(* One action per SQL statement; several requests run at once and their     *)
(* statements interleave under READ COMMITTED.  A request is one HTTP call: *)
(* a client that retries is a second request with the same idempotency key. *)
(* The accounts table does not change while the model runs.                 *)
(***************************************************************************)
EXTENDS Integers, Sequences, FiniteSets, FiniteSetsExt

CONSTANTS
    Request,        \* the calls of create() a run considers
    Key,            \* idempotency keys
    Tenant,         \* tenants (companies)
    Account,        \* account ids a voucher may name
    Year,           \* financial years; a fiscal period is one of them
    Input,          \* Input[r]: key, tenant and year of the date of request r
    Translated,     \* Translated[r]: what the voucher strategy makes of r's payload
    Owner,          \* Owner[a]: the company of account a, or NoTenant
    NoTenant,       \* the owner of an id that no accounts row has
    Opening,        \* journal rows that were there before the run (seed.sql)
    OpeningBalance, \* the account_balances rows their trigger left
    Nobody,         \* the holder of a free lock
    Int8Parsed      \* TRUE when the pg driver parses BIGINT columns to numbers;
                    \* the repository installs no parser, so its value is FALSE

Slot == Key \X Tenant
TxnId == Nat \ {0}

(* A line names its account by a number of the payload (Number(...)) or by  *)
(* the string the driver returns for a BIGINT column.  Amounts are in       *)
(* tenths of a paisa: one digit more than NUMERIC(18,2) keeps.              *)
Line == [account : Account, from : {"payload", "row"}, debit : Nat, credit : Nat]

(* A row of journal_entries, in paise.  txn is 0 for the opening rows.      *)
Row == [txn : Nat, line : Nat, account : Account, year : Year,
        debit : Nat, credit : Nat]

Totals == [debits : Nat, credits : Nat]
ZeroTotals == [debits |-> 0, credits |-> 0]

ASSUME RequestAssumption == IsFiniteSet(Request) /\ Nobody \notin Request
ASSUME InputAssumption ==
    Input \in [Request -> [key : Key, tenant : Tenant, year : Year]]
ASSUME TranslatedAssumption ==
    /\ DOMAIN Translated = Request
    /\ \A r \in Request :
          /\ Translated[r].ok \in BOOLEAN
          /\ DOMAIN Translated[r].lines = 1 .. Len(Translated[r].lines)
          /\ Len(Translated[r].lines) \in Nat
          /\ \A i \in 1 .. Len(Translated[r].lines) : Translated[r].lines[i] \in Line
ASSUME OwnerAssumption ==
    Owner \in [Account -> Tenant \cup {NoTenant}] /\ NoTenant \notin Tenant
ASSUME OpeningAssumption ==
    IsFiniteSet(Opening) /\ Opening \subseteq Row /\ \A e \in Opening : e.txn = 0
ASSUME OpeningBalanceAssumption == OpeningBalance \in [Account \X Year -> Totals]
ASSUME DriverAssumption == Int8Parsed \in BOOLEAN

VARIABLES
    pc,             \* pc[r]: the statement request r is at
    reply,          \* reply[r]: how r ended, "none" before
    answer,         \* answer[r]: the transaction id r's caller got, 0 for none
    work,           \* work[r]: what r's open database transaction has done
    delta,          \* delta[r]: what it added to account_balances rows
    accLock,        \* accLock[a]: who holds the row lock of account a
    claim,          \* claim[s]: who has an uncommitted idempotency row for s
    nextId,         \* the identity sequence of transactions.transaction_id
    idem,           \* idem[s]: the committed idempotency row of slot s
    transactions,   \* committed rows of transactions
    journal,        \* committed rows of journal_entries
    balance,        \* committed rows of account_balances
    locked          \* the financial years whose fiscal period is locked

committed == <<idem, transactions, journal, balance>>
locks     == <<accLock, claim>>
vars == <<pc, reply, answer, work, delta, accLock, claim, nextId, idem,
          transactions, journal, balance, locked>>

NoRow   == -1       \* idem[s]: no row
NullTxn == 0        \* idem[s]: a row whose transaction_id is NULL

BalanceRow == Account \X Year

NoWork  == [id |-> 0, inserted |-> 0, drift |-> 0, linked |-> FALSE]
NoDelta == [b \in BalanceRow |-> ZeroTotals]

SlotOf(r)  == <<Input[r].key, Input[r].tenant>>
LinesOf(r) == Translated[r].lines

-----------------------------------------------------------------------------
(* Sums over rows                                                           *)

Net(rows) == MapThenSumSet(LAMBDA e : e.debit - e.credit, rows)
Debits(rows) == MapThenSumSet(LAMBDA e : e.debit, rows)
Credits(rows) == MapThenSumSet(LAMBDA e : e.credit, rows)

RowsOf(a) == {e \in journal : e.account = a}

(* What trg_upsert_account_balance keeps in the row b of account_balances.   *)
Summed(b, rows) ==
    LET mine == {e \in rows : e.account = b[1] /\ e.year = b[2]}
    IN  [debits |-> Debits(mine), credits |-> Credits(mine)]

ASSUME OpeningSumsAssumption ==
    \A b \in BalanceRow : OpeningBalance[b] = Summed(b, Opening)

(* NUMERIC(18,2) rounds half away from zero; no line is negative.           *)
Stored(amount) == (amount + 5) \div 10

RowAt(r, i) ==
    [txn |-> work[r].id, line |-> i,
     account |-> LinesOf(r)[i].account, year |-> Input[r].year,
     debit |-> Stored(LinesOf(r)[i].debit), credit |-> Stored(LinesOf(r)[i].credit)]

(* Mutant: the upsert overwrites the credits it should add to.             *)
PlusOverwriting(t, u) == [debits |-> t.debits + u.debits, credits |-> u.credits]

Plus(t, u) == [debits |-> t.debits + u.debits, credits |-> t.credits + u.credits]

-----------------------------------------------------------------------------
(* What a request locks and waits for                                       *)

Named(r) == {LinesOf(r)[i].account : i \in 1 .. Len(LinesOf(r))}

(* new Set(lines.map(l => l.account_id)): 5 and "5" are two members.        *)
Ids(r) ==
    IF Int8Parsed
    THEN Named(r)
    ELSE {<<LinesOf(r)[i].account, LinesOf(r)[i].from>> : i \in 1 .. Len(LinesOf(r))}

Available(r) == {a \in Named(r) : Owner[a] = Input[r].tenant}

(* r is stuck behind another open transaction that is in S.                 *)
Blocked(r, S) ==
    \/ /\ pc[r] = "lock"
       /\ \E a \in Available(r) : accLock[a] # r
       /\ \A a \in Available(r) : accLock[a] # r => accLock[a] \in S
    \/ pc[r] = "claim" /\ claim[SlotOf(r)] \in S

-----------------------------------------------------------------------------
Init ==
    /\ pc = [r \in Request |-> "check"]
    /\ reply = [r \in Request |-> "none"]
    /\ answer = [r \in Request |-> 0]
    /\ work = [r \in Request |-> NoWork]
    /\ delta = [r \in Request |-> NoDelta]
    /\ accLock = [a \in Account |-> Nobody]
    /\ claim = [s \in Slot |-> Nobody]
    /\ nextId = 1
    /\ idem = [s \in Slot |-> NoRow]
    /\ transactions = {}
    /\ journal = Opening
    /\ balance = OpeningBalance
    /\ locked = {}

Goto(r, label) == pc' = [pc EXCEPT ![r] = label]

(* Mutant: the client goes back to the pool with its transaction open.      *)
EndKeepingLocks(r, how) ==
    /\ Goto(r, "done")
    /\ reply' = [reply EXCEPT ![r] = how]
    /\ work' = [work EXCEPT ![r] = NoWork]
    /\ delta' = [delta EXCEPT ![r] = NoDelta]
    /\ UNCHANGED locks

(* The end of r's database transaction, committed or not: its locks and its *)
(* uncommitted rows are gone.                                               *)
EndTransaction(r, how) ==
    /\ Goto(r, "done")
    /\ reply' = [reply EXCEPT ![r] = how]
    /\ work' = [work EXCEPT ![r] = NoWork]
    /\ delta' = [delta EXCEPT ![r] = NoDelta]
    /\ accLock' = [a \in Account |-> IF accLock[a] = r THEN Nobody ELSE accLock[a]]
    /\ claim' = [s \in Slot |-> IF claim[s] = r THEN Nobody ELSE claim[s]]

(* withTransaction's catch: ROLLBACK, and the error goes to the caller.     *)
Rollback(r, why) ==
    /\ EndTransaction(r, why)
    /\ UNCHANGED <<answer, nextId, committed, locked>>

-----------------------------------------------------------------------------
(* Mutant: the lookup forgets AND tenant_id = $2.                           *)
CheckKeyOfAnyTenant(r) ==
    /\ pc[r] = "check"
    /\ \/ \E s \in Slot :
              /\ s[1] = Input[r].key
              /\ idem[s] \in TxnId
              /\ answer' = [answer EXCEPT ![r] = idem[s]]
          /\ EndTransaction(r, "existing")
          /\ UNCHANGED <<nextId, committed, locked>>
       \/ /\ \A s \in Slot : s[1] = Input[r].key => idem[s] \notin TxnId
          /\ Goto(r, "translate")
          /\ UNCHANGED <<reply, answer, work, delta, locks, nextId, committed, locked>>

(* Step 1: SELECT transaction_id FROM idempotency_keys.  A row with a NULL  *)
(* transaction_id is not a hit: `if (existing)`.                            *)
CheckIdempotency(r) ==
    /\ pc[r] = "check"
    /\ \/ /\ idem[SlotOf(r)] \in TxnId
          /\ answer' = [answer EXCEPT ![r] = idem[SlotOf(r)]]
          /\ EndTransaction(r, "existing")
          /\ UNCHANGED <<nextId, committed, locked>>
       \/ /\ idem[SlotOf(r)] \notin TxnId
          /\ Goto(r, "translate")
          /\ UNCHANGED <<reply, answer, work, delta, locks, nextId, committed, locked>>

(* Step 2: resolve the strategy and translate the payload; either may throw. *)
Translate(r) ==
    /\ pc[r] = "translate"
    /\ \/ ~Translated[r].ok /\ Rollback(r, "rejected")
       \/ /\ Translated[r].ok
          /\ Goto(r, "lock")
          /\ UNCHANGED <<reply, answer, work, delta, locks, nextId, committed, locked>>

(* Step 3: SELECT ... FOR UPDATE takes the rows one by one, in no order the *)
(* statement fixes, and waits for a row another transaction holds.          *)
LockAccount(r, a) ==
    /\ pc[r] = "lock"
    /\ a \in Available(r)
    /\ accLock[a] = Nobody
    /\ accLock' = [accLock EXCEPT ![a] = r]
    /\ UNCHANGED <<pc, reply, answer, work, delta, claim, nextId, committed, locked>>

(* Mutant: the SELECT lost its FOR UPDATE.                                  *)
SelectWithoutLock(r) ==
    /\ pc[r] = "lock"
    /\ \/ /\ Cardinality(Available(r)) # Cardinality(Ids(r))
          /\ Rollback(r, "unavailable")
       \/ /\ Cardinality(Available(r)) = Cardinality(Ids(r))
          /\ Goto(r, "validate")
          /\ UNCHANGED <<reply, answer, work, delta, locks, nextId, committed, locked>>

(* The SELECT returns; fewer rows than ids is an error.                     *)
AccountsLocked(r) ==
    /\ pc[r] = "lock"
    /\ \A a \in Available(r) : accLock[a] = r
    /\ \/ /\ Cardinality(Available(r)) # Cardinality(Ids(r))
          /\ Rollback(r, "unavailable")
       \/ /\ Cardinality(Available(r)) = Cardinality(Ids(r))
          /\ Goto(r, "validate")
          /\ UNCHANGED <<reply, answer, work, delta, locks, nextId, committed, locked>>

(* balanceMap.get(line.account_id) ?? 0, in tenths of a paisa: the map is   *)
(* keyed by what the driver returns, so a number finds nothing in it unless *)
(* BIGINT columns are parsed.                                               *)
CurrentBalance(l) ==
    IF Int8Parsed \/ l.from = "row" THEN 10 * Net(RowsOf(l.account)) ELSE 0

Overdrawn(r) ==
    \E i \in 1 .. Len(LinesOf(r)) :
        /\ LinesOf(r)[i].credit > 0
        /\ CurrentBalance(LinesOf(r)[i]) - LinesOf(r)[i].credit < 0

ValidateBalances(r) ==
    /\ pc[r] = "validate"
    /\ \/ Overdrawn(r) /\ Rollback(r, "insufficient")
       \/ /\ ~Overdrawn(r)
          /\ Goto(r, "claim")
          /\ UNCHANGED <<reply, answer, work, delta, locks, nextId, committed, locked>>

(* Mutant: ON CONFLICT DO UPDATE in place of the unique violation.          *)
RecordKeyUpsert(r) ==
    /\ pc[r] = "claim"
    /\ claim[SlotOf(r)] = Nobody
    /\ claim' = [claim EXCEPT ![SlotOf(r)] = r]
    /\ Goto(r, "header")
    /\ UNCHANGED <<reply, answer, work, delta, accLock, nextId, committed, locked>>

(* Step 4: INSERT INTO idempotency_keys.  UNIQUE(idempotency_key,           *)
(* tenant_id) makes it wait for an uncommitted row of the same slot and     *)
(* fail on a committed one.                                                 *)
RecordIdempotencyKey(r) ==
    /\ pc[r] = "claim"
    /\ claim[SlotOf(r)] = Nobody
    /\ \/ idem[SlotOf(r)] # NoRow /\ Rollback(r, "conflict")
       \/ /\ idem[SlotOf(r)] = NoRow
          /\ claim' = [claim EXCEPT ![SlotOf(r)] = r]
          /\ Goto(r, "header")
          /\ UNCHANGED <<reply, answer, work, delta, accLock, nextId, committed, locked>>

(* Step 5: the BEFORE INSERT trigger trg_enforce_fiscal_lock reads the      *)
(* committed fiscal periods; a sequence value is never given back.          *)
InsertTransaction(r) ==
    /\ pc[r] = "header"
    /\ \/ Input[r].year \in locked /\ Rollback(r, "closed")
       \/ /\ Input[r].year \notin locked
          /\ work' = [work EXCEPT ![r].id = nextId]
          /\ nextId' = nextId + 1
          /\ Goto(r, "lines")
          /\ UNCHANGED <<reply, answer, delta, locks, committed, locked>>

(* chk_one_side                                                             *)
OneSided(e) == (e.debit > 0 /\ e.credit = 0) \/ (e.credit > 0 /\ e.debit = 0)

(* Step 6, one row of the multi-row INSERT: the fiscal lock trigger, the    *)
(* row's CHECK, then the upsert of account_balances.                        *)
InsertJournalLine(r) ==
    LET e == RowAt(r, work[r].inserted + 1)
    IN  /\ pc[r] = "lines"
        /\ work[r].inserted < Len(LinesOf(r))
        /\ \/ e.year \in locked /\ Rollback(r, "closed")
           \/ e.year \notin locked /\ ~OneSided(e) /\ Rollback(r, "rejected")
           \/ /\ e.year \notin locked
              /\ OneSided(e)
              /\ work' = [work EXCEPT ![r].inserted = @ + 1,
                                      ![r].drift = @ + e.debit - e.credit]
              /\ delta' = [delta EXCEPT ![r][<<e.account, e.year>>] =
                              Plus(@, [debits |-> e.debit, credits |-> e.credit])]
              /\ UNCHANGED <<pc, reply, answer, locks, nextId, committed, locked>>

(* Mutant: create() returns without its step 7.                             *)
FinalizeSkipped(r) ==
    /\ pc[r] = "lines"
    /\ work[r].inserted = Len(LinesOf(r))
    /\ Goto(r, "commit")
    /\ UNCHANGED <<reply, answer, work, delta, locks, nextId, committed, locked>>

(* Step 7: the row that UPDATE finds is the one step 4 inserted.            *)
FinalizeIdempotency(r) ==
    /\ pc[r] = "lines"
    /\ work[r].inserted = Len(LinesOf(r))
    /\ work' = [work EXCEPT ![r].linked = claim[SlotOf(r)] = r]
    /\ Goto(r, "commit")
    /\ UNCHANGED <<reply, answer, delta, locks, nextId, committed, locked>>

(* Mutant: the constraint trigger is gone.                                  *)
CommitUnchecked(r) ==
    /\ pc[r] = "commit"
    /\ idem' = [idem EXCEPT ![SlotOf(r)] =
                    IF work[r].linked THEN work[r].id ELSE NullTxn]
    /\ transactions' = transactions \cup
          {[id |-> work[r].id, slot |-> SlotOf(r), year |-> Input[r].year]}
    /\ journal' = journal \cup {RowAt(r, i) : i \in 1 .. work[r].inserted}
    /\ balance' = [b \in BalanceRow |-> Plus(balance[b], delta[r][b])]
    /\ answer' = [answer EXCEPT ![r] = work[r].id]
    /\ EndTransaction(r, "created")
    /\ UNCHANGED <<nextId, locked>>

(* COMMIT.  The deferred trg_enforce_double_entry runs first.  A client     *)
(* whose connection drops after the commit never hears of it.               *)
Commit(r) ==
    /\ pc[r] = "commit"
    /\ \/ work[r].drift # 0 /\ Rollback(r, "unbalanced")
       \/ /\ work[r].drift = 0
          /\ idem' = [idem EXCEPT ![SlotOf(r)] =
                          IF work[r].linked THEN work[r].id ELSE NullTxn]
          /\ transactions' = transactions \cup
                {[id |-> work[r].id, slot |-> SlotOf(r), year |-> Input[r].year]}
          /\ journal' = journal \cup {RowAt(r, i) : i \in 1 .. work[r].inserted}
          /\ balance' = [b \in BalanceRow |-> Plus(balance[b], delta[r][b])]
          /\ \/ answer' = [answer EXCEPT ![r] = work[r].id] /\ EndTransaction(r, "created")
             \/ answer' = answer /\ EndTransaction(r, "lost")
          /\ UNCHANGED <<nextId, locked>>

(* A statement fails, the connection drops or the process dies before the   *)
(* COMMIT: PostgreSQL rolls the transaction back.                           *)
Fail(r) == pc[r] # "done" /\ Rollback(r, "failed")

(* PostgreSQL's deadlock detector cancels one member of a cycle of waits.   *)
BreakDeadlock(r) ==
    \E S \in SUBSET Request :
        /\ r \in S
        /\ \A q \in S : Blocked(q, S)
        /\ Rollback(r, "deadlock")

(* An administrator locks or reopens a fiscal period (reopenYear).          *)
SetPeriodLock(y) ==
    /\ \/ y \notin locked /\ locked' = locked \cup {y}
       \/ y \in locked /\ locked' = locked \ {y}
    /\ UNCHANGED <<pc, reply, answer, work, delta, locks, nextId, committed>>

-----------------------------------------------------------------------------
Step(r) ==
    \/ CheckIdempotency(r)
    \/ Translate(r)
    \/ \E a \in Account : LockAccount(r, a)
    \/ AccountsLocked(r)
    \/ ValidateBalances(r)
    \/ RecordIdempotencyKey(r)
    \/ InsertTransaction(r)
    \/ InsertJournalLine(r)
    \/ FinalizeIdempotency(r)
    \/ Commit(r)

Next ==
    \/ \E r \in Request : Step(r) \/ Fail(r) \/ BreakDeadlock(r)
    \/ \E y \in Year : SetPeriodLock(y)

Spec == Init /\ [][Next]_vars

(* A server runs every open transaction to its end and PostgreSQL finds     *)
(* every deadlock; nobody has to fail, and nobody has to lock a period.     *)
FairSpec ==
    /\ Spec
    /\ \A r \in Request : WF_vars(Step(r)) /\ WF_vars(BreakDeadlock(r))
-----------------------------------------------------------------------------
(* Properties                                                               *)

(* Every variable has the shape its comment gives it, totals never negative. *)
TypeOK ==
    /\ pc \in [Request -> {"check", "translate", "lock", "validate", "claim",
                           "header", "lines", "commit", "done"}]
    /\ reply \in [Request -> {"none", "existing", "created", "lost", "rejected",
                              "unavailable", "insufficient", "conflict", "closed",
                              "unbalanced", "failed", "deadlock"}]
    /\ answer \in [Request -> Nat]
    /\ work \in [Request -> [id : Nat, inserted : Nat, drift : Int, linked : BOOLEAN]]
    /\ \A r \in Request : work[r].inserted <= Len(LinesOf(r))
    /\ delta \in [Request -> [BalanceRow -> Totals]]
    /\ accLock \in [Account -> Request \cup {Nobody}]
    /\ claim \in [Slot -> Request \cup {Nobody}]
    /\ nextId \in TxnId
    /\ idem \in [Slot -> TxnId \cup {NoRow, NullTxn}]
    /\ transactions \subseteq [id : Nat, slot : Slot, year : Year]
    /\ journal \subseteq Row
    /\ balance \in [BalanceRow -> Totals]
    /\ locked \subseteq Year

(* One key, one transaction: however many calls carry an idempotency key,   *)
(* and wherever they fail, at most one transaction is committed under it.   *)
OneTransactionPerSlot ==
    \A t, u \in transactions : t.slot = u.slot => t = u

(* An id a caller was given names a committed transaction of its own key    *)
(* and its own tenant, so all the callers of a slot are told the same id.   *)
AnswersAreDurable ==
    \A r \in Request : reply[r] \in {"created", "existing"} =>
        \E t \in transactions : t.id = answer[r] /\ t.slot = SlotOf(r)

(* Header, journal lines and idempotency row of a posting exist together or *)
(* not at all: every header is linked from its key and carries all the      *)
(* lines of its voucher, every key and every line leads to a header.        *)
AllOrNothing ==
    /\ \A t \in transactions :
          /\ idem[t.slot] = t.id
          /\ \E r \in Request :
                /\ SlotOf(r) = t.slot
                /\ Cardinality({e \in journal : e.txn = t.id}) = Len(LinesOf(r))
    /\ \A s \in Slot : idem[s] # NoRow =>
          \E t \in transactions : t.slot = s /\ t.id = idem[s]
    /\ \A e \in journal : e.txn # 0 =>
          \E t \in transactions : t.id = e.txn /\ t.year = e.year

(* The debits of every committed transaction equal its credits.             *)
DoubleEntry ==
    \A t \in transactions : Net({e \in journal : e.txn = t.id}) = 0

(* audit_all_accounts finds nothing: each account_balances row is the sum   *)
(* of the journal rows of its account and financial year.                   *)
BalancesMatchJournal ==
    \A b \in BalanceRow : balance[b] = Summed(b, journal)

(* The books are whole whatever calls interleave or fail: postings are      *)
(* there entirely or not at all, each balances, and the kept balances are   *)
(* the sums of the journal.                                                 *)
BooksAddUp ==
    /\ AllOrNothing
    /\ DoubleEntry
    /\ BalancesMatchJournal

(* No voucher credits an account on two of its lines: validateBalances      *)
(* looks at each line alone.                                                *)
OneCreditPerAccount ==
    \A r \in Request : \A i, j \in 1 .. Len(LinesOf(r)) :
        /\ LinesOf(r)[i].account = LinesOf(r)[j].account
        /\ LinesOf(r)[i].credit > 0 /\ LinesOf(r)[j].credit > 0
        => i = j

(* Concurrent postings never take an account below zero that each of them   *)
(* saw covered.  Holds under OneCreditPerAccount.                           *)
NoOverdraft ==
    \A a \in Account :
        Net(RowsOf(a)) < 0 => Net(RowsOf(a)) >= Net({e \in Opening : e.account = a})

(* Balance writes are serialised per account: an uncommitted change of an   *)
(* account_balances row belongs to the holder of the account's row lock.    *)
AccountsSerialised ==
    \A r \in Request : \A b \in BalanceRow :
        delta[r][b] # ZeroTotals => accLock[b[1]] = r

(* Nothing posted is ever changed or taken back, and a key that leads to a  *)
(* transaction leads to the same one for good.                              *)
HistoryIsFinal ==
    [][/\ transactions \subseteq transactions'
       /\ journal \subseteq journal'
       /\ \A s \in Slot : idem[s] \in TxnId => idem'[s] = idem[s]]_vars

(* Every call comes to an end: no wait for a row lock or for another call's *)
(* claim of the key lasts for ever.                                         *)
EveryRequestEnds == \A r \in Request : <>(pc[r] = "done")

(* create() keeps its promise to the callers: see IdempotentPosting.        *)
Posted == [s \in Slot |-> IF idem[s] \in TxnId THEN idem[s] ELSE 0]
Status == [r \in Request |->
              IF pc[r] # "done" THEN "open"
              ELSE IF reply[r] \in {"created", "existing"} THEN "answered"
              ELSE "error"]

Promise == INSTANCE IdempotentPosting WITH posted <- Posted, status <- Status
PostingIsIdempotent == Promise!Spec

(* "Account would have negative balance after this transaction": a voucher  *)
(* is refused for insufficient balance only when some account it credits    *)
(* really holds less than the amount.  It does not hold: the balances are   *)
(* looked up by a number among the driver's strings.                        *)
RefusalIsJustified ==
    [][\A r \in Request :
          reply[r] = "none" /\ reply'[r] = "insufficient" =>
              \E i \in 1 .. Len(LinesOf(r)) :
                  /\ LinesOf(r)[i].credit > 0
                  /\ 10 * Net(RowsOf(LinesOf(r)[i].account)) < LinesOf(r)[i].credit]_vars

(* A locked fiscal period gains no journal rows.                            *)
LockedPeriodIsFrozen ==
    [][\A y \in locked : {e \in journal' : e.year = y} \subseteq journal]_vars
-----------------------------------------------------------------------------
(* The inductive invariant behind OneTransactionPerSlot, AnswersAreDurable, *)
(* HistoryIsFinal and PostingIsIdempotent.                                  *)

Claiming == {"header", "lines", "commit"}
Numbered == {"lines", "commit"}

(* The uncommitted idempotency row of a slot is its one writer's, and no    *)
(* committed row is there beside it.                                        *)
ClaimIsExclusive ==
    /\ \A r \in Request : pc[r] \in Claiming => claim[SlotOf(r)] = r
    /\ \A s \in Slot : claim[s] # Nobody =>
          /\ idem[s] = NoRow
          /\ pc[claim[s]] \in Claiming
          /\ s = SlotOf(claim[s])
    /\ \A r \in Request : pc[r] = "commit" => work[r].linked

(* An id belongs to one open or committed transaction.                      *)
IdsAreUnique ==
    /\ \A r \in Request : pc[r] \in Numbered =>
          /\ work[r].id \in TxnId
          /\ work[r].id < nextId
          /\ \A t \in transactions : t.id # work[r].id
          /\ \A q \in Request : pc[q] \in Numbered /\ work[q].id = work[r].id => q = r
    /\ \A t \in transactions : t.id \in TxnId /\ t.id < nextId
    /\ \A t, u \in transactions : t.id = u.id => t = u

(* Committed keys and headers lead to each other.                           *)
KeysLeadToHeaders ==
    /\ \A t \in transactions : idem[t.slot] = t.id
    /\ \A s \in Slot : idem[s] # NoRow =>
          \E t \in transactions : t.slot = s /\ t.id = idem[s]

Unfinished == \A r \in Request : pc[r] # "done" => reply[r] = "none" /\ answer[r] = 0

PostingInv ==
    /\ ClaimIsExclusive
    /\ IdsAreUnique
    /\ KeysLeadToHeaders
    /\ AnswersAreDurable
    /\ Unfinished
=============================================================================

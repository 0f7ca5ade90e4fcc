# A verification project for the quantum ledger

TLA+ models, TLC checks and TLAPS proofs of the ledger in `src/`: a TypeScript
service over PostgreSQL that posts double-entry vouchers for several companies,
with the modules an Indian accounting office needs around it (GST, e-invoices,
payroll, TDS, stock, bills, bank statements).

Nearly everything that is hard about this program happens between SQL
statements. Every request runs in one database transaction under READ
COMMITTED, so requests interleave statement by statement. What protects the
books is a handful of row locks, unique indexes, constraints and triggers, and
whether the ROLLBACK of a failing request takes back what it should. The models
are therefore written at that grain: **one action per SQL statement**, with the
locks, the waits, the constraints and the triggers of the tables it touches.
What keeps its state outside the database (the report cache, the rate limiters,
the connection pool, the XML stream of an import) is modelled at the grain of its
own commands and callbacks, and what keeps no state (taxes, pay, splits, scores)
as operators that a run evaluates over bounded inputs.

Contents: [1 The system](#1-the-system) ·
[2 Modules](#2-the-modules) ·
[3 What the runs check](#3-what-the-runs-check) ·
[4 What is proved](#4-what-is-proved) ·
[5 What the code does not do](#5-what-the-code-does-not-do) ·
[6 Plan](#6-plan) ·
[7 Running it](#7-running-it)

## 1 The system

`src/src/api/server.ts` mounts six routers: health, auth, vouchers, einvoice,
payroll, OCR and tally-import behind them. The other services under `src/src`
(bills, banking, TDS, job work, ...) are exported and called by nobody inside
the repository but each other; they are written the same way, a class over one
`PoolClient`. All state is in PostgreSQL, except a few in-memory maps (GSP
tokens, rate-limit counters, the report cache) and Redis.

`withClient` / `withTransaction` (`src/src/db/pool.ts`) are common to all of
them: BEGIN, the handler, COMMIT, or ROLLBACK when it throws. Row-level
security reads the session settings they write.

| Component | State | Operations | Interacts with | What is hard | What makes it correct |
|---|---|---|---|---|---|
| Posting transaction `services/transaction-manager.ts`, `schema.sql` | idempotency_keys, transactions, journal_entries, account_balances | `create` | voucher strategies, lock trigger, balance trigger, deferred double-entry trigger | same key twice at once, lock order, retry after a lost answer, failure between two statements | one transaction per key; answers are durable; all or nothing; debits = credits; balances = journal; no overdraft; every call ends |
| Connection pool `db/pool.ts` | five clients, waiters, session settings | `withClient`, shutdown | every route, sweeps, GSP tokens | a caller that holds a client asks for another; drain beside running work | every caller ends; a client carries its caller's company or none |
| Voucher strategies `vouchers/` | none | `translate` of five types | posting | amounts and accounts of a line | lines balance; input tax is not lost |
| Fiscal periods, year end `security_schema.sql`, `year-end/` | fiscal_periods, year_end_closings | lock, reopen, close | posting | lock between INSERT and COMMIT; sums, lines and record of a closing taken at different moments | a locked period gains nothing; closed once; what was closed is zero; the profit is retained |
| Sessions `api/auth/`, `refresh_tokens.sql` | users, companies, refresh_tokens | register, login, refresh, logout, verify | every route | one token presented twice at once; order of row locks | single use; one live token per family; one registration per e-mail, whole or not at all |
| E-invoices and e-way bills `einvoicing/einvoice-service.ts`, `einvoicing_schema.sql` | e_invoice_details, eway_bill_details, api_retry_queue | generate, cancel, re-enqueue, process an item | portal (IRP, NIC), retry worker | lost answers, duplicates, cancellation window, enqueue vs. process | one active item per operation; results and documents agree; nothing lost |
| Retry worker `einvoicing/retry-worker.ts` | items a sweep holds in memory | sweep, concurrent items, shutdown | e-invoices, pool | several sweeps; crash in the middle; connections for nested calls | attempts are bounded; shutdown ends |
| GSP tokens, payloads, distances `einvoicing/` | token map | getToken, the two payloads, the distance | portal, pool | grouping of tax entries by code | what is declared is what was invoiced |
| Sales invoice route `api/routes/voucher.routes.ts` | stock movements, tax entries | POST /sales, preview | posting, stock, GST | several services in one transaction | all of a sale or none; the preview is what is charged |
| Inventory `inventory/`, `stock_accounting_triggers.sql` | stock_valuations, stock_layers, movements | receive, issue, transfer, adjust | sales, job work, manufacturing | stock checked without a lock; quantity vs. layers | quantity = movements; layers = what layered movements left |
| GST `gst/` | none (rates are read) | calculate, validate | sales, e-invoices | rounding; intra vs. inter state | the place of supply costs a paisa at most; a misread GSTIN is caught |
| Bill-wise accounting `billing/` | bills, adjustments, advances | create, adjust, advance, consume | posting | credit limit without a lock; settling in any order | pending + settled = original |
| Point of sale `pos/` | invoices | sell | stock, posting | MAX + 1 numbers | numbers are unique; receipts balance |
| Payroll `payroll/` | runs, lines, structures, attendance | compute, approve, change terms | posting | double approval; re-run of a posted run | one journal per approval, equal to the register |
| TDS/TCS `tds/` | trackers, deductions, challans | deduct, deposit, collect | posting, vendors | lost update of a cumulative amount | deducted past the threshold; deposited once |
| Banking `banking/` | statement entries, matches | import, score, post | posting | entry changed in between | one voucher per entry, equal to it |
| OCR `ocr/` | documents, extractions, drafts | upload, extract, amend, approve, reject | posting, vendors | overlapping reviews of one document | document, extraction and draft agree; nothing doubtful skips review |
| Tally import `tally-import/` | jobs, mappings | masters, vouchers in batches | posting | callbacks that nobody waits for beside a stream | vouchers do not mix; every element and every error is counted once |
| Manufacturing `manufacturing/`, job work `jobwork/` | orders, challans, vendor godowns | produce, send, receive | stock, posting | first challan of a vendor; overlapping receipts | receipts add up; COMPLETED means received |
| Forex, assets `forex/`, `assets/` | open items, rates, runs; assets, runs | register, revalue, settle; depreciate | posting | runs that overlap each other and settlements | rows match the last run; a value is not depreciated below zero |
| Cost centers, budgets, interest `costing/`, `budget/` | allocations, provisions, scenarios | allocate, provision, post, promote | posting | replace by delete and insert; provision vs. post | allocations add up to 100 %; posted once; forecasts stay out |
| Analytics cache `analytics/` | entries with a time to live | get, refresh, invalidate | all writers | report computed before an invalidation, stored after it | nothing served past its time; invalidated keys are gone |
| Reports `services/` | none | trial balance, ledger, snapshot, rebuild | posting | several queries beside commits | a trial balance balances once posting rests; nothing counted twice |
| Rate limiting `api/middleware/` | counters in memory or Redis | check and count | every route | count and add are two commands | an excess is only what ran concurrently |
| HTTP shell, frontend, migrations, deployment | – | – | – | the frontend's 401 interceptor repeats requests and refreshes concurrently | – |

`PROJECT.json` lists every component with its files and status, and under
`hazards` the places in the code where these difficulties bite, line by line.

## 2 The modules

| Module | Lines of code it stands for | What it is |
|---|---|---|
| `Ledger` | `TransactionManager.create`, `handleCreateTransaction`, `withTransaction`, the tables and triggers of `schema.sql` and `security_schema.sql` | the posting transaction, statement by statement |
| `Vouchers` | `src/src/vouchers` | the strategies as operators from a payload to lines |
| `IdempotentPosting` | the promise in the comments of `create()` | the abstract specification that `Ledger` implements |
| `Sessions` | `AuthService`, `auth.routes.ts`, `refresh_tokens.sql`, `verifyAccessToken` | register, login, refresh with rotation, logout |
| `EInvoicing` | `EinvoiceService`, `RetryWorker.sweep`, `einvoice.routes.ts`, `einvoicing_schema.sql` | documents, queue, sweeps, portal |
| `Stock` | `stock_accounting_triggers.sql`, `inventory_schema.sql` | movements and the statements of their triggers |
| `Trading` | `voucher.routes.ts` (sales), `jobwork/`, `manufacturing/`, `inventory/`, `pos/` | the services that move stock, composed with `Stock` |
| `Gst`, `Payloads` | `gst/`, the journal of `pos/`; `payload-mapper.ts`, `distance-service.ts` | tax of a line; what is declared of it |
| `Reports` | `reporting-service.ts`, `balance-service.ts`, `reconciliation.sql` | queries of a report beside commits; rebuild |
| `YearEnd`, `Assets`, `Forex` | `year-end/`, `assets/`, `forex/`, `edge_cases_schema.sql` | closing, depreciation, revaluation beside each other |
| `Payslip`, `Payroll` | `payroll/`, `payroll.routes.ts`, `payroll_schema.sql` | one employee's pay; runs and approvals |
| `Bills`, `Costs`, `Tds`, `Provisions` | `billing/`, `costing/`, `tds/`, `budget/` and their schemas | overlapping calls of one party, entry, vendor, company |
| `ConnectionPool` | `db/pool.ts`, `RetryWorker`, `gsp-auth.ts`, the signal handlers | who holds and awaits a client |
| `OcrReview`, `BankStatements`, `TallyImport` | `ocr/`, `banking/`, `tally-import/` with their routes and schemas | what comes in from outside |
| `AnalyticsCache`, `RateLimits` | `analytics-cache.ts`, `rate-limiter*.ts` | state outside the database |
| `MCLedger`, `MCSessions`, `MCEInvoicing`, `MCGoods`, `MCOffice`, `MCIntake` | – | instances for TLC |
| `LedgerProofs` | – | theorems about `Ledger` |
| `EInvoicingProofs` | – | theorems about `EInvoicing`, and about `Gst` and `Payloads` |
| `AccessProofs` | – | theorems about `Sessions` and `RateLimits` |
| `StockProofs` | – | theorems about `Stock` and `Trading` |
| `BooksProofs` | – | theorems about `Reports`, `YearEnd`, `Assets` and `Forex` |
| `IntakeProofs`, `OfficeProofs` | – | theorems about `OcrReview`, `BankStatements`, `AnalyticsCache` and `TallyImport`; about `Bills`, `Costs`, `Tds`, `Provisions`, `Payslip`, `Payroll` and `ConnectionPool` |
| `SumTheorems` | – | sums over finite sets, for the theorems about the books |

Conventions. `pc[p]` is the statement a call stands before; `"idle"` and
`"done"` are before its BEGIN and after its COMMIT or ROLLBACK. What a
transaction wrote and did not commit is in variables of its own (`work`,
`delta`, `claim`; `revoking`, `rowLock`; `draftItem`, `draftDoc`); COMMIT moves
it to the tables in one step and ROLLBACK drops it. A wait for a row lock or for
another transaction's uncommitted unique key is a guard. An action that may be
interrupted at any point has `Fail` beside it: the process or its connection
dies and PostgreSQL rolls back. Mutants (operators commented as such) are small
variations of the code that the runs must be able to tell from it (section 3).

### Ledger

A request is a call of `create()`; a client's retry is a second request with the
same key. In order: `CheckIdempotency` (answer the existing id),
`Translate` (strategy, `resolveAccountIds`), `LockAccount` (SELECT ... FOR
UPDATE: the rows are locked one by one in no particular order),
`AccountsLocked` (unknown account), `ValidateBalances`, `RecordIdempotencyKey`
(INSERT; waits for an uncommitted row of the key and fails on a committed one),
`InsertTransaction` (a sequence value, consumed even by a rollback),
`InsertJournalLine` (CHECKs, the fiscal lock trigger, the upsert of
`account_balances` with its row lock), `FinalizeIdempotency`, `Commit` with the
deferred double-entry trigger. `BreakDeadlock` is PostgreSQL's detector;
`SetPeriodLock` locks or reopens a period.

Amounts are in tenths of a paisa, one digit more than NUMERIC(18,2) stores, so
that the rounding on INSERT is visible. The seed's books
(`MCOpening`, `MCOpeningBalance`) are the initial journal, the balances being its
sums (`OpeningSumsAssumption`). `Input` and
`Translated` name what each request asks for; an ASSUME of `MCLedger` compares
them with what `Vouchers!TranslateVoucher` makes of the payloads.

`Int8Parsed` is FALSE as committed: node-postgres returns BIGINT columns as
strings and the repository installs no parser. `validateBalances` keys a Map by
those strings and looks it up by the payload's numbers, so every balance of an
account named by number counts as 0. All runs of `Ledger` keep it FALSE. In
`ledger_contention` the accounts that are credited, and therefore tested, come
from a row and are found; in `ledger_refusals` a payment credits the bank its
payload names, and is refused whatever the bank holds. The theorems hold of both
values.

### Sessions

A call registers, logs in, refreshes a token or logs out. Refresh: `LookUp`
(SELECT ... FOR UPDATE and the tests on the row), `RevokeFamily` and
`ThrowReuse` on reuse, else `RevokeOld`, `Rotate` (UPDATE of the family's other
rows in one statement), `Insert`, `Commit`. A caller may lose the reply of a committed
call and present the old token again. Passwords and signatures are outcomes. A
token is its row; `expired` is what the clock did to it. A registration goes
statement by statement: `RegisterCheck` (SELECT of the e-mail), `RegisterCompany`,
`RegisterUser` (an INSERT that waits for another call's uncommitted row of the
same e-mail and fails on a committed one), `RegisterOwner`, and the login it ends
with, in the same transaction. `users`, `companies` and `owners` are the committed
rows, each with the call that wrote it, so that two registrations of one address
differ; what is not committed is in `draft`. `Int8Parsed` appears again: login
signs ids as the driver returned them, and the login of `register` compares a
parsed company id with an unparsed one, so that as committed every registration
is turned away and rolled back (`RegisteredAreLoggedIn` states what it should do).
`sessions_refresh` sets it TRUE to reach what is behind.

### EInvoicing

A call is one of the four POST routes, inside `withTransaction`; a task is one
item of one sweep, inside a transaction of its own. Several tasks may come from
one sweep or from several processes; `Sweep` takes no lock beyond its statement.
`MarkInProgress`, `Post`, then `Finish` and `Record`, `GiveUp` and
`RecordFailure`, or `Retry`. A document is `none` before its INSERT; `late` holds
the e-invoices whose 24 hours are over. The government portal is external: it
registers a document once, cancels a registered one once, and may refuse
anything; its answer may be lost after it acted.

Two constants name SQL statements that fail as committed and hide everything
behind them. `ParamsTyped`: `jsonb_build_object(..., 'actor', $3)` gives
PostgreSQL no type for `$3`. `ErrorsAreJson`: plain text or `''` is written to
the JSONB column `last_error_body`. With both FALSE no e-invoice is ever
submitted, no e-way bill is cancelled and no failure is ever recorded. The runs
that check the design set them TRUE; `einvoicing_sweeps`, which shows a
divergence, keeps them as committed.

### Stock, Trading, Gst, Payloads

`Trading` extends `Stock`. A service is the list of its statements; a statement
that inserts a movement runs its triggers, one action each: `CheckQuantity` reads
the quantity without a lock, the layer trigger creates or consumes layers first
in first out, the quantity is an upsert. What a call wrote is in `tx[c]` until
its COMMIT. Statements that fail as committed (a NOT NULL, an operator that does
not exist) are in `rejected`, so that a run has both the refusal and the
behaviour behind it. A receipt of PACKING or CONSUMABLE lines writes rows and
moves nothing. A counter's number is the largest it sees plus one. `Payloads` extends `Gst`: the tax entries the calculator
produces are what the mapper groups, so that what is charged and what is
declared are compared over the same lines. The rows of a transaction are a
function of line and component, in the order of their ids, since the mapper takes
the first row of a code for all of them.

### Reports, YearEnd, Assets, Forex

The four read committed rows by several statements while others commit. `Reports`
has a clock, because `created_at` is the beginning of a transaction and dates are
cut at 23:59:59. In `YearEnd` a closing's sums, its lines, its log row and the
lock of the periods are separate statements. In `Assets` and `Forex` a run keeps
what its cursor read, holds the rows it updated until COMMIT, and a call may have
several runs (both acts; several months). Every such module has a `saw`: how many
commits there were when a run began. Where the code's protection is a read
without a lock, a property says *once, unless the two overlapped*; overlap is
expressed with `saw`.

### Payroll, Bills, Costs, Tds, Provisions

Each call is one transaction, `work`-style state until COMMIT, row locks where
the code takes them (`FOR UPDATE`, an UPDATE, an upsert). The trigger that posts a
payroll is part of the approval's UPDATE. `Payslip` and the arithmetic of `Costs`
and `Tds` are operators over integers (paise, hundredths of a percent) with the
rounding of the code at each place it rounds. Pay-related statements that are
refused as committed are a branch (`PayFail`). The last tax slab ends at the
constant `LastSlabTo`: the seed says 9 999 999 999 and the instance 999 999 999,
because TLC's integers have 32 bits; the theorem is for any.

In `Costs` the deferred trigger's sum (`CostCheck`) and the COMMIT that makes rows
visible (`CostCommit`) are two steps, as they are in PostgreSQL: each trigger sees
what was committed when it ran and its own call's rows. In `Tds` the query for a
section's rate names `is_active`, a column `tds_section_rates` does not have
(`tds-deduction-engine.ts:252`), so as committed every deduction with a valid PAN
and no certificate is refused and leaves nothing (`RateRefused`). A setting's
`rated` says whether the query is answered; the instance has both, since without
it no tracker, entry or challan would ever exist.

### ConnectionPool

Callers are requests, sweeps and items. A request takes a client, sets its
context, works, clears the context, releases; a sweep keeps a client while its
items take theirs, and an item may ask for a second one for its token. `Serve`
hands a client to the first waiter, `TimesOut` answers a waiter after three
seconds, `Drained` ends the process. A broken connection, an error or a signal
may come anywhere. Queue item, invoice and portal are `EInvoicing`'s.

### OcrReview, BankStatements, TallyImport, AnalyticsCache, RateLimits

`OcrReview` has one document type with up to one extraction each; what the model
read is any of a few field sets. `BankStatements` has the import with its search
for duplicates, the score of a candidate (an operator), and the voucher.
`OcrReview.StartPipeline` models `updateStatus` as it is meant:
`document-service.ts:118-128` uses one parameter as an enum and untyped in
`jsonb_build_object` and `IS NOT NULL`, and PostgreSQL may refuse to infer a type for
it; `OcrFail` covers the refusal, after which nothing of the call is left.
`TallyImport` is an event loop: the events of the stream and the queries of the
callbacks, which the parser does not wait for, interleave in every way. `sax` is
external; after an error it goes on, as `tally-xml-parser.ts` says it does. The
queries of one client run in the order they were issued (`Issued`, `MyTurn`), so
that UPDATE, COMMIT and ROLLBACK come after those the callbacks had asked for
before. A batch is committed by the callback that filled it while others go on
adding to the same array. The look-ups of `mapVoucher` are one step. `AnalyticsCache` is the in-memory store with SCAN by offset and a clock; the
entries are a set, each with its place in the order of the `Map`;
`RateLimits` the three limiters, Redis command by command; the memory's timestamps
are a set, each with its place in the order of `push`.

## 3 What the runs check

All runs are exhaustive over their instance. Times are for two workers.

| Run | Expect | Instance | Shows |
|---|---|---|---|
| `ledger_contention` | pass | 4 calls: a sale, its retry under the same key, another sale that competes for the sales account, a receipt from an unknown account; fairness; 51 814 states, about 100 s | `PostingIsIdempotent` (the refinement of `IdempotentPosting`: one posting per key), `HistoryIsFinal`, `AccountsSerialised` (an uncommitted balance belongs to the holder of the account's lock), `NoOverdraft`, `EveryRequestEnds` |
| `ledger_tenants` | pass | 5 calls of 2 companies: the same key twice, a voucher that does not balance, a line that rounds to zero, an unknown type; 804 408 states, about 90 s | `AnswersAreDurable` (an id given to a caller names a committed transaction of its own tenant), `BooksAddUp` |
| `ledger_refusals` | violation | a payment and a purchase out of one bank account | `RefusalIsJustified`: a payment the bank could cover is refused |
| `ledger_period` | violation | as `ledger_contention`, with two years | `LockedPeriodIsFrozen`: a locked period gains rows |
| `sessions_refresh` | pass | `Int8Parsed`; 3 calls, 2 e-mails, one of them registered; fairness; 157 924 states | `SingleUse`, `ExchangesLiveTokens`, `OneLivePerFamily`, `RegistrationIsAtomic`, `EveryCallEnds` |
| `einvoicing_items` | pass | 2 calls, 2 tasks, an e-invoice and an e-way bill, 2 attempts, repaired statements; 736 366 states | `OneActivePerOperation`, `GeneratedIsRegistered`, `NoItemIsLost`, `AttemptsAreBounded`, `SubmissionIsAtomic`, `ResultsAreAtomic` |
| `einvoicing_queue` | pass | 2 calls, 2 tasks, one e-invoice; fairness; 190 791 states, about 115 s | `EveryProcessEnds`: no call and no task waits for ever |
| `einvoicing_sweeps` | violation | 1 call, 2 tasks, as committed | `FinishedItemsAreNotPosted`: a finished item is posted again |
| `goods` | pass | seven suites; 315 281 states, about 40 s | `StockAddsUp`, `ServicesAddUp`, `ChargedIsDeclared`, `ReportsAddUp`, `ClosingAddsUp`, `DepreciationAddsUp`, `RevaluationAddsUp` |
| `office` | pass | seven suites; fairness of the pool's callers; 58 036 states, about 25 s | `PayrollAddsUp`, `PayslipAddsUp`, `BillsAndAdvancesAddUp`, `SharesAddUp`, `TaxIsTracked`, `ProvisionalIsPostedOnce`, `ContextIsOwn`, `EveryoneEnds` |
| `payroll_approval` | violation | the instance of `office` | `OnlyComputedIsApproved`: a posted run is posted again |
| `intake` | pass | five suites; 634 801 states, about 40 s | `ReviewIsConsistent`, `StatementsAreMirrored`, `CacheForgets`, `LimitsHold`, `ImportAddsUp` |

**Stated and not kept.** Ten more definitions state what a comment of the repository
says, or what its books need, and the code does not keep. Their comments say "it does
not hold", section 5 says why, and no run lists them; each is violated when it is put
in the place of the properties of the configuration named.

| Definition | Configuration | What TLC finds |
|---|---|---|
| `Sessions!RegisteredAreLoggedIn` | `Sessions_refresh`, with `Int8Parsed = FALSE` | the login of a registration turns its new owner away |
| `Forex!StandsAtClosingRate` | `Goods` | two months leave an item at more than its closing rate |
| `Costs!NeverOverAllocated` | `Office` | two first allocations of one entry both commit 100 % |
| `Tds!TrackerIsCumulative` | `Office` | of two overlapping invoices the tracker keeps one |
| `Tds!DepositedByOneChallan` | `Office` | two challans pay one deduction |
| `Tds!PanIsCharged` | `Office` | a vendor with a valid PAN is charged nothing |
| `BankStatements!LinesAreStoredOnce` | `Intake` | two imports store the same line |
| `TallyImport!MastersInOneTransaction` (a PROPERTY) | `Intake` | a master is written behind the COMMIT |
| `TallyImport!BatchIsOneTransaction` | `Intake` | a voucher's refused lines leave its header |
| `TallyImport!EveryVoucherHasOneHeader` | `Intake` | a voucher has no header, or two |

**Properties and their parts.** A property whose name ends the section of a module
is the conjunction of parts, each a named definition of its own with a comment;
TLC names the conjunction, and the values of its parts in the last state say
which one broke.

| Property | Parts |
|---|---|
| `BooksAddUp` | `AllOrNothing` (header, key and every line of a posting, or none), `DoubleEntry`, `BalancesMatchJournal` |
| `StockAddsUp` | `LayersMatchMoves`, `QuantityMatchesMoves`, `PreviewIsCharged` (the cost previewed is the cost consumed, if nobody was in between) |
| `ServicesAddUp` | `TradingTypeOK`, `ServicesAreAtomic`, `ReceiptsAddUp`, `CompletedIsReceived`, `NumbersRunOn` |
| `ChargedIsDeclared` | `TaxesAddUp` (`PlaceCostsAPaisa`, `CalculatorsAgree`, `MisreadingIsCaught`, `ReceiptBalances`), `TaxIsDeclared`, `ValueIsDeclared`, `BillAndInvoiceAgree`, `KnownWayIsDeclared` |
| `ReportsAddUp` | `TrialBalances`, `LedgerCountsOnce`, `SnapshotMatchesJournal` |
| `ClosingAddsUp` | `ClosedOnce`, `ClosedAccountsAreZero`, `RetainsTheProfit`, `ClosedYearGainsNothingNew` |
| `DepreciationAddsUp` | `AccumulatedMatchesRuns`, `NothingBelowZero`, `DepreciatedOnce` |
| `RevaluationAddsUp` | `LineIsClosingMinusBooked`, `NetMatchesJournal`, `UnrealizedIsLastLine`, `RevaluedOnce` |
| `PayrollAddsUp` | `PayrollTypeOK`, `PostedMatchesRegister`, `RunMatchesRegister` |
| `PayslipAddsUp` | `IncomeTaxIsMarginal`, `FundAddsUp`, `PayslipBalances`, `PayFollowsAttendance` |
| `BillsAndAdvancesAddUp` | `BillsAddUp`, `AdvancesAddUp`, `OffersWhatCanBeSettled`, `LimitHoldsForOneBill` |
| `SharesAddUp` | `AllocatedInFull`, `SplitIsExact` |
| `TaxIsTracked` | `TcsIsMarginal`, `TrackedTdsIsDeducted`, `TrackedAmountIsBooked`, `DeductedPastThreshold`, `DepositedOnce` |
| `ProvisionalIsPostedOnce` | `ConvertedOnce`, `ProvisionedOnceADay`, `ForecastsStayOut` |
| `EveryoneEnds` | `CallersEnd`, `ShutdownEnds` |
| `ReviewIsConsistent` | `DocumentFollowsReview`, `DraftIsLastBooked`, `OwnVendorsAreCredited`, `NothingDoubtfulSkipsReview` |
| `StatementsAreMirrored` | `ImportedLinesAreThere`, `OneVoucherPerEntry`, `VoucherMirrorsEntry`, `BetterCandidatesComeFirst` |
| `CacheForgets` | `InvalidatedIsGone`, `ServedWithinTtl` |
| `LimitsHold` | `ExcessIsConcurrent`, `BucketIsBounded`, `RetryAfterIsHonest` |
| `ImportAddsUp` | `NoForeignEntries`, `MastersAreCounted`, `ErrorsAreCounted` |

Each property is also checked against a mutant: a variation of one mapped
definition, the way a plausible bug would change it (a lost FOR UPDATE, a
counter written absolutely, a missing ROLLBACK), with which TLC finds it
violated. The mutants stand before the definitions they change.

**Suites.** `MCGoods`, `MCOffice` and `MCIntake` extend several modules that share
no state. Each behaviour is about one of them: a variable chosen in `Init`
(`focus`, `suite`) lets its actions run and leaves the others' variables at one
value. The state spaces add up instead of multiplying, and nothing is said about
one module's steps between another's; where components do interact they are
composed inside a suite (`Trading` with `Stock`, `Payloads` with `Gst`, `Payroll`
with `Payslip`, items, sweeps and tokens in `ConnectionPool`).

- *trading*: three calls over two godowns and a vendor's: two sales of a bin
  under one key beside production; a sale beside an adjustment and a transfer;
  a challan of two goods and two receipts at a time; first challans to one vendor;
  three counters; the statements refused as committed. With failures anywhere:
  a service leaves all or nothing, quantities equal movements, layers equal the
  layered movements, receipts add up to `received_quantity`, COMPLETED challans
  are received, committed counter numbers run on, the preview is what is charged.
- *gst, payload*: all seeded rates on values around each rounding; GSTINs with
  one character misread; invoices of one and two lines, one or two codes, within
  and between states. Tax and value are declared in full (for the cases section 5
  excludes, the property says so), e-way bill and e-invoice agree.
- *reports*: three postings over two days and two years beside one report or a
  rebuild.
- *yearEnd, assets, forex*: four calls each; two closings beside postings, a
  reopened year; runs of both acts over three years; two months' revaluations
  beside settlements of one item, a backfill, new rates, and a chart of accounts
  without a loss account.
- *payroll, slips, bills, costs, tds, provisions*: three or four overlapping calls
  and, for the pay slip, salary structures around every limit (15 000 for
  provident fund, 21 000 for insurance, each slab).
- *pool*: two or three clients, sweeps with items that need a token, requests of
  two companies, errors, broken connections, a signal.
- *OCR, bank, cache, limits, tally*: three or four overlapping calls each; two
  limits per limiter; files of up to four elements, broken and repeated ones
  among them, whose callbacks run behind the parser in every order.

**Bounds.** Requests, calls and tasks are bounded by their sets; nothing else
grows without them. Three calls are enough for a first call, its retry and a
competitor that each use what the others leave, and for a chain of two
refreshes with a reuse. Two tasks are what it takes for a stale pick; two
attempts (`MaxAttempts = 2`) give one retry and one exhaustion, and attempts
still go beyond the bound by one stale sweep, which `AttemptsAreBounded` states
exactly (one less is violated). `ledger_period` and `ledger_refusals` have two years, the one of the opening
books and that of the vouchers, and the two passing runs of `Ledger` one, so that
a posting adds to a balance that is there. Two or three clients stand for five: a
sweep and its items exhaust them, which is the case the number matters for.
`ScanCount` is 1 or 2 instead of 100, so that a scan has several pages. Clocks
(`LastTick`, `LastSecond`, `Day`) run long enough for an entry to expire, a window
to pass and a report to be dated before, on and after a posting.

**Fairness.** `Ledger` and `Sessions` assume weak fairness of the statements of
a call: the server runs what it accepted to its end, and PostgreSQL grants a
lock that is free. `Ledger` adds the deadlock detector, which PostgreSQL runs
after `deadlock_timeout`; without it two vouchers over the same accounts can
wait for each other. `Sessions` and `EInvoicing` need no detector: the runs show
that their lock orders cannot form a cycle. `EInvoicing` assumes strong fairness
per process, because other tasks may take a row again and again while one waits,
and PostgreSQL queues waiters in order of arrival. `MCOffice` assumes weak
fairness of each caller's next step, of the pool serving a waiter while a client
is free, of the pool's timer, of a sweep starting its items, and of the drain:
these are the event loop and node-postgres. Nothing is assumed of failures, new
requests, the clock, expiry, broken connections, signals, or sweeps:
`RetryWorker.start` has no caller, so nothing promises that a sweep ever runs.

**Deadlock checking** is on for `Ledger`. It is off elsewhere: those instances
stop when every call is done.

## 4 What is proved

The theorems hold for all values of the constants (any sets of requests, calls,
tasks, accounts, documents; any books, settings and pool sizes; either value of
`Int8Parsed`, `ParamsTyped`, `ErrorsAreJson`) under the named assumptions of the
modules: process sets are finite and disjoint from the null values; `Translated`
is a sequence of lines; the opening rows are finite and `OpeningBalance` holds
their sums; the old documents are such as the OCR pipeline leaves them
(`OcrAssumption`); the weights of the bank rules are not negative
(`BankAssumption`); income and expense accounts are finite, disjoint and not
retained earnings (`YearEndAssumption`); a day has more than two ticks
(`ReportAssumption`); lines of goods name bins and have positive quantities
(`GoodsAssumption`); the settings have the shape their handlers parse. TLC
evaluates every one of them on the instances.

`TypeOK` of the first three modules and `OneTransactionPerSlot` are proved and
therefore in no run; the other properties the theorems are about are checked by
runs as well. The new invariants were checked by TLC before they were proved.

**LedgerProofs, idempotency.** The inductive invariant is `TypeOK` with
`PostingInv` (`Ledger`, last section) and `LocksHeld`. `OneTransactionPerSlot` is
not inductive alone: that two calls do not both insert a header depends on the
unique index, i.e. on `ClaimIsExclusive` (the uncommitted row of a key has one
writer and no committed row beside it), and on ids not being reused
(`IdsAreUnique`, `KeysLeadToHeaders`). A lemma `StepKinds` sorts every step of
`Next` into the few ways it can touch those variables, so that each conjunct is
proved once per kind. From it: `TypeCorrect`, `OncePerSlot`, `DurableAnswers`,
`FinalHistory`, `Serialised`, and `Implements`: initial states map to initial
states of `IdempotentPosting` and every step maps to a step or a stutter.

**LedgerProofs, the books.** `WholeBooks` is `BooksAddUp` in every state.
`BooksInv` adds to it what an open transaction owes: `AddsUp(r)` says that the
drift and the balance changes kept for request r are the sums over the rows it
has inserted so far (`Written(r)`), and that at COMMIT these are the rows of all
its lines. A line adds one row to one balance; the deferred trigger lets only a
drift of zero commit; and the rows of a commit are new to the journal, because
their transaction id is (`PostingInv`), so that two disjoint sums add up
(`SumOfBoth`). `NeverOverdrawn` keeps, with `OverdraftInv`, what
`validateBalances` saw: from the check to the COMMIT every account r credits
still has what the line takes (`Covered`), because `LocksHeld` keeps every other
request from committing rows of an account r has locked. Its hypothesis
`OneCreditPerAccount` is needed: `validateBalances` looks at the lines one at a
time, and two credits of one account, each covered, may together overdraw it.
An ASSUME of `MCLedger` evaluates it on every instance.

**SumTheorems.** The folds of the community modules sum with
`SumFunctionOnSet`, a CHOOSE over recursive functions. The library's induction
theorems take an operator as a parameter, which the provers cannot instantiate;
`FromZeroOn` states induction for a *set* of numbers, from the well-foundedness
of `<` on `Nat`. With it: a sum does not depend on the order in which elements
are taken (`AnyOrder`), unrolls at any element, and adds over disjoint sets.

**AccessProofs, sessions.** `SessionInv` = `TypeOK`, `LocksExclude`, `ExchangeInv`,
`RowsOnly`, `ParentsRevoked`, `SingleUse`. A refresh holds the row of its token
from the SELECT to the COMMIT (`ExchangeInv`), row locks exclude each other, and
a token with a successor is revoked; so a second exchange must find it revoked.
`FamilyInv` adds `Numbered` (rows, and rows about to be committed, have numbers
of their own, and a family is named by a number already given) and proves
`OneLivePerFamily`: a first token founds a family nobody else has, and an
exchange commits the revocation of the old token with the new one. From them:
`TypeCorrect`, `ExchangedOnce`, `ExchangedLive`, `OneLiveToken`.

**AccessProofs, registrations.** What a registration has written and not committed
is decided by the statement it is at (`Registering`), so that a COMMIT writes
company, user and owner and nothing else ends with any of them. Of two calls that
have inserted the same e-mail at most one is uncommitted, and then no committed user
has it (`EmailsApart`): the first SELECT alone does not give that, since both may find
the address free; the UNIQUE index and its wait do. From it: `AtomicRegistration`, for
either value of `Int8Parsed`.

**AccessProofs, limits.** `RateInv` says what each limiter's room is taken by. In Redis
it is the set and those who were counted in and have not yet added themselves
(`Crowded`): together at most max, and one more for every request that ran beside
another. While none ever did (`Alone`), whoever was let in is in the set, or in the
memory, until no window reaches him (`Recalled`), so no window holds more than max
(`Windows`); and a refusal was given before a full set, of which fewer than max are
left when the wait is over (`RedisIsTrue`, `MemoryIsTrue`). For the bucket, `Filled`
bounds what it let in from any time on plus the tokens it still has by max plus the
refill since; once the bucket is dropped, two windows later, what it let in is within
the refill alone (`Dropped`). The rest is arithmetic of a floor: max tokens at once
and a window's refill are less than twice max (`Bursts`). From it: `LimitsKept`. The
proof found `RetryAfterIsHonest` too strong as it stood: a request whose ZADD was
carried out and whose EXPIRE failed may be refused by the memory and still take a
place in the set for a window. TLC confirmed it with a fourth request, and the
premise now excludes it by name. Assumed (`RateAssumption`): max and window are
positive, as in `CONFIG`, and the requests are finitely many.

**EInvoicingProofs.** `QueueInv`: every version of a row, committed or in a
draft, is compared with every version of another (`Unique`), which is what a
unique index and its waits enforce; a task's draft is a version of the row it
picked (`TaskDrafts`); whoever is about to write GENERATED has the portal's
registration (`Registered`), which the portal never forgets; and a task at its
COMMIT holds the status that goes with its result (`Results`). From it:
`TypeCorrect`, `OneActive`, `NothingLost`, `ShownIsRegistered`, `AtomicResults`.
For `BoundedAttempts` the bound is turned into a `Budget`: the attempts of a row,
the tasks that read an older count and may still put it back, and the sending that
is to come fit into `MaxAttempts` and the number of tasks; a task that counts an
attempt uses up its own place in it. `SubmitInv`, for `AtomicSubmission`, says for
each statement of a call what it has written when it gets there.

**EInvoicingProofs, what is declared.** `PayloadSpec` computes one thing of `Gst` or
`Payloads` per behaviour, so each of its actions establishes `ChargedIsDeclared`
(`ComputedRight`); the work is in the operators. A tax is compared with its two
halves by bounds on both floors (`HalvesRound`). A character counted twice stays
below the base and still differs from any other (`DoubledDiffers`), so a misread one
moves the sum by less than the base, and the digit with it (`DigitsDiffer`). The
amounts of all rows are summed three ways, by line (`TaxByLine`), by code
(`GroupsAddUp`) and by tax (`TaxesAreAll`), and therefore agree; lines are paired one
to one with their codes (`ValuesByCode`) or their values (`ValuesDistinct`) where no
two are alike. From it: `DeclaredInFull`. Assumed (`GstAssumption`,
`PayloadAssumption`): every rate has an exact half in hundredths of a percent, as all
of `gst_seed.sql` have (the database function rounds the half of 0.25 % and the
service does not); the base of check digits is even, as 36 is; values, rates and
cesses are whole numbers. The proof corrected one statement: `KnownWayIsDeclared` took
a known way to be longer than 0 km, but Google's metres are rounded to 10, and two pin
codes may share their coordinates.

**OfficeProofs, the pool.** `ContextIsOwn` needs that a client has one holder
(`OneHolder`), since the next holder would inherit the session's settings; that in
turn needs that a caller in the queue holds no client of the kind it waits for
(`Holding`), and that nobody is in the queue twice, because a timer takes out one
entry (`Queued`). From it: `OwnContext`, `OneHolderEach`.

**IntakeProofs, documents.** `OcrInv` adds to `ReviewIsConsistent` what a call relies on
between its statements (`Relied`): the document it read has an extraction, the
vendor it looked up is the company's. No call takes any of them away, so the
invariant does not need the row locks; overlapping reviews still disturb each
other in the ways section 5 lists, which the property excludes by name.

**IntakeProofs, statements.** The voucher of an entry relies on the entry's row lock
(`EntriesWait`, `EntriesHaveOneHolder`), the import on lines never being taken
away (`ReadSoFar`): what it found and did not insert is still there when it
commits. The scores are compared term by term, each weight not being negative.

**IntakeProofs, report cache.** `CacheInv` says that the store is a map (`StoreIsMap`: a
key, a place and an id have one entry each) and what an invalidation knows of it
(`ScanKnows`). Between two pages the cursor is within the matching keys and those of
every entry it has passed are found (`Covers`); so when SCAN returns 0 all are, and
whatever is left of the doomed is among what is deleted. What others store meanwhile
leaves that true: a new key comes last (`CoversLast`), one that is stored again keeps
its place and gets a new id (`CoversSwap`). A deletion in front of the cursor does not,
which is why `InvalidatedIsGone` excludes it by name. The model kept the store as a
sequence filtered with `SelectSeq`, of which the prover knows no facts; it is now a
set of entries with their places. From it: `CacheKept`. Assumed (`CacheAssumption`):
the keys at the start differ, and a page has at least one.

**IntakeProofs, Tally files.** Nothing is assumed of how the stream and the callbacks
interleave. `TallyInv` says that callbacks belong to elements behind the parser
(`StartedAreBehind`) and that the list of the voucher being read holds no more than was
read of it (`ListIsOwn`): earlier callbacks empty that list, they never add to it, which
is why vouchers may lose entries and do not gain any. Every step then counts one thing
once: a closing tag an element, a callback its master, a refusal an error, and a
batch's end what its own counts say, though batches may be gone over at the same time
and share an array; a sum over the committers changes by what one of them changes
(`FailedIn`, `SumTheorems`). From it: `ImportsAddUp`. Assumed (`TallyAssumption`): the
file is a sequence, a batch has room for one, and 0, which stands for `onComplete`, is
no element. A broken voucher in a masters file is in the model: `importMasters` rethrows
in a callback nobody awaits (`tally-import-engine.ts:105`), which ends the process.

**OfficeProofs, bills.** `BillInv` adds to the property that the status of a row is
that of its amount (`StatusesFollow`), that a locked row is still what its one
holder has seen (`BillsHeld`, `BillsExclude`), and that whoever is paid is there.
So what a payment writes back is computed from what the row holds, and what
`validate_credit_limit` counts is all that is pending (`ExposureIsOwed`). The
limit needs one part more: while the party's bills are made one at a time, what
the check saw still has room for the bill when it is made (`WithinLimit`),
because payments only lower what is owed. Assumed: the rows at the start are
unpaid and within the limit (`OldBillsAssumption`).

**OfficeProofs, cost centres.** The splits are proved from the rounding up: a rounded
share is half a paisa off at most (`RoundedToHalf`), and since the last share takes
what rounding left, the shares of any class make up any amount (`SplitDoes`). The
rows of a call hold its positive shares, each once, so what the trigger sums is what
was shared out (`RowsAre`, from `SumOfPairs`). Between a call's check and its COMMIT
others may check and commit too. Of an entry that has an allocation, of more than six
paise, they do not: whoever deletes its rows holds their locks until his COMMIT, the
others wait, and find them gone. `CostKept` says so: a call past its check has deleted
every row there is, no two uncommitted calls have deleted the same row (`Apart`), and
a check that would add a second allocation to the first is refused, being off by more
than the trigger's two paise. From it:
`AllocatedWhole`. Assumed (`CostAssumption`): the entry is positive, the percentages
are no less than nothing, and an entry said to have been allocated when posted got
past `CHECK (allocated_amount > 0)`. Of an entry without an allocation nothing of the
kind is true (`NeverOverAllocated`, sections 3 and 5).

**OfficeProofs, tax deducted at source.** `TdsInv` adds who may be between which
statements: the tracker's row is inserted by one call, and before that nothing is
booked (`TrackerIsThere`); what a call read of it is at most what is booked; one
at a time, it is what the row still holds and what is listed is still unpaid
(`OneAtATime`). Booked are the invoices past the single threshold; a smaller one is
not tracked and counts nowhere, and a deduction whose rate was refused leaves nothing.
The sums over booked invoices and entries grow by one term (`BookedCounts`,
`DeductionCounts`). Assumed: taxable amounts are not negative,
being the credit of a line (`chk_one_side` of `schema.sql`); what a section's
rates and thresholds are is left open.

**OfficeProofs, interest and scenarios.** A posting relies on its row lock (`LocksHold`,
`LocksExclude`). A provisioning run relies on its cursor: a row it made is of a
bill it will not meet again, and whatever others committed for that bill and day
meanwhile has a place behind what it saw (`Fresh`), which is how two runs may
overlap without contradicting *once a day unless they overlapped*.

**OfficeProofs, payroll.** `PayInv` adds to the two properties what the calls carry:
a draft's rows are those of the employees it is done with (`RowsAreDone`), a
computation that nobody was hired during has listed everybody, and an approval has
seen a run (`SeenARun`). A computation holds the header from its upsert to its
commit and an approval waits for it; the register is summed and the journal made of
it in one statement, so what the approval had read before does not matter. From it:
`PostedAsRegistered`.

**OfficeProofs, pay slips.** Arithmetic over any components, days lost and terms. The
loop over the tax slabs is a recursive function of which slab it is at; that it exists
and unrolls slab by slab is proved by building it (`SlabTaxIs`, `SlabsCharge`), and it
is then compared with the marginal rates over the intervals of income (`SlabsAgree`).
A head that loses days is rounded where a full one is rounded down, so a rupee and a
half is between them (`LessDaysLost`), and sums of heads are off by as many times
that (`GrossFollows`, from `SumIsBetween`). The parts of the fund are off by half a
paisa each (`FundsAre`), and the two sides of the journal differ by what is deducted
voluntarily (`SidesAre`). From them: `PaidAsDeclared`. Two bounds of the statement
came out of the proof: nothing is charged above the end of the last slab
(`LastSlabTo`, 9 999 999 999 rupees as seeded, any number above the slab's beginning in
the theorem), and who has lost more than a whole period is off by what the
days lost are of it. Assumed (`PayslipAssumption`): a contract is finitely many heads
at whole rates, and what is declared is a whole number.

**StockProofs, the stock.** What a transaction carries is what its movements come to: its new
layers less what it has taken of those it holds are its movements with a layer less
those that consume (`Counted`), and its changes of `stock_valuations` are what came
in less what went out (`Changes`). A commit adds two sums up. That it does not
disturb what others hold needs that a layer has one holder (`Apart`); that no layer
falls below zero, that a holder takes no more than is left (`Reaches`), which is
what the loop over the layers, oldest first, does (`OldestFirst`): the shares of the
layers up to any of them are what they hold or what is still wanted, whichever is
less. The preview is a loop over the same layers: `LoopIs` solves its recursion, and
what it takes of each layer is that share (`Previewed`). From it:
`StockMatchesMoves`. Assumed: lines name bins and have positive quantities
(`GoodsAssumption`), as `chk_one_direction` of `inventory_schema.sql` enforces.

**StockProofs, the services.** `ServiceInv` says of every call where it stands. Its
program has the words of its service before and after its movements (`Laid`, from
`Steps`), and it has moved exactly those before its next statement (`Here`); so at
COMMIT these are all, and after a rollback none (`Atomic`). A sale past its claim
has a key, its own or a committed one (`KeyStands`). Of the counters that inserted
and did not commit there is one, and it has the next number: the rest wait for the
unique index and find their number used (`OneCounts`, `NumberStands`); that is why
numbers read without a lock leave no gap. What an IN challan will add is decided by
the statement it is past (`Receiving`). What others commit meanwhile only adds to
what came back (`Grows`), so a COMPLETED that was right when read is right when
written, though both statements are far apart. A commit adds to each line sent what
one line of the receipt brings (`RowsForSome`, `RowsForNone`), and the sum over
receipts grows by one term (`CameOfMore`). From it: `WholeServices`. The first proof
attempt failed for `ReceiptsAddUp`: received quantities were kept per item, while the
code joins on item *and* item type (`challan-service.ts:205`), so a receipt of scrap
counted for the goods. The model now keeps them per line of the OUT challan, and the
instance has goods of one item and two types.

**BooksProofs, reports.** The two rows of a transaction carry one `created_at` and
one year, so debits equal credits over the rows up to any instant
(`DatesAreEven`) and in any year (`YearsAreEven`), which is what a trial balance
sums. The lines read so far make up the rows of the leaves read so far, as long as
nothing is committed (`TrialReads`); that needs that a balance is what the journal
says at every moment (`BalancesMatch`), also between the DELETE and the INSERT of a
rebuild, where the upsert of a posting waits. A ledger's opening is what was
committed when it was read (`LedgerReads`), and its two queries part the rows at
midnight. From it: `ReportsAgree`.

**BooksProofs, closing.** What a closer carries from statement to statement
(`Sees`): its lines undo the totals of the accounts it has come to *if* nothing has
been committed since it began, and its line to retained earnings is the profit it
summed *whatever* has been. So an overlapped closing either balances, and retains
the profit on record, or is refused at COMMIT. A closed year gains nothing new
because whoever has written a posting found the year open or opened again
(`WrittenInTime`, `LockFollows`). The totals over the book are sums that later
entries do not change and an entry of the year adds to (`YearTotalStays`,
`YearTotalGrows`). From it: `YearsClose`.

**BooksProofs, depreciation.** A call is one transaction with up to two runs, so the
invariant is about what each call carries (`Carried`): what its runs so far have
taken of each asset is what it has added to that asset's row (`RunsTake`,
`TakenIn`), none of its runs was on record when it began (`OfCall`), and, if
nothing has been committed since, what it has read is the row and its own change
and leaves no asset below zero (`LeavesRoom`). The last part holds under the condition
that no two committed runs of different calls overlapped, which is that of
`NothingBelowZero`. The first proof attempt failed there: `Overlap` counted the two
runs of one call as overlapping, and the property said nothing after such a call;
it now asks for different calls. From it: `DepreciatedInFull`.

**BooksProofs, revaluation.** `FxCarried` is the same for a call's months. An open item
is owed in full (`ItemIs`), so the difference a run computes is from the rupees
booked at registration to the closing rate (`WholeIs`, `GainIs`), and nothing that
happens meanwhile changes what was booked. The rows a call holds are those its
lines are about; at the COMMIT the last run with a line for an item is found among
the call's own months or else where it was (`LatestOfBoth`), which is what makes
`UnrealizedIsLastLine` independent of settlements in between. From it:
`RevaluedInFull`. It says that a line is the closing value less the booked rupees, not
that the account then stands at the closing rate: a second month's line has the whole
difference once more (`StandsAtClosingRate`, section 3). Assumed of both: the settings have ids, amounts, rates and months
of the columns' kinds, and a call's months differ (`DepreciationAssumption`,
`ForexAssumption`).

**Model-checked only.** Every safety property of the passing runs is stated by a
theorem. Liveness under fairness (`EveryRequestEnds`, `EveryCallEnds`,
`EveryProcessEnds`, `EveryoneEnds`) involves ENABLED and stays with TLC.

## 5 What the code does not do

Four divergences are shown by runs (section 3, "violation"; `findings` in
`PROJECT.json` quotes the comments), ten more by definitions that no run lists (section
3, "stated and not kept"). Reading the code for the models turned up
more. Most are visible on a line or two, and some of them stop a feature at its
first statement; where one does, the model has the branch in which the statement
fails, or describes the feature as it is meant, because the behaviour behind the
failure would otherwise not exist to be studied. Properties exclude the cases
below explicitly, in a condition the comment names.

**Posting and sessions.**
- `transactions.tenant_id`, `idempotency_keys.tenant_id` and the tables of several
  services are UUID; the callers pass `String(companyId)`: 22P02 on every create.
- node-postgres returns BIGINT as a string, so payments out of a balance are
  refused (`ledger_refusals`), login signs string ids that `requireAuth` refuses
  (`auth-service.ts:349`), and a registration's first login is FORBIDDEN
  (`auth-service.ts:156`), which rolls the registration back.
- A retry that overtakes its first call gets a unique violation, though the key
  was processed; `IdempotencyConflictError` is never thrown.
- On reuse of a token the family is revoked and then the error that is thrown
  rolls the revocation back (`auth-service.ts:225-231`).
- `transactions.company_id` has DEFAULT 1 and is never set, so the lock trigger
  consults company 1's periods for everybody; the trigger returns NEW on DELETE,
  i.e. NULL, which cancels every DELETE silently (`security_schema.sql:234`).
- On an empty ledger every voucher that credits an account is refused.

**E-invoicing, pool and payloads.**
- `can_cancel_einvoice` formats with `%.1f`, which `format()` rejects: a
  cancellation after the 24 hours ends in an error instead of the credit note
  (`einvoicing_schema.sql:317`).
- `cancelEinvoice` sets the invoice to PENDING, and the trigger allows CANCELLED
  only from GENERATED: after the portal has cancelled, the record is refused and
  the item is sent again. Two cancellations can leave it PENDING with nothing
  queued. A CANCEL of an e-way bill is queued without a credential.
- `RetryWorker.start` is called by nobody. A sweep holds one of five clients while
  five tasks each ask for a second one; the timeout is a plain `Error`, so a
  shortage of clients is recorded as a permanent FAILED. After a shutdown began,
  items that need a token fail, though `retry-worker.ts:14-15` promises to
  complete them; a second signal makes `pool.end()` reject and exits at once.
- `payload-mapper.ts:297-305` selects address columns `gst_registrations` does
  not have. Two lines of one HSN code: the item takes the first line's value
  only; the e-way total counts equal values once; an intrastate `GstRt` is the
  half rate; two unknown pin codes are 0 km apart (`Number(null)`).

**Reports and closing.**
- `getTrialBalance` and `getHierarchicalBalances` use `ltree <@ lquery`, an
  operator that does not exist. A ledger's last day ends at 23:59:59; "today"
  uses one financial year's totals where earlier dates sum all; a commit between
  two queries shows one side of it; a row begun before `from` and committed
  between the ledger's two queries is counted in neither; a ledger asked from a
  day after its last day shows as closing what was there before the first.
- `post_year_end_closing`, `post_annual_depreciation` and
  `post_forex_revaluation` cast a BIGINT to UUID and fail on every call
  (`edge_cases_schema.sql:868`).
- After `reopenYear` the closing row stays, so a year can never be closed again.
  An income account with a debit balance gives a negative line and the closing
  fails. A posting that overlaps a closing stays unclosed in a closed year.
- Duplicate runs are prevented ("Prevent duplicate") by a read without a lock or
  index. Both acts' runs reduce one `accumulated_depr`; overlapping runs may take
  more than is left.
- Each month's revaluation posts the whole difference to the registration value
  again; nothing is reversed when the rate returns. Totals count differences that
  were not posted for want of an account. A second settlement overwrites the gain
  with 0; gains on payables are not inverted. `backfill` takes `toISOString` of a
  local midnight, the day before month-end east of Greenwich, and skips short
  months when begun on a 31st.

**Stock and trade.**
- As committed every sale fails (`tax_entries.journal_entry_id` is NOT NULL);
  job-work movements name transaction 0; production uses unit 0 and a journal
  that balances only when overhead is twice the by-products; the POS number query
  adds text to a number.
- A retried sale repeats its movements and tax entries. Two lines of one item on
  a receipt count once (UPDATE ... FROM). Overlapping receipts leave a challan
  PARTIALLY_RECEIVED though everything is back. Serials are never SOLD.
- `reconciliation-service.ts:216` relies on triggers that run on INSERT only.
  `uq_price_slab` does not prevent overlaps (NULLs).

**Payroll, bills, TDS, interest, costs.**
- The error of one employee is caught inside an aborted transaction; zero lines
  are refused by `chk_one_side`; voluntary deductions unbalance the journal; the
  employer's pension part is never posted. Computing a posted run again resets it,
  and it can be approved and posted a second time. Two concurrent salary
  structures are both active. Absence beyond the working days gives negative pay.
- Two bills at once pass the credit limit; `ADVANCE_PENDING` rows appear in no
  list; `consumeAdvance` does not touch the bill, and its UPDATE uses `$1` both as the value
  of a NUMERIC column and beside an integer in a comparison (`bill-service.ts:230-232`),
  for which PostgreSQL infers different types and may refuse the statement, modelled as
  meant; bill numbers are not unique.
- `getRateForDeductee` selects `is_active` from `tds_section_rates`, which has no such
  column (`tds-deduction-engine.ts:252`, `tds_schema.sql:35-47`): without a certificate
  no tax is ever deducted of a vendor with a PAN.
- Two overlapping invoices lose a cumulative TDS amount; an invoice below the
  single-bill threshold is not added to it; one entry can be paid by two challans;
  `recordTcs` credits account 0; surcharge and cess are stored as 0.
- Two first allocations of an entry both commit (200 %), for each deferred trigger sees
  the rows of its own call only (`cost_center_schema.sql`); `createCenter` fails on
  its NOT NULL path.
- `provision_overdue_interest` fails on the first overdue bill (ambiguous names).
  Provisioning again on the day of a posting makes a second provision, though
  `interest-service.ts:61` says "idempotent"; every provision is the whole interest
  since the due date. Scenario lines are rounded and may never be promotable.

**Documents, bank, cache, limits, Tally.**
- `storeExtraction` inserts 41 columns from 39 placeholders. Overlapping approvals
  post twice (the key contains `Date.now()`); an amendment after the approval
  reopens the document; an approval posts the fields it read before a concurrent
  amendment; `match_vendor` ignores the company.
- `auto_reconcile_bank_entry` is STABLE and has UPDATEs, and its score overflows
  NUMERIC(3,2). Concurrent imports duplicate lines; a reused idempotency key
  matches two entries with one voucher; `encryption-service.ts:153` takes 64 bytes
  for a 32-byte key.
- Nothing calls the cache's invalidation. A report computed before an event and
  stored after it lives until its time is over (`analytics-cache.ts:205`); a scan
  by offset skips keys beside deletions (`analytics-cache.ts:100`).
- The Redis limiter counts before it adds, in four commands; the fallback's memory
  is a second budget; "100 per 15 minutes" lets in up to 199. A request whose
  EXPIRE fails (`rate-limiter-redis.ts:147`) may be refused by the memory and has
  still taken a place in Redis.
- The Tally import relies on a transaction per batch that nobody opens
  (`tally-import-engine.ts:130`, `:265`), so a broken voucher leaves a header
  without lines. The stream's events run ahead of the callbacks' queries
  (`tally-xml-parser.ts:135-228`): `end` completes before them, rows are written after
  the COMMIT of the masters or after their ROLLBACK, a batch is committed while others
  add to it, and the callback of one voucher empties the list of the next. Codes that are prefixes of GUIDs collapse ledgers.

## 6 Plan

Modelled and checked: every component of section 1 except the shell, the frontend
and the migrations. Proved: posting, sessions, e-invoices, the pool, reports,
closing, depreciation and revaluation, interest and scenarios, OCR review, bank
statements, bills, tax deducted at source, payroll, the stock ledger and the services
that move it, the rate limiters, the report cache, the Tally import, the cost centres,
pay slips, and what is charged and declared.

**Not modelled.** HTTP routing, validation schemas, logging and health: formatting
and I/O. Migrations and deployment: scripts run by hand. The frontend:
presentation. PDF and CSV output, the XML grammar, the text recognition (any
fields may come back), encryption and password hashing (libraries). Roles and
permissions: tables that no request changes. Single inserts of master data
(employees, assets, centers, price lists, consents), and reads without a later
effect: ageing and exposure summaries, `computeValuation`, `getTaxLiability`,
budgets and variances, the compound interest formula, Tally's verification report.

## 7 Running it

    tlc -workers 2 -config Ledger_contention.cfg MCLedger
    tlapm EInvoicingProofs.tla

`PROJECT.json` lists the runs with their modules and configurations, the mutant
each property is tested with, the source lines behind every definition, the
hazards, the findings and the theorems.

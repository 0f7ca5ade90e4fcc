----------------------------- MODULE MCIntake ------------------------------
(***************************************************************************)
(* Purchase documents, bank statements, the report cache, the rate limiters *)
(* and Tally files: three or four overlapping calls each.  They share no    *)
(* state: focus is the one a behaviour is about.                            *)
(***************************************************************************)
EXTENDS OcrReview, BankStatements, AnalyticsCache, RateLimits, TallyImport, TLC
CONSTANTS c1, c2, c3, c4

Calls(a, b, c) == (c1 :> a) @@ (c2 :> b) @@ (c3 :> c)
Read(gstin, taxable, cgst, igst, gross) ==
    [gstin |-> gstin, taxable |-> taxable, cgst |-> cgst, igst |-> igst, gross |-> gross]
Invoice == Read("g1", 1000, 90, 0, 1090)
Misread == Read("g2", 1000, 90, 0, 1190)
Scan(fields, overall, flagged) ==
    [kind |-> "extract", doc |-> 1, provider |-> "AWS_TEXTRACT", fields |-> fields, ledger |-> 7,
     overall |-> overall, flagged |-> flagged]
On(kind) == [kind |-> kind, doc |-> 1]
Upload(hash) == [kind |-> "upload", hash |-> hash, doc |-> 0]
Amend(change) == [kind |-> "amend", doc |-> 1, change |-> change]
Vendor(account) == [kind |-> "vendor", doc |-> 1, account |-> account]
MCOldScans == <<ScanRow("h1", "EXTRACTION_DONE")>>
MCOldExtractions == <<[review |-> "PENDING_REVIEW", fields |-> Invoice, vendor |-> "g1", ledger |-> 7,
                       overall |-> 88, flagged |-> FALSE, draft |-> 0]>>
MCOldVendors == ("g1" :> [company |-> "own", account |-> 21]) @@ ("g2" :> [company |-> "other", account |-> 22])
MCInputTax == [cgst |-> 5, igst |-> 0]
MCOcrSettings == {
    Calls(On("approve"), On("approve"), On("reject")),
    Calls(On("approve"), On("reject"), Amend([gross |-> 1190])) @@ (c4 :> Amend([cgst |-> 190])),
    Calls(Scan(Invoice, 96, FALSE), On("approve"), On("reject")),
    Calls(Scan(Misread, 97, TRUE), On("approve"), Amend([gross |-> 1090])) @@ (c4 :> On("reject")),
    Calls(Scan(Read("g3", 500, 0, 0, 500), 60, FALSE), Vendor(23), On("approve")) @@ (c4 :> Vendor(22)),
    Calls(Scan(Read("none", 500, 0, 90, 590), 96, FALSE), Vendor(24), On("approve")),
    Calls(Upload("h1"), Upload("h2"), [Scan(Invoice, 95, FALSE) EXCEPT !.doc = 2]) @@ (c4 :> Upload("none")),
    Calls([Scan(Invoice, 95, FALSE) EXCEPT !.provider = "TESSERACT"], Amend(<<>>), On("approve"))}

Line(date, ref, debit, credit) == [date |-> date, ref |-> ref, debit |-> debit, credit |-> credit]
Entry(date, ref, debit, credit, like) == Line(date, ref, debit, credit) @@ [like |-> like]
Weights(own, amount, near, reference, description) ==
    [own |-> own, amount |-> amount, near |-> near, reference |-> reference,
     description |-> description, days |-> 3]
NoRule == Weights(FALSE, 40, 30, 30, 10)
Import(rows) == [kind |-> "import", rows |-> rows]
Fetch(rows) == [kind |-> "fetch", rows |-> rows, handle |-> "h1"]
Consent == [kind |-> "consent", handle |-> "h1"]
Book(entry, key) == [kind |-> "voucher", entry |-> entry, key |-> key, account |-> 31]
Rent == Line(1, 11, 500, 0)
Paid == Line(2, 22, 0, 700)
Bare == Line(2, 0, 0, 700)
Nearby == {Entry(1 + d, ref, 0, 500, like) : d \in 0 .. 4, ref \in {0, 11, 21, 33}, like \in {0, 61, 90}}
BankSetting(weights, lines, calls) ==
    [rules |-> weights, lines |-> lines, calls |-> calls]
MCBankSettings ==
    {BankSetting(NoRule, <<>>, calls) : calls \in {
        Calls(Import(<<Rent, Paid>>), Import(<<Paid, Line(2, 22, 0, 900)>>), Book(1, 1)),
        Calls(Import(<<Rent, Bare>>), Book(1, 1), Book(1, 2)) @@ (c4 :> Book(2, 1)),
        Calls(Import(<<Paid>>), Book(1, 1), Book(1, 1)) @@ (c4 :> Import(<<Line(3, 33, 0, 700)>>)),
        Calls(Consent, Fetch(<<Paid, Line(1, 11, 300, 0)>>), Import(<<Rent, Paid, Bare>>))
            @@ (c4 :> Book(2, 3))}}
    \cup {BankSetting(NoRule, <<>>, Calls(Import(<<Rent>>), Book(1, 1), Import(<<Rent, Paid>>)))}
    \cup {BankSetting(Weights(TRUE, 40, 30, 30, 10), <<>>,
             Calls(Consent, Fetch(<<Rent>>), Import(<<Rent>>)) @@ (c4 :> Import(<<Rent, Paid>>)))}
    \cup {BankSetting(NoRule, <<a, b>>, (c1 :> Import(<<Rent>>))) : a, b \in Nearby}
    \cup {BankSetting(Weights(TRUE, 3, 3, 2, 1), <<a, b>>, (c1 :> Consent) @@ (c2 :> Fetch(<<Rent>>))) :
             a, b \in Nearby}
    \cup {BankSetting(NoRule, <<a>>, (c1 :> Import(<<Rent>>)) @@ (c2 :> Book(1, 1))) : a \in Nearby}

CacheKey(tenant, report, params) == [tenant |-> tenant, report |-> report, params |-> params]
Report(tenant, report, params) == [kind |-> "report", key |-> CacheKey(tenant, report, params)]
Emit(tenant, event) == [kind |-> "event", tenant |-> tenant, event |-> event]
Wipe(tenant) == [kind |-> "tenant", tenant |-> tenant]
Dash == CacheKey("t1", "executive_dashboard", 1)
AskDash == Report("t1", "executive_dashboard", 1)
Ratios(tenant, params) == CacheKey(tenant, "ratios", params)
Several == <<Dash, Ratios("t1", 1), Ratios("t1", 2), Ratios("t2", 1), Ratios("t1", 3)>>
CacheSetting(stored, calls) == [stored |-> stored, calls |-> calls]
MCCacheSettings == {
    CacheSetting(<<Dash>>, Calls(AskDash, AskDash, AskDash)),
    CacheSetting(<<Dash>>, Calls(AskDash, AskDash, Emit("t1", "JOURNAL_POSTED"))),
    CacheSetting(Several, Calls(Emit("t1", "JOURNAL_POSTED"), Report("t1", "ratios", 2), Wipe("t1"))),
    CacheSetting(Several, Calls(Emit("t1", "STOCK_MOVEMENT"), Report("t1", "ratios", 4), Wipe("t2"))),
    CacheSetting(<<CacheKey("t1", "inventory_aging", 1), CacheKey("t1", "inventory_aging_summary", 1), Dash>>,
        Calls(Emit("t1", "STOCK_MOVEMENT"), Emit("t1", "BANK_RECONCILIATION"), Emit("t2", "PERIOD_CLOSED")))}

Limiter(kind, max, window) == [kind |-> kind, max |-> max, window |-> window]
MCLimiters == {Limiter("redis", 1, 3), Limiter("memory", 2, 3), Limiter("bucket", 1, 2),
               Limiter("bucket", 2, 3)}
MCHits == Permutations(Hit)

Master(kind, guid, system, sameCode) ==
    [kind |-> kind, guid |-> guid, name |-> guid, system |-> system, sameCode |-> sameCode,
     entries |-> 0, broken |-> FALSE]
NewLedger(guid) == Master("LEDGER", guid, FALSE, FALSE)
SameCode(guid) == Master("LEDGER", guid, FALSE, TRUE)
Cash(guid) == Master("LEDGER", guid, TRUE, FALSE)
Group(guid) == Master("GROUP", guid, FALSE, FALSE)
Entered(n) == [Master("VOUCHER", 0, FALSE, FALSE) EXCEPT !.entries = n]
Torn(element) == [element EXCEPT !.broken = TRUE]
TallySetting(phase, accounts, file) ==
    [phase |-> phase, accounts |-> accounts, size |-> 2, file |-> file,
     rows |-> {Mapping(1), Account(2)}]
MCTallySettings ==
    {TallySetting("masters", TRUE, file) : file \in {
        <<NewLedger(1), Cash(2), Group(3), SameCode(4)>>, <<Group(3), NewLedger(5), Cash(2)>>,
        <<Group(3), Torn(Group(4)), SameCode(5)>>, <<Cash(0), Group(2), Entered(2), NewLedger(5)>>,
        <<Group(3), Torn(Entered(2)), Group(4)>>}}
    \cup {TallySetting("vouchers", accounts, file) : accounts \in BOOLEAN, file \in {
        <<NewLedger(1), Entered(2), Entered(2), Entered(2)>>, <<Entered(2), Torn(Group(3)), Entered(3)>>,
        <<Entered(2), Entered(1), Entered(3)>>, <<Entered(2), Torn(Entered(2)), Entered(2)>>}}

VARIABLE focus
Suites == {"ocr", "bank", "cache", "rate", "tally"}
Only(f, holds) == focus # f => holds
Init ==
    /\ focus \in Suites
    /\ OcrInit /\ Only("ocr", ocrAsked = Calls(On("approve"), On("approve"), On("reject")))
    /\ BankInit /\ Only("bank", bankAsked.calls = Calls(Import(<<Rent, Paid>>), Import(<<Paid, Line(2, 22, 0, 900)>>), Book(1, 1)))
    /\ CacheInit /\ Only("cache", cacheAsked.calls = Calls(AskDash, AskDash, AskDash))
    /\ RateInit /\ Only("rate", limiter.kind = "memory")
    /\ TallyInit
    /\ Only("tally", tallyAsked = TallySetting("vouchers", TRUE, <<Entered(2), Entered(1), Entered(3)>>))
Next ==
    /\ \/ focus = "ocr" /\ OcrNext /\ UNCHANGED <<bankVars, cacheVars, rateVars, tallyVars>>
       \/ focus = "bank" /\ BankNext /\ UNCHANGED <<ocrVars, cacheVars, rateVars, tallyVars>>
       \/ focus = "cache" /\ CacheNext /\ UNCHANGED <<ocrVars, bankVars, rateVars, tallyVars>>
       \/ focus = "rate" /\ RateNext /\ UNCHANGED <<ocrVars, bankVars, cacheVars, tallyVars>>
       \/ focus = "tally" /\ TallyNext /\ UNCHANGED <<ocrVars, bankVars, cacheVars, rateVars>>
    /\ UNCHANGED focus
Spec == Init /\ [][Next]_<<ocrVars, bankVars, cacheVars, rateVars, tallyVars, focus>>
=============================================================================

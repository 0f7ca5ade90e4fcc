----------------------------- MODULE TallyImport -----------------------------
(***************************************************************************)
(* The Tally import (src/src/tally-import): importMasters or importVouchers *)
(* over one XML stream.  The closetag handler awaits its callback while the *)
(* parser goes on, so that the events of the stream and the queries of the  *)
(* callbacks interleave in every way.  The process route never calls either *)
(* of them, the caller is assumed.                                          *)
(***************************************************************************)
EXTENDS Integers, Sequences, FiniteSets, Functions

CONSTANTS
    TallySettings,  \* phase, file, batch size and what the database holds
    TallyElement    \* 1 .. the length of the longest file

ASSUME TallyAssumption ==
  /\ IsFiniteSet(TallyElement) /\ 0 \notin TallyElement
  /\ \A s \in TallySettings :
    /\ s.phase \in {"masters", "vouchers"} /\ s.size > 0 /\ DOMAIN s.file \subseteq TallyElement
    /\ s.file \in Seq({s.file[k] : k \in DOMAIN s.file})

VARIABLES
    tallyAsked,     \* the setting of this behaviour
    parser,         \* the fields of TallyXmlParser, and whether parseStream is rejected
    callback,       \* callback[k]: the step of the callback of element k, its entries, and
                    \*   whether its query was issued before the one the import waits for
    batches,        \* the arrays currentBatch has been; the last one is current
    commits,        \* commits[k]: commitVoucherBatch of callback k, or of onComplete at 0
    tallyRows,      \* the database: rows, those of the open transaction, headers, lines, errors
    tallyCounts,    \* total, imported, failed, skipped
    tallyEnd        \* "reading", "last", "report", "commit", "done" or "ended"

tallyVars == <<tallyAsked, parser, callback, batches, commits, tallyRows, tallyCounts, tallyEnd>>

Elements == DOMAIN tallyAsked.file
Element(k) == tallyAsked.file[k]
Mapping(guid) == <<"mapping", guid>>
Account(name) == <<"account", name>>
Idle == [batch |-> 0, at |-> 0, header |-> 0, imported |-> 0, failed |-> 0, skipped |-> 0]

Begin == IF tallyAsked.phase = "masters" THEN "open" ELSE "none"
TallyInit ==
    /\ tallyAsked \in TallySettings
    /\ parser = [at |-> 1, open |-> FALSE, masters |-> TRUE, inside |-> {}, current |-> {},
                 read |-> 0, entries |-> 0, rejected |-> FALSE]
    /\ callback = [k \in TallyElement |-> [step |-> "none", entries |-> 0, ahead |-> FALSE]]
    /\ batches = << <<>> >> /\ commits = [k \in TallyElement \cup {0} |-> Idle]
    /\ tallyRows = [rows |-> tallyAsked.rows, own |-> {}, txn |-> Begin, headers |-> <<>>, lines |-> {},
                    errors |-> 0]
    /\ tallyCounts = [total |-> 0, imported |-> 0, failed |-> 0, skipped |-> 0]
    /\ tallyEnd = "reading"

Event(k) == tallyEnd = "reading" /\ k \in Elements /\ k = parser.at
Plus(counts, what) == [counts EXCEPT ![what] = @ + 1]
CallTo(k, step) == callback' = [callback EXCEPT ![k] = [@ EXCEPT !.step = step, !.ahead = FALSE]]

(* One client runs the queries of the import and of its callbacks in the    *)
(* order they were issued: UPDATE, COMMIT and ROLLBACK come after those     *)
(* that importMasters' callbacks were waiting for.                          *)
MasterSteps == {"find", "name", "known", "create", "created"}
Issued == callback' = [k \in TallyElement |-> [callback[k] EXCEPT !.ahead = callback[k].step \in MasterSteps]]
MyTurn == \A k \in TallyElement : ~callback[k].ahead

-----------------------------------------------------------------------------
(* opentag.  Ledgers and groups behind the first voucher are passed over.   *)
OpenTag(k) ==
    /\ Event(k) /\ ~parser.open
    /\ LET kind == Element(k).kind
           masters == parser.masters /\ kind # "VOUCHER"
           taken == masters \/ kind = "VOUCHER"
       IN  parser' = [parser EXCEPT !.open = TRUE, !.masters = masters, !.read = 0,
                !.inside = IF taken THEN @ \cup {kind} ELSE @,
                !.current = IF taken THEN @ \cup {kind} ELSE @,
                !.entries = IF kind = "VOUCHER" THEN 0 ELSE @]
    /\ UNCHANGED <<tallyAsked, callback, batches, commits, tallyRows, tallyCounts, tallyEnd>>

(* ALLLEDGERENTRIES.LIST is closed: an entry joins this.ledgerEntries.      *)
EntryTag(k) ==
    /\ Event(k) /\ parser.open /\ parser.read < Element(k).entries
    /\ parser' = [parser EXCEPT !.read = @ + 1, !.entries = @ + 1]
    /\ UNCHANGED <<tallyAsked, callback, batches, commits, tallyRows, tallyCounts, tallyEnd>>

(* closetag.  What an earlier callback has set to null is lost here; the    *)
(* phase that is not asked for leaves its elements alone.                   *)
Whole(k) == Element(k).kind \in parser.inside \cap parser.current
Handled(k) == Whole(k) /\ (Element(k).kind = "VOUCHER") = (tallyAsked.phase = "vouchers")
FirstStep(k) ==
    IF Element(k).kind = "VOUCHER" THEN "map" ELSE IF Element(k).guid # 0 THEN "find" ELSE "name"
CloseTag(k) ==
    /\ Event(k) /\ parser.open /\ ~Element(k).broken /\ parser.read = Element(k).entries
    /\ parser' = [parser EXCEPT !.open = FALSE, !.at = @ + 1,
                      !.inside = IF Whole(k) THEN @ \ {Element(k).kind} ELSE @]
    /\ IF Handled(k)
       THEN /\ callback' = [callback EXCEPT ![k] = [step |-> FirstStep(k), entries |-> parser.entries, ahead |-> FALSE]]
            /\ tallyCounts' = Plus(tallyCounts, "total")
       ELSE UNCHANGED <<callback, tallyCounts>>
    /\ UNCHANGED <<tallyAsked, batches, commits, tallyRows, tallyEnd>>

(* An XML error drops the voucher it is in; in importMasters the callback   *)
(* that rethrows it is awaited by nobody, which ends the process.           *)
Undone == [tallyRows EXCEPT !.own = {}, !.txn = "none"]
InVoucher == "VOUCHER" \in parser.inside
XmlError(k) ==
    /\ Event(k) /\ parser.open /\ Element(k).broken /\ InVoucher
    /\ parser' = [parser EXCEPT !.open = FALSE, !.at = @ + 1, !.inside = @ \ {"VOUCHER"},
                      !.current = @ \ {"VOUCHER"}, !.entries = 0]
    /\ IF tallyAsked.phase = "vouchers"
       THEN /\ tallyCounts' = Plus(tallyCounts, "failed") /\ UNCHANGED <<callback, tallyEnd>>
            /\ tallyRows' = [tallyRows EXCEPT !.errors = @ + 1]
       ELSE /\ callback' = [j \in TallyElement |-> [callback[j] EXCEPT !.step = "none", !.ahead = FALSE]]
            /\ tallyRows' = Undone /\ tallyEnd' = "ended" /\ UNCHANGED tallyCounts
    /\ UNCHANGED <<tallyAsked, batches, commits>>

(* Elsewhere it rejects parseStream, on which importMasters asks for a      *)
(* ROLLBACK; the parser reads on and calls back all the same.               *)
FatalError(k) ==
    /\ Event(k) /\ parser.open /\ Element(k).broken /\ ~InVoucher
    /\ parser' = [parser EXCEPT !.open = FALSE, !.at = @ + 1, !.rejected = TRUE]
    /\ IF parser.rejected THEN UNCHANGED callback ELSE Issued
    /\ UNCHANGED <<tallyAsked, batches, commits, tallyRows, tallyCounts, tallyEnd>>
Rollback ==
    /\ parser.rejected /\ tallyRows.txn # "none" /\ MyTurn
    /\ tallyRows' = Undone
    /\ UNCHANGED <<tallyAsked, parser, callback, batches, commits, tallyCounts, tallyEnd>>

(* end: onComplete does not wait for the callbacks.                         *)
EndOfStream ==
    /\ tallyEnd = "reading" /\ parser.at > Len(tallyAsked.file)
    /\ IF tallyAsked.phase = "vouchers" /\ batches[Len(batches)] # <<>>
       THEN tallyEnd' = "last" /\ commits' = [commits EXCEPT ![0] = [Idle EXCEPT !.batch = Len(batches), !.at = 1]]
       ELSE tallyEnd' = "report" /\ UNCHANGED commits
    /\ IF parser.rejected THEN UNCHANGED callback ELSE Issued
    /\ UNCHANGED <<tallyAsked, parser, batches, tallyRows, tallyCounts>>

(* What follows the await in the handler, whatever is being read by then.   *)
CallbackEnds(k) ==
    /\ CallTo(k, "done")
    /\ parser' = [parser EXCEPT !.current = @ \ {Element(k).kind},
                      !.entries = IF Element(k).kind = "VOUCHER" THEN 0 ELSE @]

-----------------------------------------------------------------------------
(* mapLedger and mapGroup: a query after a failed one fails, a query after  *)
(* COMMIT or ROLLBACK commits itself.                                       *)
Aborted == tallyRows.txn = "aborted"
Seen == tallyRows.rows \cup tallyRows.own
Written(rows) ==
    IF tallyRows.txn = "open" THEN [tallyRows EXCEPT !.own = @ \cup rows]
    ELSE [tallyRows EXCEPT !.rows = @ \cup rows]
Broken == [tallyRows EXCEPT !.txn = IF @ = "open" THEN "aborted" ELSE @]
Skip(k) == CallbackEnds(k) /\ tallyCounts' = Plus(tallyCounts, "skipped")

FindMapping(k) ==
    /\ callback[k].step = "find"
    /\ IF Aborted \/ Mapping(Element(k).guid) \in Seen THEN Skip(k)
       ELSE CallTo(k, "name") /\ UNCHANGED <<parser, tallyCounts>>
    /\ UNCHANGED <<tallyAsked, batches, commits, tallyRows, tallyEnd>>

(* Only system ledgers and groups are looked for by name.                   *)
ByName(k) == Element(k).system \/ Element(k).kind = "GROUP"
FindAccount(k) ==
    /\ callback[k].step = "name"
    /\ IF ByName(k) /\ Aborted THEN Skip(k)
       ELSE CallTo(k, IF ByName(k) /\ Account(Element(k).name) \in Seen THEN "known" ELSE "create")
            /\ UNCHANGED <<parser, tallyCounts>>
    /\ UNCHANGED <<tallyAsked, batches, commits, tallyRows, tallyEnd>>

(* The ledger's INSERT leaves path NULL, which accounts refuses; a group    *)
(* gets its own name for a path.                                            *)
CreateAccount(k) ==
    /\ callback[k].step = "create"
    /\ IF Aborted \/ (Element(k).kind = "LEDGER" /\ ~Element(k).sameCode)
       THEN Skip(k) /\ tallyRows' = Broken
       ELSE /\ CallTo(k, "created") /\ UNCHANGED <<parser, tallyCounts>>
            /\ tallyRows' = IF Element(k).kind = "LEDGER" THEN tallyRows
                            ELSE Written({Account(Element(k).name)})
    /\ UNCHANGED <<tallyAsked, batches, commits, tallyEnd>>

(* mapped_account_id references accounts: a group that is rolled back is    *)
(* gone.  A ledger created is one whose code was there.                     *)
Referenced(k) ==
    \/ Element(k).kind = "LEDGER" /\ callback[k].step = "created"
    \/ Account(Element(k).name) \in Seen
insertMapping(k) ==
    /\ callback[k].step \in {"known", "created"}
    /\ IF Aborted \/ ~Referenced(k) THEN Skip(k) /\ tallyRows' = Broken
       ELSE /\ tallyRows' = Written({Mapping(Element(k).guid)})
            /\ tallyCounts' = Plus(tallyCounts, IF callback[k].step = "created" THEN "imported" ELSE "skipped")
            /\ CallbackEnds(k)
    /\ UNCHANGED <<tallyAsked, batches, commits, tallyEnd>>

-----------------------------------------------------------------------------
(* assignCapturedText asks for the voucher before the entry: the tags of an *)
(* entry go to the voucher, and every entry is finalized without them.      *)
Captured == [name |-> "", positive |-> TRUE, amount |-> 0]

(* No account has that name; the fallback takes any, and adds 0 and 0.      *)
LineOf(entry) == [debit |-> entry.amount, credit |-> 0]
Lines(k) == IF tallyAsked.accounts THEN [i \in 1 .. callback[k].entries |-> LineOf(Captured)] ELSE <<>>
OneSide(line) == (line.debit > 0 /\ line.credit = 0) \/ (line.credit > 0 /\ line.debit = 0)

MapVoucher(k) ==
    /\ callback[k].step = "map"
    /\ IF callback[k].entries < 2 THEN Skip(k) /\ UNCHANGED <<batches, commits>>
       ELSE LET last == Len(batches)
                full == Len(batches[last]) + 1 >= tallyAsked.size
            IN  /\ batches' = [batches EXCEPT ![last] = Append(@, k)]
                /\ IF full THEN /\ commits' = [commits EXCEPT ![k] = [Idle EXCEPT !.batch = last, !.at = 1]]
                                /\ CallTo(k, "commit") /\ UNCHANGED parser
                   ELSE CallbackEnds(k) /\ UNCHANGED commits
                /\ UNCHANGED tallyCounts
    /\ UNCHANGED <<tallyAsked, tallyRows, tallyEnd>>

(* commitVoucherBatch goes over the array as it is by then.                 *)
Committing(j) == IF j = 0 THEN tallyEnd = "last" ELSE callback[j].step = "commit"
More(j) == commits[j].at <= Len(batches[commits[j].batch])
Handed(j, as) == [Plus(commits[j], as) EXCEPT !.header = 0, !.at = commits[j].at + 1]
CommitHeader(j) ==
    /\ Committing(j) /\ More(j) /\ commits[j].header = 0
    /\ tallyRows' = [tallyRows EXCEPT !.headers = Append(@, batches[commits[j].batch][commits[j].at])]
    /\ commits' = [commits EXCEPT ![j] = IF tallyAsked.accounts
           THEN [commits[j] EXCEPT !.header = Len(tallyRows.headers) + 1]
           ELSE Handed(j, "skipped")]
    /\ UNCHANGED <<tallyAsked, parser, callback, batches, tallyCounts, tallyEnd>>
CommitLines(j) ==
    /\ Committing(j) /\ commits[j].header # 0
    /\ LET lines == Lines(batches[commits[j].batch][commits[j].at])
           good == \A i \in DOMAIN lines : OneSide(lines[i])
       IN  /\ tallyRows' = IF good THEN [tallyRows EXCEPT !.lines = @ \cup {commits[j].header}]
                           ELSE [tallyRows EXCEPT !.errors = @ + 1]
           /\ commits' = [commits EXCEPT ![j] = Handed(j, IF good THEN "imported" ELSE "failed")]
    /\ UNCHANGED <<tallyAsked, parser, callback, batches, tallyCounts, tallyEnd>>

(* Mutant: a batch's counts take the place of the totals.                   *)
TotalsReplaced(j) == [tallyCounts EXCEPT !.imported = commits[j].imported, !.failed = commits[j].failed,
                                         !.skipped = commits[j].skipped]

Added(j) == [tallyCounts EXCEPT !.imported = @ + commits[j].imported, !.failed = @ + commits[j].failed,
                                !.skipped = @ + commits[j].skipped]

BatchEnds(k) ==
    /\ Committing(k) /\ ~More(k) /\ k # 0
    /\ tallyCounts' = Added(k) /\ batches' = Append(batches, <<>>) /\ CallbackEnds(k)
    /\ UNCHANGED <<tallyAsked, commits, tallyRows, tallyEnd>>
LastBatchEnds ==
    /\ Committing(0) /\ ~More(0) /\ tallyCounts' = Added(0) /\ tallyEnd' = "report"
    /\ UNCHANGED <<tallyAsked, parser, callback, batches, commits, tallyRows>>

(* onComplete writes the totals, which an aborted transaction refuses; what *)
(* importMasters asks for next depends on whether its promise was rejected. *)
onComplete ==
    /\ tallyEnd = "report" /\ MyTurn /\ (parser.rejected => tallyRows.txn = "none")
    /\ parser' = [parser EXCEPT !.rejected = @ \/ Aborted]
    /\ tallyEnd' = IF tallyAsked.phase = "masters" /\ ~parser'.rejected THEN "commit" ELSE "done"
    /\ IF parser.rejected THEN UNCHANGED callback ELSE Issued
    /\ UNCHANGED <<tallyAsked, batches, commits, tallyRows, tallyCounts>>
Commit ==
    /\ tallyEnd = "commit" /\ MyTurn /\ tallyEnd' = "done"
    /\ tallyRows' = [Undone EXCEPT !.rows = IF Aborted THEN @ ELSE Seen]
    /\ UNCHANGED <<tallyAsked, parser, callback, batches, commits, tallyCounts>>

TallyNext ==
    \/ \E k \in TallyElement :
        \/ OpenTag(k) \/ EntryTag(k) \/ CloseTag(k) \/ XmlError(k) \/ FatalError(k) \/ FindMapping(k) \/ FindAccount(k)
        \/ CreateAccount(k) \/ insertMapping(k) \/ MapVoucher(k) \/ BatchEnds(k)
    \/ \E j \in TallyElement \cup {0} : CommitHeader(j) \/ CommitLines(j)
    \/ EndOfStream \/ LastBatchEnds \/ onComplete \/ Commit \/ Rollback
TallySpec == TallyInit /\ [][TallyNext]_tallyVars

-----------------------------------------------------------------------------
(* The callbacks that were called, and those that have not ended.           *)
Running(k) == callback[k].step \notin {"none", "done"}
Started == {k \in TallyElement : callback[k].step # "none"}
Busy == {k \in TallyElement : Running(k)}

(* What a voucher is mapped from, and what its callback puts into a batch,  *)
(* are its own entries: opentag starts a list, whatever the callbacks of    *)
(* earlier vouchers have cleared or not by then.                            *)
NoForeignEntries == \A k \in Started : Element(k).kind = "VOUCHER" => callback[k].entries <= Element(k).entries

(* Every element is counted when it is closed; a master is imported or      *)
(* skipped once, by the one callback it has, whatever becomes of its rows.  *)
MastersAreCounted ==
    tallyAsked.phase = "masters" /\ tallyEnd # "ended" =>
        /\ tallyCounts.total = Cardinality(Started)
        /\ tallyCounts.imported + tallyCounts.skipped + Cardinality(Busy) = tallyCounts.total

(* Every error in the log is a voucher counted as failed: batches that are  *)
(* committed at the same time, or over the same array, add up their counts  *)
(* and lose none.                                                           *)
FailedIn(j) == IF Committing(j) THEN commits[j].failed ELSE 0
ErrorsAreCounted ==
    tallyRows.errors = tallyCounts.failed
        + SumFunctionOnSet([j \in TallyElement \cup {0} |-> FailedIn(j)], TallyElement \cup {0})

(* However the stream and the callbacks interleave, vouchers do not mix and *)
(* the totals miss nothing that was counted.                                *)
ImportAddsUp ==
    /\ NoForeignEntries
    /\ MastersAreCounted
    /\ ErrorsAreCounted

(* "Uses one database transaction for all masters": the tables change at    *)
(* its COMMIT and at no other time.                                         *)
MastersInOneTransaction ==
    [][tallyAsked.phase = "masters" /\ tallyRows'.rows # tallyRows.rows => tallyEnd = "commit"]_tallyVars

(* "Each batch is imported inside a single DB transaction": a header whose  *)
(* lines were refused is not left in the ledger.                            *)
HeadersInHand == {commits[j].header : j \in {i \in TallyElement \cup {0} : Committing(i)}}
BatchIsOneTransaction ==
    tallyAsked.accounts => \A h \in DOMAIN tallyRows.headers : h \in HeadersInHand \cup tallyRows.lines

(* "Import all VOUCHER entries": when importVouchers is done and no         *)
(* callback runs any more, every voucher that was read has one header.      *)
HeadersOf(k) == {h \in DOMAIN tallyRows.headers : tallyRows.headers[h] = k}
EveryVoucherHasOneHeader ==
    tallyAsked.phase = "vouchers" /\ tallyEnd = "done" /\ Busy = {} =>
        \A k \in Started : Element(k).entries >= 2 => Cardinality(HeadersOf(k)) = 1
=============================================================================

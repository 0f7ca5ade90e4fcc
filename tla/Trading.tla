------------------------------ MODULE Trading ------------------------------
(***************************************************************************)
(* The services that move stock, each inside one database transaction:      *)
(* POST /vouchers/sales (src/src/api/routes/voucher.routes.ts), job work    *)
(* (src/src/jobwork), manufacturing (src/src/manufacturing), a movement     *)
(* recorded by itself (src/src/inventory), and the point of sale            *)
(* (src/src/pos), which writes invoices and moves nothing.                  *)
(*                                                                         *)
(* A service is a straight line of statements: Steps(c) lists those of call *)
(* c, at[c] is the one it stands before.  Posting itself is modelled in     *)
(* Ledger; here it is the test of the idempotency key and its unique row.   *)
(***************************************************************************)
EXTENDS Stock

CONSTANTS
    Settings,   \* the sets of requests a run considers
    Uom,        \* units of measure with a row in uom
    Factor,     \* Factor[u]: conversion_factor of unit u
    BaseUom     \* the base unit of the items of a run

(* A setting has the requests of some calls, and the services whose rows a  *)
(* foreign key or a NOT NULL refuses.  With the schema files as they are    *)
(* these are Unstorable: tax_entries without a journal line, a movement of  *)
(* transaction 0, a movement in unit 0; and the next invoice number, which  *)
(* is a bigint plus a text.                                                 *)
Unstorable == {"sale", "sendOut", "receive", "produce", "counter"}
Service == {"sale", "move", "sendOut", "receive", "produce", "counter"}
ASSUME TradingAssumption ==
    /\ \A s \in Settings :
          /\ DOMAIN s.asked \subseteq Call /\ s.rejected \subseteq Service
          /\ \A c \in DOMAIN s.asked : s.asked[c].kind \in Service
    /\ BaseUom \in Uom /\ Factor \in [Uom -> Nat \ {0}]

(* A line is about a bin and a quantity above zero (chk_one_direction); a   *)
(* sale has a key, and "none" is none.                                      *)
AreLines(ls) ==
    /\ ls \in Seq({ls[i] : i \in DOMAIN ls})
    /\ \A i \in DOMAIN ls : ls[i].bin \in Bin /\ ls[i].qty \in Nat \ {0}
ASSUME GoodsAssumption == \A s \in Settings : \A c \in DOMAIN s.asked :
    LET r == s.asked[c]
    IN  /\ r.kind \in {"sale", "move", "sendOut", "receive"} => AreLines(r.lines)
        /\ r.kind = "sendOut" => \A i \in DOMAIN r.lines : r.lines[i].to \in Bin
        /\ r.kind = "produce" => AreLines(r.uses) /\ AreLines(r.makes)
        /\ r.kind = "move" => r.move \in Inward \cup Outward
        /\ r.kind = "sale" => r.key # "none"

VARIABLE setting    \* the requests of this behaviour, and what the schema refuses
Asked == setting.asked
Asking == DOMAIN Asked

(* convertToBase: a unit without a row counts as 1.                         *)
ToBase(qty, uom) ==
    IF uom = BaseUom \/ uom \notin Uom THEN qty ELSE qty * Factor[uom]

Moves(kind, lines) ==
    [i \in DOMAIN lines |-> [do |-> kind, bin |-> lines[i].bin, qty |-> lines[i].qty]]
Do(what) == <<[do |-> what]>>

SaleSteps(r) ==
    Do("findKey") \o Do("claimKey")
    \o [i \in DOMAIN r.lines |-> [do |-> "SALES", bin |-> r.lines[i].bin,
                                  qty |-> ToBase(r.lines[i].qty, r.lines[i].uom)]]
    \o Do("taxEntries")

(* Goods go from the main godown to the vendor's and come back.             *)
SendSteps(r) ==
    Do("findGodown") \o Do("claimGodown")
    \o [i \in 1 .. 2 * Len(r.lines) |->
           LET line == r.lines[(i + 1) \div 2]
           IN  IF i % 2 = 1 THEN [do |-> "TRANSFER_OUT", bin |-> line.bin, qty |-> line.qty]
                            ELSE [do |-> "TRANSFER_IN", bin |-> line.to, qty |-> line.qty]]
    \o Do("challan")

(* Packing and consumables that come back move nothing, they are rows of    *)
(* the challan only.                                                        *)
ReceiveKind(type) ==
    CASE type = "RAW_MATERIAL" -> "TRANSFER_OUT"
      [] type \in {"FINISHED_GOOD", "BY_PRODUCT", "SCRAP"} -> "TRANSFER_IN"
      [] OTHER -> "challan"
ReceiveSteps(r) ==
    Do("findChallan")
    \o [i \in DOMAIN r.lines |-> [do |-> ReceiveKind(r.lines[i].type),
                                  bin |-> r.lines[i].bin, qty |-> r.lines[i].qty]]
    \o Do("receipt") \o Do("readStatus") \o Do("writeStatus")

ProduceSteps(r) ==
    Do("journal") \o Moves("PRODUCTION_OUT", r.uses) \o Moves("PRODUCTION_IN", r.makes)

Steps(c) ==
    LET r == Asked[c]
    IN  CASE r.kind = "sale"    -> SaleSteps(r)
          [] r.kind = "move"    -> Moves(r.move, r.lines)
          [] r.kind = "sendOut" -> SendSteps(r)
          [] r.kind = "receive" -> ReceiveSteps(r)
          [] r.kind = "produce" -> ProduceSteps(r)
          [] r.kind = "counter" -> Do("number") \o Do("invoice")

VARIABLES
    at,         \* at[c]: 0 before BEGIN, else the index of c's next statement
    ended,      \* ended[c]: "no", "committed" or "failed"
    paper,      \* paper[c]: the uncommitted rows of c outside the stock tables
    posted,     \* idempotency keys and the call that posted under them
    taxed,      \* calls whose tax_entries are committed
    journals,   \* calls whose manufacturing journal is committed
    godowns,    \* vendors with a virtual godown
    challans,   \* OUT challans by call: quantities sent, received, and status
    receipts,   \* lines of committed IN challans
    invoices    \* invoices[c]: the number of a committed pos_invoices row

papers == <<posted, taxed, journals, godowns, challans, receipts, invoices>>
serviceVars == <<stockVars, at, ended, paper, papers>>
tradingVars == <<serviceVars, setting>>

Blank == [key |-> "none", godown |-> "none", rows |-> {}, got |-> Nowhere, status |-> "none",
          read |-> "none", number |-> 0]

TradingInit ==
    /\ StockInit /\ setting \in Settings
    /\ at = [c \in Call |-> 0] /\ ended = [c \in Call |-> "no"]
    /\ paper = [c \in Call |-> Blank]
    /\ posted = {} /\ taxed = {} /\ journals = {} /\ godowns = {}
    /\ challans = Nowhere /\ receipts = {} /\ invoices = Nowhere

Open(c) == at[c] > 0 /\ ended[c] = "no"
Begin(c) ==
    /\ c \in Asking /\ at[c] = 0
    /\ at' = [at EXCEPT ![c] = 1]
    /\ UNCHANGED <<stockVars, ended, paper, papers>>

(* The statement c stands before, when no INSERT of a movement is under way. *)
Doing(c, what) ==
    /\ Open(c) /\ stage[c] = "none" /\ at[c] <= Len(Steps(c))
    /\ Steps(c)[at[c]].do = what
Advance(c) == at' = [at EXCEPT ![c] = @ + 1] /\ UNCHANGED <<ended, papers>>
Write(c, field, value) == paper' = [paper EXCEPT ![c][field] = value]

Abort(c) ==
    /\ Undo(c)
    /\ ended' = [ended EXCEPT ![c] = "failed"] /\ paper' = [paper EXCEPT ![c] = Blank]
    /\ UNCHANGED <<at, papers>>

Others(c) == {d \in Call \ {c} : Open(d)}

-----------------------------------------------------------------------------
(* The statement of a service no constraint of the schema accepts.          *)
Refusing(c) ==
    /\ Open(c) /\ Asked[c].kind \in setting.rejected
    /\ \/ Doing(c, "taxEntries") \/ Doing(c, "TRANSFER_OUT") \/ Doing(c, "TRANSFER_IN")
       \/ Doing(c, "PRODUCTION_IN") \/ Doing(c, "number")
RowRefused(c) == Refusing(c) /\ Abort(c)

(* Movements.                                                               *)
Move(c) ==
    /\ Open(c) /\ at[c] <= Len(Steps(c))
    /\ ~Refusing(c)
    /\ LET s == Steps(c)[at[c]]
       IN  /\ s.do \in Inward \cup Outward
           /\ Insert(c, at[c], s.do, s.bin, s.qty)
    /\ Advance(c) /\ UNCHANGED paper

RunTrigger(c) == Trigger(c) /\ UNCHANGED <<at, ended, paper, papers>>
MoveRefused(c) == Open(c) /\ Refused(c) /\ Abort(c)

-----------------------------------------------------------------------------
(* A sale: create() with its key, the movements, the tax entries.           *)
Known(key) == \E p \in posted : p.key = key

(* The route does not look at what create() found: it goes on either way.   *)
FindKey(c) ==
    /\ Doing(c, "findKey")
    /\ at' = [at EXCEPT ![c] = IF Known(Asked[c].key) THEN @ + 2 ELSE @ + 1]
    /\ UNCHANGED <<stockVars, ended, paper, papers>>

KeyFree(c) == \A d \in Others(c) : paper[d].key # Asked[c].key
ClaimKey(c) ==
    /\ Doing(c, "claimKey") /\ KeyFree(c) /\ ~Known(Asked[c].key)
    /\ Write(c, "key", Asked[c].key)
    /\ Advance(c) /\ UNCHANGED stockVars
KeyConflict(c) ==
    /\ Doing(c, "claimKey") /\ KeyFree(c) /\ Known(Asked[c].key)
    /\ Abort(c)

TaxEntries(c) ==
    /\ Doing(c, "taxEntries") /\ ~Refusing(c)
    /\ Advance(c) /\ UNCHANGED <<stockVars, paper>>

-----------------------------------------------------------------------------
(* Job work: the vendor's godown, made on the first challan; the OUT        *)
(* challan; the IN challan, which adds to what the OUT challan received.    *)
FindGodown(c) ==
    /\ Doing(c, "findGodown")
    /\ at' = [at EXCEPT ![c] = IF Asked[c].vendor \in godowns THEN @ + 2 ELSE @ + 1]
    /\ UNCHANGED <<stockVars, ended, paper, papers>>

GodownFree(c) == \A d \in Others(c) : paper[d].godown # Asked[c].vendor
ClaimGodown(c) ==
    /\ Doing(c, "claimGodown") /\ GodownFree(c) /\ Asked[c].vendor \notin godowns
    /\ Write(c, "godown", Asked[c].vendor)
    /\ Advance(c) /\ UNCHANGED stockVars
GodownConflict(c) ==
    /\ Doing(c, "claimGodown") /\ GodownFree(c) /\ Asked[c].vendor \in godowns
    /\ Abort(c)

Challan(c) == Doing(c, "challan") /\ Advance(c) /\ UNCHANGED <<stockVars, paper>>

FindChallan(c) ==
    /\ Doing(c, "findChallan") /\ Asked[c].of \in DOMAIN challans
    /\ Advance(c) /\ UNCHANGED <<stockVars, paper>>
NoChallan(c) ==
    /\ Doing(c, "findChallan") /\ Asked[c].of \notin DOMAIN challans
    /\ Abort(c)

(* UPDATE ... FROM: each line of the OUT challan is added to once, from one *)
(* of the lines of the IN challan with its item and type; it stays locked.  *)
Lines(c) == {Asked[c].lines[i] : i \in DOMAIN Asked[c].lines}
Sent(c) == challans[Asked[c].of].sent
Matches(l, s) == l.item = s.item /\ l.type = s.type
Matched(c) == {s \in Sent(c) : \E l \in Lines(c) : Matches(l, s)}
Sources(c) == {f \in [Matched(c) -> Lines(c)] : \A s \in Matched(c) : Matches(f[s], s)}
SameChallan(c, d) == Asked[d].kind = "receive" /\ Asked[d].of = Asked[c].of

Receipt(c) ==
    /\ Doing(c, "receipt")
    /\ \A d \in Others(c) : SameChallan(c, d) => DOMAIN paper[d].got \cap Matched(c) = {}
    /\ \E f \in Sources(c) :
          paper' = [paper EXCEPT
                       ![c].got = [s \in Matched(c) |-> f[s].qty],
                       ![c].rows = {[by |-> c, n |-> i, line |-> Asked[c].lines[i]]
                                       : i \in DOMAIN Asked[c].lines}]
    /\ Advance(c) /\ UNCHANGED stockVars

(* UPDATE ... SET status: the subquery counts in the statement's snapshot,  *)
(* before the statement waits for the challan's row.                        *)
Outstanding(c) == {s \in Sent(c) :
    At(challans[Asked[c].of].received, s) + At(paper[c].got, s) < s.qty}
(* Mutant: the lines are counted as if this challan closed them.            *)
HastyReadStatus(c) ==
    /\ Doing(c, "readStatus")
    /\ Write(c, "read", IF Sent(c) \ Matched(c) # {}
                        THEN "PARTIALLY_RECEIVED" ELSE "COMPLETED")
    /\ Advance(c) /\ UNCHANGED stockVars

ReadStatus(c) ==
    /\ Doing(c, "readStatus")
    /\ Write(c, "read", IF Outstanding(c) # {} THEN "PARTIALLY_RECEIVED" ELSE "COMPLETED")
    /\ Advance(c) /\ UNCHANGED stockVars
WriteStatus(c) ==
    /\ Doing(c, "writeStatus")
    /\ \A d \in Others(c) : SameChallan(c, d) => paper[d].status = "none"
    /\ Write(c, "status", paper[c].read)
    /\ Advance(c) /\ UNCHANGED stockVars

-----------------------------------------------------------------------------
(* A manufacturing journal debits the finished good with material plus      *)
(* overhead less by-products, and credits material and by-products.         *)
Journal(c) == Doing(c, "journal") /\ Advance(c) /\ UNCHANGED <<stockVars, paper>>
Balanced(c) ==
    Asked[c].kind = "produce" =>
        LET r == Asked[c]
        IN  r.material + r.overhead - r.byProducts = r.material + r.byProducts

(* The counter: MAX + 1 of the committed numbers, then the unique index.    *)
Used == {invoices[d] : d \in DOMAIN invoices}
Number(c) ==
    /\ Doing(c, "number") /\ ~Refusing(c)
    /\ Write(c, "number", Max(Used \cup {0}) + 1)
    /\ Advance(c) /\ UNCHANGED stockVars
NumberFree(c) ==
    \A d \in Others(c) : Doing(d, "invoice") \/ paper[d].number # paper[c].number

Invoice(c) ==
    /\ Doing(c, "invoice") /\ NumberFree(c) /\ paper[c].number \notin Used
    /\ Advance(c) /\ UNCHANGED <<stockVars, paper>>
NumberConflict(c) ==
    /\ Doing(c, "invoice") /\ NumberFree(c) /\ paper[c].number \in Used
    /\ Abort(c)

-----------------------------------------------------------------------------
AtCommit(c) == Open(c) /\ stage[c] = "none" /\ at[c] = Len(Steps(c)) + 1

(* trg_enforce_double_entry, deferred to COMMIT.                            *)
Unbalanced(c) == AtCommit(c) /\ ~Balanced(c) /\ Abort(c)

NewChallan(c) == [sent |-> {[item |-> l.item, type |-> l.type, qty |-> l.qty] : l \in Lines(c)},
                  received |-> Nowhere, status |-> "SENT"]

Received(c) ==
    LET old == challans[Asked[c].of].received
    IN  [s \in DOMAIN old \cup DOMAIN paper[c].got |-> At(old, s) + At(paper[c].got, s)]
With(S, c, kind) == IF Asked[c].kind = kind THEN S \cup {c} ELSE S

Commit(c) ==
    /\ AtCommit(c) /\ Balanced(c)
    /\ StockCommit(c)
    /\ ended' = [ended EXCEPT ![c] = "committed"] /\ paper' = [paper EXCEPT ![c] = Blank]
    /\ posted' = IF paper[c].key = "none" THEN posted
                 ELSE posted \cup {[key |-> paper[c].key, by |-> c]}
    /\ taxed' = With(taxed, c, "sale") /\ journals' = With(journals, c, "produce")
    /\ godowns' = godowns \cup ({paper[c].godown} \ {"none"})
    /\ challans' = CASE Asked[c].kind = "sendOut" -> Put(challans, c, NewChallan(c))
                     [] Asked[c].kind = "receive" ->
                            [challans EXCEPT ![Asked[c].of].received = Received(c),
                                             ![Asked[c].of].status = paper[c].status]
                     [] OTHER -> challans
    /\ receipts' = receipts \cup paper[c].rows
    /\ invoices' = IF Asked[c].kind = "counter" THEN Put(invoices, c, paper[c].number)
                   ELSE invoices
    /\ UNCHANGED at

(* The connection is lost, the victim of a deadlock is rolled back.         *)
Fail(c) == Open(c) /\ Abort(c)

TradingStep(c) ==
    \/ Begin(c) \/ Move(c) \/ RunTrigger(c) \/ MoveRefused(c) \/ RowRefused(c)
    \/ FindKey(c) \/ ClaimKey(c) \/ KeyConflict(c) \/ TaxEntries(c)
    \/ FindGodown(c) \/ ClaimGodown(c) \/ GodownConflict(c) \/ Challan(c)
    \/ FindChallan(c) \/ NoChallan(c) \/ Receipt(c) \/ ReadStatus(c) \/ WriteStatus(c)
    \/ Journal(c) \/ Number(c) \/ Invoice(c) \/ NumberConflict(c)
    \/ Unbalanced(c) \/ Commit(c) \/ Fail(c)

TradingNext == (\E c \in Call : TradingStep(c)) /\ UNCHANGED setting
TradingSpec == TradingInit /\ [][TradingNext]_tradingVars

-----------------------------------------------------------------------------
TradingTypeOK ==
    /\ StockTypeOK
    /\ \A c \in Call : at[c] > 0 => c \in Asking /\ at[c] <= Len(Steps(c)) + 1
    /\ ended \in [Call -> {"no", "committed", "failed"}]
    /\ taxed \cup journals \cup DOMAIN challans \cup DOMAIN invoices \subseteq Call
    /\ \A c \in Call : ended[c] # "no" => tx[c] = Nothing /\ paper[c] = Blank

Committed(kind) == {c \in Call : ended[c] = "committed" /\ Asked[c].kind = kind}
MovesOf(c) == {m \in moved : m.by = c}
MoveSteps(c) == {i \in DOMAIN Steps(c) : Steps(c)[i].do \in Inward \cup Outward}

(* Whatever fails and wherever, a service's movements are in the stock      *)
(* ledger all or none, together with the rows it writes elsewhere: a sale   *)
(* with its header and tax entries, production with its journal, a challan  *)
(* with what it moved ("All within a single database transaction").         *)
ServicesAreAtomic ==
    \A c \in Call :
        /\ {m.n : m \in MovesOf(c)} = IF ended[c] = "committed" THEN MoveSteps(c) ELSE {}
        /\ c \in taxed <=> c \in Committed("sale")
        /\ c \in taxed => Known(Asked[c].key)
        /\ c \in journals <=> c \in Committed("produce")
        /\ c \in DOMAIN challans <=> c \in Committed("sendOut")

(* Goods sent to a vendor are received as often as IN challans say: two     *)
(* receipts of one challan at a time do not overwrite each other.  Of two   *)
(* lines of one IN challan with the same goods only one counts (UPDATE ...  *)
(* FROM joins a row once), so those challans are left out.                  *)
ReceiptsAddUp ==
    \A c \in DOMAIN challans : \A s \in challans[c].sent :
        LET of == {r \in receipts : Asked[r.by].of = c /\ Matches(r.line, s)}
        IN  (\A p, r \in of : p.by = r.by => p = r) =>
                At(challans[c].received, s) = MapThenSumSet(LAMBDA r : r.line.qty, of)

(* An OUT challan that says COMPLETED has all of its goods back.            *)
CompletedIsReceived ==
    \A c \in DOMAIN challans : challans[c].status = "COMPLETED" =>
        \A s \in challans[c].sent : At(challans[c].received, s) >= s.qty

(* Counter invoices are numbered without a gap or a repetition, though the  *)
(* number is read without a lock and transactions fail in between.          *)
NumbersRunOn ==
    /\ {invoices[c] : c \in DOMAIN invoices} = 1 .. Cardinality(DOMAIN invoices)

(* What the services leave behind adds up: each is there whole or not at    *)
(* all, challans and receipts agree, and counter invoices are numbered      *)
(* without gaps, with failures anywhere.                                    *)
ServicesAddUp ==
    /\ TradingTypeOK
    /\ ServicesAreAtomic
    /\ ReceiptsAddUp
    /\ CompletedIsReceived
    /\ NumbersRunOn
=============================================================================

-------------------------------- MODULE Forex --------------------------------
(***************************************************************************)
(* Open items in foreign currencies (src/src/forex, post_forex_revaluation  *)
(* of src/edge_cases_schema.sql): registration, rates, month-end            *)
(* revaluation and settlement.                                              *)
(*                                                                         *)
(* A call is one transaction; a backfill revalues several months in one.    *)
(* Amounts are in cents and paise, rates in hundredths of a rupee, months   *)
(* are numbers.                                                             *)
(* As committed the posting casts a company number to UUID: it is modelled  *)
(* as it is meant.                                                          *)
(***************************************************************************)
EXTENDS Integers, Sequences, FiniteSets, FiniteSetsExt

CONSTANTS
    FxCall,         \* calls of ForexService
    FxSettings      \* the items, first rates, accounts and calls of a behaviour

ASSUME ForexAssumption ==
    \A s \in FxSettings :
        /\ DOMAIN s.items \subseteq Nat /\ s.open \subseteq DOMAIN s.items /\ DOMAIN s.calls \subseteq FxCall
        /\ \A e \in DOMAIN s.items :
              /\ s.items[e].kind \in {"RECEIVABLE", "LOAN_GIVEN", "PAYABLE", "LOAN_TAKEN"}
              /\ s.items[e].amount \in Nat \ {0} /\ s.items[e].rate \in Nat \ {0}
        /\ \A r \in s.rates : r.month \in Nat /\ r.rate \in Int
        /\ \A c \in DOMAIN s.calls : LET call == s.calls[c] IN
              /\ call.kind \in {"register", "rate", "revalue", "settle"}
              /\ call.kind \in {"register", "settle"} => call.of \in DOMAIN s.items
              /\ call.kind = "settle" => call.rate \in Int
              /\ call.kind = "rate" => call.rate.month \in Nat /\ call.rate.rate \in Int
              /\ call.kind = "revalue" =>
                    /\ call.months \in Seq(Nat) \ {<<>>}
                    /\ \A i, j \in DOMAIN call.months : i # j => call.months[i] # call.months[j]

VARIABLES
    fxAsked,        \* the setting of this behaviour
    fxStep,         \* fxStep[c]: "start", "working", "done" or "refused"
    fxSeen,         \* fxSeen[c]: what call c has read and not yet committed
    fxRows,         \* forex_transactions: fxRows[e] for every registered item e
    fxRates,        \* exchange_rates
    fxRuns          \* the revaluation runs in the order of their commits

fxVars == <<fxAsked, fxStep, fxSeen, fxRows, fxRates, fxRuns>>

InRupees(cents, rate) == (2 * cents * rate + 100) \div 200
FxRow(item) ==
    [booked |-> InRupees(item.amount, item.rate), outstanding |-> item.amount,
     unrealized |-> 0, realized |-> 0, status |-> "OPEN"]

FxInit ==
    /\ fxAsked \in FxSettings
    /\ fxStep = [c \in FxCall |-> "start"] /\ fxSeen = [c \in FxCall |-> <<>>]
    /\ fxRows = [e \in fxAsked.open |-> FxRow(fxAsked.items[e])] /\ fxRates = fxAsked.rates /\ fxRuns = <<>>

FxIs(c, kind, at) ==
    c \in DOMAIN fxAsked.calls /\ fxAsked.calls[c].kind = kind /\ fxStep[c] = at
FxTo(c, at, what) == fxStep' = [fxStep EXCEPT ![c] = at] /\ fxSeen' = [fxSeen EXCEPT ![c] = what]

-----------------------------------------------------------------------------
(* The latest rate of the currency up to the month, or none.                *)
RatesUpTo(currency, month) == {r \in fxRates : r.currency = currency /\ r.month <= month}
RateAt(currency, month) == (CHOOSE r \in RatesUpTo(currency, month) :
    \A q \in RatesUpTo(currency, month) : q.month <= r.month).rate

Register(c) == LET e == fxAsked.calls[c].of IN
    /\ FxIs(c, "register", "start") /\ e \notin DOMAIN fxRows
    /\ fxRows' = [d \in DOMAIN fxRows \cup {e} |->
           IF d = e THEN FxRow(fxAsked.items[e]) ELSE fxRows[d]]
    /\ FxTo(c, "done", <<>>) /\ UNCHANGED <<fxAsked, fxRates, fxRuns>>
UpsertRate(c) == LET call == fxAsked.calls[c] IN
    /\ FxIs(c, "rate", "start")
    /\ fxRates' = {r \in fxRates : r.currency # call.rate.currency \/ r.month # call.rate.month} \cup {call.rate}
    /\ FxTo(c, "done", <<>>) /\ UNCHANGED <<fxAsked, fxRows, fxRuns>>

-----------------------------------------------------------------------------
(* A run.                                                                   *)

AlreadyRevalued(month) == \E n \in DOMAIN fxRuns : fxRuns[n].month = month

OpenItems == {e \in DOMAIN fxRows : fxRows[e].status = "OPEN" /\ fxRows[e].outstanding > 0}
NewMonth(i, before, held) ==
    [at |-> i, saw |-> Len(fxRuns), read |-> fxRows, left |-> OpenItems, lines |-> <<>>,
     before |-> before, held |-> held]
BeginRevaluation(c) == LET months == fxAsked.calls[c].months IN
    /\ FxIs(c, "revalue", "start")
    /\ IF AlreadyRevalued(months[1]) THEN FxTo(c, "refused", <<>>)
                                     ELSE FxTo(c, "working", NewMonth(1, <<>>, {}))
    /\ UNCHANGED <<fxAsked, fxRows, fxRates, fxRuns>>

(* The difference is against the rupees booked when the item was            *)
(* registered, not against the last revaluation.                            *)
Difference(e, row, rate) ==
    InRupees(row.outstanding, rate)
    - (2 * row.outstanding * row.booked + fxAsked.items[e].amount) \div (2 * fxAsked.items[e].amount)
Sign(e) == IF fxAsked.items[e].kind \in {"RECEIVABLE", "LOAN_GIVEN"} THEN 1 ELSE -1
Gain(e, row, rate) == Sign(e) * Difference(e, row, rate)
GainAccount(gain) == IF gain > 0 THEN "gain" ELSE "loss"

(* UPDATE waits for another run that wrote the row.                         *)
ItemFree(c, e) == \A d \in DOMAIN fxAsked.calls \ {c} :
    FxIs(d, "revalue", "working") => e \notin fxSeen[d].held

(* An item without a rate, or at its old value, is passed over.  Without    *)
(* an account for the difference it is written on the row and not posted.   *)
RevalueItem(c) == LET call == fxAsked.calls[c] seen == fxSeen[c] month == call.months[seen.at] IN
    /\ FxIs(c, "revalue", "working")
    /\ \E e \in seen.left :
         LET currency == fxAsked.items[e].currency
             gain == Gain(e, seen.read[e], RateAt(currency, month))
             line == [of |-> e, gain |-> gain, posted |-> GainAccount(gain) \in fxAsked.accounts,
                      value |-> InRupees(seen.read[e].outstanding, RateAt(currency, month))]
         IN  IF RatesUpTo(currency, month) = {} \/ gain = 0
             THEN FxTo(c, "working", [seen EXCEPT !.left = @ \ {e}])
             ELSE /\ ItemFree(c, e)
                  /\ FxTo(c, "working", [seen EXCEPT
                         !.left = @ \ {e}, !.held = @ \cup {e}, !.lines = Append(@, line)])
    /\ UNCHANGED <<fxAsked, fxRows, fxRates, fxRuns>>

GainOf(lines, which) == MapThenSumSet(LAMBDA k : lines[k].gain, which)
PostedLines(lines) == {k \in DOMAIN lines : lines[k].posted}
NetGain(lines) == IF PostedLines(lines) = {} THEN 0 ELSE GainOf(lines, DOMAIN lines)
Revalued(c) == LET seen == fxSeen[c] IN
    Append(seen.before, [month |-> fxAsked.calls[c].months[seen.at], by |-> c, saw |-> seen.saw,
                         lines |-> seen.lines, net |-> NetGain(seen.lines)])
NextMonth(c) == LET months == fxAsked.calls[c].months seen == fxSeen[c] IN
    /\ FxIs(c, "revalue", "working") /\ seen.left = {} /\ seen.at < Len(months)
    /\ IF AlreadyRevalued(months[seen.at + 1]) THEN FxTo(c, "refused", <<>>)
       ELSE FxTo(c, "working", NewMonth(seen.at + 1, Revalued(c), seen.held))
    /\ UNCHANGED <<fxAsked, fxRows, fxRates, fxRuns>>

LinesAbout(lines, e) == {k \in DOMAIN lines : lines[k].of = e}
Latest(runs, e) == LET with == {n \in DOMAIN runs : LinesAbout(runs[n].lines, e) # {}} IN
    IF with = {} THEN <<>>
    ELSE LET lines == runs[Max(with)].lines IN <<lines[CHOOSE k \in LinesAbout(lines, e) : TRUE]>>
CommitRevaluation(c) == LET seen == fxSeen[c] IN
    /\ FxIs(c, "revalue", "working") /\ seen.left = {} /\ seen.at = Len(fxAsked.calls[c].months)
    /\ fxRuns' = fxRuns \o Revalued(c)
    /\ fxRows' = [e \in DOMAIN fxRows |->
           IF e \in seen.held THEN [fxRows[e] EXCEPT !.unrealized = Latest(Revalued(c), e)[1].gain] ELSE fxRows[e]]
    /\ FxTo(c, "done", <<>>) /\ UNCHANGED <<fxAsked, fxRates>>

-----------------------------------------------------------------------------
(* settle: an unlocked read, then an UPDATE of the whole settlement; no     *)
(* status is asked for and a liability is treated like an asset.            *)
ReadToSettle(c) == LET e == fxAsked.calls[c].of IN
    /\ FxIs(c, "settle", "start")
    /\ IF e \in DOMAIN fxRows THEN FxTo(c, "working", fxRows[e]) ELSE FxTo(c, "refused", <<>>)
    /\ UNCHANGED <<fxAsked, fxRows, fxRates, fxRuns>>
Realized(e, row, rate) == LET twice == 2 * (rate - fxAsked.items[e].rate) * row.outstanding IN
    IF twice < 0 THEN -((100 - twice) \div 200) ELSE (twice + 100) \div 200
(* Mutant: what was read is written back, the settlement aside.             *)
WriteBack(row, seen) == [seen EXCEPT !.outstanding = 0, !.status = "SETTLED"]
Settled(row, seen) == [row EXCEPT !.outstanding = 0, !.status = "SETTLED"]
Settle(c) == LET e == fxAsked.calls[c].of seen == fxSeen[c] IN
    /\ FxIs(c, "settle", "working") /\ ItemFree(c, e)
    /\ fxRows' = [fxRows EXCEPT ![e] =
           [Settled(@, seen) EXCEPT !.realized = Realized(e, seen, fxAsked.calls[c].rate)]]
    /\ FxTo(c, "done", <<>>) /\ UNCHANGED <<fxAsked, fxRates, fxRuns>>
FxFails(c) ==
    /\ c \in DOMAIN fxAsked.calls /\ fxStep[c] = "working" /\ FxTo(c, "refused", <<>>)
    /\ UNCHANGED <<fxAsked, fxRows, fxRates, fxRuns>>

FxNext == \E c \in FxCall :
    \/ Register(c) \/ UpsertRate(c) \/ ReadToSettle(c) \/ Settle(c) \/ FxFails(c)
    \/ BeginRevaluation(c) \/ RevalueItem(c) \/ NextMonth(c) \/ CommitRevaluation(c)
FxSpec == FxInit /\ [][FxNext]_fxVars

-----------------------------------------------------------------------------
(* A run's line is the item's value at the closing rate minus the rupees    *)
(* booked when it was registered, a liability's the other way round,        *)
(* whatever was settled or revalued in between.                             *)
LineIsClosingMinusBooked ==
    \A n \in DOMAIN fxRuns : \A k \in DOMAIN fxRuns[n].lines :
        LET line == fxRuns[n].lines[k] IN
        /\ line.of \in DOMAIN fxRows
        /\ line.gain = Sign(line.of) * (line.value - fxRows[line.of].booked)

(* "Monetary items (receivables, payables, loans): revalued at closing      *)
(* rate": what was booked and all that runs have posted to the              *)
(* counterparty's account stand at the value of the last run.  It does not  *)
(* hold: a second month posts the whole difference again beside the first.  *)
PostedFor(e) ==
    MapThenSumSet(LAMBDA n : GainOf(fxRuns[n].lines, LinesAbout(fxRuns[n].lines, e)), DOMAIN fxRuns)
StandsAtClosingRate ==
    fxAsked.accounts = {"gain", "loss"} =>
        \A e \in DOMAIN fxRows : LET last == Latest(fxRuns, e) IN
            last # <<>> => fxRows[e].booked + Sign(e) * PostedFor(e) = last[1].value

(* The gain a run reports is what its lines posted to the gain and loss     *)
(* accounts, where both exist.                                              *)
NetMatchesJournal ==
    fxAsked.accounts = {"gain", "loss"} =>
        \A n \in DOMAIN fxRuns : fxRuns[n].net = GainOf(fxRuns[n].lines, PostedLines(fxRuns[n].lines))

(* However runs and settlements overlap, the unrealized gain on an item is  *)
(* that of the last committed run with a line for it.                       *)
UnrealizedIsLastLine ==
    \A e \in DOMAIN fxRows :
        LET last == Latest(fxRuns, e) IN
        fxRows[e].unrealized = IF last = <<>> THEN 0 ELSE last[1].gain

(* A month is revalued once, unless another call's run began before the     *)
(* earlier one was committed.                                               *)
RevaluedOnce ==
    \A m, n \in DOMAIN fxRuns :
        m < n /\ fxRuns[m].month = fxRuns[n].month => fxRuns[n].saw < m /\ fxRuns[m].by # fxRuns[n].by

(* Rows, runs and postings of the open items tell the same gain, beside     *)
(* settlements and overlapping runs.                                        *)
RevaluationAddsUp ==
    /\ LineIsClosingMinusBooked
    /\ NetMatchesJournal
    /\ UnrealizedIsLastLine
    /\ RevaluedOnce
=============================================================================

------------------------------- MODULE Assets -------------------------------
(***************************************************************************)
(* Annual depreciation of fixed assets (src/src/assets,                     *)
(* post_annual_depreciation of src/edge_cases_schema.sql): runs of two acts *)
(* for the years of a few assets.                                           *)
(*                                                                         *)
(* A call is one transaction; postAllDepreciation's two queries share a     *)
(* client, which sends one after the other.  Amounts are in paise, rates in *)
(* hundredths of a percent, and every year has 365 days: year y is the days *)
(* 365 * y + 1 .. 365 * (y + 1).  As committed the posting casts a company  *)
(* number to UUID: it is modelled as it is meant.                           *)
(***************************************************************************)
EXTENDS Integers, Sequences, FiniteSets, FiniteSetsExt

CONSTANTS
    DeprCall,       \* calls of DepreciationService
    DeprSettings    \* the assets and the calls of a behaviour

ASSUME DepreciationAssumption ==
    \A s \in DeprSettings :
        /\ DOMAIN s.assets \subseteq Nat /\ DOMAIN s.calls \subseteq DeprCall
        /\ \A a \in DOMAIN s.assets :
              /\ s.assets[a].value \in Nat
              /\ {s.assets[a].residual, s.assets[a].rate, s.assets[a].slm, s.assets[a].bought} \subseteq Int
        /\ \A c \in DOMAIN s.calls :
              /\ s.calls[c].year \in Int
              /\ s.calls[c].acts \in {<<"INCOME_TAX">>, <<"COMPANIES_ACT">>, <<"INCOME_TAX", "COMPANIES_ACT">>}

VARIABLES
    deprAsked,      \* the setting of this behaviour
    deprStep,       \* deprStep[c]: "start", "running", "done" or "refused"
    deprSeen,       \* deprSeen[c]: the run call c is in and what it did before
    accumulated,    \* accumulated[a]: fixed_assets.accumulated_depr
    deprRuns        \* the depreciation runs in the order of their commits

deprVars == <<deprAsked, deprStep, deprSeen, accumulated, deprRuns>>

DeprInit ==
    /\ deprAsked \in DeprSettings
    /\ deprStep = [c \in DeprCall |-> "start"] /\ deprSeen = [c \in DeprCall |-> <<>>]
    /\ accumulated = [a \in DOMAIN deprAsked.assets |-> 0] /\ deprRuns = <<>>

DeprIs(c, at) == c \in DOMAIN deprAsked.calls /\ deprStep[c] = at
DeprTo(c, at, what) ==
    deprStep' = [deprStep EXCEPT ![c] = at] /\ deprSeen' = [deprSeen EXCEPT ![c] = what]

-----------------------------------------------------------------------------
(* What a year takes from an asset.                                         *)
Half(n) == (n + 1) \div 2
OfRate(amount, rate) == (2 * amount * rate + 10000) \div 20000
Start(y) == 365 * y + 1
End(y) == 365 * (y + 1)
FirstOctober(y) == Start(y) + 183

IncomeTax(asset, wdv, y) == LET whole == OfRate(wdv, asset.rate) IN
    IF asset.bought > FirstOctober(y) THEN Half(whole) ELSE whole
StraightLine(asset, y) == LET whole == OfRate(asset.value - asset.residual, asset.slm) IN
    IF asset.bought > Start(y) THEN (2 * whole * (End(y) - asset.bought) + 365) \div 730 ELSE whole
Method(asset, act, wdv, y) ==
    IF act = "INCOME_TAX" THEN IncomeTax(asset, wdv, y)
    ELSE IF asset.slm > 0 THEN StraightLine(asset, y) ELSE OfRate(wdv, asset.rate)
ForYear(asset, act, wdv, y) == LET amount == Method(asset, act, wdv, y) IN
    IF amount > wdv THEN wdv ELSE amount

-----------------------------------------------------------------------------
AlreadyRun(y, act) == \E n \in DOMAIN deprRuns : deprRuns[n].year = y /\ deprRuns[n].act = act

(* The loop reads every asset as it is when it starts, a call's own earlier *)
(* run included.                                                            *)
ToDepreciate(y) == {a \in DOMAIN accumulated : deprAsked.assets[a].bought <= End(y)}
NewRun(c, i, held, own, before) ==
    [act |-> i, saw |-> Len(deprRuns), read |-> [a \in DOMAIN accumulated |-> accumulated[a] + own[a]],
     left |-> ToDepreciate(deprAsked.calls[c].year), done |-> held, items |-> <<>>, own |-> own,
     before |-> before]
Untouched == [a \in DOMAIN accumulated |-> 0]

BeginRun(c) == LET call == deprAsked.calls[c] IN
    /\ DeprIs(c, "start")
    /\ IF AlreadyRun(call.year, call.acts[1]) THEN DeprTo(c, "refused", <<>>)
                                              ELSE DeprTo(c, "running", NewRun(c, 1, {}, Untouched, <<>>))
    /\ UNCHANGED <<deprAsked, accumulated, deprRuns>>

(* UPDATE ... SET accumulated_depr = accumulated_depr + amount waits for    *)
(* another run that holds the row, and adds to what that one left.          *)
AssetFree(c, a) ==
    \A d \in DOMAIN deprAsked.calls \ {c} : DeprIs(d, "running") => a \notin deprSeen[d].done
(* Mutant: SET accumulated_depr = what the loop read + amount.              *)
AddToRead(a, seen, amount) == seen.read[a] + amount - accumulated[a]
AddToRow(a, seen, amount) == seen.own[a] + amount
DeprItem(asset, act, a, wdv, y) ==
    [asset |-> a, opening |-> wdv, amount |-> ForYear(asset, act, wdv, y)]
DepreciateAsset(c) == LET call == deprAsked.calls[c] seen == deprSeen[c] IN
    /\ DeprIs(c, "running") /\ seen.left # {}
    /\ LET a == Min(seen.left)
           asset == deprAsked.assets[a]
           item == DeprItem(asset, call.acts[seen.act], a, asset.value - seen.read[a], call.year)
       IN  /\ AssetFree(c, a)
           /\ DeprTo(c, "running", [seen EXCEPT
                  !.left = @ \ {a}, !.done = @ \cup {a}, !.items = Append(@, item), !.own[a] = AddToRow(a, seen, item.amount)])
    /\ UNCHANGED <<deprAsked, accumulated, deprRuns>>

Finished(c) == LET call == deprAsked.calls[c] seen == deprSeen[c] IN
    Append(seen.before, [year |-> call.year, act |-> call.acts[seen.act], by |-> c, saw |-> seen.saw,
                         items |-> seen.items])
NextAct(c) == LET call == deprAsked.calls[c] seen == deprSeen[c] IN
    /\ DeprIs(c, "running") /\ seen.left = {} /\ seen.act < Len(call.acts)
    /\ IF AlreadyRun(call.year, call.acts[seen.act + 1]) THEN DeprTo(c, "refused", <<>>)
       ELSE DeprTo(c, "running", NewRun(c, seen.act + 1, seen.done, seen.own, Finished(c)))
    /\ UNCHANGED <<deprAsked, accumulated, deprRuns>>
CommitRuns(c) == LET seen == deprSeen[c] IN
    /\ DeprIs(c, "running") /\ seen.left = {} /\ seen.act = Len(deprAsked.calls[c].acts)
    /\ accumulated' = [a \in DOMAIN accumulated |-> accumulated[a] + seen.own[a]]
    /\ deprRuns' = deprRuns \o Finished(c)
    /\ DeprTo(c, "done", <<>>) /\ UNCHANGED deprAsked
DeprFails(c) ==
    /\ DeprIs(c, "running") /\ DeprTo(c, "refused", <<>>)
    /\ UNCHANGED <<deprAsked, accumulated, deprRuns>>

DeprNext == \E c \in DeprCall :
    BeginRun(c) \/ DepreciateAsset(c) \/ NextAct(c) \/ CommitRuns(c) \/ DeprFails(c)
DeprSpec == DeprInit /\ [][DeprNext]_deprVars

-----------------------------------------------------------------------------
ItemsOf(items, a) == {k \in DOMAIN items : items[k].asset = a}
TakenBy(items, a) == MapThenSumSet(LAMBDA k : items[k].amount, ItemsOf(items, a))
TakenIn(runs, a) == MapThenSumSet(LAMBDA n : TakenBy(runs[n].items, a), DOMAIN runs)

(* A run overlaps one of another call that it began before the commit of.   *)
Overlap(m, n) == m < n /\ deprRuns[n].saw < m /\ deprRuns[m].by # deprRuns[n].by
NoOverlaps == \A m, n \in DOMAIN deprRuns : ~Overlap(m, n)

(* However runs of the two acts and of several years overlap, an asset's    *)
(* accumulated depreciation is what the runs on record took from it.        *)
AccumulatedMatchesRuns ==
    \A a \in DOMAIN accumulated : accumulated[a] = TakenIn(deprRuns, a)

(* Runs that do not overlap take no more from an asset than it cost, over   *)
(* however many years and both acts, which add to one column.               *)
NothingBelowZero ==
    NoOverlaps => \A a \in DOMAIN accumulated : accumulated[a] <= deprAsked.assets[a].value

(* A year is depreciated once under an act, unless the later run began      *)
(* before the earlier one was committed.                                    *)
DepreciatedOnce ==
    \A m, n \in DOMAIN deprRuns :
        /\ m < n /\ deprRuns[m].year = deprRuns[n].year /\ deprRuns[m].act = deprRuns[n].act
        => Overlap(m, n)

(* Runs of two acts and several years that overlap leave each asset's       *)
(* column the sum of what they took, no more than it cost, and each year    *)
(* once.                                                                    *)
DepreciationAddsUp ==
    /\ AccumulatedMatchesRuns
    /\ NothingBelowZero
    /\ DepreciatedOnce
=============================================================================

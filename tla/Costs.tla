------------------------------- MODULE Costs -------------------------------
(***************************************************************************)
(* The cost centres one journal entry is allocated to                       *)
(* (src/src/costing/cost-center-service.ts, src/cost_center_schema.sql):    *)
(* the split by a class, manual allocation, and the deferred trigger that   *)
(* demands 100 % at COMMIT.  Amounts are in paise, percentages in           *)
(* hundredths of a percent.                                                 *)
(***************************************************************************)
EXTENDS Integers, Sequences, Functions, FiniteSets

CONSTANTS
    CostCall,       \* calls of the service
    CostSettings    \* [entry, split, posted, calls]: what a behaviour is about

VARIABLES
    costAsked,      \* the setting of this behaviour
    costStep,       \* costStep[c]: "start", "waiting", "deleted", "checked", "done" or "refused"
    snapshot,       \* snapshot[c]: the rows call c's DELETE found, then deleted
    mine,           \* mine[c]: the rows call c inserted
    allocations     \* the committed rows: call, line and amount

costVars == <<costAsked, costStep, snapshot, mine, allocations>>

RoundCost(n, d) == (2 * n + d) \div (2 * d)
TotalCost(shares) == SumFunctionOnSet(shares, DOMAIN shares)

(* auto_allocate_cost_centers: the last share takes what rounding left.     *)
AutoSplit(entry, split) ==
    LET rounded == [i \in DOMAIN split |-> RoundCost(entry * split[i], 10000)]
    IN  [rounded EXCEPT ![Len(split)] = entry - SumFunctionOnSet(rounded, 1 .. Len(split) - 1)]

(* A share of nothing or less is refused by CHECK (allocated_amount > 0).   *)
ASSUME CostAssumption ==
    /\ "posting" \notin CostCall
    /\ \A s \in CostSettings :
        /\ s.entry \in Nat \ {0} /\ s.split \in Seq(Nat) /\ s.split # <<>>
        /\ s.posted => \A i \in DOMAIN s.split : AutoSplit(s.entry, s.split)[i] > 0
        /\ \A c \in DOMAIN s.calls : s.calls[c].kind = "set" => s.calls[c].shares \in Seq(Int)

(* createClass takes percentages that sum to 100 within a hundredth.        *)
ClassAccepted(split) == TotalCost(split) \in 9999 .. 10001

RowsOf(c, shares) ==
    {[by |-> c, line |-> i, amount |-> shares[i]] : i \in {j \in DOMAIN shares : shares[j] > 0}}
AllocSum(rows) == SumFunctionOnSet([r \in rows |-> r.amount], rows)

(* Mutant: the trigger only looks for too little.                           *)
FallsShort(rows) == costAsked.entry - AllocSum(rows) > 2

Mismatch(rows) ==
    LET diff == costAsked.entry - AllocSum(rows) IN diff > 2 \/ diff < -2

CostInit ==
    /\ costAsked \in CostSettings
    /\ costStep = [c \in CostCall |-> "start"]
    /\ snapshot = [c \in CostCall |-> {}] /\ mine = [c \in CostCall |-> {}]
    /\ allocations = IF costAsked.posted
                     THEN RowsOf("posting", AutoSplit(costAsked.entry, costAsked.split)) ELSE {}

CostIs(c, kind, at) ==
    c \in DOMAIN costAsked.calls /\ costAsked.calls[c].kind = kind /\ costStep[c] = at
CostEnd(c, how) ==
    /\ costStep' = [costStep EXCEPT ![c] = how]
    /\ snapshot' = [snapshot EXCEPT ![c] = {}] /\ mine' = [mine EXCEPT ![c] = {}]

-----------------------------------------------------------------------------
(* setAllocations compares the sum with the entry, then its DELETE finds    *)
(* rows, waits for those another call is deleting, and skips them if they   *)
(* are gone: rows committed while it waited are not among those it found.   *)
SumMatches(c) == LET diff == costAsked.entry - TotalCost(costAsked.calls[c].shares)
                 IN diff <= 2 /\ diff >= -2
SumRefused(c) ==
    /\ CostIs(c, "set", "start") /\ ~SumMatches(c)
    /\ CostEnd(c, "refused") /\ UNCHANGED <<costAsked, allocations>>
FindRows(c) ==
    /\ CostIs(c, "set", "start") /\ SumMatches(c)
    /\ snapshot' = [snapshot EXCEPT ![c] = allocations]
    /\ costStep' = [costStep EXCEPT ![c] = "waiting"]
    /\ UNCHANGED <<costAsked, mine, allocations>>
Uncommitted(c) == costStep[c] \in {"deleted", "checked"}
RowsFree(c) == \A d \in CostCall \ {c} : Uncommitted(d) => snapshot[d] \cap snapshot[c] = {}
setAllocations(c) ==
    /\ CostIs(c, "set", "waiting") /\ RowsFree(c)
    /\ snapshot' = [snapshot EXCEPT ![c] = @ \cap allocations]
    /\ mine' = [mine EXCEPT ![c] = RowsOf(c, costAsked.calls[c].shares)]
    /\ costStep' = [costStep EXCEPT ![c] = "deleted"] /\ UNCHANGED <<costAsked, allocations>>

(* applyAutoAllocation inserts the shares; CHECK refuses one of nothing.    *)
Shares == AutoSplit(costAsked.entry, costAsked.split)
applyAutoAllocation(c) ==
    /\ CostIs(c, "auto", "start")
    /\ IF \A i \in DOMAIN Shares : Shares[i] > 0
       THEN /\ mine' = [mine EXCEPT ![c] = RowsOf(c, Shares)]
            /\ costStep' = [costStep EXCEPT ![c] = "deleted"] /\ UNCHANGED snapshot
       ELSE CostEnd(c, "refused")
    /\ UNCHANGED <<costAsked, allocations>>

(* At COMMIT the deferred trigger sums what is committed and the call's own *)
(* rows; the commit becomes visible later, and another may do so meanwhile. *)
Seen(c) == (allocations \ snapshot[c]) \cup mine[c]
CostCheck(c) ==
    /\ costStep[c] = "deleted" /\ ~Mismatch(Seen(c))
    /\ costStep' = [costStep EXCEPT ![c] = "checked"]
    /\ UNCHANGED <<costAsked, snapshot, mine, allocations>>
CostRefused(c) ==
    /\ costStep[c] = "deleted" /\ Mismatch(Seen(c))
    /\ CostEnd(c, "refused") /\ UNCHANGED <<costAsked, allocations>>
CostCommit(c) ==
    /\ costStep[c] = "checked"
    /\ allocations' = Seen(c)
    /\ CostEnd(c, "done") /\ UNCHANGED costAsked

CostNext == \E c \in CostCall :
    \/ SumRefused(c) \/ FindRows(c) \/ setAllocations(c) \/ applyAutoAllocation(c)
    \/ CostCheck(c) \/ CostRefused(c) \/ CostCommit(c)
CostSpec == CostInit /\ [][CostNext]_costVars

-----------------------------------------------------------------------------
(* An entry that was allocated when its voucher was posted stays allocated  *)
(* in full, to two paise, whatever calls reallocate it at the same time:    *)
(* their DELETEs wait for each other, so no two of them pass the trigger's  *)
(* check on the same rows.  (Of an entry of six paise or less two           *)
(* allocations may stand: together they are within the trigger's two.)      *)
AllocatedInFull == costAsked.posted /\ costAsked.entry > 6 =>
    costAsked.entry - AllocSum(allocations) \in -2 .. 2

(* No entry is ever allocated beyond its amount.  It does not hold of an    *)
(* entry without an allocation: two calls that give it its first find no    *)
(* row to wait for, each trigger sees its own call's rows only, and both    *)
(* commit.                                                                  *)
NeverOverAllocated == AllocSum(allocations) - costAsked.entry <= 2

(* The shares of a class createClass accepts make up the amount to the      *)
(* paisa, and no share but the last is more than half a paisa off.          *)
SplitIsExact == ClassAccepted(costAsked.split) =>
    /\ TotalCost(Shares) = costAsked.entry
    /\ \A i \in 1 .. Len(Shares) - 1 :
          LET off == 10000 * Shares[i] - costAsked.entry * costAsked.split[i]
          IN  -10000 <= 2 * off /\ 2 * off <= 10000

(* An entry posted with its allocation stays allocated in full, by hand or  *)
(* by a class, whoever reallocates it at the same time.                     *)
SharesAddUp ==
    /\ AllocatedInFull
    /\ SplitIsExact
=============================================================================

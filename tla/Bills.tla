------------------------------- MODULE Bills -------------------------------
(***************************************************************************)
(* The bills of one party (src/src/billing/bill-service.ts,                 *)
(* src/billwise_schema.sql): bills, payments against them, advances and     *)
(* their use, and the credit limit.  Each call is one transaction.  Amounts *)
(* are in paise.                                                            *)
(***************************************************************************)
EXTENDS Integers, Sequences, FiniteSetsExt

CONSTANTS
    BillCall,       \* calls of the service
    BillSettings,   \* functions from some calls to their requests
    OldBills,       \* the rows at the start: a sequence
    CreditLimit     \* accounts.credit_limit of the party

BillRows ==
    [type : {"NEW_REF", "ADVANCE"}, original : Nat \ {0}, pending : Nat, settled : Nat,
     status : {"PENDING", "PARTIALLY_PAID", "SETTLED", "ADVANCE_PENDING", "ADVANCE_CONSUMED"}]
NoBill == [type |-> "none", original |-> 0, pending |-> 0, settled |-> 0, status |-> "none"]
BillRow(type, amount, status) ==
    [type |-> type, original |-> amount, pending |-> amount, settled |-> 0, status |-> status]

AmountOf(rows, S) == MapThenSumSet(LAMBDA n : rows[n].amount, S)
PendingOf(rows, S) == MapThenSumSet(LAMBDA n : rows[n].pending, S)
NewRefs(rows) == {n \in DOMAIN rows : rows[n].type = "NEW_REF"}

ASSUME BillAssumption ==
    /\ CreditLimit \in Nat /\ IsFiniteSet(BillCall)
    /\ \A s \in BillSettings : \A c \in DOMAIN s :
          c \in BillCall /\ s[c].amount \in Nat \ {0} /\ s[c].kind \in {"bill", "adjust", "advance", "consume"}

(* At the start nothing is paid, and the party is within its limit.         *)
ASSUME OldBillsAssumption ==
    /\ OldBills \in Seq(BillRows)
    /\ \A n \in DOMAIN OldBills : LET amount == OldBills[n].original IN
          OldBills[n] \in {BillRow("NEW_REF", amount, "PENDING"), BillRow("ADVANCE", amount, "ADVANCE_PENDING")}
    /\ PendingOf(OldBills, NewRefs(OldBills)) <= CreditLimit

VARIABLES
    billAsked,      \* the requests of this behaviour
    billStep,       \* billStep[c]: "start", "checked", "locked", "done" or "refused"
    billSeen,       \* billSeen[c]: the row call c holds
    bills,          \* the NEW_REF and ADVANCE rows of bill_references
    history,        \* the AGST_REF rows: bill and amount
    given           \* what consumeAdvance returned: advance and amount

billVars == <<billAsked, billStep, billSeen, bills, history, given>>
billTables == <<bills, history, given>>

BillInit ==
    /\ billAsked \in BillSettings
    /\ billStep = [c \in BillCall |-> "start"] /\ billSeen = [c \in BillCall |-> NoBill]
    /\ bills = OldBills /\ history = <<>> /\ given = <<>>

BillIs(c, kind, at) == c \in DOMAIN billAsked /\ billAsked[c].kind = kind /\ billStep[c] = at
BillGoto(c, where) == billStep' = [billStep EXCEPT ![c] = where]
BillEnd(c, how) == BillGoto(c, how) /\ billSeen' = [billSeen EXCEPT ![c] = NoBill]

-----------------------------------------------------------------------------

Counted(b) == b.status \in {"PENDING", "PARTIALLY_PAID"}
Exposure == PendingOf(bills, {n \in DOMAIN bills : Counted(bills[n])})

(* validate_credit_limit looks at what is committed and locks nothing.      *)
validateCredit(c) ==
    /\ BillIs(c, "bill", "start")
    /\ IF Exposure + billAsked[c].amount > CreditLimit
       THEN BillEnd(c, "refused") ELSE BillGoto(c, "checked") /\ UNCHANGED billSeen
    /\ UNCHANGED <<billAsked, billTables>>
createBill(c) ==
    /\ BillIs(c, "bill", "checked")
    /\ bills' = Append(bills, BillRow("NEW_REF", billAsked[c].amount, "PENDING"))
    /\ BillEnd(c, "done") /\ UNCHANGED <<billAsked, history, given>>

createAdvance(c) ==
    /\ BillIs(c, "advance", "start")
    /\ bills' = Append(bills, BillRow("ADVANCE", billAsked[c].amount, "ADVANCE_PENDING"))
    /\ BillEnd(c, "done") /\ UNCHANGED <<billAsked, history, given>>

-----------------------------------------------------------------------------
(* SELECT ... FOR UPDATE waits for the row and then reads it.               *)
RowOf(c) == bills[billAsked[c].bill]
Exists(c, type) == billAsked[c].bill \in DOMAIN bills /\ RowOf(c).type = type
BillFree(c) == \A d \in DOMAIN billAsked \ {c} :
    billStep[d] = "locked" => billAsked[d].bill # billAsked[c].bill

Adjustable(c) ==
    /\ Exists(c, "NEW_REF") /\ RowOf(c).status \notin {"SETTLED", "CANCELLED"}
    /\ billAsked[c].amount <= RowOf(c).pending
Available(c) == Exists(c, "ADVANCE") /\ RowOf(c).status = "ADVANCE_PENDING"
Take(c) ==
    /\ billSeen' = [billSeen EXCEPT ![c] = RowOf(c)]
    /\ BillGoto(c, "locked") /\ UNCHANGED <<billAsked, billTables>>

(* Mutant: SELECT without FOR UPDATE.                                       *)
ReadBill(c) == BillIs(c, "adjust", "start") /\ Adjustable(c) /\ Take(c)

LockBill(c) == BillIs(c, "adjust", "start") /\ Adjustable(c) /\ BillFree(c) /\ Take(c)
LockAdvance(c) == BillIs(c, "consume", "start") /\ Available(c) /\ BillFree(c) /\ Take(c)
BillRefused(c) ==
    /\ \/ BillIs(c, "adjust", "start") /\ ~Adjustable(c)
       \/ BillIs(c, "consume", "start") /\ ~Available(c)
    /\ BillFree(c) /\ BillEnd(c, "refused") /\ UNCHANGED <<billAsked, billTables>>

(* isSettled: half a paisa is taken for nothing.                            *)
NewStatus(pending) == IF pending <= 0 THEN "SETTLED" ELSE "PARTIALLY_PAID"

adjustBill(c) ==
    /\ BillIs(c, "adjust", "locked")
    /\ LET pending == billSeen[c].pending - billAsked[c].amount
       IN  bills' = [bills EXCEPT ![billAsked[c].bill] =
                [RowOf(c) EXCEPT !.pending = pending, !.status = NewStatus(pending),
                          !.settled = billSeen[c].settled + billAsked[c].amount]]
    /\ history' = Append(history, [bill |-> billAsked[c].bill, amount |-> billAsked[c].amount])
    /\ BillEnd(c, "done") /\ UNCHANGED <<billAsked, given>>

Consumed(c) == Min({billSeen[c].pending, billAsked[c].amount})
consumeAdvance(c) ==
    /\ BillIs(c, "consume", "locked")
    /\ LET left == billSeen[c].pending - Consumed(c)
       IN  bills' = [bills EXCEPT ![billAsked[c].bill] =
                [RowOf(c) EXCEPT !.pending = left,
                          !.status = IF left <= 0 THEN "ADVANCE_CONSUMED" ELSE "ADVANCE_PENDING"]]
    /\ given' = Append(given, [bill |-> billAsked[c].bill, amount |-> Consumed(c)])
    /\ BillEnd(c, "done") /\ UNCHANGED <<billAsked, history>>

(* Any statement of the transaction may fail.                               *)
BillFail(c) ==
    /\ c \in DOMAIN billAsked /\ billStep[c] \in {"start", "checked", "locked"}
    /\ BillEnd(c, "refused") /\ UNCHANGED <<billAsked, billTables>>

BillNext == \E c \in BillCall :
    \/ validateCredit(c) \/ createBill(c) \/ createAdvance(c) \/ LockBill(c)
    \/ LockAdvance(c) \/ BillRefused(c) \/ adjustBill(c) \/ consumeAdvance(c) \/ BillFail(c)
BillSpec == BillInit /\ [][BillNext]_billVars

-----------------------------------------------------------------------------
getPendingBills == {i \in DOMAIN bills :
    bills[i].type = "NEW_REF" /\ bills[i].status \in {"PENDING", "PARTIALLY_PAID"}
    /\ bills[i].pending > 0}
getBillHistory(i) == {h \in DOMAIN history : history[h].bill = i}

(* However payments against a bill interleave, what is pending and what is  *)
(* settled make up the bill, and what is settled is what its history says.  *)
BillsAddUp == \A i \in DOMAIN bills : bills[i].type = "NEW_REF" =>
    /\ bills[i].pending >= 0 /\ bills[i].pending + bills[i].settled = bills[i].original
    /\ bills[i].settled = AmountOf(history, getBillHistory(i))

(* An advance is given to bills once: what the calls were told they could   *)
(* use and what is left make up the advance.                                *)
AdvancesAddUp == \A i \in DOMAIN bills : bills[i].type = "ADVANCE" =>
    /\ bills[i].pending >= 0
    /\ bills[i].original = bills[i].pending + AmountOf(given, {g \in DOMAIN given : given[g].bill = i})

(* The list a payment is matched from offers the bills adjustBill accepts   *)
(* some amount for, and no others.                                          *)
OffersWhatCanBeSettled ==
    getPendingBills = {i \in DOMAIN bills :
        bills[i].type = "NEW_REF" /\ bills[i].status \notin {"SETTLED", "CANCELLED"}}

(* The party owes no more than its limit as long as its bills are made one  *)
(* at a time, whatever payments run beside.  (Two at once may pass it.)     *)
LimitHoldsForOneBill ==
    Cardinality({c \in DOMAIN billAsked : billAsked[c].kind = "bill"}) <= 1
        => PendingOf(bills, NewRefs(bills)) <= CreditLimit

(* Bills and advances of a party add up and stay within its limit, in       *)
(* whatever order they are settled.                                         *)
BillsAndAdvancesAddUp ==
    /\ BillsAddUp
    /\ AdvancesAddUp
    /\ OffersWhatCanBeSettled
    /\ LimitHoldsForOneBill
=============================================================================

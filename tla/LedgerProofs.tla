---------------------------- MODULE LedgerProofs ----------------------------
(***************************************************************************)
(* Proofs about Ledger, for every set of requests, accounts, keys and       *)
(* tenants, every translation of the vouchers and either driver: one        *)
(* transaction per key, durable answers and final rows; the promise of      *)
(* IdempotentPosting; books that add up, no account overdrawn, and no       *)
(* refusal without its reason.                                              *)
(***************************************************************************)
EXTENDS Ledger, TLAPS, FiniteSetTheorems, SumTheorems

USE RequestAssumption, InputAssumption, OwnerAssumption

(* What TypeOK needs of the constants and of the row helpers.               *)
LEMMA LineFacts ==
  ASSUME NEW r \in Request
  PROVE  /\ SlotOf(r) \in Slot
         /\ Input[r].year \in Year
         /\ Len(LinesOf(r)) \in Nat
         /\ \A i \in 1 .. Len(LinesOf(r)) : LinesOf(r)[i] \in Line
  BY TranslatedAssumption DEF SlotOf, Slot, LinesOf

LEMMA StoredNat == \A x \in Nat : Stored(x) \in Nat
  BY DEF Stored

LEMMA PlusTotals == \A t, u \in Totals : Plus(t, u) \in Totals
  BY DEF Plus, Totals

(* The row a line is stored as.                                             *)
LEMMA RowType ==
  ASSUME TypeOK, NEW r \in Request, NEW i \in 1 .. Len(LinesOf(r))
  PROVE  /\ RowAt(r, i) \in Row
         /\ <<RowAt(r, i).account, RowAt(r, i).year>> \in BalanceRow
<1>1. LinesOf(r)[i] \in Line /\ Input[r].year \in Year
  BY LineFacts
<1>2. /\ LinesOf(r)[i].account \in Account
      /\ Stored(LinesOf(r)[i].debit) \in Nat
      /\ Stored(LinesOf(r)[i].credit) \in Nat
  BY <1>1, StoredNat DEF Line
<1>3. work[r].id \in Nat /\ i \in Nat
  BY LineFacts DEF TypeOK
<1>. QED
  BY <1>1, <1>2, <1>3 DEF RowAt, Row, BalanceRow

Work == [id : Nat, inserted : Nat, drift : Int, linked : BOOLEAN]

(* The fields of work[r] that a statement sets, one lemma for each.         *)
LEMMA WorkId == \A w \in Work, n \in Nat : [w EXCEPT !.id = n] \in Work
  BY DEF Work

LEMMA WorkLine ==
  \A w \in Work, n \in Nat, d \in Int :
      /\ [w EXCEPT !.inserted = n, !.drift = d] \in Work
      /\ [w EXCEPT !.inserted = n, !.drift = d].inserted = n
  BY DEF Work

LEMMA WorkLinked ==
  \A w \in Work, b \in BOOLEAN :
      /\ [w EXCEPT !.linked = b] \in Work
      /\ [w EXCEPT !.linked = b].inserted = w.inserted
  BY DEF Work

LEMMA NoDeltaType == NoDelta \in [BalanceRow -> Totals] /\ ZeroTotals \in Totals
  BY DEF NoDelta, ZeroTotals, Totals

Replies == {"existing", "created", "lost", "rejected", "unavailable", "insufficient",
            "conflict", "closed", "unbalanced", "failed", "deadlock"}

(* However a transaction ends, its session's variables keep their types.    *)
LEMMA EndTransactionType ==
  ASSUME TypeOK, NEW r \in Request, NEW how \in Replies, EndTransaction(r, how)
  PROVE  /\ pc' \in [Request -> {"check", "translate", "lock", "validate", "claim",
                                 "header", "lines", "commit", "done"}]
         /\ reply' \in [Request -> Replies \cup {"none"}]
         /\ work' \in [Request -> Work]
         /\ \A q \in Request : work'[q].inserted <= Len(LinesOf(q))
         /\ delta' \in [Request -> [BalanceRow -> Totals]]
         /\ accLock' \in [Account -> Request \cup {Nobody}]
         /\ claim' \in [Slot -> Request \cup {Nobody}]
<1>1. NoWork \in Work
  BY DEF NoWork, Work
<1>2. \A q \in Request : work'[q].inserted <= Len(LinesOf(q))
  BY LineFacts DEF EndTransaction, TypeOK, NoWork, Work
<1>3. delta' \in [Request -> [BalanceRow -> Totals]]
  BY NoDeltaType DEF EndTransaction, TypeOK
<1>4. /\ accLock' \in [Account -> Request \cup {Nobody}]
      /\ claim' \in [Slot -> Request \cup {Nobody}]
  BY DEF EndTransaction, TypeOK
<1>. QED
  BY <1>1, <1>2, <1>3, <1>4 DEF EndTransaction, Goto, TypeOK, Work, Replies

LEMMA RollbackType ==
  ASSUME TypeOK, NEW r \in Request, NEW why \in Replies, Rollback(r, why)
  PROVE  TypeOK'
<1>1. EndTransaction(r, why) /\ UNCHANGED <<answer, nextId, committed, locked>>
  BY DEF Rollback
<1>. QED
  BY <1>1, EndTransactionType, SMTT(30) DEF committed, TypeOK, Work, Replies, LinesOf

-----------------------------------------------------------------------------
(* A statement that moves only r's program counter.                         *)
LEMMA GotoType ==
  ASSUME TypeOK, NEW r \in Request,
         NEW label \in {"check", "translate", "lock", "validate", "claim",
                        "header", "lines", "commit", "done"},
         Goto(r, label),
         UNCHANGED <<reply, answer, work, delta, locks, nextId, committed, locked>>
  PROVE  TypeOK'
  BY DEF Goto, TypeOK, locks, committed, LinesOf

LEMMA TypeInit == Init => TypeOK
<1> SUFFICES ASSUME Init PROVE TypeOK
  OBVIOUS
<1>1. NoWork \in Work /\ NoWork.inserted = 0
  BY DEF NoWork, Work
<1>2. \A r \in Request : work[r].inserted <= Len(LinesOf(r))
  BY <1>1, LineFacts DEF Init
<1>3. delta \in [Request -> [BalanceRow -> Totals]]
  BY NoDeltaType DEF Init
<1>4. balance \in [BalanceRow -> Totals] /\ journal \subseteq Row
  BY OpeningAssumption, OpeningBalanceAssumption DEF Init, BalanceRow
<1>5. idem \in [Slot -> TxnId \cup {NoRow, NullTxn}] /\ nextId \in TxnId
  BY DEF Init, TxnId
<1>. QED
  BY <1>1, <1>2, <1>3, <1>4, <1>5 DEF Init, TypeOK, Work

LEMMA TypeNext == TypeOK /\ [Next]_vars => TypeOK'
<1> SUFFICES ASSUME TypeOK, [Next]_vars PROVE TypeOK'
  OBVIOUS
<1>1. ASSUME NEW r \in Request, CheckIdempotency(r) PROVE TypeOK'
  <2>1. CASE /\ idem[SlotOf(r)] \in TxnId
             /\ answer' = [answer EXCEPT ![r] = idem[SlotOf(r)]]
             /\ EndTransaction(r, "existing")
             /\ UNCHANGED <<nextId, committed, locked>>
    <3>1. answer' \in [Request -> Nat]
      BY <2>1 DEF TypeOK, TxnId
    <3>. QED
      BY <2>1, <3>1, EndTransactionType DEF TypeOK, Work, Replies, committed, LinesOf
  <2>2. CASE /\ Goto(r, "translate")
             /\ UNCHANGED <<reply, answer, work, delta, locks, nextId, committed, locked>>
    BY <2>2, GotoType
  <2>. QED
    BY <1>1, <2>1, <2>2 DEF CheckIdempotency
<1>2. ASSUME NEW r \in Request, Translate(r) PROVE TypeOK'
  BY <1>2, GotoType, RollbackType DEF Translate, Replies
<1>3. ASSUME NEW r \in Request, NEW a \in Account, LockAccount(r, a) PROVE TypeOK'
  BY <1>3 DEF LockAccount, TypeOK, committed, LinesOf
<1>4. ASSUME NEW r \in Request, AccountsLocked(r) PROVE TypeOK'
  BY <1>4, GotoType, RollbackType DEF AccountsLocked, Replies
<1>5. ASSUME NEW r \in Request, ValidateBalances(r) PROVE TypeOK'
  BY <1>5, GotoType, RollbackType DEF ValidateBalances, Replies
<1>6. ASSUME NEW r \in Request, RecordIdempotencyKey(r) PROVE TypeOK'
  <2>1. CASE Rollback(r, "conflict")
    BY <2>1, RollbackType DEF Replies
  <2>2. CASE /\ claim' = [claim EXCEPT ![SlotOf(r)] = r]
             /\ Goto(r, "header")
             /\ UNCHANGED <<reply, answer, work, delta, accLock, nextId, committed, locked>>
    BY <2>2, LineFacts DEF TypeOK, Goto, committed, LinesOf
  <2>. QED
    BY <1>6, <2>1, <2>2 DEF RecordIdempotencyKey
<1>7. ASSUME NEW r \in Request, InsertTransaction(r) PROVE TypeOK'
  <2>1. CASE Rollback(r, "closed")
    BY <2>1, RollbackType DEF Replies
  <2>2. CASE /\ work' = [work EXCEPT ![r].id = nextId]
             /\ nextId' = nextId + 1
             /\ Goto(r, "lines")
             /\ UNCHANGED <<reply, answer, delta, locks, committed, locked>>
    <3>1. nextId' \in TxnId /\ nextId \in Nat
      BY <2>2 DEF TypeOK, TxnId
    <3>2. /\ work \in [Request -> Work]
          /\ \A q \in Request : work[q].inserted <= Len(LinesOf(q))
      BY DEF TypeOK, Work
    <3>3. [work[r] EXCEPT !.id = nextId] \in Work
      BY <3>1, <3>2, WorkId
    <3>4. work' \in [Request -> Work]
      BY <2>2, <3>2, <3>3
    <3>5. \A q \in Request : work'[q].inserted = work[q].inserted
      BY <2>2, <3>2 DEF Work
    <3>. QED
      BY <2>2, <3>1, <3>2, <3>4, <3>5 DEF TypeOK, Work, Goto, locks, committed, LinesOf
  <2>. QED
    BY <1>7, <2>1, <2>2 DEF InsertTransaction
<1>8. ASSUME NEW r \in Request, InsertJournalLine(r) PROVE TypeOK'
  <2> DEFINE i == work[r].inserted + 1
             e == RowAt(r, i)
  <2>1. CASE Rollback(r, "closed") \/ Rollback(r, "rejected")
    BY <2>1, RollbackType DEF Replies
  <2>2. CASE /\ work' = [work EXCEPT ![r].inserted = @ + 1,
                                     ![r].drift = @ + e.debit - e.credit]
             /\ delta' = [delta EXCEPT ![r][<<e.account, e.year>>] =
                             Plus(@, [debits |-> e.debit, credits |-> e.credit])]
             /\ UNCHANGED <<pc, reply, answer, locks, nextId, committed, locked>>
    <3>1. work[r].inserted \in Nat /\ i \in 1 .. Len(LinesOf(r))
      BY <1>8, LineFacts DEF InsertJournalLine, TypeOK
    <3>2. e \in Row /\ <<e.account, e.year>> \in BalanceRow
      BY <3>1, RowType
    <3> HIDE DEF e
    <3>3. e.debit \in Nat /\ e.credit \in Nat
      BY <3>2 DEF Row
    <3>4. work \in [Request -> Work] /\ \A q \in Request : work[q].inserted <= Len(LinesOf(q))
      BY DEF TypeOK, Work
    <3> DEFINE d == work[r].drift + e.debit - e.credit
                w == [work[r] EXCEPT !.inserted = i, !.drift = d]
    <3>5. w \in Work /\ w.inserted = i /\ work' = [work EXCEPT ![r] = w]
      <4>1. work[r] \in Work /\ i \in Nat /\ d \in Int
        BY <3>1, <3>3, <3>4 DEF Work
      <4>2. w \in Work /\ w.inserted = i
        BY ZenonT(60), <4>1, WorkLine
      <4>3. work' = [work EXCEPT ![r] = w]
        BY <2>2, <3>4 DEF Work
      <4>. QED
        BY <4>2, <4>3
    <3> HIDE DEF w
    <3>8. work' \in [Request -> Work] /\ \A q \in Request : work'[q].inserted <= Len(LinesOf(q))
      BY <3>1, <3>4, <3>5
    <3>6. [debits |-> e.debit, credits |-> e.credit] \in Totals
      BY <3>3 DEF Totals
    <3>7. delta' \in [Request -> [BalanceRow -> Totals]]
      BY <2>2, <3>2, <3>6, PlusTotals DEF TypeOK
    <3>. QED
      BY <2>2, <3>7, <3>8 DEF TypeOK, Work, locks, committed, LinesOf
  <2>. QED
    BY <1>8, <2>1, <2>2 DEF InsertJournalLine
<1>9. ASSUME NEW r \in Request, FinalizeIdempotency(r) PROVE TypeOK'
  <2> DEFINE own == claim[SlotOf(r)] = r
  <2>1. own \in BOOLEAN /\ work' = [work EXCEPT ![r].linked = own]
    BY <1>9 DEF FinalizeIdempotency
  <2> HIDE DEF own
  <2>2. work \in [Request -> Work] /\ \A q \in Request : work[q].inserted <= Len(LinesOf(q))
    BY DEF TypeOK, Work
  <2> DEFINE w == [work[r] EXCEPT !.linked = own]
  <2>3. w \in Work /\ w.inserted = work[r].inserted /\ work' = [work EXCEPT ![r] = w]
    BY <2>1, <2>2, WorkLinked
  <2> HIDE DEF w
  <2>4. work' \in [Request -> Work] /\ \A q \in Request : work'[q].inserted <= Len(LinesOf(q))
    BY <2>2, <2>3
  <2>. QED
    BY <1>9, <2>4 DEF FinalizeIdempotency, TypeOK, Work, Goto, locks, committed, LinesOf
<1>10. ASSUME NEW r \in Request, Commit(r) PROVE TypeOK'
  <2>1. CASE Rollback(r, "unbalanced")
    BY <2>1, RollbackType DEF Replies
  <2>2. CASE ~Rollback(r, "unbalanced")
    <3>1. /\ idem' = [idem EXCEPT ![SlotOf(r)] =
                         IF work[r].linked THEN work[r].id ELSE NullTxn]
          /\ transactions' = transactions \cup
                {[id |-> work[r].id, slot |-> SlotOf(r), year |-> Input[r].year]}
          /\ journal' = journal \cup {RowAt(r, i) : i \in 1 .. work[r].inserted}
          /\ balance' = [b \in BalanceRow |-> Plus(balance[b], delta[r][b])]
          /\ answer' \in {answer, [answer EXCEPT ![r] = work[r].id]}
          /\ EndTransaction(r, "created") \/ EndTransaction(r, "lost")
          /\ UNCHANGED <<nextId, locked>>
      BY <1>10, <2>2 DEF Commit
    <3>2. work[r].id \in Nat
      BY DEF TypeOK
    <3>3. idem' \in [Slot -> TxnId \cup {NoRow, NullTxn}]
      BY <3>1, <3>2 DEF TypeOK, TxnId, NullTxn
    <3>4. transactions' \subseteq [id : Nat, slot : Slot, year : Year]
      BY <3>1, <3>2, LineFacts DEF TypeOK
    <3>5. work[r].inserted \in Nat /\ work[r].inserted <= Len(LinesOf(r))
      BY DEF TypeOK
    <3>6. journal' \subseteq Row
      <4>1. \A i \in 1 .. work[r].inserted : i \in 1 .. Len(LinesOf(r))
        BY <3>5, LineFacts
      <4>2. \A i \in 1 .. work[r].inserted : RowAt(r, i) \in Row
        BY <4>1, RowType
      <4>. QED
        BY <3>1, <4>2 DEF TypeOK
    <3>7. balance' \in [BalanceRow -> Totals]
      BY <3>1, PlusTotals DEF TypeOK
    <3>8. answer' \in [Request -> Nat]
      BY <3>1, <3>2 DEF TypeOK
    <3>. QED
      BY <3>1, <3>3, <3>4, <3>6, <3>7, <3>8, EndTransactionType DEF TypeOK, Work, Replies, LinesOf
  <2>. QED
    BY <2>1, <2>2
<1>11. ASSUME NEW r \in Request, Fail(r) PROVE TypeOK'
  BY <1>11, RollbackType DEF Fail, Replies
<1>12. ASSUME NEW r \in Request, BreakDeadlock(r) PROVE TypeOK'
  BY <1>12, RollbackType DEF BreakDeadlock, Replies
<1>13. ASSUME NEW y \in Year, SetPeriodLock(y) PROVE TypeOK'
  BY <1>13 DEF SetPeriodLock, TypeOK, locks, committed, LinesOf
<1>14. CASE UNCHANGED vars
  BY <1>14 DEF vars, TypeOK, LinesOf
<1>. QED
  BY <1>1, <1>2, <1>3, <1>4, <1>5, <1>6, <1>7, <1>8, <1>9, <1>10, <1>11, <1>12,
     <1>13, <1>14 DEF Next, Step

(* The type invariant holds in every behaviour.                             *)
THEOREM TypeCorrect == Spec => []TypeOK
<1>. QED
  BY TypeInit, TypeNext, PTL DEF Spec
-----------------------------------------------------------------------------
(* What a step can do to the state that PostingInv speaks of.               *)

Refusals == Replies \ {"existing", "created", "lost"}

Idles == UNCHANGED <<pc, reply, answer, work, claim, nextId, committed>>

Refuses(r) == pc[r] # "done" /\ \E why \in Refusals : Rollback(r, why)

Replays(r) ==
  /\ pc[r] = "check"
  /\ idem[SlotOf(r)] \in TxnId
  /\ answer' = [answer EXCEPT ![r] = idem[SlotOf(r)]]
  /\ EndTransaction(r, "existing")
  /\ UNCHANGED <<nextId, committed>>

Advances(r) ==
  /\ pc[r] \in {"check", "translate", "lock", "validate"}
  /\ \E label \in {"translate", "lock", "validate", "claim"} : Goto(r, label)
  /\ UNCHANGED <<reply, answer, work, claim, nextId, committed>>

Claims(r) ==
  /\ pc[r] = "claim"
  /\ claim[SlotOf(r)] = Nobody
  /\ idem[SlotOf(r)] = NoRow
  /\ claim' = [claim EXCEPT ![SlotOf(r)] = r]
  /\ Goto(r, "header")
  /\ UNCHANGED <<reply, answer, work, nextId, committed>>

Numbers(r) ==
  /\ pc[r] = "header"
  /\ work'[r].id = nextId
  /\ \A q \in Request \ {r} : work'[q] = work[q]
  /\ nextId' = nextId + 1
  /\ Goto(r, "lines")
  /\ UNCHANGED <<reply, answer, claim, committed>>

Fills(r) ==
  /\ pc[r] = "lines"
  /\ \A q \in Request : work'[q].id = work[q].id /\ work'[q].linked = work[q].linked
  /\ UNCHANGED <<pc, reply, answer, claim, nextId, committed>>

Links(r) ==
  /\ pc[r] = "lines"
  /\ work'[r].linked = (claim[SlotOf(r)] = r)
  /\ \A q \in Request : work'[q].id = work[q].id
  /\ \A q \in Request \ {r} : work'[q].linked = work[q].linked
  /\ Goto(r, "commit")
  /\ UNCHANGED <<reply, answer, claim, nextId, committed>>

Commits(r) ==
  /\ pc[r] = "commit"
  /\ idem' = [idem EXCEPT ![SlotOf(r)] = IF work[r].linked THEN work[r].id ELSE NullTxn]
  /\ transactions' = transactions \cup
        {[id |-> work[r].id, slot |-> SlotOf(r), year |-> Input[r].year]}
  /\ journal \subseteq journal'
  /\ \/ answer' = [answer EXCEPT ![r] = work[r].id] /\ EndTransaction(r, "created")
     \/ answer' = answer /\ EndTransaction(r, "lost")
  /\ UNCHANGED nextId

StepOf(r) ==
  \/ Refuses(r) \/ Replays(r) \/ Advances(r) \/ Claims(r)
  \/ Numbers(r) \/ Fills(r) \/ Links(r) \/ Commits(r)

(* Every step is one of these.                                              *)
LEMMA StepKinds == TypeOK /\ [Next]_vars => Idles \/ \E r \in Request : StepOf(r)
<1> SUFFICES ASSUME TypeOK, [Next]_vars PROVE Idles \/ \E r \in Request : StepOf(r)
  OBVIOUS
<1>1. ASSUME NEW r \in Request, CheckIdempotency(r) PROVE Replays(r) \/ Advances(r)
  BY <1>1 DEF CheckIdempotency, Replays, Advances, locks
<1>2. ASSUME NEW r \in Request, Translate(r) PROVE Refuses(r) \/ Advances(r)
  BY <1>2 DEF Translate, Refuses, Advances, Refusals, Replies, locks
<1>3. ASSUME NEW r \in Request, NEW a \in Account, LockAccount(r, a) PROVE Idles
  BY <1>3 DEF LockAccount, Idles
<1>4. ASSUME NEW r \in Request, AccountsLocked(r) PROVE Refuses(r) \/ Advances(r)
  BY <1>4 DEF AccountsLocked, Refuses, Advances, Refusals, Replies, locks
<1>5. ASSUME NEW r \in Request, ValidateBalances(r) PROVE Refuses(r) \/ Advances(r)
  BY <1>5 DEF ValidateBalances, Refuses, Advances, Refusals, Replies, locks
<1>6. ASSUME NEW r \in Request, RecordIdempotencyKey(r) PROVE Refuses(r) \/ Claims(r)
  BY <1>6 DEF RecordIdempotencyKey, Refuses, Claims, Refusals, Replies
<1>7. ASSUME NEW r \in Request, InsertTransaction(r) PROVE Refuses(r) \/ Numbers(r)
  <2>1. CASE Rollback(r, "closed")
    BY <1>7, <2>1 DEF InsertTransaction, Refuses, Refusals, Replies
  <2>2. CASE ~Rollback(r, "closed")
    <3>1. work \in [Request -> Work] /\ work' = [work EXCEPT ![r].id = nextId]
      BY <1>7, <2>2 DEF InsertTransaction, TypeOK, Work
    <3>2. work'[r].id = nextId /\ \A q \in Request \ {r} : work'[q] = work[q]
      BY <3>1 DEF Work
    <3>. QED
      BY <1>7, <2>2, <3>2 DEF InsertTransaction, Numbers, locks
  <2>. QED
    BY <2>1, <2>2
<1>8. ASSUME NEW r \in Request, InsertJournalLine(r) PROVE Refuses(r) \/ Fills(r)
  <2> DEFINE e == RowAt(r, work[r].inserted + 1)
  <2>1. CASE Rollback(r, "closed") \/ Rollback(r, "rejected")
    BY <1>8, <2>1 DEF InsertJournalLine, Refuses, Refusals, Replies
  <2>2. CASE ~(Rollback(r, "closed") \/ Rollback(r, "rejected"))
    <3>1. /\ work \in [Request -> Work]
          /\ work' = [work EXCEPT ![r].inserted = @ + 1, ![r].drift = @ + e.debit - e.credit]
      BY <1>8, <2>2 DEF InsertJournalLine, TypeOK, Work
    <3> HIDE DEF e
    <3>2. \A q \in Request : work'[q].id = work[q].id /\ work'[q].linked = work[q].linked
      BY <3>1 DEF Work
    <3>. QED
      BY <1>8, <2>2, <3>2 DEF InsertJournalLine, Fills, locks
  <2>. QED
    BY <2>1, <2>2
<1>9. ASSUME NEW r \in Request, FinalizeIdempotency(r) PROVE Links(r)
  <2> DEFINE own == claim[SlotOf(r)] = r
  <2>1. /\ own \in BOOLEAN
        /\ work' = [work EXCEPT ![r].linked = own]
        /\ work \in [Request -> Work]
    BY <1>9 DEF FinalizeIdempotency, TypeOK, Work
  <2> HIDE DEF own
  <2>2. /\ work'[r].linked = own
        /\ \A q \in Request : work'[q].id = work[q].id
        /\ \A q \in Request \ {r} : work'[q].linked = work[q].linked
    BY <2>1 DEF Work
  <2> USE DEF own
  <2>. QED
    BY <1>9, <2>2 DEF FinalizeIdempotency, Links, locks
<1>10. ASSUME NEW r \in Request, Commit(r) PROVE Refuses(r) \/ Commits(r)
  BY <1>10 DEF Commit, Refuses, Commits, Refusals, Replies
<1>11. ASSUME NEW r \in Request, Fail(r) PROVE Refuses(r)
  BY <1>11 DEF Fail, Refuses, Refusals, Replies
<1>12. ASSUME NEW r \in Request, BreakDeadlock(r) PROVE Refuses(r)
  BY <1>12 DEF BreakDeadlock, Blocked, Refuses, Refusals, Replies
<1>13. ASSUME NEW y \in Year, SetPeriodLock(y) PROVE Idles
  BY <1>13 DEF SetPeriodLock, Idles, locks
<1>14. CASE UNCHANGED vars
  BY <1>14 DEF vars, Idles, committed
<1>. QED
  BY <1>1, <1>2, <1>3, <1>4, <1>5, <1>6, <1>7, <1>8, <1>9, <1>10, <1>11, <1>12,
     <1>13, <1>14 DEF Next, Step, StepOf
-----------------------------------------------------------------------------
(* The variables that EndTransaction sets, at r and elsewhere.              *)
LEMMA EndTransactionEffect ==
  ASSUME TypeOK, NEW r \in Request, NEW how, EndTransaction(r, how)
  PROVE  /\ pc'[r] = "done" /\ reply'[r] = how
         /\ \A q \in Request \ {r} : pc'[q] = pc[q] /\ reply'[q] = reply[q] /\ work'[q] = work[q]
         /\ \A s \in Slot : claim'[s] = IF claim[s] = r THEN Nobody ELSE claim[s]
  BY DEF EndTransaction, Goto, TypeOK

LEMMA PostingInit == Init => PostingInv
<1> SUFFICES ASSUME Init PROVE PostingInv
  OBVIOUS
<1>1. ClaimIsExclusive
  BY DEF Init, ClaimIsExclusive, Claiming
<1>2. IdsAreUnique
  BY DEF Init, IdsAreUnique, Numbered
<1>3. KeysLeadToHeaders
  BY DEF Init, KeysLeadToHeaders
<1>4. AnswersAreDurable /\ Unfinished
  BY DEF Init, AnswersAreDurable, Unfinished
<1>. QED
  BY <1>1, <1>2, <1>3, <1>4 DEF PostingInv

LEMMA PostingNext == TypeOK /\ PostingInv /\ [Next]_vars => PostingInv'
<1> SUFFICES ASSUME TypeOK, PostingInv, [Next]_vars PROVE PostingInv'
  OBVIOUS
<1> USE DEF PostingInv
<1>0. \A s \in Slot : claim[s] # Nobody => claim[s] \in Request
  BY DEF TypeOK
<1>1. CASE Idles
  <2>1. ClaimIsExclusive'
    BY <1>1 DEF Idles, ClaimIsExclusive, committed, SlotOf
  <2>2. IdsAreUnique'
    BY <1>1 DEF Idles, IdsAreUnique, committed
  <2>3. (KeysLeadToHeaders /\ AnswersAreDurable /\ Unfinished)'
    BY <1>1 DEF Idles, KeysLeadToHeaders, AnswersAreDurable, Unfinished, committed, SlotOf
  <2>. QED
    BY <2>1, <2>2, <2>3
<1>2. ASSUME NEW r \in Request, Refuses(r) PROVE PostingInv'
  <2>1. PICK why \in Refusals : Rollback(r, why)
    BY <1>2 DEF Refuses
  <2>2. /\ EndTransaction(r, why) /\ why \notin {"created", "existing"}
        /\ UNCHANGED <<answer, nextId, idem, transactions>>
    BY <2>1 DEF Rollback, Refusals, committed
  <2>3. ClaimIsExclusive'
    <3>1. \A q \in Request : pc'[q] \in Claiming => claim'[SlotOf(q)] = q
      BY <2>2, EndTransactionEffect, LineFacts DEF ClaimIsExclusive, Claiming
    <3>2. \A s \in Slot : claim'[s] # Nobody =>
             idem'[s] = NoRow /\ pc'[claim'[s]] \in Claiming /\ s = SlotOf(claim'[s])
      BY <1>0, <2>2, EndTransactionEffect DEF ClaimIsExclusive, Claiming
    <3>3. \A q \in Request : pc'[q] = "commit" => work'[q].linked
      BY <2>2, EndTransactionEffect DEF ClaimIsExclusive
    <3>. QED
      BY <3>1, <3>2, <3>3 DEF ClaimIsExclusive, SlotOf
  <2>4. IdsAreUnique'
    BY <2>2, EndTransactionEffect DEF IdsAreUnique, Numbered
  <2>5. KeysLeadToHeaders'
    BY <2>2 DEF KeysLeadToHeaders
  <2>6. AnswersAreDurable'
    <3>1. \A q \in Request : reply'[q] \in {"created", "existing"} => q # r /\ reply'[q] = reply[q]
      BY <2>2, EndTransactionEffect
    <3>. QED
      BY <2>2, <3>1 DEF AnswersAreDurable, SlotOf
  <2>7. Unfinished'
    BY <2>2, EndTransactionEffect DEF Unfinished
  <2>. QED
    BY <2>3, <2>4, <2>5, <2>6, <2>7
<1>3. ASSUME NEW r \in Request, Replays(r) PROVE PostingInv'
  <2>1. EndTransaction(r, "existing") /\ UNCHANGED <<nextId, idem, transactions>>
    BY <1>3 DEF Replays, committed
  <2>2. ClaimIsExclusive'
    <3>1. \A q \in Request : pc'[q] \in Claiming => claim'[SlotOf(q)] = q
      BY <2>1, EndTransactionEffect, LineFacts DEF ClaimIsExclusive, Claiming
    <3>2. \A s \in Slot : claim'[s] # Nobody =>
             idem'[s] = NoRow /\ pc'[claim'[s]] \in Claiming /\ s = SlotOf(claim'[s])
      BY <1>0, <2>1, EndTransactionEffect DEF ClaimIsExclusive, Claiming
    <3>3. \A q \in Request : pc'[q] = "commit" => work'[q].linked
      BY <2>1, EndTransactionEffect DEF ClaimIsExclusive
    <3>. QED
      BY <3>1, <3>2, <3>3 DEF ClaimIsExclusive, SlotOf
  <2>3. IdsAreUnique'
    BY <2>1, EndTransactionEffect DEF IdsAreUnique, Numbered
  <2>4. KeysLeadToHeaders'
    BY <2>1 DEF KeysLeadToHeaders
  <2>5. \E t \in transactions : t.slot = SlotOf(r) /\ t.id = idem[SlotOf(r)]
    BY <1>3, LineFacts DEF Replays, KeysLeadToHeaders, TxnId, NoRow
  <2>6. answer'[r] = idem[SlotOf(r)] /\ \A q \in Request \ {r} : answer'[q] = answer[q]
    BY <1>3 DEF Replays, TypeOK
  <2>7. AnswersAreDurable'
    <3>1. \A q \in Request : reply'[q] \in {"created", "existing"} =>
             \E t \in transactions' : t.id = answer'[q] /\ t.slot = SlotOf(q)
      BY <2>1, <2>5, <2>6, EndTransactionEffect DEF AnswersAreDurable
    <3>. QED
      BY <3>1 DEF AnswersAreDurable, SlotOf
  <2>8. Unfinished'
    BY <2>1, <2>6, EndTransactionEffect DEF Unfinished
  <2>. QED
    BY <2>2, <2>3, <2>4, <2>7, <2>8
<1>4. ASSUME NEW r \in Request, Advances(r) PROVE PostingInv'
  <2>1. /\ \A q \in Request : q # r => pc'[q] = pc[q]
        /\ pc[r] \notin Claiming \cup {"done"}
        /\ pc'[r] \notin Claiming \cup {"done"}
        /\ UNCHANGED <<reply, answer, work, claim, nextId, idem, transactions>>
    BY <1>4 DEF Advances, Goto, Claiming, TypeOK, committed
  <2>2. ClaimIsExclusive'
    <3>1. \A q \in Request : pc'[q] \in Claiming => claim'[SlotOf(q)] = q
      BY <2>1 DEF ClaimIsExclusive, Claiming
    <3>2. \A s \in Slot : claim'[s] # Nobody =>
             idem'[s] = NoRow /\ pc'[claim'[s]] \in Claiming /\ s = SlotOf(claim'[s])
      BY <1>0, <2>1 DEF ClaimIsExclusive, Claiming
    <3>3. \A q \in Request : pc'[q] = "commit" => work'[q].linked
      BY <2>1 DEF ClaimIsExclusive, Claiming
    <3>. QED
      BY <3>1, <3>2, <3>3 DEF ClaimIsExclusive, SlotOf
  <2>3. IdsAreUnique'
    BY <2>1 DEF IdsAreUnique, Numbered, Claiming
  <2>4. (KeysLeadToHeaders /\ AnswersAreDurable /\ Unfinished)'
    BY <2>1 DEF KeysLeadToHeaders, AnswersAreDurable, Unfinished, SlotOf
  <2>. QED
    BY <2>2, <2>3, <2>4
<1>5. ASSUME NEW r \in Request, Claims(r) PROVE PostingInv'
  <2>1. /\ \A q \in Request : q # r => pc'[q] = pc[q]
        /\ pc[r] = "claim" /\ pc'[r] = "header"
        /\ UNCHANGED <<reply, answer, work, nextId, idem, transactions>>
    BY <1>5 DEF Claims, Goto, TypeOK, committed
  <2>2. /\ claim'[SlotOf(r)] = r
        /\ \A s \in Slot : s # SlotOf(r) => claim'[s] = claim[s]
        /\ claim[SlotOf(r)] = Nobody /\ idem[SlotOf(r)] = NoRow
    BY <1>5, LineFacts DEF Claims, TypeOK
  <2>3. ClaimIsExclusive'
    <3>1. \A q \in Request : pc'[q] \in Claiming => claim'[SlotOf(q)] = q
      BY <2>1, <2>2, LineFacts DEF ClaimIsExclusive, Claiming
    <3>2. \A s \in Slot : claim'[s] # Nobody =>
             idem'[s] = NoRow /\ pc'[claim'[s]] \in Claiming /\ s = SlotOf(claim'[s])
      BY <1>0, <2>1, <2>2 DEF ClaimIsExclusive, Claiming
    <3>3. \A q \in Request : pc'[q] = "commit" => work'[q].linked
      BY <2>1 DEF ClaimIsExclusive, Claiming
    <3>. QED
      BY <3>1, <3>2, <3>3 DEF ClaimIsExclusive, SlotOf
  <2>4. IdsAreUnique'
    BY <2>1 DEF IdsAreUnique, Numbered
  <2>5. (KeysLeadToHeaders /\ AnswersAreDurable /\ Unfinished)'
    BY <2>1 DEF KeysLeadToHeaders, AnswersAreDurable, Unfinished, SlotOf
  <2>. QED
    BY <2>3, <2>4, <2>5
<1>6. ASSUME NEW r \in Request, Numbers(r) PROVE PostingInv'
  <2>1. /\ \A q \in Request : q # r => pc'[q] = pc[q] /\ work'[q] = work[q]
        /\ pc[r] = "header" /\ pc'[r] = "lines" /\ work'[r].id = nextId /\ nextId' = nextId + 1
        /\ UNCHANGED <<reply, answer, claim, idem, transactions>>
    BY <1>6 DEF Numbers, Goto, TypeOK, committed
  <2>2. ClaimIsExclusive'
    <3>1. \A q \in Request : pc'[q] \in Claiming => claim'[SlotOf(q)] = q
      BY <2>1 DEF ClaimIsExclusive, Claiming
    <3>2. \A s \in Slot : claim'[s] # Nobody =>
             idem'[s] = NoRow /\ pc'[claim'[s]] \in Claiming /\ s = SlotOf(claim'[s])
      BY <1>0, <2>1 DEF ClaimIsExclusive, Claiming
    <3>3. \A q \in Request : pc'[q] = "commit" => work'[q].linked
      BY <2>1 DEF ClaimIsExclusive, Claiming
    <3>. QED
      BY <3>1, <3>2, <3>3 DEF ClaimIsExclusive, SlotOf
  <2>3. IdsAreUnique'
    <3>1. nextId \in Nat \ {0}
      BY DEF TypeOK, TxnId
    <3>2. \A t \in transactions : t.id \in Nat \ {0} /\ t.id < nextId
      BY DEF IdsAreUnique, TxnId
    <3>3. \A q \in Request : q # r /\ pc'[q] \in Numbered =>
             work'[q].id \in Nat \ {0} /\ work'[q].id < nextId
      BY <2>1 DEF IdsAreUnique, TxnId
    <3>4. \A q \in Request : pc'[q] \in Numbered =>
             /\ work'[q].id \in TxnId /\ work'[q].id < nextId'
             /\ \A t \in transactions' : t.id # work'[q].id
      BY <2>1, <3>1, <3>2, <3>3 DEF IdsAreUnique, TxnId
    <3>5. \A p, q \in Request : pc'[p] \in Numbered /\ pc'[q] \in Numbered
                                  /\ work'[p].id = work'[q].id => p = q
      BY <2>1, <3>1, <3>3 DEF IdsAreUnique
    <3>6. \A t \in transactions' : t.id \in TxnId /\ t.id < nextId'
      BY <2>1, <3>1, <3>2 DEF TxnId
    <3>. QED
      BY <2>1, <3>4, <3>5, <3>6 DEF IdsAreUnique
  <2>4. (KeysLeadToHeaders /\ AnswersAreDurable /\ Unfinished)'
    BY <2>1 DEF KeysLeadToHeaders, AnswersAreDurable, Unfinished, SlotOf
  <2>. QED
    BY <2>2, <2>3, <2>4
<1>7. ASSUME NEW r \in Request, Fills(r) PROVE PostingInv'
  <2>1. ClaimIsExclusive'
    BY <1>7 DEF Fills, ClaimIsExclusive, committed, SlotOf
  <2>2. IdsAreUnique'
    BY <1>7 DEF Fills, IdsAreUnique, committed
  <2>3. (KeysLeadToHeaders /\ AnswersAreDurable /\ Unfinished)'
    BY <1>7 DEF Fills, KeysLeadToHeaders, AnswersAreDurable, Unfinished, committed, SlotOf
  <2>. QED
    BY <2>1, <2>2, <2>3
<1>8. ASSUME NEW r \in Request, Links(r) PROVE PostingInv'
  <2>1. /\ \A q \in Request : q # r => pc'[q] = pc[q]
        /\ pc[r] = "lines" /\ pc'[r] = "commit"
        /\ UNCHANGED <<reply, answer, claim, nextId, idem, transactions>>
    BY <1>8 DEF Links, Goto, TypeOK, committed
  <2>2. claim[SlotOf(r)] = r
    BY <2>1 DEF ClaimIsExclusive, Claiming
  <2>3. /\ work'[r].linked
        /\ \A q \in Request : q # r => work'[q].linked = work[q].linked
        /\ \A q \in Request : work'[q].id = work[q].id
    BY <1>8, <2>2 DEF Links
  <2>4. ClaimIsExclusive'
    <3>1. \A q \in Request : pc'[q] \in Claiming => claim'[SlotOf(q)] = q
      BY <2>1 DEF ClaimIsExclusive, Claiming
    <3>2. \A s \in Slot : claim'[s] # Nobody =>
             idem'[s] = NoRow /\ pc'[claim'[s]] \in Claiming /\ s = SlotOf(claim'[s])
      BY <1>0, <2>1 DEF ClaimIsExclusive, Claiming
    <3>3. \A q \in Request : pc'[q] = "commit" => work'[q].linked
      BY <2>1, <2>3 DEF ClaimIsExclusive
    <3>. QED
      BY <3>1, <3>2, <3>3 DEF ClaimIsExclusive, SlotOf
  <2>5. IdsAreUnique'
    BY <2>1, <2>3 DEF IdsAreUnique, Numbered
  <2>6. (KeysLeadToHeaders /\ AnswersAreDurable /\ Unfinished)'
    BY <2>1 DEF KeysLeadToHeaders, AnswersAreDurable, Unfinished, SlotOf
  <2>. QED
    BY <2>4, <2>5, <2>6
<1>9. ASSUME NEW r \in Request, Commits(r) PROVE PostingInv'
  <2> DEFINE t0 == [id |-> work[r].id, slot |-> SlotOf(r), year |-> Input[r].year]
  <2>1. PICK how \in {"created", "lost"} :
           /\ EndTransaction(r, how)
           /\ how = "created" => answer' = [answer EXCEPT ![r] = work[r].id]
           /\ how = "lost" => answer' = answer
    BY <1>9 DEF Commits
  <2>2. /\ pc[r] = "commit" /\ claim[SlotOf(r)] = r /\ idem[SlotOf(r)] = NoRow /\ work[r].linked
        /\ SlotOf(r) \in Slot
    BY <1>9, LineFacts DEF Commits, ClaimIsExclusive, Claiming
  <2>3. /\ work[r].id \in TxnId /\ work[r].id < nextId
        /\ \A t \in transactions : t.id # work[r].id
        /\ \A q \in Request : pc[q] \in Numbered /\ work[q].id = work[r].id => q = r
    BY <2>2 DEF IdsAreUnique, Numbered
  <2>4. /\ idem'[SlotOf(r)] = work[r].id
        /\ \A s \in Slot : s # SlotOf(r) => idem'[s] = idem[s]
        /\ transactions' = transactions \cup {t0} /\ nextId' = nextId
    BY <1>9, <2>2 DEF Commits, TypeOK
  <2>5. t0.id = work[r].id /\ t0.slot = SlotOf(r)
    OBVIOUS
  <2>6. \A t \in transactions : t.slot \in Slot /\ t.slot # SlotOf(r)
    BY <2>2 DEF KeysLeadToHeaders, IdsAreUnique, TypeOK, TxnId, NoRow
  <2> HIDE DEF t0
  <2>7. ClaimIsExclusive'
    <3>1. \A q \in Request : pc'[q] \in Claiming => claim'[SlotOf(q)] = q
      BY <2>1, EndTransactionEffect, LineFacts DEF ClaimIsExclusive, Claiming
    <3>2. \A s \in Slot : claim'[s] # Nobody =>
             idem'[s] = NoRow /\ pc'[claim'[s]] \in Claiming /\ s = SlotOf(claim'[s])
      BY <2>1, <2>2, <2>4, EndTransactionEffect DEF ClaimIsExclusive, TypeOK
    <3>3. \A q \in Request : pc'[q] = "commit" => work'[q].linked
      BY <2>1, EndTransactionEffect DEF ClaimIsExclusive
    <3>. QED
      BY <3>1, <3>2, <3>3 DEF ClaimIsExclusive, SlotOf
  <2>8. IdsAreUnique'
    BY <2>1, <2>3, <2>4, <2>5, EndTransactionEffect DEF IdsAreUnique, Numbered
  <2>9. KeysLeadToHeaders'
    <3>1. \A t \in transactions' : idem'[t.slot] = t.id
      BY <2>4, <2>5, <2>6 DEF KeysLeadToHeaders
    <3>2. \A s \in Slot : idem'[s] # NoRow => \E t \in transactions' : t.slot = s /\ t.id = idem'[s]
      BY <2>4, <2>5 DEF KeysLeadToHeaders
    <3>. QED
      BY <3>1, <3>2 DEF KeysLeadToHeaders
  <2>10. \A q \in Request : q # r => answer'[q] = answer[q]
    BY <2>1 DEF TypeOK
  <2>11. how = "created" => answer'[r] = work[r].id
    BY <2>1 DEF TypeOK
  <2>12. AnswersAreDurable'
    <3>1. \A q \in Request : reply'[q] \in {"created", "existing"} =>
             \E t \in transactions' : t.id = answer'[q] /\ t.slot = SlotOf(q)
      BY <2>1, <2>4, <2>5, <2>10, <2>11, EndTransactionEffect DEF AnswersAreDurable
    <3>. QED
      BY <3>1 DEF AnswersAreDurable, SlotOf
  <2>13. Unfinished'
    BY <2>1, <2>10, EndTransactionEffect DEF Unfinished
  <2>. QED
    BY <2>7, <2>8, <2>9, <2>12, <2>13
<1>. QED
  BY <1>1, <1>2, <1>3, <1>4, <1>5, <1>6, <1>7, <1>8, <1>9, StepKinds DEF StepOf

LEMMA PostingCorrect == Spec => [](TypeOK /\ PostingInv)
<1>1. Init => TypeOK /\ PostingInv
  BY TypeInit, PostingInit
<1>2. TypeOK /\ PostingInv /\ [Next]_vars => (TypeOK /\ PostingInv)'
  BY TypeNext, PostingNext
<1>. QED
  BY <1>1, <1>2, PTL DEF Spec

(* An idempotency key of a tenant is posted at most once.                   *)
THEOREM OncePerSlot == Spec => []OneTransactionPerSlot
<1>1. TypeOK /\ PostingInv => OneTransactionPerSlot
  <2> SUFFICES ASSUME TypeOK, PostingInv,
                      NEW t \in transactions, NEW u \in transactions, t.slot = u.slot
               PROVE  t = u
    BY DEF OneTransactionPerSlot
  <2>1. t.id = u.id
    BY DEF PostingInv, KeysLeadToHeaders
  <2>. QED
    BY <2>1 DEF PostingInv, IdsAreUnique
<1>. QED
  BY <1>1, PostingCorrect, PTL

(* Whoever is answered is answered with a committed transaction of its slot. *)
THEOREM DurableAnswers == Spec => []AnswersAreDurable
<1>1. PostingInv => AnswersAreDurable
  BY DEF PostingInv
<1>. QED
  BY <1>1, PostingCorrect, PTL

(* No step changes or removes what was posted, or what a key leads to.      *)
THEOREM FinalHistory == Spec => HistoryIsFinal
<1> DEFINE Final == /\ transactions \subseteq transactions'
                    /\ journal \subseteq journal'
                    /\ \A s \in Slot : idem[s] \in TxnId => idem'[s] = idem[s]
<1>1. TypeOK /\ PostingInv /\ [Next]_vars => Final
  <2> SUFFICES ASSUME TypeOK, PostingInv, [Next]_vars PROVE Final
    OBVIOUS
  <2>1. CASE UNCHANGED committed
    BY <2>1 DEF committed
  <2>2. ASSUME NEW r \in Request, Commits(r) PROVE Final
    <3>1. idem[SlotOf(r)] = NoRow /\ SlotOf(r) \in Slot
      BY <2>2, LineFacts DEF Commits, PostingInv, ClaimIsExclusive, Claiming
    <3>2. \A s \in Slot : s # SlotOf(r) => idem'[s] = idem[s]
      BY <2>2, <3>1 DEF Commits, TypeOK
    <3>. QED
      BY <2>2, <3>1, <3>2 DEF Commits, NoRow, TxnId
  <2>. QED
    BY <2>1, <2>2, StepKinds
    DEF StepOf, Idles, Refuses, Rollback, Replays, Advances, Claims, Numbers, Fills, Links
<1>. QED
  BY <1>1, PostingCorrect, PTL DEF Spec, HistoryIsFinal
-----------------------------------------------------------------------------
LEMMA StatusAfterEnd ==
  ASSUME TypeOK, NEW r \in Request, NEW how, EndTransaction(r, how), pc[r] # "done"
  PROVE  /\ Status[r] = "open"
         /\ Status' = [Status EXCEPT ![r] = IF how \in {"created", "existing"}
                                            THEN "answered" ELSE "error"]
<1>1. /\ Status \in [Request -> {"open", "answered", "error"}]
      /\ Status' \in [Request -> {"open", "answered", "error"}]
  BY DEF Status
<1>2. \A q \in Request \ {r} : Status'[q] = Status[q]
  BY EndTransactionEffect DEF Status
<1>3. Status'[r] = IF how \in {"created", "existing"} THEN "answered" ELSE "error"
  BY EndTransactionEffect DEF Status
<1>4. Status[r] = "open"
  BY DEF Status
<1>. QED
  BY <1>1, <1>2, <1>3, <1>4

(* create() implements IdempotentPosting: a commit is a Post, a hit of the   *)
(* lookup a Replay, every refusal or failure a Refuse, and no other          *)
(* statement can be seen from outside.                                       *)
THEOREM Implements == Spec => PostingIsIdempotent
<1>1. Init => Promise!Init
  BY DEF Init, Promise!Init, Posted, Status, TxnId, NoRow
<1>2. TypeOK /\ PostingInv /\ [Next]_vars => [Promise!Next]_(Promise!vars)
  <2> SUFFICES ASSUME TypeOK, PostingInv, [Next]_vars
               PROVE  Promise!Next \/ UNCHANGED <<Posted, Status, answer>>
    BY DEF Promise!vars
  <2>1. CASE Idles
    BY <2>1 DEF Idles, Posted, Status, committed
  <2>2. ASSUME NEW r \in Request, Refuses(r) PROVE Promise!Refuse(r)
    <3>1. PICK why \in Refusals : Rollback(r, why)
      BY <2>2 DEF Refuses
    <3>2. UNCHANGED <<answer, Posted>>
      BY <3>1 DEF Rollback, committed, Posted
    <3>3. EndTransaction(r, why) /\ why \notin {"created", "existing"} /\ pc[r] # "done"
      BY <2>2, <3>1 DEF Rollback, Refusals, Refuses
    <3>4. Status' = [Status EXCEPT ![r] = "error"] /\ Status[r] = "open"
      BY <3>3, StatusAfterEnd
    <3>. QED
      BY <3>2, <3>4 DEF Promise!Refuse, Promise!Error
  <2>3. ASSUME NEW r \in Request, Replays(r) PROVE Promise!Replay(r)
    <3>1. EndTransaction(r, "existing") /\ pc[r] # "done" /\ UNCHANGED Posted
      BY <2>3 DEF Replays, committed, Posted
    <3>2. Status' = [Status EXCEPT ![r] = "answered"] /\ Status[r] = "open"
      BY <3>1, StatusAfterEnd
    <3>3. Posted[SlotOf(r)] = idem[SlotOf(r)] /\ Posted[SlotOf(r)] # 0
      BY <2>3, LineFacts DEF Replays, Posted, TxnId
    <3>. QED
      BY <2>3, <3>1, <3>2, <3>3 DEF Promise!Replay, Promise!Answer, Replays
  <2>4. ASSUME NEW r \in Request, Commits(r) PROVE Promise!Post(r, Posted'[SlotOf(r)])
    <3>1. /\ pc[r] = "commit" /\ idem[SlotOf(r)] = NoRow /\ work[r].linked
          /\ SlotOf(r) \in Slot
      BY <2>4, LineFacts DEF Commits, PostingInv, ClaimIsExclusive, Claiming
    <3>2. work[r].id \in TxnId /\ \A t \in transactions : t.id # work[r].id
      BY <3>1 DEF PostingInv, IdsAreUnique, Numbered
    <3>3. idem' = [idem EXCEPT ![SlotOf(r)] = work[r].id]
      BY <2>4, <3>1 DEF Commits
    <3>4. Posted' = [Posted EXCEPT ![SlotOf(r)] = work[r].id] /\ Posted[SlotOf(r)] = 0
      <4>1. Posted \in [Slot -> Nat] /\ Posted' \in [Slot -> Nat]
        BY <3>2, <3>3 DEF Posted, TxnId, TypeOK
      <4>2. Posted'[SlotOf(r)] = work[r].id /\ Posted[SlotOf(r)] = 0
        BY <3>1, <3>2, <3>3 DEF Posted, TxnId, NoRow, TypeOK
      <4>3. \A s \in Slot : s # SlotOf(r) => Posted'[s] = Posted[s]
        BY <3>3 DEF Posted, TypeOK
      <4>. QED
        BY <3>1, <4>1, <4>2, <4>3
    <3>5. \A s \in Slot : Posted[s] # work[r].id
      BY <3>2 DEF Posted, PostingInv, KeysLeadToHeaders, TxnId, NoRow
    <3>6. work[r].id # 0 /\ Posted'[SlotOf(r)] = work[r].id
      BY <3>1, <3>2, <3>4 DEF TxnId, Posted
    <3>7. CASE answer' = [answer EXCEPT ![r] = work[r].id] /\ EndTransaction(r, "created")
      <4>1. Status' = [Status EXCEPT ![r] = "answered"] /\ Status[r] = "open"
        BY <3>1, <3>7, StatusAfterEnd
      <4>. QED
        BY <3>4, <3>5, <3>6, <3>7, <4>1 DEF Promise!Post, Promise!Answer
    <3>8. CASE answer' = answer /\ EndTransaction(r, "lost")
      <4>1. Status' = [Status EXCEPT ![r] = "error"] /\ Status[r] = "open"
        BY <3>1, <3>8, StatusAfterEnd
      <4>. QED
        BY <3>4, <3>5, <3>6, <3>8, <4>1 DEF Promise!Post, Promise!Error
    <3>. QED
      BY <2>4, <3>7, <3>8 DEF Commits
  <2>5. ASSUME NEW r \in Request, Advances(r) \/ Claims(r) \/ Numbers(r) \/ Fills(r) \/ Links(r)
        PROVE  UNCHANGED <<Posted, Status, answer>>
    <3>1. UNCHANGED <<reply, answer, idem>>
      BY <2>5 DEF Advances, Claims, Numbers, Fills, Links, committed
    <3>2. \A q \in Request : pc'[q] = "done" <=> pc[q] = "done"
      BY <2>5 DEF Advances, Claims, Numbers, Fills, Links, Goto, TypeOK
    <3>. QED
      BY <3>1, <3>2 DEF Posted, Status
  <2>. QED
    BY <2>1, <2>2, <2>3, <2>4, <2>5, StepKinds DEF StepOf, Promise!Next
<1>. QED
  BY <1>1, <1>2, PostingCorrect, PTL DEF Spec, PostingIsIdempotent, Promise!Spec
-----------------------------------------------------------------------------
(* Row locks.                                                               *)

(* A SELECT that returns as many rows as there are ids returned, and locked, *)
(* every account the voucher names.                                          *)
LEMMA AllAvailable ==
  ASSUME NEW r \in Request, Cardinality(Available(r)) = Cardinality(Ids(r))
  PROVE  Available(r) = Named(r)
<1> DEFINE I == 1 .. Len(LinesOf(r))
           pair(i) == <<LinesOf(r)[i].account, LinesOf(r)[i].from>>
           Pairs == {pair(i) : i \in I}
<1>1. IsFiniteSet(I)
  BY LineFacts, FS_Interval
<1>2. IsFiniteSet(Named(r))
  <2>1. [i \in I |-> LinesOf(r)[i].account] \in Surjection(I, Named(r))
    BY DEF Surjection, Named
  <2>. QED
    BY <1>1, <2>1, FS_Surjection
<1>3. IsFiniteSet(Pairs)
  <2>1. [i \in I |-> pair(i)] \in Surjection(I, Pairs)
    BY DEF Surjection
  <2>. QED
    BY <1>1, <2>1, FS_Surjection
<1>4. Cardinality(Named(r)) <= Cardinality(Ids(r))
  <2>1. CASE Int8Parsed
    <3>1. Ids(r) = Named(r)
      BY <2>1 DEF Ids
    <3>. QED
      BY <1>2, <3>1, FS_CardinalityType
  <2>2. CASE ~Int8Parsed
    <3>1. Ids(r) = Pairs
      BY <2>2 DEF Ids
    <3>2. [p \in Pairs |-> p[1]] \in Surjection(Pairs, Named(r))
      <4>1. \A p \in Pairs : p[1] \in Named(r)
        BY DEF Named
      <4>2. ASSUME NEW a \in Named(r) PROVE \E p \in Pairs : p[1] = a
        <5>1. PICK i \in I : a = LinesOf(r)[i].account
          BY DEF Named
        <5>2. pair(i) \in Pairs /\ pair(i)[1] = a
          BY <5>1
        <5>. QED
          BY <5>2
      <4>. QED
        BY <4>1, <4>2 DEF Surjection
    <3>. QED
      BY <1>3, <3>1, <3>2, FS_Surjection
  <2>. QED
    BY <2>1, <2>2
<1>5. Available(r) \in SUBSET Named(r)
  BY DEF Available
<1>6. /\ Cardinality(Available(r)) <= Cardinality(Named(r))
      /\ Cardinality(Named(r)) = Cardinality(Available(r)) => Named(r) = Available(r)
      /\ IsFiniteSet(Available(r))
  BY <1>2, <1>5, FS_Subset
<1>7. Cardinality(Available(r)) \in Nat /\ Cardinality(Named(r)) \in Nat
  BY <1>2, <1>6, FS_CardinalityType
<1>. QED
  BY <1>4, <1>6, <1>7

Holding == {"validate", "claim", "header", "lines", "commit"}

(* From its locking SELECT to its end a request holds all the rows it names, *)
(* and it has changed nothing but balances of these accounts.                *)
LocksHeld ==
  \A r \in Request :
     /\ pc[r] \in Holding => \A a \in Named(r) : accLock[a] = r
     /\ pc[r] \notin Numbered => delta[r] = NoDelta
     /\ \A b \in BalanceRow : delta[r][b] # ZeroTotals => b[1] \in Named(r)

LEMMA LocksInit == Init => LocksHeld
  BY DEF Init, LocksHeld, Holding, NoDelta

(* Whoever ends leaves the locks of the others alone.                        *)
LEMMA EndKeepsLocks ==
  ASSUME TypeOK, LocksHeld, NEW r \in Request, NEW how, EndTransaction(r, how)
  PROVE  LocksHeld'
<1> SUFFICES ASSUME NEW q \in Request
             PROVE  /\ pc'[q] \in Holding => \A a \in Named(q) : accLock'[a] = q
                    /\ pc'[q] \notin Numbered => delta'[q] = NoDelta
                    /\ \A b \in BalanceRow : delta'[q][b] # ZeroTotals => b[1] \in Named(q)
  BY DEF LocksHeld, Named, LinesOf
<1>1. CASE q = r
  <2>1. pc'[r] = "done" /\ delta'[r] = NoDelta
    BY DEF EndTransaction, Goto, TypeOK
  <2>. QED
    BY <1>1, <2>1 DEF Holding, NoDelta
<1>2. CASE q # r
  <2>1. pc'[q] = pc[q] /\ delta'[q] = delta[q]
    BY <1>2 DEF EndTransaction, Goto, TypeOK
  <2>2. \A a \in Named(q) : a \in Account
    BY LineFacts DEF Named, Line
  <2>3. \A a \in Account : accLock[a] = q => accLock'[a] = q
    BY <1>2 DEF EndTransaction
  <2>. QED
    BY <2>1, <2>2, <2>3 DEF LocksHeld
<1>. QED
  BY <1>1, <1>2

(* So does whoever moves on with its own locks in hand.                      *)
LEMMA GotoKeepsLocks ==
  ASSUME TypeOK, LocksHeld, NEW r \in Request, NEW label,
         label \in Numbered => pc[r] \in Numbered \cup {"header"},
         pc[r] \in Numbered => label \in Numbered,
         label \in Holding => \A a \in Named(r) : accLock[a] = r,
         Goto(r, label), UNCHANGED <<delta, accLock>>
  PROVE  LocksHeld'
<1>1. pc'[r] = label /\ \A q \in Request : q # r => pc'[q] = pc[q]
  BY DEF Goto, TypeOK
<1>. QED
  BY <1>1 DEF LocksHeld, Named, LinesOf

LEMMA LocksNext == TypeOK /\ LocksHeld /\ [Next]_vars => LocksHeld'
<1> SUFFICES ASSUME TypeOK, LocksHeld, [Next]_vars PROVE LocksHeld'
  OBVIOUS
<1>0. ASSUME NEW r \in Request, NEW why, Rollback(r, why) PROVE LocksHeld'
  BY <1>0, EndKeepsLocks DEF Rollback
<1>1. ASSUME NEW r \in Request, CheckIdempotency(r) PROVE LocksHeld'
  BY <1>1, EndKeepsLocks, GotoKeepsLocks DEF CheckIdempotency, Holding, Numbered, locks
<1>2. ASSUME NEW r \in Request, Translate(r) PROVE LocksHeld'
  BY <1>0, <1>2, GotoKeepsLocks DEF Translate, Holding, Numbered, locks
<1>3. ASSUME NEW r \in Request, NEW a \in Account, LockAccount(r, a) PROVE LocksHeld'
  <2>1. \A b \in Account, q \in Request : accLock[b] = q => accLock'[b] = q
    BY <1>3 DEF LockAccount, TypeOK
  <2>2. \A q \in Request : \A b \in Named(q) : b \in Account
    BY LineFacts DEF Named, Line
  <2>. QED
    BY <1>3, <2>1, <2>2 DEF LockAccount, LocksHeld, Named, LinesOf
<1>4. ASSUME NEW r \in Request, AccountsLocked(r) PROVE LocksHeld'
  <2>1. CASE Rollback(r, "unavailable")
    BY <1>0, <2>1
  <2>2. CASE ~Rollback(r, "unavailable")
    <3>1. \A a \in Named(r) : accLock[a] = r
      BY <1>4, <2>2, AllAvailable DEF AccountsLocked
    <3>. QED
      BY <1>4, <2>2, <3>1, GotoKeepsLocks DEF AccountsLocked, Holding, Numbered, locks
  <2>. QED
    BY <2>1, <2>2
<1>5. ASSUME NEW r \in Request, ValidateBalances(r) PROVE LocksHeld'
  <2>1. \A a \in Named(r) : accLock[a] = r
    BY <1>5 DEF ValidateBalances, LocksHeld, Holding
  <2>. QED
    BY <1>0, <1>5, <2>1, GotoKeepsLocks DEF ValidateBalances, Holding, Numbered, locks
<1>6. ASSUME NEW r \in Request, RecordIdempotencyKey(r) PROVE LocksHeld'
  <2>1. \A a \in Named(r) : accLock[a] = r
    BY <1>6 DEF RecordIdempotencyKey, LocksHeld, Holding
  <2>. QED
    BY <1>0, <1>6, <2>1, GotoKeepsLocks DEF RecordIdempotencyKey, Holding, Numbered
<1>7. ASSUME NEW r \in Request, InsertTransaction(r) PROVE LocksHeld'
  <2>1. \A a \in Named(r) : accLock[a] = r
    BY <1>7 DEF InsertTransaction, LocksHeld, Holding
  <2>. QED
    BY <1>0, <1>7, <2>1, GotoKeepsLocks DEF InsertTransaction, Holding, Numbered, locks
<1>8. ASSUME NEW r \in Request, InsertJournalLine(r) PROVE LocksHeld'
  <2> DEFINE i == work[r].inserted + 1
             e == RowAt(r, i)
             row == <<e.account, e.year>>
             more == Plus(delta[r][row], [debits |-> e.debit, credits |-> e.credit])
  <2>1. CASE Rollback(r, "closed") \/ Rollback(r, "rejected")
    BY <1>0, <2>1
  <2>2. CASE ~(Rollback(r, "closed") \/ Rollback(r, "rejected"))
    <3>1. i \in 1 .. Len(LinesOf(r))
      BY <1>8, LineFacts DEF InsertJournalLine, TypeOK
    <3>2. row \in BalanceRow /\ row[1] \in Named(r)
      BY <3>1, RowType DEF RowAt, Named
    <3>3. /\ pc[r] = "lines"
          /\ delta' = [delta EXCEPT ![r][row] = more]
          /\ UNCHANGED <<pc, accLock>>
      BY <1>8, <2>2 DEF InsertJournalLine, locks
    <3> HIDE DEF row, more
    <3>4. \A q \in Request : q # r => delta'[q] = delta[q]
      BY <3>3 DEF TypeOK
    <3>5. \A b \in BalanceRow : b # row => delta'[r][b] = delta[r][b]
      BY <3>3 DEF TypeOK
    <3>. QED
      BY <3>2, <3>3, <3>4, <3>5 DEF LocksHeld, Numbered, Named, LinesOf
  <2>. QED
    BY <2>1, <2>2
<1>9. ASSUME NEW r \in Request, FinalizeIdempotency(r) PROVE LocksHeld'
  <2>1. \A a \in Named(r) : accLock[a] = r
    BY <1>9 DEF FinalizeIdempotency, LocksHeld, Holding
  <2>. QED
    BY <1>9, <2>1, GotoKeepsLocks DEF FinalizeIdempotency, Holding, Numbered, locks
<1>10. ASSUME NEW r \in Request, Commit(r) PROVE LocksHeld'
  BY <1>0, <1>10, EndKeepsLocks DEF Commit
<1>11. ASSUME NEW r \in Request, Fail(r) \/ BreakDeadlock(r) PROVE LocksHeld'
  BY <1>0, <1>11 DEF Fail, BreakDeadlock
<1>12. ASSUME NEW y \in Year, SetPeriodLock(y) PROVE LocksHeld'
  BY <1>12 DEF SetPeriodLock, LocksHeld, Named, LinesOf, locks
<1>13. CASE UNCHANGED vars
  BY <1>13 DEF vars, LocksHeld, Named, LinesOf
<1>. QED
  BY <1>1, <1>2, <1>3, <1>4, <1>5, <1>6, <1>7, <1>8, <1>9, <1>10, <1>11, <1>12, <1>13
  DEF Next, Step

(* Two requests never have uncommitted changes of the same balance row: who *)
(* changes one holds the lock of its account, whichever driver is in use.   *)
THEOREM Serialised == Spec => []AccountsSerialised
<1>1. Init => TypeOK /\ LocksHeld
  BY TypeInit, LocksInit
<1>2. TypeOK /\ LocksHeld /\ [Next]_vars => (TypeOK /\ LocksHeld)'
  BY TypeNext, LocksNext
<1>3. TypeOK /\ LocksHeld => AccountsSerialised
  <2> SUFFICES ASSUME LocksHeld, NEW r \in Request, NEW b \in BalanceRow,
                      delta[r][b] # ZeroTotals
               PROVE  accLock[b[1]] = r
    BY DEF AccountsSerialised
  <2>1. pc[r] \in Numbered
    BY DEF LocksHeld, NoDelta
  <2>. QED
    BY <2>1 DEF LocksHeld, Numbered, Holding
<1>. QED
  BY <1>1, <1>2, <1>3, PTL DEF Spec
-----------------------------------------------------------------------------
(* Sums over rows: Net, Debits and Credits are sums of weights, so what     *)
(* SumTheorems says of such sums holds of them.                             *)
NetOf == [e \in Row |-> e.debit - e.credit]
DebitOf == [e \in Row |-> e.debit]
CreditOf == [e \in Row |-> e.credit]

LEMMA RowWeighs ==
  ASSUME NEW rows, IsFiniteSet(rows), rows \subseteq Row
  PROVE  Weighs(NetOf, rows) /\ Weighs(DebitOf, rows) /\ Weighs(CreditOf, rows)
<1>1. \A e \in rows : e \in Row /\ e.debit \in Nat /\ e.credit \in Nat
  BY DEF Row
<1>. QED
  BY <1>1 DEF Weighs, NetOf, DebitOf, CreditOf

LEMMA NetIs ==
  ASSUME NEW rows, IsFiniteSet(rows), rows \subseteq Row
  PROVE  Net(rows) = SumFunctionOnSet(NetOf, rows)
<1>1. PICK h : Unrolls(h, rows, NetOf) /\ SumFunctionOnSet(NetOf, rows) = h[rows]
  BY RowWeighs, SumUnrolls
<1>2. PICK g : g = CHOOSE f : f = [s \in SUBSET rows |->
                     IF s = {} THEN 0 ELSE (AnyOf(s).debit - AnyOf(s).credit) + f[s \ {AnyOf(s)}]]
  OBVIOUS
<1>3. Net(rows) = g[rows]
  BY <1>2 DEF Net, MapThenSumSet, MapThenFoldSet, AnyOf
<1>4. \A s \in SUBSET rows : s # {} => NetOf[AnyOf(s)] = AnyOf(s).debit - AnyOf(s).credit
  BY AnyOfIsIn DEF NetOf
<1>5. h = [s \in SUBSET rows |-> IF s = {} THEN 0 ELSE (AnyOf(s).debit - AnyOf(s).credit) + h[s \ {AnyOf(s)}]]
  BY <1>1, <1>4 DEF Unrolls
<1>6. g = [s \in SUBSET rows |-> IF s = {} THEN 0 ELSE (AnyOf(s).debit - AnyOf(s).credit) + g[s \ {AnyOf(s)}]]
  BY <1>2, <1>5, Zenon
<1>7. Unrolls(g, rows, NetOf)
  BY <1>4, <1>6 DEF Unrolls
<1>. QED
  BY <1>1, <1>3, <1>7, RowWeighs, SameValues

LEMMA DebitsIs ==
  ASSUME NEW rows, IsFiniteSet(rows), rows \subseteq Row
  PROVE  Debits(rows) = SumFunctionOnSet(DebitOf, rows)
<1>1. PICK h : Unrolls(h, rows, DebitOf) /\ SumFunctionOnSet(DebitOf, rows) = h[rows]
  BY RowWeighs, SumUnrolls
<1>2. PICK g : g = CHOOSE f : f = [s \in SUBSET rows |->
                     IF s = {} THEN 0 ELSE (AnyOf(s).debit) + f[s \ {AnyOf(s)}]]
  OBVIOUS
<1>3. Debits(rows) = g[rows]
  BY <1>2 DEF Debits, MapThenSumSet, MapThenFoldSet, AnyOf
<1>4. \A s \in SUBSET rows : s # {} => DebitOf[AnyOf(s)] = AnyOf(s).debit
  BY AnyOfIsIn DEF DebitOf
<1>5. h = [s \in SUBSET rows |-> IF s = {} THEN 0 ELSE (AnyOf(s).debit) + h[s \ {AnyOf(s)}]]
  BY <1>1, <1>4 DEF Unrolls
<1>6. g = [s \in SUBSET rows |-> IF s = {} THEN 0 ELSE (AnyOf(s).debit) + g[s \ {AnyOf(s)}]]
  BY <1>2, <1>5, Zenon
<1>7. Unrolls(g, rows, DebitOf)
  BY <1>4, <1>6 DEF Unrolls
<1>. QED
  BY <1>1, <1>3, <1>7, RowWeighs, SameValues

LEMMA CreditsIs ==
  ASSUME NEW rows, IsFiniteSet(rows), rows \subseteq Row
  PROVE  Credits(rows) = SumFunctionOnSet(CreditOf, rows)
<1>1. PICK h : Unrolls(h, rows, CreditOf) /\ SumFunctionOnSet(CreditOf, rows) = h[rows]
  BY RowWeighs, SumUnrolls
<1>2. PICK g : g = CHOOSE f : f = [s \in SUBSET rows |->
                     IF s = {} THEN 0 ELSE (AnyOf(s).credit) + f[s \ {AnyOf(s)}]]
  OBVIOUS
<1>3. Credits(rows) = g[rows]
  BY <1>2 DEF Credits, MapThenSumSet, MapThenFoldSet, AnyOf
<1>4. \A s \in SUBSET rows : s # {} => CreditOf[AnyOf(s)] = AnyOf(s).credit
  BY AnyOfIsIn DEF CreditOf
<1>5. h = [s \in SUBSET rows |-> IF s = {} THEN 0 ELSE (AnyOf(s).credit) + h[s \ {AnyOf(s)}]]
  BY <1>1, <1>4 DEF Unrolls
<1>6. g = [s \in SUBSET rows |-> IF s = {} THEN 0 ELSE (AnyOf(s).credit) + g[s \ {AnyOf(s)}]]
  BY <1>2, <1>5, Zenon
<1>7. Unrolls(g, rows, CreditOf)
  BY <1>4, <1>6 DEF Unrolls
<1>. QED
  BY <1>1, <1>3, <1>7, RowWeighs, SameValues

LEMMA RowsNone == Net({}) = 0 /\ Debits({}) = 0 /\ Credits({}) = 0
<1>1. IsFiniteSet({}) /\ {} \subseteq Row
  BY FS_EmptySet
<1>2. Net({}) = SumFunctionOnSet(NetOf, {})
  BY <1>1, NetIs
<1>3. Debits({}) = SumFunctionOnSet(DebitOf, {})
  BY <1>1, DebitsIs
<1>4. Credits({}) = SumFunctionOnSet(CreditOf, {})
  BY <1>1, CreditsIs
<1>. QED
  BY <1>2, <1>3, <1>4, SumOfNone

LEMMA RowsMore ==
  ASSUME NEW rows, IsFiniteSet(rows), rows \subseteq Row, NEW e \in Row, e \notin rows
  PROVE  /\ Net(rows \cup {e}) = Net(rows) + e.debit - e.credit
         /\ Debits(rows \cup {e}) = Debits(rows) + e.debit
         /\ Credits(rows \cup {e}) = Credits(rows) + e.credit
<1>1. IsFiniteSet(rows \cup {e}) /\ rows \cup {e} \subseteq Row
  BY FS_AddElement
<1>2. /\ Weighs(NetOf, rows) /\ Weighs(DebitOf, rows) /\ Weighs(CreditOf, rows)
      /\ NetOf[e] = e.debit - e.credit /\ DebitOf[e] = e.debit /\ CreditOf[e] = e.credit
      /\ e.debit \in Nat /\ e.credit \in Nat
  BY RowWeighs DEF NetOf, DebitOf, CreditOf, Row
<1>3. Net(rows \cup {e}) = Net(rows) + (e.debit - e.credit)
  BY <1>1, <1>2, NetIs, SumOfMore
<1>4. Debits(rows \cup {e}) = Debits(rows) + e.debit
  BY <1>1, <1>2, DebitsIs, SumOfMore
<1>5. Credits(rows \cup {e}) = Credits(rows) + e.credit
  BY <1>1, <1>2, CreditsIs, SumOfMore
<1>6. Net(rows) \in Int
  BY <1>2, NetIs, SumIsInt
<1>. QED
  BY <1>2, <1>3, <1>4, <1>5, <1>6

LEMMA RowsBoth ==
  ASSUME NEW S, IsFiniteSet(S), S \subseteq Row, NEW T, IsFiniteSet(T), T \subseteq Row,
         S \cap T = {}
  PROVE  /\ Net(S \cup T) = Net(S) + Net(T)
         /\ Debits(S \cup T) = Debits(S) + Debits(T)
         /\ Credits(S \cup T) = Credits(S) + Credits(T)
<1>1. IsFiniteSet(S \cup T) /\ S \cup T \subseteq Row
  BY FS_Union
<1>2. /\ Weighs(NetOf, S) /\ Weighs(DebitOf, S) /\ Weighs(CreditOf, S)
      /\ Weighs(NetOf, T) /\ Weighs(DebitOf, T) /\ Weighs(CreditOf, T)
  BY RowWeighs
<1>3. Net(S \cup T) = Net(S) + Net(T)
  BY <1>1, <1>2, NetIs, SumOfBoth
<1>4. Debits(S \cup T) = Debits(S) + Debits(T)
  BY <1>1, <1>2, DebitsIs, SumOfBoth
<1>5. Credits(S \cup T) = Credits(S) + Credits(T)
  BY <1>1, <1>2, CreditsIs, SumOfBoth
<1>. QED
  BY <1>3, <1>4, <1>5

Mine(b, rows) == {e \in rows : e.account = b[1] /\ e.year = b[2]}

LEMMA SummedIs == ASSUME NEW b, NEW rows
                  PROVE  Summed(b, rows) = [debits |-> Debits(Mine(b, rows)), credits |-> Credits(Mine(b, rows))]
  BY DEF Summed, Mine

LEMMA SummedNone == ASSUME NEW b PROVE Summed(b, {}) = ZeroTotals
<1>1. Mine(b, {}) = {}
  BY DEF Mine
<1>. QED
  BY <1>1, SummedIs, RowsNone DEF ZeroTotals

(* A line changes the one row of account_balances that is its own.          *)
LEMMA SummedMore ==
  ASSUME NEW rows, IsFiniteSet(rows), rows \subseteq Row, NEW e \in Row, e \notin rows,
         NEW b \in BalanceRow
  PROVE  Summed(b, rows \cup {e}) =
            IF b = <<e.account, e.year>>
            THEN Plus(Summed(b, rows), [debits |-> e.debit, credits |-> e.credit])
            ELSE Summed(b, rows)
<1>1. IsFiniteSet(Mine(b, rows)) /\ Mine(b, rows) \subseteq Row /\ e \notin Mine(b, rows)
  BY FS_Subset DEF Mine
<1>2. CASE b = <<e.account, e.year>>
  <2>1. Mine(b, rows \cup {e}) = Mine(b, rows) \cup {e}
    BY <1>2 DEF Mine
  <2>. QED
    BY <1>1, <1>2, <2>1, RowsMore, SummedIs DEF Plus
<1>3. CASE b # <<e.account, e.year>>
  <2>1. ~ (e.account = b[1] /\ e.year = b[2])
    BY <1>3 DEF BalanceRow
  <2>2. Mine(b, rows \cup {e}) = Mine(b, rows)
    BY <2>1 DEF Mine
  <2>. QED
    BY <1>3, <2>2, SummedIs
<1>. QED
  BY <1>2, <1>3

LEMMA SummedBoth ==
  ASSUME NEW S, IsFiniteSet(S), S \subseteq Row, NEW T, IsFiniteSet(T), T \subseteq Row,
         S \cap T = {}, NEW b
  PROVE  Summed(b, S \cup T) = Plus(Summed(b, S), Summed(b, T))
<1>1. /\ IsFiniteSet(Mine(b, S)) /\ Mine(b, S) \subseteq Row
      /\ IsFiniteSet(Mine(b, T)) /\ Mine(b, T) \subseteq Row
      /\ Mine(b, S) \cap Mine(b, T) = {}
  BY FS_Subset DEF Mine
<1>2. Mine(b, S \cup T) = Mine(b, S) \cup Mine(b, T)
  BY DEF Mine
<1>. QED
  BY <1>1, <1>2, RowsBoth, SummedIs DEF Plus
-----------------------------------------------------------------------------
(* The books add up.                                                        *)

(* The rows r's open transaction has inserted.                              *)
Written(r) == {RowAt(r, i) : i \in 1 .. work[r].inserted}

LEMMA WrittenFacts ==
  ASSUME TypeOK, NEW r \in Request
  PROVE  /\ Written(r) \subseteq Row /\ IsFiniteSet(Written(r))
         /\ Cardinality(Written(r)) = work[r].inserted
         /\ RowAt(r, work[r].inserted + 1) \notin Written(r)
         /\ \A e \in Written(r) : e.txn = work[r].id /\ e.year = Input[r].year
<1>1. PICK n \in Nat : n = work[r].inserted /\ n <= Len(LinesOf(r))
  BY DEF TypeOK
<1>2. \A i \in 1 .. n : RowAt(r, i) \in Row
  <2>1. \A i \in 1 .. n : i \in 1 .. Len(LinesOf(r))
    BY <1>1, LineFacts
  <2>. QED
    BY <2>1, RowType
<1>3. PICK f : f = [i \in 1 .. n |-> RowAt(r, i)]
  OBVIOUS
<1>4. \A i : RowAt(r, i).line = i /\ RowAt(r, i).txn = work[r].id /\ RowAt(r, i).year = Input[r].year
  BY DEF RowAt
<1>5. f \in Bijection(1 .. n, Written(r))
  BY <1>1, <1>3, <1>4 DEF Bijection, Injection, Surjection, IsInjective, Written
<1>6. IsFiniteSet(1 .. n) /\ Cardinality(1 .. n) = n
  BY FS_Interval
<1>7. IsFiniteSet(Written(r)) /\ Cardinality(Written(r)) = n
  BY <1>5, <1>6, FS_Bijection DEF ExistsBijection
<1>8. RowAt(r, n + 1) \notin Written(r)
  BY <1>1, <1>4 DEF Written
<1>. QED
  BY <1>1, <1>2, <1>4, <1>7, <1>8 DEF Written

(* What r has written so far is what the trigger has added up for it.       *)
AddsUp(r) ==
  /\ work[r].drift = Net(Written(r))
  /\ \A b \in BalanceRow : delta[r][b] = Summed(b, Written(r))
  /\ pc[r] \notin Numbered => work[r].inserted = 0
  /\ pc[r] = "commit" => work[r].inserted = Len(LinesOf(r))

(* The committed books, header by header and balance by balance.            *)
WholePostings ==
  /\ IsFiniteSet(journal)
  /\ \A t \in transactions : \E r \in Request :
        /\ SlotOf(r) = t.slot
        /\ Cardinality({e \in journal : e.txn = t.id}) = Len(LinesOf(r))
  /\ \A e \in journal : e.txn # 0 =>
        \E t \in transactions : t.id = e.txn /\ t.year = e.year

BooksInv ==
  /\ \A r \in Request : AddsUp(r)
  /\ WholePostings
  /\ DoubleEntry
  /\ BalancesMatchJournal

(* A request that goes on, and one that ends.                               *)
Keeps(q) ==
  /\ work'[q].inserted = work[q].inserted /\ work'[q].drift = work[q].drift
  /\ work'[q].id = work[q].id \/ work[q].inserted = 0
  /\ delta'[q] = delta[q]
  /\ pc'[q] \notin Numbered => pc[q] \notin Numbered
  /\ pc'[q] = "commit" => pc[q] = "commit" \/ work[q].inserted = Len(LinesOf(q))

Clears(q) == work'[q] = NoWork /\ delta'[q] = NoDelta /\ pc'[q] = "done"

LEMMA KeptAddsUp ==
  ASSUME TypeOK, NEW q \in Request, AddsUp(q), Keeps(q)
  PROVE  AddsUp(q)'
<1>1. work[q].inserted \in Nat
  BY DEF TypeOK
<1>2. \A i \in 1 .. work[q].inserted : RowAt(q, i)' = RowAt(q, i)
  BY <1>1 DEF Keeps, RowAt, LinesOf
<1>3. Written(q)' = Written(q)
  BY <1>2 DEF Written, Keeps
<1>. QED
  BY <1>3 DEF AddsUp, Keeps, Numbered, LinesOf

LEMMA ClearedAddsUp ==
  ASSUME NEW q \in Request, Clears(q)
  PROVE  AddsUp(q)'
<1>1. Written(q)' = {}
  BY DEF Written, Clears, NoWork
<1>2. \A b \in BalanceRow : delta'[q][b] = ZeroTotals
  BY DEF Clears, NoDelta
<1>. QED
  BY <1>1, <1>2, RowsNone, SummedNone DEF AddsUp, Clears, NoWork, Numbered

LEMMA EndAddsUp ==
  ASSUME TypeOK, \A q \in Request : AddsUp(q), NEW r \in Request, NEW how, EndTransaction(r, how)
  PROVE  \A q \in Request : AddsUp(q)'
<1>1. Clears(r)
  BY DEF EndTransaction, Goto, TypeOK, Clears
<1>2. ASSUME NEW q \in Request, q # r PROVE Keeps(q)
  BY <1>2 DEF EndTransaction, Goto, TypeOK, Keeps
<1>. QED
  BY <1>1, <1>2, KeptAddsUp, ClearedAddsUp

LEMMA GotoAddsUp ==
  ASSUME TypeOK, \A q \in Request : AddsUp(q), NEW r \in Request, NEW label,
         label # "commit", label \notin Numbered => pc[r] \notin Numbered,
         Goto(r, label), UNCHANGED <<work, delta>>
  PROVE  \A q \in Request : AddsUp(q)'
<1>1. ASSUME NEW q \in Request PROVE Keeps(q)
  BY DEF Goto, TypeOK, Keeps
<1>. QED
  BY <1>1, KeptAddsUp

LEMMA StillAddsUp ==
  ASSUME TypeOK, \A q \in Request : AddsUp(q), UNCHANGED <<pc, work, delta>>
  PROVE  \A q \in Request : AddsUp(q)'
<1>1. ASSUME NEW q \in Request PROVE Keeps(q)
  BY DEF Keeps
<1>. QED
  BY <1>1, KeptAddsUp

LEMMA SameBooks ==
  ASSUME WholePostings, DoubleEntry, BalancesMatchJournal, UNCHANGED committed
  PROVE  WholePostings' /\ DoubleEntry' /\ BalancesMatchJournal'
  BY DEF committed, WholePostings, DoubleEntry, BalancesMatchJournal, LinesOf, SlotOf

LEMMA BooksInit == Init => BooksInv
<1> SUFFICES ASSUME Init PROVE BooksInv
  OBVIOUS
<1>1. \A r \in Request : AddsUp(r)
  <2> SUFFICES ASSUME NEW r \in Request PROVE AddsUp(r)
    OBVIOUS
  <2>1. work[r] = NoWork /\ delta[r] = NoDelta /\ pc[r] = "check"
    BY DEF Init
  <2>2. Written(r) = {}
    BY <2>1 DEF Written, NoWork
  <2>. QED
    BY <2>1, <2>2, RowsNone, SummedNone DEF AddsUp, NoWork, NoDelta, Numbered
<1>2. WholePostings /\ DoubleEntry
  BY OpeningAssumption DEF Init, WholePostings, DoubleEntry
<1>3. BalancesMatchJournal
  BY OpeningSumsAssumption DEF Init, BalancesMatchJournal
<1>. QED
  BY <1>1, <1>2, <1>3 DEF BooksInv

(* A line of r is added to what r has written, in the drift and in the one  *)
(* balance row it changes.                                                  *)
LEMMA LineAddsUp ==
  ASSUME TypeOK, \A q \in Request : AddsUp(q), NEW r \in Request, InsertJournalLine(r),
         ~ Rollback(r, "closed"), ~ Rollback(r, "rejected")
  PROVE  \A q \in Request : AddsUp(q)'
<1>1. PICK i \in Nat : i = work[r].inserted + 1
  BY DEF TypeOK
<1>2. PICK e : e = RowAt(r, i)
  OBVIOUS
<1>3. /\ pc[r] = "lines"
      /\ work' = [work EXCEPT ![r].inserted = @ + 1, ![r].drift = @ + e.debit - e.credit]
      /\ delta' = [delta EXCEPT ![r][<<e.account, e.year>>] =
                      Plus(@, [debits |-> e.debit, credits |-> e.credit])]
      /\ UNCHANGED pc
  BY <1>1, <1>2 DEF InsertJournalLine
<1>4. i \in 1 .. Len(LinesOf(r))
  BY <1>1, LineFacts DEF InsertJournalLine, TypeOK
<1>5. e \in Row /\ <<e.account, e.year>> \in BalanceRow /\ e.debit \in Nat /\ e.credit \in Nat
  BY <1>2, <1>4, RowType DEF Row
<1>6. ASSUME NEW q \in Request, q # r PROVE AddsUp(q)'
  <2>1. Keeps(q)
    BY <1>3, <1>6 DEF TypeOK, Keeps
  <2>. QED
    BY <2>1, KeptAddsUp
<1>7. AddsUp(r)'
  <2>1. /\ work'[r].inserted = i /\ work'[r].id = work[r].id
        /\ work'[r].drift = work[r].drift + e.debit - e.credit
    BY <1>1, <1>3 DEF TypeOK
  <2>2. \A j : RowAt(r, j)' = RowAt(r, j)
    BY <2>1 DEF RowAt, LinesOf
  <2>3. Written(r)' = Written(r) \cup {e}
    <3>1. 1 .. i = (1 .. work[r].inserted) \cup {i}
      BY <1>1 DEF TypeOK
    <3>2. Written(r)' = {RowAt(r, j) : j \in 1 .. i}
      BY <2>1, <2>2 DEF Written
    <3>. QED
      BY <1>2, <3>1, <3>2 DEF Written
  <2>4. Written(r) \subseteq Row /\ IsFiniteSet(Written(r)) /\ e \notin Written(r)
    BY <1>1, <1>2, WrittenFacts
  <2>5. work'[r].drift = Net(Written(r)')
    BY <1>5, <2>1, <2>3, <2>4, RowsMore DEF AddsUp
  <2>6. ASSUME NEW b \in BalanceRow PROVE delta'[r][b] = Summed(b, Written(r)')
    <3>1. delta[r][b] = Summed(b, Written(r))
      BY DEF AddsUp
    <3>2. delta'[r][b] = IF b = <<e.account, e.year>>
                         THEN Plus(delta[r][b], [debits |-> e.debit, credits |-> e.credit])
                         ELSE delta[r][b]
      BY <1>3, <1>5 DEF TypeOK
    <3>. QED
      BY <1>5, <2>3, <2>4, <3>1, <3>2, SummedMore
  <2>. QED
    BY <1>3, <2>5, <2>6 DEF AddsUp, Numbered
<1>. QED
  BY <1>6, <1>7

(* The rows a commit adds are new, all there, in balance, and they are what *)
(* it adds to the balances.                                                 *)
LEMMA CommitAddsUp ==
  ASSUME TypeOK, PostingInv, BooksInv, NEW r \in Request, Commit(r), ~ Rollback(r, "unbalanced")
  PROVE  BooksInv'
<1>1. /\ pc[r] = "commit" /\ work[r].drift = 0
      /\ transactions' = transactions \cup
            {[id |-> work[r].id, slot |-> SlotOf(r), year |-> Input[r].year]}
      /\ journal' = journal \cup Written(r)
      /\ balance' = [b \in BalanceRow |-> Plus(balance[b], delta[r][b])]
      /\ EndTransaction(r, "created") \/ EndTransaction(r, "lost")
  BY DEF Commit, Written
<1>2. PICK n : n = work[r].id
  OBVIOUS
<1>3. PICK W : W = Written(r)
  OBVIOUS
<1>4. n \in TxnId /\ \A t \in transactions : t.id # n
  BY <1>1, <1>2 DEF PostingInv, IdsAreUnique, Numbered
<1>5. /\ W \subseteq Row /\ IsFiniteSet(W) /\ Cardinality(W) = Len(LinesOf(r))
      /\ \A e \in W : e.txn = n /\ e.year = Input[r].year
      /\ Net(W) = 0
      /\ \A b \in BalanceRow : delta[r][b] = Summed(b, W)
  BY <1>1, <1>2, <1>3, WrittenFacts DEF BooksInv, AddsUp
<1>6. \A e \in journal : e.txn # n
  BY <1>4 DEF BooksInv, WholePostings, TxnId
<1>7. {e \in journal' : e.txn = n} = W
  BY <1>1, <1>3, <1>5, <1>6
<1>8. \A m : m # n => {e \in journal' : e.txn = m} = {e \in journal : e.txn = m}
  BY <1>1, <1>3, <1>5
<1>9. \A q \in Request : AddsUp(q)'
  BY <1>1, EndAddsUp DEF BooksInv
<1>10. WholePostings'
  <2>1. IsFiniteSet(journal')
    BY <1>1, <1>3, <1>5, FS_Union DEF BooksInv, WholePostings
  <2>2. ASSUME NEW t \in transactions'
        PROVE  \E q \in Request :
                  /\ SlotOf(q) = t.slot
                  /\ Cardinality({e \in journal' : e.txn = t.id}) = Len(LinesOf(q))
    <3>1. CASE t \in transactions
      BY <1>4, <1>8, <3>1 DEF BooksInv, WholePostings
    <3>2. CASE t = [id |-> n, slot |-> SlotOf(r), year |-> Input[r].year]
      BY <1>5, <1>7, <3>2
    <3>. QED
      BY <1>1, <1>2, <3>1, <3>2
  <2>3. ASSUME NEW e \in journal', e.txn # 0
        PROVE  \E t \in transactions' : t.id = e.txn /\ t.year = e.year
    <3>1. CASE e \in journal
      BY <1>1, <2>3, <3>1 DEF BooksInv, WholePostings
    <3>2. CASE e \in W
      <4>1. PICK t : t = [id |-> n, slot |-> SlotOf(r), year |-> Input[r].year]
        OBVIOUS
      <4>2. t \in transactions' /\ t.id = n /\ t.year = Input[r].year
        BY <1>1, <1>2, <4>1
      <4>. QED
        BY <1>5, <3>2, <4>2
    <3>. QED
      BY <1>1, <1>3, <3>1, <3>2
  <2>. QED
    BY <2>1, <2>2, <2>3 DEF WholePostings, LinesOf, SlotOf
<1>11. DoubleEntry'
  <2> SUFFICES ASSUME NEW t \in transactions' PROVE Net({e \in journal' : e.txn = t.id}) = 0
    BY DEF DoubleEntry
  <2>1. CASE t \in transactions
    BY <1>4, <1>8, <2>1 DEF BooksInv, DoubleEntry
  <2>2. CASE t.id = n
    BY <1>5, <1>7, <2>2
  <2>. QED
    BY <1>1, <1>2, <2>1, <2>2
<1>12. BalancesMatchJournal'
  <2> SUFFICES ASSUME NEW b \in BalanceRow PROVE balance'[b] = Summed(b, journal')
    BY DEF BalancesMatchJournal
  <2>1. journal \subseteq Row /\ IsFiniteSet(journal) /\ journal \cap W = {}
    BY <1>5, <1>6 DEF TypeOK, BooksInv, WholePostings
  <2>2. Summed(b, journal \cup W) = Plus(Summed(b, journal), Summed(b, W))
    BY <1>5, <2>1, SummedBoth
  <2>. QED
    BY <1>1, <1>3, <1>5, <2>2 DEF BooksInv, BalancesMatchJournal
<1>. QED
  BY <1>9, <1>10, <1>11, <1>12 DEF BooksInv

LEMMA BooksNext == TypeOK /\ PostingInv /\ BooksInv /\ [Next]_vars => BooksInv'
<1> SUFFICES ASSUME TypeOK, PostingInv, BooksInv, [Next]_vars PROVE BooksInv'
  OBVIOUS
<1>a. /\ \A q \in Request : AddsUp(q)
      /\ WholePostings /\ DoubleEntry /\ BalancesMatchJournal
  BY DEF BooksInv
<1>b. ASSUME UNCHANGED committed, \A q \in Request : AddsUp(q)' PROVE BooksInv'
  BY <1>a, <1>b, SameBooks DEF BooksInv
<1>0. ASSUME NEW r \in Request, NEW why, Rollback(r, why) PROVE BooksInv'
  BY <1>0, <1>a, <1>b, EndAddsUp DEF Rollback
<1>1. ASSUME NEW r \in Request, CheckIdempotency(r) PROVE BooksInv'
  BY <1>1, <1>a, <1>b, EndAddsUp, GotoAddsUp DEF CheckIdempotency, Numbered
<1>2. ASSUME NEW r \in Request, Translate(r) PROVE BooksInv'
  BY <1>0, <1>2, <1>a, <1>b, GotoAddsUp DEF Translate, Numbered
<1>3. ASSUME NEW r \in Request, NEW a \in Account, LockAccount(r, a) PROVE BooksInv'
  BY <1>3, <1>a, <1>b, StillAddsUp DEF LockAccount
<1>4. ASSUME NEW r \in Request, AccountsLocked(r) PROVE BooksInv'
  BY <1>0, <1>4, <1>a, <1>b, GotoAddsUp DEF AccountsLocked, Numbered
<1>5. ASSUME NEW r \in Request, ValidateBalances(r) PROVE BooksInv'
  BY <1>0, <1>5, <1>a, <1>b, GotoAddsUp DEF ValidateBalances, Numbered
<1>6. ASSUME NEW r \in Request, RecordIdempotencyKey(r) PROVE BooksInv'
  BY <1>0, <1>6, <1>a, <1>b, GotoAddsUp DEF RecordIdempotencyKey, Numbered
<1>7. ASSUME NEW r \in Request, InsertTransaction(r) PROVE BooksInv'
  <2>1. CASE Rollback(r, "closed")
    BY <1>0, <2>1
  <2>2. CASE ~ Rollback(r, "closed")
    <3>1. /\ pc[r] = "header" /\ work' = [work EXCEPT ![r].id = nextId]
          /\ Goto(r, "lines") /\ UNCHANGED delta /\ UNCHANGED committed
      BY <1>7, <2>2 DEF InsertTransaction
    <3>2. work[r].inserted = 0
      BY <1>a, <3>1 DEF AddsUp, Numbered
    <3>3. ASSUME NEW q \in Request PROVE Keeps(q)
      BY <3>1, <3>2 DEF Goto, TypeOK, Keeps, Numbered
    <3>. QED
      BY <1>a, <1>b, <3>1, <3>3, KeptAddsUp
  <2>. QED
    BY <2>1, <2>2
<1>8. ASSUME NEW r \in Request, InsertJournalLine(r) PROVE BooksInv'
  <2>1. CASE Rollback(r, "closed") \/ Rollback(r, "rejected")
    BY <1>0, <2>1
  <2>2. CASE ~ Rollback(r, "closed") /\ ~ Rollback(r, "rejected")
    <3>1. UNCHANGED committed
      BY <1>8, <2>2 DEF InsertJournalLine
    <3>. QED
      BY <1>8, <1>a, <1>b, <2>2, <3>1, LineAddsUp
  <2>. QED
    BY <2>1, <2>2
<1>9. ASSUME NEW r \in Request, FinalizeIdempotency(r) PROVE BooksInv'
  <2>1. ASSUME NEW q \in Request PROVE Keeps(q)
    <3>1. /\ work[r].inserted = Len(LinesOf(r)) /\ UNCHANGED delta
          /\ work' = [work EXCEPT ![r].linked = claim[SlotOf(r)] = r] /\ Goto(r, "commit")
      BY <1>9 DEF FinalizeIdempotency
    <3>. QED
      BY <3>1 DEF Goto, TypeOK, Keeps, Numbered
  <2>. QED
    BY <1>9, <1>a, <1>b, <2>1, KeptAddsUp DEF FinalizeIdempotency
<1>10. ASSUME NEW r \in Request, Commit(r) PROVE BooksInv'
  BY <1>0, <1>10, CommitAddsUp
<1>11. ASSUME NEW r \in Request, Fail(r) \/ BreakDeadlock(r) PROVE BooksInv'
  BY <1>0, <1>11 DEF Fail, BreakDeadlock
<1>12. ASSUME NEW y \in Year, SetPeriodLock(y) PROVE BooksInv'
  BY <1>12, <1>a, <1>b, StillAddsUp DEF SetPeriodLock
<1>13. CASE UNCHANGED vars
  BY <1>13, <1>a, <1>b, StillAddsUp DEF vars, committed
<1>. QED
  BY <1>1, <1>2, <1>3, <1>4, <1>5, <1>6, <1>7, <1>8, <1>9, <1>10, <1>11, <1>12, <1>13
  DEF Next, Step

(* The books are whole in every state: whatever calls interleave, fail or   *)
(* repeat a key, a committed posting has its key, its header and all the    *)
(* lines of its voucher, its debits equal its credits, and every row of     *)
(* account_balances is the sum of the journal.                              *)
THEOREM WholeBooks == Spec => []BooksAddUp
<1>1. Init => BooksInv
  BY BooksInit
<1>2. TypeOK /\ PostingInv /\ BooksInv /\ [Next]_vars => BooksInv'
  BY BooksNext
<1>3. PostingInv /\ BooksInv => BooksAddUp
  BY DEF PostingInv, KeysLeadToHeaders, BooksInv, WholePostings, BooksAddUp, AllOrNothing
<1>. QED
  BY <1>1, <1>2, <1>3, PostingCorrect, PTL DEF Spec
-----------------------------------------------------------------------------
(* Overdrafts.                                                              *)

Checked == {"claim", "header", "lines", "commit"}

(* What validateBalances saw still holds: the accounts r credits have what  *)
(* it takes from them.                                                      *)
Covered(r) ==
  pc[r] \in Checked =>
     \A i \in 1 .. Len(LinesOf(r)) : LinesOf(r)[i].credit > 0 =>
        10 * Net(RowsOf(LinesOf(r)[i].account)) >= LinesOf(r)[i].credit

OverdraftInv == NoOverdraft /\ \A r \in Request : Covered(r)

LEMMA NetIsInt ==
  ASSUME NEW rows, IsFiniteSet(rows), rows \subseteq Row
  PROVE  Net(rows) \in Int
  BY RowWeighs, NetIs, SumIsInt

(* Rows that credit nothing take nothing away ...                           *)
LEMMA DebitsOnly ==
  ASSUME NEW rows, IsFiniteSet(rows), rows \subseteq Row, \A e \in rows : e.credit = 0
  PROVE  Net(rows) \in Nat
<1>1. \A e \in rows : NetOf[e] \in Nat
  BY DEF NetOf, Row
<1>. QED
  BY <1>1, NetIs, SumOfNaturals

(* ... and rows of which one credits take at most its credit away.          *)
LEMMA OneCredit ==
  ASSUME NEW rows, IsFiniteSet(rows), rows \subseteq Row, NEW x \in rows,
         \A e \in rows : e # x => e.credit = 0
  PROVE  Net(rows) + x.credit >= 0
<1>1. PICK rest : rest = rows \ {x}
  OBVIOUS
<1>2. /\ IsFiniteSet(rest) /\ rest \subseteq Row /\ x \notin rest /\ rest \cup {x} = rows
      /\ \A e \in rest : e.credit = 0
  BY <1>1, FS_RemoveElement
<1>3. Net(rest) \in Nat
  BY <1>2, DebitsOnly
<1>4. x \in Row /\ x.debit \in Nat /\ x.credit \in Nat
  BY DEF Row
<1>5. Net(rows) = Net(rest) + x.debit - x.credit
  BY <1>2, <1>4, RowsMore
<1>. QED
  BY <1>3, <1>4, <1>5

LEMMA RoundedUp ==
  ASSUME NEW n \in Int, NEW c \in Nat, 10 * n >= c
  PROVE  n >= Stored(c)
  BY DEF Stored

LEMMA CoveredStays ==
  ASSUME NEW q \in Request, Covered(q), pc'[q] \in Checked => pc[q] \in Checked,
         \A a \in Named(q) : pc'[q] \in Checked => Net(RowsOf(a)') = Net(RowsOf(a))
  PROVE  Covered(q)'
  BY DEF Covered, Named, LinesOf

LEMMA CoveredSame ==
  ASSUME NEW q \in Request, Covered(q), pc'[q] \in Checked => pc[q] \in Checked, UNCHANGED journal
  PROVE  Covered(q)'
<1>1. \A a : RowsOf(a)' = RowsOf(a)
  BY DEF RowsOf
<1>. QED
  BY <1>1, CoveredStays

LEMMA EndCovered ==
  ASSUME TypeOK, OverdraftInv, NEW r \in Request, NEW how, EndTransaction(r, how), UNCHANGED journal
  PROVE  OverdraftInv'
<1>1. \A q \in Request : pc'[q] \in Checked => pc[q] \in Checked
  BY DEF EndTransaction, Goto, TypeOK, Checked
<1>2. \A q \in Request : Covered(q)'
  BY <1>1, CoveredSame DEF OverdraftInv
<1>. QED
  BY <1>2 DEF OverdraftInv, NoOverdraft, RowsOf

LEMMA GotoCovered ==
  ASSUME TypeOK, OverdraftInv, NEW r \in Request, NEW label, Goto(r, label), UNCHANGED journal,
         label \in Checked => pc[r] \in Checked
  PROVE  OverdraftInv'
<1>1. \A q \in Request : pc'[q] \in Checked => pc[q] \in Checked
  BY DEF Goto, TypeOK
<1>2. \A q \in Request : Covered(q)'
  BY <1>1, CoveredSame DEF OverdraftInv
<1>. QED
  BY <1>2 DEF OverdraftInv, NoOverdraft, RowsOf

LEMMA StillCovered ==
  ASSUME OverdraftInv, UNCHANGED <<pc, journal>>
  PROVE  OverdraftInv'
<1>1. \A q \in Request : Covered(q)'
  BY CoveredSame DEF OverdraftInv
<1>. QED
  BY <1>1 DEF OverdraftInv, NoOverdraft, RowsOf

(* validateBalances lets r pass: each credit is covered now.                *)
LEMMA ValidatedCovered ==
  ASSUME TypeOK, BooksInv, OverdraftInv, NEW r \in Request, ValidateBalances(r), ~ Rollback(r, "insufficient")
  PROVE  OverdraftInv'
<1>1. ~ Overdrawn(r) /\ Goto(r, "claim") /\ UNCHANGED journal
  BY DEF ValidateBalances, committed
<1>2. \A a : RowsOf(a)' = RowsOf(a)
  BY <1>1 DEF RowsOf
<1>3. Covered(r)'
  <2> SUFFICES ASSUME NEW i \in 1 .. Len(LinesOf(r)), LinesOf(r)[i].credit > 0
               PROVE  10 * Net(RowsOf(LinesOf(r)[i].account)') >= LinesOf(r)[i].credit
    BY DEF Covered, LinesOf
  <2>1. PICK l \in Line : l = LinesOf(r)[i]
    BY LineFacts
  <2>2. ~ (CurrentBalance(l) - l.credit < 0)
    BY <1>1, <2>1 DEF Overdrawn
  <2>3. l.credit \in Nat /\ l.credit > 0
    BY <2>1 DEF Line
  <2>4. Net(RowsOf(l.account)) \in Int
    <3>1. RowsOf(l.account) \subseteq Row /\ IsFiniteSet(RowsOf(l.account))
      BY FS_Subset DEF RowsOf, TypeOK, BooksInv, WholePostings
    <3>. QED
      BY <3>1, NetIsInt
  <2>5. CurrentBalance(l) = 10 * Net(RowsOf(l.account))
    BY <2>2, <2>3 DEF CurrentBalance
  <2>. QED
    BY <1>2, <2>1, <2>2, <2>3, <2>4, <2>5
<1>4. ASSUME NEW q \in Request, q # r PROVE Covered(q)'
  BY <1>1, <1>4, CoveredSame DEF Goto, TypeOK, OverdraftInv
<1>. QED
  BY <1>1, <1>3, <1>4 DEF OverdraftInv, NoOverdraft, RowsOf

(* The rows a commit adds are new to the journal.                           *)
LEMMA CommittedRows ==
  ASSUME TypeOK, PostingInv, BooksInv, NEW r \in Request, Commit(r), ~ Rollback(r, "unbalanced")
  PROVE  /\ pc[r] = "commit" /\ pc' = [pc EXCEPT ![r] = "done"]
         /\ journal' = journal \cup Written(r) /\ journal \cap Written(r) = {}
         /\ Written(r) \subseteq Row /\ IsFiniteSet(Written(r))
         /\ IsFiniteSet(journal) /\ journal \subseteq Row
         /\ Written(r) = {RowAt(r, i) : i \in 1 .. Len(LinesOf(r))}
<1>1. /\ pc[r] = "commit" /\ pc' = [pc EXCEPT ![r] = "done"]
      /\ journal' = journal \cup Written(r)
  BY DEF Commit, Written, EndTransaction, Goto
<1>2. work[r].id \in TxnId /\ \A t \in transactions : t.id # work[r].id
  BY <1>1 DEF PostingInv, IdsAreUnique, Numbered
<1>3. \A e \in journal : e.txn # work[r].id
  BY <1>2 DEF BooksInv, WholePostings, TxnId
<1>4. work[r].inserted = Len(LinesOf(r))
  BY <1>1 DEF BooksInv, AddsUp
<1>. QED
  BY <1>1, <1>3, <1>4, WrittenFacts DEF Written, TypeOK, BooksInv, WholePostings

(* What the rows of r do to one account: nothing is taken from an account   *)
(* r does not credit, and no more than it holds from one that it does.      *)
LEMMA RowsTaken ==
  ASSUME OneCreditPerAccount, TypeOK, NEW r \in Request, NEW a \in Account,
         NEW rows, IsFiniteSet(rows), rows \subseteq Row,
         rows = {RowAt(r, i) : i \in {j \in 1 .. Len(LinesOf(r)) : LinesOf(r)[j].account = a}}
  PROVE  \/ Net(rows) \in Nat
         \/ \E i \in 1 .. Len(LinesOf(r)) :
               /\ LinesOf(r)[i].account = a /\ LinesOf(r)[i].credit > 0
               /\ LinesOf(r)[i].credit \in Nat
               /\ Net(rows) + Stored(LinesOf(r)[i].credit) >= 0
<1>1. \A i \in 1 .. Len(LinesOf(r)) :
         /\ LinesOf(r)[i].credit \in Nat
         /\ RowAt(r, i).credit = Stored(LinesOf(r)[i].credit)
         /\ LinesOf(r)[i].credit = 0 => RowAt(r, i).credit = 0
  <2>1. Stored(0) = 0
    BY DEF Stored
  <2>. QED
    BY <2>1, LineFacts DEF Line, RowAt
<1>2. CASE \A e \in rows : e.credit = 0
  BY <1>2, DebitsOnly
<1>3. CASE \E e \in rows : e.credit # 0
  <2>1. PICK i \in 1 .. Len(LinesOf(r)) :
           RowAt(r, i) \in rows /\ RowAt(r, i).credit # 0 /\ LinesOf(r)[i].account = a
    BY <1>3
  <2>2. LinesOf(r)[i].credit \in Nat /\ LinesOf(r)[i].credit > 0
    BY <1>1, <2>1
  <2>3. ASSUME NEW e \in rows, e # RowAt(r, i) PROVE e.credit = 0
    <3>1. PICK j \in 1 .. Len(LinesOf(r)) : e = RowAt(r, j) /\ LinesOf(r)[j].account = a
      OBVIOUS
    <3>2. j # i
      BY <2>3, <3>1
    <3>3. LinesOf(r)[j].credit \in Nat /\ ~ (LinesOf(r)[j].credit > 0)
      BY <1>1, <2>1, <2>2, <3>1, <3>2 DEF OneCreditPerAccount
    <3>. QED
      BY <1>1, <3>1, <3>3
  <2>4. Net(rows) + RowAt(r, i).credit >= 0
    BY <2>1, <2>3, OneCredit
  <2>. QED
    BY <1>1, <2>1, <2>2, <2>4
<1>. QED
  BY <1>2, <1>3

LEMMA CommitCovered ==
  ASSUME OneCreditPerAccount, TypeOK, PostingInv, LocksHeld, BooksInv, OverdraftInv,
         NEW r \in Request, Commit(r), ~ Rollback(r, "unbalanced")
  PROVE  OverdraftInv'
<1>1. /\ pc[r] = "commit" /\ pc' = [pc EXCEPT ![r] = "done"]
      /\ journal' = journal \cup Written(r) /\ journal \cap Written(r) = {}
      /\ Written(r) \subseteq Row /\ IsFiniteSet(Written(r))
      /\ IsFiniteSet(journal) /\ journal \subseteq Row
      /\ Written(r) = {RowAt(r, i) : i \in 1 .. Len(LinesOf(r))}
  BY CommittedRows
<1>2. PICK W : W = Written(r)
  OBVIOUS
<1>3. \A i : RowAt(r, i).account = LinesOf(r)[i].account
  BY DEF RowAt
<1>4. ASSUME NEW q \in Request PROVE Covered(q)'
  <2>1. CASE q = r
    BY <1>1, <2>1 DEF Covered, Checked, TypeOK
  <2>2. CASE q # r
    <3>1. pc'[q] = pc[q] /\ Covered(q)
      BY <1>1, <2>2 DEF TypeOK, OverdraftInv
    <3>2. ASSUME NEW a \in Named(q), pc'[q] \in Checked PROVE Net(RowsOf(a)') = Net(RowsOf(a))
      <4>1. accLock[a] = q
        BY <3>1, <3>2 DEF LocksHeld, Holding, Checked
      <4>2. a \notin Named(r)
        BY <1>1, <2>2, <4>1 DEF LocksHeld, Holding
      <4>3. \A e \in W : e.account # a
        BY <1>1, <1>2, <1>3, <4>2 DEF Named
      <4>4. RowsOf(a)' = RowsOf(a)
        BY <1>1, <1>2, <4>3 DEF RowsOf
      <4>. QED
        BY <4>4
    <3>. QED
      BY <3>1, <3>2, CoveredStays
  <2>. QED
    BY <2>1, <2>2
<1>5. NoOverdraft'
  <2> SUFFICES ASSUME NEW a \in Account, Net(RowsOf(a)') < 0
               PROVE  Net(RowsOf(a)') >= Net({e \in Opening : e.account = a})
    BY DEF NoOverdraft
  <2>1. PICK S : S = RowsOf(a)
    OBVIOUS
  <2>2. PICK T : T = {e \in W : e.account = a}
    OBVIOUS
  <2>3. /\ S \subseteq Row /\ IsFiniteSet(S) /\ T \subseteq Row /\ IsFiniteSet(T)
        /\ S \cap T = {} /\ RowsOf(a)' = S \cup T
    BY <1>1, <1>2, <2>1, <2>2, FS_Subset DEF RowsOf
  <2>4. Net(S \cup T) = Net(S) + Net(T) /\ Net(S) \in Int /\ Net(T) \in Int
    BY <2>3, RowsBoth, NetIsInt
  <2>5. T = {RowAt(r, i) : i \in {j \in 1 .. Len(LinesOf(r)) : LinesOf(r)[j].account = a}}
    BY <1>1, <1>2, <1>3, <2>2
  <2>6. CASE Net(T) \in Nat
    <3>1. Net(S) < 0
      BY <2>3, <2>4, <2>6
    <3>2. Net(S) >= Net({e \in Opening : e.account = a})
      BY <2>1, <3>1 DEF OverdraftInv, NoOverdraft
    <3>3. Net({e \in Opening : e.account = a}) \in Int
      <4>1. PICK O : O = {e \in Opening : e.account = a}
        OBVIOUS
      <4>2. O \subseteq Row /\ IsFiniteSet(O)
        BY <4>1, OpeningAssumption, FS_Subset
      <4>. QED
        BY <4>1, <4>2, NetIsInt
    <3>. QED
      BY <2>3, <2>4, <2>6, <3>2, <3>3
  <2>7. CASE \E i \in 1 .. Len(LinesOf(r)) :
               /\ LinesOf(r)[i].account = a /\ LinesOf(r)[i].credit > 0
               /\ LinesOf(r)[i].credit \in Nat
               /\ Net(T) + Stored(LinesOf(r)[i].credit) >= 0
    <3>1. PICK i \in 1 .. Len(LinesOf(r)) :
               /\ LinesOf(r)[i].account = a /\ LinesOf(r)[i].credit > 0
               /\ LinesOf(r)[i].credit \in Nat
               /\ Net(T) + Stored(LinesOf(r)[i].credit) >= 0
      BY <2>7
    <3>2. 10 * Net(S) >= LinesOf(r)[i].credit
      BY <1>1, <2>1, <3>1 DEF OverdraftInv, Covered, Checked
    <3>3. Net(S) >= Stored(LinesOf(r)[i].credit) /\ Stored(LinesOf(r)[i].credit) \in Nat
      BY <2>4, <3>1, <3>2, RoundedUp, StoredNat
    <3>. QED
      BY <2>3, <2>4, <3>1, <3>3
  <2>. QED
    BY ZenonT(60), <2>3, <2>5, <2>6, <2>7, RowsTaken
<1>. QED
  BY <1>4, <1>5 DEF OverdraftInv

LEMMA OverdraftNext ==
  ASSUME OneCreditPerAccount, TypeOK, PostingInv, LocksHeld, BooksInv, OverdraftInv, [Next]_vars
  PROVE  OverdraftInv'
<1>0. ASSUME NEW r \in Request, NEW why, Rollback(r, why) PROVE OverdraftInv'
  BY <1>0, EndCovered DEF Rollback, committed
<1>1. ASSUME NEW r \in Request, CheckIdempotency(r) PROVE OverdraftInv'
  BY <1>1, EndCovered, GotoCovered DEF CheckIdempotency, Checked, committed
<1>2. ASSUME NEW r \in Request, Translate(r) PROVE OverdraftInv'
  BY <1>0, <1>2, GotoCovered DEF Translate, Checked, committed
<1>3. ASSUME NEW r \in Request, NEW a \in Account, LockAccount(r, a) PROVE OverdraftInv'
  BY <1>3, StillCovered DEF LockAccount, committed
<1>4. ASSUME NEW r \in Request, AccountsLocked(r) PROVE OverdraftInv'
  BY <1>0, <1>4, GotoCovered DEF AccountsLocked, Checked, committed
<1>5. ASSUME NEW r \in Request, ValidateBalances(r) PROVE OverdraftInv'
  BY <1>0, <1>5, ValidatedCovered
<1>6. ASSUME NEW r \in Request, RecordIdempotencyKey(r) PROVE OverdraftInv'
  BY <1>0, <1>6, GotoCovered DEF RecordIdempotencyKey, Checked, committed
<1>7. ASSUME NEW r \in Request, InsertTransaction(r) PROVE OverdraftInv'
  BY <1>0, <1>7, GotoCovered DEF InsertTransaction, Checked, committed
<1>8. ASSUME NEW r \in Request, InsertJournalLine(r) PROVE OverdraftInv'
  <2>1. CASE Rollback(r, "closed") \/ Rollback(r, "rejected")
    BY <1>0, <2>1
  <2>2. CASE ~ Rollback(r, "closed") /\ ~ Rollback(r, "rejected")
    <3>1. UNCHANGED <<pc, journal>>
      BY <1>8, <2>2 DEF InsertJournalLine, committed
    <3>. QED
      BY <3>1, StillCovered
  <2>. QED
    BY <2>1, <2>2
<1>9. ASSUME NEW r \in Request, FinalizeIdempotency(r) PROVE OverdraftInv'
  BY <1>9, GotoCovered DEF FinalizeIdempotency, Checked, committed
<1>10. ASSUME NEW r \in Request, Commit(r) PROVE OverdraftInv'
  BY <1>0, <1>10, CommitCovered
<1>11. ASSUME NEW r \in Request, Fail(r) \/ BreakDeadlock(r) PROVE OverdraftInv'
  BY <1>0, <1>11 DEF Fail, BreakDeadlock
<1>12. ASSUME NEW y \in Year, SetPeriodLock(y) PROVE OverdraftInv'
  BY <1>12, StillCovered DEF SetPeriodLock, committed
<1>13. CASE UNCHANGED vars
  BY <1>13, StillCovered DEF vars
<1>. QED
  BY <1>1, <1>2, <1>3, <1>4, <1>5, <1>6, <1>7, <1>8, <1>9, <1>10, <1>11, <1>12, <1>13
  DEF Next, Step

(* Concurrent postings take no account below zero that was not there        *)
(* before, nor lower than it was, as long as no voucher credits an account  *)
(* on two lines: validateBalances looks at the lines one at a time.         *)
THEOREM NeverOverdrawn == ASSUME OneCreditPerAccount PROVE Spec => []NoOverdraft
<1>1. Init => TypeOK /\ LocksHeld /\ BooksInv
  BY TypeInit, LocksInit, BooksInit
<1>2. Init => OverdraftInv
  <2>1. ASSUME Init, NEW a \in Account, Net(RowsOf(a)) < 0
        PROVE  Net(RowsOf(a)) >= Net({e \in Opening : e.account = a})
    <3>1. PICK O : O = {e \in Opening : e.account = a}
      OBVIOUS
    <3>2. O \subseteq Row /\ IsFiniteSet(O) /\ RowsOf(a) = O
      BY <2>1, <3>1, OpeningAssumption, FS_Subset DEF Init, RowsOf
    <3>. QED
      BY <3>1, <3>2, NetIsInt
  <2>2. Init => \A r \in Request : Covered(r)
    BY DEF Init, Covered, Checked
  <2>. QED
    BY <2>1, <2>2 DEF OverdraftInv, NoOverdraft
<1>3. TypeOK /\ LocksHeld /\ [Next]_vars => LocksHeld'
  BY LocksNext
<1>4. TypeOK /\ PostingInv /\ BooksInv /\ [Next]_vars => BooksInv'
  BY BooksNext
<1>5. TypeOK /\ PostingInv /\ LocksHeld /\ BooksInv /\ OverdraftInv /\ [Next]_vars
      => OverdraftInv'
  BY OverdraftNext
<1>6. OverdraftInv => NoOverdraft
  BY DEF OverdraftInv
<1>. QED
  BY <1>1, <1>2, <1>3, <1>4, <1>5, <1>6, PostingCorrect, PTL DEF Spec
=============================================================================

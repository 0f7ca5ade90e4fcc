---------------------------- MODULE BooksProofs ----------------------------
(***************************************************************************)
(* What is read of the books by several queries while they change adds up:  *)
(* the reports and the rebuilt balances of Reports, the closing of a year of*)
(* YearEnd, and the runs of Assets and Forex.                               *)
(*                                                                          *)
(* Reports: the sums of a set of rows add (SumsAdd), a transaction's two    *)
(* rows are even and of one date and year, so the journal is even up to     *)
(* every date and in every year, and the lines of a trial balance make up   *)
(* the rows of the leaves read so far.  YearEnd: what a closer has in hand  *)
(* undoes the totals of the accounts it has come to, unless something has   *)
(* been committed since it began.  Assets and Forex: a call carries what it *)
(* has read, taken and found not yet run (Carried, FxCarried) until it      *)
(* commits all its runs at once.                                            *)
(***************************************************************************)
EXTENDS Reports, YearEnd, Assets, Forex, SumTheorems

(* Sums of rows and of the lines of a report.                               *)
Countable(R) == IsFiniteSet(R) /\ \A r \in R : r.debit \in Int /\ r.credit \in Int

LEMMA DebitsAre ==
    ASSUME NEW R, Countable(R)
    PROVE  /\ Weighs([r \in R |-> r.debit], R)
           /\ SumDebits(R) = SumFunctionOnSet([r \in R |-> r.debit], R)
<1>1. PICK w : w = [r \in R |-> r.debit]
  OBVIOUS
<1>2. Weighs(w, R)
  BY <1>1 DEF Weighs, Countable
<1>3. PICK h : Unrolls(h, R, w) /\ SumFunctionOnSet(w, R) = h[R]
  BY <1>2, SumUnrolls
<1>4. PICK g : g = CHOOSE f : f = [s \in SUBSET R |->
                     IF s = {} THEN 0 ELSE AnyOf(s).debit + f[s \ {AnyOf(s)}]]
  OBVIOUS
<1>5. SumDebits(R) = g[R]
  BY <1>4 DEF SumDebits, MapThenSumSet, MapThenFoldSet, AnyOf
<1>6. \A s \in SUBSET R : s # {} => w[AnyOf(s)] = AnyOf(s).debit
  BY <1>1, AnyOfIsIn
<1>7. h = [s \in SUBSET R |-> IF s = {} THEN 0 ELSE AnyOf(s).debit + h[s \ {AnyOf(s)}]]
  BY <1>3, <1>6 DEF Unrolls
<1>8. g = [s \in SUBSET R |-> IF s = {} THEN 0 ELSE AnyOf(s).debit + g[s \ {AnyOf(s)}]]
  BY <1>4, <1>7, Zenon
<1>9. Unrolls(g, R, w)
  BY <1>6, <1>8 DEF Unrolls
<1> QED
  BY <1>1, <1>2, <1>3, <1>5, <1>9, SameValues

LEMMA CreditsAre ==
    ASSUME NEW R, Countable(R)
    PROVE  /\ Weighs([r \in R |-> r.credit], R)
           /\ SumCredits(R) = SumFunctionOnSet([r \in R |-> r.credit], R)
<1>1. PICK w : w = [r \in R |-> r.credit]
  OBVIOUS
<1>2. Weighs(w, R)
  BY <1>1 DEF Weighs, Countable
<1>3. PICK h : Unrolls(h, R, w) /\ SumFunctionOnSet(w, R) = h[R]
  BY <1>2, SumUnrolls
<1>4. PICK g : g = CHOOSE f : f = [s \in SUBSET R |->
                     IF s = {} THEN 0 ELSE AnyOf(s).credit + f[s \ {AnyOf(s)}]]
  OBVIOUS
<1>5. SumCredits(R) = g[R]
  BY <1>4 DEF SumCredits, MapThenSumSet, MapThenFoldSet, AnyOf
<1>6. \A s \in SUBSET R : s # {} => w[AnyOf(s)] = AnyOf(s).credit
  BY <1>1, AnyOfIsIn
<1>7. h = [s \in SUBSET R |-> IF s = {} THEN 0 ELSE AnyOf(s).credit + h[s \ {AnyOf(s)}]]
  BY <1>3, <1>6 DEF Unrolls
<1>8. g = [s \in SUBSET R |-> IF s = {} THEN 0 ELSE AnyOf(s).credit + g[s \ {AnyOf(s)}]]
  BY <1>4, <1>7, Zenon
<1>9. Unrolls(g, R, w)
  BY <1>6, <1>8 DEF Unrolls
<1> QED
  BY <1>1, <1>2, <1>3, <1>5, <1>9, SameValues

LEMMA NothingSums == SumDebits({}) = 0 /\ SumCredits({}) = 0
<1>1. Countable({})
  BY FS_EmptySet DEF Countable
<1> QED
  BY <1>1, DebitsAre, CreditsAre, SumOfNone

LEMMA SumsAreInt ==
    ASSUME NEW R, Countable(R)
    PROVE  SumDebits(R) \in Int /\ SumCredits(R) \in Int
  BY DebitsAre, CreditsAre, SumIsInt

LEMMA PartIsCountable ==
    ASSUME NEW R, Countable(R), NEW S \in SUBSET R
    PROVE  Countable(S)
  BY FS_Subset DEF Countable

LEMMA SumsAdd ==
    ASSUME NEW R, Countable(R), NEW S, Countable(S), R \cap S = {}
    PROVE  /\ Countable(R \cup S)
           /\ SumDebits(R \cup S) = SumDebits(R) + SumDebits(S)
           /\ SumCredits(R \cup S) = SumCredits(R) + SumCredits(S)
<1>1. Countable(R \cup S)
  BY FS_Union DEF Countable
<1>2. SumDebits(R \cup S) = SumDebits(R) + SumDebits(S)
  <2>1. PICK w : w = [r \in R \cup S |-> r.debit]
    OBVIOUS
  <2>2. Weighs(w, R) /\ Weighs(w, S) /\ Weighs(w, R \cup S)
    BY <1>1, <2>1 DEF Weighs, Countable
  <2>3. SumFunctionOnSet(w, R) = SumDebits(R) /\ SumFunctionOnSet(w, S) = SumDebits(S)
    <3>1. SumFunctionOnSet(w, R) = SumFunctionOnSet([r \in R |-> r.debit], R)
      BY <2>1, <2>2, SumIsSame
    <3>2. SumFunctionOnSet(w, S) = SumFunctionOnSet([r \in S |-> r.debit], S)
      BY <2>1, <2>2, SumIsSame
    <3> QED
      BY <3>1, <3>2, DebitsAre
  <2>4. SumFunctionOnSet(w, R \cup S) = SumFunctionOnSet(w, R) + SumFunctionOnSet(w, S)
    BY <2>2, SumOfBoth
  <2> QED
    BY <1>1, <2>1, <2>3, <2>4, DebitsAre
<1>3. SumCredits(R \cup S) = SumCredits(R) + SumCredits(S)
  <2>1. PICK w : w = [r \in R \cup S |-> r.credit]
    OBVIOUS
  <2>2. Weighs(w, R) /\ Weighs(w, S) /\ Weighs(w, R \cup S)
    BY <1>1, <2>1 DEF Weighs, Countable
  <2>3. SumFunctionOnSet(w, R) = SumCredits(R) /\ SumFunctionOnSet(w, S) = SumCredits(S)
    <3>1. SumFunctionOnSet(w, R) = SumFunctionOnSet([r \in R |-> r.credit], R)
      BY <2>1, <2>2, SumIsSame
    <3>2. SumFunctionOnSet(w, S) = SumFunctionOnSet([r \in S |-> r.credit], S)
      BY <2>1, <2>2, SumIsSame
    <3> QED
      BY <3>1, <3>2, CreditsAre
  <2>4. SumFunctionOnSet(w, R \cup S) = SumFunctionOnSet(w, R) + SumFunctionOnSet(w, S)
    BY <2>2, SumOfBoth
  <2> QED
    BY <1>1, <2>1, <2>3, <2>4, CreditsAre
<1> QED
  BY <1>1, <1>2, <1>3

LEMMA OneSums ==
    ASSUME NEW r, r.debit \in Int, r.credit \in Int
    PROVE  Countable({r}) /\ SumDebits({r}) = r.debit /\ SumCredits({r}) = r.credit
<1>1. Countable({r})
  BY FS_Singleton DEF Countable
<1>2. SumDebits({r}) = r.debit
  <2>1. PICK w : w = [x \in {r} |-> x.debit]
    OBVIOUS
  <2>2. Weighs(w, {}) /\ w[r] \in Int /\ w[r] = r.debit
    BY <2>1, FS_EmptySet DEF Weighs
  <2>3. SumFunctionOnSet(w, {} \cup {r}) = SumFunctionOnSet(w, {}) + w[r]
    BY <2>2, SumOfMore
  <2>4. {} \cup {r} = {r}
    OBVIOUS
  <2> QED
    BY <1>1, <2>1, <2>2, <2>3, <2>4, DebitsAre, SumOfNone
<1>3. SumCredits({r}) = r.credit
  <2>1. PICK w : w = [x \in {r} |-> x.credit]
    OBVIOUS
  <2>2. Weighs(w, {}) /\ w[r] \in Int /\ w[r] = r.credit
    BY <2>1, FS_EmptySet DEF Weighs
  <2>3. SumFunctionOnSet(w, {} \cup {r}) = SumFunctionOnSet(w, {}) + w[r]
    BY <2>2, SumOfMore
  <2>4. {} \cup {r} = {r}
    OBVIOUS
  <2> QED
    BY <1>1, <2>1, <2>2, <2>3, <2>4, CreditsAre, SumOfNone
<1> QED
  BY <1>1, <1>2, <1>3

-----------------------------------------------------------------------------
(* Reports                                                                  *)
RowIs(r) ==
    /\ r.posting \in Postings \ wrote /\ r.of = <<r.of[1], r.of[2]>> /\ r.of[1] \in Ledgers
    /\ r.debit \in Int /\ r.credit \in Int /\ r.created \in Int
ReportTypes ==
    /\ now \in Int /\ began \in [Postings -> Int] /\ wrote \subseteq Postings
    /\ asked \in Questions
    /\ IsFiniteSet(rows) /\ \A r \in rows : RowIs(r)

(* Whatever has been posted and rebuilt, a balance is what the journal says.*)
BalancesMatch == \A key : Balance(key) = Summed(In(rows, key))

(* The two rows of a transaction are of one date and one year.              *)
Until(t) == {r \in rows : r.created <= t}
OfYear(y) == {r \in rows : r.of[2] = y}
EvenRows(R) == SumDebits(R) = SumCredits(R)
DatesAreEven == \A t \in Int : EvenRows(Until(t))
YearsAreEven == \A y : EvenRows(OfYear(y))

(* The lines of a trial balance make up the rows of the leaves read so far, *)
(* as long as nothing is committed.                                         *)
InTrial(r) == IF report.current THEN r.of[2] = asked.year ELSE r.created <= Midnight(asked.day)
ReadRows == {r \in rows : r.of[1] \notin report.left /\ InTrial(r)}
TrialReads == report.kind = "trial" =>
    /\ asked.kind = "trial"
    /\ report = [kind |-> "trial", before |-> report.before, left |-> report.left,
                 lines |-> report.lines, current |-> report.current, done |-> report.done]
    /\ report.before \subseteq rows /\ report.current \in BOOLEAN
    /\ report.left \subseteq Ledgers /\ report.done = (report.left = {})
    /\ Countable(report.lines) /\ \A l \in report.lines : l.account \notin report.left
    /\ rows = report.before =>
          /\ SumDebits(report.lines) = SumDebits(ReadRows)
          /\ SumCredits(report.lines) = SumCredits(ReadRows)

(* A ledger opened with what was committed then.                            *)
LedgerReads == report.kind = "ledger" =>
    /\ asked.kind = "ledger" /\ report.before \subseteq rows
    /\ report.opening = Net({r \in report.before :
           r.of[1] = asked.account /\ r.created < Midnight(asked.from)})
    /\ report.done \in BOOLEAN

ReportInv ==
    /\ ReportTypes /\ BalancesMatch /\ DatesAreEven /\ YearsAreEven
    /\ TrialReads /\ LedgerReads /\ LedgerCountsOnce

LEMMA RowsCount == ASSUME ReportTypes, NEW R \in SUBSET rows PROVE Countable(R)
  BY FS_Subset DEF ReportTypes, RowIs, Countable

LEMMA EvenTogether ==
    ASSUME NEW R, Countable(R), EvenRows(R), NEW S, Countable(S), EvenRows(S), R \cap S = {}
    PROVE  EvenRows(R \cup S)
<1>1. SumDebits(R \cup S) = SumDebits(R) + SumDebits(S)
  BY SumsAdd
<1>2. SumCredits(R \cup S) = SumCredits(R) + SumCredits(S)
  BY SumsAdd
<1> QED
  BY <1>1, <1>2 DEF EvenRows

LEMMA ReportStarts == ReportInit => ReportInv
<1> SUFFICES ASSUME ReportInit PROVE ReportInv
  OBVIOUS
<1>1. ReportTypes
  BY FS_EmptySet DEF ReportInit, ReportTypes
<1>2. BalancesMatch
  <2> SUFFICES ASSUME NEW key PROVE Balance(key) = Summed(In(rows, key))
    BY DEF BalancesMatch
  <2>1. In(rows, key) = {}
    BY DEF ReportInit, In
  <2>2. Balance(key) = NoTotals
    BY DEF ReportInit, Balance
  <2> QED
    BY <2>1, <2>2, NothingSums DEF NoTotals, Summed
<1>3. DatesAreEven /\ YearsAreEven
  <2>1. \A t \in Int : Until(t) = {}
    BY DEF ReportInit, Until
  <2>2. \A y : OfYear(y) = {}
    BY DEF ReportInit, OfYear
  <2> QED
    BY <2>1, <2>2, NothingSums DEF DatesAreEven, YearsAreEven, EvenRows
<1>4. TrialReads /\ LedgerReads /\ LedgerCountsOnce
  BY DEF ReportInit, NoReport, TrialReads, LedgerReads, LedgerCountsOnce
<1> QED
  BY <1>1, <1>2, <1>3, <1>4 DEF ReportInv

-----------------------------------------------------------------------------
(* A transaction is committed.                                              *)
LEMMA BothRows ==
    ASSUME ReportInv, NEW p \in Postings
    PROVE  /\ Countable(RowsOf(p)) /\ EvenRows(RowsOf(p)) /\ RowsOf(p) # {}
           /\ \A r \in RowsOf(p) :
                 /\ r.posting = p /\ r.created = began[p] /\ r.of[2] = PostingOf[p].year
                 /\ r.of = <<r.of[1], r.of[2]>> /\ r.of[1] \in Ledgers
                 /\ r.debit \in Int /\ r.credit \in Int /\ r.created \in Int
<1>1. PICK d : d = Row(p, "debit")
  OBVIOUS
<1>2. PICK c : c = Row(p, "credit")
  OBVIOUS
<1>3. PostingOf[p].amount \in Nat /\ PostingOf[p].debit \in Ledgers /\ PostingOf[p].credit \in Ledgers
  BY ReportAssumption
<1>4. began[p] \in Int
  BY DEF ReportInv, ReportTypes
<1>5. /\ d.debit = PostingOf[p].amount /\ d.credit = 0 /\ d.posting = p /\ d.created = began[p]
      /\ d.of = <<PostingOf[p].debit, PostingOf[p].year>>
  BY <1>1 DEF Row, CreatedAt
<1>6. /\ c.credit = PostingOf[p].amount /\ c.debit = 0 /\ c.posting = p /\ c.created = began[p]
      /\ c.of = <<PostingOf[p].credit, PostingOf[p].year>>
  BY <1>2 DEF Row, CreatedAt
<1>7. RowsOf(p) = {d, c}
  BY <1>1, <1>2 DEF RowsOf
<1>8. Countable(RowsOf(p)) /\ EvenRows(RowsOf(p))
  <2>1. /\ Countable({d}) /\ SumDebits({d}) = d.debit /\ SumCredits({d}) = d.credit
        /\ Countable({c}) /\ SumDebits({c}) = c.debit /\ SumCredits({c}) = c.credit
    BY <1>3, <1>5, <1>6, OneSums
  <2>2. CASE d = c
    <3>1. RowsOf(p) = {d}
      BY <1>7, <2>2
    <3> QED
      BY <3>1, <2>1, <2>2, <1>5, <1>6 DEF EvenRows
  <2>3. CASE d # c
    <3>1. RowsOf(p) = {d} \cup {c} /\ {d} \cap {c} = {}
      BY <1>7, <2>3
    <3>2. /\ Countable({d} \cup {c})
          /\ SumDebits({d} \cup {c}) = SumDebits({d}) + SumDebits({c})
          /\ SumCredits({d} \cup {c}) = SumCredits({d}) + SumCredits({c})
      BY <3>1, <2>1, SumsAdd
    <3>3. SumDebits({d} \cup {c}) = PostingOf[p].amount + 0
      BY <3>2, <2>1, <1>5, <1>6
    <3>4. SumCredits({d} \cup {c}) = 0 + PostingOf[p].amount
      BY <3>2, <2>1, <1>5, <1>6
    <3>5. EvenRows({d} \cup {c})
      BY <3>3, <3>4, <1>3 DEF EvenRows
    <3> QED
      BY <3>1, <3>2, <3>5
  <2> QED
    BY <2>2, <2>3
<1> QED
  BY <1>3, <1>4, <1>5, <1>6, <1>7, <1>8

LEMMA NewRows ==
    ASSUME ReportInv, NEW p \in Postings, p \in wrote
    PROVE  rows \cap RowsOf(p) = {}
<1>1. \A r \in rows : r.posting # p
  BY DEF ReportInv, ReportTypes, RowIs
<1> QED
  BY <1>1, BothRows

LEMMA PostingKeeps ==
    ASSUME ReportInv, NEW p \in Postings, CommitPosting(p)
    PROVE  ReportInv'
<1>0. p \in wrote /\ rows' = rows \cup RowsOf(p) /\ wrote' = wrote \ {p}
      /\ UNCHANGED <<now, began, asked, report>>
  BY DEF CommitPosting
<1>1. Countable(rows) /\ Countable(RowsOf(p)) /\ rows \cap RowsOf(p) = {}
  BY <1>0, RowsCount, BothRows, NewRows DEF ReportInv
<1>2. ReportTypes'
  <2>1. IsFiniteSet(rows')
    BY <1>0, <1>1, SumsAdd DEF Countable
  <2>2. \A r \in rows' : RowIs(r)'
    BY <1>0, BothRows DEF ReportInv, ReportTypes, RowIs
  <2> QED
    BY <1>0, <2>1, <2>2 DEF ReportInv, ReportTypes
<1>3. BalancesMatch'
  <2> SUFFICES ASSUME NEW key PROVE Balance(key)' = Summed(In(rows', key))
    BY DEF BalancesMatch
  <2>1. PICK mine : mine = In(RowsOf(p), key)
    OBVIOUS
  <2>2. PICK had : had = In(rows, key)
    OBVIOUS
  <2>3. In(rows', key) = had \cup mine /\ had \cap mine = {} /\ mine \subseteq RowsOf(p) /\ had \subseteq rows
    BY <1>0, <1>1, <2>1, <2>2 DEF In
  <2>4. Countable(had) /\ Countable(mine)
    BY <2>3, <1>1, PartIsCountable
  <2>5. Summed(In(rows', key)) = [debit |-> SumDebits(had) + SumDebits(mine),
                                  credit |-> SumCredits(had) + SumCredits(mine)]
    BY <2>3, <2>4, SumsAdd DEF Summed
  <2>6. Balance(key).debit = SumDebits(had) /\ Balance(key).credit = SumCredits(had)
    BY <2>2 DEF ReportInv, BalancesMatch, Summed
  <2>7. CASE key \in DOMAIN totals \cup Touched(p)
    <3>1. Balance(key)' = Upserted(key, mine)
      BY <2>1, <2>7 DEF CommitPosting, Balance
    <3> QED
      BY <3>1, <2>5, <2>6 DEF Upserted
  <2>8. CASE key \notin DOMAIN totals \cup Touched(p)
    <3>1. mine = {}
      BY <2>1, <2>8 DEF In, Touched
    <3>2. Balance(key)' = NoTotals /\ Balance(key) = NoTotals
      BY <2>8 DEF CommitPosting, Balance
    <3>3. SumDebits(had) \in Int /\ SumCredits(had) \in Int
      BY <2>4, SumsAreInt
    <3> QED
      BY <3>1, <3>2, <3>3, <2>5, <2>6, NothingSums DEF NoTotals
  <2> QED
    BY <2>7, <2>8
<1>4. DatesAreEven'
  <2> SUFFICES ASSUME NEW t \in Int PROVE EvenRows(Until(t))'
    BY DEF DatesAreEven
  <2>1. PICK had : had = Until(t)
    OBVIOUS
  <2>2. EvenRows(had) /\ had \subseteq rows /\ Countable(had)
    BY <1>1, <2>1, PartIsCountable DEF ReportInv, DatesAreEven, Until
  <2>3. CASE began[p] <= t
    <3>1. Until(t)' = had \cup RowsOf(p) /\ had \cap RowsOf(p) = {}
      BY <1>0, <1>1, <2>1, <2>3, BothRows DEF Until
    <3>2. EvenRows(RowsOf(p))
      BY BothRows
    <3>3. EvenRows(had \cup RowsOf(p))
      BY <3>1, <3>2, <2>2, <1>1, EvenTogether
    <3> QED
      BY <3>1, <3>3 DEF EvenRows
  <2>4. CASE ~(began[p] <= t)
    <3>1. Until(t)' = had
      BY <1>0, <1>1, <2>1, <2>4, BothRows DEF Until
    <3> QED
      BY <3>1, <2>2 DEF EvenRows
  <2> QED
    BY <2>3, <2>4
<1>5. YearsAreEven'
  <2> SUFFICES ASSUME NEW y PROVE EvenRows(OfYear(y))'
    BY DEF YearsAreEven
  <2>1. PICK had : had = OfYear(y)
    OBVIOUS
  <2>2. EvenRows(had) /\ had \subseteq rows /\ Countable(had)
    BY <1>1, <2>1, PartIsCountable DEF ReportInv, YearsAreEven, OfYear
  <2>3. CASE PostingOf[p].year = y
    <3>1. OfYear(y)' = had \cup RowsOf(p) /\ had \cap RowsOf(p) = {}
      BY <1>0, <1>1, <2>1, <2>3, BothRows DEF OfYear
    <3>2. EvenRows(RowsOf(p))
      BY BothRows
    <3>3. EvenRows(had \cup RowsOf(p))
      BY <3>1, <3>2, <2>2, <1>1, EvenTogether
    <3> QED
      BY <3>1, <3>3 DEF EvenRows
  <2>4. CASE PostingOf[p].year # y
    <3>1. OfYear(y)' = had
      BY <1>0, <1>1, <2>1, <2>4, BothRows DEF OfYear
    <3> QED
      BY <3>1, <2>2 DEF EvenRows
  <2> QED
    BY <2>3, <2>4
<1>6. TrialReads'
  <2> SUFFICES ASSUME report.kind = "trial" PROVE TrialReads'
    BY <1>0 DEF TrialReads
  <2>1. rows' # report.before
    BY <1>0, <1>1, BothRows DEF ReportInv, TrialReads
  <2> QED
    BY <1>0, <2>1 DEF ReportInv, TrialReads
<1>7. LedgerReads' /\ LedgerCountsOnce'
  BY <1>0 DEF ReportInv, LedgerReads, LedgerCountsOnce
<1> QED
  BY <1>2, <1>3, <1>4, <1>5, <1>6, <1>7 DEF ReportInv

-----------------------------------------------------------------------------
(* A rebuild inserts the sums of the journal.                               *)
LEMMA RebuildKeeps ==
    ASSUME ReportInv, InsertBalances
    PROVE  ReportInv'
<1>0. /\ UNCHANGED <<now, postingVars, asked, report>>
      /\ totals' = [key \in {r.of : r \in rows} |-> Summed(In(rows, key))]
  BY DEF InsertBalances
<1>1. BalancesMatch'
  <2> SUFFICES ASSUME NEW key PROVE Balance(key)' = Summed(In(rows, key))
    BY <1>0 DEF BalancesMatch, postingVars
  <2>1. CASE key \in {r.of : r \in rows}
    BY <1>0, <2>1 DEF Balance
  <2>2. CASE key \notin {r.of : r \in rows}
    <3>1. In(rows, key) = {}
      BY <2>2 DEF In
    <3>2. Balance(key)' = NoTotals
      BY <1>0, <2>2 DEF Balance
    <3> QED
      BY <3>1, <3>2, NothingSums DEF NoTotals, Summed
  <2> QED
    BY <2>1, <2>2
<1>2. ReportTypes' /\ DatesAreEven' /\ YearsAreEven'
  BY <1>0 DEF ReportInv, ReportTypes, RowIs, DatesAreEven, YearsAreEven, EvenRows, Until, OfYear, postingVars
<1>3. TrialReads' /\ LedgerReads' /\ LedgerCountsOnce'
  BY <1>0 DEF ReportInv, TrialReads, ReadRows, InTrial, LedgerReads, LedgerCountsOnce, postingVars
<1> QED
  BY <1>1, <1>2, <1>3 DEF ReportInv

(* Nothing that was committed and no report changes.                        *)
LEMMA NothingRead ==
    ASSUME ReportInv, ReportTypes', UNCHANGED <<rows, totals, asked, report>>
    PROVE  ReportInv'
<1>1. BalancesMatch' /\ DatesAreEven' /\ YearsAreEven'
  BY DEF ReportInv, BalancesMatch, Balance, DatesAreEven, YearsAreEven, EvenRows, Until, OfYear
<1>2. TrialReads' /\ LedgerReads' /\ LedgerCountsOnce'
  BY DEF ReportInv, TrialReads, ReadRows, InTrial, LedgerReads, LedgerCountsOnce
<1> QED
  BY <1>1, <1>2 DEF ReportInv

-----------------------------------------------------------------------------
(* A trial balance.                                                         *)
LEMMA LeastIsThere ==
    ASSUME NEW S \in SUBSET Nat, S # {}
    PROVE  Min(S) \in S /\ \A y \in S : Min(S) <= y
  BY SomeIsLeast DEF Min

LEMMA TrialAsked ==
    ASSUME ReportInv, AskTrial
    PROVE  ReportInv'
<1>0. /\ UNCHANGED <<now, postingVars, totals, asked, rebuild>> /\ asked.kind = "trial"
      /\ report' = [kind |-> "trial", before |-> rows, left |-> Ledgers, lines |-> {},
                    current |-> isCurrentDate(asked.day), done |-> Ledgers = {}]
  BY DEF AskTrial
<1>1. ReportTypes' /\ BalancesMatch' /\ DatesAreEven' /\ YearsAreEven'
  BY <1>0 DEF ReportInv, ReportTypes, RowIs, BalancesMatch, Balance, DatesAreEven, YearsAreEven, EvenRows,
              Until, OfYear, postingVars
<1>2. LedgerReads' /\ LedgerCountsOnce'
  BY <1>0 DEF LedgerReads, LedgerCountsOnce
<1>3. TrialReads'
  <2>1. /\ report'.kind = "trial" /\ report'.before = rows /\ report'.left = Ledgers
        /\ report'.lines = {} /\ report'.done = (Ledgers = {})
        /\ report'.current = isCurrentDate(asked.day) /\ report'.current \in BOOLEAN
    BY <1>0 DEF isCurrentDate
  <2>2. report' = [kind |-> "trial", before |-> report'.before, left |-> report'.left,
                   lines |-> report'.lines, current |-> report'.current, done |-> report'.done]
    BY <1>0, <2>1
  <2>3. Countable({})
    BY FS_EmptySet DEF Countable
  <2>4. ReadRows' = {}
    BY <1>0, <2>1 DEF ReadRows, ReportInv, ReportTypes, RowIs, postingVars
  <2> QED
    BY <1>0, <2>1, <2>2, <2>3, <2>4 DEF TrialReads, postingVars
<1> QED
  BY <1>1, <1>2, <1>3 DEF ReportInv

(* The balance of a leaf is the sum of its rows.                            *)
LEMMA LeafReads ==
    ASSUME ReportInv, report.kind = "trial", NEW a \in Ledgers
    PROVE  getAccountSnapshot(a, report.current) = Summed({r \in rows : r.of[1] = a /\ InTrial(r)})
<1>1. asked.kind = "trial" /\ report.current \in BOOLEAN
  BY DEF ReportInv, TrialReads
<1>2. CASE report.current
  <2>1. \A r \in rows : r.of = <<r.of[1], r.of[2]>>
    BY DEF ReportInv, ReportTypes, RowIs
  <2>2. {r \in rows : r.of[1] = a /\ InTrial(r)} = In(rows, <<a, asked.year>>)
    BY <1>2, <2>1 DEF InTrial, In
  <2>3. Balance(<<a, asked.year>>) = Summed(In(rows, <<a, asked.year>>))
    BY DEF ReportInv, BalancesMatch
  <2> QED
    BY <1>2, <2>2, <2>3 DEF getAccountSnapshot, getBalance
<1>3. CASE ~report.current
  <2>1. {r \in rows : r.of[1] = a /\ InTrial(r)} = RowsUpTo(a, Midnight(asked.day))
    BY <1>3 DEF InTrial, RowsUpTo, RowsOn
  <2> QED
    BY <1>3, <2>1 DEF getAccountSnapshot, getBalanceAsOf
<1> QED
  BY <1>1, <1>2, <1>3

LEMMA LeafKeeps ==
    ASSUME ReportInv, ReadLeaf
    PROVE  ReportInv'
<1>0. UNCHANGED <<now, postingVars, totals, asked, rebuild>> /\ report.kind = "trial" /\ ~report.done
  BY DEF ReadLeaf
<1>1. PICK a : a = Min(report.left)
  OBVIOUS
<1>2. a \in report.left /\ a \in Ledgers
  BY <1>0, <1>1, LeastIsThere, ReportAssumption DEF ReportInv, TrialReads
<1>3. PICK mine : mine = {r \in rows : r.of[1] = a /\ InTrial(r)}
  OBVIOUS
<1>4. PICK line : line = TrialLine(a, Summed(mine))
  OBVIOUS
<1>5. /\ report'.kind = "trial" /\ report'.before = report.before /\ report'.left = report.left \ {a}
      /\ report'.lines = report.lines \cup {line} /\ report'.current = report.current
      /\ report'.done = (report.left = {a})
      /\ report' = [kind |-> "trial", before |-> report'.before, left |-> report'.left,
                   lines |-> report'.lines, current |-> report'.current, done |-> report'.done]
  <2>1. getAccountSnapshot(a, report.current) = Summed(mine)
    BY <1>0, <1>2, <1>3, LeafReads
  <2>2. report' = [report EXCEPT !.left = report.left \ {a}, !.lines = report.lines \cup {line},
                                 !.done = report.left = {a}]
    BY <1>1, <1>4, <2>1 DEF ReadLeaf
  <2> QED
    BY <1>0, <2>2 DEF ReportInv, TrialReads
<1>6. ReportTypes' /\ BalancesMatch' /\ DatesAreEven' /\ YearsAreEven'
  BY <1>0 DEF ReportInv, ReportTypes, RowIs, BalancesMatch, Balance, DatesAreEven, YearsAreEven, EvenRows,
              Until, OfYear, postingVars
<1>7. LedgerReads' /\ LedgerCountsOnce'
  BY <1>5 DEF LedgerReads, LedgerCountsOnce
<1>8. TrialReads'
  <2>1. Countable(mine) /\ mine \subseteq rows
    BY <1>3, RowsCount DEF ReportInv
  <2>2. /\ line.account = a /\ line.debit = SumDebits(mine) /\ line.credit = SumCredits(mine)
        /\ line.debit \in Int /\ line.credit \in Int
    BY <1>4, <2>1, SumsAreInt DEF TrialLine, Summed
  <2>3. /\ Countable({line}) /\ SumDebits({line}) = SumDebits(mine) /\ SumCredits({line}) = SumCredits(mine)
    BY <2>2, OneSums
  <2>4. Countable(report.lines) /\ report.lines \cap {line} = {}
    BY <1>0, <1>2, <2>2 DEF ReportInv, TrialReads
  <2>5. /\ Countable(report'.lines)
        /\ SumDebits(report'.lines) = SumDebits(report.lines) + SumDebits(mine)
        /\ SumCredits(report'.lines) = SumCredits(report.lines) + SumCredits(mine)
    BY <1>5, <2>3, <2>4, SumsAdd
  <2>6. PICK had : had = ReadRows
    OBVIOUS
  <2>7. had \subseteq rows /\ Countable(had) /\ had \cap mine = {}
    BY <1>2, <1>3, <2>6, RowsCount DEF ReadRows, ReportInv
  <2>8. ReadRows' = had \cup mine
    BY <1>0, <1>2, <1>3, <1>5, <2>6 DEF ReadRows, InTrial, postingVars
  <2>9. /\ SumDebits(ReadRows') = SumDebits(had) + SumDebits(mine)
        /\ SumCredits(ReadRows') = SumCredits(had) + SumCredits(mine)
    BY <2>1, <2>7, <2>8, SumsAdd
  <2>10. rows' = report'.before =>
            /\ SumDebits(report.lines) = SumDebits(had) /\ SumCredits(report.lines) = SumCredits(had)
    BY <1>0, <1>5, <2>6 DEF ReportInv, TrialReads, postingVars
  <2>11. \A l \in report'.lines : l.account \notin report'.left
    BY <1>0, <1>5, <2>2 DEF ReportInv, TrialReads
  <2>12. report'.done = (report'.left = {}) /\ report'.left \subseteq Ledgers
    BY <1>0, <1>2, <1>5 DEF ReportInv, TrialReads
  <2>13. asked'.kind = "trial" /\ report'.before \subseteq rows' /\ report'.current \in BOOLEAN
    BY <1>0, <1>5 DEF ReportInv, TrialReads, postingVars
  <2>14. rows' = report'.before =>
            /\ SumDebits(report'.lines) = SumDebits(ReadRows') /\ SumCredits(report'.lines) = SumCredits(ReadRows')
    BY <2>5, <2>9, <2>10
  <2> QED
    BY <1>5, <2>5, <2>11, <2>12, <2>13, <2>14 DEF TrialReads
<1> QED
  BY <1>6, <1>7, <1>8 DEF ReportInv

-----------------------------------------------------------------------------
(* A ledger.                                                                *)
LEMMA LedgerOpened ==
    ASSUME ReportInv, OpenLedger
    PROVE  ReportInv'
<1>0. /\ UNCHANGED <<now, postingVars, totals, asked, rebuild>> /\ asked.kind = "ledger"
      /\ report' = [kind |-> "ledger", before |-> rows, opening |-> Net(Opened(asked)), done |-> FALSE]
  BY DEF OpenLedger
<1>1. ReportTypes' /\ BalancesMatch' /\ DatesAreEven' /\ YearsAreEven'
  BY <1>0 DEF ReportInv, ReportTypes, RowIs, BalancesMatch, Balance, DatesAreEven, YearsAreEven, EvenRows,
              Until, OfYear, postingVars
<1>2. TrialReads' /\ LedgerCountsOnce'
  BY <1>0 DEF TrialReads, LedgerCountsOnce
<1>3. Opened(asked) = {r \in rows : r.of[1] = asked.account /\ r.created < Midnight(asked.from)}
  BY DEF Opened, RowsOn
<1>4. LedgerReads'
  BY <1>0, <1>3 DEF LedgerReads, postingVars
<1> QED
  BY <1>1, <1>2, <1>4 DEF ReportInv

LEMMA EntriesListed ==
    ASSUME ReportInv, ListEntries
    PROVE  ReportInv'
<1>0. /\ UNCHANGED <<now, postingVars, totals, asked, rebuild>> /\ report.kind = "ledger"
      /\ report' = [kind |-> "ledger", before |-> report.before, opening |-> report.opening,
                    closing |-> report.opening + Net(Listed(asked)), after |-> rows, done |-> TRUE]
  BY DEF ListEntries
<1>1. ReportTypes' /\ BalancesMatch' /\ DatesAreEven' /\ YearsAreEven'
  BY <1>0 DEF ReportInv, ReportTypes, RowIs, BalancesMatch, Balance, DatesAreEven, YearsAreEven, EvenRows,
              Until, OfYear, postingVars
<1>2. asked.kind = "ledger" /\ asked.from \in Int /\ asked.to \in Int /\ report.before \subseteq rows
  BY <1>0, ReportAssumption DEF ReportInv, ReportTypes, LedgerReads
<1>3. TrialReads' /\ LedgerReads'
  BY <1>0 DEF ReportInv, TrialReads, LedgerReads, postingVars
<1>4. LedgerCountsOnce'
  <2> SUFFICES ASSUME asked.from <= asked.to
               PROVE  report'.closing = Net({r \in rows :
                          /\ r.of[1] = asked.account /\ r.created <= LastSecond(asked.to)
                          /\ r \in report.before \/ r.created >= Midnight(asked.from)})
    BY <1>0 DEF LedgerCountsOnce
  <2>1. PICK early : early = {r \in report.before : r.of[1] = asked.account /\ r.created < Midnight(asked.from)}
    OBVIOUS
  <2>2. PICK late : late = Listed(asked)
    OBVIOUS
  <2>3. PICK all : all = {r \in rows : /\ r.of[1] = asked.account /\ r.created <= LastSecond(asked.to)
                                       /\ r \in report.before \/ r.created >= Midnight(asked.from)}
    OBVIOUS
  <2>4. Midnight(asked.from) \in Int /\ LastSecond(asked.to) \in Int /\ Midnight(asked.from) < LastSecond(asked.to)
    <3>1. asked.from * Day <= asked.to * Day /\ asked.from * Day \in Int /\ asked.to * Day \in Int
      <4>1. PICK n : n = asked.to - asked.from
        OBVIOUS
      <4>2. n \in Nat /\ asked.to = asked.from + n /\ Day \in Nat
        BY <1>2, <4>1, ReportAssumption
      <4>3. n * Day \in Nat
        BY <4>2
      <4>4. asked.to * Day = asked.from * Day + n * Day
        BY <1>2, <4>2
      <4> QED
        BY <1>2, <4>2, <4>3, <4>4
    <3> QED
      BY <3>1, ReportAssumption DEF Midnight, LastSecond
  <2>5. \A r \in rows : r.created \in Int
    BY DEF ReportInv, ReportTypes, RowIs
  <2>6. late = {r \in rows : /\ r.of[1] = asked.account /\ r.created >= Midnight(asked.from)
                             /\ r.created <= LastSecond(asked.to)}
    BY <2>2 DEF Listed, RowsOn
  <2>7. all = early \cup late /\ early \cap late = {}
    BY <1>2, <2>1, <2>3, <2>4, <2>5, <2>6
  <2>8. Countable(early) /\ Countable(late)
    BY <1>2, <2>1, <2>6, RowsCount DEF ReportInv
  <2>9. /\ SumDebits(all) = SumDebits(early) + SumDebits(late)
        /\ SumCredits(all) = SumCredits(early) + SumCredits(late)
    BY <2>7, <2>8, SumsAdd
  <2>10. /\ SumDebits(early) \in Int /\ SumDebits(late) \in Int
         /\ SumCredits(early) \in Int /\ SumCredits(late) \in Int
    BY <2>8, SumsAreInt
  <2>11. report.opening = Net(early)
    BY <1>0, <2>1 DEF ReportInv, LedgerReads
  <2>12. report'.closing = Net(early) + Net(late)
    BY <1>0, <2>2, <2>11
  <2> QED
    BY <2>3, <2>9, <2>10, <2>12 DEF Net
<1> QED
  BY <1>1, <1>3, <1>4 DEF ReportInv

-----------------------------------------------------------------------------
LEMMA ReportStepKeeps == ASSUME ReportInv, ReportNext PROVE ReportInv'
<1>1. CASE Passes
  <2>1. ReportTypes'
    BY <1>1 DEF Passes, postingVars, ReportInv, ReportTypes, RowIs
  <2> QED
    BY <1>1, <2>1, NothingRead DEF Passes, postingVars
<1>2. CASE BeginRebuild \/ DeleteBalances \/ RebuildFails
  <2>1. ReportTypes'
    BY <1>2 DEF BeginRebuild, DeleteBalances, RebuildFails, postingVars, ReportInv, ReportTypes, RowIs
  <2> QED
    BY <1>2, <2>1, NothingRead DEF BeginRebuild, DeleteBalances, RebuildFails, postingVars
<1>3. ASSUME NEW p \in Postings, BeginPosting(p) PROVE ReportInv'
  <2>1. ReportTypes'
    BY <1>3 DEF BeginPosting, ReportInv, ReportTypes, RowIs
  <2> QED
    BY <1>3, <2>1, NothingRead DEF BeginPosting
<1>4. ASSUME NEW p \in Postings, WritePosting(p) PROVE ReportInv'
  <2>1. ReportTypes'
    BY <1>4 DEF WritePosting, ReportInv, ReportTypes, RowIs
  <2> QED
    BY <1>4, <2>1, NothingRead DEF WritePosting
<1> QED
  BY <1>1, <1>2, <1>3, <1>4, PostingKeeps, RebuildKeeps, TrialAsked, LeafKeeps, LedgerOpened, EntriesListed
     DEF ReportNext

LEMMA ReportInvIsKept == ReportSpec => []ReportInv
<1>1. ReportInv /\ UNCHANGED reportVars => ReportInv'
  <2> SUFFICES ASSUME ReportInv, UNCHANGED reportVars PROVE ReportInv'
    OBVIOUS
  <2>1. ReportTypes'
    BY DEF reportVars, postingVars, ReportInv, ReportTypes, RowIs
  <2> QED
    BY <2>1, NothingRead DEF reportVars, postingVars
<1> QED
  BY <1>1, ReportStarts, ReportStepKeeps, PTL DEF ReportSpec

LEMMA ReportInvAddsUp == ReportInv => ReportsAddUp
<1> SUFFICES ASSUME ReportInv PROVE ReportsAddUp
  OBVIOUS
<1>1. TrialBalances
  <2> SUFFICES ASSUME report.kind = "trial", report.done, rows = report.before
               PROVE  SumDebits(report.lines) = SumCredits(report.lines)
    BY DEF TrialBalances
  <2>1. /\ asked.kind = "trial" /\ report.left = {}
        /\ SumDebits(report.lines) = SumDebits(ReadRows)
        /\ SumCredits(report.lines) = SumCredits(ReadRows)
    BY DEF ReportInv, TrialReads
  <2>2. EvenRows(ReadRows)
    <3>1. CASE report.current
      <4>1. ReadRows = OfYear(asked.year)
        BY <2>1, <3>1 DEF ReadRows, InTrial, OfYear
      <4>2. EvenRows(OfYear(asked.year))
        BY DEF ReportInv, YearsAreEven
      <4> QED
        BY <4>1, <4>2
    <3>2. CASE ~report.current
      <4>1. ReadRows = Until(Midnight(asked.day))
        BY <2>1, <3>2 DEF ReadRows, InTrial, Until
      <4>2. Midnight(asked.day) \in Int
        BY <2>1, ReportAssumption DEF ReportInv, ReportTypes, Midnight
      <4>3. EvenRows(Until(Midnight(asked.day)))
        BY <4>2 DEF ReportInv, DatesAreEven
      <4> QED
        BY <4>1, <4>3
    <3> QED
      BY <3>1, <3>2
  <2> QED
    BY <2>1, <2>2 DEF EvenRows
<1>2. LedgerCountsOnce
  BY DEF ReportInv
<1>3. SnapshotMatchesJournal
  BY DEF ReportInv, BalancesMatch, SnapshotMatchesJournal, getBalance
<1> QED
  BY <1>1, <1>2, <1>3 DEF ReportsAddUp

(* ReportsAddUp, in every state.                                            *)
THEOREM ReportsAgree == ReportSpec => []ReportsAddUp
  BY ReportInvIsKept, ReportInvAddsUp, PTL

-----------------------------------------------------------------------------
(* Sums of an account over the rows of a year, and of the lines of an entry.*)
Dated(book, n) == /\ book[n].day \in Int
                  /\ \A a \in DOMAIN book[n].lines : book[n].lines[a] \in Int

LEMMA YearTotalIs ==
    ASSUME NEW book, NEW upto \in Nat, NEW a, \A n \in 1 .. upto : Dated(book, n)
    PROVE  /\ IsFiniteSet(YearRows(book, upto))
           /\ Weighs([n \in YearRows(book, upto) |-> LineOf(book[n].lines, a)], YearRows(book, upto))
           /\ YearTotal(book, upto, a)
                = SumFunctionOnSet([n \in YearRows(book, upto) |-> LineOf(book[n].lines, a)], YearRows(book, upto))
<1>0. PICK S : S = YearRows(book, upto)
  OBVIOUS
<1>a. IsFiniteSet(S) /\ S \subseteq 1 .. upto
  <2>1. IsFiniteSet(1 .. upto)
    BY FS_Interval
  <2>2. S \subseteq 1 .. upto
    BY <1>0 DEF YearRows
  <2> QED
    BY <2>1, <2>2, FS_Subset
<1>1. PICK w : w = [n \in S |-> LineOf(book[n].lines, a)]
  OBVIOUS
<1>2. Weighs(w, S)
  BY <1>1, <1>a DEF Weighs, LineOf, Dated
<1>3. PICK h : Unrolls(h, S, w) /\ SumFunctionOnSet(w, S) = h[S]
  BY <1>2, SumUnrolls
<1>4. PICK g : g = CHOOSE f : f = [s \in SUBSET S |->
                     IF s = {} THEN 0 ELSE LineOf(book[AnyOf(s)].lines, a) + f[s \ {AnyOf(s)}]]
  OBVIOUS
<1>5. YearTotal(book, upto, a) = g[S]
  BY <1>0, <1>4 DEF YearTotal, MapThenSumSet, MapThenFoldSet, AnyOf
<1>6. \A s \in SUBSET S : s # {} => w[AnyOf(s)] = LineOf(book[AnyOf(s)].lines, a)
  BY <1>1, AnyOfIsIn
<1>7. h = [s \in SUBSET S |-> IF s = {} THEN 0 ELSE LineOf(book[AnyOf(s)].lines, a) + h[s \ {AnyOf(s)}]]
  BY <1>3, <1>6 DEF Unrolls
<1>8. g = [s \in SUBSET S |-> IF s = {} THEN 0 ELSE LineOf(book[AnyOf(s)].lines, a) + g[s \ {AnyOf(s)}]]
  BY <1>4, <1>7, Zenon
<1>9. Unrolls(g, S, w)
  BY <1>6, <1>8 DEF Unrolls
<1> QED
  BY <1>0, <1>a, <1>1, <1>2, <1>3, <1>5, <1>9, SameValues

LEMMA YearTotalIsInt ==
    ASSUME NEW book, NEW upto \in Nat, NEW a, \A n \in 1 .. upto : Dated(book, n)
    PROVE  YearTotal(book, upto, a) \in Int
  BY YearTotalIs, SumIsInt

(* What comes later in the book does not change a total.                    *)
LEMMA YearTotalStays ==
    ASSUME NEW book, NEW longer, NEW upto \in Nat, NEW a, \A n \in 1 .. upto : Dated(book, n),
           \A n \in 1 .. upto : longer[n] = book[n]
    PROVE  YearTotal(longer, upto, a) = YearTotal(book, upto, a)
<1>1. YearRows(longer, upto) = YearRows(book, upto)
  BY DEF YearRows
<1>2. \A n \in 1 .. upto : Dated(longer, n)
  BY DEF Dated
<1>3. [n \in YearRows(longer, upto) |-> LineOf(longer[n].lines, a)]
        = [n \in YearRows(book, upto) |-> LineOf(book[n].lines, a)]
  BY <1>1 DEF YearRows
<1>4. YearTotal(longer, upto, a)
        = SumFunctionOnSet([n \in YearRows(longer, upto) |-> LineOf(longer[n].lines, a)], YearRows(longer, upto))
  BY <1>2, YearTotalIs
<1>5. YearTotal(book, upto, a)
        = SumFunctionOnSet([n \in YearRows(book, upto) |-> LineOf(book[n].lines, a)], YearRows(book, upto))
  BY YearTotalIs
<1> QED
  BY <1>1, <1>3, <1>4, <1>5

(* An entry dated in the year adds its line to the total.                   *)
LEMMA YearTotalGrows ==
    ASSUME NEW book, NEW k \in Nat, NEW a, \A n \in 1 .. k + 1 : Dated(book, n), InYear(book[k + 1].day)
    PROVE  YearTotal(book, k + 1, a) = YearTotal(book, k, a) + LineOf(book[k + 1].lines, a)
<1>0. \A n \in 1 .. k : Dated(book, n)
  OBVIOUS
<1>1. PICK S : S = YearRows(book, k)
  OBVIOUS
<1>2. YearRows(book, k + 1) = S \cup {k + 1} /\ k + 1 \notin S
  BY <1>1 DEF YearRows
<1>3. PICK w : w = [n \in S \cup {k + 1} |-> LineOf(book[n].lines, a)]
  OBVIOUS
<1>4. PICK v : v = [n \in S |-> LineOf(book[n].lines, a)]
  OBVIOUS
<1>5. Weighs(v, S) /\ YearTotal(book, k, a) = SumFunctionOnSet(v, S)
  BY <1>0, <1>1, <1>4, YearTotalIs
<1>6. \A n \in S : w[n] = v[n]
  BY <1>3, <1>4
<1>7. Weighs(w, S) /\ SumFunctionOnSet(w, S) = SumFunctionOnSet(v, S)
  BY <1>5, <1>6, SumIsSame DEF Weighs
<1>8. w[k + 1] = LineOf(book[k + 1].lines, a) /\ w[k + 1] \in Int
  BY <1>3 DEF LineOf, Dated
<1>9. SumFunctionOnSet(w, S \cup {k + 1}) = SumFunctionOnSet(w, S) + w[k + 1]
  BY <1>2, <1>7, <1>8, SumOfMore
<1>10. k + 1 \in Nat
  OBVIOUS
<1>11. YearTotal(book, k + 1, a) = SumFunctionOnSet(w, S \cup {k + 1})
  BY <1>2, <1>3, <1>10, YearTotalIs
<1> QED
  BY <1>5, <1>7, <1>8, <1>9, <1>11

Lined(lines) == IsFiniteSet(DOMAIN lines) /\ \A a \in DOMAIN lines : lines[a] \in Int

LEMMA LinesAre ==
    ASSUME NEW lines, Lined(lines)
    PROVE  /\ Weighs(lines, DOMAIN lines)
           /\ SumLines(lines) = SumFunctionOnSet(lines, DOMAIN lines)
<1>0. PICK S : S = DOMAIN lines
  OBVIOUS
<1>1. Weighs(lines, S)
  BY <1>0 DEF Weighs, Lined
<1>2. PICK h : Unrolls(h, S, lines) /\ SumFunctionOnSet(lines, S) = h[S]
  BY <1>1, SumUnrolls
<1>3. PICK g : g = CHOOSE f : f = [s \in SUBSET S |->
                     IF s = {} THEN 0 ELSE lines[AnyOf(s)] + f[s \ {AnyOf(s)}]]
  OBVIOUS
<1>4. SumLines(lines) = g[S]
  BY <1>0, <1>3 DEF SumLines, MapThenSumSet, MapThenFoldSet, AnyOf
<1>5. h = [s \in SUBSET S |-> IF s = {} THEN 0 ELSE lines[AnyOf(s)] + h[s \ {AnyOf(s)}]]
  BY <1>2 DEF Unrolls
<1>6. g = [s \in SUBSET S |-> IF s = {} THEN 0 ELSE lines[AnyOf(s)] + g[s \ {AnyOf(s)}]]
  BY <1>3, <1>5, Zenon
<1>7. Unrolls(g, S, lines)
  BY <1>6 DEF Unrolls
<1> QED
  BY <1>0, <1>1, <1>2, <1>4, <1>7, SameValues

(* One line taken out of an entry.                                          *)
LEMMA LinesBut ==
    ASSUME NEW lines, Lined(lines), NEW x \in DOMAIN lines
    PROVE  SumLines(lines) = SumLines([a \in DOMAIN lines \ {x} |-> lines[a]]) + lines[x]
<1>1. PICK S : S = DOMAIN lines \ {x}
  OBVIOUS
<1>2. PICK v : v = [a \in S |-> lines[a]]
  OBVIOUS
<1>3. IsFiniteSet(S) /\ DOMAIN v = S
  BY <1>1, <1>2, FS_Subset DEF Lined
<1>4. Lined(v)
  BY <1>1, <1>2, <1>3 DEF Lined
<1>5. Weighs(v, S) /\ SumLines(v) = SumFunctionOnSet(v, S)
  BY <1>3, <1>4, LinesAre
<1>6. Weighs(lines, S)
  BY <1>1, <1>3 DEF Weighs, Lined
<1>7. SumFunctionOnSet(lines, S) = SumFunctionOnSet(v, S)
  <2>1. \A a \in S : lines[a] = v[a]
    BY <1>2
  <2> QED
    BY <1>6, <2>1, SumIsSame
<1>8. S \cup {x} = DOMAIN lines /\ x \notin S /\ lines[x] \in Int
  BY <1>1 DEF Lined
<1>9. SumFunctionOnSet(lines, S \cup {x}) = SumFunctionOnSet(lines, S) + lines[x]
  BY <1>6, <1>8, SumOfMore
<1> QED
  BY <1>1, <1>2, <1>5, <1>7, <1>8, <1>9, LinesAre

-----------------------------------------------------------------------------
(* The closing of a year                                                    *)
IsSequence(s) == s \in Seq({s[i] : i \in DOMAIN s})
EndTypes ==
    /\ endAsked \in EndSettings
    /\ endStep = [c \in EndCall |-> endStep[c]] /\ endSeen = [c \in EndCall |-> endSeen[c]]
    /\ IsSequence(yearBook) /\ \A n \in 1 .. Len(yearBook) : Dated(yearBook, n)

(* The year is locked, or was opened again, once a closing is on record.    *)
LockFollows == closings # {} => yearLock \in {"locked", "open"}

(* There is one record, and it names the one closing in the book.           *)
OneRecord ==
    /\ \A r \in closings : closings = {r} /\ r.txn \in 0 .. Len(yearBook)
    /\ ClosingTxns = {r.txn : r \in closings} \ {0}

(* A posting that is written found the year open.                           *)
WrittenInTime == \A c \in EndCall : EndIs(c, "post", "written") /\ InYear(endAsked[c].day)
                                        => ~endSeen[c].closed \/ endSeen[c].reopened

(* What a closer has in hand: while nothing is committed since it began to  *)
(* sum, its lines undo the totals of the accounts it has come to; and what  *)
(* goes to retained earnings is the profit it summed, whatever is committed.*)
Undoes(lines, accounts, book) == \A a \in accounts : LineOf(lines, a) = -YearTotal(book, Len(book), a)
Retains(s) == IF "retained" \in DOMAIN s.lines THEN s.lines["retained"] = s.revenue - s.expenses
                                               ELSE s.revenue = s.expenses
Sees(s, at, book) ==
    /\ at \in {"expenses", "closeIncome", "closeExpense", "insert", "lock", "commit"} =>
          /\ s = [from |-> s.from, revenue |-> s.revenue, expenses |-> s.expenses, lines |-> s.lines]
          /\ s.from \in 0 .. Len(book) /\ s.revenue \in Int /\ s.expenses \in Int
    /\ at = "closeExpense" =>
          /\ DOMAIN s.lines \subseteq Income /\ Lined(s.lines)
          /\ s.from = Len(book) => Undoes(s.lines, Income, book)
    /\ at \in {"insert", "lock", "commit"} =>
          /\ Lined(s.lines) /\ Retains(s)
          /\ s.from = Len(book) => Undoes(s.lines, Income \cup Expense, book)
ClosersSee == \A c \in EndCall : c \in DOMAIN endAsked /\ endAsked[c].kind = "close"
                                     => Sees(endSeen[c], endStep[c], yearBook)

EndInv ==
    /\ EndTypes /\ LockFollows /\ OneRecord /\ WrittenInTime /\ ClosersSee
    /\ ClosedAccountsAreZero /\ RetainsTheProfit /\ ClosedYearGainsNothingNew

LEMMA Appended ==
    ASSUME NEW s, IsSequence(s), NEW e
    PROVE  /\ Len(s) \in Nat /\ DOMAIN s = 1 .. Len(s)
           /\ IsSequence(Append(s, e)) /\ DOMAIN Append(s, e) = DOMAIN s \cup {Len(s) + 1}
           /\ Append(s, e)[Len(s) + 1] = e /\ \A i \in DOMAIN s : Append(s, e)[i] = s[i]
<1> DEFINE S == {s[i] : i \in DOMAIN s} \cup {e}
           t == Append(s, e)
<1>1. s \in Seq({s[i] : i \in DOMAIN s})
  BY DEF IsSequence
<1>2. s \in Seq(S) /\ e \in S /\ Len(s) \in Nat /\ DOMAIN s = 1 .. Len(s)
  BY <1>1
<1> HIDE DEF S
<1>3. t \in Seq(S) /\ Len(t) = Len(s) + 1 /\ t[Len(s) + 1] = e /\ \A i \in DOMAIN s : t[i] = s[i]
  BY <1>2
<1> HIDE DEF t
<1>4. DOMAIN t = 1 .. Len(t) /\ Len(t) \in Nat
  BY <1>3
<1>5. DOMAIN t = DOMAIN s \cup {Len(s) + 1}
  BY <1>2, <1>3, <1>4
<1>6. t \in Seq({t[i] : i \in DOMAIN t})
  BY <1>3, <1>4
<1> QED
  BY <1>2, <1>3, <1>5, <1>6 DEF IsSequence, t

LEMMA EndStarts == EndInit => EndInv
<1> SUFFICES ASSUME EndInit PROVE EndInv
  OBVIOUS
<1>1. yearBook = <<>> /\ closings = {} /\ Len(yearBook) = 0 /\ DOMAIN yearBook = {} /\ 1 .. 0 = {}
  BY DEF EndInit
<1>2. IsSequence(yearBook)
  BY <1>1 DEF IsSequence
<1>3. EndTypes
  BY <1>1, <1>2 DEF EndInit, EndTypes
<1>4. ClosingTxns = {} /\ {r.txn : r \in closings} = {}
  BY <1>1 DEF ClosingTxns
<1>5. WrittenInTime /\ ClosersSee
  BY DEF EndInit, WrittenInTime, ClosersSee, EndIs, Sees
<1> QED
  BY <1>1, <1>3, <1>4, <1>5
     DEF EndInv, LockFollows, OneRecord, ClosedAccountsAreZero, RetainsTheProfit, ClosedYearGainsNothingNew

LEMMA Turned ==
    ASSUME EndTypes, NEW c \in EndCall, NEW at, NEW what, EndTo(c, at, what)
    PROVE  /\ endStep' = [d \in EndCall |-> endStep'[d]] /\ endSeen' = [d \in EndCall |-> endSeen'[d]]
           /\ endStep'[c] = at /\ endSeen'[c] = what
           /\ \A d \in EndCall \ {c} : endStep'[d] = endStep[d] /\ endSeen'[d] = endSeen[d]
  BY DEF EndTypes, EndTo

(* A statement that reads.                                                  *)
LEMMA CallReads ==
    ASSUME EndInv, NEW c \in EndCall, NEW at, NEW what, EndTo(c, at, what), UNCHANGED <<endAsked, endTables>>,
           c \in DOMAIN endAsked,
           endAsked[c].kind = "close" => Sees(what, at, yearBook),
           endAsked[c].kind = "post" /\ at = "written" /\ InYear(endAsked[c].day) => ~what.closed \/ what.reopened
    PROVE  EndInv'
<1>0. EndTypes /\ endAsked' = endAsked /\ yearBook' = yearBook /\ yearLock' = yearLock /\ closings' = closings
  BY DEF EndInv, endTables
<1>1. EndTypes'
  BY <1>0, Turned DEF EndTypes, Dated
<1>2. LockFollows' /\ OneRecord'
  BY <1>0 DEF EndInv, LockFollows, OneRecord, ClosingTxns
<1>3. WrittenInTime'
  BY <1>0, Turned DEF EndInv, WrittenInTime, EndIs
<1>4. ClosersSee'
  <2> SUFFICES ASSUME NEW d \in EndCall, d \in DOMAIN endAsked, endAsked[d].kind = "close"
               PROVE  Sees(endSeen'[d], endStep'[d], yearBook)
    BY <1>0 DEF ClosersSee
  <2>1. CASE d = c
    BY <1>0, <2>1, Turned
  <2>2. CASE d # c
    BY <1>0, <2>2, Turned DEF EndInv, ClosersSee
  <2> QED
    BY <2>1, <2>2
<1>5. ClosedAccountsAreZero' /\ RetainsTheProfit' /\ ClosedYearGainsNothingNew'
  BY <1>0 DEF EndInv, ClosedAccountsAreZero, RetainsTheProfit, ClosedYearGainsNothingNew, ClosingTxns
<1> QED
  BY <1>1, <1>2, <1>3, <1>4, <1>5 DEF EndInv

LEMMA CallStops ==
    ASSUME EndInv, NEW c \in EndCall, NEW how \in {"done", "refused"}, EndStop(c, how),
           UNCHANGED <<endAsked, endTables>>, c \in DOMAIN endAsked
    PROVE  EndInv'
<1>1. PICK what : what = <<>>
  OBVIOUS
<1>2. EndTo(c, how, what)
  BY <1>1 DEF EndStop
<1>3. Sees(what, how, yearBook)
  BY DEF Sees
<1> QED
  BY <1>2, <1>3, CallReads

-----------------------------------------------------------------------------
(* What a closer sums and writes down.                                      *)
LEMMA BalancesAre ==
    ASSUME EndTypes, NEW accounts, IsFiniteSet(accounts)
    PROVE  /\ Lined(Balances(accounts)) /\ SumLines(Balances(accounts)) \in Int
           /\ DOMAIN Balances(accounts) = accounts
           /\ \A a \in accounts : Balances(accounts)[a] = YearTotal(yearBook, Len(yearBook), a)
<1>1. PICK b : b = Balances(accounts)
  OBVIOUS
<1>2. Len(yearBook) \in Nat
  BY Appended DEF EndTypes
<1>3. \A a : YearTotal(yearBook, Len(yearBook), a) \in Int
  BY <1>2, YearTotalIsInt DEF EndTypes
<1>4. DOMAIN b = accounts /\ \A a \in accounts : b[a] = YearTotal(yearBook, Len(yearBook), a)
  BY <1>1 DEF Balances
<1>5. Lined(b)
  BY <1>3, <1>4 DEF Lined
<1>6. SumLines(b) \in Int
  BY <1>5, LinesAre, SumIsInt
<1> QED
  BY <1>1, <1>4, <1>5, <1>6

LEMMA NonzeroAre ==
    ASSUME EndTypes, NEW accounts, IsFiniteSet(accounts)
    PROVE  /\ Lined(Nonzero(Balances(accounts))) /\ DOMAIN Nonzero(Balances(accounts)) \subseteq accounts
           /\ Undoes(Nonzero(Balances(accounts)), accounts, yearBook)
<1>1. PICK b : b = Balances(accounts)
  OBVIOUS
<1>2. PICK l : l = Nonzero(b)
  OBVIOUS
<1>3. Lined(b) /\ DOMAIN b = accounts /\ \A a \in accounts : b[a] = YearTotal(yearBook, Len(yearBook), a)
  BY <1>1, BalancesAre
<1>4. DOMAIN l = {a \in accounts : b[a] # 0} /\ \A a \in DOMAIN l : l[a] = -b[a]
  BY <1>2, <1>3 DEF Nonzero
<1>5. IsFiniteSet(DOMAIN l)
  BY <1>4, FS_Subset
<1>6. Lined(l)
  BY <1>3, <1>4, <1>5 DEF Lined
<1>7. \A a \in accounts : LineOf(l, a) = -b[a]
  BY <1>3, <1>4 DEF LineOf, Lined
<1> QED
  BY <1>1, <1>2, <1>3, <1>4, <1>6, <1>7 DEF Undoes

LEMMA BesideIs ==
    ASSUME NEW f, Lined(f), NEW g, Lined(g)
    PROVE  Lined(Beside(f, g)) /\ DOMAIN Beside(f, g) = DOMAIN f \cup DOMAIN g
<1>1. PICK h : h = Beside(f, g)
  OBVIOUS
<1>2. /\ DOMAIN h = DOMAIN f \cup DOMAIN g
      /\ \A a \in DOMAIN h : h[a] = IF a \in DOMAIN f THEN f[a] ELSE g[a]
  BY <1>1 DEF Beside
<1>3. IsFiniteSet(DOMAIN f \cup DOMAIN g)
  BY FS_Union DEF Lined
<1>4. Lined(h)
  BY <1>2, <1>3 DEF Lined
<1> QED
  BY <1>1, <1>2, <1>4

LEMMA LineBeside ==
    ASSUME NEW f, NEW g, NEW a
    PROVE  LineOf(Beside(f, g), a) = IF a \in DOMAIN f THEN LineOf(f, a) ELSE LineOf(g, a)
  BY DEF LineOf, Beside

LEMMA RetainedIs ==
    ASSUME NEW net \in Int
    PROVE  /\ Lined(Retained(net))
           /\ net = 0 => DOMAIN Retained(net) = {}
           /\ net # 0 => DOMAIN Retained(net) = {"retained"} /\ Retained(net)["retained"] = net
<1>1. CASE net = 0
  <2>1. Retained(net) = <<>> /\ DOMAIN Retained(net) = {}
    BY <1>1 DEF Retained
  <2> QED
    BY <1>1, <2>1, FS_EmptySet DEF Lined
<1>2. CASE net # 0
  <2>1. PICK r : r = Retained(net)
    OBVIOUS
  <2>2. DOMAIN r = {"retained"} /\ r["retained"] = net
    BY <1>2, <2>1 DEF Retained
  <2>3. Lined(r)
    BY <2>2, FS_Singleton DEF Lined
  <2> QED
    BY <1>2, <2>1, <2>2, <2>3
<1> QED
  BY <1>1, <1>2

LEMMA AllLinesAre ==
    ASSUME EndTypes, NEW s, s.revenue \in Int, s.expenses \in Int,
           DOMAIN s.lines \subseteq Income, Lined(s.lines)
    PROVE  /\ Lined(AllLines(s))
           /\ IF "retained" \in DOMAIN AllLines(s) THEN AllLines(s)["retained"] = s.revenue - s.expenses
                                                   ELSE s.revenue = s.expenses
           /\ Undoes(s.lines, Income, yearBook) => Undoes(AllLines(s), Income \cup Expense, yearBook)
<1>1. PICK e : e = Nonzero(Balances(Expense))
  OBVIOUS
<1>2. PICK r : r = Retained(s.revenue - s.expenses)
  OBVIOUS
<1>3. PICK b : b = Beside(s.lines, e)
  OBVIOUS
<1>4. PICK l : l = Beside(b, r)
  OBVIOUS
<1>5. AllLines(s) = l
  BY <1>1, <1>2, <1>3, <1>4 DEF AllLines
<1>6. Lined(e) /\ DOMAIN e \subseteq Expense /\ Undoes(e, Expense, yearBook)
  BY <1>1, NonzeroAre, YearEndAssumption
<1>7. /\ Lined(r) /\ DOMAIN r \subseteq {"retained"}
      /\ s.revenue # s.expenses => DOMAIN r = {"retained"} /\ r["retained"] = s.revenue - s.expenses
      /\ s.revenue = s.expenses => DOMAIN r = {}
  <2>1. s.revenue - s.expenses \in Int /\ (s.revenue - s.expenses = 0 <=> s.revenue = s.expenses)
    OBVIOUS
  <2> QED
    BY <1>2, <2>1, RetainedIs
<1>8. Lined(b) /\ DOMAIN b = DOMAIN s.lines \cup DOMAIN e
  BY <1>3, <1>6, BesideIs
<1>9. Lined(l) /\ DOMAIN l = DOMAIN b \cup DOMAIN r
  BY <1>4, <1>7, <1>8, BesideIs
<1>10. "retained" \notin DOMAIN b
  BY <1>6, <1>8, YearEndAssumption
<1>11. "retained" \in DOMAIN l => "retained" \in DOMAIN r /\ l["retained"] = r["retained"]
  BY <1>4, <1>9, <1>10 DEF Beside
<1>12. IF "retained" \in DOMAIN l THEN l["retained"] = s.revenue - s.expenses ELSE s.revenue = s.expenses
  BY <1>7, <1>9, <1>10, <1>11
<1>13. ASSUME Undoes(s.lines, Income, yearBook) PROVE Undoes(l, Income \cup Expense, yearBook)
  <2>1. \A a \in Income \cup Expense : LineOf(l, a) = LineOf(b, a)
    <3>1. \A a \in Income \cup Expense : a \notin DOMAIN r
      BY <1>7, YearEndAssumption
    <3> QED
      BY <3>1, <1>4, LineBeside DEF LineOf
  <2>2. ASSUME NEW a \in Income PROVE LineOf(b, a) = -YearTotal(yearBook, Len(yearBook), a)
    <3>1. a \notin DOMAIN e
      BY <1>6, <2>2, YearEndAssumption
    <3>2. LineOf(b, a) = LineOf(s.lines, a)
      BY <3>1, <1>3, LineBeside DEF LineOf
    <3> QED
      BY <3>2, <1>13 DEF Undoes
  <2>3. ASSUME NEW a \in Expense PROVE LineOf(b, a) = -YearTotal(yearBook, Len(yearBook), a)
    <3>1. a \notin DOMAIN s.lines
      BY <2>3, YearEndAssumption
    <3>2. LineOf(b, a) = LineOf(e, a)
      BY <3>1, <1>3, LineBeside
    <3> QED
      BY <3>2, <1>6 DEF Undoes
  <2> QED
    BY <2>1, <2>2, <2>3 DEF Undoes
<1> QED
  BY <1>5, <1>9, <1>12, <1>13

-----------------------------------------------------------------------------
(* An entry is committed.                                                   *)
LEMMA SeesLonger ==
    ASSUME NEW s, NEW at, NEW book, Sees(s, at, book), NEW longer, Len(book) \in Nat, Len(longer) = Len(book) + 1
    PROVE  Sees(s, at, longer)
  BY DEF Sees

LEMMA Entered ==
    ASSUME EndTypes, NEW e, e.day \in Int, \A a \in DOMAIN e.lines : e.lines[a] \in Int,
           NEW longer, longer = Append(yearBook, e)
    PROVE  /\ Len(yearBook) \in Nat /\ Len(longer) = Len(yearBook) + 1
           /\ DOMAIN yearBook = 1 .. Len(yearBook) /\ DOMAIN longer = 1 .. Len(yearBook) + 1
           /\ longer[Len(yearBook) + 1] = e /\ \A n \in 1 .. Len(yearBook) : longer[n] = yearBook[n]
           /\ IsSequence(longer) /\ \A n \in 1 .. Len(longer) : Dated(longer, n)
<1>1. /\ Len(yearBook) \in Nat /\ DOMAIN yearBook = 1 .. Len(yearBook)
      /\ IsSequence(longer) /\ DOMAIN longer = DOMAIN yearBook \cup {Len(yearBook) + 1}
      /\ longer[Len(yearBook) + 1] = e /\ \A n \in DOMAIN yearBook : longer[n] = yearBook[n]
  BY Appended DEF EndTypes
<1>2. Len(longer) \in Nat /\ DOMAIN longer = 1 .. Len(longer)
  BY <1>1, Appended
<1>3. Len(longer) = Len(yearBook) + 1
  BY <1>1, <1>2
<1>4. \A n \in 1 .. Len(longer) : Dated(longer, n)
  BY <1>1, <1>2, <1>3 DEF EndTypes, Dated
<1> QED
  BY <1>1, <1>2, <1>3, <1>4

LEMMA EntryKeeps ==
    ASSUME EndInv, NEW c \in EndCall, CommitEntry(c)
    PROVE  EndInv'
<1>1. PICK e : e = [kind |-> "posting", day |-> endAsked[c].day, lines |-> endAsked[c].lines,
                    closed |-> endSeen[c].closed, reopened |-> endSeen[c].reopened]
  OBVIOUS
<1>2. /\ yearBook' = Append(yearBook, e) /\ EndIs(c, "post", "written") /\ EndTypes
      /\ endAsked' = endAsked /\ yearLock' = yearLock /\ closings' = closings /\ EndStop(c, "done")
  BY <1>1 DEF CommitEntry, EndInv
<1>3. e.day \in Int /\ \A a \in DOMAIN e.lines : e.lines[a] \in Int
  BY <1>1, <1>2, YearEndAssumption DEF EndTypes, EndIs
<1>4. /\ Len(yearBook) \in Nat /\ Len(yearBook') = Len(yearBook) + 1
      /\ DOMAIN yearBook = 1 .. Len(yearBook) /\ DOMAIN yearBook' = 1 .. Len(yearBook) + 1
      /\ yearBook'[Len(yearBook) + 1] = e /\ \A n \in 1 .. Len(yearBook) : yearBook'[n] = yearBook[n]
      /\ IsSequence(yearBook') /\ \A n \in 1 .. Len(yearBook') : Dated(yearBook', n)
  <2>1. PICK longer : longer = Append(yearBook, e)
    OBVIOUS
  <2>2. /\ Len(yearBook) \in Nat /\ Len(longer) = Len(yearBook) + 1
        /\ DOMAIN yearBook = 1 .. Len(yearBook) /\ DOMAIN longer = 1 .. Len(yearBook) + 1
        /\ longer[Len(yearBook) + 1] = e /\ \A n \in 1 .. Len(yearBook) : longer[n] = yearBook[n]
        /\ IsSequence(longer) /\ \A n \in 1 .. Len(longer) : Dated(longer, n)
    BY <1>2, <1>3, <2>1, Entered, ZenonT(60)
  <2>3. yearBook' = longer
    BY <1>2, <2>1
  <2> QED
    BY <2>2, <2>3
<1>5. PICK what : what = <<>> /\ EndTo(c, "done", what)
  BY <1>2 DEF EndStop
<1>6. EndTypes'
  BY <1>2, <1>4, <1>5, Turned DEF EndTypes
<1>7. LockFollows'
  BY <1>2 DEF EndInv, LockFollows
<1>8. ClosingTxns' = ClosingTxns
  BY <1>1, <1>4 DEF ClosingTxns
<1>9. OneRecord'
  BY <1>2, <1>4, <1>8 DEF EndInv, OneRecord
<1>10. WrittenInTime'
  BY <1>2, <1>5, Turned DEF EndInv, WrittenInTime, EndIs
<1>11. ClosersSee'
  <2> SUFFICES ASSUME NEW d \in EndCall, d \in DOMAIN endAsked, endAsked[d].kind = "close"
               PROVE  Sees(endSeen'[d], endStep'[d], yearBook')
    BY <1>2 DEF ClosersSee
  <2>1. d # c
    BY <1>2 DEF EndIs
  <2>2. endSeen'[d] = endSeen[d] /\ endStep'[d] = endStep[d]
    BY <1>2, <1>5, <2>1, Turned
  <2>3. Sees(endSeen[d], endStep[d], yearBook)
    BY DEF EndInv, ClosersSee
  <2> QED
    BY <1>4, <2>2, <2>3, SeesLonger
<1>12. ClosedAccountsAreZero'
  <2> SUFFICES ASSUME NEW n \in ClosingTxns, yearBook[n].alone, NEW a \in Income \cup Expense
               PROVE  YearTotal(yearBook', n, a) = 0
    BY <1>4, <1>8 DEF ClosedAccountsAreZero, ClosingTxns
  <2>1. n \in 1 .. Len(yearBook) /\ YearTotal(yearBook, n, a) = 0
    BY <1>4 DEF EndInv, ClosedAccountsAreZero, ClosingTxns
  <2>2. n \in Nat /\ \A m \in 1 .. n : Dated(yearBook, m)
    BY <1>2, <1>4, <2>1 DEF EndTypes
  <2>3. PICK longer : longer = yearBook'
    OBVIOUS
  <2>4. \A m \in 1 .. n : longer[m] = yearBook[m]
    BY <1>4, <2>1, <2>3
  <2> QED
    BY <2>1, <2>2, <2>3, <2>4, YearTotalStays
<1>13. RetainsTheProfit'
  <2>1. \A r \in closings : r.txn # 0 => yearBook'[r.txn] = yearBook[r.txn]
    BY <1>4 DEF EndInv, OneRecord
  <2> QED
    BY <1>2, <2>1 DEF EndInv, RetainsTheProfit
<1>14. ClosedYearGainsNothingNew'
  <2> SUFFICES ASSUME NEW r \in closings, NEW n \in 1 .. Len(yearBook) + 1, n > r.txn, r.txn # 0,
                      InYear(yearBook'[n].day)
               PROVE  yearBook'[n].kind = "posting" /\ (~yearBook'[n].closed \/ yearBook'[n].reopened)
    BY <1>2, <1>4 DEF ClosedYearGainsNothingNew, InYear
  <2>1. CASE n = Len(yearBook) + 1
    BY <1>1, <1>2, <1>4, <2>1 DEF EndInv, WrittenInTime
  <2>2. CASE n # Len(yearBook) + 1
    <3>1. n \in DOMAIN yearBook /\ yearBook'[n] = yearBook[n]
      BY <1>4, <2>2
    <3> QED
      BY <3>1 DEF EndInv, ClosedYearGainsNothingNew
  <2> QED
    BY <2>1, <2>2
<1> QED
  BY <1>6, <1>7, <1>9, <1>10, <1>11, <1>12, <1>13, <1>14 DEF EndInv

(* A closing is recorded.                                                   *)
LEMMA ClosingKeeps ==
    ASSUME EndInv, NEW c \in EndCall, RecordClosing(c)
    PROVE  EndInv'
<1>1. PICK s : s = endSeen[c]
  OBVIOUS
<1>2. PICK e : e = [kind |-> "closing", day |-> LastDay, lines |-> s.lines, alone |-> s.from = Len(yearBook)]
  OBVIOUS
<1>3. PICK r : r = [by |-> c, revenue |-> s.revenue, expenses |-> s.expenses,
                    txn |-> IF DOMAIN s.lines = {} THEN 0 ELSE Len(yearBook) + 1]
  OBVIOUS
<1>4. /\ EndIs(c, "close", "commit") /\ closings = {} /\ LinesBalance(s.lines) /\ EndTypes
      /\ yearBook' = IF DOMAIN s.lines = {} THEN yearBook ELSE Append(yearBook, e)
      /\ closings' = {r} /\ yearLock' = "locked" /\ endAsked' = endAsked /\ EndStop(c, "done")
  BY <1>1, <1>2, <1>3 DEF RecordClosing, Taken, EndInv
<1>5. /\ Lined(s.lines) /\ Retains(s) /\ s.revenue \in Int /\ s.expenses \in Int
      /\ s.from = Len(yearBook) => Undoes(s.lines, Income \cup Expense, yearBook)
  BY <1>1, <1>4 DEF EndInv, ClosersSee, EndIs, Sees
<1>6. ClosingTxns = {}
  BY <1>4 DEF EndInv, OneRecord
<1>7. PICK what : what = <<>> /\ EndTo(c, "done", what)
  BY <1>4 DEF EndStop
<1>8. LockFollows'
  BY <1>4 DEF LockFollows
<1>9. WrittenInTime'
  BY <1>4, <1>7, Turned DEF EndInv, WrittenInTime, EndIs
<1>10. Len(yearBook) \in Nat /\ DOMAIN yearBook = 1 .. Len(yearBook)
  BY <1>4, Appended DEF EndTypes
<1>11. \A d \in EndCall : d \in DOMAIN endAsked /\ endAsked[d].kind = "close" =>
          \/ endStep'[d] = "done"
          \/ Sees(endSeen'[d], endStep'[d], yearBook)
  BY <1>7, <1>4, Turned DEF EndInv, ClosersSee
<1>12. CASE DOMAIN s.lines = {}
  <2>1. yearBook' = yearBook /\ r.txn = 0
    BY <1>3, <1>4, <1>12
  <2>2. EndTypes'
    BY <1>4, <1>7, <2>1, Turned DEF EndTypes, Dated
  <2>3. ClosingTxns' = {} /\ {q.txn : q \in closings'} \ {0} = {}
    BY <1>4, <1>6, <2>1 DEF ClosingTxns
  <2>4. OneRecord'
    <3>1. 0 \in 0 .. Len(yearBook)
      BY <1>10
    <3>2. r.txn \in 0 .. Len(yearBook')
      BY <2>1, <3>1
    <3> QED
      BY <1>4, <2>3, <3>2 DEF OneRecord
  <2>5. ClosersSee'
    BY <1>4, <1>11, <2>1 DEF ClosersSee, Sees
  <2>6. ClosedAccountsAreZero' /\ RetainsTheProfit' /\ ClosedYearGainsNothingNew'
    BY <1>4, <2>1, <2>3 DEF ClosedAccountsAreZero, RetainsTheProfit, ClosedYearGainsNothingNew
  <2> QED
    BY <1>8, <1>9, <2>2, <2>4, <2>5, <2>6 DEF EndInv
<1>13. CASE DOMAIN s.lines # {}
  <2>1. yearBook' = Append(yearBook, e) /\ r.txn = Len(yearBook) + 1
    BY <1>3, <1>4, <1>13
  <2>2. e.day = LastDay /\ e.lines = s.lines /\ e.kind = "closing" /\ e.alone = (s.from = Len(yearBook))
    BY <1>2
  <2>3. e.day \in Int /\ InYear(e.day) /\ \A a \in DOMAIN e.lines : e.lines[a] \in Int
    BY <1>5, <2>2, YearEndAssumption DEF Lined, InYear
  <2>4. /\ Len(yearBook') = Len(yearBook) + 1 /\ DOMAIN yearBook' = 1 .. Len(yearBook) + 1
        /\ yearBook'[Len(yearBook) + 1] = e /\ \A n \in 1 .. Len(yearBook) : yearBook'[n] = yearBook[n]
        /\ IsSequence(yearBook') /\ \A n \in 1 .. Len(yearBook') : Dated(yearBook', n)
    <3>1. PICK longer : longer = Append(yearBook, e)
      OBVIOUS
    <3>2. /\ Len(longer) = Len(yearBook) + 1 /\ DOMAIN longer = 1 .. Len(yearBook) + 1
          /\ longer[Len(yearBook) + 1] = e /\ \A n \in 1 .. Len(yearBook) : longer[n] = yearBook[n]
          /\ IsSequence(longer) /\ \A n \in 1 .. Len(longer) : Dated(longer, n)
      BY <1>4, <2>3, <3>1, Entered, ZenonT(60)
    <3>3. yearBook' = longer
      BY <2>1, <3>1
    <3> QED
      BY <3>2, <3>3
  <2>5. EndTypes'
    BY <1>4, <1>7, <2>4, Turned DEF EndTypes
  <2>6. ClosingTxns' = {Len(yearBook) + 1}
    BY <1>6, <1>10, <2>2, <2>4 DEF ClosingTxns
  <2>7. OneRecord'
    <3>1. {q.txn : q \in closings'} \ {0} = {Len(yearBook) + 1}
      BY <1>4, <1>10, <2>1
    <3> QED
      BY <1>4, <1>10, <2>1, <2>4, <2>6, <3>1 DEF OneRecord
  <2>8. ClosersSee'
    <3> SUFFICES ASSUME NEW d \in EndCall, d \in DOMAIN endAsked, endAsked[d].kind = "close"
                 PROVE  Sees(endSeen'[d], endStep'[d], yearBook')
      BY <1>4 DEF ClosersSee
    <3>1. CASE endStep'[d] = "done"
      BY <3>1 DEF Sees
    <3>2. CASE Sees(endSeen'[d], endStep'[d], yearBook)
      BY <1>10, <2>4, <3>2, SeesLonger
    <3> QED
      BY <1>11, <3>1, <3>2
  <2>9. ClosedAccountsAreZero'
    <3> SUFFICES ASSUME s.from = Len(yearBook), NEW a \in Income \cup Expense
                 PROVE  YearTotal(yearBook', Len(yearBook) + 1, a) = 0
      BY <2>2, <2>4, <2>6 DEF ClosedAccountsAreZero
    <3>1. PICK k : k = Len(yearBook) /\ k \in Nat
      BY <1>10
    <3>2. PICK longer : longer = yearBook'
      OBVIOUS
    <3>3. \A n \in 1 .. k + 1 : Dated(longer, n)
      BY <2>4, <3>1, <3>2
    <3>4. longer[k + 1] = e
      BY <2>4, <3>1, <3>2
    <3>5. YearTotal(longer, k + 1, a) = YearTotal(longer, k, a) + LineOf(s.lines, a)
      <4>1. YearTotal(longer, k + 1, a) = YearTotal(longer, k, a) + LineOf(longer[k + 1].lines, a)
        BY <2>3, <3>1, <3>3, <3>4, YearTotalGrows
      <4> QED
        BY <2>2, <3>4, <4>1
    <3>6. \A n \in 1 .. k : Dated(yearBook, n) /\ longer[n] = yearBook[n]
      BY <1>4, <2>4, <3>1, <3>2 DEF EndTypes
    <3>7. YearTotal(longer, k, a) = YearTotal(yearBook, k, a) /\ YearTotal(yearBook, k, a) \in Int
      BY <3>1, <3>6, YearTotalStays, YearTotalIsInt
    <3>8. LineOf(s.lines, a) = -YearTotal(yearBook, k, a)
      BY <1>5, <3>1 DEF Undoes
    <3> QED
      BY <3>1, <3>2, <3>5, <3>7, <3>8
  <2>10. RetainsTheProfit'
    <3>1. r.revenue = s.revenue /\ r.expenses = s.expenses
      BY <1>3
    <3>2. PICK l : l = s.lines
      OBVIOUS
    <3>3. yearBook'[r.txn].lines = l
      BY <2>1, <2>2, <2>4, <3>2
    <3>4. Lined(l) /\ SumLines(l) = 0
      BY <1>4, <1>5, <3>2 DEF LinesBalance
    <3>5. ASSUME "retained" \in DOMAIN l
          PROVE  l["retained"] = -SumLines([a \in DOMAIN l \ {"retained"} |-> l[a]])
      <4>1. PICK v : v = [a \in DOMAIN l \ {"retained"} |-> l[a]]
        OBVIOUS
      <4>2. IsFiniteSet(DOMAIN v) /\ DOMAIN v \subseteq DOMAIN l /\ \A a \in DOMAIN v : v[a] = l[a]
        BY <3>4, <4>1, FS_Subset DEF Lined
      <4>3. SumLines(v) \in Int /\ l["retained"] \in Int
        BY <3>4, <3>5, <4>2, LinesAre, SumIsInt DEF Lined
      <4>4. SumLines(l) = SumLines(v) + l["retained"]
        BY <3>4, <3>5, <4>1, LinesBut
      <4> QED
        BY <3>4, <4>1, <4>3, <4>4
    <3> QED
      BY <1>4, <1>5, <3>1, <3>2, <3>3, <3>5 DEF RetainsTheProfit, Retains
  <2>11. ClosedYearGainsNothingNew'
    BY <1>4, <1>10, <2>1, <2>4 DEF ClosedYearGainsNothingNew
  <2> QED
    BY <1>8, <1>9, <2>5, <2>7, <2>8, <2>9, <2>10, <2>11 DEF EndInv
<1> QED
  BY <1>12, <1>13

-----------------------------------------------------------------------------
LEMMA CloserKeeps ==
    ASSUME EndInv, NEW c \in EndCall,
           \/ executeYearEndClosing(c) \/ AlreadyClosed(c) \/ TotalRevenue(c) \/ TotalExpenses(c)
           \/ CloseIncome(c) \/ CloseExpense(c) \/ InsertLines(c) \/ LockPeriod(c) \/ ClosingFails(c)
    PROVE  EndInv'
<1>0. EndTypes /\ Len(yearBook) \in Nat
  BY Appended DEF EndInv, EndTypes
<1>1. PICK s : s = endSeen[c]
  OBVIOUS
<1>2. c \in DOMAIN endAsked /\ endAsked[c].kind = "close" => Sees(s, endStep[c], yearBook)
  BY <1>1 DEF EndInv, ClosersSee
<1>3. CASE executeYearEndClosing(c) \/ AlreadyClosed(c) \/ ClosingFails(c)
  <2>1. c \in DOMAIN endAsked /\ endAsked[c].kind = "close"
    BY <1>3 DEF executeYearEndClosing, AlreadyClosed, ClosingFails, EndIs
  <2>2. CASE EndStop(c, "refused") /\ UNCHANGED <<endAsked, endTables>>
    BY <2>1, <2>2, CallStops
  <2>3. ASSUME NEW at \in {"exists", "revenue"}, Reads(c, at, <<>>) PROVE EndInv'
    <3>1. PICK what : what = <<>>
      OBVIOUS
    <3>2. Sees(what, at, yearBook) /\ at # "written"
      BY <2>3 DEF Sees
    <3>3. EndTo(c, at, what) /\ UNCHANGED <<endAsked, endTables>>
      BY <2>3, <3>1 DEF Reads
    <3> QED
      BY <2>1, <3>2, <3>3, CallReads
  <2> QED
    BY <1>3, <2>2, <2>3 DEF executeYearEndClosing, AlreadyClosed, ClosingFails
<1>4. CASE TotalRevenue(c)
  <2>1. PICK what : what = [from |-> Len(yearBook), revenue |-> SumLines(Balances(Income)),
                            expenses |-> 0, lines |-> <<>>]
    OBVIOUS
  <2>2. /\ EndTo(c, "expenses", what) /\ UNCHANGED <<endAsked, endTables>>
        /\ c \in DOMAIN endAsked /\ endAsked[c].kind = "close"
    BY <1>4, <2>1 DEF TotalRevenue, Reads, EndIs
  <2>3. SumLines(Balances(Income)) \in Int
    BY <1>0, BalancesAre, YearEndAssumption
  <2>4. Sees(what, "expenses", yearBook)
    BY <1>0, <2>1, <2>3 DEF Sees
  <2> QED
    BY <2>2, <2>4, CallReads
<1>5. CASE TotalExpenses(c)
  <2>1. PICK what : what = [s EXCEPT !.expenses = -SumLines(Balances(Expense))]
    OBVIOUS
  <2>2. /\ EndTo(c, "closeIncome", what) /\ UNCHANGED <<endAsked, endTables>>
        /\ c \in DOMAIN endAsked /\ endAsked[c].kind = "close" /\ endStep[c] = "expenses"
    BY <1>1, <1>5, <2>1 DEF TotalExpenses, Reads, EndIs
  <2>3. SumLines(Balances(Expense)) \in Int
    BY <1>0, BalancesAre, YearEndAssumption
  <2>4. /\ s = [from |-> s.from, revenue |-> s.revenue, expenses |-> s.expenses, lines |-> s.lines]
        /\ s.from \in 0 .. Len(yearBook) /\ s.revenue \in Int
    BY <1>2, <2>2 DEF Sees
  <2>5. Sees(what, "closeIncome", yearBook)
    BY <2>1, <2>3, <2>4 DEF Sees
  <2> QED
    BY <2>2, <2>5, CallReads
<1>6. CASE CloseIncome(c)
  <2>1. PICK l : l = Nonzero(Balances(Income))
    OBVIOUS
  <2>2. PICK what : what = [s EXCEPT !.lines = l]
    OBVIOUS
  <2>3. /\ EndTo(c, "closeExpense", what) /\ UNCHANGED <<endAsked, endTables>>
        /\ c \in DOMAIN endAsked /\ endAsked[c].kind = "close" /\ endStep[c] = "closeIncome"
    BY <1>1, <1>6, <2>1, <2>2 DEF CloseIncome, Reads, EndIs
  <2>4. Lined(l) /\ DOMAIN l \subseteq Income /\ Undoes(l, Income, yearBook)
    BY <1>0, <2>1, NonzeroAre, YearEndAssumption
  <2>5. /\ s = [from |-> s.from, revenue |-> s.revenue, expenses |-> s.expenses, lines |-> s.lines]
        /\ s.from \in 0 .. Len(yearBook) /\ s.revenue \in Int /\ s.expenses \in Int
    BY <1>2, <2>3 DEF Sees
  <2>6. what = [from |-> s.from, revenue |-> s.revenue, expenses |-> s.expenses, lines |-> l]
    BY <2>2, <2>5
  <2>7. Sees(what, "closeExpense", yearBook)
    BY <2>4, <2>5, <2>6 DEF Sees
  <2> QED
    BY <2>3, <2>7, CallReads
<1>7. CASE CloseExpense(c)
  <2>1. PICK l : l = AllLines(s)
    OBVIOUS
  <2>2. PICK what : what = [s EXCEPT !.lines = l]
    OBVIOUS
  <2>3. /\ EndTo(c, "insert", what) /\ UNCHANGED <<endAsked, endTables>>
        /\ c \in DOMAIN endAsked /\ endAsked[c].kind = "close" /\ endStep[c] = "closeExpense"
    BY <1>1, <1>7, <2>1, <2>2 DEF CloseExpense, Reads, EndIs
  <2>4. /\ s = [from |-> s.from, revenue |-> s.revenue, expenses |-> s.expenses, lines |-> s.lines]
        /\ s.from \in 0 .. Len(yearBook) /\ s.revenue \in Int /\ s.expenses \in Int
        /\ DOMAIN s.lines \subseteq Income /\ Lined(s.lines)
        /\ s.from = Len(yearBook) => Undoes(s.lines, Income, yearBook)
    BY <1>2, <2>3 DEF Sees
  <2>5. /\ Lined(l)
        /\ IF "retained" \in DOMAIN l THEN l["retained"] = s.revenue - s.expenses ELSE s.revenue = s.expenses
        /\ Undoes(s.lines, Income, yearBook) => Undoes(l, Income \cup Expense, yearBook)
    BY <1>0, <2>1, <2>4, AllLinesAre
  <2>6. what = [from |-> s.from, revenue |-> s.revenue, expenses |-> s.expenses, lines |-> l]
    BY <2>2, <2>4
  <2>7. Sees(what, "insert", yearBook)
    BY <2>4, <2>5, <2>6 DEF Sees, Retains
  <2> QED
    BY <2>3, <2>7, CallReads
<1>8. CASE InsertLines(c) \/ LockPeriod(c)
  <2>1. c \in DOMAIN endAsked /\ endAsked[c].kind = "close" /\ endStep[c] \in {"insert", "lock"}
    BY <1>8 DEF InsertLines, LockPeriod, EndIs
  <2>2. CASE EndStop(c, "refused") /\ UNCHANGED <<endAsked, endTables>>
    BY <2>1, <2>2, CallStops
  <2>3. ASSUME NEW at \in {"lock", "commit"}, Reads(c, at, s) PROVE EndInv'
    <3>1. Sees(s, at, yearBook)
      BY <1>2, <2>1 DEF Sees
    <3>2. EndTo(c, at, s) /\ UNCHANGED <<endAsked, endTables>>
      BY <2>3 DEF Reads
    <3> QED
      BY <2>1, <3>1, <3>2, CallReads
  <2> QED
    BY <1>1, <1>8, <2>2, <2>3 DEF InsertLines, LockPeriod
<1> QED
  BY <1>3, <1>4, <1>5, <1>6, <1>7, <1>8

(* A posting that is written, and a year that is opened again.              *)
LEMMA OthersKeep ==
    ASSUME EndInv, NEW c \in EndCall, WriteEntry(c) \/ PostRefused(c) \/ reopenYear(c)
    PROVE  EndInv'
<1>1. c \in DOMAIN endAsked /\ EndTypes
  BY DEF WriteEntry, PostRefused, reopenYear, EndIs, EndInv
<1>2. CASE WriteEntry(c)
  <2>1. PICK what : what = [closed |-> closings # {}, reopened |-> yearLock = "open"]
    OBVIOUS
  <2>2. EndTo(c, "written", what) /\ UNCHANGED <<endAsked, endTables>>
    BY <1>2, <2>1 DEF WriteEntry, Reads
  <2>3. InYear(endAsked[c].day) => ~what.closed \/ what.reopened
    BY <1>2, <2>1 DEF WriteEntry, DayIsLocked, EndInv, LockFollows
  <2>4. Sees(what, "written", yearBook)
    BY DEF Sees
  <2> QED
    BY <1>1, <2>2, <2>3, <2>4, CallReads
<1>3. CASE PostRefused(c)
  BY <1>1, <1>3, CallStops DEF PostRefused
<1>4. CASE reopenYear(c)
  <2>1. CASE closings = {}
    <3>1. EndStop(c, "refused") /\ UNCHANGED <<endAsked, endTables>>
      BY <1>4, <2>1 DEF reopenYear, endTables
    <3> QED
      BY <1>1, <3>1, CallStops
  <2>2. CASE closings # {}
    <3>1. PICK what : what = <<>> /\ EndTo(c, "done", what)
      BY <1>4, <2>2 DEF reopenYear, EndStop
    <3>2. /\ endAsked' = endAsked /\ yearBook' = yearBook /\ closings' = closings /\ yearLock' = "open"
      BY <1>4, <2>2 DEF reopenYear
    <3>3. EndTypes'
      BY <1>1, <3>1, <3>2, Turned DEF EndTypes, Dated
    <3>4. LockFollows' /\ OneRecord'
      BY <3>2 DEF EndInv, LockFollows, OneRecord, ClosingTxns
    <3>5. WrittenInTime'
      BY <1>1, <3>1, <3>2, Turned DEF EndInv, WrittenInTime, EndIs
    <3>6. ClosersSee'
      <4> SUFFICES ASSUME NEW d \in EndCall, d \in DOMAIN endAsked, endAsked[d].kind = "close"
                   PROVE  Sees(endSeen'[d], endStep'[d], yearBook)
        BY <3>2 DEF ClosersSee
      <4>1. CASE d = c
        BY <1>1, <3>1, <4>1, Turned DEF Sees
      <4>2. CASE d # c
        BY <1>1, <3>1, <4>2, Turned DEF EndInv, ClosersSee
      <4> QED
        BY <4>1, <4>2
    <3>7. ClosedAccountsAreZero' /\ RetainsTheProfit' /\ ClosedYearGainsNothingNew'
      BY <3>2 DEF EndInv, ClosedAccountsAreZero, RetainsTheProfit, ClosedYearGainsNothingNew, ClosingTxns
    <3> QED
      BY <3>3, <3>4, <3>5, <3>6, <3>7 DEF EndInv
  <2> QED
    BY <2>1, <2>2
<1> QED
  BY <1>2, <1>3, <1>4

LEMMA EndInvIsKept == EndSpec => []EndInv
<1>1. ASSUME EndInv, EndNext PROVE EndInv'
  <2>1. PICK c \in EndCall :
          \/ WriteEntry(c) \/ CommitEntry(c) \/ PostRefused(c)
          \/ executeYearEndClosing(c) \/ AlreadyClosed(c) \/ TotalRevenue(c) \/ TotalExpenses(c)
          \/ CloseIncome(c) \/ CloseExpense(c) \/ InsertLines(c) \/ LockPeriod(c)
          \/ RecordClosing(c) \/ ClosingFails(c) \/ reopenYear(c)
    BY <1>1 DEF EndNext
  <2> QED
    BY <1>1, <2>1, EntryKeeps, ClosingKeeps, CloserKeeps, OthersKeep
<1>2. EndInv /\ UNCHANGED endVars => EndInv'
  <2> SUFFICES ASSUME EndInv, UNCHANGED endVars PROVE EndInv'
    OBVIOUS
  <2>1. /\ endAsked' = endAsked /\ endStep' = endStep /\ endSeen' = endSeen
        /\ yearBook' = yearBook /\ yearLock' = yearLock /\ closings' = closings
    BY DEF endVars, endTables
  <2>2. EndTypes'
    BY <2>1 DEF EndInv, EndTypes, Dated
  <2>3. LockFollows' /\ OneRecord' /\ WrittenInTime' /\ ClosersSee'
    BY <2>1 DEF EndInv, LockFollows, OneRecord, ClosingTxns, WrittenInTime, EndIs, ClosersSee
  <2>4. ClosedAccountsAreZero' /\ RetainsTheProfit' /\ ClosedYearGainsNothingNew'
    BY <2>1 DEF EndInv, ClosedAccountsAreZero, RetainsTheProfit, ClosedYearGainsNothingNew, ClosingTxns
  <2> QED
    BY <2>2, <2>3, <2>4 DEF EndInv
<1> QED
  BY <1>1, <1>2, EndStarts, PTL DEF EndSpec

LEMMA EndInvAddsUp == EndInv => ClosingAddsUp
<1> SUFFICES ASSUME EndInv PROVE ClosingAddsUp
  OBVIOUS
<1>1. Cardinality(closings) <= 1
  <2>1. CASE closings = {}
    <3>1. Cardinality({}) = 0
      BY FS_EmptySet
    <3> QED
      BY <2>1, <3>1
  <2>2. CASE closings # {}
    <3>1. PICK r : closings = {r}
      BY <2>2 DEF EndInv, OneRecord
    <3>2. Cardinality({r}) = 1
      BY FS_Singleton
    <3> QED
      BY <3>1, <3>2
  <2> QED
    BY <2>1, <2>2
<1> QED
  BY <1>1 DEF EndInv, OneRecord, ClosingAddsUp, ClosedOnce

(* ClosingAddsUp, in every state.                                           *)
THEOREM YearsClose == EndSpec => []ClosingAddsUp
  BY EndInvIsKept, EndInvAddsUp, PTL

-----------------------------------------------------------------------------
(* Depreciation: what items and runs take from an asset.                    *)
Acts == {"INCOME_TAX", "COMPANIES_ACT"}
ItemRecs == [asset : Nat, opening : Int, amount : Int]
RunRecs == [year : Int, act : Acts, by : DeprCall, saw : Nat, items : Seq(ItemRecs)]

LEMMA TakenByIs ==
    ASSUME NEW items \in Seq(ItemRecs), NEW a
    PROVE  /\ Weighs([k \in ItemsOf(items, a) |-> items[k].amount], ItemsOf(items, a))
           /\ TakenBy(items, a)
              = SumFunctionOnSet([k \in ItemsOf(items, a) |-> items[k].amount], ItemsOf(items, a))
<1>0. PICK S : S = ItemsOf(items, a)
  OBVIOUS
<1>1. PICK w : w = [k \in S |-> items[k].amount]
  OBVIOUS
<1>2. Weighs(w, S)
  <2>1. S \subseteq 1 .. Len(items) /\ Len(items) \in Nat /\ \A k \in S : items[k] \in ItemRecs
    BY <1>0 DEF ItemsOf
  <2>2. \A k \in S : w[k] \in Int
    BY <1>1, <2>1 DEF ItemRecs
  <2>3. IsFiniteSet(1 .. Len(items))
    BY <2>1, FS_Interval
  <2>4. IsFiniteSet(S)
    BY <2>1, <2>3, FS_Subset
  <2> QED
    BY <2>2, <2>4 DEF Weighs
<1>3. PICK h : Unrolls(h, S, w) /\ SumFunctionOnSet(w, S) = h[S]
  BY <1>2, SumUnrolls
<1>4. PICK g : g = CHOOSE f : f = [s \in SUBSET S |->
                     IF s = {} THEN 0 ELSE items[AnyOf(s)].amount + f[s \ {AnyOf(s)}]]
  OBVIOUS
<1>5. TakenBy(items, a) = g[S]
  BY <1>0, <1>4 DEF TakenBy, MapThenSumSet, MapThenFoldSet, AnyOf
<1>6. \A s \in SUBSET S : s # {} => w[AnyOf(s)] = items[AnyOf(s)].amount
  BY <1>1, AnyOfIsIn
<1>7. h = [s \in SUBSET S |-> IF s = {} THEN 0 ELSE items[AnyOf(s)].amount + h[s \ {AnyOf(s)}]]
  BY <1>3, <1>6 DEF Unrolls
<1>8. g = [s \in SUBSET S |-> IF s = {} THEN 0 ELSE items[AnyOf(s)].amount + g[s \ {AnyOf(s)}]]
  BY <1>4, <1>7, Zenon
<1>9. Unrolls(g, S, w)
  BY <1>6, <1>8 DEF Unrolls
<1> QED
  BY <1>0, <1>1, <1>2, <1>3, <1>5, <1>9, SameValues

LEMMA NoItemsTake == \A a : TakenBy(<<>>, a) = 0
<1> SUFFICES ASSUME NEW a PROVE TakenBy(<<>>, a) = 0
  OBVIOUS
<1>1. ItemsOf(<<>>, a) = {} /\ <<>> \in Seq(ItemRecs)
  BY DEF ItemsOf
<1> QED
  BY <1>1, TakenByIs, SumOfNone

LEMMA ItemTakes ==
    ASSUME NEW items \in Seq(ItemRecs), NEW it \in ItemRecs, NEW a
    PROVE  /\ TakenBy(items, a) \in Int /\ Append(items, it) \in Seq(ItemRecs)
           /\ TakenBy(Append(items, it), a)
              = TakenBy(items, a) + (IF it.asset = a THEN it.amount ELSE 0)
<1>0. PICK more : more = Append(items, it)
  OBVIOUS
<1>1. /\ more \in Seq(ItemRecs) /\ Len(items) \in Nat /\ DOMAIN items = 1 .. Len(items)
      /\ DOMAIN more = 1 .. Len(items) + 1 /\ more[Len(items) + 1] = it
      /\ \A k \in 1 .. Len(items) : more[k] = items[k]
  BY <1>0
<1>2. PICK S : S = ItemsOf(items, a)
  OBVIOUS
<1>3. PICK v : v = [k \in S |-> items[k].amount]
  OBVIOUS
<1>4. Weighs(v, S) /\ TakenBy(items, a) = SumFunctionOnSet(v, S)
  BY <1>2, <1>3, TakenByIs
<1>5. PICK T : T = ItemsOf(more, a)
  OBVIOUS
<1>6. PICK w : w = [k \in T |-> more[k].amount]
  OBVIOUS
<1>7. Weighs(w, T) /\ TakenBy(more, a) = SumFunctionOnSet(w, T)
  BY <1>1, <1>5, <1>6, TakenByIs
<1>8. S \subseteq T /\ (\A k \in S : v[k] = w[k]) /\ Len(items) + 1 \notin S
  BY <1>1, <1>2, <1>3, <1>5, <1>6 DEF ItemsOf
<1>9. Weighs(w, S) /\ SumFunctionOnSet(w, S) = SumFunctionOnSet(v, S)
  <2>1. Weighs(w, S)
    BY <1>7, <1>8, FS_Subset DEF Weighs
  <2> QED
    BY <1>4, <1>8, <2>1, SumIsSame
<1>10. SumFunctionOnSet(v, S) \in Int
  BY <1>4, SumIsInt
<1>11. CASE it.asset = a
  <2>0. it.amount \in Int
    BY DEF ItemRecs
  <2>3. T = S \cup {Len(items) + 1}
    BY <1>1, <1>2, <1>5, <1>11 DEF ItemsOf
  <2>1. T = S \cup {Len(items) + 1} /\ w[Len(items) + 1] = it.amount /\ it.amount \in Int
    BY <1>1, <1>6, <2>0, <2>3
  <2>2. SumFunctionOnSet(w, T) = SumFunctionOnSet(w, S) + it.amount
    BY <1>8, <1>9, <2>1, SumOfMore
  <2> QED
    BY <1>0, <1>1, <1>4, <1>7, <1>9, <1>10, <1>11, <2>2
<1>12. CASE it.asset # a
  <2>1. T = S
    BY <1>1, <1>2, <1>5, <1>12 DEF ItemsOf
  <2> QED
    BY <1>0, <1>1, <1>4, <1>7, <1>9, <1>10, <1>12, <2>1
<1> QED
  BY <1>11, <1>12

LEMMA TakenInIs ==
    ASSUME NEW runs \in Seq(RunRecs), NEW a
    PROVE  /\ Weighs([n \in DOMAIN runs |-> TakenBy(runs[n].items, a)], DOMAIN runs)
           /\ TakenIn(runs, a)
              = SumFunctionOnSet([n \in DOMAIN runs |-> TakenBy(runs[n].items, a)], DOMAIN runs)
<1>0. PICK S : S = DOMAIN runs
  OBVIOUS
<1>1. PICK w : w = [n \in S |-> TakenBy(runs[n].items, a)]
  OBVIOUS
<1>2. Weighs(w, S)
  <2>0. S = 1 .. Len(runs) /\ Len(runs) \in Nat /\ \A n \in S : runs[n] \in RunRecs
    BY <1>0
  <2>1. \A n \in S : runs[n].items \in Seq(ItemRecs)
    BY <2>0 DEF RunRecs
  <2>2. \A n \in S : TakenBy(runs[n].items, a) \in Int
    BY <2>1, TakenByIs, SumIsInt
  <2>3. IsFiniteSet(S)
    BY <2>0, FS_Interval
  <2> QED
    BY <1>1, <2>2, <2>3 DEF Weighs
<1>3. PICK h : Unrolls(h, S, w) /\ SumFunctionOnSet(w, S) = h[S]
  BY <1>2, SumUnrolls
<1>4. PICK g : g = CHOOSE f : f = [s \in SUBSET S |->
                     IF s = {} THEN 0 ELSE TakenBy(runs[AnyOf(s)].items, a) + f[s \ {AnyOf(s)}]]
  OBVIOUS
<1>5. TakenIn(runs, a) = g[S]
  BY <1>0, <1>4 DEF TakenIn, MapThenSumSet, MapThenFoldSet, AnyOf
<1>6. \A s \in SUBSET S : s # {} => w[AnyOf(s)] = TakenBy(runs[AnyOf(s)].items, a)
  BY <1>1, AnyOfIsIn
<1>7. h = [s \in SUBSET S |-> IF s = {} THEN 0 ELSE TakenBy(runs[AnyOf(s)].items, a) + h[s \ {AnyOf(s)}]]
  BY <1>3, <1>6 DEF Unrolls
<1>8. g = [s \in SUBSET S |-> IF s = {} THEN 0 ELSE TakenBy(runs[AnyOf(s)].items, a) + g[s \ {AnyOf(s)}]]
  BY <1>4, <1>7, Zenon
<1>9. Unrolls(g, S, w)
  BY <1>6, <1>8 DEF Unrolls
<1> QED
  BY <1>0, <1>1, <1>2, <1>3, <1>5, <1>9, SameValues

LEMMA NoRunsTake == \A a : TakenIn(<<>>, a) = 0
<1> SUFFICES ASSUME NEW a PROVE TakenIn(<<>>, a) = 0
  OBVIOUS
<1>1. DOMAIN <<>> = {} /\ <<>> \in Seq(RunRecs)
  OBVIOUS
<1> QED
  BY <1>1, TakenInIs, SumOfNone

LEMMA RunTakes ==
    ASSUME NEW runs \in Seq(RunRecs), NEW r \in RunRecs, NEW a
    PROVE  /\ TakenIn(runs, a) \in Int /\ TakenBy(r.items, a) \in Int /\ Append(runs, r) \in Seq(RunRecs)
           /\ TakenIn(Append(runs, r), a) = TakenIn(runs, a) + TakenBy(r.items, a)
<1>0. PICK more : more = Append(runs, r)
  OBVIOUS
<1>1. /\ more \in Seq(RunRecs) /\ Len(runs) \in Nat /\ DOMAIN runs = 1 .. Len(runs)
      /\ DOMAIN more = DOMAIN runs \cup {Len(runs) + 1} /\ more[Len(runs) + 1] = r
      /\ \A k \in DOMAIN runs : more[k] = runs[k]
  BY <1>0
<1>2. PICK v : v = [n \in DOMAIN runs |-> TakenBy(runs[n].items, a)]
  OBVIOUS
<1>3. Weighs(v, DOMAIN runs) /\ TakenIn(runs, a) = SumFunctionOnSet(v, DOMAIN runs)
  BY <1>2, TakenInIs
<1>4. PICK w : w = [n \in DOMAIN more |-> TakenBy(more[n].items, a)]
  OBVIOUS
<1>5. Weighs(w, DOMAIN more) /\ TakenIn(more, a) = SumFunctionOnSet(w, DOMAIN more)
  BY <1>1, <1>4, TakenInIs
<1>6. Weighs(w, DOMAIN runs) /\ SumFunctionOnSet(w, DOMAIN runs) = SumFunctionOnSet(v, DOMAIN runs)
  <2>1. (\A n \in DOMAIN runs : v[n] = w[n]) /\ DOMAIN runs \subseteq DOMAIN more
    BY <1>1, <1>2, <1>4
  <2>2. Weighs(w, DOMAIN runs)
    BY <1>5, <2>1, FS_Subset DEF Weighs
  <2> QED
    BY <1>3, <2>1, <2>2, SumIsSame
<1>10. Len(runs) + 1 \in DOMAIN more /\ Len(runs) + 1 \notin DOMAIN runs
  BY <1>1
<1>11. w[Len(runs) + 1] \in Int
  BY <1>5, <1>10 DEF Weighs
<1>7. /\ Len(runs) + 1 \notin DOMAIN runs /\ w[Len(runs) + 1] = TakenBy(r.items, a)
      /\ TakenBy(r.items, a) \in Int
  BY <1>1, <1>4, <1>10, <1>11
<1>8. SumFunctionOnSet(w, DOMAIN more) = SumFunctionOnSet(w, DOMAIN runs) + TakenBy(r.items, a)
  <2>1. w[Len(runs) + 1] \in Int /\ Len(runs) + 1 \notin DOMAIN runs
    BY <1>10, <1>11
  <2>2. SumFunctionOnSet(w, DOMAIN runs \cup {Len(runs) + 1})
        = SumFunctionOnSet(w, DOMAIN runs) + w[Len(runs) + 1]
    BY <1>6, <2>1, SumOfMore
  <2> QED
    BY <1>1, <1>7, <2>2
<1>9. TakenIn(runs, a) \in Int
  BY <1>3, SumIsInt
<1> QED
  BY <1>0, <1>1, <1>3, <1>5, <1>6, <1>7, <1>8, <1>9

LEMMA RunsTake ==
    ASSUME NEW s \in Seq(RunRecs), NEW t \in Seq(RunRecs), NEW a
    PROVE  TakenIn(s \o t, a) = TakenIn(s, a) + TakenIn(t, a)
<1> DEFINE First(n) == SubSeq(t, 1, n)
<1>1. PICK N : N = {n \in Nat : n <= Len(t) =>
                       TakenIn(s \o First(n), a) = TakenIn(s, a) + TakenIn(First(n), a)}
  OBVIOUS
<1>2. Len(t) \in Nat /\ First(0) = <<>> /\ First(Len(t)) = t /\ s \o <<>> = s
  OBVIOUS
<1>3. 0 \in N
  <2>1. TakenIn(<<>>, a) = 0
    BY NoRunsTake
  <2>2. TakenIn(s, a) \in Int
    BY TakenInIs, SumIsInt
  <2>3. TakenIn(s \o First(0), a) = TakenIn(s, a) + TakenIn(First(0), a)
    <3>1. First(0) = <<>> /\ s \o First(0) = s
      BY <1>2
    <3>2. TakenIn(s \o First(0), a) = TakenIn(s, a) /\ TakenIn(First(0), a) = TakenIn(<<>>, a)
      BY <3>1, Zenon
    <3> HIDE DEF First
    <3> QED
      BY <2>1, <2>2, <3>2
  <2> QED
    BY <1>1, <2>3
<1>4. ASSUME NEW n \in N PROVE n + 1 \in N
  <2> SUFFICES ASSUME n + 1 <= Len(t)
               PROVE  TakenIn(s \o First(n + 1), a) = TakenIn(s, a) + TakenIn(First(n + 1), a)
    BY <1>1
  <2>0. n \in Nat /\ n <= Len(t) /\ n + 1 \in DOMAIN t
    BY <1>1, <1>2
  <2>1. PICK r : r = t[n + 1]
    OBVIOUS
  <2>2. PICK u : u = First(n)
    OBVIOUS
  <2>3. r \in RunRecs /\ u \in Seq(RunRecs) /\ s \o u \in Seq(RunRecs)
    BY <2>0, <2>1, <2>2
  <2>4. First(n + 1) = Append(u, r)
    BY <2>0, <2>1, <2>2
  <2>5. s \o Append(u, r) = Append(s \o u, r)
    BY <2>3
  <2>11. PICK w \in Seq(RunRecs) : w = s \o u
    BY <2>3
  <2>6. TakenIn(Append(s \o u, r), a) = TakenIn(s \o u, a) + TakenBy(r.items, a)
    <3>1. TakenIn(Append(w, r), a) = TakenIn(w, a) + TakenBy(r.items, a)
      BY <2>3, RunTakes
    <3> QED
      BY <2>11, <3>1
  <2>7. TakenIn(Append(u, r), a) = TakenIn(u, a) + TakenBy(r.items, a)
    BY <2>3, RunTakes
  <2>8. TakenIn(s \o u, a) = TakenIn(s, a) + TakenIn(u, a)
    BY <1>1, <2>0, <2>2
  <2>9. TakenIn(s, a) \in Int /\ TakenIn(u, a) \in Int /\ TakenBy(r.items, a) \in Int
    BY <2>3, RunTakes
  <2>10. /\ TakenIn(s \o First(n + 1), a) = TakenIn(Append(s \o u, r), a)
         /\ TakenIn(First(n + 1), a) = TakenIn(Append(u, r), a)
    BY <2>4, <2>5, Zenon
  <2> HIDE DEF First
  <2> QED
    BY <2>6, <2>7, <2>8, <2>9, <2>10
<1>5. N = Nat
  BY <1>1, <1>3, <1>4, FromZeroOn
<1>6. TakenIn(s \o First(Len(t)), a) = TakenIn(s, a) + TakenIn(First(Len(t)), a)
  BY <1>1, <1>2, <1>5
<1> QED
  BY <1>2, <1>6
-----------------------------------------------------------------------------
(* What a call in a run holds: the runs it has finished and is in, each of  *)
(* them under an act that was not yet run for the year when it began; of    *)
(* the assets, what these runs take.                                        *)
SeenRecs == [act : Nat, saw : Nat, read : [DOMAIN accumulated -> Int], left : SUBSET DOMAIN accumulated,
             done : SUBSET DOMAIN accumulated, items : Seq(ItemRecs), own : [DOMAIN accumulated -> Int],
             before : Seq(RunRecs)]
CurrentRun(c, s) ==
    [year |-> deprAsked.calls[c].year, act |-> deprAsked.calls[c].acts[s.act], by |-> c, saw |-> s.saw,
     items |-> s.items]
Runs(c, s) == Append(s.before, CurrentRun(c, s))
OfCall(c, r, act) ==
    /\ r.year = deprAsked.calls[c].year /\ r.act = act /\ r.by = c /\ r.saw <= Len(deprRuns)
    /\ \A m \in 1 .. r.saw : ~(deprRuns[m].year = r.year /\ deprRuns[m].act = act)

(* As long as nothing was committed since, the rows are what it read.       *)
UpToDate(runs) == \A k \in DOMAIN runs : runs[k].saw = Len(deprRuns)
LeavesRoom(own) == \A a \in DOMAIN accumulated : accumulated[a] + own[a] <= deprAsked.assets[a].value
Carried(c, s) ==
    /\ s \in SeenRecs /\ s.act \in DOMAIN deprAsked.calls[c].acts /\ Len(s.before) = s.act - 1
    /\ \A k \in DOMAIN Runs(c, s) : OfCall(c, Runs(c, s)[k], deprAsked.calls[c].acts[k])
    /\ \A a \in DOMAIN accumulated : s.own[a] = TakenIn(Runs(c, s), a)
    /\ s.saw = Len(deprRuns) => \A a \in s.left : s.read[a] = accumulated[a] + s.own[a]
    /\ NoOverlaps /\ UpToDate(Runs(c, s)) => LeavesRoom(s.own)

DeprTypes ==
    /\ deprAsked \in DeprSettings
    /\ deprStep \in [DeprCall -> {"start", "running", "done", "refused"}]
    /\ deprSeen = [c \in DeprCall |-> deprSeen[c]]
    /\ accumulated \in [DOMAIN deprAsked.assets -> Int]
    /\ deprRuns \in Seq(RunRecs)
RunsAreCarried == \A c \in DOMAIN deprAsked.calls : deprStep[c] = "running" => Carried(c, deprSeen[c])
RunByTheDone == \A n \in DOMAIN deprRuns : deprStep[deprRuns[n].by] = "done"
DeprInv == DeprTypes /\ RunsAreCarried /\ RunByTheDone /\ DepreciationAddsUp

LEMMA DeprAsks ==
    ASSUME DeprTypes, NEW c \in DOMAIN deprAsked.calls
    PROVE  /\ c \in DeprCall /\ deprAsked.calls[c].year \in Int
           /\ deprAsked.calls[c].acts \in Seq(Acts) /\ Len(deprAsked.calls[c].acts) \in {1, 2}
           /\ \A i, j \in DOMAIN deprAsked.calls[c].acts :
                 i # j => deprAsked.calls[c].acts[i] # deprAsked.calls[c].acts[j]
<1>1. PICK acts : acts = deprAsked.calls[c].acts
  OBVIOUS
<1>2. /\ c \in DeprCall /\ deprAsked.calls[c].year \in Int
      /\ acts \in {<<"INCOME_TAX">>, <<"COMPANIES_ACT">>, <<"INCOME_TAX", "COMPANIES_ACT">>}
  BY <1>1, DepreciationAssumption DEF DeprTypes
<1>3. /\ acts \in Seq(Acts) /\ Len(acts) \in {1, 2}
      /\ \A i, j \in DOMAIN acts : i # j => acts[i] # acts[j]
  <2>1. CASE acts = <<"INCOME_TAX">>
    BY <2>1 DEF Acts
  <2>2. CASE acts = <<"COMPANIES_ACT">>
    BY <2>2 DEF Acts
  <2>3. CASE acts = <<"INCOME_TAX", "COMPANIES_ACT">>
    BY <2>3 DEF Acts
  <2> QED
    BY <1>2, <2>1, <2>2, <2>3
<1> QED
  BY <1>1, <1>2, <1>3

(* The runs of a call.                                                      *)
LEMMA RunsAre ==
    ASSUME DeprTypes, NEW c \in DOMAIN deprAsked.calls, NEW s, s.before \in Seq(RunRecs), s.saw \in Nat,
           s.items \in Seq(ItemRecs), s.act \in DOMAIN deprAsked.calls[c].acts, Len(s.before) = s.act - 1
    PROVE  /\ CurrentRun(c, s) \in RunRecs /\ Runs(c, s) \in Seq(RunRecs)
           /\ CurrentRun(c, s).year = deprAsked.calls[c].year /\ CurrentRun(c, s).by = c
           /\ CurrentRun(c, s).act = deprAsked.calls[c].acts[s.act]
           /\ CurrentRun(c, s).saw = s.saw /\ CurrentRun(c, s).items = s.items
           /\ Len(Runs(c, s)) = s.act /\ s.act \in Nat \ {0} /\ DOMAIN Runs(c, s) = 1 .. s.act
           /\ DOMAIN s.before = 1 .. s.act - 1
           /\ Runs(c, s)[s.act] = CurrentRun(c, s)
           /\ \A k \in 1 .. s.act - 1 : Runs(c, s)[k] = s.before[k]
           /\ \A a : TakenIn(Runs(c, s), a) = TakenIn(s.before, a) + TakenBy(s.items, a)
<1>1. PICK r : r = CurrentRun(c, s)
  OBVIOUS
<1>2. deprAsked.calls[c].acts[s.act] \in Acts /\ c \in DeprCall /\ deprAsked.calls[c].year \in Int
      /\ s.act \in Nat \ {0}
  BY DeprAsks
<1>3. /\ r.year = deprAsked.calls[c].year /\ r.by = c /\ r.act = deprAsked.calls[c].acts[s.act]
      /\ r.saw = s.saw /\ r.items = s.items
      /\ r = [year |-> r.year, act |-> r.act, by |-> r.by, saw |-> r.saw, items |-> r.items]
  BY <1>1 DEF CurrentRun
<1>4. r \in RunRecs
  BY <1>2, <1>3 DEF RunRecs
<1>5. PICK b : b = s.before
  OBVIOUS
<1>6. PICK f : f = Append(b, r)
  OBVIOUS
<1>7. /\ f \in Seq(RunRecs) /\ Len(f) = s.act /\ DOMAIN f = 1 .. s.act /\ DOMAIN b = 1 .. s.act - 1
      /\ f[s.act] = r /\ \A k \in 1 .. s.act - 1 : f[k] = b[k]
  BY <1>2, <1>4, <1>5, <1>6
<1>8. \A a : TakenIn(f, a) = TakenIn(b, a) + TakenBy(r.items, a)
  BY <1>4, <1>5, <1>6, RunTakes
<1>9. f = Runs(c, s)
  BY <1>1, <1>5, <1>6 DEF Runs
<1> QED
  BY <1>1, <1>2, <1>3, <1>4, <1>5, <1>7, <1>8, <1>9

LEMMA DeprStarts == DeprInit => DeprInv
<1> SUFFICES ASSUME DeprInit PROVE DeprInv
  OBVIOUS
<1>1. deprRuns = <<>> /\ DOMAIN deprRuns = {} /\ deprAsked \in DeprSettings
  BY DEF DeprInit
<1>2. DeprTypes
  BY <1>1 DEF DeprInit, DeprTypes
<1>3. RunsAreCarried
  <2>1. DOMAIN deprAsked.calls \subseteq DeprCall
    BY <1>1, DepreciationAssumption
  <2> QED
    BY <2>1 DEF DeprInit, RunsAreCarried
<1>4. AccumulatedMatchesRuns
  BY <1>1, NoRunsTake DEF DeprInit, AccumulatedMatchesRuns
<1>5. NothingBelowZero
  <2>1. \A a \in DOMAIN deprAsked.assets : deprAsked.assets[a].value \in Nat
    BY <1>1, DepreciationAssumption
  <2> QED
    BY <2>1 DEF DeprInit, NothingBelowZero
<1> QED
  BY <1>1, <1>2, <1>3, <1>4, <1>5 DEF DeprInv, RunByTheDone, DepreciationAddsUp, DepreciatedOnce

-----------------------------------------------------------------------------
(* A step of one call that commits nothing leaves what the others carry.    *)
LEMMA DeprGoesOn ==
    ASSUME DeprInv, NEW c \in DOMAIN deprAsked.calls, deprStep[c] # "done",
           NEW to \in {"running", "refused"}, NEW what, DeprTo(c, to, what),
           UNCHANGED <<deprAsked, accumulated, deprRuns>>, to = "running" => Carried(c, what)
    PROVE  DeprInv'
<1>1. c \in DeprCall /\ DOMAIN deprAsked.calls \subseteq DeprCall
  BY DeprAsks DEF DeprInv
<1>2. /\ deprStep' \in [DeprCall -> {"start", "running", "done", "refused"}]
      /\ deprSeen' = [d \in DeprCall |-> deprSeen'[d]]
      /\ deprStep'[c] = to /\ deprSeen'[c] = what
      /\ \A d \in DeprCall \ {c} : deprStep'[d] = deprStep[d] /\ deprSeen'[d] = deprSeen[d]
  BY <1>1 DEF DeprTo, DeprInv, DeprTypes
<1>3. DeprTypes'
  BY <1>2 DEF DeprInv, DeprTypes
<1>4. RunsAreCarried'
  <2> SUFFICES ASSUME NEW d \in DOMAIN deprAsked.calls, deprStep'[d] = "running"
               PROVE  Carried(d, deprSeen[d])'
    BY DEF RunsAreCarried
  <2>1. PICK s : s = deprSeen'[d]
    OBVIOUS
  <2>2. Carried(d, s)
    BY <1>1, <1>2, <2>1 DEF DeprInv, RunsAreCarried
  <2> QED
    BY <2>1, <2>2, SMTT(30) DEF Carried, SeenRecs, Runs, CurrentRun, OfCall, UpToDate, LeavesRoom, NoOverlaps, Overlap
<1>5. RunByTheDone'
  <2>1. \A n \in DOMAIN deprRuns : deprRuns[n].by \in DeprCall
    <3>1. \A n \in DOMAIN deprRuns : deprRuns[n] \in RunRecs
      BY DEF DeprInv, DeprTypes
    <3> QED
      BY <3>1 DEF RunRecs
  <2> QED
    BY <1>1, <1>2, <2>1 DEF DeprInv, RunByTheDone
<1>6. DepreciationAddsUp'
  BY DEF DeprInv, DepreciationAddsUp, AccumulatedMatchesRuns, NothingBelowZero, DepreciatedOnce, NoOverlaps, Overlap
<1> QED
  BY <1>3, <1>4, <1>5, <1>6 DEF DeprInv

(* A run that begins: it has seen every run on record, none of them under   *)
(* its act for its year.                                                    *)
LEMMA RunBegins ==
    ASSUME DeprInv, NEW c \in DOMAIN deprAsked.calls, NEW i \in DOMAIN deprAsked.calls[c].acts,
           ~AlreadyRun(deprAsked.calls[c].year, deprAsked.calls[c].acts[i]),
           NEW before \in Seq(RunRecs), Len(before) = i - 1,
           \A k \in DOMAIN before : OfCall(c, before[k], deprAsked.calls[c].acts[k]),
           NEW own \in [DOMAIN accumulated -> Int], \A a \in DOMAIN accumulated : own[a] = TakenIn(before, a),
           NEW held \in SUBSET DOMAIN accumulated, NoOverlaps /\ UpToDate(before) => LeavesRoom(own)
    PROVE  Carried(c, NewRun(c, i, held, own, before))
<1>1. PICK s : s = NewRun(c, i, held, own, before)
  OBVIOUS
<1>2. /\ s.act = i /\ s.saw = Len(deprRuns) /\ s.read = [a \in DOMAIN accumulated |-> accumulated[a] + own[a]]
      /\ s.left = ToDepreciate(deprAsked.calls[c].year) /\ s.done = held /\ s.items = <<>>
      /\ s.own = own /\ s.before = before
      /\ s = [act |-> s.act, saw |-> s.saw, read |-> s.read, left |-> s.left, done |-> s.done,
              items |-> s.items, own |-> s.own, before |-> s.before]
  BY <1>1 DEF NewRun
<1>3. accumulated \in [DOMAIN accumulated -> Int] /\ deprRuns \in Seq(RunRecs) /\ Len(deprRuns) \in Nat
      /\ DeprTypes /\ i \in Nat /\ <<>> \in Seq(ItemRecs)
  BY DeprAsks DEF DeprInv, DeprTypes
<1>4. s \in SeenRecs
  <2>1. s.read \in [DOMAIN accumulated -> Int] /\ s.left \in SUBSET DOMAIN accumulated
    BY <1>2, <1>3 DEF ToDepreciate
  <2> QED
    BY <1>2, <1>3, <2>1 DEF SeenRecs
<1>5. PICK f : f = Runs(c, s)
  OBVIOUS
<1>6. PICK r : r = CurrentRun(c, s)
  OBVIOUS
<1>0. /\ s.before \in Seq(RunRecs) /\ s.saw \in Nat /\ s.items \in Seq(ItemRecs)
      /\ s.act \in DOMAIN deprAsked.calls[c].acts /\ Len(s.before) = s.act - 1
  BY <1>2, <1>3
<1>7. /\ r.year = deprAsked.calls[c].year /\ r.by = c /\ r.act = deprAsked.calls[c].acts[i]
      /\ r.saw = Len(deprRuns) /\ DOMAIN f = 1 .. i /\ DOMAIN before = 1 .. i - 1
      /\ f[i] = r /\ (\A k \in 1 .. i - 1 : f[k] = before[k])
      /\ \A a : TakenIn(f, a) = TakenIn(before, a) + TakenBy(<<>>, a)
  <2>1. /\ r.year = deprAsked.calls[c].year /\ r.by = c /\ r.act = deprAsked.calls[c].acts[s.act]
        /\ r.saw = s.saw /\ DOMAIN f = 1 .. s.act /\ DOMAIN s.before = 1 .. s.act - 1
        /\ f[s.act] = r /\ (\A k \in 1 .. s.act - 1 : f[k] = s.before[k])
        /\ \A a : TakenIn(f, a) = TakenIn(s.before, a) + TakenBy(s.items, a)
    BY <1>0, <1>3, <1>5, <1>6, RunsAre
  <2> QED
    BY <1>2, <2>1
<1>8. \A k \in DOMAIN f : OfCall(c, f[k], deprAsked.calls[c].acts[k])
  <2>1. OfCall(c, r, deprAsked.calls[c].acts[i])
    <3>1. DOMAIN deprRuns = 1 .. Len(deprRuns)
      BY <1>3
    <3> QED
      BY <1>3, <1>7, <3>1 DEF OfCall, AlreadyRun
  <2> QED
    BY <1>3, <1>7, <2>1
<1>9. \A a \in DOMAIN accumulated : s.own[a] = TakenIn(f, a)
  <2> SUFFICES ASSUME NEW a \in DOMAIN accumulated PROVE s.own[a] = TakenIn(f, a)
    OBVIOUS
  <2>1. TakenIn(f, a) = TakenIn(before, a) + 0 /\ own[a] = TakenIn(before, a) /\ own[a] \in Int
    BY <1>7, NoItemsTake
  <2> QED
    BY <1>2, <2>1
<1>10. \A a \in s.left : s.read[a] = accumulated[a] + s.own[a]
  BY <1>2 DEF ToDepreciate
<1>11. UpToDate(f) => UpToDate(before)
  BY <1>3, <1>7 DEF UpToDate
<1>12. Carried(c, s)
  BY <1>2, <1>4, <1>5, <1>8, <1>9, <1>10, <1>11 DEF Carried
<1> QED
  BY <1>1, <1>12

LEMMA DeprBegins == ASSUME DeprInv, NEW c \in DeprCall, BeginRun(c) PROVE DeprInv'
<1>1. c \in DOMAIN deprAsked.calls /\ deprStep[c] # "done" /\ UNCHANGED <<deprAsked, accumulated, deprRuns>>
  BY DEF BeginRun, DeprIs
<1>2. PICK year : year = deprAsked.calls[c].year
  OBVIOUS
<1>3. PICK act : act = deprAsked.calls[c].acts[1]
  OBVIOUS
<1>4. CASE AlreadyRun(year, act)
  <2>1. DeprTo(c, "refused", <<>>)
    BY <1>2, <1>3, <1>4 DEF BeginRun
  <2> QED
    BY <1>1, <2>1, DeprGoesOn
<1>5. CASE ~AlreadyRun(year, act)
  <2>1. PICK s : s = NewRun(c, 1, {}, Untouched, <<>>)
    OBVIOUS
  <2>2. DeprTo(c, "running", s)
    BY <1>2, <1>3, <1>5, <2>1 DEF BeginRun
  <2>3. 1 \in DOMAIN deprAsked.calls[c].acts
    BY <1>1, DeprAsks DEF DeprInv
  <2>4. PICK own : own = Untouched
    OBVIOUS
  <2>5. own \in [DOMAIN accumulated -> Int] /\ \A a \in DOMAIN accumulated : own[a] = TakenIn(<<>>, a)
    BY <2>4, NoRunsTake DEF Untouched
  <2>6. NoOverlaps => LeavesRoom(own)
    <3>1. \A a \in DOMAIN accumulated : own[a] = 0 /\ accumulated[a] \in Int
      BY <2>4 DEF Untouched, DeprInv, DeprTypes
    <3>2. NoOverlaps => \A a \in DOMAIN accumulated : accumulated[a] <= deprAsked.assets[a].value
      BY DEF DeprInv, DepreciationAddsUp, NothingBelowZero
    <3> QED
      BY <3>1, <3>2 DEF LeavesRoom
  <2>7. <<>> \in Seq(RunRecs) /\ Len(<<>>) = 1 - 1 /\ DOMAIN <<>> = {} /\ {} \in SUBSET DOMAIN accumulated
    OBVIOUS
  <2>8. Carried(c, NewRun(c, 1, {}, own, <<>>))
    BY <1>1, <1>2, <1>3, <1>5, <2>3, <2>5, <2>6, <2>7, RunBegins
  <2> QED
    BY <1>1, <2>1, <2>2, <2>4, <2>8, DeprGoesOn
<1> QED
  BY <1>4, <1>5

(* The next asset of a run.                                                 *)
LEMMA YearTakes ==
    ASSUME NEW asset, asset.value \in Int, asset.residual \in Int, asset.rate \in Int, asset.slm \in Int,
           asset.bought \in Int, NEW act, NEW wdv \in Int, NEW y \in Int
    PROVE  ForYear(asset, act, wdv, y) \in Int /\ ForYear(asset, act, wdv, y) <= wdv
<1>1. \A a, b \in Int : OfRate(a, b) \in Int
  BY DEF OfRate
<1>2. \A n \in Int : Half(n) \in Int
  BY DEF Half
<1>3. IncomeTax(asset, wdv, y) \in Int
  BY <1>1, <1>2 DEF IncomeTax
<1>4. StraightLine(asset, y) \in Int
  <2>1. PICK whole : whole = OfRate(asset.value - asset.residual, asset.slm)
    OBVIOUS
  <2>0. PICK base \in Int : base = asset.value - asset.residual
    OBVIOUS
  <2>2. whole \in Int /\ End(y) - asset.bought \in Int
    <3>1. whole = OfRate(base, asset.slm)
      BY <2>0, <2>1
    <3>2. whole \in Int
      BY <1>1, <2>0, <3>1
    <3> QED
      BY <3>2 DEF End
  <2>3. 2 * whole * (End(y) - asset.bought) + 365 \in Int
    BY <2>2
  <2>4. (2 * whole * (End(y) - asset.bought) + 365) \div 730 \in Int
    BY <2>3
  <2> QED
    BY <2>1, <2>2, <2>4 DEF StraightLine
<1>5. Method(asset, act, wdv, y) \in Int
  BY <1>1, <1>3, <1>4 DEF Method
<1> QED
  BY <1>5 DEF ForYear

LEMMA AssetDepreciates == ASSUME DeprInv, NEW c \in DeprCall, DepreciateAsset(c) PROVE DeprInv'
<1>1. /\ c \in DOMAIN deprAsked.calls /\ deprStep[c] = "running" /\ UNCHANGED <<deprAsked, accumulated, deprRuns>>
      /\ DeprTypes
  BY DEF DepreciateAsset, DeprIs, DeprInv
<1>2. PICK s : s = deprSeen[c]
  OBVIOUS
<1>3. Carried(c, s)
  BY <1>1, <1>2 DEF DeprInv, RunsAreCarried
<1>4. s.left # {} /\ s.left \subseteq DOMAIN accumulated /\ DOMAIN accumulated \subseteq Nat
  BY <1>1, <1>2, <1>3, DepreciationAssumption DEF DepreciateAsset, Carried, SeenRecs, DeprTypes
<1>5. PICK a : a = Min(s.left)
  OBVIOUS
<1>6. a \in s.left /\ a \in DOMAIN accumulated /\ a \in Nat
  BY <1>4, <1>5, LeastIsThere
<1>7. PICK asset : asset = deprAsked.assets[a]
  OBVIOUS
<1>8. /\ asset.value \in Int /\ asset.residual \in Int /\ asset.rate \in Int /\ asset.slm \in Int
      /\ asset.bought \in Int /\ DOMAIN accumulated = DOMAIN deprAsked.assets
  BY <1>1, <1>6, <1>7, DepreciationAssumption DEF DeprTypes
<1>9. PICK it : it = DeprItem(asset, deprAsked.calls[c].acts[s.act], a, asset.value - s.read[a], deprAsked.calls[c].year)
  OBVIOUS
<1>10. it \in ItemRecs /\ it.asset = a /\ it.amount \in Int /\ it.amount <= asset.value - s.read[a]
       /\ s.read[a] \in Int
  <2>1. s.read[a] \in Int
    BY <1>3, <1>6 DEF Carried, SeenRecs
  <2>2. PICK wdv \in Int : wdv = asset.value - s.read[a]
    BY <1>8, <2>1
  <2>3. deprAsked.calls[c].year \in Int
    BY <1>1, DeprAsks
  <2>4. PICK amount : amount = ForYear(asset, deprAsked.calls[c].acts[s.act], wdv, deprAsked.calls[c].year)
    OBVIOUS
  <2>5. amount \in Int /\ amount <= wdv
    BY <1>8, <2>3, <2>4, YearTakes
  <2>6. it = [asset |-> a, opening |-> wdv, amount |-> amount]
    BY <1>9, <2>2, <2>4 DEF DeprItem
  <2> QED
    BY <1>6, <2>1, <2>2, <2>5, <2>6 DEF ItemRecs
<1>11. PICK t : t = [s EXCEPT !.left = @ \ {a}, !.done = @ \cup {a}, !.items = Append(@, it),
                              !.own[a] = AddToRow(a, s, it.amount)]
  OBVIOUS
<1>12. DeprTo(c, "running", t)
  BY <1>2, <1>5, <1>7, <1>9, <1>11 DEF DepreciateAsset
<1>13. Carried(c, t)
  <2>1. /\ s \in SeenRecs /\ s.act \in DOMAIN deprAsked.calls[c].acts /\ Len(s.before) = s.act - 1
        /\ s.before \in Seq(RunRecs) /\ s.saw \in Nat /\ s.items \in Seq(ItemRecs)
        /\ s.own \in [DOMAIN accumulated -> Int] /\ s.left \subseteq DOMAIN accumulated
        /\ s.done \subseteq DOMAIN accumulated /\ s.act \in Nat /\ s.read \in [DOMAIN accumulated -> Int]
    BY <1>3 DEF Carried, SeenRecs
  <2>2. /\ t.act = s.act /\ t.saw = s.saw /\ t.read = s.read /\ t.left = s.left \ {a}
        /\ t.done = s.done \cup {a} /\ t.items = Append(s.items, it) /\ t.before = s.before
        /\ t.own = [s.own EXCEPT ![a] = s.own[a] + it.amount]
        /\ t = [act |-> t.act, saw |-> t.saw, read |-> t.read, left |-> t.left, done |-> t.done,
                items |-> t.items, own |-> t.own, before |-> t.before]
    BY <1>11, <2>1 DEF SeenRecs, AddToRow
  <2>3. t.items \in Seq(ItemRecs)
    BY <1>10, <2>1, <2>2, ItemTakes
  <2>4. t.own \in [DOMAIN accumulated -> Int]
    BY <1>6, <1>10, <2>1, <2>2
  <2>5. t \in SeenRecs
    BY <1>6, <2>1, <2>2, <2>3, <2>4 DEF SeenRecs
  <2>6. PICK f : f = Runs(c, s)
    OBVIOUS
  <2>7. PICK g : g = Runs(c, t)
    OBVIOUS
  <2>8. /\ DOMAIN f = 1 .. s.act /\ f[s.act].year = deprAsked.calls[c].year /\ f[s.act].by = c
        /\ f[s.act].act = deprAsked.calls[c].acts[s.act] /\ f[s.act].saw = s.saw
        /\ (\A k \in 1 .. s.act - 1 : f[k] = s.before[k]) /\ s.act \in 1 .. s.act
        /\ \A b : TakenIn(f, b) = TakenIn(s.before, b) + TakenBy(s.items, b)
    BY <1>1, <2>1, <2>6, RunsAre, SMTT(30)
  <2>9. /\ DOMAIN g = 1 .. t.act /\ g[t.act].year = deprAsked.calls[c].year /\ g[t.act].by = c
        /\ g[t.act].act = deprAsked.calls[c].acts[t.act] /\ g[t.act].saw = t.saw
        /\ (\A k \in 1 .. t.act - 1 : g[k] = t.before[k])
        /\ \A b : TakenIn(g, b) = TakenIn(t.before, b) + TakenBy(t.items, b)
    <3>1. /\ t.before \in Seq(RunRecs) /\ t.saw \in Nat /\ t.act \in DOMAIN deprAsked.calls[c].acts
          /\ Len(t.before) = t.act - 1
      BY <2>1, <2>2
    <3> QED
      BY <1>1, <2>3, <2>7, <3>1, RunsAre
  <2>10. \A k \in DOMAIN f : k \in DOMAIN g /\ g[k].year = f[k].year /\ g[k].by = f[k].by
                                 /\ g[k].act = f[k].act /\ g[k].saw = f[k].saw
    <3> SUFFICES ASSUME NEW k \in DOMAIN f
                 PROVE  k \in DOMAIN g /\ g[k].year = f[k].year /\ g[k].by = f[k].by
                        /\ g[k].act = f[k].act /\ g[k].saw = f[k].saw
      OBVIOUS
    <3>1. CASE k = s.act
      BY <2>2, <2>8, <2>9, <3>1
    <3>2. CASE k # s.act
      <4>1. k \in 1 .. s.act - 1
        BY <2>1, <2>8, <3>2
      <4> QED
        BY <2>2, <2>8, <2>9, <4>1
    <3> QED
      BY <3>1, <3>2
  <2>11. DOMAIN f = DOMAIN g
    BY <2>2, <2>8, <2>9
  <2>12. \A k \in DOMAIN g : OfCall(c, g[k], deprAsked.calls[c].acts[k])
    <3>1. \A k \in DOMAIN f : OfCall(c, f[k], deprAsked.calls[c].acts[k])
      BY <1>3, <2>6 DEF Carried
    <3> QED
      BY <2>10, <2>11, <3>1 DEF OfCall
  <2>13. \A b \in DOMAIN accumulated : t.own[b] = TakenIn(g, b)
    <3> SUFFICES ASSUME NEW b \in DOMAIN accumulated PROVE t.own[b] = TakenIn(g, b)
      OBVIOUS
    <3>1. s.own[b] = TakenIn(s.before, b) + TakenBy(s.items, b)
      BY <1>3, <2>6, <2>8 DEF Carried
    <3>2. /\ TakenBy(t.items, b) = TakenBy(s.items, b) + (IF it.asset = b THEN it.amount ELSE 0)
          /\ TakenBy(s.items, b) \in Int
      BY <1>10, <2>1, <2>2, ItemTakes
    <3>3. TakenIn(s.before, b) \in Int
      <4>1. PICK u \in Seq(RunRecs) : u = s.before
        BY <2>1
      <4>2. TakenIn(u, b) \in Int
        BY TakenInIs, SumIsInt
      <4> QED
        BY <4>1, <4>2
    <3>4. t.own[b] = s.own[b] + (IF it.asset = b THEN it.amount ELSE 0)
      BY <1>10, <2>1, <2>2
    <3>5. TakenIn(g, b) = TakenIn(s.before, b) + TakenBy(t.items, b)
      BY <2>2, <2>9
    <3> QED
      BY <1>10, <3>1, <3>2, <3>3, <3>4, <3>5
  <2>14. s.saw = Len(deprRuns) => \A b \in s.left : s.read[b] = accumulated[b] + s.own[b]
    BY <1>3 DEF Carried
  <2>15. t.saw = Len(deprRuns) => \A b \in t.left : t.read[b] = accumulated[b] + t.own[b]
    BY <2>1, <2>2, <2>14
  <2>16. NoOverlaps /\ UpToDate(g) => LeavesRoom(t.own)
    <3> SUFFICES ASSUME NoOverlaps, UpToDate(g) PROVE LeavesRoom(t.own)
      OBVIOUS
    <3>1. UpToDate(f)
      BY <2>10, <2>11 DEF UpToDate
    <3>2. LeavesRoom(s.own)
      BY <1>3, <2>6, <3>1 DEF Carried
    <3>3. s.saw = Len(deprRuns)
      BY <2>8, <3>1 DEF UpToDate
    <3>4. accumulated[a] \in Int /\ s.own[a] \in Int /\ s.read[a] = accumulated[a] + s.own[a]
      BY <1>1, <1>6, <2>1, <2>14, <3>3 DEF DeprTypes
    <3>7. t.own[a] = s.own[a] + it.amount
      BY <1>6, <2>1, <2>2
    <3>8. it.amount <= asset.value - (accumulated[a] + s.own[a])
      BY <1>10, <3>4
    <3>9. accumulated[a] + t.own[a] <= asset.value
      BY <1>8, <1>10, <3>4, <3>7, <3>8
    <3>5. accumulated[a] + t.own[a] <= deprAsked.assets[a].value
      BY <1>7, <3>9
    <3>6. \A b \in DOMAIN accumulated \ {a} : t.own[b] = s.own[b]
      BY <2>1, <2>2
    <3> QED
      BY <3>2, <3>5, <3>6 DEF LeavesRoom
  <2> QED
    BY <2>1, <2>2, <2>5, <2>7, <2>12, <2>13, <2>15, <2>16 DEF Carried
<1> QED
  BY <1>1, <1>12, <1>13, DeprGoesOn

LEMMA ActFollows == ASSUME DeprInv, NEW c \in DeprCall, NextAct(c) PROVE DeprInv'
<1>1. /\ c \in DOMAIN deprAsked.calls /\ deprStep[c] = "running" /\ UNCHANGED <<deprAsked, accumulated, deprRuns>>
      /\ DeprTypes
  BY DEF NextAct, DeprIs, DeprInv
<1>2. PICK s : s = deprSeen[c]
  OBVIOUS
<1>3. Carried(c, s) /\ s.act < Len(deprAsked.calls[c].acts)
  BY <1>1, <1>2 DEF DeprInv, RunsAreCarried, NextAct
<1>4. PICK year : year = deprAsked.calls[c].year
  OBVIOUS
<1>5. PICK act : act = deprAsked.calls[c].acts[s.act + 1]
  OBVIOUS
<1>6. CASE AlreadyRun(year, act)
  <2>1. DeprTo(c, "refused", <<>>)
    BY <1>2, <1>4, <1>5, <1>6 DEF NextAct
  <2> QED
    BY <1>1, <2>1, DeprGoesOn
<1>7. CASE ~AlreadyRun(year, act)
  <2>1. PICK f : f = Runs(c, s)
    OBVIOUS
  <2>2. f = Finished(c)
    BY <1>2, <2>1 DEF Finished, Runs, CurrentRun
  <2>3. DeprTo(c, "running", NewRun(c, s.act + 1, s.done, s.own, f))
    BY <1>2, <1>4, <1>5, <1>7, <2>2 DEF NextAct
  <2>4. /\ s.before \in Seq(RunRecs) /\ s.saw \in Nat /\ s.items \in Seq(ItemRecs)
        /\ s.act \in DOMAIN deprAsked.calls[c].acts /\ Len(s.before) = s.act - 1
        /\ s.own \in [DOMAIN accumulated -> Int] /\ s.done \in SUBSET DOMAIN accumulated
    BY <1>3 DEF Carried, SeenRecs
  <2>5. f \in Seq(RunRecs) /\ Len(f) = s.act /\ s.act \in Nat
    BY <1>1, <2>1, <2>4, RunsAre
  <2>6. s.act + 1 \in DOMAIN deprAsked.calls[c].acts /\ Len(f) = (s.act + 1) - 1
    <3>1. deprAsked.calls[c].acts \in Seq(Acts)
      BY <1>1, DeprAsks
    <3> QED
      BY <1>3, <2>5, <3>1
  <2>7. /\ \A k \in DOMAIN f : OfCall(c, f[k], deprAsked.calls[c].acts[k])
        /\ \A a \in DOMAIN accumulated : s.own[a] = TakenIn(f, a)
        /\ NoOverlaps /\ UpToDate(f) => LeavesRoom(s.own)
    BY <1>3, <2>1 DEF Carried
  <2>8. Carried(c, NewRun(c, s.act + 1, s.done, s.own, f))
    BY <1>1, <1>4, <1>5, <1>7, <2>4, <2>5, <2>6, <2>7, RunBegins
  <2>9. PICK t : t = NewRun(c, s.act + 1, s.done, s.own, f)
    OBVIOUS
  <2>10. Carried(c, t) /\ DeprTo(c, "running", t)
    BY <2>3, <2>8, <2>9
  <2> QED
    BY <1>1, <2>10, DeprGoesOn
<1> QED
  BY <1>6, <1>7

LEMMA DeprStops == ASSUME DeprInv, NEW c \in DeprCall, DeprFails(c) PROVE DeprInv'
<1>1. /\ c \in DOMAIN deprAsked.calls /\ deprStep[c] = "running" /\ UNCHANGED <<deprAsked, accumulated, deprRuns>>
      /\ DeprTo(c, "refused", <<>>)
  BY DEF DeprFails, DeprIs
<1> QED
  BY <1>1, DeprGoesOn

(* A call commits its runs.                                                 *)
LEMMA RunsCommit == ASSUME DeprInv, NEW c \in DeprCall, CommitRuns(c) PROVE DeprInv'
<1>1. /\ c \in DOMAIN deprAsked.calls /\ deprStep[c] = "running" /\ UNCHANGED deprAsked /\ DeprTypes
      /\ DeprTo(c, "done", <<>>)
  BY DEF CommitRuns, DeprIs, DeprInv
<1>2. PICK s : s = deprSeen[c]
  OBVIOUS
<1>3. Carried(c, s)
  BY <1>1, <1>2 DEF DeprInv, RunsAreCarried
<1>4. PICK f : f = Runs(c, s)
  OBVIOUS
<1>5. PICK acts : acts = deprAsked.calls[c].acts
  OBVIOUS
<1>6. /\ s.before \in Seq(RunRecs) /\ s.saw \in Nat /\ s.items \in Seq(ItemRecs)
      /\ s.act \in DOMAIN deprAsked.calls[c].acts /\ Len(s.before) = s.act - 1
      /\ s.own \in [DOMAIN accumulated -> Int]
  BY <1>3 DEF Carried, SeenRecs
<1>7. f \in Seq(RunRecs) /\ DOMAIN f = 1 .. s.act /\ Len(f) = s.act /\ s.act \in Nat \ {0}
  BY <1>1, <1>4, <1>6, RunsAre
<1>8. \A k \in DOMAIN f : OfCall(c, f[k], acts[k]) /\ f[k] \in RunRecs /\ f[k].saw \in Nat
  <2>1. \A k \in DOMAIN f : OfCall(c, f[k], acts[k])
    BY <1>3, <1>4, <1>5 DEF Carried
  <2>2. \A k \in DOMAIN f : f[k] \in RunRecs
    BY <1>7
  <2>3. \A k \in DOMAIN f : f[k].saw \in Nat
    BY <2>2 DEF RunRecs
  <2> QED
    BY <2>1, <2>2, <2>3
<1>9. PICK runs : runs = deprRuns \o f
  OBVIOUS
<1>10. /\ deprRuns' = runs
       /\ accumulated' = [a \in DOMAIN accumulated |-> accumulated[a] + s.own[a]]
  <2>1. f = Finished(c)
    BY <1>2, <1>4 DEF Finished, Runs, CurrentRun
  <2> QED
    BY <1>2, <1>9, <2>1 DEF CommitRuns
<1>11. PICK len \in Nat : len = Len(deprRuns) /\ DOMAIN deprRuns = 1 .. len /\ deprRuns \in Seq(RunRecs)
  BY <1>1 DEF DeprTypes
<1>12. /\ runs \in Seq(RunRecs) /\ Len(runs) = len + s.act /\ DOMAIN runs = 1 .. len + s.act
       /\ (\A m \in 1 .. len : runs[m] = deprRuns[m])
       /\ \A k \in 1 .. s.act : runs[len + k] = f[k]
  <2>0. PICK before \in Seq(RunRecs) : before = deprRuns /\ Len(before) = len
    BY <1>11
  <2>6. before \o f \in Seq(RunRecs) /\ Len(before \o f) = Len(before) + Len(f)
    BY <1>7
  <2>1. runs \in Seq(RunRecs) /\ Len(runs) = len + s.act
    BY <1>7, <1>9, <2>0, <2>6
  <2>2. DOMAIN runs = 1 .. len + s.act
    BY <2>1
  <2>3. \A m \in 1 .. len + s.act : runs[m] = IF m <= len THEN deprRuns[m] ELSE f[m - len]
    BY <1>7, <1>9, <1>11
  <2>4. \A m \in 1 .. len : m \in 1 .. len + s.act /\ m <= len
    BY <1>7
  <2>5. \A k \in 1 .. s.act : len + k \in 1 .. len + s.act /\ ~(len + k <= len) /\ (len + k) - len = k
    BY <1>7
  <2> QED
    BY <2>1, <2>2, <2>3, <2>4, <2>5
<1>13. \A n \in DOMAIN runs : n \notin 1 .. len => \E k \in 1 .. s.act : n = len + k
  <2> SUFFICES ASSUME NEW n \in DOMAIN runs, n \notin 1 .. len PROVE n - len \in 1 .. s.act /\ n = len + (n - len)
    OBVIOUS
  <2> QED
    BY <1>7, <1>11, <1>12
<1>14. /\ deprStep' \in [DeprCall -> {"start", "running", "done", "refused"}]
       /\ deprSeen' = [d \in DeprCall |-> deprSeen'[d]] /\ deprStep'[c] = "done"
       /\ \A d \in DeprCall \ {c} : deprStep'[d] = deprStep[d] /\ deprSeen'[d] = deprSeen[d]
  BY <1>1 DEF DeprTo, DeprTypes
<1>15. DeprTypes'
  <2>1. accumulated' \in [DOMAIN deprAsked.assets -> Int]
    BY <1>1, <1>6, <1>10 DEF DeprTypes
  <2> QED
    BY <1>1, <1>10, <1>12, <1>14, <2>1 DEF DeprTypes
<1>16. \A m \in 1 .. len : deprRuns[m].by \in DeprCall /\ deprRuns[m].by # c
  <2>1. \A m \in 1 .. len : deprRuns[m] \in RunRecs
    BY <1>11
  <2> QED
    BY <1>1, <1>11, <2>1 DEF RunRecs, DeprInv, RunByTheDone
<1>17. RunByTheDone'
  <2> SUFFICES ASSUME NEW n \in DOMAIN runs PROVE deprStep'[runs[n].by] = "done"
    BY <1>10 DEF RunByTheDone
  <2>1. CASE n \in 1 .. len
    BY <1>11, <1>12, <1>14, <1>16, <2>1 DEF DeprInv, RunByTheDone
  <2>2. CASE n \notin 1 .. len
    BY <1>7, <1>8, <1>12, <1>13, <1>14, <2>2 DEF OfCall
  <2> QED
    BY <2>1, <2>2
<1>18. RunsAreCarried'
  <2> SUFFICES ASSUME NEW d \in DOMAIN deprAsked.calls, deprStep'[d] = "running"
               PROVE  Carried(d, deprSeen[d])'
    BY <1>1 DEF RunsAreCarried
  <2>1. d \in DeprCall /\ d # c
    BY <1>1, <1>14, DeprAsks
  <2>2. PICK t : t = deprSeen'[d]
    OBVIOUS
  <2>3. Carried(d, t)
    BY <1>14, <2>1, <2>2 DEF DeprInv, RunsAreCarried
  <2>4. PICK g : g = Runs(d, t)
    OBVIOUS
  <2>5. /\ t.before \in Seq(RunRecs) /\ t.saw \in Nat /\ t.items \in Seq(ItemRecs)
        /\ t.act \in DOMAIN deprAsked.calls[d].acts /\ Len(t.before) = t.act - 1 /\ t \in SeenRecs
    BY <2>3 DEF Carried, SeenRecs
  <2>6. /\ DOMAIN g = 1 .. t.act /\ t.act \in 1 .. t.act /\ g[t.act].saw = t.saw
        /\ g \in Seq(RunRecs)
    BY <1>1, <2>4, <2>5, RunsAre
  <2>7. \A k \in DOMAIN g : OfCall(d, g[k], deprAsked.calls[d].acts[k]) /\ g[k].saw \in Nat /\ g[k].saw <= len
    <3>1. \A k \in DOMAIN g : OfCall(d, g[k], deprAsked.calls[d].acts[k])
      BY <2>3, <2>4 DEF Carried
    <3>2. \A k \in DOMAIN g : g[k] \in RunRecs
      BY <2>6
    <3> QED
      BY <1>11, <3>1, <3>2 DEF OfCall, RunRecs
  <2>8. \A k \in DOMAIN g : OfCall(d, g[k], deprAsked.calls[d].acts[k])'
    <3> SUFFICES ASSUME NEW k \in DOMAIN g PROVE OfCall(d, g[k], deprAsked.calls[d].acts[k])'
      OBVIOUS
    <3>1. PICK q : q = g[k]
      OBVIOUS
    <3>2. PICK act : act = deprAsked.calls[d].acts[k]
      OBVIOUS
    <3>3. OfCall(d, q, act) /\ q.saw \in Nat /\ q.saw <= len
      BY <2>7, <3>1, <3>2
    <3>4. \A m \in 1 .. q.saw : m \in 1 .. len /\ runs[m] = deprRuns[m]
      BY <1>12, <3>3
    <3>5. OfCall(d, q, act)'
      BY <1>1, <1>7, <1>10, <1>11, <1>12, <3>3, <3>4 DEF OfCall
    <3> QED
      BY <1>1, <3>1, <3>2, <3>5 DEF OfCall
  <2>9. t.saw # Len(runs) /\ g[t.act].saw # Len(runs)
    BY <1>7, <1>12, <2>6, <2>7
  <2>10. Runs(d, t)' = g /\ DOMAIN accumulated' = DOMAIN accumulated
    BY <1>1, <1>10, <2>4 DEF Runs, CurrentRun
  <2>11. ~UpToDate(g)'
    BY <1>10, <2>6, <2>9 DEF UpToDate
  <2>12. \A a \in DOMAIN accumulated : t.own[a] = TakenIn(g, a)
    BY <2>3, <2>4 DEF Carried
  <2>13. t \in SeenRecs'
    BY <2>5, <2>10 DEF SeenRecs
  <2>14. Carried(d, t)'
    BY <1>1, <1>10, <2>5, <2>8, <2>9, <2>10, <2>11, <2>12, <2>13 DEF Carried
  <2> QED
    BY <2>2, <2>14 DEF Carried, Runs, CurrentRun
<1>19. AccumulatedMatchesRuns'
  <2> SUFFICES ASSUME NEW a \in DOMAIN accumulated PROVE accumulated'[a] = TakenIn(runs, a)
    BY <1>10 DEF AccumulatedMatchesRuns
  <2>1. TakenIn(runs, a) = TakenIn(deprRuns, a) + TakenIn(f, a)
    BY <1>7, <1>9, <1>11, RunsTake
  <2>2. accumulated[a] = TakenIn(deprRuns, a)
    BY DEF DeprInv, DepreciationAddsUp, AccumulatedMatchesRuns
  <2>3. s.own[a] = TakenIn(f, a)
    BY <1>3, <1>4 DEF Carried
  <2> QED
    BY <1>10, <2>1, <2>2, <2>3
<1>20. NothingBelowZero'
  <2> SUFFICES ASSUME NoOverlaps' PROVE \A a \in DOMAIN accumulated : accumulated'[a] <= deprAsked.assets[a].value
    BY <1>1, <1>10 DEF NothingBelowZero
  <2>1. \A m, n \in DOMAIN runs : m < n /\ runs[m].by # runs[n].by => ~(runs[n].saw < m)
    BY <1>10 DEF NoOverlaps, Overlap
  <2>2. NoOverlaps
    <3> SUFFICES ASSUME NEW m \in 1 .. len, NEW n \in 1 .. len, Overlap(m, n) PROVE FALSE
      BY <1>11 DEF NoOverlaps
    <3>1. m \in DOMAIN runs /\ n \in DOMAIN runs /\ runs[m] = deprRuns[m] /\ runs[n] = deprRuns[n]
      BY <1>7, <1>12
    <3> QED
      BY <2>1, <3>1 DEF Overlap
  <2>3. UpToDate(f)
    <3> SUFFICES ASSUME NEW k \in 1 .. s.act PROVE f[k].saw = len
      BY <1>7, <1>11 DEF UpToDate
    <3>1. f[k].saw \in Nat /\ f[k].saw <= len /\ f[k].by = c
      BY <1>7, <1>8, <1>11 DEF OfCall
    <3>2. CASE len = 0
      BY <3>1, <3>2
    <3>3. CASE len # 0
      <4>1. len \in 1 .. len /\ len + k \in DOMAIN runs /\ len \in DOMAIN runs /\ len < len + k
        BY <1>7, <1>12, <3>3
      <4>2. runs[len].by # c /\ runs[len + k] = f[k]
        BY <1>12, <1>16, <4>1
      <4>3. ~(f[k].saw < len)
        BY <2>1, <3>1, <4>1, <4>2
      <4> QED
        BY <3>1, <4>3
    <3> QED
      BY <3>2, <3>3
  <2>4. LeavesRoom(s.own)
    BY <1>3, <1>4, <2>2, <2>3 DEF Carried
  <2> QED
    BY <1>10, <2>4 DEF LeavesRoom
<1>21. DepreciatedOnce'
  <2> SUFFICES ASSUME NEW m \in DOMAIN runs, NEW n \in DOMAIN runs, m < n, runs[m].year = runs[n].year,
                      runs[m].act = runs[n].act
               PROVE  runs[n].saw < m /\ runs[m].by # runs[n].by
    BY <1>10 DEF DepreciatedOnce, Overlap
  <2>0. m \in Nat /\ n \in Nat
    BY <1>12
  <2>1. CASE n \in 1 .. len
    <3>1. m \in 1 .. len /\ runs[m] = deprRuns[m] /\ runs[n] = deprRuns[n]
      BY <1>12, <2>0, <2>1
    <3> QED
      BY <1>11, <2>1, <3>1 DEF DeprInv, DepreciationAddsUp, DepreciatedOnce, Overlap
  <2>2. CASE n \notin 1 .. len
    <3>1. PICK k \in 1 .. s.act : n = len + k
      BY <1>13, <2>2
    <3>2. runs[n] = f[k] /\ OfCall(c, f[k], acts[k]) /\ f[k].saw \in Nat
      BY <1>7, <1>8, <1>12, <3>1
    <3>3. CASE m \in 1 .. len
      <4>1. ~(m \in 1 .. f[k].saw)
        BY <1>12, <3>2, <3>3 DEF OfCall
      <4>2. f[k].saw < m
        BY <2>0, <3>2, <3>3, <4>1
      <4>3. runs[m].by # c
        BY <1>12, <1>16, <3>3
      <4> QED
        BY <3>2, <4>2, <4>3 DEF OfCall
    <3>4. CASE m \notin 1 .. len
      <4>1. PICK i \in 1 .. s.act : m = len + i
        BY <1>13, <3>4
      <4>5. i \in DOMAIN f /\ runs[m] = f[i]
        BY <1>7, <1>12, <4>1
      <4>6. i # k
        BY <3>1, <4>1
      <4>2. runs[m] = f[i] /\ OfCall(c, f[i], acts[i]) /\ i # k
        BY <1>8, <4>5, <4>6
      <4>3. i \in DOMAIN acts /\ k \in DOMAIN acts
        <5>1. acts \in Seq(Acts)
          BY <1>1, <1>5, DeprAsks
        <5>2. s.act \in 1 .. Len(acts)
          BY <1>5, <1>6, <5>1
        <5> QED
          BY <1>7, <5>1, <5>2
      <4>4. acts[i] # acts[k]
        BY <1>1, <1>5, <4>2, <4>3, DeprAsks
      <4> QED
        BY <3>2, <4>2, <4>4 DEF OfCall
    <3> QED
      BY <3>3, <3>4
  <2> QED
    BY <2>1, <2>2
<1> QED
  BY <1>15, <1>17, <1>18, <1>19, <1>20, <1>21 DEF DeprInv, DepreciationAddsUp

LEMMA DeprStutters == ASSUME DeprInv, UNCHANGED deprVars PROVE DeprInv'
<1>1. UNCHANGED <<deprAsked, deprStep, deprSeen, accumulated, deprRuns>>
  BY DEF deprVars
<1>2. DeprTypes' /\ RunByTheDone' /\ DepreciationAddsUp'
  BY <1>1 DEF DeprInv, DeprTypes, RunByTheDone, DepreciationAddsUp, AccumulatedMatchesRuns, NothingBelowZero,
              DepreciatedOnce, NoOverlaps, Overlap
<1>3. RunsAreCarried'
  <2> SUFFICES ASSUME NEW d \in DOMAIN deprAsked.calls, deprStep[d] = "running"
               PROVE  Carried(d, deprSeen[d])'
    BY <1>1 DEF RunsAreCarried
  <2>1. PICK s : s = deprSeen[d]
    OBVIOUS
  <2>2. Carried(d, s)
    BY <2>1 DEF DeprInv, RunsAreCarried
  <2> QED
    BY <1>1, <2>1, <2>2 DEF Carried, SeenRecs, Runs, CurrentRun, OfCall, UpToDate, LeavesRoom, NoOverlaps, Overlap
<1> QED
  BY <1>2, <1>3 DEF DeprInv

LEMMA DeprInvIsKept == DeprSpec => []DeprInv
<1>1. DeprInv /\ [DeprNext]_deprVars => DeprInv'
  BY DeprBegins, AssetDepreciates, ActFollows, RunsCommit, DeprStops, DeprStutters DEF DeprNext
<1> QED
  BY <1>1, DeprStarts, PTL DEF DeprSpec

(* DepreciationAddsUp, in every state.                                      *)
THEOREM DepreciatedInFull == DeprSpec => []DepreciationAddsUp
<1>1. DeprInv => DepreciationAddsUp
  BY DEF DeprInv
<1> QED
  BY <1>1, DeprInvIsKept, PTL

-----------------------------------------------------------------------------
(* Revaluation: rows, lines and runs.                                       *)
LineRecs == [of : Nat, gain : Int, posted : BOOLEAN, value : Int]
FxRunRecs == [month : Nat, by : FxCall, saw : Nat, lines : Seq(LineRecs), net : Int]

(* An item is booked once; it is owed in full or settled.                   *)
ItemIs(e, row) ==
    /\ row = [booked |-> row.booked, outstanding |-> row.outstanding, unrealized |-> row.unrealized,
              realized |-> row.realized, status |-> row.status]
    /\ row.booked = InRupees(fxAsked.items[e].amount, fxAsked.items[e].rate)
    /\ row.outstanding \in {0, fxAsked.items[e].amount}
FxTypes ==
    /\ fxAsked \in FxSettings
    /\ fxStep \in [FxCall -> {"start", "working", "done", "refused"}]
    /\ fxSeen = [c \in FxCall |-> fxSeen[c]]
    /\ DOMAIN fxRows \subseteq DOMAIN fxAsked.items /\ fxRows = [e \in DOMAIN fxRows |-> fxRows[e]]
    /\ \A e \in DOMAIN fxRows : ItemIs(e, fxRows[e])
    /\ \A r \in fxRates : r.month \in Nat /\ r.rate \in Int
    /\ fxRuns \in Seq(FxRunRecs)

(* A line takes its item from what was booked to the closing rate, and is   *)
(* posted where there are accounts for it.                                  *)
LineIs(line) ==
    /\ line.of \in DOMAIN fxRows
    /\ Sign(line.of) * fxRows[line.of].booked + line.gain = Sign(line.of) * line.value
    /\ fxAsked.accounts = {"gain", "loss"} => line.posted
NetIs(r) == fxAsked.accounts = {"gain", "loss"} => r.net = GainOf(r.lines, PostedLines(r.lines))
RevaluationIs(r) == NetIs(r) /\ \A k \in DOMAIN r.lines : LineIs(r.lines[k])
About(runs, e) == \E n \in DOMAIN runs : LinesAbout(runs[n].lines, e) # {}

(* What a call in a revaluation holds: the months it has finished and is    *)
(* in, none of which was revalued when it began; of the items it has not    *)
(* come to, the amount and what was booked; the rows its lines are about.   *)
CurrentMonth(c, s) ==
    [month |-> fxAsked.calls[c].months[s.at], by |-> c, saw |-> s.saw, lines |-> s.lines,
     net |-> NetGain(s.lines)]
Months(c, s) == Append(s.before, CurrentMonth(c, s))
OfMonth(c, r, month) ==
    /\ r.month = month /\ r.by = c /\ r.saw <= Len(fxRuns) /\ RevaluationIs(r)
    /\ \A m \in 1 .. r.saw : fxRuns[m].month # month
FxCarried(c, s) ==
    /\ s = [at |-> s.at, saw |-> s.saw, read |-> s.read, left |-> s.left, lines |-> s.lines,
            before |-> s.before, held |-> s.held]
    /\ s.at \in DOMAIN fxAsked.calls[c].months /\ s.saw \in Nat /\ s.lines \in Seq(LineRecs)
    /\ s.before \in Seq(FxRunRecs) /\ Len(s.before) = s.at - 1
    /\ s.left \subseteq DOMAIN fxRows
    /\ \A e \in s.left : /\ s.read[e].outstanding = fxAsked.items[e].amount
                         /\ s.read[e].booked = fxRows[e].booked
    /\ \A k \in DOMAIN Months(c, s) : OfMonth(c, Months(c, s)[k], fxAsked.calls[c].months[k])
    /\ \A e \in DOMAIN fxAsked.items : e \in s.held <=> About(Months(c, s), e)

Revalues(c) == c \in DOMAIN fxAsked.calls /\ fxAsked.calls[c].kind = "revalue"
RevaluationsAreCarried == \A c \in FxCall :
    Revalues(c) /\ fxStep[c] = "working" => FxCarried(c, fxSeen[c])
RevaluedByTheDone == \A n \in DOMAIN fxRuns : fxStep[fxRuns[n].by] = "done" /\ RevaluationIs(fxRuns[n])
FxInv ==
    FxTypes /\ RevaluationsAreCarried /\ RevaluedByTheDone /\ UnrealizedIsLastLine /\ RevaluedOnce

(* The gains of some lines.                                                 *)
LEMMA GainsAre ==
    ASSUME NEW lines \in Seq(LineRecs), NEW S \in SUBSET DOMAIN lines
    PROVE  GainOf(lines, S) \in Int /\ (S = {} => GainOf(lines, S) = 0)
<1>1. PICK w : w = [k \in S |-> lines[k].gain]
  OBVIOUS
<1>2. Weighs(w, S)
  <2>1. DOMAIN lines = 1 .. Len(lines) /\ Len(lines) \in Nat /\ \A k \in S : lines[k] \in LineRecs
    OBVIOUS
  <2>2. \A k \in S : w[k] \in Int
    BY <1>1, <2>1 DEF LineRecs
  <2>3. IsFiniteSet(1 .. Len(lines))
    BY <2>1, FS_Interval
  <2>4. IsFiniteSet(S)
    BY <2>1, <2>3, FS_Subset
  <2> QED
    BY <2>2, <2>4 DEF Weighs
<1>3. PICK h : Unrolls(h, S, w) /\ SumFunctionOnSet(w, S) = h[S]
  BY <1>2, SumUnrolls
<1>4. PICK g : g = CHOOSE f : f = [s \in SUBSET S |->
                     IF s = {} THEN 0 ELSE lines[AnyOf(s)].gain + f[s \ {AnyOf(s)}]]
  OBVIOUS
<1>5. GainOf(lines, S) = g[S]
  BY <1>4 DEF GainOf, MapThenSumSet, MapThenFoldSet, AnyOf
<1>6. \A s \in SUBSET S : s # {} => w[AnyOf(s)] = lines[AnyOf(s)].gain
  BY <1>1, AnyOfIsIn
<1>7. h = [s \in SUBSET S |-> IF s = {} THEN 0 ELSE lines[AnyOf(s)].gain + h[s \ {AnyOf(s)}]]
  BY <1>3, <1>6 DEF Unrolls
<1>8. g = [s \in SUBSET S |-> IF s = {} THEN 0 ELSE lines[AnyOf(s)].gain + g[s \ {AnyOf(s)}]]
  BY <1>4, <1>7, Zenon
<1>9. Unrolls(g, S, w)
  BY <1>6, <1>8 DEF Unrolls
<1>10. g[S] = SumFunctionOnSet(w, S)
  BY <1>2, <1>3, <1>9, SameValues
<1> QED
  BY <1>2, <1>5, <1>10, SumIsInt, SumOfNone

(* The last run with a line about an item.                                  *)
LEMMA GreatestIsThere ==
    ASSUME NEW b \in Nat, NEW S \in SUBSET (0 .. b), S # {}
    PROVE  Max(S) \in S /\ \A y \in S : y <= Max(S)
<1>1. PICK T : T = {b - y : y \in S}
  OBVIOUS
<1>0. \A y \in S : y \in Nat /\ b - y \in Nat /\ b - y \in T
  BY <1>1
<1>2. T \in SUBSET Nat /\ T # {}
  BY <1>0, <1>1
<1>3. PICK t \in T : \A u \in T : t <= u
  BY <1>2, LeastIsThere
<1>4. PICK x \in S : t = b - x
  BY <1>1, <1>3
<1>5. \A y \in S : b - x <= b - y
  BY <1>0, <1>3, <1>4
<1>6. \A y \in S : y <= x
  BY <1>0, <1>4, <1>5
<1>7. \A y \in S : x >= y
  BY <1>0, <1>4, <1>6
<1>8. PICK mx : mx = Max(S)
  OBVIOUS
<1>9. mx \in S /\ \A y \in S : mx >= y
  BY <1>4, <1>7, <1>8 DEF Max
<1>10. \A y \in S : y <= mx
  BY <1>0, <1>9
<1> QED
  BY <1>8, <1>9, <1>10

LEMMA LatestIs ==
    ASSUME NEW runs, NEW len \in Nat, DOMAIN runs = 1 .. len, NEW e, NEW k \in DOMAIN runs,
           LinesAbout(runs[k].lines, e) # {},
           \A n \in DOMAIN runs : LinesAbout(runs[n].lines, e) # {} => n <= k
    PROVE  Latest(runs, e)
           = <<runs[k].lines[CHOOSE j \in LinesAbout(runs[k].lines, e) : TRUE]>>
<1>1. PICK with : with = {n \in DOMAIN runs : LinesAbout(runs[n].lines, e) # {}}
  OBVIOUS
<1>2. with \in SUBSET (0 .. len) /\ k \in with /\ (\A n \in with : n <= k) /\ with \subseteq Nat
  BY <1>1
<1>3. PICK mx : mx = Max(with)
  OBVIOUS
<1>5. mx \in with /\ \A y \in with : y <= mx
  BY <1>2, <1>3, GreatestIsThere
<1>6. mx \in Nat /\ k \in Nat /\ mx <= k /\ k <= mx
  BY <1>2, <1>5
<1>4. Max(with) = k
  BY <1>3, <1>6
<1> QED
  BY <1>1, <1>2, <1>4 DEF Latest

LEMMA NoLatest ==
    ASSUME NEW runs, NEW e, ~About(runs, e)
    PROVE  Latest(runs, e) = <<>>
<1>1. {n \in DOMAIN runs : LinesAbout(runs[n].lines, e) # {}} = {}
  BY DEF About
<1> QED
  BY <1>1 DEF Latest

LEMMA SomeLatest ==
    ASSUME NEW runs, NEW len \in Nat, DOMAIN runs = 1 .. len, NEW e, About(runs, e)
    PROVE  \E k \in DOMAIN runs :
              /\ LinesAbout(runs[k].lines, e) # {}
              /\ \A n \in DOMAIN runs : LinesAbout(runs[n].lines, e) # {} => n <= k
<1>1. PICK with : with = {n \in DOMAIN runs : LinesAbout(runs[n].lines, e) # {}}
  OBVIOUS
<1>0. PICK n \in DOMAIN runs : LinesAbout(runs[n].lines, e) # {}
  BY DEF About
<1>4. n \in with /\ \A i \in with : i \in 1 .. len
  BY <1>0, <1>1
<1>2. with \in SUBSET (0 .. len) /\ with # {}
  BY <1>4
<1>3. Max(with) \in with /\ \A y \in with : y <= Max(with)
  BY <1>2, GreatestIsThere
<1> QED
  BY <1>1, <1>3

(* What more runs make of it.                                               *)
Joined(u, s, l, t, m) ==
    /\ l \in Nat /\ m \in Nat /\ DOMAIN s = 1 .. l /\ DOMAIN t = 1 .. m /\ DOMAIN u = 1 .. l + m
    /\ (\A n \in 1 .. l : u[n] = s[n]) /\ \A n \in 1 .. m : u[l + n] = t[n]
LEMMA LatestOfBoth ==
    ASSUME NEW u, NEW s, NEW l, NEW t, NEW m, Joined(u, s, l, t, m), NEW e
    PROVE  Latest(u, e) = IF About(t, e) THEN Latest(t, e) ELSE Latest(s, e)
<1>0. /\ l \in Nat /\ m \in Nat /\ DOMAIN s = 1 .. l /\ DOMAIN t = 1 .. m /\ DOMAIN u = 1 .. l + m
      /\ (\A n \in 1 .. l : u[n] = s[n]) /\ (\A n \in 1 .. m : u[l + n] = t[n]) /\ l + m \in Nat
  BY DEF Joined
<1>1. CASE About(t, e)
  <2>1. PICK k \in DOMAIN t :
              /\ LinesAbout(t[k].lines, e) # {}
              /\ \A n \in DOMAIN t : LinesAbout(t[n].lines, e) # {} => n <= k
    BY <1>0, <1>1, SomeLatest
  <2>2. l + k \in DOMAIN u /\ u[l + k] = t[k] /\ k \in Nat
    BY <1>0, <2>1
  <2>3. \A n \in DOMAIN u : LinesAbout(u[n].lines, e) # {} => n <= l + k
    <3> SUFFICES ASSUME NEW n \in DOMAIN u, LinesAbout(u[n].lines, e) # {}, ~(n <= l + k) PROVE FALSE
      OBVIOUS
    <3>1. PICK i \in 1 .. m : n = l + i
      <4>1. n - l \in 1 .. m /\ n = l + (n - l)
        BY <1>0, <2>2
      <4> QED
        BY <4>1
    <3>2. u[n] = t[i] /\ i \in DOMAIN t
      BY <1>0, <3>1
    <3>3. i <= k
      BY <2>1, <3>2
    <3> QED
      BY <1>0, <2>2, <3>1, <3>3
  <2>4. Latest(u, e) = <<u[l + k].lines[CHOOSE j \in LinesAbout(u[l + k].lines, e) : TRUE]>>
    BY <1>0, <2>1, <2>2, <2>3, LatestIs
  <2>5. Latest(t, e) = <<t[k].lines[CHOOSE j \in LinesAbout(t[k].lines, e) : TRUE]>>
    BY <1>0, <2>1, LatestIs
  <2> QED
    BY <1>1, <2>2, <2>4, <2>5
<1>2. CASE ~About(t, e) /\ About(s, e)
  <2>1. PICK k \in DOMAIN s :
              /\ LinesAbout(s[k].lines, e) # {}
              /\ \A n \in DOMAIN s : LinesAbout(s[n].lines, e) # {} => n <= k
    BY <1>0, <1>2, SomeLatest
  <2>2. k \in DOMAIN u /\ u[k] = s[k] /\ k \in Nat
    BY <1>0, <2>1
  <2>3. \A n \in DOMAIN u : LinesAbout(u[n].lines, e) # {} => n <= k
    <3> SUFFICES ASSUME NEW n \in DOMAIN u, LinesAbout(u[n].lines, e) # {} PROVE n <= k
      OBVIOUS
    <3>1. CASE n \in 1 .. l
      BY <1>0, <2>1, <3>1
    <3>2. CASE n \notin 1 .. l
      <4>1. n - l \in 1 .. m /\ n = l + (n - l)
        BY <1>0, <3>2
      <4>2. PICK i \in 1 .. m : n = l + i
        BY <4>1
      <4>3. u[n] = t[i]
        BY <1>0, <4>2
      <4> QED
        BY <1>0, <1>2, <4>3 DEF About
    <3> QED
      BY <3>1, <3>2
  <2>4. Latest(u, e) = <<u[k].lines[CHOOSE j \in LinesAbout(u[k].lines, e) : TRUE]>>
    BY <1>0, <2>1, <2>2, <2>3, LatestIs
  <2>5. Latest(s, e) = <<s[k].lines[CHOOSE j \in LinesAbout(s[k].lines, e) : TRUE]>>
    BY <1>0, <2>1, LatestIs
  <2> QED
    BY <1>0, <1>2, <2>2, <2>4, <2>5
<1>3. CASE ~About(t, e) /\ ~About(s, e)
  <2>1. ~About(u, e)
    <3> SUFFICES ASSUME NEW n \in DOMAIN u, LinesAbout(u[n].lines, e) # {} PROVE FALSE
      BY DEF About
    <3>1. CASE n \in 1 .. l
      BY <1>0, <1>3, <3>1 DEF About
    <3>2. CASE n \notin 1 .. l
      <4>1. n - l \in 1 .. m /\ n = l + (n - l)
        BY <1>0, <3>2
      <4>2. PICK i \in 1 .. m : n = l + i
        BY <4>1
      <4>3. u[n] = t[i]
        BY <1>0, <4>2
      <4> QED
        BY <1>0, <1>3, <4>3 DEF About
    <3> QED
      BY <3>1, <3>2
  <2> QED
    BY <1>3, <2>1, NoLatest
<1> QED
  BY <1>1, <1>2, <1>3

LEMMA FxAsks ==
    ASSUME FxTypes, NEW c \in DOMAIN fxAsked.calls
    PROVE  /\ c \in FxCall
           /\ fxAsked.calls[c].kind = "revalue" =>
                 /\ fxAsked.calls[c].months \in Seq(Nat) /\ Len(fxAsked.calls[c].months) # 0
                 /\ \A i, j \in DOMAIN fxAsked.calls[c].months :
                       i # j => fxAsked.calls[c].months[i] # fxAsked.calls[c].months[j]
<1>1. PICK call : call = fxAsked.calls[c]
  OBVIOUS
<1>2. /\ c \in FxCall
      /\ call.kind = "revalue" =>
            /\ call.months \in Seq(Nat) \ {<<>>}
            /\ \A i, j \in DOMAIN call.months : i # j => call.months[i] # call.months[j]
  BY <1>1, ForexAssumption DEF FxTypes
<1> QED
  BY <1>1, <1>2

LEMMA ItemsAre ==
    ASSUME FxTypes, NEW e \in DOMAIN fxAsked.items
    PROVE  /\ e \in Nat /\ fxAsked.items[e].amount \in Nat \ {0} /\ fxAsked.items[e].rate \in Nat \ {0}
           /\ Sign(e) \in {1, -1} /\ InRupees(fxAsked.items[e].amount, fxAsked.items[e].rate) \in Int
<1>1. PICK item : item = fxAsked.items[e]
  OBVIOUS
<1>2. e \in Nat /\ item.amount \in Nat \ {0} /\ item.rate \in Nat \ {0}
  BY <1>1, ForexAssumption DEF FxTypes
<1>3. InRupees(item.amount, item.rate) \in Int
  BY <1>2 DEF InRupees
<1> QED
  BY <1>1, <1>2, <1>3 DEF Sign

LEMMA FxStarts == FxInit => FxInv
<1> SUFFICES ASSUME FxInit PROVE FxInv
  OBVIOUS
<1>1. /\ fxRuns = <<>> /\ DOMAIN fxRuns = {} /\ fxAsked \in FxSettings /\ fxRates = fxAsked.rates
      /\ fxRows = [e \in fxAsked.open |-> FxRow(fxAsked.items[e])] /\ DOMAIN fxRows = fxAsked.open
  BY DEF FxInit
<1>2. /\ DOMAIN fxRows \subseteq DOMAIN fxAsked.items
      /\ \A r \in fxRates : r.month \in Nat /\ r.rate \in Int
  BY <1>1, ForexAssumption
<1>3. \A e \in DOMAIN fxRows : ItemIs(e, fxRows[e]) /\ fxRows[e].unrealized = 0
  BY <1>1 DEF ItemIs, FxRow
<1>4. FxTypes
  <2>1. fxRows = [e \in DOMAIN fxRows |-> fxRows[e]]
    BY <1>1
  <2>2. /\ fxStep \in [FxCall -> {"start", "working", "done", "refused"}]
        /\ fxSeen = [c \in FxCall |-> fxSeen[c]] /\ fxRuns \in Seq(FxRunRecs)
    BY DEF FxInit
  <2> QED
    BY <1>1, <1>2, <1>3, <2>1, <2>2 DEF FxTypes
<1>5. RevaluationsAreCarried
  BY DEF FxInit, RevaluationsAreCarried
<1>6. UnrealizedIsLastLine
  <2> SUFFICES ASSUME NEW e \in DOMAIN fxRows PROVE Latest(fxRuns, e) = <<>>
    BY <1>3 DEF UnrealizedIsLastLine
  <2>1. ~About(fxRuns, e)
    BY <1>1 DEF About
  <2> QED
    BY <2>1, NoLatest
<1> QED
  BY <1>1, <1>4, <1>5, <1>6 DEF FxInv, RevaluedByTheDone, RevaluedOnce

-----------------------------------------------------------------------------
(* Rows that keep what was booked and what was revalued keep everything     *)
(* that lines and runs say of them.                                         *)
RowsKeep ==
    /\ DOMAIN fxRows \subseteq DOMAIN fxRows' /\ DOMAIN fxRows' \subseteq DOMAIN fxAsked.items
    /\ fxRows' = [e \in DOMAIN fxRows' |-> fxRows'[e]]
    /\ \A e \in DOMAIN fxRows' : ItemIs(e, fxRows'[e])
    /\ \A e \in DOMAIN fxRows : fxRows'[e].unrealized = fxRows[e].unrealized
    /\ \A e \in DOMAIN fxRows' : e \notin DOMAIN fxRows => fxRows'[e].unrealized = 0
    /\ \A r \in fxRates' : r.month \in Nat /\ r.rate \in Int

LEMMA LinesKeep ==
    ASSUME FxTypes, fxAsked' = fxAsked, DOMAIN fxRows \subseteq DOMAIN fxRows',
           \A e \in DOMAIN fxRows' : ItemIs(e, fxRows'[e])
    PROVE  /\ \A e \in DOMAIN fxRows : fxRows'[e].booked = fxRows[e].booked
           /\ \A r : RevaluationIs(r) => RevaluationIs(r)'
<1>1. \A e \in DOMAIN fxRows : fxRows'[e].booked = fxRows[e].booked
  BY DEF FxTypes, ItemIs
<1>2. ASSUME NEW line, LineIs(line) PROVE LineIs(line)'
  BY <1>1, <1>2 DEF LineIs, Sign
<1> QED
  BY <1>1, <1>2 DEF RevaluationIs, NetIs

LEMMA CarriedKeeps ==
    ASSUME FxTypes, fxAsked' = fxAsked, fxRuns' = fxRuns, DOMAIN fxRows \subseteq DOMAIN fxRows',
           \A e \in DOMAIN fxRows' : ItemIs(e, fxRows'[e]), NEW c, NEW s, FxCarried(c, s)
    PROVE  FxCarried(c, s)'
<1>1. \A e \in DOMAIN fxRows : fxRows'[e].booked = fxRows[e].booked
  BY LinesKeep
<1>2. PICK f : f = Months(c, s)
  OBVIOUS
<1>3. Months(c, s)' = f
  BY <1>2 DEF Months, CurrentMonth
<1>4. \A r : RevaluationIs(r) => RevaluationIs(r)'
  BY LinesKeep
<1>5. \A k \in DOMAIN f : OfMonth(c, f[k], fxAsked.calls[c].months[k])'
  <2> SUFFICES ASSUME NEW k \in DOMAIN f PROVE OfMonth(c, f[k], fxAsked.calls[c].months[k])'
    OBVIOUS
  <2>1. PICK r : r = f[k]
    OBVIOUS
  <2>2. PICK month : month = fxAsked.calls[c].months[k]
    OBVIOUS
  <2>3. OfMonth(c, r, month)
    BY <1>2, <2>1, <2>2 DEF FxCarried
  <2>4. OfMonth(c, r, month)'
    BY <1>4, <2>3 DEF OfMonth
  <2> QED
    BY <2>1, <2>2, <2>4 DEF OfMonth
<1>6. \A e \in DOMAIN fxAsked.items : e \in s.held <=> About(f, e)
  BY <1>2 DEF FxCarried
<1>7. \A e \in s.left : /\ e \in DOMAIN fxRows' /\ s.read[e].outstanding = fxAsked.items[e].amount
                         /\ s.read[e].booked = fxRows'[e].booked
  BY <1>1 DEF FxCarried
<1>8. (\A e \in DOMAIN fxAsked.items : e \in s.held <=> About(f, e))'
  BY <1>6 DEF About, LinesAbout
<1> QED
  BY <1>3, <1>5, <1>7, <1>8 DEF FxCarried

(* A step that commits no run.                                              *)
LEMMA FxGoesOn ==
    ASSUME FxInv, NEW c \in DOMAIN fxAsked.calls, fxStep[c] # "done",
           NEW to \in {"working", "done", "refused"}, NEW what, FxTo(c, to, what),
           fxAsked' = fxAsked, fxRuns' = fxRuns, RowsKeep,
           to = "working" /\ fxAsked.calls[c].kind = "revalue" => FxCarried(c, what)
    PROVE  FxInv'
<1>1. c \in FxCall /\ FxTypes
  BY FxAsks DEF FxInv
<1>2. /\ fxStep' \in [FxCall -> {"start", "working", "done", "refused"}]
      /\ fxSeen' = [d \in FxCall |-> fxSeen'[d]]
      /\ fxStep'[c] = to /\ fxSeen'[c] = what
      /\ \A d \in FxCall \ {c} : fxStep'[d] = fxStep[d] /\ fxSeen'[d] = fxSeen[d]
  BY <1>1 DEF FxTo, FxTypes
<1>3. FxTypes'
  <2>1. \A e \in DOMAIN fxRows' : ItemIs(e, fxRows[e])'
    BY DEF RowsKeep, ItemIs
  <2> QED
    BY <1>1, <1>2, <2>1 DEF RowsKeep, FxTypes
<1>4. RevaluationsAreCarried'
  <2> SUFFICES ASSUME NEW d \in FxCall, Revalues(d), fxStep'[d] = "working"
               PROVE  FxCarried(d, fxSeen[d])'
    BY DEF RevaluationsAreCarried, Revalues
  <2>1. PICK s : s = fxSeen'[d]
    OBVIOUS
  <2>2. FxCarried(d, s)
    BY <1>2, <2>1 DEF FxInv, RevaluationsAreCarried, Revalues
  <2>3. FxCarried(d, s)'
    BY <1>1, <2>2, CarriedKeeps DEF RowsKeep
  <2> QED
    BY <2>1, <2>3 DEF FxCarried, Months, CurrentMonth
<1>5. RevaluedByTheDone'
  <2> SUFFICES ASSUME NEW n \in DOMAIN fxRuns PROVE fxStep'[fxRuns[n].by] = "done" /\ RevaluationIs(fxRuns[n])'
    BY DEF RevaluedByTheDone, RevaluationIs, NetIs, LineIs
  <2>1. PICK r : r = fxRuns[n]
    OBVIOUS
  <2>2. r \in FxRunRecs /\ RevaluationIs(r) /\ fxStep[r.by] = "done"
    BY <1>1, <2>1 DEF FxInv, FxTypes, RevaluedByTheDone
  <2>3. r.by \in FxCall
    BY <2>2 DEF FxRunRecs
  <2>4. RevaluationIs(r)'
    BY <1>1, <2>2, LinesKeep DEF RowsKeep
  <2> QED
    BY <1>2, <2>1, <2>2, <2>3, <2>4 DEF RevaluationIs, NetIs, LineIs
<1>6. UnrealizedIsLastLine'
  <2>0. \A e : Latest(fxRuns, e)' = Latest(fxRuns, e)
    BY DEF Latest, LinesAbout
  <2> SUFFICES ASSUME NEW e \in DOMAIN fxRows'
               PROVE  fxRows'[e].unrealized = IF Latest(fxRuns, e) = <<>> THEN 0 ELSE Latest(fxRuns, e)[1].gain
    BY <2>0 DEF UnrealizedIsLastLine
  <2>1. CASE e \in DOMAIN fxRows
    BY <2>1 DEF RowsKeep, FxInv, UnrealizedIsLastLine
  <2>2. CASE e \notin DOMAIN fxRows
    <3>1. ~About(fxRuns, e)
      BY <2>2 DEF FxInv, RevaluedByTheDone, RevaluationIs, LineIs, About, LinesAbout
    <3> QED
      BY <2>2, <3>1, NoLatest DEF RowsKeep
  <2> QED
    BY <2>1, <2>2
<1>7. RevaluedOnce'
  BY DEF FxInv, RevaluedOnce
<1> QED
  BY <1>3, <1>4, <1>5, <1>6, <1>7 DEF FxInv

LEMMA RowsStay == ASSUME FxInv, UNCHANGED <<fxAsked, fxRows, fxRates>> PROVE RowsKeep
  BY DEF FxInv, FxTypes, RowsKeep

(* The months of a call: those it has finished, and the one it is in.       *)
LEMMA NetOf ==
    ASSUME NEW lines \in Seq(LineRecs)
    PROVE  /\ NetGain(lines) \in Int
           /\ (\A k \in DOMAIN lines : lines[k].posted) => NetGain(lines) = GainOf(lines, PostedLines(lines))
<1>1. PostedLines(lines) \subseteq DOMAIN lines
  BY DEF PostedLines
<1>2. GainOf(lines, DOMAIN lines) \in Int /\ GainOf(lines, PostedLines(lines)) \in Int
      /\ (PostedLines(lines) = {} => GainOf(lines, PostedLines(lines)) = 0)
  BY <1>1, GainsAre
<1>3. (\A k \in DOMAIN lines : lines[k].posted) => PostedLines(lines) = DOMAIN lines
  BY DEF PostedLines
<1> QED
  BY <1>2, <1>3 DEF NetGain

LEMMA LineAdds ==
    ASSUME NEW lines \in Seq(LineRecs), NEW line \in LineRecs
    PROVE  /\ Append(lines, line) \in Seq(LineRecs)
           /\ \A k \in DOMAIN Append(lines, line) :
                 Append(lines, line)[k] = line \/ (k \in DOMAIN lines /\ Append(lines, line)[k] = lines[k])
           /\ \A e : LinesAbout(Append(lines, line), e) # {} <=> LinesAbout(lines, e) # {} \/ line.of = e
<1>1. PICK len \in Nat : len = Len(lines) /\ DOMAIN lines = 1 .. len
  OBVIOUS
<1>2. PICK both : both = Append(lines, line)
  OBVIOUS
<1>3. /\ both \in Seq(LineRecs) /\ DOMAIN both = 1 .. len + 1 /\ both[len + 1] = line
      /\ \A k \in 1 .. len : both[k] = lines[k]
  BY <1>1, <1>2
<1>4. \A k \in DOMAIN both : k = len + 1 \/ k \in 1 .. len
  BY <1>3
<1>5. ASSUME NEW e PROVE LinesAbout(both, e) # {} <=> LinesAbout(lines, e) # {} \/ line.of = e
  <2>1. LinesAbout(both, e) # {} => LinesAbout(lines, e) # {} \/ line.of = e
    BY <1>1, <1>3, <1>4 DEF LinesAbout
  <2>2. LinesAbout(lines, e) # {} => LinesAbout(both, e) # {}
    <3>1. \A k \in 1 .. len : k \in DOMAIN both
      BY <1>3
    <3> QED
      BY <1>1, <1>3, <3>1 DEF LinesAbout
  <2>3. line.of = e => LinesAbout(both, e) # {}
    <3>1. len + 1 \in DOMAIN both
      BY <1>3
    <3> QED
      BY <1>3, <3>1 DEF LinesAbout
  <2> QED
    BY <2>1, <2>2, <2>3
<1> QED
  BY <1>1, <1>2, <1>3, <1>4, <1>5

LEMMA MonthsAre ==
    ASSUME FxTypes, NEW c \in DOMAIN fxAsked.calls, fxAsked.calls[c].kind = "revalue", NEW s,
           s.before \in Seq(FxRunRecs), s.saw \in Nat, s.lines \in Seq(LineRecs),
           s.at \in DOMAIN fxAsked.calls[c].months, Len(s.before) = s.at - 1
    PROVE  /\ Months(c, s) \in Seq(FxRunRecs) /\ Len(Months(c, s)) = s.at /\ s.at \in Nat \ {0}
           /\ DOMAIN Months(c, s) = 1 .. s.at /\ DOMAIN s.before = 1 .. s.at - 1
           /\ Months(c, s)[s.at] = CurrentMonth(c, s) /\ CurrentMonth(c, s) \in FxRunRecs
           /\ \A k \in 1 .. s.at - 1 : Months(c, s)[k] = s.before[k]
           /\ \A e : About(Months(c, s), e) <=> About(s.before, e) \/ LinesAbout(s.lines, e) # {}
<1>1. PICK r : r = CurrentMonth(c, s)
  OBVIOUS
<1>2. fxAsked.calls[c].months[s.at] \in Nat /\ c \in FxCall /\ s.at \in Nat \ {0} /\ NetGain(s.lines) \in Int
  BY FxAsks, NetOf, SMTT(30)
<1>3. r \in FxRunRecs /\ r.lines = s.lines
  BY <1>1, <1>2 DEF CurrentMonth, FxRunRecs
<1>4. PICK b : b = s.before
  OBVIOUS
<1>5. PICK f : f = Append(b, r)
  OBVIOUS
<1>6. /\ f \in Seq(FxRunRecs) /\ Len(f) = s.at /\ DOMAIN f = 1 .. s.at /\ DOMAIN b = 1 .. s.at - 1
      /\ f[s.at] = r /\ \A k \in 1 .. s.at - 1 : f[k] = b[k]
  BY <1>2, <1>3, <1>4, <1>5
<1>7. \A k \in 1 .. s.at : k = s.at \/ k \in 1 .. s.at - 1
  BY <1>2
<1>10. s.at \in DOMAIN f /\ \A k \in 1 .. s.at - 1 : k \in DOMAIN f
  BY <1>2, <1>6
<1>8. \A e : About(f, e) <=> About(b, e) \/ LinesAbout(s.lines, e) # {}
  BY <1>3, <1>6, <1>7, <1>10 DEF About
<1>9. f = Months(c, s)
  BY <1>1, <1>4, <1>5 DEF Months
<1> QED
  BY <1>1, <1>2, <1>3, <1>4, <1>6, <1>8, <1>9

LEMMA MonthBegins ==
    ASSUME FxInv, NEW c \in DOMAIN fxAsked.calls, fxAsked.calls[c].kind = "revalue",
           NEW i \in DOMAIN fxAsked.calls[c].months, ~AlreadyRevalued(fxAsked.calls[c].months[i]),
           NEW before \in Seq(FxRunRecs), Len(before) = i - 1,
           \A k \in DOMAIN before : OfMonth(c, before[k], fxAsked.calls[c].months[k]),
           NEW held, \A e \in DOMAIN fxAsked.items : e \in held <=> About(before, e)
    PROVE  FxCarried(c, NewMonth(i, before, held))
<1>1. PICK s : s = NewMonth(i, before, held)
  OBVIOUS
<1>2. /\ s.at = i /\ s.saw = Len(fxRuns) /\ s.read = fxRows /\ s.left = OpenItems /\ s.lines = <<>>
      /\ s.before = before /\ s.held = held
      /\ s = [at |-> s.at, saw |-> s.saw, read |-> s.read, left |-> s.left, lines |-> s.lines,
              before |-> s.before, held |-> s.held]
  BY <1>1 DEF NewMonth
<1>3. /\ FxTypes /\ i \in Nat /\ <<>> \in Seq(LineRecs) /\ fxRuns \in Seq(FxRunRecs) /\ Len(fxRuns) \in Nat
      /\ DOMAIN fxRuns = 1 .. Len(fxRuns)
  BY FxAsks DEF FxInv, FxTypes
<1>4. PICK f : f = Months(c, s)
  OBVIOUS
<1>5. PICK r : r = CurrentMonth(c, s)
  OBVIOUS
<1>6. /\ DOMAIN f = 1 .. i /\ DOMAIN before = 1 .. i - 1 /\ f[i] = r
      /\ (\A k \in 1 .. i - 1 : f[k] = before[k])
      /\ \A e : About(f, e) <=> About(before, e) \/ LinesAbout(<<>>, e) # {}
  <2>1. /\ s.before \in Seq(FxRunRecs) /\ s.saw \in Nat /\ s.lines \in Seq(LineRecs)
        /\ s.at \in DOMAIN fxAsked.calls[c].months /\ Len(s.before) = s.at - 1
    BY <1>2, <1>3
  <2>2. /\ DOMAIN f = 1 .. s.at /\ DOMAIN s.before = 1 .. s.at - 1 /\ f[s.at] = r
        /\ (\A k \in 1 .. s.at - 1 : f[k] = s.before[k])
        /\ \A e : About(f, e) <=> About(s.before, e) \/ LinesAbout(s.lines, e) # {}
    BY <1>3, <1>4, <1>5, <2>1, MonthsAre
  <2> QED
    BY <1>2, <2>2
<1>7. /\ r.month = fxAsked.calls[c].months[i] /\ r.by = c /\ r.saw = Len(fxRuns) /\ r.lines = <<>>
      /\ r.net = NetGain(<<>>)
  BY <1>2, <1>5 DEF CurrentMonth
<1>8. RevaluationIs(r)
  <2>1. DOMAIN <<>> = {}
    OBVIOUS
  <2>2. NetGain(<<>>) = GainOf(<<>>, PostedLines(<<>>))
    BY <1>3, <2>1, NetOf
  <2> QED
    BY <1>7, <2>1, <2>2 DEF RevaluationIs, NetIs
<1>9. OfMonth(c, r, fxAsked.calls[c].months[i])
  BY <1>3, <1>7, <1>8 DEF OfMonth, AlreadyRevalued
<1>10. \A k \in DOMAIN f : OfMonth(c, f[k], fxAsked.calls[c].months[k])
  <2>1. \A k \in DOMAIN f : k = i \/ k \in 1 .. i - 1
    BY <1>3, <1>6
  <2> QED
    BY <1>6, <1>9, <2>1
<1>11. \A e \in DOMAIN fxAsked.items : e \in held <=> About(f, e)
  <2>1. \A e : LinesAbout(<<>>, e) = {}
    BY DEF LinesAbout
  <2> QED
    BY <1>6, <2>1
<1>12. \A e \in s.left : /\ e \in DOMAIN fxRows /\ s.read[e].outstanding = fxAsked.items[e].amount
                          /\ s.read[e].booked = fxRows[e].booked
  <2> SUFFICES ASSUME NEW e \in OpenItems
               PROVE  e \in DOMAIN fxRows /\ fxRows[e].outstanding = fxAsked.items[e].amount
    BY <1>2
  <2>1. e \in DOMAIN fxRows /\ fxRows[e].outstanding > 0 /\ ItemIs(e, fxRows[e])
    BY <1>3 DEF OpenItems, FxTypes
  <2>2. fxRows[e].outstanding # 0
    BY <2>1
  <2> QED
    BY <2>1, <2>2 DEF ItemIs
<1>13. FxCarried(c, s)
  BY <1>2, <1>3, <1>4, <1>10, <1>11, <1>12 DEF FxCarried
<1> QED
  BY <1>1, <1>13

LEMMA RevaluationBegins == ASSUME FxInv, NEW c \in FxCall, BeginRevaluation(c) PROVE FxInv'
<1>1. /\ c \in DOMAIN fxAsked.calls /\ fxAsked.calls[c].kind = "revalue" /\ fxStep[c] # "done"
      /\ UNCHANGED <<fxAsked, fxRows, fxRates, fxRuns>> /\ RowsKeep
  BY RowsStay DEF BeginRevaluation, FxIs
<1>2. PICK months : months = fxAsked.calls[c].months
  OBVIOUS
<1>3. CASE AlreadyRevalued(months[1])
  <2>1. FxTo(c, "refused", <<>>)
    BY <1>2, <1>3 DEF BeginRevaluation
  <2> QED
    BY <1>1, <2>1, FxGoesOn
<1>4. CASE ~AlreadyRevalued(months[1])
  <2>1. FxTo(c, "working", NewMonth(1, <<>>, {}))
    BY <1>2, <1>4 DEF BeginRevaluation
  <2>2. 1 \in DOMAIN months
    BY <1>1, <1>2, FxAsks DEF FxInv
  <2>3. <<>> \in Seq(FxRunRecs) /\ Len(<<>>) = 1 - 1 /\ DOMAIN <<>> = {}
    OBVIOUS
  <2>4. \A e \in DOMAIN fxAsked.items : e \in {} <=> About(<<>>, e)
    BY <2>3 DEF About
  <2>5. FxCarried(c, NewMonth(1, <<>>, {}))
    BY <1>1, <1>2, <1>4, <2>2, <2>3, <2>4, MonthBegins
  <2> QED
    BY <1>1, <2>1, <2>5, FxGoesOn
<1> QED
  BY <1>3, <1>4

LEMMA MonthFollows == ASSUME FxInv, NEW c \in FxCall, NextMonth(c) PROVE FxInv'
<1>1. /\ c \in DOMAIN fxAsked.calls /\ fxAsked.calls[c].kind = "revalue" /\ fxStep[c] = "working"
      /\ UNCHANGED <<fxAsked, fxRows, fxRates, fxRuns>> /\ RowsKeep /\ FxTypes
  BY RowsStay DEF NextMonth, FxIs, FxInv
<1>2. PICK s : s = fxSeen[c]
  OBVIOUS
<1>3. FxCarried(c, s) /\ s.at < Len(fxAsked.calls[c].months)
  BY <1>1, <1>2 DEF FxInv, RevaluationsAreCarried, Revalues, NextMonth
<1>4. PICK month : month = fxAsked.calls[c].months[s.at + 1]
  OBVIOUS
<1>5. CASE AlreadyRevalued(month)
  <2>1. FxTo(c, "refused", <<>>)
    BY <1>2, <1>4, <1>5 DEF NextMonth
  <2> QED
    BY <1>1, <2>1, FxGoesOn
<1>6. CASE ~AlreadyRevalued(month)
  <2>1. PICK f : f = Months(c, s)
    OBVIOUS
  <2>2. f = Revalued(c)
    BY <1>2, <2>1 DEF Revalued, Months, CurrentMonth
  <2>3. FxTo(c, "working", NewMonth(s.at + 1, f, s.held))
    BY <1>2, <1>4, <1>6, <2>2 DEF NextMonth
  <2>4. /\ s.before \in Seq(FxRunRecs) /\ s.saw \in Nat /\ s.lines \in Seq(LineRecs)
        /\ s.at \in DOMAIN fxAsked.calls[c].months /\ Len(s.before) = s.at - 1
    BY <1>3 DEF FxCarried
  <2>5. f \in Seq(FxRunRecs) /\ Len(f) = s.at /\ s.at \in Nat \ {0}
    BY <1>1, <2>1, <2>4, MonthsAre
  <2>6. s.at + 1 \in DOMAIN fxAsked.calls[c].months /\ Len(f) = (s.at + 1) - 1
    <3>1. fxAsked.calls[c].months \in Seq(Nat)
      BY <1>1, FxAsks
    <3> QED
      BY <1>3, <2>5, <3>1
  <2>7. /\ \A k \in DOMAIN f : OfMonth(c, f[k], fxAsked.calls[c].months[k])
        /\ \A e \in DOMAIN fxAsked.items : e \in s.held <=> About(f, e)
    BY <1>3, <2>1 DEF FxCarried
  <2>8. FxCarried(c, NewMonth(s.at + 1, f, s.held))
    BY <1>1, <1>4, <1>6, <2>5, <2>6, <2>7, MonthBegins
  <2> QED
    BY <1>1, <2>3, <2>8, FxGoesOn
<1> QED
  BY <1>5, <1>6

(* An item of a month.  The rate is the latest up to that month; the whole  *)
(* of the item is still owed, so what was booked is what was booked.        *)
LEMMA RateIs ==
    ASSUME FxTypes, NEW currency, NEW month \in Nat, RatesUpTo(currency, month) # {}
    PROVE  RateAt(currency, month) \in Int
<1>1. PICK rates : rates = RatesUpTo(currency, month)
  OBVIOUS
<1>2. \A r \in rates : r.month \in Nat /\ r.month <= month /\ r.rate \in Int
  BY <1>1 DEF RatesUpTo, FxTypes
<1>3. PICK S : S = {r.month : r \in rates}
  OBVIOUS
<1>4. S \in SUBSET (0 .. month) /\ S # {}
  BY <1>1, <1>2, <1>3
<1>5. PICK top \in S : \A y \in S : y <= top
  BY <1>4, GreatestIsThere
<1>6. PICK r \in rates : r.month = top
  BY <1>3, <1>5
<1>7. \A q \in rates : q.month <= r.month
  BY <1>3, <1>5, <1>6
<1>8. (CHOOSE q \in rates : \A p \in rates : p.month <= q.month) \in rates
  BY <1>7
<1> QED
  BY <1>1, <1>2, <1>8 DEF RateAt

LEMMA WholeIs ==
    ASSUME NEW a \in Nat \ {0}, NEW b \in Int
    PROVE  (2 * a * b + a) \div (2 * a) = b
  OBVIOUS

LEMMA GainIs ==
    ASSUME FxTypes, NEW e \in DOMAIN fxRows, NEW row, row.outstanding = fxAsked.items[e].amount,
           row.booked = fxRows[e].booked, NEW rate \in Int
    PROVE  /\ InRupees(row.outstanding, rate) \in Int /\ fxRows[e].booked \in Int
           /\ Gain(e, row, rate) \in Int /\ e \in Nat
           /\ Sign(e) * fxRows[e].booked + Gain(e, row, rate) = Sign(e) * InRupees(row.outstanding, rate)
<1>1. PICK a \in Nat \ {0} : a = fxAsked.items[e].amount
  BY ItemsAre DEF FxTypes
<1>2. PICK b \in Int : b = fxRows[e].booked
  BY ItemsAre DEF FxTypes, ItemIs
<1>3. PICK v \in Int : v = InRupees(a, rate)
  BY <1>1 DEF InRupees
<1>4. Difference(e, row, rate) = v - (2 * a * b + a) \div (2 * a)
  BY <1>1, <1>2, <1>3 DEF Difference
<1>5. Difference(e, row, rate) = v - b
  BY <1>4, WholeIs
<1>6. PICK sign \in {1, -1} : sign = Sign(e)
  BY DEF Sign
<1>7. Gain(e, row, rate) = sign * (v - b)
  BY <1>5, <1>6 DEF Gain
<1>8. sign * (v - b) \in Int /\ sign * b + sign * (v - b) = sign * v
  BY <1>6
<1>9. e \in Nat
  BY ItemsAre DEF FxTypes
<1> QED
  BY <1>1, <1>2, <1>3, <1>6, <1>7, <1>8, <1>9

LEMMA ItemPassedOver ==
    ASSUME FxInv, NEW c \in DOMAIN fxAsked.calls, NEW s, FxCarried(c, s), NEW e,
           NEW t, t = [s EXCEPT !.left = @ \ {e}]
    PROVE  FxCarried(c, t)
<1>1. /\ t.at = s.at /\ t.saw = s.saw /\ t.read = s.read /\ t.left = s.left \ {e} /\ t.lines = s.lines
      /\ t.before = s.before /\ t.held = s.held
      /\ t = [at |-> t.at, saw |-> t.saw, read |-> t.read, left |-> t.left, lines |-> t.lines,
              before |-> t.before, held |-> t.held]
  BY DEF FxCarried
<1>2. Months(c, t) = Months(c, s)
  BY <1>1 DEF Months, CurrentMonth
<1> QED
  BY <1>1, <1>2 DEF FxCarried

LEMMA MonthsOf ==
    ASSUME FxTypes, NEW c \in DOMAIN fxAsked.calls, fxAsked.calls[c].kind = "revalue", NEW s, NEW before, NEW at,
           s.before = before, s.at = at, before \in Seq(FxRunRecs), s.saw \in Nat, s.lines \in Seq(LineRecs),
           at \in DOMAIN fxAsked.calls[c].months, Len(before) = at - 1
    PROVE  /\ DOMAIN Months(c, s) = 1 .. at /\ Months(c, s)[at] = CurrentMonth(c, s) /\ at \in Nat \ {0}
           /\ \A k \in 1 .. at - 1 : Months(c, s)[k] = before[k]
           /\ \A e : About(Months(c, s), e) <=> About(before, e) \/ LinesAbout(s.lines, e) # {}
<1>1. /\ s.before \in Seq(FxRunRecs) /\ s.saw \in Nat /\ s.lines \in Seq(LineRecs)
      /\ s.at \in DOMAIN fxAsked.calls[c].months /\ Len(s.before) = s.at - 1
  OBVIOUS
<1>2. DOMAIN Months(c, s) = 1 .. s.at /\ Months(c, s)[s.at] = CurrentMonth(c, s) /\ s.at \in Nat \ {0}
  BY <1>1, MonthsAre
<1>3. \A k \in 1 .. s.at - 1 : Months(c, s)[k] = s.before[k]
  BY <1>1, MonthsAre
<1>4. \A e : About(Months(c, s), e) <=> About(s.before, e) \/ LinesAbout(s.lines, e) # {}
  BY <1>1, MonthsAre
<1> QED
  BY <1>2, <1>3, <1>4

LEMMA LineIsAdded ==
    ASSUME FxInv, NEW c \in DOMAIN fxAsked.calls, fxAsked.calls[c].kind = "revalue", NEW s, FxCarried(c, s),
           NEW line \in LineRecs, LineIs(line),
           NEW t, t.at = s.at, t.saw = s.saw, t.read = s.read, t.left = s.left \ {line.of},
           t.lines = Append(s.lines, line), t.before = s.before, t.held = s.held \cup {line.of},
           t = [at |-> t.at, saw |-> t.saw, read |-> t.read, left |-> t.left, lines |-> t.lines,
                before |-> t.before, held |-> t.held]
    PROVE  FxCarried(c, t)
<1>1. /\ t.at = s.at /\ t.saw = s.saw /\ t.read = s.read /\ t.left = s.left \ {line.of}
      /\ t.lines = Append(s.lines, line) /\ t.before = s.before /\ t.held = s.held \cup {line.of}
      /\ t = [at |-> t.at, saw |-> t.saw, read |-> t.read, left |-> t.left, lines |-> t.lines,
              before |-> t.before, held |-> t.held]
  OBVIOUS
<1>2. /\ FxTypes /\ s.before \in Seq(FxRunRecs) /\ s.saw \in Nat /\ s.lines \in Seq(LineRecs)
      /\ s.at \in DOMAIN fxAsked.calls[c].months /\ Len(s.before) = s.at - 1
  BY DEF FxInv, FxCarried
<1>3. /\ t.lines \in Seq(LineRecs)
      /\ \A k \in DOMAIN t.lines : t.lines[k] = line \/ (k \in DOMAIN s.lines /\ t.lines[k] = s.lines[k])
      /\ \A e : LinesAbout(t.lines, e) # {} <=> LinesAbout(s.lines, e) # {} \/ line.of = e
  <2>1. PICK lines \in Seq(LineRecs) : lines = s.lines
    BY <1>2
  <2>2. PICK both : both = Append(lines, line)
    OBVIOUS
  <2>3. /\ both \in Seq(LineRecs)
        /\ \A k \in DOMAIN both : both[k] = line \/ (k \in DOMAIN lines /\ both[k] = lines[k])
        /\ \A e : LinesAbout(both, e) # {} <=> LinesAbout(lines, e) # {} \/ line.of = e
    BY <2>2, LineAdds
  <2>4. t.lines = both
    BY <1>1, <2>1, <2>2
  <2> QED
    BY <2>1, <2>3, <2>4
<1>4. PICK f : f = Months(c, s)
  OBVIOUS
<1>5. PICK g : g = Months(c, t)
  OBVIOUS
<1>20. PICK at : at = s.at
  OBVIOUS
<1>21. PICK before : before = s.before
  OBVIOUS
<1>22. /\ FxTypes /\ before \in Seq(FxRunRecs) /\ at \in DOMAIN fxAsked.calls[c].months /\ Len(before) = at - 1
       /\ s.before = before /\ s.at = at /\ s.saw \in Nat /\ s.lines \in Seq(LineRecs)
       /\ t.before = before /\ t.at = at /\ t.saw \in Nat /\ t.lines \in Seq(LineRecs)
  BY <1>1, <1>2, <1>3, <1>20, <1>21
<1>6. /\ DOMAIN f = 1 .. at /\ f[at] = CurrentMonth(c, s) /\ at \in Nat \ {0}
      /\ (\A k \in 1 .. at - 1 : f[k] = before[k])
      /\ \A e : About(f, e) <=> About(before, e) \/ LinesAbout(s.lines, e) # {}
  <2>1. /\ DOMAIN Months(c, s) = 1 .. at /\ at \in Nat \ {0}
        /\ Months(c, s)[at] = CurrentMonth(c, s)
    BY <1>22, MonthsOf
  <2>2. \A k \in 1 .. at - 1 : Months(c, s)[k] = before[k]
    BY <1>22, MonthsOf
  <2>3. \A e : About(Months(c, s), e) <=> About(before, e) \/ LinesAbout(s.lines, e) # {}
    BY <1>22, MonthsOf
  <2> QED
    BY <1>4, <2>1, <2>2, <2>3
<1>7. /\ DOMAIN g = 1 .. at /\ g[at] = CurrentMonth(c, t)
      /\ (\A k \in 1 .. at - 1 : g[k] = before[k])
      /\ \A e : About(g, e) <=> About(before, e) \/ LinesAbout(t.lines, e) # {}
  <2>1. /\ DOMAIN Months(c, t) = 1 .. at /\ at \in Nat \ {0}
        /\ Months(c, t)[at] = CurrentMonth(c, t)
    BY <1>22, MonthsOf
  <2>2. \A k \in 1 .. at - 1 : Months(c, t)[k] = before[k]
    BY <1>22, MonthsOf
  <2>3. \A e : About(Months(c, t), e) <=> About(before, e) \/ LinesAbout(t.lines, e) # {}
    BY <1>22, MonthsOf, ZenonT(60)
  <2> QED
    BY <1>5, <2>1, <2>2, <2>3
<1>8. \A k \in DOMAIN f : OfMonth(c, f[k], fxAsked.calls[c].months[k])
  BY <1>4 DEF FxCarried
<1>9. PICK r : r = CurrentMonth(c, t)
  OBVIOUS
<1>10. PICK q : q = CurrentMonth(c, s)
  OBVIOUS
<1>11. /\ r.month = q.month /\ r.by = q.by /\ r.saw = q.saw /\ r.lines = t.lines /\ r.net = NetGain(t.lines)
       /\ q.lines = s.lines
  BY <1>1, <1>9, <1>10 DEF CurrentMonth
<1>12. OfMonth(c, q, fxAsked.calls[c].months[at])
  BY <1>6, <1>8, <1>10
<1>13. \A k \in DOMAIN t.lines : LineIs(t.lines[k])
  BY <1>3, <1>11, <1>12 DEF OfMonth, RevaluationIs
<1>14. NetIs(r)
  <2>1. fxAsked.accounts = {"gain", "loss"} => \A k \in DOMAIN t.lines : t.lines[k].posted
    BY <1>13 DEF LineIs
  <2> QED
    BY <1>3, <1>11, <2>1, NetOf DEF NetIs
<1>15. OfMonth(c, r, fxAsked.calls[c].months[at])
  BY <1>11, <1>12, <1>13, <1>14 DEF OfMonth, RevaluationIs
<1>16. \A k \in DOMAIN g : OfMonth(c, g[k], fxAsked.calls[c].months[k])
  <2>1. \A k \in DOMAIN g : k = at \/ k \in 1 .. at - 1
    BY <1>6, <1>7
  <2>2. \A k \in 1 .. at - 1 : k \in DOMAIN f /\ g[k] = f[k]
    BY <1>6, <1>7
  <2> QED
    BY <1>7, <1>8, <1>9, <1>15, <2>1, <2>2
<1>17. \A e \in DOMAIN fxAsked.items : e \in t.held <=> About(g, e)
  <2>1. \A e \in DOMAIN fxAsked.items : e \in s.held <=> About(f, e)
    BY <1>4 DEF FxCarried
  <2> QED
    BY <1>1, <1>3, <1>6, <1>7, <2>1
<1>18. t.left \subseteq DOMAIN fxRows /\ \A e \in t.left : /\ t.read[e].outstanding = fxAsked.items[e].amount
                                                            /\ t.read[e].booked = fxRows[e].booked
  BY <1>1 DEF FxCarried
<1>19. /\ t.at \in DOMAIN fxAsked.calls[c].months /\ t.saw \in Nat /\ t.before \in Seq(FxRunRecs)
       /\ Len(t.before) = t.at - 1
  BY <1>1, <1>2
<1> QED
  BY <1>1, <1>3, <1>5, <1>16, <1>17, <1>18, <1>19 DEF FxCarried

LEMMA ItemRevalued == ASSUME FxInv, NEW c \in FxCall, RevalueItem(c) PROVE FxInv'
<1>1. /\ c \in DOMAIN fxAsked.calls /\ fxAsked.calls[c].kind = "revalue" /\ fxStep[c] = "working"
      /\ UNCHANGED <<fxAsked, fxRows, fxRates, fxRuns>> /\ RowsKeep /\ FxTypes
  BY RowsStay DEF RevalueItem, FxIs, FxInv
<1>2. PICK s : s = fxSeen[c]
  OBVIOUS
<1>3. FxCarried(c, s)
  BY <1>1, <1>2 DEF FxInv, RevaluationsAreCarried, Revalues
<1>4. PICK month : month = fxAsked.calls[c].months[s.at]
  OBVIOUS
<1>5. month \in Nat
  <2>1. fxAsked.calls[c].months \in Seq(Nat) /\ s.at \in DOMAIN fxAsked.calls[c].months
    BY <1>1, <1>3, FxAsks DEF FxCarried
  <2> QED
    BY <1>4, <2>1
<1>6. PICK e \in s.left :
        LET currency == fxAsked.items[e].currency
            gain == Gain(e, s.read[e], RateAt(currency, month))
            line == [of |-> e, gain |-> gain, posted |-> GainAccount(gain) \in fxAsked.accounts,
                     value |-> InRupees(s.read[e].outstanding, RateAt(currency, month))]
        IN  IF RatesUpTo(currency, month) = {} \/ gain = 0
            THEN FxTo(c, "working", [s EXCEPT !.left = @ \ {e}])
            ELSE /\ ItemFree(c, e)
                 /\ FxTo(c, "working", [s EXCEPT
                        !.left = @ \ {e}, !.held = @ \cup {e}, !.lines = Append(@, line)])
  BY <1>2, <1>4 DEF RevalueItem
<1>7. PICK currency : currency = fxAsked.items[e].currency
  OBVIOUS
<1>8. PICK rate : rate = RateAt(currency, month)
  OBVIOUS
<1>9. PICK gain : gain = Gain(e, s.read[e], rate)
  OBVIOUS
<1>10. CASE RatesUpTo(currency, month) = {} \/ gain = 0
  <2>1. PICK t : t = [s EXCEPT !.left = @ \ {e}]
    OBVIOUS
  <2>2. FxTo(c, "working", t)
    BY <1>6, <1>7, <1>8, <1>9, <1>10, <2>1
  <2>3. FxCarried(c, t)
    BY <1>1, <1>3, <2>1, ItemPassedOver
  <2> QED
    BY <1>1, <2>2, <2>3, FxGoesOn
<1>11. CASE ~(RatesUpTo(currency, month) = {} \/ gain = 0)
  <2>1. PICK line : line = [of |-> e, gain |-> gain, posted |-> GainAccount(gain) \in fxAsked.accounts,
                            value |-> InRupees(s.read[e].outstanding, rate)]
    OBVIOUS
  <2>2. PICK t : t = [s EXCEPT !.left = @ \ {e}, !.held = @ \cup {e}, !.lines = Append(@, line)]
    OBVIOUS
  <2>3. FxTo(c, "working", t)
    BY <1>6, <1>7, <1>8, <1>9, <1>11, <2>1, <2>2
  <2>4. rate \in Int
    BY <1>1, <1>5, <1>8, <1>11, RateIs
  <2>5. PICK row : row = s.read[e]
    OBVIOUS
  <2>6. e \in DOMAIN fxRows /\ row.outstanding = fxAsked.items[e].amount /\ row.booked = fxRows[e].booked
    BY <1>3, <2>5 DEF FxCarried
  <2>7. /\ InRupees(row.outstanding, rate) \in Int /\ fxRows[e].booked \in Int /\ gain \in Int /\ e \in Nat
        /\ Sign(e) * fxRows[e].booked + gain = Sign(e) * InRupees(row.outstanding, rate)
    BY <1>1, <1>9, <2>4, <2>5, <2>6, GainIs
  <2>8. line.of = e /\ line.gain = gain /\ line.value = InRupees(row.outstanding, rate)
        /\ line.posted = (GainAccount(gain) \in fxAsked.accounts)
        /\ line = [of |-> line.of, gain |-> line.gain, posted |-> line.posted, value |-> line.value]
    BY <2>1, <2>5
  <2>9. line.posted \in BOOLEAN
    BY <2>8
  <2>10. line \in LineRecs
    BY <2>7, <2>8, <2>9 DEF LineRecs
  <2>11. fxAsked.accounts = {"gain", "loss"} => line.posted
    BY <2>8 DEF GainAccount
  <2>12. LineIs(line)
    BY <2>6, <2>7, <2>8, <2>11 DEF LineIs
  <2>13. /\ t.at = s.at /\ t.saw = s.saw /\ t.read = s.read /\ t.left = s.left \ {line.of}
         /\ t.lines = Append(s.lines, line) /\ t.before = s.before /\ t.held = s.held \cup {line.of}
         /\ t = [at |-> t.at, saw |-> t.saw, read |-> t.read, left |-> t.left, lines |-> t.lines,
                 before |-> t.before, held |-> t.held]
    BY <1>3, <2>2, <2>8 DEF FxCarried
  <2>14. FxCarried(c, t)
    BY <1>1, <1>3, <2>10, <2>12, <2>13, LineIsAdded
  <2> QED
    BY <1>1, <2>3, <2>14, FxGoesOn
<1> QED
  BY <1>10, <1>11

(* The other steps: they commit no run.                                     *)
LEMMA ItemRegistered == ASSUME FxInv, NEW c \in FxCall, Register(c) PROVE FxInv'
<1>1. PICK e : e = fxAsked.calls[c].of
  OBVIOUS
<1>2. /\ c \in DOMAIN fxAsked.calls /\ fxAsked.calls[c].kind = "register" /\ fxStep[c] # "done"
      /\ e \notin DOMAIN fxRows /\ FxTo(c, "done", <<>>) /\ UNCHANGED <<fxAsked, fxRates, fxRuns>>
      /\ fxRows' = [d \in DOMAIN fxRows \cup {e} |-> IF d = e THEN FxRow(fxAsked.items[e]) ELSE fxRows[d]]
      /\ FxTypes
  BY <1>1 DEF Register, FxIs, FxInv
<1>3. e \in DOMAIN fxAsked.items
  BY <1>1, <1>2, ForexAssumption DEF FxTypes
<1>4. /\ DOMAIN fxRows' = DOMAIN fxRows \cup {e} /\ fxRows'[e] = FxRow(fxAsked.items[e])
      /\ \A d \in DOMAIN fxRows : fxRows'[d] = fxRows[d]
  BY <1>2
<1>5. ItemIs(e, fxRows'[e]) /\ fxRows'[e].unrealized = 0
  BY <1>4 DEF ItemIs, FxRow
<1>6. \A d \in DOMAIN fxRows' : ItemIs(d, fxRows'[d])
  BY <1>2, <1>4, <1>5 DEF FxTypes
<1>7. fxRows' = [d \in DOMAIN fxRows' |-> fxRows'[d]] /\ DOMAIN fxRows' \subseteq DOMAIN fxAsked.items
  BY <1>2, <1>3, <1>4 DEF FxTypes
<1>8. RowsKeep
  BY <1>2, <1>4, <1>5, <1>6, <1>7 DEF RowsKeep, FxTypes
<1> QED
  BY <1>2, <1>8, FxGoesOn

LEMMA RateIsKept == ASSUME FxInv, NEW c \in FxCall, UpsertRate(c) PROVE FxInv'
<1>1. PICK rate : rate = fxAsked.calls[c].rate
  OBVIOUS
<1>2. /\ c \in DOMAIN fxAsked.calls /\ fxAsked.calls[c].kind = "rate" /\ fxStep[c] # "done"
      /\ FxTo(c, "done", <<>>) /\ UNCHANGED <<fxAsked, fxRows, fxRuns>> /\ FxTypes
      /\ fxRates' = {r \in fxRates : r.currency # rate.currency \/ r.month # rate.month} \cup {rate}
  BY <1>1 DEF UpsertRate, FxIs, FxInv
<1>3. rate.month \in Nat /\ rate.rate \in Int
  BY <1>1, <1>2, ForexAssumption DEF FxTypes
<1>4. \A r \in fxRates' : r.month \in Nat /\ r.rate \in Int
  BY <1>2, <1>3 DEF FxTypes
<1>5. RowsKeep
  BY <1>2, <1>4 DEF FxTypes, RowsKeep
<1> QED
  BY <1>2, <1>5, FxGoesOn

LEMMA SettlementIsRead == ASSUME FxInv, NEW c \in FxCall, ReadToSettle(c) PROVE FxInv'
<1>1. /\ c \in DOMAIN fxAsked.calls /\ fxAsked.calls[c].kind = "settle" /\ fxStep[c] # "done"
      /\ UNCHANGED <<fxAsked, fxRows, fxRates, fxRuns>> /\ RowsKeep
  BY RowsStay DEF ReadToSettle, FxIs
<1>2. PICK e : e = fxAsked.calls[c].of
  OBVIOUS
<1>3. FxTo(c, "working", fxRows[e]) \/ FxTo(c, "refused", <<>>)
  BY <1>2 DEF ReadToSettle
<1> QED
  BY <1>1, <1>3, FxGoesOn

LEMMA ItemIsSettled == ASSUME FxInv, NEW c \in FxCall, Settle(c) PROVE FxInv'
<1>1. PICK e : e = fxAsked.calls[c].of
  OBVIOUS
<1>2. PICK real : real = Realized(e, fxSeen[c], fxAsked.calls[c].rate)
  OBVIOUS
<1>3. /\ c \in DOMAIN fxAsked.calls /\ fxAsked.calls[c].kind = "settle" /\ fxStep[c] # "done"
      /\ FxTo(c, "done", <<>>) /\ UNCHANGED <<fxAsked, fxRates, fxRuns>> /\ FxTypes
      /\ fxRows' = [fxRows EXCEPT ![e] =
             [[@ EXCEPT !.outstanding = 0, !.status = "SETTLED"] EXCEPT !.realized = real]]
  BY <1>1, <1>2 DEF Settle, Settled, FxIs, FxInv
<1>4. DOMAIN fxRows' = DOMAIN fxRows /\ fxRows' = [d \in DOMAIN fxRows' |-> fxRows'[d]]
  BY <1>3 DEF FxTypes
<1>5. \A d \in DOMAIN fxRows : d # e => fxRows'[d] = fxRows[d]
  BY <1>3 DEF FxTypes
<1>6. ASSUME e \in DOMAIN fxRows PROVE ItemIs(e, fxRows'[e]) /\ fxRows'[e].unrealized = fxRows[e].unrealized
  <2>1. PICK row : row = fxRows[e]
    OBVIOUS
  <2>2. ItemIs(e, row)
    BY <1>3, <1>6, <2>1 DEF FxTypes
  <2>3. PICK new : new = [[row EXCEPT !.outstanding = 0, !.status = "SETTLED"] EXCEPT !.realized = real]
    OBVIOUS
  <2>4. new = [booked |-> row.booked, outstanding |-> 0, unrealized |-> row.unrealized, realized |-> real,
               status |-> "SETTLED"]
    BY <2>2, <2>3 DEF ItemIs
  <2>5. fxRows'[e] = new
    BY <1>3, <1>6, <2>1, <2>3
  <2>6. ItemIs(e, new) /\ new.unrealized = row.unrealized
    BY <2>2, <2>4 DEF ItemIs
  <2> QED
    BY <2>1, <2>5, <2>6 DEF ItemIs
<1>7. \A d \in DOMAIN fxRows' : ItemIs(d, fxRows'[d]) /\ fxRows'[d].unrealized = fxRows[d].unrealized
  BY <1>3, <1>4, <1>5, <1>6 DEF FxTypes
<1>8. RowsKeep
  BY <1>3, <1>4, <1>7 DEF RowsKeep, FxTypes
<1> QED
  BY <1>3, <1>8, FxGoesOn

LEMMA FxStops == ASSUME FxInv, NEW c \in FxCall, FxFails(c) PROVE FxInv'
<1>1. /\ c \in DOMAIN fxAsked.calls /\ fxStep[c] # "done" /\ FxTo(c, "refused", <<>>)
      /\ UNCHANGED <<fxAsked, fxRows, fxRates, fxRuns>> /\ RowsKeep
  BY RowsStay DEF FxFails
<1> QED
  BY <1>1, FxGoesOn

LEMMA FxStutters == ASSUME FxInv, UNCHANGED fxVars PROVE FxInv'
<1>1. UNCHANGED <<fxAsked, fxStep, fxSeen, fxRows, fxRates, fxRuns>>
  BY DEF fxVars
<1>2. FxTypes' /\ RevaluedByTheDone' /\ UnrealizedIsLastLine' /\ RevaluedOnce'
  <2>1. FxTypes'
    BY <1>1 DEF FxInv, FxTypes, ItemIs
  <2>2. RevaluedByTheDone'
    BY <1>1 DEF FxInv, RevaluedByTheDone, RevaluationIs, NetIs, LineIs, Sign
  <2>3. UnrealizedIsLastLine'
    <3>1. \A e : Latest(fxRuns, e)' = Latest(fxRuns, e)
      BY <1>1 DEF Latest, LinesAbout
    <3> QED
      BY <1>1, <3>1 DEF FxInv, UnrealizedIsLastLine
  <2>4. RevaluedOnce'
    BY <1>1 DEF FxInv, RevaluedOnce
  <2> QED
    BY <2>1, <2>2, <2>3, <2>4
<1>3. RevaluationsAreCarried'
  <2> SUFFICES ASSUME NEW d \in FxCall, Revalues(d), fxStep[d] = "working" PROVE FxCarried(d, fxSeen[d])'
    BY <1>1 DEF RevaluationsAreCarried, Revalues
  <2>1. PICK s : s = fxSeen[d]
    OBVIOUS
  <2>2. FxCarried(d, s)
    BY <2>1 DEF FxInv, RevaluationsAreCarried
  <2>3. FxTypes /\ (\A e \in DOMAIN fxRows' : ItemIs(e, fxRows'[e])) /\ DOMAIN fxRows \subseteq DOMAIN fxRows'
    BY <1>1 DEF FxInv, FxTypes
  <2>4. FxCarried(d, s)'
    BY <1>1, <2>2, <2>3, CarriedKeeps
  <2> QED
    BY <1>1, <2>1, <2>4 DEF FxCarried, Months, CurrentMonth
<1> QED
  BY <1>2, <1>3 DEF FxInv

(* A call commits its months: it has seen none of them revalued, and what   *)
(* has been committed since is of other calls.                              *)
LEMMA RevaluationCommits == ASSUME FxInv, NEW c \in FxCall, CommitRevaluation(c) PROVE FxInv'
<1>1. /\ c \in DOMAIN fxAsked.calls /\ fxAsked.calls[c].kind = "revalue" /\ fxStep[c] = "working"
      /\ FxTo(c, "done", <<>>) /\ UNCHANGED <<fxAsked, fxRates>> /\ FxTypes
  BY DEF CommitRevaluation, FxIs, FxInv
<1>2. PICK s : s = fxSeen[c]
  OBVIOUS
<1>3. FxCarried(c, s)
  BY <1>1, <1>2 DEF FxInv, RevaluationsAreCarried, Revalues
<1>4. PICK f : f = Months(c, s)
  OBVIOUS
<1>5. PICK months : months = fxAsked.calls[c].months
  OBVIOUS
<1>6. /\ s.before \in Seq(FxRunRecs) /\ s.saw \in Nat /\ s.lines \in Seq(LineRecs)
      /\ s.at \in DOMAIN fxAsked.calls[c].months /\ Len(s.before) = s.at - 1
  BY <1>3 DEF FxCarried
<1>0. PICK at : at = s.at
  OBVIOUS
<1>7. f \in Seq(FxRunRecs) /\ DOMAIN f = 1 .. at /\ Len(f) = at /\ at \in Nat \ {0} /\ at \in DOMAIN months
  <2>1. f \in Seq(FxRunRecs) /\ DOMAIN f = 1 .. s.at /\ Len(f) = s.at /\ s.at \in Nat \ {0}
    BY <1>1, <1>4, <1>6, MonthsAre
  <2> QED
    BY <1>0, <1>5, <1>6, <2>1
<1>8. \A k \in DOMAIN f : OfMonth(c, f[k], months[k]) /\ f[k] \in FxRunRecs /\ f[k].saw \in Nat
  <2>1. \A k \in DOMAIN f : OfMonth(c, f[k], months[k])
    BY <1>3, <1>4, <1>5 DEF FxCarried
  <2>2. \A k \in DOMAIN f : f[k] \in FxRunRecs
    BY <1>7
  <2>3. \A k \in DOMAIN f : f[k].saw \in Nat
    BY <2>2 DEF FxRunRecs
  <2> QED
    BY <2>1, <2>2, <2>3
<1>9. PICK runs : runs = fxRuns \o f
  OBVIOUS
<1>10. /\ fxRuns' = runs
       /\ fxRows' = [e \in DOMAIN fxRows |->
              IF e \in s.held THEN [fxRows[e] EXCEPT !.unrealized = Latest(f, e)[1].gain] ELSE fxRows[e]]
  <2>1. f = Revalued(c)
    BY <1>2, <1>4 DEF Revalued, Months, CurrentMonth
  <2> QED
    BY <1>2, <1>9, <2>1 DEF CommitRevaluation
<1>11. PICK len \in Nat : len = Len(fxRuns) /\ DOMAIN fxRuns = 1 .. len /\ fxRuns \in Seq(FxRunRecs)
  BY <1>1 DEF FxTypes
<1>12. /\ runs \in Seq(FxRunRecs) /\ Len(runs) = len + at /\ DOMAIN runs = 1 .. len + at
       /\ (\A m \in 1 .. len : runs[m] = fxRuns[m])
       /\ \A k \in 1 .. at : runs[len + k] = f[k]
  <2>0. PICK before \in Seq(FxRunRecs) : before = fxRuns /\ Len(before) = len
    BY <1>11
  <2>6. before \o f \in Seq(FxRunRecs) /\ Len(before \o f) = Len(before) + Len(f)
    BY <1>7
  <2>1. runs \in Seq(FxRunRecs) /\ Len(runs) = len + at
    BY <1>7, <1>9, <2>0, <2>6
  <2>2. DOMAIN runs = 1 .. len + at
    BY <2>1
  <2>3. \A m \in 1 .. len + at : runs[m] = IF m <= len THEN fxRuns[m] ELSE f[m - len]
    BY <1>7, <1>9, <1>11
  <2>4. \A m \in 1 .. len : m \in 1 .. len + at /\ m <= len
    BY <1>7
  <2>5. \A k \in 1 .. at : len + k \in 1 .. len + at /\ ~(len + k <= len) /\ (len + k) - len = k
    BY <1>7
  <2> QED
    BY <2>1, <2>2, <2>3, <2>4, <2>5
<1>13. \A n \in DOMAIN runs : n \notin 1 .. len => \E k \in 1 .. at : n = len + k
  <2> SUFFICES ASSUME NEW n \in DOMAIN runs, n \notin 1 .. len PROVE n - len \in 1 .. at /\ n = len + (n - len)
    OBVIOUS
  <2> QED
    BY <1>7, <1>11, <1>12
<1>14. /\ fxStep' \in [FxCall -> {"start", "working", "done", "refused"}]
       /\ fxSeen' = [d \in FxCall |-> fxSeen'[d]] /\ fxStep'[c] = "done"
       /\ \A d \in FxCall \ {c} : fxStep'[d] = fxStep[d] /\ fxSeen'[d] = fxSeen[d]
  BY <1>1 DEF FxTo, FxTypes
<1>15. DOMAIN fxRows' = DOMAIN fxRows /\ fxRows' = [e \in DOMAIN fxRows' |-> fxRows'[e]]
  BY <1>10
<1>16. \A e \in DOMAIN fxRows' : ItemIs(e, fxRows'[e])
  <2> SUFFICES ASSUME NEW e \in DOMAIN fxRows PROVE ItemIs(e, fxRows'[e])
    BY <1>15
  <2>1. ItemIs(e, fxRows[e])
    BY <1>1 DEF FxTypes
  <2>2. CASE e \in s.held
    <3>1. PICK row : row = fxRows[e]
      OBVIOUS
    <3>2. PICK gain : gain = Latest(f, e)[1].gain
      OBVIOUS
    <3>3. PICK new : new = [row EXCEPT !.unrealized = gain]
      OBVIOUS
    <3>4. fxRows'[e] = new
      BY <1>10, <2>2, <3>1, <3>2, <3>3
    <3>5. ItemIs(e, new)
      BY <2>1, <3>1, <3>3 DEF ItemIs
    <3> QED
      BY <3>4, <3>5
  <2>3. CASE e \notin s.held
    BY <1>10, <2>1, <2>3
  <2> QED
    BY <2>2, <2>3
<1>17. FxTypes'
  <2>1. (\A e \in DOMAIN fxRows : ItemIs(e, fxRows[e]))'
    BY <1>1, <1>16 DEF ItemIs
  <2> QED
    BY <1>1, <1>10, <1>12, <1>14, <1>15, <2>1 DEF FxTypes
<1>18. /\ \A e \in DOMAIN fxRows : fxRows'[e].booked = fxRows[e].booked
       /\ \A r : RevaluationIs(r) => RevaluationIs(r)'
  <2>1. DOMAIN fxRows \subseteq DOMAIN fxRows' /\ fxAsked' = fxAsked
    BY <1>1, <1>15
  <2> QED
    BY <1>1, <1>16, <2>1, LinesKeep
<1>19. \A m \in 1 .. len : fxRuns[m].by \in FxCall /\ fxRuns[m].by # c
  <2>1. \A m \in 1 .. len : fxRuns[m] \in FxRunRecs
    BY <1>11
  <2> QED
    BY <1>1, <1>11, <2>1 DEF FxRunRecs, FxInv, RevaluedByTheDone
<1>20. RevaluedByTheDone'
  <2>0. ASSUME NEW n \in DOMAIN runs PROVE fxStep'[runs[n].by] = "done" /\ RevaluationIs(runs[n])
    <3>1. CASE n \in 1 .. len
      BY <1>11, <1>12, <1>14, <1>19, <3>1 DEF FxInv, RevaluedByTheDone
    <3>2. CASE n \notin 1 .. len
      BY <1>7, <1>8, <1>12, <1>13, <1>14, <3>2 DEF OfMonth
    <3> QED
      BY <3>1, <3>2
  <2> SUFFICES ASSUME NEW n \in DOMAIN runs PROVE fxStep'[runs[n].by] = "done" /\ RevaluationIs(fxRuns[n])'
    BY <1>10 DEF RevaluedByTheDone
  <2>1. PICK r : r = runs[n]
    OBVIOUS
  <2>2. RevaluationIs(r)'
    BY <1>18, <2>0, <2>1
  <2> QED
    BY <1>10, <2>0, <2>1, <2>2 DEF RevaluationIs, NetIs, LineIs
<1>21. RevaluationsAreCarried'
  <2> SUFFICES ASSUME NEW d \in FxCall, Revalues(d), fxStep'[d] = "working" PROVE FxCarried(d, fxSeen[d])'
    BY <1>1 DEF RevaluationsAreCarried, Revalues
  <2>1. d # c
    BY <1>14
  <2>2. PICK t : t = fxSeen'[d]
    OBVIOUS
  <2>3. FxCarried(d, t)
    BY <1>14, <2>1, <2>2 DEF FxInv, RevaluationsAreCarried
  <2>4. PICK g : g = Months(d, t)
    OBVIOUS
  <2>5. Months(d, t)' = g
    BY <1>1, <2>4 DEF Months, CurrentMonth
  <2>6. d \in DOMAIN fxAsked.calls /\ fxAsked.calls[d].kind = "revalue"
    BY DEF Revalues
  <2>7. g \in Seq(FxRunRecs)
    <3>1. /\ t.before \in Seq(FxRunRecs) /\ t.saw \in Nat /\ t.lines \in Seq(LineRecs)
          /\ t.at \in DOMAIN fxAsked.calls[d].months /\ Len(t.before) = t.at - 1
      BY <2>3 DEF FxCarried
    <3> QED
      BY <1>1, <2>4, <2>6, <3>1, MonthsAre
  <2>8. \A k \in DOMAIN g : OfMonth(d, g[k], fxAsked.calls[d].months[k])'
    <3> SUFFICES ASSUME NEW k \in DOMAIN g PROVE OfMonth(d, g[k], fxAsked.calls[d].months[k])'
      OBVIOUS
    <3>1. PICK q : q = g[k]
      OBVIOUS
    <3>2. PICK month : month = fxAsked.calls[d].months[k]
      OBVIOUS
    <3>3. OfMonth(d, q, month)
      BY <2>3, <2>4, <3>1, <3>2 DEF FxCarried
    <3>4. q.saw \in Nat /\ q.saw <= len
      <4>1. q \in FxRunRecs
        BY <2>7, <3>1
      <4>2. q.saw \in Nat
        BY <4>1 DEF FxRunRecs
      <4> QED
        BY <1>11, <3>3, <4>2 DEF OfMonth
    <3>5. \A m \in 1 .. q.saw : m \in 1 .. len /\ runs[m] = fxRuns[m]
      BY <1>12, <3>4
    <3>6. RevaluationIs(q)'
      BY <1>18, <3>3 DEF OfMonth
    <3>7. q.saw <= Len(runs)
      BY <1>7, <1>12, <3>4
    <3>8. OfMonth(d, q, month)'
      BY <1>10, <3>3, <3>5, <3>6, <3>7 DEF OfMonth
    <3> QED
      BY <1>1, <3>1, <3>2, <3>8 DEF OfMonth
  <2>9. (\A e \in DOMAIN fxAsked.items : e \in t.held <=> About(g, e))'
    BY <1>1, <2>3, <2>4 DEF FxCarried, About, LinesAbout
  <2>10. /\ t.left \subseteq DOMAIN fxRows'
         /\ \A e \in t.left : /\ t.read[e].outstanding = fxAsked.items[e].amount
                              /\ t.read[e].booked = fxRows'[e].booked
    BY <1>15, <1>18, <2>3 DEF FxCarried
  <2>11. FxCarried(d, t)'
    BY <1>1, <2>3, <2>5, <2>8, <2>9, <2>10 DEF FxCarried
  <2> QED
    BY <2>2, <2>11 DEF FxCarried, Months, CurrentMonth
<1>22. UnrealizedIsLastLine'
  <2>0. \A e : Latest(fxRuns, e)' = Latest(runs, e)
    BY <1>10, SMT
  <2> SUFFICES ASSUME NEW e \in DOMAIN fxRows
               PROVE  fxRows'[e].unrealized = IF Latest(runs, e) = <<>> THEN 0 ELSE Latest(runs, e)[1].gain
    BY <1>15, <2>0 DEF UnrealizedIsLastLine
  <2>1. Latest(runs, e) = IF About(f, e) THEN Latest(f, e) ELSE Latest(fxRuns, e)
    <3>1. Joined(runs, fxRuns, len, f, at)
      BY <1>7, <1>11, <1>12 DEF Joined
    <3> QED
      BY <3>1, LatestOfBoth
  <2>2. e \in s.held <=> About(f, e)
    BY <1>1, <1>3, <1>4 DEF FxCarried, FxTypes
  <2>3. CASE About(f, e)
    <3>1. PICK k \in DOMAIN f :
             /\ LinesAbout(f[k].lines, e) # {}
             /\ \A n \in DOMAIN f : LinesAbout(f[n].lines, e) # {} => n <= k
      BY <1>7, <2>3, SomeLatest
    <3>2. Latest(f, e) = <<f[k].lines[CHOOSE j \in LinesAbout(f[k].lines, e) : TRUE]>>
      BY <1>7, <3>1, LatestIs
    <3>3. Latest(f, e) # <<>>
      BY <3>2
    <3>4. PICK gain : gain = Latest(f, e)[1].gain
      OBVIOUS
    <3>5. PICK row : row = fxRows[e]
      OBVIOUS
    <3>6. ItemIs(e, row)
      BY <1>1, <3>5 DEF FxTypes
    <3>7. fxRows'[e] = [row EXCEPT !.unrealized = gain]
      BY <1>10, <2>2, <2>3, <3>4, <3>5
    <3>8. fxRows'[e].unrealized = gain
      BY <3>6, <3>7 DEF ItemIs
    <3> QED
      BY <2>1, <2>3, <3>3, <3>4, <3>8
  <2>4. CASE ~About(f, e)
    <3>1. fxRows'[e] = fxRows[e]
      BY <1>10, <2>2, <2>4
    <3>2. fxRows[e].unrealized = IF Latest(fxRuns, e) = <<>> THEN 0 ELSE Latest(fxRuns, e)[1].gain
      BY DEF FxInv, UnrealizedIsLastLine
    <3> QED
      BY <2>1, <2>4, <3>1, <3>2
  <2> QED
    BY <2>3, <2>4
<1>23. RevaluedOnce'
  <2> SUFFICES ASSUME NEW m \in DOMAIN runs, NEW n \in DOMAIN runs, m < n, runs[m].month = runs[n].month
               PROVE  runs[n].saw < m /\ runs[m].by # runs[n].by
    BY <1>10 DEF RevaluedOnce
  <2>0. m \in Nat /\ n \in Nat
    BY <1>12
  <2>1. CASE n \in 1 .. len
    <3>1. m \in 1 .. len /\ runs[m] = fxRuns[m] /\ runs[n] = fxRuns[n]
      BY <1>12, <2>0, <2>1
    <3> QED
      BY <1>11, <2>1, <3>1 DEF FxInv, RevaluedOnce
  <2>2. CASE n \notin 1 .. len
    <3>1. PICK k \in 1 .. at : n = len + k
      BY <1>13, <2>2
    <3>2. runs[n] = f[k] /\ OfMonth(c, f[k], months[k]) /\ f[k].saw \in Nat
      BY <1>7, <1>8, <1>12, <3>1
    <3>3. CASE m \in 1 .. len
      <4>1. ~(m \in 1 .. f[k].saw)
        BY <1>12, <3>2, <3>3 DEF OfMonth
      <4>2. f[k].saw < m
        BY <2>0, <3>2, <3>3, <4>1
      <4>3. runs[m].by # c
        BY <1>12, <1>19, <3>3
      <4> QED
        BY <3>2, <4>2, <4>3 DEF OfMonth
    <3>4. CASE m \notin 1 .. len
      <4>1. PICK i \in 1 .. at : m = len + i
        BY <1>13, <3>4
      <4>2. i \in DOMAIN f /\ runs[m] = f[i]
        BY <1>7, <1>12, <4>1
      <4>3. i # k
        BY <3>1, <4>1
      <4>4. OfMonth(c, f[i], months[i])
        BY <1>8, <4>2
      <4>5. i \in DOMAIN months /\ k \in DOMAIN months
        <5>1. months \in Seq(Nat)
          BY <1>1, <1>5, FxAsks
        <5>2. at \in 1 .. Len(months)
          BY <1>7, <5>1
        <5> QED
          BY <1>7, <5>1, <5>2
      <4>6. months[i] # months[k]
        BY <1>1, <1>5, <4>3, <4>5, FxAsks
      <4> QED
        BY <3>2, <4>2, <4>4, <4>6 DEF OfMonth
    <3> QED
      BY <3>3, <3>4
  <2> QED
    BY <2>1, <2>2
<1> QED
  BY <1>17, <1>20, <1>21, <1>22, <1>23 DEF FxInv

LEMMA FxInvIsKept == FxSpec => []FxInv
<1>1. FxInv /\ [FxNext]_fxVars => FxInv'
  BY ItemRegistered, RateIsKept, SettlementIsRead, ItemIsSettled, FxStops, RevaluationBegins, ItemRevalued,
     MonthFollows, RevaluationCommits, FxStutters DEF FxNext
<1> QED
  BY <1>1, FxStarts, PTL DEF FxSpec

(* RevaluationAddsUp, in every state.                                       *)
THEOREM RevaluedInFull == FxSpec => []RevaluationAddsUp
<1>1. ASSUME FxInv PROVE RevaluationAddsUp
  <2>1. ASSUME NEW n \in DOMAIN fxRuns, NEW k \in DOMAIN fxRuns[n].lines, NEW line, line = fxRuns[n].lines[k]
        PROVE  line.of \in DOMAIN fxRows /\ line.gain = Sign(line.of) * (line.value - fxRows[line.of].booked)
    <3>1. fxRuns[n] \in FxRunRecs
      BY <1>1 DEF FxInv, FxTypes
    <3>2. fxRuns[n].lines \in Seq(LineRecs)
      BY <3>1 DEF FxRunRecs
    <3>3. line \in LineRecs
      BY <2>1, <3>2
    <3>4. LineIs(line)
      BY <1>1, <2>1 DEF FxInv, RevaluedByTheDone, RevaluationIs
    <3>5. PICK e, b, g, v : e = line.of /\ b = fxRows[e].booked /\ g = line.gain /\ v = line.value
      OBVIOUS
    <3>6. e \in DOMAIN fxRows /\ g \in Int /\ v \in Int /\ Sign(e) * b + g = Sign(e) * v
      BY <3>3, <3>4, <3>5 DEF LineRecs, LineIs
    <3>7. b \in Int
      <4>1. FxTypes /\ e \in DOMAIN fxAsked.items /\ ItemIs(e, fxRows[e])
        BY <1>1, <3>6 DEF FxInv, FxTypes
      <4> QED
        BY <3>5, <4>1, ItemsAre DEF ItemIs
    <3>8. Sign(e) = 1 \/ Sign(e) = -1
      BY DEF Sign
    <3>9. g = Sign(e) * (v - b)
      BY <3>6, <3>7, <3>8, SMT
    <3> QED
      BY <3>5, <3>6, <3>9
  <2>2. LineIsClosingMinusBooked
    BY <2>1 DEF LineIsClosingMinusBooked
  <2>3. NetMatchesJournal
    BY <1>1 DEF FxInv, RevaluedByTheDone, RevaluationIs, NetIs, NetMatchesJournal
  <2> QED
    BY <1>1, <2>2, <2>3 DEF FxInv, RevaluationAddsUp
<1> QED
  BY <1>1, FxInvIsKept, PTL
=============================================================================

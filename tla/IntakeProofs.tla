---------------------------- MODULE IntakeProofs ----------------------------
(***************************************************************************)
(* What comes in from outside: ReviewIsConsistent of OcrReview for every    *)
(* number of documents, calls and vendors, StatementsAreMirrored of         *)
(* BankStatements for every number of lines, calls and ledger lines and     *)
(* every weighting of the rules, and ImportAddsUp of TallyImport for every  *)
(* file and every size of its batches; and, of what is reported, that       *)
(* AnalyticsCache keeps CacheForgets for every number of entries and calls  *)
(* and every page.                                                          *)
(*                                                                         *)
(* Documents: the invariant is what a call may rely on between its          *)
(* statements: the document it read is still there, with an extraction, and *)
(* the vendor it looked up still belongs to the company, because no call    *)
(* takes any of them away.  The row locks are not needed for it.            *)
(*                                                                         *)
(* Statements: a call that posts the voucher of an entry relies on the row  *)
(* lock of that entry: while it is held the entry stays unmatched.  A call  *)
(* that reads a file relies on lines never being taken away: what it found  *)
(* before it inserted nothing is still there when it commits.               *)
(*                                                                         *)
(* Cache: between two pages an invalidation has found the keys of all       *)
(* entries its cursor has passed.  Entries that are stored meanwhile leave  *)
(* that true: a new key comes last, one that is there keeps its place.      *)
(*                                                                         *)
(* Tally: a callback is called when its element is closed, behind what is   *)
(* being read; the list of the voucher being read holds no more entries     *)
(* than were read of it, which is what keeps out those of another.          *)
(***************************************************************************)
EXTENDS OcrReview, BankStatements, AnalyticsCache, TallyImport, SumTheorems

LEMMA MemberOf == ASSUME NEW S, NEW s \in Seq(S), NEW d \in DOMAIN s PROVE s[d] \in S
  OBVIOUS

-----------------------------------------------------------------------------
(* Documents                                                                *)
OcrPlaces == {"start", "read", "doc", "ext", "done", "refused"}
IsSequence(s) == s \in Seq({s[i] : i \in DOMAIN s})
KnownVendor(e) == e.vendor \in DOMAIN vendors \cup {"none"}

OcrTypes ==
    /\ ocrAsked \in OcrSettings
    /\ ocrStep \in [OcrCall -> OcrPlaces]
    /\ ocrSeen = [c \in OcrCall |-> ocrSeen[c]]
    /\ scans \in Scans
    /\ IsSequence(extractions) /\ DOMAIN extractions = DOMAIN scans
    /\ IsSequence(booked)

Rows == \A d \in DOMAIN extractions :
    extractions[d] # NoExtraction => IsExtraction(extractions[d]) /\ KnownVendor(extractions[d])

(* What a call between two statements relies on.                            *)
Relied(c) ==
    /\ OcrIs(c, "extract", "doc") => getDocument(c)
    /\ \A kind \in {"approve", "reject", "amend", "vendor"}, where \in {"read", "ext"} :
          OcrIs(c, kind, where) => Extracted(c)
    /\ \A where \in {"read", "ext"} : OcrIs(c, "approve", where) =>
          OwnVendor(ocrSeen[c]) /\ ocrSeen[c].vendor \in DOMAIN vendors
InHand == \A c \in OcrCall : Relied(c)

(* What was booked was read from an extraction that is still there.         *)
BookedFrom == \A b \in DOMAIN booked :
    /\ booked[b].doc \in DOMAIN extractions /\ extractions[booked[b].doc] # NoExtraction
    /\ booked[b].vendor \in DOMAIN vendors

OcrInv == OcrTypes /\ Rows /\ InHand /\ BookedFrom /\ ReviewIsConsistent
-----------------------------------------------------------------------------
LEMMA Appended ==
    ASSUME NEW s, IsSequence(s), NEW e
    PROVE  /\ Len(s) \in Nat /\ DOMAIN s = 1 .. Len(s)
           /\ IsSequence(Append(s, e)) /\ DOMAIN Append(s, e) = DOMAIN s \cup {Len(s) + 1}
           /\ Append(s, e)[Len(s) + 1] = e /\ \A i \in DOMAIN s : Append(s, e)[i] = s[i]
<1> DEFINE S == {s[i] : i \in DOMAIN s} \cup {e}
           t == Append(s, e)
<1>1. s \in Seq({s[i] : i \in DOMAIN s})
  BY DEF IsSequence
<1>2. s \in Seq(S) /\ e \in S /\ Len(s) \in Nat /\ DOMAIN s = 1 .. Len(s)
  BY <1>1
<1> HIDE DEF S
<1>3. t \in Seq(S) /\ Len(t) = Len(s) + 1 /\ t[Len(s) + 1] = e /\ \A i \in DOMAIN s : t[i] = s[i]
  BY <1>2
<1> HIDE DEF t
<1>4. DOMAIN t = 1 .. Len(t) /\ Len(t) \in Nat
  BY <1>3
<1>5. DOMAIN t = DOMAIN s \cup {Len(s) + 1}
  BY <1>2, <1>3, <1>4
<1>6. t \in Seq({t[i] : i \in DOMAIN t})
  BY <1>3, <1>4
<1> QED
  BY <1>2, <1>3, <1>5, <1>6 DEF IsSequence, t

LEMMA Replaced ==
    ASSUME NEW s, IsSequence(s), NEW d \in DOMAIN s, NEW e
    PROVE  /\ IsSequence([s EXCEPT ![d] = e]) /\ DOMAIN [s EXCEPT ![d] = e] = DOMAIN s
           /\ [s EXCEPT ![d] = e][d] = e /\ \A i \in DOMAIN s \ {d} : [s EXCEPT ![d] = e][i] = s[i]
<1> DEFINE t == [s EXCEPT ![d] = e]
<1>1. Len(s) \in Nat /\ DOMAIN s = 1 .. Len(s) /\ s \in Seq({s[i] : i \in DOMAIN s})
  BY DEF IsSequence
<1>2. t[d] = e /\ DOMAIN t = DOMAIN s /\ \A i \in DOMAIN s \ {d} : t[i] = s[i]
  BY <1>1
<1>3. t = [i \in 1 .. Len(s) |-> t[i]]
  BY <1>1
<1> HIDE DEF t
<1>4. t \in Seq({t[i] : i \in DOMAIN t})
  BY <1>1, <1>2, <1>3
<1> QED
  BY <1>2, <1>4 DEF IsSequence, t

LEMMA LargestIs ==
    ASSUME NEW S \in SUBSET Int, NEW m \in S, \A n \in S : m >= n
    PROVE  Max(S) = m
<1>1. \A x \in S : (\A y \in S : x >= y) => x = m
  OBVIOUS
<1> QED
  BY <1>1 DEF Max
-----------------------------------------------------------------------------
LEMMA OcrStarts == OcrInit => OcrInv
<1> SUFFICES ASSUME OcrInit PROVE OcrInv
  OBVIOUS
<1>1. OcrTypes
  BY OcrAssumption DEF OcrInit, OcrTypes, OcrPlaces, IsSequence, Range
<1>2. Rows
  BY OcrAssumption DEF OcrInit, Rows, KnownVendor
<1>3. InHand
  BY DEF OcrInit, InHand, Relied, OcrIs
<1>4. BookedFrom /\ OwnVendorsAreCredited
  BY DEF OcrInit, BookedFrom, OwnVendorsAreCredited
<1>5. DocumentFollowsReview
  BY OcrAssumption DEF OcrInit, DocumentFollowsReview
<1>6. DraftIsLastBooked
  <2> SUFFICES ASSUME NEW d \in DOMAIN extractions, extractions[d] # NoExtraction
               PROVE  extractions[d].draft = Max({0} \cup {b \in DOMAIN booked : booked[b].doc = d})
    BY DEF DraftIsLastBooked
  <2>1. extractions[d].draft = 0
    BY OcrAssumption DEF OcrInit
  <2>2. {0} \cup {b \in DOMAIN booked : booked[b].doc = d} = {0}
    BY DEF OcrInit
  <2>3. Max({0}) = 0
    BY LargestIs
  <2> QED
    BY <2>1, <2>2, <2>3
<1>7. NothingDoubtfulSkipsReview
  <2> SUFFICES ASSUME NEW d \in DOMAIN extractions \ reviewPending,
                      extractions[d].review \notin {"none", "APPROVED", "REJECTED"}
               PROVE  extractions[d].overall >= 95 /\ ~extractions[d].flagged
    BY DEF NothingDoubtfulSkipsReview
  <2>1. extractions[d] # NoExtraction
    BY DEF NoExtraction
  <2>2. IsExtraction(extractions[d]) /\ extractions[d].review \notin {"PENDING_REVIEW", "FLAGGED", "AMENDED"}
    BY <1>2, <2>1 DEF Rows, reviewPending
  <2>3. extractions[d].review = "AUTO_APPROVED"
    BY <2>2 DEF IsExtraction
  <2> QED
    BY <2>1, <2>3, OcrAssumption DEF OcrInit
<1> QED
  BY <1>1, <1>2, <1>3, <1>4, <1>5, <1>6, <1>7 DEF OcrInv, ReviewIsConsistent

(* A call that goes on, or gives up, with the tables as they are.           *)
LEMMA Turns ==
    ASSUME OcrInv, NEW c \in OcrCall, NEW where \in OcrPlaces, NEW seen,
           ocrStep' = [ocrStep EXCEPT ![c] = where], ocrSeen' = [ocrSeen EXCEPT ![c] = seen],
           UNCHANGED ocrAsked, UNCHANGED ocrTables, Relied(c)'
    PROVE  OcrInv'
<1>1. UNCHANGED <<scans, extractions, vendors, booked>>
  BY DEF ocrTables
<1>2. OcrTypes'
  BY <1>1 DEF OcrInv, OcrTypes
<1>3. InHand'
  <2> SUFFICES ASSUME NEW d \in OcrCall, d # c PROVE Relied(d)'
    BY DEF InHand
  <2>1. ocrStep'[d] = ocrStep[d] /\ ocrSeen'[d] = ocrSeen[d]
    BY DEF OcrInv, OcrTypes
  <2>2. Relied(d)
    BY DEF OcrInv, InHand
  <2> QED
    BY <1>1, <2>1, <2>2 DEF Relied, OcrIs, getDocument, DocOf, Extracted, ExtOf, OwnVendor
<1>4. Rows' /\ BookedFrom' /\ ReviewIsConsistent'
  BY <1>1 DEF OcrInv, Rows, KnownVendor, BookedFrom, ReviewIsConsistent, DocumentFollowsReview,
              DraftIsLastBooked, OwnVendorsAreCredited, NothingDoubtfulSkipsReview, reviewPending
<1> QED
  BY <1>2, <1>3, <1>4 DEF OcrInv

LEMMA Gives ==
    ASSUME OcrInv, NEW c \in OcrCall, NEW how \in {"done", "refused"}, OcrEnd(c, how), UNCHANGED ocrTables
    PROVE  OcrInv'
<1>1. ocrStep'[c] = how /\ ocrStep' = [ocrStep EXCEPT ![c] = how]
      /\ ocrSeen' = [ocrSeen EXCEPT ![c] = NoExtraction] /\ UNCHANGED ocrAsked
  BY DEF OcrEnd, OcrTo, OcrInv, OcrTypes
<1>2. Relied(c)'
  BY <1>1 DEF Relied, OcrIs
<1> QED
  BY <1>1, <1>2, Turns DEF OcrPlaces

(* A call that commits takes no document, extraction or vendor away, so     *)
(* that the others still have what they rely on.                            *)
LEMMA OthersRely ==
    ASSUME OcrInv, NEW c \in OcrCall, OcrEnd(c, "done"),
           DOMAIN scans \subseteq DOMAIN scans',
           \A d \in DOMAIN extractions : extractions[d] # NoExtraction =>
               d \in DOMAIN extractions' /\ extractions'[d] # NoExtraction,
           \A g \in DOMAIN vendors : g \in DOMAIN vendors' /\ vendors'[g] = vendors[g]
    PROVE  InHand'
<1> SUFFICES ASSUME NEW d \in OcrCall PROVE Relied(d)'
  BY DEF InHand
<1>1. UNCHANGED ocrAsked /\ ocrStep'[c] = "done"
  BY DEF OcrEnd, OcrTo, OcrInv, OcrTypes
<1>2. CASE d = c
  BY <1>1, <1>2 DEF Relied, OcrIs
<1>3. CASE d # c
  <2>1. ocrStep'[d] = ocrStep[d] /\ ocrSeen'[d] = ocrSeen[d]
    BY <1>3 DEF OcrEnd, OcrTo, OcrInv, OcrTypes
  <2>2. Relied(d)
    BY DEF OcrInv, InHand
  <2>3. Extracted(d) => Extracted(d)'
    BY <1>1 DEF Extracted, ExtOf, DocOf
  <2>4. getDocument(d) => getDocument(d)'
    BY <1>1 DEF getDocument, DocOf
  <2> QED
    BY <1>1, <2>1, <2>2, <2>3, <2>4 DEF Relied, OcrIs, OwnVendor
<1> QED
  BY <1>2, <1>3

(* A call that writes an extraction and the status of its document, alone   *)
(* or with a voucher: of the other documents nothing changes.               *)
LEMMA RowsWritten ==
    ASSUME OcrInv, NEW c \in OcrCall, OcrEnd(c, "done"), NEW d \in DOMAIN extractions, NEW e,
           extractions' = [extractions EXCEPT ![d] = e],
           IsExtraction(e), KnownVendor(e)',
           e.review = "AUTO_APPROVED" => e.overall >= 95 /\ ~e.flagged,
           \/ scans' = [scans EXCEPT ![d].status = StatusFor(e.review)]
           \/ scans' = scans /\ scans[d].status = StatusFor(e.review),
           \A g \in DOMAIN vendors : g \in DOMAIN vendors' /\ vendors'[g] = vendors[g],
           \/ /\ booked' = booked
              /\ e.draft = IF extractions[d] = NoExtraction THEN 0 ELSE extractions[d].draft
           \/ /\ extractions[d] # NoExtraction /\ e.draft = Len(booked) + 1
              /\ \E v : /\ booked' = Append(booked, v) /\ v.doc = d
                        /\ v.vendor \in DOMAIN vendors /\ vendors[v.vendor].company = "own"
    PROVE  OcrInv'
<1> USE DEF ReviewIsConsistent
<1>1. /\ IsSequence(extractions') /\ DOMAIN extractions' = DOMAIN extractions /\ extractions'[d] = e
      /\ \A k \in DOMAIN extractions \ {d} : extractions'[k] = extractions[k]
  BY Replaced DEF OcrInv, OcrTypes
<1>2. /\ scans' \in Scans /\ DOMAIN scans' = DOMAIN scans /\ scans'[d].status = StatusFor(e.review)
      /\ \A k \in DOMAIN scans \ {d} : scans'[k] = scans[k]
  <2>1. scans \in Scans /\ d \in DOMAIN scans /\ StatusFor(e.review) \in ScanStatus
    BY DEF OcrInv, OcrTypes, IsExtraction, StatusFor, ScanStatus
  <2>2. CASE scans' = scans /\ scans[d].status = StatusFor(e.review)
    BY <2>1, <2>2
  <2>3. CASE scans' = [scans EXCEPT ![d].status = StatusFor(e.review)]
    <3>5. scans \in Seq([hash : STRING, status : ScanStatus])
      BY <2>1 DEF Scans
    <3>1. scans[d] \in [hash : STRING, status : ScanStatus]
      BY <2>1, <3>5, MemberOf
    <3>2. [scans[d] EXCEPT !.status = StatusFor(e.review)] \in [hash : STRING, status : ScanStatus]
      BY <2>1, <3>1
    <3>3. scans' = [scans EXCEPT ![d] = [scans[d] EXCEPT !.status = StatusFor(e.review)]]
      BY <2>1, <2>3, <3>5
    <3>4. [scans[d] EXCEPT !.status = StatusFor(e.review)].status = StatusFor(e.review)
      BY <3>1
    <3> QED
      BY <2>1, <3>5, <3>2, <3>3, <3>4 DEF Scans
  <2> QED
    BY <2>2, <2>3
<1>3. e # NoExtraction
  BY DEF IsExtraction, NoExtraction
<1>4. PICK more \in {FALSE, TRUE} :
        /\ ~more => booked' = booked
        /\ more => \E v : /\ booked' = Append(booked, v) /\ v.doc = d
                          /\ v.vendor \in DOMAIN vendors /\ vendors[v.vendor].company = "own"
        /\ more => extractions[d] # NoExtraction /\ e.draft = Len(booked) + 1
        /\ ~more => e.draft = IF extractions[d] = NoExtraction THEN 0 ELSE extractions[d].draft
  OBVIOUS
<1>5. IsSequence(booked) /\ Len(booked) \in Nat /\ DOMAIN booked = 1 .. Len(booked)
  BY Appended DEF OcrInv, OcrTypes
<1>6. /\ IsSequence(booked') /\ DOMAIN booked \subseteq DOMAIN booked'
      /\ \A b \in DOMAIN booked : booked'[b] = booked[b]
      /\ \A b \in DOMAIN booked' \ DOMAIN booked : /\ more /\ b = Len(booked) + 1 /\ booked'[b].doc = d
            /\ booked'[b].vendor \in DOMAIN vendors /\ vendors[booked'[b].vendor].company = "own"
      /\ more => Len(booked) + 1 \in DOMAIN booked'
  <2>1. CASE ~more
    BY <1>4, <1>5, <2>1
  <2>2. CASE more
    <3>1. PICK v : /\ booked' = Append(booked, v) /\ v.doc = d
                   /\ v.vendor \in DOMAIN vendors /\ vendors[v.vendor].company = "own"
      BY <1>4, <2>2
    <3>2. /\ IsSequence(booked') /\ DOMAIN booked' = DOMAIN booked \cup {Len(booked) + 1}
          /\ booked'[Len(booked) + 1] = v /\ \A b \in DOMAIN booked : booked'[b] = booked[b]
      <4> DEFINE longer == Append(booked, v)
      <4>1. /\ IsSequence(longer) /\ DOMAIN longer = DOMAIN booked \cup {Len(booked) + 1}
            /\ longer[Len(booked) + 1] = v /\ \A b \in DOMAIN booked : longer[b] = booked[b]
        BY <1>5, Appended
      <4> HIDE DEF longer
      <4>2. booked' = longer
        BY <3>1 DEF longer
      <4> QED
        BY <4>1, <4>2 DEF IsSequence
    <3>3. \A b \in DOMAIN booked' \ DOMAIN booked : b = Len(booked) + 1 /\ booked'[b] = v
      BY <3>2
    <3> QED
      BY <2>2, <3>1, <3>2, <3>3
  <2> QED
    BY <2>1, <2>2
<1>7. OcrTypes'
  BY <1>1, <1>2, <1>6 DEF OcrInv, OcrTypes, OcrEnd, OcrTo, OcrPlaces
<1>8. Rows'
  BY <1>1 DEF OcrInv, Rows, KnownVendor
<1>9. InHand'
  BY <1>1, <1>2, <1>3, OthersRely
<1>10. BookedFrom' /\ OwnVendorsAreCredited'
  <2> SUFFICES ASSUME NEW b \in DOMAIN booked'
               PROVE  /\ booked'[b].doc \in DOMAIN extractions' /\ extractions'[booked'[b].doc] # NoExtraction
                      /\ booked'[b].vendor \in DOMAIN vendors' /\ vendors'[booked'[b].vendor].company = "own"
    BY DEF BookedFrom, OwnVendorsAreCredited
  <2>1. CASE b \in DOMAIN booked
    BY <1>1, <1>3, <1>6, <2>1 DEF OcrInv, BookedFrom, OwnVendorsAreCredited
  <2>2. CASE b \notin DOMAIN booked
    BY <1>1, <1>3, <1>6, <2>2
  <2> QED
    BY <2>1, <2>2
<1>11. DocumentFollowsReview'
  BY <1>1, <1>2 DEF OcrInv, OcrTypes, DocumentFollowsReview
<1>12. NothingDoubtfulSkipsReview'
  <2> SUFFICES ASSUME NEW k \in DOMAIN extractions, k \notin reviewPending',
                      extractions'[k].review \notin {"none", "APPROVED", "REJECTED"}
               PROVE  extractions'[k].overall >= 95 /\ ~extractions'[k].flagged
    BY <1>1 DEF NothingDoubtfulSkipsReview
  <2>1. CASE k = d
    BY <1>1, <2>1 DEF reviewPending, IsExtraction
  <2>2. CASE k # d
    BY <1>1, <2>2 DEF OcrInv, NothingDoubtfulSkipsReview, reviewPending
  <2> QED
    BY <2>1, <2>2
<1>13. DraftIsLastBooked'
  <2> SUFFICES ASSUME NEW k \in DOMAIN extractions, extractions'[k] # NoExtraction
               PROVE  extractions'[k].draft = Max({0} \cup {b \in DOMAIN booked' : booked'[b].doc = k})
    BY <1>1 DEF DraftIsLastBooked
  <2>1. CASE k = d /\ more
    <3> DEFINE S == {0} \cup {b \in DOMAIN booked' : booked'[b].doc = k}
    <3>1. \A n \in S : n \in Int /\ Len(booked) + 1 >= n
      BY <1>5, <1>6
    <3>2. Len(booked) + 1 \in S
      BY <1>4, <1>6, <2>1, Appended
    <3> HIDE DEF S
    <3>3. Max(S) = Len(booked) + 1
      BY <3>1, <3>2, LargestIs
    <3> QED
      BY <1>1, <1>4, <2>1, <3>3 DEF S
  <2>2. CASE ~(k = d /\ more)
    <3>1. {b \in DOMAIN booked' : booked'[b].doc = k} = {b \in DOMAIN booked : booked[b].doc = k}
      BY <1>6, <2>2
    <3>2. CASE extractions[k] # NoExtraction
      <4>1. extractions'[k].draft = extractions[k].draft
        BY <1>1, <1>4, <2>2, <3>2
      <4> QED
        BY <3>1, <3>2, <4>1 DEF OcrInv, DraftIsLastBooked
    <3>3. CASE extractions[k] = NoExtraction
      <4>1. {b \in DOMAIN booked : booked[b].doc = k} = {}
        BY <3>3 DEF OcrInv, BookedFrom
      <4>2. extractions'[k].draft = 0
        BY <1>1, <1>4, <2>2, <3>3
      <4>3. Max({0}) = 0
        BY LargestIs
      <4> QED
        BY <3>1, <4>1, <4>2, <4>3
    <3> QED
      BY <3>2, <3>3
  <2> QED
    BY <2>1, <2>2
<1> QED
  BY <1>7, <1>8, <1>9, <1>10, <1>11, <1>12, <1>13 DEF OcrInv

(* A new document has no extraction yet.                                    *)
LEMMA Uploaded == ASSUME OcrInv, NEW c \in OcrCall, registerUpload(c) PROVE OcrInv'
<1>1. OcrEnd(c, "done") /\ UNCHANGED <<vendors, booked, ocrAsked>>
  BY DEF registerUpload, OcrEnd, OcrTo
<1>2. CASE UNCHANGED <<scans, extractions>>
  BY <1>1, <1>2, Gives DEF ocrTables
<1>3. CASE /\ scans' = Append(scans, ScanRow(ocrAsked[c].hash, "UPLOADED"))
           /\ extractions' = Append(extractions, NoExtraction)
  <2>1. scans \in Scans /\ IsSequence(extractions) /\ DOMAIN scans = DOMAIN extractions
        /\ ocrAsked[c].hash \in STRING
    BY OcrAssumption DEF OcrInv, OcrTypes, registerUpload, OcrIs
  <2>2. ScanRow(ocrAsked[c].hash, "UPLOADED") \in [hash : STRING, status : ScanStatus]
    BY <2>1 DEF ScanRow, ScanStatus
  <2>3. scans' \in Scans /\ DOMAIN scans' = DOMAIN scans \cup {Len(scans) + 1}
        /\ \A d \in DOMAIN scans : scans'[d] = scans[d]
    BY <1>3, <2>1, <2>2 DEF Scans
  <2>4. /\ IsSequence(extractions') /\ DOMAIN extractions' = DOMAIN extractions \cup {Len(extractions) + 1}
        /\ extractions'[Len(extractions) + 1] = NoExtraction
        /\ \A d \in DOMAIN extractions : extractions'[d] = extractions[d]
        /\ Len(extractions) \in Nat /\ DOMAIN extractions = 1 .. Len(extractions)
    BY <1>3, <2>1, Appended
  <2>5. Len(scans) = Len(extractions)
    BY <2>1, <2>4 DEF Scans
  <2>6. OcrTypes'
    BY <1>1, <2>3, <2>4, <2>5 DEF OcrInv, OcrTypes, OcrEnd, OcrTo, OcrPlaces
  <2>7. InHand'
    BY <1>1, <2>3, <2>4, OthersRely
  <2>8. \A d \in DOMAIN extractions' : extractions'[d] # NoExtraction =>
          d \in DOMAIN extractions /\ extractions'[d] = extractions[d]
    BY <2>4
  <2>9. Rows' /\ BookedFrom' /\ OwnVendorsAreCredited'
    BY <1>1, <2>4, <2>8 DEF OcrInv, Rows, KnownVendor, BookedFrom, ReviewIsConsistent, OwnVendorsAreCredited
  <2>10. DocumentFollowsReview'
    BY <2>1, <2>3, <2>8 DEF OcrInv, ReviewIsConsistent, DocumentFollowsReview
  <2>11. DraftIsLastBooked'
    BY <1>1, <2>8 DEF OcrInv, ReviewIsConsistent, DraftIsLastBooked
  <2>12. NothingDoubtfulSkipsReview'
    BY <2>4, <2>8 DEF OcrInv, ReviewIsConsistent, NothingDoubtfulSkipsReview, reviewPending, NoExtraction
  <2> QED
    BY <2>6, <2>7, <2>9, <2>10, <2>11, <2>12 DEF OcrInv, ReviewIsConsistent
<1> QED
  BY <1>2, <1>3 DEF registerUpload
-----------------------------------------------------------------------------
(* What the lines a handler read from make of its row.                      *)
LEMMA RowOf ==
    ASSUME OcrInv, NEW c \in OcrCall, Extracted(c)
    PROVE  /\ DocOf(c) \in DOMAIN extractions /\ extractions[DocOf(c)] # NoExtraction
           /\ IsExtraction(extractions[DocOf(c)]) /\ KnownVendor(extractions[DocOf(c)])
           /\ scans[DocOf(c)].status = StatusFor(extractions[DocOf(c)].review)
  BY DEF OcrInv, Extracted, ExtOf, Rows, ReviewIsConsistent, DocumentFollowsReview

LEMMA Extraction == ASSUME OcrInv, NEW c \in OcrCall, runFullPipeline(c) PROVE OcrInv'
<1> DEFINE r == ocrAsked[c]
           review == determineReviewStatus(r.overall, r.flagged)
<1>1. r.doc \in DOMAIN extractions
  BY DEF runFullPipeline, OcrInv, InHand, Relied, getDocument, DocOf, OcrTypes
<1>2. PICK vendor \in Matches(r.fields.gstin) :
        extractions' = [extractions EXCEPT ![r.doc] = storeExtraction(c, review, vendor)]
  BY DEF runFullPipeline
<1>3. PICK e : e = storeExtraction(c, review, vendor)
  OBVIOUS
<1>4. /\ IsExtraction(e) /\ e.review = review /\ e.vendor = vendor
      /\ e.overall = r.overall /\ e.flagged = r.flagged
      /\ e.draft = IF extractions[r.doc] = NoExtraction THEN 0 ELSE extractions[r.doc].draft
  BY <1>1, <1>3 DEF storeExtraction, IsExtraction, determineReviewStatus, Extracted, ExtOf, DocOf
<1>5. review = "AUTO_APPROVED" => r.overall >= 95 /\ ~r.flagged
  BY DEF determineReviewStatus
<1>6. AfterPipeline(review) = StatusFor(review)
  BY DEF determineReviewStatus, AfterPipeline, StatusFor
<1>7. OcrEnd(c, "done") /\ UNCHANGED <<vendors, booked>>
      /\ scans' = [scans EXCEPT ![r.doc].status = AfterPipeline(review)]
  BY DEF runFullPipeline
<1>8. vendor \in DOMAIN vendors \cup {"none"}
  BY DEF Matches
<1> HIDE DEF review
<1>9. PICK d \in DOMAIN extractions : d = r.doc
  BY <1>1
<1>10. KnownVendor(e)'
  BY <1>4, <1>7, <1>8 DEF KnownVendor
<1>11. scans' = [scans EXCEPT ![d].status = StatusFor(e.review)]
  BY <1>4, <1>6, <1>7, <1>9
<1> QED
  BY <1>2, <1>3, <1>4, <1>5, <1>7, <1>9, <1>10, <1>11, RowsWritten

LEMMA Approval == ASSUME OcrInv, NEW c \in OcrCall, approve(c) PROVE OcrInv'
<1>1. PICK d \in DOMAIN extractions : d = DocOf(c) /\ extractions[d] # NoExtraction
        /\ IsExtraction(extractions[d]) /\ KnownVendor(extractions[d])
  <2>1. Extracted(c)
    BY DEF approve, OcrInv, InHand, Relied
  <2> QED
    BY <2>1, RowOf
<1>2. PICK v : /\ booked' = Append(booked, v) /\ v.doc = d
               /\ v.vendor \in DOMAIN vendors /\ vendors[v.vendor].company = "own"
  <2>1. OwnVendor(ocrSeen[c]) /\ ocrSeen[c].vendor \in DOMAIN vendors
    BY DEF approve, OcrInv, InHand, Relied
  <2>2. PICK v : v = [doc |-> DocOf(c), fields |-> ocrSeen[c].fields, vendor |-> ocrSeen[c].vendor]
    OBVIOUS
  <2> QED
    BY <1>1, <2>1, <2>2 DEF approve, OwnVendor
<1>3. PICK e : e = [extractions[d] EXCEPT !.review = "APPROVED", !.draft = Len(booked) + 1]
  OBVIOUS
<1>4. extractions' = [extractions EXCEPT ![d] = e]
  BY <1>1, <1>3 DEF approve, Linked
<1>5. IsExtraction(e) /\ e.review = "APPROVED" /\ e.draft = Len(booked) + 1 /\ e.vendor = extractions[d].vendor
  BY <1>1, <1>3 DEF IsExtraction
<1>6. StatusFor(e.review) = "APPROVED"
  BY <1>5 DEF StatusFor
<1>7. OcrEnd(c, "done") /\ vendors' = vendors /\ scans' = [scans EXCEPT ![d].status = StatusFor(e.review)]
  BY <1>1, <1>6 DEF approve
<1>8. KnownVendor(e)'
  BY <1>1, <1>5, <1>7 DEF KnownVendor
<1> QED
  BY <1>1, <1>2, <1>4, <1>5, <1>7, <1>8, RowsWritten

(* A rejection and an amendment write no voucher.                           *)
LEMMA Judged ==
    ASSUME OcrInv, NEW c \in OcrCall, NEW e, NEW kind \in {"reject", "amend"}, OcrIs(c, kind, "ext"),
           OcrEnd(c, "done"), UNCHANGED <<vendors, booked>>,
           extractions' = [extractions EXCEPT ![DocOf(c)] = e],
           IsExtraction(extractions[DocOf(c)]) =>
               /\ IsExtraction(e) /\ e.vendor = extractions[DocOf(c)].vendor
               /\ e.draft = extractions[DocOf(c)].draft /\ e.review # "AUTO_APPROVED"
               /\ scans' = [scans EXCEPT ![DocOf(c)].status = StatusFor(e.review)]
    PROVE  OcrInv'
<1>1. PICK d \in DOMAIN extractions : d = DocOf(c) /\ extractions[d] # NoExtraction
        /\ IsExtraction(extractions[d]) /\ KnownVendor(extractions[d])
  <2>1. Extracted(c)
    BY DEF OcrInv, InHand, Relied
  <2> QED
    BY <2>1, RowOf
<1>2. KnownVendor(e)'
  BY <1>1 DEF KnownVendor
<1> QED
  BY <1>1, <1>2, RowsWritten

LEMMA VendorMade == ASSUME OcrInv, NEW c \in OcrCall, createVendor(c) PROVE OcrInv'
<1>1. PICK gstin : gstin = ocrSeen[c].fields.gstin
  OBVIOUS
<1>2. PICK account : account = ocrAsked[c].account
  OBVIOUS
<1>3. PICK d \in DOMAIN extractions : d = DocOf(c) /\ extractions[d] # NoExtraction
        /\ IsExtraction(extractions[d]) /\ scans[d].status = StatusFor(extractions[d].review)
  <2>1. Extracted(c)
    BY DEF createVendor, OcrInv, InHand, Relied
  <2> QED
    BY <2>1, RowOf
<1>4. vendors' = [g \in DOMAIN vendors \cup {gstin} |->
        IF g \in DOMAIN vendors THEN vendors[g] ELSE [company |-> "own", account |-> account]]
  BY <1>1, <1>2 DEF createVendor
<1>5. \A g \in DOMAIN vendors : g \in DOMAIN vendors' /\ vendors'[g] = vendors[g]
  BY <1>4
<1>6. gstin \in DOMAIN vendors'
  BY <1>4
<1>7. PICK e : e = [extractions[d] EXCEPT !.vendor = gstin]
  OBVIOUS
<1>8. IsExtraction(e) /\ e.vendor = gstin /\ e.review = extractions[d].review /\ e.draft = extractions[d].draft
      /\ e.overall = extractions[d].overall /\ e.flagged = extractions[d].flagged
  BY <1>3, <1>7 DEF IsExtraction
<1>9. extractions' = [extractions EXCEPT ![d] = e]
  BY <1>1, <1>3, <1>7 DEF createVendor
<1>10. KnownVendor(e)'
  BY <1>6, <1>8 DEF KnownVendor
<1>11. e.review = "AUTO_APPROVED" => e.overall >= 95 /\ ~e.flagged
  BY <1>8 DEF OcrInv, ReviewIsConsistent, NothingDoubtfulSkipsReview, reviewPending
<1>12. OcrEnd(c, "done") /\ UNCHANGED <<scans, booked>>
  BY DEF createVendor
<1> QED
  BY <1>3, <1>5, <1>8, <1>9, <1>10, <1>11, <1>12, RowsWritten
-----------------------------------------------------------------------------
(* A call that reads or waits and goes on: what it then relies on it has    *)
(* just seen.                                                               *)
LEMMA ExtractionRead ==
    ASSUME OcrInv, NEW c \in OcrCall,
           \/ StartPipeline(c) \/ ReadExtraction(c) \/ LinkDraft(c)
           \/ LockRejected(c) \/ LockAmended(c) \/ ReadVendor(c)
    PROVE  OcrInv'
<1>1. UNCHANGED ocrTables
  BY DEF StartPipeline, ReadExtraction, LinkDraft, LockRejected, LockAmended, ReadVendor
<1>2. CASE OcrEnd(c, "done") \/ OcrEnd(c, "refused")
  BY <1>1, <1>2, Gives
<1>3. ASSUME NEW where \in OcrPlaces, NEW seen, OcrTo(c, where), ocrSeen' = [ocrSeen EXCEPT ![c] = seen],
             where = "doc" => getDocument(c) /\ ocrAsked[c].kind = "extract",
             where \in {"read", "ext"} => Extracted(c) /\ ocrAsked[c].kind # "extract",
             where \in {"read", "ext"} /\ ocrAsked[c].kind = "approve" =>
                 OwnVendor(seen) /\ seen.vendor \in DOMAIN vendors
      PROVE  OcrInv'
  <2>1. UNCHANGED <<scans, extractions, vendors, booked, ocrAsked>>
    BY <1>1, <1>3 DEF ocrTables, OcrTo
  <2>2. ocrStep' = [ocrStep EXCEPT ![c] = where] /\ ocrStep'[c] = where /\ ocrSeen'[c] = seen
    BY <1>3 DEF OcrTo, OcrInv, OcrTypes
  <2>3. getDocument(c)' = getDocument(c) /\ Extracted(c)' = Extracted(c)
    BY <2>1 DEF getDocument, DocOf, Extracted, ExtOf
  <2>4. Relied(c)'
    BY <1>3, <2>1, <2>2, <2>3 DEF Relied, OcrIs, OwnVendor
  <2> QED
    BY <1>1, <1>3, <2>1, <2>2, <2>4, Turns
<1>4. ocrSeen' = ocrSeen => ocrSeen' = [ocrSeen EXCEPT ![c] = ocrSeen[c]]
  BY DEF OcrInv, OcrTypes
<1>5. CASE StartPipeline(c) /\ ~runOcrFails(c)
  BY <1>3, <1>4, <1>5 DEF StartPipeline, OcrIs, OcrPlaces
<1>6. CASE ReadExtraction(c) /\ Approvable(ExtOf(c))
  <2>1. Extracted(c) /\ OwnVendor(ExtOf(c)) /\ ExtOf(c) = extractions[DocOf(c)]
    BY <1>6 DEF Approvable, Extracted, ExtOf
  <2>2. ExtOf(c).vendor \in DOMAIN vendors
    BY <2>1, RowOf DEF KnownVendor, OwnVendor
  <2> QED
    BY <1>3, <1>6, <2>1, <2>2 DEF ReadExtraction, OcrIs, OcrPlaces
<1>7. CASE LinkDraft(c)
  BY <1>3, <1>4, <1>7 DEF LinkDraft, OcrIs, OcrPlaces, OcrInv, InHand, Relied
<1>8. CASE LockRejected(c) /\ Rejectable(ExtOf(c))
  BY <1>3, <1>4, <1>8 DEF LockRejected, OcrIs, OcrPlaces, Rejectable, Extracted
<1>9. CASE LockAmended(c) /\ Extracted(c) /\ ocrAsked[c].change # <<>>
  BY <1>3, <1>4, <1>9 DEF LockAmended, OcrIs, OcrPlaces
<1>10. CASE ReadVendor(c) /\ Extracted(c) /\ ExtOf(c).fields.gstin # "none"
  BY <1>3, <1>10 DEF ReadVendor, OcrIs, OcrPlaces
<1> QED
  BY <1>2, <1>5, <1>6, <1>7, <1>8, <1>9, <1>10
  DEF StartPipeline, ReadExtraction, LockRejected, LockAmended, ReadVendor

LEMMA OcrSteps == OcrInv /\ [OcrNext]_ocrVars => OcrInv'
<1> SUFFICES ASSUME OcrInv, [OcrNext]_ocrVars PROVE OcrInv'
  OBVIOUS
<1>1. CASE UNCHANGED ocrVars
  BY <1>1 DEF ocrVars, ocrTables, OcrInv, OcrTypes, Rows, KnownVendor, InHand, Relied, OcrIs, getDocument, DocOf,
              Extracted, ExtOf, OwnVendor, BookedFrom, ReviewIsConsistent, DocumentFollowsReview,
              DraftIsLastBooked, OwnVendorsAreCredited, NothingDoubtfulSkipsReview, reviewPending
<1>2. ASSUME NEW c \in OcrCall, registerUpload(c) PROVE OcrInv'
  BY <1>2, Uploaded
<1>3. ASSUME NEW c \in OcrCall,
             \/ StartPipeline(c) \/ ReadExtraction(c) \/ LinkDraft(c)
             \/ LockRejected(c) \/ LockAmended(c) \/ ReadVendor(c)
      PROVE  OcrInv'
  BY <1>3, ExtractionRead
<1>4. ASSUME NEW c \in OcrCall, runFullPipeline(c) PROVE OcrInv'
  BY <1>4, Extraction
<1>5. ASSUME NEW c \in OcrCall, approve(c) PROVE OcrInv'
  BY <1>5, Approval
<1>6. ASSUME NEW c \in OcrCall, reject(c) PROVE OcrInv'
  <2>1. PICK e : e = [extractions[DocOf(c)] EXCEPT !.review = "REJECTED"]
    OBVIOUS
  <2>2. extractions' = [extractions EXCEPT ![DocOf(c)] = e]
    BY <1>6, <2>1 DEF reject
  <2>3. IsExtraction(extractions[DocOf(c)]) =>
          /\ IsExtraction(e) /\ e.vendor = extractions[DocOf(c)].vendor
          /\ e.draft = extractions[DocOf(c)].draft /\ e.review # "AUTO_APPROVED"
          /\ scans' = [scans EXCEPT ![DocOf(c)].status = StatusFor(e.review)]
    BY <1>6, <2>1 DEF reject, IsExtraction, StatusFor
  <2> QED
    BY <1>6, <2>2, <2>3, Judged DEF reject
<1>7. ASSUME NEW c \in OcrCall, amend(c) PROVE OcrInv'
  <2>1. PICK e : e = Amended(extractions[DocOf(c)], ocrAsked[c].change)
    OBVIOUS
  <2>3. extractions' = [extractions EXCEPT ![DocOf(c)] = e]
    BY <1>7, <2>1 DEF amend
  <2>2. IsExtraction(extractions[DocOf(c)]) =>
          /\ IsExtraction(e) /\ e.vendor = extractions[DocOf(c)].vendor
          /\ e.draft = extractions[DocOf(c)].draft /\ e.review # "AUTO_APPROVED"
          /\ scans' = [scans EXCEPT ![DocOf(c)].status = StatusFor(e.review)]
    BY <1>7, <2>1 DEF amend, Amended, IsExtraction, StatusFor
  <2> QED
    BY <1>7, <2>2, <2>3, Judged DEF amend
<1>8. ASSUME NEW c \in OcrCall, createVendor(c) PROVE OcrInv'
  BY <1>8, VendorMade
<1>9. ASSUME NEW c \in OcrCall, OcrFail(c) PROVE OcrInv'
  BY <1>9, Gives DEF OcrFail
<1> QED
  BY <1>1, <1>2, <1>3, <1>4, <1>5, <1>6, <1>7, <1>8, <1>9 DEF OcrNext

(* Document, extraction, vendor and voucher agree whatever uploads,         *)
(* extractions, reviews and bookings overlap: no document looks rejected    *)
(* while its extraction is approved, and a voucher's vendor is the          *)
(* company's own.                                                           *)
THEOREM ConsistentReview == OcrSpec => []ReviewIsConsistent
<1>1. OcrInv => ReviewIsConsistent
  BY DEF OcrInv
<1> QED
  BY <1>1, OcrStarts, OcrSteps, PTL DEF OcrSpec

-----------------------------------------------------------------------------
(* Statements                                                               *)
BankPlaces == {"start", "rows", "locked", "done", "refused"}
BankRow == [date : Int, ref : Int, debit : Int, credit : Int, status : {"PENDING", "MATCHED"}, voucher : Nat]
VoucherRow == [entry : Nat, key : Nat, from : Nat, to : Nat, amount : Int]

BankTypes ==
    /\ bankAsked \in BankSettings
    /\ bankStep \in [BankCall -> BankPlaces]
    /\ bankOwn \in [BankCall -> Seq(BankRow)]
    /\ bankAt \in [BankCall -> Nat \ {0}]
    /\ statements \in Seq(BankRow)
    /\ ledgerLines \in Seq(LedgerLine)
    /\ vouchers \in Seq(VoucherRow)

(* What a call has read of its file is in the table or among its own rows.  *)
Found(c, line) ==
    \/ \E s \in DOMAIN statements : Carries(statements[s], line)
    \/ \E n \in DOMAIN bankOwn[c] : Carries(bankOwn[c][n], line)
Reading(c) == \A kind \in {"import", "fetch"} : BankIs(c, kind, "rows") =>
    \A i \in DOMAIN Ask(c).rows : i < bankAt[c] => Found(c, Ask(c).rows[i])
Inserted(c) == \A n \in DOMAIN bankOwn[c] : bankOwn[c][n].status = "PENDING" /\ bankOwn[c][n].voucher = 0
ReadSoFar == \A c \in BankCall : Reading(c) /\ Inserted(c)
FilesStartAtOne == \A c \in BankCall : bankStep[c] = "start" => bankAt[c] = 1

(* An entry that is locked waits for its voucher, and has one holder.       *)
EntriesWait == \A c \in BankCall : BankIs(c, "voucher", "locked") => Unmatched(c)
EntriesHaveOneHolder == \A c, d \in BankCall :
    BankIs(c, "voucher", "locked") /\ BankIs(d, "voucher", "locked") /\ Ask(c).entry = Ask(d).entry => c = d

VouchersHaveEntries == \A v \in DOMAIN vouchers :
    vouchers[v].entry \in DOMAIN statements /\ statements[vouchers[v].entry].status = "MATCHED"

BankInv ==
    /\ BankTypes /\ ReadSoFar /\ FilesStartAtOne /\ EntriesWait /\ EntriesHaveOneHolder /\ VouchersHaveEntries
    /\ ImportedLinesAreThere /\ OneVoucherPerEntry /\ VoucherMirrorsEntry
-----------------------------------------------------------------------------
(* The scores.                                                              *)
LEMMA Products == ASSUME NEW w \in Nat, NEW a \in Int, NEW b \in Int, a <= b PROVE w * a <= w * b
  OBVIOUS

LEMMA Quotients ==
    ASSUME NEW a \in Int, NEW b \in Int, a <= b, NEW n \in Nat \ {0}
    PROVE  a \div n \in Int /\ a \div n <= b \div n
  OBVIOUS

LEMMA BetterRounded ==
    ASSUME NEW w \in Nat, NEW a \in Int, NEW b \in Int, a <= b
    PROVE  Rounded(w, a) \in Int /\ Rounded(w, a) <= Rounded(w, b)
<1>1. w * a \in Int /\ w * b \in Int /\ w * a + 50 <= w * b + 50
  BY Products
<1>2. PICK x \in Int, y \in Int : x = w * a + 50 /\ y = w * b + 50
  BY <1>1
<1>3. x <= y
  BY <1>1, <1>2
<1>4. x \div 100 \in Int /\ x \div 100 <= y \div 100
  BY <1>3, Quotients
<1> QED
  BY <1>2, <1>4 DEF Rounded

LEMMA NearerScoresMore ==
    ASSUME NEW a \in Nat, NEW b \in Nat, a <= b
    PROVE  scoreDateProximity(a) \in Int /\ scoreDateProximity(b) <= scoreDateProximity(a)
  BY DEF scoreDateProximity

LEMMA Weighting ==
    ASSUME bankAsked \in BankSettings
    PROVE  Rules.amount \in Nat \ {0} /\ Rules.near \in Nat /\ Rules.reference \in Nat
           /\ Rules.description \in Nat /\ Rules.days \in Nat
  BY BankAssumption DEF Rules

LEMMA BetterComesFirst == BankTypes => BetterCandidatesComeFirst
<1> SUFFICES ASSUME BankTypes, NEW s \in DOMAIN statements,
                    NEW i \in Candidates(statements[s]), NEW j \in Candidates(statements[s]),
                    Apart(statements[s], ledgerLines[i]) <= Apart(statements[s], ledgerLines[j]),
                    ledgerLines[i].like >= ledgerLines[j].like,
                    scoreReference(statements[s], ledgerLines[i]) >= scoreReference(statements[s], ledgerLines[j])
             PROVE  Confidence(statements[s], ledgerLines[i]) >= Confidence(statements[s], ledgerLines[j])
  BY DEF BetterCandidatesComeFirst
<1>1. PICK row \in BankRow : row = statements[s]
  BY DEF BankTypes
<1>2. PICK a \in LedgerLine, b \in LedgerLine : a = ledgerLines[i] /\ b = ledgerLines[j]
  BY DEF BankTypes, Candidates
<1>3. Apart(row, a) \in Nat /\ Apart(row, b) \in Nat
  BY DEF Apart, BankRow, LedgerLine
<1>4. scoreReference(row, a) \in Int /\ scoreReference(row, b) \in Int
  BY DEF scoreReference
<1>5. a.like \in Int /\ b.like \in Int
  BY DEF LedgerLine
<1>6. Rules.amount \in Nat \ {0} /\ Rules.near \in Nat /\ Rules.reference \in Nat /\ Rules.description \in Nat
  BY Weighting DEF BankTypes
<1>7. PICK near \in Nat, reference \in Nat, description \in Nat :
        near = Rules.near /\ reference = Rules.reference /\ description = Rules.description
  BY <1>6
<1>8. /\ Rounded(near, scoreDateProximity(Apart(row, a))) \in Int
      /\ Rounded(near, scoreDateProximity(Apart(row, b))) \in Int
      /\ Rounded(near, scoreDateProximity(Apart(row, b))) <= Rounded(near, scoreDateProximity(Apart(row, a)))
  <2>1. PICK p \in Int, q \in Int :
          p = scoreDateProximity(Apart(row, a)) /\ q = scoreDateProximity(Apart(row, b)) /\ q <= p
    BY <1>1, <1>2, <1>3, NearerScoresMore
  <2> QED
    BY <2>1, BetterRounded
<1>9. /\ Rounded(reference, scoreReference(row, a)) \in Int /\ Rounded(reference, scoreReference(row, b)) \in Int
      /\ Rounded(reference, scoreReference(row, b)) <= Rounded(reference, scoreReference(row, a))
  <2>1. PICK p \in Int, q \in Int : p = scoreReference(row, a) /\ q = scoreReference(row, b) /\ q <= p
    BY <1>1, <1>2, <1>4
  <2> QED
    BY <2>1, BetterRounded
<1>10. /\ Rounded(description, a.like) \in Int /\ Rounded(description, b.like) \in Int
       /\ Rounded(description, b.like) <= Rounded(description, a.like)
  <2>1. PICK p \in Int, q \in Int : p = a.like /\ q = b.like /\ q <= p
    BY <1>1, <1>2, <1>5
  <2> QED
    BY <2>1, BetterRounded
<1>11. Score(row, a, a.like) \in Int /\ Score(row, b, b.like) \in Int /\ Score(row, b, b.like) <= Score(row, a, a.like)
  <2>1. PICK n1 \in Int, n2 \in Int, r1 \in Int, r2 \in Int, d1 \in Int, d2 \in Int :
          /\ n1 = Rounded(near, scoreDateProximity(Apart(row, a))) /\ n2 = Rounded(near, scoreDateProximity(Apart(row, b)))
          /\ r1 = Rounded(reference, scoreReference(row, a)) /\ r2 = Rounded(reference, scoreReference(row, b))
          /\ d1 = Rounded(description, a.like) /\ d2 = Rounded(description, b.like)
          /\ n2 <= n1 /\ r2 <= r1 /\ d2 <= d1
    BY <1>8, <1>9, <1>10
  <2>2. Score(row, a, a.like) = Rules.amount + n1 + r1 + d1 /\ Score(row, b, b.like) = Rules.amount + n2 + r2 + d2
    BY <1>7, <2>1 DEF Score
  <2> QED
    BY <1>6, <2>1, <2>2
<1>12. MaxScore \in Nat \ {0}
  <2>1. \A w \in Nat \ {0}, x, y, z \in Nat : w + x + y + z \in Nat \ {0}
    OBVIOUS
  <2> QED
    BY <1>6, <2>1 DEF MaxScore
<1>13. Confidence(row, b) <= Confidence(row, a)
  <2>1. PICK p \in Int, q \in Int, n \in Nat \ {0} :
          p = 100 * Score(row, a, a.like) /\ q = 100 * Score(row, b, b.like) /\ n = MaxScore /\ q <= p
    BY <1>11, <1>12
  <2> QED
    BY <2>1, Quotients DEF Confidence
<1>14. Confidence(row, a) \in Int /\ Confidence(row, b) \in Int
  <2>1. PICK p \in Int, q \in Int, n \in Nat \ {0} :
          p = 100 * Score(row, a, a.like) /\ q = 100 * Score(row, b, b.like) /\ n = MaxScore
    BY <1>11, <1>12
  <2> QED
    BY <2>1, Quotients DEF Confidence
<1> QED
  BY <1>1, <1>2, <1>13, <1>14
-----------------------------------------------------------------------------
LEMMA LineAdded ==
    ASSUME NEW S, NEW s \in Seq(S), NEW e \in S, NEW t, t = Append(s, e)
    PROVE  /\ t \in Seq(S) /\ DOMAIN t = DOMAIN s \cup {Len(s) + 1} /\ t[Len(s) + 1] = e
           /\ Len(s) \in Nat /\ DOMAIN s = 1 .. Len(s) /\ \A n \in DOMAIN s : t[n] = s[n]
<1>1. t \in Seq(S) /\ Len(t) = Len(s) + 1 /\ t[Len(s) + 1] = e /\ \A n \in DOMAIN s : t[n] = s[n]
  OBVIOUS
<1>2. DOMAIN t = 1 .. Len(t) /\ DOMAIN s = 1 .. Len(s) /\ Len(s) \in Nat
  BY <1>1
<1>3. DOMAIN t = DOMAIN s \cup {Len(s) + 1}
  BY <1>1, <1>2
<1> QED
  BY <1>1, <1>2, <1>3

LEMMA Changed ==
    ASSUME NEW S, NEW s \in Seq(S), NEW k \in DOMAIN s, NEW e \in S, NEW t, t = [s EXCEPT ![k] = e]
    PROVE  t \in Seq(S) /\ DOMAIN t = DOMAIN s /\ t[k] = e /\ \A n \in DOMAIN s \ {k} : t[n] = s[n]
  OBVIOUS

Within(u, t) == \A n \in DOMAIN u : \E k \in DOMAIN t : t[k] = u[n]

LEMMA Joined ==
    ASSUME NEW S, NEW s \in Seq(S), NEW u \in Seq(S), NEW t, t = s \o u
    PROVE  /\ t \in Seq(S) /\ DOMAIN s \subseteq DOMAIN t /\ \A n \in DOMAIN s : t[n] = s[n]
           /\ Within(u, t) /\ \A n \in DOMAIN t \ DOMAIN s : \E k \in DOMAIN u : t[n] = u[k]
<1>1. Len(s) \in Nat /\ DOMAIN s = 1 .. Len(s) /\ Len(u) \in Nat /\ DOMAIN u = 1 .. Len(u)
  OBVIOUS
<1>2. t \in Seq(S) /\ DOMAIN t = 1 .. Len(s) + Len(u) /\ \A n \in DOMAIN s : t[n] = s[n]
  BY <1>1
<1>3. \A n \in DOMAIN t \ DOMAIN s : n - Len(s) \in DOMAIN u /\ t[n] = u[n - Len(s)]
  BY <1>1, <1>2
<1>4. \A n \in DOMAIN u : Len(s) + n \in DOMAIN t /\ t[Len(s) + n] = u[n]
  <2> SUFFICES ASSUME NEW n \in DOMAIN u PROVE Len(s) + n \in DOMAIN t /\ t[Len(s) + n] = u[n]
    OBVIOUS
  <2>1. Len(s) + n \in DOMAIN t \ DOMAIN s /\ Len(s) + n - Len(s) = n
    BY <1>1, <1>2
  <2> QED
    BY <1>3, <2>1
<1>5. Within(u, t)
  BY <1>4, Zenon DEF Within
<1>6. \A n \in DOMAIN t \ DOMAIN s : \E k \in DOMAIN u : t[n] = u[k]
  BY <1>3, Zenon
<1>7. DOMAIN s \subseteq DOMAIN t
  BY <1>1, <1>2
<1> QED
  BY <1>1, <1>2, <1>5, <1>6, <1>7

LEMMA CarriesIs ==
    ASSUME NEW row, NEW line
    PROVE  Carries(row, line) <=> /\ row.date = line.date /\ row.ref = line.ref
                                  /\ row.debit = line.debit /\ row.credit = line.credit
  BY DEF Carries

LEMMA Asked ==
    ASSUME bankAsked \in BankSettings, NEW c \in DOMAIN bankAsked.calls
    PROVE  /\ c \in BankCall
           /\ Ask(c).kind \in {"import", "fetch"} => Ask(c).rows \in Seq(BankLine)
           /\ Ask(c).kind = "voucher" => Ask(c).entry \in Nat /\ Ask(c).key \in Nat /\ Ask(c).account \in Nat
  BY BankAssumption DEF Ask, BankAsks

LEMMA BankStarts == BankInit => BankInv
<1> SUFFICES ASSUME BankInit PROVE BankInv
  OBVIOUS
<1>1. BankTypes
  BY BankAssumption DEF BankInit, BankTypes, BankPlaces
<1>2. \A c, kind : ~BankIs(c, kind, "rows") /\ ~BankIs(c, kind, "locked") /\ ~BankIs(c, kind, "done")
  BY Asked DEF BankInit, BankIs
<1>3. ReadSoFar /\ FilesStartAtOne /\ EntriesWait /\ EntriesHaveOneHolder
  BY <1>2 DEF BankInit, ReadSoFar, FilesStartAtOne, Reading, Inserted, EntriesWait, EntriesHaveOneHolder
<1>4. ImportedLinesAreThere
  BY <1>1, Asked DEF BankInit, ImportedLinesAreThere
<1>5. VouchersHaveEntries /\ OneVoucherPerEntry /\ VoucherMirrorsEntry
  BY DEF BankInit, VouchersHaveEntries, OneVoucherPerEntry, VoucherMirrorsEntry
<1> QED
  BY <1>1, <1>3, <1>4, <1>5 DEF BankInv

(* A call that goes on, or gives up, with the tables as they are.           *)
LEMMA BankTurns ==
    ASSUME BankInv, NEW c \in BankCall, NEW where \in BankPlaces \ {"start", "done"},
           NEW own \in Seq(BankRow), NEW at \in Nat \ {0},
           bankStep' = [bankStep EXCEPT ![c] = where], bankOwn' = [bankOwn EXCEPT ![c] = own],
           bankAt' = [bankAt EXCEPT ![c] = at], UNCHANGED bankAsked, UNCHANGED bankTables,
           where = "rows" => Reading(c)', \A n \in DOMAIN own : own[n].status = "PENDING" /\ own[n].voucher = 0,
           where = "locked" => Unmatched(c) /\ EntryFree(c)
    PROVE  BankInv'
<1>1. UNCHANGED <<bankAsked, statements, ledgerLines, vouchers, consents>>
  BY DEF bankTables
<1>2. /\ bankStep' \in [BankCall -> BankPlaces] /\ bankStep'[c] = where
      /\ bankOwn' \in [BankCall -> Seq(BankRow)] /\ bankOwn'[c] = own /\ bankAt' \in [BankCall -> Nat \ {0}]
      /\ \A d \in BankCall \ {c} :
            bankStep'[d] = bankStep[d] /\ bankOwn'[d] = bankOwn[d] /\ bankAt'[d] = bankAt[d]
  BY DEF BankInv, BankTypes
<1>3. BankTypes'
  BY <1>1, <1>2 DEF BankInv, BankTypes
<1>4. \A d : Ask(d)' = Ask(d) /\ \A kind, at2 : d \in BankCall \ {c} => BankIs(d, kind, at2)' = BankIs(d, kind, at2)
  BY <1>1, <1>2 DEF Ask, BankIs
<1>5. ReadSoFar'
  <2> SUFFICES ASSUME NEW d \in BankCall PROVE Reading(d)' /\ Inserted(d)'
    BY DEF ReadSoFar
  <2>1. CASE d = c
    <3>1. Reading(c)'
      <4>1. CASE where = "rows"
        BY <4>1
      <4>2. CASE where # "rows"
        BY <1>2, <4>2 DEF Reading, BankIs
      <4> QED
        BY <4>1, <4>2
    <3>2. Inserted(c)'
      BY <1>2 DEF Inserted
    <3> QED
      BY <2>1, <3>1, <3>2
  <2>2. CASE d # c
    <3>1. Reading(d) /\ Inserted(d)
      BY DEF BankInv, ReadSoFar
    <3>2. \A line : Found(d, line)' = Found(d, line)
      BY <1>1, <1>2, <2>2 DEF Found, Carries
    <3> QED
      BY <1>2, <1>4, <2>2, <3>1, <3>2 DEF Reading, Inserted
  <2> QED
    BY <2>1, <2>2
<1>6. EntriesWait'
  <2> SUFFICES ASSUME NEW d \in BankCall, BankIs(d, "voucher", "locked")' PROVE Unmatched(d)'
    BY DEF EntriesWait
  <2>1. Unmatched(d)
    BY <1>2, <1>4 DEF BankInv, EntriesWait, BankIs
  <2> QED
    BY <1>1, <1>4, <2>1 DEF Unmatched, EntryOf
<1>7. EntriesHaveOneHolder'
  <2> SUFFICES ASSUME NEW d \in BankCall, NEW e \in BankCall, BankIs(d, "voucher", "locked")',
                      BankIs(e, "voucher", "locked")', Ask(d).entry = Ask(e).entry, d # e
               PROVE  FALSE
    BY <1>4 DEF EntriesHaveOneHolder
  <2>1. ASSUME NEW other \in BankCall \ {c}, BankIs(other, "voucher", "locked")', BankIs(c, "voucher", "locked")',
               Ask(c).entry = Ask(other).entry
        PROVE  FALSE
    <3>1. EntryFree(c) /\ bankStep[other] = "locked" /\ other \in DOMAIN bankAsked.calls
      BY <1>1, <1>2, <2>1 DEF BankIs
    <3> QED
      BY <2>1, <3>1 DEF EntryFree
  <2>2. CASE d # c /\ e # c
    BY <1>4, <2>2 DEF BankInv, EntriesHaveOneHolder
  <2> QED
    BY <2>1, <2>2
<1>8. ImportedLinesAreThere'
  <2> SUFFICES ASSUME NEW d \in DOMAIN bankAsked.calls, bankStep'[d] = "done", Ask(d).kind \in {"import", "fetch"},
                      NEW i \in DOMAIN Ask(d).rows
               PROVE  \E s \in DOMAIN statements : Carries(statements[s], Ask(d).rows[i])
    BY <1>1, <1>4 DEF ImportedLinesAreThere, Carries
  <2>1. d \in BankCall /\ bankStep[d] = "done"
    BY <1>2, Asked DEF BankInv, BankTypes
  <2> QED
    BY <2>1 DEF BankInv, ImportedLinesAreThere
<1>9. VouchersHaveEntries' /\ OneVoucherPerEntry' /\ VoucherMirrorsEntry'
  BY <1>1 DEF BankInv, VouchersHaveEntries, OneVoucherPerEntry, VoucherMirrorsEntry, Candidates, IsCandidate,
              Apart, Rules, Amount
<1>10. FilesStartAtOne'
  BY <1>2 DEF BankInv, FilesStartAtOne
<1> QED
  BY <1>3, <1>5, <1>6, <1>7, <1>8, <1>9, <1>10 DEF BankInv

LEMMA BankGives ==
    ASSUME BankInv, NEW c \in BankCall, BankEnd(c, "refused"), UNCHANGED bankTables
    PROVE  BankInv'
<1>1. <<>> \in Seq(BankRow) /\ 1 \in Nat \ {0} /\ DOMAIN <<>> = {}
  OBVIOUS
<1> QED
  BY <1>1, BankTurns DEF BankEnd, BankTo, BankPlaces

(* The next line of the file: left out where it is found, else inserted.    *)
LEMMA LineRead == ASSUME BankInv, NEW c \in BankCall, ReadLine(c) PROVE BankInv'
<1>1. PICK kind \in {"import", "fetch"} : BankIs(c, kind, "rows")
  BY DEF ReadLine
<1>2. /\ c \in DOMAIN bankAsked.calls /\ Ask(c).rows \in Seq(BankLine) /\ bankAt[c] \in Nat \ {0}
      /\ bankAt[c] <= Len(Ask(c).rows) /\ bankOwn[c] \in Seq(BankRow) /\ bankStep[c] = "rows"
  BY <1>1, Asked DEF BankIs, ReadLine, BankInv, BankTypes
<1>3. PICK line : line = Ask(c).rows[bankAt[c]]
  OBVIOUS
<1>4. bankAt[c] \in DOMAIN Ask(c).rows => Stored(line) \in BankRow
  <2> SUFFICES ASSUME bankAt[c] \in DOMAIN Ask(c).rows PROVE Stored(line) \in BankRow
    OBVIOUS
  <2>1. line \in BankLine
    BY <1>2, <1>3, MemberOf
  <2> QED
    BY <2>1 DEF Stored, BankRow, BankLine
<1>5. Carries(Stored(line), line) /\ Stored(line).status = "PENDING" /\ Stored(line).voucher = 0
  BY DEF Carries, Stored
<1>6. UNCHANGED <<bankAsked, bankStep, bankTables>> /\ bankAt' = [bankAt EXCEPT ![c] = bankAt[c] + 1]
  BY DEF ReadLine
<1>7. PICK own \in Seq(BankRow) :
        /\ bankOwn' = [bankOwn EXCEPT ![c] = own]
        /\ \A n \in DOMAIN own : own[n].status = "PENDING" /\ own[n].voucher = 0
        /\ \A n \in DOMAIN bankOwn[c] : n \in DOMAIN own /\ own[n] = bankOwn[c][n]
        /\ \/ \E s \in DOMAIN statements : Carries(statements[s], line)
           \/ \E n \in DOMAIN own : Carries(own[n], line)
        /\ bankAt[c] \in DOMAIN Ask(c).rows
  <2>0. bankAt[c] \in DOMAIN Ask(c).rows
    BY <1>2
  <2>1. CASE /\ UNCHANGED bankOwn
             /\ \E s \in {statements[i] : i \in DOMAIN statements} \cup {bankOwn[c][i] : i \in DOMAIN bankOwn[c]} :
                   SameLine(line, s)
    <3>1. bankOwn' = [bankOwn EXCEPT ![c] = bankOwn[c]]
      BY <2>1 DEF BankInv, BankTypes
    <3>2. \A s : SameLine(line, s) => Carries(s, line)
      BY DEF SameLine, Carries
    <3>3. \/ \E s \in DOMAIN statements : Carries(statements[s], line)
          \/ \E n \in DOMAIN bankOwn[c] : Carries(bankOwn[c][n], line)
      BY <2>1, <3>2
    <3>4. Inserted(c)
      BY DEF BankInv, ReadSoFar
    <3> QED
      BY <1>2, <2>0, <3>1, <3>3, <3>4 DEF Inserted
  <2>2. CASE bankOwn' = [bankOwn EXCEPT ![c] = Append(bankOwn[c], Stored(line))]
    <3>1. PICK e \in BankRow : e = Stored(line)
      BY <1>4, <2>0
    <3>2. PICK own : own = Append(bankOwn[c], e)
      OBVIOUS
    <3>3. /\ own \in Seq(BankRow) /\ DOMAIN own = DOMAIN bankOwn[c] \cup {Len(bankOwn[c]) + 1}
          /\ own[Len(bankOwn[c]) + 1] = e /\ \A n \in DOMAIN bankOwn[c] : own[n] = bankOwn[c][n]
      BY <1>2, <3>2, LineAdded
    <3>4. Inserted(c)
      BY DEF BankInv, ReadSoFar
    <3>5. \A n \in DOMAIN own : own[n].status = "PENDING" /\ own[n].voucher = 0
      BY <1>5, <3>1, <3>3, <3>4 DEF Inserted
    <3> QED
      BY <1>5, <2>0, <2>2, <3>1, <3>2, <3>3, <3>5
  <2> QED
    BY <1>3, <2>1, <2>2 DEF ReadLine
<1>8. bankStep' = [bankStep EXCEPT ![c] = "rows"] /\ UNCHANGED statements
  BY <1>2, <1>6 DEF BankInv, BankTypes, bankTables
<1>9. bankOwn'[c] = own /\ bankAt'[c] = bankAt[c] + 1
  BY <1>6, <1>7 DEF BankInv, BankTypes
<1>10. Reading(c)'
  <2> SUFFICES ASSUME NEW i \in DOMAIN Ask(c).rows, i < bankAt[c] + 1
               PROVE  Found(c, Ask(c).rows[i])'
    BY <1>6, <1>9 DEF Reading, BankIs, Ask
  <2>1. PICK here : here = Ask(c).rows[i]
    OBVIOUS
  <2>2. \/ \E s \in DOMAIN statements : Carries(statements[s], here)
        \/ \E n \in DOMAIN own : Carries(own[n], here)
    <3>1. CASE i = bankAt[c]
      BY <1>3, <1>7, <2>1, <3>1
    <3>2. CASE i < bankAt[c]
      <4>1. Found(c, here)
        BY <1>1, <2>1, <3>2 DEF BankInv, ReadSoFar, Reading
      <4> QED
        BY <1>7, <4>1 DEF Found
    <3>3. i \in Int
      BY <1>2
    <3> QED
      BY <1>2, <3>1, <3>2, <3>3
  <2>3. Found(c, here)'
    BY <1>8, <1>9, <2>2 DEF Found
  <2> QED
    BY <1>6, <2>1, <2>3 DEF Ask
<1>11. PICK at \in Nat \ {0}, where \in BankPlaces \ {"start", "done"} : at = bankAt[c] + 1 /\ where = "rows"
  BY <1>2 DEF BankPlaces
<1>12. UNCHANGED bankAsked /\ UNCHANGED bankTables /\ bankAt' = [bankAt EXCEPT ![c] = at]
       /\ bankStep' = [bankStep EXCEPT ![c] = where]
  BY <1>6, <1>8, <1>11
<1>13. where = "locked" => Unmatched(c) /\ EntryFree(c)
  BY <1>11
<1> QED
  BY <1>7, <1>10, <1>12, <1>13, BankTurns

(* No commit takes a line away, or matches an entry another call holds.     *)
LinesStay ==
    /\ DOMAIN statements \subseteq DOMAIN statements'
    /\ \A s \in DOMAIN statements : \A line : Carries(statements[s], line) => Carries(statements'[s], line)
HeldStays(c) == \A d \in BankCall \ {c} : BankIs(d, "voucher", "locked") => Unmatched(d)'

LEMMA OthersGoOn ==
    ASSUME BankInv, NEW c \in BankCall, BankEnd(c, "done"), LinesStay, HeldStays(c),
           Ask(c).kind \in {"import", "fetch"} =>
               \A i \in DOMAIN Ask(c).rows : \E s \in DOMAIN statements' : Carries(statements'[s], Ask(c).rows[i])
    PROVE  /\ bankAsked' \in BankSettings /\ bankStep' \in [BankCall -> BankPlaces]
           /\ bankOwn' \in [BankCall -> Seq(BankRow)] /\ bankAt' \in [BankCall -> Nat \ {0}]
           /\ ReadSoFar' /\ FilesStartAtOne' /\ EntriesWait' /\ EntriesHaveOneHolder' /\ ImportedLinesAreThere'
<1>1. UNCHANGED bankAsked /\ bankStep' = [bankStep EXCEPT ![c] = "done"]
      /\ bankOwn' = [bankOwn EXCEPT ![c] = <<>>] /\ bankAt' = [bankAt EXCEPT ![c] = 1]
  BY DEF BankEnd, BankTo
<1>2. /\ bankStep' \in [BankCall -> BankPlaces] /\ bankStep'[c] = "done"
      /\ bankOwn' \in [BankCall -> Seq(BankRow)] /\ bankOwn'[c] = <<>> /\ bankAt' \in [BankCall -> Nat \ {0}]
      /\ \A d \in BankCall \ {c} :
            bankStep'[d] = bankStep[d] /\ bankOwn'[d] = bankOwn[d] /\ bankAt'[d] = bankAt[d]
  BY <1>1 DEF BankInv, BankTypes, BankPlaces
<1>3. \A d : Ask(d)' = Ask(d) /\ \A kind, at : d \in BankCall \ {c} => BankIs(d, kind, at)' = BankIs(d, kind, at)
  BY <1>1, <1>2 DEF Ask, BankIs
<1>4. ReadSoFar'
  <2> SUFFICES ASSUME NEW d \in BankCall PROVE Reading(d)' /\ Inserted(d)'
    BY DEF ReadSoFar
  <2>1. CASE d = c
    BY <1>2, <2>1 DEF Reading, Inserted, BankIs
  <2>2. CASE d # c
    <3>1. Reading(d) /\ Inserted(d)
      BY DEF BankInv, ReadSoFar
    <3>2. ASSUME NEW line, Found(d, line)
          PROVE  \/ \E s \in DOMAIN statements' : Carries(statements'[s], line)
                 \/ \E n \in DOMAIN bankOwn'[d] : Carries(bankOwn'[d][n], line)
      BY <1>2, <2>2, <3>2 DEF Found, LinesStay
    <3>3. \A line : Found(d, line) => Found(d, line)'
      BY <3>2 DEF Found, Carries
    <3>4. \A kind, at : BankIs(d, kind, at)' = BankIs(d, kind, at)
      BY <1>3, <2>2
    <3>5. Reading(d)'
      BY <1>2, <1>3, <2>2, <3>1, <3>3, <3>4 DEF Reading
    <3> QED
      BY <1>2, <2>2, <3>1, <3>5 DEF Inserted
  <2> QED
    BY <2>1, <2>2
<1>5. EntriesWait'
  <2> SUFFICES ASSUME NEW d \in BankCall, BankIs(d, "voucher", "locked")' PROVE Unmatched(d)'
    BY DEF EntriesWait
  <2>1. d # c
    BY <1>2 DEF BankIs
  <2> QED
    BY <1>3, <2>1 DEF HeldStays
<1>6. EntriesHaveOneHolder'
  <2>1. ~BankIs(c, "voucher", "locked")'
    BY <1>2 DEF BankIs
  <2> QED
    BY <1>3, <2>1 DEF BankInv, EntriesHaveOneHolder
<1>7. ImportedLinesAreThere'
  <2> SUFFICES ASSUME NEW d \in DOMAIN bankAsked.calls, bankStep'[d] = "done", Ask(d).kind \in {"import", "fetch"},
                      NEW i \in DOMAIN Ask(d).rows
               PROVE  \E s \in DOMAIN statements' : Carries(statements'[s], Ask(d).rows[i])
    BY <1>1, <1>3 DEF ImportedLinesAreThere, Carries
  <2>1. CASE d = c
    BY <2>1
  <2>2. CASE d # c
    <3>1. d \in BankCall /\ bankStep[d] = "done"
      BY <1>2, <2>2, Asked DEF BankInv, BankTypes
    <3>2. PICK s \in DOMAIN statements : Carries(statements[s], Ask(d).rows[i])
      BY <3>1 DEF BankInv, ImportedLinesAreThere
    <3> QED
      BY <3>2 DEF LinesStay
  <2> QED
    BY <2>1, <2>2
<1>8. FilesStartAtOne'
  BY <1>2 DEF BankInv, FilesStartAtOne
<1> QED
  BY <1>1, <1>2, <1>4, <1>5, <1>6, <1>7, <1>8 DEF BankInv, BankTypes

(* The rows a call inserted become visible: each waits, without a voucher.  *)
LEMMA Imported ==
    ASSUME BankInv, NEW c \in BankCall, NEW kind \in {"import", "fetch"}, BankIs(c, kind, "rows"), ReadAll(c),
           statements' = statements \o bankOwn[c], BankEnd(c, "done"), UNCHANGED <<ledgerLines, vouchers, consents>>
    PROVE  BankInv'
<1>1. /\ c \in DOMAIN bankAsked.calls /\ Ask(c).rows \in Seq(BankLine) /\ Ask(c).kind = kind
      /\ UNCHANGED bankAsked
  BY Asked DEF BankIs, BankInv, BankTypes, BankEnd, BankTo
<1>2. PICK new \in Seq(BankRow) :
        /\ new = bankOwn[c] /\ \A n \in DOMAIN new : new[n].status = "PENDING" /\ new[n].voucher = 0
  BY DEF BankInv, BankTypes, ReadSoFar, Inserted
<1>3. /\ statements' \in Seq(BankRow) /\ DOMAIN statements \subseteq DOMAIN statements'
      /\ \A s \in DOMAIN statements : statements'[s] = statements[s]
      /\ \A n \in DOMAIN new : \E s \in DOMAIN statements' : statements'[s] = new[n]
      /\ \A s \in DOMAIN statements' \ DOMAIN statements :
            statements'[s].status = "PENDING" /\ statements'[s].voucher = 0
  <2>1. statements \in Seq(BankRow)
    BY DEF BankInv, BankTypes
  <2>2. PICK all : all = statements'
    OBVIOUS
  <2>3. all = statements \o new
    BY <1>2, <2>2
  <2>4. /\ all \in Seq(BankRow) /\ DOMAIN statements \subseteq DOMAIN all
        /\ \A s \in DOMAIN statements : all[s] = statements[s]
    BY <1>2, <2>1, <2>3, Joined
  <2>5. Within(new, all)
    BY <1>2, <2>1, <2>3, Joined
  <2>6. \A s \in DOMAIN all \ DOMAIN statements : \E n \in DOMAIN new : all[s] = new[n]
    BY SMTT(30), <1>2, <2>1, <2>3, Joined
  <2>7. \A s \in DOMAIN all \ DOMAIN statements : all[s].status = "PENDING" /\ all[s].voucher = 0
    BY <1>2, <2>6
  <2> QED
    BY <2>2, <2>4, <2>5, <2>7 DEF Within
<1>4. LinesStay
  BY <1>3 DEF LinesStay, Carries
<1>5. HeldStays(c)
  <2> SUFFICES ASSUME NEW d \in BankCall, BankIs(d, "voucher", "locked") PROVE Unmatched(d)'
    BY DEF HeldStays
  <2>1. Unmatched(d) /\ Ask(d)' = Ask(d)
    BY <1>1 DEF BankInv, EntriesWait, Ask
  <2> QED
    BY <1>3, <2>1 DEF Unmatched, EntryOf
<1>6. \A i \in DOMAIN Ask(c).rows : \E s \in DOMAIN statements' : Carries(statements'[s], Ask(c).rows[i])
  <2> SUFFICES ASSUME NEW i \in DOMAIN Ask(c).rows
               PROVE  \E s \in DOMAIN statements' : Carries(statements'[s], Ask(c).rows[i])
    OBVIOUS
  <2>1. i < bankAt[c]
    BY <1>1 DEF ReadAll, BankInv, BankTypes
  <2>2. PICK line : line = Ask(c).rows[i]
    OBVIOUS
  <2>3. Found(c, line)
    BY <2>1, <2>2 DEF BankInv, ReadSoFar, Reading
  <2>4. CASE \E s \in DOMAIN statements : Carries(statements[s], line)
    BY <1>3, <2>2, <2>4, SMTT(30) DEF Carries
  <2>5. CASE \E n \in DOMAIN new : Carries(new[n], line)
    <3>1. PICK n \in DOMAIN new : Carries(new[n], line)
      BY <2>5
    <3>2. PICK s \in DOMAIN statements' : statements'[s] = new[n]
      BY <1>3
    <3> QED
      BY <2>2, <3>1, <3>2
  <2> QED
    BY <1>2, <2>3, <2>4, <2>5 DEF Found
<1>7. BankTypes' /\ ReadSoFar' /\ FilesStartAtOne' /\ EntriesWait' /\ EntriesHaveOneHolder' /\ ImportedLinesAreThere'
  <2>1. /\ bankAsked' \in BankSettings /\ bankStep' \in [BankCall -> BankPlaces]
        /\ bankOwn' \in [BankCall -> Seq(BankRow)] /\ bankAt' \in [BankCall -> Nat \ {0}]
        /\ ReadSoFar' /\ FilesStartAtOne' /\ EntriesWait' /\ EntriesHaveOneHolder' /\ ImportedLinesAreThere'
    BY <1>4, <1>5, <1>6, OthersGoOn
  <2> QED
    BY <1>3, <2>1 DEF BankInv, BankTypes
<1>8. VouchersHaveEntries'
  BY <1>3 DEF BankInv, VouchersHaveEntries
<1>9. OneVoucherPerEntry'
  <2>1. \A s \in DOMAIN statements' : statements'[s].voucher # 0 =>
          s \in DOMAIN statements /\ statements'[s] = statements[s]
    BY <1>3
  <2> QED
    BY <2>1 DEF BankInv, OneVoucherPerEntry
<1>10. VoucherMirrorsEntry'
  <2>1. \A v \in DOMAIN vouchers : statements'[vouchers[v].entry] = statements[vouchers[v].entry]
    BY <1>3 DEF BankInv, VouchersHaveEntries
  <2>2. \A row : Candidates(row)' = Candidates(row)
    BY <1>1 DEF Candidates, IsCandidate, Apart, Rules, Amount
  <2> QED
    BY <2>1, <2>2, ZenonT(60) DEF BankInv, VoucherMirrorsEntry, Apart
<1> QED
  BY <1>7, <1>8, <1>9, <1>10 DEF BankInv

LEMMA Consented == ASSUME BankInv, NEW c \in BankCall, initiateConsent(c) PROVE BankInv'
<1>1. /\ UNCHANGED <<statements, ledgerLines, vouchers, bankAsked>> /\ BankEnd(c, "done")
      /\ Ask(c).kind = "consent"
  BY DEF initiateConsent, BankIs, BankEnd, BankTo
<1>2. LinesStay /\ HeldStays(c)
  BY <1>1 DEF LinesStay, HeldStays, BankInv, EntriesWait, Unmatched, EntryOf, Ask
<1>3. /\ bankAsked' \in BankSettings /\ bankStep' \in [BankCall -> BankPlaces]
      /\ bankOwn' \in [BankCall -> Seq(BankRow)] /\ bankAt' \in [BankCall -> Nat \ {0}]
      /\ ReadSoFar' /\ FilesStartAtOne' /\ EntriesWait' /\ EntriesHaveOneHolder' /\ ImportedLinesAreThere'
  BY <1>1, <1>2, OthersGoOn
<1>4. VouchersHaveEntries' /\ OneVoucherPerEntry' /\ VoucherMirrorsEntry'
  BY <1>1 DEF BankInv, VouchersHaveEntries, OneVoucherPerEntry, VoucherMirrorsEntry, Candidates, IsCandidate,
              Apart, Rules, Amount
<1> QED
  BY <1>1, <1>3, <1>4 DEF BankInv, BankTypes

LEMMA SameCandidates ==
    ASSUME NEW row, NEW other, row.date = other.date, row.debit = other.debit, row.credit = other.credit, NEW line
    PROVE  (IsCandidate(row, line) <=> IsCandidate(other, line)) /\ Apart(row, line) = Apart(other, line)
  BY DEF IsCandidate, Apart, Amount

(* The voucher goes the way of the entry, and its line is on the ledger.    *)
LEMMA GoesTheSameWay ==
    ASSUME bankAsked \in BankSettings, NEW row \in BankRow, NEW account \in Nat, Amount(row) > 0,
           NEW way, way = Direction(row, account), NEW lines, lines = LinesOf(row, way)
    PROVE  /\ way.from \in Nat /\ way.to \in Nat /\ Amount(row) \in Int /\ Amount(row) \in {row.debit, row.credit} \ {0}
           /\ IF row.debit > 0 THEN way.from = BankLedger ELSE way.to = BankLedger
           /\ lines \in Seq(LedgerLine)
           /\ \E n \in DOMAIN lines : IsCandidate(row, lines[n]) /\ Apart(row, lines[n]) = 0
<1>1. Amount(row) \in Int /\ Amount(row) \in {row.debit, row.credit} \ {0}
  BY DEF Amount, BankRow
<1>2. /\ way.from \in Nat /\ way.to \in Nat
      /\ IF row.debit > 0 THEN way.from = BankLedger ELSE way.to = BankLedger
  BY BankAssumption DEF Direction
<1>3. PICK debit, credit : debit = OnLedger(row, Amount(row), 0) /\ credit = OnLedger(row, 0, Amount(row))
  OBVIOUS
<1>4. debit \in LedgerLine /\ credit \in LedgerLine
  BY <1>1, <1>3 DEF OnLedger, LedgerLine, BankRow
<1>5. Rules.days \in Nat
  BY Weighting
<1>6. /\ Apart(row, debit) = 0 /\ Apart(row, credit) = 0
      /\ row.debit > 0 => IsCandidate(row, credit)
      /\ ~(row.debit > 0) => IsCandidate(row, debit)
  BY <1>1, <1>3, <1>5 DEF Apart, IsCandidate, OnLedger, BankRow
<1>7. lines = (IF way.to = BankLedger THEN <<debit>> ELSE <<>>) \o (IF way.from = BankLedger THEN <<credit>> ELSE <<>>)
  BY <1>3 DEF LinesOf
<1>8. /\ lines \in Seq(LedgerLine)
      /\ way.to = BankLedger => \E n \in DOMAIN lines : lines[n] = debit
      /\ way.from = BankLedger => \E n \in DOMAIN lines : lines[n] = credit
  <2>1. CASE way.to = BankLedger /\ way.from = BankLedger
    <3>0. PICK ones, others : ones = <<debit>> /\ others = <<credit>>
      OBVIOUS
    <3>1. ones \in Seq(LedgerLine) /\ others \in Seq(LedgerLine)
      BY <1>4, <3>0
    <3>2. lines = ones \o others
      BY <1>7, <2>1, <3>0
    <3>3. lines \in Seq(LedgerLine) /\ DOMAIN ones \subseteq DOMAIN lines /\ \A n \in DOMAIN ones : lines[n] = ones[n]
      BY <3>1, <3>2, Joined
    <3>4. Within(others, lines)
      BY <3>1, <3>2, Joined
    <3>5. 1 \in DOMAIN ones /\ ones[1] = debit /\ 1 \in DOMAIN others /\ others[1] = credit
      BY <3>0
    <3>6. 1 \in DOMAIN lines /\ lines[1] = debit
      BY <3>3, <3>5
    <3>7. \E n \in DOMAIN lines : lines[n] = credit
      BY <3>4, <3>5 DEF Within
    <3> QED
      BY <3>3, <3>6, <3>7
  <2>2. CASE way.to = BankLedger /\ way.from # BankLedger
    <3>1. lines = <<debit>>
      BY <1>7, <2>2
    <3> QED
      BY <1>4, <2>2, <3>1
  <2>3. CASE way.to # BankLedger /\ way.from = BankLedger
    <3>1. lines = <<credit>>
      BY <1>7, <2>3
    <3> QED
      BY <1>4, <2>3, <3>1
  <2>4. CASE way.to # BankLedger /\ way.from # BankLedger
    BY <1>2, <2>4
  <2> QED
    BY <2>1, <2>2, <2>3, <2>4
<1> QED
  BY <1>1, <1>2, <1>6, <1>8

(* The entry is still unmatched: no voucher was posted for it, and no other *)
(* call holds it.                                                           *)
LEMMA VoucherPosted == ASSUME BankInv, NEW c \in BankCall, createVoucherFromBankEntry(c) PROVE BankInv'
<1>1. /\ c \in DOMAIN bankAsked.calls /\ Ask(c).kind = "voucher" /\ bankStep[c] = "locked"
      /\ Ask(c).entry \in Nat /\ Ask(c).key \in Nat /\ Ask(c).account \in Nat
      /\ Unmatched(c) /\ BankEnd(c, "done") /\ UNCHANGED <<bankAsked, consents>> /\ bankAsked \in BankSettings
  BY Asked DEF createVoucherFromBankEntry, BankIs, BankInv, BankTypes, EntriesWait, BankEnd, BankTo
<1>2. PICK e, row, account, key : e = Ask(c).entry /\ row = statements[e] /\ account = Ask(c).account /\ key = Ask(c).key
  OBVIOUS
<1>3. /\ e \in DOMAIN statements /\ row.status # "MATCHED" /\ e \in Nat /\ key \in Nat /\ account \in Nat
      /\ statements \in Seq(BankRow) /\ row \in BankRow
  <2>1. e \in DOMAIN statements /\ row.status # "MATCHED" /\ e \in Nat /\ key \in Nat /\ account \in Nat
        /\ statements \in Seq(BankRow)
    BY <1>1, <1>2 DEF Unmatched, EntryOf, BankInv, BankTypes
  <2> QED
    BY <1>2, <2>1, MemberOf
<1>4. PICK way, lines : way = Direction(row, account) /\ lines = LinesOf(row, way)
  OBVIOUS
<1>5. PICK v :
        /\ statements' = [statements EXCEPT ![e] = Reconciled(row, v)]
        /\ \/ v \in DOMAIN vouchers /\ UNCHANGED <<ledgerLines, vouchers>>
           \/ /\ Amount(row) > 0 /\ v = Len(vouchers) + 1 /\ ledgerLines' = ledgerLines \o lines
              /\ vouchers' = Append(vouchers, [entry |-> e, key |-> key, from |-> way.from, to |-> way.to,
                                               amount |-> Amount(row)])
  BY <1>2, <1>4 DEF createVoucherFromBankEntry, EntryOf, Keyed
<1>6. vouchers \in Seq(VoucherRow) /\ ledgerLines \in Seq(LedgerLine) /\ Len(vouchers) \in Nat
      /\ DOMAIN vouchers = 1 .. Len(vouchers)
  BY DEF BankInv, BankTypes
<1>7. /\ vouchers' \in Seq(VoucherRow) /\ DOMAIN vouchers \subseteq DOMAIN vouchers'
      /\ \A w \in DOMAIN vouchers : vouchers'[w] = vouchers[w]
      /\ v \in DOMAIN vouchers' /\ v \in Nat \ {0}
      /\ ledgerLines' \in Seq(LedgerLine) /\ DOMAIN ledgerLines \subseteq DOMAIN ledgerLines'
      /\ \A n \in DOMAIN ledgerLines : ledgerLines'[n] = ledgerLines[n]
      /\ \A w \in DOMAIN vouchers' \ DOMAIN vouchers :
            /\ w = v /\ vouchers'[w].entry = e /\ vouchers'[w].amount \in {row.debit, row.credit} \ {0}
            /\ IF row.debit > 0 THEN vouchers'[w].from = BankLedger ELSE vouchers'[w].to = BankLedger
            /\ \E n \in DOMAIN ledgerLines' : IsCandidate(row, ledgerLines'[n]) /\ Apart(row, ledgerLines'[n]) = 0
  <2>1. CASE v \in DOMAIN vouchers /\ UNCHANGED <<ledgerLines, vouchers>>
    BY <1>6, <2>1
  <2>2. CASE /\ Amount(row) > 0 /\ v = Len(vouchers) + 1 /\ ledgerLines' = ledgerLines \o lines
             /\ vouchers' = Append(vouchers, [entry |-> e, key |-> key, from |-> way.from, to |-> way.to,
                                              amount |-> Amount(row)])
    <3>1. /\ way.from \in Nat /\ way.to \in Nat /\ Amount(row) \in Int /\ Amount(row) \in {row.debit, row.credit} \ {0}
          /\ IF row.debit > 0 THEN way.from = BankLedger ELSE way.to = BankLedger
          /\ lines \in Seq(LedgerLine)
          /\ \E n \in DOMAIN lines : IsCandidate(row, lines[n]) /\ Apart(row, lines[n]) = 0
      BY ZenonT(60), <1>1, <1>3, <1>4, <2>2, GoesTheSameWay
    <3>2. PICK new : new = [entry |-> e, key |-> key, from |-> way.from, to |-> way.to, amount |-> Amount(row)]
      OBVIOUS
    <3>3. /\ new \in VoucherRow /\ new.entry = e /\ new.amount = Amount(row)
          /\ new.from = way.from /\ new.to = way.to
      BY <1>3, <3>1, <3>2 DEF VoucherRow
    <3>4. PICK posted, ledger : posted = vouchers' /\ ledger = ledgerLines'
      OBVIOUS
    <3>5. posted = Append(vouchers, new) /\ ledger = ledgerLines \o lines
      BY <2>2, <3>2, <3>4
    <3>6. /\ posted \in Seq(VoucherRow) /\ DOMAIN posted = DOMAIN vouchers \cup {v} /\ posted[v] = new
          /\ \A w \in DOMAIN vouchers : posted[w] = vouchers[w]
      BY <1>6, <2>2, <3>3, <3>5, LineAdded
    <3>7. /\ ledger \in Seq(LedgerLine) /\ DOMAIN ledgerLines \subseteq DOMAIN ledger
          /\ \A n \in DOMAIN ledgerLines : ledger[n] = ledgerLines[n]
      BY <1>6, <3>1, <3>5, Joined
    <3>8. Within(lines, ledger)
      BY <1>6, <3>1, <3>5, Joined
    <3>9. \E n \in DOMAIN ledger : IsCandidate(row, ledger[n]) /\ Apart(row, ledger[n]) = 0
      <4>1. PICK n \in DOMAIN lines : IsCandidate(row, lines[n]) /\ Apart(row, lines[n]) = 0
        BY <3>1
      <4>2. PICK k \in DOMAIN ledger : ledger[k] = lines[n]
        BY <3>8 DEF Within
      <4> QED
        BY <4>1, <4>2
    <3>10. \A w \in DOMAIN posted \ DOMAIN vouchers :
             /\ w = v /\ posted[w].entry = e /\ posted[w].amount \in {row.debit, row.credit} \ {0}
             /\ IF row.debit > 0 THEN posted[w].from = BankLedger ELSE posted[w].to = BankLedger
      BY <3>1, <3>3, <3>6
    <3>11. v \in Nat \ {0} /\ v \in DOMAIN posted /\ DOMAIN vouchers \subseteq DOMAIN posted
      BY <1>6, <2>2, <3>6
    <3> HIDE <2>2
    <3> QED
      BY <3>4, <3>6, <3>7, <3>9, <3>10, <3>11
  <2> QED
    BY <1>5, <2>1, <2>2
<1>8. PICK entry : entry = Reconciled(row, v)
  OBVIOUS
<1>9. /\ entry \in BankRow /\ entry.status = "MATCHED" /\ entry.voucher = v
      /\ entry.date = row.date /\ entry.ref = row.ref /\ entry.debit = row.debit /\ entry.credit = row.credit
  <2>1. v \in Nat /\ row \in BankRow
    BY <1>3, <1>7
  <2> QED
    BY <1>8, <2>1 DEF Reconciled, BankRow
<1>10. /\ statements' \in Seq(BankRow) /\ DOMAIN statements' = DOMAIN statements /\ statements'[e] = entry
      /\ \A s \in DOMAIN statements \ {e} : statements'[s] = statements[s]
  <2>1. PICK all : all = statements' /\ all = [statements EXCEPT ![e] = entry]
    BY <1>5, <1>8
  <2> QED
    BY <1>3, <1>9, <2>1, Changed
<1>11. LinesStay
  <2> SUFFICES ASSUME NEW s \in DOMAIN statements, NEW line, Carries(statements[s], line)
               PROVE  Carries(statements'[s], line)
    BY <1>10 DEF LinesStay
  <2>1. CASE s = e
    BY <1>2, <1>9, <1>10, <2>1, CarriesIs
  <2>2. CASE s # e
    BY <1>10, <2>2
  <2> QED
    BY <2>1, <2>2
<1>12. HeldStays(c)
  <2> SUFFICES ASSUME NEW d \in BankCall \ {c}, BankIs(d, "voucher", "locked") PROVE Unmatched(d)'
    BY DEF HeldStays
  <2>1. Unmatched(d) /\ Ask(d)' = Ask(d)
    BY <1>1 DEF BankInv, EntriesWait, Ask
  <2>2. Ask(d).entry # e
    BY <1>1, <1>2 DEF BankInv, EntriesHaveOneHolder, BankIs
  <2> QED
    BY <1>10, <2>1, <2>2 DEF Unmatched, EntryOf
<1>13. BankTypes' /\ ReadSoFar' /\ FilesStartAtOne' /\ EntriesWait' /\ EntriesHaveOneHolder' /\ ImportedLinesAreThere'
  <2>1. /\ bankAsked' \in BankSettings /\ bankStep' \in [BankCall -> BankPlaces]
        /\ bankOwn' \in [BankCall -> Seq(BankRow)] /\ bankAt' \in [BankCall -> Nat \ {0}]
        /\ ReadSoFar' /\ FilesStartAtOne' /\ EntriesWait' /\ EntriesHaveOneHolder' /\ ImportedLinesAreThere'
    BY <1>1, <1>11, <1>12, OthersGoOn
  <2> QED
    BY <1>7, <1>10, <2>1 DEF BankTypes
<1>14. VouchersHaveEntries'
  BY <1>3, <1>7, <1>9, <1>10 DEF BankInv, VouchersHaveEntries
<1>15. OneVoucherPerEntry'
  <2>1. \A w \in DOMAIN vouchers : vouchers[w].entry # e
    BY <1>2, <1>3 DEF BankInv, VouchersHaveEntries
  <2>2. \A w, x \in DOMAIN vouchers' : vouchers'[w].entry = vouchers'[x].entry => w = x
    BY <1>7, <2>1 DEF BankInv, OneVoucherPerEntry
  <2>3. \A s \in DOMAIN statements' : statements'[s].voucher # 0 =>
          statements'[s].status = "MATCHED" /\ statements'[s].voucher \in DOMAIN vouchers'
    BY <1>7, <1>9, <1>10 DEF BankInv, OneVoucherPerEntry
  <2> QED
    BY <2>2, <2>3 DEF OneVoucherPerEntry
<1>16. VoucherMirrorsEntry'
  <2> SUFFICES ASSUME NEW w \in DOMAIN vouchers', NEW posted, posted = vouchers'[w],
                      NEW new, new = statements'[posted.entry]
               PROVE  /\ IF new.debit > 0 THEN posted.from = BankLedger ELSE posted.to = BankLedger
                      /\ posted.amount \in {new.debit, new.credit} \ {0}
                      /\ \E n \in DOMAIN ledgerLines' :
                            IsCandidate(new, ledgerLines'[n]) /\ Apart(new, ledgerLines'[n]) = 0
    BY <1>1 DEF VoucherMirrorsEntry, Candidates, Apart, IsCandidate, Amount, Rules
  <2>1. PICK old : old = statements[posted.entry]
    OBVIOUS
  <2>2. /\ new.date = old.date /\ new.debit = old.debit /\ new.credit = old.credit
        /\ IF old.debit > 0 THEN posted.from = BankLedger ELSE posted.to = BankLedger
        /\ posted.amount \in {old.debit, old.credit} \ {0}
        /\ \E n \in DOMAIN ledgerLines' : IsCandidate(old, ledgerLines'[n]) /\ Apart(old, ledgerLines'[n]) = 0
    <3>1. CASE w \in DOMAIN vouchers
      <4>1. posted = vouchers[w] /\ posted.entry \in DOMAIN statements /\ posted.entry # e
        BY <1>2, <1>3, <1>7, <2>1, <3>1 DEF BankInv, VouchersHaveEntries
      <4>2. new = old
        BY <1>10, <2>1, <4>1
      <4>3. /\ IF old.debit > 0 THEN posted.from = BankLedger ELSE posted.to = BankLedger
            /\ posted.amount \in {old.debit, old.credit} \ {0}
            /\ \E n \in DOMAIN ledgerLines : IsCandidate(old, ledgerLines[n]) /\ Apart(old, ledgerLines[n]) = 0
        BY <2>1, <3>1, <4>1 DEF BankInv, VoucherMirrorsEntry, Candidates
      <4> QED
        BY <1>7, <4>2, <4>3
    <3>2. CASE w \in DOMAIN vouchers' \ DOMAIN vouchers
      BY <1>2, <1>7, <1>9, <1>10, <2>1, <3>2
    <3> QED
      BY <3>1, <3>2
  <2>3. \A line : (IsCandidate(new, line) <=> IsCandidate(old, line)) /\ Apart(new, line) = Apart(old, line)
    BY <2>2, SameCandidates
  <2> QED
    BY <2>2, <2>3
<1> QED
  BY <1>13, <1>14, <1>15, <1>16 DEF BankInv
-----------------------------------------------------------------------------
LEMMA ReadingStarts == ASSUME BankInv, NEW c \in BankCall, StartReading(c) PROVE BankInv'
<1>1. CASE BankEnd(c, "refused")
  BY <1>1, BankGives DEF StartReading
<1>2. CASE BankTo(c, "rows") /\ UNCHANGED <<bankOwn, bankAt>>
  <2>1. /\ bankStep' = [bankStep EXCEPT ![c] = "rows"] /\ UNCHANGED bankAsked /\ UNCHANGED bankTables
        /\ bankOwn' = [bankOwn EXCEPT ![c] = bankOwn[c]] /\ bankAt' = [bankAt EXCEPT ![c] = bankAt[c]]
        /\ bankOwn[c] \in Seq(BankRow) /\ bankAt[c] \in Nat \ {0} /\ bankStep[c] = "start"
    BY <1>2 DEF StartReading, BankTo, BankIs, BankInv, BankTypes
  <2>2. bankAt'[c] = 1
    BY <2>1 DEF BankInv, BankTypes, FilesStartAtOne
  <2>3. Reading(c)'
    <3> SUFFICES ASSUME NEW kind \in {"import", "fetch"}, BankIs(c, kind, "rows")', NEW i \in DOMAIN Ask(c).rows, i < 1
                 PROVE  FALSE
      BY <2>1, <2>2 DEF Reading, Ask
    <3>1. Ask(c).rows \in Seq(BankLine)
      BY <2>1, Asked DEF BankIs, Ask, BankInv, BankTypes
    <3> QED
      BY <3>1
  <2>4. \A n \in DOMAIN bankOwn[c] : bankOwn[c][n].status = "PENDING" /\ bankOwn[c][n].voucher = 0
    BY DEF BankInv, ReadSoFar, Inserted
  <2>5. PICK where \in BankPlaces \ {"start", "done"}, own \in Seq(BankRow), at \in Nat \ {0} :
          where = "rows" /\ own = bankOwn[c] /\ at = bankAt[c]
    BY <2>1 DEF BankPlaces
  <2>6. where = "locked" => Unmatched(c) /\ EntryFree(c)
    BY <2>5
  <2> QED
    BY <2>1, <2>3, <2>4, <2>5, <2>6, BankTurns
<1> QED
  BY <1>1, <1>2 DEF StartReading

LEMMA EntryLocked == ASSUME BankInv, NEW c \in BankCall, LockEntry(c) PROVE BankInv'
<1>1. CASE BankEnd(c, "refused")
  BY <1>1, BankGives DEF LockEntry
<1>2. CASE Unmatched(c) /\ BankTo(c, "locked") /\ UNCHANGED <<bankOwn, bankAt>>
  <2>1. /\ bankStep' = [bankStep EXCEPT ![c] = "locked"] /\ UNCHANGED bankAsked /\ UNCHANGED bankTables
        /\ bankOwn' = [bankOwn EXCEPT ![c] = bankOwn[c]] /\ bankAt' = [bankAt EXCEPT ![c] = bankAt[c]]
        /\ bankOwn[c] \in Seq(BankRow) /\ bankAt[c] \in Nat \ {0} /\ Unmatched(c) /\ EntryFree(c)
    BY <1>2 DEF LockEntry, BankTo, BankInv, BankTypes
  <2>2. \A n \in DOMAIN bankOwn[c] : bankOwn[c][n].status = "PENDING" /\ bankOwn[c][n].voucher = 0
    BY DEF BankInv, ReadSoFar, Inserted
  <2>3. PICK where \in BankPlaces \ {"start", "done"}, own \in Seq(BankRow), at \in Nat \ {0} :
          where = "locked" /\ own = bankOwn[c] /\ at = bankAt[c]
    BY <2>1 DEF BankPlaces
  <2>4. where = "rows" => Reading(c)'
    BY <2>3
  <2> QED
    BY <2>1, <2>2, <2>3, <2>4, BankTurns
<1> QED
  BY <1>1, <1>2 DEF LockEntry

LEMMA BankSteps == BankInv /\ [BankNext]_bankVars => BankInv'
<1> SUFFICES ASSUME BankInv, [BankNext]_bankVars PROVE BankInv'
  OBVIOUS
<1>1. CASE UNCHANGED bankVars
  BY <1>1 DEF bankVars, bankTables, BankInv, BankTypes, ReadSoFar, Reading, Inserted, Found, FilesStartAtOne,
              EntriesWait, EntriesHaveOneHolder, VouchersHaveEntries, ImportedLinesAreThere, OneVoucherPerEntry,
              VoucherMirrorsEntry, Unmatched, EntryOf, Carries, BankIs, Ask, Candidates, IsCandidate, Apart, Amount, Rules
<1>2. ASSUME NEW c \in BankCall, StartReading(c) PROVE BankInv'
  BY <1>2, ReadingStarts
<1>3. ASSUME NEW c \in BankCall, ReadLine(c) PROVE BankInv'
  BY <1>3, LineRead
<1>4. ASSUME NEW c \in BankCall, importStatement(c) PROVE BankInv'
  BY <1>4, Imported DEF importStatement
<1>5. ASSUME NEW c \in BankCall, fetchAAStatements(c) PROVE BankInv'
  BY <1>5, Imported DEF fetchAAStatements
<1>6. ASSUME NEW c \in BankCall, ImportFails(c) \/ BankFail(c) PROVE BankInv'
  BY <1>6, BankGives DEF ImportFails, BankFail
<1>7. ASSUME NEW c \in BankCall, initiateConsent(c) PROVE BankInv'
  BY <1>7, Consented
<1>8. ASSUME NEW c \in BankCall, LockEntry(c) PROVE BankInv'
  BY <1>8, EntryLocked
<1>9. ASSUME NEW c \in BankCall, createVoucherFromBankEntry(c) PROVE BankInv'
  BY <1>9, VoucherPosted
<1> QED
  BY <1>1, <1>2, <1>3, <1>4, <1>5, <1>6, <1>7, <1>8, <1>9 DEF BankNext

(* StatementsAreMirrored: whatever is imported, fetched and vouched for at  *)
(* once, no line of a statement is lost, an entry has one voucher, which    *)
(* mirrors it on the ledger, and the nearest line is offered first.         *)
THEOREM MirroredStatements == BankSpec => []StatementsAreMirrored
<1>1. BankInv => StatementsAreMirrored
  BY BetterComesFirst DEF BankInv, StatementsAreMirrored
<1> QED
  BY <1>1, BankStarts, BankSteps, PTL DEF BankSpec

-----------------------------------------------------------------------------
(* The report cache                                                         *)
CachePlaces == {"start", "compute", "refresh", "scan", "delete", "next", "done"}
Ttl(key) == DEFAULT_CACHE_CONFIG[key.report].ttl
IsScan(s) ==
    /\ s = [type |-> s.type, cursor |-> s.cursor, found |-> s.found, doomed |-> s.doomed,
            disturbed |-> s.disturbed]
    /\ s.cursor \in Nat /\ s.doomed \subseteq Nat /\ s.disturbed \in BOOLEAN
CacheTypes ==
    /\ cacheAsked \in CacheSettings /\ cacheTime \in Nat /\ cacheWrites \in Nat
    /\ cacheStep \in [CacheCall -> CachePlaces] /\ cacheAge \in [CacheCall -> Int]
    /\ cacheScan = [c \in CacheCall |-> cacheScan[c]] /\ \A c \in CacheCall : IsScan(cacheScan[c])

(* The store is a map: a key, a place and an id have one entry each.        *)
IsEntry(e) ==
    /\ e.key.report \in Reports /\ e.at \in Nat /\ e.at <= cacheTime /\ e.expires = e.at + Ttl(e.key)
    /\ e.id \in Nat /\ e.place \in Nat /\ e.place <= e.id /\ e.id <= cacheWrites
StoreIsMap ==
    /\ IsFiniteSet(cacheStore) /\ \A e \in cacheStore : IsEntry(e)
    /\ \A d, e \in cacheStore : d.key = e.key \/ d.place = e.place \/ d.id = e.id => d = e

(* What an invalidation has found: between two pages the keys of every      *)
(* entry the cursor has passed, before the deletion all that are doomed.    *)
Passed(M, e) == Cardinality({d \in M : d.place < e.place})
Covers(M, cursor, found) ==
    cursor < Cardinality(M) /\ \A e \in M : Passed(M, e) < cursor => e.key \in found
Rests(c) == cacheStep[c] \in {"start", "next", "compute", "refresh", "done"}
ScanKnows(c) ==
    /\ Rests(c) => \A e \in cacheStore : e.id \notin cacheScan[c].doomed
    /\ cacheStep[c] = "scan" =>
          /\ \A e \in cacheStore : e.id \in cacheScan[c].doomed => OfPattern(c, e.key)
          /\ Covers(Matched(c), cacheScan[c].cursor, cacheScan[c].found)
    /\ cacheStep[c] = "delete" =>
          \A e \in cacheStore : e.id \in cacheScan[c].doomed => e.key \in cacheScan[c].found
CallIs(c) ==
    /\ \A n \in cacheScan[c].doomed : n <= cacheWrites
    /\ cacheStep[c] \in {"start", "next"} => cacheScan[c].cursor = 0 /\ cacheScan[c].found = {}
    /\ cacheStep[c] = "delete" => cacheScan[c].cursor = 0
    /\ cacheStep[c] = "scan" => cacheScan[c].cursor > 0
    /\ cacheStep[c] \in {"scan", "delete", "next"} => c \in DOMAIN cacheAsked.calls /\ Cached(c).kind # "report"
    /\ ~cacheScan[c].disturbed => ScanKnows(c)
CacheBase == CacheTypes /\ StoreIsMap
CacheInv == CacheBase /\ (\A c \in CacheCall : CallIs(c)) /\ ServedWithinTtl

-----------------------------------------------------------------------------
LEMMA PassedFewer ==
    ASSUME NEW M, IsFiniteSet(M), NEW e
    PROVE  Passed(M, e) \in Nat /\ Cardinality(M) \in Nat /\ (e.place \in Nat /\ e \in M => Passed(M, e) < Cardinality(M))
<1>1. {d \in M : d.place < e.place} \subseteq M
  OBVIOUS
<1>2. Cardinality({d \in M : d.place < e.place}) \in Nat /\ Cardinality(M) \in Nat
  BY <1>1, FS_Subset, FS_CardinalityType
<1>3. ASSUME e \in M, e.place \in Nat PROVE Cardinality({d \in M : d.place < e.place}) < Cardinality(M)
  <2>1. {d \in M : d.place < e.place} # M
    BY <1>3
  <2> QED
    BY <1>1, <1>2, <2>1, FS_Subset
<1> QED
  BY <1>2, <1>3 DEF Passed

(* A page covers the entries from its cursor to the next one.               *)
LEMMA PageCovers ==
    ASSUME NEW M, IsFiniteSet(M), NEW from \in Nat, NEW count \in Nat \ {0}, NEW found,
           \A e \in M : e.place \in Nat /\ (Passed(M, e) < from => e.key \in found),
           NEW page, page = {e \in M : from <= Passed(M, e) /\ Passed(M, e) < from + count}
    PROVE  /\ from + count >= Cardinality(M) => \A e \in M : e.key \in found \cup KeysOf(page)
           /\ ~(from + count >= Cardinality(M)) => Covers(M, from + count, found \cup KeysOf(page))
<1>1. \A e \in M : Passed(M, e) \in Nat /\ Passed(M, e) < Cardinality(M) /\ Cardinality(M) \in Nat
  BY PassedFewer
<1>2. ASSUME NEW e \in M, Passed(M, e) < from + count PROVE e.key \in found \cup KeysOf(page)
  <2>1. CASE Passed(M, e) < from
    BY <2>1
  <2>2. CASE ~(Passed(M, e) < from)
    BY <1>1, <1>2, <2>2 DEF KeysOf
  <2> QED
    BY <2>1, <2>2
<1>3. Cardinality(M) \in Nat
  BY FS_CardinalityType
<1> QED
  BY <1>1, <1>2, <1>3 DEF Covers

(* A new key comes last, behind every cursor.                               *)
LEMMA CoversLast ==
    ASSUME NEW M, IsFiniteSet(M), NEW cursor \in Nat, NEW found, Covers(M, cursor, found),
           NEW new, new \notin M, new.place \in Nat,
           \A d \in M : d.place \in Nat /\ d.place < new.place
    PROVE  Covers(M \cup {new}, cursor, found)
<1>1. PICK N : N = M \cup {new}
  OBVIOUS
<1>2. Cardinality(N) = Cardinality(M) + 1 /\ Cardinality(M) \in Nat
  BY <1>1, FS_AddElement, FS_CardinalityType
<1>3. ASSUME NEW e \in M PROVE Passed(N, e) = Passed(M, e)
  <2>1. {d \in N : d.place < e.place} = {d \in M : d.place < e.place}
    BY <1>1, <1>3
  <2> QED
    BY <2>1 DEF Passed
<1>4. Passed(N, new) = Cardinality(M)
  <2>1. {d \in N : d.place < new.place} = M
    BY <1>1
  <2> QED
    BY <2>1 DEF Passed
<1>5. cursor < Cardinality(M) /\ \A e \in M : Passed(M, e) < cursor => e.key \in found
  BY DEF Covers
<1>6. ASSUME NEW e \in N, Passed(N, e) < cursor PROVE e.key \in found
  <2>1. CASE e \in M
    BY <1>3, <1>5, <1>6, <2>1
  <2>2. CASE e = new
    BY <1>2, <1>4, <1>5, <1>6, <2>2
  <2> QED
    BY <1>1, <2>1, <2>2
<1>7. Covers(N, cursor, found)
  BY <1>2, <1>5, <1>6 DEF Covers
<1> QED
  BY <1>1, <1>7

(* A key that is stored again keeps its place.                              *)
LEMMA SwapCounts ==
    ASSUME NEW S, IsFiniteSet(S), NEW old \in S, NEW new, new \notin S
    PROVE  Cardinality((S \ {old}) \cup {new}) = Cardinality(S)
<1>1. IsFiniteSet(S \ {old}) /\ Cardinality(S \ {old}) = Cardinality(S) - 1
  BY FS_RemoveElement
<1>2. Cardinality((S \ {old}) \cup {new}) = Cardinality(S \ {old}) + 1
  BY <1>1, FS_AddElement
<1>3. Cardinality(S) \in Nat
  BY FS_CardinalityType
<1> QED
  BY <1>1, <1>2, <1>3

LEMMA CoversSwap ==
    ASSUME NEW M, IsFiniteSet(M), NEW cursor \in Nat, NEW found, Covers(M, cursor, found),
           NEW old \in M, NEW new, new \notin M, new.key = old.key, new.place = old.place
    PROVE  Covers((M \ {old}) \cup {new}, cursor, found)
<1>1. PICK N : N = (M \ {old}) \cup {new}
  OBVIOUS
<1>2. Cardinality(N) = Cardinality(M)
  BY <1>1, SwapCounts
<1>3. ASSUME NEW e PROVE Passed(N, e) = Passed(M, e)
  <2>1. PICK S : S = {d \in M : d.place < e.place}
    OBVIOUS
  <2>2. IsFiniteSet(S) /\ new \notin S
    BY <2>1, FS_Subset
  <2>3. CASE old.place < e.place
    <3>1. old \in S /\ {d \in N : d.place < e.place} = (S \ {old}) \cup {new}
      BY <1>1, <2>1, <2>3
    <3>2. Cardinality((S \ {old}) \cup {new}) = Cardinality(S)
      BY <2>2, <3>1, SwapCounts
    <3> QED
      BY <2>1, <3>1, <3>2 DEF Passed
  <2>4. CASE ~(old.place < e.place)
    <3>1. {d \in N : d.place < e.place} = S
      BY <1>1, <2>1, <2>4
    <3> QED
      BY <2>1, <3>1 DEF Passed
  <2> QED
    BY <2>3, <2>4
<1>4. Passed(M, new) = Passed(M, old)
  BY DEF Passed
<1>5. cursor < Cardinality(M) /\ \A e \in M : Passed(M, e) < cursor => e.key \in found
  BY DEF Covers
<1>6. ASSUME NEW e \in N, Passed(N, e) < cursor PROVE e.key \in found
  <2>1. CASE e \in M
    BY <1>3, <1>5, <1>6, <2>1
  <2>2. CASE e = new
    BY <1>3, <1>4, <1>5, <1>6, <2>2
  <2> QED
    BY <1>1, <2>1, <2>2
<1>7. Covers(N, cursor, found)
  BY <1>2, <1>5, <1>6 DEF Covers
<1> QED
  BY <1>1, <1>7

-----------------------------------------------------------------------------
(* What a call knows outlives what the others do.                           *)
KeepsScan(c) ==
    /\ IsScan(cacheScan'[c]) /\ cacheScan'[c].type = cacheScan[c].type
    /\ cacheScan'[c].cursor = cacheScan[c].cursor /\ cacheScan'[c].found = cacheScan[c].found
    /\ cacheScan'[c].doomed = cacheScan[c].doomed
    /\ cacheScan[c].disturbed => cacheScan'[c].disturbed
SameScan(c) == cacheAsked' = cacheAsked /\ cacheStep'[c] = cacheStep[c] /\ KeepsScan(c)

LEMMA PatternStays ==
    ASSUME NEW c, SameScan(c), NEW k
    PROVE  OfPattern(c, k)' <=> OfPattern(c, k)
  BY DEF SameScan, KeepsScan, OfPattern, Types, Cached

LEMMA MatchedAfter ==
    ASSUME NEW c, SameScan(c)
    PROVE  Matched(c)' = {e \in cacheStore' : OfPattern(c, e.key)}
  BY PatternStays DEF Matched

LEMMA MatchedFinite == ASSUME CacheBase, NEW c PROVE IsFiniteSet(Matched(c)) /\ Matched(c) \subseteq cacheStore
  BY FS_Subset DEF CacheBase, StoreIsMap, Matched

(* A call stays as it is when all it relies on of the store does.           *)
LEMMA CallStays ==
    ASSUME NEW c \in CacheCall, CallIs(c), SameScan(c), cacheWrites \in Nat, cacheWrites' \in {cacheWrites, cacheWrites + 1},
           CacheTypes,
           \A e \in cacheStore' : e.id \in cacheScan[c].doomed => e \in cacheStore,
           /\ cacheStep[c] = "scan" /\ ~cacheScan'[c].disturbed
           /\ Covers(Matched(c), cacheScan[c].cursor, cacheScan[c].found)
           => Covers(Matched(c)', cacheScan[c].cursor, cacheScan[c].found)
    PROVE  CallIs(c)'
<1>1. \A n \in cacheScan'[c].doomed : n <= cacheWrites'
  BY DEF CallIs, SameScan, KeepsScan, CacheTypes, IsScan
<1>2. /\ cacheStep'[c] \in {"start", "next"} => cacheScan'[c].cursor = 0 /\ cacheScan'[c].found = {}
      /\ cacheStep'[c] = "delete" => cacheScan'[c].cursor = 0
      /\ cacheStep'[c] = "scan" => cacheScan'[c].cursor > 0
      /\ cacheStep'[c] \in {"scan", "delete", "next"} => c \in DOMAIN cacheAsked'.calls /\ Cached(c)'.kind # "report"
  BY DEF CallIs, SameScan, KeepsScan, Cached
<1>3. ASSUME ~cacheScan'[c].disturbed PROVE ScanKnows(c)'
  <2>1. ScanKnows(c)
    BY <1>3 DEF CallIs, SameScan, KeepsScan
  <2>2. Rests(c)' => \A e \in cacheStore' : e.id \notin cacheScan'[c].doomed
    BY <2>1 DEF ScanKnows, Rests, SameScan, KeepsScan
  <2>3. ASSUME cacheStep'[c] = "scan", NEW e \in cacheStore', e.id \in cacheScan'[c].doomed PROVE OfPattern(c, e.key)'
    <3>1. OfPattern(c, e.key)
      BY <2>1, <2>3 DEF ScanKnows, SameScan, KeepsScan
    <3> QED
      BY <3>1, PatternStays
  <2>4. cacheStep'[c] = "scan" => Covers(Matched(c)', cacheScan'[c].cursor, cacheScan'[c].found)
    BY <1>3, <2>1 DEF ScanKnows, SameScan, KeepsScan
  <2>5. cacheStep'[c] = "delete" =>
            \A e \in cacheStore' : e.id \in cacheScan'[c].doomed => e.key \in cacheScan'[c].found
    BY <2>1 DEF ScanKnows, SameScan, KeepsScan
  <2>6. cacheStep'[c] = "scan" => \A e \in cacheStore' : e.id \in cacheScan'[c].doomed => OfPattern(c, e.key)'
    BY <2>3
  <2>7. cacheStep'[c] = "scan" => Covers(Matched(c), cacheScan[c].cursor, cacheScan[c].found)'
    BY <2>4
  <2> QED
    BY <2>2, <2>5, <2>6, <2>7 DEF ScanKnows
<1> QED
  BY <1>1, <1>2, <1>3 DEF CallIs

LEMMA CallLoses ==
    ASSUME CacheBase, NEW c \in CacheCall, CallIs(c), SameScan(c), cacheWrites' = cacheWrites,
           NEW gone, cacheStore' = Drop(gone),
           cacheStep[c] = "scan" /\ ~cacheScan'[c].disturbed =>
               \A e \in cacheStore : e.key \in gone => ~OfPattern(c, e.key)
    PROVE  CallIs(c)'
<1>1. cacheStore' \subseteq cacheStore
  BY DEF Drop
<1>2. cacheStep[c] = "scan" /\ ~cacheScan'[c].disturbed => Matched(c)' = Matched(c)
  BY MatchedAfter DEF Drop, Matched
<1> QED
  BY <1>1, <1>2, CallStays DEF CacheBase, CacheTypes

LEMMA CallGains ==
    ASSUME CacheBase, NEW c \in CacheCall, CallIs(c), SameScan(c), cacheWrites' = cacheWrites + 1,
           NEW new, new.id = cacheWrites + 1,
           \/ cacheStore' = cacheStore \cup {new} /\ new.place = new.id
           \/ \E old \in cacheStore : old.key = new.key /\ new.place = old.place
                                      /\ cacheStore' = (cacheStore \ {old}) \cup {new}
    PROVE  CallIs(c)'
<1> USE DEF CacheBase
<1>1. cacheWrites \in Nat /\ new \notin cacheStore /\ cacheScan[c].cursor \in Nat
      /\ \A e \in cacheStore : e.place \in Nat /\ e.place < new.id
  BY DEF CacheTypes, StoreIsMap, IsEntry, IsScan
<1>2. \A e \in cacheStore' : e.id \in cacheScan[c].doomed => e \in cacheStore
  BY <1>1 DEF CallIs
<1>3. PICK M : M = Matched(c) /\ IsFiniteSet(M) /\ M \subseteq cacheStore
  BY MatchedFinite
<1>4. PICK cursor, found : cursor = cacheScan[c].cursor /\ found = cacheScan[c].found
  OBVIOUS
<1>5. ASSUME Covers(M, cursor, found) PROVE Covers(Matched(c)', cursor, found)
  <2>1. CASE ~OfPattern(c, new.key)
    <3>1. Matched(c)' = M
      BY <1>3, <2>1, MatchedAfter DEF Matched
    <3> QED
      BY <1>5, <3>1
  <2>2. CASE OfPattern(c, new.key) /\ cacheStore' = cacheStore \cup {new} /\ new.place = new.id
    <3>1. Matched(c)' = M \cup {new}
      BY <1>3, <2>2, MatchedAfter DEF Matched
    <3>2. new.place \in Nat /\ new \notin M /\ \A d \in M : d.place \in Nat /\ d.place < new.place
      BY <1>1, <1>3, <2>2
    <3>3. Covers(M \cup {new}, cursor, found)
      BY <1>1, <1>3, <1>4, <1>5, <3>2, CoversLast
    <3> QED
      BY <3>1, <3>3
  <2>3. CASE OfPattern(c, new.key) /\ \E old \in cacheStore : old.key = new.key /\ new.place = old.place
                                      /\ cacheStore' = (cacheStore \ {old}) \cup {new}
    <3>1. PICK old \in cacheStore : old.key = new.key /\ new.place = old.place
                                    /\ cacheStore' = (cacheStore \ {old}) \cup {new}
      BY <2>3
    <3>2. Matched(c)' = (M \ {old}) \cup {new} /\ old \in M
      BY <1>3, <2>3, <3>1, MatchedAfter DEF Matched
    <3>3. Covers((M \ {old}) \cup {new}, cursor, found)
      BY <1>1, <1>3, <1>4, <1>5, <3>1, <3>2, CoversSwap
    <3> QED
      BY <3>2, <3>3
  <2> QED
    BY <2>1, <2>2, <2>3
<1> QED
  BY <1>1, <1>2, <1>3, <1>4, <1>5, CallStays

-----------------------------------------------------------------------------
LEMMA DisturbIs ==
    ASSUME CacheTypes, NEW keys, NEW c \in CacheCall, NEW s, s = Disturb(cacheScan, keys)[c]
    PROVE  /\ IsScan(s) /\ s.type = cacheScan[c].type /\ s.cursor = cacheScan[c].cursor
           /\ s.found = cacheScan[c].found /\ s.doomed = cacheScan[c].doomed
           /\ cacheScan[c].disturbed => s.disturbed
           /\ cacheStep[c] = "scan" /\ cacheScan[c].cursor > 0 /\ ~s.disturbed =>
                  \A k \in keys : ~OfPattern(c, k)
<1>1. IsScan(cacheScan[c])
  BY DEF CacheTypes
<1>2. PICK t, n, f, d, b : cacheScan[c] = [type |-> t, cursor |-> n, found |-> f, doomed |-> d, disturbed |-> b]
  BY <1>1 DEF IsScan
<1>. DEFINE same == [type |-> t, cursor |-> n, found |-> f, doomed |-> d, disturbed |-> b]
<1>3. CASE Scanning(c) /\ \E k \in keys : OfPattern(c, k)
  <2>1. s = [same EXCEPT !.disturbed = TRUE]
    BY <1>2, <1>3 DEF Disturb
  <2>2. s = [type |-> t, cursor |-> n, found |-> f, doomed |-> d, disturbed |-> TRUE]
    BY <2>1
  <2> QED
    BY <1>1, <1>2, <1>3, <2>2 DEF IsScan
<1>4. CASE ~(Scanning(c) /\ \E k \in keys : OfPattern(c, k))
  <2>1. s = cacheScan[c]
    BY <1>4 DEF Disturb
  <2> QED
    BY <1>1, <1>4, <2>1 DEF Scanning
<1> QED
  BY <1>3, <1>4

LEMMA StoreLoses ==
    ASSUME StoreIsMap, NEW gone, cacheStore' = Drop(gone), cacheTime' = cacheTime, cacheWrites' = cacheWrites
    PROVE  StoreIsMap'
<1>1. cacheStore' \subseteq cacheStore /\ IsFiniteSet(cacheStore')
  BY FS_Subset DEF Drop, StoreIsMap
<1> QED
  BY <1>1 DEF StoreIsMap, IsEntry

LEMMA StoreGains ==
    ASSUME CacheBase, cacheTime' = cacheTime, cacheWrites' = cacheWrites + 1,
           NEW key, key.report \in Reports, Setex(key, cacheWrites + 1)
    PROVE  /\ StoreIsMap'
           /\ \E new : /\ new.id = cacheWrites + 1
                       /\ \/ cacheStore' = cacheStore \cup {new} /\ new.place = new.id
                          \/ \E old \in cacheStore : old.key = new.key /\ new.place = old.place
                                                     /\ cacheStore' = (cacheStore \ {old}) \cup {new}
<1> USE DEF CacheBase
<1>0. cacheTime \in Nat /\ cacheWrites \in Nat /\ IsFiniteSet(cacheStore)
      /\ \A e \in cacheStore : IsEntry(e) /\ IsEntry(e)'
  BY DEF CacheTypes, StoreIsMap, IsEntry
<1>1. CASE Under(key) = {} /\ cacheStore' = cacheStore \cup {Envelope(key, cacheWrites + 1, cacheWrites + 1)}
  <2>1. PICK new : new = Envelope(key, cacheWrites + 1, cacheWrites + 1)
    OBVIOUS
  <2>2. /\ new.key = key /\ new.at = cacheTime /\ new.expires = cacheTime + Ttl(key)
        /\ new.id = cacheWrites + 1 /\ new.place = cacheWrites + 1
    BY <2>1 DEF Envelope, Ttl
  <2>3. IsEntry(new)'
    BY <1>0, <2>2 DEF IsEntry
  <2>4. \A e \in cacheStore : e.key # new.key /\ e.place # new.place /\ e.id # new.id
    BY <1>0, <1>1, <2>2 DEF IsEntry, Under
  <2>5. IsFiniteSet(cacheStore')
    BY <1>0, <1>1, FS_AddElement
  <2>6. \A e \in cacheStore' : IsEntry(e)'
    BY <1>0, <1>1, <2>1, <2>3
  <2>7. \A d, e \in cacheStore' : d.key = e.key \/ d.place = e.place \/ d.id = e.id => d = e
    BY <1>1, <2>1, <2>4 DEF StoreIsMap
  <2> QED
    BY <1>1, <2>1, <2>2, <2>5, <2>6, <2>7 DEF StoreIsMap
<1>2. CASE \E e \in Under(key) : cacheStore' = (cacheStore \ {e}) \cup {Envelope(key, cacheWrites + 1, e.place)}
  <2>1. PICK old \in Under(key) : cacheStore' = (cacheStore \ {old}) \cup {Envelope(key, cacheWrites + 1, old.place)}
    BY <1>2
  <2>2. PICK new : new = Envelope(key, cacheWrites + 1, old.place)
    OBVIOUS
  <2>3. /\ new.key = key /\ new.at = cacheTime /\ new.expires = cacheTime + Ttl(key)
        /\ new.id = cacheWrites + 1 /\ new.place = old.place /\ old \in cacheStore /\ old.key = key
    BY <2>1, <2>2 DEF Envelope, Ttl, Under
  <2>4. IsEntry(new)'
    BY <1>0, <2>3 DEF IsEntry
  <2>5. \A e \in cacheStore : e # old => e.key # new.key /\ e.place # new.place /\ e.id # new.id
    BY <1>0, <2>3 DEF IsEntry, StoreIsMap
  <2>6. IsFiniteSet(cacheStore')
    BY <1>0, <2>1, FS_AddElement, FS_Subset
  <2>7. \A e \in cacheStore' : IsEntry(e)'
    BY <1>0, <2>1, <2>2, <2>4
  <2>8. \A d, e \in cacheStore' : d.key = e.key \/ d.place = e.place \/ d.id = e.id => d = e
    BY <2>1, <2>2, <2>5 DEF StoreIsMap
  <2> QED
    BY <2>1, <2>2, <2>3, <2>6, <2>7, <2>8 DEF StoreIsMap
<1> QED
  BY <1>1, <1>2 DEF Setex

LEMMA ServedStays ==
    ASSUME ServedWithinTtl, cacheAsked' = cacheAsked, cacheAge' = cacheAge
    PROVE  ServedWithinTtl'
  BY DEF ServedWithinTtl, Cached

(* A call that goes on while nothing is stored or deleted.                  *)
LEMMA OthersStay ==
    ASSUME CacheBase, cacheAsked' = cacheAsked, cacheStore' = cacheStore, cacheWrites' = cacheWrites,
           NEW d \in CacheCall, CallIs(d), cacheStep'[d] = cacheStep[d], cacheScan'[d] = cacheScan[d]
    PROVE  CallIs(d)'
<1>1. SameScan(d)
  BY DEF SameScan, KeepsScan, CacheBase, CacheTypes
<1>2. Drop({}) = cacheStore
  BY DEF Drop
<1> QED
  BY <1>1, <1>2, CallLoses

(* A call that rests, and goes on to rest, when the store gains no entry    *)
(* that is doomed.                                                          *)
LEMMA StillRests ==
    ASSUME CacheTypes, NEW c \in CacheCall, CallIs(c), Rests(c), KeepsScan(c), cacheAsked' = cacheAsked,
           cacheStep'[c] \in {"compute", "refresh", "done"}, cacheWrites' \in {cacheWrites, cacheWrites + 1},
           \A e \in cacheStore' : e.id \in cacheScan[c].doomed => e \in cacheStore
    PROVE  CallIs(c)'
<1>1. \A n \in cacheScan'[c].doomed : n <= cacheWrites'
  BY DEF CallIs, KeepsScan, CacheTypes, IsScan
<1>2. ASSUME ~cacheScan'[c].disturbed PROVE ScanKnows(c)'
  BY <1>2 DEF CallIs, KeepsScan, ScanKnows, Rests
<1> QED
  BY <1>1, <1>2 DEF CallIs

LEMMA HitStep ==
    ASSUME CacheInv, NEW c \in CacheCall, CacheHit(c)
    PROVE  CacheInv'
<1> USE DEF CacheInv, CacheBase
<1>1. PICK e \in Kept(c) : ~Expired(e) /\ cacheAge' = [cacheAge EXCEPT ![c] = cacheTime - e.at]
  BY DEF CacheHit
<1>2. /\ cacheAsked' = cacheAsked /\ cacheStore' = cacheStore /\ cacheScan' = cacheScan
      /\ cacheTime' = cacheTime /\ cacheWrites' = cacheWrites /\ cacheStep[c] = "start"
      /\ \E w \in {"refresh", "done"} : cacheStep' = [cacheStep EXCEPT ![c] = w]
  BY DEF CacheHit, CacheIs, CacheTo
<1>3. e \in cacheStore /\ IsEntry(e) /\ e.key = Cached(c).key
  BY DEF Kept, Under, StoreIsMap
<1>4. Ttl(e.key) \in Nat
  BY <1>3 DEF Ttl, IsEntry, Reports, DEFAULT_CACHE_CONFIG
<1>5. cacheTime - e.at \in Int /\ cacheTime - e.at <= Ttl(e.key)
  BY <1>1, <1>3, <1>4 DEF IsEntry, Expired, CacheTypes
<1>6. CacheTypes'
  BY <1>1, <1>2, <1>5 DEF CacheTypes, CachePlaces
<1>7. StoreIsMap'
  BY <1>2 DEF StoreIsMap, IsEntry
<1>8. ASSUME NEW d \in CacheCall PROVE CallIs(d)'
  <2>1. CASE d = c
    <3>1. KeepsScan(c) /\ Rests(c) /\ cacheStep'[c] \in {"refresh", "done"}
      BY <1>2 DEF KeepsScan, Rests, CacheTypes
    <3> QED
      BY <1>2, <2>1, <3>1, StillRests
  <2>2. CASE d # c
    BY <1>2, <2>2, OthersStay DEF CacheTypes
  <2> QED
    BY <2>1, <2>2
<1>9. ServedWithinTtl'
  <2>1. ASSUME NEW d \in CacheCall, cacheAge'[d] > 0 PROVE cacheAge'[d] <= DEFAULT_CACHE_CONFIG[Cached(d).key.report].ttl
    <3>1. CASE d = c
      BY <1>1, <1>3, <1>5, <3>1 DEF Ttl, CacheTypes
    <3>2. CASE d # c
      BY <1>1, <2>1, <3>2 DEF ServedWithinTtl, CacheTypes
    <3> QED
      BY <3>1, <3>2
  <2> QED
    BY <1>2, <2>1 DEF ServedWithinTtl, Cached
<1> QED
  BY <1>6, <1>7, <1>8, <1>9

(* Deletions: of an expired entry by who meets it, by the timer, and by an  *)
(* invalidation.                                                            *)
LEMMA OthersLose ==
    ASSUME CacheBase, NEW d \in CacheCall, CallIs(d), cacheAsked' = cacheAsked, cacheWrites' = cacheWrites,
           cacheStep'[d] = cacheStep[d], NEW gone, cacheStore' = Drop(gone),
           NEW keys, \A e \in cacheStore : e.key \in gone => e.key \in keys,
           cacheScan'[d] = Disturb(cacheScan, keys)[d]
    PROVE  CallIs(d)'
<1>1. KeepsScan(d)
  BY DisturbIs DEF KeepsScan, CacheBase
<1>2. SameScan(d)
  BY <1>1 DEF SameScan
<1>3. ASSUME cacheStep[d] = "scan" /\ ~cacheScan'[d].disturbed, NEW e \in cacheStore, e.key \in gone
      PROVE  ~OfPattern(d, e.key)
  <2>1. cacheScan[d].cursor > 0
    BY <1>3 DEF CallIs
  <2>2. \A k \in keys : ~OfPattern(d, k)
    BY <1>3, <2>1, DisturbIs DEF CacheBase
  <2> QED
    BY <1>3, <2>2
<1> QED
  BY <1>2, <1>3, CallLoses

LEMMA MissStep ==
    ASSUME CacheInv, NEW c \in CacheCall, CacheMiss(c)
    PROVE  CacheInv'
<1> USE DEF CacheInv, CacheBase
<1>1. PICK gone : gone = KeysOf(Kept(c))
  OBVIOUS
<1>2. /\ cacheAsked' = cacheAsked /\ cacheStore' = Drop(gone) /\ cacheScan' = Disturb(cacheScan, gone)
      /\ cacheTime' = cacheTime /\ cacheWrites' = cacheWrites /\ cacheAge' = cacheAge
      /\ cacheStep[c] = "start" /\ cacheStep' = [cacheStep EXCEPT ![c] = "compute"]
  BY <1>1 DEF CacheMiss, CacheIs, CacheTo
<1>3. \A d \in CacheCall : IsScan(cacheScan'[d]) /\ KeepsScan(d)
  BY <1>2, DisturbIs DEF KeepsScan
<1>4. cacheScan' = [d \in CacheCall |-> cacheScan'[d]]
  BY <1>2 DEF Disturb
<1>5. CacheTypes'
  BY <1>2, <1>3, <1>4 DEF CacheTypes, CachePlaces
<1>6. StoreIsMap'
  BY <1>2, StoreLoses
<1>7. ASSUME NEW d \in CacheCall PROVE CallIs(d)'
  <2>1. CASE d = c
    <3>1. Rests(c) /\ cacheStep'[c] = "compute" /\ cacheStore' \subseteq cacheStore
      BY <1>2 DEF Rests, Drop, CacheTypes
    <3> QED
      BY <1>2, <1>3, <2>1, <3>1, StillRests
  <2>2. CASE d # c
    BY <1>2, <2>2, OthersLose DEF CacheTypes
  <2> QED
    BY <2>1, <2>2
<1> QED
  BY <1>2, <1>5, <1>6, <1>7, ServedStays

LEMMA CleanupStep ==
    ASSUME CacheInv, Cleanup
    PROVE  CacheInv'
<1> USE DEF CacheInv, CacheBase
<1>1. PICK gone : gone = KeysOf({e \in cacheStore : Expired(e)})
  OBVIOUS
<1>2. /\ cacheAsked' = cacheAsked /\ cacheStore' = Drop(gone) /\ cacheScan' = Disturb(cacheScan, gone)
      /\ cacheTime' = cacheTime /\ cacheWrites' = cacheWrites /\ cacheAge' = cacheAge /\ cacheStep' = cacheStep
  BY <1>1 DEF Cleanup
<1>3. \A d \in CacheCall : IsScan(cacheScan'[d])
  BY <1>2, DisturbIs
<1>4. cacheScan' = [d \in CacheCall |-> cacheScan'[d]]
  BY <1>2 DEF Disturb
<1>5. CacheTypes'
  BY <1>2, <1>3, <1>4 DEF CacheTypes
<1>6. StoreIsMap'
  BY <1>2, StoreLoses
<1>7. ASSUME NEW d \in CacheCall PROVE CallIs(d)'
  BY <1>2, OthersLose
<1> QED
  BY <1>2, <1>5, <1>6, <1>7, ServedStays

-----------------------------------------------------------------------------
LEMMA AskedIs ==
    ASSUME CacheTypes, NEW c \in DOMAIN cacheAsked.calls
    PROVE  \/ Cached(c).kind = "report" /\ Cached(c).key.report \in Reports
           \/ Cached(c).kind = "event" /\ Cached(c).event \in DOMAIN INVALIDATION_MAP
           \/ Cached(c).kind = "tenant"
  BY CacheAssumption DEF CacheTypes, Cached

LEMMA StoreStep ==
    ASSUME CacheInv, NEW c \in CacheCall, StoreComputed(c)
    PROVE  CacheInv'
<1> USE DEF CacheInv, CacheBase
<1>1. /\ cacheAsked' = cacheAsked /\ cacheScan' = cacheScan /\ cacheTime' = cacheTime
      /\ cacheWrites' = cacheWrites + 1 /\ cacheAge' = cacheAge /\ Rests(c)
      /\ cacheStep' = [cacheStep EXCEPT ![c] = "done"] /\ Setex(Cached(c).key, cacheWrites + 1)
      /\ c \in DOMAIN cacheAsked.calls /\ Cached(c).kind = "report"
  BY DEF StoreComputed, CacheIs, CacheTo, Rests
<1>2. Cached(c).key.report \in Reports
  BY <1>1, AskedIs
<1>3. CacheTypes'
  BY <1>1 DEF CacheTypes, CachePlaces
<1>4. StoreIsMap'
  BY <1>1, <1>2, StoreGains
<1>5. PICK new : /\ new.id = cacheWrites + 1
                 /\ \/ cacheStore' = cacheStore \cup {new} /\ new.place = new.id
                    \/ \E old \in cacheStore : old.key = new.key /\ new.place = old.place
                                               /\ cacheStore' = (cacheStore \ {old}) \cup {new}
  BY <1>1, <1>2, StoreGains
<1>6. \A d \in CacheCall : KeepsScan(d)
  BY <1>1 DEF KeepsScan, CacheTypes
<1>7. ASSUME NEW d \in CacheCall PROVE CallIs(d)'
  <2>1. CASE d = c
    <3>1. cacheStep'[c] = "done"
      BY <1>1 DEF CacheTypes
    <3>2. \A e \in cacheStore' : e.id \in cacheScan[c].doomed => e \in cacheStore
      BY <1>5 DEF CallIs, CacheTypes
    <3> QED
      BY <1>1, <1>6, <2>1, <3>1, <3>2, StillRests
  <2>2. CASE d # c
    <3>1. SameScan(d)
      BY <1>1, <1>6, <2>2 DEF SameScan, CacheTypes
    <3> QED
      BY <1>1, <1>5, <3>1, CallGains
  <2> QED
    BY <2>1, <2>2
<1> QED
  BY <1>1, <1>3, <1>4, <1>7, ServedStays

LEMMA FailStep ==
    ASSUME CacheInv, NEW c \in CacheCall, ComputeFails(c)
    PROVE  CacheInv'
<1> USE DEF CacheInv, CacheBase
<1>1. /\ cacheAsked' = cacheAsked /\ cacheScan' = cacheScan /\ cacheTime' = cacheTime
      /\ cacheWrites' = cacheWrites /\ cacheAge' = cacheAge /\ cacheStore' = cacheStore /\ Rests(c)
      /\ cacheStep' = [cacheStep EXCEPT ![c] = "done"]
  BY DEF ComputeFails, CacheIs, CacheTo, Rests
<1>2. CacheTypes' /\ StoreIsMap'
  BY <1>1 DEF CacheTypes, CachePlaces, StoreIsMap, IsEntry
<1>3. ASSUME NEW d \in CacheCall PROVE CallIs(d)'
  <2>1. CASE d = c
    <3>1. KeepsScan(c) /\ cacheStep'[c] = "done"
      BY <1>1 DEF KeepsScan, CacheTypes
    <3> QED
      BY <1>1, <2>1, <3>1, StillRests
  <2>2. CASE d # c
    BY <1>1, <2>2, OthersStay DEF CacheTypes
  <2> QED
    BY <2>1, <2>2
<1> QED
  BY <1>1, <1>2, <1>3, ServedStays

LEMMA TickStep ==
    ASSUME CacheInv, CacheTick \/ UNCHANGED cacheVars
    PROVE  CacheInv'
<1> USE DEF CacheInv, CacheBase
<1>1. /\ cacheAsked' = cacheAsked /\ cacheScan' = cacheScan /\ cacheStep' = cacheStep
      /\ cacheWrites' = cacheWrites /\ cacheAge' = cacheAge /\ cacheStore' = cacheStore
      /\ cacheTime' \in Nat /\ cacheTime <= cacheTime'
  BY CacheAssumption DEF CacheTick, cacheVars, CacheTypes
<1>2. CacheTypes'
  BY <1>1 DEF CacheTypes
<1>3. StoreIsMap'
  BY <1>1 DEF StoreIsMap, IsEntry, CacheTypes
<1>4. \A d \in CacheCall : CallIs(d)'
  BY <1>1, OthersStay
<1> QED
  BY <1>1, <1>2, <1>3, <1>4, ServedStays

(* An invalidation looks at a page: it takes note of what is there at the   *)
(* first one of a pattern, and covers it by the last.                       *)
LEMMA PageStep ==
    ASSUME CacheInv, NEW c \in CacheCall, ScanPage(c)
    PROVE  CacheInv'
<1> USE DEF CacheInv, CacheBase
<1>1. PICK M, page, next, doomed : M = Matched(c) /\ page = Page(c) /\ next = NextCursor(c) /\ doomed = Doomed(c)
  OBVIOUS
<1>2. PICK s : s = cacheScan[c] /\ IsScan(s)
  BY DEF CacheTypes
<1>3. /\ c \in DOMAIN cacheAsked.calls /\ Cached(c).kind # "report" /\ cacheStep[c] \in {"start", "next", "scan"}
      /\ cacheAsked' = cacheAsked /\ cacheStore' = cacheStore /\ cacheTime' = cacheTime
      /\ cacheWrites' = cacheWrites /\ cacheAge' = cacheAge
  BY DEF ScanPage, CacheTo
<1>4. /\ cacheScan' = [cacheScan EXCEPT ![c] =
             [s EXCEPT !.cursor = next, !.found = s.found \cup KeysOf(page), !.doomed = doomed]]
      /\ cacheStep' = [cacheStep EXCEPT ![c] = IF next = 0 THEN "delete" ELSE "scan"]
  <2>1. cacheStep' = [cacheStep EXCEPT ![c] = IF next = 0 THEN "delete" ELSE "scan"]
    BY <1>1 DEF ScanPage, CacheTo
  <2>2. cacheScan' = [cacheScan EXCEPT ![c] =
             [cacheScan[c] EXCEPT !.cursor = NextCursor(c), !.found = cacheScan[c].found \cup KeysOf(Page(c)),
                                  !.doomed = Doomed(c)]]
    BY DEF ScanPage
  <2> QED
    BY <1>1, <1>2, <2>1, <2>2
<1>5. IsFiniteSet(M) /\ M \subseteq cacheStore /\ Cardinality(M) \in Nat
  BY <1>1, MatchedFinite, FS_CardinalityType
<1>6. next \in Nat /\ next = (IF s.cursor + ScanCount >= Cardinality(M) THEN 0 ELSE s.cursor + ScanCount)
  BY <1>1, <1>2, <1>5, CacheAssumption DEF NextCursor, IsScan
<1>7. doomed = s.doomed \cup (IF StartsPattern(c) THEN {e.id : e \in M} ELSE {})
  BY <1>1, <1>2 DEF Doomed
<1>8. doomed \subseteq Nat /\ \A n \in doomed : n <= cacheWrites
  BY <1>2, <1>5, <1>7 DEF CallIs, StoreIsMap, IsEntry, IsScan
<1>9. PICK t : t = cacheScan'[c] /\ t = [type |-> s.type, cursor |-> next, found |-> s.found \cup KeysOf(page),
                                       doomed |-> doomed, disturbed |-> s.disturbed]
  BY <1>2, <1>4 DEF IsScan, CacheTypes
<1>10. IsScan(t) /\ t.type = s.type
  BY <1>2, <1>6, <1>8, <1>9 DEF IsScan
<1>11. \A d \in CacheCall : d # c => cacheScan'[d] = cacheScan[d] /\ cacheStep'[d] = cacheStep[d]
  BY <1>4 DEF CacheTypes
<1>12. cacheStep'[c] = (IF next = 0 THEN "delete" ELSE "scan")
  BY <1>4 DEF CacheTypes
<1>13. CacheTypes'
  BY <1>3, <1>4, <1>9, <1>10, <1>11 DEF CacheTypes, CachePlaces
<1>14. StoreIsMap'
  BY <1>3 DEF StoreIsMap, IsEntry
<1>15. ASSUME ~s.disturbed PROVE ScanKnows(c)'
  <2>1. ScanKnows(c)
    BY <1>2, <1>15 DEF CallIs
  <2>2. \A e \in M : e.place \in Nat /\ (Passed(M, e) < s.cursor => e.key \in s.found)
    <3>1. CASE StartsPattern(c)
      BY <1>2, <1>5, <3>1, PassedFewer DEF StartsPattern, CallIs, StoreIsMap, IsEntry
    <3>2. CASE cacheStep[c] = "scan"
      BY <1>1, <1>2, <1>5, <2>1, <3>2 DEF ScanKnows, Covers, StoreIsMap, IsEntry
    <3> QED
      BY <1>3, <3>1, <3>2 DEF StartsPattern
  <2>3. ASSUME NEW e \in cacheStore, e.id \in doomed PROVE e \in M
    <3>1. CASE StartsPattern(c)
      <4>1. e.id \notin s.doomed
        BY <1>2, <2>1, <3>1 DEF ScanKnows, Rests, StartsPattern
      <4>2. PICK m \in M : m.id = e.id
        BY <1>7, <2>3, <3>1, <4>1
      <4> QED
        BY <1>5, <4>2 DEF StoreIsMap
    <3>2. CASE cacheStep[c] = "scan"
      BY <1>1, <1>2, <1>7, <2>1, <2>3, <3>2 DEF ScanKnows, StartsPattern, Matched
    <3> QED
      BY <1>3, <3>1, <3>2 DEF StartsPattern
  <2>4. page = {e \in M : s.cursor <= Passed(M, e) /\ Passed(M, e) < s.cursor + ScanCount}
    BY <1>1, <1>2 DEF Page, Ahead, Passed
  <2>5. ScanCount \in Nat \ {0} /\ s.cursor \in Nat
    BY <1>2, CacheAssumption DEF IsScan
  <2>6. CASE s.cursor + ScanCount >= Cardinality(M)
    <3>1. \A e \in M : e.key \in s.found \cup KeysOf(page)
      BY <1>5, <2>2, <2>4, <2>5, <2>6, PageCovers
    <3>2. cacheStep'[c] = "delete"
      BY <1>6, <1>12, <2>6
    <3> QED
      BY <1>3, <1>9, <2>3, <3>1, <3>2 DEF ScanKnows, Rests
  <2>7. CASE ~(s.cursor + ScanCount >= Cardinality(M))
    <3>1. Covers(M, s.cursor + ScanCount, s.found \cup KeysOf(page))
      BY <1>5, <2>2, <2>4, <2>5, <2>7, PageCovers
    <3>2. next = s.cursor + ScanCount /\ cacheStep'[c] = "scan"
      BY <1>6, <1>12, <2>5, <2>7
    <3>3. cacheScan'[c].type = cacheScan[c].type
      BY <1>2, <1>9
    <3>4. Matched(c)' = M
      BY <1>1, <1>3, <3>3 DEF Matched, OfPattern, Types, Cached
    <3>5. ASSUME NEW e \in cacheStore', e.id \in cacheScan'[c].doomed PROVE OfPattern(c, e.key)'
      <4>1. e \in Matched(c)'
        BY <1>3, <1>9, <2>3, <3>4, <3>5
      <4> QED
        BY <4>1 DEF Matched
    <3>6. Covers(Matched(c)', cacheScan'[c].cursor, cacheScan'[c].found)
      BY <1>9, <3>1, <3>2, <3>4
    <3>7. Covers(Matched(c), cacheScan[c].cursor, cacheScan[c].found)'
      BY <3>6
    <3> QED
      BY <3>2, <3>5, <3>7 DEF ScanKnows, Rests
  <2> QED
    BY <2>6, <2>7
<1>16. CallIs(c)'
  <2>1. c \in DOMAIN cacheAsked'.calls /\ Cached(c)'.kind # "report"
    BY <1>3 DEF Cached
  <2>2. \A n \in cacheScan'[c].doomed : n <= cacheWrites'
    <3>1. cacheScan'[c].doomed = doomed /\ cacheWrites' = cacheWrites
      BY <1>3, <1>9
    <3> QED
      BY <1>8, <3>1
  <2>3. cacheStep'[c] = "delete" => cacheScan'[c].cursor = 0
    BY <1>9, <1>12
  <2>4. cacheStep'[c] = "scan" => cacheScan'[c].cursor > 0
    BY <1>6, <1>9, <1>12
  <2>5. ~cacheScan'[c].disturbed => ScanKnows(c)'
    BY <1>9, <1>15
  <2> QED
    BY <1>12, <2>1, <2>2, <2>3, <2>4, <2>5 DEF CallIs
<1>17. ASSUME NEW d \in CacheCall PROVE CallIs(d)'
  BY <1>3, <1>11, <1>16, OthersStay
<1> QED
  BY <1>3, <1>13, <1>14, <1>17, ServedStays

(* An invalidation deletes what it has found: no doomed entry is left.      *)
LEMMA DeleteStep ==
    ASSUME CacheInv, NEW c \in CacheCall, deleteByPattern(c)
    PROVE  CacheInv'
<1> USE DEF CacheInv, CacheBase
<1>1. PICK s : s = cacheScan[c] /\ IsScan(s)
  BY DEF CacheTypes
<1>2. PICK keys : keys = KeysOf(cacheStore) \cap s.found
  OBVIOUS
<1>3. /\ c \in DOMAIN cacheAsked.calls /\ cacheStep[c] = "delete" /\ cacheStore' = Drop(s.found)
      /\ cacheAsked' = cacheAsked /\ cacheTime' = cacheTime /\ cacheWrites' = cacheWrites /\ cacheAge' = cacheAge
  BY <1>1 DEF deleteByPattern, CacheTo
<1>4. PICK type, w : /\ w \in {"done", "next"} /\ cacheStep' = [cacheStep EXCEPT ![c] = w]
                     /\ cacheScan' = [Disturb(cacheScan, keys) EXCEPT ![c] = [s EXCEPT !.found = {}, !.type = type]]
  BY <1>1, <1>2 DEF deleteByPattern, CacheTo
<1>5. PICK t : t = cacheScan'[c] /\ t = [type |-> type, cursor |-> s.cursor, found |-> {},
                                       doomed |-> s.doomed, disturbed |-> s.disturbed]
  <2>1. cacheScan'[c] = [s EXCEPT !.found = {}, !.type = type]
    BY <1>4 DEF Disturb
  <2> QED
    BY <1>1, <2>1 DEF IsScan
<1>6. IsScan(t)
  BY <1>1, <1>5 DEF IsScan
<1>7. \A d \in CacheCall : d # c => cacheScan'[d] = Disturb(cacheScan, keys)[d] /\ cacheStep'[d] = cacheStep[d]
  BY <1>4 DEF Disturb, CacheTypes
<1>8. cacheStep'[c] = w
  BY <1>4 DEF CacheTypes
<1>9. CacheTypes'
  <2>1. ASSUME NEW d \in CacheCall PROVE IsScan(cacheScan'[d])
    <3>1. CASE d # c
      BY <1>7, <3>1, DisturbIs
    <3>2. CASE d = c
      BY <1>5, <1>6, <3>2
    <3> QED
      BY <3>1, <3>2
  <2>2. cacheScan' = [d \in CacheCall |-> cacheScan'[d]]
    BY <1>4 DEF Disturb
  <2> QED
    BY <1>3, <1>4, <2>1, <2>2 DEF CacheTypes, CachePlaces
<1>10. StoreIsMap'
  BY <1>3, StoreLoses
<1>11. ASSUME ~s.disturbed, NEW e \in cacheStore' PROVE e.id \notin s.doomed
  <2>1. e \in cacheStore /\ e.key \notin s.found
    BY <1>3 DEF Drop
  <2> QED
    BY <1>1, <1>3, <1>11, <2>1 DEF CallIs, ScanKnows
<1>12. CallIs(c)'
  <2>1. c \in DOMAIN cacheAsked'.calls /\ Cached(c)'.kind # "report"
    BY <1>3 DEF CallIs, Cached
  <2>2. \A n \in cacheScan'[c].doomed : n <= cacheWrites'
    <3>1. cacheScan'[c].doomed = cacheScan[c].doomed /\ cacheWrites' = cacheWrites
      BY <1>1, <1>3, <1>5
    <3> QED
      BY <3>1 DEF CallIs
  <2>3. cacheScan'[c].cursor = 0 /\ cacheScan'[c].found = {}
    BY <1>1, <1>3, <1>5 DEF CallIs
  <2>4. ASSUME ~cacheScan'[c].disturbed PROVE ScanKnows(c)'
    BY <1>4, <1>5, <1>8, <1>11, <2>4 DEF ScanKnows
  <2> QED
    BY <1>4, <1>8, <2>1, <2>2, <2>3, <2>4 DEF CallIs
<1>13. ASSUME NEW d \in CacheCall PROVE CallIs(d)'
  <2>1. CASE d # c
    <3>1. \A e \in cacheStore : e.key \in s.found => e.key \in keys
      BY <1>2 DEF KeysOf
    <3> QED
      BY <1>3, <1>7, <2>1, <3>1, OthersLose
  <2> QED
    BY <1>12, <2>1
<1> QED
  BY <1>3, <1>9, <1>10, <1>13, ServedStays

-----------------------------------------------------------------------------
(* The entries at the start have a place, and an id, each.                  *)
LEMMA StoreAtStart == ASSUME CacheInit PROVE StoreIsMap
<1>1. PICK stored, n : /\ stored = cacheAsked.stored /\ n = Len(stored) /\ n \in Nat
                       /\ DOMAIN stored = 1..n /\ cacheAsked \in CacheSettings
  BY CacheAssumption DEF CacheInit
<1>2. \A i \in 1..n : stored[i].report \in Reports
  BY <1>1, CacheAssumption
<1>3. \A i, j \in 1..n : stored[i] = stored[j] => i = j
  BY <1>1, CacheAssumption
<1>4. cacheStore = {Envelope(stored[i], i, i) : i \in 1..n} /\ cacheTime = 0 /\ cacheWrites = n
  BY <1>1 DEF CacheInit
<1>5. IsFiniteSet(cacheStore)
  <2>1. PICK I : I = 1..n /\ IsFiniteSet(I)
    BY <1>1, FS_Interval
  <2>. DEFINE f == [i \in I |-> Envelope(stored[i], i, i)]
  <2>2. f \in Surjection(I, cacheStore)
    BY <1>4, <2>1 DEF Surjection
  <2> QED
    BY <2>1, <2>2, FS_Surjection
<1>6. ASSUME NEW e \in cacheStore
      PROVE  \E i \in 1..n : e.key = stored[i] /\ e.id = i /\ e.place = i /\ e = Envelope(stored[i], i, i)
  <2>1. PICK i \in 1..n : e = Envelope(stored[i], i, i)
    BY <1>4
  <2> QED
    BY <2>1 DEF Envelope
<1>7. ASSUME NEW e \in cacheStore PROVE IsEntry(e)
  <2>1. PICK i \in 1..n : e = Envelope(stored[i], i, i)
    BY <1>4
  <2>2. /\ e.key = stored[i] /\ e.at = 0 /\ e.expires = 0 + Ttl(stored[i])
        /\ e.id = i /\ e.place = i
    BY <1>4, <2>1 DEF Envelope, Ttl
  <2> QED
    BY <1>1, <1>2, <1>4, <2>2 DEF IsEntry
<1>8. ASSUME NEW d \in cacheStore, NEW e \in cacheStore, d.key = e.key \/ d.place = e.place \/ d.id = e.id
      PROVE  d = e
  <2>1. PICK i \in 1..n : d.key = stored[i] /\ d.id = i /\ d.place = i /\ d = Envelope(stored[i], i, i)
    BY <1>6
  <2>2. PICK j \in 1..n : e.key = stored[j] /\ e.id = j /\ e.place = j /\ e = Envelope(stored[j], j, j)
    BY <1>6
  <2>3. i = j
    BY <1>3, <1>8, <2>1, <2>2
  <2> QED
    BY <2>1, <2>2, <2>3
<1> QED
  BY <1>5, <1>7, <1>8 DEF StoreIsMap

LEMMA CacheStarts == CacheInit => CacheInv
<1> SUFFICES ASSUME CacheInit PROVE CacheInv
  OBVIOUS
<1>1. \A c \in CacheCall : cacheStep[c] = "start" /\ cacheAge[c] = 0 /\ cacheScan[c] = NoScan
  BY DEF CacheInit
<1>2. cacheAsked.stored \in Seq({cacheAsked.stored[i] : i \in DOMAIN cacheAsked.stored})
  BY CacheAssumption DEF CacheInit
<1>3. CacheTypes
  <2>1. cacheWrites \in Nat
    BY <1>2 DEF CacheInit
  <2>2. IsScan(NoScan)
    BY DEF IsScan, NoScan
  <2> QED
    BY <1>1, <2>1, <2>2 DEF CacheInit, CacheTypes, CachePlaces
<1>4. \A c \in CacheCall : CallIs(c)
  BY <1>1 DEF CallIs, ScanKnows, Rests, NoScan
<1>5. ServedWithinTtl
  BY <1>1 DEF ServedWithinTtl
<1> QED
  BY <1>3, <1>4, <1>5, StoreAtStart DEF CacheInv, CacheBase

LEMMA CacheStays == CacheInv /\ [CacheNext]_cacheVars => CacheInv'
<1> SUFFICES ASSUME CacheInv, [CacheNext]_cacheVars PROVE CacheInv'
  OBVIOUS
<1>1. ASSUME NEW c \in CacheCall, CacheHit(c) PROVE CacheInv'
  BY <1>1, HitStep
<1>2. ASSUME NEW c \in CacheCall, CacheMiss(c) PROVE CacheInv'
  BY <1>2, MissStep
<1>3. ASSUME NEW c \in CacheCall, StoreComputed(c) PROVE CacheInv'
  BY <1>3, StoreStep
<1>4. ASSUME NEW c \in CacheCall, ComputeFails(c) PROVE CacheInv'
  BY <1>4, FailStep
<1>5. ASSUME NEW c \in CacheCall, ScanPage(c) PROVE CacheInv'
  BY <1>5, PageStep
<1>6. ASSUME NEW c \in CacheCall, deleteByPattern(c) PROVE CacheInv'
  BY <1>6, DeleteStep
<1>7. CASE Cleanup
  BY <1>7, CleanupStep
<1>8. CASE CacheTick \/ UNCHANGED cacheVars
  BY <1>8, TickStep
<1> QED
  BY <1>1, <1>2, <1>3, <1>4, <1>5, <1>6, <1>7, <1>8 DEF CacheNext

(* Whatever is stored at the start, whatever is asked, however many keys a  *)
(* page of a SCAN has and whenever the timer fires: when an invalidation    *)
(* is done, no entry that was there under its patterns when it scanned them *)
(* is left, unless a key of theirs was deleted between two of its pages;    *)
(* and getOrCompute serves no report from the cache later than its TTL      *)
(* after it was stored.                                                     *)
THEOREM CacheKept == CacheSpec => []CacheForgets
<1>1. CacheInv => CacheForgets
  BY DEF CacheInv, CacheForgets, InvalidatedIsGone, CallIs, ScanKnows, Rests
<1> QED
  BY <1>1, CacheStarts, CacheStays, PTL DEF CacheSpec

-----------------------------------------------------------------------------
(* Tally files                                                              *)
VoucherSteps == {"map", "commit"}
CommitterIds == TallyElement \cup {0}
ParserIs ==
    /\ parser = [at |-> parser.at, open |-> parser.open, masters |-> parser.masters, inside |-> parser.inside,
                 current |-> parser.current, read |-> parser.read, entries |-> parser.entries,
                 rejected |-> parser.rejected]
    /\ parser.at \in Nat /\ parser.read \in Nat /\ parser.entries \in Nat
IsCallback(m) == m = [step |-> m.step, entries |-> m.entries, ahead |-> m.ahead] /\ m.entries \in Nat
StepsIn(phase) == {"none", "done"} \cup IF phase = "masters" THEN MasterSteps ELSE VoucherSteps
CallbacksAre ==
    /\ callback = [k \in TallyElement |-> callback[k]]
    /\ \A k \in TallyElement : IsCallback(callback[k]) /\ callback[k].step \in StepsIn(tallyAsked.phase)
RowsAre ==
    /\ tallyRows = [rows |-> tallyRows.rows, own |-> tallyRows.own, txn |-> tallyRows.txn,
                    headers |-> tallyRows.headers, lines |-> tallyRows.lines, errors |-> tallyRows.errors]
    /\ tallyRows.errors \in Nat
CountsAre ==
    /\ tallyCounts = [total |-> tallyCounts.total, imported |-> tallyCounts.imported,
                      failed |-> tallyCounts.failed, skipped |-> tallyCounts.skipped]
    /\ tallyCounts.total \in Nat /\ tallyCounts.imported \in Nat /\ tallyCounts.failed \in Nat
    /\ tallyCounts.skipped \in Nat
IsCommit(m) ==
    /\ m = [batch |-> m.batch, at |-> m.at, header |-> m.header, imported |-> m.imported, failed |-> m.failed,
            skipped |-> m.skipped]
    /\ m.imported \in Nat /\ m.failed \in Nat /\ m.skipped \in Nat
CommitsAre ==
    /\ commits = [j \in CommitterIds |-> commits[j]]
    /\ \A j \in CommitterIds : IsCommit(commits[j])
TallyTypes ==
    /\ tallyAsked \in TallySettings /\ (tallyEnd = "last" => tallyAsked.phase = "vouchers")
    /\ ParserIs /\ CallbacksAre /\ RowsAre /\ CountsAre /\ CommitsAre

(* A callback is called when its element is closed, and the list of the     *)
(* voucher being read holds no more than was read of it.                    *)
IsVoucher(k) == Element(k).kind = "VOUCHER"
StartedAreBehind == \A k \in Started : k \in Nat /\ k < parser.at
ListIsOwn == parser.open /\ IsVoucher(parser.at) => parser.entries <= parser.read
TallyInv == TallyTypes /\ StartedAreBehind /\ ListIsOwn /\ ImportAddsUp

-----------------------------------------------------------------------------
(* What each step does, field by field.                                     *)
LEMMA PhaseIs == ASSUME tallyAsked \in TallySettings PROVE tallyAsked.phase \in {"masters", "vouchers"}
  BY TallyAssumption

LEMMA ElementsAreFinite == IsFiniteSet(TallyElement) /\ 0 \notin TallyElement /\ IsFiniteSet(CommitterIds)
  BY TallyAssumption, FS_AddElement DEF CommitterIds

LEMMA CallDoes ==
    ASSUME TallyTypes, NEW k \in TallyElement, NEW step, CallTo(k, step), step \in StepsIn(tallyAsked.phase), tallyAsked' = tallyAsked
    PROVE  /\ CallbacksAre'
           /\ callback'[k].step = step /\ callback'[k].entries = callback[k].entries
           /\ \A j \in TallyElement : j # k => callback'[j] = callback[j]
<1>1. IsCallback(callback[k])
  BY DEF TallyTypes, CallbacksAre
<1>2. PICK m : m = [callback[k] EXCEPT !.step = step, !.ahead = FALSE]
  OBVIOUS
<1>3. m = [step |-> step, entries |-> callback[k].entries, ahead |-> FALSE] /\ callback[k].entries \in Nat
  BY <1>1, <1>2 DEF IsCallback
<1>4. m.step = step /\ m.entries = callback[k].entries /\ IsCallback(m)
  BY <1>3 DEF IsCallback
<1>5. callback' = [callback EXCEPT ![k] = m]
  BY <1>2 DEF CallTo
<1>6. callback'[k] = m /\ \A j \in TallyElement : j # k => callback'[j] = callback[j]
  BY <1>5 DEF TallyTypes, CallbacksAre
<1>7. callback' = [j \in TallyElement |-> callback'[j]]
  BY <1>5 DEF TallyTypes, CallbacksAre
<1>8. \A j \in TallyElement : IsCallback(callback'[j]) /\ callback'[j].step \in StepsIn(tallyAsked.phase)
  BY <1>4, <1>6 DEF TallyTypes, CallbacksAre
<1> QED
  BY <1>4, <1>6, <1>7, <1>8 DEF CallbacksAre, IsCallback

LEMMA IssuedDoes ==
    ASSUME TallyTypes, Issued \/ callback' = callback, tallyAsked' = tallyAsked
    PROVE  /\ CallbacksAre'
           /\ \A j \in TallyElement : callback'[j].step = callback[j].step /\ callback'[j].entries = callback[j].entries
<1>1. CASE callback' = callback
  BY <1>1 DEF TallyTypes, CallbacksAre
<1>2. CASE Issued
  <2>1. ASSUME NEW j \in TallyElement
        PROVE  \E a : callback'[j] = [step |-> callback[j].step, entries |-> callback[j].entries, ahead |-> a]
    <3>1. PICK a : a = (callback[j].step \in MasterSteps)
      OBVIOUS
    <3>2. callback'[j] = [callback[j] EXCEPT !.ahead = a]
      BY <1>2, <3>1 DEF Issued
    <3>3. IsCallback(callback[j])
      BY DEF TallyTypes, CallbacksAre
    <3>4. callback'[j] = [step |-> callback[j].step, entries |-> callback[j].entries, ahead |-> a]
      BY <3>2, <3>3 DEF IsCallback
    <3> QED
      BY <3>4
  <2>2. callback' = [j \in TallyElement |-> callback'[j]]
    <3>1. PICK f : f = [k \in TallyElement |-> [callback[k] EXCEPT !.ahead = callback[k].step \in MasterSteps]]
      OBVIOUS
    <3>2. f = [j \in TallyElement |-> f[j]]
      BY <3>1
    <3> QED
      BY <1>2, <3>1, <3>2 DEF Issued
  <2>3. ASSUME NEW j \in TallyElement
        PROVE  /\ callback'[j].step = callback[j].step /\ callback'[j].entries = callback[j].entries
               /\ callback'[j] = [step |-> callback'[j].step, entries |-> callback'[j].entries, ahead |-> callback'[j].ahead]
    <3>1. PICK a : callback'[j] = [step |-> callback[j].step, entries |-> callback[j].entries, ahead |-> a]
      BY <2>1
    <3> QED
      BY <3>1
  <2>4. \A j \in TallyElement : callback[j].entries \in Nat /\ callback[j].step \in StepsIn(tallyAsked.phase)
    BY DEF TallyTypes, CallbacksAre, IsCallback
  <2>5. \A j \in TallyElement : IsCallback(callback'[j])
    BY <2>3, <2>4 DEF IsCallback
  <2> QED
    BY <2>2, <2>3, <2>4, <2>5 DEF CallbacksAre
<1> QED
  BY <1>1, <1>2

LEMMA EndDoes ==
    ASSUME TallyTypes, NEW k \in TallyElement, CallbackEnds(k), tallyAsked' = tallyAsked
    PROVE  /\ CallTo(k, "done") /\ ParserIs'
           /\ parser'.at = parser.at /\ parser'.open = parser.open /\ parser'.read = parser.read
           /\ parser'.entries \in {0, parser.entries}
<1>1. parser' = [at |-> parser.at, open |-> parser.open, masters |-> parser.masters, inside |-> parser.inside,
                 current |-> parser.current \ {Element(k).kind}, read |-> parser.read,
                 entries |-> IF IsVoucher(k) THEN 0 ELSE parser.entries, rejected |-> parser.rejected]
  BY DEF TallyTypes, ParserIs, CallbackEnds, IsVoucher
<1>2. PICK e, c : e = (IF IsVoucher(k) THEN 0 ELSE parser.entries) /\ c = parser.current \ {Element(k).kind}
  OBVIOUS
<1>3. parser' = [at |-> parser.at, open |-> parser.open, masters |-> parser.masters, inside |-> parser.inside,
                 current |-> c, read |-> parser.read, entries |-> e, rejected |-> parser.rejected]
  BY <1>1, <1>2
<1>4. /\ parser'.at = parser.at /\ parser'.open = parser.open /\ parser'.read = parser.read /\ parser'.entries = e
      /\ parser' = [at |-> parser'.at, open |-> parser'.open, masters |-> parser'.masters, inside |-> parser'.inside,
                    current |-> parser'.current, read |-> parser'.read, entries |-> parser'.entries,
                    rejected |-> parser'.rejected]
  BY <1>3
<1>5. e \in {0, parser.entries} /\ parser.entries \in Nat /\ parser.at \in Nat /\ parser.read \in Nat
  BY <1>2 DEF TallyTypes, ParserIs
<1>6. CallTo(k, "done")
  BY DEF CallbackEnds
<1>7. ParserIs'
  BY <1>4, <1>5 DEF ParserIs
<1> QED
  BY <1>4, <1>5, <1>6, <1>7

LEMMA PlusDoes ==
    ASSUME CountsAre, NEW what \in {"total", "imported", "failed", "skipped"}, tallyCounts' = Plus(tallyCounts, what)
    PROVE  /\ CountsAre'
           /\ tallyCounts'.total = tallyCounts.total + (IF what = "total" THEN 1 ELSE 0)
           /\ tallyCounts'.imported = tallyCounts.imported + (IF what = "imported" THEN 1 ELSE 0)
           /\ tallyCounts'.failed = tallyCounts.failed + (IF what = "failed" THEN 1 ELSE 0)
           /\ tallyCounts'.skipped = tallyCounts.skipped + (IF what = "skipped" THEN 1 ELSE 0)
<1>1. CASE what = "total"
  <2>1. tallyCounts' = [tallyCounts EXCEPT !.total = tallyCounts.total + 1]
    BY <1>1 DEF CountsAre, Plus
  <2> QED
    BY <1>1, <2>1 DEF CountsAre
<1>2. CASE what = "imported"
  <2>1. tallyCounts' = [tallyCounts EXCEPT !.imported = tallyCounts.imported + 1]
    BY <1>2 DEF CountsAre, Plus
  <2> QED
    BY <1>2, <2>1 DEF CountsAre
<1>3. CASE what = "failed"
  <2>1. tallyCounts' = [tallyCounts EXCEPT !.failed = tallyCounts.failed + 1]
    BY <1>3 DEF CountsAre, Plus
  <2> QED
    BY <1>3, <2>1 DEF CountsAre
<1>4. CASE what = "skipped"
  <2>1. tallyCounts' = [tallyCounts EXCEPT !.skipped = tallyCounts.skipped + 1]
    BY <1>4 DEF CountsAre, Plus
  <2> QED
    BY <1>4, <2>1 DEF CountsAre
<1> QED
  BY <1>1, <1>2, <1>3, <1>4

LEMMA AddedDoes ==
    ASSUME TallyTypes, NEW j \in CommitterIds, tallyCounts' = Added(j)
    PROVE  CountsAre' /\ tallyCounts'.total = tallyCounts.total /\ tallyCounts'.failed = tallyCounts.failed + commits[j].failed
<1>1. tallyCounts' = [total |-> tallyCounts.total, imported |-> tallyCounts.imported + commits[j].imported,
                      failed |-> tallyCounts.failed + commits[j].failed,
                      skipped |-> tallyCounts.skipped + commits[j].skipped]
  BY DEF TallyTypes, CountsAre, Added
<1>2. commits[j].imported \in Nat /\ commits[j].failed \in Nat /\ commits[j].skipped \in Nat
  BY DEF TallyTypes, CommitsAre, IsCommit
<1> QED
  BY <1>1, <1>2 DEF TallyTypes, CountsAre

LEMMA CountsStay == ASSUME CountsAre, tallyCounts' = tallyCounts PROVE CountsAre'
  BY DEF CountsAre

(* What becomes of the rows.                                                *)
LEMMA RowsDo ==
    ASSUME RowsAre,
           \/ tallyRows' = tallyRows \/ tallyRows' = Undone \/ tallyRows' = Broken
           \/ \E rows : tallyRows' = Written(rows)
           \/ \E rows : tallyRows' = [Undone EXCEPT !.rows = rows]
           \/ \E headers : tallyRows' = [tallyRows EXCEPT !.headers = headers]
           \/ \E lines : tallyRows' = [tallyRows EXCEPT !.lines = lines]
    PROVE  RowsAre' /\ tallyRows'.errors = tallyRows.errors
<1> USE DEF RowsAre
<1>1. CASE tallyRows' = tallyRows \/ tallyRows' = Undone \/ tallyRows' = Broken
  BY <1>1 DEF Undone, Broken
<1>2. ASSUME NEW rows, tallyRows' = Written(rows) PROVE RowsAre' /\ tallyRows'.errors = tallyRows.errors
  <2>1. CASE tallyRows.txn = "open"
    BY <1>2, <2>1 DEF Written
  <2>2. CASE tallyRows.txn # "open"
    BY <1>2, <2>2 DEF Written
  <2> QED
    BY <2>1, <2>2
<1>3. ASSUME NEW rows, tallyRows' = [Undone EXCEPT !.rows = rows] PROVE RowsAre' /\ tallyRows'.errors = tallyRows.errors
  <2>1. PICK u : u = Undone
    OBVIOUS
  <2>2. u = [rows |-> tallyRows.rows, own |-> {}, txn |-> "none", headers |-> tallyRows.headers,
             lines |-> tallyRows.lines, errors |-> tallyRows.errors]
    BY <2>1 DEF Undone
  <2>3. tallyRows' = [u EXCEPT !.rows = rows]
    BY <1>3, <2>1
  <2> QED
    BY <2>2, <2>3
<1>4. ASSUME NEW headers, tallyRows' = [tallyRows EXCEPT !.headers = headers]
      PROVE  RowsAre' /\ tallyRows'.errors = tallyRows.errors
  BY <1>4
<1>5. ASSUME NEW lines, tallyRows' = [tallyRows EXCEPT !.lines = lines] PROVE RowsAre' /\ tallyRows'.errors = tallyRows.errors
  BY <1>5
<1> QED
  BY <1>1, <1>2, <1>3, <1>4, <1>5

LEMMA ErrorLogged ==
    ASSUME RowsAre, tallyRows' = [tallyRows EXCEPT !.errors = tallyRows.errors + 1]
    PROVE  RowsAre' /\ tallyRows'.errors = tallyRows.errors + 1
  BY DEF RowsAre

LEMMA CommitDoes ==
    ASSUME TallyTypes, NEW j \in CommitterIds, NEW m, IsCommit(m), commits' = [commits EXCEPT ![j] = m]
    PROVE  CommitsAre' /\ commits'[j] = m /\ \A i \in CommitterIds : i # j => commits'[i] = commits[i]
  BY DEF TallyTypes, CommitsAre

LEMMA CommitsStay == ASSUME CommitsAre, commits' = commits PROVE CommitsAre'
  BY DEF CommitsAre

LEMMA HandedIs ==
    ASSUME NEW j, IsCommit(commits[j]), NEW what \in {"imported", "failed", "skipped"}
    PROVE  /\ IsCommit(Handed(j, what))
           /\ Handed(j, what).failed = commits[j].failed + (IF what = "failed" THEN 1 ELSE 0)
<1>0. PICK m : m = commits[j]
  OBVIOUS
<1>1. PICK r : r = Plus(m, what)
  OBVIOUS
<1>2. PICK h : h = Handed(j, what)
  OBVIOUS
<1>3. h = [r EXCEPT !.header = 0, !.at = m.at + 1]
  BY <1>0, <1>1, <1>2 DEF Handed
<1>4. m.imported \in Nat /\ m.failed \in Nat /\ m.skipped \in Nat /\ IsCommit(m)
  BY <1>0 DEF IsCommit
<1>5. /\ r = [batch |-> m.batch, at |-> m.at, header |-> m.header, imported |-> r.imported, failed |-> r.failed,
               skipped |-> r.skipped]
      /\ r.imported \in Nat /\ r.skipped \in Nat /\ r.failed = m.failed + (IF what = "failed" THEN 1 ELSE 0)
  <2>1. CASE what = "imported"
    <3>1. r = [m EXCEPT !.imported = m.imported + 1]
      BY <1>1, <2>1 DEF Plus
    <3>2. r = [batch |-> m.batch, at |-> m.at, header |-> m.header, imported |-> m.imported + 1, failed |-> m.failed,
               skipped |-> m.skipped]
      BY <1>4, <3>1 DEF IsCommit
    <3> QED
      BY <1>4, <2>1, <3>2
  <2>2. CASE what = "failed"
    <3>1. r = [m EXCEPT !.failed = m.failed + 1]
      BY <1>1, <2>2 DEF Plus
    <3>2. r = [batch |-> m.batch, at |-> m.at, header |-> m.header, imported |-> m.imported, failed |-> m.failed + 1,
               skipped |-> m.skipped]
      BY <1>4, <3>1 DEF IsCommit
    <3> QED
      BY <1>4, <2>2, <3>2
  <2>3. CASE what = "skipped"
    <3>1. r = [m EXCEPT !.skipped = m.skipped + 1]
      BY <1>1, <2>3 DEF Plus
    <3>2. r = [batch |-> m.batch, at |-> m.at, header |-> m.header, imported |-> m.imported, failed |-> m.failed,
               skipped |-> m.skipped + 1]
      BY <1>4, <3>1 DEF IsCommit
    <3> QED
      BY <1>4, <2>3, <3>2
  <2> QED
    BY <2>1, <2>2, <2>3
<1>6. h = [batch |-> m.batch, at |-> m.at + 1, header |-> 0, imported |-> r.imported, failed |-> r.failed,
           skipped |-> r.skipped]
  <2>1. PICK a, b, c : a = r.imported /\ b = r.failed /\ c = r.skipped
    OBVIOUS
  <2>2. r = [batch |-> m.batch, at |-> m.at, header |-> m.header, imported |-> a, failed |-> b, skipped |-> c]
    BY <1>5, <2>1
  <2>3. h = [batch |-> m.batch, at |-> m.at + 1, header |-> 0, imported |-> a, failed |-> b, skipped |-> c]
    BY <1>3, <2>2
  <2> QED
    BY <2>1, <2>3
<1>7. r.failed \in Nat
  BY <1>4, <1>5
<1> QED
  BY <1>0, <1>2, <1>5, <1>6, <1>7 DEF IsCommit

-----------------------------------------------------------------------------
(* The counts, as callbacks and commits go on.                              *)
SameCallbacks == \A j \in TallyElement : callback'[j].step = callback[j].step /\ callback'[j].entries = callback[j].entries

LEMMA ParserFits ==
    ASSUME NEW a \in Nat, NEW o, NEW m, NEW i, NEW c, NEW n \in Nat, NEW e \in Nat, NEW x,
           parser' = [at |-> a, open |-> o, masters |-> m, inside |-> i, current |-> c, read |-> n, entries |-> e,
                      rejected |-> x]
    PROVE  ParserIs' /\ parser'.at = a /\ parser'.open = o /\ parser'.read = n /\ parser'.entries = e
<1>1. /\ parser'.at = a /\ parser'.open = o /\ parser'.read = n /\ parser'.entries = e
      /\ parser' = [at |-> parser'.at, open |-> parser'.open, masters |-> parser'.masters, inside |-> parser'.inside,
                    current |-> parser'.current, read |-> parser'.read, entries |-> parser'.entries,
                    rejected |-> parser'.rejected]
  OBVIOUS
<1> QED
  BY <1>1 DEF ParserIs

LEMMA ParserStays == ASSUME ParserIs, ListIsOwn, parser' = parser, tallyAsked' = tallyAsked PROVE ParserIs' /\ ListIsOwn'
  BY DEF ParserIs, ListIsOwn, IsVoucher, Element

LEMMA ListStays ==
    ASSUME TallyTypes, ListIsOwn, tallyAsked' = tallyAsked, parser'.at = parser.at, parser'.open = parser.open,
           parser'.read = parser.read, parser'.entries \in {0, parser.entries}
    PROVE  ListIsOwn'
  BY DEF TallyTypes, ParserIs, ListIsOwn, IsVoucher, Element

LEMMA FailedIs == ASSUME TallyTypes PROVE \A j \in CommitterIds : FailedIn(j) \in Nat
  BY DEF TallyTypes, CommitsAre, IsCommit, FailedIn

LEMMA ErrorsMove ==
    ASSUME TallyTypes, TallyTypes', ErrorsAreCounted, NEW i \in CommitterIds,
           \A j \in CommitterIds : j # i => FailedIn(j)' = FailedIn(j),
           tallyRows'.errors + tallyCounts.failed + FailedIn(i) = tallyRows.errors + tallyCounts'.failed + FailedIn(i)'
    PROVE  ErrorsAreCounted'
<1>1. PICK w, v : w = [j \in TallyElement \cup {0} |-> FailedIn(j)] /\ v = [j \in TallyElement \cup {0} |-> FailedIn(j)']
  OBVIOUS
<1>2. PICK n, m : n = SumFunctionOnSet(w, CommitterIds) /\ m = SumFunctionOnSet(v, CommitterIds)
  OBVIOUS
<1>3. /\ \A j \in CommitterIds : w[j] = FailedIn(j) /\ v[j] = FailedIn(j)'
      /\ \A j \in CommitterIds : FailedIn(j) \in Nat /\ FailedIn(j)' \in Nat
  <2>1. \A j \in CommitterIds : FailedIn(j) \in Nat
    BY FailedIs
  <2>2. \A j \in CommitterIds : FailedIn(j)' \in Nat
    BY DEF TallyTypes, CommitsAre, IsCommit, FailedIn
  <2> QED
    BY <1>1, <2>1, <2>2 DEF CommitterIds
<1>4. Weighs(w, CommitterIds) /\ n \in Nat
  BY <1>2, <1>3, ElementsAreFinite, SumOfNaturals
<1>5. m = n - w[i] + v[i]
  <2>1. v[i] \in Int /\ \A j \in CommitterIds \ {i} : v[j] = w[j]
    BY <1>3
  <2> QED
    BY <1>2, <1>4, <2>1, SumChanges
<1>6. tallyRows.errors = tallyCounts.failed + n
  BY <1>1, <1>2 DEF ErrorsAreCounted, CommitterIds
<1>7. tallyRows'.errors = tallyCounts'.failed + m
  <2>1. /\ tallyRows.errors \in Nat /\ tallyRows'.errors \in Nat
        /\ tallyCounts.failed \in Nat /\ tallyCounts'.failed \in Nat
    BY DEF TallyTypes, RowsAre, CountsAre
  <2>2. w[i] \in Nat /\ v[i] \in Nat /\ tallyRows'.errors + tallyCounts.failed + w[i] = tallyRows.errors + tallyCounts'.failed + v[i]
    BY <1>3
  <2> QED
    BY <1>4, <1>5, <1>6, <2>1, <2>2
<1>8. ErrorsAreCounted' = (tallyRows'.errors = tallyCounts'.failed + SumFunctionOnSet(v, TallyElement \cup {0}))
  BY <1>1 DEF ErrorsAreCounted
<1> QED
  BY <1>2, <1>7, <1>8 DEF CommitterIds

LEMMA ErrorsStay ==
    ASSUME TallyTypes, TallyTypes', ErrorsAreCounted, \A j \in CommitterIds : FailedIn(j)' = FailedIn(j),
           NEW d \in Nat, tallyRows'.errors = tallyRows.errors + d, tallyCounts'.failed = tallyCounts.failed + d
    PROVE  ErrorsAreCounted'
<1>1. 0 \in CommitterIds /\ FailedIn(0) \in Nat /\ FailedIn(0)' = FailedIn(0)
  BY FailedIs DEF CommitterIds
<1>2. tallyRows.errors \in Nat /\ tallyCounts.failed \in Nat
  BY DEF TallyTypes, RowsAre, CountsAre
<1>3. tallyRows'.errors + tallyCounts.failed + FailedIn(0) = tallyRows.errors + tallyCounts'.failed + FailedIn(0)'
  BY <1>1, <1>2
<1> QED
  BY <1>1, <1>3, ErrorsMove

(* Who is started and who is busy.                                          *)
LEMMA CountsOf == /\ IsFiniteSet(Started) /\ IsFiniteSet(Busy) /\ Cardinality(Started) \in Nat /\ Cardinality(Busy) \in Nat
<1>1. Started \subseteq TallyElement /\ Busy \subseteq TallyElement
  BY DEF Started, Busy
<1> QED
  BY <1>1, ElementsAreFinite, FS_Subset, FS_CardinalityType

LEMMA MastersStay ==
    ASSUME MastersAreCounted, tallyAsked' = tallyAsked, SameCallbacks, tallyEnd' # "ended" => tallyEnd # "ended",
           tallyCounts' = tallyCounts
    PROVE  MastersAreCounted'
<1>1. Started' = Started /\ Busy' = Busy
  BY DEF SameCallbacks, Started, Busy, Running
<1> QED
  BY <1>1 DEF MastersAreCounted

LEMMA BehindStays ==
    ASSUME TallyTypes, StartedAreBehind, NoForeignEntries, SameCallbacks, tallyAsked' = tallyAsked,
           parser'.at \in {parser.at, parser.at + 1}
    PROVE  StartedAreBehind' /\ NoForeignEntries'
<1>1. Started' = Started /\ \A k \in Started : callback'[k].entries = callback[k].entries
  BY DEF SameCallbacks, Started
<1>2. parser.at \in Nat
  BY DEF TallyTypes, ParserIs
<1>3. StartedAreBehind'
  BY <1>1, <1>2 DEF StartedAreBehind
<1>4. NoForeignEntries'
  BY <1>1 DEF NoForeignEntries, Element
<1> QED
  BY <1>3, <1>4

(* A callback that goes on or ends.                                         *)
Goes(k, step) ==
    /\ callback'[k].step = step /\ callback'[k].entries = callback[k].entries
    /\ \A j \in TallyElement : j # k => callback'[j] = callback[j]

LEMMA BehindGoes ==
    ASSUME TallyTypes, StartedAreBehind, NoForeignEntries, tallyAsked' = tallyAsked, NEW k \in TallyElement, NEW step,
           Goes(k, step), callback[k].step # "none", parser'.at = parser.at
    PROVE  StartedAreBehind' /\ NoForeignEntries'
<1>1. Started' \subseteq Started /\ \A j \in Started' : callback'[j].entries = callback[j].entries
  BY DEF Goes, Started
<1>2. StartedAreBehind'
  BY <1>1 DEF StartedAreBehind
<1>3. NoForeignEntries'
  BY <1>1 DEF NoForeignEntries, Element
<1> QED
  BY <1>2, <1>3

LEMMA MastersGo ==
    ASSUME TallyTypes, TallyTypes', MastersAreCounted, tallyAsked' = tallyAsked, tallyEnd' = tallyEnd, NEW k \in TallyElement, NEW step,
           Goes(k, step), Running(k), step # "none", tallyCounts'.total = tallyCounts.total,
           tallyCounts'.imported + tallyCounts'.skipped
               = tallyCounts.imported + tallyCounts.skipped + (IF step = "done" THEN 1 ELSE 0)
    PROVE  MastersAreCounted'
<1>1. Started' = Started
  BY DEF Goes, Started, Running
<1>2. k \in Busy /\ Busy' = IF step = "done" THEN Busy \ {k} ELSE Busy
  BY DEF Goes, Busy, Running
<1>3. Cardinality(Busy') + (IF step = "done" THEN 1 ELSE 0) = Cardinality(Busy)
  <2>1. Cardinality(Busy \ {k}) = Cardinality(Busy) - 1 /\ Cardinality(Busy) \in Nat
    BY <1>2, CountsOf, FS_RemoveElement
  <2> QED
    BY <1>2, <2>1
<1>4. /\ tallyCounts.imported \in Nat /\ tallyCounts.skipped \in Nat
      /\ tallyCounts'.imported \in Nat /\ tallyCounts'.skipped \in Nat
  BY DEF TallyTypes, CountsAre
<1>5. Cardinality(Busy) \in Nat /\ Cardinality(Busy') \in Nat
  <2>1. IsFiniteSet(Busy')
    BY <1>2, CountsOf, FS_RemoveElement
  <2> QED
    BY <2>1, CountsOf, FS_CardinalityType
<1> QED
  BY <1>1, <1>3, <1>4, <1>5 DEF MastersAreCounted

-----------------------------------------------------------------------------
(* One lemma for each kind of step.                                         *)
LEMMA TypesFit ==
    ASSUME TallyTypes, tallyAsked' = tallyAsked, ParserIs', CallbacksAre', RowsAre', CountsAre', CommitsAre',
           tallyEnd' = "last" => tallyEnd = "last" \/ tallyAsked.phase = "vouchers"
    PROVE  TallyTypes'
  BY DEF TallyTypes

LEMMA QuietStep ==
    ASSUME TallyInv, tallyAsked' = tallyAsked, ParserIs', parser'.at \in {parser.at, parser.at + 1}, ListIsOwn',
           CallbacksAre', SameCallbacks, RowsAre', CommitsAre', CountsAre',
           \A j \in CommitterIds : FailedIn(j)' = FailedIn(j),
           NEW d \in Nat, tallyRows'.errors = tallyRows.errors + d, tallyCounts'.failed = tallyCounts.failed + d,
           (d = 0 /\ tallyCounts' = tallyCounts) \/ tallyAsked.phase = "vouchers",
           tallyEnd' = "last" => tallyEnd = "last" \/ tallyAsked.phase = "vouchers",
           tallyEnd' # "ended" => tallyEnd # "ended"
    PROVE  TallyInv'
<1> USE DEF TallyInv, ImportAddsUp
<1>1. TallyTypes'
  BY TypesFit
<1>2. StartedAreBehind' /\ NoForeignEntries'
  BY BehindStays
<1>3. MastersAreCounted'
  <2>1. CASE tallyAsked.phase = "vouchers"
    BY <2>1 DEF MastersAreCounted
  <2>2. CASE tallyCounts' = tallyCounts
    BY <2>2, MastersStay
  <2> QED
    BY <2>1, <2>2
<1>4. ErrorsAreCounted'
  BY <1>1, ErrorsStay
<1> QED
  BY <1>1, <1>2, <1>3, <1>4

LEMMA SameFailed ==
    ASSUME commits' = commits, SameCallbacks, tallyEnd' = tallyEnd \/ {tallyEnd, tallyEnd'} \cap {"last"} = {}
    PROVE  \A j \in CommitterIds : FailedIn(j)' = FailedIn(j)
<1>1. ASSUME NEW j \in CommitterIds PROVE Committing(j)' = Committing(j)
  BY DEF Committing, SameCallbacks, CommitterIds
<1> QED
  BY <1>1 DEF FailedIn

LEMMA SameIsSame == ASSUME callback' = callback PROVE SameCallbacks
  BY DEF SameCallbacks

LEMMA ZeroMore == ASSUME TallyTypes, tallyRows'.errors = tallyRows.errors, tallyCounts' = tallyCounts
    PROVE tallyRows'.errors = tallyRows.errors + 0 /\ tallyCounts'.failed = tallyCounts.failed + 0
  BY DEF TallyTypes, RowsAre, CountsAre

LEMMA OpenKeeps == ASSUME TallyInv, NEW k \in TallyElement, OpenTag(k) PROVE TallyInv'
<1> USE DEF TallyInv
<1>1. /\ UNCHANGED <<tallyAsked, callback, batches, commits, tallyRows, tallyCounts, tallyEnd>>
      /\ k = parser.at
  BY DEF OpenTag, Event
<1>2. PICK m, i, c, e :
        /\ m = (parser.masters /\ ~IsVoucher(k)) /\ e = (IF IsVoucher(k) THEN 0 ELSE parser.entries)
        /\ i = (IF parser.masters \/ IsVoucher(k) THEN parser.inside \cup {Element(k).kind} ELSE parser.inside)
        /\ c = (IF parser.masters \/ IsVoucher(k) THEN parser.current \cup {Element(k).kind} ELSE parser.current)
  OBVIOUS
<1>3. parser' = [at |-> k, open |-> TRUE, masters |-> m, inside |-> i, current |-> c, read |-> 0, entries |-> e,
                 rejected |-> parser.rejected]
  BY <1>1, <1>2 DEF TallyTypes, ParserIs, OpenTag, IsVoucher
<1>4. k \in Nat /\ e \in Nat /\ 0 \in Nat
  BY <1>1, <1>2 DEF TallyTypes, ParserIs
<1>5. ParserIs' /\ parser'.at = k /\ parser'.entries = e /\ parser'.read = 0
  BY <1>3, <1>4, ParserFits
<1>6. ListIsOwn'
  BY <1>1, <1>2, <1>5 DEF ListIsOwn, IsVoucher, Element
<1>7. CallbacksAre' /\ RowsAre' /\ CountsAre' /\ CommitsAre' /\ tallyRows'.errors = tallyRows.errors
  BY <1>1, IssuedDoes, RowsDo, CountsStay, CommitsStay DEF TallyTypes
<1> QED
  BY <1>1, <1>4, <1>5, <1>6, <1>7, QuietStep, SameFailed, SameIsSame, ZeroMore

LEMMA EntryKeeps == ASSUME TallyInv, NEW k \in TallyElement, EntryTag(k) PROVE TallyInv'
<1> USE DEF TallyInv
<1>1. /\ UNCHANGED <<tallyAsked, callback, batches, commits, tallyRows, tallyCounts, tallyEnd>>
      /\ k = parser.at /\ parser.open
  BY DEF EntryTag, Event
<1>2. parser' = [at |-> k, open |-> parser.open, masters |-> parser.masters, inside |-> parser.inside,
                 current |-> parser.current, read |-> parser.read + 1, entries |-> parser.entries + 1,
                 rejected |-> parser.rejected]
  BY <1>1 DEF TallyTypes, ParserIs, EntryTag
<1>3. k \in Nat /\ parser.read + 1 \in Nat /\ parser.entries + 1 \in Nat /\ parser.read \in Nat /\ parser.entries \in Nat
  BY <1>1 DEF TallyTypes, ParserIs
<1>4. ParserIs' /\ parser'.at = k /\ parser'.entries = parser.entries + 1 /\ parser'.read = parser.read + 1
  BY <1>2, <1>3, ParserFits
<1>5. ListIsOwn'
  BY <1>1, <1>3, <1>4 DEF ListIsOwn, IsVoucher, Element
<1>6. CallbacksAre' /\ RowsAre' /\ CountsAre' /\ CommitsAre' /\ tallyRows'.errors = tallyRows.errors
  BY <1>1, IssuedDoes, RowsDo, CountsStay, CommitsStay DEF TallyTypes
<1> QED
  BY <1>1, <1>3, <1>4, <1>5, <1>6, QuietStep, SameFailed, SameIsSame, ZeroMore

LEMMA FatalKeeps == ASSUME TallyInv, NEW k \in TallyElement, FatalError(k) PROVE TallyInv'
<1> USE DEF TallyInv
<1>1. /\ UNCHANGED <<tallyAsked, batches, commits, tallyRows, tallyCounts, tallyEnd>>
      /\ k = parser.at /\ (Issued \/ callback' = callback)
  BY DEF FatalError, Event
<1>2. parser' = [at |-> k + 1, open |-> FALSE, masters |-> parser.masters, inside |-> parser.inside,
                 current |-> parser.current, read |-> parser.read, entries |-> parser.entries, rejected |-> TRUE]
  BY <1>1 DEF TallyTypes, ParserIs, FatalError
<1>3. k \in Nat /\ k + 1 \in Nat /\ parser.read \in Nat /\ parser.entries \in Nat
  BY <1>1 DEF TallyTypes, ParserIs
<1>4. ParserIs' /\ parser'.at = k + 1 /\ parser'.open = FALSE
  BY <1>2, <1>3, ParserFits
<1>5. ListIsOwn'
  BY <1>4 DEF ListIsOwn
<1>6. CallbacksAre' /\ RowsAre' /\ CountsAre' /\ CommitsAre' /\ tallyRows'.errors = tallyRows.errors /\ SameCallbacks
  BY <1>1, IssuedDoes, RowsDo, CountsStay, CommitsStay DEF TallyTypes, SameCallbacks
<1> QED
  BY <1>1, <1>3, <1>4, <1>5, <1>6, QuietStep, SameFailed, ZeroMore

LEMMA CloseKeeps == ASSUME TallyInv, NEW k \in TallyElement, CloseTag(k) PROVE TallyInv'
<1> USE DEF TallyInv
<1>1. /\ UNCHANGED <<tallyAsked, batches, commits, tallyRows, tallyEnd>>
      /\ k = parser.at /\ parser.open /\ parser.read = Element(k).entries /\ tallyEnd = "reading"
  BY DEF CloseTag, Event
<1>2. PICK i : i = IF Whole(k) THEN parser.inside \ {Element(k).kind} ELSE parser.inside
  OBVIOUS
<1>3. parser' = [at |-> k + 1, open |-> FALSE, masters |-> parser.masters, inside |-> i,
                 current |-> parser.current, read |-> parser.read, entries |-> parser.entries,
                 rejected |-> parser.rejected]
  BY <1>1, <1>2 DEF TallyTypes, ParserIs, CloseTag
<1>4. k \in Nat /\ k + 1 \in Nat /\ parser.read \in Nat /\ parser.entries \in Nat
  BY <1>1 DEF TallyTypes, ParserIs
<1>5. ParserIs' /\ parser'.at = k + 1 /\ parser'.open = FALSE
  BY <1>3, <1>4, ParserFits
<1>6. ListIsOwn'
  BY <1>5 DEF ListIsOwn
<1>7. RowsAre' /\ CommitsAre' /\ tallyRows'.errors = tallyRows.errors
  BY <1>1, RowsDo, CommitsStay DEF TallyTypes
<1>8. CASE ~Handled(k)
  <2>1. callback' = callback /\ tallyCounts' = tallyCounts
    BY <1>8 DEF CloseTag
  <2>2. CallbacksAre' /\ CountsAre'
    BY <1>1, <2>1, IssuedDoes, CountsStay DEF TallyTypes
  <2> QED
    BY <1>1, <1>4, <1>5, <1>6, <1>7, <2>1, <2>2, QuietStep, SameFailed, SameIsSame, ZeroMore
<1>9. CASE Handled(k)
  <2>1. PICK m : m = [step |-> FirstStep(k), entries |-> parser.entries, ahead |-> FALSE]
    OBVIOUS
  <2>2. callback' = [callback EXCEPT ![k] = m] /\ tallyCounts' = Plus(tallyCounts, "total")
    BY <1>9, <2>1 DEF CloseTag
  <2>3. IsCallback(m) /\ m.step = FirstStep(k) /\ m.entries = parser.entries
    BY <1>4, <2>1 DEF IsCallback
  <2>4. FirstStep(k) \in StepsIn(tallyAsked.phase) /\ FirstStep(k) \notin {"none", "done", "commit"}
    BY <1>9, PhaseIs DEF TallyTypes, FirstStep, Handled, StepsIn, MasterSteps, VoucherSteps
  <2>5. callback'[k] = m /\ (\A j \in TallyElement : j # k => callback'[j] = callback[j]) /\ callback' = [j \in TallyElement |-> callback'[j]]
    BY <2>2 DEF TallyTypes, CallbacksAre
  <2>6. CallbacksAre'
    BY <1>1, <2>3, <2>4, <2>5 DEF TallyTypes, CallbacksAre
  <2>7. /\ CountsAre' /\ tallyCounts'.total = tallyCounts.total + 1 /\ tallyCounts'.failed = tallyCounts.failed
        /\ tallyCounts'.imported = tallyCounts.imported /\ tallyCounts'.skipped = tallyCounts.skipped
    <3>1. CountsAre /\ tallyCounts.failed \in Nat /\ tallyCounts.imported \in Nat /\ tallyCounts.skipped \in Nat
      BY DEF TallyTypes, CountsAre
    <3> QED
      BY <2>2, <3>1, PlusDoes
  <2>8. TallyTypes'
    BY <1>1, <1>5, <1>7, <2>6, <2>7, TypesFit
  <2>9. k \notin Started /\ Started' = Started \cup {k} /\ k \notin Busy /\ Busy' = Busy \cup {k}
    <3>1. k \notin Started
      BY <1>1, <1>4 DEF StartedAreBehind
    <3> QED
      BY <2>3, <2>4, <2>5, <3>1 DEF Started, Busy, Running
  <2>10. StartedAreBehind'
    BY <1>1, <1>4, <1>5, <2>9 DEF StartedAreBehind
  <2>11. NoForeignEntries'
    <3>1. ASSUME NEW j \in Started', Element(j).kind = "VOUCHER" PROVE callback'[j].entries <= Element(j).entries
      <4>1. CASE j = k
        BY <1>1, <2>3, <2>5, <3>1, <4>1 DEF ListIsOwn, IsVoucher
      <4>2. CASE j # k
        <5>1. j \in Started /\ callback'[j] = callback[j]
          BY <2>5, <2>9, <3>1, <4>2 DEF Started
        <5> QED
          BY <3>1, <5>1 DEF ImportAddsUp, NoForeignEntries
      <4> QED
        BY <4>1, <4>2
    <3> QED
      BY <1>1, <3>1 DEF NoForeignEntries, Element
  <2>12. MastersAreCounted'
    <3>1. Cardinality(Started') = Cardinality(Started) + 1 /\ Cardinality(Busy') = Cardinality(Busy) + 1
      BY <2>9, CountsOf, FS_AddElement
    <3>2. /\ tallyCounts.total \in Nat /\ tallyCounts.imported \in Nat /\ tallyCounts.skipped \in Nat
          /\ Cardinality(Started) \in Nat /\ Cardinality(Busy) \in Nat
      BY CountsOf DEF TallyTypes, CountsAre
    <3>3. tallyAsked.phase = "masters" =>
             /\ tallyCounts.total = Cardinality(Started)
             /\ tallyCounts.imported + tallyCounts.skipped + Cardinality(Busy) = tallyCounts.total
      BY <1>1 DEF ImportAddsUp, MastersAreCounted
    <3>4. tallyAsked.phase = "masters" =>
             /\ tallyCounts'.total = Cardinality(Started')
             /\ tallyCounts'.imported + tallyCounts'.skipped + Cardinality(Busy') = tallyCounts'.total
      BY <2>7, <3>1, <3>2, <3>3
    <3> QED
      BY <1>1, <3>4 DEF MastersAreCounted
  <2>13. ErrorsAreCounted'
    <3>1. ASSUME NEW j \in CommitterIds PROVE FailedIn(j)' = FailedIn(j)
      <4>1. CASE j # k
        BY <1>1, <2>5, <4>1 DEF FailedIn, Committing, CommitterIds
      <4>2. CASE j = k
        <5>1. k # 0 /\ callback[k].step # "commit" /\ callback'[k].step # "commit"
          BY <2>3, <2>4, <2>5, <2>9, ElementsAreFinite DEF Started
        <5> QED
          BY <4>2, <5>1 DEF FailedIn, Committing
      <4> QED
        BY <4>1, <4>2
    <3>2. tallyRows'.errors = tallyRows.errors + 0 /\ tallyCounts'.failed = tallyCounts.failed + 0
      BY <1>7, <2>7 DEF TallyTypes, RowsAre, CountsAre
    <3> QED
      BY <2>8, <3>1, <3>2, ErrorsStay DEF ImportAddsUp
  <2> QED
    BY <1>6, <2>8, <2>10, <2>11, <2>12, <2>13 DEF ImportAddsUp
<1> QED
  BY <1>8, <1>9

-----------------------------------------------------------------------------

LEMMA ErrorKeeps == ASSUME TallyInv, NEW k \in TallyElement, XmlError(k) PROVE TallyInv'
<1> USE DEF TallyInv
<1>1. UNCHANGED <<tallyAsked, batches, commits>> /\ k = parser.at /\ tallyEnd = "reading"
  BY DEF XmlError, Event
<1>2. parser' = [at |-> k + 1, open |-> FALSE, masters |-> parser.masters, inside |-> parser.inside \ {"VOUCHER"},
                 current |-> parser.current \ {"VOUCHER"}, read |-> parser.read, entries |-> 0,
                 rejected |-> parser.rejected]
  BY <1>1 DEF TallyTypes, ParserIs, XmlError
<1>3. k \in Nat /\ k + 1 \in Nat /\ parser.read \in Nat /\ 0 \in Nat /\ 1 \in Nat
  BY <1>1 DEF TallyTypes, ParserIs
<1>4. PICK i, c : i = parser.inside \ {"VOUCHER"} /\ c = parser.current \ {"VOUCHER"}
  OBVIOUS
<1>5. ParserIs' /\ parser'.at = k + 1 /\ parser'.open = FALSE
  BY <1>2, <1>3, <1>4, ParserFits
<1>6. ListIsOwn' /\ CommitsAre'
  BY <1>1, <1>5, CommitsStay DEF TallyTypes, ListIsOwn
<1>7. CASE tallyAsked.phase = "vouchers"
  <2>1. /\ tallyCounts' = Plus(tallyCounts, "failed") /\ tallyRows' = [tallyRows EXCEPT !.errors = tallyRows.errors + 1]
        /\ callback' = callback /\ tallyEnd' = tallyEnd
    BY <1>7 DEF XmlError
  <2>2. CountsAre' /\ tallyCounts'.failed = tallyCounts.failed + 1
    BY <2>1, PlusDoes DEF TallyTypes
  <2>3. CallbacksAre' /\ RowsAre' /\ tallyRows'.errors = tallyRows.errors + 1
    BY <1>1, <2>1, IssuedDoes, ErrorLogged DEF TallyTypes
  <2> QED
    BY <1>1, <1>3, <1>5, <1>6, <1>7, <2>1, <2>2, <2>3, QuietStep, SameFailed, SameIsSame
<1>8. CASE tallyAsked.phase # "vouchers"
  <2>1. /\ callback' = [j \in TallyElement |-> [callback[j] EXCEPT !.step = "none", !.ahead = FALSE]]
        /\ tallyRows' = Undone /\ tallyEnd' = "ended" /\ tallyCounts' = tallyCounts
    BY <1>8 DEF XmlError
  <2>2. RowsAre' /\ CountsAre' /\ tallyRows'.errors = tallyRows.errors
    BY <2>1, RowsDo, CountsStay DEF TallyTypes
  <2>3. ASSUME NEW j \in TallyElement
        PROVE  IsCallback(callback'[j]) /\ callback'[j].step = "none" /\ callback[j].step # "commit"
    <3>1. IsCallback(callback[j]) /\ callback[j].step \in StepsIn(tallyAsked.phase)
      BY DEF TallyTypes, CallbacksAre
    <3>2. callback'[j] = [step |-> "none", entries |-> callback[j].entries, ahead |-> FALSE]
      BY <2>1, <3>1 DEF IsCallback
    <3>3. callback[j].step # "commit"
      BY <1>8, <3>1, PhaseIs DEF TallyTypes, StepsIn, MasterSteps
    <3> QED
      BY <3>1, <3>2, <3>3 DEF IsCallback
  <2>4. callback' = [j \in TallyElement |-> callback'[j]]
    <3>1. PICK f : f = [j \in TallyElement |-> [callback[j] EXCEPT !.step = "none", !.ahead = FALSE]]
      OBVIOUS
    <3>2. f = [j \in TallyElement |-> f[j]]
      BY <3>1
    <3> QED
      BY <2>1, <3>1, <3>2
  <2>5. CallbacksAre'
    BY <1>1, <2>3, <2>4 DEF CallbacksAre, StepsIn
  <2>6. TallyTypes'
    BY <1>1, <1>5, <1>6, <2>1, <2>2, <2>5, TypesFit
  <2>7. StartedAreBehind' /\ NoForeignEntries' /\ MastersAreCounted'
    BY <2>1, <2>3 DEF StartedAreBehind, NoForeignEntries, MastersAreCounted, Started
  <2>8. ErrorsAreCounted'
    <3>1. ASSUME NEW j \in CommitterIds PROVE FailedIn(j)' = FailedIn(j)
      BY <1>1, <2>1, <2>3 DEF FailedIn, Committing, CommitterIds
    <3> QED
      BY <1>3, <2>1, <2>2, <2>6, <3>1, ErrorsStay, ZeroMore DEF ImportAddsUp
  <2> QED
    BY <1>6, <2>6, <2>7, <2>8 DEF ImportAddsUp
<1> QED
  BY <1>7, <1>8

LEMMA StreamKeeps == ASSUME TallyInv, EndOfStream PROVE TallyInv'
<1> USE DEF TallyInv
<1>1. /\ UNCHANGED <<tallyAsked, parser, batches, tallyRows, tallyCounts>> /\ tallyEnd = "reading"
      /\ (Issued \/ callback' = callback)
  BY DEF EndOfStream
<1>2. CallbacksAre' /\ SameCallbacks /\ RowsAre' /\ CountsAre' /\ tallyRows'.errors = tallyRows.errors
  BY <1>1, IssuedDoes, RowsDo, CountsStay DEF TallyTypes, SameCallbacks
<1>3. ParserIs' /\ ListIsOwn' /\ parser'.at = parser.at /\ 0 \in Nat
  BY <1>1, ParserStays DEF TallyTypes
<1>4. CommitsAre' /\ (\A j \in CommitterIds : FailedIn(j)' = FailedIn(j)) /\ tallyEnd' # "ended"
      /\ (tallyEnd' = "last" => tallyAsked.phase = "vouchers")
  <2>1. CASE tallyEnd' = "report" /\ commits' = commits
    BY <1>1, <1>2, <2>1, CommitsStay, SameFailed DEF TallyTypes
  <2>2. CASE tallyEnd' = "last" /\ commits' = [commits EXCEPT ![0] = [Idle EXCEPT !.batch = Len(batches), !.at = 1]]
             /\ tallyAsked.phase = "vouchers"
    <3>1. PICK n, m : n = Len(batches) /\ m = [Idle EXCEPT !.batch = n, !.at = 1]
      OBVIOUS
    <3>2. m = [batch |-> n, at |-> 1, header |-> 0, imported |-> 0, failed |-> 0, skipped |-> 0]
      BY <3>1 DEF Idle
    <3>3. IsCommit(m) /\ m.failed = 0
      BY <3>2 DEF IsCommit
    <3>4. 0 \in CommitterIds /\ commits' = [commits EXCEPT ![0] = m]
      BY <2>2, <3>1 DEF CommitterIds
    <3>5. CommitsAre' /\ commits'[0] = m /\ \A i \in CommitterIds : i # 0 => commits'[i] = commits[i]
      BY <3>3, <3>4, CommitDoes
    <3>6. ASSUME NEW j \in CommitterIds PROVE FailedIn(j)' = FailedIn(j)
      <4>1. CASE j = 0
        <5>1. FailedIn(0) = 0
          BY <1>1 DEF FailedIn, Committing
        <5>2. FailedIn(0)' = commits'[0].failed
          BY <2>2 DEF FailedIn, Committing
        <5> QED
          BY <3>3, <3>5, <4>1, <5>1, <5>2
      <4>2. CASE j # 0
        BY <1>2, <3>5, <4>2 DEF FailedIn, Committing, CommitterIds, SameCallbacks
      <4> QED
        BY <4>1, <4>2
    <3> QED
      BY <2>2, <3>5, <3>6
  <2> QED
    BY <2>1, <2>2 DEF EndOfStream
<1> QED
  BY <1>1, <1>2, <1>3, <1>4, QuietStep, ZeroMore

LEMMA EndsKeep == ASSUME TallyInv, onComplete \/ Commit \/ Rollback PROVE TallyInv'
<1> USE DEF TallyInv
<1>1. UNCHANGED <<tallyAsked, batches, tallyCounts, commits>> /\ (Issued \/ callback' = callback)
  BY DEF onComplete, Commit, Rollback
<1>2. CallbacksAre' /\ SameCallbacks /\ CountsAre' /\ CommitsAre'
  BY <1>1, IssuedDoes, CountsStay, CommitsStay DEF TallyTypes, SameCallbacks
<1>3. RowsAre' /\ tallyRows'.errors = tallyRows.errors
  <2>1. tallyRows' = tallyRows \/ tallyRows' = Undone \/ \E rows : tallyRows' = [Undone EXCEPT !.rows = rows]
    BY DEF onComplete, Commit, Rollback
  <2> QED
    BY <2>1, RowsDo DEF TallyTypes
<1>4. tallyEnd' = tallyEnd \/ (tallyEnd \notin {"last", "ended"} /\ tallyEnd' \notin {"last", "ended"})
  BY DEF onComplete, Commit, Rollback
<1>5. ParserIs' /\ ListIsOwn' /\ parser'.at = parser.at /\ 0 \in Nat
  <2>1. CASE parser' = parser
    BY <1>1, <2>1, ParserStays DEF TallyTypes
  <2>2. CASE onComplete
    <3>1. PICK x : x = (parser.rejected \/ Aborted)
      OBVIOUS
    <3>2. parser' = [at |-> parser.at, open |-> parser.open, masters |-> parser.masters, inside |-> parser.inside,
                     current |-> parser.current, read |-> parser.read, entries |-> parser.entries, rejected |-> x]
      BY <2>2, <3>1 DEF onComplete, TallyTypes, ParserIs
    <3>3. parser.at \in Nat /\ parser.read \in Nat /\ parser.entries \in Nat
      BY DEF TallyTypes, ParserIs
    <3>4. ParserIs' /\ parser'.at = parser.at /\ parser'.open = parser.open /\ parser'.read = parser.read
          /\ parser'.entries = parser.entries
      BY <3>2, <3>3, ParserFits
    <3> QED
      BY <1>1, <3>4, ListStays
  <2> QED
    BY <2>1, <2>2 DEF Commit, Rollback
<1>6. \A j \in CommitterIds : FailedIn(j)' = FailedIn(j)
  BY <1>1, <1>2, <1>4, SameFailed
<1> QED
  BY <1>1, <1>2, <1>3, <1>4, <1>5, <1>6, QuietStep, ZeroMore

MasterStep(k) == FindMapping(k) \/ FindAccount(k) \/ CreateAccount(k) \/ insertMapping(k)

LEMMA MasterKeeps == ASSUME TallyInv, NEW k \in TallyElement, MasterStep(k) PROVE TallyInv'
<1> USE DEF TallyInv
<1>1. UNCHANGED <<tallyAsked, batches, commits, tallyEnd>>
  BY DEF MasterStep, FindMapping, FindAccount, CreateAccount, insertMapping
<1>2. callback[k].step \in MasterSteps
  BY DEF MasterStep, FindMapping, FindAccount, CreateAccount, insertMapping, MasterSteps
<1>3. tallyAsked.phase = "masters" /\ callback[k].step \notin {"none", "done", "commit"}
  <2>1. callback[k].step \in StepsIn(tallyAsked.phase)
    BY DEF TallyTypes, CallbacksAre
  <2> QED
    BY <1>2, <2>1, PhaseIs DEF TallyTypes, StepsIn, MasterSteps, VoucherSteps
<1>4. \/ \E step \in MasterSteps : CallTo(k, step) /\ parser' = parser /\ tallyCounts' = tallyCounts
      \/ CallbackEnds(k) /\ \E what \in {"imported", "skipped"} : tallyCounts' = Plus(tallyCounts, what)
  BY DEF MasterStep, FindMapping, FindAccount, CreateAccount, insertMapping, Skip, MasterSteps
<1>5. RowsAre' /\ tallyRows'.errors = tallyRows.errors
  <2>1. tallyRows' = tallyRows \/ tallyRows' = Broken \/ \E rows : tallyRows' = Written(rows)
    BY DEF MasterStep, FindMapping, FindAccount, CreateAccount, insertMapping
  <2> QED
    BY <2>1, RowsDo DEF TallyTypes
<1>6. PICK step : /\ CallTo(k, step) /\ step \in StepsIn(tallyAsked.phase) /\ step \notin {"none", "commit"}
                  /\ ParserIs' /\ ListIsOwn' /\ parser'.at = parser.at /\ CountsAre'
                  /\ tallyCounts'.total = tallyCounts.total /\ tallyCounts'.failed = tallyCounts.failed
                  /\ tallyCounts'.imported + tallyCounts'.skipped
                       = tallyCounts.imported + tallyCounts.skipped + (IF step = "done" THEN 1 ELSE 0)
  <2>0. /\ CountsAre /\ tallyCounts.total \in Nat /\ tallyCounts.failed \in Nat
        /\ tallyCounts.imported \in Nat /\ tallyCounts.skipped \in Nat
    BY DEF TallyTypes, CountsAre
  <2>1. ASSUME NEW step \in MasterSteps, CallTo(k, step), parser' = parser, tallyCounts' = tallyCounts
        PROVE  /\ step \in StepsIn(tallyAsked.phase) /\ step \notin {"none", "commit", "done"}
               /\ ParserIs' /\ ListIsOwn' /\ parser'.at = parser.at /\ CountsAre'
    BY <1>1, <1>3, <2>1, ParserStays, CountsStay DEF TallyTypes, StepsIn, MasterSteps
  <2>2. ASSUME CallbackEnds(k), NEW what \in {"imported", "skipped"}, tallyCounts' = Plus(tallyCounts, what)
        PROVE  /\ CallTo(k, "done") /\ "done" \in StepsIn(tallyAsked.phase)
               /\ ParserIs' /\ ListIsOwn' /\ parser'.at = parser.at /\ CountsAre'
               /\ tallyCounts'.total = tallyCounts.total /\ tallyCounts'.failed = tallyCounts.failed
               /\ tallyCounts'.imported + tallyCounts'.skipped = tallyCounts.imported + tallyCounts.skipped + 1
    <3>1. CallTo(k, "done") /\ ParserIs' /\ ListIsOwn' /\ parser'.at = parser.at
      BY <1>1, <2>2, EndDoes, ListStays
    <3>2. /\ CountsAre' /\ tallyCounts'.total = tallyCounts.total + 0 /\ tallyCounts'.failed = tallyCounts.failed + 0
          /\ tallyCounts'.imported = tallyCounts.imported + (IF what = "imported" THEN 1 ELSE 0)
          /\ tallyCounts'.skipped = tallyCounts.skipped + (IF what = "skipped" THEN 1 ELSE 0)
      BY <2>0, <2>2, PlusDoes
    <3> QED
      BY <2>0, <3>1, <3>2 DEF StepsIn
  <2>3. CASE \E step \in MasterSteps : CallTo(k, step) /\ parser' = parser /\ tallyCounts' = tallyCounts
    <3>1. PICK step \in MasterSteps : CallTo(k, step) /\ parser' = parser /\ tallyCounts' = tallyCounts
      BY <2>3
    <3> QED
      BY <2>0, <2>1, <3>1
  <2>4. CASE CallbackEnds(k) /\ \E what \in {"imported", "skipped"} : tallyCounts' = Plus(tallyCounts, what)
    BY <2>2, <2>4
  <2> QED
    BY <1>4, <2>3, <2>4
<1>7. CallbacksAre' /\ Goes(k, step) /\ Running(k)
  BY <1>1, <1>3, <1>6, CallDoes DEF Goes, Running
<1>8. TallyTypes'
  BY <1>1, <1>5, <1>6, <1>7, CommitsStay, TypesFit DEF TallyTypes
<1>9. StartedAreBehind' /\ NoForeignEntries'
  BY <1>1, <1>3, <1>6, <1>7, BehindGoes DEF ImportAddsUp
<1>10. MastersAreCounted'
  BY <1>1, <1>6, <1>7, <1>8, MastersGo DEF ImportAddsUp
<1>11. ErrorsAreCounted'
  <2>1. ASSUME NEW j \in CommitterIds PROVE FailedIn(j)' = FailedIn(j)
    BY <1>1, <1>3, <1>6, <1>7 DEF FailedIn, Committing, CommitterIds, Goes
  <2>2. tallyRows'.errors = tallyRows.errors + 0 /\ tallyCounts'.failed = tallyCounts.failed + 0 /\ 0 \in Nat
    BY <1>5, <1>6 DEF TallyTypes, RowsAre, CountsAre
  <2> QED
    BY <1>8, <2>1, <2>2, ErrorsStay DEF ImportAddsUp
<1> QED
  BY <1>6, <1>8, <1>9, <1>10, <1>11 DEF ImportAddsUp

(* The steps of importVouchers only.                                        *)
LEMMA InVouchers ==
    ASSUME TallyTypes
    PROVE  /\ \A k \in TallyElement : callback[k].step \in VoucherSteps => tallyAsked.phase = "vouchers"
           /\ \A j \in CommitterIds : Committing(j) => tallyAsked.phase = "vouchers"
<1>1. ASSUME NEW k \in TallyElement, callback[k].step \in VoucherSteps PROVE tallyAsked.phase = "vouchers"
  <2>1. callback[k].step \in StepsIn(tallyAsked.phase)
    BY DEF TallyTypes, CallbacksAre
  <2> QED
    BY <1>1, <2>1, PhaseIs DEF TallyTypes, StepsIn, MasterSteps, VoucherSteps
<1>2. ASSUME NEW j \in CommitterIds, Committing(j) PROVE tallyAsked.phase = "vouchers"
  BY <1>1, <1>2 DEF Committing, CommitterIds, TallyTypes, VoucherSteps
<1> QED
  BY <1>1, <1>2

LEMMA VoucherInv ==
    ASSUME TallyTypes', StartedAreBehind', ListIsOwn', NoForeignEntries', ErrorsAreCounted',
           tallyAsked' = tallyAsked, tallyAsked.phase = "vouchers"
    PROVE  TallyInv'
  BY DEF TallyInv, ImportAddsUp, MastersAreCounted

LEMMA LastKeeps == ASSUME TallyInv, LastBatchEnds PROVE TallyInv'
<1> USE DEF TallyInv
<1>1. /\ UNCHANGED <<tallyAsked, parser, callback, batches, commits, tallyRows>> /\ tallyCounts' = Added(0)
      /\ Committing(0) /\ tallyEnd = "last" /\ tallyEnd' = "report" /\ 0 \in CommitterIds
  BY DEF LastBatchEnds, Committing, CommitterIds
<1>2. tallyAsked.phase = "vouchers"
  BY <1>1, InVouchers
<1>3. ParserIs' /\ ListIsOwn' /\ CallbacksAre' /\ SameCallbacks /\ RowsAre' /\ CommitsAre'
  BY <1>1, ParserStays, IssuedDoes, SameIsSame, RowsDo, CommitsStay DEF TallyTypes
<1>4. CountsAre' /\ tallyCounts'.failed = tallyCounts.failed + commits[0].failed
  BY <1>1, AddedDoes
<1>5. TallyTypes'
  BY <1>1, <1>2, <1>3, <1>4, TypesFit
<1>6. StartedAreBehind' /\ NoForeignEntries'
  BY <1>1, <1>3, BehindStays DEF ImportAddsUp
<1>7. ErrorsAreCounted'
  <2>1. FailedIn(0) = commits[0].failed /\ FailedIn(0)' = 0
    BY <1>1 DEF FailedIn, Committing
  <2>2. ASSUME NEW j \in CommitterIds, j # 0 PROVE FailedIn(j)' = FailedIn(j)
    BY <1>1, <2>2 DEF FailedIn, Committing, CommitterIds
  <2>3. tallyRows.errors \in Nat /\ tallyCounts.failed \in Nat /\ commits[0].failed \in Nat /\ tallyRows'.errors = tallyRows.errors
    BY <1>1 DEF TallyTypes, RowsAre, CountsAre, CommitsAre, IsCommit
  <2>4. tallyRows'.errors + tallyCounts.failed + FailedIn(0) = tallyRows.errors + tallyCounts'.failed + FailedIn(0)'
    BY <1>4, <2>1, <2>3
  <2> QED
    BY <1>1, <1>5, <2>2, <2>4, ErrorsMove DEF ImportAddsUp
<1> QED
  BY <1>1, <1>2, <1>3, <1>5, <1>6, <1>7, VoucherInv

LEMMA BatchKeeps == ASSUME TallyInv, NEW k \in TallyElement, BatchEnds(k) PROVE TallyInv'
<1> USE DEF TallyInv
<1>1. /\ UNCHANGED <<tallyAsked, commits, tallyRows, tallyEnd>> /\ tallyCounts' = Added(k) /\ CallbackEnds(k)
      /\ Committing(k) /\ callback[k].step = "commit" /\ k \in CommitterIds /\ k # 0
  BY DEF BatchEnds, Committing, CommitterIds
<1>2. tallyAsked.phase = "vouchers"
  BY <1>1, InVouchers
<1>3. /\ CallTo(k, "done") /\ ParserIs' /\ parser'.at = parser.at /\ parser'.open = parser.open
      /\ parser'.read = parser.read /\ parser'.entries \in {0, parser.entries}
  BY <1>1, EndDoes
<1>4. ListIsOwn' /\ RowsAre' /\ CommitsAre'
  BY <1>1, <1>3, ListStays, RowsDo, CommitsStay DEF TallyTypes
<1>5. CountsAre' /\ tallyCounts'.failed = tallyCounts.failed + commits[k].failed
  BY <1>1, AddedDoes
<1>6. CallbacksAre' /\ Goes(k, "done")
  <2>1. "done" \in StepsIn(tallyAsked.phase)
    BY DEF StepsIn
  <2> QED
    BY <1>1, <1>3, <2>1, CallDoes DEF Goes
<1>7. TallyTypes'
  BY <1>1, <1>2, <1>3, <1>4, <1>5, <1>6, TypesFit
<1>8. StartedAreBehind' /\ NoForeignEntries'
  BY <1>1, <1>3, <1>6, BehindGoes DEF ImportAddsUp
<1>9. ErrorsAreCounted'
  <2>1. FailedIn(k) = commits[k].failed /\ FailedIn(k)' = 0
    BY <1>1, <1>6 DEF FailedIn, Committing, Goes
  <2>2. ASSUME NEW j \in CommitterIds, j # k PROVE FailedIn(j)' = FailedIn(j)
    BY <1>1, <1>6, <2>2 DEF FailedIn, Committing, CommitterIds, Goes
  <2>3. tallyRows.errors \in Nat /\ tallyCounts.failed \in Nat /\ commits[k].failed \in Nat /\ tallyRows'.errors = tallyRows.errors
    BY <1>1 DEF TallyTypes, RowsAre, CountsAre, CommitsAre, IsCommit
  <2>4. tallyRows'.errors + tallyCounts.failed + FailedIn(k) = tallyRows.errors + tallyCounts'.failed + FailedIn(k)'
    BY <1>5, <2>1, <2>3
  <2> QED
    BY <1>1, <1>7, <2>2, <2>4, ErrorsMove DEF ImportAddsUp
<1> QED
  BY <1>1, <1>2, <1>4, <1>7, <1>8, <1>9, VoucherInv

LEMMA MapKeeps == ASSUME TallyInv, NEW k \in TallyElement, MapVoucher(k) PROVE TallyInv'
<1> USE DEF TallyInv
<1>1. UNCHANGED <<tallyAsked, tallyRows, tallyEnd>> /\ callback[k].step = "map" /\ k \in CommitterIds /\ k # 0
  BY ElementsAreFinite DEF MapVoucher, CommitterIds
<1>2. tallyAsked.phase = "vouchers"
  BY <1>1, InVouchers DEF VoucherSteps
<1>3. PICK last, m : last = Len(batches) /\ m = [Idle EXCEPT !.batch = last, !.at = 1]
  OBVIOUS
<1>4. m = [batch |-> last, at |-> 1, header |-> 0, imported |-> 0, failed |-> 0, skipped |-> 0]
  BY <1>3 DEF Idle
<1>5. IsCommit(m) /\ m.failed = 0
  BY <1>4 DEF IsCommit
<1>6. \/ commits' = commits /\ CallbackEnds(k) /\ (tallyCounts' = tallyCounts \/ tallyCounts' = Plus(tallyCounts, "skipped"))
      \/ commits' = [commits EXCEPT ![k] = m] /\ CallTo(k, "commit") /\ parser' = parser /\ tallyCounts' = tallyCounts
  BY <1>3 DEF MapVoucher, Skip
<1>7. RowsAre' /\ tallyRows'.errors = tallyRows.errors
  BY <1>1, RowsDo DEF TallyTypes
<1>8. CountsAre' /\ tallyCounts'.failed = tallyCounts.failed
  <2>1. CASE tallyCounts' = tallyCounts
    BY <2>1, CountsStay DEF TallyTypes
  <2>2. CASE tallyCounts' = Plus(tallyCounts, "skipped")
    <3>1. CountsAre' /\ tallyCounts'.failed = tallyCounts.failed + 0
      BY <2>2, PlusDoes DEF TallyTypes
    <3> QED
      BY <3>1 DEF TallyTypes, CountsAre
  <2> QED
    BY <1>6, <2>1, <2>2
<1>9. PICK step : /\ CallTo(k, step) /\ step \in {"done", "commit"} /\ ParserIs' /\ ListIsOwn' /\ parser'.at = parser.at
                  /\ CommitsAre' /\ (step = "commit" => commits'[k].failed = 0)
                  /\ \A j \in CommitterIds : j # k => commits'[j] = commits[j]
  <2>1. CASE commits' = commits /\ CallbackEnds(k)
    <3>1. CallTo(k, "done") /\ ParserIs' /\ ListIsOwn' /\ parser'.at = parser.at
      BY <1>1, <2>1, EndDoes, ListStays
    <3>2. CommitsAre'
      BY <2>1, CommitsStay DEF TallyTypes
    <3> QED
      BY <2>1, <3>1, <3>2
  <2>2. CASE commits' = [commits EXCEPT ![k] = m] /\ CallTo(k, "commit") /\ parser' = parser
    <3>1. CommitsAre' /\ commits'[k] = m /\ \A j \in CommitterIds : j # k => commits'[j] = commits[j]
      BY <1>1, <1>5, <2>2, CommitDoes
    <3>2. ParserIs' /\ ListIsOwn' /\ parser'.at = parser.at
      BY <1>1, <2>2, ParserStays DEF TallyTypes
    <3> QED
      BY <1>5, <2>2, <3>1, <3>2
  <2> QED
    BY <1>6, <2>1, <2>2
<1>10. CallbacksAre' /\ Goes(k, step)
  <2>1. step \in StepsIn(tallyAsked.phase)
    BY <1>2, <1>9 DEF StepsIn, VoucherSteps
  <2> QED
    BY <1>1, <1>9, <2>1, CallDoes DEF Goes
<1>11. TallyTypes'
  BY <1>1, <1>2, <1>7, <1>8, <1>9, <1>10, TypesFit
<1>12. StartedAreBehind' /\ NoForeignEntries'
  BY <1>1, <1>9, <1>10, BehindGoes DEF ImportAddsUp
<1>13. ErrorsAreCounted'
  <2>1. ASSUME NEW j \in CommitterIds PROVE FailedIn(j)' = FailedIn(j)
    <3>1. CASE j = k
      BY <1>1, <1>9, <1>10, <3>1 DEF FailedIn, Committing, Goes
    <3>2. CASE j # k
      BY <1>1, <1>9, <1>10, <3>2 DEF FailedIn, Committing, CommitterIds, Goes
    <3> QED
      BY <3>1, <3>2
  <2>2. tallyRows'.errors = tallyRows.errors + 0 /\ tallyCounts'.failed = tallyCounts.failed + 0 /\ 0 \in Nat
    BY <1>7, <1>8 DEF TallyTypes, RowsAre, CountsAre
  <2> QED
    BY <1>11, <2>1, <2>2, ErrorsStay DEF ImportAddsUp
<1> QED
  BY <1>1, <1>2, <1>9, <1>11, <1>12, <1>13, VoucherInv

LEMMA CommitKeeps == ASSUME TallyInv, NEW j \in CommitterIds, CommitHeader(j) \/ CommitLines(j) PROVE TallyInv'
<1> USE DEF TallyInv
<1>1. UNCHANGED <<tallyAsked, parser, callback, batches, tallyCounts, tallyEnd>> /\ Committing(j) /\ Committing(j)'
  BY DEF CommitHeader, CommitLines, Committing
<1>2. tallyAsked.phase = "vouchers"
  BY <1>1, InVouchers
<1>3. ParserIs' /\ ListIsOwn' /\ CallbacksAre' /\ SameCallbacks /\ CountsAre'
  BY <1>1, ParserStays, IssuedDoes, SameIsSame, CountsStay DEF TallyTypes
<1>4. IsCommit(commits[j])
  BY DEF TallyTypes, CommitsAre
<1>5. PICK m, d : /\ commits' = [commits EXCEPT ![j] = m] /\ IsCommit(m) /\ d \in {0, 1} /\ m.failed = commits[j].failed + d
                  /\ RowsAre' /\ tallyRows'.errors = tallyRows.errors + d
  <2>0. commits[j].failed \in Nat /\ tallyRows.errors \in Nat /\ RowsAre
    BY <1>4 DEF IsCommit, TallyTypes, RowsAre
  <2>1. CASE CommitHeader(j)
    <3>1. PICK n : n = Len(tallyRows.headers) + 1
      OBVIOUS
    <3>2. PICK m : m = IF tallyAsked.accounts THEN [commits[j] EXCEPT !.header = n] ELSE Handed(j, "skipped")
      OBVIOUS
    <3>3. IsCommit(m) /\ m.failed = commits[j].failed + 0
      <4>1. CASE tallyAsked.accounts
        <5>1. PICK c : c = commits[j]
          OBVIOUS
        <5>2. m = [batch |-> c.batch, at |-> c.at, header |-> n, imported |-> c.imported, failed |-> c.failed,
                   skipped |-> c.skipped]
          BY <1>4, <3>2, <4>1, <5>1 DEF IsCommit
        <5>3. c.imported \in Nat /\ c.failed \in Nat /\ c.skipped \in Nat
          BY <1>4, <5>1 DEF IsCommit
        <5> QED
          BY <5>1, <5>2, <5>3 DEF IsCommit
      <4>2. CASE ~tallyAsked.accounts
        BY <1>4, <3>2, <4>2, HandedIs
      <4> QED
        BY <4>1, <4>2
    <3>4. commits' = [commits EXCEPT ![j] = m]
      BY <2>1, <3>1, <3>2 DEF CommitHeader
    <3>5. \E headers : tallyRows' = [tallyRows EXCEPT !.headers = headers]
      BY <2>1 DEF CommitHeader
    <3>6. RowsAre' /\ tallyRows'.errors = tallyRows.errors
      BY <2>0, <3>5, RowsDo
    <3>7. tallyRows'.errors = tallyRows.errors + 0 /\ 0 \in {0, 1}
      BY <2>0, <3>6
    <3> QED
      BY <3>3, <3>4, <3>6, <3>7
  <2>2. CASE CommitLines(j)
    <3>1. PICK good \in BOOLEAN :
             /\ tallyRows' = IF good THEN [tallyRows EXCEPT !.lines = @ \cup {commits[j].header}]
                             ELSE [tallyRows EXCEPT !.errors = @ + 1]
             /\ commits' = [commits EXCEPT ![j] = Handed(j, IF good THEN "imported" ELSE "failed")]
      BY <2>2 DEF CommitLines
    <3>2. CASE good
      <4>1. commits' = [commits EXCEPT ![j] = Handed(j, "imported")] /\ \E lines : tallyRows' = [tallyRows EXCEPT !.lines = lines]
        BY <3>1, <3>2
      <4>2. IsCommit(Handed(j, "imported")) /\ Handed(j, "imported").failed = commits[j].failed + 0
        BY <1>4, HandedIs
      <4>3. RowsAre' /\ tallyRows'.errors = tallyRows.errors
        BY <2>0, <4>1, RowsDo
      <4>4. tallyRows'.errors = tallyRows.errors + 0 /\ 0 \in {0, 1}
        BY <2>0, <4>3
      <4> QED
        BY <4>1, <4>2, <4>3, <4>4
    <3>3. CASE ~good
      <4>1. /\ commits' = [commits EXCEPT ![j] = Handed(j, "failed")]
            /\ tallyRows' = [tallyRows EXCEPT !.errors = tallyRows.errors + 1]
        BY <3>1, <3>3
      <4>2. IsCommit(Handed(j, "failed")) /\ Handed(j, "failed").failed = commits[j].failed + 1
        BY <1>4, HandedIs
      <4>3. RowsAre' /\ tallyRows'.errors = tallyRows.errors + 1
        BY <2>0, <4>1, ErrorLogged
      <4> QED
        BY <4>1, <4>2, <4>3
    <3> QED
      BY <3>2, <3>3
  <2> QED
    BY <2>1, <2>2
<1>6. CommitsAre' /\ commits'[j] = m /\ \A i \in CommitterIds : i # j => commits'[i] = commits[i]
  BY <1>5, CommitDoes
<1>7. TallyTypes'
  BY <1>1, <1>2, <1>3, <1>5, <1>6, TypesFit
<1>8. StartedAreBehind' /\ NoForeignEntries'
  BY <1>1, <1>3, BehindStays DEF ImportAddsUp
<1>9. ErrorsAreCounted'
  <2>1. FailedIn(j) = commits[j].failed /\ FailedIn(j)' = m.failed
    BY <1>1, <1>6 DEF FailedIn
  <2>2. ASSUME NEW i \in CommitterIds, i # j PROVE FailedIn(i)' = FailedIn(i)
    BY <1>1, <1>6, <2>2 DEF FailedIn, Committing
  <2>3. commits[j].failed \in Nat /\ tallyRows.errors \in Nat /\ tallyCounts.failed \in Nat
    BY <1>4 DEF IsCommit, TallyTypes, RowsAre, CountsAre
  <2>4. tallyRows'.errors + tallyCounts.failed + FailedIn(j) = tallyRows.errors + tallyCounts'.failed + FailedIn(j)'
    BY <1>1, <1>5, <2>1, <2>3
  <2> QED
    BY <1>7, <2>2, <2>4, ErrorsMove DEF ImportAddsUp
<1> QED
  BY <1>1, <1>2, <1>3, <1>7, <1>8, <1>9, VoucherInv

-----------------------------------------------------------------------------
LEMMA TallyStarts == ASSUME TallyInit PROVE TallyInv
<1>1. tallyAsked \in TallySettings /\ tallyEnd = "reading"
  BY DEF TallyInit
<1>2. parser = [at |-> 1, open |-> FALSE, masters |-> TRUE, inside |-> {}, current |-> {}, read |-> 0, entries |-> 0,
                rejected |-> FALSE]
  BY DEF TallyInit
<1>3. ParserIs /\ ListIsOwn
  BY <1>2 DEF ParserIs, ListIsOwn
<1>4. callback = [k \in TallyElement |-> [step |-> "none", entries |-> 0, ahead |-> FALSE]]
  BY DEF TallyInit
<1>5. CallbacksAre /\ \A k \in TallyElement : callback[k].step = "none"
  BY <1>4 DEF CallbacksAre, IsCallback, StepsIn
<1>6. RowsAre /\ tallyRows.errors = 0
  BY DEF TallyInit, RowsAre
<1>7. CountsAre /\ tallyCounts.total = 0 /\ tallyCounts.imported = 0 /\ tallyCounts.failed = 0 /\ tallyCounts.skipped = 0
  BY DEF TallyInit, CountsAre
<1>8. commits = [j \in CommitterIds |-> Idle]
  BY DEF TallyInit, CommitterIds
<1>9. CommitsAre
  BY <1>8 DEF CommitsAre, IsCommit, Idle
<1>10. TallyTypes
  BY <1>1, <1>3, <1>5, <1>6, <1>7, <1>9 DEF TallyTypes
<1>11. Started = {} /\ Busy = {}
  BY <1>5 DEF Started, Busy, Running
<1>12. StartedAreBehind /\ NoForeignEntries
  BY <1>11 DEF StartedAreBehind, NoForeignEntries
<1>13. MastersAreCounted
  BY <1>7, <1>11, FS_EmptySet DEF MastersAreCounted
<1>14. ErrorsAreCounted
  <2>1. PICK w : w = [j \in TallyElement \cup {0} |-> FailedIn(j)]
    OBVIOUS
  <2>2. \A j \in CommitterIds : w[j] = 0
    BY <1>1, <1>5, <2>1 DEF FailedIn, Committing, CommitterIds
  <2>3. SumFunctionOnSet(w, CommitterIds) = 0
    BY <2>2, ElementsAreFinite, SumOfZeros
  <2> QED
    BY <1>6, <1>7, <2>1, <2>3 DEF ErrorsAreCounted, CommitterIds
<1> QED
  BY <1>3, <1>10, <1>12, <1>13, <1>14 DEF TallyInv, ImportAddsUp

LEMMA TallyStays == ASSUME TallyInv, UNCHANGED tallyVars PROVE TallyInv'
<1>1. UNCHANGED <<tallyAsked, parser, callback, batches, commits, tallyRows, tallyCounts, tallyEnd>>
  BY DEF tallyVars
<1>2. ParserIs' /\ ListIsOwn' /\ CallbacksAre' /\ SameCallbacks /\ RowsAre' /\ CommitsAre' /\ CountsAre'
  BY <1>1, ParserStays, IssuedDoes, SameIsSame, RowsDo, CommitsStay, CountsStay DEF TallyInv, TallyTypes
<1>3. \A j \in CommitterIds : FailedIn(j)' = FailedIn(j)
  BY <1>1, <1>2, SameFailed
<1> QED
  BY <1>1, <1>2, <1>3, QuietStep, ZeroMore DEF TallyInv

(* However the events of a Tally file and the queries of its callbacks      *)
(* interleave, for files of any length and any batch size: a voucher is     *)
(* mapped from entries of its own, every master closed is counted once, and *)
(* every error logged is counted as failed.                                 *)
THEOREM ImportsAddUp == TallySpec => []ImportAddsUp
<1>1. ASSUME TallyInv, TallyNext PROVE TallyInv'
  <2>1. ASSUME NEW k \in TallyElement,
               \/ OpenTag(k) \/ EntryTag(k) \/ CloseTag(k) \/ XmlError(k) \/ FatalError(k) \/ FindMapping(k)
               \/ FindAccount(k) \/ CreateAccount(k) \/ insertMapping(k) \/ MapVoucher(k) \/ BatchEnds(k)
        PROVE  TallyInv'
    BY <1>1, <2>1, OpenKeeps, EntryKeeps, CloseKeeps, ErrorKeeps, FatalKeeps, MasterKeeps, MapKeeps, BatchKeeps
       DEF MasterStep
  <2>2. ASSUME NEW j \in CommitterIds, CommitHeader(j) \/ CommitLines(j) PROVE TallyInv'
    BY <1>1, <2>2, CommitKeeps
  <2>3. CASE EndOfStream \/ LastBatchEnds \/ onComplete \/ Commit \/ Rollback
    BY <1>1, <2>3, StreamKeeps, LastKeeps, EndsKeep
  <2> QED
    BY <1>1, <2>1, <2>2, <2>3 DEF TallyNext, CommitterIds
<1>2. ASSUME TallyInv, [TallyNext]_tallyVars PROVE TallyInv'
  BY <1>1, <1>2, TallyStays
<1> QED
  BY <1>2, TallyStarts, PTL DEF TallySpec, TallyInv

=============================================================================

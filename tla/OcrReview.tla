----------------------------- MODULE OcrReview -----------------------------
(***************************************************************************)
(* Purchase invoices read by OCR (src/src/ocr, src/src/api/routes/          *)
(* ocr.routes.ts, src/document_ocr_schema.sql): upload, extraction, review  *)
(* and booking, for one company.  Each call is one transaction at READ      *)
(* COMMITTED: a row it writes stays locked until it ends.  A document has   *)
(* at most one extraction, so both have one number.  What Textract and the  *)
(* model read is the fields of the request; CGST and IGST stand for the     *)
(* four taxes.                                                              *)
(***************************************************************************)
EXTENDS Integers, Sequences, FiniteSetsExt, Functions, TLC

CONSTANTS
    OcrCall,        \* calls of the routes
    OcrSettings,    \* functions from some calls to their requests
    OldScans,       \* uploaded_documents at the start: a sequence
    OldExtractions, \* ocr_extraction_results at the start: a sequence
    OldVendors,     \* gst_registrations at the start: a function on GSTINs
    InputTax        \* the accounts 2115 and 2117 of the company, 0: none

NoExtraction == [review |-> "none"]
IsExtraction(e) ==
    /\ e = [review |-> e.review, fields |-> e.fields, vendor |-> e.vendor, ledger |-> e.ledger,
            overall |-> e.overall, flagged |-> e.flagged, draft |-> e.draft]
    /\ e.review \in {"PENDING_REVIEW", "FLAGGED", "AUTO_APPROVED", "AMENDED", "APPROVED", "REJECTED"}
ScanStatus == {"UPLOADED", "EXTRACTION_DONE", "DRAFT_READY", "APPROVED", "REJECTED"}
Scans == Seq([hash : STRING, status : ScanStatus])

StatusFor(review) ==
    CASE review \in {"APPROVED", "REJECTED"} -> review
      [] review \in {"AMENDED", "AUTO_APPROVED"} -> "DRAFT_READY"
      [] OTHER -> "EXTRACTION_DONE"

(* The old rows are such as the pipeline leaves them; none is booked yet.   *)
ASSUME OcrAssumption ==
    /\ OldScans \in Scans
    /\ OldExtractions \in Seq(Range(OldExtractions)) /\ DOMAIN OldExtractions = DOMAIN OldScans
    /\ \A d \in DOMAIN OldExtractions : LET e == OldExtractions[d] IN e = NoExtraction \/
          /\ IsExtraction(e) /\ e.draft = 0 /\ e.vendor \in DOMAIN OldVendors \cup {"none"}
          /\ OldScans[d].status = StatusFor(e.review)
          /\ e.review = "AUTO_APPROVED" => e.overall >= 95 /\ ~e.flagged
    /\ \A s \in OcrSettings, c \in OcrCall : c \in DOMAIN s =>
          /\ s[c].kind \in {"upload", "extract", "approve", "reject", "amend", "vendor"}
          /\ s[c].kind = "upload" => s[c].hash \in STRING

VARIABLES
    ocrAsked,       \* the requests of this behaviour
    ocrStep,        \* ocrStep[c]: "start", "read", "doc", "ext", "done" or "refused"
    ocrSeen,        \* ocrSeen[c]: the extraction call c read
    scans,          \* uploaded_documents
    extractions,    \* ocr_extraction_results
    vendors,        \* gst_registrations
    booked          \* the purchase vouchers approvals posted, in commit order

ocrTables == <<scans, extractions, vendors, booked>>
ocrVars == <<ocrAsked, ocrStep, ocrSeen, ocrTables>>

ScanRow(hash, status) == [hash |-> hash, status |-> status]

OcrInit ==
    /\ ocrAsked \in OcrSettings
    /\ ocrStep = [c \in OcrCall |-> "start"] /\ ocrSeen = [c \in OcrCall |-> NoExtraction]
    /\ scans = OldScans /\ extractions = OldExtractions /\ vendors = OldVendors /\ booked = <<>>

OcrIs(c, kind, at) == c \in DOMAIN ocrAsked /\ ocrAsked[c].kind = kind /\ ocrStep[c] = at
DocOf(c) == ocrAsked[c].doc
ExtOf(c) == IF DocOf(c) \in DOMAIN extractions THEN extractions[DocOf(c)] ELSE NoExtraction
Extracted(c) == ExtOf(c) # NoExtraction
OcrTo(c, where) == ocrStep' = [ocrStep EXCEPT ![c] = where] /\ UNCHANGED ocrAsked
OcrEnd(c, how) == OcrTo(c, how) /\ ocrSeen' = [ocrSeen EXCEPT ![c] = NoExtraction]

(* A call holds the row it wrote last, and those before it.                 *)
Holding(row, d) == {c \in DOMAIN ocrAsked : ocrStep[c] = row /\ DocOf(c) = d}
DocFree(c) == Holding("doc", DocOf(c)) \ {c} = {}
ExtFree(c) == Holding("ext", DocOf(c)) \ {c} = {}

-----------------------------------------------------------------------------
(* ON CONFLICT (tenant_id, file_hash_sha256): a missing hash never meets    *)
(* another.  Of a known document only the location changes.                 *)
Known(hash) == hash # "none" /\ \E d \in DOMAIN scans : scans[d].hash = hash
registerUpload(c) ==
    /\ OcrIs(c, "upload", "start")
    /\ IF Known(ocrAsked[c].hash)
       THEN UNCHANGED <<scans, extractions>>
       ELSE /\ scans' = Append(scans, ScanRow(ocrAsked[c].hash, "UPLOADED"))
            /\ extractions' = Append(extractions, NoExtraction)
    /\ OcrEnd(c, "done") /\ UNCHANGED <<vendors, booked>>

-----------------------------------------------------------------------------

determineReviewStatus(overall, flagged) ==
    IF flagged THEN "FLAGGED" ELSE IF overall >= 95 THEN "AUTO_APPROVED" ELSE "PENDING_REVIEW"

(* match_vendor_from_extraction: the GSTIN, of whatever company; else a     *)
(* name that resembles one, which may be any registration or none.          *)
Matches(gstin) == IF gstin \in DOMAIN vendors THEN {gstin} ELSE DOMAIN vendors \cup {"none"}

AfterPipeline(review) == IF review = "AUTO_APPROVED" THEN "DRAFT_READY" ELSE "EXTRACTION_DONE"

(* The only provider runOcr refuses.                                        *)
runOcrFails(c) == ocrAsked[c].provider = "TESSERACT"
getDocument(c) == DocOf(c) \in DOMAIN scans

(* The statuses on the way are those of the transaction: nobody sees them.  *)
StartPipeline(c) ==
    /\ OcrIs(c, "extract", "start") /\ getDocument(c) /\ DocFree(c)
    /\ IF runOcrFails(c) THEN OcrEnd(c, "refused")
       ELSE OcrTo(c, "doc") /\ UNCHANGED ocrSeen
    /\ UNCHANGED ocrTables

(* ON CONFLICT (document_id) DO UPDATE leaves draft_transaction_id alone.   *)
storeExtraction(c, review, vendor) ==
    LET r == ocrAsked[c] IN
    [review |-> review, fields |-> r.fields, vendor |-> vendor, ledger |-> r.ledger,
     overall |-> r.overall, flagged |-> r.flagged, draft |-> IF Extracted(c) THEN ExtOf(c).draft ELSE 0]
runFullPipeline(c) ==
    /\ OcrIs(c, "extract", "doc") /\ ExtFree(c)
    /\ LET r == ocrAsked[c]
           review == determineReviewStatus(r.overall, r.flagged)
       IN  /\ \E vendor \in Matches(r.fields.gstin) :
                extractions' = [extractions EXCEPT ![r.doc] = storeExtraction(c, review, vendor)]
           /\ scans' = [scans EXCEPT ![r.doc].status = AfterPipeline(review)]
    /\ OcrEnd(c, "done") /\ UNCHANGED <<vendors, booked>>

-----------------------------------------------------------------------------
Voucher == INSTANCE Vouchers WITH Chart <- <<>>

(* The voucher, as PurchaseInvoiceVoucherStrategy and the check at commit   *)
(* see it.                                                                  *)
Payload(e) ==
    [kind |-> "PURCHASE_INVOICE_VOUCHER", expense |-> e.ledger, vendor |-> vendors[e.vendor].account,
     taxable |-> e.fields.taxable, gross |-> e.fields.gross,
     inputs |-> <<[account |-> InputTax.cgst, amount |-> e.fields.cgst],
                  [account |-> InputTax.igst, amount |-> e.fields.igst]>>]
Side(lines, side) == MapThenSumSet(LAMBDA i : lines[i][side], DOMAIN lines)
Postable(e) == LET v == Voucher!PurchaseLines(Payload(e)) IN
    v.ok /\ Side(v.lines, "debit") = Side(v.lines, "credit")

OwnVendor(e) == e.vendor # "none" /\ vendors[e.vendor].company = "own"

(* The checks of POST /approve, on what a SELECT without a lock shows.      *)
Approvable(e) ==
    e # NoExtraction /\ e.review # "APPROVED" /\ OwnVendor(e) /\ e.ledger # 0 /\ Postable(e)
ReadExtraction(c) ==
    /\ OcrIs(c, "approve", "start")
    /\ IF Approvable(ExtOf(c))
       THEN OcrTo(c, "read") /\ ocrSeen' = [ocrSeen EXCEPT ![c] = ExtOf(c)]
       ELSE OcrEnd(c, "refused")
    /\ UNCHANGED ocrTables

(* The voucher is posted; then the extraction's row is waited for.          *)
LinkDraft(c) ==
    /\ OcrIs(c, "approve", "read") /\ ExtFree(c)
    /\ OcrTo(c, "ext") /\ UNCHANGED <<ocrSeen, ocrTables>>

(* Mutant: an extraction that has a draft keeps it.                         *)
FirstDraft(draft, txn) == IF draft = 0 THEN txn ELSE draft

Linked(draft, txn) == txn
approve(c) ==
    /\ OcrIs(c, "approve", "ext") /\ DocFree(c)
    /\ booked' = Append(booked, [doc |-> DocOf(c), fields |-> ocrSeen[c].fields,
                                 vendor |-> ocrSeen[c].vendor])
    /\ extractions' = [extractions EXCEPT ![DocOf(c)] =
            [@ EXCEPT !.review = "APPROVED", !.draft = Linked(@, Len(booked) + 1)]]
    /\ scans' = [scans EXCEPT ![DocOf(c)].status = "APPROVED"]
    /\ OcrEnd(c, "done") /\ UNCHANGED vendors

-----------------------------------------------------------------------------

(* The UPDATE's own condition, looked at again once the row is free.        *)
Rejectable(e) == e # NoExtraction /\ e.review \notin {"APPROVED", "REJECTED"}
LockRejected(c) ==
    /\ OcrIs(c, "reject", "start") /\ ExtFree(c)
    /\ IF Rejectable(ExtOf(c)) THEN OcrTo(c, "ext") /\ UNCHANGED ocrSeen ELSE OcrEnd(c, "done")
    /\ UNCHANGED ocrTables
reject(c) ==
    /\ OcrIs(c, "reject", "ext") /\ DocFree(c)
    /\ extractions' = [extractions EXCEPT ![DocOf(c)].review = "REJECTED"]
    /\ scans' = [scans EXCEPT ![DocOf(c)].status = "REJECTED"]
    /\ OcrEnd(c, "done") /\ UNCHANGED <<vendors, booked>>

(* An amendment asks nothing of the status it replaces.                     *)
LockAmended(c) ==
    /\ OcrIs(c, "amend", "start") /\ ExtFree(c)
    /\ IF Extracted(c) /\ ocrAsked[c].change # <<>>
       THEN OcrTo(c, "ext") /\ UNCHANGED ocrSeen ELSE OcrEnd(c, "done")
    /\ UNCHANGED ocrTables
Amended(e, change) == [e EXCEPT !.review = "AMENDED", !.fields = change @@ @]
amend(c) ==
    /\ OcrIs(c, "amend", "ext") /\ DocFree(c)
    /\ extractions' = [extractions EXCEPT ![DocOf(c)] = Amended(@, ocrAsked[c].change)]
    /\ scans' = [scans EXCEPT ![DocOf(c)].status = "DRAFT_READY"]
    /\ OcrEnd(c, "done") /\ UNCHANGED <<vendors, booked>>

-----------------------------------------------------------------------------
(* An extraction without a GSTIN would get one that is too long to store.   *)
ReadVendor(c) ==
    /\ OcrIs(c, "vendor", "start")
    /\ IF Extracted(c) /\ ExtOf(c).fields.gstin # "none"
       THEN OcrTo(c, "read") /\ ocrSeen' = [ocrSeen EXCEPT ![c] = ExtOf(c)]
       ELSE OcrEnd(c, "refused")
    /\ UNCHANGED ocrTables
createVendor(c) ==
    /\ OcrIs(c, "vendor", "read") /\ ExtFree(c)
    /\ LET gstin == ocrSeen[c].fields.gstin
           account == ocrAsked[c].account
           taken == \E g \in DOMAIN vendors : vendors[g].account = account
       IN  /\ IF gstin \in DOMAIN vendors THEN vendors[gstin].company = "own" ELSE ~taken
           /\ vendors' = [g \in DOMAIN vendors \cup {gstin} |->
                  IF g \in DOMAIN vendors THEN vendors[g] ELSE [company |-> "own", account |-> account]]
           /\ extractions' = [extractions EXCEPT ![DocOf(c)].vendor = gstin]
    /\ OcrEnd(c, "done") /\ UNCHANGED <<scans, booked>>

(* Any statement may fail; two calls that wait for each other's row are     *)
(* such a case.  The transaction is rolled back.                            *)
OcrFail(c) ==
    /\ c \in DOMAIN ocrAsked /\ ocrStep[c] \in {"start", "read", "doc", "ext"}
    /\ OcrEnd(c, "refused") /\ UNCHANGED ocrTables

OcrNext == \E c \in OcrCall :
    \/ registerUpload(c) \/ StartPipeline(c) \/ runFullPipeline(c)
    \/ ReadExtraction(c) \/ LinkDraft(c) \/ approve(c) \/ LockRejected(c) \/ reject(c)
    \/ LockAmended(c) \/ amend(c) \/ ReadVendor(c) \/ createVendor(c) \/ OcrFail(c)
OcrSpec == OcrInit /\ [][OcrNext]_ocrVars

-----------------------------------------------------------------------------
(* However extractions, amendments, approvals and rejections of a document  *)
(* interleave, the status of the document is the one of its extraction: no  *)
(* document looks rejected while its extraction is approved.                *)
DocumentFollowsReview == \A d \in DOMAIN extractions :
    extractions[d] # NoExtraction => scans[d].status = StatusFor(extractions[d].review)

(* The transaction an extraction points at is the last one an approval of   *)
(* it booked, whoever approved at the same time and however often it was    *)
(* reopened.                                                                *)
DraftIsLastBooked == \A d \in DOMAIN extractions : extractions[d] # NoExtraction =>
    extractions[d].draft = Max({0} \cup {b \in DOMAIN booked : booked[b].doc = d})

(* No voucher is booked on a vendor registered by another company, though   *)
(* the matching looks at the registrations of all.                          *)
OwnVendorsAreCredited == \A b \in DOMAIN booked : vendors[booked[b].vendor].company = "own"

reviewPending == {d \in DOMAIN extractions :
    extractions[d].review \in {"PENDING_REVIEW", "FLAGGED", "AMENDED"}}

(* What the review list leaves out has been decided by a person, or was     *)
(* read with confidence and without a flag.                                 *)
NothingDoubtfulSkipsReview == \A d \in DOMAIN extractions \ reviewPending :
    \/ extractions[d].review \in {"none", "APPROVED", "REJECTED"}
    \/ extractions[d].overall >= 95 /\ ~extractions[d].flagged

(* Document, extraction, vendor and voucher agree, however extractions and  *)
(* reviews overlap.                                                         *)
ReviewIsConsistent ==
    /\ DocumentFollowsReview
    /\ DraftIsLastBooked
    /\ OwnVendorsAreCredited
    /\ NothingDoubtfulSkipsReview
=============================================================================

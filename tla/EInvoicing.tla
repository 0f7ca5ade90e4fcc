----------------------------- MODULE EInvoicing -----------------------------
(***************************************************************************)
(* E-invoices, e-way bills and their retry queue: EinvoiceService and       *)
(* RetryWorker (src/src/einvoicing), the routes of                          *)
(* src/src/api/routes/einvoice.routes.ts and the tables and triggers of     *)
(* src/einvoicing_schema.sql.                                               *)
(*                                                                         *)
(* A call is one HTTP request inside withTransaction.  A task is one item   *)
(* of one sweep, processed in a database transaction of its own while the   *)
(* government portal is called over HTTP.  Statements of calls and tasks    *)
(* interleave under READ COMMITTED.                                         *)
(*                                                                         *)
(* An e-invoice is named by its invoice number, an e-way bill by its id.    *)
(* A call inserts at most one row into api_retry_queue: the row is named by *)
(* the call.  A transaction writes at most one row of each table, kept in   *)
(* its draft until COMMIT; whoever has a draft of a row has its row lock.   *)
(***************************************************************************)
EXTENDS Integers, FiniteSets

CONSTANTS
    Call,           \* the HTTP calls a run considers; also the queue's row ids
    Task,           \* the items sweeps may process at one time
    Invoice,        \* invoice numbers of a registration
    Bill,           \* ids of eway_bill_details
    MaxAttempts,    \* api_retry_queue.max_attempts (7 in the schema)
    ParamsTyped,    \* TRUE when PostgreSQL can type 'actor', $3 inside
                    \* jsonb_build_object; it cannot: FALSE as committed
    ErrorsAreJson,  \* TRUE when the text written to last_error_body is JSON;
                    \* it is plain text or empty: FALSE as committed
    Nobody          \* no row

ASSUME ProcessAssumption ==
    /\ IsFiniteSet(Call) /\ IsFiniteSet(Task)
    /\ Call \cap Task = {} /\ Nobody \notin Call
ASSUME DocumentAssumption == Invoice \cap Bill = {} /\ Invoice \cup Bill # {}
ASSUME AttemptsAssumption == MaxAttempts \in Nat \ {0}
ASSUME StatementAssumption == ParamsTyped \in BOOLEAN /\ ErrorsAreJson \in BOOLEAN

Proc == Call \cup Task
Doc  == Invoice \cup Bill
Kind == {"generate", "cancel", "creditNote", "bill", "cancelBill"}

Item == [doc : Doc, op : {"GENERATE", "CANCEL"},
         status : {"QUEUED", "IN_PROGRESS", "SUCCESS", "PERMANENTLY_FAILED"},
         attempts : Nat, resting : BOOLEAN]
NoItem == [status |-> "none"]
Status == {"none", "PENDING", "QUEUED", "GENERATED", "CANCELLED", "EXPIRED", "FAILED"}

VARIABLES
    pc,         \* pc[p]: the statement p is at
    kind,       \* kind[c]: the endpoint call c calls
    about,      \* about[c]: the document call c is about
    picked,     \* picked[t]: the row id of the item task t got from the sweep
    seen,       \* seen[t]: the attempt_count that came with it
    draftItem,  \* draftItem[p]: the queue row p wrote and did not commit
    draftDoc,   \* draftDoc[p]: the document status p wrote and did not commit
    queue,      \* queue[i]: the committed row i of api_retry_queue
    doc,        \* doc[d]: the committed status of document d, "none": no row
    late,       \* generated e-invoices older than the 24 hours of cancellation
    portal      \* portal[d]: what the government portal holds of d

request == <<kind, about>>
tables  == <<queue, doc, late>>
drafts  == <<draftItem, draftDoc>>
vars == <<pc, request, picked, seen, drafts, tables, portal>>

AnyDoc == CHOOSE d \in Doc : TRUE     \* of a call that is not under way

Active(item) == item.status \in {"QUEUED", "IN_PROGRESS"}

RowOf(p) == IF p \in Call THEN p ELSE picked[p]
DocOf(p) == IF p \in Call THEN about[p] ELSE queue[picked[p]].doc
OpOf(c)  == IF kind[c] \in {"generate", "bill"} THEN "GENERATE" ELSE "CANCEL"

ItemFree(p, i) == \A q \in Proc \ {p} : draftItem[q] # NoItem => RowOf(q) # i
DocFree(p, d)  == \A q \in Proc \ {p} : draftDoc[q] # "none" => DocOf(q) # d

(* The newest version of task t's item that t can see.                      *)
Latest(t) == IF draftItem[t] # NoItem THEN draftItem[t] ELSE queue[picked[t]]

(* What idx_retry_unique lets c find of an active row for its document and  *)
(* operation: a committed one, or one of an open transaction to wait for.   *)
SameKey(c, item) == Active(item) /\ item.doc = about[c] /\ item.op = OpOf(c)
WaitForNobody(c) == FALSE     \* mutant: only what is committed is looked at
MustWait(c) ==
    \E p \in Proc \ {c} : /\ draftItem[p] # NoItem
                          /\ SameKey(c, draftItem[p]) \/ SameKey(c, queue[RowOf(p)])
Queued(c) == \E i \in Call : SameKey(c, queue[i])

-----------------------------------------------------------------------------
Init ==
    /\ pc = [p \in Proc |-> "idle"]
    /\ kind = [c \in Call |-> "generate"]
    /\ about = [c \in Call |-> AnyDoc]
    /\ picked = [t \in Task |-> Nobody]
    /\ seen = [t \in Task |-> 0]
    /\ draftItem = [p \in Proc |-> NoItem]
    /\ draftDoc = [p \in Proc |-> "none"]
    /\ queue = [i \in Call |-> NoItem]
    /\ doc = [d \in Doc |-> "none"]
    /\ late = {}
    /\ portal = [d \in Doc |-> "unknown"]

Goto(p, label) == pc' = [pc EXCEPT ![p] = label]

WriteItem(p, item) == draftItem' = [draftItem EXCEPT ![p] = item]
WriteDoc(p, status) == draftDoc' = [draftDoc EXCEPT ![p] = status]

(* A statement inside p's transaction.                                      *)
Stays == UNCHANGED <<request, picked, seen, tables, portal>>

(* Mutant: a process that is through keeps the rows it locked.              *)
EndHolding(p) ==
    /\ Goto(p, IF p \in Call THEN "done" ELSE "idle")
    /\ UNCHANGED <<kind, about, picked, seen, drafts>>

(* p's transaction is over: a call has its answer, a task is free again.    *)
End(p) ==
    /\ Goto(p, IF p \in Call THEN "done" ELSE "idle")
    /\ picked' = IF p \in Task THEN [picked EXCEPT ![p] = Nobody] ELSE picked
    /\ seen' = IF p \in Task THEN [seen EXCEPT ![p] = 0] ELSE seen
    /\ WriteItem(p, NoItem) /\ WriteDoc(p, "none")
    /\ kind' = IF p \in Call THEN [kind EXCEPT ![p] = "generate"] ELSE kind
    /\ about' = IF p \in Call THEN [about EXCEPT ![p] = AnyDoc] ELSE about

Rollback(p) == End(p) /\ UNCHANGED <<tables, portal>>

(* Mutant: the queue row is committed and the document's status is not.     *)
CommitItemOnly(p) ==
    /\ pc[p] = "commit"
    /\ queue' = IF draftItem[p] = NoItem THEN queue
                ELSE [queue EXCEPT ![RowOf(p)] = draftItem[p]]
    /\ End(p)
    /\ UNCHANGED <<doc, late, portal>>

Commit(p) ==
    /\ pc[p] = "commit"
    /\ queue' = IF draftItem[p] = NoItem THEN queue
                ELSE [queue EXCEPT ![RowOf(p)] = draftItem[p]]
    /\ doc' = IF draftDoc[p] = "none" THEN doc
              ELSE [doc EXCEPT ![DocOf(p)] = draftDoc[p]]
    /\ late' = IF draftDoc[p] = "GENERATED" THEN late \ {DocOf(p)} ELSE late
    /\ End(p)
    /\ UNCHANGED portal

(* A client calls an endpoint; a new e-way bill gets an id nobody has.      *)
Begin(c) ==
    /\ pc[c] = "idle"
    /\ \E k \in Kind, d \in Doc :
          /\ (d \in Bill) = (k \in {"bill", "cancelBill"})
          /\ k = "bill" => doc[d] = "none" /\ \A b \in Call :
                              pc[b] # "idle" /\ kind[b] = "bill" => about[b] # d
          /\ kind' = [kind EXCEPT ![c] = k]
          /\ about' = [about EXCEPT ![c] = d]
          /\ Goto(c, k)
    /\ UNCHANGED <<picked, seen, drafts, tables, portal>>

-----------------------------------------------------------------------------
(* generateEinvoice, step 1: an invoice that FAILED is queued again.        *)
LookUp(c) ==
    /\ pc[c] = "generate"
    /\ \/ doc[about[c]] = "GENERATED" /\ Rollback(c)
       \/ /\ doc[about[c]] # "GENERATED"
          /\ Goto(c, IF doc[about[c]] = "FAILED" THEN "enqueue" ELSE "insert")
          /\ Stays /\ UNCHANGED drafts

(* Mutant: the invoice is committed before anything is queued.              *)
InsertOnly(c) ==
    /\ pc[c] = "insert"
    /\ DocFree(c, about[c])
    /\ doc[about[c]] = "none"
    /\ WriteDoc(c, "PENDING")
    /\ Goto(c, "commit")
    /\ Stays /\ UNCHANGED draftItem

(* Steps 2 to 5: the INSERT as DRAFT (idx_einv_invoice_number) and the move *)
(* to PENDING by transitionStatus.                                          *)
InsertInvoice(c) ==
    LET d == about[c]
    IN  /\ pc[c] = "insert"
        /\ DocFree(c, d)
        /\ \/ doc[d] # "none" /\ Rollback(c)
           \/ doc[d] = "none" /\ ~ParamsTyped /\ Rollback(c)
           \/ /\ doc[d] = "none" /\ ParamsTyped
              /\ WriteDoc(c, "PENDING")
              /\ Goto(c, "enqueue")
              /\ Stays /\ UNCHANGED draftItem

(* generateEwayBill, step 4.                                                *)
InsertBill(c) ==
    /\ pc[c] = "bill"
    /\ WriteDoc(c, "QUEUED")
    /\ Goto(c, "enqueue")
    /\ Stays /\ UNCHANGED draftItem

(* enqueueRetry: INSERT ... ON CONFLICT DO NOTHING.  A document c has       *)
(* written already needs no further step.                                   *)
Enqueue(c) ==
    /\ pc[c] = "enqueue"
    /\ ~MustWait(c)
    /\ IF Queued(c) THEN UNCHANGED draftItem
       ELSE WriteItem(c, [doc |-> about[c], op |-> OpOf(c), status |-> "QUEUED",
                          attempts |-> 0, resting |-> FALSE])
    /\ Goto(c, IF draftDoc[c] = "none" THEN "transition" ELSE "commit")
    /\ Stays /\ UNCHANGED draftDoc

(* reenqueue and cancelEinvoice: transitionStatus, whatever the status is   *)
(* by now.                                                                  *)
Transition(c) ==
    /\ pc[c] = "transition"
    /\ \/ ~ParamsTyped /\ Rollback(c)
       \/ /\ ParamsTyped
          /\ DocFree(c, about[c])
          /\ WriteDoc(c, "PENDING")
          /\ Goto(c, "commit")
          /\ Stays /\ UNCHANGED draftItem

(* cancelEinvoice, step 1.  can_cancel_einvoice formats its message for an  *)
(* expired window with %.1f, which format() does not know.                  *)
CheckWindow(c) ==
    LET d == about[c]
    IN  /\ pc[c] \in {"cancel", "creditNote"}
        /\ \/ doc[d] = "none" /\ Rollback(c)
           \/ doc[d] = "GENERATED" /\ d \in late /\ Rollback(c)
           \/ /\ doc[d] # "none" /\ ~(doc[d] = "GENERATED" /\ d \in late)
              /\ Goto(c, IF pc[c] = "cancel" /\ doc[d] = "GENERATED"
                         THEN "enqueue" ELSE "expire")
              /\ Stays /\ UNCHANGED drafts

MarkExpired(c) ==
    /\ pc[c] = "expire"
    /\ DocFree(c, about[c])
    /\ WriteDoc(c, "EXPIRED")
    /\ Goto(c, "commit")
    /\ Stays /\ UNCHANGED draftItem

(* POST /ewaybill/cancel: UPDATE ... WHERE status = 'GENERATED', then the   *)
(* item with a NULL credential; the portal gave every registered bill its   *)
(* number.                                                                  *)
CancelBill(c) ==
    LET d == about[c]
    IN  /\ pc[c] = "cancelBill"
        /\ \/ ~ParamsTyped /\ Rollback(c)
           \/ ParamsTyped /\ DocFree(c, d) /\ doc[d] # "GENERATED" /\ Rollback(c)
           \/ /\ ParamsTyped /\ DocFree(c, d) /\ doc[d] = "GENERATED"
              /\ WriteDoc(c, "CANCELLED")
              /\ Goto(c, "enqueue")
              /\ Stays /\ UNCHANGED draftItem

-----------------------------------------------------------------------------
(* sweep: SELECT ... FOR UPDATE SKIP LOCKED on a client without BEGIN; the  *)
(* row locks end with the statement.                                        *)
Sweep(t) ==
    /\ pc[t] = "idle"
    /\ \E i \in Call :
          /\ queue[i].status = "QUEUED" /\ ~queue[i].resting
          /\ ItemFree(t, i)
          /\ picked' = [picked EXCEPT ![t] = i]
          /\ seen' = [seen EXCEPT ![t] = queue[i].attempts]
    /\ Goto(t, "mark")
    /\ UNCHANGED <<request, drafts, tables, portal>>

(* Mutant: the item is marked on the sweep's client, outside the            *)
(* transaction.                                                             *)
MarkOutside(t) ==
    LET i == picked[t]
    IN  /\ pc[t] = "mark"
        /\ ItemFree(t, i)
        /\ queue' = IF queue[i].status = "QUEUED"
                    THEN [queue EXCEPT ![i].status = "IN_PROGRESS", ![i].attempts = @ + 1]
                    ELSE queue
        /\ Goto(t, "post")
        /\ UNCHANGED <<request, picked, seen, drafts, doc, late, portal>>

(* processRetryItem: the UPDATE ... WHERE status = 'QUEUED', whose row      *)
(* count nobody reads.                                                      *)
MarkInProgress(t) ==
    LET item == queue[picked[t]]
    IN  /\ pc[t] = "mark"
        /\ ItemFree(t, picked[t])
        /\ IF item.status = "QUEUED"
           THEN WriteItem(t, [item EXCEPT !.status = "IN_PROGRESS", !.attempts = @ + 1])
           ELSE UNCHANGED draftItem
        /\ Goto(t, "post")
        /\ Stays /\ UNCHANGED draftDoc

(* The portal registers a document once and cancels a registered one once.  *)
Accepts(item) == portal[item.doc] = (IF item.op = "GENERATE" THEN "unknown" ELSE "registered")
Effect(item)  == IF item.op = "GENERATE" THEN "registered" ELSE "cancelled"

(* An e-way bill's CANCEL is queued with a NULL credential.                 *)
HasCredential(item) == item.op = "GENERATE" \/ item.doc \in Invoice

(* Mutant: the portal's answer is not looked at.                            *)
PostTrusting(t) ==
    LET item == queue[picked[t]]
    IN  /\ pc[t] = "post"
        /\ portal' \in {portal, [portal EXCEPT ![item.doc] = Effect(item)]}
        /\ Goto(t, "ok")
        /\ UNCHANGED <<request, picked, seen, drafts, tables>>

(* The token, then the POST: accepted, refused (4xx), an error to retry     *)
(* (5xx, 429, 408, an expired token) or a broken connection.  The last two  *)
(* may hide that the portal did what it was asked.                          *)
Post(t) ==
    LET item == queue[picked[t]]
    IN  /\ pc[t] = "post"
        /\ \/ /\ HasCredential(item) /\ Accepts(item)
              /\ portal' = [portal EXCEPT ![item.doc] = Effect(item)]
              /\ \E answer \in {"ok", "retry", "broken"} : Goto(t, answer)
           \/ /\ HasCredential(item)
              /\ \E answer \in {"refused", "retry", "broken"} : Goto(t, answer)
              /\ UNCHANGED portal
           \/ /\ ~HasCredential(item)
              /\ Goto(t, "broken")
              /\ UNCHANGED portal
        /\ UNCHANGED <<request, picked, seen, drafts, tables>>

(* handleGspSuccess: the row, then the document.  The trigger compares with *)
(* the status from before the UPDATE and the 24 hours; its exception leaves *)
(* an aborted transaction to the catch block.                               *)
Finish(t) ==
    /\ pc[t] = "ok"
    /\ ItemFree(t, picked[t])
    /\ WriteItem(t, [Latest(t) EXCEPT !.status = "SUCCESS"])
    /\ Goto(t, "record")
    /\ Stays /\ UNCHANGED draftDoc

Record(t) ==
    LET d == DocOf(t)
        generate == draftItem[t].op = "GENERATE"
        allowed == doc[d] = "GENERATED" /\ d \notin late
    IN  /\ pc[t] = "record"
        /\ \/ /\ d \in Bill /\ ~generate
              /\ Goto(t, "commit")
              /\ Stays /\ UNCHANGED drafts
           \/ /\ generate \/ (d \in Invoice /\ allowed)
              /\ DocFree(t, d)
              /\ WriteDoc(t, IF generate THEN "GENERATED" ELSE "CANCELLED")
              /\ Goto(t, "commit")
              /\ Stays /\ UNCHANGED draftItem
           \/ /\ d \in Invoice /\ ~generate /\ ~allowed
              /\ DocFree(t, d)
              /\ Rollback(t)

(* handleGspPermanentFailure.  Only a refusal comes with a JSON body; the   *)
(* '' of the other callers is none.                                         *)
GiveUp(t) ==
    /\ pc[t] \in {"refused", "broken", "exhausted"}
    /\ ItemFree(t, picked[t])
    /\ \/ pc[t] # "refused" /\ ~ErrorsAreJson /\ Rollback(t)
       \/ /\ pc[t] = "refused" \/ ErrorsAreJson
          /\ WriteItem(t, [Latest(t) EXCEPT !.status = "PERMANENTLY_FAILED"])
          /\ Goto(t, "fail")
          /\ Stays /\ UNCHANGED draftDoc

RecordFailure(t) ==
    /\ pc[t] = "fail"
    /\ DocFree(t, DocOf(t))
    /\ WriteDoc(t, "FAILED")
    /\ Goto(t, "commit")
    /\ Stays /\ UNCHANGED draftItem

NeverExhausted(t) == FALSE     \* mutant
Exhausted(t) == seen[t] + 1 >= MaxAttempts

(* scheduleRetry, by the attempt_count the sweep read.  A row that came to  *)
(* be another's result may no longer fit idx_retry_unique.                  *)
Retry(t) ==
    LET i == picked[t]
        again == [Latest(t) EXCEPT !.status = "QUEUED", !.resting = TRUE]
        twin(item) == Active(item) /\ item.doc = again.doc /\ item.op = again.op
        clash == \E j \in Call \ {i} : twin(queue[j])
    IN  /\ pc[t] = "retry"
        /\ ItemFree(t, i)
        /\ \/ Exhausted(t) /\ Goto(t, "exhausted") /\ UNCHANGED <<request, picked, seen, drafts>>
           \/ ~Exhausted(t) /\ ~ErrorsAreJson /\ End(t)
           \/ /\ ~Exhausted(t) /\ ErrorsAreJson
              /\ \A q \in Proc \ {t} : draftItem[q] # NoItem =>
                     ~twin(draftItem[q]) /\ ~twin(queue[RowOf(q)])
              /\ \/ clash /\ End(t)
                 \/ /\ ~clash /\ WriteItem(t, again) /\ Goto(t, "commit")
                    /\ UNCHANGED <<request, picked, seen, draftDoc>>
        /\ UNCHANGED <<tables, portal>>

-----------------------------------------------------------------------------
(* The backoff of a row is over.                                            *)
Elapse(i) ==
    /\ queue[i].status = "QUEUED" /\ queue[i].resting
    /\ queue' = [queue EXCEPT ![i].resting = FALSE]
    /\ UNCHANGED <<pc, request, picked, seen, drafts, doc, late, portal>>

(* 24 hours after the acknowledgement of an e-invoice.                      *)
LetWindowPass(d) ==
    /\ doc[d] = "GENERATED" /\ d \notin late
    /\ late' = late \cup {d}
    /\ UNCHANGED <<pc, request, picked, seen, drafts, queue, doc, portal>>

(* The process or its connection dies; PostgreSQL rolls back, the portal    *)
(* does not.                                                                *)
Fail(p) == pc[p] \notin {"idle", "done"} /\ Rollback(p)

CallStep(c) ==
    \/ LookUp(c) \/ InsertInvoice(c) \/ InsertBill(c) \/ Enqueue(c) \/ Transition(c)
    \/ CheckWindow(c) \/ MarkExpired(c) \/ CancelBill(c) \/ Commit(c)

TaskStep(t) ==
    \/ MarkInProgress(t) \/ Post(t) \/ Finish(t) \/ Record(t) \/ GiveUp(t)
    \/ RecordFailure(t) \/ Retry(t) \/ Commit(t)

Next ==
    \/ \E c \in Call : Begin(c) \/ CallStep(c)
    \/ \E t \in Task : Sweep(t) \/ TaskStep(t)
    \/ \E i \in Call : Elapse(i)
    \/ \E d \in Invoice : LetWindowPass(d)
    \/ \E p \in Proc : Fail(p)

Spec == Init /\ [][Next]_vars

(* A statement runs when its locks are free, and row locks are granted in   *)
(* the order they are waited for.  Nothing runs a sweep: RetryWorker.start  *)
(* has no caller, an administrator posts to /retry/sweep.                   *)
FairSpec == /\ Spec
            /\ \A c \in Call : SF_vars(CallStep(c))
            /\ \A t \in Task : SF_vars(TaskStep(t))

-----------------------------------------------------------------------------
(* Properties                                                               *)

(* Every variable has the shape its comment gives it, and only a process    *)
(* inside a transaction has drafts.                                         *)
TypeOK ==
    /\ pc \in [Proc -> {"idle", "done", "insert", "enqueue", "transition", "expire",
                        "mark", "post", "ok", "record", "refused", "retry", "broken",
                        "exhausted", "fail", "commit"} \cup Kind]
    /\ kind \in [Call -> Kind] /\ about \in [Call -> Doc]
    /\ picked \in [Task -> Call \cup {Nobody}] /\ seen \in [Task -> Nat]
    /\ draftItem \in [Proc -> Item \cup {NoItem}] /\ queue \in [Call -> Item \cup {NoItem}]
    /\ draftDoc \in [Proc -> Status] /\ doc \in [Doc -> Status]
    /\ late \subseteq Invoice
    /\ portal \in [Doc -> {"unknown", "registered", "cancelled"}]
    /\ \A p \in Proc : pc[p] \in {"idle", "done"} =>
          draftItem[p] = NoItem /\ draftDoc[p] = "none"

(* "Per-entity dedup: one active retry per entity+operation": however       *)
(* requests, sweeps and retries interleave, idx_retry_unique holds.         *)
OneActivePerOperation ==
    \A i, j \in Call : /\ i # j /\ Active(queue[i]) /\ Active(queue[j])
                       /\ queue[i].doc = queue[j].doc
                       => queue[i].op # queue[j].op

(* A document is shown as GENERATED only if the portal registered it, even  *)
(* when answers are lost and items are posted twice.                        *)
GeneratedIsRegistered ==
    \A d \in Doc : doc[d] = "GENERATED" => portal[d] # "unknown"

(* "Exceeded ${max} retry attempts": once errors can be stored, an item is  *)
(* given up after max_attempts, or one more for each sweep that had read an *)
(* older attempt_count.                                                     *)
AttemptsAreBounded ==
    \A i \in Call : queue[i] # NoItem =>
        queue[i].attempts < MaxAttempts + Cardinality(Task)

(* No failure leaves an item IN_PROGRESS, where no sweep would find it.     *)
NoItemIsLost == \A i \in Call : queue[i].status # "IN_PROGRESS"

(* A document that is there has been queued: an e-invoice has a row for its *)
(* GENERATE, and an e-way bill that is QUEUED one that is still to be sent. *)
SubmissionIsAtomic ==
    \A d \in Doc : doc[d] # "none" =>
        \E i \in Call : /\ queue[i] # NoItem /\ queue[i].doc = d
                        /\ queue[i].op = "GENERATE"
                        /\ doc[d] = "QUEUED" => queue[i].status = "QUEUED"

(* handleGspSuccess and handleGspPermanentFailure: a row gets its result    *)
(* together with its document ("Updates e_invoice_details /                 *)
(* eway_bill_details accordingly"); nothing is written for the CANCEL of an *)
(* e-way bill that went well.                                               *)
ResultsAreAtomic ==
    [][\A i \in Call : queue[i] # queue'[i] =>
        LET item == queue'[i]
        IN  /\ item.status = "PERMANENTLY_FAILED" => doc'[item.doc] = "FAILED"
            /\ item.status = "SUCCESS" /\ item.op = "GENERATE" =>
                  doc'[item.doc] = "GENERATED"
            /\ item.status = "SUCCESS" /\ item.op = "CANCEL" /\ item.doc \in Invoice =>
                  doc'[item.doc] = "CANCELLED"]_vars

(* Every call is answered and every item a sweep took is let go of: no two  *)
(* of them wait for each other, though PostgreSQL's deadlock detector is    *)
(* not modelled.                                                            *)
EveryProcessEnds == \A p \in Proc : pc[p] # "idle" ~> pc[p] \in {"idle", "done"}

(* "Uses FOR UPDATE SKIP LOCKED to prevent duplicate processing": what is   *)
(* sent to the portal is an item that is still to be sent.                  *)
FinishedItemsAreNotPosted ==
    [][\A t \in Task : pc[t] = "post" /\ pc'[t] # "post" =>
          queue[picked[t]].status = "QUEUED"]_vars
=============================================================================

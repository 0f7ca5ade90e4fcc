-------------------------- MODULE EInvoicingProofs --------------------------
(***************************************************************************)
(* Proofs about EInvoicing, for every set of calls, tasks and documents and *)
(* every bound on attempts: the queue never holds two active items for one  *)
(* operation, loses none, shows a result only together with its document,   *)
(* and counts no more attempts of an item than its bound and the sweeps that*)
(* read an older count allow; a submission leaves its document and its item.*)
(* And about Gst and Payloads, for all invoices: what is charged is computed*)
(* alike everywhere and declared in full.                                   *)
(***************************************************************************)
EXTENDS EInvoicing, Payloads, SumTheorems

USE ProcessAssumption, DocumentAssumption

(* A call that has not committed has no row in the queue.                   *)
NewRows == \A c \in Call : pc[c] # "done" => queue[c] = NoItem

(* A task works on a row that is in the queue.                              *)
Picks == \A t \in Task :
    pc[t] # "idle" => picked[t] \in Call /\ queue[picked[t]] # NoItem

(* A call writes new items only, and nothing else than the worker writes    *)
(* GENERATED.                                                               *)
CallDrafts == \A c \in Call :
    /\ draftItem[c] # NoItem => draftItem[c].status = "QUEUED"
    /\ draftDoc[c] # "GENERATED"

(* What a task writes is a version of its row; from the portal's answer on  *)
(* it is not IN_PROGRESS.                                                   *)
TaskDrafts == \A t \in Task :
    /\ draftItem[t] # NoItem =>
          /\ draftItem[t].doc = queue[picked[t]].doc
          /\ draftItem[t].op = queue[picked[t]].op
          /\ draftItem[t].status = "IN_PROGRESS" =>
                pc[t] \notin {"record", "fail", "commit"}
    /\ pc[t] \in {"record", "fail"} => draftItem[t] # NoItem

(* The status that goes with the result of an item.                         *)
Told(item, status) ==
    /\ item.status = "PERMANENTLY_FAILED" => status = "FAILED"
    /\ item.status = "SUCCESS" /\ item.op = "GENERATE" => status = "GENERATED"
    /\ item.status = "SUCCESS" /\ item.op = "CANCEL" /\ item.doc \in Invoice =>
          status = "CANCELLED"

(* A task commits a result with its document.                               *)
Results == \A t \in Task :
    /\ pc[t] = "fail" => draftItem[t].status = "PERMANENTLY_FAILED"
    /\ pc[t] = "record" => draftItem[t].status = "SUCCESS"
    /\ pc[t] = "commit" => Told(draftItem[t], draftDoc[t])

Stages == CallDrafts /\ TaskDrafts

(* A row is written by one open transaction.                                *)
Locks == \A p, q \in Proc :
    p # q /\ draftItem[p] # NoItem /\ draftItem[q] # NoItem => RowOf(p) # RowOf(q)

(* Two rows that idx_retry_unique does not allow.                           *)
Twins(x, y) == Active(x) /\ Active(y) /\ x.doc = y.doc /\ x.op = y.op

(* No two versions of different rows, committed or not, are twins.          *)
Unique ==
    /\ \A i, j \in Call : i # j => ~Twins(queue[i], queue[j])
    /\ \A p \in Proc, j \in Call :
          draftItem[p] # NoItem /\ RowOf(p) # j => ~Twins(draftItem[p], queue[j])
    /\ \A p, q \in Proc :
          p # q /\ draftItem[p] # NoItem /\ draftItem[q] # NoItem
          => ~Twins(draftItem[p], draftItem[q])

(* Whoever is about to write GENERATED has the portal's registration.       *)
Registered ==
    /\ GeneratedIsRegistered
    /\ \A t \in Task :
          /\ pc[t] \in {"ok", "record"} /\ queue[picked[t]].op = "GENERATE" =>
                portal[queue[picked[t]].doc] # "unknown"
          /\ draftDoc[t] = "GENERATED" => portal[queue[picked[t]].doc] # "unknown"

(* The labels of TypeOK.                                                    *)
Labels == {"idle", "done", "insert", "enqueue", "transition", "expire",
           "mark", "post", "ok", "record", "refused", "retry", "broken",
           "exhausted", "fail", "commit"} \cup Kind

QueueInv ==
    /\ TypeOK /\ NewRows /\ Picks /\ Stages /\ Locks /\ Unique
    /\ Registered /\ NoItemIsLost /\ Results

-----------------------------------------------------------------------------
(* The invariant holds when the queue is empty.                             *)
LEMMA QueueInit == Init => QueueInv
<1> SUFFICES ASSUME Init PROVE QueueInv
  OBVIOUS
<1>1. TypeOK
  BY DEF Init, TypeOK, AnyDoc, Kind, Status, Proc, Doc
<1>2. NewRows /\ Picks /\ Stages /\ Locks /\ Unique /\ Registered /\ NoItemIsLost /\ Results
  BY DEF Init, Results, NewRows, Picks, Stages, CallDrafts, TaskDrafts, Locks, Unique, Twins,
         Active, Registered, NoItemIsLost, GeneratedIsRegistered, NoItem, Proc
<1>. QED
  BY <1>1, <1>2 DEF QueueInv

(* A transaction that ends without a COMMIT leaves the others as they were. *)
LEMMA EndKeeps ==
  ASSUME QueueInv, NEW p \in Proc, pc[p] \notin {"idle", "done"}, Rollback(p)
  PROVE  QueueInv'
<1> USE DEF QueueInv, Rollback, tables
<1>1. TypeOK'
  BY DEF End, Goto, WriteItem, WriteDoc, TypeOK, Proc, Doc, AnyDoc, Kind, Status
<1>2. NewRows'
  BY DEF End, Goto, NewRows, TypeOK, Proc
<1>3. Picks'
  BY DEF End, Goto, Picks, TypeOK, Proc
<1>4. Stages'
  BY DEF End, Goto, Stages, CallDrafts, TaskDrafts, WriteItem, WriteDoc, TypeOK, Proc
<1>5. Locks'
  BY DEF End, Goto, Locks, WriteItem, WriteDoc, TypeOK, Proc, RowOf
<1>6. Unique'
  BY DEF End, Goto, Unique, WriteItem, WriteDoc, TypeOK, Proc, RowOf, Twins, Active
<1>7. Registered'
  BY DEF End, Goto, Registered, GeneratedIsRegistered, WriteItem, WriteDoc, TypeOK, Proc
<1>8. NoItemIsLost'
  BY DEF NoItemIsLost
<1>9. Results'
  BY DEF End, Goto, Results, Told, WriteItem, WriteDoc, TypeOK, Proc
<1>. QED
  BY <1>1, <1>2, <1>3, <1>4, <1>5, <1>6, <1>7, <1>8, <1>9

(* A statement of a call that writes no item.                               *)
LEMMA CallWalks ==
  ASSUME QueueInv, NEW c \in Call, pc[c] # "done", NEW l \in Labels \ {"idle", "done"}, Goto(c, l),
         UNCHANGED draftItem, NEW s \in Status \ {"GENERATED"},
         UNCHANGED draftDoc \/ WriteDoc(c, s), Stays
  PROVE  QueueInv'
<1> USE DEF QueueInv, Stays, tables, Goto, WriteDoc
<1>1. TypeOK'
  BY DEF TypeOK, request, Proc, Status, Labels, Kind
<1>2. NewRows' /\ Picks' /\ Locks' /\ NoItemIsLost'
  BY DEF NewRows, Picks, Locks, TypeOK, Proc, RowOf, NoItemIsLost
<1>3. Stages'
  BY DEF Stages, CallDrafts, TaskDrafts, TypeOK, Proc
<1>4. Unique'
  BY DEF Unique, RowOf, Twins, Active
<1>5. Registered'
  BY DEF Registered, GeneratedIsRegistered, TypeOK, Proc
<1>6. Results'
  BY DEF Results, Told, TypeOK, Proc
<1>. QED
  BY <1>1, <1>2, <1>3, <1>4, <1>5, <1>6

(* A statement of a task that writes no item; the portal may have learned of*)
(* a document, and never forgets one.                                       *)
LEMMA TaskWalks ==
  ASSUME QueueInv, NEW t \in Task, pc[t] \notin {"idle", "done"},
         NEW l \in Labels \ {"idle", "done", "mark", "record", "fail"}, Goto(t, l),
         l = "commit" => pc[t] \in {"record", "fail"} /\ Told(draftItem[t], draftDoc'[t]),
         UNCHANGED <<draftItem, request, picked, seen, tables>>,
         NEW s \in Status, UNCHANGED draftDoc \/ WriteDoc(t, s),
         draftDoc'[t] = "GENERATED" => portal[queue[picked[t]].doc] # "unknown",
         portal' \in [Doc -> {"unknown", "registered", "cancelled"}],
         \A d \in Doc : portal[d] # "unknown" => portal'[d] # "unknown",
         l = "ok" /\ queue[picked[t]].op = "GENERATE" =>
            portal'[queue[picked[t]].doc] # "unknown"
  PROVE  QueueInv'
<1> USE DEF QueueInv, tables, Goto, WriteDoc
<1>1. TypeOK'
  BY DEF TypeOK, request, Proc, Labels, Kind
<1>2. NewRows' /\ Picks' /\ Locks' /\ NoItemIsLost'
  BY DEF NewRows, Picks, Locks, TypeOK, Proc, RowOf, NoItemIsLost
<1>3. Stages'
  BY DEF Stages, CallDrafts, TaskDrafts, TypeOK, Proc
<1>4. Unique'
  BY DEF Unique, RowOf, Twins, Active
<1>5. Registered'
  BY DEF Registered, GeneratedIsRegistered, TypeOK, Proc, Picks, Item, NoItem
<1>6. Results'
  BY DEF Results, Told, TypeOK, Proc
<1>. QED
  BY <1>1, <1>2, <1>3, <1>4, <1>5, <1>6

(* A statement of a task that writes its item, which is no twin of another  *)
(* because it was active before or because the index was looked at.         *)
LEMMA TaskWrites ==
  ASSUME QueueInv, NEW t \in Task, pc[t] \notin {"idle", "done"}, ItemFree(t, picked[t]),
         NEW l \in Labels \ {"idle", "done", "mark"}, Goto(t, l),
         NEW item \in Item, WriteItem(t, item),
         item.doc = queue[picked[t]].doc, item.op = queue[picked[t]].op,
         /\ l = "record" => item.status = "SUCCESS"
         /\ l = "fail" => item.status = "PERMANENTLY_FAILED"
         /\ l = "commit" => item.status = "QUEUED"
         /\ l \in {"ok", "record"} => pc[t] = "ok",
         Active(item) => \/ Active(queue[picked[t]])
                         \/ /\ \A j \in Call \ {picked[t]} : ~Twins(item, queue[j])
                            /\ \A q \in Proc \ {t} :
                                  draftItem[q] # NoItem => ~Twins(item, draftItem[q]),
         UNCHANGED draftDoc, Stays
  PROVE  QueueInv'
<1> USE DEF QueueInv, Stays, tables, Goto, WriteItem
<1>0. picked[t] \in Call /\ queue[picked[t]] # NoItem /\ t \in Proc /\ item # NoItem
  BY DEF Picks, Proc, Item, NoItem
<1>1. TypeOK'
  BY <1>0 DEF TypeOK, request, Labels, Kind
<1>2. NewRows' /\ Picks' /\ NoItemIsLost'
  BY DEF NewRows, Picks, TypeOK, Proc, NoItemIsLost
<1>3. Locks'
  BY <1>0 DEF Locks, ItemFree, TypeOK, RowOf
<1>4. Stages'
  BY <1>0 DEF Stages, CallDrafts, TaskDrafts, TypeOK, Proc
<1>5. \A j \in Call \ {picked[t]} : ~Twins(item, queue[j])
  BY <1>0 DEF Unique, Twins, Active
<1>6. \A q \in Proc \ {t} : draftItem[q] # NoItem => ~Twins(item, draftItem[q])
  BY <1>0 DEF Unique, Twins, Active, ItemFree
<1>7. Unique'
  BY <1>0, <1>5, <1>6 DEF Unique, Twins, Active, RowOf, TypeOK
<1>8. Registered'
  BY DEF Registered, GeneratedIsRegistered, TypeOK, Proc
<1>9. Results'
  BY <1>0 DEF Results, Told, TypeOK, Proc
<1>. QED
  BY <1>1, <1>2, <1>3, <1>4, <1>7, <1>8, <1>9

(* COMMIT makes one version of a row, and one status, visible to all.       *)
LEMMA CommitKeeps ==
  ASSUME QueueInv, NEW p \in Proc, Commit(p)
  PROVE  QueueInv'
<1>a. \A c \in Call : /\ draftItem[c] # NoItem => draftItem[c].status = "QUEUED"
                      /\ draftDoc[c] # "GENERATED"
  BY DEF QueueInv, Stages, CallDrafts, TaskDrafts, CallDrafts, TaskDrafts
<1>b. \A t \in Task : draftDoc[t] = "GENERATED" => portal[queue[picked[t]].doc] # "unknown"
  BY DEF QueueInv, Registered
<1> USE DEF QueueInv, Commit, End, Goto, WriteItem, WriteDoc
<1>0. p \in Task => /\ picked[p] \in Call /\ queue[picked[p]] # NoItem
  BY DEF Picks
<1>1. TypeOK'
  BY DEF TypeOK, Proc, Doc, Kind, AnyDoc, Status, DocOf, RowOf, Picks
<1>2. ASSUME NEW i \in Call, queue[i] # NoItem
      PROVE  queue'[i] # NoItem /\ queue'[i].doc = queue[i].doc /\ queue'[i].op = queue[i].op
  BY <1>0, <1>2 DEF Stages, CallDrafts, TaskDrafts, NewRows, RowOf, TypeOK, Proc
<1>3. NewRows'
  BY <1>0 DEF NewRows, TypeOK, Proc, RowOf
<1>4. Picks'
  BY <1>2 DEF Picks, TypeOK, Proc
<1>5. NoItemIsLost'
  BY DEF Stages, CallDrafts, TaskDrafts, RowOf, TypeOK, Proc, NoItemIsLost
<1>6. Locks'
  BY DEF Locks, TypeOK, RowOf
<1>7. Stages'
  <2>1. ASSUME NEW c \in Call
        PROVE  /\ draftItem'[c] # NoItem => draftItem'[c].status = "QUEUED"
               /\ draftDoc'[c] # "GENERATED"
    <3>1. CASE c = p
      BY <3>1 DEF TypeOK, Proc
    <3>2. CASE c # p
      <4>1. draftItem'[c] = draftItem[c] /\ draftDoc'[c] = draftDoc[c]
        BY <3>2 DEF TypeOK, Proc
      <4>. QED
        BY <4>1, <1>a DEF CallDrafts
    <3>. QED
      BY <3>1, <3>2
  <2>2. ASSUME NEW t \in Task, draftItem'[t] # NoItem
        PROVE  /\ t # p /\ draftItem'[t] = draftItem[t] /\ picked'[t] = picked[t] /\ pc'[t] = pc[t]
    BY <2>2 DEF TypeOK, Proc
  <2>3. ASSUME NEW t \in Task, draftItem'[t] # NoItem
        PROVE  picked[t] \in Call /\ queue[picked[t]] # NoItem
    BY <2>2, <2>3 DEF TypeOK, Proc, Picks
  <2>4. \A t \in Task : pc'[t] = "record" => draftItem'[t] # NoItem
    BY DEF Stages, CallDrafts, TaskDrafts, TypeOK, Proc
  <2>. QED
    BY <2>1, <2>2, <2>3, <2>4, <1>2 DEF Stages, CallDrafts, TaskDrafts
<1>8. Unique'
  BY DEF Unique, Twins, Active, RowOf, TypeOK
<1>9. Registered'
  <2>1. ASSUME NEW t \in Task, pc'[t] # "idle"
        PROVE  /\ t # p /\ pc'[t] = pc[t] /\ draftDoc'[t] = draftDoc[t]
               /\ queue'[picked'[t]].op = queue[picked[t]].op
               /\ queue'[picked'[t]].doc = queue[picked[t]].doc
    BY <1>2, <2>1 DEF TypeOK, Proc, Picks
  <2>2. GeneratedIsRegistered'
    <3>1. draftDoc[p] = "GENERATED" => p \in Task /\ portal[DocOf(p)] # "unknown"
      <4>1. CASE p \in Call
        BY <4>1, <1>a DEF CallDrafts
      <4>2. CASE p \in Task
        BY <4>2, <1>b DEF DocOf
      <4>. QED
        BY <4>1, <4>2 DEF Proc
    <3>2. \A d \in Doc : doc'[d] = doc[d] \/ (d = DocOf(p) /\ doc'[d] = draftDoc[p])
      BY DEF TypeOK
    <3>3. portal' = portal
      OBVIOUS
    <3>. QED
      BY <3>1, <3>2, <3>3 DEF Registered, GeneratedIsRegistered
  <2>3. \A t \in Task : draftDoc'[t] = "GENERATED" => pc'[t] # "idle"
    BY DEF TypeOK, Proc
  <2>. QED
    BY <2>1, <2>2, <2>3 DEF Registered
<1>10. Results'
  BY DEF Results, Told, TypeOK, Proc
<1>. QED
  BY <1>1, <1>3, <1>4, <1>5, <1>6, <1>7, <1>8, <1>9, <1>10

(* ON CONFLICT DO NOTHING: the new item has no twin, committed or not.      *)
LEMMA EnqueueKeeps ==
  ASSUME QueueInv, NEW c \in Call, Enqueue(c)
  PROVE  QueueInv'
<1>1. CASE Queued(c)
  <2>1. PICK l \in {"transition", "commit"} : Goto(c, l)
    BY DEF Enqueue
  <2>. QED
    BY <1>1, <2>1, CallWalks DEF Enqueue, Labels, Status
<1>2. CASE ~Queued(c)
  <2> DEFINE item == [doc |-> about[c], op |-> OpOf(c), status |-> "QUEUED",
                      attempts |-> 0, resting |-> FALSE]
  <2>1. item \in Item /\ item # NoItem /\ c \in Proc
    BY DEF QueueInv, TypeOK, Item, NoItem, OpOf, Proc
  <2>2. PICK l \in {"transition", "commit"} : Goto(c, l)
    BY DEF Enqueue
  <2>3. WriteItem(c, item) /\ UNCHANGED draftDoc /\ Stays /\ pc[c] = "enqueue"
    BY <1>2 DEF Enqueue
  <2>4. \A j \in Call : ~Twins(item, queue[j])
    BY <1>2 DEF Queued, SameKey, Twins
  <2>5. \A q \in Proc \ {c} : draftItem[q] # NoItem => ~Twins(item, draftItem[q])
    BY DEF Enqueue, MustWait, SameKey, Twins
  <2>6. item.status = "QUEUED"
    OBVIOUS
  <2> HIDE DEF item
  <2> USE <2>1, <2>2, <2>3 DEF QueueInv, Stays, tables, Goto, WriteItem
  <2>7. TypeOK'
    BY DEF TypeOK, request
  <2>8. NewRows' /\ Picks' /\ NoItemIsLost' /\ Registered'
    BY DEF NewRows, Picks, TypeOK, Proc, NoItemIsLost, Registered, GeneratedIsRegistered
  <2>9. Locks'
    <3>1. \A t \in Task : draftItem[t] # NoItem => picked[t] \in Call /\ picked[t] # c
      BY DEF Picks, NewRows, TypeOK, Proc
    <3>. QED
      BY <3>1 DEF Locks, TypeOK, RowOf, Proc
  <2>10. Stages'
    <3>1. draftItem'[c].status = "QUEUED"
      BY <2>6 DEF TypeOK
    <3>2. \A q \in Proc \ {c} : draftItem'[q] = draftItem[q] /\ pc'[q] = pc[q]
      BY DEF TypeOK
    <3>3. CallDrafts'
      BY <3>1, <3>2 DEF Stages, CallDrafts, Proc
    <3>4. TaskDrafts'
      BY <3>2 DEF Stages, TaskDrafts, Proc
    <3>. QED
      BY <3>3, <3>4 DEF Stages
  <2>11. Unique'
    BY <2>4, <2>5 DEF Unique, RowOf, TypeOK, Twins, Active
  <2>12. Results'
    BY DEF Results, Told, TypeOK, Proc
  <2>. QED
    BY <2>7, <2>8, <2>9, <2>10, <2>11, <2>12
<1>. QED
  BY <1>1, <1>2

(* The start of a call.                                                     *)
LEMMA BeginKeeps ==
  ASSUME QueueInv, NEW c \in Call, Begin(c)
  PROVE  QueueInv'
<1>1. PICK k \in Kind : Goto(c, k) /\ kind' = [kind EXCEPT ![c] = k]
  BY DEF Begin
<1> USE <1>1 DEF QueueInv, Begin, Goto, tables, drafts
<1>2. TypeOK'
  BY DEF TypeOK, Proc, Doc
<1>3. NewRows' /\ Picks' /\ Locks' /\ NoItemIsLost'
  BY DEF NewRows, Picks, Locks, TypeOK, Proc, RowOf, NoItemIsLost
<1>4. Stages'
  BY DEF Stages, CallDrafts, TaskDrafts, TypeOK, Proc
<1>5. Unique'
  BY DEF Unique, RowOf, Twins, Active
<1>6. Registered'
  BY DEF Registered, GeneratedIsRegistered, TypeOK, Proc
<1>7. Results'
  BY DEF Results, Told, TypeOK, Proc
<1>. QED
  BY <1>2, <1>3, <1>4, <1>5, <1>6, <1>7

(* A sweep hands out an item, and locks nothing.                            *)
LEMMA SweepKeeps ==
  ASSUME QueueInv, NEW t \in Task, Sweep(t)
  PROVE  QueueInv'
<1>1. PICK i \in Call : /\ queue[i].status = "QUEUED"
                       /\ picked' = [picked EXCEPT ![t] = i]
                       /\ seen' = [seen EXCEPT ![t] = queue[i].attempts]
  BY DEF Sweep
<1>2. queue[i] # NoItem /\ t \in Proc /\ draftItem[t] = NoItem /\ draftDoc[t] = "none"
  BY <1>1 DEF NoItem, Sweep, Proc, QueueInv, TypeOK
<1>3. \A u \in Task \ {t} : picked'[u] = picked[u]
  BY <1>1 DEF QueueInv, TypeOK
<1>4. \A q \in Proc : draftItem[q] # NoItem => RowOf(q)' = RowOf(q)
  BY <1>2, <1>3 DEF RowOf, Proc
<1> USE <1>1, <1>2 DEF QueueInv, Sweep, Goto, tables, drafts
<1>5. TypeOK'
  <2>1. queue[i].attempts \in Nat
    BY DEF TypeOK, Item
  <2>. QED
    BY <2>1 DEF TypeOK, request, Proc, Doc
<1>6. NewRows' /\ Picks' /\ NoItemIsLost'
  BY DEF NewRows, Picks, TypeOK, Proc, NoItemIsLost
<1>7. Locks'
  BY <1>4 DEF Locks
<1>8. Stages'
  BY DEF Stages, CallDrafts, TaskDrafts, TypeOK, Proc
<1>9. Unique'
  BY <1>4 DEF Unique, Twins, Active
<1>10. Registered'
  BY DEF Registered, GeneratedIsRegistered, TypeOK, Proc
<1>11. Results'
  BY DEF Results, Told, TypeOK, Proc
<1>. QED
  BY <1>5, <1>6, <1>7, <1>8, <1>9, <1>10, <1>11

(* A back-off ends, or the 24 hours of a cancellation.                      *)
LEMMA TimeKeeps ==
  ASSUME QueueInv, (\E i \in Call : Elapse(i)) \/ (\E d \in Invoice : LetWindowPass(d))
  PROVE  QueueInv'
<1>1. UNCHANGED <<pc, kind, about, picked, seen, draftItem, draftDoc, doc, portal>>
  BY DEF Elapse, LetWindowPass, request, drafts
<1>2. late' \in SUBSET Invoice
  BY DEF Elapse, LetWindowPass, QueueInv, TypeOK
<1>3. queue' \in [Call -> Item \cup {NoItem}]
  <2>1. CASE \E d \in Invoice : LetWindowPass(d)
    BY <2>1 DEF LetWindowPass, QueueInv, TypeOK
  <2>2. ASSUME NEW i \in Call, Elapse(i) PROVE queue' \in [Call -> Item \cup {NoItem}]
    <3>1. queue[i] \in Item
      BY <2>2 DEF Elapse, QueueInv, TypeOK, NoItem
    <3> DEFINE rested == [queue[i] EXCEPT !.resting = FALSE]
    <3>2. rested \in Item
      BY <3>1 DEF Item
    <3>3. queue' = [queue EXCEPT ![i] = rested]
      BY <2>2 DEF Elapse
    <3> HIDE DEF rested
    <3>. QED
      BY <3>2, <3>3 DEF QueueInv, TypeOK
  <2>. QED
    BY <2>1, <2>2
<1>4. ASSUME NEW i \in Call
      PROVE  /\ queue'[i] = NoItem <=> queue[i] = NoItem
             /\ queue'[i].status = queue[i].status
             /\ queue'[i].doc = queue[i].doc /\ queue'[i].op = queue[i].op
  BY DEF Elapse, LetWindowPass, QueueInv, TypeOK, Item, NoItem
<1> USE <1>1 DEF QueueInv
<1>5. TypeOK'
  BY <1>2, <1>3 DEF TypeOK
<1>6. NewRows' /\ Picks' /\ NoItemIsLost' /\ Locks'
  BY <1>4 DEF NewRows, Picks, NoItemIsLost, Locks, RowOf
<1>7. Stages'
  <2>1. \A t \in Task : draftItem[t] # NoItem \/ pc[t] # "idle" => picked[t] \in Call
    BY DEF Picks, TypeOK, Proc
  <2>. QED
    BY <1>4, <2>1 DEF Stages, CallDrafts, TaskDrafts
<1>8. Unique'
  BY <1>4 DEF Unique, Twins, Active, RowOf
<1>9. Registered'
  <2>1. \A t \in Task : draftDoc[t] # "none" \/ pc[t] # "idle" => picked[t] \in Call
    BY DEF Picks, TypeOK, Proc
  <2>. QED
    BY <1>4, <2>1 DEF Registered, GeneratedIsRegistered
<1>10. Results'
  BY DEF Results, Told
<1>. QED
  BY <1>5, <1>6, <1>7, <1>8, <1>9, <1>10

-----------------------------------------------------------------------------
(* The portal's answer.                                                     *)
LEMMA PostKeeps ==
  ASSUME QueueInv, NEW t \in Task, Post(t)
  PROVE  QueueInv'
<1> DEFINE item == queue[picked[t]]
<1>1. item.doc \in Doc /\ item.op \in {"GENERATE", "CANCEL"} /\ t \in Proc
  BY DEF Post, QueueInv, TypeOK, Picks, Item, NoItem, Proc
<1>2. PICK l \in {"ok", "refused", "retry", "broken"} :
        /\ Goto(t, l)
        /\ l = "ok" => Accepts(item) /\ portal' = [portal EXCEPT ![item.doc] = Effect(item)]
        /\ UNCHANGED portal \/ portal' = [portal EXCEPT ![item.doc] = Effect(item)]
  BY DEF Post
<1>3. /\ portal' \in [Doc -> {"unknown", "registered", "cancelled"}]
      /\ \A d \in Doc : portal[d] # "unknown" => portal'[d] # "unknown"
      /\ l = "ok" => portal'[item.doc] # "unknown"
  BY <1>1, <1>2 DEF QueueInv, TypeOK, Effect
<1>4. /\ pc[t] = "post"
      /\ UNCHANGED <<draftItem, draftDoc, request, picked, seen, tables>>
  BY DEF Post, drafts
<1>5. draftDoc[t] = "GENERATED" => portal[item.doc] # "unknown"
  BY DEF QueueInv, Registered
<1>6. l \in Labels \ {"idle", "done", "mark", "record", "fail"} /\ l # "commit"
  BY DEF Labels
<1>. QED
  BY <1>2, <1>3, <1>4, <1>5, <1>6, TaskWalks DEF Status

(* The item becomes IN_PROGRESS, or is no longer QUEUED.                    *)
LEMMA MarkKeeps ==
  ASSUME QueueInv, NEW t \in Task, MarkInProgress(t)
  PROVE  QueueInv'
<1>1. /\ pc[t] = "mark" /\ ItemFree(t, picked[t]) /\ Goto(t, "post") /\ Stays
      /\ UNCHANGED draftDoc
  BY DEF MarkInProgress
<1>2. "post" \in Labels \ {"idle", "done", "mark", "record", "fail"}
  BY DEF Labels
<1>3. CASE queue[picked[t]].status # "QUEUED"
  <2>1. UNCHANGED draftItem
    BY <1>3 DEF MarkInProgress
  <2>2. draftDoc[t] = "GENERATED" => portal[queue[picked[t]].doc] # "unknown"
    BY DEF QueueInv, Registered
  <2>. QED
    BY <1>1, <1>2, <2>1, <2>2, TaskWalks DEF Stays, Status, QueueInv, TypeOK
<1>4. CASE queue[picked[t]].status = "QUEUED"
  <2> DEFINE marked == [queue[picked[t]] EXCEPT !.status = "IN_PROGRESS", !.attempts = @ + 1]
  <2>1. queue[picked[t]] \in Item
    BY <1>1 DEF QueueInv, TypeOK, Picks, Proc
  <2>2. /\ marked \in Item /\ marked.doc = queue[picked[t]].doc
        /\ marked.op = queue[picked[t]].op
    <3>1. queue[picked[t]].attempts + 1 \in Nat
      BY <2>1 DEF Item
    <3>. QED
      BY <2>1, <3>1 DEF Item
  <2>3. WriteItem(t, marked)
    BY <1>4 DEF MarkInProgress
  <2>4. Active(queue[picked[t]])
    BY <1>4 DEF Active
  <2> HIDE DEF marked
  <2>. QED
    BY <1>1, <1>2, <2>2, <2>3, <2>4, TaskWrites
<1>. QED
  BY <1>3, <1>4

(* The version of its row that a task sees.                                 *)
LEMMA LatestIsItem ==
  ASSUME QueueInv, NEW t \in Task, pc[t] \notin {"idle", "done"}
  PROVE  /\ Latest(t) \in Item
         /\ Latest(t).doc = queue[picked[t]].doc
         /\ Latest(t).op = queue[picked[t]].op
BY DEF QueueInv, TypeOK, Picks, Stages, CallDrafts, TaskDrafts, Latest, Proc

(* A task writes the result of its item.                                    *)
LEMMA ResultKeeps ==
  ASSUME QueueInv, NEW t \in Task, pc[t] \notin {"idle", "done"}, ItemFree(t, picked[t]),
         NEW status \in {"SUCCESS", "PERMANENTLY_FAILED"},
         WriteItem(t, [Latest(t) EXCEPT !.status = status]),
         NEW l \in {"record", "fail"}, Goto(t, l),
         IF l = "record" THEN pc[t] = "ok" /\ status = "SUCCESS"
                         ELSE status = "PERMANENTLY_FAILED",
         UNCHANGED draftDoc, Stays
  PROVE  QueueInv'
<1> DEFINE item == [Latest(t) EXCEPT !.status = status]
<1>1. /\ item \in Item /\ item.doc = queue[picked[t]].doc /\ item.op = queue[picked[t]].op
      /\ item.status = status
  BY LatestIsItem DEF Item
<1>2. l \in Labels \ {"idle", "done", "mark"}
  BY DEF Labels
<1> HIDE DEF item
<1>3. ~Active(item)
  BY <1>1 DEF Active
<1>. QED
  BY <1>1, <1>2, <1>3, TaskWrites DEF item

(* A task writes the status of the document that goes with the result.      *)
LEMMA RecordKeeps ==
  ASSUME QueueInv, NEW t \in Task, Record(t) \/ RecordFailure(t)
  PROVE  QueueInv'
<1>1. CASE Rollback(t)
  BY <1>1, EndKeeps DEF Record, RecordFailure, Proc
<1>2. CASE ~Rollback(t)
  <2>1. /\ pc[t] \in {"record", "fail"} /\ Goto(t, "commit") /\ Stays
        /\ UNCHANGED draftItem
    BY <1>2 DEF Record, RecordFailure, drafts
  <2>2. draftItem[t] # NoItem
    BY <2>1 DEF QueueInv, Stages, CallDrafts, TaskDrafts, CallDrafts, TaskDrafts
  <2>3. PICK s \in Status :
          /\ UNCHANGED draftDoc \/ WriteDoc(t, s)
          /\ draftDoc'[t] = "GENERATED" => portal[queue[picked[t]].doc] # "unknown"
          /\ Told(draftItem[t], draftDoc'[t])
    <3>1. CASE RecordFailure(t)
      <4>1. /\ draftDoc'[t] = "FAILED" /\ WriteDoc(t, "FAILED")
            /\ draftItem[t].status = "PERMANENTLY_FAILED"
        BY <3>1 DEF RecordFailure, WriteDoc, QueueInv, TypeOK, Proc, Results
      <4>. QED
        BY <4>1 DEF Status, Told
    <3>2. CASE Record(t)
      <4>1. /\ draftItem[t].status = "SUCCESS"
            /\ draftItem[t].op = queue[picked[t]].op
            /\ draftItem[t].doc = queue[picked[t]].doc
            /\ draftItem[t].op \in {"GENERATE", "CANCEL"}
            /\ pc[t] = "record"
        BY <2>2, <3>2 DEF Record, QueueInv, Results, Stages, TaskDrafts, TypeOK, Item, Proc
      <4>2. draftItem[t].op = "GENERATE" => portal[queue[picked[t]].doc] # "unknown"
        BY <4>1 DEF QueueInv, Registered
      <4>3. draftDoc[t] = "GENERATED" => portal[queue[picked[t]].doc] # "unknown"
        BY DEF QueueInv, Registered
      <4>4. CASE UNCHANGED draftDoc /\ DocOf(t) \in Bill /\ draftItem[t].op # "GENERATE"
        <5>1. draftItem[t].doc \notin Invoice
          BY <4>1, <4>4, DocumentAssumption DEF DocOf, Proc
        <5>. QED
          BY <4>1, <4>3, <4>4, <5>1 DEF Status, Told
      <4>5. CASE WriteDoc(t, "CANCELLED") /\ draftItem[t].op # "GENERATE"
        <5>1. draftDoc'[t] = "CANCELLED"
          BY <4>5 DEF WriteDoc, QueueInv, TypeOK, Proc
        <5>. QED
          BY <4>1, <4>5, <5>1 DEF Status, Told
      <4>6. CASE WriteDoc(t, "GENERATED") /\ draftItem[t].op = "GENERATE"
        <5>1. draftDoc'[t] = "GENERATED"
          BY <4>6 DEF WriteDoc, QueueInv, TypeOK, Proc
        <5>. QED
          BY <4>1, <4>2, <4>6, <5>1 DEF Status, Told
      <4>. QED
        BY <1>2, <3>2, <4>4, <4>5, <4>6 DEF Record, drafts
    <3>. QED
      BY <3>1, <3>2
  <2>. QED
    BY <2>1, <2>2, <2>3, TaskWalks DEF Stays, Labels, QueueInv, TypeOK
<1>. QED
  BY <1>1, <1>2

(* A retry puts the item back, unless it has a twin by now.                 *)
LEMMA RetryKeeps ==
  ASSUME QueueInv, NEW t \in Task, Retry(t)
  PROVE  QueueInv'
<1>0. pc[t] = "retry" /\ ItemFree(t, picked[t]) /\ t \in Proc
  BY DEF Retry, Proc
<1>1. CASE End(t)
  BY <1>0, <1>1, EndKeeps DEF Retry, Rollback
<1>2. CASE Goto(t, "exhausted") /\ UNCHANGED <<request, picked, seen, drafts>>
  <2>1. draftDoc[t] = "GENERATED" => portal[queue[picked[t]].doc] # "unknown"
    BY DEF QueueInv, Registered
  <2>. QED
    BY <1>0, <1>2, <2>1, TaskWalks DEF Retry, drafts, Labels, Status, QueueInv, TypeOK
<1>3. CASE ~End(t) /\ ~(Goto(t, "exhausted") /\ UNCHANGED <<request, picked, seen, drafts>>)
  <2> DEFINE again == [Latest(t) EXCEPT !.status = "QUEUED", !.resting = TRUE]
  <2>1. /\ again \in Item /\ again.doc = queue[picked[t]].doc
        /\ again.op = queue[picked[t]].op /\ again.status = "QUEUED"
    BY <1>0, LatestIsItem DEF Item
  <2>2. /\ \A j \in Call \ {picked[t]} : ~Twins(again, queue[j])
        /\ \A q \in Proc \ {t} : draftItem[q] # NoItem => ~Twins(again, draftItem[q])
    BY <1>3 DEF Retry, Twins
  <2>3. WriteItem(t, again) /\ Goto(t, "commit") /\ UNCHANGED draftDoc /\ Stays
    BY <1>3 DEF Retry, Stays
  <2>4. "commit" \in Labels \ {"idle", "done", "mark"}
    BY DEF Labels
  <2> HIDE DEF again
  <2>. QED
    BY <1>0, <2>1, <2>2, <2>3, <2>4, TaskWrites
<1>. QED
  BY <1>1, <1>2, <1>3

(* Every statement of a call.                                               *)
LEMMA CallStepKeeps ==
  ASSUME QueueInv, NEW c \in Call, CallStep(c)
  PROVE  QueueInv'
<1>1. c \in Proc
  BY DEF Proc
<1>2. CASE Enqueue(c)
  BY <1>2, EnqueueKeeps
<1>3. CASE Commit(c)
  BY <1>1, <1>3, CommitKeeps
<1>4. CASE /\ \/ LookUp(c) \/ InsertInvoice(c) \/ InsertBill(c) \/ Transition(c)
              \/ CheckWindow(c) \/ MarkExpired(c) \/ CancelBill(c)
           /\ Rollback(c)
  <2>1. pc[c] \notin {"idle", "done"}
    BY <1>4 DEF LookUp, InsertInvoice, InsertBill, Transition, CheckWindow, MarkExpired,
                CancelBill
  <2>. QED
    BY <1>1, <1>4, <2>1, EndKeeps
<1>5. CASE /\ \/ LookUp(c) \/ InsertInvoice(c) \/ InsertBill(c) \/ Transition(c)
              \/ CheckWindow(c) \/ MarkExpired(c) \/ CancelBill(c)
           /\ ~Rollback(c)
  <2>1. PICK l \in {"enqueue", "insert", "commit", "expire"} :
          Goto(c, l) /\ UNCHANGED draftItem /\ Stays /\ pc[c] # "done"
    BY <1>5 DEF LookUp, InsertInvoice, InsertBill, Transition, CheckWindow, MarkExpired,
                CancelBill, drafts
  <2>2. PICK s \in {"none", "PENDING", "QUEUED", "EXPIRED", "CANCELLED"} :
          UNCHANGED draftDoc \/ WriteDoc(c, s)
    BY <1>5 DEF LookUp, InsertInvoice, InsertBill, Transition, CheckWindow, MarkExpired,
                CancelBill, drafts
  <2>. QED
    BY <2>1, <2>2, CallWalks DEF Labels, Status
<1>. QED
  BY <1>2, <1>3, <1>4, <1>5 DEF CallStep

(* Every statement of a task.                                               *)
LEMMA TaskStepKeeps ==
  ASSUME QueueInv, NEW t \in Task, TaskStep(t)
  PROVE  QueueInv'
<1>1. t \in Proc
  BY DEF Proc
<1>2. CASE Finish(t)
  BY <1>2, ResultKeeps DEF Finish
<1>3. CASE GiveUp(t)
  <2>1. CASE Rollback(t)
    BY <1>1, <1>3, <2>1, EndKeeps DEF GiveUp
  <2>2. CASE ~Rollback(t)
    BY <1>3, <2>2, ResultKeeps DEF GiveUp
  <2>. QED
    BY <2>1, <2>2
<1>. QED
  BY <1>1, <1>2, <1>3, MarkKeeps, PostKeeps, RecordKeeps, RetryKeeps, CommitKeeps DEF TaskStep

(* The invariant is inductive.                                              *)
LEMMA QueueNext == QueueInv /\ [Next]_vars => QueueInv'
<1> SUFFICES ASSUME QueueInv, [Next]_vars PROVE QueueInv'
  OBVIOUS
<1>1. ASSUME NEW p \in Proc, Fail(p) PROVE QueueInv'
  BY <1>1, EndKeeps DEF Fail
<1>2. CASE UNCHANGED vars
  <2>1. UNCHANGED <<pc, kind, about, picked, seen, draftItem, draftDoc, queue, doc, late, portal>>
    BY <1>2 DEF vars, request, drafts, tables
  <2>. QED
    BY <2>1 DEF QueueInv, TypeOK, NewRows, Picks, Stages, CallDrafts, TaskDrafts, Locks,
                RowOf, Unique, Twins, Active,
                Registered, GeneratedIsRegistered, NoItemIsLost, Results, Told
<1>. QED
  BY <1>1, <1>2, BeginKeeps, CallStepKeeps, SweepKeeps, TaskStepKeeps, TimeKeeps DEF Next

(* The invariant holds in every behaviour.                                  *)
LEMMA QueueCorrect == Spec => []QueueInv
  BY QueueInit, QueueNext, PTL DEF Spec

(* Every variable keeps its type, and a process outside of a transaction has*)
(* no uncommitted rows.                                                     *)
THEOREM TypeCorrect == Spec => []TypeOK
<1>1. QueueInv => TypeOK
  BY DEF QueueInv
<1>. QED
  BY <1>1, QueueCorrect, PTL

(* idx_retry_unique: one active item per document and operation, however    *)
(* requests, sweeps and retries interleave.                                 *)
THEOREM OneActive == Spec => []OneActivePerOperation
<1>1. QueueInv => OneActivePerOperation
  BY DEF QueueInv, Unique, Twins, OneActivePerOperation
<1>. QED
  BY <1>1, QueueCorrect, PTL

(* No item is left IN_PROGRESS by a crash or an error.                      *)
THEOREM NothingLost == Spec => []NoItemIsLost
<1>1. QueueInv => NoItemIsLost
  BY DEF QueueInv
<1>. QED
  BY <1>1, QueueCorrect, PTL

(* A document is GENERATED only if the portal registered it.                *)
THEOREM ShownIsRegistered == Spec => []GeneratedIsRegistered
<1>1. QueueInv => GeneratedIsRegistered
  BY DEF QueueInv, Registered
<1>. QED
  BY <1>1, QueueCorrect, PTL

(* The result of an item and the status of its document are one step.       *)
THEOREM AtomicResults == Spec => ResultsAreAtomic
<1> DEFINE Atomic == \A i \in Call : queue[i] # queue'[i] =>
        LET item == queue'[i]
        IN  /\ item.status = "PERMANENTLY_FAILED" => doc'[item.doc] = "FAILED"
            /\ item.status = "SUCCESS" /\ item.op = "GENERATE" =>
                  doc'[item.doc] = "GENERATED"
            /\ item.status = "SUCCESS" /\ item.op = "CANCEL" /\ item.doc \in Invoice =>
                  doc'[item.doc] = "CANCELLED"
<1>1. QueueInv /\ [Next]_vars => Atomic
  <2> SUFFICES ASSUME QueueInv, [Next]_vars, NEW i \in Call, queue[i] # queue'[i]
               PROVE  /\ queue'[i].status = "PERMANENTLY_FAILED" => doc'[queue'[i].doc] = "FAILED"
                      /\ queue'[i].status = "SUCCESS" /\ queue'[i].op = "GENERATE" =>
                            doc'[queue'[i].doc] = "GENERATED"
                      /\ queue'[i].status = "SUCCESS" /\ queue'[i].op = "CANCEL"
                         /\ queue'[i].doc \in Invoice => doc'[queue'[i].doc] = "CANCELLED"
    OBVIOUS
  <2>1. CASE \E j \in Call : Elapse(j)
    <3>1. queue'[i].status = "QUEUED"
      BY <2>1 DEF Elapse, QueueInv, TypeOK, Item, NoItem
    <3>. QED
      BY <3>1
  <2>2. ASSUME NEW p \in Proc, Commit(p)
        PROVE  /\ queue'[i].status = "PERMANENTLY_FAILED" => doc'[queue'[i].doc] = "FAILED"
               /\ queue'[i].status = "SUCCESS" /\ queue'[i].op = "GENERATE" =>
                     doc'[queue'[i].doc] = "GENERATED"
               /\ queue'[i].status = "SUCCESS" /\ queue'[i].op = "CANCEL"
                  /\ queue'[i].doc \in Invoice => doc'[queue'[i].doc] = "CANCELLED"
    <3>1. draftItem[p] # NoItem /\ i = RowOf(p) /\ queue'[i] = draftItem[p] /\ pc[p] = "commit"
      BY <2>2 DEF Commit, QueueInv, TypeOK, RowOf
    <3>2. CASE p \in Call
      BY <3>1, <3>2 DEF QueueInv, Stages, CallDrafts
    <3>3. CASE p \in Task
      <4>1. Told(draftItem[p], draftDoc[p]) /\ draftItem[p].doc = DocOf(p)
        BY <3>1, <3>3 DEF QueueInv, Results, Stages, TaskDrafts, DocOf
      <4>2. draftItem[p].doc \in Doc
        BY <3>1, <3>3 DEF QueueInv, TypeOK, Item, NoItem, Proc
      <4>3. draftDoc[p] # "none" => doc'[DocOf(p)] = draftDoc[p]
        BY <2>2, <4>1, <4>2 DEF Commit, QueueInv, TypeOK
      <4>. QED
        BY <3>1, <4>1, <4>3 DEF Told
    <3>. QED
      BY <3>2, <3>3 DEF Proc
  <2>3. CASE UNCHANGED queue
    BY <2>3
  <2>4. ASSUME NEW p \in Proc, Fail(p) PROVE UNCHANGED queue
    BY <2>4 DEF Fail, Rollback, tables
  <2>5. ASSUME NEW c \in Call, Begin(c) \/ CallStep(c) PROVE UNCHANGED queue \/ Commit(c)
    BY <2>5 DEF Begin, CallStep, LookUp, InsertInvoice, InsertBill, Enqueue, Transition,
                CheckWindow, MarkExpired, CancelBill, Stays, Rollback, tables
  <2>6. ASSUME NEW t \in Task, Sweep(t) \/ TaskStep(t) PROVE UNCHANGED queue \/ Commit(t)
    BY <2>6 DEF Sweep, TaskStep, MarkInProgress, Post, Finish, Record, GiveUp, RecordFailure,
                Retry, Stays, Rollback, tables
  <2>7. ASSUME NEW d \in Invoice, LetWindowPass(d) PROVE UNCHANGED queue
    BY <2>7 DEF LetWindowPass
  <2>. QED
    BY <2>1, <2>2, <2>3, <2>4, <2>5, <2>6, <2>7 DEF Next, Proc, vars, tables
<1>. QED
  BY <1>1, QueueCorrect, PTL DEF Spec, ResultsAreAtomic

-----------------------------------------------------------------------------
(* The tasks that may still put row i back into the queue.                  *)
Stale(i) == {t \in Task : picked[t] = i /\ seen[t] + 1 < MaxAttempts}

(* An attempt made leaves room for one more of each of them, and a row that *)
(* is QUEUED for the task that gives it up.                                 *)
Budget ==
    \A i \in Call : queue[i] # NoItem /\ queue[i].attempts > 0 =>
        queue[i].attempts + Cardinality(Stale(i)) + (IF queue[i].status = "QUEUED" THEN 2 ELSE 1)
        =< MaxAttempts + Cardinality(Task)

(* A task counts one attempt, and only of a row that is QUEUED; it puts a   *)
(* row back only if the count it read left an attempt.                      *)
AttemptDrafts ==
    /\ \A c \in Call : draftItem[c] # NoItem => draftItem[c].attempts = 0
    /\ \A t \in Task :
          /\ draftItem[t] # NoItem =>
                draftItem[t].attempts =< queue[picked[t]].attempts
                                         + (IF queue[picked[t]].status = "QUEUED" THEN 1 ELSE 0)
          /\ pc[t] = "commit" /\ draftItem[t] # NoItem /\ draftItem[t].status = "QUEUED" =>
                seen[t] + 1 < MaxAttempts

AttemptInv == Budget /\ AttemptDrafts

(* Every task is counted once.                                              *)
LEMMA StaleCounts ==
  /\ Cardinality(Task) \in Nat
  /\ \A i : /\ IsFiniteSet(Stale(i)) /\ Cardinality(Stale(i)) \in Nat
             /\ Cardinality(Stale(i)) =< Cardinality(Task)
<1>1. \A i : Stale(i) \subseteq Task
  BY DEF Stale
<1>. QED
  BY <1>1, FS_Subset, FS_CardinalityType

(* With fewer of them the budget has more room.                             *)
LEMMA StaleShrinks ==
  ASSUME NEW i, Stale(i)' \subseteq Stale(i)
  PROVE  /\ Cardinality(Stale(i)') \in Nat
         /\ Cardinality(Stale(i)') =< Cardinality(Stale(i))
         /\ \A t \in Stale(i) : t \notin Stale(i)' =>
               Cardinality(Stale(i)') + 1 =< Cardinality(Stale(i))
<1>1. /\ IsFiniteSet(Stale(i)) /\ IsFiniteSet(Stale(i)')
      /\ Cardinality(Stale(i)) \in Nat /\ Cardinality(Stale(i)') \in Nat
      /\ Cardinality(Stale(i)') =< Cardinality(Stale(i))
  BY StaleCounts, FS_Subset, FS_CardinalityType
<1>2. ASSUME NEW t \in Stale(i), t \notin Stale(i)'
      PROVE  Cardinality(Stale(i)') + 1 =< Cardinality(Stale(i))
  <2>1. Stale(i)' \subseteq Stale(i) \ {t}
    BY <1>2
  <2>2. IsFiniteSet(Stale(i) \ {t}) /\ Cardinality(Stale(i) \ {t}) = Cardinality(Stale(i)) - 1
    BY <1>1, <1>2, FS_RemoveElement
  <2>3. Cardinality(Stale(i)') =< Cardinality(Stale(i) \ {t})
    BY <2>1, <2>2, FS_Subset
  <2>. QED
    BY <1>1, <2>2, <2>3
<1>. QED
  BY <1>1, <1>2

(* A step of p that commits nothing and picks nothing.                      *)
LEMMA AttemptWalks ==
  ASSUME QueueInv, AttemptInv, NEW p \in Proc, UNCHANGED queue,
         \A q \in Proc \ {p} : draftItem'[q] = draftItem[q] /\ pc'[q] = pc[q],
         \A t \in Task \ {p} : picked'[t] = picked[t] /\ seen'[t] = seen[t],
         p \in Call /\ draftItem'[p] # NoItem => draftItem'[p].attempts = 0,
         p \in Task =>
            /\ picked'[p] \notin Call \/ (picked'[p] = picked[p] /\ seen'[p] = seen[p])
            /\ draftItem'[p] # NoItem =>
                  draftItem'[p].attempts =<
                     queue[picked'[p]].attempts
                     + (IF queue[picked'[p]].status = "QUEUED" THEN 1 ELSE 0)
            /\ pc'[p] = "commit" /\ draftItem'[p] # NoItem /\ draftItem'[p].status = "QUEUED" =>
                  seen'[p] + 1 < MaxAttempts
  PROVE  AttemptInv'
<1>1. ASSUME NEW i \in Call, queue[i] # NoItem, queue[i].attempts > 0
      PROVE  queue[i].attempts + Cardinality(Stale(i)') + (IF queue[i].status = "QUEUED" THEN 2 ELSE 1)
             =< MaxAttempts + Cardinality(Task)
  <2>1. Stale(i)' \subseteq Stale(i)
    BY DEF Stale
  <2>2. queue[i].attempts \in Nat
    BY <1>1 DEF QueueInv, TypeOK, Item
  <2>. QED
    BY <1>1, <2>1, <2>2, StaleShrinks, StaleCounts, AttemptsAssumption DEF AttemptInv, Budget
<1>2. Budget'
  BY <1>1 DEF Budget
<1>3. AttemptDrafts'
  BY DEF AttemptInv, AttemptDrafts, Proc
<1>. QED
  BY <1>2, <1>3 DEF AttemptInv

LEMMA RollbackKeepsAttempts ==
  ASSUME QueueInv, AttemptInv, NEW p \in Proc, End(p), UNCHANGED queue
  PROVE  AttemptInv'
<1>1. draftItem'[p] = NoItem
  BY DEF End, WriteItem, QueueInv, TypeOK
<1>2. \A q \in Proc \ {p} : draftItem'[q] = draftItem[q] /\ pc'[q] = pc[q]
  BY DEF End, Goto, WriteItem, QueueInv, TypeOK
<1>3. /\ \A t \in Task \ {p} : picked'[t] = picked[t] /\ seen'[t] = seen[t]
      /\ p \in Task => picked'[p] \notin Call
  BY DEF End, QueueInv, TypeOK
<1>. QED
  BY <1>1, <1>2, <1>3, AttemptWalks

(* A statement of a task that writes its row, as it sees it, keeps the      *)
(* attempts counted in it.                                                  *)
LEMMA RewriteKeepsAttempts ==
  ASSUME QueueInv, AttemptInv, NEW t \in Task, pc[t] \notin {"idle", "done"},
         NEW l \in Labels, Goto(t, l), NEW item, WriteItem(t, item),
         item.attempts = Latest(t).attempts,
         l = "commit" /\ item.status = "QUEUED" => seen[t] + 1 < MaxAttempts,
         UNCHANGED <<picked, seen, queue>>
  PROVE  AttemptInv'
<1>1. /\ t \in Proc /\ draftItem'[t] = item /\ pc'[t] = l
      /\ \A q \in Proc \ {t} : draftItem'[q] = draftItem[q] /\ pc'[q] = pc[q]
  BY DEF WriteItem, Goto, QueueInv, TypeOK, Proc
<1>2. queue[picked[t]] \in Item /\ queue[picked[t]].attempts \in Nat
  BY <1>1 DEF QueueInv, TypeOK, Picks, Item
<1>3. Latest(t).attempts =< queue[picked[t]].attempts
                            + (IF queue[picked[t]].status = "QUEUED" THEN 1 ELSE 0)
  BY <1>2 DEF Latest, AttemptInv, AttemptDrafts
<1>4. t \notin Call
  BY ProcessAssumption
<1>. QED
  BY <1>1, <1>3, <1>4, AttemptWalks

(* The room a result or a return to the queue needs: n attempts of the row, *)
(* s tasks that may put it back, k tasks in all.                            *)
LEMMA Room ==
  ASSUME NEW n \in Nat, NEW a \in Nat, NEW s \in Nat, NEW r \in Nat, NEW k \in Nat,
         NEW m \in Nat \ {0}, NEW was \in BOOLEAN, NEW is \in BOOLEAN,
         r =< s, s =< k, k > 0, a > 0, m = 1 => s = 0,
         is => r + 1 =< s,
         a =< n + (IF was THEN 1 ELSE 0),
         n > 0 => n + s + (IF was THEN 2 ELSE 1) =< m + k
  PROVE  a + r + (IF is THEN 2 ELSE 1) =< m + k
<1>1. CASE n > 0
  BY <1>1
<1>2. CASE n = 0
  <2>1. a = 1
    BY <1>2
  <2>. QED
    BY <1>2, <2>1
<1>. QED
  BY <1>1, <1>2

LEMMA CommitKeepsAttempts ==
  ASSUME QueueInv, QueueInv', AttemptInv, NEW p \in Proc, Commit(p)
  PROVE  AttemptInv'
<1>1. /\ End(p) /\ pc[p] = "commit"
      /\ queue' = IF draftItem[p] = NoItem THEN queue
                  ELSE [queue EXCEPT ![RowOf(p)] = draftItem[p]]
  BY DEF Commit
<1>2. CASE draftItem[p] = NoItem
  BY <1>1, <1>2, RollbackKeepsAttempts
<1>3. CASE draftItem[p] # NoItem
  <2>0. RowOf(p) \in Call
    BY <1>1 DEF QueueInv, Picks, RowOf, Proc
  <2>1. PICK i \in Call : i = RowOf(p) /\ draftItem[p] \in Item /\ draftItem[p].attempts \in Nat
    BY <1>3, <2>0 DEF QueueInv, TypeOK, Item
  <2>2. /\ queue'[i] = draftItem[p]
        /\ \A j \in Call \ {i} : queue'[j] = queue[j]
    BY <1>1, <1>3, <2>1 DEF QueueInv, TypeOK
  <2>3. \A q \in Proc \ {p} : draftItem'[q] = draftItem[q] /\ pc'[q] = pc[q]
    BY <1>1 DEF End, Goto, WriteItem, QueueInv, TypeOK
  <2>4. /\ \A t \in Task \ {p} : picked'[t] = picked[t] /\ seen'[t] = seen[t]
        /\ p \in Task => picked'[p] \notin Call
        /\ draftItem'[p] = NoItem
    BY <1>1 DEF End, WriteItem, QueueInv, TypeOK
  <2>5. \A j \in Call : Stale(j)' \subseteq Stale(j)
    BY <2>4 DEF Stale
  <2>6. ASSUME NEW t \in Task \ {p}, draftItem[t] # NoItem PROVE picked[t] \in Call \ {i}
    <3>1. t \in Proc /\ picked[t] \in Call /\ RowOf(t) = picked[t]
      BY <2>6 DEF QueueInv, TypeOK, Picks, Proc, RowOf
    <3>. QED
      BY <1>3, <2>1, <2>6, <3>1 DEF QueueInv, Locks
  <2>7. AttemptDrafts'
    <3>1. \A c \in Call : draftItem'[c] # NoItem => draftItem'[c].attempts = 0
      BY <2>3, <2>4 DEF AttemptInv, AttemptDrafts, Proc
    <3>2. ASSUME NEW t \in Task, draftItem'[t] # NoItem
          PROVE  /\ t # p /\ draftItem'[t] = draftItem[t] /\ pc'[t] = pc[t]
                 /\ picked'[t] = picked[t] /\ seen'[t] = seen[t]
                 /\ queue'[picked[t]] = queue[picked[t]]
      BY <2>2, <2>3, <2>4, <2>6, <3>2 DEF Proc
    <3>. QED
      BY <3>1, <3>2 DEF AttemptInv, AttemptDrafts
  <2>8. ASSUME NEW j \in Call, queue'[j] # NoItem, queue'[j].attempts > 0
        PROVE  queue'[j].attempts + Cardinality(Stale(j)')
                 + (IF queue'[j].status = "QUEUED" THEN 2 ELSE 1)
               =< MaxAttempts + Cardinality(Task)
    <3>1. CASE j # i
      <4>1. queue[j].attempts \in Nat /\ queue'[j] = queue[j]
        BY <2>2, <2>8, <3>1 DEF QueueInv, TypeOK, Item
      <4>. QED
        BY <2>5, <2>8, <4>1, StaleShrinks, StaleCounts, AttemptsAssumption
           DEF AttemptInv, Budget
    <3>2. CASE j = i /\ p \in Task
      <4>1. /\ picked[p] = i /\ queue[i] \in Item /\ queue[i].attempts \in Nat
            /\ seen[p] \in Nat /\ queue[i] # NoItem
        BY <1>1, <2>1, <3>2, ProcessAssumption DEF RowOf, QueueInv, TypeOK, Picks, Item
      <4>2. draftItem[p].attempts =< queue[i].attempts + (IF queue[i].status = "QUEUED" THEN 1 ELSE 0)
        BY <1>3, <3>2, <4>1 DEF AttemptInv, AttemptDrafts
      <4>3. draftItem[p].status = "QUEUED" => p \in Stale(i) /\ p \notin Stale(i)'
        BY <1>1, <1>3, <2>1, <2>4, <3>2, <4>1 DEF AttemptInv, AttemptDrafts, Stale
      <4>4. Cardinality(Stale(i)) \in Nat /\ Cardinality(Stale(i)) =< Cardinality(Task)
        BY StaleCounts
      <4>5. /\ Cardinality(Stale(i)') \in Nat
            /\ Cardinality(Stale(i)') =< Cardinality(Stale(i))
            /\ draftItem[p].status = "QUEUED" =>
                  Cardinality(Stale(i)') + 1 =< Cardinality(Stale(i))
        BY <2>1, <2>5, <4>3, StaleShrinks
      <4>6. Cardinality(Task) \in Nat /\ Cardinality(Task) > 0
        BY <3>2, StaleCounts, FS_EmptySet, ProcessAssumption
      <4>7. MaxAttempts = 1 => Cardinality(Stale(i)) = 0
        <5>1. MaxAttempts = 1 => Stale(i) = {}
          BY DEF Stale, QueueInv, TypeOK
        <5>. QED
          BY <5>1, FS_EmptySet
      <4>8. queue[i].attempts > 0 =>
               queue[i].attempts + Cardinality(Stale(i))
                 + (IF queue[i].status = "QUEUED" THEN 2 ELSE 1)
               =< MaxAttempts + Cardinality(Task)
        BY <2>1, <4>1 DEF AttemptInv, Budget
      <4>9. draftItem[p].attempts > 0
        BY <2>2, <2>8, <3>2
      <4> DEFINE is == draftItem[p].status = "QUEUED"
                 was == queue[i].status = "QUEUED"
      <4>10. is \in BOOLEAN /\ was \in BOOLEAN
        OBVIOUS
      <4>11. draftItem[p].attempts + Cardinality(Stale(i)') + (IF is THEN 2 ELSE 1)
             =< MaxAttempts + Cardinality(Task)
        BY <2>1, <4>1, <4>2, <4>4, <4>5, <4>6, <4>7, <4>8, <4>9, <4>10, Room, AttemptsAssumption
      <4>. QED
        BY <2>2, <3>2, <4>11
    <3>3. CASE j = i /\ p \in Call
      BY <1>3, <2>2, <2>8, <3>3 DEF AttemptInv, AttemptDrafts
    <3>. QED
      BY <3>1, <3>2, <3>3 DEF Proc
  <2>9. Budget'
    BY <2>8 DEF Budget
  <2>. QED
    BY <2>7, <2>9 DEF AttemptInv
<1>. QED
  BY <1>2, <1>3

(* A sweep reads a count that leaves an attempt only while there is room.   *)
LEMMA SweepKeepsAttempts ==
  ASSUME QueueInv, AttemptInv, NEW t \in Task, Sweep(t)
  PROVE  AttemptInv'
<1>1. PICK i \in Call : /\ queue[i].status = "QUEUED"
                       /\ picked' = [picked EXCEPT ![t] = i]
                       /\ seen' = [seen EXCEPT ![t] = queue[i].attempts]
  BY DEF Sweep
<1>2. /\ UNCHANGED <<queue, draftItem>> /\ pc[t] = "idle"
      /\ \A q \in Proc \ {t} : pc'[q] = pc[q]
      /\ pc'[t] = "mark" /\ draftItem[t] = NoItem
  BY DEF Sweep, drafts, tables, Goto, QueueInv, TypeOK, Proc
<1>3. /\ \A u \in Task \ {t} : picked'[u] = picked[u] /\ seen'[u] = seen[u]
      /\ picked'[t] = i /\ seen'[t] = queue[i].attempts
  BY <1>1 DEF QueueInv, TypeOK
<1>4. AttemptDrafts'
  BY <1>2, <1>3 DEF AttemptInv, AttemptDrafts, Proc
<1>5. ASSUME NEW j \in Call, queue[j] # NoItem, queue[j].attempts > 0
      PROVE  queue[j].attempts + Cardinality(Stale(j)') + (IF queue[j].status = "QUEUED" THEN 2 ELSE 1)
             =< MaxAttempts + Cardinality(Task)
  <2>1. queue[j].attempts \in Nat
    BY <1>5 DEF QueueInv, TypeOK, Item
  <2>2. CASE j = i /\ queue[i].attempts + 1 < MaxAttempts
    <3>1. Cardinality(Stale(j)') =< Cardinality(Task) /\ Cardinality(Stale(j)') \in Nat
      <4>1. Stale(j)' \subseteq Task
        BY DEF Stale
      <4>. QED
        BY <4>1, FS_Subset, FS_CardinalityType, ProcessAssumption
    <3>. QED
      BY <1>1, <2>1, <2>2, <3>1, StaleCounts, AttemptsAssumption
  <2>3. CASE ~(j = i /\ queue[i].attempts + 1 < MaxAttempts)
    <3>1. Stale(j)' \subseteq Stale(j)
      BY <1>3, <2>3 DEF Stale
    <3>. QED
      BY <1>5, <2>1, <3>1, StaleShrinks, StaleCounts, AttemptsAssumption DEF AttemptInv, Budget
  <2>. QED
    BY <2>2, <2>3
<1>6. Budget'
  BY <1>2, <1>5 DEF Budget
<1>. QED
  BY <1>4, <1>6 DEF AttemptInv

LEMMA AttemptInit == Init => AttemptInv
  BY DEF Init, AttemptInv, Budget, AttemptDrafts, NoItem, Proc

(* The statements of a call count no attempt.                               *)
LEMMA CallKeepsAttempts ==
  ASSUME QueueInv, QueueInv', AttemptInv, NEW c \in Call, Begin(c) \/ CallStep(c)
  PROVE  AttemptInv'
<1>1. c \in Proc /\ c \notin Task
  BY ProcessAssumption DEF Proc
<1>2. CASE Commit(c)
  BY <1>1, <1>2, CommitKeepsAttempts
<1>3. CASE Rollback(c)
  BY <1>1, <1>3, RollbackKeepsAttempts DEF Rollback, tables
<1>4. CASE ~Commit(c) /\ ~Rollback(c)
  <2>1. UNCHANGED <<queue, picked, seen>>
    BY <1>4 DEF Begin, CallStep, LookUp, InsertInvoice, InsertBill, Enqueue, Transition,
                CheckWindow, MarkExpired, CancelBill, Stays, tables
  <2>2. \E l : Goto(c, l)
    BY <1>4 DEF Begin, CallStep, LookUp, InsertInvoice, InsertBill, Enqueue, Transition,
                CheckWindow, MarkExpired, CancelBill
  <2>3. UNCHANGED draftItem \/ \E item : item.attempts = 0 /\ WriteItem(c, item)
    BY <1>4 DEF Begin, CallStep, LookUp, InsertInvoice, InsertBill, Enqueue, Transition,
                CheckWindow, MarkExpired, CancelBill, drafts
  <2>4. /\ \A q \in Proc \ {c} : draftItem'[q] = draftItem[q] /\ pc'[q] = pc[q]
        /\ draftItem'[c] # NoItem => draftItem'[c].attempts = 0
    BY <1>1, <2>2, <2>3 DEF Goto, WriteItem, QueueInv, TypeOK, AttemptInv, AttemptDrafts
  <2>. QED
    BY <1>1, <2>1, <2>4, AttemptWalks
<1>. QED
  BY <1>2, <1>3, <1>4

(* The statements of a task: an attempt is counted by MarkInProgress, of a  *)
(* row that is QUEUED, and nowhere else.                                    *)
LEMMA TaskKeepsAttempts ==
  ASSUME QueueInv, QueueInv', AttemptInv, NEW t \in Task, TaskStep(t)
  PROVE  AttemptInv'
<1>1. t \in Proc /\ t \notin Call
  BY ProcessAssumption DEF Proc
<1>2. CASE Commit(t)
  BY <1>1, <1>2, CommitKeepsAttempts
<1>3. CASE End(t) /\ UNCHANGED queue
  BY <1>1, <1>3, RollbackKeepsAttempts
<1>4. ASSUME UNCHANGED <<draftItem, picked, seen, queue>>, NEW l \in Labels, Goto(t, l),
             l = "commit" => draftItem[t] = NoItem \/ draftItem[t].status # "QUEUED"
      PROVE  AttemptInv'
  <2>1. \A q \in Proc \ {t} : pc'[q] = pc[q]
    BY <1>4 DEF Goto, QueueInv, TypeOK
  <2>2. pc'[t] = l
    BY <1>1, <1>4 DEF Goto, QueueInv, TypeOK
  <2>. QED
    BY <1>1, <1>4, <2>1, <2>2, AttemptWalks DEF AttemptInv, AttemptDrafts
<1>5. CASE MarkInProgress(t)
  <2>1. pc[t] = "mark" /\ Goto(t, "post") /\ UNCHANGED <<picked, seen, queue>> /\ "post" \in Labels
    BY <1>5 DEF MarkInProgress, Stays, tables, Labels
  <2>2. CASE queue[picked[t]].status # "QUEUED"
    BY <1>4, <1>5, <2>1, <2>2 DEF MarkInProgress
  <2>3. CASE queue[picked[t]].status = "QUEUED"
    <3> DEFINE marked == [queue[picked[t]] EXCEPT !.status = "IN_PROGRESS", !.attempts = @ + 1]
    <3>1. queue[picked[t]] \in Item /\ queue[picked[t]].attempts \in Nat
      BY <1>1, <2>1 DEF QueueInv, TypeOK, Picks, Item
    <3>2. marked.attempts = queue[picked[t]].attempts + 1
      BY <3>1 DEF Item
    <3>3. WriteItem(t, marked)
      BY <1>5, <2>3 DEF MarkInProgress
    <3> HIDE DEF marked
    <3>4. /\ draftItem'[t] = marked /\ pc'[t] = "post"
          /\ \A q \in Proc \ {t} : draftItem'[q] = draftItem[q] /\ pc'[q] = pc[q]
      BY <1>1, <2>1, <3>3 DEF WriteItem, Goto, QueueInv, TypeOK
    <3>5. marked.attempts =< queue[picked[t]].attempts + 1
      BY <3>1, <3>2
    <3>. QED
      BY <1>1, <2>1, <2>3, <3>4, <3>5, AttemptWalks
  <2>. QED
    BY <2>2, <2>3
<1>6. CASE Post(t)
  <2>1. UNCHANGED <<draftItem, picked, seen, queue>>
    BY <1>6 DEF Post, drafts, tables
  <2>2. PICK l \in {"ok", "refused", "retry", "broken"} : Goto(t, l)
    BY <1>6 DEF Post
  <2>. QED
    BY <1>4, <2>1, <2>2 DEF Labels
<1>7. CASE Finish(t) \/ GiveUp(t)
  <2>1. CASE ~Rollback(t)
    <3>1. PICK status \in {"SUCCESS", "PERMANENTLY_FAILED"}, l \in {"record", "fail"} :
            /\ Goto(t, l) /\ WriteItem(t, [Latest(t) EXCEPT !.status = status])
            /\ UNCHANGED <<picked, seen, queue>> /\ pc[t] \notin {"idle", "done"}
      BY <1>7, <2>1 DEF Finish, GiveUp, Stays, tables
    <3>2. [Latest(t) EXCEPT !.status = status].attempts = Latest(t).attempts
      BY <3>1, LatestIsItem DEF Item
    <3>. QED
      BY <3>1, <3>2, RewriteKeepsAttempts DEF Labels
  <2>. QED
    BY <1>3, <2>1 DEF Rollback, tables
<1>8. CASE Record(t) \/ RecordFailure(t)
  <2>1. CASE ~Rollback(t)
    <3>1. /\ Goto(t, "commit") /\ UNCHANGED <<draftItem, picked, seen, queue>>
          /\ pc[t] \in {"record", "fail"}
      BY <1>8, <2>1 DEF Record, RecordFailure, Stays, tables, drafts
    <3>2. draftItem[t].status # "QUEUED"
      BY <3>1 DEF QueueInv, Results
    <3>. QED
      BY <1>4, <3>1, <3>2 DEF Labels
  <2>. QED
    BY <1>3, <2>1 DEF Rollback, tables
<1>9. CASE Retry(t)
  <2>1. pc[t] = "retry" /\ UNCHANGED queue
    BY <1>9 DEF Retry, tables
  <2>2. CASE Goto(t, "exhausted") /\ UNCHANGED <<request, picked, seen, drafts>>
    BY <1>4, <2>1, <2>2 DEF drafts, Labels
  <2>3. CASE ~End(t) /\ ~(Goto(t, "exhausted") /\ UNCHANGED <<request, picked, seen, drafts>>)
    <3>1. /\ WriteItem(t, [Latest(t) EXCEPT !.status = "QUEUED", !.resting = TRUE])
          /\ Goto(t, "commit") /\ UNCHANGED <<picked, seen>> /\ ~Exhausted(t)
      BY <1>9, <2>3 DEF Retry
    <3>2. [Latest(t) EXCEPT !.status = "QUEUED", !.resting = TRUE].attempts = Latest(t).attempts
      BY <2>1, LatestIsItem DEF Item
    <3>3. seen[t] + 1 < MaxAttempts
      BY <3>1, AttemptsAssumption DEF Exhausted, QueueInv, TypeOK
    <3>. QED
      BY <2>1, <3>1, <3>2, <3>3, RewriteKeepsAttempts DEF Labels
  <2>. QED
    BY <1>3, <2>1, <2>2, <2>3
<1>. QED
  BY <1>2, <1>5, <1>6, <1>7, <1>8, <1>9 DEF TaskStep

LEMMA AttemptNext == QueueInv /\ QueueInv' /\ AttemptInv /\ [Next]_vars => AttemptInv'
<1> SUFFICES ASSUME QueueInv, QueueInv', AttemptInv, [Next]_vars PROVE AttemptInv'
  OBVIOUS
<1>1. ASSUME NEW i \in Call, Elapse(i) PROVE AttemptInv'
  <2>1. UNCHANGED <<pc, picked, seen, draftItem>>
    BY <1>1 DEF Elapse, drafts
  <2>2. \A j \in Call : /\ queue'[j].attempts = queue[j].attempts
                        /\ queue'[j].status = queue[j].status
                        /\ (queue'[j] = NoItem) <=> (queue[j] = NoItem)
    BY <1>1 DEF Elapse, QueueInv, TypeOK, Item, NoItem
  <2>3. Budget'
    <3>1. \A j : Stale(j)' = Stale(j)
      BY <2>1 DEF Stale
    <3>. QED
      BY <2>2, <3>1 DEF AttemptInv, Budget
  <2>4. \A t \in Task : draftItem[t] # NoItem => picked[t] \in Call
    BY DEF QueueInv, TypeOK, Picks, Proc
  <2>5. AttemptDrafts'
    <3>1. ASSUME NEW t \in Task, draftItem[t] # NoItem
          PROVE  /\ queue'[picked[t]].attempts = queue[picked[t]].attempts
                 /\ queue'[picked[t]].status = queue[picked[t]].status
      BY <2>2, <2>4, <3>1
    <3>. QED
      BY <2>1, <3>1 DEF AttemptInv, AttemptDrafts
  <2>. QED
    BY <2>3, <2>5 DEF AttemptInv
<1>2. ASSUME NEW p \in Proc, Fail(p) PROVE AttemptInv'
  BY <1>2, RollbackKeepsAttempts DEF Fail, Rollback, tables
<1>3. CASE (\E d \in Invoice : LetWindowPass(d)) \/ UNCHANGED vars
  <2>1. UNCHANGED <<pc, picked, seen, draftItem, queue>>
    BY <1>3 DEF LetWindowPass, vars, drafts, tables
  <2>. QED
    BY <2>1 DEF AttemptInv, Budget, Stale, AttemptDrafts
<1>. QED
  BY <1>1, <1>2, <1>3, CallKeepsAttempts, SweepKeepsAttempts, TaskKeepsAttempts DEF Next

(* An item is given up after max_attempts, or one attempt more for each     *)
(* task that had read an older count.                                       *)
THEOREM BoundedAttempts == Spec => []AttemptsAreBounded
<1>1. QueueInv /\ AttemptInv => AttemptsAreBounded
  <2> SUFFICES ASSUME QueueInv, AttemptInv, NEW i \in Call, queue[i] # NoItem
               PROVE  queue[i].attempts < MaxAttempts + Cardinality(Task)
    BY DEF AttemptsAreBounded
  <2>1. queue[i].attempts \in Nat
    BY DEF QueueInv, TypeOK, Item
  <2>. QED
    BY <2>1, StaleCounts, AttemptsAssumption DEF AttemptInv, Budget
<1>. QED
  BY <1>1, AttemptInit, AttemptNext, QueueCorrect, PTL DEF Spec

-----------------------------------------------------------------------------
(* The rows and documents of one submission.  A row's document is there.    *)
Documented == \A i \in Call : queue[i] # NoItem => doc[queue[i].doc] # "none"

(* Someone's committed item, or c's own, generates the document of c.       *)
Generates(c) ==
    \/ \E i \in Call : queue[i] # NoItem /\ queue[i].doc = about[c] /\ queue[i].op = "GENERATE"
    \/ draftItem[c] # NoItem /\ draftItem[c].doc = about[c] /\ draftItem[c].op = "GENERATE"

(* From its first statement to its COMMIT call c is the only one to create  *)
(* its e-way bill.                                                          *)
BillIsNew(c) ==
    kind[c] = "bill" /\ pc[c] \notin {"idle", "done"} =>
       /\ doc[about[c]] = "none"
       /\ \A b \in Call \ {c} :
             kind[b] = "bill" /\ pc[b] \notin {"idle", "done"} => about[b] # about[c]

(* What call c has written when it comes to a statement: whoever finds no   *)
(* committed document has one of its own to queue.                          *)
Submitting(c) ==
    /\ pc[c] \in Kind => kind[c] = pc[c]
    /\ pc[c] \notin {"idle", "done"} =>
          (about[c] \in Bill <=> kind[c] \in {"bill", "cancelBill"})
    /\ pc[c] = "insert" => kind[c] = "generate"
    /\ pc[c] \in {"transition", "expire"} => doc[about[c]] # "none"
    /\ pc[c] = "enqueue" /\ doc[about[c]] = "none" =>
          kind[c] \in {"generate", "bill"} /\ draftDoc[c] # "none"
    /\ pc[c] = "commit" => draftDoc[c] # "none" /\ (doc[about[c]] = "none" => Generates(c))
    /\ draftItem[c] # NoItem => draftItem[c].doc = about[c]
    /\ draftDoc[c] = "QUEUED" =>
          /\ kind[c] = "bill"
          /\ pc[c] = "commit" => draftItem[c] # NoItem /\ draftItem[c].op = "GENERATE"
    /\ draftDoc[c] # "none" /\ doc[about[c]] = "none" /\ about[c] \in Bill => kind[c] = "bill"

SubmitInv ==
    /\ Documented /\ SubmissionIsAtomic
    /\ \A c \in Call : BillIsNew(c) /\ Submitting(c)
    /\ \A t \in Task : draftDoc[t] # "QUEUED"

LEMMA SubmitInit == Init => SubmitInv
  BY DEF Init, SubmitInv, Documented, SubmissionIsAtomic, BillIsNew, Submitting, Generates,
         NoItem, Proc, Kind

(* A step of p that commits nothing: what others have written stays as it   *)
(* is, and p answers for what it writes itself.                             *)
LEMMA SubmitWalks ==
  ASSUME SubmitInv, NEW p \in Proc, UNCHANGED <<queue, doc>>,
         \A q \in Proc \ {p} :
            draftItem'[q] = draftItem[q] /\ draftDoc'[q] = draftDoc[q] /\ pc'[q] = pc[q],
         \A c \in Call \ {p} : kind'[c] = kind[c] /\ about'[c] = about[c],
         p \in Task => draftDoc'[p] # "QUEUED",
         p \in Call => BillIsNew(p)' /\ Submitting(p)'
  PROVE  SubmitInv'
<1>1. Documented' /\ SubmissionIsAtomic'
  BY DEF SubmitInv, Documented, SubmissionIsAtomic
<1>2. ASSUME NEW c \in Call, c # p PROVE BillIsNew(c)' /\ Submitting(c)'
  <2>1. c \in Proc \ {p}
    BY <1>2 DEF Proc
  <2>2. BillIsNew(c)'
    <3> SUFFICES ASSUME kind[c] = "bill", pc[c] \notin {"idle", "done"},
                        NEW b \in Call \ {c}, kind'[b] = "bill", pc'[b] \notin {"idle", "done"}
                 PROVE  about'[b] # about[c]
      BY <1>2, <2>1 DEF SubmitInv, BillIsNew
    <3>1. CASE b = p
      BY <1>2, <2>1, <3>1 DEF BillIsNew
    <3>2. CASE b # p
      BY <3>2 DEF SubmitInv, BillIsNew, Proc
    <3>. QED
      BY <3>1, <3>2
  <2>3. Submitting(c)'
    <3>1. Generates(c)' = Generates(c)
      BY <1>2, <2>1 DEF Generates
    <3>. QED
      BY <1>2, <2>1, <3>1 DEF SubmitInv, Submitting
  <2>. QED
    BY <2>2, <2>3
<1>3. \A t \in Task : draftDoc'[t] # "QUEUED"
  BY DEF SubmitInv, Proc
<1>. QED
  BY <1>1, <1>2, <1>3 DEF SubmitInv

LEMMA RollbackKeepsSubmits ==
  ASSUME QueueInv, SubmitInv, NEW p \in Proc, End(p), UNCHANGED <<queue, doc>>
  PROVE  SubmitInv'
<1>1. /\ draftItem'[p] = NoItem /\ draftDoc'[p] = "none"
      /\ \A q \in Proc \ {p} :
            draftItem'[q] = draftItem[q] /\ draftDoc'[q] = draftDoc[q] /\ pc'[q] = pc[q]
  BY DEF End, Goto, WriteItem, WriteDoc, QueueInv, TypeOK
<1>2. \A c \in Call \ {p} : kind'[c] = kind[c] /\ about'[c] = about[c]
  BY DEF End, QueueInv, TypeOK
<1>3. p \in Call => pc'[p] = "done"
  BY DEF End, Goto, QueueInv, TypeOK
<1>4. p \in Call => BillIsNew(p)' /\ Submitting(p)'
  BY <1>1, <1>3 DEF BillIsNew, Submitting, Kind
<1>. QED
  BY <1>1, <1>2, <1>4, SubmitWalks

(* A statement of call c, which moves on from one statement to another.     *)
LEMMA CallSubmits ==
  ASSUME QueueInv, SubmitInv, NEW c \in Call, pc[c] \notin {"idle", "done"},
         NEW l \in Labels \ Kind, l \notin {"idle", "done"}, Goto(c, l), Stays,
         NEW item \in Item \cup {NoItem}, draftItem' = [draftItem EXCEPT ![c] = item],
         NEW s \in Status, draftDoc' = [draftDoc EXCEPT ![c] = s],
         l = "insert" => kind[c] = "generate",
         l \in {"transition", "expire"} => doc[about[c]] # "none",
         l = "enqueue" /\ doc[about[c]] = "none" =>
            kind[c] \in {"generate", "bill"} /\ s # "none",
         l = "commit" => s # "none" /\ (doc[about[c]] = "none" => Generates(c)'),
         item # NoItem => item.doc = about[c],
         s = "QUEUED" => /\ kind[c] = "bill"
                         /\ l = "commit" => item # NoItem /\ item.op = "GENERATE",
         s # "none" /\ doc[about[c]] = "none" /\ about[c] \in Bill => kind[c] = "bill"
  PROVE  SubmitInv'
<1>1. /\ c \in Proc /\ c \notin Task /\ UNCHANGED <<queue, doc, kind, about>>
      /\ draftItem'[c] = item /\ draftDoc'[c] = s /\ pc'[c] = l
      /\ \A q \in Proc \ {c} :
            draftItem'[q] = draftItem[q] /\ draftDoc'[q] = draftDoc[q] /\ pc'[q] = pc[q]
  BY ProcessAssumption DEF Stays, request, tables, Goto, QueueInv, TypeOK, Proc
<1>2. BillIsNew(c)'
  <2>1. \A b \in Call \ {c} : b \in Proc \ {c}
    BY DEF Proc
  <2>. QED
    BY <1>1, <2>1 DEF SubmitInv, BillIsNew
<1>3. Submitting(c)'
  BY <1>1 DEF SubmitInv, Submitting
<1>. QED
  BY <1>1, <1>2, <1>3, SubmitWalks

(* The drafts of c, written or left, in the terms of the lemma above.       *)
LEMMA DraftsOf ==
  ASSUME QueueInv, NEW c \in Call
  PROVE  /\ draftItem[c] \in Item \cup {NoItem} /\ draftDoc[c] \in Status
         /\ draftItem = [draftItem EXCEPT ![c] = draftItem[c]]
         /\ draftDoc = [draftDoc EXCEPT ![c] = draftDoc[c]]
  BY DEF QueueInv, TypeOK, Proc

LEMMA BeginKeepsSubmits ==
  ASSUME QueueInv, SubmitInv, NEW c \in Call, Begin(c)
  PROVE  SubmitInv'
<1>1. PICK k \in Kind, d \in Doc :
         /\ (d \in Bill) = (k \in {"bill", "cancelBill"})
         /\ k = "bill" => doc[d] = "none" /\ \A b \in Call :
                             pc[b] # "idle" /\ kind[b] = "bill" => about[b] # d
         /\ kind' = [kind EXCEPT ![c] = k]
         /\ about' = [about EXCEPT ![c] = d]
         /\ Goto(c, k)
  BY DEF Begin
<1>2. /\ c \in Proc /\ c \notin Task /\ UNCHANGED <<queue, doc, draftItem, draftDoc>>
      /\ pc[c] = "idle" /\ draftItem[c] = NoItem /\ draftDoc[c] = "none"
  BY ProcessAssumption DEF Begin, tables, drafts, QueueInv, TypeOK, Proc
<1>3. /\ kind'[c] = k /\ about'[c] = d /\ pc'[c] = k
      /\ \A b \in Call \ {c} : kind'[b] = kind[b] /\ about'[b] = about[b]
      /\ \A q \in Proc \ {c} : pc'[q] = pc[q]
  BY <1>1, <1>2 DEF Goto, QueueInv, TypeOK
<1>4. BillIsNew(c)'
  <2>1. \A b \in Call \ {c} : b \in Proc \ {c}
    BY DEF Proc
  <2>. QED
    BY <1>1, <1>2, <1>3, <2>1 DEF BillIsNew
<1>5. Submitting(c)'
  BY <1>1, <1>2, <1>3 DEF Submitting, Kind
<1>. QED
  BY <1>2, <1>3, <1>4, <1>5, SubmitWalks

(* A call that finds no committed document queues an item for its own: only *)
(* a committed one, found again, spares it the INSERT.                      *)
LEMMA EnqueueKeepsSubmits ==
  ASSUME QueueInv, SubmitInv, NEW c \in Call, Enqueue(c)
  PROVE  SubmitInv'
<1> DEFINE new == [doc |-> about[c], op |-> OpOf(c), status |-> "QUEUED",
                   attempts |-> 0, resting |-> FALSE]
<1>0. /\ pc[c] = "enqueue" /\ Stays /\ UNCHANGED draftDoc
      /\ IF Queued(c) THEN UNCHANGED draftItem ELSE WriteItem(c, new)
  BY DEF Enqueue
<1>1. new \in Item /\ new.doc = about[c] /\ new.op = OpOf(c) /\ new # NoItem
  BY DEF QueueInv, TypeOK, Item, OpOf, NoItem
<1> HIDE DEF new
<1>2. Submitting(c) /\ BillIsNew(c) /\ Documented
  BY DEF SubmitInv
<1>3. PICK item \in Item \cup {NoItem} :
         /\ draftItem' = [draftItem EXCEPT ![c] = item]
         /\ item = IF Queued(c) THEN draftItem[c] ELSE new
  BY <1>0, <1>1, DraftsOf DEF WriteItem
<1>4. Queued(c) => \E i \in Call : /\ queue[i] # NoItem /\ queue[i].doc = about[c]
                                   /\ queue[i].op = OpOf(c)
  BY DEF Queued, SameKey, Active, NoItem
<1>5. doc[about[c]] = "none" => ~Queued(c) /\ OpOf(c) = "GENERATE" /\ draftDoc[c] # "none"
  BY <1>0, <1>2, <1>4 DEF Documented, Submitting, OpOf
<1>6. draftItem'[c] = item /\ UNCHANGED <<queue, about>>
  BY <1>3 DEF QueueInv, TypeOK, Proc, Stays, tables, request, Enqueue
<1>7. doc[about[c]] = "none" => Generates(c)'
  BY <1>1, <1>3, <1>5, <1>6 DEF Generates
<1>8. item # NoItem => item.doc = about[c]
  BY <1>1, <1>2, <1>3 DEF Submitting
<1>9. draftDoc[c] = "QUEUED" => kind[c] = "bill" /\ item # NoItem /\ item.op = "GENERATE"
  <2>1. draftDoc[c] = "QUEUED" => kind[c] = "bill" /\ doc[about[c]] = "none"
    BY <1>0, <1>2 DEF Submitting, BillIsNew
  <2>. QED
    BY <1>1, <1>3, <1>5, <2>1
<1>10. PICK l \in {"transition", "commit"} :
          Goto(c, l) /\ (l = "transition" <=> draftDoc[c] = "none")
  BY DEF Enqueue
<1>11. draftDoc[c] # "none" /\ doc[about[c]] = "none" /\ about[c] \in Bill => kind[c] = "bill"
  BY <1>2 DEF Submitting
<1>12. draftDoc[c] \in Status /\ draftDoc' = [draftDoc EXCEPT ![c] = draftDoc[c]]
  BY <1>0, DraftsOf
<1>13. l \in Labels \ Kind /\ l \notin {"idle", "done", "insert", "expire", "enqueue"}
  BY DEF Labels, Kind
<1>. QED
  BY ZenonT(60), <1>0, <1>3, <1>5, <1>7, <1>8, <1>9, <1>10, <1>11, <1>12, <1>13, CallSubmits

(* The other statements of a call.                                          *)
LEMMA CallKeepsSubmits ==
  ASSUME QueueInv, SubmitInv, NEW c \in Call,
         \/ LookUp(c) \/ InsertInvoice(c) \/ InsertBill(c) \/ Transition(c)
         \/ CheckWindow(c) \/ MarkExpired(c) \/ CancelBill(c)
  PROVE  SubmitInv'
<1>0. c \in Proc /\ Submitting(c)
  BY DEF Proc, SubmitInv
<1>1. CASE Rollback(c)
  BY <1>0, <1>1, RollbackKeepsSubmits DEF Rollback, tables
<1>2. ASSUME pc[c] \notin {"idle", "done"}, NEW l \in {"insert", "enqueue", "expire"}, Goto(c, l),
             Stays, UNCHANGED drafts,
             l = "insert" => kind[c] = "generate",
             l # "insert" => doc[about[c]] # "none"
      PROVE  SubmitInv'
  <2>1. l \in Labels \ Kind /\ l \notin {"idle", "done", "commit", "transition"}
    BY DEF Labels, Kind
  <2>2. /\ draftItem' = [draftItem EXCEPT ![c] = draftItem[c]]
        /\ draftDoc' = [draftDoc EXCEPT ![c] = draftDoc[c]]
        /\ draftItem[c] \in Item \cup {NoItem} /\ draftDoc[c] \in Status
    BY <1>2, DraftsOf DEF drafts
  <2>3. /\ draftItem[c] # NoItem => draftItem[c].doc = about[c]
        /\ draftDoc[c] = "QUEUED" => kind[c] = "bill"
        /\ draftDoc[c] # "none" /\ doc[about[c]] = "none" /\ about[c] \in Bill => kind[c] = "bill"
    BY <1>0 DEF Submitting
  <2>. QED
    BY <1>2, <2>1, <2>2, <2>3, CallSubmits
<1>3. ASSUME pc[c] \notin {"idle", "done"}, NEW l \in {"enqueue", "commit"}, Goto(c, l), Stays,
             UNCHANGED draftItem, NEW s \in Status \ {"none"}, WriteDoc(c, s),
             l = "commit" => doc[about[c]] # "none" /\ s # "QUEUED",
             s = "QUEUED" => kind[c] = "bill",
             doc[about[c]] = "none" =>
                kind[c] \in {"generate", "bill"} /\ (about[c] \in Bill => kind[c] = "bill")
      PROVE  SubmitInv'
  <2>1. l \in Labels \ Kind /\ l \notin {"idle", "done", "insert", "transition", "expire"}
    BY DEF Labels, Kind
  <2>2. /\ draftItem' = [draftItem EXCEPT ![c] = draftItem[c]]
        /\ draftItem[c] \in Item \cup {NoItem}
        /\ draftDoc' = [draftDoc EXCEPT ![c] = s]
    BY <1>3, DraftsOf DEF WriteDoc
  <2>3. draftItem[c] # NoItem => draftItem[c].doc = about[c]
    BY <1>0 DEF Submitting
  <2>. QED
    BY <1>3, <2>1, <2>2, <2>3, CallSubmits
<1>4. CASE LookUp(c) /\ ~Rollback(c)
  <2>1. kind[c] = "generate"
    BY <1>0, <1>4 DEF LookUp, Submitting, Kind
  <2>2. CASE doc[about[c]] = "FAILED"
    BY <1>2, <1>4, <2>1, <2>2 DEF LookUp
  <2>3. CASE doc[about[c]] # "FAILED"
    BY <1>2, <1>4, <2>1, <2>3 DEF LookUp
  <2>. QED
    BY <2>2, <2>3
<1>5. CASE InsertInvoice(c) /\ ~Rollback(c)
  <2>1. kind[c] = "generate" /\ about[c] \notin Bill
    BY <1>0, <1>5 DEF InsertInvoice, Submitting
  <2>. QED
    BY <1>3, <1>5, <2>1 DEF InsertInvoice, Status
<1>6. CASE InsertBill(c)
  <2>1. kind[c] = "bill"
    BY <1>0, <1>6 DEF InsertBill, Submitting, Kind
  <2>. QED
    BY <1>3, <1>6, <2>1 DEF InsertBill, Status
<1>7. CASE Transition(c) /\ ~Rollback(c)
  <2>1. doc[about[c]] # "none"
    BY <1>0, <1>7 DEF Transition, Submitting
  <2>. QED
    BY <1>3, <1>7, <2>1 DEF Transition, Status
<1>8. CASE CheckWindow(c) /\ ~Rollback(c)
  <2>1. doc[about[c]] # "none" /\ pc[c] \notin {"idle", "done"} /\ Stays /\ UNCHANGED drafts
    BY <1>8 DEF CheckWindow
  <2>2. PICK l \in {"enqueue", "expire"} : Goto(c, l)
    BY <1>8 DEF CheckWindow
  <2>. QED
    BY <1>2, <2>1, <2>2
<1>9. CASE MarkExpired(c)
  <2>1. doc[about[c]] # "none"
    BY <1>0, <1>9 DEF MarkExpired, Submitting
  <2>. QED
    BY <1>3, <1>9, <2>1 DEF MarkExpired, Status
<1>10. CASE CancelBill(c) /\ ~Rollback(c)
  <2>1. doc[about[c]] # "none" /\ Goto(c, "enqueue") /\ WriteDoc(c, "CANCELLED") /\ Stays
        /\ UNCHANGED draftItem /\ pc[c] = "cancelBill"
    BY <1>10 DEF CancelBill
  <2>. QED
    BY <1>3, <2>1 DEF Status
<1>. QED
  BY <1>1, <1>4, <1>5, <1>6, <1>7, <1>8, <1>9, <1>10

(* COMMIT brings in a document only with an item to generate it.            *)
LEMMA CommitKeepsSubmits ==
  ASSUME QueueInv, SubmitInv, NEW p \in Proc, Commit(p)
  PROVE  SubmitInv'
<1>1. /\ End(p) /\ pc[p] = "commit"
      /\ queue' = IF draftItem[p] = NoItem THEN queue
                  ELSE [queue EXCEPT ![RowOf(p)] = draftItem[p]]
      /\ doc' = IF draftDoc[p] = "none" THEN doc ELSE [doc EXCEPT ![DocOf(p)] = draftDoc[p]]
  BY DEF Commit
<1>2. PICK i \in Call : i = RowOf(p)
  BY <1>1 DEF QueueInv, Picks, RowOf, Proc
<1>3. PICK d \in Doc : d = DocOf(p)
  BY <1>1 DEF QueueInv, TypeOK, Picks, DocOf, Proc, Item
<1>4. /\ \A j \in Call \ {i} : queue'[j] = queue[j]
      /\ queue'[i] = IF draftItem[p] = NoItem THEN queue[i] ELSE draftItem[p]
      /\ \A e \in Doc \ {d} : doc'[e] = doc[e]
      /\ doc'[d] = IF draftDoc[p] = "none" THEN doc[d] ELSE draftDoc[p]
  BY <1>1, <1>2, <1>3 DEF QueueInv, TypeOK
<1>5. p \in Call => i = p /\ d = about[p] /\ queue[p] = NoItem
  BY <1>1, <1>2, <1>3 DEF RowOf, DocOf, QueueInv, NewRows
<1>6. p \in Task => /\ i = picked[p] /\ queue[i] # NoItem /\ d = queue[i].doc
                   /\ doc[d] # "none"
  BY <1>1, <1>2, <1>3, ProcessAssumption DEF RowOf, DocOf, QueueInv, Picks, SubmitInv, Documented
<1>7. draftItem[p] # NoItem => draftItem[p].doc = d
  BY <1>5, <1>6 DEF SubmitInv, Submitting, QueueInv, Stages, TaskDrafts, Proc
<1>8. ASSUME NEW j \in Call, queue[j] # NoItem
      PROVE  queue'[j] # NoItem /\ queue'[j].doc = queue[j].doc /\ queue'[j].op = queue[j].op
  BY <1>4, <1>5, <1>6, <1>8 DEF QueueInv, Stages, TaskDrafts, Proc
<1>9. \A e \in Doc : doc[e] # "none" => doc'[e] # "none"
  BY <1>4
<1>10. \A j \in Call : queue[j] # NoItem => queue[j].doc \in Doc
  BY DEF QueueInv, TypeOK, Item
<1>11. draftItem[p] # NoItem => doc'[d] # "none"
  BY <1>1, <1>4, <1>5, <1>6 DEF SubmitInv, Submitting, Proc
<1>12. Documented'
  BY <1>4, <1>7, <1>8, <1>9, <1>10, <1>11 DEF SubmitInv, Documented
<1>13. SubmissionIsAtomic'
  <2> SUFFICES ASSUME NEW e \in Doc, doc'[e] # "none"
               PROVE  \E j \in Call : /\ queue'[j] # NoItem /\ queue'[j].doc = e
                                      /\ queue'[j].op = "GENERATE"
                                      /\ doc'[e] = "QUEUED" => queue'[j].status = "QUEUED"
    BY DEF SubmissionIsAtomic
  <2>1. CASE doc[e] # "none" /\ p \in Call
    <3>1. PICK j \in Call : /\ queue[j] # NoItem /\ queue[j].doc = e /\ queue[j].op = "GENERATE"
                            /\ doc[e] = "QUEUED" => queue[j].status = "QUEUED"
      BY <2>1 DEF SubmitInv, SubmissionIsAtomic
    <3>2. j # i /\ queue'[j] = queue[j]
      BY <1>4, <1>5, <2>1, <3>1
    <3>3. doc'[e] = "QUEUED" => doc[e] = "QUEUED"
      BY <1>1, <1>4, <1>5, <2>1 DEF SubmitInv, Submitting, BillIsNew
    <3>. QED
      BY <3>1, <3>2, <3>3
  <2>2. CASE doc[e] # "none" /\ p \in Task
    <3>1. PICK j \in Call : /\ queue[j] # NoItem /\ queue[j].doc = e /\ queue[j].op = "GENERATE"
                            /\ doc[e] = "QUEUED" => queue[j].status = "QUEUED"
      BY <2>2 DEF SubmitInv, SubmissionIsAtomic
    <3>2. doc'[e] = "QUEUED" => doc[e] = "QUEUED" /\ (e = d => draftDoc[p] = "none")
      BY <1>4, <2>2 DEF SubmitInv
    <3>3. doc'[e] = "QUEUED" => queue'[j].status = "QUEUED"
      <4>1. CASE j # i \/ draftItem[p] = NoItem
        BY <1>4, <3>1, <3>2, <4>1
      <4>2. CASE j = i /\ draftItem[p] # NoItem
        <5>1. /\ queue'[i] = draftItem[p] /\ draftItem[p].op = "GENERATE" /\ e = d
              /\ draftItem[p] \in Item /\ draftItem[p].status # "IN_PROGRESS"
              /\ Told(draftItem[p], draftDoc[p])
          BY <1>1, <1>4, <1>6, <2>2, <3>1, <4>2
             DEF QueueInv, Stages, TaskDrafts, Results, TypeOK, Proc
        <5>2. draftItem[p].status \in {"QUEUED", "IN_PROGRESS", "SUCCESS", "PERMANENTLY_FAILED"}
          BY <5>1 DEF Item
        <5>. QED
          BY <3>2, <4>2, <5>1, <5>2 DEF Told
      <4>. QED
        BY <4>1, <4>2
    <3>. QED
      BY <1>8, <3>1, <3>3
  <2>3. CASE doc[e] = "none"
    <3>1. e = d /\ p \in Call
      BY <1>4, <1>6, <2>3 DEF Proc
    <3>2. Generates(p)
      BY <1>1, <1>5, <2>3, <3>1 DEF SubmitInv, Submitting
    <3>3. CASE draftItem[p] # NoItem /\ draftItem[p].op = "GENERATE"
      <4>1. queue'[p] = draftItem[p] /\ draftItem[p].status = "QUEUED"
        BY <1>4, <1>5, <3>1, <3>3 DEF QueueInv, Stages, CallDrafts
      <4>. QED
        BY <1>7, <3>1, <3>3, <4>1
    <3>4. CASE ~(draftItem[p] # NoItem /\ draftItem[p].op = "GENERATE")
      <4>1. PICK j \in Call : queue[j] # NoItem /\ queue[j].doc = e /\ queue[j].op = "GENERATE"
        BY <1>5, <3>1, <3>2, <3>4 DEF Generates
      <4>. QED
        BY <2>3, <4>1 DEF SubmitInv, Documented
    <3>. QED
      BY <3>3, <3>4
  <2>. QED
    BY <2>1, <2>2, <2>3 DEF Proc
<1>14. /\ \A q \in Proc \ {p} :
            draftItem'[q] = draftItem[q] /\ draftDoc'[q] = draftDoc[q] /\ pc'[q] = pc[q]
       /\ draftItem'[p] = NoItem /\ draftDoc'[p] = "none"
       /\ \A c \in Call \ {p} : kind'[c] = kind[c] /\ about'[c] = about[c]
       /\ p \in Call => pc'[p] = "done"
  BY <1>1 DEF End, Goto, WriteItem, WriteDoc, QueueInv, TypeOK
<1>15. ASSUME NEW c \in Call, c # p PROVE BillIsNew(c)' /\ Submitting(c)'
  <2>0. c \in Proc \ {p} /\ about[c] \in Doc
    BY <1>15 DEF Proc, QueueInv, TypeOK
  <2>1. BillIsNew(c)'
    <3>1. SUFFICES ASSUME kind[c] = "bill", pc[c] \notin {"idle", "done"}
                   PROVE  /\ doc'[about[c]] = "none"
                          /\ \A b \in Call \ {c} :
                                kind'[b] = "bill" /\ pc'[b] \notin {"idle", "done"}
                                => about'[b] # about[c]
      BY <1>14, <1>15, <2>0 DEF BillIsNew
    <3>2. doc[about[c]] = "none" /\ about[c] \in Bill
      BY <3>1 DEF SubmitInv, BillIsNew, Submitting
    <3>3. about[c] # d
      <4>1. CASE p \in Task
        BY <1>6, <3>2, <4>1
      <4>2. CASE p \in Call
        <5>1. about[c] = d => kind[p] = "bill"
          BY <1>1, <1>5, <3>2, <4>2 DEF SubmitInv, Submitting
        <5>. QED
          BY <1>1, <1>5, <1>15, <3>1, <4>2, <5>1 DEF SubmitInv, BillIsNew
      <4>. QED
        BY <4>1, <4>2 DEF Proc
    <3>4. ASSUME NEW b \in Call \ {c}, kind'[b] = "bill", pc'[b] \notin {"idle", "done"}
          PROVE  about'[b] # about[c]
      <4>1. b # p /\ b \in Proc
        BY <1>14, <3>4 DEF Proc
      <4>. QED
        BY <1>14, <3>1, <3>4, <4>1 DEF SubmitInv, BillIsNew
    <3>. QED
      BY <1>4, <2>0, <3>2, <3>3, <3>4
  <2>2. Generates(c) => Generates(c)'
    BY <1>8, <1>14, <1>15, <2>0 DEF Generates
  <2>3. doc'[about[c]] = "none" => doc[about[c]] = "none"
    BY <1>9, <2>0
  <2>4. Submitting(c)'
    BY <1>14, <1>15, <2>0, <2>2, <2>3 DEF SubmitInv, Submitting
  <2>. QED
    BY <2>1, <2>4
<1>16. p \in Call => BillIsNew(p)' /\ Submitting(p)'
  BY <1>14 DEF BillIsNew, Submitting, Kind
<1>17. \A t \in Task : draftDoc'[t] # "QUEUED"
  BY <1>14 DEF SubmitInv, Proc
<1>. QED
  BY <1>12, <1>13, <1>15, <1>16, <1>17 DEF SubmitInv

(* A task writes the document of a result, and a result is not QUEUED.      *)
LEMMA TaskKeepsSubmits ==
  ASSUME QueueInv, SubmitInv, NEW t \in Task, Sweep(t) \/ TaskStep(t)
  PROVE  SubmitInv'
<1>1. t \in Proc /\ t \notin Call
  BY ProcessAssumption DEF Proc
<1>2. CASE Commit(t)
  BY <1>1, <1>2, CommitKeepsSubmits
<1>3. CASE End(t) /\ UNCHANGED tables
  BY <1>1, <1>3, RollbackKeepsSubmits DEF tables
<1>4. CASE ~Commit(t) /\ ~(End(t) /\ UNCHANGED tables)
  <2>1. UNCHANGED <<queue, doc, kind, about>>
    BY <1>4 DEF Sweep, TaskStep, MarkInProgress, Post, Finish, Record, GiveUp, RecordFailure,
                Retry, Stays, Rollback, tables, request
  <2>2. \E l : Goto(t, l)
    BY <1>4 DEF Sweep, TaskStep, MarkInProgress, Post, Finish, Record, GiveUp, RecordFailure,
                Retry, Rollback
  <2>3. UNCHANGED draftItem \/ \E item : WriteItem(t, item)
    BY <1>4 DEF Sweep, TaskStep, MarkInProgress, Post, Finish, Record, GiveUp, RecordFailure,
                Retry, Rollback, drafts
  <2>4. UNCHANGED draftDoc \/ \E s \in {"GENERATED", "CANCELLED", "FAILED"} : WriteDoc(t, s)
    BY <1>4 DEF Sweep, TaskStep, MarkInProgress, Post, Finish, Record, GiveUp, RecordFailure,
                Retry, Rollback, drafts
  <2>5. /\ \A q \in Proc \ {t} :
             draftItem'[q] = draftItem[q] /\ draftDoc'[q] = draftDoc[q] /\ pc'[q] = pc[q]
        /\ draftDoc'[t] # "QUEUED"
    BY <1>1, <2>2, <2>3, <2>4 DEF Goto, WriteItem, WriteDoc, QueueInv, TypeOK, SubmitInv
  <2>. QED
    BY <1>1, <2>1, <2>5, SubmitWalks
<1>. QED
  BY <1>2, <1>3, <1>4

LEMMA SubmitNext == QueueInv /\ SubmitInv /\ [Next]_vars => SubmitInv'
<1> SUFFICES ASSUME QueueInv, SubmitInv, [Next]_vars PROVE SubmitInv'
  OBVIOUS
<1>1. ASSUME NEW c \in Call, CallStep(c) PROVE SubmitInv'
  <2>1. c \in Proc
    BY DEF Proc
  <2>. QED
    BY <1>1, <2>1, EnqueueKeepsSubmits, CallKeepsSubmits, CommitKeepsSubmits DEF CallStep
<1>2. ASSUME NEW i \in Call, Elapse(i) PROVE SubmitInv'
  <2>1. UNCHANGED <<pc, kind, about, draftItem, draftDoc, doc>>
    BY <1>2 DEF Elapse, request, drafts
  <2>2. \A j \in Call : /\ (queue'[j] = NoItem) <=> (queue[j] = NoItem)
                        /\ queue'[j].doc = queue[j].doc /\ queue'[j].op = queue[j].op
                        /\ queue'[j].status = queue[j].status
    BY <1>2 DEF Elapse, QueueInv, TypeOK, Item, NoItem
  <2>3. Documented'
    BY <2>1, <2>2 DEF SubmitInv, Documented
  <2>4. SubmissionIsAtomic'
    BY <2>1, <2>2 DEF SubmitInv, SubmissionIsAtomic
  <2>5. \A c \in Call : BillIsNew(c)'
    BY <2>1 DEF SubmitInv, BillIsNew
  <2>6. \A c \in Call : Submitting(c)'
    <3>1. \A c \in Call : Generates(c) => Generates(c)'
      BY <2>1, <2>2 DEF Generates
    <3>. QED
      BY <2>1, <3>1 DEF SubmitInv, Submitting
  <2>. QED
    BY <2>1, <2>3, <2>4, <2>5, <2>6 DEF SubmitInv
<1>3. ASSUME NEW p \in Proc, Fail(p) PROVE SubmitInv'
  BY <1>3, RollbackKeepsSubmits DEF Fail, Rollback, tables
<1>4. CASE (\E d \in Invoice : LetWindowPass(d)) \/ UNCHANGED vars
  <2>1. UNCHANGED <<pc, kind, about, draftItem, draftDoc, queue, doc>>
    BY <1>4 DEF LetWindowPass, vars, request, drafts, tables
  <2>. QED
    BY <2>1 DEF SubmitInv, Documented, SubmissionIsAtomic, BillIsNew, Submitting, Generates
<1>. QED
  BY <1>1, <1>2, <1>3, <1>4, BeginKeepsSubmits, TaskKeepsSubmits DEF Next

(* A document that is there has a row in the queue to generate it, and an   *)
(* e-way bill that waits has one that is still to be sent.                  *)
THEOREM AtomicSubmission == Spec => []SubmissionIsAtomic
<1>1. SubmitInv => SubmissionIsAtomic
  BY DEF SubmitInv
<1>. QED
  BY <1>1, SubmitInit, SubmitNext, QueueCorrect, PTL DEF Spec

-----------------------------------------------------------------------------
(* What Gst computes and what Payloads declares of it.                      *)

(* Rounding a half twice moves a tax by a paisa at most; the half of an even *)
(* rate is exact.                                                           *)
LEMMA HalvesRound ==
    ASSUME NEW p \in Nat
    PROVE  /\ Rounded(p, 10000) \in Nat /\ Rounded(p, 20000) \in Nat
           /\ 2 * Rounded(p, 20000) - Rounded(p, 10000) \in -1 .. 1
           /\ Rounded(2 * p, 20000) = Rounded(p, 10000)
<1>1. PICK a, b, c : /\ a = (p + 10000) \div 20000 /\ b = (p + 5000) \div 10000
                     /\ c = (2 * p + 10000) \div 20000
  OBVIOUS
<1>2. /\ a \in Int /\ 20000 * a <= p + 10000 /\ p + 10000 < 20000 * a + 20000
      /\ b \in Int /\ 10000 * b <= p + 5000 /\ p + 5000 < 10000 * b + 10000
      /\ c \in Int /\ 20000 * c <= 2 * p + 10000 /\ 2 * p + 10000 < 20000 * c + 20000
  BY <1>1, SMT
<1>3. a \in Nat /\ b \in Nat /\ 2 * a - b \in -1 .. 1 /\ c = b
  BY <1>2, SMT
<1>4. Rounded(p, 20000) = a /\ Rounded(p, 10000) = b /\ Rounded(2 * p, 20000) = c
  BY <1>1, SMT DEF Rounded
<1> QED
  BY <1>3, <1>4, SMT

LEMMA RoundedIsNat ==
    ASSUME NEW v \in Nat, NEW r \in Nat
    PROVE  Tax(v, r) \in Nat /\ HalfTax(v, r) \in Nat /\ 2 * HalfTax(v, r) - Tax(v, r) \in -1 .. 1
<1>1. PICK p : p = v * r
  OBVIOUS
<1>2. p \in Nat
  BY <1>1, SMT
<1> QED
  BY <1>1, <1>2, HalvesRound DEF Tax, HalfTax

LEMMA EvenHalves ==
    ASSUME NEW v \in Nat, NEW r \in Nat, r % 2 = 0
    PROVE  HalfTax(v, r) = Tax(v, SqlHalfRate(r))
<1>1. PICK h : h = (r + 1) \div 2
  OBVIOUS
<1>2. h \in Nat /\ r = 2 * h
  BY <1>1, SMT
<1>3. PICK p : p = v * h
  OBVIOUS
<1>4. p \in Nat /\ v * r = 2 * p
  BY <1>2, <1>3, SMT
<1>5. SqlHalfRate(r) = h
  BY <1>1, SMT DEF SqlHalfRate, Rounded
<1> QED
  BY <1>3, <1>4, <1>5, HalvesRound DEF Tax, HalfTax

-----------------------------------------------------------------------------
(* The components of a tax.                                                 *)
Kinds == {"CGST", "SGST", "UTGST", "IGST", "CESS"}
Parts == [component : Kinds, amount : Nat]
Taxable(i) == i.interstate \in BOOLEAN /\ i.value \in Nat /\ i.rate \in Nat /\ i.cess \in Nat

LEMMA ComponentsAre ==
    ASSUME NEW i, Taxable(i)
    PROVE  /\ Central(i) \in Seq(Parts) /\ Len(Central(i)) >= 1
           /\ buildComponents(i) \in Seq(Parts) /\ Len(buildComponents(i)) >= 1
<1>1. i.value \in Nat /\ i.rate \in Nat /\ i.cess \in Nat
  BY DEF Taxable
<1>2. Tax(i.value, i.rate) \in Nat /\ HalfTax(i.value, i.rate) \in Nat /\ Tax(i.value, i.cess) \in Nat
  BY <1>1, RoundedIsNat
<1>3. \A k \in Kinds, n \in Nat : Component(k, n) \in Parts
  BY DEF Component, Parts
<1>4. "IGST" \in Kinds /\ "CGST" \in Kinds /\ Second(i.region) \in Kinds /\ "CESS" \in Kinds
  BY DEF Kinds, Second
<1>5. /\ Component("IGST", Tax(i.value, i.rate)) \in Parts
      /\ Component("CGST", HalfTax(i.value, i.rate)) \in Parts
      /\ Component(Second(i.region), HalfTax(i.value, i.rate)) \in Parts
      /\ Component("CESS", Tax(i.value, i.cess)) \in Parts
  BY <1>2, <1>3, <1>4
<1>6. Central(i) \in Seq(Parts) /\ Len(Central(i)) >= 1
  BY <1>5 DEF Central
<1>7. OnTop(i) \in Seq(Parts)
  BY <1>5 DEF OnTop
<1>8. /\ Central(i) \o OnTop(i) \in Seq(Parts)
      /\ Len(Central(i) \o OnTop(i)) = Len(Central(i)) + Len(OnTop(i))
  BY <1>6, <1>7
<1>9. Len(Central(i)) \in Nat /\ Len(OnTop(i)) \in Nat
  BY <1>6, <1>7
<1> QED
  BY <1>6, <1>8, <1>9 DEF buildComponents

LEMMA UpToTwo ==
    ASSUME NEW w, w[1] \in Int
    PROVE  /\ SumFunctionOnSet(w, 1 .. 1) = w[1]
           /\ w[2] \in Int => SumFunctionOnSet(w, 1 .. 2) = w[1] + w[2]
<1>1. PICK S, T : S = {} \cup {1} /\ T = S \cup {2}
  OBVIOUS
<1>2. S = 1 .. 1 /\ T = 1 .. 2 /\ 2 \notin S
  BY <1>1
<1>3. Weighs(w, {}) /\ 1 \notin {}
  BY FS_EmptySet DEF Weighs
<1>4. Weighs(w, S) /\ SumFunctionOnSet(w, S) = SumFunctionOnSet(w, {}) + w[1]
  BY <1>1, <1>3, SumOfMore
<1>5. SumFunctionOnSet(w, S) = w[1]
  BY <1>4, SumOfNone
<1>6. ASSUME w[2] \in Int PROVE SumFunctionOnSet(w, T) = w[1] + w[2]
  <2>1. SumFunctionOnSet(w, T) = SumFunctionOnSet(w, S) + w[2]
    BY <1>1, <1>2, <1>4, <1>6, SumOfMore
  <2> QED
    BY <1>5, <2>1
<1> QED
  BY <1>2, <1>5, <1>6

LEMMA SumsOfCentral ==
    ASSUME NEW i, Taxable(i)
    PROVE  /\ i.interstate => SumOf(Central(i)) = Tax(i.value, i.rate)
           /\ ~i.interstate => SumOf(Central(i)) = 2 * HalfTax(i.value, i.rate)
<1>1. i.value \in Nat /\ i.rate \in Nat
  BY DEF Taxable
<1>2. PICK t \in Nat, h \in Nat : t = Tax(i.value, i.rate) /\ h = HalfTax(i.value, i.rate)
  BY <1>1, RoundedIsNat
<1>3. PICK c, w : c = Central(i) /\ w = [n \in DOMAIN c |-> c[n].amount]
  OBVIOUS
<1>4. SumOf(Central(i)) = SumFunctionOnSet(w, DOMAIN c)
  <2>1. SumOf(c) = SumFunction(w) /\ DOMAIN w = DOMAIN c
    BY <1>3 DEF SumOf
  <2> QED
    BY <1>3, <2>1 DEF SumFunction
<1>5. CASE i.interstate
  <2>1. DOMAIN c = 1 .. 1 /\ c[1].amount = t
    BY <1>2, <1>3, <1>5 DEF Central, Component
  <2>2. w[1] = t
    BY <1>3, <2>1
  <2> QED
    BY <1>2, <1>4, <1>5, <2>1, <2>2, UpToTwo
<1>6. CASE ~i.interstate
  <2>1. DOMAIN c = 1 .. 2 /\ c[1].amount = h /\ c[2].amount = h
    BY <1>2, <1>3, <1>6 DEF Central, Component
  <2>2. w[1] = h /\ w[2] = h
    BY <1>3, <2>1
  <2>3. SumFunctionOnSet(w, 1 .. 2) = w[1] + w[2]
    BY <1>2, <2>2, UpToTwo
  <2> QED
    BY <1>2, <1>4, <1>6, <2>1, <2>2, <2>3
<1> QED
  BY <1>5, <1>6

LEMMA CalculateKeepsThem ==
    ASSUME NEW i \in Input, Calculate(i)
    PROVE  PlaceCostsAPaisa' /\ CalculatorsAgree'
<1>1. /\ Taxable(i) /\ i.rate % 2 = 0 /\ i.value \in Nat /\ i.rate \in Nat
      /\ bill'.kind = "tax" /\ bill'.input = i /\ bill'.entries = Entries(i)
  BY GstAssumption DEF Input, Taxable, Calculate
<1>2. PlaceCostsAPaisa'
  <2>1. PICK a, b : a = [i EXCEPT !.interstate = FALSE] /\ b = [i EXCEPT !.interstate = TRUE]
    OBVIOUS
  <2>2. /\ Taxable(a) /\ ~a.interstate /\ a.value = i.value /\ a.rate = i.rate
        /\ Taxable(b) /\ b.interstate /\ b.value = i.value /\ b.rate = i.rate
    BY <1>1, <2>1 DEF Input, Taxable
  <2>3. SumOf(Central(a)) = 2 * HalfTax(i.value, i.rate) /\ SumOf(Central(b)) = Tax(i.value, i.rate)
    BY <2>2, SumsOfCentral
  <2>4. 2 * HalfTax(i.value, i.rate) - Tax(i.value, i.rate) \in -1 .. 1
    BY <1>1, RoundedIsNat
  <2>5. SumOf(Central(a)) - SumOf(Central(b)) \in -1 .. 1
    BY <2>3, <2>4
  <2> QED
    BY <1>1, <2>1, <2>5 DEF PlaceCostsAPaisa
<1>3. CalculatorsAgree'
  <2>1. PICK cs : cs = buildComponents(i)
    OBVIOUS
  <2>2. cs \in Seq(Parts)
    BY <1>1, <2>1, ComponentsAre
  <2>3. HalfTax(i.value, i.rate) = Tax(i.value, SqlHalfRate(i.rate))
    BY <1>1, EvenHalves
  <2>4. determine_tax_components(i) = cs
    BY <2>1, <2>3 DEF determine_tax_components, buildComponents, Central, Second
  <2>5. /\ DOMAIN bill'.entries = DOMAIN cs
        /\ \A n \in DOMAIN cs : /\ bill'.entries[n].component = cs[n].component
                                /\ bill'.entries[n].amount = cs[n].amount
    BY <1>1, <2>1 DEF Entries
  <2>6. \A n \in DOMAIN cs : Component(bill'.entries[n].component, bill'.entries[n].amount) = cs[n]
    <3>1. ASSUME NEW n \in DOMAIN cs
          PROVE  Component(bill'.entries[n].component, bill'.entries[n].amount) = cs[n]
      <4>1. cs[n] \in Parts
        BY <2>2, <3>1
      <4>2. cs[n] = [component |-> cs[n].component, amount |-> cs[n].amount]
        BY <4>1 DEF Parts
      <4> QED
        BY <2>5, <3>1, <4>2 DEF Component
    <3> QED
      BY <3>1
  <2>7. cs = [n \in DOMAIN cs |-> cs[n]]
    BY <2>2
  <2>8. [n \in DOMAIN bill'.entries |-> Component(bill'.entries[n].component, bill'.entries[n].amount)] = cs
    BY <2>5, <2>6, <2>7
  <2> QED
    BY <1>1, <2>4, <2>8 DEF CalculatorsAgree
<1> QED
  BY <1>2, <1>3

-----------------------------------------------------------------------------
(* Digits: counted twice they are still below the base, and still differ.   *)
LEMMA EvenBase == Base \in Nat /\ Base > 0 /\ \E half \in Nat : Base = 2 * half
<1>1. Base \in Nat \ {0} /\ Base % 2 = 0
  BY GstAssumption
<1>2. PICK half : half = Base \div 2
  OBVIOUS
<1>3. half \in Nat /\ Base = 2 * half
  BY <1>1, <1>2, SMT
<1> QED
  BY <1>1, <1>3

LEMMA Quotients ==
    ASSUME NEW a \in Nat, a < 2 * Base
    PROVE  /\ a < Base => a \div Base = 0 /\ a % Base = a
           /\ a >= Base => a \div Base = 1 /\ a % Base = a - Base
<1>1. Base \in Nat /\ Base > 0
  BY EvenBase
<1> QED
  BY <1>1, SMT

LEMMA DoubledIs ==
    ASSUME NEW x \in 0 .. Base - 1, NEW twice \in BOOLEAN
    PROVE  /\ Doubled(x, twice) \in 0 .. Base - 1
           /\ ~twice => Doubled(x, twice) = x
           /\ twice /\ 2 * x < Base => Doubled(x, twice) = 2 * x
           /\ twice /\ 2 * x >= Base => Doubled(x, twice) = 2 * x - Base + 1
<1>1. Base \in Nat /\ Base > 0
  BY EvenBase
<1>2. x \in Nat /\ x < Base
  BY <1>1
<1>3. CASE ~twice
  <2>1. x \div Base = 0 /\ x % Base = x
    BY <1>1, <1>2, Quotients
  <2> QED
    BY <1>1, <1>2, <1>3, <2>1 DEF Doubled
<1>4. CASE twice
  <2>1. PICK a, d : a = 2 * x /\ d = Doubled(x, twice)
    OBVIOUS
  <2>2. a \in Nat /\ a < 2 * Base
    BY <1>1, <1>2, <2>1
  <2>3. d = (a \div Base) + (a % Base)
    BY <1>4, <2>1 DEF Doubled
  <2>4. ASSUME a < Base PROVE d = a
    <3>1. a \div Base = 0 /\ a % Base = a
      BY <2>2, <2>4, Quotients
    <3> QED
      BY <2>2, <2>3, <3>1
  <2>5. ASSUME a >= Base PROVE d = a - Base + 1
    <3>1. a \div Base = 1 /\ a % Base = a - Base
      BY <2>2, <2>5, Quotients
    <3> QED
      BY <1>1, <2>2, <2>3, <3>1
  <2>6. d \in 0 .. Base - 1
    <3>1. PICK half \in Nat : Base = 2 * half
      BY EvenBase
    <3> QED
      BY <1>1, <1>2, <2>1, <2>2, <2>4, <2>5, <3>1
  <2> QED
    BY <1>1, <1>2, <1>4, <2>1, <2>4, <2>5, <2>6
<1> QED
  BY <1>3, <1>4

LEMMA DoubledDiffers ==
    ASSUME NEW x \in 0 .. Base - 1, NEW y \in 0 .. Base - 1, NEW twice \in BOOLEAN,
           Doubled(x, twice) = Doubled(y, twice)
    PROVE  x = y
<1>1. Base \in Nat /\ Base > 0
  BY EvenBase
<1>2. PICK half \in Nat : Base = 2 * half
  BY EvenBase
<1>3. x \in Nat /\ y \in Nat
  BY <1>1
<1>4. CASE ~twice
  BY <1>4, DoubledIs
<1>5. CASE twice
  <2>1. /\ 2 * x < Base => Doubled(x, twice) = 2 * x
        /\ 2 * x >= Base => Doubled(x, twice) = 2 * x - Base + 1
        /\ 2 * y < Base => Doubled(y, twice) = 2 * y
        /\ 2 * y >= Base => Doubled(y, twice) = 2 * y - Base + 1
    BY <1>5, DoubledIs
  <2> QED
    BY <1>1, <1>2, <1>3, <2>1, SMT
<1> QED
  BY <1>4, <1>5

(* Sums less than the base apart have different remainders, and check digits.*)
LEMMA DigitsDiffer ==
    ASSUME NEW v \in Int, NEW w \in Int, v # w, v - w < Base, w - v < Base
    PROVE  (Base - (v % Base)) % Base # (Base - (w % Base)) % Base
<1>1. Base \in Nat /\ Base > 0
  BY EvenBase
<1>2. PICK a, r, b, s : a = v \div Base /\ r = v % Base /\ b = w \div Base /\ s = w % Base
  OBVIOUS
<1>3. /\ a \in Int /\ r \in Nat /\ r < Base /\ v = Base * a + r
      /\ b \in Int /\ s \in Nat /\ s < Base /\ w = Base * b + s
  BY <1>1, <1>2, SMT
<1>4. r # s
  <2>1. SUFFICES ASSUME r = s PROVE FALSE
    OBVIOUS
  <2>2. PICK d \in Int : d = a - b
    BY <1>3
  <2>3. v - w = Base * d /\ d # 0
    BY <1>1, <1>3, <2>1, <2>2, SMT
  <2>4. Base * d >= Base \/ Base * d <= -Base
    BY <1>1, <2>2, <2>3, SMT
  <2> QED
    BY <1>1, <2>3, <2>4, SMT
<1>5. \A q \in Nat : q < Base => (Base - q) % Base = IF q = 0 THEN 0 ELSE Base - q
  <2>1. ASSUME NEW q \in Nat, q < Base
        PROVE  (Base - q) % Base = IF q = 0 THEN 0 ELSE Base - q
    <3>1. PICK m : m = Base - q
      OBVIOUS
    <3>2. m \in Nat /\ m <= Base /\ m > 0 /\ m < 2 * Base
      BY <1>1, <2>1, <3>1
    <3>3. m < Base => m % Base = m
      BY <3>2, Quotients
    <3>4. m >= Base => m % Base = m - Base
      BY <3>2, Quotients
    <3> QED
      BY <1>1, <2>1, <3>1, <3>2, <3>3, <3>4
  <2> QED
    BY <2>1
<1>6. /\ (Base - r) % Base = IF r = 0 THEN 0 ELSE Base - r
      /\ (Base - s) % Base = IF s = 0 THEN 0 ELSE Base - s
  BY <1>3, <1>5
<1>7. (Base - r) % Base # (Base - s) % Base
  BY <1>1, <1>3, <1>4, <1>6
<1> QED
  BY <1>2, <1>7

LEMMA MisreadKeepsThem ==
    ASSUME NEW code \in Code, NEW i \in DOMAIN code, NEW c \in 0 .. Base - 1, Misread(code, i, c)
    PROVE  MisreadingIsCaught'
<1>1. PICK t : t = [code EXCEPT ![i] = c]
  OBVIOUS
<1>2. bill'.kind = "gstin" /\ bill'.code = code /\ bill'.digit = CheckDigit(code) /\ bill'.typed = t
  BY <1>1 DEF Misread
<1>3. SUFFICES ASSUME t # code PROVE CheckDigit(t) # CheckDigit(code)
  BY <1>2 DEF MisreadingIsCaught
<1>4. code \in Seq(0 .. Base - 1)
  BY GstAssumption
<1>5. PICK D, n : D = DOMAIN code /\ n = Len(code)
  OBVIOUS
<1>6. n \in Nat /\ D = 1 .. n /\ \A k \in D : code[k] \in 0 .. Base - 1
  <2>1. \A S : code \in Seq(S) => n \in Nat /\ D = 1 .. n /\ \A k \in D : code[k] \in S
    BY <1>5
  <2> QED
    BY <1>4, <2>1
<1>7. /\ DOMAIN t = D /\ Len(t) = n /\ t[i] = c /\ \A k \in D \ {i} : t[k] = code[k]
  BY <1>1, <1>4, <1>5
<1>8. t[i] # code[i]
  <2>1. SUFFICES ASSUME c = code[i] PROVE FALSE
    BY <1>7
  <2>2. t = code
    BY <1>1, <1>4, <2>1
  <2> QED
    BY <1>3, <2>2
<1>9. PICK w, v : /\ w = [k \in D |-> Doubled(code[k], (n - k) % 2 = 0)]
                  /\ v = [k \in D |-> Doubled(t[k], (n - k) % 2 = 0)]
  OBVIOUS
<1>10. Weighted(code) = SumFunctionOnSet(w, D) /\ Weighted(t) = SumFunctionOnSet(v, D)
  BY <1>5, <1>7, <1>9 DEF Weighted, SumFunction
<1>11. \A k \in D : w[k] \in 0 .. Base - 1
  <2>1. ASSUME NEW k \in D PROVE w[k] \in 0 .. Base - 1
    <3>1. ((n - k) % 2 = 0) \in BOOLEAN /\ code[k] \in 0 .. Base - 1
      BY <1>6, <2>1
    <3> QED
      BY <1>9, <2>1, <3>1, DoubledIs
  <2> QED
    BY <2>1
<1>12. v[i] \in 0 .. Base - 1 /\ v[i] # w[i]
  <2>1. PICK twice \in BOOLEAN : twice = ((n - i) % 2 = 0)
    OBVIOUS
  <2>2. i \in D /\ w[i] = Doubled(code[i], twice) /\ v[i] = Doubled(c, twice) /\ code[i] \in 0 .. Base - 1
    BY <1>5, <1>6, <1>7, <1>9, <2>1
  <2>3. Doubled(c, twice) \in 0 .. Base - 1
    BY <2>1, DoubledIs
  <2>4. Doubled(c, twice) # Doubled(code[i], twice)
    BY <1>7, <1>8, <2>1, <2>2, DoubledDiffers
  <2> QED
    BY <2>2, <2>3, <2>4
<1>13. Base \in Nat /\ Base > 0
  BY EvenBase
<1>14. Weighs(w, D)
  <2>1. IsFiniteSet(D) /\ \A k \in D : w[k] \in Int
    BY <1>6, <1>11, <1>13, FS_Interval
  <2> QED
    BY <2>1 DEF Weighs
<1>15. SumFunctionOnSet(v, D) = SumFunctionOnSet(w, D) - w[i] + v[i]
  <2>1. v[i] \in Int
    BY <1>12, <1>13
  <2>2. i \in D
    BY <1>5
  <2>3. \A k \in D \ {i} : v[k] = w[k]
    BY <1>7, <1>9
  <2>4. Weighs(v, D) /\ SumFunctionOnSet(v, D) = SumFunctionOnSet(w, D) - w[i] + v[i]
    BY <1>14, <2>1, <2>2, <2>3, SumChanges
  <2> QED
    BY <2>4
<1>16. PICK a, b : a = SumFunctionOnSet(w, D) /\ b = SumFunctionOnSet(v, D)
  OBVIOUS
<1>17. a \in Int /\ b = a - w[i] + v[i] /\ w[i] \in 0 .. Base - 1
  <2>1. i \in D
    BY <1>5
  <2>2. w[i] \in 0 .. Base - 1
    BY <1>11, <2>1
  <2>3. a \in Int
    BY <1>14, <1>16, SumIsInt
  <2> QED
    BY <1>15, <1>16, <2>2, <2>3
<1>18. b \in Int /\ b # a /\ b - a < Base /\ a - b < Base
  <2>1. PICK p \in 0 .. Base - 1, q \in 0 .. Base - 1 : p = v[i] /\ q = w[i] /\ p # q
    BY <1>12, <1>17
  <2>2. p \in Nat /\ q \in Nat /\ p < Base /\ q < Base
    BY <1>13, <2>1
  <2> QED
    BY <1>13, <1>17, <2>1, <2>2
<1>19. (Base - (b % Base)) % Base # (Base - (a % Base)) % Base
  BY <1>17, <1>18, DigitsDiffer
<1> QED
  BY <1>10, <1>16, <1>19 DEF CheckDigit

-----------------------------------------------------------------------------
(* A receipt, and a way.                                                    *)
LEMMA CheckoutKeepsIt ==
    ASSUME NEW exact \in Price, NEW tenders \in Tenders, checkout(exact, tenders)
    PROVE  ReceiptBalances'
<1>1. bill'.kind = "counter" /\ bill'.exact = exact /\ bill'.tenders = tenders
  BY DEF checkout
<1>2. exact \in Nat /\ tenders \in Seq([code : STRING, amount : Int])
  BY GstAssumption
<1>3. Paid(tenders) \in Int
  <2>1. PICK D, w : D = DOMAIN tenders /\ w = [n \in D |-> tenders[n].amount]
    OBVIOUS
  <2>2. Len(tenders) \in Nat /\ D = 1 .. Len(tenders) /\ \A n \in D : tenders[n] \in [code : STRING, amount : Int]
    <3>1. \A S : tenders \in Seq(S) =>
             Len(tenders) \in Nat /\ D = 1 .. Len(tenders) /\ \A n \in D : tenders[n] \in S
      BY <2>1
    <3> QED
      BY <1>2, <3>1
  <2>4. IsFiniteSet(D) /\ \A n \in D : w[n] \in Int
    <3>1. IsFiniteSet(D)
      BY <2>2, FS_Interval
    <3>2. \A n \in D : w[n] = tenders[n].amount
      BY <2>1
    <3>3. \A y \in [code : STRING, amount : Int] : y.amount \in Int
      OBVIOUS
    <3> QED
      BY <2>2, <3>1, <3>2, <3>3
  <2>3. SumFunctionOnSet(w, D) \in Int
    BY <2>4, SumIsInt DEF Weighs
  <2> QED
    BY <2>1, <2>3 DEF Paid, SumFunction
<1>4. PICK g \in Int : g = Grand(exact)
  <2>1. Grand(exact) \in Int
    BY <1>2, SMT DEF Grand, Rounded, Rupee
  <2> QED
    BY <2>1
<1>5. PICK p \in Int : p = Paid(tenders)
  BY <1>3
<1>6. ByCash(tenders) \/ p = g => Debits(exact, tenders) = Credits(exact, tenders)
  BY <1>2, <1>4, <1>5 DEF Debits, Credits, RoundOff
<1> QED
  BY <1>1, <1>4, <1>5, <1>6 DEF ReceiptBalances

LEMMA MeasureKeepsIt ==
    ASSUME NEW t \in Trips, Measure(t)
    PROVE  KnownWayIsDeclared'
  BY DEF Measure, KnownWayIsDeclared, Calculated, Fallback

-----------------------------------------------------------------------------
(* The rows of a transaction: what can be said of them whatever their lines.*)
IsTable(rows) ==
    /\ IsFiniteSet(DOMAIN rows)
    /\ \A x \in DOMAIN rows :
          /\ x[1] \in Nat /\ x[2] \in Nat
          /\ rows[x].component \in Kinds /\ rows[x].amount \in Nat /\ rows[x].taxable \in Nat

Amounts(rows, names) == [x \in DOMAIN rows |-> IF rows[x].component \in names THEN rows[x].amount ELSE 0]
AllAmounts(rows) == [x \in DOMAIN rows |-> rows[x].amount]

LEMMA RowsSum ==
    ASSUME NEW rows, IsTable(rows), NEW names
    PROVE  /\ Weighs(Amounts(rows, names), DOMAIN rows)
           /\ SumRows(rows, names) = SumFunctionOnSet(Amounts(rows, names), DOMAIN rows)
           /\ SumRows(rows, names) \in Nat
<1>1. PICK D, w : D = DOMAIN rows /\ w = Amounts(rows, names)
  OBVIOUS
<1>2. IsFiniteSet(D) /\ DOMAIN w = D /\ \A x \in D : w[x] \in Nat
  BY <1>1 DEF IsTable, Amounts
<1>3. Weighs(w, D) /\ SumFunctionOnSet(w, D) \in Nat
  BY <1>2, SumOfNaturals
<1>4. SumRows(rows, names) = SumFunction(w)
  BY <1>1 DEF SumRows, Amounts
<1>5. SumFunction(w) = SumFunctionOnSet(w, D)
  BY <1>2 DEF SumFunction
<1> QED
  BY <1>1, <1>3, <1>4, <1>5

(* Every row is of one of the four taxes.                                   *)
LEMMA TaxesAreAll ==
    ASSUME NEW rows, IsTable(rows)
    PROVE  /\ Weighs(AllAmounts(rows), DOMAIN rows)
           /\ AllTaxes(Taxes(rows)) = SumFunctionOnSet(AllAmounts(rows), DOMAIN rows)
           /\ Taxes(rows).cgst \in Nat /\ Taxes(rows).sgst \in Nat
           /\ Taxes(rows).igst \in Nat /\ Taxes(rows).cess \in Nat
<1>1. PICK D, a, b, c, d : /\ D = DOMAIN rows
                           /\ a = Amounts(rows, {"CGST"}) /\ b = Amounts(rows, StateTax)
                           /\ c = Amounts(rows, {"IGST"}) /\ d = Amounts(rows, {"CESS"})
  OBVIOUS
<1>2. /\ Weighs(a, D) /\ SumRows(rows, {"CGST"}) = SumFunctionOnSet(a, D) /\ SumRows(rows, {"CGST"}) \in Nat
      /\ Weighs(b, D) /\ SumRows(rows, StateTax) = SumFunctionOnSet(b, D) /\ SumRows(rows, StateTax) \in Nat
      /\ Weighs(c, D) /\ SumRows(rows, {"IGST"}) = SumFunctionOnSet(c, D) /\ SumRows(rows, {"IGST"}) \in Nat
      /\ Weighs(d, D) /\ SumRows(rows, {"CESS"}) = SumFunctionOnSet(d, D) /\ SumRows(rows, {"CESS"}) \in Nat
  BY <1>1, RowsSum
<1>3. PICK ab, cd, w : /\ ab = [x \in D |-> a[x] + b[x]] /\ cd = [x \in D |-> c[x] + d[x]]
                       /\ w = AllAmounts(rows)
  OBVIOUS
<1>4. \A x \in D : w[x] = ab[x] + cd[x]
  <2>1. ASSUME NEW x \in D PROVE w[x] = ab[x] + cd[x]
    <3>1. rows[x].component \in Kinds /\ rows[x].amount \in Nat
      BY <1>1, <2>1 DEF IsTable
    <3>2. /\ a[x] = IF rows[x].component = "CGST" THEN rows[x].amount ELSE 0
          /\ b[x] = IF rows[x].component \in {"SGST", "UTGST"} THEN rows[x].amount ELSE 0
          /\ c[x] = IF rows[x].component = "IGST" THEN rows[x].amount ELSE 0
          /\ d[x] = IF rows[x].component = "CESS" THEN rows[x].amount ELSE 0
      BY <1>1, <2>1 DEF Amounts, StateTax
    <3>3. w[x] = rows[x].amount /\ ab[x] = a[x] + b[x] /\ cd[x] = c[x] + d[x]
      BY <1>1, <1>3, <2>1 DEF AllAmounts
    <3> QED
      BY <3>1, <3>2, <3>3 DEF Kinds
  <2> QED
    BY <2>1
<1>5. Weighs(ab, D) /\ SumFunctionOnSet(ab, D) = SumFunctionOnSet(a, D) + SumFunctionOnSet(b, D)
  BY <1>2, <1>3, SumOfTwo
<1>6. Weighs(cd, D) /\ SumFunctionOnSet(cd, D) = SumFunctionOnSet(c, D) + SumFunctionOnSet(d, D)
  BY <1>2, <1>3, SumOfTwo
<1>7. Weighs(w, D) /\ SumFunctionOnSet(w, D) = SumFunctionOnSet(ab, D) + SumFunctionOnSet(cd, D)
  BY <1>4, <1>5, <1>6, SumOfTwo
<1>8. /\ Taxes(rows).cgst = SumRows(rows, {"CGST"}) /\ Taxes(rows).sgst = SumRows(rows, StateTax)
      /\ Taxes(rows).igst = SumRows(rows, {"IGST"}) /\ Taxes(rows).cess = SumRows(rows, {"CESS"})
  BY DEF Taxes
<1>9. AllTaxes(Taxes(rows)) = SumRows(rows, {"CGST"}) + SumRows(rows, StateTax)
                                + SumRows(rows, {"IGST"}) + SumRows(rows, {"CESS"})
  BY <1>8 DEF AllTaxes
<1> QED
  BY <1>1, <1>2, <1>3, <1>5, <1>6, <1>7, <1>8, <1>9

-----------------------------------------------------------------------------
(* The rows of a code are a table; those of all codes are all.              *)
Own(rows, code) == {x \in DOMAIN rows : rows[x].code = code}

LEMMA GroupIsTable ==
    ASSUME NEW rows, IsTable(rows), NEW code \in Codes(rows)
    PROVE  /\ IsTable(Grouped(rows, code)) /\ DOMAIN Grouped(rows, code) = Own(rows, code)
           /\ Own(rows, code) # {} /\ \A x \in Own(rows, code) : Grouped(rows, code)[x] = rows[x]
<1>1. PICK g, D : g = Grouped(rows, code) /\ D = Own(rows, code)
  OBVIOUS
<1>2. DOMAIN g = D /\ D \in SUBSET DOMAIN rows /\ \A x \in D : g[x] = rows[x]
  BY <1>1 DEF Grouped, Own
<1>3. IsFiniteSet(D)
  BY <1>2, FS_Subset DEF IsTable
<1>4. D # {}
  BY <1>1 DEF Codes, Own
<1>5. IsTable(g)
  BY <1>2, <1>3 DEF IsTable
<1> QED
  BY <1>1, <1>2, <1>4, <1>5

LEMMA CodesAreFinite ==
    ASSUME NEW rows, IsTable(rows)
    PROVE  IsFiniteSet(Codes(rows)) /\ \A x \in DOMAIN rows : rows[x].code \in Codes(rows)
<1>1. PICK f, D : D = DOMAIN rows /\ f = [x \in D |-> rows[x].code]
  OBVIOUS
<1>2. IsFiniteSet(D)
  BY <1>1 DEF IsTable
<1>3. IsFiniteSet({f[x] : x \in D})
  BY <1>2, ImageIsFinite
<1>4. Codes(rows) = {f[x] : x \in D}
  BY <1>1 DEF Codes
<1> QED
  BY <1>1, <1>3, <1>4

LEMMA GroupsAddUp ==
    ASSUME NEW rows, IsTable(rows), NEW names, NEW u,
           \A code \in Codes(rows) : u[code] = SumRows(Grouped(rows, code), names)
    PROVE  /\ Weighs(u, Codes(rows))
           /\ SumFunctionOnSet(u, Codes(rows)) = SumRows(rows, names)
<1>1. PICK D, C, w, f, part : /\ D = DOMAIN rows /\ C = Codes(rows) /\ w = Amounts(rows, names)
                              /\ f = [x \in D |-> rows[x].code] /\ part = [code \in C |-> Own(rows, code)]
  OBVIOUS
<1>2. Weighs(w, D) /\ SumRows(rows, names) = SumFunctionOnSet(w, D)
  BY <1>1, RowsSum
<1>3. IsFiniteSet(C) /\ \A x \in D : f[x] \in C
  BY <1>1, CodesAreFinite
<1>4. \A c \in C : \A x : x \in part[c] <=> x \in D /\ f[x] = c
  BY <1>1 DEF Own
<1>5. \A c \in C : u[c] = SumFunctionOnSet(w, part[c])
  <2>1. ASSUME NEW c \in C PROVE u[c] = SumFunctionOnSet(w, part[c])
    <3>1. PICK g, v : g = Grouped(rows, c) /\ v = Amounts(g, names)
      OBVIOUS
    <3>2. c \in Codes(rows) /\ part[c] = Own(rows, c)
      BY <1>1, <2>1
    <3>3. IsTable(g) /\ DOMAIN g = Own(rows, c) /\ \A x \in Own(rows, c) : g[x] = rows[x]
      BY <3>1, <3>2, GroupIsTable
    <3>4. Weighs(v, DOMAIN g) /\ SumRows(g, names) = SumFunctionOnSet(v, DOMAIN g)
      BY <3>1, <3>3, RowsSum
    <3>5. \A x \in DOMAIN g : v[x] = w[x]
      BY <1>1, <3>1, <3>3 DEF Amounts, Own
    <3>6. SumFunctionOnSet(v, DOMAIN g) = SumFunctionOnSet(w, DOMAIN g)
      BY <3>4, <3>5, SumIsSame
    <3> QED
      BY <3>1, <3>2, <3>3, <3>4, <3>6
  <2> QED
    BY <2>1
<1>6. Weighs(u, C) /\ SumFunctionOnSet(u, C) = SumFunctionOnSet(w, D)
  BY <1>2, <1>3, <1>4, <1>5, SumOfParts
<1> QED
  BY <1>1, <1>2, <1>6

(* A table that has rows has a first.                                       *)
LEMMA FirstIsThere ==
    ASSUME NEW rows, IsTable(rows), DOMAIN rows # {}
    PROVE  \E x \in DOMAIN rows : First(rows) = rows[x]
<1>1. PICK D : D = DOMAIN rows
  OBVIOUS
<1>2. D # {} /\ \A x \in D : x[1] \in Nat /\ x[2] \in Nat
  BY <1>1 DEF IsTable
<1>3. PICK K : K = {x[1] : x \in D}
  OBVIOUS
<1>4. PICK k \in K : \A m \in K : k <= m
  <2>1. K \in SUBSET Nat /\ K # {}
    BY <1>2, <1>3
  <2> QED
    BY <2>1, SomeIsLeast
<1>5. PICK E, N : E = {x \in D : x[1] = k} /\ N = {x[2] : x \in E}
  OBVIOUS
<1>6. PICK n \in N : \A m \in N : n <= m
  <2>1. N \in SUBSET Nat /\ N # {}
    BY <1>2, <1>3, <1>4, <1>5
  <2> QED
    BY <2>1, SomeIsLeast
<1>7. PICK x \in D : x[1] = k /\ x[2] = n
  BY <1>5, <1>6
<1>8. \A y \in D : Before(x, y)
  <2>1. ASSUME NEW y \in D PROVE Before(x, y)
    <3>1. k <= y[1] /\ y[1] \in Nat /\ k \in Nat
      BY <1>2, <1>3, <1>4, <1>7, <2>1
    <3>2. CASE y[1] = k
      <4>1. y[2] \in N
        BY <1>5, <2>1, <3>2
      <4> QED
        BY <1>6, <1>7, <3>2, <4>1 DEF Before
    <3>3. CASE y[1] # k
      BY <1>7, <3>1, <3>3 DEF Before
    <3> QED
      BY <3>2, <3>3
  <2> QED
    BY <2>1
<1>9. PICK z : z = CHOOSE y \in D : \A m \in D : Before(y, m)
  OBVIOUS
<1>10. z \in D
  BY <1>7, <1>8, <1>9
<1>11. First(rows) = rows[z]
  BY <1>1, <1>9 DEF First
<1> QED
  BY <1>1, <1>10, <1>11

-----------------------------------------------------------------------------
(* The rows of an invoice: one for each component of each line.             *)
TaxIn(inv, line) == [interstate |-> inv.interstate, region |-> inv.region,
                     rate |-> line.rate, cess |-> line.cess, value |-> line.value]
PartsOf(inv, k) == buildComponents(TaxIn(inv, inv.lines[k]))

LEMMA LinesAre ==
    ASSUME NEW inv \in Invoices
    PROVE  /\ IsFiniteSet(DOMAIN inv.lines) /\ DOMAIN inv.lines \subseteq Nat
           /\ \A k \in DOMAIN inv.lines : /\ inv.lines[k].value \in Nat /\ PartsOf(inv, k) \in Seq(Parts)
                                          /\ Len(PartsOf(inv, k)) >= 1
<1>1. PICK L : L = inv.lines
  OBVIOUS
<1>2. inv.interstate \in BOOLEAN /\ L \in Seq([code : STRING, value : Nat, rate : Nat, cess : Nat])
  BY <1>1, PayloadAssumption
<1>3. Len(L) \in Nat /\ DOMAIN L = 1 .. Len(L)
      /\ \A k \in DOMAIN L : L[k] \in [code : STRING, value : Nat, rate : Nat, cess : Nat]
  <2>1. \A S : L \in Seq(S) => Len(L) \in Nat /\ DOMAIN L = 1 .. Len(L) /\ \A k \in DOMAIN L : L[k] \in S
    OBVIOUS
  <2> QED
    BY <1>2, <2>1
<1>4. IsFiniteSet(DOMAIN L) /\ DOMAIN L \subseteq Nat
  BY <1>3, FS_Interval
<1>5. \A k \in DOMAIN L : L[k].value \in Nat /\ L[k].rate \in Nat /\ L[k].cess \in Nat
  BY <1>3
<1>6. \A k \in DOMAIN L : Taxable(TaxIn(inv, L[k]))
  BY <1>2, <1>5 DEF Taxable, TaxIn
<1> QED
  BY <1>1, <1>4, <1>5, <1>6, ComponentsAre DEF PartsOf

(* What the row of a component says.                                        *)
SaysOf(row, line, part) ==
    /\ row.code = line.code /\ row.taxable = line.value
    /\ row.component = part.component /\ row.amount = part.amount

LEMMA RowsAre ==
    ASSUME NEW inv \in Invoices, NEW rows, rows = InvoiceRows(inv)
    PROVE  /\ \A x : x \in DOMAIN rows <=>
                        \E k \in DOMAIN inv.lines : \E n \in DOMAIN PartsOf(inv, k) : x = <<k, n>>
           /\ \A k \in DOMAIN inv.lines : \A n \in DOMAIN PartsOf(inv, k) :
                 SaysOf(rows[<<k, n>>], inv.lines[k], PartsOf(inv, k)[n])
<1>1. \A k \in DOMAIN inv.lines :
         /\ DOMAIN RowsOfLine(inv, inv.lines[k]) = DOMAIN PartsOf(inv, k)
         /\ \A n \in DOMAIN PartsOf(inv, k) :
               SaysOf(RowsOfLine(inv, inv.lines[k])[n], inv.lines[k], PartsOf(inv, k)[n])
  BY DEF RowsOfLine, PartsOf, TaxIn, SaysOf
<1>2. DOMAIN rows = RowIds(inv) /\ \A x \in RowIds(inv) : rows[x] = RowsOfLine(inv, inv.lines[x[1]])[x[2]]
  BY DEF InvoiceRows
<1>3. \A x : x \in RowIds(inv) <=>
                \E k \in DOMAIN inv.lines : \E n \in DOMAIN PartsOf(inv, k) : x = <<k, n>>
  BY <1>1 DEF RowIds
<1>4. \A k \in DOMAIN inv.lines : \A n \in DOMAIN PartsOf(inv, k) :
         rows[<<k, n>>] = RowsOfLine(inv, inv.lines[k])[n]
  BY <1>2, <1>3
<1> QED
  BY <1>1, <1>2, <1>3, <1>4

LEMMA RowsAreTable ==
    ASSUME NEW inv \in Invoices, NEW rows, rows = InvoiceRows(inv)
    PROVE  IsTable(rows)
<1>1. PICK K, P : K = DOMAIN inv.lines /\ P = [k \in K |-> PartsOf(inv, k)]
  OBVIOUS
<1>2. IsFiniteSet(K) /\ K \subseteq Nat
  BY <1>1, LinesAre
<1>3. \A k \in K : DOMAIN P[k] \subseteq Nat /\ IsFiniteSet(DOMAIN P[k])
  <2>1. ASSUME NEW k \in K PROVE DOMAIN P[k] \subseteq Nat /\ IsFiniteSet(DOMAIN P[k])
    <3>1. P[k] \in Seq(Parts)
      BY <1>1, <2>1, LinesAre
    <3>2. Len(P[k]) \in Nat /\ DOMAIN P[k] = 1 .. Len(P[k])
      BY <3>1
    <3> QED
      BY <3>2, FS_Interval
  <2> QED
    BY <2>1
<1>4. IsFiniteSet(DOMAIN rows)
  <2>1. PICK f : f = [k \in K |-> {k} \X DOMAIN P[k]]
    OBVIOUS
  <2>2. IsFiniteSet({f[k] : k \in K}) 
    BY <1>2, ImageIsFinite
  <2>3. \A T \in {f[k] : k \in K} : IsFiniteSet(T)
    <3>1. ASSUME NEW k \in K PROVE IsFiniteSet({k} \X DOMAIN P[k])
      BY <1>3, <3>1, FS_Singleton, FS_Product
    <3> QED
      BY <2>1, <3>1
  <2>4. IsFiniteSet(UNION {f[k] : k \in K})
    BY <2>2, <2>3, FS_UNION
  <2>5. DOMAIN rows \subseteq UNION {f[k] : k \in K}
    <3>1. ASSUME NEW x \in DOMAIN rows PROVE x \in UNION {f[k] : k \in K}
      <4>1. PICK k \in K : \E n \in DOMAIN PartsOf(inv, k) : x = <<k, n>>
        BY <1>1, <3>1, RowsAre
      <4>2. x \in {k} \X DOMAIN P[k]
        BY <1>1, <4>1
      <4>3. f[k] \in {f[m] : m \in K} /\ x \in f[k]
        BY <2>1, <4>1, <4>2
      <4> QED
        BY <4>3
    <3> QED
      BY <3>1
  <2> QED
    BY <2>4, <2>5, FS_Subset
<1>5. ASSUME NEW x \in DOMAIN rows
      PROVE  /\ x[1] \in Nat /\ x[2] \in Nat
             /\ rows[x].component \in Kinds /\ rows[x].amount \in Nat /\ rows[x].taxable \in Nat
  <2>0. PICK k \in K : \E n \in DOMAIN PartsOf(inv, k) : x = <<k, n>>
    BY <1>1, <1>5, RowsAre
  <2>1. PICK n \in DOMAIN P[k] : x = <<k, n>>
    BY <1>1, <2>0
  <2>2. SaysOf(rows[x], inv.lines[k], P[k][n])
    BY <1>1, <2>1, RowsAre
  <2>3. inv.lines[k].value \in Nat /\ P[k] \in Seq(Parts)
    BY <1>1, LinesAre
  <2>4. P[k][n] \in Parts
    BY <2>1, <2>3
  <2>5. k \in Nat /\ n \in Nat
    BY <1>2, <1>3, <2>1
  <2> QED
    BY <2>1, <2>2, <2>3, <2>4, <2>5 DEF SaysOf, Parts
<1> QED
  BY <1>4, <1>5 DEF IsTable

(* The taxes of the lines are the amounts of the rows.                      *)
LEMMA TaxByLine ==
    ASSUME NEW inv \in Invoices, NEW rows, rows = InvoiceRows(inv), NEW u,
           \A k \in DOMAIN inv.lines : u[k] = SumOf(PartsOf(inv, k))
    PROVE  /\ Weighs(u, DOMAIN inv.lines)
           /\ SumFunctionOnSet(u, DOMAIN inv.lines) = AllTaxes(Taxes(rows))
<1>1. PICK K, D, w, f, part : /\ K = DOMAIN inv.lines /\ D = DOMAIN rows /\ w = AllAmounts(rows)
                              /\ f = [x \in D |-> x[1]] /\ part = [k \in K |-> {x \in D : x[1] = k}]
  OBVIOUS
<1>2. IsTable(rows)
  BY RowsAreTable
<1>3. Weighs(w, D) /\ AllTaxes(Taxes(rows)) = SumFunctionOnSet(w, D)
  BY <1>1, <1>2, TaxesAreAll
<1>4. \A x \in D : \E k \in K : \E n \in DOMAIN PartsOf(inv, k) : x = <<k, n>>
  BY <1>1, RowsAre
<1>5. \A k \in K : \A n \in DOMAIN PartsOf(inv, k) :
         <<k, n>> \in D /\ SaysOf(rows[<<k, n>>], inv.lines[k], PartsOf(inv, k)[n])
  BY <1>1, RowsAre
<1>6. IsFiniteSet(K) /\ \A x \in D : f[x] \in K
  BY <1>1, <1>4, LinesAre
<1>7. \A k \in K : \A x : x \in part[k] <=> x \in D /\ f[x] = k
  BY <1>1
<1>8. \A k \in K : u[k] = SumFunctionOnSet(w, part[k])
  <2>1. ASSUME NEW k \in K PROVE u[k] = SumFunctionOnSet(w, part[k])
    <3>1. PICK p, N, v, g : /\ p = PartsOf(inv, k) /\ N = DOMAIN p /\ v = [n \in N |-> p[n].amount]
                            /\ g = [n \in N |-> <<k, n>>]
      OBVIOUS
    <3>2. p \in Seq(Parts)
      BY <1>1, <2>1, <3>1, LinesAre
    <3>3. Weighs(v, N)
      <4>1. Len(p) \in Nat /\ N = 1 .. Len(p) /\ \A n \in N : p[n] \in Parts
        BY <3>1, <3>2
      <4>2. \A n \in N : v[n] \in Int
        BY <3>1, <4>1 DEF Parts
      <4>3. IsFiniteSet(N)
        <5>1. \A m \in Nat : IsFiniteSet(1 .. m)
          BY FS_Interval
        <5> QED
          BY <4>1, <5>1
      <4> QED
        BY <4>2, <4>3 DEF Weighs
    <3>4. u[k] = SumFunctionOnSet(v, N)
      <4>1. u[k] = SumOf(p) /\ SumOf(p) = SumFunction(v) /\ DOMAIN v = N
        BY <1>1, <2>1, <3>1 DEF SumOf
      <4> QED
        BY <4>1 DEF SumFunction
    <3>5. PairsUp(g, N, part[k])
      <4>1. \A n \in N : g[n] \in part[k]
        BY <1>1, <1>5, <2>1, <3>1
      <4>2. \A x \in part[k] : \E n \in N : x = g[n]
        BY <1>1, <1>4, <2>1, <3>1
      <4>3. \A m, n \in N : g[m] = g[n] => m = n
        BY <3>1
      <4> QED
        BY <4>1, <4>2, <4>3 DEF PairsUp
    <3>6. KeepsWeight(g, N, v, w)
      <4>1. \A n \in N : g[n] = <<k, n>> /\ <<k, n>> \in D /\ v[n] = p[n].amount
                         /\ rows[<<k, n>>].amount = p[n].amount
        BY <1>5, <2>1, <3>1 DEF SaysOf
      <4>2. \A x \in D : w[x] = rows[x].amount
        BY <1>1 DEF AllAmounts
      <4> QED
        BY <4>1, <4>2 DEF KeepsWeight
    <3>7. SumFunctionOnSet(w, part[k]) = SumFunctionOnSet(v, N)
      BY <3>3, <3>5, <3>6, SumOfPairs
    <3> QED
      BY <3>4, <3>7
  <2> QED
    BY <2>1
<1>9. Weighs(u, K) /\ SumFunctionOnSet(u, K) = SumFunctionOnSet(w, D)
  BY <1>3, <1>6, <1>7, <1>8, SumOfParts
<1> QED
  BY <1>1, <1>3, <1>9

-----------------------------------------------------------------------------
(* What the mapper makes of a table.                                        *)
LEMMA ItemsAre ==
    ASSUME NEW rows, IsTable(rows), NEW code \in Codes(rows)
    PROVE  \E x \in Own(rows, code) : /\ ItemList(rows)[code].assessable = rows[x].taxable
                                      /\ rows[x].taxable \in Nat
<1>1. PICK g : g = Grouped(rows, code)
  OBVIOUS
<1>2. /\ IsTable(g) /\ DOMAIN g = Own(rows, code) /\ Own(rows, code) # {}
      /\ \A x \in Own(rows, code) : g[x] = rows[x]
  BY <1>1, GroupIsTable
<1>3. PICK x \in DOMAIN g : First(g) = g[x]
  BY <1>2, FirstIsThere
<1>4. ItemList(rows)[code].assessable = g[x].taxable
  BY <1>1, <1>3 DEF ItemList, ItemOf, AssAmt
<1>5. g[x] = rows[x] /\ g[x].taxable \in Nat
  BY <1>2, <1>3 DEF IsTable
<1> QED
  BY <1>2, <1>3, <1>4, <1>5

(* Its items make up its totals, and the taxes of all rows.                 *)
LEMMA TotalsAre ==
    ASSUME NEW rows, IsTable(rows), NEW v, v = buildItemListAndValue(rows)
    PROVE  /\ v.cgst = Taxes(rows).cgst /\ v.sgst = Taxes(rows).sgst
           /\ v.igst = Taxes(rows).igst /\ v.cess = Taxes(rows).cess
           /\ v.items = ItemList(rows) /\ DOMAIN v.items = Codes(rows)
           /\ v.assessable \in Int
           /\ v.assessable = SumFunctionOnSet([c \in Codes(rows) |-> ItemList(rows)[c].assessable], Codes(rows))
           /\ SumFunction([c \in DOMAIN v.items |-> v.items[c].total]) = InvoiceValue(v)
<1>1. PICK C, it : C = Codes(rows) /\ it = ItemList(rows)
  OBVIOUS
<1>2. PICK a, b, c, d, e, t : /\ a = [k \in C |-> it[k].taxes.cgst] /\ b = [k \in C |-> it[k].taxes.sgst]
                              /\ c = [k \in C |-> it[k].taxes.igst] /\ d = [k \in C |-> it[k].taxes.cess]
                              /\ e = [k \in C |-> it[k].assessable] /\ t = [k \in C |-> it[k].total]
  OBVIOUS
<1>3. DOMAIN it = C
  BY <1>1 DEF ItemList
<1>4. /\ v.items = it /\ v.assessable = SumFunctionOnSet(e, C)
      /\ v.cgst = SumFunctionOnSet(a, C) /\ v.sgst = SumFunctionOnSet(b, C)
      /\ v.igst = SumFunctionOnSet(c, C) /\ v.cess = SumFunctionOnSet(d, C)
  <2>1. /\ v.items = it /\ v.assessable = SumFunction(e)
        /\ v.cgst = SumFunction(a) /\ v.sgst = SumFunction(b)
        /\ v.igst = SumFunction(c) /\ v.cess = SumFunction(d)
    BY <1>1, <1>2, <1>3 DEF buildItemListAndValue
  <2>2. /\ DOMAIN a = C /\ DOMAIN b = C /\ DOMAIN c = C /\ DOMAIN d = C /\ DOMAIN e = C
    BY <1>2
  <2> QED
    BY <2>1, <2>2 DEF SumFunction
<1>5. \A k \in C : /\ a[k] = SumRows(Grouped(rows, k), {"CGST"}) /\ b[k] = SumRows(Grouped(rows, k), StateTax)
                   /\ c[k] = SumRows(Grouped(rows, k), {"IGST"}) /\ d[k] = SumRows(Grouped(rows, k), {"CESS"})
                   /\ t[k] = e[k] + (a[k] + b[k] + c[k] + d[k])
  <2>1. ASSUME NEW k \in C
        PROVE  /\ a[k] = SumRows(Grouped(rows, k), {"CGST"}) /\ b[k] = SumRows(Grouped(rows, k), StateTax)
               /\ c[k] = SumRows(Grouped(rows, k), {"IGST"}) /\ d[k] = SumRows(Grouped(rows, k), {"CESS"})
               /\ t[k] = e[k] + (a[k] + b[k] + c[k] + d[k])
    <3>1. PICK g : g = Grouped(rows, k)
      OBVIOUS
    <3>2. it[k] = ItemOf(g)
      BY <1>1, <2>1, <3>1 DEF ItemList
    <3>3. it[k].taxes = Taxes(g) /\ it[k].total = it[k].assessable + AllTaxes(it[k].taxes)
      BY <3>2 DEF ItemOf
    <3>4. t[k] = e[k] + (a[k] + b[k] + c[k] + d[k])
      BY <1>2, <2>1, <3>3 DEF AllTaxes
    <3>5. /\ a[k] = it[k].taxes.cgst /\ b[k] = it[k].taxes.sgst
          /\ c[k] = it[k].taxes.igst /\ d[k] = it[k].taxes.cess
      BY <1>2, <2>1
    <3> QED
      BY <3>1, <3>3, <3>4, <3>5 DEF Taxes
  <2> QED
    BY <2>1
<1>6. /\ Weighs(a, C) /\ SumFunctionOnSet(a, C) = SumRows(rows, {"CGST"})
      /\ Weighs(b, C) /\ SumFunctionOnSet(b, C) = SumRows(rows, StateTax)
      /\ Weighs(c, C) /\ SumFunctionOnSet(c, C) = SumRows(rows, {"IGST"})
      /\ Weighs(d, C) /\ SumFunctionOnSet(d, C) = SumRows(rows, {"CESS"})
  BY <1>1, <1>5, GroupsAddUp
<1>7. Weighs(e, C)
  <2>1. \A k \in C : e[k] \in Nat
    BY <1>1, <1>2, ItemsAre
  <2>2. IsFiniteSet(C)
    BY <1>1, CodesAreFinite
  <2> QED
    BY <2>1, <2>2, SumOfNaturals
<1>8. PICK ab, cd, abcd : /\ ab = [k \in C |-> a[k] + b[k]] /\ cd = [k \in C |-> c[k] + d[k]]
                          /\ abcd = [k \in C |-> ab[k] + cd[k]]
  OBVIOUS
<1>9. Weighs(ab, C) /\ SumFunctionOnSet(ab, C) = SumFunctionOnSet(a, C) + SumFunctionOnSet(b, C)
  BY <1>6, <1>8, SumOfTwo
<1>10. Weighs(cd, C) /\ SumFunctionOnSet(cd, C) = SumFunctionOnSet(c, C) + SumFunctionOnSet(d, C)
  BY <1>6, <1>8, SumOfTwo
<1>11. Weighs(abcd, C) /\ SumFunctionOnSet(abcd, C) = SumFunctionOnSet(ab, C) + SumFunctionOnSet(cd, C)
  BY <1>8, <1>9, <1>10, SumOfTwo
<1>12. \A k \in C : t[k] = e[k] + abcd[k]
  <2>1. \A k \in C : a[k] \in Int /\ b[k] \in Int /\ c[k] \in Int /\ d[k] \in Int
    BY <1>6 DEF Weighs
  <2> QED
    BY <1>5, <1>8, <2>1
<1>13. Weighs(t, C) /\ SumFunctionOnSet(t, C) = SumFunctionOnSet(e, C) + SumFunctionOnSet(abcd, C)
  BY <1>7, <1>11, <1>12, SumOfTwo
<1>14. /\ SumFunctionOnSet(a, C) \in Int /\ SumFunctionOnSet(b, C) \in Int /\ SumFunctionOnSet(c, C) \in Int
       /\ SumFunctionOnSet(d, C) \in Int /\ SumFunctionOnSet(e, C) \in Int
  BY <1>6, <1>7, SumIsInt
<1>15. SumFunctionOnSet(t, C) = InvoiceValue(v)
  BY <1>4, <1>9, <1>10, <1>11, <1>13, <1>14 DEF InvoiceValue, AllTaxes
<1>16. SumFunction([k \in DOMAIN v.items |-> v.items[k].total]) = SumFunctionOnSet(t, C)
  <2>1. SumFunction(t) = SumFunctionOnSet(t, C)
    BY <1>2 DEF SumFunction
  <2> QED
    BY <1>2, <1>3, <1>4, <2>1
<1>17. /\ v.cgst = Taxes(rows).cgst /\ v.sgst = Taxes(rows).sgst
       /\ v.igst = Taxes(rows).igst /\ v.cess = Taxes(rows).cess
  BY <1>4, <1>6 DEF Taxes
<1>18. v.items = ItemList(rows) /\ DOMAIN v.items = Codes(rows)
  BY <1>1, <1>3, <1>4
<1>19. /\ v.assessable \in Int
       /\ v.assessable = SumFunctionOnSet([k \in Codes(rows) |-> ItemList(rows)[k].assessable], Codes(rows))
  BY <1>1, <1>2, <1>4, <1>14
<1>20. SumFunction([k \in DOMAIN v.items |-> v.items[k].total]) = InvoiceValue(v)
  BY <1>15, <1>16
<1> QED
  BY <1>17, <1>18, <1>19, <1>20

(* Where no two lines have one code, their values are the items'.           *)
LEMMA ValuesByCode ==
    ASSUME NEW inv \in Invoices, NEW rows, rows = InvoiceRows(inv), NEW w, NEW e,
           \A k \in DOMAIN inv.lines : w[k] = inv.lines[k].value,
           \A c \in Codes(rows) : e[c] = ItemList(rows)[c].assessable,
           \A m, n \in DOMAIN inv.lines : inv.lines[m].code = inv.lines[n].code => m = n
    PROVE  SumFunctionOnSet(e, Codes(rows)) = SumFunctionOnSet(w, DOMAIN inv.lines)
<1>1. PICK K, C, f : K = DOMAIN inv.lines /\ C = Codes(rows) /\ f = [k \in K |-> inv.lines[k].code]
  OBVIOUS
<1>2. IsTable(rows)
  BY RowsAreTable
<1>3. Weighs(w, K)
  BY <1>1, LinesAre DEF Weighs
<1>4. \A k \in K : \E x \in DOMAIN rows : rows[x].code = inv.lines[k].code
  <2>1. ASSUME NEW k \in K PROVE \E x \in DOMAIN rows : rows[x].code = inv.lines[k].code
    <3>1. PICK p : p = PartsOf(inv, k)
      OBVIOUS
    <3>2. p \in Seq(Parts) /\ Len(p) >= 1
      BY <1>1, <2>1, <3>1, LinesAre
    <3>3. 1 \in DOMAIN p
      BY <3>2
    <3>4. <<k, 1>> \in DOMAIN rows /\ SaysOf(rows[<<k, 1>>], inv.lines[k], p[1])
      BY <1>1, <2>1, <3>1, <3>3, RowsAre
    <3> QED
      BY <3>4 DEF SaysOf
  <2> QED
    BY <2>1
<1>5. \A x \in DOMAIN rows : \E k \in K : rows[x].code = inv.lines[k].code /\ rows[x].taxable = inv.lines[k].value
  <2>1. ASSUME NEW x \in DOMAIN rows
        PROVE  \E k \in K : rows[x].code = inv.lines[k].code /\ rows[x].taxable = inv.lines[k].value
    <3>1. PICK k \in K : \E n \in DOMAIN PartsOf(inv, k) : x = <<k, n>>
      BY <1>1, <2>1, RowsAre
    <3>2. PICK n \in DOMAIN PartsOf(inv, k) : x = <<k, n>>
      BY <3>1
    <3>3. SaysOf(rows[x], inv.lines[k], PartsOf(inv, k)[n])
      BY <1>1, <3>1, <3>2, RowsAre
    <3> QED
      BY <3>1, <3>3 DEF SaysOf
  <2> QED
    BY <2>1
<1>6. PairsUp(f, K, C)
  <2>1. \A k \in K : f[k] \in C
    BY <1>1, <1>4 DEF Codes
  <2>2. \A c \in C : \E k \in K : c = f[k]
    BY <1>1, <1>5 DEF Codes
  <2>3. \A m, n \in K : f[m] = f[n] => m = n
    BY <1>1
  <2> QED
    BY <2>1, <2>2, <2>3 DEF PairsUp
<1>7. KeepsWeight(f, K, w, e)
  <2>1. ASSUME NEW k \in K PROVE e[f[k]] = w[k]
    <3>1. f[k] \in Codes(rows) /\ f[k] = inv.lines[k].code
      BY <1>1, <1>4, <2>1 DEF Codes
    <3>2. PICK x \in Own(rows, f[k]) : ItemList(rows)[f[k]].assessable = rows[x].taxable
      BY <1>2, <3>1, ItemsAre
    <3>3. x \in DOMAIN rows /\ rows[x].code = f[k]
      BY <3>2 DEF Own
    <3>4. PICK m \in K : rows[x].code = inv.lines[m].code /\ rows[x].taxable = inv.lines[m].value
      BY <1>5, <3>3
    <3>5. m = k
      BY <1>1, <2>1, <3>1, <3>3, <3>4
    <3> QED
      BY <1>1, <2>1, <3>1, <3>2, <3>4, <3>5
  <2> QED
    BY <2>1 DEF KeepsWeight
<1> QED
  BY <1>1, <1>3, <1>6, <1>7, SumOfPairs

(* Where no two lines have one value, the distinct values are the lines'.   *)
LEMMA ValuesDistinct ==
    ASSUME NEW inv \in Invoices, NEW rows, rows = InvoiceRows(inv), NEW w,
           \A k \in DOMAIN inv.lines : w[k] = inv.lines[k].value,
           \A m, n \in DOMAIN inv.lines : inv.lines[m].value = inv.lines[n].value => m = n
    PROVE  SumOfDistinct(rows) = SumFunctionOnSet(w, DOMAIN inv.lines)
<1>1. PICK K, V, f, e : /\ K = DOMAIN inv.lines /\ V = {rows[x].taxable : x \in DOMAIN rows}
                        /\ f = [k \in K |-> inv.lines[k].value] /\ e = [y \in V |-> y]
  OBVIOUS
<1>2. SumOfDistinct(rows) = SumFunctionOnSet(e, V)
  <2>1. SumOfDistinct(rows) = SumFunction(e) /\ DOMAIN e = V
    BY <1>1 DEF SumOfDistinct
  <2> QED
    BY <2>1 DEF SumFunction
<1>3. Weighs(w, K)
  BY <1>1, LinesAre DEF Weighs
<1>4. \A k \in K : inv.lines[k].value \in V
  <2>1. ASSUME NEW k \in K PROVE inv.lines[k].value \in V
    <3>1. PICK p : p = PartsOf(inv, k)
      OBVIOUS
    <3>2. p \in Seq(Parts) /\ Len(p) >= 1
      BY <1>1, <2>1, <3>1, LinesAre
    <3>3. 1 \in DOMAIN p
      BY <3>2
    <3>4. <<k, 1>> \in DOMAIN rows /\ SaysOf(rows[<<k, 1>>], inv.lines[k], p[1])
      BY <1>1, <2>1, <3>1, <3>3, RowsAre
    <3> QED
      BY <1>1, <3>4 DEF SaysOf
  <2> QED
    BY <2>1
<1>5. \A y \in V : \E k \in K : y = inv.lines[k].value
  <2>1. ASSUME NEW x \in DOMAIN rows PROVE \E k \in K : rows[x].taxable = inv.lines[k].value
    <3>1. PICK k \in K : \E n \in DOMAIN PartsOf(inv, k) : x = <<k, n>>
      BY <1>1, <2>1, RowsAre
    <3>2. PICK n \in DOMAIN PartsOf(inv, k) : x = <<k, n>>
      BY <3>1
    <3>3. SaysOf(rows[x], inv.lines[k], PartsOf(inv, k)[n])
      BY <1>1, <3>1, <3>2, RowsAre
    <3> QED
      BY <3>1, <3>3 DEF SaysOf
  <2> QED
    BY <1>1, <2>1
<1>6. PairsUp(f, K, V)
  BY <1>1, <1>4, <1>5 DEF PairsUp
<1>7. KeepsWeight(f, K, w, e)
  BY <1>1, <1>4 DEF KeepsWeight
<1> QED
  BY <1>1, <1>2, <1>3, <1>6, <1>7, SumOfPairs

LEMMA DeclareKeepsThem ==
    ASSUME NEW inv \in Invoices, Declare(inv)
    PROVE  TaxIsDeclared' /\ ValueIsDeclared' /\ BillAndInvoiceAgree'
<1>1. PICK rows, v, K : rows = InvoiceRows(inv) /\ v = buildItemListAndValue(rows) /\ K = DOMAIN inv.lines
  OBVIOUS
<1>2. /\ bill'.kind = "declared" /\ bill'.invoice = inv /\ bill'.inv01 = v
      /\ bill'.eway.totals = aggregateTaxSummary(rows)
  BY <1>1 DEF Declare
<1>3. IsTable(rows)
  BY <1>1, RowsAreTable
<1>4. PICK u, w, e : /\ u = [k \in K |-> SumOf(PartsOf(inv, k))] /\ w = [k \in K |-> inv.lines[k].value]
                     /\ e = [c \in Codes(rows) |-> ItemList(rows)[c].assessable]
  OBVIOUS
<1>5. LinesTax' = SumFunctionOnSet(u, K) /\ LinesValue' = SumFunctionOnSet(w, K) /\ Sold' = inv.lines
  <2>1. Sold' = inv.lines
    BY <1>2 DEF Sold
  <2>2. \A k \in K : ComputedTax(Sold[k])' = u[k]
    BY <1>1, <1>2, <1>4, <2>1 DEF ComputedTax, PartsOf, TaxIn
  <2>3. LinesTax' = SumFunction(u)
    <3>1. u = [k \in K |-> ComputedTax(Sold[k])']
      BY <1>4, <2>2
    <3> QED
      BY <1>1, <2>1, <3>1 DEF LinesTax
  <2>4. LinesValue' = SumFunction(w)
    BY <1>1, <1>4, <2>1 DEF LinesValue
  <2> QED
    BY <1>4, <2>1, <2>3, <2>4 DEF SumFunction
<1>6. Weighs(u, K) /\ SumFunctionOnSet(u, K) = AllTaxes(Taxes(rows))
  BY <1>1, <1>4, TaxByLine
<1>7. /\ v.cgst = Taxes(rows).cgst /\ v.sgst = Taxes(rows).sgst
      /\ v.igst = Taxes(rows).igst /\ v.cess = Taxes(rows).cess
      /\ v.assessable \in Int /\ v.assessable = SumFunctionOnSet(e, Codes(rows))
      /\ SumFunction([c \in DOMAIN v.items |-> v.items[c].total]) = InvoiceValue(v)
  BY <1>1, <1>3, <1>4, TotalsAre
<1>8. AllTaxes(v) = AllTaxes(Taxes(rows))
  BY <1>7 DEF AllTaxes
<1>9. PICK s : s = aggregateTaxSummary(rows)
  OBVIOUS
<1>10. /\ s.assessable = SumOfDistinct(rows) /\ s.cgst = v.cgst /\ s.sgst = v.sgst /\ s.igst = v.igst /\ s.cess = v.cess
  BY <1>7, <1>9 DEF aggregateTaxSummary
<1>11. TaxIsDeclared'
  <2>1. AllTaxes(s) = AllTaxes(v)
    BY <1>10 DEF AllTaxes
  <2> QED
    BY <1>2, <1>5, <1>6, <1>7, <1>8, <1>9, <2>1 DEF TaxIsDeclared
<1>12. ASSUME OneLineACode' PROVE v.assessable = SumFunctionOnSet(w, K)
  <2>1. \A m, n \in DOMAIN inv.lines : inv.lines[m].code = inv.lines[n].code => m = n
    BY <1>5, <1>12 DEF OneLineACode
  <2> QED
    BY <1>1, <1>4, <1>7, <2>1, ValuesByCode
<1>13. ValueIsDeclared'
  BY <1>2, <1>5, <1>6, <1>8, <1>12 DEF ValueIsDeclared, InvoiceValue
<1>14. BillAndInvoiceAgree'
  <2>1. SUFFICES ASSUME OneLineACode', ValuesDiffer'
                 PROVE  \A part \in {"assessable", "cgst", "sgst", "igst", "cess"} : s[part] = v[part]
    BY <1>2, <1>9 DEF BillAndInvoiceAgree
  <2>2. \A m, n \in DOMAIN inv.lines : inv.lines[m].value = inv.lines[n].value => m = n
    BY <1>5, <2>1 DEF ValuesDiffer
  <2>3. s.assessable = SumFunctionOnSet(w, K)
    BY <1>1, <1>4, <1>10, <2>2, ValuesDistinct
  <2> QED
    BY <1>10, <1>12, <2>1, <2>3
<1> QED
  BY <1>11, <1>13, <1>14

-----------------------------------------------------------------------------
(* A property is about one kind of computation.                             *)
OfKind(what) ==
    /\ what # "tax" => PlaceCostsAPaisa' /\ CalculatorsAgree'
    /\ what # "gstin" => MisreadingIsCaught'
    /\ what # "counter" => ReceiptBalances'
    /\ what # "declared" => TaxIsDeclared' /\ ValueIsDeclared' /\ BillAndInvoiceAgree'
    /\ what # "trip" => KnownWayIsDeclared'
LEMMA KindsApart == OfKind(bill'.kind)
BY DEF OfKind, PlaceCostsAPaisa, CalculatorsAgree, MisreadingIsCaught, ReceiptBalances,
   TaxIsDeclared, ValueIsDeclared, BillAndInvoiceAgree, KnownWayIsDeclared, Declared

LEMMA ComputedRight == ASSUME ChargedIsDeclared, [GstNext \/ PayloadNext]_gstVars PROVE ChargedIsDeclared'
<1>1. \A what : bill'.kind = what => OfKind(what)
  BY KindsApart
<1>2. ChargedIsDeclared' <=> /\ PlaceCostsAPaisa' /\ CalculatorsAgree' /\ MisreadingIsCaught' /\ ReceiptBalances'
                             /\ TaxIsDeclared' /\ ValueIsDeclared' /\ BillAndInvoiceAgree' /\ KnownWayIsDeclared'
  BY DEF ChargedIsDeclared, TaxesAddUp
<1>3. ASSUME NEW i \in Input, Calculate(i) PROVE ChargedIsDeclared'
  <2>1. bill'.kind = "tax"
    BY <1>3 DEF Calculate
  <2>2. PlaceCostsAPaisa' /\ CalculatorsAgree'
    BY <1>3, CalculateKeepsThem
  <2> QED
    BY <1>1, <1>2, <2>1, <2>2 DEF OfKind
<1>4. ASSUME NEW code \in Code, NEW i \in DOMAIN code, NEW c \in 0 .. Base - 1, Misread(code, i, c)
      PROVE  ChargedIsDeclared'
  <2>1. bill'.kind = "gstin"
    BY <1>4 DEF Misread
  <2>2. MisreadingIsCaught'
    BY <1>4, MisreadKeepsThem
  <2> QED
    BY <1>1, <1>2, <2>1, <2>2 DEF OfKind
<1>5. ASSUME NEW exact \in Price, NEW tenders \in Tenders, checkout(exact, tenders) PROVE ChargedIsDeclared'
  <2>1. bill'.kind = "counter"
    BY <1>5 DEF checkout
  <2>2. ReceiptBalances'
    BY <1>5, CheckoutKeepsIt
  <2> QED
    BY <1>1, <1>2, <2>1, <2>2 DEF OfKind
<1>6. ASSUME NEW inv \in Invoices, Declare(inv) PROVE ChargedIsDeclared'
  <2>1. bill'.kind = "declared"
    BY <1>6 DEF Declare
  <2>2. TaxIsDeclared' /\ ValueIsDeclared' /\ BillAndInvoiceAgree'
    BY <1>6, DeclareKeepsThem
  <2> QED
    BY <1>1, <1>2, <2>1, <2>2 DEF OfKind
<1>7. ASSUME NEW inv \in Invoices, RefuseParties(inv) PROVE ChargedIsDeclared'
  <2>1. bill'.kind = "refused"
    BY <1>7 DEF RefuseParties
  <2> QED
    BY <1>1, <1>2, <2>1 DEF OfKind
<1>8. ASSUME NEW t \in Trips, Measure(t) PROVE ChargedIsDeclared'
  <2>1. bill'.kind = "trip"
    BY <1>8 DEF Measure
  <2>2. KnownWayIsDeclared'
    BY <1>8, MeasureKeepsIt
  <2> QED
    BY <1>1, <1>2, <2>1, <2>2 DEF OfKind
<1>9. ASSUME UNCHANGED bill PROVE ChargedIsDeclared'
  BY <1>9 DEF ChargedIsDeclared, TaxesAddUp, PlaceCostsAPaisa, CalculatorsAgree, MisreadingIsCaught,
     ReceiptBalances, TaxIsDeclared, ValueIsDeclared, BillAndInvoiceAgree, KnownWayIsDeclared, Declared,
     OneLineACode, ValuesDiffer, LinesTax, LinesValue, ComputedTax, Sold
<1> QED
  BY <1>3, <1>4, <1>5, <1>6, <1>7, <1>8, <1>9 DEF GstNext, PayloadNext, gstVars

(* For all rates that have an exact half, all codes, tenders, invoices and  *)
(* ways: the calculators agree, a misread GSTIN is caught, a receipt        *)
(* balances, and both portals are told what was charged (payload-mapper.ts).*)
THEOREM DeclaredInFull == PayloadSpec => []ChargedIsDeclared
<1>1. GstInit => ChargedIsDeclared
  BY DEF GstInit, BlankBill, ChargedIsDeclared, TaxesAddUp, PlaceCostsAPaisa, CalculatorsAgree,
     MisreadingIsCaught, ReceiptBalances, TaxIsDeclared, ValueIsDeclared, BillAndInvoiceAgree, KnownWayIsDeclared, Declared
<1>2. ChargedIsDeclared /\ [GstNext \/ PayloadNext]_gstVars => ChargedIsDeclared'
  BY ComputedRight
<1> QED
  BY <1>1, <1>2, PTL DEF PayloadSpec
=============================================================================

------------------------------ MODULE Payroll ------------------------------
(***************************************************************************)
(* The payroll of one pay period of one company: employees and their salary *)
(* structures, attendance, runs and approvals (src/src/payroll and          *)
(* src/src/api/routes/payroll.routes.ts), each call one transaction, with   *)
(* the trigger that posts the journal (src/payroll_schema.sql).             *)
(*                                                                         *)
(* Statements read what is committed; a call keeps its own rows in work[c]  *)
(* until it commits.  is_closed is never set, so no period ever closes.     *)
(***************************************************************************)
EXTENDS Payslip

CONSTANTS
    PayCall,        \* calls of the payroll routes
    PaySettings,    \* functions from some calls to their requests
    Staff,          \* employees at the start and their heads
    TermsOf         \* TermsOf[e]: the terms of employment of e

ASSUME PayrollAssumption ==
    \A s \in PaySettings :
        /\ DOMAIN s \subseteq PayCall
        /\ \A c \in DOMAIN s : s[c].kind \in {"hire", "structure", "attend", "run", "approve"}

VARIABLES
    payAsked,   \* the requests of this behaviour
    step,       \* step[c]: "start", "reading", "locked", "done" or "refused"
    work,       \* work[c]: what call c read and has not committed
    structures, \* structures[e]: the active salary components of employee e
    lostDays,   \* lostDays[e]: half days lost, by date
    payRun,     \* the row of payroll_runs
    register,   \* register[e]: the row of payroll_run_details
    postings    \* the payroll journals, in the order they were posted

payrollVars == <<payAsked, step, work, structures, lostDays, payRun, register, postings>>
tables == <<structures, lostDays, payRun, register, postings>>

NoRun == [status |-> "none", journal |-> 0, gross |-> 0]
Idling == [list |-> {}, done |-> {}, rows |-> <<>>, seen |-> {}, status |-> "none"]

PayrollInit ==
    /\ payAsked \in PaySettings
    /\ step = [c \in PayCall |-> "start"] /\ work = [c \in PayCall |-> Idling]
    /\ structures = Staff /\ lostDays = [e \in DOMAIN Staff |-> <<>>]
    /\ payRun = NoRun /\ register = <<>> /\ postings = <<>>

Is(c, kind, at) == c \in DOMAIN payAsked /\ payAsked[c].kind = kind /\ step[c] = at
Goto(c, where) == step' = [step EXCEPT ![c] = where]

End(c, how) == Goto(c, how) /\ work' = [work EXCEPT ![c] = Idling]

(* A row that a transaction wrote keeps others out until it ends.           *)
RunFree == \A c \in PayCall : step[c] # "locked"

Put(f, x, v) == [y \in DOMAIN f \cup {x} |-> IF y = x THEN v ELSE f[y]]

-----------------------------------------------------------------------------
createEmployee(c) ==
    /\ Is(c, "hire", "start")
    /\ payAsked[c].emp \notin DOMAIN structures
    /\ structures' = Put(structures, payAsked[c].emp, {})
    /\ lostDays' = Put(lostDays, payAsked[c].emp, <<>>)
    /\ End(c, "done") /\ UNCHANGED <<payAsked, payRun, register, postings>>

(* setSalaryStructure deactivates the components it sees, then inserts its  *)
(* own; the unique index holds a head to one active row per employee.       *)
Deactivate(c) ==
    /\ Is(c, "structure", "start")
    /\ payAsked[c].emp \in DOMAIN structures
    /\ work' = [work EXCEPT ![c].seen = structures[payAsked[c].emp]]
    /\ Goto(c, "reading") /\ UNCHANGED <<payAsked, tables>>
Others(c) == structures[payAsked[c].emp] \ work[c].seen
Clash(c) == \E h \in payAsked[c].heads, g \in Others(c) : h.name = g.name
SetStructure(c) ==
    /\ Is(c, "structure", "reading") /\ ~Clash(c)
    /\ structures' = [structures EXCEPT ![payAsked[c].emp] = Others(c) \cup payAsked[c].heads]
    /\ End(c, "done") /\ UNCHANGED <<payAsked, lostDays, payRun, register, postings>>
HeadTaken(c) ==
    /\ Is(c, "structure", "reading") /\ Clash(c)
    /\ End(c, "refused") /\ UNCHANGED <<payAsked, tables>>

(* A batch of attendance: each day of an employee has one row; an entry for *)
(* an employee of another tenant undoes the batch.                          *)
MarkAll(entries) ==
    [e \in DOMAIN lostDays |->
        LET mine == {m \in entries : m.emp = e}
        IN  [d \in DOMAIN lostDays[e] \cup {m.date : m \in mine} |->
                IF \E m \in mine : m.date = d THEN (CHOOSE m \in mine : m.date = d).lost
                ELSE lostDays[e][d]]]
markAttendance(c) ==
    /\ Is(c, "attend", "start")
    /\ IF \A m \in payAsked[c].entries : m.emp \in DOMAIN structures
       THEN lostDays' = MarkAll(payAsked[c].entries) /\ End(c, "done")
       ELSE UNCHANGED lostDays /\ End(c, "refused")
    /\ UNCHANGED <<payAsked, structures, payRun, register, postings>>
LostDays(e) == MapThenSumSet(LAMBDA d : lostDays[e][d], DOMAIN lostDays[e])

-----------------------------------------------------------------------------
(* runPayroll: the employees first, then the header, which locks its row    *)
(* and is DRAFT again if it was there.                                      *)
ListEmployees(c) ==
    /\ Is(c, "run", "start")
    /\ IF DOMAIN structures = {}
       THEN End(c, "refused")
       ELSE work' = [work EXCEPT ![c].list = DOMAIN structures] /\ Goto(c, "reading")
    /\ UNCHANGED <<payAsked, tables>>
UpsertHeader(c) ==
    /\ Is(c, "run", "reading") /\ RunFree
    /\ Goto(c, "locked") /\ UNCHANGED <<payAsked, work, tables>>
PayOf(e) == computeEmployeePay(structures[e], LostDays(e), TermsOf[e])
ComputePay(c) ==
    /\ Is(c, "run", "locked")
    /\ \E e \in work[c].list \ work[c].done :
          /\ \A d \in work[c].list \ work[c].done : e <= d
          /\ work' = [work EXCEPT ![c].done = @ \cup {e}, ![c].rows = Put(@, e, PayOf(e))]
    /\ UNCHANGED <<payAsked, step, tables>>

SumOver(rows, part) == MapThenSumSet(LAMBDA e : rows[e][part], DOMAIN rows)

Merge(old, new) == [e \in DOMAIN old \cup DOMAIN new |-> IF e \in DOMAIN new THEN new[e] ELSE old[e]]
FinishRun(c) ==
    /\ Is(c, "run", "locked") /\ work[c].done = work[c].list
    /\ register' = Merge(register, work[c].rows)
    /\ payRun' = [payRun EXCEPT !.status = "COMPUTED", !.gross = SumOver(work[c].rows, "gross")]
    /\ End(c, "done") /\ UNCHANGED <<payAsked, structures, lostDays, postings>>

-----------------------------------------------------------------------------
(* approvePayroll reads the status without a lock, and its UPDATE does not  *)
(* look at it again.                                                        *)
CheckStatus(c) ==
    /\ Is(c, "approve", "start")
    /\ IF payRun.status = "COMPUTED"
       THEN Goto(c, "reading") /\ work' = [work EXCEPT ![c].rows = register]
       ELSE End(c, "refused")
    /\ UNCHANGED <<payAsked, tables>>

Sums == [p \in Part |-> SumOver(register, p)]
(* chk_one_side refuses a line of nothing, the deferred trigger a journal   *)
(* that does not balance.                                                   *)
Postable(s) ==
    /\ \A i \in DOMAIN Debited(s) : Debited(s)[i] > 0
    /\ \A i \in DOMAIN Credited(s) : Credited(s)[i] > 0
    /\ TotalOf(Debited(s)) = TotalOf(Credited(s))

(* Mutant: what is posted is what was read with the status.                 *)
PostAsRead(c) ==
    /\ Is(c, "approve", "reading") /\ RunFree /\ Postable(Sums)
    /\ postings' = Append(postings, [p \in Part |-> SumOver(work[c].rows, p)])
    /\ payRun' = [payRun EXCEPT !.status = "JOURNAL_POSTED", !.journal = Len(postings')]
    /\ End(c, "done") /\ UNCHANGED <<payAsked, structures, lostDays, register>>

(* The trigger posts the sums of the register and sets the status.          *)
Approve(c) ==
    /\ Is(c, "approve", "reading") /\ RunFree /\ Postable(Sums)
    /\ postings' = Append(postings, Sums)
    /\ payRun' = [payRun EXCEPT !.status = "JOURNAL_POSTED", !.journal = Len(postings')]
    /\ End(c, "done") /\ UNCHANGED <<payAsked, structures, lostDays, register>>
NotPostable(c) ==
    /\ Is(c, "approve", "reading") /\ RunFree /\ ~Postable(Sums)
    /\ End(c, "refused") /\ UNCHANGED <<payAsked, tables>>

(* Any statement may fail; the transaction is rolled back.                  *)
PayFail(c) ==
    /\ c \in DOMAIN payAsked /\ step[c] \in {"start", "reading", "locked"}
    /\ End(c, "refused") /\ UNCHANGED <<payAsked, tables>>

PayrollNext == \E c \in PayCall :
    \/ createEmployee(c) \/ Deactivate(c) \/ SetStructure(c) \/ HeadTaken(c)
    \/ markAttendance(c) \/ ListEmployees(c) \/ UpsertHeader(c) \/ ComputePay(c)
    \/ FinishRun(c) \/ CheckStatus(c) \/ Approve(c) \/ NotPostable(c) \/ PayFail(c)
PayrollSpec == PayrollInit /\ [][PayrollNext]_payrollVars

-----------------------------------------------------------------------------
PayrollTypeOK ==
    /\ payRun.status \in {"none", "COMPUTED", "JOURNAL_POSTED"} /\ payRun.journal \in 0 .. Len(postings)
    /\ DOMAIN register \subseteq DOMAIN structures /\ DOMAIN structures = DOMAIN lostDays
    /\ \A c \in PayCall : step[c] \in {"start", "done", "refused"} => work[c] = Idling

(* A payroll that says JOURNAL_POSTED has, in the journal it is linked to,  *)
(* the sums of its register as it is now, though runs and approvals of the  *)
(* period interleave.                                                       *)
PostedMatchesRegister ==
    payRun.status = "JOURNAL_POSTED" =>
        \A p \in Part : postings[payRun.journal][p] = SumOver(register, p)

(* The gross of a run is that of its register, unless somebody was hired    *)
(* while it ran: the employees are listed before the header is locked, and  *)
(* another run may have computed the new one.                               *)
RunMatchesRegister ==
    payRun.status # "none" /\ (\A c \in DOMAIN payAsked : payAsked[c].kind # "hire")
        => payRun.gross = SumOver(register, "gross")

(* "Only COMPUTED payroll runs can be approved" (payroll-service.ts:299).   *)
OnlyComputedIsApproved ==
    [][Len(postings') > Len(postings) => payRun.status = "COMPUTED"]_payrollVars

(* The register, the run and its journal agree, though runs, approvals and  *)
(* new terms of a period interleave.                                        *)
PayrollAddsUp ==
    /\ PayrollTypeOK
    /\ PostedMatchesRegister
    /\ RunMatchesRegister
=============================================================================

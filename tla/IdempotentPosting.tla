-------------------------- MODULE IdempotentPosting --------------------------
(***************************************************************************)
(* What create() promises its callers: a slot (an idempotency key of a      *)
(* tenant) is posted at most once, under an id no other slot has, and every *)
(* caller that gets an answer gets the id its slot was posted under.  A     *)
(* caller may get an error instead, whether or not the slot was posted.     *)
(***************************************************************************)
EXTENDS Naturals

CONSTANTS Request, Slot, SlotOf(_)

VARIABLES
    posted,     \* posted[s]: the id slot s was posted under, 0 before
    status,     \* status[r]: "open", "answered" or "error"
    answer      \* answer[r]: the id given to r's caller, 0 for none

vars == <<posted, status, answer>>

Init ==
    /\ posted = [s \in Slot |-> 0]
    /\ status = [r \in Request |-> "open"]
    /\ answer = [r \in Request |-> 0]

Answer(r, id) ==
    /\ answer' = [answer EXCEPT ![r] = id]
    /\ status' = [status EXCEPT ![r] = "answered"]

Error(r) ==
    /\ answer' = answer
    /\ status' = [status EXCEPT ![r] = "error"]

Post(r, id) ==
    /\ status[r] = "open"
    /\ posted[SlotOf(r)] = 0
    /\ id # 0
    /\ \A s \in Slot : posted[s] # id
    /\ posted' = [posted EXCEPT ![SlotOf(r)] = id]
    /\ Answer(r, id) \/ Error(r)

Replay(r) ==
    /\ status[r] = "open"
    /\ posted[SlotOf(r)] # 0
    /\ Answer(r, posted[SlotOf(r)])
    /\ UNCHANGED posted

Refuse(r) ==
    /\ status[r] = "open"
    /\ Error(r)
    /\ UNCHANGED posted

Next ==
    \E r \in Request : Post(r, posted'[SlotOf(r)]) \/ Replay(r) \/ Refuse(r)

Spec == Init /\ [][Next]_vars
=============================================================================

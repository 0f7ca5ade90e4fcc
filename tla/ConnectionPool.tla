--------------------------- MODULE ConnectionPool ---------------------------
(***************************************************************************)
(* The database pool of src/src/db/pool.ts and those who share it: requests *)
(* under withClient and a company's security context, the sweeps of         *)
(* RetryWorker (src/src/einvoicing/retry-worker.ts), which keep a client of *)
(* their own while their items work, the token of GspAuthService            *)
(* (src/src/einvoicing/gsp-auth.ts), which asks for a second client while   *)
(* its caller holds one, and the shutdown that drains the pool.             *)
(*                                                                         *)
(* What an item does with its row is EInvoicing's; what a request does is   *)
(* the other modules'.  Here they hold clients, set the context of their    *)
(* sessions and wait for each other.                                        *)
(***************************************************************************)
EXTENDS Integers, SequencesExt

CONSTANTS
    Caller,         \* requests, sweeps and items
    PoolSettings,   \* the pools and callers a run considers: max is
                    \* DB_POOL_MAX, role[c] what caller c is
    NoContext       \* no security context, or none set in a session

ASSUME PoolAssumption == \A setting \in PoolSettings :
    /\ setting.max \in Nat
    /\ \A c \in DOMAIN setting.role :
          /\ c \in Caller
          /\ setting.role[c].kind \in {"request", "sweep", "item"}
          /\ setting.role[c].token \in BOOLEAN
          /\ setting.role[c].chunk \in Nat

VARIABLES
    poolAsked,  \* the setting
    at,         \* at[c]: where caller c is
    outcome,    \* outcome[c]: "none", or how its work ended
    client,     \* client[c]: the client withClient or a sweep holds, 0: none
    inner,      \* inner[c]: the client loadCredential holds, 0: none
    waiting,    \* pg-pool's queue of those waiting for a client
    context,    \* context[k]: app.current_company_id in client k's session
    cached,     \* tokenCache holds a token good for 60 seconds
    round,      \* round[c]: the chunk sweep c is at
    ending      \* "no"; "ending" after SIGTERM or SIGINT; "exited"

callerVars == <<at, outcome, client, inner>>
poolVars == <<poolAsked, callerVars, waiting, context, cached, round, ending>>

Role == poolAsked.role
Running == DOMAIN Role
Client == 1 .. poolAsked.max
Ended == {"done", "failed"}
Alive == ending # "exited"
Free == {k \in Client : \A c \in Running : k \notin {client[c], inner[c]}}
Own(c) == Role[c].own
ItemsOf(s) == {c \in Running : Role[c].kind = "item" /\ Role[c].sweep = s}

PoolInit ==
    /\ poolAsked \in PoolSettings
    /\ at = [c \in Running |-> "idle"] /\ outcome = [c \in Running |-> "none"]
    /\ client = [c \in Running |-> 0] /\ inner = [c \in Running |-> 0]
    /\ waiting = <<>> /\ context = [k \in Client |-> NoContext]
    /\ cached = FALSE /\ round = [c \in Running |-> 0] /\ ending = "no"

Goes(c, to) == at' = [at EXCEPT ![c] = to]
Results(c, how) == outcome' = [outcome EXCEPT ![c] = how]
Session(k, own) == context' = [context EXCEPT ![k] = own]
-----------------------------------------------------------------------------
(* pool.connect(): a client from pg-pool, in the order of asking; once      *)
(* end() was called connect() rejects and nobody in the queue is served.    *)
MayStart(c) ==
    CASE Role[c].kind = "sweep" -> ending = "no"            \* shutdownRequested
      [] Role[c].kind = "item" -> LET s == Role[c].sweep IN at[s] = "sweeping" /\ round[s] = Role[c].chunk
      [] OTHER -> TRUE

connect(c) ==
    /\ Alive /\ at[c] = "idle" /\ MayStart(c)
    /\ IF ending = "no"
       THEN Goes(c, "waiting") /\ waiting' = Append(waiting, c) /\ UNCHANGED outcome
       ELSE Goes(c, "failed") /\ Results(c, "error") /\ UNCHANGED waiting
    /\ UNCHANGED <<poolAsked, client, inner, context, cached, round, ending>>

Serve ==
    /\ ending = "no" /\ waiting # <<>>
    /\ \E k \in Free : LET c == Head(waiting) IN
        IF at[c] = "waiting"
        THEN client' = [client EXCEPT ![c] = k] /\ Goes(c, "connected") /\ UNCHANGED inner
        ELSE inner' = [inner EXCEPT ![c] = k] /\ Goes(c, "loading") /\ UNCHANGED client
    /\ waiting' = Tail(waiting)
    /\ UNCHANGED <<poolAsked, outcome, context, cached, round, ending>>

(* Three seconds are long enough for a client that is free to be handed on. *)
Patience(c) == Free = {} \/ ending # "no"
Waits(c) == \E n \in DOMAIN waiting : waiting[n] = c
TimesOut(c) ==
    /\ Alive /\ Waits(c) /\ Patience(c)
    /\ \E n \in DOMAIN waiting : waiting[n] = c /\ waiting' = RemoveAt(waiting, n)
    /\ Goes(c, IF at[c] = "waiting" THEN "failed" ELSE "leaving") /\ Results(c, "error")
    /\ UNCHANGED <<poolAsked, client, inner, context, cached, round, ending>>
-----------------------------------------------------------------------------
(* withClient: the caller's context is set in the session, and reset in a   *)
(* finally before the client goes back; a client whose connection is lost   *)
(* is not handed on by pg-pool but replaced.                                *)
Applied(c, k) == IF Own(c) = NoContext THEN context[k] ELSE Own(c)
applySecurityContext(c) ==
    /\ Alive /\ at[c] = "connected" /\ Session(client[c], Applied(c, client[c]))
    /\ Goes(c, IF Role[c].kind = "sweep" THEN "listing"
               ELSE IF Role[c].token THEN "authorizing" ELSE "working")
    /\ UNCHANGED <<poolAsked, outcome, client, inner, waiting, cached, round, ending>>

Work(c) ==
    /\ Alive /\ at[c] = "working" /\ \E how \in {"ok", "error"} : Results(c, how)
    /\ Goes(c, "leaving")
    /\ UNCHANGED <<poolAsked, client, inner, waiting, context, cached, round, ending>>

(* Mutant: the context is cleared after a body that returned.              *)
ClearedOnSuccess(c) == IF Own(c) # NoContext /\ outcome[c] = "ok" THEN NoContext ELSE context[client[c]]
Cleared(c) == IF Own(c) = NoContext THEN context[client[c]] ELSE NoContext
release(c) ==
    /\ Alive /\ at[c] = "leaving" /\ Session(client[c], Cleared(c))
    /\ client' = [client EXCEPT ![c] = 0] /\ Goes(c, IF outcome[c] = "ok" THEN "done" ELSE "failed")
    /\ UNCHANGED <<poolAsked, outcome, inner, waiting, cached, round, ending>>

Breaks(c) ==
    /\ Alive /\ client[c] # 0 /\ at[c] \notin {"asking", "loading", "fetching", "sweeping"}
    /\ Session(client[c], NoContext) /\ client' = [client EXCEPT ![c] = 0]
    /\ Goes(c, "failed") /\ Results(c, "error")
    /\ UNCHANGED <<poolAsked, inner, waiting, cached, round, ending>>
-----------------------------------------------------------------------------
(* getToken: a cached token, or the credential read under a second          *)
(* withClient and a token fetched with it.  The portal may answer 401: the  *)
(* token is dropped, a new one fetched and the item fails for this time.    *)
AskPool(c) ==
    IF ending = "no"
    THEN Goes(c, "asking") /\ waiting' = Append(waiting, c)
    ELSE Goes(c, "leaving") /\ UNCHANGED waiting

getToken(c) ==
    /\ Alive /\ at[c] = "authorizing"
    /\ IF cached THEN Goes(c, "calling") /\ UNCHANGED <<waiting, outcome>>
       ELSE AskPool(c) /\ (IF ending = "no" THEN UNCHANGED outcome ELSE Results(c, "error"))
    /\ UNCHANGED <<poolAsked, client, inner, context, cached, round, ending>>

(* Mutant: a credential that is not found keeps its client.                 *)
KeptOnError(c, found) == IF found THEN 0 ELSE inner[c]
Returned(c, found) == 0
loadCredential(c) ==
    /\ Alive /\ at[c] = "loading"
    /\ \E found \in BOOLEAN :
        /\ Goes(c, IF found THEN "fetching" ELSE "leaving")
        /\ IF found THEN UNCHANGED outcome ELSE Results(c, "error")
        /\ inner' = [inner EXCEPT ![c] = Returned(c, found)]
    /\ Session(inner[c], IF Own(c) = NoContext THEN context[inner[c]] ELSE NoContext)
    /\ UNCHANGED <<poolAsked, client, waiting, cached, round, ending>>

fetchTokenFromGsp(c) ==
    /\ Alive /\ at[c] = "fetching"
    /\ \/ cached' = TRUE /\ Goes(c, IF outcome[c] = "none" THEN "calling" ELSE "leaving") /\ UNCHANGED outcome
       \/ Goes(c, "leaving") /\ Results(c, "error") /\ UNCHANGED cached
    /\ UNCHANGED <<poolAsked, client, inner, waiting, context, round, ending>>

Answered(c) ==
    /\ Alive /\ at[c] = "calling" /\ \E how \in {"ok", "error"} : Results(c, how)
    /\ Goes(c, "leaving")
    /\ UNCHANGED <<poolAsked, client, inner, waiting, context, cached, round, ending>>

invalidateToken(c) ==
    /\ Alive /\ at[c] = "calling" /\ cached' = FALSE /\ Results(c, "error") /\ AskPool(c)
    /\ UNCHANGED <<poolAsked, client, inner, context, round, ending>>

TokenExpires ==
    /\ Alive /\ cached /\ cached' = FALSE
    /\ UNCHANGED <<poolAsked, callerVars, waiting, context, round, ending>>
-----------------------------------------------------------------------------
(* RetryWorker.sweep: the rows are listed, then each chunk's items are      *)
(* started together and waited for; a shutdown stops it between chunks.     *)
NextRound(s, n) ==
    /\ round' = [round EXCEPT ![s] = n]
    /\ IF ending = "no" /\ \E c \in ItemsOf(s) : Role[c].chunk = n
       THEN Goes(s, "sweeping") /\ UNCHANGED outcome
       ELSE Goes(s, "leaving") /\ Results(s, "ok")

sweep(s) ==
    /\ Alive /\ at[s] = "listing" /\ NextRound(s, 1)
    /\ UNCHANGED <<poolAsked, client, inner, waiting, context, cached, ending>>

SettledRound(s) == \A c \in ItemsOf(s) : Role[c].chunk = round[s] => at[c] \in Ended
chunkArray(s) ==
    /\ Alive /\ at[s] = "sweeping" /\ SettledRound(s) /\ NextRound(s, round[s] + 1)
    /\ UNCHANGED <<poolAsked, client, inner, waiting, context, cached, ending>>
-----------------------------------------------------------------------------
(* SIGTERM or SIGINT: pool.end() is called and the sweeps are told to stop; *)
(* the process exits when every client is back.  A second signal calls      *)
(* end() again, which rejects: the process exits at once.                   *)
gracefulShutdown ==
    /\ ending = "no" /\ ending' = "ending"
    /\ UNCHANGED <<poolAsked, callerVars, waiting, context, cached, round>>
Drained ==
    /\ ending = "ending" /\ Free = Client /\ ending' = "exited"
    /\ UNCHANGED <<poolAsked, callerVars, waiting, context, cached, round>>
SecondSignal ==
    /\ ending = "ending" /\ ending' = "exited"
    /\ UNCHANGED <<poolAsked, callerVars, waiting, context, cached, round>>

CallerStep(c) ==
    \/ applySecurityContext(c) \/ Work(c) \/ release(c)
    \/ getToken(c) \/ loadCredential(c) \/ fetchTokenFromGsp(c) \/ Answered(c) \/ invalidateToken(c)
    \/ sweep(c) \/ chunkArray(c)
(* A chunk's items are started together, without waiting for anything.      *)
ItemStarts(c) == Role[c].kind = "item" /\ connect(c)

PoolNext ==
    \/ \E c \in Running : connect(c) \/ TimesOut(c) \/ CallerStep(c) \/ Breaks(c)
    \/ Serve \/ TokenExpires \/ gracefulShutdown \/ Drained \/ SecondSignal

PoolSpec == PoolInit /\ [][PoolNext]_poolVars
-----------------------------------------------------------------------------
(* Whoever works with a client works under the company of its own request,  *)
(* and under none when it has none (a sweep, an item, a health check), and  *)
(* a client nobody holds carries nobody's company: withClient clears it in  *)
(* every way its body can end.                                              *)
ContextIsOwn ==
    /\ \A c \in Running : client[c] # 0 =>
        context[client[c]] = IF at[c] = "connected" THEN NoContext ELSE Own(c)
    /\ \A k \in Free : context[k] = NoContext

(* Everyone who asked for a client comes to an end: items that hold all     *)
(* the clients and wait for one more, their sweep that waits for them, the  *)
(* requests in the queue behind them (connectionTimeoutMillis).             *)
CallersEnd == \A c \in Caller :
    (c \in Running /\ at[c] = "waiting") ~> (c \in Running /\ (at[c] \in Ended \/ ~Alive))

(* A shutdown ends by itself, whatever sweep, token or request it meets:    *)
(* every client comes back, and the drained pool lets the process exit.     *)
ShutdownEnds == ending = "ending" ~> ending = "exited"

(* Neither a shortage of clients nor a shutdown lasts for ever.             *)
EveryoneEnds ==
    /\ CallersEnd
    /\ ShutdownEnds
=============================================================================

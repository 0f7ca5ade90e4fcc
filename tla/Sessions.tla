------------------------------ MODULE Sessions ------------------------------
(***************************************************************************)
(* Users and their refresh tokens: AuthService                              *)
(* (src/src/api/auth/auth-service.ts) as the routes of                      *)
(* src/src/api/routes/auth.routes.ts run it.  register and refresh run      *)
(* inside withTransaction; login and logout run on a bare client, so each   *)
(* of their statements commits by itself.  A call is one HTTP request; its  *)
(* statements interleave with those of the others under READ COMMITTED.     *)
(*                                                                         *)
(* A token is named by the number of its INSERT; its family is the number   *)
(* of the token the login issued.  A token is presented by whoever was      *)
(* given it: two tabs that share a token are two calls that present it.     *)
(***************************************************************************)
EXTENDS Integers, FiniteSets

CONSTANTS
    Call,           \* the HTTP calls a run considers
    Email,          \* the e-mail addresses users have or want
    Seeded,         \* the e-mails that have a user and a company at the start
    Int8Parsed,     \* TRUE when the pg driver parses BIGINT columns to numbers;
                    \* the repository installs no parser, so its value is FALSE
    Nobody          \* who registered the seeded users

Kind == {"register", "login", "loginTo", "refresh", "logout"}
Draft == {"company", "user", "owner"}   \* the rows a registration inserts

ASSUME CallAssumption == IsFiniteSet(Call) /\ Nobody \notin Call
ASSUME EmailAssumption == Email # {} /\ Seeded \subseteq Email
ASSUME DriverAssumption == Int8Parsed \in BOOLEAN

VARIABLES
    pc,         \* pc[c]: the statement call c is at
    kind,       \* kind[c]: the endpoint c calls
    email,      \* email[c]: the user c is about
    arg,        \* arg[c]: the refresh token c presents, 0 for none
    reply,      \* reply[c]: how c ended, "none" before
    mine,       \* mine[c]: the token c inserted and did not commit, 0 for none
    revoking,   \* revoking[c]: the tokens c revoked and did not commit
    rowLock,    \* rowLock[c]: the token rows c has locked
    draft,      \* draft[c]: the rows registration c inserted and did not commit
    nextId,     \* the number of the next token
    tokens,     \* committed rows of refresh_tokens: id, parent, family, email
    revoked,    \* ids of the committed rows with a revoked_at
    expired,    \* ids of the tokens past their expires_at
    known,      \* ids of the tokens a caller was given
    accessOf,   \* e-mails an access token was issued for
    users,      \* committed rows of users: e-mail and, for its number, the call
                \* that inserted it
    companies,  \* committed rows of companies, by the call that inserted them
    owners      \* committed OWNER roles of a call's user in its company

members == <<users, companies, owners>>
rows  == <<tokens, revoked, members>>
own   == <<mine, revoking, rowLock, draft>>
ask   == <<kind, email, arg>>
given == <<known, accessOf>>
vars  == <<pc, ask, reply, own, nextId, expired, given, rows>>

Ids      == {t.id : t \in tokens}
Row(i)   == CHOOSE t \in tokens : t.id = i
Live     == {t \in tokens : t.id \notin revoked}
Family(i) == {t.id : t \in {u \in Live : u.family = Row(i).family}}

Registered(e) == \E u \in users : u.email = e

(* The row of token i can be locked by c.                                   *)
Free(c, i) == \A d \in Call \ {c} : i \notin rowLock[d]

-----------------------------------------------------------------------------
Init ==
    /\ pc = [c \in Call |-> "idle"]
    /\ kind = [c \in Call |-> "login"]
    /\ email = [c \in Call |-> CHOOSE e \in Email : TRUE]
    /\ arg = [c \in Call |-> 0]
    /\ reply = [c \in Call |-> "none"]
    /\ mine = [c \in Call |-> 0]
    /\ revoking = [c \in Call |-> {}]
    /\ rowLock = [c \in Call |-> {}]
    /\ draft = [c \in Call |-> {}]
    /\ nextId = 1
    /\ tokens = {} /\ revoked = {} /\ expired = {} /\ known = {} /\ accessOf = {}
    /\ users = {[email |-> e, id |-> Nobody] : e \in Seeded}
    /\ companies = {} /\ owners = {}

Goto(c, label) == pc' = [pc EXCEPT ![c] = label]

(* Mutant: the client goes back to the pool with its transaction open.      *)
EndKeepingLocks(c, how) ==
    /\ Goto(c, "done")
    /\ reply' = [reply EXCEPT ![c] = how]
    /\ mine' = [mine EXCEPT ![c] = 0]
    /\ revoking' = [revoking EXCEPT ![c] = {}]
    /\ UNCHANGED <<rowLock, draft, ask>>

(* c's database transaction is over, its locks and uncommitted rows gone.   *)
End(c, how) ==
    /\ Goto(c, "done")
    /\ reply' = [reply EXCEPT ![c] = how]
    /\ mine' = [mine EXCEPT ![c] = 0]
    /\ revoking' = [revoking EXCEPT ![c] = {}]
    /\ rowLock' = [rowLock EXCEPT ![c] = {}]
    /\ draft' = [draft EXCEPT ![c] = {}]
    /\ UNCHANGED ask

Rollback(c, why) == End(c, why) /\ UNCHANGED <<nextId, expired, given, rows>>

Stays == UNCHANGED <<ask, reply, nextId, expired, given, rows>>

(* The caller is given token i and an access token for e, unless the reply  *)
(* is lost on the way.                                                      *)
Deliver(c, i, e) ==
    \/ /\ End(c, "ok")
       /\ known' = known \cup {i}
       /\ accessOf' = accessOf \cup {e}
    \/ End(c, "lost") /\ UNCHANGED given

(* A client calls an endpoint: to refresh or to log out it presents a token *)
(* it was given, or (0) one the server does not know.                       *)
Begin(c) ==
    /\ pc[c] = "idle"
    /\ \E k \in Kind, e \in Email, i \in known \cup {0} :
          /\ k \in {"register", "login", "loginTo"} => i = 0
          /\ k = "logout" => e \in accessOf
          /\ kind' = [kind EXCEPT ![c] = k]
          /\ email' = [email EXCEPT ![c] = e]
          /\ arg' = [arg EXCEPT ![c] = i]
          /\ Goto(c, k)
    /\ UNCHANGED <<reply, own, nextId, expired, given, rows>>

-----------------------------------------------------------------------------
(* POST /login: reads, a password check, then one INSERT that commits by    *)
(* itself.  With a company_id the number asked for is compared with the     *)
(* company ids the driver returned.                                         *)
Login(c) ==
    /\ pc[c] \in {"login", "loginTo"}
    /\ \/ Rollback(c, "invalid")
       \/ /\ Registered(email[c])
          /\ pc[c] = "loginTo" /\ ~Int8Parsed
          /\ Rollback(c, "forbidden")
       \/ /\ Registered(email[c])
          /\ pc[c] = "login" \/ Int8Parsed
          /\ tokens' = tokens \cup
                {[id |-> nextId, parent |-> 0, family |-> nextId, email |-> email[c]]}
          /\ nextId' = nextId + 1
          /\ Deliver(c, nextId, email[c])
          /\ UNCHANGED <<expired, revoked, members>>

(* POST /logout: requireAuth wants sub and cid to be numbers; then one      *)
(* UPDATE of the row of this token, user and company.                       *)
Logout(c) ==
    LET Hit == {t.id : t \in {u \in tokens : u.id = arg[c] /\ u.email = email[c]}}
    IN  /\ pc[c] = "logout"
        /\ \/ ~Int8Parsed /\ Rollback(c, "unauthorized")
           \/ /\ Int8Parsed
              /\ \A i \in Hit : Free(c, i)
              /\ revoked' = revoked \cup Hit
              /\ End(c, "ok")
              /\ UNCHANGED <<nextId, expired, given, tokens, members>>

-----------------------------------------------------------------------------
(* POST /register, steps 1 and 2: SELECT user_id FROM users WHERE email =   *)
(* $1, and the hash of the password.                                        *)
RegisterCheck(c) ==
    /\ pc[c] = "register"
    /\ \/ Registered(email[c]) /\ Rollback(c, "conflict")
       \/ ~Registered(email[c]) /\ Goto(c, "company") /\ Stays /\ UNCHANGED own

(* A statement of the registration inserts a row.                           *)
Inserts(c, row, next) ==
    /\ draft' = [draft EXCEPT ![c] = @ \cup {row}]
    /\ Goto(c, next)
    /\ Stays /\ UNCHANGED <<mine, revoking, rowLock>>

(* Step 3: nothing in companies is unique but its number.                   *)
RegisterCompany(c) == pc[c] = "company" /\ Inserts(c, "company", "user")

(* Mutant: users.email lost its UNIQUE; the SELECT of step 1 is what is left. *)
RegisterUserTwice(c) == pc[c] = "user" /\ Inserts(c, "user", "owner")

(* Step 4: the e-mail is UNIQUE.  The INSERT waits for an uncommitted row   *)
(* with it, fails on a committed one, and goes on if that one went away.    *)
RegisterUser(c) ==
    /\ pc[c] = "user"
    /\ \A d \in Call \ {c} : "user" \in draft[d] => email[d] # email[c]
    /\ \/ Registered(email[c]) /\ Rollback(c, "failed")
       \/ ~Registered(email[c]) /\ Inserts(c, "user", "owner")

(* Step 5: the OWNER role.                                                  *)
RegisterOwner(c) == pc[c] = "owner" /\ Inserts(c, "owner", "firstLogin")

(* Step 6, login with the parsed company_id, and the COMMIT.                *)
Inserting(c, row) == {d \in {c} : row \in draft[d]}
RegisterLogin(c) ==
    /\ pc[c] = "firstLogin"
    /\ \/ ~Int8Parsed /\ Rollback(c, "forbidden")
       \/ /\ Int8Parsed
          /\ tokens' = tokens \cup
                {[id |-> nextId, parent |-> 0, family |-> nextId, email |-> email[c]]}
          /\ nextId' = nextId + 1
          /\ users' = users \cup {[email |-> email[d], id |-> d] : d \in Inserting(c, "user")}
          /\ companies' = companies \cup Inserting(c, "company")
          /\ owners' = owners \cup Inserting(c, "owner")
          /\ Deliver(c, nextId, email[c])
          /\ UNCHANGED <<expired, revoked>>

-----------------------------------------------------------------------------
(* Where refresh goes once it has read the row of its token.                *)
AfterLookUp(c) ==
    \/ arg[c] \in revoked /\ Goto(c, "reuse")
    \/ arg[c] \notin revoked /\ arg[c] \notin expired /\ Goto(c, "revoke")

(* Mutant: the SELECT lost its FOR UPDATE.                                  *)
LookUpWithoutLock(c) ==
    /\ pc[c] = "refresh"
    /\ \/ arg[c] \notin Ids /\ Rollback(c, "invalid")
       \/ arg[c] \in (Ids \cap expired) \ revoked /\ Rollback(c, "expired")
       \/ arg[c] \in Ids /\ AfterLookUp(c) /\ Stays /\ UNCHANGED own

(* POST /refresh, steps 1 to 3: SELECT ... FOR UPDATE, then the checks.     *)
LookUp(c) ==
    /\ pc[c] = "refresh"
    /\ Free(c, arg[c])
    /\ \/ arg[c] \notin Ids /\ Rollback(c, "invalid")
       \/ arg[c] \in (Ids \cap expired) \ revoked /\ Rollback(c, "expired")
       \/ /\ arg[c] \in Ids
          /\ AfterLookUp(c)
          /\ rowLock' = [rowLock EXCEPT ![c] = @ \cup {arg[c]}]
          /\ Stays /\ UNCHANGED <<mine, revoking, draft>>

(* Mutant: the UPDATE sets last_used_at in the place of revoked_at.         *)
Touch(c, S) ==
    /\ \A i \in S : Free(c, i)
    /\ rowLock' = [rowLock EXCEPT ![c] = @ \cup S]
    /\ UNCHANGED <<revoking, mine, draft>>

(* UPDATE refresh_tokens SET revoked_at = now() of the rows S.              *)
Revoke(c, S) ==
    /\ \A i \in S : Free(c, i)
    /\ revoking' = [revoking EXCEPT ![c] = @ \cup S]
    /\ rowLock' = [rowLock EXCEPT ![c] = @ \cup S]
    /\ UNCHANGED <<mine, draft>>

(* The token was revoked before: UPDATE the family ...                      *)
RevokeFamily(c) ==
    /\ pc[c] = "reuse"
    /\ Revoke(c, Family(arg[c]))
    /\ Goto(c, "throw")
    /\ Stays

(* ... and throw, which takes the route's transaction back.                 *)
ThrowReuse(c) == pc[c] = "throw" /\ Rollback(c, "reuse")

(* Step 4: the old token is revoked.                                        *)
RevokeOld(c) ==
    /\ pc[c] = "revoke"
    /\ Revoke(c, {arg[c]})
    /\ Goto(c, "rotate")
    /\ Stays

(* Step 6, generateTokenPair: what is left of the family is revoked too.    *)
Rotate(c) ==
    /\ pc[c] = "rotate"
    /\ Revoke(c, Family(arg[c]) \ revoking[c])
    /\ Goto(c, "insert")
    /\ Stays

Insert(c) ==
    /\ pc[c] = "insert"
    /\ mine' = [mine EXCEPT ![c] = nextId]
    /\ nextId' = nextId + 1
    /\ Goto(c, "commit")
    /\ UNCHANGED <<ask, reply, revoking, rowLock, draft, expired, given, rows>>

Commit(c) ==
    /\ pc[c] = "commit"
    /\ tokens' = tokens \cup {[id |-> mine[c], parent |-> arg[c],
                               family |-> Row(arg[c]).family, email |-> Row(arg[c]).email]}
    /\ revoked' = revoked \cup revoking[c]
    /\ Deliver(c, mine[c], Row(arg[c]).email)
    /\ UNCHANGED <<nextId, expired, members>>

(* The connection drops or the process dies before the commit.              *)
Fail(c) == pc[c] \notin {"idle", "done"} /\ Rollback(c, "failed")

(* Seven days pass.                                                         *)
Expire(i) ==
    /\ i \in Ids \ expired
    /\ expired' = expired \cup {i}
    /\ UNCHANGED <<pc, ask, reply, own, nextId, given, rows>>

-----------------------------------------------------------------------------
Step(c) ==
    \/ Login(c) \/ Logout(c)
    \/ RegisterCheck(c) \/ RegisterCompany(c) \/ RegisterUser(c) \/ RegisterOwner(c)
    \/ RegisterLogin(c)
    \/ LookUp(c) \/ RevokeFamily(c) \/ ThrowReuse(c)
    \/ RevokeOld(c) \/ Rotate(c) \/ Insert(c) \/ Commit(c)

Next ==
    \/ \E c \in Call : Begin(c) \/ Step(c) \/ Fail(c)
    \/ \E i \in Ids : Expire(i)

Spec == Init /\ [][Next]_vars

(* The server runs every call it accepted to its end.                       *)
FairSpec == Spec /\ \A c \in Call : WF_vars(Step(c))

-----------------------------------------------------------------------------
(* Properties                                                               *)

(* Every variable has the shape its comment gives it; nobody was given a    *)
(* token that has no row, and only rows are revoked or expire.              *)
TypeOK ==
    /\ pc \in [Call -> {"idle", "done", "company", "user", "owner", "firstLogin", "reuse", "throw",
                        "revoke", "rotate", "insert", "commit"} \cup Kind]
    /\ kind \in [Call -> Kind] /\ email \in [Call -> Email] /\ arg \in [Call -> Nat]
    /\ reply \in [Call -> {"none", "ok", "lost", "invalid", "forbidden", "unauthorized",
                           "conflict", "failed", "expired", "reuse"}]
    /\ mine \in [Call -> Nat] /\ nextId \in Nat \ {0}
    /\ revoking \in [Call -> SUBSET Nat] /\ rowLock \in [Call -> SUBSET Nat]
    /\ draft \in [Call -> SUBSET Draft]
    /\ tokens \subseteq [id : Nat, parent : Nat, family : Nat, email : Email]
    /\ revoked \subseteq Ids /\ expired \subseteq Ids /\ known \subseteq Ids
    /\ accessOf \subseteq Email
    /\ users \subseteq [email : Email, id : Call \cup {Nobody}]
    /\ companies \subseteq Call /\ owners \subseteq Call

(* "Revoke the old token (single use)": no token is exchanged twice, however *)
(* many calls present it at once.                                           *)
SingleUse ==
    \A t, u \in tokens : t.parent = u.parent /\ t.parent # 0 => t = u

(* A token is exchanged only while it is live: neither a logout nor another *)
(* refresh that ends first can be overtaken.                                *)
ExchangesLiveTokens ==
    [][\A t \in tokens' \ tokens : t.parent # 0 => t.parent \notin revoked]_vars

(* Exchange keeps a family to one live token: the chain of successors has   *)
(* its last link only.                                                      *)
OneLivePerFamily ==
    \A t, u \in Live : t.family = u.family => t = u

(* Of the registrations that race for an e-mail one at most succeeds: an    *)
(* e-mail has one user.  A registration that succeeded has its user, under  *)
(* the e-mail it asked for, its company and the role that joins them; one   *)
(* that did not, wherever it stopped, has left none of the three.           *)
RegistrationIsAtomic ==
    /\ \A u, v \in users : u.email = v.email => u = v
    /\ \A c \in Call :
          LET user == [email |-> email[c], id |-> c]
              succeeded == kind[c] = "register" /\ reply[c] \in {"ok", "lost"}
          IN  IF succeeded THEN user \in users /\ c \in companies /\ c \in owners
              ELSE c \notin companies \cup owners \cup {u.id : u \in users}

(* "Automatically log the user in and return tokens": a registration is not *)
(* turned away by the login it ends with.  It does not hold: the company's  *)
(* number is parsed and looked for among the driver's strings.              *)
RegisteredAreLoggedIn ==
    \A c \in Call : kind[c] = "register" => reply[c] # "forbidden"

(* Every call the server accepted ends: no two calls wait for each other's  *)
(* token rows, though PostgreSQL's deadlock detector is not modelled.       *)
EveryCallEnds == \A c \in Call : pc[c] # "idle" ~> pc[c] = "done"

=============================================================================

---- MODULE SetupClaim ----
(***************************************************************************)
(* First-run setup: who becomes the admin of the instance.                 *)
(*                                                                         *)
(* POST /api/setup/admin with the operator's token claims setup_state,     *)
(* signs the user up, sets its role and takes the claim back when either   *)
(* fails.  Without the token it only signs the user up, and the hook after *)
(* email verification claims and sets the role.  No transaction spans the  *)
(* steps, and any number of requests and hooks run at once.                *)
(*                                                                         *)
(* Source: apps/api/src/routes/setup-admin.ts, completeSetupAdmin and the  *)
(* sign-up wrapper in apps/api/src/index.ts, afterEmailVerification in     *)
(* auth.ts, routes/delete-account.ts.  Better Auth is external.            *)
(***************************************************************************)
EXTENDS Integers, FiniteSets

CONSTANTS
  Requests,   \* requests with the operator's token
  Ids,        \* user ids the database hands out
  Emails,
  NoId, NoEmail,
  MaxFails,   \* bound: how many statements and sign-ups fail
  MaxCrashes  \* bound: how many processes die

ASSUME SetupAssumption ==
  /\ NoId \notin Ids
  /\ NoEmail \notin Emails
  /\ Requests \cap Ids = {}
  /\ MaxFails \in Nat
  /\ MaxCrashes \in Nat

VARIABLES
  status,    \* setup_state.status
  user,      \* the rows of users, by id
  request,
  hook,      \* where the verification hook of a user is
  fails,
  crashes

vars == <<status, user, request, hook, fails, crashes>>

Statuses == {"pending", "completed", "skipped_legacy"}
\* A row that is deleted keeps what it was.
Rows == [state: {"unused", "live", "deleted"}, email: Emails \cup {NoEmail},
         verified: BOOLEAN, admin: BOOLEAN]
\* id: the user the sign-up returned, NoId if no row has that id; told: the email
\* in the reply; "stuck" is a rejection that could not give the claim back.
Request == [at: {"start", "signup", "flip", "delete", "reopen", "lookup", "end"},
            email: Emails \cup {NoEmail}, id: Ids \cup {NoId},
            reply: {"none", "created", "rejected", "stuck", "already"},
            told: Emails \cup {NoEmail}]
Hooks == {"none", "claim", "flip", "reopen", "end", "dead"}

Live(u) == user[u].state = "live"
Admins == {u \in Ids : Live(u) /\ user[u].admin}
Holds(r) == request[r].at \in {"signup", "flip", "delete", "reopen"}
HookHolds(u) == hook[u] \in {"flip", "reopen"}
\* Who has claimed setup and is still at it.
Holders == {r \in Requests : Holds(r)} \cup {u \in Ids : HookHolds(u)}

Init ==
  /\ status \in {"pending", "skipped_legacy"}
  /\ user = [u \in Ids |-> [state |-> "unused", email |-> NoEmail,
                            verified |-> FALSE, admin |-> FALSE]]
  /\ request = [r \in Requests |-> [at |-> "start", email |-> NoEmail, id |-> NoId,
                                    reply |-> "none", told |-> NoEmail]]
  /\ hook = [u \in Ids |-> "none"]
  /\ fails = 0
  /\ crashes = 0

AFailure == fails < MaxFails /\ fails' = fails + 1
Goes(r, stage) == request' = [request EXCEPT ![r].at = stage]
Replies(r, reply) == request' = [request EXCEPT ![r].at = "end", ![r].reply = reply]
HookGoes(u, stage) == hook' = [hook EXCEPT ![u] = stage]
Taken(e) == \E u \in Ids : Live(u) /\ user[u].email = e
SetsRole(u) == user' = [user EXCEPT ![u].admin = TRUE]

-----------------------------------------------------------------------------
\* Better Auth.

\* A row of users; the mail with the link goes out with it.
Inserts(u, e) ==
  /\ user[u].state = "unused"
  /\ user' = [user EXCEPT ![u].state = "live", ![u].email = e]

\* The email branch of the route, and the public sign-up.  Bound: it leaves an id
\* for every request.
SignUp(u, e) ==
  /\ Cardinality({v \in Ids : user[v].state = "unused"}) > Cardinality(Requests)
  /\ ~Taken(e)
  /\ Inserts(u, e)
  /\ UNCHANGED <<status, request, hook, fails, crashes>>

\* The link is followed; a user is verified once.
Verify(u) ==
  /\ Live(u)
  /\ ~user[u].verified
  /\ user' = [user EXCEPT ![u].verified = TRUE]
  /\ HookGoes(u, "claim")
  /\ UNCHANGED <<status, request, fails, crashes>>

\* A verified user has a session, and with it deletes the account.
DeleteAccount(u) ==
  /\ Live(u)
  /\ user[u].verified
  /\ user' = [user EXCEPT ![u].state = "deleted"]
  /\ UNCHANGED <<status, request, hook, fails, crashes>>

-----------------------------------------------------------------------------
\* POST /api/setup/admin with the token.

\* Mutant: without AND status = 'pending'.
ClaimAny(r, e) ==
  /\ request[r].at = "start"
  /\ status' = "completed"
  /\ request' = [request EXCEPT ![r].at = "signup", ![r].email = e]
  /\ UNCHANGED <<user, hook, fails, crashes>>

\* The statement that claims setup matches the row.
Claim(r, e) ==
  /\ request[r].at = "start"
  /\ status = "pending"
  /\ status' = "completed"
  /\ request' = [request EXCEPT ![r].at = "signup", ![r].email = e]
  /\ UNCHANGED <<user, hook, fails, crashes>>

\* It matches no row.
ClaimLost(r, e) ==
  /\ request[r].at = "start"
  /\ status # "pending"
  /\ request' = [request EXCEPT ![r].at = "lookup", ![r].email = e]
  /\ UNCHANGED <<status, user, hook, fails, crashes>>

\* The reply names the first user whose role is admin, if there is one.
Lookup(r) ==
  /\ request[r].at = "lookup"
  /\ \E told \in IF Admins = {} THEN {NoEmail} ELSE {user[u].email : u \in Admins} :
       request' = [request EXCEPT ![r] = [@ EXCEPT !.at = "end", !.reply = "already",
                                                  !.told = told]]
  /\ UNCHANGED <<status, user, hook, fails, crashes>>

\* The sign-up of an address nobody has.
ClaimSignUp(r) ==
  /\ request[r].at = "signup"
  /\ ~Taken(request[r].email)
  /\ \E u \in Ids :
       /\ Inserts(u, request[r].email)
       /\ request' = [request EXCEPT ![r].at = "flip", ![r].id = u]
  /\ UNCHANGED <<status, hook, fails, crashes>>

\* Of one that is taken: Better Auth answers with an id that no row has.
ClaimSignUpTaken(r) ==
  /\ request[r].at = "signup"
  /\ Taken(request[r].email)
  /\ Goes(r, "flip")
  /\ UNCHANGED <<status, user, hook, fails, crashes>>

ClaimSignUpFails(r) ==
  /\ request[r].at = "signup"
  /\ AFailure
  /\ Goes(r, "reopen")
  /\ UNCHANGED <<status, user, hook, crashes>>

\* UPDATE users SET role WHERE id: the number of rows is not looked at.
Flip(r) ==
  /\ request[r].at = "flip"
  /\ IF request[r].id # NoId /\ Live(request[r].id)
     THEN SetsRole(request[r].id)
     ELSE UNCHANGED user
  /\ Replies(r, "created")
  /\ UNCHANGED <<status, hook, fails, crashes>>

\* An error: the update may have been committed all the same.
FlipFails(r) ==
  /\ request[r].at = "flip"
  /\ AFailure
  /\ \/ /\ request[r].id # NoId
        /\ Live(request[r].id)
        /\ SetsRole(request[r].id)
     \/ UNCHANGED user
  /\ Goes(r, "delete")
  /\ UNCHANGED <<status, hook, crashes>>

\* Undoing: the user, then the claim; a failure of the one does not stop the other.
Delete(r) ==
  /\ request[r].at = "delete"
  /\ IF request[r].id # NoId /\ Live(request[r].id)
     THEN user' = [user EXCEPT ![request[r].id] = [@ EXCEPT !.state = "deleted",
                                                            !.admin = FALSE]]
     ELSE UNCHANGED user
  /\ Goes(r, "reopen")
  /\ UNCHANGED <<status, hook, fails, crashes>>

DeleteFails(r) ==
  /\ request[r].at = "delete"
  /\ AFailure
  /\ Goes(r, "reopen")
  /\ UNCHANGED <<status, user, hook, crashes>>

Reopen(r) ==
  /\ request[r].at = "reopen"
  /\ status' = "pending"
  /\ Replies(r, "rejected")
  /\ UNCHANGED <<user, hook, fails, crashes>>

ReopenFails(r) ==
  /\ request[r].at = "reopen"
  /\ AFailure
  /\ Replies(r, "stuck")
  /\ UNCHANGED <<status, user, hook, crashes>>

-----------------------------------------------------------------------------
\* completeSetupAdmin, called by afterEmailVerification.

\* Mutant: whoever is verified first sets the role, claimed or not.
HookClaimAlways(u) ==
  /\ hook[u] = "claim"
  /\ status' = IF status = "pending" THEN "completed" ELSE status
  /\ HookGoes(u, "flip")
  /\ UNCHANGED <<user, request, fails, crashes>>

HookClaim(u) ==
  /\ hook[u] = "claim"
  /\ IF status = "pending"
     THEN status' = "completed" /\ HookGoes(u, "flip")
     ELSE UNCHANGED status /\ HookGoes(u, "end")
  /\ UNCHANGED <<user, request, fails, crashes>>

\* Mutant: a flip that matches no row keeps the claim.
HookFlipKeepsClaim(u) ==
  /\ hook[u] = "flip"
  /\ IF Live(u) /\ user[u].verified THEN SetsRole(u) ELSE UNCHANGED user
  /\ HookGoes(u, "end")
  /\ UNCHANGED <<status, request, fails, crashes>>

\* WHERE id AND email_verified, and here the rows are counted.
HookFlip(u) ==
  /\ hook[u] = "flip"
  /\ IF Live(u) /\ user[u].verified
     THEN SetsRole(u) /\ HookGoes(u, "end")
     ELSE UNCHANGED user /\ HookGoes(u, "reopen")
  /\ UNCHANGED <<status, request, fails, crashes>>

\* It throws, and so does the hook: nothing is undone.
HookFlipFails(u) ==
  /\ hook[u] = "flip"
  /\ AFailure
  /\ \/ Live(u) /\ user[u].verified /\ SetsRole(u)
     \/ UNCHANGED user
  /\ HookGoes(u, "dead")
  /\ UNCHANGED <<status, request, crashes>>

HookReopen(u) ==
  /\ hook[u] = "reopen"
  /\ status' = "pending"
  /\ HookGoes(u, "end")
  /\ UNCHANGED <<user, request, fails, crashes>>

HookReopenFails(u) ==
  /\ hook[u] = "reopen"
  /\ AFailure
  /\ HookGoes(u, "dead")
  /\ UNCHANGED <<status, user, request, crashes>>

-----------------------------------------------------------------------------
\* The process that serves a request or runs a hook dies.
Crash ==
  /\ crashes < MaxCrashes
  /\ crashes' = crashes + 1
  /\ \/ \E r \in Requests : Holds(r) /\ Goes(r, "end") /\ UNCHANGED hook
     \/ \E u \in Ids : HookHolds(u) /\ HookGoes(u, "dead") /\ UNCHANGED request
  /\ UNCHANGED <<status, user, fails>>

Serve(r) ==
  \/ \E e \in Emails : Claim(r, e) \/ ClaimLost(r, e)
  \/ Lookup(r)
  \/ ClaimSignUp(r) \/ ClaimSignUpTaken(r) \/ ClaimSignUpFails(r)
  \/ Flip(r) \/ FlipFails(r)
  \/ Delete(r) \/ DeleteFails(r)
  \/ Reopen(r) \/ ReopenFails(r)

RunHook(u) ==
  \/ HookClaim(u)
  \/ HookFlip(u) \/ HookFlipFails(u)
  \/ HookReopen(u) \/ HookReopenFails(u)

Next ==
  \/ \E u \in Ids, e \in Emails : SignUp(u, e)
  \/ \E u \in Ids : Verify(u) \/ DeleteAccount(u) \/ RunHook(u)
  \/ \E r \in Requests : Serve(r)
  \/ Crash

Spec == Init /\ [][Next]_vars

-----------------------------------------------------------------------------
TypeOK ==
  /\ status \in Statuses
  /\ user \in [Ids -> Rows]
  /\ request \in [Requests -> Request]
  /\ hook \in [Ids -> Hooks]
  /\ fails \in 0..MaxFails
  /\ crashes \in 0..MaxCrashes

\* A process that held the claim died, or could not give it back.
Cut ==
  \/ \E r \in Requests : request[r].at = "end" /\ request[r].reply \in {"none", "stuck"}
  \/ \E u \in Ids : hook[u] = "dead"

\* The reply says that an admin was made, and the role's update matched no row.
CreatedNobody(r) ==
  /\ request[r].reply = "created"
  /\ request[r].id # NoId => ~user[request[r].id].admin

\* A user that could not be deleted after its role had been set.
Leftover(u) == \E r \in Requests : request[r].id = u /\ request[r].reply \in {"rejected", "stuck"}

\* Setup that is completed has made an admin, if no process was cut short and
\* each "created" was true: every error path gives the claim back.  (The admin
\* may have deleted the account since.)
CompletedHasAdmin ==
  status = "completed" /\ Holders = {} =>
    \/ \E u \in Ids : user[u].admin
    \/ Cut
    \/ \E r \in Requests : CreatedNobody(r)

\* Requests and hooks in any order make one admin, and a setup that is open again
\* has none; but for a user whose deletion failed.
OneAdmin ==
  /\ \A u, v \in Admins : u = v \/ Leftover(u) \/ Leftover(v)
  /\ status = "pending" => \A u \in Admins : Leftover(u)

GateState == IF status = "pending" THEN "open" ELSE "closed"
Gate == INSTANCE Setup WITH
  Processes <- Requests \cup Ids,
  Users <- Ids,
  gate <- GateState,
  holders <- Holders,
  admins <- Admins
\* setup_state is a lock: whoever closed it, and nobody else, makes admins and opens it.
SetupLock == Gate!Spec

\* What tests/unit/routes/__tests__/setup-admin-rollback.test.ts calls wedged: setup
\* completed, no admin, and nothing that went wrong.
NeverWedged == status = "completed" /\ Holders = {} => Cut \/ \E u \in Ids : user[u].admin
====

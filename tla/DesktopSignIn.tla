---- MODULE DesktopSignIn ----
(***************************************************************************)
(* The desktop's sign-in through an identity provider, with roles from its *)
(* groups (OIDC_TENANT_CLAIM set to a claim's name):                       *)
(* routes/desktop-signin.ts stores a state, routes/auth-callback.ts        *)
(* consumes it and lib/mint-bearer.ts reads the profile, finds, re-syncs   *)
(* or creates the user, and mints a session.                               *)
(*                                                                         *)
(* One person signs in, on several devices at once, while the directory    *)
(* changes and the account may be deleted and made again. Setup is         *)
(* complete, so no role comes from the hook that makes the first admin.    *)
(***************************************************************************)
EXTENDS JitResolver

CONSTANTS
  Slots,          \* stored states that are under way at once
  Requests,       \* callbacks under way at once
  Claims,         \* what the provider may say of the person
  DefaultTenant,  \* the tenant of every account
  MaxMoves,       \* bound: changes in the directory
  MaxAccounts     \* bound: times the account is made

\* A tenant's id is a uuid.
ASSUME TenantAssumption == DefaultTenant \notin {Unasked, Nowhere}

ASSUME ClaimsAssumption == \A c \in Claims : c.groups \in Seq(ToSet(c.groups))

ASSUME BoundsAssumption == MaxMoves \in Nat /\ MaxAccounts \in Nat

NoRole == "norole"
NoUser == 0

VARIABLES
  directory,  \* what the provider says of the person now
  moves,      \* how often that has changed
  state,      \* a slot's row of oauth_state: "none", "fresh", "consumed", or "expired"
              \* when its time is over before it was consumed
  account,    \* the person's row of users: its id and role
  made,       \* accounts made so far
  audit,      \* <<id, role>> of each sso.jit.user.created and role.updated row
  lost,       \* <<id, role>> whose audit row could not be written
  bearers,    \* the number of bearers a slot's row has led to
  req         \* the callbacks; the role of one is the role its user was found with,
              \* or that it is about to write or has written

vars == <<directory, moves, state, account, made, audit, lost, bearers, req>>
world == <<directory, moves, account, made>>

NoClaims == [key |-> Missing, groups |-> <<>>]

Idle == [at |-> "idle", slot |-> "none", claims |-> NoClaims, user |-> NoUser,
         role |-> NoRole, said |-> "nothing"]

Init ==
  /\ directory \in Claims
  /\ moves = 0
  /\ state = [s \in Slots |-> "none"]
  /\ account = [id |-> NoUser, role |-> NoRole]
  /\ made = 0
  /\ audit = {}
  /\ lost = {}
  /\ bearers = [s \in Slots |-> 0]
  /\ req = [r \in Requests |-> Idle]

Goes(r, to) == req' = [req EXCEPT ![r] = to]
At(r, step) == req[r].at = step

\* The handler has answered: with a bearer, the code of a refusal, or an exception.
Over(r, said) == [req[r] EXCEPT !.at = "over", !.said = said]

Breaks(r) == Goes(r, [Idle EXCEPT !.at = "over", !.slot = req[r].slot, !.said = "error"])

\* A refusal is answered once its audit row is written; otherwise it is an error.
Refused(r, code) ==
  \/ Goes(r, Over(r, code))
  \/ Breaks(r)

---------------------------------------------------------------------------
(* The provider, the clock, and the person's other ways to an account      *)

Moves ==
  /\ moves < MaxMoves
  /\ \E c \in Claims \ {directory} : directory' = c
  /\ moves' = moves + 1
  /\ UNCHANGED <<state, account, made, audit, lost, bearers, req>>

Expires(s) ==
  /\ state[s] = "fresh"
  /\ state' = [state EXCEPT ![s] = "expired"]
  /\ UNCHANGED <<world, audit, lost, bearers, req>>

\* A sign-up by e-mail: the role stays null.
SignsUp ==
  /\ account.id = NoUser
  /\ made < MaxAccounts
  /\ made' = made + 1
  /\ account' = [id |-> made', role |-> NoRole]
  /\ UNCHANGED <<directory, moves, state, audit, lost, bearers, req>>

\* routes/delete-account.ts: the sessions and the user in one transaction.
Deletes ==
  /\ account.id # NoUser
  /\ account' = [id |-> NoUser, role |-> NoRole]
  /\ UNCHANGED <<directory, moves, made, state, audit, lost, bearers, req>>

---------------------------------------------------------------------------
(* The state                                                               *)

\* GET /api/desktop-signin stores a state, in a slot no callback names any more.
\* A discovery that fails stores nothing.
Starts(s) ==
  /\ s \notin {req[r].slot : r \in {q \in Requests : ~At(q, "idle")}}
  /\ state' = [state EXCEPT ![s] = "fresh"]
  /\ bearers' = [bearers EXCEPT ![s] = 0]
  /\ UNCHANGED <<world, audit, lost, req>>

\* Mutant: the update does not ask that consumed_at is null.
CallbackTwice(r, s) ==
  /\ At(r, "idle")
  /\ state[s] \in {"fresh", "consumed"}
  /\ state' = [state EXCEPT ![s] = "consumed"]
  /\ Goes(r, [Idle EXCEPT !.at = "exchange", !.slot = s])
  /\ UNCHANGED <<world, audit, lost, bearers>>

\* GET /api/auth/desktop-callback consumes the row, if nobody has and it is in time.
\* A callback that finds it otherwise is answered 400 and changes nothing.
Callback(r, s) ==
  /\ At(r, "idle")
  /\ state[s] = "fresh"
  /\ state' = [state EXCEPT ![s] = "consumed"]
  /\ Goes(r, [Idle EXCEPT !.at = "exchange", !.slot = s])
  /\ UNCHANGED <<world, audit, lost, bearers>>

---------------------------------------------------------------------------
(* mintBearer                                                              *)

\* The code is exchanged for a token, and the token for the profile.
Exchange(r) ==
  /\ At(r, "exchange")
  /\ Goes(r, [req[r] EXCEPT !.at = "find", !.claims = directory])
  /\ UNCHANGED <<world, state, audit, lost, bearers>>

\* findUserByEmail, and the decision on the claims alone. A new user must belong to
\* the default tenant; an old one is looked up in the tenant of the claims.
Find(r) ==
  LET decision == Decide(req[r].claims, Unasked)
  IN /\ At(r, "find")
     /\ IF decision.code # "ok" THEN Refused(r, decision.code)
        ELSE IF account.id # NoUser
        THEN Goes(r, [req[r] EXCEPT !.at = "load", !.user = account.id])
        ELSE IF decision.tenant # DefaultTenant THEN Refused(r, "forbidden_tenant_mismatch")
        ELSE Goes(r, [req[r] EXCEPT !.at = "create", !.role = decision.role])
     /\ UNCHANGED <<world, state, audit, lost, bearers>>

\* Mutant: a known user goes straight to the session.
LoadNothing(r) ==
  /\ At(r, "load")
  /\ Goes(r, [req[r] EXCEPT !.at = "mint", !.role = account.role])
  /\ UNCHANGED <<world, state, audit, lost, bearers>>

\* The row is read under the tenant of the claims, and decided on again: a row that
\* is not seen there is one of another tenant. Only a role that is one of the three
\* and differs is re-synced: a null one stays. withTenant throws for a tenant that is
\* no uuid.
Load(r) ==
  LET claims == req[r].claims
      seen == account.id = req[r].user /\ Decide(claims, Unasked).tenant = DefaultTenant
      decision == Decide(claims, IF seen THEN DefaultTenant ELSE Nowhere)
  IN /\ At(r, "load")
     /\ Decide(claims, Unasked).tenant # Nowhere
     /\ IF decision.code # "ok" THEN Refused(r, decision.code)
        ELSE Goes(r, [req[r] EXCEPT
                        !.at = IF account.role \in Roles \ {decision.role} THEN "resync" ELSE "mint",
                        !.role = IF account.role \in Roles THEN decision.role ELSE NoRole])
     /\ UNCHANGED <<world, state, audit, lost, bearers>>

\* A user was created or its role changed: the audit row is the next step, unless
\* the commit is not acknowledged.
Stored(r, id) ==
  \/ Goes(r, [req[r] EXCEPT !.at = "trace", !.user = id]) /\ UNCHANGED lost
  \/ Breaks(r) /\ lost' = lost \cup {<<id, req[r].role>>}

\* persistRoleResync: no row is touched if the user is gone.
Resync(r) ==
  /\ At(r, "resync")
  /\ account' = IF account.id = req[r].user THEN [account EXCEPT !.role = req[r].role]
                ELSE account
  /\ Stored(r, req[r].user)
  /\ UNCHANGED <<directory, moves, made, state, audit, bearers>>

\* Mutant: the new user is not traced.
CreateUntraced(r) ==
  /\ At(r, "create")
  /\ account.id = NoUser
  /\ made < MaxAccounts
  /\ made' = made + 1
  /\ account' = [id |-> made', role |-> req[r].role]
  /\ Goes(r, [req[r] EXCEPT !.at = "mint", !.user = made'])
  /\ UNCHANGED <<directory, moves, state, audit, lost, bearers>>

\* createOAuthUser: the address is unique in the tenant, so the second of two that
\* found no user fails.
Create(r) ==
  /\ At(r, "create")
  /\ account.id = NoUser
  /\ made < MaxAccounts
  /\ made' = made + 1
  /\ account' = [id |-> made', role |-> req[r].role]
  /\ Stored(r, made')
  /\ UNCHANGED <<directory, moves, state, audit, bearers>>

\* emitUserCreated or emitRoleUpdated, in a transaction of its own.
Trace(r) ==
  LET change == <<req[r].user, req[r].role>>
  IN /\ At(r, "trace")
     /\ \/ /\ audit' = audit \cup {change}
           /\ Goes(r, [req[r] EXCEPT !.at = "mint"])
           /\ UNCHANGED lost
        \/ /\ lost' = lost \cup {change}
           /\ Breaks(r)
           /\ UNCHANGED audit
     /\ UNCHANGED <<world, state, bearers>>

\* createSession: its user must exist.
Mint(r) ==
  /\ At(r, "mint")
  /\ account.id = req[r].user
  /\ bearers' = [bearers EXCEPT ![req[r].slot] = @ + 1]
  /\ Goes(r, Over(r, "bearer"))
  /\ UNCHANGED <<world, state, audit, lost>>

\* The provider or the database fails, the second of two creations breaks the
\* unique index, or the session's user is gone: the state stays consumed.
Fails(r) ==
  /\ req[r].at \in {"exchange", "find", "load", "resync", "create", "mint"}
  /\ Breaks(r)
  /\ UNCHANGED <<world, state, audit, lost, bearers>>

\* The slot of an answered callback is free again.
Returns(r) ==
  /\ At(r, "over")
  /\ Goes(r, Idle)
  /\ UNCHANGED <<world, state, audit, lost, bearers>>

---------------------------------------------------------------------------

Handler(r) ==
  \/ Exchange(r) \/ Find(r) \/ Load(r)
  \/ Resync(r) \/ Create(r) \/ Trace(r)
  \/ Mint(r) \/ Fails(r)

Next ==
  \/ Moves \/ SignsUp \/ Deletes
  \/ \E s \in Slots : Starts(s) \/ Expires(s)
  \/ \E r \in Requests : Handler(r) \/ Returns(r) \/ \E s \in Slots : Callback(r, s)

Spec == Init /\ [][Next]_vars

\* A callback that was begun goes on; nobody owes another one.
Fairness == \A r \in Requests : WF_vars(Handler(r))

FairSpec == Spec /\ Fairness

---------------------------------------------------------------------------
(* Properties                                                              *)

\* A state leads to one bearer at most, whatever callbacks come for it and however
\* they overlap (routes/auth-callback.ts:163-216, "atomic CAS").
OneBearerPerState == \A s \in Slots : bearers[s] <= 1

\* The role the table of the directory's rules gives a list of groups: of those it
\* names, the one the priority puts first, and one it does not list only if it lists
\* none of them.
DueRole(groups, role) ==
  LET named == {RoleMapping[g] : g \in ToSet(groups) \cap DOMAIN RoleMapping}
      place(x) == {k \in DOMAIN RolePriority : RolePriority[k] = x}
  IN IF named = {} THEN role = DefaultRole
     ELSE /\ role \in named
          /\ \A other \in named \ {role} :
               \A k \in place(other) : \E j \in place(role) : j < k

\* Why a profile may be refused, after the table of failure modes.
Cause(code, claims, user) ==
  CASE code = "invalid_oidc_profile" -> claims.key = Odd \/ Odd \in ToSet(claims.groups)
    [] code = "forbidden_missing_tenant_claim" -> claims.key = Missing
    [] code = "forbidden_unknown_tenant" ->
         claims.key \notin DOMAIN TenantMapping \cup {Odd, Missing}
    [] code = "forbidden_no_role_mapping" ->
         ToSet(claims.groups) \cap DOMAIN RoleMapping = {} /\ DefaultRole \notin Roles
    [] code = "forbidden_tenant_mismatch" ->
         \/ claims.key \in DOMAIN TenantMapping /\ TenantMapping[claims.key] # DefaultTenant
         \/ user # NoUser /\ account.id # user

Codes == {"invalid_oidc_profile", "forbidden_missing_tenant_claim", "forbidden_unknown_tenant",
          "forbidden_no_role_mapping", "forbidden_tenant_mismatch"}

\* No sign-in has written a role of this user.
NeverGiven(user) == \A change \in audit \cup lost : change[1] # user

\* A sign-in that is refused is refused for a cause its profile has (or, as a mismatch,
\* because its account was deleted meanwhile). One that gets a bearer has none, and its
\* user was found with, or given, the role its groups are due, whatever ran in between;
\* only a user that signed up by e-mail is let in with no role at all, as long as no
\* sign-in has written one (SPEC-ldap-keycloak.md, failure modes 1-4, 6 and 7;
\* lib/mint-bearer.ts:408-505).
OutcomeMeetsTable ==
  \A r \in Requests : At(r, "over") =>
    /\ req[r].said \in Codes => Cause(req[r].said, req[r].claims, req[r].user)
    /\ req[r].said = "bearer" =>
         /\ \A code \in Codes : ~Cause(code, req[r].claims, NoUser)
         /\ \/ DueRole(req[r].claims.groups, req[r].role)
            \/ req[r].role = NoRole /\ NeverGiven(req[r].user)

\* A role no sign-up left null has its row in the audit log, or that row is still to
\* be written by a callback under way, or the callback that should have written it
\* failed (lib/mint-bearer.ts:452-464, 527).
RoleTraced ==
  LET held == <<account.id, account.role>>
  IN account.role # NoRole =>
       \/ held \in audit \cup lost
       \/ \E r \in Requests : At(r, "trace") /\ held = <<req[r].user, req[r].role>>

\* If the directory comes to rest and the person goes on signing in, the account ends
\* up with the role of the directory, unless its role was null (mode 5,
\* lib/mint-bearer.ts:447-465).
RoleConverges ==
  []<><<\E r \in Requests : Mint(r)>>_vars =>
    <>[](account.role = NoRole \/ DueRole(directory.groups, account.role))
====

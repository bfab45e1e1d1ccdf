---- MODULE SetupClaim_proofs ----
(***************************************************************************)
(* Proofs about SetupClaim, for any number of requests, users, failures    *)
(* and crashes: setup_state is a lock (SetupClaim implements Setup), one   *)
(* admin is made, and a completed setup has made one.                      *)
(***************************************************************************)
EXTENDS SetupClaim, TLAPS

\* Who works on setup is one process, and setup_state says so.
Locked ==
  /\ \A p, q \in Holders : p = q
  /\ Holders # {} => status = "completed"
\* No row is an admin before it is inserted, nor is its hook called before it is
\* verified.
FreshRows ==
  \A u \in Ids : /\ user[u].state = "unused" => ~user[u].admin
                 /\ ~user[u].verified => hook[u] = "none"
LInv == TypeOK /\ Locked /\ FreshRows

LEMMA InitLInv == Init => LInv
  BY SetupAssumption DEF Statuses, Rows, Request, Hooks, Init, LInv, TypeOK, Locked, FreshRows, Holders, Holds, HookHolds

\* The cases below say what a step does to request and to user; these say that it
\* stays in the type.
RequestType == request \in [Requests -> Request]
UserType == user \in [Ids -> Rows]

LEMMA RequestReplaced ==
  ASSUME RequestType, NEW r \in Requests, NEW q \in Request,
         request' = [request EXCEPT ![r] = q]
  PROVE  RequestType'
  BY DEF RequestType

LEMMA RequestAt ==
  ASSUME RequestType, NEW r \in Requests,
         NEW at \in {"signup", "flip", "delete", "reopen", "lookup", "end"},
         request' = [request EXCEPT ![r].at = at]
  PROVE  RequestType'
<1>1. [request[r] EXCEPT !.at = at] \in Request
  BY DEF RequestType, Request
<1> QED BY <1>1, RequestReplaced

LEMMA RequestReply ==
  ASSUME RequestType, NEW r \in Requests, NEW a \in {"created", "rejected", "stuck"},
         request' = [request EXCEPT ![r].at = "end", ![r].reply = a]
  PROVE  RequestType'
<1>1. request' = [request EXCEPT ![r] = [request[r] EXCEPT !.at = "end", !.reply = a]]
  OBVIOUS
<1>2. [request[r] EXCEPT !.at = "end", !.reply = a] \in Request
  BY DEF RequestType, Request
<1> QED BY ONLY <1>1, <1>2, RequestType, RequestReplaced

LEMMA RequestClaims ==
  ASSUME RequestType, NEW r \in Requests, NEW at \in {"signup", "lookup"}, NEW e \in Emails,
         request' = [request EXCEPT ![r].at = at, ![r].email = e]
  PROVE  RequestType'
<1>1. request' = [request EXCEPT ![r] = [request[r] EXCEPT !.at = at, !.email = e]]
  OBVIOUS
<1>2. [request[r] EXCEPT !.at = at, !.email = e] \in Request
  BY DEF RequestType, Request
<1> QED BY ONLY <1>1, <1>2, RequestType, RequestReplaced

LEMMA RequestSigned ==
  ASSUME RequestType, NEW r \in Requests, NEW u \in Ids,
         request' = [request EXCEPT ![r].at = "flip", ![r].id = u]
  PROVE  RequestType'
<1>1. request' = [request EXCEPT ![r] = [request[r] EXCEPT !.at = "flip", !.id = u]]
  OBVIOUS
<1>2. [request[r] EXCEPT !.at = "flip", !.id = u] \in Request
  BY DEF RequestType, Request
<1> QED BY ONLY <1>1, <1>2, RequestType, RequestReplaced

LEMMA UserAdmin ==
  ASSUME UserType, NEW u \in Ids, user' = [user EXCEPT ![u].admin = TRUE]
  PROVE  UserType'
  BY DEF UserType, Rows

LEMMA TypeNext == TypeOK /\ [Next]_vars => TypeOK'
<1> SUFFICES ASSUME TypeOK, [Next]_vars PROVE TypeOK'
  OBVIOUS
<1>t. RequestType /\ UserType
  BY DEF TypeOK, RequestType, UserType
<1>q. ASSUME RequestType', UserType', status' \in Statuses, hook' \in [Ids -> Hooks],
             fails' \in 0..MaxFails, crashes' \in 0..MaxCrashes
      PROVE  TypeOK'
  BY <1>q DEF TypeOK, RequestType, UserType
<1>f. AFailure => fails' \in 0..MaxFails
  BY SetupAssumption DEF AFailure, TypeOK
<1>o. status \in Statuses /\ hook \in [Ids -> Hooks] /\ fails \in 0..MaxFails
      /\ crashes \in 0..MaxCrashes
  BY DEF TypeOK
<1>h. ASSUME NEW u \in Ids, NEW at \in {"claim", "flip", "reopen", "end", "dead"}
      PROVE  [hook EXCEPT ![u] = at] \in [Ids -> Hooks]
  BY <1>o DEF Hooks
<1>u. UNCHANGED request => RequestType'
  BY <1>t DEF RequestType
<1>v. UNCHANGED user => UserType'
  BY <1>t DEF UserType
<1>s. "pending" \in Statuses /\ "completed" \in Statuses
  BY DEF Statuses
<1> HIDE DEF TypeOK
<1>1. ASSUME NEW u \in Ids, NEW e \in Emails, SignUp(u, e) PROVE TypeOK'
  <2>1. user' = [user EXCEPT ![u].state = "live", ![u].email = e]
    BY <1>1 DEF SignUp, Inserts
  <2>2. UserType'
    BY <2>1, <1>t DEF UserType, Rows
  <2>3. UNCHANGED <<status, request, hook, fails, crashes>>
    BY <1>1 DEF SignUp
  <2> QED BY <2>2, <2>3, <1>q, <1>o, <1>u
<1>2. ASSUME NEW u \in Ids, Verify(u) PROVE TypeOK'
  <2>1. user' = [user EXCEPT ![u].verified = TRUE]
    BY <1>2 DEF Verify
  <2>2. UserType'
    BY <2>1, <1>t DEF UserType, Rows
  <2> QED BY <2>2, <1>2, <1>h, <1>q, <1>o, <1>u DEF Verify, HookGoes
<1>3. ASSUME NEW u \in Ids, DeleteAccount(u) PROVE TypeOK'
  <2>1. user' = [user EXCEPT ![u].state = "deleted"]
    BY <1>3 DEF DeleteAccount
  <2>2. UserType'
    BY <2>1, <1>t DEF UserType, Rows
  <2> QED BY <2>2, <1>3, <1>q, <1>o, <1>u DEF DeleteAccount
<1>4. ASSUME NEW u \in Ids, RunHook(u) PROVE TypeOK'
  <2>1. CASE HookClaim(u)
    BY <2>1, <1>h, <1>q, <1>o, <1>u, <1>v, <1>s DEF HookClaim, HookGoes
  <2>2. CASE HookFlip(u)
    BY <2>2, <1>t, UserAdmin, <1>h, <1>q, <1>o, <1>u, <1>v DEF HookFlip, HookGoes, SetsRole
  <2>3. CASE HookFlipFails(u)
    BY <2>3, <1>t, UserAdmin, <1>f, <1>h, <1>q, <1>o, <1>u, <1>v DEF HookFlipFails, HookGoes, SetsRole
  <2>4. CASE HookReopen(u)
    BY <2>4, <1>h, <1>q, <1>o, <1>u, <1>v, <1>s DEF HookReopen, HookGoes
  <2>5. CASE HookReopenFails(u)
    BY <2>5, <1>f, <1>h, <1>q, <1>o, <1>u, <1>v DEF HookReopenFails, HookGoes
  <2> QED BY <1>4, <2>1, <2>2, <2>3, <2>4, <2>5 DEF RunHook
<1>5. ASSUME NEW r \in Requests, Serve(r) PROVE TypeOK'
  <2>1. ASSUME NEW e \in Emails, Claim(r, e) \/ ClaimLost(r, e) PROVE TypeOK'
    <3>1. PICK at \in {"signup", "lookup"} :
            request' = [request EXCEPT ![r].at = at, ![r].email = e]
      BY <2>1 DEF Claim, ClaimLost
    <3>2. RequestType'
      BY <3>1, <1>t, RequestClaims
    <3> QED BY <2>1, <3>2, <1>q, <1>o, <1>v, <1>s DEF Claim, ClaimLost
  <2>2. CASE Lookup(r)
    <3>1. \A u \in Ids : user[u].email \in Emails \cup {NoEmail}
      BY <1>t DEF UserType, Rows
    <3>2. {user[u].email : u \in Admins} \subseteq Emails \cup {NoEmail}
      BY <3>1 DEF Admins
    <3>3. PICK told \in Emails \cup {NoEmail} :
            request' = [request EXCEPT ![r] =
              [request[r] EXCEPT !.at = "end", !.reply = "already", !.told = told]]
      BY <2>2, <3>2 DEF Lookup
    <3>4. [request[r] EXCEPT !.at = "end", !.reply = "already", !.told = told] \in Request
      BY <1>t DEF RequestType, Request
    <3>5. RequestType'
      BY <3>3, <3>4, <1>t DEF RequestType
    <3> QED BY <2>2, <3>5, <1>q, <1>o, <1>v DEF Lookup
  <2>3. CASE ClaimSignUp(r)
    <3>1. PICK u \in Ids : /\ user' = [user EXCEPT ![u].state = "live",
                                                  ![u].email = request[r].email]
                          /\ request' = [request EXCEPT ![r].at = "flip", ![r].id = u]
      BY <2>3 DEF ClaimSignUp, Inserts
    <3>2. RequestType'
      BY <3>1, <1>t, RequestSigned
    <3>3. request[r].email \in Emails \cup {NoEmail}
      BY <1>t DEF RequestType, Request
    <3>4. UserType'
      BY <3>1, <3>3, <1>t DEF UserType, Rows
    <3> QED BY <2>3, <3>2, <3>4, <1>q, <1>o DEF ClaimSignUp
  <2>4. CASE ClaimSignUpTaken(r)
    BY <2>4, <1>t, RequestAt, <1>q, <1>o, <1>v DEF ClaimSignUpTaken, Goes
  <2>5. CASE ClaimSignUpFails(r)
    BY <2>5, <1>t, <1>f, RequestAt, <1>q, <1>o, <1>v DEF ClaimSignUpFails, Goes
  <2>i. request[r].id # NoId => request[r].id \in Ids
    BY <1>t DEF RequestType, Request
  <2>6. CASE Flip(r)
    <3>1. UserType'
      BY <2>6, <2>i, <1>t, <1>v, UserAdmin DEF Flip, SetsRole
    <3> QED BY <2>6, <3>1, <1>t, RequestReply, <1>q, <1>o DEF Flip, Replies
  <2>7. CASE FlipFails(r)
    <3>1. UserType'
      BY <2>7, <2>i, <1>t, <1>v, UserAdmin DEF FlipFails, SetsRole
    <3> QED BY <2>7, <3>1, <1>t, <1>f, RequestAt, <1>q, <1>o DEF FlipFails, Goes
  <2>8. CASE Delete(r)
    <3>3. UserType'
      <4>1. CASE request[r].id # NoId /\ Live(request[r].id)
        <5>1. user' = [user EXCEPT ![request[r].id] =
                         [user[request[r].id] EXCEPT !.state = "deleted", !.admin = FALSE]]
          BY <2>8, <4>1 DEF Delete
        <5>2. [user[request[r].id] EXCEPT !.state = "deleted", !.admin = FALSE] \in Rows
          BY <4>1, <2>i, <1>t DEF UserType, Rows
        <5> QED BY <5>1, <5>2, <1>t DEF UserType
      <4>2. CASE ~(request[r].id # NoId /\ Live(request[r].id))
        <5>1. UNCHANGED user
          BY <2>8, <4>2 DEF Delete
        <5> QED BY <5>1, <1>v
      <4> QED BY <4>1, <4>2
    <3> QED BY <2>8, <3>3, <1>t, RequestAt, <1>q, <1>o DEF Delete, Goes
  <2>9. CASE DeleteFails(r)
    BY <2>9, <1>t, <1>f, RequestAt, <1>q, <1>o, <1>v DEF DeleteFails, Goes
  <2>10. CASE Reopen(r)
    BY <2>10, <1>t, RequestReply, <1>q, <1>o, <1>v, <1>s DEF Reopen, Replies
  <2>11. CASE ReopenFails(r)
    BY <2>11, <1>t, <1>f, RequestReply, <1>q, <1>o, <1>v DEF ReopenFails, Replies
  <2> QED BY <1>5, <2>1, <2>2, <2>3, <2>4, <2>5, <2>6, <2>7, <2>8, <2>9, <2>10, <2>11 DEF Serve
<1>6. CASE Crash
  <2>1. crashes' \in 0..MaxCrashes
    BY <1>6, <1>o, SetupAssumption DEF Crash
  <2> QED BY <1>6, <2>1, <1>t, RequestAt, <1>h, <1>q, <1>o, <1>u, <1>v DEF Crash, Goes, HookGoes
<1>7. CASE UNCHANGED vars
  BY <1>7, <1>q, <1>o, <1>u, <1>v DEF vars
<1> QED BY <1>1, <1>2, <1>3, <1>4, <1>5, <1>6, <1>7 DEF Next

\* TypeOK holds in every reachable state, whatever the constants.
THEOREM TypeCorrect == Spec => []TypeOK
<1>1. Init => TypeOK
  BY InitLInv DEF LInv
<1> QED BY <1>1, TypeNext, PTL DEF Spec

-----------------------------------------------------------------------------
\* setup_state is a lock.

LEMMA RequestMoves ==
  ASSUME NEW r \in Requests, UNCHANGED hook,
         \A q \in Requests \ {r} : request'[q].at = request[q].at
  PROVE  /\ Holds(r) /\ Holds(r)' => Holders' = Holders
         /\ ~Holds(r) /\ ~Holds(r)' => Holders' = Holders
         /\ ~Holds(r) /\ Holds(r)' => Holders' = Holders \cup {r}
         /\ Holds(r) /\ ~Holds(r)' => r \in Holders /\ Holders' = Holders \ {r}
<1>1. \A q \in Requests \ {r} : Holds(q)' <=> Holds(q)
  BY DEF Holds
<1>2. \A u \in Ids : HookHolds(u)' <=> HookHolds(u)
  BY DEF HookHolds
<1>3. r \notin Ids
  BY SetupAssumption
<1> HIDE DEF Holds, HookHolds
<1> QED BY <1>1, <1>2, <1>3 DEF Holders

LEMMA HookMoves ==
  ASSUME NEW u \in Ids, UNCHANGED request, \A v \in Ids \ {u} : hook'[v] = hook[v]
  PROVE  /\ HookHolds(u) /\ HookHolds(u)' => Holders' = Holders
         /\ ~HookHolds(u) /\ ~HookHolds(u)' => Holders' = Holders
         /\ ~HookHolds(u) /\ HookHolds(u)' => Holders' = Holders \cup {u}
         /\ HookHolds(u) /\ ~HookHolds(u)' => u \in Holders /\ Holders' = Holders \ {u}
<1>1. \A v \in Ids \ {u} : HookHolds(v)' <=> HookHolds(v)
  BY DEF HookHolds
<1>2. \A r \in Requests : Holds(r)' <=> Holds(r)
  BY DEF Holds
<1>3. u \notin Requests
  BY SetupAssumption
<1> HIDE DEF Holds, HookHolds
<1> QED BY <1>1, <1>2, <1>3 DEF Holders

LEMMA SameHolders == ASSUME UNCHANGED <<request, hook>> PROVE Holders' = Holders
<1>1. request' = request /\ hook' = hook
  OBVIOUS
<1> QED BY <1>1 DEF Holders, Holds, HookHolds

\* What each action does to the holders of the claim.
LEMMA RequestSteps ==
  ASSUME TypeOK, NEW r \in Requests
  PROVE  /\ \A e \in Emails : Claim(r, e) => Holders' = Holders \cup {r}
         /\ \A e \in Emails : ClaimLost(r, e) => Holders' = Holders
         /\ Lookup(r) => Holders' = Holders
         /\ ClaimSignUp(r) \/ ClaimSignUpTaken(r) \/ ClaimSignUpFails(r)
              => r \in Holders /\ Holders' = Holders
         /\ FlipFails(r) \/ Delete(r) \/ DeleteFails(r) => r \in Holders /\ Holders' = Holders
         /\ Flip(r) \/ Reopen(r) \/ ReopenFails(r)
              => r \in Holders /\ Holders' = Holders \ {r}
<1>t. request \in [Requests -> Request]
  BY DEF TypeOK
<1>1. ASSUME NEW e \in Emails, Claim(r, e) PROVE Holders' = Holders \cup {r}
  <2>1. request' = [request EXCEPT ![r].at = "signup", ![r].email = e] /\ UNCHANGED hook
        /\ request[r].at = "start"
    BY <1>1 DEF Claim
  <2>2. request'[r].at = "signup" /\ \A q \in Requests \ {r} : request'[q].at = request[q].at
    BY <2>1, <1>t DEF Request
  <2> QED BY <2>1, <2>2, RequestMoves DEF Holds
<1>2. ASSUME NEW e \in Emails, ClaimLost(r, e) PROVE Holders' = Holders
  BY <1>2, <1>t, RequestMoves DEF ClaimLost, Holds, Request
<1>3. ASSUME Lookup(r) PROVE Holders' = Holders
  BY <1>3, <1>t, RequestMoves DEF Lookup, Holds, Request
<1>4. ASSUME ClaimSignUp(r) PROVE r \in Holders /\ Holders' = Holders
  BY <1>4, <1>t, RequestMoves DEF ClaimSignUp, Holds, Holders, Request
<1>5. ASSUME ClaimSignUpTaken(r) \/ ClaimSignUpFails(r) \/ FlipFails(r)
             \/ Delete(r) \/ DeleteFails(r)
      PROVE  r \in Holders /\ Holders' = Holders
  <2>1. PICK at \in {"flip", "delete", "reopen"} : request' = [request EXCEPT ![r].at = at]
    BY <1>5 DEF ClaimSignUpTaken, ClaimSignUpFails, FlipFails, Delete, DeleteFails, Goes
  <2>2. Holds(r) /\ UNCHANGED hook
    BY <1>5 DEF ClaimSignUpTaken, ClaimSignUpFails, FlipFails, Delete, DeleteFails, Holds
  <2> QED BY <2>1, <2>2, <1>t, RequestMoves DEF Holds, Holders, Request
<1>6. ASSUME Flip(r) \/ Reopen(r) \/ ReopenFails(r)
      PROVE  r \in Holders /\ Holders' = Holders \ {r}
  <2>1. PICK a \in {"created", "rejected", "stuck"} :
          request' = [request EXCEPT ![r].at = "end", ![r].reply = a]
    BY <1>6 DEF Flip, Reopen, ReopenFails, Replies
  <2>2. Holds(r) /\ UNCHANGED hook
    BY <1>6 DEF Flip, Reopen, ReopenFails, Holds
  <2>3. request'[r].at = "end" /\ \A q \in Requests \ {r} : request'[q].at = request[q].at
    BY <2>1, <1>t DEF Request
  <2> QED BY <2>2, <2>3, RequestMoves DEF Holds, Holders
<1> QED BY <1>1, <1>2, <1>3, <1>4, <1>5, <1>6

LEMMA HookSteps ==
  ASSUME TypeOK, NEW u \in Ids
  PROVE  /\ HookClaim(u) => IF status = "pending" THEN Holders' = Holders \cup {u}
                                                  ELSE Holders' = Holders
         /\ HookFlip(u) => /\ u \in Holders
                           /\ IF Live(u) /\ user[u].verified THEN Holders' = Holders \ {u}
                                                             ELSE Holders' = Holders
         /\ HookFlipFails(u) \/ HookReopen(u) \/ HookReopenFails(u)
              => u \in Holders /\ Holders' = Holders \ {u}
<1>t. hook \in [Ids -> Hooks]
  BY DEF TypeOK
<1> USE <1>t, HookMoves DEF HookHolds, HookGoes
<1>1. ASSUME HookClaim(u) PROVE IF status = "pending" THEN Holders' = Holders \cup {u}
                                                     ELSE Holders' = Holders
  BY <1>1 DEF HookClaim
<1>2. ASSUME HookFlip(u) PROVE /\ u \in Holders
                               /\ IF Live(u) /\ user[u].verified THEN Holders' = Holders \ {u}
                                                                 ELSE Holders' = Holders
  BY <1>2 DEF HookFlip, Holders
<1>3. ASSUME HookFlipFails(u) \/ HookReopen(u) \/ HookReopenFails(u)
      PROVE  u \in Holders /\ Holders' = Holders \ {u}
  BY <1>3 DEF HookFlipFails, HookReopen, HookReopenFails, Holders
<1> QED BY <1>1, <1>2, <1>3

LEMMA CrashStep ==
  ASSUME TypeOK, Crash
  PROVE  \E p \in Holders : Holders' = Holders \ {p}
<1>t. request \in [Requests -> Request] /\ hook \in [Ids -> Hooks]
  BY DEF TypeOK
<1>1. ASSUME NEW r \in Requests, Holds(r), Goes(r, "end"), UNCHANGED hook
      PROVE  r \in Holders /\ Holders' = Holders \ {r}
  BY <1>1, <1>t, RequestMoves DEF Goes, Holds, Holders, Request
<1>2. ASSUME NEW u \in Ids, HookHolds(u), HookGoes(u, "dead"), UNCHANGED request
      PROVE  u \in Holders /\ Holders' = Holders \ {u}
  BY <1>2, <1>t, HookMoves DEF HookGoes, HookHolds, Holders
<1> QED BY <1>1, <1>2 DEF Crash

LEMMA VerifyStep ==
  ASSUME TypeOK, FreshRows, NEW u \in Ids, Verify(u)
  PROVE  Holders' = Holders
<1>1. hook \in [Ids -> Hooks] /\ hook[u] = "none"
  BY DEF TypeOK, FreshRows, Verify
<1> QED BY <1>1, HookMoves DEF Verify, HookGoes, HookHolds

\* Locked is inductive.
LEMMA LockedNext == LInv /\ [Next]_vars => Locked'
<1> SUFFICES ASSUME TypeOK, Locked, FreshRows, [Next]_vars PROVE Locked'
  BY DEF LInv
<1>c. ASSUME NEW p, status = "pending", status' = "completed", Holders' = Holders \cup {p}
      PROVE  Locked'
  BY <1>c DEF Locked
<1>s. ASSUME status' = status, Holders' = Holders PROVE Locked'
  BY <1>s DEF Locked
<1>r. ASSUME NEW p \in Holders, Holders' = Holders \ {p} PROVE Locked'
  BY <1>r DEF Locked
<1> HIDE DEF Locked
<1>1. ASSUME NEW u \in Ids, NEW e \in Emails, SignUp(u, e) PROVE Locked'
  BY <1>1, <1>s, SameHolders DEF SignUp
<1>2. ASSUME NEW u \in Ids, Verify(u) PROVE Locked'
  BY <1>2, <1>s, VerifyStep DEF Verify
<1>3. ASSUME NEW u \in Ids, DeleteAccount(u) PROVE Locked'
  BY <1>3, <1>s, SameHolders DEF DeleteAccount
<1>4. ASSUME NEW u \in Ids, RunHook(u) PROVE Locked'
  BY <1>4, <1>c, <1>s, <1>r, HookSteps DEF RunHook, HookClaim, HookFlip
<1>5. ASSUME NEW r \in Requests, Serve(r) PROVE Locked'
  <2>1. ASSUME NEW e \in Emails, Claim(r, e) \/ ClaimLost(r, e) PROVE Locked'
    BY <2>1, <1>c, <1>s, RequestSteps DEF Claim, ClaimLost
  <2> QED BY <1>5, <2>1, <1>s, <1>r, RequestSteps
        DEF Serve, Lookup, ClaimSignUp, ClaimSignUpTaken, ClaimSignUpFails, FlipFails, Delete,
            DeleteFails
<1>6. CASE Crash
  BY <1>6, <1>r, CrashStep
<1>7. CASE UNCHANGED vars
  BY <1>7, <1>s, SameHolders DEF vars
<1> QED BY <1>1, <1>2, <1>3, <1>4, <1>5, <1>6, <1>7 DEF Next

\* What the updates of users do to the admins, past and present.
Ever == {u \in Ids : user[u].admin}

LEMMA NoEdit ==
  ASSUME UNCHANGED <<user, hook>>, FreshRows
  PROVE  FreshRows' /\ Admins' = Admins /\ Ever' = Ever
BY DEF FreshRows, Admins, Ever, Live

LEMMA InsertEdit ==
  ASSUME UserType, FreshRows, NEW u \in Ids, NEW e, Inserts(u, e), UNCHANGED hook
  PROVE  FreshRows' /\ Admins' = Admins /\ Ever' = Ever
<1>1. user' = [user EXCEPT ![u].state = "live", ![u].email = e] /\ user[u].state = "unused"
  BY DEF Inserts
<1>2. /\ user'[u].admin = user[u].admin
      /\ user'[u].verified = user[u].verified
      /\ user'[u].state = "live"
      /\ \A v \in Ids \ {u} : user'[v] = user[v]
  BY <1>1 DEF UserType, Rows
<1>3. ~user[u].admin
  BY <1>1 DEF FreshRows
<1> QED BY <1>2, <1>3 DEF FreshRows, Admins, Ever, Live

LEMMA AdminEdit ==
  ASSUME UserType, FreshRows, NEW u \in Ids, Live(u), SetsRole(u)
  PROVE  /\ Admins' = Admins \cup {u}
         /\ Ever' = Ever \cup {u}
         /\ \A v \in Ids : /\ user'[v].state = "unused" => ~user'[v].admin
                           /\ user'[v].verified = user[v].verified
<1>1. user' = [user EXCEPT ![u].admin = TRUE]
  BY DEF SetsRole
<1>2. /\ user'[u].admin = TRUE
      /\ user'[u].verified = user[u].verified
      /\ user'[u].state = user[u].state
      /\ \A v \in Ids \ {u} : user'[v] = user[v]
  BY <1>1 DEF UserType, Rows
<1> QED BY <1>2 DEF FreshRows, Admins, Ever, Live

LEMMA DeleteEdit ==
  ASSUME UserType, FreshRows, NEW r \in Requests, Delete(r), RequestType
  PROVE  FreshRows' /\ Admins' = Admins \ {request[r].id} /\ Ever' \subseteq Ever
<1> DEFINE id == request[r].id
<1>1. id \in Ids \cup {NoId} /\ NoId \notin Ids
  BY SetupAssumption DEF RequestType, Request
<1>2. CASE id # NoId /\ Live(id)
  <2>1. user' = [user EXCEPT ![id] = [user[id] EXCEPT !.state = "deleted", !.admin = FALSE]]
    BY <1>2 DEF Delete
  <2>2. /\ user'[id].admin = FALSE
        /\ user'[id].verified = user[id].verified
        /\ user'[id].state = "deleted"
        /\ \A v \in Ids \ {id} : user'[v] = user[v]
    BY <2>1, <1>1, <1>2 DEF UserType, Rows
  <2>3. UNCHANGED hook
    BY DEF Delete
  <2> HIDE DEF id
  <2>4. Admins' = Admins \ {id} /\ Ever' \subseteq Ever
    BY <2>2, <1>1, <1>2 DEF Admins, Ever, Live
  <2>5. FreshRows'
    BY <2>2, <2>3, <1>1, <1>2 DEF FreshRows
  <2> QED BY <2>4, <2>5 DEF id
<1>3. CASE ~(id # NoId /\ Live(id))
  <2>1. UNCHANGED <<user, hook>>
    BY <1>3 DEF Delete
  <2>2. id \notin Admins
    BY <1>1, <1>3 DEF Admins
  <2> QED BY <2>1, <2>2, NoEdit
<1> QED BY <1>2, <1>3

\* What each action does to them.
LEMMA ClientSteps ==
  ASSUME UserType, FreshRows, NEW u \in Ids, hook \in [Ids -> Hooks]
  PROVE  /\ \A e \in Emails : SignUp(u, e) => FreshRows' /\ Admins' = Admins /\ Ever' = Ever
         /\ Verify(u) => FreshRows' /\ Admins' = Admins /\ Ever' = Ever
         /\ DeleteAccount(u) => FreshRows' /\ Admins' = Admins \ {u} /\ Ever' = Ever
<1>1. \A e \in Emails : SignUp(u, e) => FreshRows' /\ Admins' = Admins /\ Ever' = Ever
  BY InsertEdit DEF SignUp
<1>2. ASSUME Verify(u) PROVE FreshRows' /\ Admins' = Admins /\ Ever' = Ever
  <2>1. /\ user' = [user EXCEPT ![u].verified = TRUE]
        /\ \A v \in Ids \ {u} : hook'[v] = hook[v]
    BY <1>2 DEF Verify, HookGoes
  <2>2. /\ user'[u].admin = user[u].admin
        /\ user'[u].verified = TRUE
        /\ user'[u].state = user[u].state
        /\ \A v \in Ids \ {u} : user'[v] = user[v]
    BY <2>1 DEF UserType, Rows
  <2> QED BY <2>1, <2>2 DEF FreshRows, Admins, Ever, Live
<1>3. ASSUME DeleteAccount(u) PROVE FreshRows' /\ Admins' = Admins \ {u} /\ Ever' = Ever
  <2>1. user' = [user EXCEPT ![u].state = "deleted"] /\ UNCHANGED hook
    BY <1>3 DEF DeleteAccount
  <2>2. /\ user'[u].admin = user[u].admin
        /\ user'[u].verified = user[u].verified
        /\ user'[u].state = "deleted"
        /\ \A v \in Ids \ {u} : user'[v] = user[v]
    BY <2>1 DEF UserType, Rows
  <2> QED BY <2>1, <2>2 DEF FreshRows, Admins, Ever, Live
<1> QED BY <1>1, <1>2, <1>3

LEMMA RequestUserSteps ==
  ASSUME UserType, RequestType, FreshRows, NEW r \in Requests
  PROVE  /\ ClaimSignUp(r) => FreshRows' /\ Admins' = Admins /\ Ever' = Ever
         /\ Flip(r) \/ FlipFails(r) =>
              /\ FreshRows'
              /\ \/ /\ Admins' = Admins \cup {request[r].id}
                    /\ request[r].id \in Ids
                    /\ Ever' = Ever \cup {request[r].id}
                 \/ UNCHANGED user /\ Admins' = Admins /\ Ever' = Ever
<1>i. request[r].id # NoId => request[r].id \in Ids
  BY DEF RequestType, Request
<1>4. ASSUME ClaimSignUp(r) PROVE FreshRows' /\ Admins' = Admins /\ Ever' = Ever
  <2>1. PICK v \in Ids : Inserts(v, request[r].email)
    BY <1>4 DEF ClaimSignUp
  <2>2. UNCHANGED hook
    BY <1>4 DEF ClaimSignUp
  <2> QED BY <2>1, <2>2, InsertEdit
<1>5. ASSUME Flip(r) \/ FlipFails(r)
      PROVE  /\ FreshRows'
             /\ \/ /\ Admins' = Admins \cup {request[r].id}
                   /\ request[r].id \in Ids
                   /\ Ever' = Ever \cup {request[r].id}
                \/ UNCHANGED user /\ Admins' = Admins /\ Ever' = Ever
  <2>1. UNCHANGED hook
    BY <1>5 DEF Flip, FlipFails
  <2>2. CASE request[r].id # NoId /\ Live(request[r].id) /\ SetsRole(request[r].id)
    <3>1. PICK v \in Ids : v = request[r].id /\ Live(v) /\ SetsRole(v)
      BY <2>2, <1>i
    <3>2. Admins' = Admins \cup {v} /\ Ever' = Ever \cup {v} /\ FreshRows'
      BY <2>1, <3>1, AdminEdit DEF FreshRows
    <3> QED BY <3>1, <3>2
  <2>3. CASE UNCHANGED user
    BY <2>1, <2>3, NoEdit
  <2> QED BY <1>5, <2>2, <2>3 DEF Flip, FlipFails
<1> QED BY <1>4, <1>5

\* A hook that has been called stays so.
LEMMA HookUserSteps ==
  ASSUME UserType, FreshRows, NEW u \in Ids, hook \in [Ids -> Hooks]
  PROVE  /\ HookClaim(u) \/ HookReopen(u) \/ HookReopenFails(u)
              => FreshRows' /\ Admins' = Admins /\ Ever' = Ever
         /\ HookFlip(u) =>
              FreshRows' /\ IF Live(u) /\ user[u].verified
                            THEN Admins' = Admins \cup {u} /\ Ever' = Ever \cup {u}
                            ELSE Admins' = Admins /\ Ever' = Ever
         /\ HookFlipFails(u) =>
              FreshRows' /\ Admins' \in {Admins, Admins \cup {u}} /\ Ever \subseteq Ever'
<1>n. ASSUME hook[u] # "none", NEW at, HookGoes(u, at)
      PROVE  user[u].verified /\ \A v \in Ids \ {u} : hook'[v] = hook[v]
  BY <1>n DEF FreshRows, HookGoes
<1>6. ASSUME UNCHANGED user, hook[u] # "none", NEW at, HookGoes(u, at)
      PROVE  FreshRows' /\ Admins' = Admins /\ Ever' = Ever
  BY <1>6, <1>n DEF FreshRows, Admins, Ever, Live
<1>7. ASSUME Live(u), SetsRole(u), hook[u] # "none", NEW at, HookGoes(u, at)
      PROVE  FreshRows' /\ Admins' = Admins \cup {u} /\ Ever' = Ever \cup {u}
  BY <1>7, <1>n, AdminEdit DEF FreshRows
<1>8. HookClaim(u) \/ HookReopen(u) \/ HookReopenFails(u)
        => FreshRows' /\ Admins' = Admins /\ Ever' = Ever
  BY <1>6 DEF HookClaim, HookReopen, HookReopenFails
<1>9. HookFlip(u) =>
        FreshRows' /\ IF Live(u) /\ user[u].verified
                      THEN Admins' = Admins \cup {u} /\ Ever' = Ever \cup {u}
                      ELSE Admins' = Admins /\ Ever' = Ever
  BY <1>6, <1>7 DEF HookFlip
<1>10. HookFlipFails(u) =>
         FreshRows' /\ Admins' \in {Admins, Admins \cup {u}} /\ Ever \subseteq Ever'
  BY <1>6, <1>7 DEF HookFlipFails
<1> QED BY <1>8, <1>9, <1>10

LEMMA CrashUser == ASSUME FreshRows, Crash, hook \in [Ids -> Hooks]
                   PROVE  FreshRows' /\ Admins' = Admins /\ Ever' = Ever
<1>1. UNCHANGED user /\ \A u \in Ids : hook'[u] = "none" => hook[u] = "none"
  BY DEF Crash, HookGoes
<1>2. \A u \in Ids : hook[u] = "none" => hook'[u] = "none"
  BY DEF Crash, HookGoes, HookHolds
<1> QED BY <1>1, <1>2 DEF FreshRows, Admins, Ever, Live

LEMMA FreshNext == LInv /\ [Next]_vars => FreshRows'
<1> SUFFICES ASSUME LInv, [Next]_vars PROVE FreshRows'
  OBVIOUS
<1>t. UserType /\ RequestType /\ FreshRows /\ hook \in [Ids -> Hooks]
  BY DEF LInv, TypeOK, UserType, RequestType
<1>1. ASSUME NEW u \in Ids, NEW e \in Emails, SignUp(u, e) PROVE FreshRows'
  BY <1>1, <1>t, ClientSteps
<1>2. ASSUME NEW u \in Ids, Verify(u) \/ DeleteAccount(u) \/ RunHook(u) PROVE FreshRows'
  BY <1>2, <1>t, ClientSteps, HookUserSteps DEF RunHook
<1>3. ASSUME NEW r \in Requests, Serve(r) PROVE FreshRows'
  <2>1. ClaimSignUp(r) \/ Flip(r) \/ FlipFails(r) \/ Delete(r) \/ UNCHANGED <<user, hook>>
    BY <1>3 DEF Serve, Claim, ClaimLost, Lookup, ClaimSignUpTaken, ClaimSignUpFails, DeleteFails,
                Reopen, ReopenFails
  <2>2. CASE ClaimSignUp(r) \/ Flip(r) \/ FlipFails(r)
    BY <2>2, <1>t, RequestUserSteps
  <2>3. CASE Delete(r)
    BY <2>3, <1>t, DeleteEdit
  <2>4. CASE UNCHANGED <<user, hook>>
    BY <2>4, <1>t, NoEdit
  <2> QED BY <2>1, <2>2, <2>3, <2>4
<1>4. CASE Crash
  BY <1>4, <1>t, CrashUser
<1>5. CASE UNCHANGED vars
  BY <1>5, <1>t, NoEdit DEF vars
<1> QED BY <1>1, <1>2, <1>3, <1>4, <1>5 DEF Next

LEMMA LInvNext == LInv /\ [Next]_vars => LInv'
  BY TypeNext, LockedNext, FreshNext DEF LInv

\* LInv, and with it that setup is claimed by one process at a time, always holds.
THEOREM OneHolder == Spec => []LInv
  BY InitLInv, LInvNext, PTL DEF Spec

-----------------------------------------------------------------------------
\* SetupClaim implements Setup.

Lock == <<GateState, Holders, Admins>>

LEMMA GateInit == Init => Gate!Init
<1> SUFFICES ASSUME Init PROVE Gate!Init
  OBVIOUS
<1>1. Holders = {}
  BY DEF Init, Holders, Holds, HookHolds
<1>2. Admins = {}
  BY DEF Init, Admins, Live
<1> QED BY <1>1, <1>2 DEF Gate!Init, GateState

LEMMA GateNext == LInv /\ [Next]_vars => [Gate!Next]_Lock
<1> SUFFICES ASSUME LInv, [Next]_vars PROVE [Gate!Next]_Lock
  OBVIOUS
<1>t. /\ TypeOK /\ UserType /\ RequestType /\ FreshRows /\ Locked
      /\ hook \in [Ids -> Hooks]
  BY DEF LInv, TypeOK, UserType, RequestType
<1>p. ASSUME NEW r \in Requests PROVE r \in Requests \cup Ids
  OBVIOUS
\* The steps of Setup.
<1>s. ASSUME status' = status, Holders' = Holders, Admins' = Admins PROVE [Gate!Next]_Lock
  BY <1>s DEF GateState, Lock
<1>c. ASSUME NEW p \in Requests \cup Ids, status = "pending", status' = "completed",
             Holders' = Holders \cup {p}, Admins' = Admins
      PROVE  [Gate!Next]_Lock
  <2>1. Holders = {}
    BY <1>c, <1>t DEF Locked
  <2>2. Gate!Close(p)
    BY <1>c, <2>1 DEF Gate!Close, GateState
  <2> QED BY <2>2 DEF Gate!Next
<1>m. ASSUME NEW p \in Requests \cup Ids, NEW u \in Ids, p \in Holders, status' = status,
             Holders' \in {Holders, Holders \ {p}}, Admins' \in {Admins, Admins \cup {u}}
      PROVE  [Gate!Next]_Lock
  <2>1. Gate!Promote(p, u)
    BY <1>m DEF Gate!Promote, GateState
  <2> QED BY <2>1 DEF Gate!Next
<1>x. ASSUME NEW p \in Requests \cup Ids, p \in Holders, status' = status,
             Holders' = Holders \ {p}, Admins' = Admins
      PROVE  [Gate!Next]_Lock
  <2>1. Gate!Stop(p)
    BY <1>x DEF Gate!Stop, GateState
  <2> QED BY <2>1 DEF Gate!Next
<1>o. ASSUME NEW p \in Requests \cup Ids, p \in Holders, status' = "pending",
             Holders' = Holders \ {p}, Admins' = Admins
      PROVE  [Gate!Next]_Lock
  <2>1. Gate!Reopen(p)
    BY <1>o DEF Gate!Reopen, GateState
  <2> QED BY <2>1 DEF Gate!Next
\* Each action is one of them.
<1>1. ASSUME NEW u \in Ids, NEW e \in Emails, SignUp(u, e) PROVE [Gate!Next]_Lock
  BY <1>1, <1>s, <1>t, ClientSteps, SameHolders DEF SignUp
<1>2. ASSUME NEW u \in Ids, Verify(u) PROVE [Gate!Next]_Lock
  BY <1>2, <1>s, <1>t, ClientSteps, VerifyStep DEF Verify
<1>3. ASSUME NEW u \in Ids, DeleteAccount(u) PROVE [Gate!Next]_Lock
  <2>1. Gate!Leave(u)
    BY <1>3, <1>t, ClientSteps, SameHolders DEF DeleteAccount, Gate!Leave, GateState
  <2> QED BY <2>1 DEF Gate!Next
<1>4. ASSUME NEW u \in Ids, RunHook(u) PROVE [Gate!Next]_Lock
  <2>1. CASE HookClaim(u)
    BY <2>1, <1>c, <1>s, <1>t, HookSteps, HookUserSteps DEF HookClaim
  <2>2. CASE HookFlip(u)
    BY <2>2, <1>m, <1>s, <1>t, HookSteps, HookUserSteps DEF HookFlip
  <2>3. CASE HookFlipFails(u)
    BY <2>3, <1>m, <1>t, HookSteps, HookUserSteps DEF HookFlipFails
  <2>4. CASE HookReopen(u)
    BY <2>4, <1>o, <1>t, HookSteps, HookUserSteps DEF HookReopen
  <2>5. CASE HookReopenFails(u)
    BY <2>5, <1>x, <1>t, HookSteps, HookUserSteps DEF HookReopenFails
  <2> QED BY <1>4, <2>1, <2>2, <2>3, <2>4, <2>5 DEF RunHook
<1>5. ASSUME NEW r \in Requests, Serve(r) PROVE [Gate!Next]_Lock
  <2>1. ASSUME NEW e \in Emails, Claim(r, e) PROVE [Gate!Next]_Lock
    <3>1. Admins' = Admins
      BY <2>1 DEF Claim, Admins, Live
    <3> QED BY <2>1, <3>1, <1>c, <1>t, RequestSteps DEF Claim
  <2>2. ASSUME NEW e \in Emails, ClaimLost(r, e) PROVE [Gate!Next]_Lock
    <3>1. Admins' = Admins
      BY <2>2 DEF ClaimLost, Admins, Live
    <3> QED BY <2>2, <3>1, <1>s, <1>t, RequestSteps DEF ClaimLost
  <2>3. CASE ClaimSignUp(r)
    BY <2>3, <1>s, <1>t, RequestSteps, RequestUserSteps DEF ClaimSignUp
  <2>4. CASE Lookup(r) \/ ClaimSignUpTaken(r) \/ ClaimSignUpFails(r) \/ DeleteFails(r)
    <3>1. status' = status /\ UNCHANGED user
      BY <2>4 DEF Lookup, ClaimSignUpTaken, ClaimSignUpFails, DeleteFails
    <3>2. Admins' = Admins
      BY <3>1 DEF Admins, Live
    <3> QED BY <2>4, <3>1, <3>2, <1>s, <1>t, RequestSteps
  <2>5. CASE Flip(r) \/ FlipFails(r)
    <3>1. status' = status
      BY <2>5 DEF Flip, FlipFails
    <3>2. r \in Holders /\ Holders' \in {Holders, Holders \ {r}}
      BY <2>5, <1>t, RequestSteps
    <3>3. \/ Admins' = Admins \cup {request[r].id} /\ request[r].id \in Ids
          \/ Admins' = Admins
      BY <2>5, <1>t, RequestUserSteps
    <3>4. CASE Admins' = Admins \cup {request[r].id} /\ request[r].id \in Ids
      BY <3>1, <3>2, <3>4, <1>m
    <3>5. CASE Admins' = Admins
      BY <3>1, <3>2, <3>5, <1>s, <1>x
    <3> QED BY <3>3, <3>4, <3>5
  <2>6. CASE Delete(r)
    <3>1. status' = status /\ r \in Holders /\ Holders' = Holders
      BY <2>6, <1>t, RequestSteps DEF Delete
    <3>2. Admins' = Admins \ {request[r].id}
      BY <2>6, <1>t, DeleteEdit
    <3>3. CASE request[r].id \in Ids
      <4>1. Gate!Demote(r, request[r].id)
        BY <3>1, <3>2 DEF Gate!Demote, GateState
      <4> QED BY <4>1, <3>3 DEF Gate!Next
    <3>4. CASE request[r].id \notin Ids
      <4>1. Admins' = Admins
        BY <3>2, <3>4 DEF Admins
      <4> QED BY <4>1, <3>1, <1>s
    <3> QED BY <3>3, <3>4
  <2>7. CASE Reopen(r) \/ ReopenFails(r)
    <3>1. UNCHANGED user
      BY <2>7 DEF Reopen, ReopenFails
    <3>2. Admins' = Admins
      BY <3>1 DEF Admins, Live
    <3>3. r \in Holders /\ Holders' = Holders \ {r}
      BY <2>7, <1>t, RequestSteps
    <3> QED BY <2>7, <3>2, <3>3, <1>o, <1>x DEF Reopen, ReopenFails
  <2> QED BY <1>5, <2>1, <2>2, <2>3, <2>4, <2>5, <2>6, <2>7 DEF Serve
<1>6. CASE Crash
  <2>1. PICK p \in Holders : Holders' = Holders \ {p}
    BY <1>6, <1>t, CrashStep
  <2>2. p \in Requests \cup Ids
    BY DEF Holders
  <2>3. status' = status /\ Admins' = Admins
    BY <1>6, <1>t, CrashUser DEF Crash
  <2> QED BY <2>1, <2>2, <2>3, <1>x
<1>7. CASE UNCHANGED vars
  BY <1>7, <1>s, <1>t, SameHolders, NoEdit DEF vars
<1> QED BY <1>1, <1>2, <1>3, <1>4, <1>5, <1>6, <1>7 DEF Next

\* The route and the hook implement Setup: setup_state is held by one of them at a
\* time, and nobody else makes an admin or opens setup again.
THEOREM ImplementsSetup == Spec => SetupLock
  BY GateInit, GateNext, InitLInv, LInvNext, PTL DEF Spec, SetupLock, Gate!Spec, Lock

-----------------------------------------------------------------------------
\* One admin.

\* A request has no reply before its end.
Unanswered == \A r \in Requests : request[r].at # "end" => request[r].reply = "none"
\* A user whose role may have been set by an update that was reported failed.
Undoing(u) == \E r \in Requests : request[r].at \in {"delete", "reopen"} /\ request[r].id = u
\* While setup is claimed, every admin is one that a failed deletion left or that
\* the holder is undoing.
HeldAdmins == Holders # {} => \A u \in Admins : Leftover(u) \/ Undoing(u)
AInv == LInv /\ Unanswered /\ OneAdmin /\ HeldAdmins

\* What a step does to the requests and hooks that have ended.
LEMMA EndedStays ==
  ASSUME LInv, [Next]_vars
  PROVE  /\ \A r \in Requests : request[r].at = "end" => request'[r] = request[r]
         /\ \A u \in Ids : hook[u] = "dead" => hook'[u] = "dead"
         /\ Unanswered => Unanswered'
<1>t. request \in [Requests -> Request] /\ hook \in [Ids -> Hooks]
  BY DEF LInv, TypeOK
<1>f. \A u \in Ids : hook[u] # "none" => user[u].verified
  BY DEF LInv, FreshRows
<1>1. ASSUME UNCHANGED <<request, hook>>
      PROVE  /\ \A r \in Requests : request[r].at = "end" => request'[r] = request[r]
             /\ \A u \in Ids : hook[u] = "dead" => hook'[u] = "dead"
             /\ Unanswered => Unanswered'
  BY <1>1 DEF Unanswered
<1>2. ASSUME NEW u \in Ids, NEW at, hook[u] # "dead", HookGoes(u, at), UNCHANGED request
      PROVE  /\ \A r \in Requests : request[r].at = "end" => request'[r] = request[r]
             /\ \A v \in Ids : hook[v] = "dead" => hook'[v] = "dead"
             /\ Unanswered => Unanswered'
  BY <1>2, <1>t DEF Unanswered, HookGoes
<1>3. ASSUME NEW r \in Requests, request[r].at # "end", UNCHANGED hook,
             \A q \in Requests \ {r} : request'[q] = request[q],
             request'[r].at = "end" \/ request'[r].reply = request[r].reply
      PROVE  /\ \A q \in Requests : request[q].at = "end" => request'[q] = request[q]
             /\ \A u \in Ids : hook[u] = "dead" => hook'[u] = "dead"
             /\ Unanswered => Unanswered'
  BY <1>3 DEF Unanswered
<1>4. ASSUME NEW r \in Requests, Serve(r)
      PROVE  /\ request[r].at # "end" /\ UNCHANGED hook
             /\ \A q \in Requests \ {r} : request'[q] = request[q]
             /\ request'[r].at = "end" \/ request'[r].reply = request[r].reply
  <2>1. ASSUME NEW e \in Emails, Claim(r, e) \/ ClaimLost(r, e)
        PROVE  /\ request[r].at # "end" /\ UNCHANGED hook
               /\ \A q \in Requests \ {r} : request'[q] = request[q]
               /\ request'[r].at = "end" \/ request'[r].reply = request[r].reply
    BY <2>1, <1>t DEF Claim, ClaimLost, Request
  <2>2. CASE Lookup(r)
    BY <2>2, <1>t DEF Lookup, Request
  <2>3. CASE ClaimSignUp(r)
    BY <2>3, <1>t DEF ClaimSignUp, Request
  <2>4. CASE ClaimSignUpTaken(r) \/ ClaimSignUpFails(r) \/ FlipFails(r) \/ Delete(r) \/ DeleteFails(r)
    <3>1. PICK at : request' = [request EXCEPT ![r].at = at]
      BY <2>4 DEF ClaimSignUpTaken, ClaimSignUpFails, FlipFails, Delete, DeleteFails, Goes
    <3>2. request[r].at # "end" /\ UNCHANGED hook
      BY <2>4 DEF ClaimSignUpTaken, ClaimSignUpFails, FlipFails, Delete, DeleteFails
    <3> QED BY <3>1, <3>2, <1>t DEF Request
  <2>5. CASE Flip(r) \/ Reopen(r) \/ ReopenFails(r)
    <3>1. PICK a : request' = [request EXCEPT ![r].at = "end", ![r].reply = a]
      BY <2>5 DEF Flip, Reopen, ReopenFails, Replies
    <3>2. request[r].at # "end" /\ UNCHANGED hook
      BY <2>5 DEF Flip, Reopen, ReopenFails
    <3> QED BY <3>1, <3>2, <1>t DEF Request
  <2> QED BY <1>4, <2>1, <2>2, <2>3, <2>4, <2>5 DEF Serve
<1>5. ASSUME NEW u \in Ids, Verify(u) \/ RunHook(u)
      PROVE  hook[u] # "dead" /\ UNCHANGED request /\ \E at : HookGoes(u, at)
  BY <1>5, <1>f DEF Verify, RunHook, HookClaim, HookFlip, HookFlipFails, HookReopen, HookReopenFails
<1>6. ASSUME NEW u \in Ids, HookHolds(u), HookGoes(u, "dead"), UNCHANGED request
      PROVE  hook[u] # "dead"
  BY <1>6 DEF HookHolds
<1>7. ASSUME NEW r \in Requests, Holds(r), Goes(r, "end"), UNCHANGED hook
      PROVE  /\ request[r].at # "end"
             /\ \A q \in Requests \ {r} : request'[q] = request[q]
             /\ request'[r].at = "end"
  BY <1>7, <1>t DEF Holds, Goes, Request
<1>8. ASSUME NEW u \in Ids, NEW e \in Emails, SignUp(u, e) PROVE UNCHANGED <<request, hook>>
  BY <1>8 DEF SignUp
<1>9. ASSUME NEW u \in Ids, DeleteAccount(u) PROVE UNCHANGED <<request, hook>>
  BY <1>9 DEF DeleteAccount
<1>10. CASE Crash
  BY <1>10, <1>2, <1>3, <1>6, <1>7 DEF Crash
<1>11. CASE UNCHANGED vars
  BY <1>11, <1>1 DEF vars
<1>12. CASE \E r \in Requests : Serve(r)
  BY <1>12, <1>3, <1>4
<1>13. CASE \E u \in Ids : Verify(u) \/ RunHook(u)
  BY <1>13, <1>2, <1>5
<1> QED BY <1>1, <1>8, <1>9, <1>10, <1>11, <1>12, <1>13 DEF Next

LEMMA LeftoverStays ==
  ASSUME LInv, Unanswered, [Next]_vars
  PROVE  (\A u \in Ids : Leftover(u) => Leftover(u)') /\ (Cut => Cut')
BY EndedStays DEF Leftover, Cut, Unanswered

LEMMA AInvNext == AInv /\ [Next]_vars => AInv'
<1> SUFFICES ASSUME AInv, [Next]_vars PROVE OneAdmin' /\ HeldAdmins'
  BY LInvNext, EndedStays DEF AInv
<1>t. /\ TypeOK /\ UserType /\ RequestType /\ FreshRows /\ Locked /\ LInv
      /\ hook \in [Ids -> Hooks] /\ request \in [Requests -> Request]
      /\ OneAdmin /\ HeldAdmins
  BY DEF AInv, LInv, TypeOK, UserType, RequestType
<1>l. \A u \in Ids : Leftover(u) => Leftover(u)'
  BY LeftoverStays DEF AInv
<1>a. Admins \subseteq Ids /\ Admins' \subseteq Ids
  BY DEF Admins
<1>d. Locked'
  BY LInvNext DEF AInv, LInv
\* A request that is undoing is the holder.
<1>u. ASSUME NEW p \in Holders, NEW u, Undoing(u)
      PROVE  p \in Requests /\ request[p].at \in {"delete", "reopen"} /\ request[p].id = u
  <2>1. PICK r \in Requests : request[r].at \in {"delete", "reopen"} /\ request[r].id = u
    BY <1>u DEF Undoing
  <2>2. r \in Holders
    BY <2>1 DEF Holders, Holds
  <2> QED BY <2>1, <2>2, <1>t DEF Locked
\* Three ways in which a step leaves the invariant true.
<1>s. ASSUME status' = status, Holders' = Holders, Admins' \subseteq Admins,
             \A u \in Admins : Undoing(u) => Undoing(u)'
      PROVE  OneAdmin' /\ HeldAdmins'
  BY <1>s, <1>t, <1>l, <1>a DEF OneAdmin, HeldAdmins
<1>c. ASSUME status = "pending", status' = "completed", Admins' = Admins
      PROVE  OneAdmin' /\ HeldAdmins'
  BY <1>c, <1>t, <1>l, <1>a DEF OneAdmin, HeldAdmins
<1>n. ASSUME NEW p \in Holders, NEW v, Holders' = Holders \ {p}, Admins' \subseteq Admins \cup {v},
             \A u \in Admins \ {v} : Leftover(u),
             status' = "pending" => \A u \in Admins' : Leftover(u)'
      PROVE  OneAdmin' /\ HeldAdmins'
  <2>1. Holders' = {}
    BY <1>n, <1>t DEF Locked
  <2> QED BY <2>1, <1>n, <1>l, <1>a DEF OneAdmin, HeldAdmins
<1>1. ASSUME NEW u \in Ids, NEW e \in Emails, SignUp(u, e) PROVE OneAdmin' /\ HeldAdmins'
  BY <1>1, <1>s, <1>t, ClientSteps, SameHolders DEF SignUp, Undoing
<1>2. ASSUME NEW u \in Ids, Verify(u) PROVE OneAdmin' /\ HeldAdmins'
  BY <1>2, <1>s, <1>t, ClientSteps, VerifyStep DEF Verify, Undoing
<1>3. ASSUME NEW u \in Ids, DeleteAccount(u) PROVE OneAdmin' /\ HeldAdmins'
  BY <1>3, <1>s, <1>t, ClientSteps, SameHolders DEF DeleteAccount, Undoing
<1>4. ASSUME NEW u \in Ids, RunHook(u) PROVE OneAdmin' /\ HeldAdmins'
  <2>1. u \in Holders => \A v \in Admins : Leftover(v)
    BY <1>u, <1>t, SetupAssumption DEF HeldAdmins
  <2>2. UNCHANGED request => \A v \in Admins : Undoing(v) => Undoing(v)'
    BY DEF Undoing
  <2>3. CASE HookClaim(u)
    BY <2>2, <2>3, <1>c, <1>s, <1>t, HookSteps, HookUserSteps DEF HookClaim
  <2>4. CASE HookFlip(u)
    BY <2>1, <2>2, <2>4, <1>n, <1>s, <1>t, <1>d, HookSteps, HookUserSteps DEF HookFlip, Locked
  <2>5. CASE HookFlipFails(u)
    BY <2>1, <2>5, <1>n, <1>t, <1>d, HookSteps, HookUserSteps DEF HookFlipFails, Locked
  <2>6. CASE HookReopen(u) \/ HookReopenFails(u)
    BY <2>1, <2>6, <1>n, <1>l, <1>a, <1>t, HookSteps, HookUserSteps
  <2> QED BY <1>4, <2>3, <2>4, <2>5, <2>6 DEF RunHook
<1>5. ASSUME NEW r \in Requests, Serve(r) PROVE OneAdmin' /\ HeldAdmins'
  <2>h. ASSUME r \in Holders, NEW v \in Admins, ~Leftover(v)
        PROVE  request[r].at \in {"delete", "reopen"} /\ v = request[r].id
    <3>1. Undoing(v)
      BY <2>h, <1>t DEF HeldAdmins
    <3> QED BY <2>h, <3>1, <1>u
  <2>1. ASSUME NEW e \in Emails, Claim(r, e) PROVE OneAdmin' /\ HeldAdmins'
    <3>1. Admins' = Admins
      BY <2>1 DEF Claim, Admins, Live
    <3> QED BY <2>1, <3>1, <1>c DEF Claim
  <2>2. CASE Lookup(r) \/ \E e \in Emails : ClaimLost(r, e)
    <3>1. status' = status /\ UNCHANGED user /\ request[r].at \in {"start", "lookup"}
      BY <2>2 DEF Lookup, ClaimLost
    <3>2. Admins' = Admins
      BY <3>1 DEF Admins, Live
    <3>3. \A q \in Requests \ {r} : request'[q] = request[q]
      BY <2>2, <1>t DEF Lookup, ClaimLost, Request
    <3>4. \A v \in Admins : Undoing(v) => Undoing(v)'
      BY <3>1, <3>3 DEF Undoing
    <3> QED BY <2>2, <3>1, <3>2, <3>4, <1>s, <1>t, RequestSteps
  <2>3. CASE ClaimSignUp(r) \/ ClaimSignUpTaken(r) \/ ClaimSignUpFails(r)
    <3>1. status' = status /\ request[r].at = "signup"
      BY <2>3 DEF ClaimSignUp, ClaimSignUpTaken, ClaimSignUpFails
    <3>2. Admins' = Admins
      BY <2>3, <1>t, RequestUserSteps DEF ClaimSignUpTaken, ClaimSignUpFails, Admins, Live
    <3>3. r \in Holders /\ Holders' = Holders
      BY <2>3, <1>t, RequestSteps
    <3>4. \A v \in Admins : ~Undoing(v)
      BY <3>1, <3>3, <1>u
    <3> QED BY <3>1, <3>2, <3>3, <3>4, <1>s
  <2>4. CASE Flip(r)
    <3>1. status' = status /\ request[r].at = "flip"
      BY <2>4 DEF Flip
    <3>2. r \in Holders /\ Holders' = Holders \ {r}
      BY <2>4, <1>t, RequestSteps
    <3>3. Admins' \subseteq Admins \cup {request[r].id}
      BY <2>4, <1>t, RequestUserSteps
    <3>4. status' = "completed"
      BY <3>1, <3>2, <1>t DEF Locked
    <3> QED BY <3>1, <3>2, <3>3, <3>4, <2>h, <1>n
  <2>5. CASE FlipFails(r)
    <3>1. status' = status /\ request[r].at = "flip"
      BY <2>5 DEF FlipFails
    <3>2. r \in Holders /\ Holders' = Holders
      BY <2>5, <1>t, RequestSteps
    <3>3. Admins' \subseteq Admins \cup {request[r].id}
      BY <2>5, <1>t, RequestUserSteps
    <3>4. status' = "completed"
      BY <3>1, <3>2, <1>t DEF Locked
    <3>5. request'[r].at = "delete" /\ request'[r].id = request[r].id
      BY <2>5, <1>t DEF FlipFails, Goes, Request
    <3>6. \A v : v = request[r].id => Undoing(v)'
      BY <3>5 DEF Undoing
    <3>7. \A v \in Admins' : Leftover(v)' \/ v = request[r].id
      BY <3>1, <3>2, <3>3, <2>h, <1>l, <1>a
    <3> QED BY <3>4, <3>6, <3>7 DEF OneAdmin, HeldAdmins
  <2>6. CASE Delete(r) \/ DeleteFails(r)
    <3>1. status' = status /\ request[r].at = "delete"
      BY <2>6 DEF Delete, DeleteFails
    <3>2. r \in Holders /\ Holders' = Holders
      BY <2>6, <1>t, RequestSteps
    <3>3. Admins' \subseteq Admins
      BY <2>6, <1>t, DeleteEdit DEF DeleteFails, Admins, Live
    <3>4. request' = [request EXCEPT ![r].at = "reopen"]
      BY <2>6 DEF Delete, DeleteFails, Goes
    <3>5. request'[r].at = "reopen" /\ request'[r].id = request[r].id
      BY <3>4, <1>t DEF Request
    <3>6. \A v \in Admins : Undoing(v) => Undoing(v)'
      BY <3>2, <3>5, <1>u DEF Undoing
    <3> QED BY <3>1, <3>2, <3>3, <3>6, <1>s
  <2>7. CASE Reopen(r) \/ ReopenFails(r)
    <3>1. UNCHANGED user /\ request[r].at = "reopen"
      BY <2>7 DEF Reopen, ReopenFails
    <3>2. Admins' = Admins
      BY <3>1 DEF Admins, Live
    <3>3. r \in Holders /\ Holders' = Holders \ {r}
      BY <2>7, <1>t, RequestSteps
    <3>4. PICK a \in {"rejected", "stuck"} :
            request' = [request EXCEPT ![r].at = "end", ![r].reply = a]
      BY <2>7 DEF Reopen, ReopenFails, Replies
    <3>5. request'[r].id = request[r].id /\ request'[r].reply = a
      BY <3>4, <1>t DEF Request
    <3>6. \A v : v = request[r].id => Leftover(v)'
      BY <3>5 DEF Leftover
    <3>7. \A v \in Admins' : Leftover(v)'
      BY <3>2, <3>3, <3>6, <2>h, <1>l, <1>a
    <3> QED BY <3>2, <3>3, <3>7, <2>h, <1>n
  <2> QED BY <1>5, <2>1, <2>2, <2>3, <2>4, <2>5, <2>6, <2>7 DEF Serve
<1>6. CASE Crash
  <2>1. PICK p \in Holders : Holders' = Holders \ {p}
    BY <1>6, <1>t, CrashStep
  <2>2. status' = status /\ Admins' = Admins
    BY <1>6, <1>t, CrashUser DEF Crash
  <2>3. status' = "completed"
    BY <2>1, <2>2, <1>t DEF Locked
  <2>4. \A u \in Admins \ {request[p].id} : Leftover(u)
    BY <1>u, <1>t DEF HeldAdmins
  <2> QED BY <2>1, <2>2, <2>3, <2>4, <1>n
<1>7. CASE UNCHANGED vars
  BY <1>7, <1>s, <1>t, SameHolders, NoEdit DEF vars, Undoing
<1> QED BY <1>1, <1>2, <1>3, <1>4, <1>5, <1>6, <1>7 DEF Next

\* However requests and hooks interleave, fail and die, there is one admin, and none
\* while setup is open, but for users whose deletion failed.
THEOREM OneAdminMade == Spec => []OneAdmin
<1>1. Init => AInv
  BY InitLInv DEF Init, AInv, Unanswered, OneAdmin, HeldAdmins, Admins, Live
<1>2. AInv => OneAdmin
  BY DEF AInv
<1> QED BY <1>1, <1>2, AInvNext, PTL DEF Spec

-----------------------------------------------------------------------------
\* A setup that is completed has made its admin.

Settled == Ever # {} \/ Cut \/ \E r \in Requests : CreatedNobody(r)
CInv == LInv /\ Unanswered /\ CompletedHasAdmin

LEMMA SettledStays ==
  ASSUME LInv, Unanswered, [Next]_vars, Settled, Ever \subseteq Ever'
  PROVE  Settled'
<1>1. CASE Ever # {}
  BY <1>1 DEF Settled
<1>2. CASE Cut
  BY <1>2, LeftoverStays DEF Settled
<1>3. CASE \E r \in Requests : CreatedNobody(r)
  <2>1. PICK r \in Requests : CreatedNobody(r)
    BY <1>3
  <2>2. request[r].at = "end"
    BY <2>1 DEF CreatedNobody, Unanswered
  <2>3. request'[r] = request[r]
    BY <2>2, EndedStays
  <2>4. request[r].id # NoId => request[r].id \in Ids
    BY DEF LInv, TypeOK, Request
  <2>5. CASE request[r].id # NoId /\ user'[request[r].id].admin
    <3>1. request[r].id \in Ever'
      BY <2>4, <2>5 DEF Ever
    <3> QED BY <3>1 DEF Settled
  <2>6. CASE ~(request[r].id # NoId /\ user'[request[r].id].admin)
    <3>1. CreatedNobody(r)'
      BY <2>1, <2>3, <2>6 DEF CreatedNobody
    <3> QED BY <3>1 DEF Settled
  <2> QED BY <2>5, <2>6
<1> QED BY <1>1, <1>2, <1>3 DEF Settled

LEMMA CInvNext == CInv /\ [Next]_vars => CInv'
<1> SUFFICES ASSUME CInv, [Next]_vars, status' = "completed", Holders' = {} PROVE Settled'
  BY LInvNext, EndedStays DEF CInv, CompletedHasAdmin, Settled, Ever
<1>t. /\ TypeOK /\ UserType /\ RequestType /\ FreshRows /\ Locked /\ LInv /\ Unanswered
      /\ hook \in [Ids -> Hooks] /\ request \in [Requests -> Request]
      /\ status = "completed" /\ Holders = {} => Settled
  BY DEF CInv, CompletedHasAdmin, Settled, Ever, LInv, TypeOK, UserType, RequestType
<1>s. ASSUME status' = status, Holders' = Holders, Ever \subseteq Ever' PROVE Settled'
  BY <1>s, <1>t, SettledStays
<1>d. ASSUME NEW u \in Ids, hook'[u] = "dead" PROVE Settled'
  BY <1>d DEF Settled, Cut
<1>1. ASSUME NEW u \in Ids, NEW e \in Emails, SignUp(u, e) PROVE Settled'
  BY <1>1, <1>s, <1>t, ClientSteps, SameHolders DEF SignUp
<1>2. ASSUME NEW u \in Ids, Verify(u) PROVE Settled'
  BY <1>2, <1>s, <1>t, ClientSteps, VerifyStep DEF Verify
<1>3. ASSUME NEW u \in Ids, DeleteAccount(u) PROVE Settled'
  BY <1>3, <1>s, <1>t, ClientSteps, SameHolders DEF DeleteAccount
<1>4. ASSUME NEW u \in Ids, RunHook(u) PROVE Settled'
  <2>1. CASE HookClaim(u)
    BY <2>1, <1>s, <1>t, HookSteps, HookUserSteps DEF HookClaim
  <2>2. CASE HookFlip(u)
    <3>1. u \in Holders
      BY <2>2, <1>t, HookSteps
    <3>2. Ever' = Ever \cup {u}
      BY <2>2, <3>1, <1>t, HookSteps, HookUserSteps
    <3> QED BY <3>2 DEF Settled
  <2>3. CASE HookFlipFails(u) \/ HookReopenFails(u)
    BY <2>3, <1>d, <1>t DEF HookFlipFails, HookReopenFails, HookGoes
  <2>4. CASE HookReopen(u)
    BY <2>4 DEF HookReopen
  <2> QED BY <1>4, <2>1, <2>2, <2>3, <2>4 DEF RunHook
<1>5. ASSUME NEW r \in Requests, Serve(r) PROVE Settled'
  <2>1. ASSUME NEW e \in Emails, Claim(r, e) PROVE Settled'
    BY <2>1, <1>t, RequestSteps
  <2>2. CASE Lookup(r) \/ \E e \in Emails : ClaimLost(r, e)
    <3>1. status' = status /\ UNCHANGED user
      BY <2>2 DEF Lookup, ClaimLost
    <3>2. Ever' = Ever
      BY <3>1 DEF Ever
    <3> QED BY <2>2, <3>1, <3>2, <1>s, <1>t, RequestSteps
  <2>3. CASE ClaimSignUp(r) \/ ClaimSignUpTaken(r) \/ ClaimSignUpFails(r) \/ FlipFails(r)
             \/ Delete(r) \/ DeleteFails(r)
    BY <2>3, <1>t, RequestSteps
  <2>4. CASE Flip(r)
    <3>1. request' = [request EXCEPT ![r].at = "end", ![r].reply = "created"]
      BY <2>4 DEF Flip, Replies
    <3>2. request'[r].reply = "created" /\ request'[r].id = request[r].id
      BY <3>1, <1>t DEF Request
    <3>3. request'[r].id # NoId => request'[r].id \in Ids
      BY <3>2, <1>t DEF Request
    <3>4. CreatedNobody(r)' \/ request'[r].id \in Ever'
      BY <3>2, <3>3 DEF CreatedNobody, Ever
    <3> QED BY <3>4 DEF Settled
  <2>5. CASE Reopen(r)
    BY <2>5 DEF Reopen
  <2>6. CASE ReopenFails(r)
    <3>1. request' = [request EXCEPT ![r].at = "end", ![r].reply = "stuck"]
      BY <2>6 DEF ReopenFails, Replies
    <3>2. request'[r].at = "end" /\ request'[r].reply = "stuck"
      BY <3>1, <1>t DEF Request
    <3> QED BY <3>2 DEF Settled, Cut
  <2> QED BY <1>5, <2>1, <2>2, <2>3, <2>4, <2>5, <2>6 DEF Serve
<1>6. CASE Crash
  <2>1. ASSUME NEW r \in Requests, Holds(r), Goes(r, "end") PROVE Settled'
    <3>1. request[r].reply = "none"
      BY <2>1, <1>t DEF Holds, Unanswered
    <3>2. request'[r].at = "end" /\ request'[r].reply = "none"
      BY <2>1, <3>1, <1>t DEF Goes, Request
    <3> QED BY <3>2 DEF Settled, Cut
  <2>2. ASSUME NEW u \in Ids, HookGoes(u, "dead") PROVE Settled'
    BY <2>2, <1>d, <1>t DEF HookGoes
  <2> QED BY <1>6, <2>1, <2>2 DEF Crash
<1>7. CASE UNCHANGED vars
  BY <1>7, <1>s, <1>t, SameHolders, NoEdit DEF vars
<1> QED BY <1>1, <1>2, <1>3, <1>4, <1>5, <1>6, <1>7 DEF Next

\* Every error path gives the claim back: a completed setup nobody works on has made
\* an admin, unless a process was cut short or a flip matched no row.
THEOREM SetupMakesAdmin == Spec => []CompletedHasAdmin
<1>1. Init => CInv
  BY InitLInv DEF Init, CInv, Unanswered, CompletedHasAdmin
<1>2. CInv => CompletedHasAdmin
  BY DEF CInv
<1> QED BY <1>1, <1>2, CInvNext, PTL DEF Spec
====

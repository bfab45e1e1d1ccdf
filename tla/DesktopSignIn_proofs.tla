---- MODULE DesktopSignIn_proofs ----
(***************************************************************************)
(* Proofs about DesktopSignIn, for any claims, mappings and priority, any  *)
(* number of slots and of callbacks.                                       *)
(*                                                                         *)
(* The decision first: HighestPriority gives the role that DueRole names   *)
(* (the least of the ranks, then the least place that has it), a profile   *)
(* that Decide lets in has no cause to be refused, and one it refuses has  *)
(* the cause of its code. Then the state: SlotsHeld is why one state gives *)
(* one bearer, Outcomes carries the decision from the step that took it to *)
(* the answer, over whatever runs in between.                              *)
(***************************************************************************)
EXTENDS DesktopSignIn, FiniteSetTheorems, WellFoundedInduction, TLAPS

---------------------------------------------------------------------------
(* The resolver                                                            *)

\* Every nonempty set of numbers has a least one.
LEMMA Least ==
  ASSUME NEW S \in SUBSET Nat, S # {}
  PROVE  \E x \in S : \A y \in S : x <= y
<1>1. PICK x \in S : \A y \in S : ~(y < x)
  <2>1. PICK x \in S : \A y \in S : <<y, x>> \notin OpToRel(<, Nat)
    BY WFMin, NatLessThanWellFounded, Zenon
  <2> QED BY <2>1 DEF OpToRel
<1> QED BY <1>1

---------------------------------------------------------------------------

\* A rank is a number, whatever the role.
LEMMA RankType ==
  ASSUME ConfigAssumption, NEW role
  PROVE  RankOf(role) \in Nat
<1>1. Len(RolePriority) \in Nat /\ DOMAIN RolePriority = 1 .. Len(RolePriority)
  BY DEF ConfigAssumption
<1>2. CASE role \notin ToSet(RolePriority)
  BY <1>1, <1>2 DEF RankOf
<1>3. CASE role \in ToSet(RolePriority)
  <2> DEFINE I == {i \in 1 .. Len(RolePriority) : RolePriority[i] = role}
  <2>1. I # {} /\ I \in SUBSET Nat
    BY <1>1, <1>3 DEF ToSet
  <2>2. Min(I) \in I
    BY <2>1, Least DEF Min
  <2>3. RankOf(role) = Min(I)
    BY <1>3, <2>1 DEF RankOf, SelectInSeq
  <2> QED BY <2>1, <2>2, <2>3
<1> QED BY <1>2, <1>3

\* A listed role ranks no further back than any place it is listed at.
LEMMA RankListed ==
  ASSUME ConfigAssumption, NEW k \in DOMAIN RolePriority
  PROVE  RankOf(RolePriority[k]) <= k
<1>1. Len(RolePriority) \in Nat /\ DOMAIN RolePriority = 1 .. Len(RolePriority)
  BY DEF ConfigAssumption
<1> DEFINE I == {i \in 1 .. Len(RolePriority) : RolePriority[i] = RolePriority[k]}
<1>2. k \in I /\ I \in SUBSET Nat /\ RolePriority[k] \in ToSet(RolePriority)
  BY <1>1 DEF ToSet
<1>3. Min(I) \in I /\ Min(I) <= k
  BY <1>2, Least DEF Min
<1>4. RankOf(RolePriority[k]) = Min(I)
  BY <1>2 DEF RankOf, SelectInSeq
<1> QED BY <1>3, <1>4

\* A rank within the list is a place of the role in it.
LEMMA RankIsPlace ==
  ASSUME ConfigAssumption, NEW role, RankOf(role) <= Len(RolePriority)
  PROVE  RankOf(role) \in DOMAIN RolePriority /\ RolePriority[RankOf(role)] = role
<1>1. Len(RolePriority) \in Nat /\ DOMAIN RolePriority = 1 .. Len(RolePriority)
  BY DEF ConfigAssumption
<1>2. role \in ToSet(RolePriority)
  BY <1>1 DEF RankOf
<1> DEFINE I == {i \in 1 .. Len(RolePriority) : RolePriority[i] = role}
<1>3. I # {} /\ I \in SUBSET Nat
  BY <1>1, <1>2 DEF ToSet
<1>4. Min(I) \in I
  BY <1>3, Least DEF Min
<1>5. RankOf(role) = Min(I)
  BY <1>2, <1>3 DEF RankOf, SelectInSeq
<1> QED BY <1>1, <1>4, <1>5

\* Two leasts: of the ranks, and of the places that have it.
LEMMA BestIsThere ==
  ASSUME ConfigAssumption, NEW groups, groups \in Seq(ToSet(groups)), Mapped(groups) # {}
  PROVE  /\ BestPlace(groups) \in Mapped(groups)
         /\ \A j \in Mapped(groups) :
              RankOf(RoleMapping[groups[BestPlace(groups)]]) <= RankOf(RoleMapping[groups[j]])
<1> DEFINE rank(k) == RankOf(RoleMapping[groups[k]])
           R == {rank(k) : k \in Mapped(groups)}
<1>1. \A k \in Mapped(groups) : k \in Nat /\ rank(k) \in Nat
  <2>1. DOMAIN groups = 1 .. Len(groups) /\ Len(groups) \in Nat
    OBVIOUS
  <2>2. \A k \in Mapped(groups) : k \in Nat
    BY <2>1 DEF Mapped
  <2>3. \A role : RankOf(role) \in Nat
    BY RankType
  <2> QED BY <2>2, <2>3
<1>2. R \in SUBSET Nat /\ R # {}
  BY <1>1
<1> HIDE DEF rank
<1>3. PICK n \in R : \A m \in R : n <= m
  BY <1>2, Least
<1> DEFINE K == {k \in Mapped(groups) : rank(k) = n}
<1>4. K \in SUBSET Nat /\ K # {}
  BY <1>1
<1>5. PICK b \in K : \A k \in K : b <= k
  BY <1>4, Least
<1>6. \A j \in Mapped(groups) : \/ rank(b) < rank(j)
                                \/ rank(b) = rank(j) /\ b <= j
  <2>1. b \in Mapped(groups) /\ rank(b) = n
    BY <1>5
  <2>2. ASSUME NEW j \in Mapped(groups)
        PROVE  n <= rank(j) /\ (rank(j) = n => b <= j)
    <3>1. rank(j) \in R
      OBVIOUS
    <3> QED BY <3>1, <1>3, <1>5
  <2>3. n \in Nat
    BY <1>2
  <2> HIDE DEF R, K
  <2> QED BY <2>1, <2>2, <2>3, <1>1
<1>7. /\ BestPlace(groups) \in Mapped(groups)
      /\ \A j \in Mapped(groups) : \/ rank(BestPlace(groups)) < rank(j)
                                   \/ rank(BestPlace(groups)) = rank(j) /\ BestPlace(groups) <= j
  BY <1>5, <1>6 DEF BestPlace, rank
<1> QED BY <1>1, <1>7 DEF rank

\* highestPriorityRole gives the role that the rules name.
LEMMA BestIsDue ==
  ASSUME ConfigAssumption, NEW groups, groups \in Seq(ToSet(groups)), Mapped(groups) # {}
  PROVE  HighestPriority(groups) \in Roles /\ DueRole(groups, HighestPriority(groups))
<1> DEFINE b == BestPlace(groups)
           role == HighestPriority(groups)
           named == {RoleMapping[g] : g \in ToSet(groups) \cap DOMAIN RoleMapping}
<1>1. /\ b \in Mapped(groups)
      /\ role = RoleMapping[groups[b]]
      /\ \A j \in Mapped(groups) : RankOf(role) <= RankOf(RoleMapping[groups[j]])
  BY BestIsThere DEF HighestPriority
<1> HIDE DEF b, role
<1>2. groups[b] \in ToSet(groups) \cap DOMAIN RoleMapping
  BY <1>1 DEF Mapped, ToSet
<1>3. role \in named /\ role \in Roles
  BY <1>1, <1>2 DEF ConfigAssumption
<1>4. ASSUME NEW other \in named \ {role},
             NEW k \in DOMAIN RolePriority, RolePriority[k] = other
      PROVE  \E j \in DOMAIN RolePriority : RolePriority[j] = role /\ j < k
  <2>1. PICK g \in ToSet(groups) \cap DOMAIN RoleMapping : other = RoleMapping[g]
    OBVIOUS
  <2>2. PICK j \in DOMAIN groups : groups[j] = g
    BY <2>1 DEF ToSet
  <2>3. RankOf(role) <= RankOf(other)
    BY <1>1, <2>1, <2>2 DEF Mapped
  <2>4. RankOf(other) <= k
    BY <1>4, RankListed
  <2>5. Len(RolePriority) \in Nat /\ DOMAIN RolePriority = 1 .. Len(RolePriority)
    BY DEF ConfigAssumption
  <2>6. RankOf(role) \in Nat /\ RankOf(other) \in Nat
    BY RankType
  <2>7. RankOf(role) <= k /\ k <= Len(RolePriority) /\ k \in Nat
    BY <2>3, <2>4, <2>5, <2>6
  <2>8. RankOf(role) \in DOMAIN RolePriority /\ RolePriority[RankOf(role)] = role
    BY <2>5, <2>6, <2>7, RankIsPlace
  <2>9. RankOf(role) # k
    BY <1>4, <2>8
  <2> QED BY <2>5, <2>6, <2>7, <2>8, <2>9
<1>5. named # {}
  BY <1>3
<1> QED BY <1>3, <1>4, <1>5 DEF DueRole, role

\* The groups of a claim bag are a sequence.
LEMMA ClaimsTyped ==
  ASSUME ClaimsAssumption, NEW claims \in Claims \cup {NoClaims}
  PROVE  claims.groups \in Seq(ToSet(claims.groups))
<1>1. CASE claims \in Claims
  BY <1>1 DEF ClaimsAssumption
<1>2. CASE claims = NoClaims
  BY <1>2 DEF NoClaims
<1> QED BY <1>1, <1>2

\* A profile that is let in has no cause to be refused, and the role it is given is due.
LEMMA LetIn ==
  ASSUME ConfigAssumption, ClaimsAssumption,
         NEW claims \in Claims \cup {NoClaims}, Decide(claims, Unasked).code = "ok"
  PROVE  /\ claims.key \in DOMAIN TenantMapping
         /\ Odd \notin ToSet(claims.groups)
         /\ Decide(claims, Unasked).tenant = TenantMapping[claims.key]
         /\ Decide(claims, Unasked).role \in Roles
         /\ DueRole(claims.groups, Decide(claims, Unasked).role)
         /\ ToSet(claims.groups) \cap DOMAIN RoleMapping # {} \/ DefaultRole \in Roles
<1> DEFINE best == HighestPriority(claims.groups)
<1>1. /\ claims.key \notin {Odd, Missing} /\ claims.key \in DOMAIN TenantMapping
      /\ Odd \notin ToSet(claims.groups)
      /\ \/ /\ Mapped(claims.groups) # {}
            /\ Decide(claims, Unasked) = Granted(TenantMapping[claims.key], best)
         \/ /\ Mapped(claims.groups) = {} /\ DefaultRole \in Roles
            /\ Decide(claims, Unasked) = Granted(TenantMapping[claims.key], DefaultRole)
  BY DEF Decide, Rejected
<1>2. CASE Mapped(claims.groups) # {}
  <2>1. best \in Roles /\ DueRole(claims.groups, best)
    BY <1>2, ClaimsTyped, BestIsDue
  <2>2. ToSet(claims.groups) \cap DOMAIN RoleMapping # {}
    BY <1>2 DEF Mapped, ToSet
  <2>3. Decide(claims, Unasked) = Granted(TenantMapping[claims.key], best)
    BY <1>1, <1>2
  <2> QED BY <1>1, <2>1, <2>2, <2>3 DEF Granted
<1>3. CASE Mapped(claims.groups) = {}
  <2>1. ToSet(claims.groups) \cap DOMAIN RoleMapping = {}
    BY <1>3 DEF Mapped, ToSet
  <2>2. DueRole(claims.groups, DefaultRole)
    BY <2>1 DEF DueRole
  <2>3. Decide(claims, Unasked) = Granted(TenantMapping[claims.key], DefaultRole)
    BY <1>1, <1>3
  <2> QED BY <1>1, <1>3, <2>2, <2>3 DEF Granted
<1> QED BY <1>2, <1>3

\* A profile that is refused has the cause of its code, or is bound to another tenant.
LEMMA KeptOut ==
  ASSUME ConfigAssumption, NEW claims, NEW b, Decide(claims, b).code # "ok"
  PROVE  /\ Decide(claims, b).code \in Codes
         /\ Decide(claims, b).code # "forbidden_tenant_mismatch" =>
              \A user : Cause(Decide(claims, b).code, claims, user)
         /\ Decide(claims, b).code = "forbidden_tenant_mismatch" =>
              claims.key \in DOMAIN TenantMapping /\ b \notin {Unasked, TenantMapping[claims.key]}
<1>1. CASE claims.key = Odd
  BY <1>1 DEF Decide, Rejected, Cause, Codes
<1>2. CASE claims.key # Odd /\ claims.key = Missing
  BY <1>2 DEF Decide, Rejected, Cause, Codes
<1>3. CASE claims.key \notin {Odd, Missing} \cup DOMAIN TenantMapping
  BY <1>3 DEF Decide, Rejected, Cause, Codes
<1>4. CASE /\ claims.key \notin {Odd, Missing} /\ claims.key \in DOMAIN TenantMapping
           /\ b \notin {Unasked, TenantMapping[claims.key]}
  BY <1>4 DEF Decide, Rejected, Cause, Codes
<1>5. CASE /\ claims.key \notin {Odd, Missing} /\ claims.key \in DOMAIN TenantMapping
           /\ b \in {Unasked, TenantMapping[claims.key]}
  <2>1. CASE Odd \in ToSet(claims.groups)
    BY <1>5, <2>1 DEF Decide, Rejected, Cause, Codes
  <2>2. CASE Odd \notin ToSet(claims.groups)
    <3>1. Mapped(claims.groups) = {} /\ DefaultRole \notin Roles
          /\ Decide(claims, b) = Rejected("forbidden_no_role_mapping")
      BY <1>5, <2>2 DEF Decide, Granted
    <3>2. ToSet(claims.groups) \cap DOMAIN RoleMapping = {}
      BY <3>1 DEF Mapped, ToSet
    <3> QED BY <3>1, <3>2 DEF Rejected, Cause, Codes
  <2> QED BY <2>1, <2>2
<1> QED BY <1>1, <1>2, <1>3, <1>4, <1>5

\* The second decision on the same profile differs only by the tenant.
LEMMA AskedAgain ==
  ASSUME NEW claims, NEW b, Decide(claims, Unasked).code = "ok"
  PROVE  /\ b = TenantMapping[claims.key] => Decide(claims, b) = Decide(claims, Unasked)
         /\ b \notin {Unasked, TenantMapping[claims.key]} =>
              Decide(claims, b).code = "forbidden_tenant_mismatch"
  BY DEF Decide, Rejected

\* No cause, for a new user, against a profile that was let in to the default tenant.
LEMMA NoCause ==
  ASSUME ConfigAssumption, ClaimsAssumption,
         NEW claims \in Claims \cup {NoClaims}, Decide(claims, Unasked).code = "ok",
         Decide(claims, Unasked).tenant = DefaultTenant, NEW code \in Codes
  PROVE  ~Cause(code, claims, NoUser)
<1>1. claims.key \notin {Odd, Missing} /\ claims.key \in DOMAIN TenantMapping
  BY LetIn DEF ConfigAssumption
<1>2. /\ Odd \notin ToSet(claims.groups)
      /\ TenantMapping[claims.key] = DefaultTenant
      /\ ToSet(claims.groups) \cap DOMAIN RoleMapping # {} \/ DefaultRole \in Roles
  BY LetIn
<1> QED BY <1>1, <1>2 DEF Cause, Codes

---------------------------------------------------------------------------
(* The shape of the state                                                 *)

Callbacks ==
  [at : {"idle", "exchange", "find", "load", "resync", "create", "trace", "mint", "over"},
   slot : Slots \cup {"none"}, claims : Claims \cup {NoClaims}, user : Nat,
   role : Roles \cup {NoRole}, said : Codes \cup {"nothing", "bearer", "error"}]

\* The shape of the state; ids are given in ascending order.
SignInTypes ==
  /\ directory \in Claims
  /\ state \in [Slots -> {"none", "fresh", "consumed", "expired"}]
  /\ made \in Nat
  /\ account \in [id : Nat, role : Roles \cup {NoRole}]
  /\ account.id <= made
  /\ bearers \in [Slots -> Nat]
  /\ req \in [Requests -> Callbacks]
  /\ \A r \in Requests : req[r].user <= made

Running(r) == ~At(r, "idle")

\* Whoever runs has a slot to itself, whose row it has consumed; a bearer comes last.
SlotsHeld ==
  /\ \A r \in Requests : Running(r) => req[r].slot \in Slots /\ state[req[r].slot] = "consumed"
  /\ \A r, q \in Requests : Running(r) /\ Running(q) /\ req[r].slot = req[q].slot => r = q
  /\ \A r \in Requests : Running(r) /\ ~At(r, "over") => bearers[req[r].slot] = 0
  /\ \A s \in Slots : bearers[s] <= 1 /\ (state[s] \in {"none", "fresh"} => bearers[s] = 0)

\* What a callback has been let in with.
LetInAs(r) == Decide(req[r].claims, Unasked) = Granted(DefaultTenant, req[r].role)

\* One whose user was found without a role is let in all the same.
LetInBare(r) ==
  /\ Decide(req[r].claims, Unasked).code = "ok"
  /\ Decide(req[r].claims, Unasked).tenant = DefaultTenant
  /\ req[r].role = NoRole

Outcome(r) ==
  /\ At(r, "load") => req[r].user # NoUser /\ Decide(req[r].claims, Unasked).code = "ok"
  /\ req[r].at \in {"resync", "create", "trace"} => LetInAs(r)
  /\ At(r, "mint") => LetInAs(r) \/ LetInBare(r)
  /\ At(r, "over") /\ req[r].said \in Codes => Cause(req[r].said, req[r].claims, req[r].user)
  /\ At(r, "over") /\ req[r].said = "bearer" => LetInAs(r) \/ LetInBare(r)

Outcomes == \A r \in Requests : Outcome(r)

\* A user whose role nobody has written, or is about to write.
Unwritten(user) ==
  /\ user # NoUser /\ user <= made
  /\ NeverGiven(user)
  /\ account.id = user => account.role = NoRole
  /\ \A q \in Requests : req[q].at \in {"resync", "trace"} => req[q].user # user

LetsIn(r) == At(r, "mint") \/ (At(r, "over") /\ req[r].said = "bearer")

\* A null role is one that nobody has written, and the ids of the rows were given.
Bare ==
  /\ \A change \in audit \cup lost : change[1] \in Nat /\ change[1] <= made
  /\ account.id # NoUser /\ account.role = NoRole => Unwritten(account.id)
  /\ \A r \in Requests : LetsIn(r) /\ req[r].role = NoRole => Unwritten(req[r].user)

---------------------------------------------------------------------------

USE DEF world

\* A decision gives one of the three roles, or one of the codes.
LEMMA DecisionTyped ==
  ASSUME ConfigAssumption, ClaimsAssumption, NEW claims \in Claims \cup {NoClaims}, NEW b
  PROVE  /\ Decide(claims, b).code = "ok" => Decide(claims, b).role \in Roles
         /\ Decide(claims, b).code # "ok" => Decide(claims, b).code \in Codes
<1>1. Decide(claims, b).code = "ok" => Decide(claims, b) = Decide(claims, Unasked)
  BY DEF Decide, Rejected
<1> QED BY <1>1, LetIn, KeptOut

\* A callback goes on to a record of the right shape, with an id that was given.
LEMMA GoesTyped ==
  ASSUME SignInTypes, NEW r \in Requests, NEW to \in Callbacks, NEW n \in Nat,
         made <= n, to.user <= n, Goes(r, to)
  PROVE  req' \in [Requests -> Callbacks] /\ \A q \in Requests : req'[q].user <= n
<1>1. \A q \in Requests : req[q] \in Callbacks /\ req[q].user \in Nat
  BY DEF SignInTypes, Callbacks
<1>2. to.user \in Nat
  BY DEF Callbacks
<1> HIDE DEF Callbacks
<1>3. \A q \in Requests : req'[q] = IF q = r THEN to ELSE req[q]
  BY DEF SignInTypes, Goes
<1>4. req' \in [Requests -> Callbacks]
  BY DEF SignInTypes, Goes
<1> QED BY <1>1, <1>2, <1>3, <1>4 DEF SignInTypes

\* The record of a callback that is not there.
LEMMA IdleTyped == Idle \in Callbacks /\ Idle.user = 0
  BY DEF Callbacks, Idle, NoClaims, NoUser

\* The records that keep the slot only: the first one, and the one that fails.
LEMMA IdleWith ==
  ASSUME NEW slot \in Slots \cup {"none"}
  PROVE  /\ [Idle EXCEPT !.at = "over", !.slot = slot, !.said = "error"] \in Callbacks
         /\ [Idle EXCEPT !.at = "over", !.slot = slot, !.said = "error"].user = 0
         /\ [Idle EXCEPT !.at = "exchange", !.slot = slot] \in Callbacks
         /\ [Idle EXCEPT !.at = "exchange", !.slot = slot].user = 0
  BY DEF Callbacks, Idle, NoClaims, NoUser

\* A handler that throws keeps the shape of the state.
LEMMA BreaksKeeps ==
  ASSUME SignInTypes, NEW r \in Requests, NEW n \in Nat, made <= n, Breaks(r)
  PROVE  req' \in [Requests -> Callbacks] /\ \A q \in Requests : req'[q].user <= n
<1>0. req[r].slot \in Slots \cup {"none"}
  BY DEF SignInTypes, Callbacks
<1> DEFINE to == [Idle EXCEPT !.at = "over", !.slot = req[r].slot, !.said = "error"]
<1>1. to \in Callbacks /\ to.user <= n
  <2>1. to \in Callbacks /\ to.user = 0
    BY <1>0, IdleWith, Zenon
  <2> QED BY <2>1
<1>2. Goes(r, to)
  BY DEF Breaks
<1> HIDE DEF to
<1>3. req' \in [Requests -> Callbacks] /\ \A q \in Requests : req'[q].user <= n
  BY <1>1, <1>2, GoesTyped
<1> QED BY <1>3

\* So does one that refuses.
LEMMA RefusedTyped ==
  ASSUME SignInTypes, NEW r \in Requests, NEW code \in Codes, Refused(r, code)
  PROVE  req' \in [Requests -> Callbacks] /\ \A q \in Requests : req'[q].user <= made
<1>1. req[r] \in Callbacks /\ req[r].user <= made /\ made \in Nat
  BY DEF SignInTypes
<1>2. CASE Breaks(r)
  BY <1>1, <1>2, BreaksKeeps
<1>3. CASE Goes(r, Over(r, code))
  <2> DEFINE to == [req[r] EXCEPT !.at = "over", !.said = code]
  <2>1. to \in Callbacks /\ to.user <= made
    BY <1>1 DEF Callbacks
  <2>2. Goes(r, to)
    BY <1>3 DEF Over
  <2> HIDE DEF to
  <2>3. req' \in [Requests -> Callbacks] /\ \A q \in Requests : req'[q].user <= made
    BY <1>1, <2>1, <2>2, GoesTyped
  <2> QED BY <2>3
<1> QED BY <1>2, <1>3 DEF Refused

\* Every step keeps the shape of the state.
LEMMA TypesKept ==
  ASSUME SignInTypes, [Next]_vars
  PROVE  SignInTypes'
<1> USE DEF SignInTypes
<1>1. CASE UNCHANGED vars
  BY <1>1 DEF vars
<1>2. CASE Moves
  BY <1>2 DEF Moves
<1>3. CASE SignsUp
  <2>1. account' \in [id : Nat, role : Roles \cup {NoRole}] /\ account'.id = made' /\ made' = made + 1
    BY <1>3 DEF SignsUp
  <2> QED BY <1>3, <2>1 DEF SignsUp, Callbacks
<1>4. CASE Deletes
  <2>1. account' \in [id : Nat, role : Roles \cup {NoRole}] /\ account'.id = 0
    BY <1>4 DEF Deletes, NoUser
  <2> QED BY <1>4, <2>1 DEF Deletes
<1>5. ASSUME NEW s \in Slots, Starts(s) \/ Expires(s)
      PROVE  SignInTypes'
  BY <1>5 DEF Starts, Expires
<1>6. ASSUME NEW r \in Requests, Handler(r)
      PROVE  SignInTypes'
  <2>0. req[r] \in Callbacks /\ req[r].user <= made
    OBVIOUS
  <2>1. CASE Exchange(r)
    <3> DEFINE to == [req[r] EXCEPT !.at = "find", !.claims = directory]
    <3>1. to \in Callbacks /\ to.user <= made
      BY <2>0 DEF Callbacks
    <3>2. Goes(r, to)
      BY <2>1 DEF Exchange
    <3> HIDE DEF to
    <3>3. req' \in [Requests -> Callbacks] /\ \A q \in Requests : req'[q].user <= made
      BY <3>1, <3>2, GoesTyped
    <3> QED BY <2>1, <3>3 DEF Exchange
  <2>2. CASE Find(r)
    <3> DEFINE d == Decide(req[r].claims, Unasked)
    <3>1. (d.code = "ok" => d.role \in Roles) /\ (d.code # "ok" => d.code \in Codes)
      BY <2>0, DecisionTyped, ConfigAssumption, ClaimsAssumption DEF Callbacks
    <3>2. UNCHANGED <<directory, state, made, account, bearers>>
      BY <2>2 DEF Find
    <3>3. CASE d.code # "ok" /\ Refused(r, d.code)
      BY <3>1, <3>2, <3>3, RefusedTyped
    <3>4. CASE Refused(r, "forbidden_tenant_mismatch")
      <4>1. "forbidden_tenant_mismatch" \in Codes
        BY DEF Codes
      <4> QED BY <3>2, <3>4, <4>1, RefusedTyped
    <3>5. CASE Goes(r, [req[r] EXCEPT !.at = "load", !.user = account.id])
      <4> DEFINE to == [req[r] EXCEPT !.at = "load", !.user = account.id]
      <4>1. to \in Callbacks /\ to.user <= made
        BY <2>0 DEF Callbacks
      <4>2. Goes(r, to)
        BY <3>5
      <4> HIDE DEF to
      <4>3. req' \in [Requests -> Callbacks] /\ \A q \in Requests : req'[q].user <= made
        BY <4>1, <4>2, GoesTyped
      <4> QED BY <3>2, <4>3
    <3>6. CASE d.code = "ok" /\ Goes(r, [req[r] EXCEPT !.at = "create", !.role = d.role])
      <4> DEFINE to == [req[r] EXCEPT !.at = "create", !.role = d.role]
      <4>1. to \in Callbacks /\ to.user <= made
        BY <2>0, <3>1, <3>6 DEF Callbacks
      <4>2. Goes(r, to)
        BY <3>6
      <4> HIDE DEF to
      <4>3. req' \in [Requests -> Callbacks] /\ \A q \in Requests : req'[q].user <= made
        BY <4>1, <4>2, GoesTyped
      <4> QED BY <3>2, <4>3
    <3> QED BY <2>2, <3>3, <3>4, <3>5, <3>6 DEF Find
  <2>3. CASE Load(r)
    <3> DEFINE seen == /\ account.id = req[r].user
                       /\ Decide(req[r].claims, Unasked).tenant = DefaultTenant
               d == Decide(req[r].claims, IF seen THEN DefaultTenant ELSE Nowhere)
               at == IF account.role \in Roles \ {d.role} THEN "resync" ELSE "mint"
    <3>1. (d.code = "ok" => d.role \in Roles) /\ (d.code # "ok" => d.code \in Codes)
      BY <2>0, DecisionTyped, ConfigAssumption, ClaimsAssumption DEF Callbacks
    <3>2. UNCHANGED <<directory, state, made, account, bearers>>
      BY <2>3 DEF Load
    <3>3. CASE d.code # "ok"
      <4>1. Refused(r, d.code)
        BY <2>3, <3>3 DEF Load
      <4> QED BY <3>1, <3>2, <3>3, <4>1, RefusedTyped
    <3>4. CASE d.code = "ok"
      <4> DEFINE to == [req[r] EXCEPT !.at = at,
                          !.role = IF account.role \in Roles THEN d.role ELSE NoRole]
      <4>1. to \in Callbacks /\ to.user <= made
        BY <2>0, <3>1, <3>4 DEF Callbacks
      <4>2. Goes(r, to)
        BY <2>3, <3>4 DEF Load
      <4> HIDE DEF to
      <4>3. req' \in [Requests -> Callbacks] /\ \A q \in Requests : req'[q].user <= made
        BY <4>1, <4>2, GoesTyped
      <4> QED BY <3>2, <4>3
    <3> QED BY <3>3, <3>4
  <2>4. CASE Resync(r)
    <3>1. req[r].user \in Nat /\ req[r].role \in Roles \cup {NoRole}
      BY <2>0 DEF Callbacks
    <3>2. account' \in [id : Nat, role : Roles \cup {NoRole}] /\ account'.id = account.id
      BY <2>4, <3>1 DEF Resync
    <3>3. UNCHANGED <<directory, state, made, bearers>>
      BY <2>4 DEF Resync
    <3>4. CASE Goes(r, [req[r] EXCEPT !.at = "trace", !.user = req[r].user])
      <4> DEFINE to == [req[r] EXCEPT !.at = "trace", !.user = req[r].user]
      <4>1. to \in Callbacks /\ to.user <= made
        BY <2>0 DEF Callbacks
      <4>2. Goes(r, to)
        BY <3>4
      <4> HIDE DEF to
      <4>3. req' \in [Requests -> Callbacks] /\ \A q \in Requests : req'[q].user <= made
        BY <4>1, <4>2, GoesTyped
      <4> QED BY <3>2, <3>3, <4>3
    <3>5. CASE Breaks(r)
      BY <3>2, <3>3, <3>5, BreaksKeeps
    <3> QED BY <2>4, <3>4, <3>5 DEF Resync, Stored
  <2>5. CASE Create(r)
    <3> DEFINE n == made + 1
    <3>1. req[r].role \in Roles \cup {NoRole} /\ made' = n /\ n \in Nat /\ made <= n
      BY <2>0, <2>5 DEF Callbacks, Create
    <3>2. account' \in [id : Nat, role : Roles \cup {NoRole}] /\ account'.id = n
      BY <2>5, <3>1 DEF Create
    <3>3. UNCHANGED <<directory, state, bearers>>
      BY <2>5 DEF Create
    <3> HIDE DEF n
    <3>4. CASE Goes(r, [req[r] EXCEPT !.at = "trace", !.user = made'])
      <4> DEFINE to == [req[r] EXCEPT !.at = "trace", !.user = n]
      <4>1. to \in Callbacks /\ to.user <= n
        <5>1. to \in Callbacks /\ to.user = n
          BY <2>0, <3>1 DEF Callbacks
        <5> QED BY <3>1, <5>1
      <4>2. Goes(r, to)
        BY <3>1, <3>4
      <4> HIDE DEF to
      <4>3. req' \in [Requests -> Callbacks] /\ \A q \in Requests : req'[q].user <= n
        BY <3>1, <4>1, <4>2, GoesTyped
      <4> QED BY <3>1, <3>2, <3>3, <4>3
    <3>5. CASE Breaks(r)
      <4>1. req' \in [Requests -> Callbacks] /\ \A q \in Requests : req'[q].user <= n
        BY <3>1, <3>5, BreaksKeeps
      <4> QED BY <3>1, <3>2, <3>3, <4>1
    <3> QED BY <2>5, <3>4, <3>5 DEF Create, Stored
  <2>6. CASE Trace(r)
    <3>1. UNCHANGED <<directory, state, made, account, bearers>>
      BY <2>6 DEF Trace
    <3>2. CASE Goes(r, [req[r] EXCEPT !.at = "mint"])
      <4> DEFINE to == [req[r] EXCEPT !.at = "mint"]
      <4>1. to \in Callbacks /\ to.user <= made
        BY <2>0 DEF Callbacks
      <4>2. Goes(r, to)
        BY <3>2
      <4> HIDE DEF to
      <4>3. req' \in [Requests -> Callbacks] /\ \A q \in Requests : req'[q].user <= made
        BY <4>1, <4>2, GoesTyped
      <4> QED BY <3>1, <4>3
    <3>3. CASE Breaks(r)
      BY <3>1, <3>3, BreaksKeeps
    <3> QED BY <2>6, <3>2, <3>3 DEF Trace
  <2>7. CASE Mint(r)
    <3>0. bearers' \in [Slots -> Nat] /\ UNCHANGED <<directory, state, made, account>>
      <4>1. ASSUME NEW s \in Slots
            PROVE  bearers'[s] \in Nat
        BY <2>7 DEF Mint
      <4>2. DOMAIN bearers' = Slots /\ bearers' = [s \in Slots |-> bearers'[s]]
        BY <2>7 DEF Mint
      <4> QED BY <2>7, <4>1, <4>2 DEF Mint
    <3> DEFINE to == [req[r] EXCEPT !.at = "over", !.said = "bearer"]
    <3>1. to \in Callbacks /\ to.user <= made
      BY <2>0 DEF Callbacks
    <3>2. Goes(r, to)
      BY <2>7 DEF Mint, Over
    <3> HIDE DEF to
    <3>3. req' \in [Requests -> Callbacks] /\ \A q \in Requests : req'[q].user <= made
      BY <3>1, <3>2, GoesTyped
    <3> QED BY <3>0, <3>3
  <2>8. CASE Fails(r)
    BY <2>8, BreaksKeeps DEF Fails
  <2> QED BY <1>6, <2>1, <2>2, <2>3, <2>4, <2>5, <2>6, <2>7, <2>8 DEF Handler
<1>7. ASSUME NEW r \in Requests, Returns(r)
      PROVE  SignInTypes'
  BY <1>7, IdleTyped, GoesTyped DEF Returns
<1>8. ASSUME NEW r \in Requests, NEW s \in Slots, Callback(r, s)
      PROVE  SignInTypes'
  <2>0. state' \in [Slots -> {"none", "fresh", "consumed", "expired"}]
        /\ UNCHANGED <<directory, made, account, bearers>>
    BY <1>8 DEF Callback
  <2> DEFINE to == [Idle EXCEPT !.at = "exchange", !.slot = s]
  <2>1. to \in Callbacks /\ to.user <= made
    <3>1. s \in Slots \cup {"none"}
      OBVIOUS
    <3>2. to \in Callbacks /\ to.user = 0
      BY <3>1, IdleWith, Zenon
    <3> QED BY <3>2
  <2>2. Goes(r, to)
    BY <1>8 DEF Callback
  <2> HIDE DEF to
  <2>3. req' \in [Requests -> Callbacks] /\ \A q \in Requests : req'[q].user <= made
    BY <2>1, <2>2, GoesTyped
  <2> QED BY <2>0, <2>3
<1> QED BY <1>1, <1>2, <1>3, <1>4, <1>5, <1>6, <1>7, <1>8 DEF Next

---------------------------------------------------------------------------
(* A slot and its callback                                                *)

\* A handler that goes on, or answers without a bearer, keeps its slot to itself.
LEMMA SlotsCarried ==
  ASSUME SignInTypes, SlotsHeld, NEW r \in Requests, Running(r), ~At(r, "over"), NEW to,
         Goes(r, to), to.slot = req[r].slot, to.at # "idle", UNCHANGED <<state, bearers>>
  PROVE  SlotsHeld'
<1>1. \A q \in Requests : req'[q] = IF q = r THEN to ELSE req[q]
  BY DEF SignInTypes, Goes
<1> QED BY <1>1 DEF SlotsHeld, Running, At

\* What a handler that throws leaves: its slot.
LEMMA BreaksShape ==
  ASSUME NEW r \in Requests, Breaks(r)
  PROVE  \E to : Goes(r, to) /\ to.slot = req[r].slot /\ to.at = "over" /\ to.said = "error"
<1> DEFINE to == [Idle EXCEPT !.at = "over", !.slot = req[r].slot, !.said = "error"]
<1>1. to.slot = req[r].slot /\ to.at = "over" /\ to.said = "error"
  BY DEF Idle
<1>2. Goes(r, to)
  BY DEF Breaks
<1> HIDE DEF to
<1> QED BY <1>1, <1>2

\* What a handler that refuses leaves of its slot.
LEMMA RefusedShape ==
  ASSUME SignInTypes, NEW r \in Requests, NEW code, Refused(r, code)
  PROVE  \E to : Goes(r, to) /\ to.slot = req[r].slot /\ to.at = "over"
<1>1. CASE Goes(r, Over(r, code))
  <2>1. req[r] \in Callbacks
    BY DEF SignInTypes
  <2>2. Over(r, code).slot = req[r].slot /\ Over(r, code).at = "over"
    BY <2>1 DEF Callbacks, Over
  <2> QED BY <1>1, <2>2
<1> QED BY <1>1, BreaksShape DEF Refused

\* A step of the handler keeps the slot.
LEMMA HandlerShape ==
  ASSUME SignInTypes, NEW r \in Requests, Handler(r)
  PROVE  /\ Running(r) /\ ~At(r, "over") /\ state' = state
         /\ \E to : Goes(r, to) /\ to.slot = req[r].slot /\ to.at # "idle"
         /\ Mint(r) \/ bearers' = bearers
<1>0. req[r] \in Callbacks
  BY DEF SignInTypes
<1>1. CASE Exchange(r)
  <2> DEFINE to == [req[r] EXCEPT !.at = "find", !.claims = directory]
  <2>1. to.slot = req[r].slot /\ to.at # "idle"
    BY <1>0 DEF Callbacks
  <2> QED BY <1>1, <2>1 DEF Exchange, Running, At
<1>2. CASE Find(r)
  <2> DEFINE d == Decide(req[r].claims, Unasked)
  <2>1. Running(r) /\ ~At(r, "over") /\ UNCHANGED <<state, bearers>>
    BY <1>2 DEF Find, Running, At
  <2>2. \E to : Goes(r, to) /\ to.slot = req[r].slot /\ to.at # "idle"
    <3>1. CASE \E code : Refused(r, code)
      BY <3>1, RefusedShape
    <3>2. CASE Goes(r, [req[r] EXCEPT !.at = "load", !.user = account.id])
      <4>1. /\ [req[r] EXCEPT !.at = "load", !.user = account.id].slot = req[r].slot
            /\ [req[r] EXCEPT !.at = "load", !.user = account.id].at # "idle"
        BY <1>0 DEF Callbacks
      <4> QED BY <3>2, <4>1
    <3>3. CASE Goes(r, [req[r] EXCEPT !.at = "create", !.role = d.role])
      <4>1. /\ [req[r] EXCEPT !.at = "create", !.role = d.role].slot = req[r].slot
            /\ [req[r] EXCEPT !.at = "create", !.role = d.role].at # "idle"
        BY <1>0 DEF Callbacks
      <4> QED BY <3>3, <4>1
    <3> QED BY <1>2, <3>1, <3>2, <3>3 DEF Find
  <2> QED BY <2>1, <2>2
<1>3. CASE Load(r)
  <2> DEFINE d == Decide(req[r].claims,
                     IF /\ account.id = req[r].user
                        /\ Decide(req[r].claims, Unasked).tenant = DefaultTenant
                     THEN DefaultTenant ELSE Nowhere)
             at == IF account.role \in Roles \ {d.role} THEN "resync" ELSE "mint"
             to == [req[r] EXCEPT !.at = at,
                     !.role = IF account.role \in Roles THEN d.role ELSE NoRole]
  <2>1. Running(r) /\ ~At(r, "over") /\ UNCHANGED <<state, bearers>>
    BY <1>3 DEF Load, Running, At
  <2>2. Refused(r, d.code) \/ Goes(r, to)
    BY <1>3 DEF Load
  <2>3. to.slot = req[r].slot /\ to.at # "idle"
    BY <1>0 DEF Callbacks
  <2> QED BY <2>1, <2>2, <2>3, RefusedShape
<1>4. CASE Resync(r)
  <2> DEFINE to == [req[r] EXCEPT !.at = "trace", !.user = req[r].user]
  <2>1. Running(r) /\ ~At(r, "over") /\ UNCHANGED <<state, bearers>>
    BY <1>4 DEF Resync, Running, At
  <2>2. Breaks(r) \/ Goes(r, to)
    BY <1>4 DEF Resync, Stored
  <2>3. to.slot = req[r].slot /\ to.at # "idle"
    BY <1>0 DEF Callbacks
  <2> QED BY <2>1, <2>2, <2>3, BreaksShape
<1>5. CASE Create(r)
  <2> DEFINE to == [req[r] EXCEPT !.at = "trace", !.user = made']
  <2>1. Running(r) /\ ~At(r, "over") /\ UNCHANGED <<state, bearers>>
    BY <1>5 DEF Create, Running, At
  <2>2. Breaks(r) \/ Goes(r, to)
    BY <1>5 DEF Create, Stored
  <2>3. to.slot = req[r].slot /\ to.at # "idle"
    BY <1>0 DEF Callbacks
  <2> QED BY <2>1, <2>2, <2>3, BreaksShape
<1>6. CASE Trace(r)
  <2> DEFINE to == [req[r] EXCEPT !.at = "mint"]
  <2>1. Running(r) /\ ~At(r, "over") /\ UNCHANGED <<state, bearers>>
    BY <1>6 DEF Trace, Running, At
  <2>2. Breaks(r) \/ Goes(r, to)
    BY <1>6 DEF Trace
  <2>3. to.slot = req[r].slot /\ to.at # "idle"
    BY <1>0 DEF Callbacks
  <2> QED BY <2>1, <2>2, <2>3, BreaksShape
<1>7. CASE Mint(r)
  <2> DEFINE to == [req[r] EXCEPT !.at = "over", !.said = "bearer"]
  <2>1. Running(r) /\ ~At(r, "over") /\ state' = state
    BY <1>7 DEF Mint, Running, At
  <2>2. Goes(r, to)
    BY <1>7 DEF Mint, Over
  <2>3. to.slot = req[r].slot /\ to.at # "idle"
    BY <1>0 DEF Callbacks
  <2> QED BY <1>7, <2>1, <2>2, <2>3
<1>8. CASE Fails(r)
  <2>1. Running(r) /\ ~At(r, "over") /\ UNCHANGED <<state, bearers>>
    BY <1>8 DEF Fails, Running, At
  <2> QED BY <1>8, <2>1, BreaksShape DEF Fails
<1> QED BY <1>1, <1>2, <1>3, <1>4, <1>5, <1>6, <1>7, <1>8 DEF Handler

\* Every step keeps a slot with its one callback, and its bearer the last thing it gets.
LEMMA SlotsKept ==
  ASSUME SignInTypes, SlotsHeld, [Next]_vars
  PROVE  SlotsHeld'
<1>1. CASE UNCHANGED vars \/ Moves \/ SignsUp \/ Deletes
  BY <1>1 DEF vars, Moves, SignsUp, Deletes, SlotsHeld, Running, At
<1>2. ASSUME NEW s \in Slots, Starts(s)
      PROVE  SlotsHeld'
  <2>1. \A r \in Requests : Running(r) => req[r].slot # s
    BY <1>2 DEF Starts, Running
  <2>2. /\ \A x \in Slots : state'[x] = IF x = s THEN "fresh" ELSE state[x]
        /\ \A x \in Slots : bearers'[x] = IF x = s THEN 0 ELSE bearers[x]
        /\ req' = req
    BY <1>2 DEF Starts, SignInTypes
  <2> QED BY <2>1, <2>2 DEF SlotsHeld, Running, At
<1>3. ASSUME NEW s \in Slots, Expires(s)
      PROVE  SlotsHeld'
  <2>1. state[s] = "fresh" /\ \A x \in Slots : state'[x] = IF x = s THEN "expired" ELSE state[x]
    BY <1>3 DEF Expires, SignInTypes
  <2> QED BY <1>3, <2>1 DEF Expires, SlotsHeld, Running, At
<1>4. ASSUME NEW r \in Requests, Handler(r), bearers' = bearers
      PROVE  SlotsHeld'
  BY <1>4, HandlerShape, SlotsCarried
<1>5. ASSUME NEW r \in Requests, Mint(r)
      PROVE  SlotsHeld'
  <2> DEFINE to == [req[r] EXCEPT !.at = "over", !.said = "bearer"]
             s == req[r].slot
  <2>1. to.slot = s /\ to.at = "over"
    BY DEF SignInTypes, Callbacks
  <2>2. \A q \in Requests : req'[q] = IF q = r THEN to ELSE req[q]
    BY <1>5 DEF Mint, Over, Goes, SignInTypes
  <2>3. s \in Slots /\ bearers[s] = 0 /\ At(r, "mint")
    BY <1>5 DEF Mint, SlotsHeld, Running, At
  <2>4. \A x \in Slots : bearers'[x] = IF x = s THEN 1 ELSE bearers[x]
    BY <1>5, <2>3 DEF Mint, SignInTypes
  <2>5. state' = state /\ state[s] = "consumed"
    BY <1>5, <2>3 DEF Mint, SlotsHeld, Running, At
  <2> HIDE DEF to, s
  <2> QED BY <2>1, <2>2, <2>3, <2>4, <2>5 DEF SlotsHeld, Running, At, s
<1>6. ASSUME NEW r \in Requests, Returns(r)
      PROVE  SlotsHeld'
  <2>1. \A q \in Requests : req'[q] = IF q = r THEN Idle ELSE req[q]
    BY <1>6 DEF Returns, Goes, SignInTypes
  <2>2. Idle.at = "idle"
    BY DEF Idle
  <2> QED BY <1>6, <2>1, <2>2 DEF Returns, SlotsHeld, Running, At
<1>7. ASSUME NEW r \in Requests, NEW s \in Slots, Callback(r, s)
      PROVE  SlotsHeld'
  <2> DEFINE to == [Idle EXCEPT !.at = "exchange", !.slot = s]
  <2>1. to.slot = s /\ to.at = "exchange"
    BY DEF Idle
  <2>2. \A q \in Requests : req'[q] = IF q = r THEN to ELSE req[q]
    BY <1>7 DEF Callback, Goes, SignInTypes
  <2>3. \A x \in Slots : state'[x] = IF x = s THEN "consumed" ELSE state[x]
    BY <1>7 DEF Callback, SignInTypes
  <2>4. state[s] = "fresh" /\ bearers[s] = 0 /\ bearers' = bearers
    BY <1>7 DEF Callback, SlotsHeld
  <2>5. \A q \in Requests : Running(q) => req[q].slot # s
    BY <2>4 DEF SlotsHeld
  <2> HIDE DEF to
  <2> QED BY <2>1, <2>2, <2>3, <2>4, <2>5 DEF SlotsHeld, Running, At
<1> QED BY <1>1, <1>2, <1>3, <1>4, <1>5, <1>6, <1>7, HandlerShape DEF Next

---------------------------------------------------------------------------
(* The audit log                                                          *)

\* Whose audit row is written, lost, or still to be written.
LEMMA HeldElsewhere ==
  ASSUME SignInTypes, RoleTraced, NEW r \in Requests, NEW to, Goes(r, to), ~At(r, "trace"),
         account' = account, audit \subseteq audit', lost \subseteq lost'
  PROVE  RoleTraced'
<1>1. \A q \in Requests : req'[q] = IF q = r THEN to ELSE req[q]
  BY DEF SignInTypes, Goes
<1> QED BY <1>1 DEF RoleTraced, At

\* Every step keeps the role traced.
LEMMA TracedKept ==
  ASSUME SignInTypes, RoleTraced, [Next]_vars
  PROVE  RoleTraced'
<1>1. CASE UNCHANGED vars \/ Moves
  BY <1>1 DEF vars, Moves, RoleTraced, At
<1>2. CASE SignsUp \/ Deletes
  <2>1. account'.role = NoRole
    BY <1>2 DEF SignsUp, Deletes
  <2> QED BY <2>1 DEF RoleTraced
<1>3. ASSUME NEW s \in Slots, Starts(s) \/ Expires(s)
      PROVE  RoleTraced'
  BY <1>3 DEF Starts, Expires, RoleTraced, At
<1>4. ASSUME NEW r \in Requests, Handler(r), ~Resync(r), ~Create(r), ~Trace(r)
      PROVE  RoleTraced'
  <2>1. ~At(r, "trace") /\ UNCHANGED <<account, audit, lost>>
    BY <1>4 DEF Handler, Exchange, Find, Load, Mint, Fails, At
  <2> QED BY <1>4, <2>1, HandlerShape, HeldElsewhere
<1>5. ASSUME NEW r \in Requests, Stored(r, account'.id), account'.role = req[r].role, audit' = audit
      PROVE  RoleTraced'
  <2>1. CASE lost' = lost \cup {<<account'.id, req[r].role>>}
    BY <1>5, <2>1 DEF RoleTraced
  <2>2. CASE Goes(r, [req[r] EXCEPT !.at = "trace", !.user = account'.id])
    <3>1. req'[r] = [req[r] EXCEPT !.at = "trace", !.user = account'.id]
      BY <2>2 DEF Goes, SignInTypes
    <3>2. req'[r].at = "trace" /\ req'[r].user = account'.id /\ req'[r].role = account'.role
      BY <1>5, <3>1 DEF SignInTypes, Callbacks
    <3> QED BY <3>2 DEF RoleTraced, At
  <2> QED BY <1>5, <2>1, <2>2 DEF Stored
<1>6. ASSUME NEW r \in Requests, Resync(r)
      PROVE  RoleTraced'
  <2>1. CASE account.id = req[r].user
    <3>1. account' = [account EXCEPT !.role = req[r].role]
      BY <1>6, <2>1 DEF Resync
    <3>2. account'.id = req[r].user /\ account'.role = req[r].role
      BY <2>1, <3>1 DEF SignInTypes
    <3> QED BY <1>5, <1>6, <3>2 DEF Resync
  <2>2. CASE account.id # req[r].user
    <3>1. account' = account /\ audit' = audit /\ lost \subseteq lost' /\ ~At(r, "trace")
      BY <1>6, <2>2 DEF Resync, Stored, At
    <3>2. \E to : Goes(r, to)
      BY <1>6, HandlerShape DEF Handler
    <3> QED BY <3>1, <3>2, HeldElsewhere
  <2> QED BY <2>1, <2>2
<1>7. ASSUME NEW r \in Requests, Create(r)
      PROVE  RoleTraced'
  <2>1. account' = [id |-> made', role |-> req[r].role]
    BY <1>7 DEF Create
  <2>2. account'.id = made' /\ account'.role = req[r].role
    BY <2>1
  <2> QED BY <1>5, <1>7, <2>2 DEF Create
<1>8. ASSUME NEW r \in Requests, Trace(r)
      PROVE  RoleTraced'
  <2> DEFINE change == <<req[r].user, req[r].role>>
  <2>1. /\ account' = account /\ audit \subseteq audit' /\ lost \subseteq lost'
        /\ change \in audit' \cup lost'
    BY <1>8 DEF Trace
  <2>2. PICK to : Goes(r, to)
    BY <1>8, HandlerShape DEF Handler
  <2>3. \A q \in Requests : q # r => req'[q] = req[q]
    BY <2>2 DEF SignInTypes, Goes
  <2> QED BY <2>1, <2>3 DEF RoleTraced, At
<1>9. ASSUME NEW r \in Requests, Returns(r) \/ \E s \in Slots : Callback(r, s)
      PROVE  RoleTraced'
  <2>1. ~At(r, "trace") /\ UNCHANGED <<account, audit, lost>>
    BY <1>9 DEF Returns, Callback, At
  <2>2. \E to : Goes(r, to)
    BY <1>9 DEF Returns, Callback
  <2> QED BY <2>1, <2>2, HeldElsewhere
<1> QED BY <1>1, <1>2, <1>3, <1>4, <1>6, <1>7, <1>8, <1>9 DEF Next

---------------------------------------------------------------------------
(* The outcomes                                                           *)

\* A cause stays one: an id that was given is not given again.
LEMMA CauseStays ==
  ASSUME SignInTypes, NEW code \in Codes, NEW claims, NEW user \in Nat, user <= made,
         Cause(code, claims, user),
         account'.id \in {account.id, NoUser, made + 1}
  PROVE  Cause(code, claims, user)'
<1>1. CASE code = "forbidden_tenant_mismatch"
  <2>1. account.id # user => account'.id # user \/ user = NoUser
    BY DEF SignInTypes, NoUser
  <2> QED BY <1>1, <2>1 DEF Cause
<1>2. CASE code # "forbidden_tenant_mismatch"
  BY <1>2 DEF Cause, Codes
<1> QED BY <1>1, <1>2

\* The account after a step.
LEMMA AccountMoves ==
  ASSUME SignInTypes, [Next]_vars
  PROVE  account'.id \in {account.id, NoUser, made + 1}
<1>1. CASE UNCHANGED vars \/ Moves \/ SignsUp \/ Deletes
  BY <1>1 DEF vars, Moves, SignsUp, Deletes
<1>2. ASSUME NEW s \in Slots, Starts(s) \/ Expires(s)
      PROVE  account' = account
  BY <1>2 DEF Starts, Expires
<1>3. ASSUME NEW r \in Requests, Returns(r) \/ \E s \in Slots : Callback(r, s)
      PROVE  account' = account
  BY <1>3 DEF Returns, Callback
<1>4. ASSUME NEW r \in Requests, Handler(r), ~Resync(r), ~Create(r)
      PROVE  account' = account
  BY <1>4 DEF Handler, Exchange, Find, Load, Trace, Mint, Fails
<1>5. ASSUME NEW r \in Requests, Resync(r)
      PROVE  account'.id = account.id
  BY <1>5 DEF Resync, SignInTypes
<1>6. ASSUME NEW r \in Requests, Create(r)
      PROVE  account'.id = made + 1
  BY <1>6 DEF Create
<1> QED BY <1>1, <1>2, <1>3, <1>4, <1>5, <1>6 DEF Next

\* Who does not move keeps its outcome.
LEMMA OutcomeCarried ==
  ASSUME SignInTypes, NEW q \in Requests, Outcome(q), req'[q] = req[q],
         account'.id \in {account.id, NoUser, made + 1}
  PROVE  Outcome(q)'
<1>1. req[q].user \in Nat /\ req[q].user <= made
  BY DEF SignInTypes, Callbacks
<1>2. At(q, "over") /\ req[q].said \in Codes => Cause(req[q].said, req[q].claims, req[q].user)'
  BY <1>1, CauseStays DEF Outcome
<1> QED BY <1>2 DEF Outcome, LetInAs, LetInBare, At

\* Whoever moves, the others keep theirs.
LEMMA OneMoves ==
  ASSUME SignInTypes, Outcomes, [Next]_vars, NEW r \in Requests, NEW to, Goes(r, to), Outcome(r)'
  PROVE  Outcomes'
<1>1. \A q \in Requests : q # r => req'[q] = req[q]
  BY DEF SignInTypes, Goes
<1> QED BY <1>1, AccountMoves, OutcomeCarried DEF Outcomes

\* A handler that throws promises nothing.
LEMMA BreaksOutcome ==
  ASSUME SignInTypes, NEW r \in Requests, Breaks(r)
  PROVE  Outcome(r)'
<1>1. PICK to : Goes(r, to) /\ to.at = "over" /\ to.said = "error"
  BY BreaksShape
<1>2. req'[r] = to
  BY <1>1 DEF SignInTypes, Goes
<1> QED BY <1>1, <1>2 DEF Outcome, At, Codes

\* One that refuses for a cause it has, keeps to the table.
LEMMA RefusedOutcome ==
  ASSUME SignInTypes, NEW r \in Requests, NEW code \in Codes, Refused(r, code), account' = account,
         Cause(code, req[r].claims, req[r].user)
  PROVE  Outcome(r)'
<1>1. CASE Goes(r, Over(r, code))
  <2> DEFINE to == [req[r] EXCEPT !.at = "over", !.said = code]
  <2>1. to.at = "over" /\ to.said = code /\ to.claims = req[r].claims /\ to.user = req[r].user
    BY DEF SignInTypes, Callbacks
  <2>2. req'[r] = to
    BY <1>1 DEF SignInTypes, Goes, Over
  <2> HIDE DEF to
  <2>3. Cause(req[r].said, req[r].claims, req[r].user)'
    BY <2>1, <2>2 DEF Cause
  <2>4. code # "bearer"
    BY DEF Codes
  <2> QED BY <2>1, <2>2, <2>3, <2>4 DEF Outcome, At
<1> QED BY <1>1, BreaksOutcome DEF Refused

\* The first decision: a refusal has its cause, a new user the role it is let in with.
LEMMA FindOutcome ==
  ASSUME SignInTypes, NEW r \in Requests, Find(r)
  PROVE  Outcome(r)'
<1> DEFINE c == req[r].claims
           d == Decide(c, Unasked)
<1>1. c \in Claims \cup {NoClaims} /\ req[r] \in Callbacks /\ account' = account
  BY DEF SignInTypes, Callbacks, Find
<1>2. CASE d.code # "ok"
  <2>1. d.code \in Codes /\ Cause(d.code, c, req[r].user)
    BY <1>1, <1>2, KeptOut, ConfigAssumption
  <2>2. Refused(r, d.code)
    BY <1>2 DEF Find
  <2> QED BY <1>1, <2>1, <2>2, RefusedOutcome
<1>3. CASE d.code = "ok" /\ account.id # NoUser
  <2> DEFINE to == [req[r] EXCEPT !.at = "load", !.user = account.id]
  <2>1. to.at = "load" /\ to.claims = c /\ to.user = account.id
    BY <1>1 DEF Callbacks
  <2>2. req'[r] = to
    BY <1>3 DEF SignInTypes, Goes, Find
  <2> HIDE DEF to
  <2> QED BY <1>3, <2>1, <2>2 DEF Outcome, At
<1>4. CASE d.code = "ok" /\ account.id = NoUser /\ d.tenant # DefaultTenant
  <2>1. Refused(r, "forbidden_tenant_mismatch")
    BY <1>4 DEF Find
  <2>2. c.key \in DOMAIN TenantMapping /\ TenantMapping[c.key] # DefaultTenant
    BY <1>1, <1>4, LetIn, ConfigAssumption, ClaimsAssumption
  <2>3. Cause("forbidden_tenant_mismatch", c, req[r].user)
    BY <2>2 DEF Cause
  <2>4. "forbidden_tenant_mismatch" \in Codes
    BY DEF Codes
  <2> QED BY <1>1, <2>1, <2>3, <2>4, RefusedOutcome
<1>5. CASE d.code = "ok" /\ account.id = NoUser /\ d.tenant = DefaultTenant
  <2> DEFINE to == [req[r] EXCEPT !.at = "create", !.role = d.role]
  <2>1. to.at = "create" /\ to.claims = c /\ to.role = d.role
    BY <1>1 DEF Callbacks
  <2>2. req'[r] = to
    BY <1>5 DEF SignInTypes, Goes, Find
  <2>3. d = Granted(DefaultTenant, d.role)
    BY <1>5 DEF Decide, Granted, Rejected
  <2> HIDE DEF to
  <2> QED BY <2>1, <2>2, <2>3 DEF Outcome, LetInAs, At
<1> QED BY <1>2, <1>3, <1>4, <1>5

\* Behind the second decision on a profile that the first let in.
LEMMA LoadOutcome ==
  ASSUME SignInTypes, NEW r \in Requests, Outcome(r), Load(r)
  PROVE  Outcome(r)'
<1> DEFINE c == req[r].claims
           first == Decide(c, Unasked)
           seen == account.id = req[r].user /\ first.tenant = DefaultTenant
           d == Decide(c, IF seen THEN DefaultTenant ELSE Nowhere)
<1>1. c \in Claims \cup {NoClaims} /\ req[r] \in Callbacks /\ account' = account
  BY DEF SignInTypes, Callbacks, Load
<1>2. first.code = "ok" /\ first.tenant # Nowhere /\ req[r].user # NoUser
  BY DEF Load, Outcome
<1>3. c.key \in DOMAIN TenantMapping /\ first.tenant = TenantMapping[c.key]
  BY <1>1, <1>2, LetIn, ConfigAssumption, ClaimsAssumption
<1>4. CASE seen
  <2>1. d = first
    BY <1>2, <1>3, <1>4, AskedAgain
  <2> DEFINE at == IF account.role \in Roles \ {d.role} THEN "resync" ELSE "mint"
             to == [req[r] EXCEPT !.at = at,
                     !.role = IF account.role \in Roles THEN d.role ELSE NoRole]
  <2>2. /\ to.claims = c /\ to.at \in {"resync", "mint"}
        /\ to.role = d.role \/ (to.role = NoRole /\ to.at = "mint")
    BY <1>1 DEF Callbacks
  <2>3. d.code = "ok"
    BY <1>2, <2>1
  <2>4. req'[r] = to
    BY <2>3 DEF SignInTypes, Goes, Load
  <2>5. first = Granted(DefaultTenant, first.role)
    BY <1>2, <1>4 DEF Decide, Granted, Rejected
  <2> HIDE DEF to, d, first
  <2>6. first.code = "ok" /\ first.tenant = DefaultTenant
    BY <1>2, <1>4
  <2> QED BY <2>1, <2>2, <2>4, <2>5, <2>6 DEF Outcome, LetInAs, LetInBare, At, first
<1>5. CASE ~seen
  <2>0. Nowhere \notin {Unasked, TenantMapping[c.key]}
    BY <1>2, <1>3 DEF Nowhere, Unasked
  <2>1. d.code = "forbidden_tenant_mismatch"
    <3>1. d = Decide(c, Nowhere)
      BY <1>5
    <3> QED BY <1>2, <2>0, <3>1, AskedAgain
  <2>2. Refused(r, "forbidden_tenant_mismatch")
    BY <2>1 DEF Load
  <2>3. Cause("forbidden_tenant_mismatch", c, req[r].user)
    BY <1>2, <1>3, <1>5 DEF Cause
  <2>4. "forbidden_tenant_mismatch" \in Codes
    BY DEF Codes
  <2> QED BY <1>1, <2>2, <2>3, <2>4, RefusedOutcome
<1> QED BY <1>4, <1>5

\* Every step of the handler keeps what it was let in with.
LEMMA HandlerOutcome ==
  ASSUME SignInTypes, NEW r \in Requests, Outcome(r), Handler(r)
  PROVE  Outcome(r)'
<1>1. req[r] \in Callbacks
  BY DEF SignInTypes
<1>2. CASE Exchange(r)
  <2> DEFINE to == [req[r] EXCEPT !.at = "find", !.claims = directory]
  <2>1. to.at = "find"
    BY <1>1 DEF Callbacks
  <2>2. req'[r] = to
    BY <1>2 DEF Exchange, Goes, SignInTypes
  <2> HIDE DEF to
  <2> QED BY <2>1, <2>2 DEF Outcome, At
<1>3. CASE Resync(r) \/ Create(r)
  <2>1. PICK id : Stored(r, id)
    BY <1>3 DEF Resync, Create
  <2>2. LetInAs(r)
    BY <1>3 DEF Resync, Create, At, Outcome
  <2>3. CASE Goes(r, [req[r] EXCEPT !.at = "trace", !.user = id])
    <3> DEFINE to == [req[r] EXCEPT !.at = "trace", !.user = id]
    <3>1. to.at = "trace" /\ to.claims = req[r].claims /\ to.role = req[r].role
      BY <1>1 DEF Callbacks
    <3>2. req'[r] = to
      BY <2>3 DEF Goes, SignInTypes
    <3> HIDE DEF to
    <3> QED BY <2>2, <3>1, <3>2 DEF Outcome, LetInAs, At
  <2> QED BY <2>1, <2>3, BreaksOutcome DEF Stored
<1>4. CASE Trace(r)
  <2>1. LetInAs(r)
    BY <1>4 DEF Trace, At, Outcome
  <2>2. CASE Goes(r, [req[r] EXCEPT !.at = "mint"])
    <3> DEFINE to == [req[r] EXCEPT !.at = "mint"]
    <3>1. to.at = "mint" /\ to.claims = req[r].claims /\ to.role = req[r].role
      BY <1>1 DEF Callbacks
    <3>2. req'[r] = to
      BY <2>2 DEF Goes, SignInTypes
    <3> HIDE DEF to
    <3> QED BY <2>1, <3>1, <3>2 DEF Outcome, LetInAs, At
  <2> QED BY <1>4, <2>2, BreaksOutcome DEF Trace
<1>5. CASE Mint(r)
  <2>1. LetInAs(r) \/ LetInBare(r)
    BY <1>5 DEF Mint, At, Outcome
  <2> DEFINE to == [req[r] EXCEPT !.at = "over", !.said = "bearer"]
  <2>2. /\ to.at = "over" /\ to.said = "bearer" /\ to.claims = req[r].claims
        /\ to.role = req[r].role
    BY <1>1 DEF Callbacks
  <2>3. req'[r] = to
    BY <1>5 DEF Mint, Over, Goes, SignInTypes
  <2> HIDE DEF to
  <2> QED BY <2>1, <2>2, <2>3 DEF Outcome, LetInAs, LetInBare, At, Codes
<1>6. CASE Fails(r)
  BY <1>6, BreaksOutcome DEF Fails
<1> QED BY <1>2, <1>3, <1>4, <1>5, <1>6, FindOutcome, LoadOutcome DEF Handler

\* Every step of anybody keeps every outcome.
LEMMA OutcomesKept ==
  ASSUME SignInTypes, Outcomes, [Next]_vars
  PROVE  Outcomes'
<1>1. CASE UNCHANGED req
  BY <1>1, AccountMoves, OutcomeCarried DEF Outcomes
<1>2. ASSUME NEW r \in Requests, Handler(r)
      PROVE  Outcomes'
  <2>1. Outcome(r)'
    BY <1>2, HandlerOutcome DEF Outcomes
  <2> QED BY <1>2, <2>1, HandlerShape, OneMoves
<1>3. ASSUME NEW r \in Requests, Returns(r)
      PROVE  Outcomes'
  <2>1. Goes(r, Idle)
    BY <1>3 DEF Returns
  <2>2. req'[r] = Idle
    BY <2>1 DEF Goes, SignInTypes
  <2>3. Outcome(r)'
    BY <2>2 DEF Outcome, At, Idle
  <2> QED BY <2>1, <2>3, OneMoves
<1>4. ASSUME NEW r \in Requests, NEW s \in Slots, Callback(r, s)
      PROVE  Outcomes'
  <2> DEFINE to == [Idle EXCEPT !.at = "exchange", !.slot = s]
  <2>1. Goes(r, to) /\ to.at = "exchange"
    BY <1>4 DEF Callback, Idle
  <2> HIDE DEF to
  <2>2. req'[r] = to
    BY <2>1 DEF Goes, SignInTypes
  <2>3. Outcome(r)'
    BY <2>1, <2>2 DEF Outcome, At
  <2> QED BY <2>1, <2>3, OneMoves
<1>5. UNCHANGED req \/ \E r \in Requests : Handler(r) \/ Returns(r) \/ \E s \in Slots : Callback(r, s)
  BY DEF Next, vars, Moves, SignsUp, Deletes, Starts, Expires
<1> QED BY <1>1, <1>2, <1>3, <1>4, <1>5

---------------------------------------------------------------------------
(* Users without a role                                                   *)

\* The role that a callback writes is one of the three.
LEMMA RoleWritten ==
  ASSUME SignInTypes, NEW r \in Requests, LetInAs(r)
  PROVE  req[r].role \in Roles
<1>1. req[r].claims \in Claims \cup {NoClaims}
  BY DEF SignInTypes, Callbacks
<1>2. Decide(req[r].claims, Unasked).code = "ok" /\ Decide(req[r].claims, Unasked).role = req[r].role
  BY DEF LetInAs, Granted
<1> QED BY <1>1, <1>2, DecisionTyped, ConfigAssumption, ClaimsAssumption

\* Where a callback goes on from the second decision.
LEMMA LoadGoes ==
  ASSUME SignInTypes, NEW r \in Requests, Outcome(r), Load(r), req'[r].at # "over"
  PROVE  /\ account.id = req[r].user /\ req'[r].user = req[r].user /\ req[r].user # NoUser
         /\ req'[r].at = "resync" => account.role \in Roles
         /\ req'[r].at \in {"resync", "mint"}
         /\ req'[r].role \in Roles \/ account.role = NoRole
<1> DEFINE c == req[r].claims
           first == Decide(c, Unasked)
           seen == account.id = req[r].user /\ first.tenant = DefaultTenant
           d == Decide(c, IF seen THEN DefaultTenant ELSE Nowhere)
           at == IF account.role \in Roles \ {d.role} THEN "resync" ELSE "mint"
           to == [req[r] EXCEPT !.at = at,
                   !.role = IF account.role \in Roles THEN d.role ELSE NoRole]
<1>1. c \in Claims \cup {NoClaims} /\ req[r] \in Callbacks
  BY DEF SignInTypes, Callbacks
<1>2. first.code = "ok" /\ first.tenant # Nowhere /\ req[r].user # NoUser
  BY DEF Load, Outcome
<1>3. c.key \in DOMAIN TenantMapping /\ first.tenant = TenantMapping[c.key]
  BY <1>1, <1>2, LetIn, ConfigAssumption, ClaimsAssumption
<1>4. ~Refused(r, d.code)
  <2> SUFFICES ASSUME Refused(r, d.code) PROVE req'[r].at = "over"
    OBVIOUS
  <2>1. PICK t : Goes(r, t) /\ t.at = "over"
    BY RefusedShape
  <2> QED BY <2>1 DEF Goes, SignInTypes
<1>5. d.code = "ok" /\ Goes(r, to)
  BY <1>4 DEF Load
<1>6. seen
  <2> SUFFICES ASSUME ~seen PROVE FALSE
    OBVIOUS
  <2>1. Nowhere \notin {Unasked, TenantMapping[c.key]}
    BY <1>2, <1>3 DEF Nowhere, Unasked
  <2>2. d = Decide(c, Nowhere)
    OBVIOUS
  <2> QED BY <1>2, <1>5, <2>1, <2>2, AskedAgain
<1>7. d.role \in Roles
  BY <1>1, <1>5, DecisionTyped, ConfigAssumption, ClaimsAssumption
<1>8. req'[r] = to
  BY <1>5 DEF Goes, SignInTypes
<1>9. account.role \in Roles \cup {NoRole}
  BY DEF SignInTypes
<1> HIDE DEF d
<1>10. /\ to.user = req[r].user /\ to.at = at
       /\ to.role = IF account.role \in Roles THEN d.role ELSE NoRole
  BY <1>1 DEF Callbacks
<1> QED BY <1>2, <1>6, <1>7, <1>8, <1>9, <1>10

\* The steps of the handler that are not about a role.
LEMMA StepsElsewhere ==
  ASSUME SignInTypes, NEW r \in Requests, Exchange(r) \/ Find(r) \/ Mint(r) \/ Fails(r)
  PROVE  \E to : Goes(r, to) /\ to.at \notin {"resync", "trace"}
<1>1. req[r] \in Callbacks
  BY DEF SignInTypes
<1>2. CASE Exchange(r)
  <2>1. [req[r] EXCEPT !.at = "find", !.claims = directory].at = "find"
    BY <1>1 DEF Callbacks
  <2> QED BY <1>2, <2>1 DEF Exchange
<1>3. CASE Find(r)
  <2> DEFINE d == Decide(req[r].claims, Unasked)
  <2>1. CASE Refused(r, d.code) \/ Refused(r, "forbidden_tenant_mismatch")
    BY <2>1, RefusedShape
  <2>2. CASE Goes(r, [req[r] EXCEPT !.at = "load", !.user = account.id])
    <3>1. [req[r] EXCEPT !.at = "load", !.user = account.id].at = "load"
      BY <1>1 DEF Callbacks
    <3> QED BY <2>2, <3>1
  <2>3. CASE Goes(r, [req[r] EXCEPT !.at = "create", !.role = d.role])
    <3>1. [req[r] EXCEPT !.at = "create", !.role = d.role].at = "create"
      BY <1>1 DEF Callbacks
    <3> QED BY <2>3, <3>1
  <2> QED BY <1>3, <2>1, <2>2, <2>3 DEF Find
<1>4. CASE Mint(r)
  <2>1. Over(r, "bearer").at = "over"
    BY <1>1 DEF Over, Callbacks
  <2> QED BY <1>4, <2>1 DEF Mint
<1>5. CASE Fails(r)
  BY <1>5, BreaksShape DEF Fails
<1> QED BY <1>2, <1>3, <1>4, <1>5

\* The second decision lets nobody in by itself.
LEMMA LoadSays ==
  ASSUME SignInTypes, NEW r \in Requests, Load(r), LetsIn(r)'
  PROVE  req'[r].at # "over"
<1> DEFINE d == Decide(req[r].claims,
                   IF /\ account.id = req[r].user
                      /\ Decide(req[r].claims, Unasked).tenant = DefaultTenant
                   THEN DefaultTenant ELSE Nowhere)
           at == IF account.role \in Roles \ {d.role} THEN "resync" ELSE "mint"
           to == [req[r] EXCEPT !.at = at,
                   !.role = IF account.role \in Roles THEN d.role ELSE NoRole]
<1>1. req[r] \in Callbacks
  BY DEF SignInTypes
<1>2. CASE Goes(r, to)
  <2>1. req'[r] = to
    BY <1>2 DEF Goes, SignInTypes
  <2>2. to.at = at
    BY <1>1 DEF Callbacks
  <2> HIDE DEF d
  <2> QED BY <2>1, <2>2
<1>3. CASE d.code # "ok" /\ Refused(r, d.code)
  <2>1. d.code \in Codes
    BY <1>1, <1>3, DecisionTyped, ConfigAssumption, ClaimsAssumption DEF Callbacks
  <2>2. CASE Breaks(r)
    <3>1. PICK t : Goes(r, t) /\ t.at = "over" /\ t.said = "error"
      BY <2>2, BreaksShape
    <3>2. req'[r] = t
      BY <3>1 DEF Goes, SignInTypes
    <3> QED BY <3>1, <3>2 DEF LetsIn, At
  <2>3. CASE Goes(r, Over(r, d.code))
    <3>1. req'[r] = Over(r, d.code)
      BY <2>3 DEF Goes, SignInTypes
    <3> HIDE DEF d
    <3>2. Over(r, d.code).said = d.code /\ Over(r, d.code).at = "over"
      BY <1>1 DEF Over, Callbacks
    <3> QED BY <2>1, <3>1, <3>2 DEF LetsIn, At, Codes
  <2> QED BY <1>3, <2>2, <2>3 DEF Refused
<1> QED BY <1>2, <1>3 DEF Load

\* The other steps let nobody in.
LEMMA LetsNobody ==
  ASSUME SignInTypes, NEW r \in Requests, ~Load(r), ~Mint(r),
         ~(Trace(r) /\ Goes(r, [req[r] EXCEPT !.at = "mint"])),
         Handler(r) \/ Returns(r) \/ \E s \in Slots : Callback(r, s)
  PROVE  ~LetsIn(r)'
<1>1. req[r] \in Callbacks
  BY DEF SignInTypes
<1>2. ASSUME NEW to, Goes(r, to), to.at # "mint", to.at = "over" => to.said # "bearer"
      PROVE  ~LetsIn(r)'
  <2>1. req'[r] = to
    BY <1>2 DEF Goes, SignInTypes
  <2> QED BY <1>2, <2>1 DEF LetsIn, At
<1>3. CASE Breaks(r)
  <2>1. PICK to : Goes(r, to) /\ to.at = "over" /\ to.said = "error"
    BY <1>3, BreaksShape
  <2> QED BY <1>2, <2>1
<1>4. ASSUME NEW code \in Codes, Refused(r, code) PROVE ~LetsIn(r)'
  <2>1. Over(r, code).at = "over" /\ Over(r, code).said = code /\ code # "bearer"
    BY <1>1 DEF Over, Callbacks, Codes
  <2> QED BY <1>2, <1>3, <1>4, <2>1 DEF Refused
<1>5. CASE Exchange(r)
  <2>1. [req[r] EXCEPT !.at = "find", !.claims = directory].at = "find"
    BY <1>1 DEF Callbacks
  <2> QED BY <1>2, <1>5, <2>1 DEF Exchange
<1>6. CASE Find(r)
  <2> DEFINE d == Decide(req[r].claims, Unasked)
  <2>1. d.code # "ok" => d.code \in Codes
    BY <1>1, DecisionTyped, ConfigAssumption, ClaimsAssumption DEF Callbacks
  <2>2. "forbidden_tenant_mismatch" \in Codes
    BY DEF Codes
  <2>3. CASE Goes(r, [req[r] EXCEPT !.at = "load", !.user = account.id])
    <3>1. [req[r] EXCEPT !.at = "load", !.user = account.id].at = "load"
      BY <1>1 DEF Callbacks
    <3> QED BY <1>2, <2>3, <3>1
  <2>4. CASE Goes(r, [req[r] EXCEPT !.at = "create", !.role = d.role])
    <3>1. [req[r] EXCEPT !.at = "create", !.role = d.role].at = "create"
      BY <1>1 DEF Callbacks
    <3> QED BY <1>2, <2>4, <3>1
  <2> QED BY <1>4, <1>6, <2>1, <2>2, <2>3, <2>4 DEF Find
<1>7. CASE Resync(r) \/ Create(r)
  <2>1. PICK id : Stored(r, id)
    BY <1>7 DEF Resync, Create
  <2>2. CASE Goes(r, [req[r] EXCEPT !.at = "trace", !.user = id])
    <3>1. [req[r] EXCEPT !.at = "trace", !.user = id].at = "trace"
      BY <1>1 DEF Callbacks
    <3> QED BY <1>2, <2>2, <3>1
  <2> QED BY <1>3, <2>1, <2>2 DEF Stored
<1>8. CASE Trace(r) \/ Fails(r)
  BY <1>3, <1>8 DEF Trace, Fails
<1>9. CASE Returns(r)
  BY <1>2, <1>9 DEF Returns, Idle
<1>10. ASSUME NEW s \in Slots, Callback(r, s) PROVE ~LetsIn(r)'
  <2>1. [Idle EXCEPT !.at = "exchange", !.slot = s].at = "exchange"
    BY DEF Idle
  <2> QED BY <1>2, <1>10, <2>1 DEF Callback
<1> QED BY <1>5, <1>6, <1>7, <1>8, <1>9, <1>10 DEF Handler

\* Whoever is let in was so before, or has had its role written.
LEMMA LetsInFrom ==
  ASSUME SignInTypes, Outcomes, [Next]_vars, NEW r \in Requests, LetsIn(r)', ~Load(r),
         req'[r].role = NoRole
  PROVE  \/ LetsIn(r) /\ req[r].role = NoRole /\ req'[r].user = req[r].user
         \/ LetInAs(r) /\ req'[r].role = req[r].role
<1>0. req[r] \in Callbacks
  BY DEF SignInTypes
<1>1. CASE req'[r] = req[r]
  BY <1>1 DEF LetsIn, At
<1>2. CASE req'[r] # req[r]
  <2>1. Handler(r) \/ Returns(r) \/ \E s \in Slots : Callback(r, s)
    <3>1. ASSUME NEW q \in Requests, q # r, NEW to, Goes(q, to)
          PROVE  FALSE
      BY <1>2, <3>1 DEF Goes, SignInTypes
    <3>2. UNCHANGED req \/ \E q \in Requests : Handler(q) \/ Returns(q) \/ \E s \in Slots : Callback(q, s)
      BY DEF Next, vars, Moves, SignsUp, Deletes, Starts, Expires
    <3>3. \A q \in Requests : (Handler(q) \/ Returns(q) \/ \E s \in Slots : Callback(q, s)) =>
            \E to : Goes(q, to)
      BY HandlerShape DEF Returns, Callback
    <3> QED BY <1>2, <3>1, <3>2, <3>3
  <2>2. CASE Mint(r)
    <3>1. req'[r] = Over(r, "bearer")
      BY <2>2 DEF Mint, Goes, SignInTypes
    <3>2. Over(r, "bearer").user = req[r].user /\ Over(r, "bearer").role = req[r].role
      BY <1>0 DEF Over, Callbacks
    <3> QED BY <2>2, <3>1, <3>2 DEF Mint, LetsIn
  <2>3. CASE Trace(r) /\ Goes(r, [req[r] EXCEPT !.at = "mint"])
    <3>1. LetInAs(r)
      BY <2>3 DEF Trace, At, Outcomes, Outcome
    <3>2. req'[r] = [req[r] EXCEPT !.at = "mint"]
      BY <2>3 DEF Goes, SignInTypes
    <3>3. [req[r] EXCEPT !.at = "mint"].role = req[r].role
      BY <1>0 DEF Callbacks
    <3> QED BY <3>1, <3>2, <3>3
  <2>4. CASE ~Mint(r) /\ ~(Trace(r) /\ Goes(r, [req[r] EXCEPT !.at = "mint"]))
    <3>1. ~LetsIn(r)'
      BY <2>1, <2>4, LetsNobody
    <3> QED BY <3>1
  <2> QED BY <2>2, <2>3, <2>4
<1> QED BY <1>1, <1>2

\* An id that is given, and whose role nobody writes, stays one.
LEMMA UnwrittenKept ==
  ASSUME SignInTypes, Outcomes, [Next]_vars, NEW u \in Nat, Unwritten(u)
  PROVE  Unwritten(u)'
<1> USE DEF Unwritten, NeverGiven
<1>1. CASE UNCHANGED vars \/ Moves
  BY <1>1 DEF vars, Moves
<1>2. CASE SignsUp \/ Deletes
  BY <1>2 DEF SignsUp, Deletes, SignInTypes, NoUser
<1>3. ASSUME NEW s \in Slots, Starts(s) \/ Expires(s)
      PROVE  Unwritten(u)'
  BY <1>3 DEF Starts, Expires
<1>4. ASSUME NEW r \in Requests, NEW to, Goes(r, to), to.at \notin {"resync", "trace"},
             UNCHANGED <<account, audit, made>>,
             \A change \in lost' : change \in lost \/ change[1] # u
      PROVE  Unwritten(u)'
  <2>1. \A q \in Requests : req'[q] = IF q = r THEN to ELSE req[q]
    BY <1>4 DEF Goes, SignInTypes
  <2> QED BY <1>4, <2>1
<1>5. ASSUME NEW r \in Requests, Exchange(r) \/ Find(r) \/ Mint(r) \/ Fails(r)
      PROVE  Unwritten(u)'
  <2>1. UNCHANGED <<account, audit, made, lost>>
    BY <1>5 DEF Exchange, Find, Mint, Fails
  <2>2. PICK to : Goes(r, to) /\ to.at \notin {"resync", "trace"}
    BY <1>5, StepsElsewhere
  <2> QED BY <1>4, <2>1, <2>2
<1>6. ASSUME NEW r \in Requests, Load(r)
      PROVE  Unwritten(u)'
  <2>1. UNCHANGED <<account, audit, made, lost>> /\ Outcome(r)
    BY <1>6 DEF Load, Outcomes
  <2>2. PICK to : Goes(r, to)
    BY <1>6, HandlerShape DEF Handler
  <2>3. \A q \in Requests : req'[q] = IF q = r THEN to ELSE req[q]
    BY <2>2 DEF Goes, SignInTypes
  <2>4. req'[r].at \in {"resync", "trace"} => req'[r].user # u
    BY <1>6, <2>1, LoadGoes DEF Roles, NoRole
  <2> QED BY <2>1, <2>3, <2>4
<1>7. ASSUME NEW r \in Requests, NEW id \in Nat, Stored(r, id), id # u,
             account'.id = u => account' = account,
             made' >= made, audit' = audit, made' \in Nat
      PROVE  Unwritten(u)'
  <2>1. CASE Goes(r, [req[r] EXCEPT !.at = "trace", !.user = id]) /\ UNCHANGED lost
    <3> DEFINE to == [req[r] EXCEPT !.at = "trace", !.user = id]
    <3>1. to.user = id
      BY DEF SignInTypes, Callbacks
    <3>2. \A q \in Requests : req'[q] = IF q = r THEN to ELSE req[q]
      BY <2>1 DEF Goes, SignInTypes
    <3> HIDE DEF to
    <3> QED BY <1>7, <2>1, <3>1, <3>2 DEF SignInTypes
  <2>2. CASE Breaks(r) /\ lost' = lost \cup {<<id, req[r].role>>}
    <3>1. PICK to : Goes(r, to) /\ to.at = "over"
      BY <2>2, BreaksShape
    <3>2. \A q \in Requests : req'[q] = IF q = r THEN to ELSE req[q]
      BY <3>1 DEF Goes, SignInTypes
    <3> QED BY <1>7, <2>2, <3>1, <3>2 DEF SignInTypes
  <2> QED BY <1>7, <2>1, <2>2 DEF Stored
<1>8. ASSUME NEW r \in Requests, Resync(r)
      PROVE  Unwritten(u)'
  <2>1. req[r].user # u /\ req[r].user \in Nat
    BY <1>8 DEF Resync, At, SignInTypes, Callbacks
  <2>2. account'.id = u => account' = account
    BY <1>8, <2>1 DEF Resync, SignInTypes
  <2> QED BY <1>7, <1>8, <2>1, <2>2 DEF Resync, SignInTypes
<1>9. ASSUME NEW r \in Requests, Create(r)
      PROVE  Unwritten(u)'
  <2>1. made' = made + 1 /\ made \in Nat /\ account'.id = made' /\ Stored(r, made') /\ audit' = audit
    BY <1>9 DEF Create, SignInTypes
  <2> QED BY <1>7, <2>1
<1>10. ASSUME NEW r \in Requests, Trace(r)
       PROVE  Unwritten(u)'
  <2>1. req[r].user # u /\ UNCHANGED <<account, made>>
    BY <1>10 DEF Trace, At
  <2>2. \A change \in (audit \cup lost)' : change \in audit \cup lost \/ change[1] # u
    BY <1>10, <2>1 DEF Trace
  <2>3. PICK to : Goes(r, to) /\ to.at \in {"mint", "over"}
    <3>1. CASE Breaks(r)
      BY <3>1, BreaksShape
    <3>2. CASE Goes(r, [req[r] EXCEPT !.at = "mint"])
      <4>1. [req[r] EXCEPT !.at = "mint"].at = "mint"
        BY DEF SignInTypes, Callbacks
      <4> QED BY <3>2, <4>1
    <3> QED BY <1>10, <3>1, <3>2 DEF Trace
  <2>4. \A q \in Requests : req'[q] = IF q = r THEN to ELSE req[q]
    BY <2>3 DEF Goes, SignInTypes
  <2> QED BY <2>1, <2>2, <2>3, <2>4
<1>11. ASSUME NEW r \in Requests, Returns(r) \/ \E s \in Slots : Callback(r, s)
       PROVE  Unwritten(u)'
  <2>1. UNCHANGED <<account, audit, made, lost>>
    BY <1>11 DEF Returns, Callback
  <2>2. \E to : Goes(r, to) /\ to.at \notin {"resync", "trace"}
    <3>1. CASE Returns(r)
      BY <3>1 DEF Returns, Idle
    <3>2. ASSUME NEW s \in Slots, Callback(r, s)
          PROVE  \E to : Goes(r, to) /\ to.at \notin {"resync", "trace"}
      <4>1. [Idle EXCEPT !.at = "exchange", !.slot = s].at = "exchange"
        BY DEF Idle
      <4> QED BY <3>2, <4>1 DEF Callback
    <3> QED BY <1>11, <3>1, <3>2
  <2> QED BY <1>4, <2>1, <2>2
<1> QED BY <1>1, <1>2, <1>3, <1>5, <1>6, <1>8, <1>9, <1>10, <1>11 DEF Next, Handler

\* Every step keeps it that a null role was never written.
LEMMA BareKept ==
  ASSUME SignInTypes, SignInTypes', Outcomes, Bare, [Next]_vars
  PROVE  Bare'
<1>0. made \in Nat /\ made' \in Nat /\ made <= made' /\ account.id \in Nat /\ account'.id \in Nat
  <2>1. made' = made \/ made' = made + 1
    BY DEF Next, vars, Moves, SignsUp, Deletes, Starts, Expires, Handler, Exchange, Find, Load,
           Resync, Create, Trace, Mint, Fails, Returns, Callback
  <2> QED BY <2>1 DEF SignInTypes
<1>1. \A change \in (audit \cup lost)' : change[1] \in Nat /\ change[1] <= made'
  <2>1. ASSUME NEW change \in (audit \cup lost)'
        PROVE  \/ change \in audit \cup lost
               \/ \E r \in Requests : change = <<req[r].user, req[r].role>>
               \/ \E r \in Requests : change = <<made', req[r].role>>
    BY <2>1 DEF Next, vars, Moves, SignsUp, Deletes, Starts, Expires, Handler, Exchange, Find, Load,
           Resync, Create, Trace, Mint, Fails, Returns, Callback, Stored
  <2>2. \A r \in Requests : req[r].user \in Nat /\ req[r].user <= made
    BY DEF SignInTypes, Callbacks
  <2> QED BY <1>0, <2>1, <2>2 DEF Bare
<1>2. account'.id # NoUser /\ account'.role = NoRole => Unwritten(account.id)'
  <2> SUFFICES ASSUME account'.id # NoUser, account'.role = NoRole PROVE Unwritten(account.id)'
    OBVIOUS
  <2>0. PICK u \in Nat : u = account'.id
    BY <1>0
  <2>1. CASE account' = account
    <3>1. Unwritten(u)
      BY <2>0, <2>1 DEF Bare
    <3>2. Unwritten(u)'
      BY <3>1, UnwrittenKept
    <3> QED BY <2>0, <3>2 DEF Unwritten, NeverGiven
  <2>2. CASE SignsUp
    <3>1. account'.id = made + 1 /\ made' = made + 1 /\ UNCHANGED <<audit, lost, req>>
      BY <2>2 DEF SignsUp
    <3>2. \A q \in Requests : req[q].user <= made /\ req[q].user \in Nat
      BY DEF SignInTypes, Callbacks
    <3>3. \A change \in (audit \cup lost)' : change[1] # account'.id
      BY <1>0, <3>1 DEF Bare
    <3>4. \A q \in Requests : req'[q].user # account'.id
      BY <1>0, <3>1, <3>2
    <3> QED BY <1>0, <3>1, <3>3, <3>4 DEF Unwritten, NeverGiven, NoUser
  <2>3. ASSUME NEW r \in Requests, Resync(r) \/ Create(r), account' # account
        PROVE  FALSE
    <3>1. LetInAs(r)
      BY <2>3 DEF Resync, Create, At, Outcomes, Outcome
    <3>2. req[r].role \in Roles
      BY <3>1, RoleWritten
    <3>3. account'.role = req[r].role
      BY <2>3 DEF Resync, Create, SignInTypes
    <3> QED BY <3>2, <3>3 DEF Roles, NoRole
  <2>4. account' = account \/ SignsUp \/ \E r \in Requests : Resync(r) \/ Create(r)
    <3>1. CASE Deletes
      BY <3>1 DEF Deletes
    <3>2. CASE UNCHANGED vars \/ Moves \/ \E s \in Slots : Starts(s) \/ Expires(s)
      BY <3>2 DEF vars, Moves, Starts, Expires, world
    <3>3. ASSUME NEW r \in Requests, Handler(r), ~Resync(r), ~Create(r)
          PROVE  account' = account
      BY <3>3 DEF Handler, Exchange, Find, Load, Trace, Mint, Fails, world
    <3>4. ASSUME NEW r \in Requests, Returns(r) \/ \E s \in Slots : Callback(r, s)
          PROVE  account' = account
      BY <3>4 DEF Returns, Callback, world
    <3> QED BY <3>1, <3>2, <3>3, <3>4 DEF Next, Deletes
  <2> QED BY <2>1, <2>2, <2>3, <2>4
<1>3. ASSUME NEW r \in Requests, LetsIn(r)', req'[r].role = NoRole
      PROVE  Unwritten(req[r].user)'
  <2>0. PICK u \in Nat : u = req'[r].user
    BY DEF SignInTypes, Callbacks
  <2>1. SUFFICES Unwritten(u)
    <3>1. Unwritten(u)'
      BY <2>1, UnwrittenKept
    <3> QED BY <2>0, <3>1 DEF Unwritten, NeverGiven
  <2>2. CASE Load(r)
    <3>1. Outcome(r) /\ req'[r].at # "over"
      BY <1>3, <2>2, LoadSays DEF Outcomes, LetsIn, At
    <3>2. account.id = req'[r].user /\ account.id # NoUser /\ account.role = NoRole
      BY <1>3, <2>2, <3>1, LoadGoes DEF Roles, NoRole
    <3> QED BY <2>0, <3>2 DEF Bare
  <2>3. CASE ~Load(r)
    <3>1. \/ LetsIn(r) /\ req[r].role = NoRole /\ req'[r].user = req[r].user
          \/ LetInAs(r) /\ req'[r].role = req[r].role
      BY <1>3, <2>3, LetsInFrom
    <3>2. ~(LetInAs(r) /\ req'[r].role = req[r].role)
      BY <1>3, RoleWritten DEF Roles, NoRole
    <3> QED BY <2>0, <3>1, <3>2 DEF Bare
  <2> QED BY <2>2, <2>3
<1> QED BY <1>1, <1>2, <1>3 DEF Bare

---------------------------------------------------------------------------

\* The inductive invariant.
SignInInv == SignInTypes /\ SlotsHeld /\ RoleTraced /\ Outcomes /\ Bare

\* It holds at first.
LEMMA SignInInit == Init => SignInInv
<1> SUFFICES ASSUME Init PROVE SignInInv
  OBVIOUS
<1>1. \A r \in Requests : req[r] = Idle
  BY DEF Init
<1>2. Idle.at = "idle" /\ Idle.user = 0 /\ Idle \in Callbacks
  BY IdleTyped DEF Idle
<1>3. SignInTypes
  BY <1>1, <1>2 DEF Init, SignInTypes, NoUser
<1>4. SlotsHeld
  BY <1>1, <1>2 DEF Init, SlotsHeld, Running, At
<1>5. RoleTraced
  BY DEF Init, RoleTraced
<1>6. Outcomes
  BY <1>1, <1>2 DEF Outcomes, Outcome, At
<1>7. Bare
  BY <1>1, <1>2 DEF Init, Bare, LetsIn, At
<1> QED BY <1>3, <1>4, <1>5, <1>6, <1>7 DEF SignInInv

\* The invariant of the sign-in: shape, slots, audit rows and outcomes.
THEOREM SignInInductive == Spec => []SignInInv
<1>1. Init => SignInInv
  BY SignInInit
<1>2. SignInInv /\ [Next]_vars => SignInInv'
  BY TypesKept, SlotsKept, TracedKept, OutcomesKept, BareKept DEF SignInInv
<1> QED BY <1>1, <1>2, PTL DEF Spec

\* However many callbacks come with one state and however they overlap, one of them at
\* most gets a bearer (routes/auth-callback.ts:163-216).
THEOREM OneBearer == Spec => []OneBearerPerState
<1>1. SignInInv => OneBearerPerState
  BY DEF SignInInv, SlotsHeld, OneBearerPerState
<1> QED BY <1>1, SignInInductive, PTL

\* A role that no e-mail sign-up left null has its audit row, or a callback that is to
\* write it, or one that failed to (lib/mint-bearer.ts:452-464, 527).
THEOREM RolesTraced == Spec => []RoleTraced
<1>1. SignInInv => RoleTraced
  BY DEF SignInInv
<1> QED BY <1>1, SignInInductive, PTL

\* A refusal has the cause of its code. A bearer goes to a profile without any, whose
\* user was found with, or given, the role its groups are due, or has no role and no
\* sign-in has ever written one; for every mapping, priority and claim
\* (lib/oidc-jit-resolver.ts, lib/mint-bearer.ts:408-505).
THEOREM OutcomesMeetTable == Spec => []OutcomeMeetsTable
<1>1. SignInInv => OutcomeMeetsTable
  <2> SUFFICES ASSUME SignInInv, NEW r \in Requests, At(r, "over")
               PROVE  /\ req[r].said \in Codes =>
                           Cause(req[r].said, req[r].claims, req[r].user)
                      /\ req[r].said = "bearer" =>
                           /\ \A code \in Codes : ~Cause(code, req[r].claims, NoUser)
                           /\ \/ DueRole(req[r].claims.groups, req[r].role)
                              \/ req[r].role = NoRole /\ NeverGiven(req[r].user)
    BY DEF OutcomeMeetsTable
  <2>1. Outcome(r) /\ req[r].claims \in Claims \cup {NoClaims}
    BY DEF SignInInv, Outcomes, SignInTypes, Callbacks
  <2>2. ASSUME req[r].said = "bearer"
        PROVE  /\ \A code \in Codes : ~Cause(code, req[r].claims, NoUser)
               /\ \/ DueRole(req[r].claims.groups, req[r].role)
                  \/ req[r].role = NoRole /\ NeverGiven(req[r].user)
    <3> DEFINE d == Decide(req[r].claims, Unasked)
    <3>1. d.code = "ok" /\ d.tenant = DefaultTenant
      BY <2>1, <2>2 DEF Outcome, LetInAs, LetInBare, Granted
    <3>2. CASE LetInAs(r)
      <4>1. d.role = req[r].role
        BY <3>2 DEF LetInAs, Granted
      <4> HIDE DEF d
      <4> QED BY <2>1, <3>1, <4>1, LetIn, NoCause, ConfigAssumption, ClaimsAssumption DEF d
    <3>3. CASE LetInBare(r)
      <4>1. req[r].role = NoRole /\ LetsIn(r)
        BY <2>2, <3>3 DEF LetInBare, LetsIn
      <4>2. NeverGiven(req[r].user)
        BY <4>1 DEF SignInInv, Bare, Unwritten
      <4> HIDE DEF d
      <4> QED BY <2>1, <3>1, <4>1, <4>2, NoCause, ConfigAssumption, ClaimsAssumption DEF d
    <3> QED BY <2>1, <2>2, <3>2, <3>3 DEF Outcome
  <2> QED BY <2>1, <2>2 DEF Outcome
<1> QED BY <1>1, SignInInductive, PTL
====

---- MODULE JitResolver ----
(***************************************************************************)
(* The decision of apps/api/src/lib/oidc-jit-resolver.ts: from the claims  *)
(* of an identity provider to a tenant and a role, or to a refusal. It     *)
(* keeps no state; both sign-in paths call it.                             *)
(*                                                                         *)
(* A claim bag is [key, groups]: what the tenant claim holds, and the list *)
(* of groups (empty when the claim is absent).                             *)
(***************************************************************************)
EXTENDS Integers, Sequences, SequencesExt

CONSTANTS
  TenantMapping,  \* OIDC_TENANT_MAPPING: key -> tenant
  RoleMapping,    \* OIDC_ROLE_MAPPING: group -> role
  RolePriority,   \* OIDC_ROLE_PRIORITY: roles, the highest first
  DefaultRole,    \* OIDC_DEFAULT_ROLE
  Missing,        \* the tenant claim is absent
  Odd             \* a value that is not a string: as the key, or among the groups

Roles == {"admin", "member", "viewer"}

ASSUME ConfigAssumption ==
  /\ RoleMapping \in [DOMAIN RoleMapping -> Roles]
  /\ RolePriority \in Seq(STRING)
  /\ {Missing, Odd} \cap DOMAIN TenantMapping = {}
  /\ Odd \notin DOMAIN RoleMapping

\* resolveJitDecision is called without `existing`, or the row was not found (its
\* tenant is then the empty string).
Unasked == "unasked"
Nowhere == ""

Granted(tenant, role) == [code |-> "ok", tenant |-> tenant, role |-> role]
Rejected(code) == [code |-> code]

\* Where the claim names a group that has a role.
Mapped(groups) == {k \in DOMAIN groups : groups[k] \in DOMAIN RoleMapping}

\* Mutant: indexOf is used as it is, so an absent role ranks highest.
RankOfIndex(role) == SelectInSeq(RolePriority, LAMBDA r : r = role)

\* A role that the priority leaves out ranks behind every one it lists.
RankOf(role) ==
  IF role \in ToSet(RolePriority)
  THEN SelectInSeq(RolePriority, LAMBDA r : r = role)
  ELSE Len(RolePriority) + 1

\* The place of the role of the lowest rank, the first if there are several.
BestPlace(groups) ==
  LET rank(k) == RankOf(RoleMapping[groups[k]])
  IN CHOOSE k \in Mapped(groups) : \A j \in Mapped(groups) :
       \/ rank(k) < rank(j)
       \/ rank(k) = rank(j) /\ k <= j

HighestPriority(groups) == RoleMapping[groups[BestPlace(groups)]]

\* resolveJitDecision, for a user bound to the tenant boundTo.
Decide(claims, boundTo) ==
  LET tenant == TenantMapping[claims.key]
  IN IF claims.key = Odd THEN Rejected("invalid_oidc_profile")
     ELSE IF claims.key = Missing THEN Rejected("forbidden_missing_tenant_claim")
     ELSE IF claims.key \notin DOMAIN TenantMapping THEN Rejected("forbidden_unknown_tenant")
     ELSE IF boundTo \notin {Unasked, tenant} THEN Rejected("forbidden_tenant_mismatch")
     ELSE IF Odd \in ToSet(claims.groups) THEN Rejected("invalid_oidc_profile")
     ELSE IF Mapped(claims.groups) # {} THEN Granted(tenant, HighestPriority(claims.groups))
     ELSE IF DefaultRole \in Roles THEN Granted(tenant, DefaultRole)
     ELSE Rejected("forbidden_no_role_mapping")
====

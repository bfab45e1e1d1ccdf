---- MODULE UsageLedger ----
(***************************************************************************)
(* What the billing ledger promises, whoever writes it: one entry per      *)
(* request id, in the name of the request's user and of that user's        *)
(* tenant, and no entry is ever changed or taken back.  It abstracts from  *)
(* where a charge comes from (the API hot path, the 30 s ingest tick, a    *)
(* windowed backfill) and from everything that decides when it is made.    *)
(*                                                                         *)
(* Source: the usage_ledger table, packages/data/src/schema/usage_ledger.ts*)
(***************************************************************************)
CONSTANTS Rids, Users, Tenants,
          Days,       \* the days an entry can be dated
          owner,      \* the user on whose behalf each request was made
          home,       \* the tenant each user is created in
          NoTenant    \* stands for "no row in users"

VARIABLES tenantOf,   \* the users table: user -> tenant
          ledger      \* the usage_ledger table

lvars == <<tenantOf, ledger>>

Entry == [rid: Rids, user: Users, tenant: Tenants, day: Days]

Charged(r) == \E e \in ledger : e.rid = r

Init ==
  /\ tenantOf = [u \in Users |-> NoTenant]
  /\ ledger = {}

\* A user is created in a tenant, once.
Register(u) ==
  /\ tenantOf[u] = NoTenant
  /\ tenantOf' = [tenantOf EXCEPT ![u] = home[u]]
  /\ UNCHANGED ledger

\* A request that is not charged yet is charged to its user's tenant.
Charge(r, d) ==
  /\ ~Charged(r)
  /\ tenantOf[owner[r]] # NoTenant
  /\ ledger' = ledger \cup {[rid |-> r, user |-> owner[r],
                             tenant |-> tenantOf[owner[r]], day |-> d]}
  /\ UNCHANGED tenantOf

Next ==
  \/ \E u \in Users : Register(u)
  \/ \E r \in Rids, d \in Days : Charge(r, d)

Spec == Init /\ [][Next]_lvars
====

---- MODULE SpendIngest_proofs ----
(***************************************************************************)
(* Theorems of SpendIngest, for every number of rows, users, tenants,      *)
(* replicas and backfills, every batch size and every bound.               *)
(*                                                                         *)
(* Safe strengthens TypeOK with what the ledger needs: an end_user, where  *)
(* there is one, is the user who made the request, and a run only has rows *)
(* in hand that were written; a backfill only has rows of the users it     *)
(* resolved, and those users stay in its tenant. WindowCovered is about    *)
(* what a backfill leaves behind: only what falls to the LIMIT.            *)
(***************************************************************************)
EXTENDS SpendIngest, FiniteSetTheorems, TLAPS

RowsOK ==
  /\ \A r \in arrived : start[r] >= 1
  /\ \A r \in Rows \ arrived : endUser[r] = NoUser
  /\ \A r \in Rows : endUser[r] \in Users => endUser[r] = owner[ridOf[r]]
  /\ \A w \in Workers : run[w].todo \subseteq arrived

BackfillOK ==
  \A b \in Backfillers :
    /\ run[b].only # {} => run[b].tenant \in Tenants
    /\ \A u \in run[b].only : tenantOf[u] = run[b].tenant
    /\ \A r \in run[b].todo : endUser[r] \in run[b].only

Safe == TypeOK /\ RowsOK /\ BackfillOK

\* Integer division is monotone.
LEMMA DivMonotone ==
  ASSUME NEW a \in Nat, NEW b \in Nat, NEW d \in Nat \ {0}, a <= b
  PROVE  a \div d <= b \div d
<1>1. /\ a = d * (a \div d) + (a % d)
      /\ b = d * (b \div d) + (b % d)
      /\ a % d \in 0..(d-1)
      /\ b % d \in 0..(d-1)
      /\ a \div d \in Nat
      /\ b \div d \in Nat
  BY Z3
<1> QED
  BY <1>1, Z3

LEMMA DayType ==
  ASSUME NEW t \in 0..MaxTime
  PROVE  Day(t) \in Days
<1>1. DayLength \in Nat \ {0} /\ MaxTime \in Nat
  BY BoundAssumption
<1>2. t \div DayLength <= MaxTime \div DayLength
  BY <1>1, DivMonotone
<1>3. t \div DayLength \in Nat /\ MaxTime \div DayLength \in Nat
  BY <1>1, Z3
<1> QED
  BY <1>2, <1>3 DEF Day, Days

LEMMA IdleType == Idle \in Run
  BY BoundAssumption DEF Idle, Run, NoHold

-----------------------------------------------------------------------------
\* Safe is inductive.

LEMMA SafeInit == Init => Safe
<1> SUFFICES ASSUME Init PROVE Safe
  OBVIOUS
<1>1. TypeOK
  BY IdleType, BoundAssumption DEF Init, TypeOK, NoMark
<1>2. RowsOK
  BY NullAssumption, IdleType DEF Init, RowsOK, Idle
<1>3. BackfillOK
  BY DEF Init, BackfillOK, Idle, Workers
<1> QED
  BY <1>1, <1>2, <1>3 DEF Safe

LEMMA InsertType ==
  ASSUME TypeOK, NEW r \in Rids, NEW u \in Users, NEW t \in Tenants,
         NEW at \in 0..MaxTime, Insert(r, u, t, at)
  PROVE  ledger' \subseteq Entry
<1>1. Day(at) \in Days
  BY DayType
<1> QED
  BY <1>1 DEF TypeOK, Insert, Entry

LEMMA TenantType ==
  ASSUME TypeOK, NEW r \in Rows, Tenant(r) # NoTenant
  PROVE  endUser[r] \in Users /\ Tenant(r) = tenantOf[endUser[r]] /\ Tenant(r) \in Tenants
  BY DEF TypeOK, Tenant

LEMMA EnvironmentSafe == Safe /\ Environment => Safe'
<1> SUFFICES ASSUME Safe, Environment PROVE Safe'
  OBVIOUS
<1> USE DEF Safe
<1>1. CASE Clock
  <2>1. TypeOK'
    BY <1>1, BoundAssumption DEF Clock, TypeOK, mark
  <2> QED
    BY <2>1, <1>1 DEF Clock, RowsOK, BackfillOK
<1>2. ASSUME NEW r \in Rows, NEW s \in 1..MaxTime,
             NEW u \in Users \cup {NoUser, BadUser}, Arrive(r, s, u)
      PROVE  Safe'
  <2>1. TypeOK'
    BY <1>2 DEF Arrive, TypeOK, mark
  <2>2. RowsOK'
    BY <1>2, NullAssumption, RowAssumption DEF Arrive, TypeOK, RowsOK
  <2>3. BackfillOK'
    BY <1>2 DEF Arrive, TypeOK, RowsOK, BackfillOK, Workers
  <2> QED
    BY <2>1, <2>2, <2>3
<1>3. ASSUME NEW r \in Rows, GainEndUser(r) PROVE Safe'
  <2>1. TypeOK'
    BY <1>3, RowAssumption DEF GainEndUser, TypeOK, mark
  <2>2. RowsOK'
    BY <1>3 DEF GainEndUser, TypeOK, RowsOK
  <2>3. \A b \in Backfillers : r \notin run[b].todo
    BY <1>3, NullAssumption DEF GainEndUser, TypeOK, BackfillOK, Workers, Run
  <2>4. BackfillOK'
    BY <1>3, <2>3 DEF GainEndUser, TypeOK, BackfillOK, RowsOK, Workers
  <2> QED
    BY <2>1, <2>2, <2>4
<1>4. ASSUME NEW u \in Users, Register(u) PROVE Safe'
  <2>1. TypeOK'
    BY <1>4, RowAssumption DEF Register, TypeOK, mark
  <2>2. RowsOK'
    BY <1>4 DEF Register, RowsOK
  <2>3. \A b \in Backfillers : u \notin run[b].only
    BY <1>4, NullAssumption DEF Register, BackfillOK
  <2>4. BackfillOK'
    BY <1>4, <2>3 DEF Register, TypeOK, BackfillOK, Workers, Run
  <2> QED
    BY <2>1, <2>2, <2>4
<1>5. ASSUME NEW r \in Rids, ApiCharge(r) PROVE Safe'
  <2>1. tenantOf[owner[r]] \in Tenants /\ owner[r] \in Users
    BY <1>5, RowAssumption DEF ApiCharge, TypeOK
  <2>2. now \in 0..MaxTime
    BY DEF TypeOK
  <2>3. ledger' \subseteq Entry
    BY <1>5, <2>1, <2>2, InsertType DEF ApiCharge
  <2>4. TypeOK'
    BY <1>5, <2>3 DEF ApiCharge, TypeOK, env, mark
  <2> QED
    BY <1>5, <2>4 DEF ApiCharge, RowsOK, BackfillOK, env
<1> QED
  BY <1>1, <1>2, <1>3, <1>4, <1>5 DEF Environment

LEMMA RunStepSafe ==
  ASSUME Safe, NEW w \in Workers, NEW x \in Run,
         run' = [run EXCEPT ![w] = x],
         x.todo \subseteq arrived,
         w \in Backfillers =>
           /\ x.only # {} => x.tenant \in Tenants
           /\ \A u \in x.only : tenantOf[u] = x.tenant
           /\ \A r \in x.todo : endUser[r] \in x.only,
         UNCHANGED env,
         ledger' \subseteq Entry,
         watermark' \in -1..MaxTime,
         unread' \subseteq Rows,
         anomalies' \subseteq Rows \X Reasons,
         fails' \in 0..MaxFails
  PROVE  Safe'
<1>1. TypeOK'
  BY DEF Safe, TypeOK, env
<1>2. RowsOK'
  BY DEF Safe, TypeOK, RowsOK, env
<1>3. BackfillOK'
  BY DEF Safe, TypeOK, BackfillOK, env, Workers
<1> QED
  BY <1>1, <1>2, <1>3 DEF Safe

LEMMA RunOnlySafe ==
  ASSUME Safe, NEW w \in Workers, NEW x \in Run,
         run' = [run EXCEPT ![w] = x],
         x.todo \subseteq arrived,
         w \in Backfillers =>
           /\ x.only # {} => x.tenant \in Tenants
           /\ \A u \in x.only : tenantOf[u] = x.tenant
           /\ \A r \in x.todo : endUser[r] \in x.only,
         UNCHANGED env,
         UNCHANGED mark,
         ledger' \subseteq Entry,
         anomalies' \subseteq Rows \X Reasons,
         fails' \in 0..MaxFails
  PROVE  Safe'
<1>1. watermark' \in -1..MaxTime /\ unread' \subseteq Rows
  BY DEF mark, Safe, TypeOK
<1> QED
  BY <1>1, RunStepSafe

LEMMA TickSafe ==
  ASSUME Safe, NEW w \in LiveWorkers, TickRead(w) \/ TickScan(w) \/ TickEnd(w)
  PROVE  Safe'
<1> USE WorkerAssumption DEF Workers
<1>0. /\ w \in Workers /\ w \notin Backfillers
      /\ TypeOK /\ run[w] \in Run
      /\ Idle \in Run /\ Idle.todo = {}
  BY IdleType DEF Safe, TypeOK, Idle
<1>1. CASE TickRead(w)
  <2> DEFINE x == [Idle EXCEPT
                     !.pc = "scan",
                     !.from = IF watermark = NoMark THEN now - Lookback ELSE watermark]
  <2>0. (IF watermark = NoMark THEN now - Lookback ELSE watermark) \in Int
    BY <1>0, BoundAssumption DEF TypeOK
  <2>1. x \in Run /\ x.todo = {}
    BY <1>0, <2>0 DEF Run
  <2>2. /\ run' = [run EXCEPT ![w] = x]
        /\ UNCHANGED <<env, ledger, mark, anomalies, fails>>
    BY <1>1 DEF TickRead
  <2> HIDE DEF x
  <2> QED
    BY <1>0, <2>1, <2>2, RunOnlySafe DEF TypeOK
<1>2. CASE TickScan(w)
  <2>0. UNCHANGED <<env, ledger, mark, anomalies, fails>>
    BY <1>2 DEF TickScan
  <2>1. CASE run' = [run EXCEPT ![w] = Idle]
    BY <1>0, <2>0, <2>1, RunOnlySafe DEF TypeOK
  <2>2. ASSUME NEW B \in SUBSET Matching(w), NEW r \in B, Scanned(w, B, B, start[r])
        PROVE  Safe'
    <3> DEFINE x == [run[w] EXCEPT !.pc = "rows", !.scope = B, !.todo = B,
                                   !.last = start[r], !.cutoff = now - HoldWindow]
    <3>0. /\ B \in SUBSET Rows /\ B \subseteq arrived /\ r \in Rows
          /\ start[r] \in 0..MaxTime /\ now - HoldWindow \in Int
      BY <1>0, BoundAssumption DEF TypeOK, Matching
    <3>1. x \in Run /\ x.todo \subseteq arrived
      BY <1>0, <3>0 DEF Run
    <3>2. run' = [run EXCEPT ![w] = x]
      BY <2>2 DEF Scanned
    <3> HIDE DEF x
    <3> QED
      BY <1>0, <2>0, <3>1, <3>2, RunOnlySafe DEF TypeOK
  <2> QED
    BY <1>2, <2>1, <2>2 DEF TickScan
<1>3. CASE TickEnd(w)
  <2>0. run[w].last \in 0..MaxTime /\ run[w].hold \in -1..MaxTime /\ MaxTime \in Nat
    BY <1>0, BoundAssumption DEF Run
  <2>1. watermark' \in -1..MaxTime
    BY <2>0, <1>3 DEF TickEnd, Advance, NoHold
  <2>2. unread' \subseteq Rows
    BY <1>0, <1>3 DEF TickEnd, Advance, TypeOK
  <2>3. run' = [run EXCEPT ![w] = Idle] /\ UNCHANGED <<env, ledger, anomalies, fails>>
    BY <1>3 DEF TickEnd, Advance
  <2> QED
    BY <1>0, <2>1, <2>2, <2>3, RunStepSafe DEF TypeOK
<1> QED
  BY <1>1, <1>2, <1>3

LEMMA BackfillSafe ==
  ASSUME Safe, NEW b \in Backfillers,
         \/ \E t \in Tenants, win \in Windows : BackfillStart(b, t, win)
         \/ BackfillScan(b)
         \/ BackfillEnd(b)
  PROVE  Safe'
<1> USE DEF Workers
<1>0. /\ b \in Workers
      /\ TypeOK /\ run[b] \in Run
      /\ Idle \in Run /\ Idle.todo = {} /\ Idle.only = {}
  BY IdleType DEF Safe, TypeOK, Idle
<1>1. ASSUME NEW t \in Tenants, NEW win \in Windows, BackfillStart(b, t, win)
      PROVE  Safe'
  <2> DEFINE x == [Idle EXCEPT !.pc = "scan", !.tenant = t, !.from = win[1],
                               !.until = win[2], !.only = {u \in Users : tenantOf[u] = t}]
  <2>1. win[1] \in Int /\ win[2] \in Int
    BY BoundAssumption
  <2>2. /\ x \in Run /\ x.todo = {} /\ x.tenant = t
        /\ x.only = {u \in Users : tenantOf[u] = t}
    BY <1>0, <2>1 DEF TypeOK, Run, Idle
  <2>3. /\ run' = [run EXCEPT ![b] = x]
        /\ UNCHANGED <<env, ledger, mark, anomalies, fails>>
    BY <1>1 DEF BackfillStart
  <2> HIDE DEF x
  <2> QED
    BY <1>0, <2>2, <2>3, RunOnlySafe DEF TypeOK
<1>2. ASSUME NEW B \in SUBSET InWindow(b), Scanned(b, InWindow(b), B, 0),
             UNCHANGED <<env, ledger, mark, anomalies, fails>>
      PROVE  Safe'
  <2> DEFINE x == [run[b] EXCEPT !.pc = "rows", !.scope = InWindow(b), !.todo = B,
                                 !.last = 0, !.cutoff = now - HoldWindow]
  <2>1. InWindow(b) \subseteq arrived /\ \A r \in InWindow(b) : endUser[r] \in run[b].only
    BY DEF InWindow
  <2>2. InWindow(b) \subseteq Rows
    BY <1>0, <2>1 DEF TypeOK
  <2>3. /\ x \in Run /\ x.todo = B
        /\ x.only = run[b].only /\ x.tenant = run[b].tenant
    <3>1. B \in SUBSET Rows /\ now - HoldWindow \in Int /\ 0 \in 0..MaxTime
      BY <1>0, <2>2, BoundAssumption DEF TypeOK
    <3> QED
      BY <1>0, <2>2, <3>1 DEF Run
  <2>4. run' = [run EXCEPT ![b] = x]
    BY <1>2 DEF Scanned
  <2>5. /\ run[b].only # {} => run[b].tenant \in Tenants
        /\ \A u \in run[b].only : tenantOf[u] = run[b].tenant
    BY DEF Safe, BackfillOK
  <2> HIDE DEF x
  <2> QED
    BY <1>0, <1>2, <2>1, <2>3, <2>4, <2>5, RunOnlySafe DEF TypeOK
<1>3. CASE BackfillEnd(b)
  BY <1>0, <1>3, RunOnlySafe DEF BackfillEnd, TypeOK
<1> QED
  BY <1>1, <1>2, <1>3 DEF BackfillScan

LEMMA RowSafe ==
  ASSUME Safe, NEW w \in Workers, NEW r \in run[w].todo,
         SkipRow(w, r) \/ DropRow(w, r) \/ BillRow(w, r) \/ MalformedRow(w, r)
  PROVE  Safe'
<1>0. /\ TypeOK /\ run[w] \in Run
      /\ run[w].todo \subseteq arrived /\ r \in Rows
      /\ start[r] \in 0..MaxTime
      /\ w \in Backfillers =>
           /\ run[w].only # {} => run[w].tenant \in Tenants
           /\ \A u \in run[w].only : tenantOf[u] = run[w].tenant
           /\ \A q \in run[w].todo : endUser[q] \in run[w].only
  BY DEF Safe, TypeOK, RowsOK, BackfillOK, Run
<1>1. CASE SkipRow(w, r)
  <2> DEFINE agedOut == start[r] < run[w].cutoff
             x == [run[w] EXCEPT
                     !.todo = @ \ {r},
                     !.hold = IF ~agedOut /\ (@ = NoHold \/ start[r] < @)
                              THEN start[r] ELSE @]
  <2>1. /\ x \in Run /\ x.todo = run[w].todo \ {r}
        /\ x.only = run[w].only /\ x.tenant = run[w].tenant
    <3>1. run[w].hold \in -1..MaxTime /\ start[r] \in -1..MaxTime
      BY <1>0 DEF Run
    <3>2. (IF ~agedOut /\ (run[w].hold = NoHold \/ start[r] < run[w].hold)
           THEN start[r] ELSE run[w].hold) \in -1..MaxTime
      BY <3>1
    <3> HIDE DEF agedOut
    <3> QED
      BY <1>0, <3>2 DEF Run
  <2>2. /\ run' = [run EXCEPT ![w] = x]
        /\ UNCHANGED <<env, ledger, mark, fails>>
    BY <1>1 DEF SkipRow
  <2>3. anomalies' \subseteq Rows \X Reasons
    BY <1>0, <1>1 DEF SkipRow, TypeOK, Reasons
  <2> HIDE DEF x
  <2> QED
    BY <1>0, <2>1, <2>2, <2>3, RunOnlySafe DEF TypeOK
<1>2. ASSUME DropRow(w, r) \/ BillRow(w, r) PROVE Safe'
  <2> DEFINE x == [run[w] EXCEPT !.todo = @ \ {r}]
  <2>1. /\ x \in Run /\ x.todo = run[w].todo \ {r}
        /\ x.only = run[w].only /\ x.tenant = run[w].tenant
    BY <1>0 DEF Run
  <2>2. /\ run' = [run EXCEPT ![w] = x]
        /\ UNCHANGED <<env, mark, fails>>
    BY <1>2 DEF DropRow, BillRow
  <2>3. ledger' \subseteq Entry /\ anomalies' \subseteq Rows \X Reasons
    <3>1. CASE DropRow(w, r)
      BY <1>0, <3>1 DEF DropRow, TypeOK, Reasons
    <3>2. CASE BillRow(w, r)
      <4>1. ridOf[r] \in Rids
        BY <1>0, RowAssumption
      <4> QED
        BY <1>0, <3>2, <4>1, TenantType, InsertType DEF BillRow, TypeOK
    <3> QED
      BY <1>2, <3>1, <3>2
  <2> HIDE DEF x
  <2> QED
    BY <1>0, <2>1, <2>2, <2>3, RunOnlySafe DEF TypeOK
<1>3. CASE MalformedRow(w, r)
  <2>1. Idle \in Run /\ Idle.todo = {} /\ Idle.only = {}
    BY IdleType DEF Idle
  <2> QED
    BY <1>0, <1>3, <2>1, RunOnlySafe DEF MalformedRow, TypeOK
<1> QED
  BY <1>1, <1>2, <1>3

LEMMA FailSafe ==
  ASSUME Safe, NEW w \in Workers, Fail(w)
  PROVE  Safe'
<1>1. Idle \in Run /\ Idle.todo = {} /\ Idle.only = {}
  BY IdleType DEF Idle
<1>2. fails' \in 0..MaxFails
  BY BoundAssumption DEF Fail, Safe, TypeOK
<1> QED
  BY <1>1, <1>2, RunOnlySafe DEF Fail, Safe, TypeOK, env

LEMMA SafeStep == Safe /\ [Next]_vars => Safe'
<1> SUFFICES ASSUME Safe, [Next]_vars PROVE Safe'
  OBVIOUS
<1>1. CASE Environment
  BY <1>1, EnvironmentSafe
<1>2. ASSUME NEW w \in LiveWorkers, TickRead(w) \/ TickScan(w) \/ TickEnd(w)
      PROVE  Safe'
  BY <1>2, TickSafe
<1>3. ASSUME NEW b \in Backfillers,
             \/ \E t \in Tenants, win \in Windows : BackfillStart(b, t, win)
             \/ BackfillScan(b)
             \/ BackfillEnd(b)
      PROVE  Safe'
  BY <1>3, BackfillSafe
<1>4. ASSUME NEW w \in Workers, ProcessRow(w) \/ Fail(w) PROVE Safe'
  BY <1>4, RowSafe, FailSafe DEF ProcessRow
<1>5. CASE UNCHANGED vars
  BY <1>5 DEF vars, Safe, TypeOK, RowsOK, BackfillOK
<1> QED
  BY <1>1, <1>2, <1>3, <1>4, <1>5 DEF Next

THEOREM SafeCorrect == Spec => []Safe
  BY SafeInit, SafeStep, PTL DEF Spec

\* Every variable keeps its shape.
THEOREM TypeCorrect == Spec => []TypeOK
<1>1. Safe => TypeOK
  BY DEF Safe
<1> QED
  BY <1>1, SafeCorrect, PTL

\* A backfill never has a row of another tenant in hand.
THEOREM BackfillInTenantCorrect == Spec => []BackfillInTenant
<1>1. Safe => BackfillInTenant
  <2> SUFFICES ASSUME Safe, NEW b \in Backfillers, NEW r \in run[b].todo
               PROVE  Tenant(r) = run[b].tenant
    BY DEF BackfillInTenant
  <2>1. endUser[r] \in run[b].only /\ run[b].only \subseteq Users
    BY DEF Safe, TypeOK, BackfillOK, Run, Workers
  <2> QED
    BY <2>1 DEF Safe, BackfillOK, Tenant
<1> QED
  BY <1>1, SafeCorrect, PTL

-----------------------------------------------------------------------------
\* The ledger.

\* Whoever inserts, an insert is a Charge of UsageLedger or changes nothing.
LEMMA InsertCharges ==
  ASSUME TypeOK, NEW r \in Rids, NEW at \in 0..MaxTime,
         tenantOf[owner[r]] # NoTenant,
         Insert(r, owner[r], tenantOf[owner[r]], at),
         UNCHANGED tenantOf
  PROVE  [Ledger!Next]_<<tenantOf, ledger>>
<1>1. CASE Charged(r)
  BY <1>1 DEF Insert
<1>2. CASE ~Charged(r)
  <2>1. Ledger!Charge(r, Day(at))
    BY <1>2 DEF Insert, Ledger!Charge, Ledger!Charged, Charged
  <2>2. Day(at) \in Days
    BY DayType
  <2> QED
    BY <2>1, <2>2 DEF Ledger!Next
<1> QED
  BY <1>1, <1>2

LEMMA LedgerStep == Safe /\ [Next]_vars => [Ledger!Next]_<<tenantOf, ledger>>
<1> SUFFICES ASSUME Safe, [Next]_vars PROVE [Ledger!Next]_<<tenantOf, ledger>>
  OBVIOUS
<1>0. TypeOK
  BY DEF Safe
<1>1. ASSUME NEW u \in Users, Register(u) PROVE [Ledger!Next]_<<tenantOf, ledger>>
  BY <1>1 DEF Register, Ledger!Next, Ledger!Register
<1>2. ASSUME NEW r \in Rids, ApiCharge(r) PROVE [Ledger!Next]_<<tenantOf, ledger>>
  <2>1. now \in 0..MaxTime
    BY <1>0 DEF TypeOK
  <2> QED
    BY <1>0, <1>2, <2>1, InsertCharges DEF ApiCharge, env
<1>3. ASSUME NEW w \in Workers, NEW r \in run[w].todo, BillRow(w, r)
      PROVE  [Ledger!Next]_<<tenantOf, ledger>>
  <2>1. r \in Rows /\ start[r] \in 0..MaxTime /\ ridOf[r] \in Rids
    BY <1>0, RowAssumption DEF TypeOK, Run
  <2>2. /\ endUser[r] = owner[ridOf[r]]
        /\ Tenant(r) = tenantOf[owner[ridOf[r]]]
        /\ Tenant(r) # NoTenant
    BY <1>0, <1>3, <2>1, TenantType DEF BillRow, Safe, RowsOK
  <2> QED
    BY <1>0, <1>3, <2>1, <2>2, InsertCharges DEF BillRow, env
<1>4. CASE UNCHANGED <<tenantOf, ledger>>
  BY <1>4
<1> QED
  BY <1>1, <1>2, <1>3, <1>4
  DEF Next, vars, env, Environment, Clock, Arrive, GainEndUser, TickRead, TickScan,
      TickEnd, Advance, BackfillStart, BackfillScan, BackfillEnd, ProcessRow, SkipRow, DropRow,
      MalformedRow, Fail

\* The ingest, its backfills and the hot path together implement UsageLedger.
THEOREM LedgerRefined == Spec => LedgerSpec
<1>1. Init => Ledger!Init
  BY DEF Init, Ledger!Init
<1> QED
  BY <1>1, LedgerStep, SafeCorrect, PTL DEF Spec, LedgerSpec, Ledger!Spec, Ledger!lvars

-----------------------------------------------------------------------------
\* The watermark, for any number of replicas, any look-back and any startTimes.

\* The watermark and its history variable are left alone together.
USE DEF mark

\* What a tick in progress knows: where it started from, and that every row of its
\* batch is settled, still to be processed, or not below the row it holds.
RunOK(x) ==
  /\ x.pc = "scan" => x.hold = NoHold
  /\ x.pc = "rows" =>
       /\ x.scope \subseteq arrived
       /\ x.last > x.from
       /\ x.hold # NoHold => x.hold > x.from
       /\ \A r \in x.todo : start[r] > x.from
       /\ \A r \in x.scope : \/ Settled(r)
                             \/ r \in x.todo
                             \/ x.hold # NoHold /\ x.hold <= start[r]

TickOK == HoldRespected /\ \A w \in LiveWorkers : RunOK(run[w])

LEMMA TickOKInit == Init => TickOK
  BY DEF Init, TickOK, HoldRespected, RunOK, Idle, NoHold, Workers

\* Settled rows stay settled while the ledger and the anomalies only grow.
LEMMA SettledStable ==
  ASSUME ledger \subseteq ledger', anomalies \subseteq anomalies',
         NEW r \in Rows, Settled(r)
  PROVE  Settled(r)'
  BY DEF Settled, Charged, Flagged

\* A step that takes nothing back: rows keep their startTime, ledger and anomalies grow.
Grows ==
  /\ ledger \subseteq ledger' /\ anomalies \subseteq anomalies'
  /\ arrived \subseteq arrived' /\ \A r \in arrived : start'[r] = start[r]

\* A tick that such a step leaves alone, or ends.
LEMMA RunStays ==
  ASSUME Safe, TickOK, Grows, NEW w \in LiveWorkers,
         run'[w] = run[w] \/ run'[w] = Idle
  PROVE  RunOK(run[w])'
<1>1. CASE run'[w] = Idle
  BY <1>1 DEF RunOK, Idle
<1>2. CASE run'[w] = run[w]
  <2>1. /\ run[w] \in Run /\ run[w].todo \subseteq arrived /\ RunOK(run[w])
        /\ arrived \subseteq Rows
    BY DEF Safe, TypeOK, RowsOK, TickOK, Workers
  <2>2. \A r \in arrived : Settled(r) => Settled(r)'
    BY <2>1, SettledStable DEF Grows
  <2> QED
    BY <1>2, <2>1, <2>2 DEF RunOK, Grows
<1> QED
  BY <1>1, <1>2

\* A step that leaves the watermark alone, writes no row, and moves no tick forward.
LEMMA QuietTickOK ==
  ASSUME Safe, TickOK, Grows, UNCHANGED <<watermark, unread, arrived>>,
         \A w \in LiveWorkers : run'[w] = run[w] \/ run'[w] = Idle
  PROVE  TickOK'
<1>1. arrived \subseteq Rows
  BY DEF Safe, TypeOK
<1>2. \A r \in arrived : Settled(r) => Settled(r)'
  BY <1>1, SettledStable DEF Grows
<1>3. HoldRespected'
  BY <1>2 DEF TickOK, HoldRespected, Grows
<1> QED
  BY <1>3, RunStays DEF TickOK

\* A step of one replica, which gets the run x.
LEMMA TickMoves ==
  ASSUME Safe, TickOK, Grows, UNCHANGED <<watermark, unread, arrived, start>>,
         NEW w \in LiveWorkers, NEW x, run' = [run EXCEPT ![w] = x],
         x.pc = "scan" => x.hold = NoHold,
         x.pc = "rows" =>
           /\ x.scope \subseteq arrived
           /\ x.last > x.from
           /\ x.hold # NoHold => x.hold > x.from
           /\ \A r \in x.todo : start[r] > x.from
           /\ \A r \in x.scope : \/ Settled(r)'
                                 \/ r \in x.todo
                                 \/ x.hold # NoHold /\ x.hold <= start[r]
  PROVE  TickOK'
<1>1. arrived \subseteq Rows /\ run \in [Workers -> Run] /\ w \in Workers
  BY DEF Safe, TypeOK, Workers
<1>2. \A r \in arrived : Settled(r) => Settled(r)'
  BY <1>1, SettledStable DEF Grows
<1>3. HoldRespected'
  BY <1>2 DEF TickOK, HoldRespected, Grows
<1>4. run'[w] = x
  BY <1>1
<1>5. RunOK(run[w])'
  BY <1>4 DEF RunOK
<1>6. ASSUME NEW v \in LiveWorkers, v # w PROVE RunOK(run[v])'
  <2>1. run'[v] = run[v]
    BY <1>1, <1>6 DEF Workers
  <2> QED
    BY <2>1, RunStays
<1> QED
  BY <1>3, <1>5, <1>6 DEF TickOK

LEMMA ArriveTickOK ==
  ASSUME Safe, TickOK, NEW r \in Rows, NEW s \in 1..MaxTime,
         NEW u \in Users \cup {NoUser, BadUser}, Arrive(r, s, u)
  PROVE  TickOK'
<1>0. /\ r \notin arrived /\ arrived' = arrived \cup {r}
      /\ start' = [start EXCEPT ![r] = s] /\ start \in [Rows -> 0..MaxTime]
      /\ unread' = unread \cup {q \in {r} : s <= watermark}
      /\ UNCHANGED <<ledger, watermark, anomalies, run>>
      /\ arrived \subseteq Rows
  BY DEF Arrive, Safe, TypeOK
<1>1. Grows
  BY <1>0 DEF Grows
<1>2. \A q \in arrived : Settled(q) => Settled(q)'
  BY <1>0, SettledStable DEF Grows
<1>3. HoldRespected'
  BY <1>0, <1>2 DEF TickOK, HoldRespected
<1> QED
  BY <1>0, <1>1, <1>3, RunStays DEF TickOK

LEMMA TickReadOK ==
  ASSUME Safe, TickOK, NEW w \in LiveWorkers, TickRead(w)
  PROVE  TickOK'
<1> DEFINE x == [Idle EXCEPT
                   !.pc = "scan",
                   !.from = IF watermark = NoMark THEN now - Lookback ELSE watermark]
<1>1. x.pc = "scan" /\ x.hold = NoHold
  BY DEF Idle
<1>2. run' = [run EXCEPT ![w] = x] /\ UNCHANGED <<env, ledger, mark, anomalies>>
  BY DEF TickRead
<1>3. Grows
  BY <1>2 DEF Grows, env
<1> HIDE DEF x
<1> QED
  BY <1>1, <1>2, <1>3, TickMoves DEF env

LEMMA TickScanOK ==
  ASSUME Safe, TickOK, NEW w \in LiveWorkers, TickScan(w)
  PROVE  TickOK'
<1>0. /\ run[w] \in Run /\ run[w].pc = "scan" /\ run[w].hold = NoHold
      /\ UNCHANGED <<env, ledger, mark, anomalies>>
      /\ start \in [Rows -> 0..MaxTime] /\ arrived \subseteq Rows
  BY DEF Safe, TypeOK, TickOK, RunOK, TickScan, Workers
<1>1. Grows
  BY <1>0 DEF Grows, env
<1>2. CASE run' = [run EXCEPT ![w] = Idle]
  <2>1. \A v \in LiveWorkers : run'[v] = run[v] \/ run'[v] = Idle
    BY <1>2 DEF Safe, TypeOK, Workers
  <2> QED
    BY <1>0, <1>1, <2>1, QuietTickOK DEF env
<1>3. ASSUME NEW B \in SUBSET Matching(w), NEW l \in B, Scanned(w, B, B, start[l])
      PROVE  TickOK'
  <2> DEFINE x == [run[w] EXCEPT !.pc = "rows", !.scope = B, !.todo = B,
                                 !.last = start[l], !.cutoff = now - HoldWindow]
  <2>1. B \subseteq arrived /\ \A q \in B : start[q] > run[w].from
    BY DEF Matching
  <2>2. /\ x.pc = "rows" /\ x.from = run[w].from /\ x.hold = NoHold
        /\ x.scope = B /\ x.todo = B /\ x.last = start[l]
    BY <1>0 DEF Run
  <2>3. run' = [run EXCEPT ![w] = x]
    BY <1>3 DEF Scanned
  <2> HIDE DEF x
  <2> QED
    BY <1>0, <1>1, <2>1, <2>2, <2>3, TickMoves DEF env
<1> QED
  BY <1>2, <1>3 DEF TickScan

LEMMA TickEndOK ==
  ASSUME Safe, TickOK, NEW w \in LiveWorkers, TickEnd(w)
  PROVE  TickOK' /\ watermark' >= run[w].from
<1> DEFINE to == IF run[w].hold # NoHold /\ run[w].hold - 1 < run[w].last
                 THEN run[w].hold - 1 ELSE run[w].last
<1>0. /\ run[w] \in Run /\ run[w].pc = "rows" /\ run[w].todo = {}
      /\ UNCHANGED <<env, ledger, anomalies>>
      /\ start \in [Rows -> 0..MaxTime] /\ arrived \subseteq Rows
      /\ run[w].last \in 0..MaxTime /\ run[w].hold \in -1..MaxTime /\ run[w].from \in Int
      /\ watermark \in -1..MaxTime /\ MaxTime \in Nat
      /\ run \in [Workers -> Run]
      /\ run' = [run EXCEPT ![w] = Idle]
      /\ watermark' = to
      /\ unread' = unread \cup
           {r \in arrived \ run[w].scope : watermark < start[r] /\ start[r] <= to}
  BY BoundAssumption DEF Safe, TypeOK, TickEnd, Advance, Workers, Run
<1>1. /\ run[w].last > run[w].from
      /\ run[w].hold # NoHold => run[w].hold > run[w].from
      /\ \A r \in run[w].scope :
           Settled(r) \/ (run[w].hold # NoHold /\ run[w].hold <= start[r])
  BY <1>0 DEF TickOK, RunOK
<1>2. to >= run[w].from
  BY <1>0, <1>1
<1>3. Grows
  BY <1>0 DEF Grows, env
<1>4. \A r \in arrived : Settled(r) => Settled(r)'
  BY <1>0, SettledStable DEF Grows
<1>5. ASSUME NEW r \in arrived, start[r] <= to
      PROVE  Settled(r) \/ r \in unread'
  <2>1. start[r] \in 0..MaxTime
    BY <1>0
  <2>2. CASE start[r] <= watermark
    BY <1>0, <2>2 DEF TickOK, HoldRespected
  <2>3. CASE ~(start[r] <= watermark) /\ r \notin run[w].scope
    BY <1>0, <1>5, <2>1, <2>3
  <2>4. CASE r \in run[w].scope
    BY <1>0, <1>1, <1>5, <2>1, <2>4
  <2> QED
    BY <2>2, <2>3, <2>4
<1>6. HoldRespected'
  <2> HIDE DEF to
  <2> QED
    BY <1>0, <1>4, <1>5 DEF HoldRespected, env
<1>7. \A v \in LiveWorkers : run'[v] = run[v] \/ run'[v] = Idle
  BY <1>0 DEF Workers
<1> QED
  BY <1>0, <1>2, <1>3, <1>6, <1>7, RunStays DEF TickOK

LEMMA SkipTickOK ==
  ASSUME Safe, TickOK, NEW w \in LiveWorkers, NEW r \in run[w].todo, SkipRow(w, r)
  PROVE  TickOK'
<1> DEFINE agedOut == start[r] < run[w].cutoff
           hold == IF ~agedOut /\ (run[w].hold = NoHold \/ start[r] < run[w].hold)
                   THEN start[r] ELSE run[w].hold
           x == [run[w] EXCEPT !.todo = @ \ {r}, !.hold = hold]
<1>0. /\ run[w] \in Run /\ run[w].pc = "rows"
      /\ UNCHANGED <<env, ledger, mark>>
      /\ anomalies \subseteq anomalies'
      /\ r \in arrived /\ r \in Rows /\ start \in [Rows -> 0..MaxTime]
      /\ arrived \subseteq Rows
      /\ run[w].last \in Int /\ run[w].hold \in -1..MaxTime /\ run[w].from \in Int
      /\ start[r] \in -1..MaxTime /\ start[r] >= 1
  BY DEF Safe, TypeOK, RowsOK, SkipRow, Workers, Run
<1>1. hold \in -1..MaxTime
  BY <1>0
<1>2. run' = [run EXCEPT ![w] = x]
  BY DEF SkipRow
<1>3. /\ x.pc = "rows" /\ x.from = run[w].from /\ x.last = run[w].last
      /\ x.scope = run[w].scope /\ x.todo = run[w].todo \ {r} /\ x.hold = hold
  <2> HIDE DEF hold
  <2> QED
    BY <1>0, <1>1 DEF Run
<1>4. /\ run[w].scope \subseteq arrived
      /\ run[w].last > run[w].from
      /\ run[w].hold # NoHold => run[w].hold > run[w].from
      /\ \A q \in run[w].todo : start[q] > run[w].from
      /\ \A q \in run[w].scope :
           \/ Settled(q)
           \/ q \in run[w].todo
           \/ run[w].hold # NoHold /\ run[w].hold <= start[q]
  BY <1>0 DEF TickOK, RunOK
<1>5. Grows
  BY <1>0 DEF Grows, env
<1>6. \A q \in arrived : Settled(q) => Settled(q)'
  BY <1>0, SettledStable DEF Grows
<1>7. agedOut => Settled(r)'
  BY DEF SkipRow, Settled, Flagged
<1>8. /\ ~agedOut => hold # NoHold /\ hold <= start[r]
      /\ run[w].hold # NoHold => hold # NoHold /\ hold <= run[w].hold
      /\ hold # NoHold => hold > run[w].from
  <2>1. start[r] > run[w].from
    BY <1>4
  <2> QED
    BY <1>0, <1>4, <2>1 DEF NoHold
<1> HIDE DEF hold, agedOut
<1>9. ASSUME NEW q \in x.scope
      PROVE  Settled(q)' \/ q \in x.todo \/ (x.hold # NoHold /\ x.hold <= start[q])
  <2>1. q \in run[w].scope /\ q \in arrived /\ start[q] \in Int
    BY <1>0, <1>3, <1>4
  <2>2. hold \in Int /\ run[w].hold \in Int
    BY <1>0, <1>1
  <2>3. CASE q = r
    BY <1>3, <1>7, <1>8, <2>3
  <2>4. CASE q # r /\ q \in run[w].todo
    BY <1>3, <2>4
  <2>5. CASE Settled(q)
    BY <1>6, <2>1, <2>5
  <2>6. CASE run[w].hold # NoHold /\ run[w].hold <= start[q]
    BY <1>3, <1>8, <2>1, <2>2, <2>6
  <2> QED
    BY <1>4, <2>1, <2>3, <2>4, <2>5, <2>6
<1>10. /\ x.scope \subseteq arrived /\ x.last > x.from
       /\ x.hold # NoHold => x.hold > x.from
       /\ \A q \in x.todo : start[q] > x.from
  BY <1>3, <1>4, <1>8
<1> HIDE DEF x
<1> QED
  BY <1>0, <1>2, <1>3, <1>5, <1>9, <1>10, TickMoves DEF env

LEMMA BillTickOK ==
  ASSUME Safe, TickOK, NEW w \in LiveWorkers, NEW r \in run[w].todo,
         DropRow(w, r) \/ BillRow(w, r)
  PROVE  TickOK'
<1> DEFINE x == [run[w] EXCEPT !.todo = @ \ {r}]
<1>0. /\ run[w] \in Run /\ run[w].pc = "rows"
      /\ UNCHANGED <<env, mark>>
      /\ ledger \subseteq ledger' /\ anomalies \subseteq anomalies'
      /\ r \in Rows /\ arrived \subseteq Rows
  BY DEF Safe, TypeOK, DropRow, BillRow, Insert, Workers, Run
<1>1. run' = [run EXCEPT ![w] = x]
  BY DEF DropRow, BillRow
<1>2. /\ x.pc = "rows" /\ x.from = run[w].from /\ x.last = run[w].last
      /\ x.scope = run[w].scope /\ x.todo = run[w].todo \ {r} /\ x.hold = run[w].hold
  BY <1>0 DEF Run
<1>3. /\ run[w].scope \subseteq arrived
      /\ run[w].last > run[w].from
      /\ run[w].hold # NoHold => run[w].hold > run[w].from
      /\ \A q \in run[w].todo : start[q] > run[w].from
      /\ \A q \in run[w].scope :
           \/ Settled(q)
           \/ q \in run[w].todo
           \/ run[w].hold # NoHold /\ run[w].hold <= start[q]
  BY <1>0 DEF TickOK, RunOK
<1>4. Grows
  BY <1>0 DEF Grows, env
<1>5. \A q \in arrived : Settled(q) => Settled(q)'
  BY <1>0, SettledStable DEF Grows
<1>6. Settled(r)'
  <2>1. CASE DropRow(w, r)
    BY <2>1 DEF DropRow, Settled, Flagged
  <2>2. CASE BillRow(w, r)
    <3> DEFINE e == [rid |-> ridOf[r], user |-> endUser[r], tenant |-> Tenant(r),
                     day |-> Day(start[r])]
    <3>1. ledger' = IF Charged(ridOf[r]) THEN ledger ELSE ledger \cup {e}
      BY <2>2 DEF BillRow, Insert
    <3>2. e.rid = ridOf[r]
      OBVIOUS
    <3> HIDE DEF e
    <3>3. \E f \in ledger' : f.rid = ridOf[r]
      BY <3>1, <3>2 DEF Charged
    <3> QED
      BY <3>3 DEF Settled, Charged
  <2> QED
    BY <2>1, <2>2
<1>7. /\ x.scope \subseteq arrived /\ x.last > x.from
      /\ x.hold # NoHold => x.hold > x.from
      /\ \A q \in x.todo : start[q] > x.from
      /\ \A q \in x.scope : \/ Settled(q)'
                            \/ q \in x.todo
                            \/ x.hold # NoHold /\ x.hold <= start[q]
  BY <1>2, <1>3, <1>5, <1>6
<1> HIDE DEF x
<1> QED
  BY <1>0, <1>1, <1>2, <1>4, <1>7, TickMoves DEF env

\* No backfill ever skips a row: its rows belong to its tenant.
LEMMA BackfillSkipsNothing ==
  ASSUME Safe, NEW b \in Backfillers, NEW r \in run[b].todo, SkipRow(b, r)
  PROVE  FALSE
<1>1. run[b].pc = "rows" /\ Tenant(r) = NoTenant
  BY DEF SkipRow
<1>2. Tenant(r) \in Tenants
  <2>1. /\ run[b] \in Run /\ endUser[r] \in run[b].only
        /\ tenantOf[endUser[r]] = run[b].tenant /\ run[b].tenant \in Tenants
    BY DEF Safe, TypeOK, BackfillOK, Workers
  <2>2. endUser[r] \in Users
    BY <2>1 DEF Run
  <2> QED
    BY <2>1, <2>2 DEF Tenant
<1> QED
  BY <1>1, <1>2, NullAssumption

\* A step of anybody else than a replica of the tick.
LEMMA OtherTickOK ==
  ASSUME Safe, TickOK, UNCHANGED <<mark, arrived, start>>,
         ledger \subseteq ledger', anomalies \subseteq anomalies',
         \A w \in LiveWorkers : run'[w] = run[w] \/ run'[w] = Idle
  PROVE  TickOK'
<1>1. Grows
  BY DEF Grows
<1> QED
  BY <1>1, QuietTickOK

LEMMA HoldStep ==
  ASSUME Safe, TickOK, [Next]_vars
  PROVE  /\ TickOK'
         /\ watermark' # watermark =>
              \E w \in LiveWorkers : TickEnd(w) /\ watermark' >= run[w].from
<1> USE DEF Workers
<1>0. run \in [Workers -> Run]
  BY DEF Safe, TypeOK
<1>1. CASE UNCHANGED vars
  BY <1>1, OtherTickOK DEF vars
<1>2. ASSUME NEW r \in Rows, NEW s \in 1..MaxTime,
             NEW u \in Users \cup {NoUser, BadUser}, Arrive(r, s, u)
      PROVE  TickOK' /\ UNCHANGED watermark
  BY <1>2, ArriveTickOK DEF Arrive
<1>3. ASSUME \/ Clock
             \/ \E r \in Rows : GainEndUser(r)
             \/ \E u \in Users : Register(u)
             \/ \E r \in Rids : ApiCharge(r)
      PROVE  TickOK' /\ UNCHANGED watermark
  <2>1. /\ UNCHANGED <<mark, start, arrived, run, anomalies>>
        /\ ledger \subseteq ledger'
    BY <1>3 DEF Clock, GainEndUser, Register, ApiCharge, Insert, env
  <2> QED
    BY <2>1, OtherTickOK
<1>4. ASSUME NEW w \in LiveWorkers, TickRead(w) \/ TickScan(w)
      PROVE  TickOK' /\ UNCHANGED watermark
  BY <1>4, TickReadOK, TickScanOK DEF TickRead, TickScan
<1>5. ASSUME NEW w \in LiveWorkers, TickEnd(w)
      PROVE  TickOK' /\ watermark' >= run[w].from
  BY <1>5, TickEndOK
<1>6. ASSUME NEW b \in Backfillers,
             \/ \E t \in Tenants, win \in Windows : BackfillStart(b, t, win)
             \/ BackfillScan(b)
             \/ BackfillEnd(b)
      PROVE  TickOK' /\ UNCHANGED watermark
  <2>1. UNCHANGED <<env, mark, ledger, anomalies>>
    BY <1>6 DEF BackfillStart, BackfillScan, BackfillEnd
  <2>2. \A w \in LiveWorkers : run'[w] = run[w]
    BY <1>0, <1>6, WorkerAssumption DEF BackfillStart, BackfillScan, BackfillEnd, Scanned
  <2> QED
    BY <2>1, <2>2, OtherTickOK DEF env
<1>7. ASSUME NEW w \in Workers, Fail(w) \/ \E r \in run[w].todo : MalformedRow(w, r)
      PROVE  TickOK' /\ UNCHANGED watermark
  <2>1. UNCHANGED <<env, mark, ledger, anomalies>>
    BY <1>7 DEF Fail, MalformedRow
  <2>2. \A v \in LiveWorkers : run'[v] = run[v] \/ run'[v] = Idle
    BY <1>0, <1>7 DEF Fail, MalformedRow
  <2> QED
    BY <2>1, <2>2, OtherTickOK DEF env
<1>8. ASSUME NEW w \in LiveWorkers, NEW r \in run[w].todo,
             SkipRow(w, r) \/ DropRow(w, r) \/ BillRow(w, r)
      PROVE  TickOK' /\ UNCHANGED watermark
  BY <1>8, SkipTickOK, BillTickOK DEF SkipRow, DropRow, BillRow
<1>9. ASSUME NEW b \in Backfillers, NEW r \in run[b].todo,
             SkipRow(b, r) \/ DropRow(b, r) \/ BillRow(b, r)
      PROVE  TickOK' /\ UNCHANGED watermark
  <2>1. /\ UNCHANGED <<env, mark>>
        /\ ledger \subseteq ledger' /\ anomalies \subseteq anomalies'
    BY <1>9 DEF SkipRow, DropRow, BillRow, Insert
  <2>2. \A w \in LiveWorkers : run'[w] = run[w]
    BY <1>0, <1>9, WorkerAssumption DEF SkipRow, DropRow, BillRow
  <2> QED
    BY <2>1, <2>2, OtherTickOK DEF env
<1> QED
  BY <1>1, <1>2, <1>3, <1>4, <1>5, <1>6, <1>7, <1>8, <1>9
     DEF Next, Environment, ProcessRow, vars

\* However many replicas tick, whatever the look-back, and whatever fails in between: a
\* row the watermark has passed is billed, dropped for its duration or aged out, or was
\* not in the batch of the tick that took the watermark past it.
THEOREM HoldCorrect == Spec => []HoldRespected
<1>1. Init => TickOK
  BY TickOKInit
<1>2. Safe /\ TickOK /\ [Next]_vars => TickOK'
  BY HoldStep
<1>3. TickOK => HoldRespected
  BY DEF TickOK
<1> QED
  BY <1>1, <1>2, <1>3, SafeCorrect, PTL DEF Spec

\* However many replicas tick, only the end of a tick writes the watermark, and never
\* behind the value that tick read.
THEOREM WatermarkForwardCorrect == Spec => WatermarkForward
<1>1. Init => TickOK
  BY TickOKInit
<1>2. Safe /\ TickOK /\ [Next]_vars =>
        /\ TickOK'
        /\ [watermark' # watermark =>
              \E w \in LiveWorkers : TickEnd(w) /\ watermark' >= run[w].from]_vars
  BY HoldStep
<1> QED
  BY <1>1, <1>2, SafeCorrect, PTL DEF Spec, WatermarkForward

-----------------------------------------------------------------------------
\* The backfill's window.

\* A row of a backfill that is billed, to be billed, or of no use.
Handled(b, r) == r \in run[b].todo \/ Charged(ridOf[r]) \/ r \notin Billable

\* BatchSize rows of the window, handled and not younger: r fell to the LIMIT.
BehindLimit(b, r) ==
  \E B \in SUBSET run[b].scope :
    /\ Cardinality(B) = BatchSize
    /\ r \notin B
    /\ \A q \in B : Handled(b, q) /\ start[q] <= start[r]

WindowCovered ==
  \A b \in Backfillers : run[b].pc = "rows" =>
    /\ run[b].scope \subseteq arrived
    /\ \A r \in run[b].scope : Handled(b, r) \/ BehindLimit(b, r)

\* No charge is taken back, and a row keeps its startTime.
LEMMA ChargedStays ==
  ASSUME [Next]_vars
  PROVE  /\ ledger \subseteq ledger' /\ arrived \subseteq arrived'
         /\ \A r \in arrived : Safe => start'[r] = start[r]
<1>1. CASE UNCHANGED vars
  BY <1>1 DEF vars
<1>2. CASE Environment
  <2>1. ASSUME NEW r \in Rows, NEW s \in 1..MaxTime, NEW u \in Users \cup {NoUser, BadUser},
               Arrive(r, s, u)
        PROVE  /\ ledger' = ledger /\ arrived \subseteq arrived'
               /\ \A q \in arrived : Safe => start'[q] = start[q]
    BY <2>1 DEF Arrive, Safe, TypeOK
  <2> QED
    BY <1>2, <2>1 DEF Environment, Clock, GainEndUser, Register, ApiCharge, Insert, env
<1>3. CASE \E w \in LiveWorkers : TickRead(w) \/ TickScan(w) \/ TickEnd(w)
  BY <1>3 DEF TickRead, TickScan, TickEnd, Advance, env
<1>4. CASE \E b \in Backfillers :
             \/ \E t \in Tenants, win \in Windows : BackfillStart(b, t, win)
             \/ BackfillScan(b) \/ BackfillEnd(b)
  BY <1>4 DEF BackfillStart, BackfillScan, BackfillEnd, env
<1>5. CASE \E w \in Workers : ProcessRow(w) \/ Fail(w)
  BY <1>5 DEF ProcessRow, SkipRow, DropRow, BillRow, MalformedRow, Insert, Fail, env
<1> QED
  BY <1>1, <1>2, <1>3, <1>4, <1>5 DEF Next

\* A run that keeps what its SELECT matched, and loses no row it has not handled.
LEMMA CoverCarried ==
  ASSUME Safe, [Next]_vars, NEW b \in Backfillers, run[b].pc = "rows",
         run[b].scope \subseteq arrived,
         \A r \in run[b].scope : Handled(b, r) \/ BehindLimit(b, r),
         run'[b].scope = run[b].scope,
         \A r \in run[b].todo : r \in run'[b].todo \/ Charged(ridOf[r])' \/ r \notin Billable
  PROVE  /\ run'[b].scope \subseteq arrived'
         /\ \A r \in run'[b].scope : Handled(b, r)' \/ BehindLimit(b, r)'
<1>1. \A r \in Rows : Charged(ridOf[r]) => Charged(ridOf[r])'
  BY ChargedStays DEF Charged
<1>2. run[b].scope \subseteq Rows /\ \A r \in run[b].scope : start'[r] = start[r]
  BY ChargedStays DEF Safe, TypeOK
<1>3. \A r \in run[b].scope : Handled(b, r) => Handled(b, r)'
  BY <1>1, <1>2 DEF Handled
<1>4. ASSUME NEW r \in run[b].scope, BehindLimit(b, r)
      PROVE  BehindLimit(b, r)'
  <2>1. PICK B \in SUBSET run[b].scope :
               /\ Cardinality(B) = BatchSize
               /\ r \notin B
               /\ \A q \in B : Handled(b, q) /\ start[q] <= start[r]
    BY <1>4 DEF BehindLimit
  <2>2. \A q \in B : Handled(b, q)' /\ start'[q] <= start'[r]
    BY <1>2, <1>3, <2>1
  <2> QED
    BY <2>1, <2>2 DEF BehindLimit
<1> QED
  BY <1>3, <1>4, ChargedStays

\* Between the SELECT and the end of a run, no row of its window gets lost.
LEMMA WindowStep == Safe /\ WindowCovered /\ [Next]_vars => WindowCovered'
<1> SUFFICES ASSUME Safe, WindowCovered, [Next]_vars,
                    NEW b \in Backfillers, run'[b].pc = "rows"
             PROVE  /\ run'[b].scope \subseteq arrived'
                    /\ \A r \in run'[b].scope : Handled(b, r)' \/ BehindLimit(b, r)'
  BY DEF WindowCovered
<1> USE DEF Workers
<1>0. /\ b \in Workers /\ run[b] \in Run /\ run \in [Workers -> Run] /\ Idle.pc = "idle"
      /\ run[b].pc = "rows" =>
           /\ run[b].scope \subseteq arrived
           /\ \A r \in run[b].scope : Handled(b, r) \/ BehindLimit(b, r)
  BY DEF Safe, TypeOK, Idle, WindowCovered
<1>1. CASE run'[b] = run[b]
  <2>1. \A r \in run[b].todo : r \in run'[b].todo
    BY <1>1
  <2> QED
    BY <1>0, <1>1, <2>1, CoverCarried
<1>2. CASE run'[b] # run[b]
  <2>1. CASE BackfillScan(b)
    <3>1. PICK B \in SUBSET InWindow(b) : IsBatch(B, InWindow(b)) /\ Scanned(b, InWindow(b), B, 0)
      BY <2>1 DEF BackfillScan
    <3>2. /\ run'[b].scope = InWindow(b) /\ run'[b].todo = B
          /\ UNCHANGED <<arrived, start>>
      BY <1>0, <2>1, <3>1 DEF Scanned, Run, BackfillScan, env
    <3>3. InWindow(b) \subseteq arrived
      BY DEF InWindow
    <3>4. ASSUME NEW r \in InWindow(b), r \notin B
          PROVE  BehindLimit(b, r)'
      <4>1. Cardinality(B) = BatchSize /\ \A q \in B : start[q] <= start[r]
        BY <3>1, <3>4 DEF IsBatch
      <4>2. \A q \in B : Handled(b, q)'
        BY <3>2 DEF Handled
      <4> QED
        BY <3>2, <3>4, <4>1, <4>2 DEF BehindLimit
    <3>5. \A r \in B : Handled(b, r)'
      BY <3>2 DEF Handled
    <3> QED
      BY <3>2, <3>3, <3>4, <3>5
  <2>2. ASSUME NEW r \in run[b].todo, DropRow(b, r) \/ BillRow(b, r)
        PROVE  /\ run'[b].scope \subseteq arrived'
               /\ \A q \in run'[b].scope : Handled(b, q)' \/ BehindLimit(b, q)'
    <3>1. /\ run[b].pc = "rows"
          /\ run'[b].scope = run[b].scope /\ run'[b].todo = run[b].todo \ {r}
      BY <1>0, <2>2 DEF DropRow, BillRow, Run
    <3>2. r \notin Billable \/ Charged(ridOf[r])'
      <4>1. CASE DropRow(b, r)
        BY <4>1 DEF DropRow
      <4>2. CASE BillRow(b, r)
        <5> DEFINE e == [rid |-> ridOf[r], user |-> endUser[r], tenant |-> Tenant(r),
                         day |-> Day(start[r])]
        <5>1. ledger' = IF Charged(ridOf[r]) THEN ledger ELSE ledger \cup {e}
          BY <4>2 DEF BillRow, Insert
        <5>2. e.rid = ridOf[r]
          OBVIOUS
        <5> HIDE DEF e
        <5>3. \E f \in ledger' : f.rid = ridOf[r]
          BY <5>1, <5>2 DEF Charged
        <5> QED
          BY <5>3 DEF Charged
      <4> QED
        BY <2>2, <4>1, <4>2
    <3> QED
      BY <1>0, <3>1, <3>2, CoverCarried
  <2>3. \/ BackfillScan(b)
        \/ \E r \in run[b].todo : SkipRow(b, r) \/ DropRow(b, r) \/ BillRow(b, r)
        \/ run'[b].pc # "rows"
    <3>1. CASE Environment
      BY <1>2, <3>1 DEF Environment, Clock, Arrive, GainEndUser, Register, ApiCharge
    <3>2. ASSUME NEW w \in LiveWorkers, TickRead(w) \/ TickScan(w) \/ TickEnd(w)
          PROVE  run'[b] = run[b]
      <4>1. w # b
        BY WorkerAssumption
      <4> QED
        BY <1>0, <3>2, <4>1 DEF TickRead, TickScan, TickEnd, Advance, Scanned
    <3>3. ASSUME NEW c \in Backfillers, NEW t \in Tenants, NEW win \in Windows,
                 BackfillStart(c, t, win)
          PROVE  run'[b] = run[b] \/ run'[b].pc # "rows"
      BY <1>0, <3>3 DEF BackfillStart, Idle
    <3>4. ASSUME NEW c \in Backfillers, BackfillScan(c), c # b
          PROVE  run'[b] = run[b]
      BY <1>0, <3>4 DEF BackfillScan, Scanned
    <3>5. ASSUME NEW c \in Backfillers, BackfillEnd(c)
          PROVE  run'[b] = run[b] \/ run'[b].pc # "rows"
      BY <1>0, <3>5 DEF BackfillEnd
    <3>6. ASSUME NEW w \in Workers, Fail(w) \/ \E r \in run[w].todo : MalformedRow(w, r)
          PROVE  run'[b] = run[b] \/ run'[b].pc # "rows"
      BY <1>0, <3>6 DEF Fail, MalformedRow
    <3>7. ASSUME NEW w \in Workers, w # b, NEW r \in run[w].todo,
                 SkipRow(w, r) \/ DropRow(w, r) \/ BillRow(w, r)
          PROVE  run'[b] = run[b]
      BY <1>0, <3>7 DEF SkipRow, DropRow, BillRow
    <3>8. CASE UNCHANGED vars
      BY <1>2, <3>8 DEF vars
    <3> QED
      BY <1>2, <3>1, <3>2, <3>3, <3>4, <3>5, <3>6, <3>7, <3>8 DEF Next, ProcessRow
  <2> QED
    BY <2>1, <2>2, <2>3, BackfillSkipsNothing
<1> QED
  BY <1>1, <1>2

\* A backfill passes over a row of its window only behind BatchSize older ones: what
\* its SELECT matched and the LIMIT left it, is handled when it ends.
THEOREM WindowCoveredCorrect == Spec => []WindowCovered
<1>1. Init => WindowCovered
  BY DEF Init, WindowCovered, Idle, Workers
<1>2. Safe /\ WindowCovered /\ [Next]_vars => WindowCovered'
  BY WindowStep
<1> QED
  BY <1>1, <1>2, SafeCorrect, PTL DEF Spec

\* The rows of each window fit into one batch.
WindowFits ==
  \A b \in Backfillers :
    IsFiniteSet(run[b].scope) /\ Cardinality(run[b].scope) <= BatchSize

\* A backfill whose window fits into one batch leaves no row of it unbilled that has a
\* usable duration, whatever ticks and hot-path charges run beside it.
THEOREM BackfillCovers == Spec => [](WindowFits => BackfillCoversWindow)
<1>1. WindowCovered => (WindowFits => BackfillCoversWindow)
  <2> SUFFICES ASSUME WindowCovered, WindowFits, NEW b \in Backfillers,
                      run[b].pc = "rows", run[b].todo = {}, NEW r \in run[b].scope
               PROVE  Charged(ridOf[r]) \/ r \notin Billable
    BY DEF BackfillCoversWindow
  <2>1. ASSUME BehindLimit(b, r)
        PROVE  FALSE
    <3>1. PICK B \in SUBSET run[b].scope : Cardinality(B) = BatchSize /\ r \notin B
      BY <2>1 DEF BehindLimit
    <3>2. IsFiniteSet(run[b].scope) /\ Cardinality(run[b].scope) <= BatchSize
      BY DEF WindowFits
    <3>3. B # run[b].scope
      BY <3>1
    <3>4. /\ IsFiniteSet(B)
          /\ Cardinality(B) <= Cardinality(run[b].scope)
          /\ Cardinality(B) # Cardinality(run[b].scope)
      BY <3>2, <3>3, FS_Subset
    <3>5. Cardinality(B) \in Nat /\ Cardinality(run[b].scope) \in Nat
      BY <3>2, <3>4, FS_CardinalityType
    <3> QED
      BY <3>1, <3>2, <3>4, <3>5, BoundAssumption
  <2>2. Handled(b, r)
    BY <2>1 DEF WindowCovered
  <2> QED
    BY <2>2 DEF Handled
<1> QED
  BY <1>1, WindowCoveredCorrect, PTL
====

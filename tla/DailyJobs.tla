---- MODULE DailyJobs ----
(***************************************************************************)
(* The daily jobs of apps/worker over the usage ledger: the rollup (a      *)
(* dispatcher at 00:05 UTC and one child job per tenant) and the           *)
(* reconciliation (a check at 01:00 UTC, and one windowed backfill per     *)
(* tenant that drifts).  How a backfill and the live tick read spend rows  *)
(* is SpendIngest's subject; here they insert rows of the right day.       *)
(*                                                                         *)
(* Source: apps/worker/src/jobs/usage-rollup-daily.ts,                     *)
(* reconciliation-daily-check.ts, reconciliation-discrepancy.ts,           *)
(* scheduler.ts, queues.ts.                                                *)
(*                                                                         *)
(* Time is counted in slots, three to a day: before 00:05, before 01:00,   *)
(* and the rest of the day.                                                *)
(***************************************************************************)
EXTENDS Integers, FiniteSets

CONSTANTS
  Rows,        \* requests, each with one spend row in LiteLLM
  Tenants,
  tenant,      \* the tenant of each row's end_user
  Nobody,      \* "tenant" of a row without an end_user, or of no known user
  Malformed,   \* "tenant" of a row whose end_user is not a UUID
  Cheap,       \* rows whose cost is within the threshold on US cents
  Attempts,    \* attempts of a job
  Prompt,      \* TRUE: no job waits until the next slot
  DriftParts,  \* a drift counts when it exceeds one part in DriftParts
  MinTime, MaxTime,      \* bounds: the first and the last slot
  LastRequest, \* bound: the last slot in which a request is made
  MaxFails,    \* bound: how many attempts of jobs fail by chance
  MaxByHand,   \* bound: repair jobs an operator adds
  MaxChildren  \* bound: child jobs of one tenant and day that wait at once

SlotsPerDay == 3
RollupSlot == 1     \* "5 0 * * *"
CheckSlot == 2      \* "0 1 * * *"

ASSUME RowsAssumption ==
  /\ {Nobody, Malformed} \cap Tenants = {}
  /\ tenant \in [Rows -> Tenants \cup {Nobody, Malformed}]
  /\ Cheap \subseteq Rows /\ IsFiniteSet(Rows)
ASSUME BoundsAssumption ==
  /\ Attempts \in Nat \ {0}
  /\ Prompt \in BOOLEAN
  /\ DriftParts \in Nat \ {0}
  /\ MaxTime \in Nat
  /\ MinTime \in CheckSlot..MaxTime
  /\ LastRequest \in Nat
  /\ MaxFails \in Nat
  /\ MaxByHand \in Nat
  /\ MaxChildren \in Nat \ {0}

Day(t) == t \div SlotsPerDay
Days == 0..Day(MaxTime)
NotYet == -1
\* A value for each tenant and day.
EachDay(v) == [t \in Tenants |-> [d \in Days |-> v]]
PerDay(S) == [Tenants -> [Days -> S]]

VARIABLES
  now,
  start,       \* startTime of each request, NotYet before it is made
  spend,       \* the rows of LiteLLM_SpendLogs
  ledger,      \* usage_ledger: the day COALESCE(event_at, created_at) of a request
  rollup,      \* usage_rollup_daily: the units of a tenant and day
  rollupDue, checkDue,   \* when the next job of each scheduler becomes ready
  dispatcher,  \* the run of the rollup dispatcher
  children,    \* usage-rollup-daily-tenant jobs that wait, per tenant and day
  check,       \* the run of the reconciliation check
  drift,       \* driftStore: what the gauges report
  repairs,     \* reconciliation-discrepancy jobs, by jobId
  fails

vars == <<now, start, spend, ledger, rollup, rollupDue, checkDue,
          dispatcher, children, check, drift, repairs, fails>>
outside == <<now, start, spend>>
rollupVars == <<rollup, rollupDue, dispatcher, children>>
checkVars == <<checkDue, check, drift, repairs>>

Idle == [pc |-> "idle", day |-> NotYet, todo |-> {}, tries |-> 0,
         logged |-> {}, counted |-> [t \in Tenants |-> 0], next |-> {}]

JobState == {"none", "waiting", "active", "completed", "failed"}

\* Rows that no request of ours made.  (Bound: they are there from the first
\* slot, or never come.)
Foreign == {r \in Rows : tenant[r] \notin Tenants}

Charged(r) == ledger[r] # NotYet
Entries(t, d) == {r \in Rows : tenant[r] = t /\ ledger[r] = d}
\* The log's rows of a day, as the `startTime >= ... AND startTime < ...` sees them.
Logged(d) == {r \in spend : Day(start[r]) = d}

\* The first instant after t at which a cron pattern fires.
NextFire(slot, t) ==
  LET fire == Day(t) * SlotsPerDay + slot
  IN IF fire > t THEN fire ELSE fire + SlotsPerDay

\* "yesterday UTC", from Date.now()
LastClosedDay == Day(now) - 1

Init ==
  /\ now = MinTime
  /\ spend \in SUBSET Foreign
  /\ start = [r \in Rows |-> IF r \in spend THEN MinTime ELSE NotYet]
  /\ ledger = [r \in Rows |-> NotYet]
  /\ rollup = EachDay(NotYet)
  /\ rollupDue = NextFire(RollupSlot, MinTime)
  /\ checkDue = NextFire(CheckSlot, MinTime)
  /\ dispatcher = Idle
  /\ children = EachDay(0)
  /\ check = Idle
  /\ drift = {}
  /\ repairs = EachDay("none")
  /\ fails = 0

-----------------------------------------------------------------------------
\* The surroundings.

\* No job is ready or running.
Quiet ==
  /\ dispatcher.pc = "idle" /\ check.pc = "idle"
  /\ now < rollupDue /\ now < checkDue
  /\ \A t \in Tenants, d \in Days :
       children[t][d] = 0 /\ repairs[t][d] \notin {"waiting", "active"}

Clock ==
  /\ now < MaxTime
  /\ Prompt => Quiet
  /\ now' = now + 1
  /\ UNCHANGED <<start, spend, ledger, rollupVars, checkVars, fails>>

\* A request of ours reaches LiteLLM.
Serve(r) ==
  /\ r \notin Foreign
  /\ start[r] = NotYet
  /\ now <= LastRequest
  /\ start' = [start EXCEPT ![r] = now]
  /\ UNCHANGED <<now, spend, ledger, rollupVars, checkVars, fails>>

\* LiteLLM writes its spend row.
Log(r) ==
  /\ start[r] # NotYet
  /\ r \notin spend
  /\ spend' = spend \cup {r}
  /\ UNCHANGED <<now, start, ledger, rollupVars, checkVars, fails>>

\* The hot path charges the request when it ends, with event_at left NULL.
HotCharge(r) ==
  /\ r \notin Foreign
  /\ start[r] # NotYet
  /\ now - start[r] <= 1
  /\ ~Charged(r)
  /\ ledger' = [ledger EXCEPT ![r] = Day(now)]
  /\ UNCHANGED <<outside, rollupVars, checkVars, fails>>

\* The live tick charges a spend row, with event_at = startTime.
TickCharge(r) ==
  /\ r \in spend \ Foreign
  /\ ~Charged(r)
  /\ ledger' = [ledger EXCEPT ![r] = Day(start[r])]
  /\ UNCHANGED <<outside, rollupVars, checkVars, fails>>

-----------------------------------------------------------------------------
\* The rollup.

\* Mutant: the next job of the scheduler is a day late.
DispatchStartLate ==
  /\ dispatcher.pc = "idle"
  /\ now >= rollupDue
  /\ rollupDue' = NextFire(RollupSlot, now) + SlotsPerDay
  /\ dispatcher' = [Idle EXCEPT !.pc = "list"]
  /\ UNCHANGED <<outside, ledger, rollup, children, checkVars, fails>>
\* The dispatcher job is taken; the scheduler makes its next one.  The attempt
\* itself may begin later, when another process takes the job over.
DispatchStart ==
  /\ dispatcher.pc = "idle"
  /\ now >= rollupDue
  /\ rollupDue' = NextFire(RollupSlot, now)
  /\ dispatcher' = [Idle EXCEPT !.pc = "list"]
  /\ UNCHANGED <<outside, ledger, rollup, children, checkVars, fails>>

\* SELECT DISTINCT tenant_id of the day.
DispatchList ==
  /\ dispatcher.pc = "list"
  /\ dispatcher' = [dispatcher EXCEPT
       !.pc = "loop",
       !.day = LastClosedDay,
       !.todo = {t \in Tenants : Entries(t, LastClosedDay) # {}}]
  /\ UNCHANGED <<outside, ledger, rollup, rollupDue, children, checkVars, fails>>

\* One child job per tenant, without a jobId.
DispatchChild(t) ==
  /\ dispatcher.pc = "loop"
  /\ t \in dispatcher.todo
  /\ children[t][dispatcher.day] < MaxChildren
  /\ children' = [children EXCEPT ![t][dispatcher.day] = @ + 1]
  /\ dispatcher' = [dispatcher EXCEPT !.todo = @ \ {t}]
  /\ UNCHANGED <<outside, ledger, rollup, rollupDue, checkVars, fails>>

DispatchEnd ==
  /\ dispatcher.pc = "loop"
  /\ dispatcher.todo = {}
  /\ dispatcher' = Idle
  /\ UNCHANGED <<outside, ledger, rollup, rollupDue, children, checkVars, fails>>

\* A failed attempt starts over, until the attempts are used up.
Retried(run) ==
  IF run.tries + 1 < Attempts
  THEN [Idle EXCEPT !.pc = "list", !.tries = run.tries + 1]
  ELSE Idle

DispatchFail ==
  /\ dispatcher.pc # "idle"
  /\ fails < MaxFails
  /\ fails' = fails + 1
  /\ dispatcher' = Retried(dispatcher)
  /\ UNCHANGED <<outside, ledger, rollup, rollupDue, children, checkVars>>

\* Mutant: the totals are added to the row instead of replacing it.
RollupTenantAdds(t, d) ==
  /\ children[t][d] > 0
  /\ children' = [children EXCEPT ![t][d] = @ - 1]
  /\ rollup' = [rollup EXCEPT
       ![t][d] = IF @ = NotYet THEN Cardinality(Entries(t, d))
                 ELSE @ + Cardinality(Entries(t, d))]
  /\ UNCHANGED <<outside, ledger, rollupDue, dispatcher, checkVars, fails>>
\* A child job: aggregate the day and upsert the row, in one statement.
RollupTenant(t, d) ==
  /\ children[t][d] > 0
  /\ children' = [children EXCEPT ![t][d] = @ - 1]
  /\ rollup' = [rollup EXCEPT ![t][d] = Cardinality(Entries(t, d))]
  /\ UNCHANGED <<outside, ledger, rollupDue, dispatcher, checkVars, fails>>

-----------------------------------------------------------------------------
\* The reconciliation.

CheckStart ==
  /\ check.pc = "idle"
  /\ now >= checkDue
  /\ checkDue' = NextFire(CheckSlot, now)
  /\ check' = [Idle EXCEPT !.pc = "list"]
  /\ UNCHANGED <<outside, ledger, rollupVars, drift, repairs, fails>>

\* The log's side: its rows of the window.
CheckLog ==
  /\ check.pc = "list"
  /\ check' = [check EXCEPT
       !.pc = "count", !.day = LastClosedDay, !.logged = Logged(LastClosedDay)]
  /\ UNCHANGED <<outside, ledger, rollupVars, checkDue, drift, repairs, fails>>

\* The cast of all end_users to uuid[] throws when one of them is not a UUID.
Uncastable == \E r \in check.logged : tenant[r] = Malformed

\* The ledger's side: how many entries each tenant has in the window.  A row of
\* nobody's counts for no tenant.
CheckLedger ==
  /\ check.pc = "count"
  /\ ~Uncastable
  /\ LET entries == [t \in Tenants |-> Cardinality(Entries(t, check.day))]
     IN check' = [check EXCEPT
          !.pc = "loop",
          !.counted = entries,
          !.todo = {t \in Tenants : \/ entries[t] > 0
                                    \/ \E r \in check.logged : tenant[r] = t}]
  /\ UNCHANGED <<outside, ledger, rollupVars, checkDue, drift, repairs, fails>>

\* driftPct > threshold, or driftUsd > threshold with 0 as the ledger's cost.
Breached(t) ==
  LET logged == {r \in check.logged : tenant[r] = t}
      gap == Cardinality(logged) - check.counted[t]
  IN \/ DriftParts * gap > Cardinality(logged)
     \/ -DriftParts * gap > Cardinality(logged)
     \/ logged \ Cheap # {}

\* Mutant: the gauges' store is written in the loop.
CheckTenantInPlace(t) ==
  /\ check.pc = "loop"
  /\ t \in check.todo
  /\ ~Breached(t)
  /\ drift' = {g \in drift : g[1] # t} \cup {<<t, check.day>>}
  /\ check' = [check EXCEPT !.todo = @ \ {t}, !.next = @ \cup {<<t, check.day>>}]
  /\ UNCHANGED <<outside, ledger, rollupVars, checkDue, repairs, fails>>
\* A tenant whose drift does not count.
CheckTenant(t) ==
  /\ check.pc = "loop"
  /\ t \in check.todo
  /\ ~Breached(t)
  /\ check' = [check EXCEPT !.todo = @ \ {t}, !.next = @ \cup {<<t, check.day>>}]
  /\ UNCHANGED <<outside, ledger, rollupVars, checkDue, drift, repairs, fails>>

\* The attempt ends in an exception: the cast's, or that of add() for a tenant
\* whose drift counts.  BullMQ refuses a jobId with a ':' unless it has three
\* parts, and `recon-disc:${since}:${until}:${tenantId}` has more.
CheckThrows ==
  /\ \/ check.pc = "count" /\ Uncastable
     \/ check.pc = "loop" /\ \E t \in check.todo : Breached(t)
  /\ check' = Retried(check)
  /\ UNCHANGED <<outside, ledger, rollupVars, checkDue, drift, repairs, fails>>

\* The swap of driftStore.
CheckEnd ==
  /\ check.pc = "loop"
  /\ check.todo = {}
  /\ drift' = check.next
  /\ check' = Idle
  /\ UNCHANGED <<outside, ledger, rollupVars, checkDue, repairs, fails>>

CheckFail ==
  /\ check.pc # "idle"
  /\ fails < MaxFails
  /\ fails' = fails + 1
  /\ check' = Retried(check)
  /\ UNCHANGED <<outside, ledger, rollupVars, checkDue, drift, repairs>>

\* An operator adds the job for a closed day, with an id of BullMQ's own.
OperatorRepair(t, d) ==
  /\ d < Day(now)
  /\ repairs[t][d] = "none"
  /\ Cardinality({j \in Tenants \X Days : repairs[j[1]][j[2]] # "none"}) < MaxByHand
  /\ repairs' = [repairs EXCEPT ![t][d] = "waiting"]
  /\ UNCHANGED <<outside, ledger, rollupVars, checkDue, check, drift, fails>>

RepairStart(t, d) ==
  /\ repairs[t][d] = "waiting"
  /\ repairs' = [repairs EXCEPT ![t][d] = "active"]
  /\ UNCHANGED <<outside, ledger, rollupVars, checkDue, check, drift, fails>>

\* The rows of the window that a backfill of the tenant would insert.
Unbilled(t, d) == {r \in Logged(d) : tenant[r] = t /\ ~Charged(r)}

Inserted(S) == [r \in Rows |-> IF r \in S THEN Day(start[r]) ELSE ledger[r]]

RepairEnd(t, d) ==
  /\ repairs[t][d] = "active"
  /\ repairs' = [repairs EXCEPT ![t][d] = "completed"]
  /\ ledger' = Inserted(Unbilled(t, d))
  /\ UNCHANGED <<outside, rollupVars, checkDue, check, drift, fails>>

\* An attempt fails after some of its inserts; the last one leaves the job in
\* the failed set, where it keeps its jobId (removeOnFail: false).
RepairFail(t, d) ==
  /\ repairs[t][d] = "active"
  /\ fails < MaxFails
  /\ fails' = fails + 1
  /\ \E S \in SUBSET Unbilled(t, d) : ledger' = Inserted(S)
  /\ \E s \in IF fails' < Attempts THEN {"waiting"} ELSE {"waiting", "failed"} :
       repairs' = [repairs EXCEPT ![t][d] = s]
  /\ UNCHANGED <<outside, rollupVars, checkDue, check, drift>>

\* The bound on the clock is reached and nothing is left to do.
Horizon == now = MaxTime /\ Quiet /\ UNCHANGED vars

Rollups ==
  \/ DispatchStart \/ DispatchList \/ DispatchEnd
  \/ \E t \in Tenants : DispatchChild(t)
Checks ==
  \/ CheckStart \/ CheckLog \/ CheckLedger \/ CheckThrows \/ CheckEnd
  \/ \E t \in Tenants : CheckTenant(t)
Repair(t, d) == RepairStart(t, d) \/ RepairEnd(t, d)

Next ==
  \/ Clock \/ Horizon
  \/ \E r \in Rows : Serve(r) \/ Log(r) \/ HotCharge(r) \/ TickCharge(r)
  \/ Rollups \/ DispatchFail
  \/ Checks \/ CheckFail
  \/ \E t \in Tenants, d \in Days :
       RollupTenant(t, d) \/ OperatorRepair(t, d) \/ Repair(t, d) \/ RepairFail(t, d)

Spec == Init /\ [][Next]_vars

\* A BullMQ worker per queue takes ready jobs, and time passes.
Fairness ==
  /\ WF_vars(Clock) /\ WF_vars(Rollups) /\ WF_vars(Checks)
  /\ \A t \in Tenants, d \in Days : WF_vars(RollupTenant(t, d)) /\ WF_vars(Repair(t, d))
FairSpec == Spec /\ Fairness

-----------------------------------------------------------------------------
\* Properties.

\* Every variable keeps its shape.
RunType == [pc: {"idle", "list", "count", "loop"}, day: Days \cup {NotYet},
            todo: SUBSET Tenants, tries: 0..Attempts - 1, logged: SUBSET Rows,
            counted: [Tenants -> 0..Cardinality(Rows)], next: SUBSET (Tenants \X Days)]
TypeOK ==
  /\ now \in 0..MaxTime
  /\ start \in [Rows -> 0..MaxTime \cup {NotYet}]
  /\ spend \subseteq Rows
  /\ ledger \in [Rows -> Days \cup {NotYet}]
  /\ rollup \in PerDay(0..Cardinality(Rows) \cup {NotYet})
  /\ rollupDue \in Nat /\ checkDue \in Nat
  /\ dispatcher \in RunType
  /\ children \in PerDay(0..MaxChildren)
  /\ check \in RunType
  /\ drift \subseteq Tenants \X Days
  /\ repairs \in PerDay(JobState)
  /\ fails \in 0..MaxFails

\* A rollup never reports more than the ledger holds, however often its child
\* job is enqueued by retried dispatchers (the upsert replaces the row).
RollupNeverOvercounts ==
  \A t \in Tenants, d \in Days : rollup[t][d] <= Cardinality(Entries(t, d))

\* No rollup is made of a day that is still open.
RollupOfClosedDays ==
  \A t \in Tenants, d \in Days : rollup[t][d] # NotYet => d < Day(now)

\* The gauges report one check, never a mix of two, whenever they are read.
GaugesOfOneCheck == \A g, h \in drift : g[2] = h[2]

\* A request with a cost that was logged before its day's check makes its
\* tenant drift, and that check adds the job that repairs the day.  (The code
\* does not keep it: CheckThrows.)
CheckSees(r) == /\ r \in spend
                /\ now < (Day(start[r]) + 1) * SlotsPerDay + CheckSlot
                /\ (Day(start[r]) + 1) * SlotsPerDay + CheckSlot <= MaxTime
DriftRepaired ==
  \A r \in Rows \ (Cheap \cup Foreign), d \in Days :
    (CheckSees(r) /\ d = Day(start[r])) ~> (repairs[tenant[r]][d] # "none")

\* Every tenant with entries in a day when it closed gets a rollup of that day.
ClosedWith(t, d) == Entries(t, d) # {} /\ now < (d + 1) * SlotsPerDay + RollupSlot
EveryDayRolledUp ==
  \A t \in Tenants, d \in {e \in Days : (e + 1) * SlotsPerDay + RollupSlot <= MaxTime} :
    ClosedWith(t, d) ~> (rollup[t][d] # NotYet)

\* A request counts in the day in which it was made.
SpendInItsDay == \A r \in Rows : Charged(r) => ledger[r] = Day(start[r])
====

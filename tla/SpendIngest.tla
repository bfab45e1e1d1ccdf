---- MODULE SpendIngest ----
(***************************************************************************)
(* The spend ingest of apps/worker: LiteLLM's spend log is copied into the *)
(* usage ledger by a recurring tick that keeps a watermark in Valkey, and  *)
(* by windowed backfills that do not touch the watermark.  The API's hot   *)
(* path writes the same ledger under the same request ids.                 *)
(*                                                                         *)
(* Source: apps/worker/src/jobs/ingest-litellm-spend.ts (runIngestOnce),   *)
(* jobs/reconciliation-discrepancy.ts, apps/api/src/routes/reason.ts.      *)
(*                                                                         *)
(* Time is counted in milliseconds (the watermark's resolution): the hold  *)
(* epsilon of 1 ms is the 1 of this clock.                                 *)
(***************************************************************************)
EXTENDS Integers, FiniteSets

CONSTANTS
  Rows, Rids,       \* LiteLLM_SpendLogs rows; request ids
  Users, Tenants,
  LiveWorkers,      \* worker replicas that run the recurring tick
  Backfillers,      \* slots that run reconciliation-discrepancy jobs
  ridOf,            \* openwhispr_request_id ?? request_id of each row
  owner,            \* the user who made each request
  home,             \* the tenant each user is created in
  Billable,         \* rows whose duration, if they need one, is valid
  Malformed,        \* rows whose end_user is not a UUID
  BatchSize,        \* BATCH_SIZE
  HoldWindow,       \* MAX_RECOVERABLE_HOLD_MS
  Lookback,         \* INITIAL_LOOKBACK_MS
  Windows,          \* <<since, until>> pairs a backfill may be asked for
  DayLength,        \* a UTC day
  MaxLag,           \* bound: how late after its startTime a row is written
  MaxTime,          \* bound: the last instant of the clock
  ArriveBy,         \* bound: the last instant at which rows are written
  MaxFails,         \* bound: how many runs fail
  DistinctStarts,   \* TRUE: no two rows carry the same startTime
  NoUser, BadUser, NoTenant

Workers == LiveWorkers \cup Backfillers

\* "No watermark key in Valkey" and "nothing held yet".
NoMark == -1
NoHold == -1

ASSUME RowAssumption ==
  /\ ridOf \in [Rows -> Rids]
  /\ owner \in [Rids -> Users]
  /\ home \in [Users -> Tenants]
  /\ Billable \subseteq Rows
  /\ Malformed \subseteq Rows
ASSUME BoundAssumption ==
  /\ BatchSize \in Nat \ {0}
  /\ HoldWindow \in Nat
  /\ Lookback \in Nat
  /\ DayLength \in Nat \ {0}
  /\ MaxLag \in Nat
  /\ MaxTime \in Nat \ {0}
  /\ ArriveBy \in Nat
  /\ MaxFails \in Nat
  /\ DistinctStarts \in BOOLEAN
  /\ Windows \subseteq Nat \X Nat
ASSUME NullAssumption ==
  /\ NoUser \notin Users
  /\ BadUser \notin Users
  /\ NoUser # BadUser
  /\ NoTenant \notin Tenants
ASSUME WorkerAssumption == LiveWorkers \cap Backfillers = {}

Reasons == {"missing_end_user", "missing_tenant",
            "recoverable_skip_aged_out", "non_numeric_duration"}

VARIABLES
  now,
  arrived,    \* the rows LiteLLM has committed
  start,      \* their startTime (0 before they are written)
  endUser,    \* their end_user column
  tenantOf,   \* the users table: user -> tenant
  ledger,     \* the usage_ledger table
  watermark,  \* Valkey key litellm:spend:last_start_time
  unread,     \* history: rows the watermark was set past by a tick that had
              \* not read them
  anomalies,  \* worker_billing_anomalies_total: the <<row, reason>> counted
  run,        \* the run of runIngestOnce each worker is in
  fails       \* how many runs failed so far

vars == <<now, arrived, start, endUser, tenantOf, ledger, watermark, unread,
          anomalies, run, fails>>
mark == <<watermark, unread>>
env == <<now, arrived, start, endUser, tenantOf>>

\* The entry's date is COALESCE(event_at, created_at), read by day only.
Day(t) == t \div DayLength
Days == 0..Day(MaxTime)
Entry == [rid: Rids, user: Users, tenant: Tenants, day: Days]
Run == [pc: {"idle", "scan", "rows"},
        from: Int,              \* the watermark read, or `since`
        until: Int,             \* of a backfill
        only: SUBSET Users,     \* allowedUserIds of a backfill
        tenant: Tenants \cup {NoTenant},
        scope: SUBSET Rows,     \* a tick's batch; what a backfill's SELECT matched
        todo: SUBSET Rows,      \* the rows of the batch left to process
        last: 0..MaxTime,       \* startTime of the last row of the batch
        hold: -1..MaxTime,      \* oldestRecoverableSkip
        cutoff: Int]            \* holdCutoff

Idle == [pc |-> "idle", from |-> 0, until |-> 0, only |-> {},
         tenant |-> NoTenant, scope |-> {}, todo |-> {}, last |-> 0,
         hold |-> NoHold, cutoff |-> 0]

Charged(r) == \E e \in ledger : e.rid = r
Tenant(r) == IF endUser[r] \in Users THEN tenantOf[endUser[r]] ELSE NoTenant

\* ORDER BY "startTime" ASC LIMIT BatchSize: ties are broken arbitrarily.
IsBatch(B, S) ==
  /\ B \subseteq S
  /\ Cardinality(B) <= BatchSize
  /\ B # S => Cardinality(B) = BatchSize
  /\ \A r \in B, q \in S \ B : start[r] <= start[q]

\* The rows are processed in the order of their startTime.
Head(w) == {r \in run[w].todo : \A q \in run[w].todo : start[r] <= start[q]}

Init ==
  /\ now = 1
  /\ arrived = {}
  /\ start = [r \in Rows |-> 0]
  /\ endUser = [r \in Rows |-> NoUser]
  /\ tenantOf = [u \in Users |-> NoTenant]
  /\ ledger = {}
  /\ watermark = NoMark
  /\ unread = {}
  /\ anomalies = {}
  /\ run = [w \in Workers |-> Idle]
  /\ fails = 0

-----------------------------------------------------------------------------
\* The surroundings: the clock, LiteLLM, the users table, the API.

Clock ==
  /\ now < MaxTime
  /\ now' = now + 1
  /\ UNCHANGED <<arrived, start, endUser, tenantOf, ledger, mark,
                 anomalies, run, fails>>

\* LiteLLM commits a row after the call it logs: its startTime is in the past.
Arrive(r, s, u) ==
  /\ r \notin arrived
  /\ now <= ArriveBy
  /\ s >= 1 /\ s <= now /\ now - s <= MaxLag
  /\ DistinctStarts => \A q \in arrived : start[q] # s
  /\ u \in IF r \in Malformed THEN {BadUser} ELSE {NoUser, owner[ridOf[r]]}
  /\ arrived' = arrived \cup {r}
  /\ start' = [start EXCEPT ![r] = s]
  /\ endUser' = [endUser EXCEPT ![r] = u]
  /\ unread' = unread \cup {q \in {r} : s <= watermark}
  /\ UNCHANGED <<now, tenantOf, ledger, watermark, anomalies, run, fails>>

\* "the spend row may gain an end_user later"
GainEndUser(r) ==
  /\ r \in arrived
  /\ endUser[r] = NoUser
  /\ endUser' = [endUser EXCEPT ![r] = owner[ridOf[r]]]
  /\ UNCHANGED <<now, arrived, start, tenantOf, ledger, mark,
                 anomalies, run, fails>>

Register(u) ==
  /\ tenantOf[u] = NoTenant
  /\ tenantOf' = [tenantOf EXCEPT ![u] = home[u]]
  /\ UNCHANGED <<now, arrived, start, endUser, ledger, mark,
                 anomalies, run, fails>>

\* Mutant: no ON CONFLICT clause and no unique index.
InsertAlways(r, u, t, at) ==
  ledger' = ledger \cup {[rid |-> r, user |-> u, tenant |-> t, day |-> Day(at)]}
\* Mutant: ON CONFLICT DO UPDATE.
InsertOverwrite(r, u, t, at) ==
  ledger' = {e \in ledger : e.rid # r} \cup
              {[rid |-> r, user |-> u, tenant |-> t, day |-> Day(at)]}
\* INSERT ... ON CONFLICT (request_id) DO NOTHING
Insert(r, u, t, at) ==
  ledger' = IF Charged(r) THEN ledger
            ELSE ledger \cup {[rid |-> r, user |-> u, tenant |-> t, day |-> Day(at)]}

\* The hot path charges the request it has just served.  It leaves event_at
\* NULL, so the entry counts at the instant it was written.
ApiCharge(r) ==
  /\ tenantOf[owner[r]] # NoTenant
  /\ ~Charged(r)
  /\ Insert(r, owner[r], tenantOf[owner[r]], now)
  /\ UNCHANGED <<env, mark, anomalies, run, fails>>

-----------------------------------------------------------------------------
\* The recurring tick.

\* Mutant: the watermark is never read.
TickReadCold(w) ==
  /\ run[w].pc = "idle"
  /\ run' = [run EXCEPT ![w] = [Idle EXCEPT !.pc = "scan", !.from = now - Lookback]]
  /\ UNCHANGED <<env, ledger, mark, anomalies, fails>>
\* redis GET, or now - INITIAL_LOOKBACK_MS when the key is unset.
TickRead(w) ==
  /\ run[w].pc = "idle"
  /\ run' = [run EXCEPT ![w] = [Idle EXCEPT
               !.pc = "scan",
               !.from = IF watermark = NoMark THEN now - Lookback ELSE watermark]]
  /\ UNCHANGED <<env, ledger, mark, anomalies, fails>>

\* Mutant: the filter is not strict.
MatchingFrom(w) == {r \in arrived : start[r] >= run[w].from}
\* "startTime" > from
Matching(w) == {r \in arrived : start[r] > run[w].from}

\* The batch B of the matching rows S is in hand, and holdCutoff is taken.
Scanned(w, S, B, last) ==
  run' = [run EXCEPT ![w] = [run[w] EXCEPT
            !.pc = "rows",
            !.scope = S,
            !.todo = B,
            !.last = last,
            !.cutoff = now - HoldWindow]]

\* An empty batch ends the tick: rows.length = 0 leaves the watermark alone.
TickScan(w) ==
  /\ run[w].pc = "scan"
  /\ \E B \in SUBSET Matching(w) :
       /\ IsBatch(B, Matching(w))
       /\ \/ B = {} /\ run' = [run EXCEPT ![w] = Idle]
          \/ \E r \in B : /\ \A q \in B : start[q] <= start[r]
                          /\ Scanned(w, B, B, start[r])
  /\ UNCHANGED <<env, ledger, mark, anomalies, fails>>

Advance(w, to) ==
  /\ run[w].pc = "rows"
  /\ run[w].todo = {}
  /\ watermark' = to
  /\ unread' = unread \cup
       {r \in arrived \ run[w].scope : watermark < start[r] /\ start[r] <= to}
  /\ run' = [run EXCEPT ![w] = Idle]
  /\ UNCHANGED <<env, ledger, anomalies, fails>>

\* Mutant: always advance to the last row.
TickEndAtLast(w) == Advance(w, run[w].last)
\* Advance to min(last row's startTime, oldest held row's startTime - 1 ms).
TickEnd(w) ==
  Advance(w, IF run[w].hold # NoHold /\ run[w].hold - 1 < run[w].last
             THEN run[w].hold - 1 ELSE run[w].last)

-----------------------------------------------------------------------------
\* The windowed backfill of one tenant.

\* The tenant's users are resolved up front; without any the run is over.
BackfillStart(b, t, win) ==
  /\ run[b].pc = "idle"
  /\ \E u \in Users : tenantOf[u] = t
  /\ run' = [run EXCEPT ![b] = [Idle EXCEPT
               !.pc = "scan",
               !.tenant = t,
               !.from = win[1],
               !.until = win[2],
               !.only = {u \in Users : tenantOf[u] = t}]]
  /\ UNCHANGED <<env, ledger, mark, anomalies, fails>>

InWindow(b) == {r \in arrived : /\ start[r] >= run[b].from
                                /\ start[r] < run[b].until
                                /\ endUser[r] \in run[b].only}

\* Mutant: the LIMIT applies before the tenant's filter.
BackfillScanFilterLate(b) ==
  /\ run[b].pc = "scan"
  /\ \E B \in SUBSET arrived :
       /\ IsBatch(B, {r \in arrived : start[r] >= run[b].from /\ start[r] < run[b].until})
       /\ Scanned(b, InWindow(b), B \cap InWindow(b), 0)
  /\ UNCHANGED <<env, ledger, mark, anomalies, fails>>
BackfillScan(b) ==
  /\ run[b].pc = "scan"
  /\ \E B \in SUBSET InWindow(b) :
       IsBatch(B, InWindow(b)) /\ Scanned(b, InWindow(b), B, 0)
  /\ UNCHANGED <<env, ledger, mark, anomalies, fails>>

BackfillEnd(b) ==
  /\ run[b].pc = "rows"
  /\ run[b].todo = {}
  /\ run' = [run EXCEPT ![b] = Idle]
  /\ UNCHANGED <<env, ledger, mark, anomalies, fails>>

-----------------------------------------------------------------------------
\* The loop over the rows of the batch, the same in both modes.

\* No end_user, or no users row for it: hold, unless the row has aged out.
SkipRow(w, r) ==
  LET reason == IF endUser[r] = NoUser THEN "missing_end_user" ELSE "missing_tenant"
      agedOut == start[r] < run[w].cutoff
  IN /\ run[w].pc = "rows"
     /\ r \in Head(w)
     /\ endUser[r] # BadUser
     /\ Tenant(r) = NoTenant
     /\ anomalies' = anomalies \cup
          ({<<r, reason>>} \cup
           IF agedOut THEN {<<r, "recoverable_skip_aged_out">>} ELSE {})
     /\ run' = [run EXCEPT ![w] = [run[w] EXCEPT
                  !.todo = @ \ {r},
                  !.hold = IF ~agedOut /\ (@ = NoHold \/ start[r] < @)
                           THEN start[r] ELSE @]]
     /\ UNCHANGED <<env, ledger, mark, fails>>

\* A minutes-priced row without a usable duration is dropped for good.
DropRow(w, r) ==
  /\ run[w].pc = "rows"
  /\ r \in Head(w)
  /\ Tenant(r) # NoTenant
  /\ r \notin Billable
  /\ anomalies' = anomalies \cup {<<r, "non_numeric_duration">>}
  /\ run' = [run EXCEPT ![w] = [run[w] EXCEPT !.todo = @ \ {r}]]
  /\ UNCHANGED <<env, ledger, mark, fails>>

BillRow(w, r) ==
  /\ run[w].pc = "rows"
  /\ r \in Head(w)
  /\ Tenant(r) # NoTenant
  /\ r \in Billable
  /\ Insert(ridOf[r], endUser[r], Tenant(r), start[r])
  /\ run' = [run EXCEPT ![w] = [run[w] EXCEPT !.todo = @ \ {r}]]
  /\ UNCHANGED <<env, mark, anomalies, fails>>

\* `$1::uuid` raises on an end_user that is not a UUID: the whole run throws,
\* and the watermark is not written.
MalformedRow(w, r) ==
  /\ run[w].pc = "rows"
  /\ r \in Head(w)
  /\ endUser[r] = BadUser
  /\ run' = [run EXCEPT ![w] = Idle]
  /\ UNCHANGED <<env, ledger, mark, anomalies, fails>>

\* A query fails or the process dies: nothing of the run survives but the
\* inserts it has committed.
Fail(w) ==
  /\ run[w].pc # "idle"
  /\ fails < MaxFails
  /\ fails' = fails + 1
  /\ run' = [run EXCEPT ![w] = Idle]
  /\ UNCHANGED <<env, ledger, mark, anomalies>>

ProcessRow(w) ==
  \E r \in run[w].todo :
    SkipRow(w, r) \/ DropRow(w, r) \/ BillRow(w, r) \/ MalformedRow(w, r)

Tick(w) == TickRead(w) \/ TickScan(w) \/ ProcessRow(w) \/ TickEnd(w)

Environment ==
  \/ Clock
  \/ \E r \in Rows, s \in 1..MaxTime, u \in Users \cup {NoUser, BadUser} : Arrive(r, s, u)
  \/ \E r \in Rows : GainEndUser(r)
  \/ \E u \in Users : Register(u)
  \/ \E r \in Rids : ApiCharge(r)

Next ==
  \/ Environment
  \/ \E w \in LiveWorkers : TickRead(w) \/ TickScan(w) \/ TickEnd(w)
  \/ \E b \in Backfillers :
       \/ \E t \in Tenants, win \in Windows : BackfillStart(b, t, win)
       \/ BackfillScan(b)
       \/ BackfillEnd(b)
  \/ \E w \in Workers : ProcessRow(w) \/ Fail(w)

Spec == Init /\ [][Next]_vars

\* BullMQ runs the tick every 30 s for ever, and time passes.
Fairness == WF_vars(Clock) /\ \A w \in LiveWorkers : WF_vars(Tick(w))
FairSpec == Spec /\ Fairness

-----------------------------------------------------------------------------
\* Properties.

\* Every variable keeps its shape; entries are dated within the clock.
TypeOK ==
  /\ now \in 1..MaxTime
  /\ arrived \subseteq Rows
  /\ start \in [Rows -> 0..MaxTime]
  /\ endUser \in [Rows -> Users \cup {NoUser, BadUser}]
  /\ tenantOf \in [Users -> Tenants \cup {NoTenant}]
  /\ ledger \subseteq Entry
  /\ watermark \in -1..MaxTime
  /\ unread \subseteq Rows
  /\ anomalies \subseteq Rows \X Reasons
  /\ run \in [Workers -> Run]
  /\ fails \in 0..MaxFails

\* A backfill for a tenant handles rows of that tenant's users only: no
\* cross-tenant data motion.
BackfillInTenant ==
  \A b \in Backfillers : \A r \in run[b].todo : Tenant(r) = run[b].tenant

Flagged(r, reason) == <<r, reason>> \in anomalies
Settled(r) == \/ Charged(ridOf[r])
              \/ Flagged(r, "recoverable_skip_aged_out")
              \/ Flagged(r, "non_numeric_duration")

\* Every row at or behind the watermark is settled - billed, dropped for its duration,
\* or aged out - unless the tick that set the watermark past it had not read it: the
\* row came late, was older than a cold start's look-back, or shared its startTime with
\* the last row of a full batch.  Whatever ticks of other replicas, failures, backfills
\* and hot-path charges come in between, no tick goes past what it has held.
HoldRespected ==
  \A r \in arrived : start[r] <= watermark => Settled(r) \/ r \in unread

\* The watermark is only ever written by a tick that ends, and never behind the value
\* that tick read: it moves back only by a tick of another replica in between.
WatermarkForward ==
  [][watermark' # watermark =>
       \E w \in LiveWorkers : TickEnd(w) /\ watermark' >= run[w].from]_vars

\* When a backfill ends, every row its window held for the tenant when it was
\* read is billed, or has no usable duration.
BackfillCoversWindow ==
  \A b \in Backfillers :
    run[b].pc = "rows" /\ run[b].todo = {} =>
      \A r \in run[b].scope : Charged(ridOf[r]) \/ r \notin Billable

\* The tick has gone past a row, or will when its batch ends: a row that is
\* committed late is not seen any more.
Passed(r) ==
  \/ start[r] <= watermark
  \/ \E w \in LiveWorkers : /\ run[w].pc = "rows"
                            /\ r \notin run[w].todo
                            /\ start[r] <= run[w].last
                            /\ run[w].hold = NoHold \/ start[r] < run[w].hold

\* A row whose prerequisites are met, that no tick has passed or given up.
Due(r) == /\ r \in arrived
          /\ Tenant(r) # NoTenant
          /\ r \in Billable
          /\ ~Passed(r)
          /\ ~Flagged(r, "recoverable_skip_aged_out")

\* A malformed row ahead of the watermark fails every tick before it gets further.
Blocked(r) == \E m \in arrived : endUser[m] = BadUser /\ watermark < start[m] /\ start[m] <= start[r]

\* A row that fell out of the look-back while no tick had got as far as writing the
\* watermark: every further cold start begins behind it, and no tick has it in hand.
Outrun(r) ==
  /\ watermark = NoMark
  /\ start[r] <= now - Lookback
  /\ \A w \in LiveWorkers : r \notin run[w].todo
                         /\ run[w].pc = "scan" => start[r] <= run[w].from

\* The ingest inserts every row the handler missed: a row in front of the
\* watermark whose user and tenant are known and whose duration is usable ends up
\* in the ledger, unless a malformed row comes before it, or ticks fail, or have
\* nothing to write, until it is older than the look-back of the next cold start.
MissedRowBilled ==
  \A r \in Rows : Due(r) ~> Charged(ridOf[r]) \/ Blocked(r) \/ Outrun(r)

\* The ingest, its backfills and the hot path together implement the ledger
\* UsageLedger promises.
Ledger == INSTANCE UsageLedger
LedgerSpec == Ledger!Spec
====

# OpenWhispr server: TLA+ models and proofs

This directory is the verification project kept beside the OpenWhispr server: TLA+ modules of the parts of the
system whose correctness depends on the order in which things happen, TLC configurations that check them on small
instances, and theorems that TLAPS checks for every instance. `PROJECT.json` lists components, runs, mutants,
hazards, findings and theorems, and maps every definition to the source lines it stands for.

    tlc -workers 2 -config IngestHold.cfg MCSpendIngest.tla     # one run
    tlapm SpendIngest_proofs.tla                                # the proofs of a module

## 1. The system

The server is a TypeScript monorepo. Three processes run on one PostgreSQL database (row-level security separates
tenants) and one Valkey (a Redis): `apps/api` (Fastify, any number of replicas), `apps/worker` (BullMQ workers, any
number of replicas), `apps/web` (the browser UI, no state of its own). LiteLLM is the upstream gateway to the language
and speech models; it keeps its own database of spend rows, which the worker reads.

### Components, their state and operations

| Component | State | Operations | What makes it correct |
|---|---|---|---|
| Spend ingest (`apps/worker/src/jobs/ingest-litellm-spend.ts`) | watermark in Valkey; `usage_ledger` | 30 s tick; windowed backfill of one tenant | every spend row is billed once, none is passed while its user or tenant is unknown; a backfill stays in its tenant |
| Usage ledger (`packages/data/src/schema/usage_ledger.ts`) | `usage_ledger`, unique `request_id` | insert from the API hot path, the tick, a backfill | append-only, one entry per request |
| Reconciliation and rollup (`reconciliation-daily-check.ts`, `reconciliation-discrepancy.ts`, `usage-rollup-daily.ts`) | `usage_rollup_daily`; the drift gauge; BullMQ jobs and their ids | daily dispatchers, one child job per tenant and day | the rollup of a closed day equals the ledger's; a drift is repaired and the repair is visible |
| Job queues and schedulers (`apps/worker/src/queues.ts`, `scheduler.ts`, `index.ts`) | BullMQ job sets, job ids, schedulers | enqueue with a job id, retry, remove on completion, keep on failure | a recurring job exists once; a failed job is not lost and does not block its successors |
| Worker shutdown (`apps/worker/src/lib/shutdown.ts`) | workers, queues, pools | drain steps in order, each in its own guard | every step is tried; the exit code tells whether one failed |
| First-admin setup (`apps/api/src/routes/setup-admin.ts`, `config/setup-claim.ts`, the completion hook in `index.ts`) | `setup_state.status`, `users.role` | claim by one conditional UPDATE, sign-up, role flip, compensating roll-back | a completed setup has an admin; a failed attempt leaves setup open |
| Bearer tokens (`lib/token-rotation.ts`, `middleware/dual-auth.ts`) | `sessions.previous_token_fp` and its expiry | record the old token when a response carries a new one, accept it for five minutes | a client that holds the replaced token is not locked out within the overlap, and is after it |
| OIDC and desktop sign-in (`lib/oidc-*.ts`, `lib/mint-bearer.ts`, `routes/auth-callback.ts`, `desktop-signin.ts`) | `oauth_state`; users, their tenant and role; audit rows | store and consume a state, code exchange, first-login provisioning, role re-sync, mint | a state gives one bearer; a user stays bound to one tenant; the stored role follows the directory and is audited |
| Email delivery (`apps/worker/src/jobs/email-delivery.ts`) | BullMQ email jobs | render, send, retry | an undelivered mail fails its job; a mail is sent at least once |
| Stale-key drain (`apps/worker/src/lib/vkr-drain.ts`) | Valkey keys of a removed queue | bounded SCAN and DEL at boot | it ends |
| Audit log and its archive (`lib/audit.ts`, `jobs/audit-archive.ts`, `partman-maintenance.ts`) | partitions, archive objects, archive jobs | detach, enqueue, dump and upload, drop | no partition is dropped before a good copy exists; every detached one is archived in the end |
| Tenant context (`packages/data/src/tenant-context.ts`, `apps/worker/src/lib/with-*-context.ts`, `db/app-pool.ts`) | session claims of a pooled connection | begin, set claim, run, commit or roll back, release | a pooled connection never carries a tenant into the next job |
| Realtime transcription relay (`routes/realtime.ts`, `lib/realtime-frame-translate.ts`) | two sockets, a buffer of early frames, the echo flag, the heartbeat | relay both ways, translate, ping, close | no frame before the upstream is open is lost or reordered; both ends close |
| Agent and reason streams (`routes/agent/stream.ts`, `lib/sse-parser.ts`, `lib/reason-stream-accumulate.ts`) | parser state, accumulated tool calls | parse server-sent events, accumulate, end | a truncated stream is never reported as complete |
| Rate limit (`plugins/rate-limit.ts`) | counters in Valkey | count, refuse | |
| Notes, folders, conversations, transcriptions, teams, spaces, workspaces (`routes/**`) | their tables | CRUD; upsert by client id; batch create | a replayed create is the same row; no write crosses a tenant |
| Encryption lens and backfill (`packages/data/src/encryption`) | encrypted columns | encrypt on write, re-encrypt in batches | readers understand both forms throughout |
| Migrations (`packages/data/src/migrate.ts`) | schema, an advisory lock | migrate once at a time | |
| LiteLLM client (`packages/litellm-client`) | none | retry and time out upstream calls | |
| Wire schemas, i18n, observability, web UI, charts, tools, tests | no protocol state | | |

### How they interact

The API charges a served request to the ledger itself (hot path, `routes/reason.ts`) and passes its request id to
LiteLLM, whose spend row brings the id back; the tick inserts the same id again and `ON CONFLICT (request_id) DO
NOTHING` makes the two meet. The daily check compares LiteLLM's totals with the ledger and enqueues a windowed backfill
of the tenant that drifts; the rollup sums the ledger by day. The maintenance job enqueues one archive job per
detached partition. Setup is completed by the wizard with a setup token, and also by the hook that runs after an email
is verified, so two paths race for the same row.

### What is hard

Replicas that run the same tick; a watermark written after the rows; rows that arrive late, without a user, or
malformed; crashes between the steps of a batch; jobs deduplicated by an id that outlives their failure; a claim that
commits before the work it guards; a token that rotates while requests are in flight; an export that must be
finished before a drop. `PROJECT.json` lists each of these under "hazards" at the line where it bites.


## 2. Plan

Written so far, in this order, the most important first. Each component has an MC module with its instances, and
a `_proofs` module with its theorems; the two that pass on a stream (6 and 8) share `Streams_proofs`.

1. `UsageLedger` (abstract) and `SpendIngest`, which implements it: what the ledger promises, and the ingest that
   races for it.
2. `DailyJobs`: the rollup, the reconciliation check and its repairs, on the same ledger. It composes with
   `SpendIngest` by abstraction: here a backfill inserts the rows of its window in one step, and what a backfill does
   step by step is `SpendIngest`'s subject.
3. `AuditArchive`: maintenance and archive jobs.
4. `WorkerProcess`: jobs on a small pool with tenant and bypass claims, the email job, and the shutdown.
5. `Setup` (abstract: setup is a lock on the making of an admin) and `SetupClaim`, which implements it.
6. `FrameChannel` (abstract: a line that delivers in order) and `RealtimeRelay`, which implements it.
7. `NoteSync`: the writes to a user's notes, and the device that pulls them page by page.
8. `CompletionStream`: the agent's and the reason route's reading of a streamed completion. `Ascending`, numbers put
   in order, is what it and the relay have in common.
9. `JitResolver` (the decision, without state) and `DesktopSignIn`, which calls it.

To come:

- `TeamSpaces`: membership, visibility and ownership of notes and folders, with the checks and the statements they
  guard as separate steps (see the divergences in section 7).
- The web's sign-in, whose hooks re-sync the same role inside Better Auth; the batches of the encryption backfill.
- An abstract `Archive` that `AuditArchive` implements; several replicas in `AuditArchive`.
- Token rotation: written (`lib/token-rotation.ts`), but no production route rotates a session yet.

## 3. The modules and the code

### SpendIngest and UsageLedger

One action per step of `runIngestOnce` that another process can see. `TickRead` reads the watermark, `TickScan` is the
`SELECT ... ORDER BY "startTime" LIMIT` (ties broken arbitrarily), `SkipRow`, `DropRow`, `BillRow` and `MalformedRow`
are the four ways a row of the loop ends, `TickEnd` writes the watermark. The windowed mode shares the loop
(`ProcessRow`) and has its own `BackfillStart` (resolve the tenant's users), `BackfillScan`, `BackfillEnd`. `Fail` ends a
run at any of these points and keeps the inserts that have been committed. Around them: `Arrive` and `GainEndUser`
(LiteLLM, whose rows come up to `MaxLag` late), `Register` (users), `ApiCharge` (the hot path of `routes/reason.ts`).
`run[w]` is the local state of a run, `anomalies` the counter by reason, kept as the set of the rows it was raised for.
`unread` only records what happened: the rows the watermark came to lie at or above without a tick that had them in its
batch, because they came late, or were not in the batch of the tick that wrote it (`Advance`). The units of a charge, kinds of
model and the metadata are abstracted; a charge is a request id, a user, a tenant and the day it counts in.

`UsageLedger` says only: users register once, a request that is not charged may be charged to its user's tenant, no
charge changes. The refinement is the identity on `ledger` and `tenantOf`.

### DailyJobs

Slots of a day: before 00:05, before 01:00, the rest. `DispatchStart .. DispatchEnd` is the dispatcher, which reads
`Date.now()` when it lists the tenants; `RollupTenant` is a child job (sum and upsert in one transaction). `CheckStart`,
`CheckLog`, `CheckLedger`, `CheckTenant`, `CheckEnd` is the reconciliation check: log totals, ledger totals, one tenant at
a time, then the swap of the gauges' store. A row's tenant may also be `Nobody` (no `end_user`, or one that is no user:
the row counts for no tenant) or `Malformed` (an `end_user` that is not a UUID, which makes the cast of the whole array
throw). `CheckThrows` is the end of an attempt in an exception: that cast's, or that of `add` for the first tenant whose
drift counts, since BullMQ refuses the job id the code builds. So the only repairs are the ones an operator adds
(`OperatorRepair`, with an id of BullMQ's own). `Retried` is the common retry rule: `Attempts` attempts, then the job is
over. A scheduler has one next job; a job that is late runs late, and the next one is computed from then on.

### AuditArchive

`MaintTake, MaintCall, MaintDiscover, MaintEnqueue, MaintEnd` are the steps of the maintenance handler, in its order.
`Detached` is what its discovery finds: detached partitions whose name matches `^audit_log_p[0-9]{4}_[0-9]{2}$`, the
`Monthly` ones of the `Partitions`; an enqueue that throws is collected (`MaintEnqueueFails`), and fails the attempt at
the end. An archive job goes through `Take, Dump, Upload, Drop, Complete`. `Dump` and `Upload` are the two ends of the
pipe: the upload stores whatever the pipe held (`Stored`), *then* the handler sees the first non-zero exit code. `object`
records what was stored last under the partition's only key: the whole partition or less. `Crash` is a worker's death at
any step of an active job, whose job BullMQ finds stalled and runs again.

### WorkerProcess

`conn[c]` is the server's side of a pooled connection (outside a transaction, in one, or in one that is aborted; its
tenant claim, its bypass), `out` the connections the pool takes to be checked out, `job[j]` a job's stage and attempt.
`Take, Connect, Begin, Claim, Work, Commit, Rollback, Release` are the statements of `withTenantContext` and
`withSystemBypassClient`; a backfill does the second block inside the first (`Nest`) on a connection of its own. Each may
fail: `ConnectFails`, `SetupFails` (BEGIN and set_config), `WorkFails`, `CommitFails`; a ROLLBACK is taken to succeed, as
a connection on which it fails is lost, and its transaction with it. A statement that fails in a transaction leaves it
aborted, in which the server refuses every statement but its end (`Refused`). `SetupFails` keeps the difference of the two
wrappers: `withTenantContext` then gives the connection back without a ROLLBACK, `withSystemBypassClient` rolls back
first.

`Wait` is pg-pool's queue of callers: a waiter is served when a connection comes back, and no more once the pool is
ending; only a call of `connect` after `end` is refused. `Reap` is the pool's closing of an idle connection. `GuardThrows`
is the pool's guard of `db/app-pool.ts`, which depends on whether the owner's role has a tenant of its own (`SingleRole`).
`Send` delivers an email before the commit; `smtp` is the deployment's set-up (`Mailers`): a server, none, or none with
`EMAIL_FALLBACK_NONFATAL`, with which the job is done without a mail. `Signal`, `CloseWorker`, `CloseQueues`, `EndPools`,
`Exit` are the steps of `runShutdown`, each in its own guard; `errored` is what the exit code tells, and `Hung` the one
state in which it never comes to an exit.

### SetupClaim and Setup

A request with the operator's token goes through `Claim` (the conditional UPDATE), `ClaimSignUp` (or `...Taken`, for an
address that exists and is answered as if it did not, or `...Fails`), `Flip`, and on a failure `Delete` and `Reopen`. A
user who signs up without it is claimed for by the hook after verification: `HookClaim`, `HookFlip`, `HookReopen`. Every
statement may fail, with or without having taken effect; `Crash` ends a process between two of them. `Setup` has the gate,
its holders and the admins; the refinement maps the status of `setup_state` to the gate and requests and hooks between
claim and answer to the holders. It is a lock: no second process makes or unmakes an admin while one holds it.

### RealtimeRelay and FrameChannel

`state[leg]` is the readyState of a socket; `timer, sinceTick, age, ping, gone` the heartbeat with what the peers have
missed; `heard` what the client has sent, `pending` the positions of the frames buffered until the upstream opens, `got`
of those it was sent (0 is the relay's own update), `shown` the answers the client was shown, `echo` the flag that
swallows one `session.updated`. `Kept` is the flush of the buffer, which leaves out what does not parse. `ClientFrame`,
`UpstreamOpens`, `UpstreamAnswers` forward; `Closed`, `ClientErrs`, `UpstreamErrs`, `Aborted`, `HandshakeRejected` are the
event handlers of `bridgeRealtimeSockets`, whose common part is `CloseBoth`; `HeartbeatCuts` and `HeartbeatPings` are the
interval's callback. `PeerCloses` and `DialFails` are what ws does before an event: on a peer's close frame, or a reset,
only readyState changes, and the listeners run with the close event, which may come as late as ws's own 30 s timer; in
between the heartbeat goes on, pings the other leg alone, and may cut the session. `FrameChannel` says: what was said
before the line was up is delivered the moment it is, then frame by frame, in order.

### NoteSync

An instant has milliseconds and the microseconds below them. A writer is one request's transaction with the `NOW()` of its
start: `Begin`, then `Commit` of a create (single or batch, upserting by client id), update, delete (single, batch) or purge,
or `Rollback`. `StartSnapshot` and `SnapshotPage` list backward by `(created_at, id)`, `StartDelta` and `DeltaPage` forward
by `(updated_at, id)`; `Wire` is what is left of an instant in a cursor, the milliseconds. `got` is what the device holds;
`steady` (notes live during the whole snapshot), `cuts` (milliseconds in which a page ended with a rounded row) and
`behind` (commits dated before the cursor) only record what happened.

### CompletionStream

Frames of the gateway are `sent`, and `seen` of them have been read by `AgentReads` (one turn of `sseToNdjson` with the
tool-call accumulator, which flushes the calls sorted by their index, `InOrder`) or `ReasonReads` (one of
`accumulateReasonStream`). `AgentEnds`, `ReasonEnds`, `Breaks` are the three ways a stream ends; `Charges` and
`ChargeFails` the transaction after it. A break is told to the agent's client in two chunks, a text and the error
(`TerminalError`). `Leaves` is the client's disconnect: it only changes `left`. The listener at `agent/stream.ts:199`
waits for the close event of the *request*, which on the Node versions the server runs on follows the end of the request's
body and not the connection's end, so that no code runs when a client leaves. `Sentinel` is the frame at which the parser
returns, whether or not the connection goes on. The gateway (`Says`, `Stops`, `Answers`, `Refuses`) is external and
assumed orderly: after a frame with a finish_reason it sends only a usage, an error, noise or the sentinel.

### DesktopSignIn and JitResolver

`JitResolver` is `resolveJitDecision`: a claim bag is the tenant claim and the list of groups, a configuration the four
constants; `Mapped` are the places of the groups that have a role, `BestPlace` that of the role that wins. `DesktopSignIn`
has the steps of one callback as `req[r].at`: `Callback` (the UPDATE that consumes the state), `Exchange` (code, token,
profile), `Find` (the user by address, and the decision on the claims alone), then for a known user `Load` (its row under
the tenant of the claims, the decision again) and `Resync`, for a new one `Create`, and for both `Trace` (the audit row, a
transaction of its own) and `Mint`. `Stored` covers a commit that is not acknowledged; `Fails` everything else that
throws, after which the state stays consumed. The `role` of a callback is the one its user was found with or is about to
be given: none, if the stored one is null, which `Load` leaves alone. Around them the directory changes (`Moves`), states
expire, the person signs up by e-mail with a role that stays null, or deletes the account. Setup is taken to be complete.

### What is left to the surroundings

BullMQ, PostgreSQL, Valkey, Better Auth, ws and LiteLLM are external and modelled from how the code uses them: a job is run
by one worker at a time, an id with a colon that has not three parts is refused (BullMQ 5, `apps/worker/package.json`), a
statement or transaction is atomic.

## 4. The runs

| Run | Instance | What it shows |
|---|---|---|
| `ingest_hold` | one replica, three rows (a malformed one, one whose duration is not a number), late ones and ones without a user, batches of two, one failure; a look-back of 1, a hold window of 2 and a clock of 4, in the order of the code's 5 minutes and 24 hours | `HoldRespected`: the watermark passes no unsettled row that a tick has read; liveness, `MissedRowBilled`: a row that is due is billed unless a tick has passed it, a malformed row comes first, or it falls out of the look-back before there is a watermark |
| `ingest_writers` | two replicas of the tick, a backfill and the hot path; rows of two tenants, two days, batches of one | `HoldRespected` and `WatermarkForward` with overlapping ticks, `LedgerSpec` (the refinement of `UsageLedger`), `BackfillCoversWindow` |
| `daily_jobs` | two tenants and a row of another client whose `end_user` is no UUID, two midnights, one failure, one repair by hand, workers that keep up | rollups never overcount, the gauges never mix two checks; liveness, every closed day is rolled up |
| `daily_repair` (violation) | one tenant with one costly request, no failure | finding: the check of a day that drifts fails on every attempt, and its repair is never queued |
| `archive_daily` | two partitions that are found and one that is not, two job slots, one replica, two failures, one crash | no partition is dropped unless its object is whole; every detached one that is found is dropped in the end |
| `worker_drain` | a backfill and an email job, two connections, two failures, both kinds of role, the three mail set-ups, a shutdown at any point | `OwnClaimSingleRole`: a handler runs with its own claim; `CleanExitDrained`; `DoneIsSent`; liveness, `ShutdownEnds`, unless it hangs |
| `setup_safety` | two requests with the token, four ids, two addresses, two failures, one crash | `CompletedHasAdmin` but for a cut, `OneAdmin`, `SetupLock` (the refinement of `Setup`) |
| `relay_session` | one session, two frames, interval, timeout and handshake ceiling of one unit | `FramesInOrder` (the refinement of `FrameChannel`), `AnswersOwn`, `RejectionKept`, `TimerWhileUp`, `DeadNoticed`, `HeartbeatJust`; liveness, `SessionEnds` |
| `sync_pull` | three notes, pages, batches and purges of two, two instants in each of three milliseconds, three commits | `DeltaNeverSkips`, `SnapshotSkipsRounded`, `NoResurrection`; liveness, `CatchesUp` |
| `sync_ties` (violation) | the same with two milliseconds | finding: rows of a batch are lost where a page ends among them |
| `stream_end` | every sequence of up to four frames with two tool calls, both routes | `CallsWhole`, `ChargedWhole`, `EndTold`, `LastWord`; liveness, `Settles` |
| `desktop_signin` | two states, two callbacks, eight profiles, one change of the directory, an account that is made once | `OneBearerPerState`, `OutcomeMeetsTable` (refusals and roles are those of the table of failure modes), `RoleTraced`; liveness, `RoleConverges` |

A type invariant that TLAPS proves is not run as well.

The bounds. Two rows are what an overtaking, a hold, or a tie at the LIMIT needs, a third one brings a second tenant, or a
malformed row among good ones; batches of one and two give both split and joint batches. The clock of `ingest_hold` is
longer than the hold window and the look-back, so that rows age out of the one and fall out of the other, before and after
the first watermark; `ingest_writers` has the second replica that an overlapping tick takes. `DailyJobs` runs over two
midnights, so that a day that closes is rolled up and checked while the next one fills. Two attempts and one failure make
a retry that succeeds; two failures in `archive_daily` use a job's attempts up, so that the next day's maintenance has to
find the partition again; one crash stalls one job. Two job slots hold a duplicate beside the job it duplicates. Two
connections are the least a backfill can end on, and two jobs the least that can interfere. Two token requests and two
users of the hook race in every pair, and two failures reach a roll-back that fails. Two frames tell an order; one unit
each of interval and timeout already gives every order of ping, pong and check. Three notes on pages of two make a second
page, two instants in a millisecond a rounded cursor, and three milliseconds a delta whose pages go from one to the next.
Four frames hold two named calls mixed, or a call, its arguments, a finish and the end. Two callbacks with two states
overlap in every step, and with one state race for it; the eight profiles hold one of each cause of a refusal, a role the
priority leaves out, an unmapped group among mapped ones, and an order that is not the priority's; one change of the
directory makes an older profile overtake a newer one.

Clock, failures and crashes are bounded in guards by `MaxTime`, `ArriveBy`, `LastRequest`, `MaxLag`, `MaxFails`,
`MaxCrashes`, waiting children by `MaxChildren`, repairs by hand by `MaxByHand`, archive jobs by `Jobs`, frames by
`MaxFrames` and `MaxHeard`, commits by `MaxEdits`, milliseconds by `MaxMs`, the directory's changes by `MaxMoves`,
accounts by `MaxAccounts`. Deadlock is checked where the system runs for ever: the ingest, the daily jobs (with an
explicit last state, `Horizon`, for the end of the clock), the archive, the worker (whose exit, or hanging, is an explicit
last state) and the sign-ins. Setup, one relay session, the edits of `NoteSync` and one stream do come to an end, and
their configurations say so.

Symmetry is used in safety runs only: the two replicas of `ingest_writers`, and the requests, ids and addresses of setup.

## 5. Fairness

`SpendIngest`: the clock, and the tick of every replica. The tick is a BullMQ scheduler of 30 s that the worker installs
at boot, and a worker takes jobs for as long as it runs. No fairness on LiteLLM, users or backfills. `DailyJobs`: the
clock, the dispatcher, the check, each child and each repair, because the schedulers are installed at boot and each queue
has a worker; no fairness on requests, spend rows, the tick or failures. `Prompt` says that workers keep up: jobs of a
slot end before the next slot. Both runs assume it; that the safety properties do not need it is proved. `AuditArchive`:
the daily tick, the maintenance job's steps, each archive job's steps; no fairness on failures and crashes, which are
bounded. `WorkerProcess`: the steps of a job that has begun and of the shutdown; none on the arrival of jobs, failures,
the signal or `Reap`. `RealtimeRelay`: time, the interval's callback and the closing of a socket that was told to close,
which the event loop and ws do by themselves; nothing of the peers. `NoteSync`: the device goes on pulling; nothing of the
writers. `CompletionStream`: the handler goes on with what has arrived; the gateway owes nothing, and `Settles` names the
silence it may keep. `DesktopSignIn`: a callback that was begun goes on; nobody owes another one, and `RoleConverges`
speaks of a person who does come back. `SetupClaim` has none.

All fairness is weak: a step that can be taken stays possible until it is.

## 6. The proofs

Theorems hold for every value of the constants that meets the modules' assumptions.

`SpendIngest_proofs`. `Safe` is the type invariant with two facts it lacks to be inductive: rows that have arrived carry a
startTime within the clock and either their owner or nothing or a malformed value as `end_user` (`RowsOK`), and a
backfill's users are of its tenant, whose users never move (`BackfillOK`). From it follow `BackfillInTenant` (a backfill
has only rows of its tenant in hand) and the refinement `LedgerRefined`, whose step lemma maps `ApiCharge` and `BillRow`
to `Charge`, `Register` to `Register`, and everything else to a stutter. `HoldCorrect` and `WatermarkForwardCorrect` hold
for any number of replicas, any look-back and any startTimes. The invariant `RunOK` describes one tick in progress,
whatever the others do to the watermark meanwhile: every row of its batch is still to be processed, or settled, or not
below the row it holds, so that the value it will write passes none of its own unsettled rows; settled rows stay settled,
since entries and anomalies only grow. The rows a tick passes without having had them are `unread` by definition, and the
theorem says that there are no others: not even between the values of two overlapping ticks. `WindowCovered` is about a
backfill: a row of its window is still to do, handled, or left out behind `BatchSize` handled rows that are not younger
(the LIMIT). Only a backfill's own steps disturb it. `BackfillCovers` follows by counting, for windows that fit into a
batch; for others it is false (section 7).

`DailyJobs_proofs`. `DailyInv` adds to the types that a dispatcher or a check that is past its listing works on a day that
is over (`DispatcherOK`, `CheckOK`), that waiting children do too, and that the gauges a check is preparing carry its own
day. None of this needs `Prompt`. A day that is over stays over and entries only grow; so children that run at any later
time still roll up a closed day (`RollupDayCorrect`) and never count too many.

`AuditArchive_proofs`. `OwnUpload` follows one job, beside any number of others: from its own upload to its DROP, the
object is what it stored, as a whole, or what another job has stored over it. `DropAfterOwnUploadCorrect` follows for any
number of replicas, duplicates, retries and stalled jobs. The corollary `DropOnlyArchivedCorrect` is for one replica,
whose jobs are never active at once (`OneActive`), so that nothing is stored over the object (`ReadyToDrop`); with two it
is false (section 7).

`WorkerProcess_proofs`. The invariant ties each job's stage to the connections it may hold (`Shape`), a connection with an
open transaction to the job that owes its end (`Owed`), and a mail to the attempt that sent it (`Mails`); it says that a
connection outside a transaction carries no claim (`Tidy`), and what an exit without an error has waited for (`Drained`). An
aborted transaction may outlive its job, but nothing can run or be committed in it. `Single` adds, for a role with a tenant of
its own, that no two jobs have the same connection; `ClaimsAreOwn`, `ExitDrains` and `DoneSent` follow.

`SetupClaim_proofs`. `Locked` says that at most one request or hook is between its claim and its end, and only while
setup is completed; `FreshRows` that ids not handed out have no row. With it every step maps to one of `Setup` or a
stutter (`ImplementsSetup`), under a prophecy-free mapping. `OneAdminMade` adds whose admins may exist while a holder is
undoing, `SetupMakesAdmin` that a completed setup with no holder has made an admin, was cut, or created nobody.

`NoteSync_proofs`. `DeltaNeverSkips` is inductive with the bodies of rows (`Bodies`); the snapshot needs that every steady
note that was not given is before the cursor, or of a millisecond that was cut (`Snapshot`).

`Streams_proofs`. Both components put positions in order (`InOrder`, a `CHOOSE` among sequences). Its lemmas say that the
sequence exists for every finite set of numbers, is the only one, and grows at its end by a greater number. The first is an
induction, done without an induction theorem: the least size at which it failed would have a smaller one.

- The streams. `StreamInv` says that the flags and the text of the reason route are what the frames read say
  (`ChargedWhole`). `AgentInv` ties what the agent has accumulated to the
  same frames: until the finish no call has been written, and each waits with all the fragments read of it (`Gathered`); a
  `done` is written with the finish, and the two chunks of an error only at the end (`Told`). From it follow
  `CallsWhole`, `EndTold` and the action property `LastWord`, for any number of frames and indices of calls.
- The relay's control. `Clocks` bounds, for each leg, the age of the last sign of life by the time since the interval's last
  check and by the time a peer has been gone; `Farewell` says which legs may still be open once a code was given.
  `TimerWhileUp` is inductive beside them: a leg that is closing keeps the timer until its close event. Liveness
  of the peers is not needed: `DeadSeen` and `NoFalseCut` are the two sides of the same clocks, for every interval, timeout
  and handshake ceiling of `RelayAssumption`.
- The relay's frames. `FramesInv` says that the buffer is every frame heard until the upstream opens, and that behind the
  relay's own update the upstream was sent, as long as it is up, exactly what was said. `ImplementsChannel` maps the dial,
  the opening (which delivers at once what the flush keeps), a forwarded frame, and the end of a leg to the steps of
  `FrameChannel`, and every other step to a stutter; the lemma on a greater number is what makes a frame that is appended to
  what was heard the last of what was said. `OwnAnswersShown` counts answers along the same order, while the upstream
  refuses no update (`~Rejects`); with a refusal it is false (section 7).

`DesktopSignIn_proofs`. `BestIsDue` is about the resolver alone: for every mapping, priority and list of groups the
`CHOOSE` of `BestPlace` has a value (the least place among those of the least rank), and the role there is the one
`DueRole` asks for. `LetIn`, `KeptOut` and `AskedAgain` say which claims are let in, which are refused and why, and that
the second decision agrees with the first. The invariant `SignInInv` has the types; `SlotsHeld`, that a callback under way
has a slot to itself, whose state is consumed and which has led to no bearer before it is over; `RoleTraced` itself;
`Outcomes`, which carries the decision, with its role, from `Find` through a re-sync or a creation to the mint; and
`Bare`, that an account whose role is null, and a callback that has been let in without a role, are of a user whose role
no sign-in has written or is about to write (`Unwritten`). `OutcomeMeetsTable` is what the last two say at the end.
Assumed are a well-formed configuration (`ConfigAssumption`: roles are roles, and neither a missing nor an odd claim is
mapped), a tenant id that is neither empty nor the model's mark for "not asked", and claim lists that are sequences.

Only model-checked: liveness (`MissedRowBilled`, `EveryDayRolledUp`, `DetachedArchived`, `ShutdownEnds`, `SessionEnds`,
`CatchesUp`, `Settles`, `RoleConverges`), which rests on fairness, out of the prover's reach. Every invariant, action
property and refinement that a passing run checks has a theorem; those that need one replica (of the archive), windows
that fit into a batch, or another restriction of their run state it as a hypothesis.

## 7. Where the code and its texts disagree

Two are runs of their own and findings in `PROJECT.json`.

`sync_ties`: `created_at` has microseconds, the cursor on the wire milliseconds, and the tuple comparison that is
documented to keep the rows of a batch (`lib/keyset-pagination.ts:39-41`) never reaches its tie-breaker
(`routes/notes/shape.ts:66`).

`daily_repair`: the check enqueues the repair of a tenant with the id `recon-disc:${windowId}:${tenantId}`
(`reconciliation-daily-check.ts:252`), whose ISO instants hold more colons. BullMQ 5 throws "Custom Id cannot contain :"
for an id with a colon that has not three parts, so each attempt of the check ends at its first tenant over a threshold:
no repair is queued (against 8-11 of the file and `tests/e2e/reconciliation-drift.test.ts:158, 198`), and since the swap
of the gauges' store comes after the loop, the gauges of such a day are never published either, which the alert of
docs/observability.md:139-146 reads. As the ledger's cost counts as 0 (`:233`), a day on which a tenant spends more than
the dollar threshold is enough. The same happens to the check of a day with one spend row whose `end_user` is not a UUID
(`:179-183`), whichever client of LiteLLM made it.

The others are definitions of the modules that hold only under the assumptions of the runs. Each can be seen again by
changing a configuration as told.

*Ingest.* Rows that the ticks pass without having read them are the exception in `HoldRespected` (`unread`): a row
committed with a startTime below the watermark (`:292`), a row older than the five minutes' look-back of the first tick to
write a watermark (`:129`; the row may have been held, or its tick failed, before), and a row that shares its startTime
with the last one of a full batch. A backfill may bill them; a tick never does, against docs/observability.md:185-189
("inserts any rows the handler missed"). Held rows have the same end where replicas overlap: the slower of two ticks
writes its watermark over the hold of the other (`:285, 424`, against 407-411 and docs/architecture.md:57-59). It passes a
row that it has not read itself, so that the row is `unread`: `ingest_writers` reaches that. `MissedRowBilled` fails when
one of its exceptions is left out: `Passed`, `Blocked` (one malformed row stops every row behind it), or `Outrun` (a row
that was due, and whose ticks failed or wrote no watermark, until it fell out of the look-back). `BackfillCoversWindow`
fails in `IngestWriters.cfg` with `Rows = {r1, r3}`, `Rids = {q1, q3}` and no `LiveWorkers`: a window with more rows than
the LIMIT is not re-ingested (`:278`, against `reconciliation-discrepancy.ts:6-7`).

*Daily jobs.* `EveryDayRolledUp` fails with `Prompt = FALSE` (to see it soon, with `Rows = {a}`, `Tenants = {acme}`, no
failure and no repair by hand): a dispatcher taken after the next midnight rolls up the wrong day, and nothing rolls up
its own (`usage-rollup-daily.ts:75`, against 32-34). `SpendInItsDay` fails in `DailyJobs.cfg`: a request over midnight
counts in the day it ended (`routes/reason.ts:240`, against `usage-rollup-daily.ts:79-81`).

*Archive.* A detached partition is only found by a name with an underscore between year and month
(`partman-maintenance.ts:48`, `audit-archive.ts:42`), but pg_partman 5 names its children with eight digits, as the
repository's own test has it (`packages/data/migrations/__tests__/0014-audit-log-partition.test.ts:167-171`). Such a
partition, `mar` in the run, is detached and never archived or dropped: with `Partitions` in the place of `Monthly`,
`DetachedArchived` fails. `ArchiveKept` fails with `Prompt = TRUE`, `MaxFails = 1`, `MaxCrashes = 0`: a duplicate job cuts
the object of a partition that was dropped (`partman-maintenance.ts:98`, against 92-94). With `Replicas = 2`
`DropOnlyArchived` fails: two jobs for one partition run at once, one stores the whole partition, the other's dump dies
and its upload cuts the object, then the first one drops the table. What holds for any number is `DropAfterOwnUpload`.

*Worker.* `WrappedJobsRun` fails with `SingleRole = {FALSE}`, `MaxFails = 0`: the pool's guard throws for a role without a
tenant of its own, also on the connection that is about to claim the bypass (`db/app-pool.ts:87-107`), so a backfill never
runs (`reconciliation-discrepancy.ts:6-7`); `DailyJobs` assumes a deployment in which it does. `OwnClaim` fails there with
three jobs: the guard gives the connection back, the wrapper gives it back again, and by then it is another job's.
`closeQueueRegistry` (`queues.ts:101`) drops the failures of its closes, so the exit code is 0 all the same. When
`set_config` throws, `withTenantContext` gives the connection back in its aborted transaction
(`with-tenant-context.ts:142-146`): no job runs with what is left in it, but BEGIN is refused there, and each tenant job
that gets the connection fails, until a bypass block rolls it back or the pool closes it as idle. A shutdown hangs when a
worker fails to close while its backfill waits for a second connection (`Hung`): `pool.end()` serves no waiter, and waits
for the first one.

*Setup.* `NeverWedged` fails in `SetupSafety.cfg`: for an address that has signed up before, the sign-up is answered with
an id that exists nowhere, the role flip matches no row, and the request is answered 201 with setup completed and no admin
(the header of `setup-admin-rollback.test.ts:4-10` calls that wedged).

*Relay.* `DeadNoticedInTime` fails with an interval and a timeout of 2: a dead peer may be noticed after almost two
intervals and the timeout, 60 s, where `config/realtime.ts:135-136` says "~40s worst case"; `DeadNoticed` has the bound
that holds. `AnswersOwn` without its `~Rejects` fails with `Rejects = TRUE`: an upstream that answers the relay's own
update with an error leaves the flag set and the client's own echo is swallowed (`routes/realtime.ts:494`, against 392-393
and 493). Close codes 1004 to 1014 of the upstream reach the client as 1011 although the comment at 591 has them as valid.

*Streams.* `DisconnectStops` fails in `StreamEnd.cfg`: the comments at `routes/agent/stream.ts:186-199` and `247-256` say
that a client's leaving aborts the upstream request and destroys its body, but the listener waits for the close event of
the request (199), which since Node 16 follows the end of the request's body and so comes before the upstream has
answered, or not at the client's leaving at all. The stream is drained, and paid for, to its end. (The unit tests emit the
event by hand.) The usage in a `done` chunk is zero when the gateway sends it in a frame of its own
(`lib/sse-parser.ts:73-74`). docs/operations.md:1966 calls `done` terminal, yet the two chunks of an error, a text and the
error, may follow it (`LastWord`).

*Sync.* A delta whose page is full of one millisecond asks for the same page for ever (`Crowded`); a write that began
before the cursor's time and committed after it is never given (`behind`); a deletion never reaches a delta; and a purge
removes the tombstones, so that a create retried after it brings the note back.

*Desktop sign-in.* `lib/mint-bearer.ts:426-430` says that the second decision makes the re-sync "fire identically to the
web update path", but a role that is null is re-synced by the web's hook (`lib/oidc-jit-hooks.ts:287-291`, and its test
`tests/integration/auth-jit-hooks.test.ts:461-479`) and never here (`mint-bearer.ts:451-467`): such a person gets a bearer
and keeps no role. That is the first disjunct of `RoleConverges`, and the last of `OutcomeMeetsTable`. A mismatch is also
what a person is told whose account was deleted between two statements of the callback. The role and its audit row are two
transactions, and a callback that fails between them is never made up for: the next one finds nothing to change (`lost` in
`RoleTraced`). Two overlapping callbacks may name the same role `before`. A refused sign-in leaves the stored role and the
sessions as they were, and a state is spent by a callback that fails later.

*Spaces, read but not modelled.* `routes/me-spaces.ts:20-23` must "stay in step" with the list of notes, which with
`?scope=all` still lists notes of a deleted space; `routes/teams.ts:355-358` says that every join filters `deleted_at`, which
`lib/space-scope.ts:46-52` does not; `lib/space-scope.ts:73-74` says that a membership read inside the caller's
transaction "cannot drift", but under READ COMMITTED it may be revoked between the check and the statement; and the creator of
a space is checked as its admin but shown as a member, since the arm of `me-spaces.ts` that `routes/spaces.ts` refers to does
not exist.

## 8. Not modelled

Every component without a module is in `PROJECT.json` with its reason. In short: token rotation has no production caller
(`set-auth-token` for a signed-in session only comes from the route for tests); teams and spaces are next in the
plan, the other CRUD routes run in one transaction each under row-level security; the web's sign-in runs inside Better Auth;
rate limits are a library's counters; the writing of an audit row is one insert; the encryption backfill is run by an
operator; migrations, the key drain, schemas, texts, telemetry and the web UI keep no protocol state.

Left out of what is modelled in part: of the archive, the dry run, the `aws_s3` and `custom` exporters and deployments
without pg_partman; backoff times, removal of old completed jobs and an operator's handling of failed jobs; of setup, the
boot check, the state route, the rename and the audit row; of the relay, the fields of translated frames, languages, models
and binary audio; of the notes, contents, folders, spaces, sharing and search; of the streams, the cutting of bytes into
frames, prompts and contents; of the worker, templates and the Drizzle variants of the context; of the sign-in, a deployment
without `OIDC_TENANT_CLAIM` or with the e-mail's domain as its tenant, discovery, schemes and PKCE.

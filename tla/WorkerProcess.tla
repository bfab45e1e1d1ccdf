---- MODULE WorkerProcess ----
(***************************************************************************)
(* One worker process: its BullMQ workers, the pool of the owner role with *)
(* the tenant guard, and the shutdown on a signal.                         *)
(*                                                                         *)
(* A job of a tenant holds a connection in a transaction that claims the   *)
(* tenant (withTenantContext); a cross-tenant job holds one in a           *)
(* transaction that claims the bypass (withSystemBypassClient); a backfill *)
(* does the second inside the first, on a connection of its own.           *)
(*                                                                         *)
(* Source: apps/worker/src/index.ts, lib/with-tenant-context.ts,           *)
(* lib/with-system-context.ts, db/app-pool.ts, lib/shutdown.ts,            *)
(* jobs/email-delivery.ts, packages/data/src/tenant-context.ts.  pg and    *)
(* BullMQ are external.                                                    *)
(***************************************************************************)
EXTENDS Integers, FiniteSets

CONSTANTS
  Jobs, Conns, NoConn, Tenants, NoTenant,
  kind,          \* what each job is
  tenantOf,      \* its tenant (of no matter for a cross-tenant job)
  Attempts,
  SingleRole,    \* the roles to check: TRUE, the owner's role has a default
                 \* app.tenant_id, as one that is the application's role too
  Mailers,       \* the set-ups of the mail to check
  MaxFails       \* bound: how many statements, mails and closes fail

Kinds == {"rollup", "email", "system", "backfill"}
\* SMTP is configured; it is not; it is not, and EMAIL_FALLBACK_NONFATAL is set.
Smtp == {"set", "unset", "waived"}

ASSUME ProcessAssumption ==
  /\ kind \in [Jobs -> Kinds]
  /\ tenantOf \in [Jobs -> Tenants]
  /\ NoTenant \notin Tenants
  /\ NoConn \notin Conns
  /\ Attempts \in Nat \ {0}
  /\ SingleRole \subseteq BOOLEAN
  /\ Mailers \subseteq Smtp
  /\ MaxFails \in Nat
  /\ IsFiniteSet(Conns)

VARIABLES
  roleTenant,   \* the owner's role has a default app.tenant_id
  smtp,
  conn,         \* the server's side of a connection
  out,          \* the connections the pool takes to be checked out
  job,
  sent,         \* how often the mail of an email job was delivered
  down,         \* the step the shutdown is at
  settled,      \* the workers whose close() has settled
  errored,      \* shutdownErrored
  fails

vars == <<roleTenant, smtp, conn, out, job, sent, down, settled, errored, fails>>
shutdown == <<down, settled, errored>>

\* A statement that the server refuses aborts the transaction it is in: every
\* other is refused then, BEGIN too, until a COMMIT or a ROLLBACK.
Clean == [tx |-> "no", tenant |-> NoTenant, bypass |-> FALSE]
Conn == [tx: {"no", "open", "aborted"}, tenant: Tenants \cup {NoTenant}, bypass: BOOLEAN]

\* waiting: in the pool's queue, all of its connections being out.
Stages == {"queued", "connect", "waiting", "begin", "claim", "work", "commit",
           "rollback", "release", "done", "failed"}
\* outer, inner: the connections it holds; erring: the attempt is throwing;
\* gone: the guard has given the connection back before it threw.
Job == [stage: Stages, outer: Conns \cup {NoConn}, inner: Conns \cup {NoConn},
        erring: BOOLEAN, gone: BOOLEAN, tries: 0..Attempts - 1]
Fresh == [stage |-> "queued", outer |-> NoConn, inner |-> NoConn,
          erring |-> FALSE, gone |-> FALSE, tries |-> 0]

Over == {"done", "failed"}
Active(j) == job[j].stage \notin Over \cup {"queued"}
Nested(j) == job[j].inner # NoConn
Top(j) == IF Nested(j) THEN job[j].inner ELSE job[j].outer
\* One BullMQ worker for each kind of job.
Workers == {kind[j] : j \in Jobs}
\* The transaction the job is in claims the bypass and not a tenant.
ClaimsBypass(j) == kind[j] = "system" \/ Nested(j)

Init ==
  /\ roleTenant \in SingleRole
  /\ smtp \in Mailers
  /\ conn = [c \in Conns |-> Clean]
  /\ out = {}
  /\ job = [j \in Jobs |-> Fresh]
  /\ sent = [j \in Jobs |-> 0]
  /\ down = "up"
  /\ settled = {}
  /\ errored = FALSE
  /\ fails = 0

AFailure == fails < MaxFails /\ fails' = fails + 1
At(j, stage) == job[j].stage = stage
Goes(j, stage) == job' = [job EXCEPT ![j].stage = stage]
\* The rest of the attempt throws: the transaction is rolled back.
Throws(j) == job' = [job EXCEPT ![j].stage = "rollback", ![j].erring = TRUE]

-----------------------------------------------------------------------------
\* BullMQ and the checkout.

\* A worker takes one job at a time, until it is closed.
Take(j) ==
  /\ At(j, "queued")
  /\ down = "up"
  /\ \A i \in Jobs : kind[i] = kind[j] => ~Active(i)
  /\ Goes(j, "connect")
  /\ UNCHANGED <<roleTenant, smtp, conn, out, sent, shutdown, fails>>

PoolEnds == down \in {"pool", "redis"}
Waiting == {j \in Jobs : At(j, "waiting")}

\* pool.connect() gives an idle connection, or a new one, unless others wait;
\* a waiter is served when a connection comes back, and no more once the pool
\* is ending.
Connect(j) ==
  /\ \/ At(j, "connect") /\ Waiting = {}
     \/ At(j, "waiting")
  /\ ~PoolEnds
  /\ \E c \in Conns \ out :
       /\ out' = out \cup {c}
       /\ job' = [job EXCEPT ![j].stage = "begin",
                             ![j].outer = IF @ = NoConn THEN c ELSE @,
                             ![j].inner = IF job[j].outer = NoConn THEN @ ELSE c]
  /\ UNCHANGED <<roleTenant, smtp, conn, sent, shutdown, fails>>

\* Otherwise the call waits, without a limit of time.
Wait(j) ==
  /\ At(j, "connect")
  /\ ~PoolEnds
  /\ Waiting # {} \/ Conns \subseteq out
  /\ Goes(j, "waiting")
  /\ UNCHANGED <<roleTenant, smtp, conn, out, sent, shutdown, fails>>

\* The pool closes a connection that was idle for long.
Reap(c) ==
  /\ c \notin out
  /\ conn[c].tx = "aborted"
  /\ conn' = [conn EXCEPT ![c] = Clean]
  /\ UNCHANGED <<roleTenant, smtp, out, job, sent, shutdown, fails>>

\* How an attempt goes on after the block that ended: the backfill's inner
\* block returns into, or throws through, withTenantContext; otherwise the
\* attempt is over, and is retried if it threw.
After(j, returns, erring) ==
  IF returns
  THEN [job[j] EXCEPT !.stage = IF erring THEN "rollback" ELSE "commit",
                      !.inner = NoConn, !.erring = erring, !.gone = FALSE]
  ELSE IF ~erring
  THEN [Fresh EXCEPT !.stage = "done", !.tries = job[j].tries]
  ELSE IF job[j].tries + 1 < Attempts
  THEN [Fresh EXCEPT !.tries = job[j].tries + 1]
  ELSE [Fresh EXCEPT !.stage = "failed", !.tries = job[j].tries]

\* connect() on a pool that is ending throws, as when no connection can be
\* opened; a call that waits already is not told that the pool is ending.
ConnectFails(j) ==
  /\ \/ At(j, "connect") /\ PoolEnds /\ fails' = fails
     \/ At(j, "connect") /\ ~PoolEnds /\ AFailure
  /\ job' = [job EXCEPT ![j] = After(j, job[j].outer # NoConn, TRUE)]
  /\ UNCHANGED <<roleTenant, smtp, conn, out, sent, shutdown>>

-----------------------------------------------------------------------------
\* One transaction.  The statements of a connection are answered in order:
\* what another job does on it waits for a ROLLBACK that was sent before.

Behind(j) == \E i \in Jobs \ {j} : job[i].gone /\ Top(i) = Top(j)

Refused(j) == conn[Top(j)].tx = "aborted"
\* A statement fails: refused, or its connection is lost, for which the pool
\* opens another.
Fails(j) ==
  \/ Refused(j) /\ conn' = conn /\ fails' = fails
  \/ /\ AFailure
     /\ \/ conn' = [conn EXCEPT ![Top(j)] = Clean]
        \/ conn' = [conn EXCEPT ![Top(j)].tx = IF @ = "no" THEN @ ELSE "aborted"]

\* BEGIN inside an open transaction is a warning.
Begin(j) ==
  /\ At(j, "begin")
  /\ ~Refused(j)
  /\ conn' = [conn EXCEPT ![Top(j)].tx = "open"]
  /\ Goes(j, "claim")
  /\ UNCHANGED <<roleTenant, smtp, out, sent, shutdown, fails>>

\* set_config(..., true) lasts for the transaction it is in, if there is one.
Claim(j) ==
  /\ At(j, "claim")
  /\ ~Behind(j)
  /\ ~Refused(j)
  /\ conn' = [conn EXCEPT ![Top(j)] =
                IF @.tx = "no" THEN @
                ELSE IF ClaimsBypass(j) THEN [@ EXCEPT !.bypass = TRUE]
                ELSE [@ EXCEPT !.tenant = tenantOf[j]]]
  /\ Goes(j, "work")
  /\ UNCHANGED <<roleTenant, smtp, out, sent, shutdown, fails>>

\* withTenantContext gives the connection back without a ROLLBACK when BEGIN or
\* set_config throws, withSystemBypassClient rolls back first.
SetupFails(j) ==
  /\ \/ At(j, "begin")
     \/ At(j, "claim") /\ ~Behind(j)
  /\ Fails(j)
  /\ IF ClaimsBypass(j) THEN Throws(j)
     ELSE job' = [job EXCEPT ![j].stage = "release", ![j].erring = TRUE]
  /\ UNCHANGED <<roleTenant, smtp, out, sent, shutdown>>

\* The guard of the pool probes app.tenant_id before the first statement of
\* a checkout, unless the job runs in system mode.
Unclaimed(j) == kind[j] # "system" /\ ~roleTenant /\ conn[Top(j)].tenant = NoTenant

\* The handler: a rollup's, a tick's, or the inner block's statements.
Work(j) ==
  /\ At(j, "work")
  /\ kind[j] \in {"rollup", "system"} \/ Nested(j)
  /\ ~Behind(j)
  /\ ~Refused(j)
  /\ ~Unclaimed(j)
  /\ Goes(j, "commit")
  /\ UNCHANGED <<roleTenant, smtp, conn, out, sent, shutdown, fails>>

\* The guard gives the connection back, in its transaction, and throws.
GuardThrows(j) ==
  /\ At(j, "work")
  /\ kind[j] \in {"rollup", "system"} \/ Nested(j)
  /\ ~Behind(j)
  /\ ~Refused(j)
  /\ Unclaimed(j)
  /\ out' = out \ {Top(j)}
  /\ job' = [job EXCEPT ![j].stage = "rollback", ![j].erring = TRUE, ![j].gone = TRUE]
  /\ UNCHANGED <<roleTenant, smtp, conn, sent, shutdown, fails>>

\* The handler of a backfill opens a second transaction: it stands for the
\* ones of runIngestOnce, which come one after the other.
Nest(j) ==
  /\ At(j, "work")
  /\ kind[j] = "backfill"
  /\ ~Nested(j)
  /\ Goes(j, "connect")
  /\ UNCHANGED <<roleTenant, smtp, conn, out, sent, shutdown, fails>>

\* Mutant: an undelivered mail does not fail the job.
SendUnchecked(j) ==
  /\ At(j, "work")
  /\ kind[j] = "email"
  /\ \/ smtp = "set" /\ sent' = [sent EXCEPT ![j] = @ + 1] /\ fails' = fails
     \/ smtp = "set" /\ AFailure /\ sent' = sent
     \/ smtp # "set" /\ sent' = sent /\ fails' = fails
  /\ Goes(j, "commit")
  /\ UNCHANGED <<roleTenant, smtp, conn, out, shutdown>>
\* The handler of an email job renders and sends, in the transaction.  A mail
\* that is not delivered fails the attempt, unless it is for want of an SMTP
\* server, which the operator has declared to be no failure.
Send(j) ==
  /\ At(j, "work")
  /\ kind[j] = "email"
  /\ \/ smtp = "set" /\ sent' = [sent EXCEPT ![j] = @ + 1] /\ fails' = fails /\ Goes(j, "commit")
     \/ AFailure /\ sent' = sent /\ Throws(j)
     \/ smtp = "unset" /\ sent' = sent /\ fails' = fails /\ Throws(j)
     \/ smtp = "waived" /\ sent' = sent /\ fails' = fails /\ Goes(j, "commit")
  /\ UNCHANGED <<roleTenant, smtp, conn, out, shutdown>>

\* Of a backfill that is not in its inner block it is a call elsewhere that fails.
WorkFails(j) ==
  /\ At(j, "work")
  /\ kind[j] # "email"
  /\ ~Behind(j)
  /\ Fails(j) \/ (AFailure /\ conn' = conn)
  /\ Throws(j)
  /\ UNCHANGED <<roleTenant, smtp, out, sent, shutdown>>

\* Mutant: the claim is set for the session and not for the transaction.
CommitKeepsClaim(j) ==
  /\ At(j, "commit")
  /\ conn' = [conn EXCEPT ![Top(j)].tx = "no"]
  /\ Goes(j, "release")
  /\ UNCHANGED <<roleTenant, smtp, out, sent, shutdown, fails>>
\* COMMIT, which of an aborted transaction is a ROLLBACK and no error; the
\* claims end with it.
Commit(j) ==
  /\ At(j, "commit")
  /\ conn' = [conn EXCEPT ![Top(j)] = Clean]
  /\ Goes(j, "release")
  /\ UNCHANGED <<roleTenant, smtp, out, sent, shutdown, fails>>

CommitFails(j) ==
  /\ At(j, "commit")
  /\ AFailure
  /\ Throws(j)
  /\ UNCHANGED <<roleTenant, smtp, conn, out, sent, shutdown>>

\* ROLLBACK, on whatever the connection is in by now.
Rollback(j) ==
  /\ At(j, "rollback")
  /\ conn' = [conn EXCEPT ![Top(j)] = Clean]
  /\ Goes(j, "release")
  /\ UNCHANGED <<roleTenant, smtp, out, sent, shutdown, fails>>

\* Mutant: an attempt that threw does not give its connection back.
ReleaseUnlessErring(j) ==
  /\ At(j, "release")
  /\ out' = IF job[j].erring THEN out ELSE out \ {Top(j)}
  /\ job' = [job EXCEPT ![j] = After(j, Nested(j), job[j].erring \/ Top(j) \notin out)]
  /\ UNCHANGED <<roleTenant, smtp, conn, sent, shutdown, fails>>
\* client.release(): the pool has put the closure of the present checkout on
\* the client, whosever it is; without one the call throws.
Release(j) ==
  /\ At(j, "release")
  /\ out' = out \ {Top(j)}
  /\ job' = [job EXCEPT ![j] = After(j, Nested(j), job[j].erring \/ Top(j) \notin out)]
  /\ UNCHANGED <<roleTenant, smtp, conn, sent, shutdown, fails>>

Step(j) ==
  \/ Connect(j) \/ Wait(j) \/ ConnectFails(j) \/ Begin(j) \/ Claim(j) \/ SetupFails(j)
  \/ Work(j) \/ GuardThrows(j) \/ Nest(j) \/ Send(j) \/ WorkFails(j)
  \/ Commit(j) \/ CommitFails(j) \/ Rollback(j) \/ Release(j)

-----------------------------------------------------------------------------
\* runShutdown.

\* SIGTERM, SIGINT; a second one is ignored.
Signal ==
  /\ down = "up"
  /\ down' = "workers"
  /\ UNCHANGED <<roleTenant, smtp, conn, out, job, sent, settled, errored, fails>>

\* worker.close() waits for the worker's job.
CloseWorker(k) ==
  /\ down = "workers"
  /\ k \notin settled
  /\ \A j \in Jobs : kind[j] = k => ~Active(j)
  /\ settled' = settled \cup {k}
  /\ UNCHANGED <<roleTenant, smtp, conn, out, job, sent, down, errored, fails>>

\* Mutant: Promise.allSettled is not looked at.
CloseWorkerFailsUnseen(k) ==
  /\ down = "workers"
  /\ k \notin settled
  /\ AFailure
  /\ settled' = settled \cup {k}
  /\ UNCHANGED <<roleTenant, smtp, conn, out, job, sent, down, errored>>
CloseWorkerFails(k) ==
  /\ down = "workers"
  /\ k \notin settled
  /\ AFailure
  /\ settled' = settled \cup {k}
  /\ errored' = TRUE
  /\ UNCHANGED <<roleTenant, smtp, conn, out, job, sent, down>>

\* The queue of the ingest and the registry, whose failures nothing counts.
CloseQueues ==
  /\ down = "workers"
  /\ settled = Workers
  /\ \/ errored' = errored /\ fails' = fails
     \/ AFailure /\ errored' \in {errored, TRUE}
  /\ down' = "pool"
  /\ UNCHANGED <<roleTenant, smtp, conn, out, job, sent, settled>>

\* pool.end() waits for the connections that are checked out; the pools after
\* it may fail to end, and redis to quit.
EndPools ==
  /\ down = "pool"
  /\ out = {}
  /\ \/ errored' = errored /\ fails' = fails
     \/ AFailure /\ errored' = TRUE
  /\ down' = "redis"
  /\ UNCHANGED <<roleTenant, smtp, conn, out, job, sent, settled>>

\* process.exit(code)
Exit ==
  /\ down = "redis"
  /\ \/ errored' = errored /\ fails' = fails
     \/ AFailure /\ errored' = TRUE
  /\ down' = "exited"
  /\ UNCHANGED <<roleTenant, smtp, conn, out, job, sent, settled>>

ShutdownStep ==
  CloseQueues \/ EndPools \/ Exit \/ \E k \in Workers : CloseWorker(k) \/ CloseWorkerFails(k)

\* pool.end() waits for a backfill that waits for the pool: its worker has
\* failed to close, and nobody serves it any more.
Hung == down = "pool" /\ errored /\ \E j \in Waiting : job[j].outer # NoConn

\* The process is gone, or stays for ever; what it had in hand is taken up by
\* another one.
Exited ==
  /\ down = "exited" \/ Hung
  /\ UNCHANGED vars

Next ==
  \/ down # "exited" /\ \E j \in Jobs : Take(j) \/ Step(j)
  \/ down # "exited" /\ \E c \in Conns : Reap(c)
  \/ Signal \/ ShutdownStep \/ Exited

Spec == Init /\ [][Next]_vars

\* A worker that runs takes jobs, a job's promises settle, and a shutdown that
\* has begun goes on.
Fairness ==
  /\ \A j \in Jobs : WF_vars(down # "exited" /\ (Take(j) \/ Step(j)))
  /\ WF_vars(ShutdownStep)
FairSpec == Spec /\ Fairness

-----------------------------------------------------------------------------
\* Properties.

TypeOK ==
  /\ roleTenant \in BOOLEAN
  /\ smtp \in Smtp
  /\ conn \in [Conns -> Conn]
  /\ out \subseteq Conns
  /\ job \in [Jobs -> Job]
  /\ sent \in [Jobs -> 0..Attempts]
  /\ down \in {"up", "workers", "pool", "redis", "exited"}
  /\ settled \subseteq Workers
  /\ errored \in BOOLEAN
  /\ fails \in 0..MaxFails

Own(j) == IF ClaimsBypass(j) THEN [tx |-> "open", tenant |-> NoTenant, bypass |-> TRUE]
          ELSE [tx |-> "open", tenant |-> tenantOf[j], bypass |-> FALSE]
\* A handler runs, and commits, in its job's own transaction: with the claim
\* of its own tenant or its own bypass, and no other (with-tenant-context.ts,
\* "app.tenant_id travels with the query").
OwnClaim == \A j \in Jobs : job[j].stage \in {"work", "commit"} => conn[Top(j)] = Own(j)
\* It holds where the guard never throws: the owner's role has a tenant.
OwnClaimSingleRole == roleTenant => OwnClaim

\* A job none of whose statements fails is not failed by the guard: every
\* handler is wrapped (reconciliation-discrepancy.ts: the backfill re-ingests
\* its window).
WrappedJobsRun == fails = 0 /\ smtp # "unset" => \A j \in Jobs : job[j].stage # "failed"

\* A process that exits with code 0 has drained: no job was cut off, and no
\* transaction was open, to be cut off with its connection (shutdown.ts, CR-08).
CleanExitDrained ==
  down = "exited" /\ ~errored =>
    /\ \A j \in Jobs : ~Active(j)
    /\ \A c \in Conns : conn[c].tx # "open"

\* An email job that is done has delivered its mail (email-delivery.ts, "No
\* silent green for an unsent email"), unless there is no SMTP server and the
\* operator has declared that to be no failure.
DoneIsSent ==
  \A j \in Jobs : kind[j] = "email" /\ job[j].stage = "done" => sent[j] > 0 \/ smtp = "waived"

\* A shutdown ends, although a backfill waits for a second connection of the
\* pool that it holds one of, except for that case.
ShutdownEnds == down = "workers" ~> down = "exited" \/ Hung
====

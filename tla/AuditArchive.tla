---- MODULE AuditArchive ----
(***************************************************************************)
(* The archive of the audit log: a daily maintenance job detaches the      *)
(* partitions past their retention and enqueues an archive job for every   *)
(* detached one; an archive job dumps the partition through a pipeline     *)
(* into the object store and then drops the table.                         *)
(*                                                                         *)
(* Source: apps/worker/src/jobs/partman-maintenance.ts, audit-archive.ts   *)
(* (the exporters mc_cp and s3_cli, which pipe pg_dump into an upload).    *)
(***************************************************************************)
EXTENDS Integers, FiniteSets

CONSTANTS
  Partitions, NoPartition,
  Monthly,      \* those named audit_log_pYYYY_MM; pg_partman 5 makes pYYYYMMDD
  Jobs, NoOne,  \* bound: the archive jobs that are not over
  Replicas,     \* workers, each with one archive job at a time
  Attempts,     \* attempts of a job
  Prompt,       \* TRUE: a day's jobs are over before the next day's tick
  MaxFails,     \* bound: how many queries, dumps, uploads and enqueues fail
  MaxCrashes    \* bound: how many workers die in an archive job

ASSUME BoundsAssumption ==
  /\ IsFiniteSet(Jobs)
  /\ NoPartition \notin Partitions /\ Monthly \subseteq Partitions
  /\ NoOne \notin Jobs
  /\ Replicas \in Nat \ {0}
  /\ Attempts \in Nat \ {0}
  /\ Prompt \in BOOLEAN
  /\ MaxFails \in Nat
  /\ MaxCrashes \in Nat

VARIABLES
  table,    \* where each partition is
  object,   \* what audit-archive/<partition>.sql.gz holds, and which job stored it
  due,      \* a maintenance job is ready
  maint,    \* the run of the maintenance job
  job,      \* the audit-archive jobs
  fails, crashes

vars == <<table, object, due, maint, job, fails, crashes>>
store == <<table, object>>

Tries == 0..Attempts - 1
Resting == [pc |-> "idle", todo |-> {}, failed |-> FALSE, tries |-> 0]
Maint == [pc: {"idle", "call", "discover", "enqueue"},
          todo: SUBSET Partitions, failed: BOOLEAN, tries: Tries]

\* A completed job is removed; one that used up its attempts stays in the
\* failed set, which nothing reads.
NoJob == [pc |-> "none", part |-> NoPartition, tries |-> 0, whole |-> FALSE]
Job == [pc: {"none", "waiting", "dump", "upload", "drop", "dropped"},
        part: Partitions \cup {NoPartition},
        tries: Tries,
        whole: BOOLEAN]   \* pg_dump exited 0: the stream is the whole partition
Active == {j \in Jobs : job[j].pc \in {"dump", "upload", "drop", "dropped"}}

Init ==
  /\ table = [p \in Partitions |-> "attached"]
  /\ object = [p \in Partitions |-> [holds |-> "none", by |-> NoOne]]
  /\ due = FALSE
  /\ maint = Resting
  /\ job = [j \in Jobs |-> NoJob]
  /\ fails = 0
  /\ crashes = 0

AFailure == fails < MaxFails /\ fails' = fails + 1

-----------------------------------------------------------------------------
\* The maintenance job.

Quiet == maint.pc = "idle" /\ \A j \in Jobs : job[j].pc = "none"

\* "0 2 * * *"
Tick ==
  /\ ~due
  /\ Prompt => Quiet
  /\ due' = TRUE
  /\ UNCHANGED <<store, maint, job, fails, crashes>>

MaintTake ==
  /\ due
  /\ maint.pc = "idle"
  /\ due' = FALSE
  /\ maint' = [Resting EXCEPT !.pc = "call"]
  /\ UNCHANGED <<store, job, fails, crashes>>

\* CALL partman.run_maintenance_proc(): retention detaches, and keeps the tables.
MaintCall ==
  /\ maint.pc = "call"
  /\ \E S \in SUBSET {p \in Partitions : table[p] = "attached"} :
       table' = [p \in Partitions |-> IF p \in S THEN "detached" ELSE table[p]]
  /\ maint' = [maint EXCEPT !.pc = "discover"]
  /\ UNCHANGED <<object, due, job, fails, crashes>>

\* Mutant: partitions that an earlier job has touched are left out.
DetachedUntouched == {p \in Monthly : table[p] = "detached" /\ object[p].by = NoOne}
\* discoverDetached: the detached partitions that are still on disk, and whose
\* name is ^audit_log_p[0-9]{4}_[0-9]{2}$.
Detached == {p \in Monthly : table[p] = "detached"}

MaintDiscover ==
  /\ maint.pc = "discover"
  /\ maint' = [maint EXCEPT !.pc = "enqueue", !.todo = Detached]
  /\ UNCHANGED <<store, due, job, fails, crashes>>

\* One archive job per partition, without a jobId.
MaintEnqueue(p) ==
  /\ maint.pc = "enqueue"
  /\ p \in maint.todo
  /\ \E j \in Jobs :
       /\ job[j].pc = "none"
       /\ job' = [job EXCEPT ![j] = [NoJob EXCEPT !.pc = "waiting", !.part = p]]
  /\ maint' = [maint EXCEPT !.todo = @ \ {p}]
  /\ UNCHANGED <<store, due, fails, crashes>>

\* add() throws: the failure is collected, and the loop goes on.
MaintEnqueueFails(p) ==
  /\ maint.pc = "enqueue"
  /\ p \in maint.todo
  /\ AFailure
  /\ maint' = [maint EXCEPT !.todo = @ \ {p}, !.failed = TRUE]
  /\ UNCHANGED <<store, due, job, crashes>>

\* A failed attempt starts over, until the attempts are used up.
MaintAgain ==
  IF maint.tries + 1 < Attempts
  THEN [Resting EXCEPT !.pc = "call", !.tries = maint.tries + 1]
  ELSE Resting

\* The collected failures fail the attempt: the whole list is retried.
MaintEnd ==
  /\ maint.pc = "enqueue"
  /\ maint.todo = {}
  /\ maint' = IF maint.failed THEN MaintAgain ELSE Resting
  /\ UNCHANGED <<store, due, job, fails, crashes>>

\* The procedure or the query of the catalog fails.
MaintFails ==
  /\ maint.pc \in {"call", "discover"}
  /\ AFailure
  /\ maint' = MaintAgain
  /\ UNCHANGED <<store, due, job, crashes>>

-----------------------------------------------------------------------------
\* The archive jobs.

Take(j) ==
  /\ job[j].pc = "waiting"
  /\ Cardinality(Active) < Replicas
  /\ job' = [job EXCEPT ![j].pc = "dump", ![j].whole = FALSE]
  /\ UNCHANGED <<store, due, maint, fails, crashes>>

\* pg_dump writes the table into the pipe.  Without the table it exits 1 and
\* writes nothing; it may also die half-way.
Dump(j) ==
  /\ job[j].pc = "dump"
  /\ \/ UNCHANGED fails /\ job' = [job EXCEPT ![j].pc = "upload",
                                              ![j].whole = table[job[j].part] # "dropped"]
     \/ AFailure /\ job' = [job EXCEPT ![j].pc = "upload"]
  /\ UNCHANGED <<store, due, maint, crashes>>

\* The job after a failed attempt.
Again(j) ==
  IF job[j].tries + 1 < Attempts
  THEN [job[j] EXCEPT !.pc = "waiting", !.tries = @ + 1]
  ELSE NoJob

\* The upload stores what the pipe held, and overwrites what was there; it
\* cannot know how pg_dump ended.
Stored(j) ==
  [object EXCEPT ![job[j].part] = [holds |-> IF job[j].whole THEN "whole" ELSE "cut", by |-> j]]

\* Mutant: the exit code of the last stage counts.
UploadLastCode(j) ==
  /\ job[j].pc = "upload"
  /\ object' = Stored(j)
  /\ job' = [job EXCEPT ![j].pc = "drop"]
  /\ UNCHANGED <<table, due, maint, fails, crashes>>
\* The first stage that exits non-zero fails the attempt.
Upload(j) ==
  /\ job[j].pc = "upload"
  /\ object' = Stored(j)
  /\ job' = [job EXCEPT ![j] = IF job[j].whole THEN [job[j] EXCEPT !.pc = "drop"] ELSE Again(j)]
  /\ UNCHANGED <<table, due, maint, fails, crashes>>

\* The upload, or the DROP, fails.
JobFails(j) ==
  /\ job[j].pc \in {"upload", "drop"}
  /\ AFailure
  /\ job' = [job EXCEPT ![j] = Again(j)]
  /\ UNCHANGED <<store, due, maint, crashes>>

\* DROP TABLE IF EXISTS
Drop(j) ==
  /\ job[j].pc = "drop"
  /\ table' = [table EXCEPT ![job[j].part] = "dropped"]
  /\ job' = [job EXCEPT ![j].pc = "dropped"]
  /\ UNCHANGED <<object, due, maint, fails, crashes>>

Complete(j) ==
  /\ job[j].pc = "dropped"
  /\ job' = [job EXCEPT ![j] = NoJob]
  /\ UNCHANGED <<store, due, maint, fails, crashes>>

\* A worker dies: BullMQ finds the job stalled and lets it wait again.
Crash(j) ==
  /\ j \in Active
  /\ crashes < MaxCrashes
  /\ crashes' = crashes + 1
  /\ job' = [job EXCEPT ![j].pc = "waiting"]
  /\ UNCHANGED <<store, due, maint, fails>>

Maintenance ==
  \/ MaintTake \/ MaintCall \/ MaintDiscover \/ MaintEnd
  \/ \E p \in Partitions : MaintEnqueue(p)
Work(j) == Dump(j) \/ Upload(j) \/ Drop(j) \/ Complete(j)

Next ==
  \/ Tick
  \/ Maintenance
  \/ MaintFails
  \/ \E p \in Partitions : MaintEnqueueFails(p)
  \/ \E j \in Jobs : Take(j) \/ Work(j) \/ JobFails(j) \/ Crash(j)

Spec == Init /\ [][Next]_vars

\* The scheduler fires every day, and workers take jobs and go on with them.
Fairness ==
  /\ WF_vars(Tick) /\ WF_vars(Maintenance)
  /\ \A j \in Jobs : WF_vars(Take(j) \/ Work(j))
FairSpec == Spec /\ Fairness

-----------------------------------------------------------------------------
\* Properties.

\* Every variable keeps its shape; only a job slot that is free has no partition.
TypeOK ==
  /\ table \in [Partitions -> {"attached", "detached", "dropped"}]
  /\ object \in [Partitions -> [holds: {"none", "whole", "cut"}, by: Jobs \cup {NoOne}]]
  /\ due \in BOOLEAN
  /\ maint \in Maint
  /\ job \in [Jobs -> Job]
  /\ \A j \in Jobs : job[j].pc # "none" => job[j].part \in Partitions
  /\ fails \in 0..MaxFails
  /\ crashes \in 0..MaxCrashes

\* With one replica: when a partition is dropped, the object store holds the
\* whole of it, whatever jobs for it were retried, stalled or enqueued twice.
DropOnlyArchived ==
  [][\A p \in Partitions :
       table[p] # "dropped" /\ table'[p] = "dropped" => object[p].holds = "whole"]_vars

\* With any number: a job drops only the partition it has stored as a whole
\* itself, unless another job has stored over it in between.
DropAfterOwnUpload ==
  [][\A p \in Partitions : table[p] # "dropped" /\ table'[p] = "dropped" =>
       \E j \in Jobs : /\ job[j].pc = "drop" /\ job[j].part = p
                       /\ object[p].by \in Jobs
                       /\ object[p].by = j => object[p].holds = "whole"]_vars

\* A detached partition with such a name is archived and dropped in the end,
\* even when a job for it has used up its attempts, or its enqueue failed on
\* every attempt.
DetachedArchived ==
  \A p \in Monthly : (table[p] = "detached") ~> (table[p] = "dropped")

\* What was archived stays archived: jobs that are enqueued again do no harm.
ArchiveKept == \A p \in Partitions : table[p] = "dropped" => object[p].holds = "whole"
====

---- MODULE WorkerProcess_proofs ----
(***************************************************************************)
(* Theorems of WorkerProcess, for any jobs, connections, attempts and      *)
(* failures.                                                               *)
(*                                                                         *)
(* Shape and Mails say what a job's record may hold at each stage, and how *)
(* often its mail has gone out.  Owed says that a connection is in an open *)
(* transaction only while some job still has to end it                     *)
(* (what a failing BEGIN or set_config leaves behind is aborted); Tidy,    *)
(* that a claim ends with its transaction; Drained,                        *)
(* that a worker that closed has no job: together they make a clean exit a *)
(* drained one.  Single, for an owner's role with a tenant, says that the  *)
(* guard never throws, so that connections are held by one job each, and   *)
(* what each of them claims.                                               *)
(***************************************************************************)
EXTENDS WorkerProcess, TLAPS

Ending == {"commit", "rollback", "release", "done", "failed"}
Holding == {"begin", "claim", "work", "commit", "rollback", "release"}

ShapeOf(j, r) ==
  /\ r.stage \in Over \cup {"queued"} => r.outer = NoConn
  /\ r.stage \in Holding => r.outer # NoConn
  /\ r.inner # NoConn => kind[j] = "backfill" /\ r.stage \in Holding
  /\ r.stage \in {"connect", "waiting"} /\ r.outer # NoConn => kind[j] = "backfill"
  /\ r.stage \notin {"rollback", "release"} => ~r.erring /\ ~r.gone
  /\ r.stage = "rollback" => r.erring
Shape == \A j \in Jobs : ShapeOf(j, job[j])

\* An attempt sends one mail at most, and one that did not throw has sent it, if
\* there is a server to send it.
MailOf(j, r, s) ==
  /\ s <= r.tries + 1
  /\ r.stage \notin Ending => s <= r.tries
  /\ kind[j] = "email" /\ (r.stage \in {"commit", "done"} \/ (r.stage = "release" /\ ~r.erring))
       => s > 0 \/ smtp = "waived"
Mails == \A j \in Jobs : MailOf(j, job[j], sent[j])

\* A transaction the job has begun and not ended.
Owes(j, c) ==
  \/ c = job[j].outer /\ (job[j].inner # NoConn \/ job[j].stage \in {"connect", "waiting"})
  \/ c = Top(j) /\ job[j].stage \in {"claim", "work", "commit", "rollback"}
Settled(c) == conn[c].tx # "open"
Owed == \A c \in Conns : ~Settled(c) => \E j \in Jobs : Owes(j, c)

\* A claim is one of a transaction.
Tidy == \A c \in Conns : conn[c].tx = "no" => conn[c] = Clean

Drained ==
  /\ down = "up" => settled = {}
  /\ down \notin {"up", "workers"} => settled = Workers
  /\ ~errored => \A j \in Jobs : kind[j] \in settled => ~Active(j)

-----------------------------------------------------------------------------
\* The record of a job.

LEMMA FreshType == Fresh \in Job
<1>1. 0 \in 0 .. Attempts - 1
  BY ProcessAssumption
<1> QED
  BY <1>1 DEF Fresh, Job, Stages

\* How an attempt goes on, field by field.
Continues(j, r, returns, erring) ==
  /\ r \in Job
  /\ r.inner = NoConn /\ ~r.gone
  /\ returns => /\ r.stage = IF erring THEN "rollback" ELSE "commit"
                /\ r.outer = job[j].outer
                /\ r.erring = erring
                /\ r.tries = job[j].tries
  /\ ~returns => /\ r.outer = NoConn /\ ~r.erring
                 /\ r.stage \in {"queued", "done", "failed"}
                 /\ r.stage = "done" => ~erring
                 /\ r.tries = IF r.stage = "queued" THEN job[j].tries + 1 ELSE job[j].tries

LEMMA AfterIs ==
  ASSUME TypeOK, NEW j \in Jobs, NEW returns \in BOOLEAN, NEW erring \in BOOLEAN,
         NEW r, r = After(j, returns, erring)
  PROVE  Continues(j, r, returns, erring)
<1> USE DEF Continues
<1>1. job[j] \in Job /\ job[j].tries \in 0 .. Attempts - 1 /\ Attempts \in Nat
  BY ProcessAssumption DEF TypeOK, Job
<1>2. CASE returns
  <2>1. r = [job[j] EXCEPT !.stage = IF erring THEN "rollback" ELSE "commit",
                           !.inner = NoConn, !.erring = erring, !.gone = FALSE]
    BY <1>2 DEF After
  <2>2. r \in Job
    BY ONLY <2>1, <1>1, erring \in BOOLEAN DEF Job, Stages
  <2> QED
    BY ONLY <1>2, <2>1, <2>2, <1>1 DEF Job
<1>3. CASE ~returns /\ ~erring
  <2>1. r = [Fresh EXCEPT !.stage = "done", !.tries = job[j].tries]
    BY <1>3 DEF After
  <2>2. r \in Job
    BY ONLY <2>1, <1>1, FreshType DEF Job, Stages
  <2> QED
    BY ONLY <1>3, <2>1, <2>2, FreshType DEF Fresh, Job
<1>4. CASE ~returns /\ erring /\ job[j].tries + 1 < Attempts
  <2>1. r = [Fresh EXCEPT !.tries = job[j].tries + 1]
    BY <1>4 DEF After
  <2>2. job[j].tries + 1 \in 0 .. Attempts - 1
    BY <1>1, <1>4
  <2>3. r \in Job
    BY ONLY <2>1, <2>2, FreshType DEF Job, Stages
  <2> QED
    BY ONLY <1>4, <2>1, <2>3, FreshType DEF Fresh, Job
<1>5. CASE ~returns /\ erring /\ ~(job[j].tries + 1 < Attempts)
  <2>1. r = [Fresh EXCEPT !.stage = "failed", !.tries = job[j].tries]
    BY <1>5 DEF After
  <2>2. r \in Job
    BY ONLY <2>1, <1>1, FreshType DEF Job, Stages
  <2> QED
    BY ONLY <1>5, <2>1, <2>2, FreshType DEF Fresh, Job
<1> QED
  BY <1>2, <1>3, <1>4, <1>5

\* What a job's own step does to its record and to its mail, and to no other.
Moved(j) ==
  /\ job' = [job EXCEPT ![j] = job'[j]]
  /\ job'[j] \in Job
  /\ ShapeOf(j, job'[j])
  /\ sent' \in [Jobs -> Nat]
  /\ \A i \in Jobs \ {j} : sent'[i] = sent[i]
  /\ MailOf(j, job'[j], sent'[j])

LEMMA Moves ==
  ASSUME TypeOK, Shape, Mails, NEW j \in Jobs, Take(j) \/ Step(j)
  PROVE  Moved(j)
<1>j. /\ job \in [Jobs -> Job] /\ job[j] \in Job /\ job[j].tries \in 0 .. Attempts - 1
      /\ sent \in [Jobs -> Nat] /\ sent[j] \in Nat /\ Attempts \in Nat
  BY ProcessAssumption DEF TypeOK, Job
<1>s. ShapeOf(j, job[j]) /\ MailOf(j, job[j], sent[j])
  BY DEF Shape, Mails
<1>g. \A stage \in Stages :
        Goes(j, stage) =>
          /\ job'[j] = [job[j] EXCEPT !.stage = stage]
          /\ job'[j] \in Job
          /\ job' = [job EXCEPT ![j] = job'[j]]
  <2> SUFFICES ASSUME NEW stage \in Stages, Goes(j, stage)
               PROVE  /\ job'[j] = [job[j] EXCEPT !.stage = stage]
                      /\ job'[j] \in Job
                      /\ job' = [job EXCEPT ![j] = job'[j]]
    OBVIOUS
  <2>1. job'[j] = [job[j] EXCEPT !.stage = stage]
    BY <1>j DEF Goes
  <2>2. job'[j] \in Job
    BY ONLY <2>1, <1>j, stage \in Stages DEF Job
  <2> QED
    BY <1>j, <2>1, <2>2 DEF Goes
<1>t. Throws(j) =>
        /\ job'[j] = [job[j] EXCEPT !.stage = "rollback", !.erring = TRUE]
        /\ job'[j] \in Job
        /\ job' = [job EXCEPT ![j] = job'[j]]
  <2> SUFFICES ASSUME Throws(j)
               PROVE  /\ job'[j] = [job[j] EXCEPT !.stage = "rollback", !.erring = TRUE]
                      /\ job'[j] \in Job
                      /\ job' = [job EXCEPT ![j] = job'[j]]
    OBVIOUS
  <2>1. job'[j] = [job[j] EXCEPT !.stage = "rollback", !.erring = TRUE]
    BY <1>j DEF Throws
  <2>2. job'[j] \in Job
    BY ONLY <2>1, <1>j DEF Job, Stages
  <2> QED
    BY <1>j, <2>1, <2>2 DEF Throws
<1>a. \A returns, erring \in BOOLEAN :
        job' = [job EXCEPT ![j] = After(j, returns, erring)] =>
          job'[j] = After(j, returns, erring) /\ job' = [job EXCEPT ![j] = job'[j]]
  BY <1>j
<1>1. CASE Take(j)
  <2>1. Goes(j, "connect") /\ At(j, "queued") /\ sent' = sent
    BY <1>1 DEF Take
  <2>2. "connect" \in Stages
    BY DEF Stages
  <2> QED
    BY <2>1, <2>2, <1>g, <1>j, <1>s DEF At, Moved, ShapeOf, MailOf, Job, Over, Holding, Ending
<1>2. CASE Connect(j)
  <2>1. PICK c \in Conns \ out :
          job' = [job EXCEPT ![j].stage = "begin",
                             ![j].outer = IF @ = NoConn THEN c ELSE @,
                             ![j].inner = IF job[j].outer = NoConn THEN @ ELSE c]
    BY <1>2 DEF Connect
  <2>2. job'[j] = [job[j] EXCEPT !.stage = "begin",
                     !.outer = IF @ = NoConn THEN c ELSE @,
                     !.inner = IF job[j].outer = NoConn THEN @ ELSE c]
    BY <2>1, <1>j
  <2>3. job'[j] \in Job
    BY ONLY <2>2, <1>j, c \in Conns DEF Job, Stages
  <2>4. job' = [job EXCEPT ![j] = job'[j]]
    BY <2>1, <1>j
  <2>5. job[j].stage \in {"connect", "waiting"} /\ sent' = sent
    BY <1>2 DEF Connect, At
  <2> QED
    BY <2>2, <2>3, <2>4, <2>5, <1>j, <1>s, ProcessAssumption
       DEF At, Moved, ShapeOf, MailOf, Job, Over, Holding, Ending
<1>3. CASE ConnectFails(j)
  <2>1. /\ At(j, "connect") /\ sent' = sent
        /\ job' = [job EXCEPT ![j] = After(j, job[j].outer # NoConn, TRUE)]
    BY <1>3 DEF ConnectFails
  <2>2. job'[j] = After(j, job[j].outer # NoConn, TRUE) /\ job' = [job EXCEPT ![j] = job'[j]]
    BY <2>1, <1>a
  <2>3. Continues(j, job'[j], job[j].outer # NoConn, TRUE)
    BY <2>2, AfterIs
  <2>m. sent'[j] = sent[j] /\ sent[j] <= job[j].tries
    BY <2>1, <1>j, <1>s DEF At, MailOf, Ending
  <2>4. MailOf(j, job'[j], sent'[j])
    <3>1. CASE job[j].outer # NoConn
      <4>1. job'[j].stage = "rollback" /\ job'[j].tries = job[j].tries
        BY <2>3, <3>1 DEF Continues
      <4> QED
        BY <2>m, <4>1, <1>j DEF MailOf, Ending
    <3>2. CASE job[j].outer = NoConn
      <4>1. /\ job'[j].stage \in {"queued", "failed"}
            /\ job'[j].tries \in {job[j].tries, job[j].tries + 1}
        BY <2>3, <3>2 DEF Continues
      <4> QED
        BY <2>m, <4>1, <1>j DEF MailOf, Ending
    <3> QED
      BY <3>1, <3>2
  <2>5. ShapeOf(j, job'[j])
    BY <2>1, <2>3, <1>j, <1>s DEF Continues, At, ShapeOf, Over, Holding
  <2> QED
    BY <2>1, <2>2, <2>3, <2>4, <2>5, <1>j DEF Continues, Moved
<1>4. CASE Begin(j)
  <2>1. Goes(j, "claim") /\ At(j, "begin") /\ sent' = sent
    BY <1>4 DEF Begin
  <2>2. "claim" \in Stages
    BY DEF Stages
  <2> QED
    BY <2>1, <2>2, <1>g, <1>j, <1>s DEF At, Moved, ShapeOf, MailOf, Job, Over, Holding, Ending
<1>5. CASE Claim(j)
  <2>1. Goes(j, "work") /\ At(j, "claim") /\ sent' = sent
    BY <1>5 DEF Claim
  <2>2. "work" \in Stages
    BY DEF Stages
  <2> QED
    BY <2>1, <2>2, <1>g, <1>j, <1>s DEF At, Moved, ShapeOf, MailOf, Job, Over, Holding, Ending
<1>6. CASE Work(j)
  <2>1. Goes(j, "commit") /\ At(j, "work") /\ sent' = sent /\ kind[j] # "email"
    BY <1>6, <1>s DEF Work, ShapeOf, Nested
  <2>2. "commit" \in Stages
    BY DEF Stages
  <2> QED
    BY <2>1, <2>2, <1>g, <1>j, <1>s DEF At, Moved, ShapeOf, MailOf, Job, Over, Holding, Ending
<1>7. CASE GuardThrows(j)
  <2>1. /\ job' = [job EXCEPT ![j].stage = "rollback", ![j].erring = TRUE, ![j].gone = TRUE]
        /\ At(j, "work") /\ sent' = sent
    BY <1>7 DEF GuardThrows
  <2>2. job'[j] = [job[j] EXCEPT !.stage = "rollback", !.erring = TRUE, !.gone = TRUE]
    BY <2>1, <1>j
  <2>3. job'[j] \in Job
    BY ONLY <2>2, <1>j DEF Job, Stages
  <2>4. job' = [job EXCEPT ![j] = job'[j]]
    BY <2>1, <1>j
  <2> QED
    BY <2>1, <2>2, <2>3, <2>4, <1>j, <1>s DEF At, Moved, ShapeOf, MailOf, Job, Over, Holding, Ending
<1>8. CASE Nest(j)
  <2>1. Goes(j, "connect") /\ At(j, "work") /\ kind[j] = "backfill" /\ ~Nested(j) /\ sent' = sent
    BY <1>8 DEF Nest
  <2>2. "connect" \in Stages
    BY DEF Stages
  <2> QED
    BY <2>1, <2>2, <1>g, <1>j, <1>s
       DEF At, Nested, Moved, ShapeOf, MailOf, Job, Over, Holding, Ending
<1>9. CASE Send(j)
  <2>1. At(j, "work") /\ "commit" \in Stages
    BY <1>9 DEF Send, Stages
  <2>2. CASE sent' = [sent EXCEPT ![j] = @ + 1] /\ Goes(j, "commit")
    <3>1. sent' \in [Jobs -> Nat] /\ sent'[j] = sent[j] + 1 /\ \A i \in Jobs \ {j} : sent'[i] = sent[i]
      BY <2>2, <1>j
    <3>2. /\ job'[j] = [job[j] EXCEPT !.stage = "commit"]
          /\ job'[j] \in Job
          /\ job' = [job EXCEPT ![j] = job'[j]]
      BY <2>1, <2>2, <1>g
    <3>3. MailOf(j, job'[j], sent'[j])
      BY <2>1, <3>1, <3>2, <1>j, <1>s DEF At, MailOf, Job, Ending
    <3>4. ShapeOf(j, job'[j])
      BY <2>1, <3>2, <1>j, <1>s DEF At, ShapeOf, Job, Over, Holding
    <3> QED
      BY <3>1, <3>2, <3>3, <3>4 DEF Moved
  <2>3. CASE sent' = sent /\ Throws(j)
    BY <2>1, <2>3, <1>t, <1>j, <1>s DEF At, Moved, ShapeOf, MailOf, Job, Over, Holding, Ending
  <2>4. CASE sent' = sent /\ smtp = "waived" /\ Goes(j, "commit")
    BY <2>1, <2>4, <1>g, <1>j, <1>s DEF At, Moved, ShapeOf, MailOf, Job, Over, Holding, Ending
  <2> QED
    BY <1>9, <2>2, <2>3, <2>4 DEF Send
<1>10. CASE WorkFails(j)
  <2>1. Throws(j) /\ At(j, "work") /\ sent' = sent
    BY <1>10 DEF WorkFails
  <2> QED
    BY <2>1, <1>t, <1>j, <1>s DEF At, Moved, ShapeOf, MailOf, Job, Over, Holding, Ending
<1>11. CASE Commit(j)
  <2>1. Goes(j, "release") /\ At(j, "commit") /\ sent' = sent
    BY <1>11 DEF Commit
  <2>2. "release" \in Stages
    BY DEF Stages
  <2> QED
    BY <2>1, <2>2, <1>g, <1>j, <1>s DEF At, Moved, ShapeOf, MailOf, Job, Over, Holding, Ending
<1>12. CASE CommitFails(j)
  <2>1. Throws(j) /\ At(j, "commit") /\ sent' = sent
    BY <1>12 DEF CommitFails
  <2> QED
    BY <2>1, <1>t, <1>j, <1>s DEF At, Moved, ShapeOf, MailOf, Job, Over, Holding, Ending
<1>13. CASE Rollback(j)
  <2>1. Goes(j, "release") /\ At(j, "rollback") /\ sent' = sent
    BY <1>13 DEF Rollback
  <2>2. "release" \in Stages
    BY DEF Stages
  <2> QED
    BY <2>1, <2>2, <1>g, <1>j, <1>s DEF At, Moved, ShapeOf, MailOf, Job, Over, Holding, Ending
<1>14. CASE Release(j)
  <2>1. PICK erring \in BOOLEAN :
          /\ erring = (job[j].erring \/ Top(j) \notin out)
          /\ job' = [job EXCEPT ![j] = After(j, Nested(j), erring)]
    BY <1>14, <1>j DEF Release, Job
  <2>2. job'[j] = After(j, Nested(j), erring) /\ job' = [job EXCEPT ![j] = job'[j]]
    BY <2>1, <1>a DEF Nested
  <2>3. At(j, "release") /\ sent' = sent /\ Nested(j) \in BOOLEAN
    BY <1>14 DEF Release, Nested
  <2>4. Continues(j, job'[j], Nested(j), erring)
    BY <2>2, <2>3, AfterIs
  <2>5. MailOf(j, job'[j], sent'[j])
    BY <2>1, <2>3, <2>4, <1>j, <1>s DEF Continues, At, Nested, ShapeOf, MailOf, Job, Ending
  <2>6. ShapeOf(j, job'[j])
    BY <2>3, <2>4, <1>j, <1>s DEF Continues, At, Nested, ShapeOf, Over, Holding
  <2> QED
    BY <2>2, <2>3, <2>4, <2>5, <2>6, <1>j DEF Continues, Moved
<1>15. CASE Wait(j)
  <2>1. Goes(j, "waiting") /\ At(j, "connect") /\ sent' = sent
    BY <1>15 DEF Wait
  <2>2. "waiting" \in Stages
    BY DEF Stages
  <2> QED
    BY <2>1, <2>2, <1>g, <1>j, <1>s DEF At, Moved, ShapeOf, MailOf, Job, Over, Holding, Ending
<1>16. CASE SetupFails(j)
  <2>1. job[j].stage \in {"begin", "claim"} /\ sent' = sent
    BY <1>16 DEF SetupFails, At
  <2>2. CASE Throws(j)
    <3>1. /\ job'[j] = [job[j] EXCEPT !.stage = "rollback", !.erring = TRUE]
          /\ job'[j] \in Job
          /\ job' = [job EXCEPT ![j] = job'[j]]
      BY <2>2, <1>t
    <3>2. ShapeOf(j, job'[j])
      BY <2>1, <3>1, <1>j, <1>s DEF ShapeOf, Job, Over, Holding
    <3>3. MailOf(j, job'[j], sent'[j])
      BY <2>1, <3>1, <1>j, <1>s DEF MailOf, Job, Ending
    <3> QED
      BY <2>1, <3>1, <3>2, <3>3, <1>j DEF Moved
  <2>3. CASE job' = [job EXCEPT ![j].stage = "release", ![j].erring = TRUE]
    <3>1. job'[j] = [job[j] EXCEPT !.stage = "release", !.erring = TRUE]
      BY <2>3, <1>j
    <3>2. job'[j] \in Job
      BY ONLY <3>1, <1>j DEF Job, Stages
    <3>3. job' = [job EXCEPT ![j] = job'[j]]
      BY <2>3, <1>j
    <3> QED
      BY <2>1, <3>1, <3>2, <3>3, <1>j, <1>s DEF Moved, ShapeOf, MailOf, Job, Over, Holding, Ending
  <2> QED
    BY <1>16, <2>2, <2>3 DEF SetupFails
<1> QED
  BY <1>1, <1>2, <1>3, <1>4, <1>5, <1>6, <1>7, <1>8, <1>9, <1>10, <1>11, <1>12, <1>13, <1>14,
     <1>15, <1>16 DEF Step

LEMMA JobsKept ==
  ASSUME TypeOK, Shape, Mails, [Next]_vars
  PROVE  /\ job' \in [Jobs -> Job]
         /\ sent' \in [Jobs -> 0 .. Attempts]
         /\ Shape'
         /\ Mails'
<1>1. CASE \E j \in Jobs : Take(j) \/ Step(j)
  <2>1. PICK j \in Jobs : Take(j) \/ Step(j)
    BY <1>1
  <2>0. smtp' = smtp
    BY <2>1 DEF Take, Step, Connect, Wait, ConnectFails, Begin, Claim, SetupFails, Work, GuardThrows,
       Nest, Send, WorkFails, Commit, CommitFails, Rollback, Release
  <2>2. Moved(j)
    BY <2>1, Moves
  <2>3. job' \in [Jobs -> Job] /\ \A i \in Jobs \ {j} : job'[i] = job[i]
    BY <2>2 DEF Moved, TypeOK
  <2>4. Shape'
    BY <2>2, <2>3 DEF Shape, ShapeOf, Moved
  <2>5. Mails'
    BY <2>0, <2>2, <2>3 DEF Mails, MailOf, Moved
  <2>6. \A i \in Jobs : sent'[i] \in 0 .. Attempts
    <3> TAKE i \in Jobs
    <3>1. sent'[i] \in Nat /\ sent'[i] <= job'[i].tries + 1
      BY <2>2, <2>5 DEF Moved, Mails, MailOf
    <3>2. job'[i].tries \in 0 .. Attempts - 1
      BY <2>3 DEF Job
    <3> QED
      BY <3>1, <3>2, ProcessAssumption
  <2> QED
    BY <2>2, <2>3, <2>4, <2>5, <2>6 DEF Moved
<1>2. CASE UNCHANGED <<job, sent, smtp>>
  BY <1>2 DEF TypeOK, Shape, ShapeOf, Mails, MailOf
<1> QED
  BY <1>1, <1>2 DEF Next, Reap, Signal, ShutdownStep, CloseQueues, EndPools, Exit, CloseWorker,
     CloseWorkerFails, Exited, vars

-----------------------------------------------------------------------------
\* The rest of the state.

LEMMA ConnKept ==
  ASSUME TypeOK, [Next]_vars
  PROVE  conn' \in [Conns -> Conn]
<1>0. conn \in [Conns -> Conn] /\ tenantOf \in [Jobs -> Tenants] /\ Clean \in Conn
  BY ProcessAssumption DEF TypeOK, Conn, Clean
<1>1. ASSUME NEW j \in Jobs, Begin(j)
      PROVE  conn' \in [Conns -> Conn]
  <2>1. conn' = [conn EXCEPT ![Top(j)] = [@ EXCEPT !.tx = "open"]]
    BY <1>1 DEF Begin
  <2> QED
    BY ONLY <2>1, <1>0 DEF Conn
<1>2. ASSUME NEW j \in Jobs, Claim(j)
      PROVE  conn' \in [Conns -> Conn]
  <2>1. \A c \in Conns : /\ [conn[c] EXCEPT !.bypass = TRUE] \in Conn
                         /\ [conn[c] EXCEPT !.tenant = tenantOf[j]] \in Conn
    BY ONLY <1>0, j \in Jobs DEF Conn
  <2> QED
    BY <1>2, <1>0, <2>1 DEF Claim
<1>3. ASSUME NEW j \in Jobs, Commit(j) \/ Rollback(j)
      PROVE  conn' \in [Conns -> Conn]
  BY <1>3, <1>0 DEF Commit, Rollback
<1>4. CASE UNCHANGED conn
  BY <1>4, <1>0
<1>5. ASSUME NEW j \in Jobs, Fails(j)
      PROVE  conn' \in [Conns -> Conn]
  <2>1. CASE conn' = conn \/ conn' = [conn EXCEPT ![Top(j)] = Clean]
    BY <2>1, <1>0
  <2>2. CASE conn' = [conn EXCEPT ![Top(j)].tx = IF @ = "no" THEN @ ELSE "aborted"]
    <3>1. \A c \in Conns : conn'[c] \in Conn
      <4> TAKE c \in Conns
      <4>1. conn'[c] = conn[c] \/ conn'[c] = [conn[c] EXCEPT !.tx = "aborted"]
        BY <2>2, <1>0 DEF Conn
      <4>2. conn[c] \in Conn /\ [conn[c] EXCEPT !.tx = "aborted"] \in Conn
        BY ONLY <1>0, c \in Conns DEF Conn
      <4> QED
        BY <4>1, <4>2
    <3> QED
      BY <2>2, <3>1, <1>0
  <2> QED
    BY <1>5, <2>1, <2>2 DEF Fails
<1>6. ASSUME NEW c \in Conns, Reap(c)
      PROVE  conn' \in [Conns -> Conn]
  BY <1>6, <1>0 DEF Reap
<1>7. ASSUME NEW j \in Jobs, Take(j) \/ Step(j)
      PROVE  conn' \in [Conns -> Conn]
  BY <1>1, <1>2, <1>3, <1>4, <1>5, <1>7 DEF Take, Step, Connect, Wait, ConnectFails, SetupFails,
     Work, GuardThrows, Nest, Send, WorkFails, CommitFails, Release
<1> QED
  BY <1>4, <1>6, <1>7 DEF Next, Signal, ShutdownStep, CloseQueues, EndPools, Exit,
     CloseWorker, CloseWorkerFails, Exited, vars

\* What a failing statement leaves of its connection.
LEMMA FailsAt ==
  ASSUME TypeOK, NEW j \in Jobs, Fails(j) \/ conn' = conn
  PROVE  /\ \A c \in Conns : conn'[c] = conn[c] \/ (c = Top(j) /\ conn'[c].tx # "open")
         /\ Fails(j) /\ Top(j) \in Conns => conn'[Top(j)].tx # "open"
<1>1. conn \in [Conns -> Conn] /\ Clean.tx = "no"
  BY DEF TypeOK, Clean
<1>2. CASE conn' = conn /\ (~Fails(j) \/ Refused(j))
  BY <1>1, <1>2 DEF Refused
<1>3. CASE conn' = [conn EXCEPT ![Top(j)] = Clean]
  BY <1>1, <1>3
<1>4. CASE conn' = [conn EXCEPT ![Top(j)].tx = IF @ = "no" THEN @ ELSE "aborted"]
  BY <1>1, <1>4 DEF Conn
<1> QED
  BY <1>2, <1>3, <1>4 DEF Fails

LEMMA TidyKept ==
  ASSUME TypeOK, Tidy, [Next]_vars
  PROVE  Tidy'
<1>0. conn \in [Conns -> Conn] /\ Clean.tx = "no"
  BY DEF TypeOK, Clean
<1>1. ASSUME NEW j \in Jobs, Begin(j)
      PROVE  Tidy'
  BY <1>0, <1>1 DEF Begin, Tidy, Conn
<1>2. ASSUME NEW j \in Jobs, Claim(j)
      PROVE  Tidy'
  BY <1>0, <1>2 DEF Claim, Tidy, Conn
<1>3. ASSUME NEW j \in Jobs, Commit(j) \/ Rollback(j)
      PROVE  Tidy'
  BY <1>0, <1>3 DEF Commit, Rollback, Tidy
<1>4. CASE UNCHANGED conn
  BY <1>4 DEF Tidy
<1>5. ASSUME NEW j \in Jobs, Fails(j)
      PROVE  Tidy'
  <2>1. CASE conn' = conn \/ conn' = [conn EXCEPT ![Top(j)] = Clean]
    BY <2>1, <1>0 DEF Tidy
  <2>2. CASE conn' = [conn EXCEPT ![Top(j)].tx = IF @ = "no" THEN @ ELSE "aborted"]
    <3>1. \A c \in Conns : conn'[c] = conn[c] \/ conn'[c].tx = "aborted"
      BY <2>2, <1>0 DEF Conn
    <3> QED
      BY <3>1 DEF Tidy
  <2> QED
    BY <1>5, <2>1, <2>2 DEF Fails
<1>6. ASSUME NEW c \in Conns, Reap(c)
      PROVE  Tidy'
  BY <1>0, <1>6 DEF Reap, Tidy
<1>7. ASSUME NEW j \in Jobs, Take(j) \/ Step(j)
      PROVE  Tidy'
  BY <1>1, <1>2, <1>3, <1>4, <1>5, <1>7 DEF Take, Step, Connect, Wait, ConnectFails, SetupFails,
     Work, GuardThrows, Nest, Send, WorkFails, CommitFails, Release
<1> QED
  BY <1>4, <1>6, <1>7 DEF Next, Signal, ShutdownStep, CloseQueues, EndPools, Exit,
     CloseWorker, CloseWorkerFails, Exited, vars

LEMMA RestKept ==
  ASSUME TypeOK, [Next]_vars
  PROVE  /\ roleTenant' = roleTenant /\ smtp' = smtp
         /\ out' \subseteq Conns
         /\ down' \in {"up", "workers", "pool", "redis", "exited"}
         /\ settled' \subseteq Workers
         /\ errored' \in BOOLEAN
         /\ fails' \in 0..MaxFails
<1>0. /\ fails \in 0 .. MaxFails /\ out \subseteq Conns /\ settled \subseteq Workers
      /\ errored \in BOOLEAN /\ down \in {"up", "workers", "pool", "redis", "exited"}
  BY DEF TypeOK
<1>f. AFailure => fails' \in 0 .. MaxFails
  BY <1>0, ProcessAssumption DEF AFailure
<1>1. CASE UNCHANGED vars
  BY <1>0, <1>1 DEF vars
<1>2. ASSUME NEW j \in Jobs, Take(j) \/ Step(j)
      PROVE  /\ roleTenant' = roleTenant /\ smtp' = smtp
             /\ out' \subseteq Conns
             /\ UNCHANGED <<down, settled, errored>>
             /\ fails' \in 0..MaxFails
  <2>1. UNCHANGED <<roleTenant, smtp, down, settled, errored>>
    BY <1>2 DEF Take, Step, Connect, Wait, ConnectFails, Begin, Claim, SetupFails, Work,
       GuardThrows, Nest, Send, WorkFails, Commit, CommitFails, Rollback, Release, shutdown
  <2>2. out' \subseteq Conns
    BY <1>0, <1>2 DEF Take, Step, Connect, Wait, ConnectFails, Begin, Claim, SetupFails, Work,
       GuardThrows, Nest, Send, WorkFails, Commit, CommitFails, Rollback, Release
  <2>3. fails' = fails \/ AFailure
    BY <1>2 DEF Take, Step, Connect, Wait, ConnectFails, Begin, Claim, SetupFails, Fails, Work,
       GuardThrows, Nest, Send, WorkFails, Commit, CommitFails, Rollback, Release
  <2> QED
    BY <2>1, <2>2, <2>3, <1>0, <1>f
<1>3. CASE Signal \/ ShutdownStep
  <2>1. fails' = fails \/ AFailure
    BY <1>3 DEF Signal, ShutdownStep, CloseQueues, EndPools, Exit, CloseWorker, CloseWorkerFails
  <2>2. UNCHANGED <<roleTenant, smtp, out>>
    BY <1>3 DEF Signal, ShutdownStep, CloseQueues, EndPools, Exit, CloseWorker, CloseWorkerFails
  <2>3. /\ settled' \subseteq Workers
        /\ errored' \in BOOLEAN
        /\ down' \in {"up", "workers", "pool", "redis", "exited"}
    BY <1>0, <1>3
       DEF Signal, ShutdownStep, CloseQueues, EndPools, Exit, CloseWorker, CloseWorkerFails
  <2> QED
    BY <2>1, <2>2, <2>3, <1>0, <1>f
<1>4. ASSUME NEW c \in Conns, Reap(c)
      PROVE  UNCHANGED <<roleTenant, smtp, out, down, settled, errored, fails>>
  BY <1>4 DEF Reap, shutdown
<1> QED
  BY <1>0, <1>1, <1>2, <1>3, <1>4 DEF Next, Exited

-----------------------------------------------------------------------------
\* A shutdown that drains.

LEMMA StepActive ==
  ASSUME NEW j \in Jobs, Step(j)
  PROVE  Active(j) /\ UNCHANGED shutdown
BY DEF Step, Connect, Wait, ConnectFails, Begin, Claim, SetupFails, Work, GuardThrows, Nest, Send,
   WorkFails, Commit, CommitFails, Rollback, Release, At, Active, Over

LEMMA DrainedKept ==
  ASSUME TypeOK, Shape, Mails, Drained, [Next]_vars
  PROVE  Drained'
<1>1. ASSUME NEW j \in Jobs, Take(j)
      PROVE  Drained'
  BY <1>1 DEF Take, Drained, shutdown
<1>2. ASSUME NEW j \in Jobs, Step(j)
      PROVE  Drained'
  <2>1. Active(j) /\ UNCHANGED <<down, settled, errored>>
    BY <1>2, StepActive DEF shutdown
  <2>2. \A i \in Jobs \ {j} : Active(i)' = Active(i)
    BY <1>2, Moves DEF Moved, Active, TypeOK
  <2> QED
    BY <2>1, <2>2 DEF Drained
<1>3. CASE Signal \/ ShutdownStep \/ UNCHANGED vars
  <2>1. \A j \in Jobs : Active(j)' = Active(j)
    BY <1>3 DEF Signal, ShutdownStep, CloseQueues, EndPools, Exit, CloseWorker, CloseWorkerFails,
       Active, vars
  <2>2. errored \in BOOLEAN /\ settled \subseteq Workers
    BY DEF TypeOK
  <2>3. CASE Signal \/ CloseQueues \/ EndPools \/ Exit \/ UNCHANGED vars
    BY <2>1, <2>2, <2>3 DEF Signal, CloseQueues, EndPools, Exit, AFailure, Drained, vars
  <2>4. CASE \E k \in Workers : CloseWorker(k)
    BY <2>1, <2>2, <2>4 DEF CloseWorker, Drained
  <2>5. CASE \E k \in Workers : CloseWorkerFails(k)
    BY <2>1, <2>2, <2>5 DEF CloseWorkerFails, Drained
  <2> QED
    BY <1>3, <2>3, <2>4, <2>5 DEF ShutdownStep
<1>4. ASSUME NEW c \in Conns, Reap(c)
      PROVE  Drained'
  BY <1>4 DEF Reap, shutdown, Drained, Active
<1> QED
  BY <1>1, <1>2, <1>3, <1>4 DEF Next, Exited

\* Owed is kept by a step of j that dirties only what j then owes, and leaves
\* nothing dirty that j has owed.
LEMMA OwedStep ==
  ASSUME Owed, NEW j \in Jobs, \A i \in Jobs \ {j} : job'[i] = job[i],
         \A c \in Conns : conn'[c] = conn[c] \/ Settled(c)' \/ Owes(j, c)',
         \A c \in Conns : Owes(j, c) => Owes(j, c)' \/ Settled(c)'
  PROVE  Owed'
<1> SUFFICES ASSUME NEW c \in Conns, ~Settled(c)'
             PROVE  \E i \in Jobs : Owes(i, c)'
  BY DEF Owed
<1>1. CASE Owes(j, c)'
  BY <1>1
<1>2. CASE ~Owes(j, c)'
  <2>1. PICK i \in Jobs : Owes(i, c)
    BY <1>2 DEF Owed, Settled
  <2>2. i # j
    BY <1>2, <2>1
  <2> QED
    BY <2>1, <2>2 DEF Owes, Top, Nested
<1> QED
  BY <1>1, <1>2

\* What each step of j leaves of its record.
StaysOn(j, stage) ==
  /\ job'[j].stage = stage
  /\ job'[j].outer = job[j].outer
  /\ job'[j].inner = job[j].inner

LEMMA Stays ==
  ASSUME TypeOK, NEW j \in Jobs, NEW stage \in Stages
  PROVE  /\ Goes(j, stage) => StaysOn(j, stage) /\ job'[j].erring = job[j].erring
                                                /\ job'[j].gone = job[j].gone
         /\ Throws(j) => StaysOn(j, "rollback") /\ job'[j].gone = job[j].gone
BY DEF TypeOK, Job, Goes, Throws, StaysOn

LEMMA OwedKept ==
  ASSUME TypeOK, Shape, Mails, Owed, NEW j \in Jobs, Step(j)
  PROVE  Owed'
<1>j. /\ job[j] \in Job /\ job \in [Jobs -> Job] /\ ShapeOf(j, job[j])
      /\ conn \in [Conns -> Conn] /\ NoConn \notin Conns
  BY ProcessAssumption DEF TypeOK, Shape
<1>m. \A i \in Jobs \ {j} : job'[i] = job[i]
  BY Moves DEF Moved, TypeOK
<1>s. {"claim", "work", "commit", "rollback", "release", "connect", "waiting", "begin"} \subseteq Stages
  BY DEF Stages
<1>1. CASE Connect(j)
  <2>1. PICK c \in Conns \ out :
          job' = [job EXCEPT ![j].stage = "begin",
                             ![j].outer = IF @ = NoConn THEN c ELSE @,
                             ![j].inner = IF job[j].outer = NoConn THEN @ ELSE c]
    BY <1>1 DEF Connect
  <2>2. /\ job'[j].stage = "begin"
        /\ job[j].outer # NoConn => job'[j].outer = job[j].outer /\ job'[j].inner = c
    BY <2>1, <1>j DEF Job
  <2>3. conn' = conn /\ job[j].stage \in {"connect", "waiting"}
    BY <1>1 DEF Connect, At
  <2>4. \A d \in Conns : Owes(j, d) => Owes(j, d)'
    BY <2>2, <2>3, <1>j DEF Owes
  <2> QED
    BY <2>3, <2>4, <1>m, OwedStep
<1>2. CASE ConnectFails(j)
  <2>1. conn' = conn /\ At(j, "connect") /\ job'[j] = After(j, job[j].outer # NoConn, TRUE)
    BY <1>2, <1>j DEF ConnectFails
  <2>2. Continues(j, job'[j], job[j].outer # NoConn, TRUE)
    BY <2>1, AfterIs
  <2>3. \A d \in Conns : Owes(j, d) => Owes(j, d)'
    BY <2>1, <2>2, <1>j DEF Owes, Top, Nested, At, Continues, ShapeOf, Holding
  <2> QED
    BY <2>1, <2>3, <1>m, OwedStep
<1>3. CASE Begin(j)
  <2>1. At(j, "begin") /\ StaysOn(j, "claim") /\ conn' = [conn EXCEPT ![Top(j)].tx = "open"]
    BY <1>3, <1>s, Stays DEF Begin
  <2>2. \A d \in Conns : Owes(j, d) => Owes(j, d)'
    BY <2>1, <1>j DEF Owes, Top, Nested, At, StaysOn
  <2>3. Owes(j, Top(j))' /\ Top(j)' = Top(j)
    BY <2>1 DEF Owes, Top, Nested, StaysOn
  <2>4. \A d \in Conns : conn'[d] = conn[d] \/ Owes(j, d)'
    BY <2>1, <2>3, <1>j DEF Owes
  <2> QED
    BY <2>2, <2>4, <1>m, OwedStep
<1>4. CASE Claim(j)
  <2>1. At(j, "claim") /\ StaysOn(j, "work")
    BY <1>4, <1>s, Stays DEF Claim
  <2>2. \A d \in Conns : Owes(j, d) => Owes(j, d)'
    BY <2>1, <1>j DEF Owes, Top, Nested, At, StaysOn
  <2>3. Owes(j, Top(j))' /\ Top(j)' = Top(j)
    BY <2>1 DEF Owes, Top, Nested, StaysOn
  <2>4. \A d \in Conns : conn'[d] = conn[d] \/ Owes(j, d)'
    BY <1>4, <2>3, <1>j DEF Owes, Claim
  <2> QED
    BY <2>2, <2>4, <1>m, OwedStep
<1>5. CASE Work(j) \/ GuardThrows(j) \/ Nest(j) \/ Send(j) \/ WorkFails(j) \/ CommitFails(j)
  <2>1. /\ \A c \in Conns : conn'[c] = conn[c] \/ Settled(c)'
        /\ job[j].stage \in {"work", "commit"}
    BY <1>5, FailsAt DEF Work, GuardThrows, Nest, Send, WorkFails, CommitFails, At, Settled
  <2>2. \/ StaysOn(j, "commit") \/ StaysOn(j, "rollback")
        \/ StaysOn(j, "connect") /\ job[j].inner = NoConn
    BY <1>5, <1>s, <1>j, Stays
       DEF Work, GuardThrows, Nest, Send, WorkFails, CommitFails, Nested, StaysOn, Job
  <2>3. \A d \in Conns : Owes(j, d) => Owes(j, d)'
    BY <2>1, <2>2, <1>j DEF Owes, Top, Nested, StaysOn
  <2> QED
    BY <2>1, <2>3, <1>m, OwedStep
<1>8. CASE Wait(j)
  <2>1. conn' = conn /\ At(j, "connect") /\ StaysOn(j, "waiting")
    BY <1>8, <1>s, Stays DEF Wait
  <2>2. \A d \in Conns : Owes(j, d) => Owes(j, d)'
    BY <2>1, <1>j DEF Owes, Top, Nested, At, StaysOn
  <2> QED
    BY <2>1, <2>2, <1>m, OwedStep
<1>9. CASE SetupFails(j)
  <2>1. /\ Fails(j) /\ job[j].stage \in {"begin", "claim"}
        /\ IF ClaimsBypass(j) THEN Throws(j)
           ELSE job' = [job EXCEPT ![j].stage = "release", ![j].erring = TRUE]
    BY <1>9 DEF SetupFails, At
  <2>2. /\ \A c \in Conns : conn'[c] = conn[c] \/ Settled(c)'
        /\ Top(j) \in Conns => conn'[Top(j)].tx # "open"
    BY <2>1, FailsAt DEF Settled
  <2>3. \/ StaysOn(j, "rollback")
        \/ StaysOn(j, "release") /\ job[j].inner = NoConn
    BY <2>1, <1>s, <1>j, Stays DEF ClaimsBypass, Nested, StaysOn, Job
  <2>4. \A d \in Conns : Owes(j, d) => Owes(j, d)' \/ Settled(d)'
    BY <2>1, <2>2, <2>3, <1>j DEF Owes, Top, Nested, StaysOn, Settled
  <2> QED
    BY <2>2, <2>4, <1>m, OwedStep
<1>6. CASE Commit(j) \/ Rollback(j)
  <2>1. /\ job[j].stage \in {"commit", "rollback"} /\ StaysOn(j, "release")
        /\ conn' = [conn EXCEPT ![Top(j)] = Clean]
    BY <1>6, <1>s, Stays DEF Commit, Rollback, At
  <2>2. \A d \in Conns : Owes(j, d) => Owes(j, d)' \/ Settled(d)'
    BY <2>1, <1>j DEF Owes, Top, Nested, StaysOn, Settled, Clean
  <2>3. \A d \in Conns : conn'[d] = conn[d] \/ Settled(d)'
    BY <2>1, <1>j DEF Settled, Clean
  <2> QED
    BY <2>2, <2>3, <1>m, OwedStep
<1>7. CASE Release(j)
  <2>1. PICK erring \in BOOLEAN : job' = [job EXCEPT ![j] = After(j, Nested(j), erring)]
    BY <1>7, <1>j DEF Release, Job
  <2>2. conn' = conn /\ At(j, "release") /\ job'[j] = After(j, Nested(j), erring)
    BY <1>7, <2>1, <1>j DEF Release
  <2>3. Continues(j, job'[j], Nested(j), erring)
    BY <2>2, AfterIs DEF Nested
  <2>4. \A d \in Conns : Owes(j, d) => Owes(j, d)'
    BY <2>2, <2>3, <1>j DEF Owes, Top, Nested, At, Continues
  <2> QED
    BY <2>2, <2>4, <1>m, OwedStep
<1> QED
  BY <1>1, <1>2, <1>3, <1>4, <1>5, <1>6, <1>7, <1>8, <1>9 DEF Step

-----------------------------------------------------------------------------
\* One job to a connection, where the owner's role has a tenant.

Claimed(j) == [tx |-> "open", tenant |-> tenantOf[j], bypass |-> FALSE]
Holds(j, c) == c \in Conns /\ c \in {job[j].outer, job[j].inner}

Alone ==
  /\ \A j \in Jobs, c \in Conns : Holds(j, c) => c \in out
  /\ \A i, j \in Jobs, c \in Conns : Holds(i, c) /\ Holds(j, c) => i = j

\* What the connections of a job are in, stage by stage.
ConnOf(j) ==
  /\ ~job[j].gone
  /\ job[j].inner # NoConn => job[j].inner # job[j].outer
  /\ job[j].outer # NoConn /\ (job[j].inner # NoConn \/ job[j].stage \in {"connect", "waiting"})
       => conn[job[j].outer] = Claimed(j)
  /\ job[j].stage \in {"begin", "release"} => Settled(Top(j))
  /\ job[j].stage = "claim" => conn[Top(j)] = [Clean EXCEPT !.tx = "open"]
  /\ job[j].stage \in {"work", "commit"} => conn[Top(j)] = Own(j)

Single == roleTenant => Alone /\ \A j \in Jobs : ConnOf(j)

\* A connection that nobody holds is in no open transaction.
LEMMA IdleSettled ==
  ASSUME TypeOK, Shape, Owed, Alone
  PROVE  \A c \in Conns \ out : Settled(c)
BY DEF Owed, Alone, Owes, Holds, Top

\* Single is kept by a step of j that takes only idle connections, gives back only
\* its own, and changes only what it holds.
LEMMA AloneStep ==
  ASSUME TypeOK, Shape, Alone, \A i \in Jobs : ConnOf(i), NEW j \in Jobs,
         \A i \in Jobs \ {j} : job'[i] = job[i],
         \A c \in Conns : Holds(j, c)' => c \in out' /\ (Holds(j, c) \/ c \notin out),
         \A c \in out : c \in out' \/ Holds(j, c),
         \A c \in Conns : conn'[c] = conn[c] \/ Holds(j, c),
         ConnOf(j)'
  PROVE  Alone' /\ \A i \in Jobs : ConnOf(i)'
<1>1. \A i \in Jobs \ {j}, c \in Conns : Holds(i, c)' = Holds(i, c)
  BY DEF Holds
<1>2. \A i \in Jobs \ {j}, c \in Conns : Holds(i, c) => c \in out /\ ~Holds(j, c)
  BY DEF Alone
<1>3. \A i \in Jobs \ {j}, c \in Conns : Holds(i, c) => c \in out' /\ ~Holds(j, c)' /\ conn'[c] = conn[c]
  BY <1>2
<1>4. Alone'
  BY <1>1, <1>2, <1>3 DEF Alone
<1>5. ASSUME NEW i \in Jobs \ {j}
      PROVE  ConnOf(i)'
  <2>1. job[i] \in Job /\ job'[i] = job[i] /\ ShapeOf(i, job[i]) /\ ConnOf(i)
    BY <1>5 DEF TypeOK, Shape
  <2>2. Top(i)' = Top(i) /\ Own(i)' = Own(i)
    BY <2>1 DEF Top, Nested, Own, ClaimsBypass
  <2>3. /\ job[i].outer # NoConn => conn'[job[i].outer] = conn[job[i].outer]
        /\ job[i].stage \in Holding => conn'[Top(i)] = conn[Top(i)]
    BY <2>1, <1>3 DEF Holds, Top, Nested, ShapeOf, Job
  <2> QED
    BY <2>1, <2>2, <2>3 DEF ConnOf, Claimed, Holding, Settled
<1> QED
  BY <1>4, <1>5

LEMMA ConnEq ==
  ASSUME NEW s \in Conn, NEW t \in Conn, s.tx = t.tx, s.tenant = t.tenant, s.bypass = t.bypass
  PROVE  s = t
BY DEF Conn

LEMMA SingleKept ==
  ASSUME TypeOK, Shape, Mails, Tidy, Owed, Alone, \A i \in Jobs : ConnOf(i), roleTenant,
         NEW j \in Jobs, Take(j) \/ Step(j), [Next]_vars
  PROVE  Alone' /\ \A i \in Jobs : ConnOf(i)'
<1>j. /\ job[j] \in Job /\ job \in [Jobs -> Job] /\ ShapeOf(j, job[j]) /\ ConnOf(j)
      /\ conn \in [Conns -> Conn] /\ NoConn \notin Conns
      /\ \A c \in Conns : Holds(j, c) => c \in out
  BY ProcessAssumption DEF TypeOK, Shape, Alone
<1>m. \A i \in Jobs \ {j} : job'[i] = job[i]
  BY Moves DEF Moved, TypeOK
<1>s. {"claim", "work", "commit", "rollback", "release", "connect", "waiting", "begin"} \subseteq Stages
  BY DEF Stages
<1>t. job[j].stage \in Holding => Top(j) \in Conns /\ Holds(j, Top(j))
  BY <1>j DEF Top, Nested, Holds, ShapeOf, Job
\* A step that keeps its connections.
<1>k. ASSUME NEW stage \in Stages, StaysOn(j, stage), out' = out, ConnOf(j)',
             \A c \in Conns : conn'[c] = conn[c] \/ Holds(j, c)
      PROVE  Alone' /\ \A i \in Jobs : ConnOf(i)'
  <2>1. \A c \in Conns : Holds(j, c)' => c \in out' /\ (Holds(j, c) \/ c \notin out)
    BY <1>k, <1>j DEF Holds, StaysOn
  <2> QED
    BY <1>k, <1>m, <2>1, AloneStep
<1>1. CASE Take(j)
  <2>1. At(j, "queued") /\ StaysOn(j, "connect") /\ job'[j].gone = job[j].gone
        /\ conn' = conn /\ out' = out
    BY <1>1, <1>s, Stays DEF Take
  <2>2. ConnOf(j)'
    BY <2>1, <1>j DEF ConnOf, At, StaysOn, ShapeOf, Over, Holding
  <2> QED
    BY <2>1, <2>2, <1>k, <1>s
<1>2. CASE Connect(j)
  <2>1. PICK c \in Conns \ out :
          /\ out' = out \cup {c}
          /\ job' = [job EXCEPT ![j].stage = "begin",
                                ![j].outer = IF @ = NoConn THEN c ELSE @,
                                ![j].inner = IF job[j].outer = NoConn THEN @ ELSE c]
    BY <1>2 DEF Connect
  <2>2. conn' = conn /\ job[j].stage \in {"connect", "waiting"} /\ Settled(c)
    BY <1>2, IdleSettled DEF Connect, At
  <2>3. /\ job'[j].stage = "begin" /\ job'[j].gone = job[j].gone /\ job[j].inner = NoConn
        /\ job[j].outer = NoConn => job'[j].outer = c /\ job'[j].inner = NoConn
        /\ job[j].outer # NoConn => job'[j].outer = job[j].outer /\ job'[j].inner = c
    BY <2>1, <2>2, <1>j DEF Job, ShapeOf, Holding
  <2>4. job[j].outer # c
    BY <1>j DEF Holds
  <2>5. ConnOf(j)'
    BY <2>2, <2>3, <2>4, <1>j DEF ConnOf, Top, Nested, Claimed, Settled
  <2>6. \A d \in Conns : Holds(j, d)' => d \in out' /\ (Holds(j, d) \/ d \notin out)
    BY <2>1, <2>3, <1>j DEF Holds
  <2> QED
    BY <2>1, <2>2, <2>5, <2>6, <1>m, AloneStep
<1>3. CASE ConnectFails(j)
  <2>1. /\ conn' = conn /\ out' = out /\ At(j, "connect")
        /\ job'[j] = After(j, job[j].outer # NoConn, TRUE)
    BY <1>3, <1>j DEF ConnectFails
  <2>2. Continues(j, job'[j], job[j].outer # NoConn, TRUE)
    BY <2>1, AfterIs
  <2>3. ConnOf(j)'
    BY <2>1, <2>2, <1>j DEF ConnOf, Continues
  <2>4. \A d \in Conns : Holds(j, d)' => d \in out' /\ (Holds(j, d) \/ d \notin out)
    BY <2>1, <2>2, <1>j DEF Holds, Continues
  <2> QED
    BY <2>1, <2>3, <2>4, <1>m, AloneStep
<1>4. CASE Begin(j)
  <2>1. /\ At(j, "begin") /\ StaysOn(j, "claim") /\ job'[j].gone = job[j].gone
        /\ out' = out /\ conn' = [conn EXCEPT ![Top(j)].tx = "open"]
    BY <1>4, <1>s, Stays DEF Begin
  <2>2. Top(j)' = Top(j) /\ Holds(j, Top(j)) /\ Top(j) \in Conns /\ conn[Top(j)] = Clean
    <3>1. Top(j)' = Top(j) /\ Holds(j, Top(j)) /\ Top(j) \in Conns /\ Settled(Top(j)) /\ ~Refused(j)
      BY <1>4, <2>1, <1>j, <1>t DEF Begin, Top, Nested, StaysOn, ConnOf, At, Holding
    <3> QED
      BY <3>1, <1>j DEF Settled, Refused, Tidy, Conn
  <2>3. conn'[Top(j)] = [Clean EXCEPT !.tx = "open"] /\ \A c \in Conns : conn'[c] = conn[c] \/ c = Top(j)
    BY <2>1, <2>2, <1>j
  <2>4. ConnOf(j)'
    BY <2>1, <2>2, <2>3, <1>j DEF ConnOf, Top, Nested, StaysOn, Claimed, At, Job
  <2> QED
    BY <2>1, <2>2, <2>3, <2>4, <1>k, <1>s
<1>5. CASE Claim(j)
  <2>1. /\ At(j, "claim") /\ StaysOn(j, "work") /\ job'[j].gone = job[j].gone /\ out' = out
    BY <1>5, <1>s, Stays DEF Claim
  <2>2. /\ Top(j)' = Top(j) /\ Holds(j, Top(j)) /\ Top(j) \in Conns
        /\ conn[Top(j)] = [Clean EXCEPT !.tx = "open"]
    BY <2>1, <1>j, <1>t DEF Top, Nested, StaysOn, ConnOf, At, Holding
  <2>3. conn' = [conn EXCEPT ![Top(j)] = IF ClaimsBypass(j) THEN [@ EXCEPT !.bypass = TRUE]
                                         ELSE [@ EXCEPT !.tenant = tenantOf[j]]]
    BY <1>5, <2>2 DEF Claim, Clean
  <2>4. conn'[Top(j)] = Own(j) /\ \A c \in Conns : conn'[c] = conn[c] \/ c = Top(j)
    <3>1. /\ conn[Top(j)] \in Conn /\ conn'[Top(j)] \in Conn /\ Own(j) \in Conn
          /\ conn[Top(j)].tx = "open" /\ conn[Top(j)].tenant = NoTenant /\ ~conn[Top(j)].bypass
      BY <2>2, <1>j, ConnKept, ProcessAssumption DEF Clean, Conn, Own
    <3>2. /\ conn'[Top(j)].tx = Own(j).tx
          /\ conn'[Top(j)].tenant = Own(j).tenant
          /\ conn'[Top(j)].bypass = Own(j).bypass
      BY <2>2, <2>3, <3>1, <1>j DEF Own, Conn
    <3> QED
      BY <2>2, <2>3, <3>1, <3>2, <1>j, ConnEq
  <2>5. Own(j)' = Own(j)
    BY <2>1 DEF Own, ClaimsBypass, Nested, StaysOn
  <2>6. ConnOf(j)'
    BY <2>1, <2>2, <2>4, <2>5, <1>j DEF ConnOf, Top, Nested, StaysOn, Claimed, At, Job
  <2> QED
    BY <2>1, <2>2, <2>4, <2>6, <1>k, <1>s
<1>6. CASE Work(j) \/ Nest(j) \/ Send(j) \/ CommitFails(j)
  <2>1. conn' = conn /\ out' = out /\ job[j].stage \in {"work", "commit"}
    BY <1>6 DEF Work, Nest, Send, CommitFails, At
  <2>2. /\ job'[j].gone = job[j].gone
        /\ \/ StaysOn(j, "commit") /\ job[j].stage = "work"
           \/ StaysOn(j, "rollback")
           \/ StaysOn(j, "connect") /\ job[j].inner = NoConn /\ kind[j] = "backfill"
    BY <1>6, <1>s, Stays DEF Work, Nest, Send, CommitFails, Nested, At
  <2>3. Own(j)' = Own(j) /\ Top(j)' = Top(j)
    BY <2>2 DEF Own, ClaimsBypass, Top, Nested, StaysOn
  <2>4. ConnOf(j)'
    BY <2>1, <2>2, <2>3, <1>j DEF ConnOf, Own, ClaimsBypass, Top, Nested, StaysOn, Claimed
  <2> QED
    BY <2>1, <2>2, <2>4, <1>k, <1>s
<1>10. CASE Wait(j)
  <2>1. /\ conn' = conn /\ out' = out /\ At(j, "connect")
        /\ StaysOn(j, "waiting") /\ job'[j].gone = job[j].gone
    BY <1>10, <1>s, Stays DEF Wait
  <2>2. ConnOf(j)'
    BY <2>1, <1>j DEF ConnOf, At, Top, Nested, StaysOn, Claimed
  <2> QED
    BY <2>1, <2>2, <1>k, <1>s
\* A failing statement leaves the connection that it is on, and no other, to a
\* ROLLBACK or to release().
<1>11. CASE WorkFails(j) \/ SetupFails(j)
  <2>1. /\ Fails(j) \/ conn' = conn
        /\ out' = out
        /\ job[j].stage \in {"begin", "claim", "work"}
        /\ job[j].stage # "work" => Fails(j)
    BY <1>11 DEF WorkFails, SetupFails, At
  <2>2. /\ job'[j].gone = job[j].gone
        /\ \/ StaysOn(j, "rollback")
           \/ StaysOn(j, "release") /\ job[j].stage # "work" /\ job[j].inner = NoConn
    <3>1. CASE Throws(j)
      BY <3>1, <1>s, Stays
    <3>2. CASE job' = [job EXCEPT ![j].stage = "release", ![j].erring = TRUE] /\ SetupFails(j) /\ ~ClaimsBypass(j)
      BY <3>2, <1>j DEF SetupFails, ClaimsBypass, Nested, StaysOn, Job, At
    <3> QED
      BY <1>11, <3>1, <3>2 DEF WorkFails, SetupFails
  <2>3. Top(j)' = Top(j) /\ Holds(j, Top(j)) /\ Top(j) \in Conns
    BY <2>1, <2>2, <1>j, <1>t DEF Top, Nested, StaysOn, Holding
  <2>4. /\ \A c \in Conns : conn'[c] = conn[c] \/ c = Top(j)
        /\ job[j].stage # "work" => conn'[Top(j)].tx # "open"
    BY <2>1, <2>3, FailsAt
  <2>5. ConnOf(j)'
    BY <2>1, <2>2, <2>3, <2>4, <1>j DEF ConnOf, Top, Nested, StaysOn, Claimed, Settled, Job
  <2> QED
    BY <2>1, <2>2, <2>3, <2>4, <2>5, <1>k, <1>s
<1>7. CASE GuardThrows(j)
  BY <1>7 DEF GuardThrows, Unclaimed
<1>8. CASE Commit(j) \/ Rollback(j)
  <2>1. /\ job[j].stage \in {"commit", "rollback"} /\ StaysOn(j, "release")
        /\ job'[j].gone = job[j].gone /\ out' = out
        /\ conn' = [conn EXCEPT ![Top(j)] = Clean]
    BY <1>8, <1>s, Stays DEF Commit, Rollback, At
  <2>2. Top(j)' = Top(j) /\ Holds(j, Top(j)) /\ Top(j) \in Conns
    BY <2>1, <1>j, <1>t DEF Top, Nested, StaysOn, Holding
  <2>3. conn'[Top(j)] = Clean /\ \A c \in Conns : conn'[c] = conn[c] \/ c = Top(j)
    BY <2>1, <2>2, <1>j
  <2>4. ConnOf(j)'
    BY <2>1, <2>2, <2>3, <1>j DEF ConnOf, Top, Nested, StaysOn, Claimed, Job, Settled, Clean
  <2> QED
    BY <2>1, <2>2, <2>3, <2>4, <1>k, <1>s
<1>9. CASE Release(j)
  <2>1. PICK erring \in BOOLEAN : job' = [job EXCEPT ![j] = After(j, Nested(j), erring)]
    BY <1>9, <1>j DEF Release, Job
  <2>2. /\ conn' = conn /\ At(j, "release") /\ job'[j] = After(j, Nested(j), erring)
        /\ out' = out \ {Top(j)}
    BY <1>9, <2>1, <1>j DEF Release
  <2>3. Continues(j, job'[j], Nested(j), erring)
    BY <2>2, AfterIs DEF Nested
  <2>4. Holds(j, Top(j))
    BY <2>2, <1>t DEF At, Holding
  <2>5. CASE Nested(j)
    <3>1. /\ job'[j].outer = job[j].outer /\ job'[j].inner = NoConn /\ ~job'[j].gone
          /\ job'[j].stage \in {"commit", "rollback"} /\ kind[j] = "backfill"
          /\ Top(j) # job[j].outer /\ job[j].outer # NoConn
      BY <2>2, <2>3, <2>5, <1>j DEF Continues, Nested, ShapeOf, Holding, ConnOf, Top, At
    <3>2. conn[job[j].outer] = Claimed(j)
      BY <3>1, <2>5, <1>j DEF ConnOf, Nested
    <3>3. ConnOf(j)'
      BY <3>1, <3>2, <2>2 DEF ConnOf, Top, Nested, Own, ClaimsBypass, Claimed
    <3>4. \A d \in Conns : Holds(j, d)' => d \in out' /\ (Holds(j, d) \/ d \notin out)
      BY <3>1, <2>2, <1>j DEF Holds
    <3> QED
      BY <2>2, <2>4, <3>3, <3>4, <1>m, AloneStep
  <2>6. CASE ~Nested(j)
    <3>1. /\ job'[j].outer = NoConn /\ job'[j].inner = NoConn /\ ~job'[j].gone
          /\ job'[j].stage \in {"queued", "done", "failed"}
      BY <2>3, <2>6 DEF Continues
    <3>2. ConnOf(j)'
      BY <3>1 DEF ConnOf
    <3>3. \A d \in Conns : Holds(j, d)' => d \in out' /\ (Holds(j, d) \/ d \notin out)
      BY <3>1, <1>j DEF Holds
    <3> QED
      BY <2>2, <2>4, <3>2, <3>3, <1>m, AloneStep
  <2> QED
    BY <2>5, <2>6
<1> QED
  BY <1>1, <1>2, <1>3, <1>4, <1>5, <1>6, <1>7, <1>8, <1>9, <1>10, <1>11 DEF Step

-----------------------------------------------------------------------------
\* The invariant and the theorems.

IInv == TypeOK /\ Shape /\ Mails /\ Owed /\ Tidy /\ Drained /\ Single

LEMMA InitHolds == Init => IInv
<1> SUFFICES ASSUME Init PROVE IInv
  OBVIOUS
<1>1. Clean \in Conn
  BY DEF Clean, Conn
<1>2. TypeOK
  <2>1. 0 \in 0 .. Attempts /\ 0 \in 0 .. MaxFails
    BY ProcessAssumption
  <2>2. conn \in [Conns -> Conn] /\ job \in [Jobs -> Job]
    BY <1>1, FreshType DEF Init
  <2>3. sent \in [Jobs -> 0 .. Attempts] /\ fails \in 0 .. MaxFails
    BY <2>1 DEF Init
  <2> QED
    BY <2>2, <2>3, ProcessAssumption DEF Init, TypeOK
<1>3. \A j \in Jobs : job[j] = Fresh /\ sent[j] = 0
  BY DEF Init
<1>4. Shape
  BY <1>3 DEF Shape, ShapeOf, Fresh, Over, Holding
<1>5. Mails
  BY <1>3 DEF Mails, MailOf, Fresh, Ending
<1>6. Owed /\ Tidy
  BY DEF Init, Owed, Tidy, Settled, Clean
<1>7. Drained
  BY DEF Init, Drained
<1>8. Single
  BY <1>3, ProcessAssumption DEF Single, Alone, ConnOf, Holds, Fresh
<1> QED
  BY <1>2, <1>4, <1>5, <1>6, <1>7, <1>8 DEF IInv

LEMMA NextKeeps == IInv /\ [Next]_vars => IInv'
<1> SUFFICES ASSUME IInv, [Next]_vars PROVE IInv'
  OBVIOUS
<1> USE DEF IInv
<1>1. TypeOK' /\ Shape' /\ Mails'
  BY JobsKept, ConnKept, RestKept DEF TypeOK
<1>2. Drained' /\ Tidy'
  BY DrainedKept, TidyKept
<1>3. CASE \E j \in Jobs : Step(j)
  <2>1. PICK j \in Jobs : Step(j)
    BY <1>3
  <2>2. Owed'
    BY <2>1, OwedKept
  <2>3. Single'
    BY <2>1, SingleKept, RestKept DEF Single
  <2> QED
    BY <1>1, <1>2, <2>2, <2>3
<1>4. CASE \E j \in Jobs : Take(j)
  <2>1. PICK j \in Jobs : Take(j)
    BY <1>4
  <2>2. Owed'
    <3>1. conn' = conn /\ At(j, "queued") /\ \A i \in Jobs \ {j} : job'[i] = job[i]
      BY <2>1, Moves DEF Take, Moved, TypeOK
    <3>2. \A c \in Conns : ~Owes(j, c)
      BY <3>1, ProcessAssumption DEF Owes, Top, Nested, At, Shape, ShapeOf, Over, Holding
    <3> QED
      BY <3>1, <3>2, OwedStep
  <2>3. Single'
    BY <2>1, SingleKept, RestKept DEF Single
  <2> QED
    BY <1>1, <1>2, <2>2, <2>3
<1>6. CASE \E c \in Conns : Reap(c)
  <2>1. PICK c \in Conns : Reap(c)
    BY <1>6
  <2>2. /\ c \notin out /\ UNCHANGED <<out, job, roleTenant>>
        /\ \A d \in Conns : conn'[d] = conn[d] \/ (d = c /\ conn'[d].tx = "no")
    <3>1. /\ c \notin out /\ UNCHANGED <<out, job, roleTenant>>
          /\ conn' = [conn EXCEPT ![c] = Clean] /\ conn \in [Conns -> Conn]
      BY <2>1 DEF Reap, TypeOK
    <3>2. Clean.tx = "no"
      BY DEF Clean
    <3> QED
      BY <3>1, <3>2
  <2>3. Owed'
    BY <2>2 DEF Owed, Owes, Top, Nested, Settled
  <2>4. Single'
    <3> SUFFICES ASSUME roleTenant, Alone, \A j \in Jobs : ConnOf(j)
                 PROVE  Alone' /\ \A j \in Jobs : ConnOf(j)'
      BY <2>2 DEF Single
    <3>1. Alone'
      BY <2>2 DEF Alone, Holds
    <3>2. ASSUME NEW j \in Jobs
          PROVE  ConnOf(j)'
      <4>1. job[j] \in Job /\ ShapeOf(j, job[j]) /\ ConnOf(j) /\ job'[j] = job[j]
        BY <2>2 DEF TypeOK, Shape
      <4>2. \A d \in Conns : Holds(j, d) => conn'[d] = conn[d]
        BY <2>2 DEF Alone
      <4>3. /\ job[j].outer # NoConn => conn'[job[j].outer] = conn[job[j].outer]
            /\ job[j].stage \in Holding => conn'[Top(j)] = conn[Top(j)]
        BY <4>1, <4>2 DEF Holds, Top, Nested, ShapeOf, Job
      <4>4. Top(j)' = Top(j) /\ Own(j)' = Own(j)
        BY <4>1 DEF Top, Nested, Own, ClaimsBypass
      <4> QED
        BY <4>1, <4>3, <4>4 DEF ConnOf, Claimed, Holding, Settled
    <3> QED
      BY <3>1, <3>2
  <2> QED
    BY <1>1, <1>2, <2>3, <2>4
<1>5. CASE Signal \/ ShutdownStep \/ Exited \/ UNCHANGED vars
  <2>1. UNCHANGED <<conn, out, job, roleTenant>>
    BY <1>5 DEF Signal, ShutdownStep, CloseQueues, EndPools, Exit, CloseWorker, CloseWorkerFails,
       Exited, vars
  <2>2. Owed'
    BY <2>1 DEF Owed, Owes, Top, Nested, Settled
  <2>3. Single'
    BY <2>1 DEF Single, Alone, ConnOf, Holds, Top, Nested, Own, ClaimsBypass, Claimed, Settled
  <2> QED
    BY <1>1, <1>2, <2>2, <2>3
<1> QED
  BY <1>3, <1>4, <1>5, <1>6 DEF Next

\* The invariant holds.
THEOREM Inductive == Spec => []IInv
<1>1. Init => IInv
  BY InitHolds
<1>2. IInv /\ [Next]_vars => IInv'
  BY NextKeeps
<1> QED
  BY <1>1, <1>2, PTL DEF Spec

\* Every reachable state has the declared shape: no job is tried, and no mail sent,
\* more often than Attempts.
THEOREM TypeCorrect == Spec => []TypeOK
<1>1. IInv => TypeOK
  BY DEF IInv
<1> QED
  BY <1>1, Inductive, PTL

\* With an owner's role that has a tenant every handler runs with the claim of its own
\* tenant, or its own bypass (db/app-pool.ts, lib/with-tenant-context.ts).
THEOREM ClaimsAreOwn == Spec => []OwnClaimSingleRole
<1>1. IInv => OwnClaimSingleRole
  BY DEF IInv, Single, ConnOf, OwnClaimSingleRole, OwnClaim
<1> QED
  BY <1>1, Inductive, PTL

\* A process that exits with code 0 has drained (lib/shutdown.ts).
THEOREM ExitDrains == Spec => []CleanExitDrained
<1>1. IInv => CleanExitDrained
  <2> SUFFICES ASSUME IInv, down = "exited", ~errored
               PROVE  /\ \A j \in Jobs : ~Active(j)
                      /\ \A c \in Conns : conn[c].tx # "open"
    BY DEF CleanExitDrained
  <2>1. \A j \in Jobs : ~Active(j)
    BY DEF IInv, Drained, Workers
  <2>2. \A j \in Jobs, c \in Conns : ~Owes(j, c)
    BY <2>1, ProcessAssumption
       DEF IInv, Shape, ShapeOf, Owes, Top, Nested, Active, Over, Holding
  <2> QED
    BY <2>1, <2>2 DEF IInv, Owed, Settled
<1> QED
  BY <1>1, Inductive, PTL

\* An email job that is done has sent its mail, unless there is no SMTP server and
\* EMAIL_FALLBACK_NONFATAL is set (jobs/email-delivery.ts).
THEOREM DoneSent == Spec => []DoneIsSent
<1>1. IInv => DoneIsSent
  BY DEF IInv, Mails, MailOf, DoneIsSent
<1> QED
  BY <1>1, Inductive, PTL
====

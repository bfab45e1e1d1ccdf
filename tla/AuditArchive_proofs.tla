---- MODULE AuditArchive_proofs ----
(***************************************************************************)
(* Theorems of AuditArchive, for any partitions, jobs, replicas, attempts, *)
(* failures and crashes.                                                   *)
(*                                                                         *)
(* A job that is about to drop has stored the whole of its partition, and  *)
(* what the object holds now is that, or was stored later by another job   *)
(* (OwnUpload): with several replicas a duplicate whose pg_dump dies may   *)
(* cut the object in between.  With one replica at most one job is active  *)
(* (OneActive), so that nothing can (ReadyToDrop).                         *)
(***************************************************************************)
EXTENDS AuditArchive, FiniteSetTheorems, TLAPS

OneActive == \A i, j \in Active : i = j
OwnUpload ==
  \A j \in Jobs : job[j].pc = "drop" =>
    LET o == object[job[j].part]
    IN o.by \in Jobs /\ (o.by = j => o.holds = "whole")
ReadyToDrop == \A j \in Jobs : job[j].pc = "drop" => object[job[j].part].holds = "whole"
ArchiveInv == OneActive /\ ReadyToDrop

-----------------------------------------------------------------------------
\* TypeOK is inductive.

LEMMA RestingType == Resting \in Maint /\ NoJob \in Job
<1>1. 0 \in Tries
  BY BoundsAssumption DEF Tries
<1> QED
  BY <1>1 DEF Resting, Maint, NoJob, Job

LEMMA AgainType ==
  ASSUME TypeOK, NEW j \in Jobs
  PROVE  /\ Again(j) \in Job
         /\ Again(j).pc \in {"none", "waiting"}
         /\ Again(j).pc = "waiting" => Again(j).part = job[j].part
<1>1. job[j] \in Job /\ job[j].tries \in 0..Attempts - 1 /\ Attempts \in Nat
  BY BoundsAssumption DEF TypeOK, Job, Tries
<1> HIDE DEF TypeOK
<1>2. CASE job[j].tries + 1 < Attempts
  <2>1. Again(j) = [job[j] EXCEPT !.pc = "waiting", !.tries = job[j].tries + 1]
    BY <1>1, <1>2 DEF Again, Job
  <2>2. job[j].tries + 1 \in Tries
    BY <1>1, <1>2 DEF Tries
  <2> QED
    BY <1>1, <2>1, <2>2 DEF Job
<1>3. CASE ~(job[j].tries + 1 < Attempts)
  <2>1. Again(j) = NoJob
    BY <1>3 DEF Again
  <2> QED
    BY <2>1, RestingType DEF NoJob
<1> QED
  BY <1>2, <1>3

LEMMA MaintAgainType == TypeOK => MaintAgain \in Maint
<1> SUFFICES ASSUME TypeOK PROVE MaintAgain \in Maint
  OBVIOUS
<1>1. maint.tries \in 0..Attempts - 1 /\ Attempts \in Nat
  BY BoundsAssumption DEF TypeOK, Maint, Tries
<1>2. CASE maint.tries + 1 < Attempts
  <2>1. MaintAgain = [Resting EXCEPT !.pc = "call", !.tries = maint.tries + 1]
    BY <1>2 DEF MaintAgain
  <2>2. maint.tries + 1 \in Tries
    BY <1>1, <1>2 DEF Tries
  <2> QED
    BY <2>1, <2>2, RestingType DEF Maint, Resting
<1>3. CASE ~(maint.tries + 1 < Attempts)
  BY <1>3, RestingType DEF MaintAgain
<1> QED
  BY <1>2, <1>3

LEMMA TypeInit == Init => TypeOK
<1> SUFFICES ASSUME Init PROVE TypeOK
  OBVIOUS
<1>1. Attempts \in Nat \ {0} /\ MaxFails \in Nat /\ MaxCrashes \in Nat
  BY BoundsAssumption
<1>2. fails \in 0..MaxFails /\ crashes \in 0..MaxCrashes
  BY <1>1 DEF Init
<1>3. job \in [Jobs -> Job] /\ \A j \in Jobs : job[j].pc = "none"
  BY RestingType DEF Init, NoJob
<1>4. maint \in Maint
  BY RestingType DEF Init
<1>5. object \in [Partitions -> [holds: {"none", "whole", "cut"}, by: Jobs \cup {NoOne}]]
  BY DEF Init
<1>6. table \in [Partitions -> {"attached", "detached", "dropped"}] /\ due \in BOOLEAN
  BY DEF Init
<1> QED
  BY <1>2, <1>3, <1>4, <1>5, <1>6 DEF TypeOK

LEMMA FailuresType ==
  ASSUME TypeOK, AFailure
  PROVE  fails' \in 0..MaxFails
  BY BoundsAssumption DEF TypeOK, AFailure

LEMMA MaintenanceType ==
  ASSUME TypeOK,
         \/ Tick \/ MaintTake \/ MaintCall \/ MaintDiscover \/ MaintEnd \/ MaintFails
         \/ \E p \in Partitions : MaintEnqueue(p) \/ MaintEnqueueFails(p)
  PROVE  TypeOK'
<1>2. CASE Tick
  BY <1>2 DEF Tick, TypeOK, store
<1>3. CASE MaintTake
  <2>1. maint' \in Maint
    BY <1>3, RestingType DEF MaintTake, Maint, Resting
  <2> QED
    BY <1>3, <2>1 DEF MaintTake, TypeOK, store
<1>4. CASE MaintCall
  BY <1>4 DEF MaintCall, TypeOK, Maint
<1>5. CASE MaintDiscover
  BY <1>5, BoundsAssumption DEF MaintDiscover, TypeOK, store, Maint, Detached
<1>6. CASE MaintEnd
  BY <1>6, RestingType, MaintAgainType DEF MaintEnd, TypeOK, store
<1>7. CASE MaintFails
  BY <1>7, MaintAgainType, FailuresType DEF MaintFails, TypeOK, store
<1>8. ASSUME NEW p \in Partitions, MaintEnqueue(p) PROVE TypeOK'
  <2>1. [NoJob EXCEPT !.pc = "waiting", !.part = p] \in Job
    BY RestingType DEF NoJob, Job
  <2>2. maint' \in Maint
    BY <1>8 DEF MaintEnqueue, TypeOK, Maint
  <2> QED
    BY <1>8, <2>1, <2>2 DEF MaintEnqueue, TypeOK, store, NoJob
<1>9. ASSUME NEW p \in Partitions, MaintEnqueueFails(p) PROVE TypeOK'
  <2>1. maint' \in Maint
    BY <1>9 DEF MaintEnqueueFails, TypeOK, Maint
  <2> QED
    BY <1>9, <2>1, FailuresType DEF MaintEnqueueFails, TypeOK, store
<1> QED
  BY <1>2, <1>3, <1>4, <1>5, <1>6, <1>7, <1>8, <1>9

LEMMA JobType ==
  ASSUME TypeOK, NEW j \in Jobs, Take(j) \/ Work(j) \/ JobFails(j) \/ Crash(j)
  PROVE  TypeOK'
<1>1. job[j] \in Job /\ (job[j].pc # "none" => job[j].part \in Partitions)
  BY DEF TypeOK
<1>2. CASE Take(j)
  BY <1>1, <1>2 DEF Take, TypeOK, store, Job
<1>3. CASE Dump(j)
  <2>1. job' \in [Jobs -> Job] /\ \A i \in Jobs : job'[i].part = job[i].part
    BY <1>1, <1>3 DEF Dump, TypeOK, Job
  <2>2. \A i \in Jobs : job'[i].pc # "none" => job[i].pc # "none"
    BY <1>1, <1>3 DEF Dump, TypeOK, Job
  <2>3. fails' \in 0..MaxFails
    BY <1>3, FailuresType DEF Dump, TypeOK
  <2> QED
    BY <1>3, <2>1, <2>2, <2>3 DEF Dump, TypeOK, store
<1>4. CASE Upload(j)
  <2>1. object' \in [Partitions -> [holds: {"none", "whole", "cut"}, by: Jobs \cup {NoOne}]]
    BY <1>1, <1>4 DEF Upload, Stored, TypeOK
  <2>2. [job[j] EXCEPT !.pc = "drop"] \in Job
    BY <1>1 DEF Job
  <2>3. job' \in [Jobs -> Job] /\ \A i \in Jobs : job'[i].pc # "none" => job'[i].part \in Partitions
    BY <1>1, <1>4, <2>2, AgainType DEF Upload, TypeOK
  <2> QED
    BY <1>4, <2>1, <2>3 DEF Upload, TypeOK
<1>5. CASE Drop(j)
  BY <1>1, <1>5 DEF Drop, TypeOK, Job
<1>6. CASE Complete(j)
  BY <1>6, RestingType DEF Complete, TypeOK, store, NoJob
<1>7. CASE JobFails(j)
  <2>1. job' \in [Jobs -> Job] /\ \A i \in Jobs : job'[i].pc # "none" => job'[i].part \in Partitions
    BY <1>1, <1>7, AgainType DEF JobFails, TypeOK
  <2> QED
    BY <1>7, <2>1, FailuresType DEF JobFails, TypeOK, store
<1>8. CASE Crash(j)
  <2>1. crashes' \in 0..MaxCrashes
    BY <1>8, BoundsAssumption DEF Crash, TypeOK
  <2> QED
    BY <1>1, <1>8, <2>1 DEF Crash, TypeOK, store, Job, Active
<1> QED
  BY <1>2, <1>3, <1>4, <1>5, <1>6, <1>7, <1>8 DEF Work

LEMMA TypeStep == TypeOK /\ [Next]_vars => TypeOK'
<1> SUFFICES ASSUME TypeOK, [Next]_vars PROVE TypeOK'
  OBVIOUS
<1>1. CASE UNCHANGED vars
  BY <1>1 DEF vars, TypeOK
<1>2. CASE Next
  BY <1>2, MaintenanceType, JobType DEF Next, Maintenance
<1> QED
  BY <1>1, <1>2

\* Every variable of the archive keeps its shape.
THEOREM ArchiveTypeCorrect == Spec => []TypeOK
<1> QED
  BY TypeInit, TypeStep, PTL DEF Spec

-----------------------------------------------------------------------------
\* OwnUpload is inductive.

LEMMA OwnInit == Init => OwnUpload
  BY DEF Init, OwnUpload, NoJob

\* The maintenance job touches no object, and no job that works.
LEMMA MaintenanceOwn ==
  ASSUME TypeOK, OwnUpload,
         \/ Tick \/ MaintTake \/ MaintCall \/ MaintDiscover \/ MaintEnd \/ MaintFails
         \/ \E p \in Partitions : MaintEnqueue(p) \/ MaintEnqueueFails(p)
  PROVE  OwnUpload'
<1>1. CASE UNCHANGED <<object, job>>
  BY <1>1 DEF OwnUpload
<1>2. ASSUME NEW p \in Partitions, MaintEnqueue(p) PROVE OwnUpload'
  <2>1. PICK j \in Jobs : job' = [job EXCEPT ![j] = [NoJob EXCEPT !.pc = "waiting", !.part = p]]
    BY <1>2 DEF MaintEnqueue
  <2>2. object' = object
    BY <1>2 DEF MaintEnqueue, store
  <2>3. job'[j].pc = "waiting" /\ \A i \in Jobs \ {j} : job'[i] = job[i]
    BY <2>1 DEF TypeOK, NoJob
  <2> QED
    BY <2>2, <2>3 DEF OwnUpload
<1> QED
  BY <1>1, <1>2 DEF Tick, MaintTake, MaintCall, MaintDiscover, MaintEnd, MaintFails,
                    MaintEnqueueFails, store

\* An upload of a duplicate leaves its own name on the object.
LEMMA JobOwn ==
  ASSUME TypeOK, OwnUpload, NEW j \in Jobs, Take(j) \/ Work(j) \/ JobFails(j) \/ Crash(j)
  PROVE  OwnUpload'
<1>1. \A i \in Jobs \ {j} : job'[i] = job[i]
  BY DEF TypeOK, Take, Work, Dump, Upload, Drop, Complete, JobFails, Crash
<1>2. CASE Upload(j)
  <2>1. job[j].part \in Partitions /\ job[j] \in Job
    BY <1>2 DEF Upload, TypeOK
  <2>2. /\ object'[job[j].part].by = j
        /\ object'[job[j].part].holds = IF job[j].whole THEN "whole" ELSE "cut"
        /\ \A p \in Partitions \ {job[j].part} : object'[p] = object[p]
    BY <1>2, <2>1 DEF Upload, Stored, TypeOK
  <2>3. job'[j].pc = "drop" => job[j].whole /\ job'[j].part = job[j].part
    BY <1>2, <2>1, AgainType DEF Upload, TypeOK
  <2>4. ASSUME NEW i \in Jobs \ {j}, job'[i].pc = "drop"
        PROVE  LET o == object'[job'[i].part]
               IN o.by \in Jobs /\ (o.by = i => o.holds = "whole")
    <3>1. job'[i] = job[i] /\ job[i].part \in Partitions
      BY <1>1, <2>4 DEF TypeOK
    <3> QED
      BY <2>2, <2>4, <3>1 DEF OwnUpload
  <2> QED
    BY <2>2, <2>3, <2>4 DEF OwnUpload
<1>3. CASE object' = object /\ job'[j].pc # "drop"
  BY <1>1, <1>3 DEF OwnUpload
<1>4. Upload(j) \/ (object' = object /\ job'[j].pc # "drop")
  BY AgainType
     DEF TypeOK, Take, Work, Dump, Drop, Complete, JobFails, Crash, store, NoJob, Job
<1> QED
  BY <1>2, <1>3, <1>4

LEMMA OwnStep ==
  ASSUME TypeOK, OwnUpload, [Next]_vars
  PROVE  OwnUpload'
<1>1. CASE UNCHANGED vars
  BY <1>1 DEF vars, OwnUpload
<1>2. CASE Next
  BY <1>2, MaintenanceOwn, JobOwn DEF Next, Maintenance
<1> QED
  BY <1>1, <1>2

\* Only a job that is about to drop drops.
LEMMA DropStep ==
  ASSUME TypeOK, [Next]_vars, NEW p \in Partitions,
         table[p] # "dropped", table'[p] = "dropped"
  PROVE  \E j \in Jobs : job[j].pc = "drop" /\ job[j].part = p
<1>1. PICK j \in Jobs : Drop(j)
  <2>1. ~MaintCall
    BY DEF MaintCall
  <2>2. table' # table
    OBVIOUS
  <2> QED
    BY <2>1, <2>2 DEF Next, vars, store, Maintenance, Tick, MaintTake, MaintDiscover, MaintEnd,
       MaintFails, MaintEnqueue, MaintEnqueueFails, Work, Take, Dump, Upload, Complete,
       JobFails, Crash
<1>2. job[j].pc = "drop" /\ table' = [table EXCEPT ![job[j].part] = "dropped"]
  BY <1>1 DEF Drop
<1>3. job[j].part = p
  BY <1>2 DEF TypeOK
<1> QED
  BY <1>2, <1>3

\* Whatever jobs run beside it, on any number of replicas, a job drops only a
\* partition that it has stored as a whole itself, and that no other job but a
\* duplicate has stored over since.
THEOREM DropAfterOwnUploadCorrect == Spec => DropAfterOwnUpload
<1>1. TypeOK /\ OwnUpload /\ [Next]_vars => TypeOK' /\ OwnUpload'
  BY TypeStep, OwnStep
<1>2. TypeOK /\ OwnUpload /\ [Next]_vars =>
        [\A p \in Partitions : table[p] # "dropped" /\ table'[p] = "dropped" =>
           \E j \in Jobs : /\ job[j].pc = "drop" /\ job[j].part = p
                           /\ object[p].by \in Jobs
                           /\ object[p].by = j => object[p].holds = "whole"]_vars
  BY DropStep DEF OwnUpload
<1> QED
  BY <1>1, <1>2, TypeInit, OwnInit, PTL DEF Spec, DropAfterOwnUpload

-----------------------------------------------------------------------------
\* With one replica, ArchiveInv is inductive.

LEMMA NoneActive ==
  ASSUME Cardinality(Active) < Replicas, Replicas = 1
  PROVE  Active = {}
<1>1. IsFiniteSet(Active)
  BY BoundsAssumption, FS_Subset DEF Active
<1>2. Cardinality(Active) \in Nat
  BY <1>1, FS_CardinalityType
<1>3. Cardinality(Active) = 0
  BY <1>2
<1> QED
  BY <1>1, <1>3, FS_EmptySet

LEMMA ArchiveInit == Init => ArchiveInv
  BY DEF Init, ArchiveInv, OneActive, ReadyToDrop, Active, NoJob

\* The maintenance job leaves the object store and the active jobs alone.
LEMMA MaintenanceArchive ==
  ASSUME TypeOK, ArchiveInv,
         \/ Tick \/ MaintTake \/ MaintCall \/ MaintDiscover \/ MaintEnd \/ MaintFails
         \/ \E p \in Partitions : MaintEnqueue(p) \/ MaintEnqueueFails(p)
  PROVE  ArchiveInv'
<1>1. CASE UNCHANGED <<object, job>>
  BY <1>1 DEF ArchiveInv, OneActive, ReadyToDrop, Active
<1>2. ASSUME NEW p \in Partitions, MaintEnqueue(p) PROVE ArchiveInv'
  <2>1. PICK j \in Jobs : job[j].pc = "none"
                         /\ job' = [job EXCEPT ![j] = [NoJob EXCEPT !.pc = "waiting", !.part = p]]
    BY <1>2 DEF MaintEnqueue
  <2>2. object' = object
    BY <1>2 DEF MaintEnqueue, store
  <2>3. /\ job'[j].pc = "waiting"
        /\ \A i \in Jobs \ {j} : job'[i] = job[i]
    BY <2>1 DEF TypeOK, NoJob
  <2> QED
    BY <2>2, <2>3 DEF ArchiveInv, OneActive, ReadyToDrop, Active
<1> QED
  BY <1>1, <1>2 DEF Tick, MaintTake, MaintCall, MaintDiscover, MaintEnd, MaintFails,
                    MaintEnqueueFails, store

LEMMA JobArchive ==
  ASSUME TypeOK, ArchiveInv, Replicas = 1,
         NEW j \in Jobs, Take(j) \/ Work(j) \/ JobFails(j) \/ Crash(j)
  PROVE  ArchiveInv'
<1>1. \A i \in Jobs \ {j} : job'[i] = job[i]
  BY DEF TypeOK, Take, Work, Dump, Upload, Drop, Complete, JobFails, Crash
<1>2. CASE Take(j)
  <2>1. Active = {}
    BY <1>2, NoneActive DEF Take
  <2>2. Active' \subseteq {j} /\ \A i \in Jobs : job[i].pc # "drop"
    BY <1>1, <2>1 DEF Active
  <2>3. job'[j].pc = "dump"
    BY <1>2 DEF Take, TypeOK
  <2> QED
    BY <1>1, <2>2, <2>3 DEF ArchiveInv, OneActive, ReadyToDrop
<1>3. ASSUME j \in Active PROVE OneActive' /\ \A i \in Jobs \ {j} : job'[i].pc # "drop"
  BY <1>1, <1>3 DEF ArchiveInv, OneActive, Active
<1>4. CASE Dump(j)
  <2>1. job'[j].pc = "upload" /\ object' = object
    BY <1>4 DEF Dump, TypeOK, Job, store
  <2>2. j \in Active
    BY <1>4 DEF Dump, Active
  <2> QED
    BY <1>3, <2>1, <2>2 DEF ArchiveInv, ReadyToDrop
<1>5. CASE Upload(j)
  <2>1. ASSUME job[j].whole PROVE object'[job'[j].part].holds = "whole"
    <3>1. job[j].part \in Partitions
      BY <1>5 DEF Upload, TypeOK
    <3>2. job'[j].part = job[j].part
      BY <1>5, <2>1 DEF Upload, TypeOK
    <3> QED
      BY <1>5, <2>1, <3>1, <3>2 DEF Upload, Stored, TypeOK
  <2>2. ASSUME ~job[j].whole PROVE job'[j].pc # "drop"
    BY <1>5, <2>2, AgainType DEF Upload, TypeOK
  <2>3. j \in Active
    BY <1>5 DEF Upload, Active
  <2> QED
    BY <1>3, <2>1, <2>2, <2>3 DEF ArchiveInv, ReadyToDrop
<1>6. CASE Drop(j)
  BY <1>3, <1>6 DEF Drop, TypeOK, Active, ArchiveInv, ReadyToDrop
<1>7. CASE Complete(j)
  BY <1>3, <1>7 DEF Complete, TypeOK, Active, ArchiveInv, ReadyToDrop, NoJob
<1>8. CASE JobFails(j)
  <2>1. job'[j].pc # "drop"
    BY <1>8, AgainType DEF JobFails, TypeOK
  <2> QED
    BY <1>3, <1>8, <2>1 DEF JobFails, Active, ArchiveInv, ReadyToDrop
<1>9. CASE Crash(j)
  <2>1. job'[j].pc = "waiting"
    BY <1>9 DEF Crash, TypeOK
  <2> QED
    BY <1>3, <1>9, <2>1 DEF Crash, ArchiveInv, ReadyToDrop
<1> QED
  BY <1>2, <1>4, <1>5, <1>6, <1>7, <1>8, <1>9 DEF Work

LEMMA ArchiveStep ==
  ASSUME Replicas = 1, TypeOK, ArchiveInv, [Next]_vars
  PROVE  ArchiveInv'
<1>1. CASE UNCHANGED vars
  BY <1>1 DEF vars, ArchiveInv, OneActive, ReadyToDrop, Active
<1>2. CASE Next
  BY <1>2, MaintenanceArchive, JobArchive DEF Next, Maintenance
<1> QED
  BY <1>1, <1>2

\* In a deployment with one worker no partition is dropped before the object
\* store holds the whole of it, for any duplicate, retried and stalled jobs.
COROLLARY DropOnlyArchivedCorrect == (Replicas = 1) => (Spec => DropOnlyArchived)
<1> SUFFICES ASSUME Replicas = 1 PROVE Spec => DropOnlyArchived
  OBVIOUS
<1>1. TypeOK /\ ArchiveInv /\ [Next]_vars => TypeOK' /\ ArchiveInv'
  BY TypeStep, ArchiveStep
<1>2. TypeOK /\ ArchiveInv /\ [Next]_vars =>
        [\A p \in Partitions :
           table[p] # "dropped" /\ table'[p] = "dropped" => object[p].holds = "whole"]_vars
  BY DropStep DEF ArchiveInv, ReadyToDrop
<1> QED
  BY <1>1, <1>2, TypeInit, ArchiveInit, PTL DEF Spec, DropOnlyArchived
====

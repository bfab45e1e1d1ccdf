---- MODULE DailyJobs_proofs ----
(***************************************************************************)
(* Theorems of DailyJobs, for every number of tenants and requests, every  *)
(* number of attempts and failures, and workers that may fall behind.      *)
(*                                                                         *)
(* A job is due only once a first day is over (DispatcherOK, CheckOK), so  *)
(* the day that closed last exists; it stays closed, which is why children *)
(* that wait for any time still roll up closed days.  Entries only grow,   *)
(* which is why a rollup made at any time never counts too many.           *)
(***************************************************************************)
EXTENDS DailyJobs, FiniteSetTheorems, TLAPS

DispatcherOK ==
  /\ rollupDue >= SlotsPerDay
  /\ dispatcher.pc # "idle" => now >= SlotsPerDay
  /\ dispatcher.pc = "loop" => dispatcher.day \in Days /\ dispatcher.day < Day(now)
  /\ \A t \in Tenants, d \in Days : children[t][d] > 0 => d < Day(now)
  /\ RollupOfClosedDays

CheckOK ==
  /\ checkDue >= SlotsPerDay
  /\ check.pc # "idle" => now >= SlotsPerDay
  /\ check.pc \in {"count", "loop"} => check.day \in Days
  /\ check.pc \in {"idle", "list", "count"} => check.next = {}
  /\ \A g \in check.next : g[2] = check.day
  /\ GaugesOfOneCheck

LoggedOK == \A r \in spend : start[r] # NotYet

DailyInv == TypeOK /\ LoggedOK /\ DispatcherOK /\ CheckOK /\ RollupNeverOvercounts

-----------------------------------------------------------------------------
\* The calendar.

\* A day is an instant's number of whole days.
LEMMA DayBounds ==
  ASSUME NEW t \in Nat
  PROVE  /\ Day(t) \in Nat
         /\ SlotsPerDay * Day(t) <= t
         /\ t < SlotsPerDay * (Day(t) + 1)
  BY Z3 DEF Day, SlotsPerDay

\* The clock stays on its days; once the first is over, there is one before.
LEMMA DayType ==
  ASSUME NEW t \in 0..MaxTime
  PROVE  /\ Day(t) \in Days
         /\ t >= SlotsPerDay => Day(t) - 1 \in Days
<1>1. MaxTime \in Nat /\ t \in Nat
  BY BoundsAssumption
<1>2. Day(t) \in Nat /\ Day(MaxTime) \in Nat
  BY <1>1, DayBounds
<1>3. Day(t) <= Day(MaxTime)
  BY <1>1, <1>2, DayBounds DEF SlotsPerDay
<1>4. t >= SlotsPerDay => Day(t) >= 1
  BY <1>1, <1>2, DayBounds DEF SlotsPerDay
<1> QED
  BY <1>2, <1>3, <1>4 DEF Days

LEMMA DayMonotone ==
  ASSUME NEW s \in Nat, NEW t \in Nat, s <= t
  PROVE  Day(s) <= Day(t)
<1>1. Day(s) \in Nat /\ Day(t) \in Nat
  BY DayBounds
<1> QED
  BY <1>1, DayBounds DEF SlotsPerDay

\* A scheduler's next job is due later than now.
LEMMA NextFireLater ==
  ASSUME NEW t \in Nat, NEW slot \in {RollupSlot, CheckSlot}
  PROVE  NextFire(slot, t) \in Nat /\ NextFire(slot, t) > t
<1>1. slot \in Nat /\ Day(t) \in Nat
  BY DayBounds DEF RollupSlot, CheckSlot
<1>2. t < SlotsPerDay * (Day(t) + 1)
  BY DayBounds
<1> QED
  BY <1>1, <1>2 DEF NextFire, SlotsPerDay

\* The entries of a tenant and day are at most as many as the requests.
LEMMA EntriesCount ==
  ASSUME NEW t \in Tenants, NEW d \in Days
  PROVE  Cardinality(Entries(t, d)) \in 0..Cardinality(Rows)
<1>1. IsFiniteSet(Rows) /\ Entries(t, d) \subseteq Rows
  BY RowsAssumption DEF Entries
<1>2. /\ Cardinality(Entries(t, d)) \in Nat
      /\ Cardinality(Rows) \in Nat
      /\ Cardinality(Entries(t, d)) <= Cardinality(Rows)
  BY <1>1, FS_Subset, FS_CardinalityType
<1> QED
  BY <1>2

\* Charging requests that have no entry yet never takes an entry away.
Charging == \A r \in Rows : Charged(r) => ledger'[r] = ledger[r]

LEMMA EntriesGrow ==
  ASSUME Charging, NEW t \in Tenants, NEW d \in Days
  PROVE  Cardinality(Entries(t, d)) <= Cardinality(Entries(t, d)')
<1>1. NotYet \notin Days
  BY BoundsAssumption, DayBounds DEF NotYet, Days
<1>2. Entries(t, d) \subseteq Entries(t, d)'
  BY <1>1 DEF Charging, Entries, Charged
<1>3. IsFiniteSet(Entries(t, d)')
  BY RowsAssumption, FS_Subset DEF Entries
<1> QED
  BY <1>2, <1>3, FS_Subset

-----------------------------------------------------------------------------
\* DailyInv is inductive.

LEMMA IdleType == Idle \in RunType
<1>1. Cardinality(Rows) \in Nat
  BY RowsAssumption, FS_CardinalityType
<1> QED
  BY <1>1, BoundsAssumption DEF Idle, RunType

LEMMA RetriedType ==
  ASSUME NEW r \in RunType
  PROVE  /\ Retried(r) \in RunType
         /\ Retried(r).pc \in {"idle", "list"}
         /\ Retried(r).next = {}
<1>1. r.tries \in 0..Attempts - 1 /\ Attempts \in Nat
  BY BoundsAssumption DEF RunType
<1>2. CASE r.tries + 1 < Attempts
  <2>1. Retried(r) = [Idle EXCEPT !.pc = "list", !.tries = r.tries + 1]
    BY <1>2 DEF Retried
  <2>2. r.tries + 1 \in 0..Attempts - 1
    BY <1>1, <1>2
  <2> QED
    BY <2>1, <2>2, IdleType DEF RunType, Idle
<1>3. CASE ~(r.tries + 1 < Attempts)
  <2>1. Retried(r) = Idle
    BY <1>3 DEF Retried
  <2> QED
    BY <2>1, IdleType DEF Idle
<1> QED
  BY <1>2, <1>3

LEMMA InvInit == Init => DailyInv
<1> SUFFICES ASSUME Init PROVE DailyInv
  OBVIOUS
<1>1. Cardinality(Rows) \in Nat
  BY RowsAssumption, FS_CardinalityType
<1>2. /\ MinTime \in Nat /\ MinTime \in 0..MaxTime /\ MinTime >= CheckSlot
      /\ 0 \in 0..MaxFails /\ 0 \in 0..MaxChildren
  BY BoundsAssumption DEF CheckSlot
<1>8. \A slot \in {RollupSlot, CheckSlot} :
        NextFire(slot, MinTime) \in Nat /\ NextFire(slot, MinTime) >= SlotsPerDay
  BY <1>2, NextFireLater DEF CheckSlot, SlotsPerDay
<1>3. TypeOK
  <2>1. spend \subseteq Rows /\ start \in [Rows -> 0..MaxTime \cup {NotYet}]
    BY <1>2 DEF Init, Foreign
  <2> QED
    BY <1>1, <1>2, <1>8, <2>1, IdleType DEF Init, TypeOK, EachDay, PerDay, JobState
<1>0. \A t \in Tenants, d \in Days : rollup[t][d] = NotYet /\ children[t][d] = 0
  BY DEF Init, EachDay
<1>4. DispatcherOK
  BY <1>0, <1>8 DEF Init, DispatcherOK, Idle, RollupOfClosedDays
<1>5. CheckOK
  BY <1>8 DEF Init, CheckOK, Idle, GaugesOfOneCheck
<1>6. RollupNeverOvercounts
  BY <1>0, EntriesCount DEF RollupNeverOvercounts, NotYet
<1>7. LoggedOK
  BY <1>2 DEF Init, LoggedOK, Foreign, NotYet
<1> QED
  BY <1>3, <1>4, <1>5, <1>6, <1>7 DEF DailyInv

\* What a step leaves alone keeps its part of the invariant.
LEMMA RollupQuiet ==
  ASSUME DailyInv, UNCHANGED <<now, rollupVars>>
  PROVE  DispatcherOK'
  BY DEF DailyInv, DispatcherOK, RollupOfClosedDays, rollupVars, Day

LEMMA CheckQuiet ==
  ASSUME DailyInv, UNCHANGED <<now, checkDue, check, drift>>
  PROVE  CheckOK'
  BY DEF DailyInv, CheckOK, GaugesOfOneCheck

LEMMA CountsQuiet ==
  ASSUME DailyInv, TypeOK', Charging, UNCHANGED rollup
  PROVE  RollupNeverOvercounts'
<1> SUFFICES ASSUME NEW t \in Tenants, NEW d \in Days
             PROVE  rollup[t][d] <= Cardinality(Entries(t, d)')
  BY DEF RollupNeverOvercounts
<1>1. rollup[t][d] <= Cardinality(Entries(t, d))
  BY DEF DailyInv, RollupNeverOvercounts
<1>2. Cardinality(Entries(t, d)) <= Cardinality(Entries(t, d)')
  BY EntriesGrow
<1>3. /\ rollup[t][d] \in 0..Cardinality(Rows) \cup {NotYet}
      /\ Cardinality(Entries(t, d)) \in Nat
  BY EntriesCount DEF DailyInv, TypeOK, PerDay
<1>4. Cardinality(Entries(t, d)') \in Nat
  <2>1. IsFiniteSet(Entries(t, d)')
    BY RowsAssumption, FS_Subset DEF Entries
  <2> QED
    BY <2>1, FS_CardinalityType
<1>5. Cardinality(Rows) \in Nat
  BY RowsAssumption, FS_CardinalityType
<1> QED
  BY <1>1, <1>2, <1>3, <1>4, <1>5 DEF NotYet

\* The days that are closed stay closed.
LEMMA ClockStep == DailyInv /\ Clock => DailyInv'
<1> SUFFICES ASSUME DailyInv, Clock PROVE DailyInv'
  OBVIOUS
<1> USE DEF DailyInv
<1>1. now \in 0..MaxTime /\ now' = now + 1 /\ now' \in 0..MaxTime
  BY BoundsAssumption DEF Clock, TypeOK
<1>2. Day(now) <= Day(now') /\ Day(now) \in Nat /\ Day(now') \in Nat
  BY <1>1, DayMonotone, DayBounds
<1>3. TypeOK'
  BY <1>1 DEF Clock, TypeOK, rollupVars, checkVars
<1>4. Day(now)' = Day(now')
  BY DEF Day
<1>5. DispatcherOK'
  <2>1. UNCHANGED rollupVars
    BY DEF Clock
  <2>2. Days \subseteq Int
    BY BoundsAssumption, DayBounds DEF Days
  <2>3. \A d \in Days : d < Day(now) => d < Day(now')
    BY <1>2, <2>2
  <2>4. RollupOfClosedDays'
    BY <1>4, <2>1, <2>3 DEF DispatcherOK, RollupOfClosedDays, rollupVars
  <2>5. dispatcher.pc # "idle" => now' >= SlotsPerDay
    BY <1>1 DEF DispatcherOK, SlotsPerDay
  <2> QED
    BY <1>4, <2>1, <2>3, <2>4, <2>5 DEF DispatcherOK, rollupVars
<1>6. CheckOK'
  <2>1. UNCHANGED checkVars
    BY DEF Clock
  <2> QED
    BY <1>1, <2>1 DEF CheckOK, GaugesOfOneCheck, checkVars, SlotsPerDay
<1>7. RollupNeverOvercounts'
  BY <1>3, CountsQuiet DEF Clock, Charging, rollupVars
<1>8. LoggedOK'
  BY DEF Clock, LoggedOK
<1> QED
  BY <1>3, <1>5, <1>6, <1>7, <1>8

\* Requests, rows and the three writers of the ledger.
LEMMA WriterStep ==
  ASSUME DailyInv, NEW r \in Rows, Serve(r) \/ Log(r) \/ HotCharge(r) \/ TickCharge(r)
  PROVE  DailyInv'
<1> USE DEF DailyInv
<1>0. now \in 0..MaxTime /\ Day(now) \in Days
  BY DayType DEF TypeOK
<1>1. UNCHANGED <<now, rollupVars, checkVars>>
  BY DEF Serve, Log, HotCharge, TickCharge, outside
<1>2. start'[r] # NotYet => start'[r] \in 0..MaxTime /\ Day(start'[r]) \in Days
  <2>1. start' \in [Rows -> 0..MaxTime \cup {NotYet}]
    BY <1>0 DEF Serve, Log, HotCharge, TickCharge, outside, TypeOK
  <2> QED
    BY <2>1, DayType
<1>3. TypeOK'
  <2>1. CASE Serve(r)
    BY <2>1, <1>0, <1>1 DEF Serve, TypeOK, rollupVars, checkVars
  <2>2. CASE Log(r)
    BY <2>2, <1>1 DEF Log, TypeOK, rollupVars, checkVars
  <2>3. CASE HotCharge(r)
    BY <2>3, <1>0, <1>1 DEF HotCharge, TypeOK, outside, rollupVars, checkVars
  <2>4. CASE TickCharge(r)
    BY <2>4, <1>1, <1>2 DEF TickCharge, TypeOK, LoggedOK, outside, rollupVars, checkVars
  <2> QED
    BY <2>1, <2>2, <2>3, <2>4
<1>4. Charging
  BY DEF Serve, Log, HotCharge, TickCharge, Charging, TypeOK
<1>5. LoggedOK'
  BY <1>0 DEF Serve, Log, HotCharge, TickCharge, LoggedOK, TypeOK, outside, NotYet
<1> QED
  BY <1>1, <1>3, <1>4, <1>5, RollupQuiet, CheckQuiet, CountsQuiet
     DEF rollupVars, checkVars

LEMMA InsertedType ==
  ASSUME DailyInv, NEW t \in Tenants, NEW d \in Days, NEW S \in SUBSET Unbilled(t, d),
         ledger' = Inserted(S)
  PROVE  Charging /\ ledger' \in [Rows -> Days \cup {NotYet}]
  BY DEF DailyInv, TypeOK, Charging, Inserted, Unbilled, Logged

LEMMA RepairStep ==
  ASSUME DailyInv, NEW t \in Tenants, NEW d \in Days,
         OperatorRepair(t, d) \/ Repair(t, d) \/ RepairFail(t, d)
  PROVE  DailyInv'
<1> USE DEF DailyInv
<1>1. UNCHANGED <<outside, rollupVars, checkDue, check, drift>>
  BY DEF OperatorRepair, Repair, RepairStart, RepairEnd, RepairFail
<1>2. Charging /\ ledger' \in [Rows -> Days \cup {NotYet}]
  <2>1. CASE RepairStart(t, d)
    BY <2>1 DEF RepairStart, Charging, TypeOK
  <2>4. CASE OperatorRepair(t, d)
    BY <2>4 DEF OperatorRepair, Charging, TypeOK
  <2>2. CASE RepairEnd(t, d)
    BY <2>2, InsertedType DEF RepairEnd
  <2>3. CASE RepairFail(t, d)
    BY <2>3, InsertedType DEF RepairFail
  <2> QED
    BY <2>1, <2>2, <2>3, <2>4 DEF Repair
<1>3. repairs' \in PerDay(JobState)
  <2>1. PICK s \in JobState : repairs' = [repairs EXCEPT ![t][d] = s]
    BY DEF OperatorRepair, Repair, RepairStart, RepairEnd, RepairFail, JobState
  <2> QED
    BY <2>1 DEF TypeOK, PerDay
<1>4. fails' \in 0..MaxFails
  <2>1. UNCHANGED fails \/ (fails < MaxFails /\ fails' = fails + 1)
    BY DEF OperatorRepair, Repair, RepairStart, RepairEnd, RepairFail
  <2> QED
    BY <2>1, BoundsAssumption DEF TypeOK
<1>5. TypeOK'
  BY <1>1, <1>2, <1>3, <1>4 DEF TypeOK, outside, rollupVars
<1>6. LoggedOK'
  BY <1>1 DEF LoggedOK, outside
<1> QED
  BY <1>1, <1>2, <1>5, <1>6, RollupQuiet, CheckQuiet, CountsQuiet DEF outside, rollupVars

\* The rollup's steps leave the ledger and the reconciliation alone.
LEMMA RollupFrame ==
  ASSUME DailyInv, UNCHANGED <<outside, ledger, checkVars>>
  PROVE  /\ LoggedOK' /\ CheckOK' /\ Charging
         /\ \A t \in Tenants, d \in Days : Entries(t, d)' = Entries(t, d)
  BY CheckQuiet DEF DailyInv, LoggedOK, Charging, Entries, outside, checkVars

LEMMA DispatchStep ==
  ASSUME DailyInv,
         \/ DispatchStart \/ DispatchList \/ DispatchEnd \/ DispatchFail
         \/ \E t \in Tenants : DispatchChild(t)
  PROVE  DailyInv'
<1> USE DEF DailyInv
<1>1. UNCHANGED <<outside, ledger, rollup, checkVars>>
  BY DEF DispatchStart, DispatchList, DispatchChild, DispatchEnd, DispatchFail
<1>2. UNCHANGED now /\ now \in 0..MaxTime /\ now \in Nat
  BY <1>1, BoundsAssumption DEF TypeOK, outside
<1>3. RollupOfClosedDays'
  BY <1>1, <1>2 DEF DispatcherOK, RollupOfClosedDays, Day
<1>4. TypeOK' /\ DispatcherOK'
  <2>1. CASE DispatchStart
    <3>1. NextFire(RollupSlot, now) \in Nat /\ NextFire(RollupSlot, now) > now
      BY <1>2, NextFireLater
    <3>2. dispatcher' \in RunType /\ dispatcher'.pc = "list"
      BY <2>1, IdleType DEF DispatchStart, RunType, Idle
    <3>3. rollupDue \in Nat /\ rollupDue >= SlotsPerDay /\ now >= rollupDue
      BY <2>1 DEF DispatchStart, TypeOK, DispatcherOK
    <3>4. TypeOK'
      BY <1>1, <2>1, <3>1, <3>2 DEF DispatchStart, TypeOK, outside, checkVars
    <3> QED
      BY <1>2, <1>3, <2>1, <3>1, <3>2, <3>3, <3>4
         DEF DispatchStart, DispatcherOK, SlotsPerDay, Day
  <2>2. CASE DispatchList
    <3>1. now >= SlotsPerDay
      BY <2>2 DEF DispatchList, DispatcherOK
    <3>2. LastClosedDay \in Days /\ LastClosedDay < Day(now)
      BY <1>2, <3>1, DayType, DayBounds DEF LastClosedDay
    <3>3. dispatcher' \in RunType /\ dispatcher'.pc = "loop" /\ dispatcher'.day = LastClosedDay
      BY <2>2, <3>2 DEF DispatchList, TypeOK, RunType
    <3>4. TypeOK'
      BY <1>1, <2>2, <3>3 DEF DispatchList, TypeOK, outside, checkVars
    <3> QED
      BY <1>2, <1>3, <2>2, <3>1, <3>2, <3>3, <3>4 DEF DispatchList, DispatcherOK, Day
  <2>3. ASSUME NEW t \in Tenants, DispatchChild(t) PROVE TypeOK' /\ DispatcherOK'
    <3>1. dispatcher.day \in Days /\ dispatcher.day < Day(now)
      BY <2>3 DEF DispatchChild, DispatcherOK
    <3>2. children' \in PerDay(0..MaxChildren)
      <4>1. children[t][dispatcher.day] + 1 \in 0..MaxChildren
        BY <2>3, <3>1, BoundsAssumption DEF DispatchChild, TypeOK, PerDay
      <4> QED
        BY <2>3, <3>1, <4>1 DEF DispatchChild, TypeOK, PerDay
    <3>3. /\ dispatcher' \in RunType /\ dispatcher'.pc = dispatcher.pc
          /\ dispatcher'.day = dispatcher.day
      BY <2>3 DEF DispatchChild, TypeOK, RunType
    <3>4. \A u \in Tenants, d \in Days : children'[u][d] > 0 => d < Day(now)
      BY <2>3, <3>1 DEF DispatchChild, TypeOK, PerDay, DispatcherOK
    <3>5. TypeOK'
      BY <1>1, <2>3, <3>2, <3>3 DEF DispatchChild, TypeOK, outside, checkVars
    <3> QED
      BY <1>2, <1>3, <2>3, <3>1, <3>3, <3>4, <3>5 DEF DispatchChild, DispatcherOK, Day
  <2>4. CASE DispatchEnd
    <3>1. dispatcher' \in RunType /\ dispatcher'.pc = "idle"
      BY <2>4, IdleType DEF DispatchEnd, Idle
    <3>2. TypeOK'
      BY <1>1, <2>4, <3>1 DEF DispatchEnd, TypeOK, outside, checkVars
    <3> QED
      BY <1>2, <1>3, <2>4, <3>1, <3>2 DEF DispatchEnd, DispatcherOK, Day
  <2>5. CASE DispatchFail
    <3>1. dispatcher' \in RunType /\ dispatcher'.pc \in {"idle", "list"}
      BY <2>5, RetriedType DEF DispatchFail, TypeOK
    <3>2. now >= SlotsPerDay
      BY <2>5 DEF DispatchFail, DispatcherOK
    <3>3. fails' \in 0..MaxFails
      BY <2>5, BoundsAssumption DEF DispatchFail, TypeOK
    <3>4. TypeOK'
      BY <1>1, <2>5, <3>1, <3>3 DEF DispatchFail, TypeOK, outside, checkVars
    <3> QED
      BY <1>2, <1>3, <2>5, <3>1, <3>2, <3>4 DEF DispatchFail, DispatcherOK, Day
  <2> QED
    BY <2>1, <2>2, <2>3, <2>4, <2>5
<1> QED
  BY <1>1, <1>4, RollupFrame, CountsQuiet

\* A child counts the entries of its day as they are when it runs.
LEMMA ChildStep ==
  ASSUME DailyInv, NEW t \in Tenants, NEW d \in Days, RollupTenant(t, d)
  PROVE  DailyInv'
<1> USE DEF DailyInv
<1>1. UNCHANGED <<outside, ledger, rollupDue, dispatcher, checkVars, fails>>
  BY DEF RollupTenant
<1>2. Cardinality(Entries(t, d)) \in 0..Cardinality(Rows)
  BY EntriesCount
<1>3. children' \in PerDay(0..MaxChildren)
  <2>1. children[t][d] - 1 \in 0..MaxChildren
    BY BoundsAssumption DEF RollupTenant, TypeOK, PerDay
  <2> QED
    BY <2>1 DEF RollupTenant, TypeOK, PerDay
<1>4. rollup' \in PerDay(0..Cardinality(Rows) \cup {NotYet})
  BY <1>2 DEF RollupTenant, TypeOK, PerDay
<1>5. TypeOK'
  BY <1>1, <1>3, <1>4 DEF TypeOK, outside, checkVars
<1>6. DispatcherOK'
  <2>1. d < Day(now)
    BY DEF RollupTenant, DispatcherOK
  <2>2. \A u \in Tenants, e \in Days : children'[u][e] > 0 => e < Day(now)
    BY <2>1 DEF RollupTenant, TypeOK, PerDay, DispatcherOK
  <2>3. \A u \in Tenants, e \in Days : rollup'[u][e] # NotYet => e < Day(now)
    BY <2>1 DEF RollupTenant, TypeOK, PerDay, DispatcherOK, RollupOfClosedDays
  <2> QED
    BY <1>1, <2>2, <2>3 DEF DispatcherOK, RollupOfClosedDays, Day, outside
<1>7. RollupNeverOvercounts'
  <2>1. \A u \in Tenants, e \in Days :
          rollup'[u][e] = rollup[u][e] \/ rollup'[u][e] = Cardinality(Entries(u, e))
    BY DEF RollupTenant, TypeOK, PerDay
  <2>2. \A u \in Tenants, e \in Days : rollup'[u][e] <= Cardinality(Entries(u, e))
    BY <2>1, EntriesCount DEF RollupNeverOvercounts
  <2> QED
    BY <1>1, <2>2, RollupFrame DEF RollupNeverOvercounts
<1> QED
  BY <1>1, <1>5, <1>6, <1>7, RollupFrame

\* The check's steps leave the ledger and the rollup alone.
LEMMA CheckFrame ==
  ASSUME DailyInv, TypeOK', UNCHANGED <<outside, ledger, rollupVars>>
  PROVE  LoggedOK' /\ DispatcherOK' /\ RollupNeverOvercounts'
<1>1. LoggedOK' /\ Charging
  BY DEF DailyInv, LoggedOK, Charging, outside
<1>2. UNCHANGED <<now, rollup>>
  BY DEF outside, rollupVars
<1> QED
  BY <1>1, <1>2, RollupQuiet, CountsQuiet

LEMMA CheckStep ==
  ASSUME DailyInv, Checks \/ CheckFail
  PROVE  DailyInv'
<1> USE DEF DailyInv
<1>1. UNCHANGED <<outside, ledger, rollupVars>>
  BY DEF Checks, CheckStart, CheckLog, CheckLedger, CheckTenant, CheckThrows, CheckEnd,
         CheckFail
<1>2. UNCHANGED now /\ now \in 0..MaxTime /\ now \in Nat
  BY <1>1, BoundsAssumption DEF TypeOK, outside
<1>3. TypeOK' /\ CheckOK'
  <2>1. CASE CheckStart
    <3>1. NextFire(CheckSlot, now) \in Nat /\ NextFire(CheckSlot, now) > now
      BY <1>2, NextFireLater
    <3>2. check' \in RunType /\ check'.pc = "list" /\ check'.next = {}
      BY <2>1, IdleType DEF CheckStart, RunType, Idle
    <3>3. checkDue \in Nat /\ checkDue >= SlotsPerDay /\ now >= checkDue
      BY <2>1 DEF CheckStart, TypeOK, CheckOK
    <3>4. TypeOK'
      BY <1>1, <2>1, <3>1, <3>2 DEF CheckStart, TypeOK, outside, rollupVars
    <3> QED
      BY <1>2, <2>1, <3>1, <3>2, <3>3, <3>4 DEF CheckStart, CheckOK, GaugesOfOneCheck, SlotsPerDay
  <2>2. CASE CheckLog
    <3>1. LastClosedDay \in Days
      BY <1>2, <2>2, DayType DEF CheckLog, CheckOK, LastClosedDay
    <3>2. Logged(LastClosedDay) \subseteq Rows
      BY DEF Logged, TypeOK
    <3>3. check.next = {}
      BY <2>2 DEF CheckLog, CheckOK
    <3>4. check' \in RunType /\ check'.pc = "count" /\ check'.day \in Days /\ check'.next = {}
      BY <2>2, <3>1, <3>2, <3>3 DEF CheckLog, TypeOK, RunType
    <3>5. TypeOK'
      BY <1>1, <2>2, <3>4 DEF CheckLog, TypeOK, outside, rollupVars
    <3> QED
      BY <1>2, <2>2, <3>4, <3>5 DEF CheckLog, CheckOK, GaugesOfOneCheck
  <2>3. CASE CheckLedger
    <3>1. check.day \in Days
      BY <2>3 DEF CheckLedger, CheckOK
    <3>2. [t \in Tenants |-> Cardinality(Entries(t, check.day))] \in [Tenants -> 0..Cardinality(Rows)]
      BY <3>1, EntriesCount
    <3>3. /\ check' \in RunType /\ check'.pc = "loop"
          /\ check'.day = check.day /\ check'.next = check.next
      BY <2>3, <3>2 DEF CheckLedger, TypeOK, RunType
    <3>4. TypeOK'
      BY <1>1, <2>3, <3>3 DEF CheckLedger, TypeOK, outside, rollupVars
    <3> QED
      BY <1>2, <2>3, <3>1, <3>3, <3>4 DEF CheckLedger, CheckOK, GaugesOfOneCheck
  <2>4. ASSUME NEW t \in Tenants, CheckTenant(t) PROVE TypeOK' /\ CheckOK'
    <3>1. check.day \in Days
      BY <2>4 DEF CheckTenant, CheckOK
    <3>2. /\ check' \in RunType /\ check'.pc = "loop" /\ check'.day = check.day
          /\ check'.next = check.next \cup {<<t, check.day>>}
      <4> DEFINE next == check.next \cup {<<t, check.day>>}
      <4>1. <<t, check.day>> \in Tenants \X Days
        BY <3>1
      <4>2. check \in RunType /\ check.next \subseteq Tenants \X Days
        BY DEF TypeOK, RunType
      <4>3. next \in SUBSET (Tenants \X Days)
        BY <4>1, <4>2
      <4>4. /\ check' = [check EXCEPT !.todo = @ \ {t}, !.next = next]
            /\ check.pc = "loop"
        BY <2>4 DEF CheckTenant
      <4> HIDE DEF next
      <4>5. /\ check' \in RunType /\ check'.pc = "loop" /\ check'.day = check.day
            /\ check'.next = next
        BY <4>2, <4>3, <4>4 DEF RunType
      <4> QED
        BY <4>5 DEF next
    <3>4. TypeOK'
      BY <1>1, <2>4, <3>2 DEF CheckTenant, TypeOK, outside, rollupVars
    <3> QED
      BY <1>2, <2>4, <3>1, <3>2, <3>4 DEF CheckTenant, CheckOK, GaugesOfOneCheck
  <2>5. CASE CheckEnd
    <3>1. check.next \subseteq Tenants \X Days
      BY DEF TypeOK, RunType
    <3>2. check' \in RunType /\ check'.pc = "idle" /\ check'.next = {}
      BY <2>5, IdleType DEF CheckEnd, Idle
    <3>3. TypeOK'
      BY <1>1, <2>5, <3>1, <3>2 DEF CheckEnd, TypeOK, outside, rollupVars
    <3> QED
      BY <1>2, <2>5, <3>2, <3>3 DEF CheckEnd, CheckOK, GaugesOfOneCheck
  <2>7. CASE CheckThrows
    <3>1. check' \in RunType /\ check'.pc \in {"idle", "list"} /\ check'.next = {}
      BY <2>7, RetriedType DEF CheckThrows, TypeOK
    <3>2. now >= SlotsPerDay
      BY <2>7 DEF CheckThrows, CheckOK
    <3>4. TypeOK'
      BY <1>1, <2>7, <3>1 DEF CheckThrows, TypeOK, outside, rollupVars
    <3> QED
      BY <1>2, <2>7, <3>1, <3>2, <3>4 DEF CheckThrows, CheckOK, GaugesOfOneCheck
  <2>6. CASE CheckFail
    <3>1. check' \in RunType /\ check'.pc \in {"idle", "list"} /\ check'.next = {}
      BY <2>6, RetriedType DEF CheckFail, TypeOK
    <3>2. now >= SlotsPerDay
      BY <2>6 DEF CheckFail, CheckOK
    <3>3. fails' \in 0..MaxFails
      BY <2>6, BoundsAssumption DEF CheckFail, TypeOK
    <3>4. TypeOK'
      BY <1>1, <2>6, <3>1, <3>3 DEF CheckFail, TypeOK, outside, rollupVars
    <3> QED
      BY <1>2, <2>6, <3>1, <3>2, <3>4 DEF CheckFail, CheckOK, GaugesOfOneCheck
  <2> QED
    BY <2>1, <2>2, <2>3, <2>4, <2>5, <2>6, <2>7 DEF Checks
<1> QED
  BY <1>1, <1>3, CheckFrame

LEMMA InvStep == DailyInv /\ [Next]_vars => DailyInv'
<1> SUFFICES ASSUME DailyInv, [Next]_vars PROVE DailyInv'
  OBVIOUS
<1>1. CASE UNCHANGED vars
  <2>1. /\ UNCHANGED <<outside, ledger, rollupVars, checkVars>>
        /\ TypeOK'
    BY <1>1 DEF vars, outside, rollupVars, checkVars, DailyInv, TypeOK
  <2>2. CheckOK'
    BY <2>1, RollupFrame
  <2> QED
    BY <2>1, <2>2, CheckFrame DEF DailyInv
<1>2. CASE Horizon
  BY <1>1, <1>2 DEF Horizon
<1>3. CASE Clock
  BY <1>3, ClockStep
<1>4. ASSUME NEW r \in Rows, Serve(r) \/ Log(r) \/ HotCharge(r) \/ TickCharge(r)
      PROVE  DailyInv'
  BY <1>4, WriterStep
<1>5. CASE Rollups \/ DispatchFail
  BY <1>5, DispatchStep DEF Rollups
<1>6. CASE Checks \/ CheckFail
  BY <1>6, CheckStep
<1>7. ASSUME NEW t \in Tenants, NEW d \in Days,
             \/ RollupTenant(t, d) \/ OperatorRepair(t, d)
             \/ Repair(t, d) \/ RepairFail(t, d)
      PROVE  DailyInv'
  BY <1>7, ChildStep, RepairStep
<1> QED
  BY <1>1, <1>2, <1>3, <1>4, <1>5, <1>6, <1>7 DEF Next

-----------------------------------------------------------------------------
\* The theorems.

\* Every reachable state of the daily jobs satisfies the invariant.
THEOREM DailyCorrect == Spec => []DailyInv
<1> QED
  BY InvInit, InvStep, PTL DEF Spec

\* Every variable of the daily jobs keeps its shape.
THEOREM DailyTypeCorrect == Spec => []TypeOK
<1>1. DailyInv => TypeOK
  BY DEF DailyInv
<1> QED
  BY <1>1, DailyCorrect, PTL

\* No rollup counts more than the ledger holds, however late its child job
\* runs, however often it is enqueued, and whatever is charged beside it.
THEOREM RollupCountCorrect == Spec => []RollupNeverOvercounts
<1>1. DailyInv => RollupNeverOvercounts
  BY DEF DailyInv
<1> QED
  BY <1>1, DailyCorrect, PTL

\* No rollup is made of an open day, however late a dispatcher or a child runs.
THEOREM RollupDayCorrect == Spec => []RollupOfClosedDays
<1>1. DailyInv => RollupOfClosedDays
  BY DEF DailyInv, DispatcherOK
<1> QED
  BY <1>1, DailyCorrect, PTL

\* The gauges never report two checks at once, whatever checks fail half-way or
\* are retried on the next day.
THEOREM GaugesCorrect == Spec => []GaugesOfOneCheck
<1>1. DailyInv => GaugesOfOneCheck
  BY DEF DailyInv, CheckOK
<1> QED
  BY <1>1, DailyCorrect, PTL
====

\* Two replicas of the tick, a backfill and the hot path write the ledger over two days.
SPECIFICATION Spec
CONSTANTS
  r1 = r1  r2 = r2  r3 = r3
  q1 = q1  q2 = q2  q3 = q3
  alice = alice  bob = bob  acme = acme  globex = globex
  w1 = w1  w2 = w2  b1 = b1
  Rows = {r1, r2}
  Rids = {q1, q2}
  Users = {alice, bob}
  Tenants = {acme, globex}
  LiveWorkers = {w1, w2}
  Backfillers = {b1}
  ridOf <- MCOwnRid
  owner <- MCOwner
  home <- MCHome
  DayLength = 2
  Billable = {r1, r2}
  Malformed = {}
  BatchSize = 1
  HoldWindow = 1
  Lookback = 1
  Windows <- MCFirstHalf
  MaxLag = 1
  MaxTime = 2
  ArriveBy = 2
  MaxFails = 0
  DistinctStarts = FALSE
  NoUser = NoUser  BadUser = BadUser  NoTenant = NoTenant
INVARIANTS HoldRespected BackfillCoversWindow
PROPERTIES WatermarkForward LedgerSpec
SYMMETRY MCSymmetry

\* One worker replica: late rows, missing users, a malformed row, failing runs.
SPECIFICATION FairSpec
CONSTANTS
  r1 = r1  r2 = r2  r3 = r3
  q1 = q1  q2 = q2  q3 = q3
  alice = alice  bob = bob  acme = acme  globex = globex
  w1 = w1  w2 = w2  b1 = b1
  Rows = {r1, r2, r3}
  Rids = {q1, q2, q3}
  Users = {alice, bob}
  Tenants = {acme, globex}
  LiveWorkers = {w1}
  Backfillers = {}
  ridOf <- MCOwnRid
  owner <- MCOwner
  home <- MCHome
  DayLength = 9
  Billable = {r1}
  Malformed = {r3}
  BatchSize = 2
  HoldWindow = 2
  Lookback = 1
  Windows <- MCWindows
  MaxLag = 1
  MaxTime = 4
  ArriveBy = 2
  MaxFails = 1
  DistinctStarts = TRUE
  NoUser = NoUser  BadUser = BadUser  NoTenant = NoTenant
INVARIANTS HoldRespected
PROPERTIES MissedRowBilled

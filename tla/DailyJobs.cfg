\* Two tenants and a row of another client; retried dispatchers and checks.
SPECIFICATION FairSpec
CONSTANTS
  a = a  b = b  x = x
  acme = acme  globex = globex
  Nobody = Nobody  Malformed = Malformed
  Rows = {a, b, x}
  Tenants = {acme, globex}
  tenant <- MCTenant
  Cheap = {a, b, x}
  Attempts = 2
  Prompt = TRUE
  DriftParts = 200
  MinTime = 2
  MaxTime = 8
  LastRequest = 3
  MaxFails = 1
  MaxByHand = 1
  MaxChildren = 2
INVARIANTS RollupNeverOvercounts GaugesOfOneCheck
PROPERTIES EveryDayRolledUp

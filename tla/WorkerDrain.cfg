\* A backfill and an email job on two connections, two failures, a shutdown.
SPECIFICATION FairSpec
CONSTANTS
  rollup = rollup  email = email  tick = tick  backfill = backfill
  acme = acme  globex = globex
  Jobs = {email, backfill}
  Conns = {c1, c2}
  NoConn = NoConn
  Tenants = {acme, globex}
  NoTenant = NoTenant
  kind <- MCKind
  tenantOf <- MCTenantOf
  Attempts = 2
  SingleRole = {TRUE, FALSE}
  Mailers = {"set", "unset", "waived"}
  MaxFails = 2
INVARIANTS OwnClaimSingleRole CleanExitDrained DoneIsSent
PROPERTIES ShutdownEnds

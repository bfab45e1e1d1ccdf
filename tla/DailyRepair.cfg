\* A costly request; no attempt fails by chance and no operator steps in.
SPECIFICATION FairSpec
CONSTANTS
  a = a  b = b  x = x
  acme = acme  globex = globex
  Nobody = Nobody  Malformed = Malformed
  Rows = {a}
  Tenants = {acme}
  tenant <- MCTenant
  Cheap = {}
  Attempts = 2
  Prompt = TRUE
  DriftParts = 200
  MinTime = 2
  MaxTime = 5
  LastRequest = 2
  MaxFails = 0
  MaxByHand = 0
  MaxChildren = 2
PROPERTIES DriftRepaired

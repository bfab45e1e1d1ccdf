\* Two requests with the token, two users who sign up themselves, two failures, one crash.
SPECIFICATION Spec
CONSTANTS
  Requests = {r1, r2}
  Ids = {u1, u2, u3, u4}
  Emails = {a, b}
  NoId = NoId
  NoEmail = NoEmail
  MaxFails = 2
  MaxCrashes = 1
INVARIANTS CompletedHasAdmin OneAdmin
PROPERTIES SetupLock
SYMMETRY MCSymmetry
CHECK_DEADLOCK FALSE

\* The block policy: blocked writers return.  After a restart the policy may be
\* another one.
CONSTANTS
  Items = {i1, i2}
  Ids = {d1, d2}
  Callers = {f1}
  Capacity = 1
  Policies = {"block", "raise"}
  Lane = "events"
  Reinit = FALSE
  Nil = Nil
  Free = Free
  Loader = Loader
SPECIFICATION FairSpec
PROPERTY BlockedReturns

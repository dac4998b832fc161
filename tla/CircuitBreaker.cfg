\* Four concurrent callers, a late outcome at any time.
CONSTANTS
  Callers = {c1, c2, c3, c4}
  FailureThreshold = 3
  RecoveryTimeout = 3
  MaxCount = 5
  Never = Never
SPECIFICATION FairSpec
INVARIANT IInv
PROPERTIES
  FailFast
  Reopens

\* A batch that may be split down to single items, and a status report or a
\* rules fetch, share the limiter and the breaker.
CONSTANTS
  Callers = {b1, r1}
  Kinds <- Shared
  MaxBatch = 3
  RetryAttempts = 1
  MaxDelay = 2
  RetryAfters = {2}
  MaxRetryAfter = 2
  MaxCalls = 1
  Window = 2
  FailureThreshold = 1
  RecoveryTimeout = 1
  MaxCount = 1
  Never = Never
  b1 = b1
  r1 = r1
SPECIFICATION FairSpec
INVARIANTS
  IInv
  TrueMeansSettled
  FalseMeansTrouble
  WindowBound
  RetryAfterSuffices
PROPERTIES
  SentOnce
  RunsDown
  BreakerSpec
  SendReturns

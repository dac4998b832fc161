\* Three threads: two in the constructor or in stop() and one that calls.
\* The program really may stop: once the loop has ended, or in a fork's child,
\* every thread may wait for ever.
CONSTANTS
  Threads = {t1, t2, t3}
  NoLoop = NoLoop
  Forking = TRUE
SPECIFICATION FairSpec
CHECK_DEADLOCK FALSE
INVARIANT NobodyStranded
PROPERTIES
  Answered
  StopReturns

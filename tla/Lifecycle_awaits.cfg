\* A flush is spawned while stop_auto_flush gathers.
CONSTANTS
  Workers = {w1, w2}
  Callers = {s1}
  Flushers = {}
  FlushLoops = {c1}
  MaxConcurrent = 1
  Overlapping = FALSE
SPECIFICATION Spec
INVARIANT StopAwaitsFlushes

\* Two calls of stop() at once, or one beside the application's own flush_buffer(),
\* a start() in between; two watermark flushes, one
\* permit.  A third flush loop would need two starts within one turn of a loop.
CONSTANTS
  Workers = {w1, w2}
  Callers = {s1, s2}
  Flushers = {s2}
  FlushLoops = {c1, c2}
  MaxConcurrent = 1
  Overlapping = TRUE
SPECIFICATION FairSpec
INVARIANTS
  IInv
  CapRespected
  RunningFlushes
  ClientClosed
PROPERTIES
  NoLateFlush
  StopReturns

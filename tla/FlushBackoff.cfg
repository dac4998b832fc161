\* Two concurrent flushes, delays of 2, 4 and 5, then the overflow (at a power of
\* 3 here, of 1024 in CPython, in both cases past the cap); a lane recovers.
CONSTANTS
  Flushers = {f1, f2}
  FlushInterval = 2
  MaxBackoff = 5
  MaxExponent = 2
  MaxStreak = 3
SPECIFICATION FairSpec
INVARIANTS
  TypeOK
  BackoffFitsStreak
PROPERTY Drained

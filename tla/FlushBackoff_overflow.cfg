\* The exponent of the backoff overflows (at 3 here, at 1024 in CPython).
CONSTANTS
  Flushers = {f1}
  FlushInterval = 1
  MaxBackoff = 2
  MaxExponent = 2
  MaxStreak = 4
SPECIFICATION Spec
PROPERTY FailureBacksOff

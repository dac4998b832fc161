\* The rules loop and an application call; rules that are never cached and
\* rules that outlive a slow answer.
CONSTANTS
  Callers = {loop, call}
  RulesLoop = loop
  Ttls = {0, 2}
  MaxVersion = 3
  MaxAge = 3
SPECIFICATION FairSpec
INVARIANT WithinTtl
PROPERTY Converges

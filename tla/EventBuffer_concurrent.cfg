\* Two flushes in flight at once, writers that wait for space, and Redis attached
\* more than once.
CONSTANTS
  Items = {i1, i2}
  Ids = {d1, d2}
  Callers = {f1, f2}
  Capacity = 1
  Policies = {"block"}
  Lane = "metrics"
  Reinit = TRUE
  Nil = Nil
  Free = Free
  Loader = Loader
SPECIFICATION Spec
SYMMETRY Sym
INVARIANTS
  IInv
  Accounted

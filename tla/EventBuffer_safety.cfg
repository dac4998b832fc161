\* One flush at a time, under the policy that evicts.
CONSTANTS
  Items = {i1, i2, i3}
  Ids = {d1, d2, d3}
  Callers = {f1}
  Capacity = 2
  Policies = {"drop"}
  Lane = "events"
  Reinit = FALSE
  Nil = Nil
  Free = Free
  Loader = Loader
SPECIFICATION Spec
SYMMETRY Sym
INVARIANTS
  IInv
  KeyMapExact
  Durable
  Accounted
  NoTwin
PROPERTIES
  OrderKept
  QueueSpec

\* A server, its child and the child's child, or two children; two ids are
\* made up at most.  The program really may stop: all processes have ended.
CONSTANTS
  Procs = {p1, p2, p3}
  NoProc = NoProc
  Ids = {i1, i2}
  NoId = NoId
SYMMETRY Symmetry
SPECIFICATION Spec
CHECK_DEADLOCK FALSE
INVARIANTS
  TypeOK
  Agreed
  OwnAgent
PROPERTY SocketPrivate

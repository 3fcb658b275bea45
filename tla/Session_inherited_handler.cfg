CONSTANTS
  Pid = {p1, p2, p3, p4, p5}
  NoPid = NoPid
  Binary <- BinaryOne
  BrokerCount = 1
  MaxBroker = 1
  MaxConns = 1
  HasCoApp = FALSE
  HasScript = FALSE
  Env = {}
SPECIFICATION Spec
SYMMETRY PidSymmetry
CHECK_DEADLOCK FALSE
PROPERTIES
  TermBeforeKill

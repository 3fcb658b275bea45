CONSTANTS
  Pid = {p1, p2, p3, p4, p5}
  NoPid = NoPid
  Binary <- BinaryOne
  BrokerCount = 0
  MaxBroker = 1
  MaxConns = 0
  HasCoApp = FALSE
  HasScript = TRUE
  Env = {"fail"}
SPECIFICATION Spec
SYMMETRY PidSymmetry
CHECK_DEADLOCK FALSE
INVARIANTS
  ExitLeavesNothing

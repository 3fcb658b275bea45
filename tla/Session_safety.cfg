CONSTANTS
  Pid = {p1, p2, p3, p4, p5}
  NoPid = NoPid
  Binary <- BinaryPair
  BrokerCount = 1
  MaxBroker = 1
  MaxConns = 2
  HasCoApp = FALSE
  HasScript = TRUE
  Env = {"signal", "recycle", "unlink", "fail", "crash"}
SPECIFICATION Spec
SYMMETRY PidSymmetry
CHECK_DEADLOCK FALSE
INVARIANTS
  TypeOK
  Accounted
  ReturnLeavesNothing
  SignalLeavesOnlyFresh
  WsTermedLast
  PidsSafeUntilReaped

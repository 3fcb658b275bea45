SPECIFICATION Spec
CONSTANTS
  Modes = {"expect"}
  MaxFrame = 2
  Content <- Shown
  Golden <- Wanted
  Tolerance = 16
  MaxDiff = 250
  Fuzz = 24
  MinContent = 250
  PipeSize = 2
  Polls = 3
  MaxProbes = 0
  MayCrash = FALSE
INVARIANTS ReadFailureReported
CHECK_DEADLOCK FALSE

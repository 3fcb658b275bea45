SPECIFICATION Spec
CONSTANTS
  Modes = {"plain", "golden", "expect"}
  MaxFrame = 3
  Content <- Shown
  Golden <- Wanted
  Tolerance = 16
  MaxDiff = 250
  Fuzz = 24
  MinContent = 250
  PipeSize = 1
  Polls = 3
  MaxProbes = 2
  MayCrash = TRUE
INVARIANTS TypeOK OkMeansShown ShotAfterRequest
PROPERTIES VerdictReached ImplementsShotService
CHECK_DEADLOCK FALSE

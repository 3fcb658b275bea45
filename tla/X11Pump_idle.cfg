SPECIFICATION Spec
CONSTANTS
  MaxEvents = 2
  ConnSize = 2
  PipeSize = 2
  Chunk = 2
  MaxRects = 1
  FlushReads = TRUE
PROPERTIES NudgedPeriodically

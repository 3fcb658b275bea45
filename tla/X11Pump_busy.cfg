SPECIFICATION SpecRendering
CONSTANTS
  MaxEvents = 3
  ConnSize = 2
  PipeSize = 2
  Chunk = 2
  MaxRects = 2
  FlushReads = TRUE
INVARIANTS TypeOK NothingLost ExposeInFlight
PROPERTIES Repainted NudgerReturns ImplementsChannel

SPECIFICATION Spec
CONSTANTS
  MaxFd = 13
  Starts <- OpenAtStart
  Binary <- Programs
  Brokers = 1
  Apps = 2
  MaxConns = 1
  Modes <- Resolutions
  Formats <- Servers
  Rects <- Updates
  Colors = {"black", "white"}
  Strides <- Pitches
  Pids = {1, 2, 3}
  Batch = 2
  MaxBirths = 1
  PageCounts <- Counts
  Word = 8
CONSTRAINT OnePartAtATime
INVARIANTS TypeOK TakeoverRight ConnectionClosesWithService SysDataRight StoreBacksFramebuffer ShownAsDrawn
CHECK_DEADLOCK FALSE

SPECIFICATION Spec
CONSTANT Streams = {s1, s2, s3}
INVARIANTS TypeOK NoWriteAfterFree NoLostWakeup StreamsKept
PROPERTIES StreamsHeard DestructorReturns
CHECK_DEADLOCK FALSE

SPECIFICATION Spec
CONSTANTS
  Width = 7
  Wire = 65535
  Key = {"A", "B"}
  Scripts <- MCScripts
  FifoSize = 3
INVARIANTS TypeOK GesturesArrive NothingStaysHeld
PROPERTIES ScriptArrives ReplayEnds
CHECK_DEADLOCK FALSE

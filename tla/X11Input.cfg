SPECIFICATION Spec
CONSTANTS
  Width = 5
  Wire = 65535
  Buttons = {1, 3, 4, 5, 6}
  Keys = {"letter", "digit", "left"}
  Modifiers = {"shift", "ctrl", "super"}
  Listed = {"left", "shift", "ctrl"}
  Chars <- Keyboard
  Code <- KeyCodes
  MaxWheel = 1
  PointerX <- ScreenEdges
CONSTRAINT FewClicksWhileTyping
INVARIANTS TypeOK ButtonsMirrored CursorMirrored WheelOnce KeyboardMirrored

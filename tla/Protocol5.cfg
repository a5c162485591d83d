CONSTANTS
  pen = pen
  eraser = eraser
  airbrush = airbrush
  mouse = mouse
  NoTool = NoTool
  Tool = {pen, eraser, airbrush, mouse}
  Kind <- MCKind
  Generic <- MCGeneric
  LossyUsb = TRUE
  PkgLen = 3
  MaxPackets = 6
SPECIFICATION Spec
INVARIANTS RightTool KeepsUp OnePacket
PROPERTIES ImplementsDriver
CHECK_DEADLOCK FALSE

CONSTANTS
  pen = pen
  eraser = eraser
  airbrush = airbrush
  mouse = mouse
  lens = lens
  NoTool = NoTool
  Tool = {pen, eraser, airbrush, mouse, lens}
  Kind <- MCKind
  Generic <- MCGeneric
  LossyUsb = TRUE
SPECIFICATION ButtonSpec
INVARIANTS PenIsSeen

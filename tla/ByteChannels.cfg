CONSTANTS
  x = x
  y = y
  Byte = {x, y}
  Note = x
  Pad = pad
  Size = 2
  Banks = 2
  FrameMod = 3
  PutTimeout <- MCPutTimeout
  FlushTimeout <- MCFlushTimeout
  NoteLen = 1
  UsartFifo = 2
  Coding = {9600, 19200, 38400}
  Packet <- MCPacket
  Setup <- MCSetup
SPECIFICATION Spec
PROPERTIES ImplementsStreams SpeedFollows
CHECK_DEADLOCK FALSE

CONSTANTS
  pen = pen
  eraser = eraser
  puck = puck
  NoTool = NoTool
  Tool = {pen, eraser, puck}
  Puck = puck
  Kind <- MCKind
  Generic <- MCGeneric
  LossyUsb = TRUE
  Word = 16
  ByteMod = 4
  Second = 2
  HeaderLen = 2
  NoScript = NoScript
  Setup <- MCSetup
  Spot <- MCSpot
  AnswerLen = 4
SPECIFICATION Spec
INVARIANTS KeepsUp
PROPERTIES NotTurnedOver Tracks PlaybackEnds
CHECK_DEADLOCK FALSE

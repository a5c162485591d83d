CONSTANTS
  AnswerLen = 20
  MaxRestarts = 2
  MaxFaults = 2
  MaxRing = 2
SPECIFICATION FairSpec
INVARIANTS At9600 SpeedsAgree
PROPERTIES Connects
CHECK_DEADLOCK FALSE

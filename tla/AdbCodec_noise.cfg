CONSTANTS
  W = 1
  MaxData = 1
  IndexMod = 3
  MaxPreempt = 1
  Noisy = TRUE
  Requests <- MCShortRequests
  Pulses <- MCPulses
  Answers <- MCNone
SPECIFICATION Spec
INVARIANTS Armed NeverDeaf

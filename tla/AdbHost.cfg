CONSTANTS
  W = 8
  MaxData = 8
  IndexMod = 256
  MaxPreempt = 1
  Noisy = FALSE
  Requests <- MCRequests
  Pulses <- MCPulses
  Answers <- MCAnswers
SPECIFICATION HostFairSpec
INVARIANTS OneCallback HeardIsRequest DataIsAnswer
PROPERTIES AlwaysAnswered ImplementsSession EndIsKept KeepsReporting

CONSTANTS
  InitCalled = {TRUE, FALSE}
  Endpoint = {2, 3}
  PenEndpoint = 3
  TouchEndpoint = 2
  ReportEndpoint = 3
  PenPacket = {p}
  Touch = touch
  Report = report
  Empty = empty
  Data = {p, touch, report, empty}
  Banks = 1
  IdleTicks = 3
  TouchFirst = 3
  TouchPeriod = 2
  ReportPeriod = 10
  Window = 3
  Radix = 4
SPECIFICATION UtilFairSpec
PROPERTIES IdleBeforeFill ReportsApart IdleIsFilled

CONSTANTS
  Scan = 1
  Keepalive = 0
  ReachMax = 3
  MonitorMax = 6
  CallMax = 3
  WriteMax = 1
  Tolerance = 3
SPECIFICATION Spec
PROPERTY NoFlap

CONSTANTS
  Scan = 2
  Keepalive = 1
  ReachMax = 2
  MonitorMax = 1
  CallMax = 1
  WriteMax = 1
  Tolerance = 1
SPECIFICATION Spec
INVARIANTS
  TypeOK
  RefusalJustified
  PassJustified
  ShownRecent
  AvailabilityBounded
PROPERTIES
  ScheduledPollAsks

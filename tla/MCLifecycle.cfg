CONSTANTS
  c1 = c1
  c2 = c2
  None = None
  Unset = Unset
  Unparseable = Unparseable
  Half = 32
  Milli = 4
  DefaultTimeout = 1
  DefaultTTL = 2
  DefaultBody = 5
  ReadHeaderTimeout = 2
  ReadTimeout = 3
  ShutdownTimeout = 2
  MaxTime = 7
  Calls = {1, 3}
  Waits = {0, 2}
  Conn <- MCConn
  Configs <- MCConfigs
SPECIFICATION FairSpec
INVARIANTS
  TypeOK
  ExitTellsTheTruth
  OnlySlowRequestsCut
  LimitsAsConfigured
PROPERTIES
  Stops
CHECK_DEADLOCK FALSE

SPECIFICATION RprocSpec
CONSTANTS
  Users = {u1, u2}
  MaxPower = 2
  MaxReports = 1
PROPERTY RemovalStopsCrashed
CHECK_DEADLOCK FALSE

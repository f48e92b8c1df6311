SPECIFICATION RprocSpec
CONSTANTS
  Users = {u1, u2}
  MaxPower = 2
  MaxReports = 2
INVARIANTS
    RprocInv RemovalInv RemovedClean
PROPERTIES
    NothingTouchesDeleted RemovalEnds
CHECK_DEADLOCK FALSE

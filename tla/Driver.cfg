SPECIFICATION DriverSpec
CONSTANTS
  Processes = {p1, p2, p3}
INVARIANTS
  SuccessIsFresh
  OnlyAcceptedReachDisk
  LeftoversAreNeverLinked
CHECK_DEADLOCK FALSE
SYMMETRY Symmetric

SPECIFICATION FairSpec
CONSTANTS
  MaxProcs = 2
  MaxFailures = 1
  MaxKeys = 2
  Commands = {"start", "stop", "restart", "attest"}
  Careful = FALSE
CHECK_DEADLOCK FALSE
INVARIANTS LifecycleTypeOK
PROPERTIES StartSettles OrphansEnd

SPECIFICATION Spec
CONSTANTS
  a1 = a1
  Thread = {t1, t2}
  App = {a1}
  Deployed <- OneApp
  LastDeployed = 1
  None = None
  Kind = {"update", "rollback"}
  DiskFails = FALSE
  MaxDigest = 2
  MaxId = 9
  MaxOps = 2
  MaxFaults = 2
  MaxCrashes = 0
PROPERTIES
  RollbackReachesTarget

SPECIFICATION FairSpec
CONSTANTS
  a1 = a1
  Thread = {t1, t2}
  App = {a1}
  Deployed <- OneApp
  LastDeployed = 1
  None = None
  Kind = {"update", "blueGreen", "rollback", "rollbackTo", "delete", "power"}
  DiskFails = TRUE
  MaxDigest = 2
  MaxId = 9
  MaxOps = 2
  MaxFaults = 1
  MaxCrashes = 1
PROPERTIES
  OperationsReturn
  RecoveryEnds

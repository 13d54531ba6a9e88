SPECIFICATION Spec
CONSTANTS
  a1 = a1
  Thread = {t1, t2}
  App = {a1}
  Deployed <- OneApp
  LastDeployed = 1
  None = None
  Kind = {"update"}
  DiskFails = FALSE
  MaxDigest = 3
  MaxId = 9
  MaxOps = 3
  MaxFaults = 0
  MaxCrashes = 1
PROPERTIES
  RecoversLatestSnapshot

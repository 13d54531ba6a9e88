SPECIFICATION Spec
CONSTANTS
  a1 = a1
  Thread = {t1, t2}
  App = {a1}
  Deployed <- OneApp
  LastDeployed = 1
  None = None
  Kind = {"update", "blueGreen"}
  DiskFails = FALSE
  MaxDigest = 2
  MaxId = 14
  MaxOps = 3
  MaxFaults = 2
  MaxCrashes = 2
SYMMETRY ThreadSymmetry
INVARIANTS
  ExclusiveReplacement
  SingleFaultKeepsService
  SettlesUnderOwnName
PROPERTIES
  RemovalIsRecoverable
  BlueGreenNeverDark
  FailedUpdateKeepsVersion

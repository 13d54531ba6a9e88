SPECIFICATION HubOrBatcherSpec
CONSTANTS
  a1 = a1
  Agent = {a1}
  Socket = {c1, c2}
  Owner <- OneAgent
  Chain = {k1, k2}
  MaxMessages = 1
  MaxOffline = 1
  MaxOwed = 0
  MaxRoutes = 0
  MaxDbFaults = 1
  None = None
  r1 = r1
  Reporter = {r1}
  Container = {d1}
  OwnerOf <- OneReporter
  UpdateOutcome = {good, bad}
  FailedOutcome = {bad}
  Channel = {ch1}
  MaxLogFaults = 1
  NoBatch = NoBatch
PROPERTIES
  DeadConnectionSwept
  ConnectedTurnsOnline
  OutcomeReported

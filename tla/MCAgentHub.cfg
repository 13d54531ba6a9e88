SPECIFICATION FaultOrRouteSpec
CONSTANTS
  a1 = a1
  Agent = {a1}
  Socket = {c1, c2}
  Owner <- OneAgent
  Chain = {k1, k2}
  MaxMessages = 2
  MaxOffline = 1
  MaxOwed = 1
  MaxRoutes = 1
  MaxDbFaults = 1
  None = None
SYMMETRY SocketsAndChains
INVARIANTS
  CurrentConnectionInOrder
  MarkNotLeftOver

CONSTANTS
  a1 = a1
  a2 = a2
  Agents <- AgentList
  Legacy = {a2}
  PruneRequest = {p1, p2}
  Question = {q1}
  RunId = {u1, u2}
  MaxOutbox = 1
  Stale = Stale
  None = None
SPECIFICATION RunOrQuestionSpec
SYMMETRY PruneSymmetry
INVARIANTS
  PruneTypeOK
  MarkedByOnePrune
  OutcomeOfOwnRequest
  RunAwaitsItsRequest

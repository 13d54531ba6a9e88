--------------------------- MODULE MCPruneService ---------------------------
(* PruneService on a small instance.                                       *)
EXTENDS PruneService, TLC

CONSTANTS a1, a2

AgentList == <<a1, a2>>
PruneSymmetry == Permutations(PruneRequest) \cup Permutations(RunId)

\* Bound: a run and a request that is not a prune are not under way at a time.
RunOrQuestion ==
  \/ \A q \in Question : request[q].state = "free"
  \/ \A i \in RunId : runs[i].pc \in {"free", "complete"}

RunOrQuestionSpec == PruneInit /\ [][PruneNext /\ RunOrQuestion']_pruneVars
=============================================================================

----------------------------- MODULE MCAgentHub -----------------------------
(* Instances of AgentHub for TLC: every socket is one agent's, so sockets   *)
(* and chains can be permuted where no liveness is checked.                 *)
EXTENDS AgentHub, TLC

CONSTANT a1

OneAgent == [c \in Socket |-> a1]
SocketsAndChains == Permutations(Socket) \cup Permutations(Chain)

\* Bound: no query fails once the update route has marked an agent, until it returns, and
\* the route marks none after one has failed.
FaultsOrRoutes == dbFaults = 0 \/ \A a \in Agent : routes[a] = 0

FaultOrRouteSpec == Init /\ [][Next /\ FaultsOrRoutes']_vars
=============================================================================

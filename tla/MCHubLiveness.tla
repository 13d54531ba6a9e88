--------------------------- MODULE MCHubLiveness ---------------------------
(* What the hub and the batches of its notifications must come to. They share no *)
(* state that is modelled: part is the one a behaviour is of, the other stays  *)
(* as it begins. No symmetry: the run checks liveness.                      *)
EXTENDS MCAgentHub, SessionBatcher

CONSTANTS r1

VARIABLE part

OneReporter == [c \in Container |-> r1]

HubOrBatcherInit == part \in {"hub", "batcher"} /\ Init /\ BatcherInit

HubOrBatcherNext ==
  \/ part = "hub" /\ Next /\ UNCHANGED <<part, batcherVars>>
  \/ part = "batcher" /\ BatcherNext /\ UNCHANGED <<part, vars>>

HubOrBatcherSpec ==
  /\ HubOrBatcherInit /\ [][HubOrBatcherNext]_<<part, vars, batcherVars>>
  /\ Fairness /\ BatcherFairness
=============================================================================

--------------------------- MODULE MCContainerRows ---------------------------
(* One container that no label speaks of, and a policy for it in the UI.    *)
EXTENDS ContainerRows

CONSTANTS i1

FirstIds == [s \in Service |-> i1]
Version100 == <<1, 0, 0>>
NoLabels == {NoSettings}
Manual == {[policy |-> "manual", level |-> Unset]}
=============================================================================

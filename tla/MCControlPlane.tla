--------------------------- MODULE MCControlPlane ---------------------------
EXTENDS ControlPlane

MCTokenTenants == [ta |-> "a", tb |-> "b", none |-> ""]
MCTokenPrincipals == [ta |-> "alice", tb |-> "", none |-> "carol"]
MCMaxRequests ==
  [s \in Services |-> CASE s = "policy" -> 4 [] s = "query" -> 2 [] s = "workflow" -> 0 [] OTHER -> 3]
MCInstants == [s \in Services |-> IF s \in {"policy", "workflow"} THEN {1} ELSE {1, 3}]
=============================================================================

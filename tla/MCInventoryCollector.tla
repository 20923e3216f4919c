------------------------ MODULE MCInventoryCollector ------------------------
(* Instance of InventoryCollector for TLC: a namespace and a pod in it, with *)
(* one container that may come and go.                                       *)
EXTENDS InventoryCollector

CONSTANTS ns, pod

MCKindOf == [o \in {ns, pod} |-> IF o = ns THEN "namespace" ELSE "pod"]
MCNamespaceOf == [o \in {ns, pod} |-> IF o = ns THEN NoUID ELSE ns]
=============================================================================

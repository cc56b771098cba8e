---------------------------- MODULE MCTokenChain ----------------------------
(* A small instance of TokenChain.                                           *)
EXTENDS TokenChain

SetupBudget == [k \in Kinds |-> IF k \in {"fault", "reject"} THEN 1 ELSE 0]
DaemonKinds == {"fault", "crash", "change", "term"}
SidecarBudget == [k \in DaemonKinds |-> IF k = "crash" THEN 1 ELSE 0]

=============================================================================

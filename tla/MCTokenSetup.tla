---------------------------- MODULE MCTokenSetup ----------------------------
(* Small instances of TokenSetup.                                            *)
EXTENDS TokenSetup

Budget(f, j, k) == [x \in Kinds |-> CASE x = "fault"  -> f
                                      [] x = "reject" -> j
                                      [] x = "kill"   -> k]
SetupBudget == Budget(2, 1, 1)

=============================================================================

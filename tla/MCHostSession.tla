--------------------------- MODULE MCHostSession ---------------------------
(* Small instances of HostSession.                                           *)
EXTENDS HostSession

Budget(f, e, s, d, w) == [x \in Kinds |-> CASE x = "fault"   -> f
                                            [] x = "expire"  -> e
                                            [] x = "rotate"  -> s
                                            [] x = "drop"    -> d
                                            [] x = "restart" -> w]
SessionBudget == Budget(1, 2, 1, 1, 1)

=============================================================================

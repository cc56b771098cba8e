------------------------- MODULE MCServiceDiscovery -------------------------
(* Small instances of ServiceDiscovery: two lists, the error page a refused  *)
(* token gets, two tokens.                                                   *)
EXTENDS ServiceDiscovery

Budget(f, c, ch, t) == [k \in Kinds |-> CASE k = "fault"  -> f
                                          [] k = "crash"  -> c
                                          [] k = "change" -> ch
                                          [] k = "term"   -> t]
FaultBudget == Budget(2, 2, 2, 1)
OneChange == Budget(0, 0, 1, 0)
=============================================================================

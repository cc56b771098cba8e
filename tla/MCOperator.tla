----------------------------- MODULE MCOperator -----------------------------
(* Small instances of Operator.  Cluster "A" is in upper case and collides   *)
(* with "a"; the texts add and drop clusters, change hosts and paths, list   *)
(* both colliding clusters, lack a cluster name, or cannot be parsed.        *)
EXTENDS OperatorProperties

MCLower == [c \in Clusters |-> IF c = "A" THEN "a" ELSE c]

Row(c, h, pa) == [cluster |-> c, host |-> h, port |-> 9100, path |-> pa]
MCProviders ==
    [t \in Texts |->
       CASE t = "two"  -> {Row("A", "h1", "esx"), Row("b", "h2", "vsan")}
         [] t = "grow" -> {Row("A", "h1", "vsan"), Row("A", "h3", "vsan")}
         [] t = "twin" -> {Row("A", "h1", "esx"), Row("a", "h2", "esx")}
         [] t = "anon" -> {Row("b", "h2", "vsan"), Row(NoCluster, "h3", "vsan")}
         [] OTHER      -> {}]

Budget(f, c, ch, t) == [k \in Kinds |-> CASE k = "fault"  -> f
                                          [] k = "crash"  -> c
                                          [] k = "change" -> ch
                                          [] k = "term"   -> t]
FaultBudget == Budget(1, 1, 2, 1)
CalmBudget == Budget(0, 0, 2, 0)
OneFault == Budget(1, 0, 1, 0)
OneTerm == Budget(0, 0, 1, 1)

=============================================================================

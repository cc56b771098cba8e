------------------------------ MODULE HostTable ------------------------------
(***************************************************************************)
(* What the exporter's table of connected hosts is, without threads and    *)
(* without what they hold: a set that is moved, now and then, towards the  *)
(* cluster as some request has seen it.  However requests overlap, a host  *)
(* gets in only because the cluster had it when one of them looked, and    *)
(* goes only because the cluster did not have it when one of them looked.  *)
(***************************************************************************)
CONSTANT Hosts

VARIABLES
    cluster,   \* the hosts of the cluster in vCenter
    table,     \* the hosts that are connected
    snapshots  \* what the requests that are going on were told of the cluster

hvars == <<cluster, table, snapshots>>

Init == cluster \subseteq Hosts /\ table = {} /\ snapshots = {}

Change == /\ cluster' \subseteq Hosts
          /\ UNCHANGED <<table, snapshots>>

(* Requests ask for the cluster's hosts, and forget the answer.            *)
Look == /\ snapshots' \subseteq snapshots \cup {cluster}
        /\ UNCHANGED <<cluster, table>>

Connect(s) == table \subseteq table' /\ table' \ table \subseteq s
Drop(s)    == table' \subseteq table /\ (table \ table') \cap s = {}

Move == /\ \E s \in snapshots \cup {cluster} : Connect(s) \/ Drop(s)
        /\ snapshots' \subseteq snapshots
        /\ UNCHANGED cluster

Next == Change \/ Look \/ Move
Spec == Init /\ [][Next]_hvars

=============================================================================

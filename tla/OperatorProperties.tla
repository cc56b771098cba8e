------------------------- MODULE OperatorProperties -------------------------
(* What is claimed of Operator: invariants, action properties, liveness, and *)
(* the abstract specification it implements.                                 *)
EXTENDS Operator

MainStates == {"new", "start", "query", "list", "clusters", "createEp", "delete",
               "delSvc", "createMon", "patchMon", "sleep", "gone"}
InPass == {"list", "clusters", "createEp", "delete", "delSvc", "createMon", "patchMon"}

(* The variables have their types; between two calls on one object, cur and *)
(* hcur hold what the second call is about.                                 *)
TypeOK ==
    /\ vc \in Texts \cup {None}
    /\ services \subseteq Names
    /\ endpoints \in [Names -> Endpoint \cup {Absent}]
    /\ monitors \in [MonitorNames -> (SUBSET Paths) \cup {Absent}]
    /\ pc \in [Pods -> MainStates]
    /\ hash \in [Pods -> Texts \cup {None}]
    /\ endpointDict \in [Pods -> [Names -> Endpoint \cup {Absent}]]
    /\ todo \in [Pods -> SUBSET (Clusters \cup {NoCluster})]
    /\ doomed \in [Pods -> SUBSET Names]
    /\ cur \in [Pods -> Clusters \cup Names \cup {None}]
    /\ stale \in [Pods -> BOOLEAN]
    /\ hpc \in [Pods -> {"off", "list", "delete", "delSvc", "done"}]
    /\ hdoomed \in [Pods -> SUBSET Names]
    /\ hcur \in [Pods -> Names \cup {None}]
    /\ disturbed \in [Pods -> SUBSET Everything]
    /\ spent \in [Kinds -> Nat]
    /\ \A p \in Pods :
          /\ pc[p] \in InPass => hash[p] \in Texts
          /\ pc[p] = "createEp" => cur[p] \in Clusters
          /\ pc[p] = "delSvc" => cur[p] \in Names
          /\ hpc[p] = "delSvc" => hcur[p] \in Names

(* A pass keeps what it did apart by name.  Once it is past its deletions,  *)
(* every name none of its own calls failed on and nobody else touched since *)
(* its listing is exactly as its text says: an Endpoints object for each    *)
(* advertised cluster and for no other.  A failure on one cluster never     *)
(* costs another one.  What the pass itself added has the hosts and ports   *)
(* of that cluster in that text, and a Service.                             *)
PastDeletions(p) == pc[p] \in {"createMon", "patchMon", "sleep", "query"}
Made(p, n) ==
    /\ n \in services
    /\ \E c \in ClustersOf(hash[p]) \ {NoCluster} :
          Lower[c] = n /\ endpoints[n] = NewEndpoint(hash[p], c)
Vouched(p, expected) ==
    \A n \in Names \ disturbed[p] :
       /\ endpoints[n] # Absent <=> n \in expected
       /\ endpoints[n] # Absent /\ endpointDict[p][n] = Absent => Made(p, n)
PassSynced ==
    \A p \in Pods : PastDeletions(p) => Vouched(p, ClusterNames(hash[p]))

(* A pass whose monitor call was answered leaves the monitor with the paths *)
(* of its text, until somebody else writes it.  This needs the two names of *)
(* the monitor to be one (they are by default).                             *)
MonitorSynced ==
    \A p \in Pods :
       (pc[p] \in {"sleep", "query"} /\ Monitor \notin disturbed[p] /\ Label = MonitorName)
       => monitors[Label] = ServiceMonitorEndPoints(hash[p])

(* An Endpoints object goes away only while a handler cleans up, or in the  *)
(* pass of a pod whose text does not have that cluster.                     *)
DropsOnlyObsolete ==
    [][\A n \in Names : (endpoints[n] # Absent /\ endpoints'[n] = Absent) =>
          \E p \in Pods : \/ HandlerActive(p)
                          \/ pc[p] = "delete" /\ n \notin ClusterNames(hash[p])]_vars

(* No step adds or drops a name that nobody wants added or dropped.         *)
Informed == {p \in Pods : hash[p] # None}
Target == [p \in Pods |-> IF hash[p] = None THEN {} ELSE ClusterNames(hash[p])]
Cleaning == {p \in Pods : HandlerActive(p)}
Abstract == INSTANCE Reconciler WITH
    Reconcilers <- Pods,
    informed <- Informed, target <- Target, cleaning <- Cleaning, published <- Present(endpoints)
RefinesReconciler == Abstract!Spec

(* vCenter's answer is one the daemon can act on.                           *)
Usable(t) == t \in Texts \ Unparsable /\ NoCluster \notin ClustersOf(t)
NamesMatch(t) == Present(endpoints) = ClusterNames(t)
MonitorMatches(t) == monitors[Label] = ServiceMonitorEndPoints(t)

(* Every pod that runs is asleep with the present answer as its last text,  *)
(* and none is being terminated: until vCenter's answer changes, nothing    *)
(* will.                                                                    *)
Quiescent ==
    /\ Usable(vc)
    /\ \E p \in Pods : pc[p] = "sleep"
    /\ \A p \in Pods : \/ pc[p] \in {"new", "gone"}
                       \/ pc[p] = "sleep" /\ hash[p] = vc /\ hpc[p] = "off"

(* At rest the Kubernetes objects are those of the present answer.          *)
QuiescentSynced == Quiescent => NamesMatch(vc) /\ MonitorMatches(vc)

(* ... and the addresses of each Endpoints are those of its cluster's hosts. *)
QuiescentAddresses ==
    Quiescent => \A c \in ClustersOf(vc) :
                    endpoints[Lower[c]] # Absent
                    => endpoints[Lower[c]].hosts = HostsOf(vc, c)

(* Changes of vCenter's answer and deaths of the daemon, in any order, at    *)
(* any call and in any number of pods, do no harm as long as every call was *)
(* answered and no handler ever ran: at rest the objects are those of the   *)
(* present answer.  A pod that is alone also leaves no Endpoints without    *)
(* its Service; two pods may, as one deletes the Service of the cluster     *)
(* whose Endpoints the other has just created.                              *)
Unharmed == spent["fault"] = 0 /\ spent["term"] = 0
QuietSynced ==
    (Unharmed /\ Quiescent) =>
       /\ NamesMatch(vc)
       /\ Label = MonitorName => MonitorMatches(vc)
       /\ (\E p \in Pods : Pods = {p}) => Present(endpoints) \subseteq services

(* When the handler of the only pod returns, every call of its life was     *)
(* answered and it never died, no Endpoints and no monitor is left, and the *)
(* one Service that can be left is the one the interrupted pass was between *)
(* its two calls on.                                                        *)
CleanupComplete ==
    [][\A p \in Pods : (HandlerActive(p) /\ hpc'[p] = "done" /\ pc'[p] # "gone"
                        /\ Pods = {p} /\ Label = MonitorName
                        /\ spent'["fault"] = 0 /\ spent'["crash"] = 0) =>
          /\ Present(endpoints') = {}
          /\ monitors'[Label] = Absent
          /\ services' \subseteq (IF pc[p] = "createEp" THEN {Lower[cur[p]]} ELSE
                                  IF pc[p] = "delSvc" THEN {cur[p]} ELSE {})]_vars

(* Once vCenter's answer stays the same usable one, the objects come to     *)
(* match it and stay so, however often the process died on the way, unless  *)
(* a call failed or the handler ran; and a pod that is alone does not leave *)
(* Endpoints without their Service.                                         *)
EventuallySynced ==
    \A t \in Texts : Usable(t) =>
       ((<>[](vc = t) /\ []Unharmed) =>
          <>[](/\ NamesMatch(t) /\ MonitorMatches(t)
               /\ (\E p \in Pods : Pods = {p}) => Present(endpoints) \subseteq services))

=============================================================================

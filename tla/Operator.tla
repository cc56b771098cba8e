------------------------------ MODULE Operator ------------------------------
(***************************************************************************)
(* vsan-prometheus-operator: the daemon that mirrors the clusters vCenter  *)
(* advertises into Kubernetes Services, Endpoints and one ServiceMonitor.  *)
(*                                                                         *)
(* Every API call is one step, because a SIGTERM, a crash or another pod   *)
(* can act between any two calls.  A call either succeeds, fails without   *)
(* effect, or takes effect and loses its answer; the daemon cannot tell    *)
(* the last two apart.  Several pods run the same program when the         *)
(* Deployment replaces one: the new one starts while the old one's SIGTERM *)
(* handler cleans up.                                                      *)
(***************************************************************************)
EXTENDS Naturals, FiniteSets

CONSTANTS
    Pods,        \* the pods the Deployment runs, one after or beside another
    Clusters,    \* the cluster_name labels vCenter uses
    Names,       \* Kubernetes object names
    Lower,       \* cluster.lower(), the object name a cluster gets
    NoCluster,   \* stands for the label's absence (None in the code)
    Hosts, Ports, Paths,
    Texts,       \* the bodies the discovery endpoint may serve
    Unparsable,  \* those getClusterDictFromProvider rejects
    Providers,   \* text |-> the provider records it lists
    Label,       \* LABEL: the name the ServiceMonitor is looked up by
    MonitorName, \* SERVICEMONITOR_NAME: the name it is created with
    Absent,      \* no such object
    None,        \* no text seen yet, no answer served
    Monitor,     \* the ServiceMonitor, as a member of "disturbed"
    Bound        \* how often the environment may do each of Kinds

Kinds == {"fault", "crash", "change", "term"}
Provider == [cluster : Clusters \cup {NoCluster}, host : Hosts,
             port : Ports, path : Paths]
Endpoint == [hosts : SUBSET Hosts, ports : SUBSET Ports]
MonitorNames == {Label, MonitorName}

ASSUME LowerAssumption == Lower \in [Clusters -> Names]
ASSUME TextAssumption ==
    /\ Providers \in [Texts -> SUBSET Provider]
    /\ Unparsable \subseteq Texts
    /\ NoCluster \notin Clusters
    /\ None \notin Texts
ASSUME AbsentAssumption == Absent \notin Endpoint
ASSUME MonitorAssumption == Monitor \notin Names
ASSUME BoundAssumption == Bound \in [Kinds -> Nat]

VARIABLES
    vc,           \* the body vCenter serves now, None when it serves none
    services,     \* names of the Services carrying the label
    endpoints,    \* name |-> Endpoints object carrying the label, or Absent
    monitors,     \* name |-> metrics paths of the ServiceMonitor, or Absent
    pc,           \* where the main loop of each pod stands
    hash,         \* serversList_hash: the last text a pod acted on
    endpointDict, \* what the pass listed before its first change
    todo,         \* clusters the pass has not handled
    doomed,       \* obsoleted names the pass has not deleted
    cur,          \* the cluster or the name between its two calls
    stale,        \* the monitor was written since the pass listed it
    hpc,          \* where the SIGTERM handler stands
    hdoomed,      \* names the handler has not deleted
    hcur,         \* the name between the handler's two calls
    disturbed,    \* history: what the last pass of a pod cannot vouch for
    spent         \* how often the environment did each of Kinds

store == <<services, endpoints, monitors>>
main == <<pc, hash, endpointDict, todo, doomed, cur>>
handler == <<hpc, hdoomed, hcur>>
vars == <<vc, store, main, stale, handler, disturbed, spent>>

-----------------------------------------------------------------------------
(* The text as the daemon reads it.                                        *)

ClustersOf(t) == {r.cluster : r \in Providers[t]}
HostsOf(t, c) == {r.host : r \in {x \in Providers[t] : x.cluster = c}}
PortsOf(t, c) == {r.port : r \in {x \in Providers[t] : x.cluster = c}}
ClusterNames(t) == {Lower[c] : c \in ClustersOf(t) \ {NoCluster}}
ServiceMonitorEndPoints(t) == {r.path : r \in Providers[t]}
NewEndpoint(t, c) == [hosts |-> HostsOf(t, c), ports |-> PortsOf(t, c)]

Everything == Names \cup {Monitor}
Present(table) == {n \in Names : table[n] # Absent}

(* An environment event of kind k uses up one of its Bound[k] occurrences. *)
Spend(k) == /\ spent[k] < Bound[k]
            /\ spent' = [spent EXCEPT ![k] = @ + 1]

(* A call's outcome: answered, refused without effect, or its answer lost. *)
Outcomes == {"ok", "refused", "lost"}
Pay(o) == IF o = "ok" THEN UNCHANGED spent ELSE Spend("fault")

(* History: p's call about x had outcome o.  p can no longer vouch for x   *)
(* unless the call was answered, nobody else can if it took effect.        *)
Touch(p, x, o) ==
    disturbed' = [q \in Pods |-> IF o = IF q = p THEN "ok" ELSE "refused"
                                 THEN disturbed[q]
                                 ELSE disturbed[q] \cup {x}]
Vouch(p, xs) == disturbed' = [disturbed EXCEPT ![p] = Everything \ xs]

Put(table, n, v) == [table EXCEPT ![n] = v]
HandlerActive(p) == hpc[p] \in {"list", "delete", "delSvc"}
MainAt(p, s) == pc[p] = s /\ ~HandlerActive(p)
Goto(p, s) == pc' = [pc EXCEPT ![p] = s]

-----------------------------------------------------------------------------
Init ==
    /\ vc \in Texts
    /\ services = {}
    /\ endpoints = [n \in Names |-> Absent]
    /\ monitors = [m \in MonitorNames |-> Absent]
    /\ pc = [p \in Pods |-> "new"]
    /\ hash = [p \in Pods |-> None]
    /\ endpointDict = [p \in Pods |-> [n \in Names |-> Absent]]
    /\ todo = [p \in Pods |-> {}]
    /\ doomed = [p \in Pods |-> {}]
    /\ cur = [p \in Pods |-> None]
    /\ stale = [p \in Pods |-> FALSE]
    /\ hpc = [p \in Pods |-> "off"]
    /\ hdoomed = [p \in Pods |-> {}]
    /\ hcur = [p \in Pods |-> None]
    /\ disturbed = [p \in Pods |-> Everything]
    /\ spent = [k \in Kinds |-> 0]

(* Mutant: the hash outlives the process.                                  *)
StartKeepsHash(p) ==
    /\ pc[p] \in {"new", "start"}
    /\ Goto(p, "query")
    /\ UNCHANGED <<vc, store, hash, endpointDict, todo, doomed, cur, stale,
                   handler, disturbed, spent>>

(* The process starts, reads the token and installs the handler.           *)
Start(p) ==
    /\ pc[p] \in {"new", "start"}
    /\ Goto(p, "query")
    /\ hash' = [hash EXCEPT ![p] = None]
    /\ UNCHANGED <<vc, store, endpointDict, todo, doomed, cur, stale, handler,
                   disturbed, spent>>

(* Query discovery.  Without a usable answer the pass ends; so it does when *)
(* the text is the one already acted on.  A new text is recorded as acted   *)
(* on BEFORE it is parsed and applied.                                      *)
Query(p) ==
    /\ MainAt(p, "query")
    /\ \/ /\ vc = None \/ vc = hash[p]
          /\ Goto(p, "sleep")
          /\ UNCHANGED <<hash, disturbed, spent>>
       \/ /\ Spend("fault")                  \* no answer, or not this time
          /\ Goto(p, "sleep")
          /\ UNCHANGED <<hash, disturbed>>
       \/ /\ vc # None /\ vc # hash[p]
          /\ hash' = [hash EXCEPT ![p] = vc]
          /\ Vouch(p, {})
          /\ \/ /\ vc \notin Unparsable
                /\ Goto(p, "list")
                /\ UNCHANGED spent
             \/ /\ vc \in Unparsable
                /\ Goto(p, "sleep")
                /\ UNCHANGED spent
             \/ /\ Spend("fault")            \* a host name does not resolve
                /\ Goto(p, "sleep")
    /\ UNCHANGED <<vc, store, endpointDict, todo, doomed, cur, stale, handler>>

(* List the labelled Endpoints: the snapshot every later decision uses.    *)
ListEndpoints(p) ==
    /\ MainAt(p, "list")
    /\ \/ /\ endpointDict' = [endpointDict EXCEPT ![p] = endpoints]
          /\ todo' = [todo EXCEPT ![p] = ClustersOf(hash[p])]
          /\ Vouch(p, Everything)
          /\ Goto(p, "clusters")
          /\ UNCHANGED spent
       \/ /\ Spend("fault")
          /\ Goto(p, "sleep")
          /\ UNCHANGED <<endpointDict, todo, disturbed>>
    /\ UNCHANGED <<vc, store, hash, doomed, cur, stale, handler>>

(* None has no lower(): the exception ends the pass.                       *)
UnnamedCluster(p) ==
    /\ MainAt(p, "clusters")
    /\ NoCluster \in todo[p]
    /\ Vouch(p, {})
    /\ Goto(p, "sleep")
    /\ UNCHANGED <<vc, store, hash, endpointDict, todo, doomed, cur, stale,
                   handler, spent>>

(* The name is in the snapshot.  When the hosts differ the code replaces    *)
(* the address records by bare strings, which the client cannot serialise:  *)
(* the exception is logged and the object stays as it was.                  *)
UpdateEndpointIfNeed(p) ==
    /\ MainAt(p, "clusters")
    /\ \E c \in todo[p] \ {NoCluster} :
          /\ endpointDict[p][Lower[c]] # Absent
          /\ todo' = [todo EXCEPT ![p] = @ \ {c}]
    /\ UNCHANGED <<vc, store, pc, hash, endpointDict, doomed, cur, stale,
                   handler, disturbed, spent>>

(* A new name: create the Service, then, whatever came of it, the Endpoints. *)
CreateService(p) ==
    /\ MainAt(p, "clusters")
    /\ \E c \in todo[p] \ {NoCluster}, o \in Outcomes :
          /\ endpointDict[p][Lower[c]] = Absent
          /\ cur' = [cur EXCEPT ![p] = c]
          /\ services' = IF o = "refused" THEN services
                         ELSE services \cup {Lower[c]}
          /\ Touch(p, Lower[c], o)
          /\ Pay(o)
    /\ Goto(p, "createEp")
    /\ UNCHANGED <<vc, endpoints, monitors, hash, endpointDict, todo, doomed,
                   stale, handler>>

CreateEndpoints(p) ==
    /\ MainAt(p, "createEp")
    /\ \E o \in Outcomes :
          LET n == Lower[cur[p]] IN
          /\ endpoints' = IF o = "refused" \/ endpoints[n] # Absent
                          THEN endpoints
                          ELSE Put(endpoints, n, NewEndpoint(hash[p], cur[p]))
          /\ Touch(p, n, o)
          /\ Pay(o)
    /\ todo' = [todo EXCEPT ![p] = @ \ {cur[p]}]
    /\ Goto(p, "clusters")
    /\ UNCHANGED <<vc, services, monitors, hash, endpointDict, doomed, cur,
                   stale, handler>>

(* Mutants: the sets of the difference swapped; the cluster names compared  *)
(* in their own spelling.                                                  *)
ObsoletedSwapped(p) == ClustersOf(hash[p]) \ Present(endpointDict[p])
ObsoletedCaseKept(p) == Present(endpointDict[p]) \ ClustersOf(hash[p])
Obsoleted(p) == Present(endpointDict[p]) \ ClusterNames(hash[p])

(* All clusters handled: what was listed and is advertised no more.        *)
DeleteServiceEndpointIfNeed(p) ==
    /\ MainAt(p, "clusters")
    /\ todo[p] = {}
    /\ doomed' = [doomed EXCEPT ![p] = Obsoleted(p)]
    /\ Goto(p, "delete")
    /\ UNCHANGED <<vc, store, hash, endpointDict, todo, cur, stale, handler,
                   disturbed, spent>>

(* deleteServiceEndpoint, shared with the handler: for each name, delete   *)
(* the Endpoints and then the Service, inside one try.  A call that is not *)
(* answered, or finds nothing to delete, skips the rest of that name.      *)
RemoveEndpoints(p, n, o) ==
    /\ endpoints' = IF o = "refused" THEN endpoints ELSE Put(endpoints, n, Absent)
    /\ Touch(p, n, o)
    /\ Pay(o)
RemoveService(p, n, o) ==
    /\ services' = IF o = "refused" THEN services ELSE services \ {n}
    /\ Touch(p, n, o)
    /\ Pay(o)
ServiceIsNext(n, o) == o = "ok" /\ endpoints[n] # Absent

(* Mutant: the try outside the loop, so that one failure ends it.          *)
RestOneTry(names, n, o) == IF o = "ok" THEN names \ {n} ELSE {}
(* The names left after the one about n, whatever came of it.              *)
Rest(names, n, o) == names \ {n}

DeleteEndpoints(p) ==
    /\ MainAt(p, "delete")
    /\ \E n \in doomed[p], o \in Outcomes :
          /\ RemoveEndpoints(p, n, o)
          /\ doomed' = [doomed EXCEPT ![p] = Rest(@, n, o)]
          /\ IF ServiceIsNext(n, o)
             THEN Goto(p, "delSvc") /\ cur' = [cur EXCEPT ![p] = n]
             ELSE UNCHANGED <<pc, cur>>
    /\ UNCHANGED <<vc, services, monitors, hash, endpointDict, todo, stale,
                   handler>>

DeleteService(p) ==
    /\ MainAt(p, "delSvc")
    /\ \E o \in Outcomes : RemoveService(p, cur[p], o)
    /\ Goto(p, "delete")
    /\ UNCHANGED <<vc, endpoints, monitors, hash, endpointDict, todo, doomed,
                   cur, stale, handler>>

(* The ServiceMonitor is looked up by LABEL.                               *)
ListServiceMonitors(p) ==
    /\ MainAt(p, "delete")
    /\ doomed[p] = {}
    /\ \/ /\ Goto(p, IF monitors[Label] = Absent THEN "createMon" ELSE "patchMon")
          /\ stale' = [stale EXCEPT ![p] = FALSE]
          /\ UNCHANGED <<disturbed, spent>>
       \/ /\ Spend("fault")
          /\ disturbed' = [disturbed EXCEPT ![p] = @ \cup {Monitor}]
          /\ Goto(p, "sleep")
          /\ UNCHANGED stale
    /\ UNCHANGED <<vc, store, hash, endpointDict, todo, doomed, cur, handler>>

(* Mutant: the patch adds to the list it should replace.                   *)
WriteMonitorMerged(p, name, value, o) ==
    /\ monitors' = IF o = "refused" THEN monitors
                   ELSE Put(monitors, name,
                            IF monitors[name] = Absent \/ value = Absent THEN value
                            ELSE monitors[name] \cup value)
    /\ stale' = IF o = "refused" THEN stale ELSE [q \in Pods |-> TRUE]
    /\ Touch(p, Monitor, o)

(* Write the monitor called name; whoever listed it before holds an old    *)
(* version.                                                                *)
WriteMonitor(p, name, value, o) ==
    /\ monitors' = IF o = "refused" THEN monitors ELSE Put(monitors, name, value)
    /\ stale' = IF o = "refused" THEN stale ELSE [q \in Pods |-> TRUE]
    /\ Touch(p, Monitor, o)

(* Created under SERVICEMONITOR_NAME; refused when that name is taken.     *)
CreateServiceMonitor(p) ==
    /\ MainAt(p, "createMon")
    /\ \E o \in Outcomes :
          /\ WriteMonitor(p, MonitorName, ServiceMonitorEndPoints(hash[p]), o)
          /\ IF monitors[MonitorName] # Absent
             THEN o = "refused" /\ UNCHANGED spent
             ELSE Pay(o)
    /\ Goto(p, "sleep")
    /\ UNCHANGED <<vc, services, endpoints, hash, endpointDict, todo, doomed,
                   cur, handler>>

(* Patched under LABEL with the listed object as the body, hence with its   *)
(* resourceVersion: refused when the object was written since.              *)
UpdateServiceMonitor(p) ==
    /\ MainAt(p, "patchMon")
    /\ \E o \in Outcomes :
          /\ WriteMonitor(p, Label, ServiceMonitorEndPoints(hash[p]), o)
          /\ IF stale[p] THEN o = "refused" /\ UNCHANGED spent ELSE Pay(o)
    /\ Goto(p, "sleep")
    /\ UNCHANGED <<vc, services, endpoints, hash, endpointDict, todo, doomed,
                   cur, handler>>

(* time.sleep(INTERVAL_SEC) returns.                                       *)
Wake(p) ==
    /\ MainAt(p, "sleep")
    /\ Goto(p, "query")
    /\ UNCHANGED <<vc, store, hash, endpointDict, todo, doomed, cur, stale,
                   handler, disturbed, spent>>

-----------------------------------------------------------------------------
(* SIGTERM: the handler runs on the main thread, between any two of its     *)
(* steps; the main loop stands still until the handler returns, and then    *)
(* goes on.                                                                 *)

Sigterm(p) ==
    /\ pc[p] \notin {"new", "gone"} /\ hpc[p] = "off"
    /\ Spend("term")
    /\ Vouch(p, {})
    /\ IF pc[p] = "start"                     \* no handler installed yet
       THEN Goto(p, "gone") /\ hpc' = [hpc EXCEPT ![p] = "done"]
       ELSE UNCHANGED pc /\ hpc' = [hpc EXCEPT ![p] = "list"]
    /\ UNCHANGED <<vc, store, hash, endpointDict, todo, doomed, cur, stale,
                   hdoomed, hcur>>

(* Mutant: clean up what the last pass listed.                             *)
HandlerListStale(p) ==
    /\ hpc[p] = "list"
    /\ hdoomed' = [hdoomed EXCEPT ![p] = Present(endpointDict[p])]
    /\ hpc' = [hpc EXCEPT ![p] = "delete"]
    /\ UNCHANGED <<vc, store, main, stale, hcur, disturbed, spent>>

HandlerList(p) ==
    /\ hpc[p] = "list"
    /\ hdoomed' = [hdoomed EXCEPT ![p] = Present(endpoints)]
    /\ hpc' = [hpc EXCEPT ![p] = "delete"]
    /\ UNCHANGED <<vc, store, main, stale, hcur, disturbed, spent>>

(* An exception inside one of the inner try blocks skips that call only.    *)
SkipCall(p) ==
    \/ /\ pc[p] = "query"                   \* vCenter's certificate is tried
       /\ UNCHANGED <<pc, todo, doomed, cur>>
    \/ /\ pc[p] = "clusters"
       /\ \E c \in todo[p] \ {NoCluster} :
             IF endpointDict[p][Lower[c]] = Absent
             THEN /\ cur' = [cur EXCEPT ![p] = c]
                  /\ Goto(p, "createEp")
                  /\ UNCHANGED <<todo, doomed>>
             ELSE /\ todo' = [todo EXCEPT ![p] = @ \ {c}]
                  /\ UNCHANGED <<pc, doomed, cur>>
    \/ /\ pc[p] = "createEp"
       /\ todo' = [todo EXCEPT ![p] = @ \ {cur[p]}]
       /\ Goto(p, "clusters")
       /\ UNCHANGED <<doomed, cur>>
    \/ /\ pc[p] = "delete"
       /\ \E n \in doomed[p] : doomed' = [doomed EXCEPT ![p] = @ \ {n}]
       /\ UNCHANGED <<pc, todo, cur>>
    \/ /\ pc[p] = "delSvc"
       /\ Goto(p, "delete")
       /\ UNCHANGED <<todo, doomed, cur>>

(* The handler's listing is in no try of its own: its exception surfaces    *)
(* where the main loop was interrupted.  It ends the pass, or one call of   *)
(* it, or, while the loop sleeps outside its try, the process.              *)
HandlerListFails(p) ==
    /\ hpc[p] = "list"
    /\ Spend("fault")
    /\ hpc' = [hpc EXCEPT ![p] = "done"]
    /\ \/ /\ Goto(p, IF pc[p] = "sleep" THEN "gone" ELSE "sleep")
          /\ UNCHANGED <<todo, doomed, cur>>
       \/ SkipCall(p)
    /\ UNCHANGED <<vc, store, hash, endpointDict, stale, hdoomed, hcur,
                   disturbed>>

HandlerDeleteEndpoints(p) ==
    /\ hpc[p] = "delete"
    /\ \E n \in hdoomed[p], o \in Outcomes :
          /\ RemoveEndpoints(p, n, o)
          /\ hdoomed' = [hdoomed EXCEPT ![p] = Rest(@, n, o)]
          /\ IF ServiceIsNext(n, o)
             THEN /\ hpc' = [hpc EXCEPT ![p] = "delSvc"]
                  /\ hcur' = [hcur EXCEPT ![p] = n]
             ELSE UNCHANGED <<hpc, hcur>>
    /\ UNCHANGED <<vc, services, monitors, main, stale>>

HandlerDeleteService(p) ==
    /\ hpc[p] = "delSvc"
    /\ \E o \in Outcomes : RemoveService(p, hcur[p], o)
    /\ hpc' = [hpc EXCEPT ![p] = "delete"]
    /\ UNCHANGED <<vc, endpoints, monitors, main, stale, hdoomed, hcur>>

(* The monitor called LABEL goes last; then the main loop resumes.         *)
HandlerDeleteMonitor(p) ==
    /\ hpc[p] = "delete"
    /\ hdoomed[p] = {}
    /\ \E o \in Outcomes : WriteMonitor(p, Label, Absent, o) /\ Pay(o)
    /\ hpc' = [hpc EXCEPT ![p] = "done"]
    /\ UNCHANGED <<vc, services, endpoints, main, hdoomed, hcur>>

-----------------------------------------------------------------------------
(* What the environment may do.                                            *)

(* Kubelet kills the container when the grace period is over.              *)
Kill(p) ==
    /\ pc[p] # "gone" /\ hpc[p] # "off"
    /\ Goto(p, "gone")
    /\ hpc' = [hpc EXCEPT ![p] = "done"]
    /\ UNCHANGED <<vc, store, hash, endpointDict, todo, doomed, cur, stale,
                   hdoomed, hcur, disturbed, spent>>

(* The process dies and its container is restarted.                        *)
Crash(p) ==
    /\ pc[p] \notin {"new", "start", "gone"} /\ hpc[p] = "off"
    /\ Spend("crash")
    /\ Goto(p, "start")
    /\ Vouch(p, {})
    /\ UNCHANGED <<vc, store, hash, endpointDict, todo, doomed, cur, stale, handler>>

(* vCenter's clusters change, or it starts or stops answering.             *)
Change ==
    /\ Spend("change")
    /\ vc' \in (Texts \cup {None}) \ {vc}
    /\ UNCHANGED <<store, main, stale, handler, disturbed>>

-----------------------------------------------------------------------------
MainStep(p) ==
    \/ Start(p) \/ Query(p) \/ ListEndpoints(p) \/ UnnamedCluster(p)
    \/ UpdateEndpointIfNeed(p) \/ CreateService(p) \/ CreateEndpoints(p)
    \/ DeleteServiceEndpointIfNeed(p) \/ DeleteEndpoints(p) \/ DeleteService(p)
    \/ ListServiceMonitors(p) \/ CreateServiceMonitor(p) \/ UpdateServiceMonitor(p)
    \/ Wake(p)
HandlerStep(p) ==
    \/ HandlerList(p) \/ HandlerListFails(p) \/ HandlerDeleteEndpoints(p)
    \/ HandlerDeleteService(p) \/ HandlerDeleteMonitor(p)
Environment(p) == Sigterm(p) \/ Kill(p) \/ Crash(p)

Next == \/ Change
        \/ \E p \in Pods : MainStep(p) \/ HandlerStep(p) \/ Environment(p)

Spec == Init /\ [][Next]_vars

(* The daemon never stops between two calls, and every call is answered or  *)
(* fails in the end.                                                        *)
FairSpec == Spec /\ \A p \in Pods : WF_vars(MainStep(p) \/ HandlerStep(p))

=============================================================================

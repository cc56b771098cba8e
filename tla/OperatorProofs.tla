--------------------------- MODULE OperatorProofs ---------------------------
(* Theorems about Operator, for every set of pods, clusters and texts: types, *)
(* what a pass vouches for and what it may drop, and the refinement.         *)
EXTENDS OperatorProperties, TLAPS

-----------------------------------------------------------------------------
(* The text read by the daemon has the types of its rows.                    *)
LEMMA TextTypes ==
    ASSUME NEW t \in Texts
    PROVE  /\ ClustersOf(t) \subseteq Clusters \cup {NoCluster}
           /\ ClusterNames(t) \subseteq Names
           /\ ServiceMonitorEndPoints(t) \subseteq Paths
           /\ \A c : NewEndpoint(t, c) \in Endpoint
  <1>1. Providers[t] \subseteq Provider
    BY TextAssumption
  <1>2. ClustersOf(t) \subseteq Clusters \cup {NoCluster}
    BY <1>1 DEF ClustersOf, Provider
  <1>3. ClusterNames(t) \subseteq Names
    BY <1>2, LowerAssumption DEF ClusterNames
  <1>4. ServiceMonitorEndPoints(t) \subseteq Paths
    BY <1>1 DEF ServiceMonitorEndPoints, Provider
  <1>5. \A c : NewEndpoint(t, c) \in Endpoint
    BY <1>1 DEF NewEndpoint, HostsOf, PortsOf, Endpoint, Provider
  <1>6. QED BY <1>2, <1>3, <1>4, <1>5

(* The environment's counters stay counters.                                 *)
LEMMA SpendType ==
    ASSUME spent \in [Kinds -> Nat], NEW k \in Kinds, Spend(k)
    PROVE  spent' \in [Kinds -> Nat]
  BY DEF Spend

LEMMA PayType ==
    ASSUME spent \in [Kinds -> Nat], NEW o, Pay(o)
    PROVE  spent' \in [Kinds -> Nat]
  BY SpendType DEF Pay, Kinds

(* The history stays a function to sets of names.                            *)
LEMMA TouchType ==
    ASSUME disturbed \in [Pods -> SUBSET Everything],
           NEW p \in Pods, NEW x \in Everything, NEW o, Touch(p, x, o)
    PROVE  disturbed' \in [Pods -> SUBSET Everything]
  BY DEF Touch

LEMMA VouchType ==
    ASSUME disturbed \in [Pods -> SUBSET Everything],
           NEW p \in Pods, NEW xs, Vouch(p, xs)
    PROVE  disturbed' \in [Pods -> SUBSET Everything]
  BY DEF Vouch

LEMMA GotoType ==
    ASSUME pc \in [Pods -> MainStates],
           NEW p \in Pods, NEW s \in MainStates, Goto(p, s)
    PROVE  /\ pc' \in [Pods -> MainStates]
           /\ \A q \in Pods : pc'[q] = IF q = p THEN s ELSE pc[q]
  BY DEF Goto

-----------------------------------------------------------------------------
LEMMA InitType == Init => TypeOK
  <1> SUFFICES ASSUME Init PROVE TypeOK
    OBVIOUS
  <1> USE DEF Init
  <1>1. vc \in Texts \cup {None} /\ services \subseteq Names
    OBVIOUS
  <1>2. /\ endpoints \in [Names -> Endpoint \cup {Absent}]
        /\ endpointDict \in [Pods -> [Names -> Endpoint \cup {Absent}]]
    OBVIOUS
  <1>m. monitors \in [MonitorNames -> (SUBSET Paths) \cup {Absent}]
    BY DEF MonitorNames
  <1>3. /\ pc \in [Pods -> MainStates]
        /\ hash \in [Pods -> Texts \cup {None}]
        /\ todo \in [Pods -> SUBSET (Clusters \cup {NoCluster})]
        /\ doomed \in [Pods -> SUBSET Names]
        /\ cur \in [Pods -> Clusters \cup Names \cup {None}]
        /\ stale \in [Pods -> BOOLEAN]
    BY DEF MainStates
  <1>4. /\ hpc \in [Pods -> {"off", "list", "delete", "delSvc", "done"}]
        /\ hdoomed \in [Pods -> SUBSET Names]
        /\ hcur \in [Pods -> Names \cup {None}]
        /\ disturbed \in [Pods -> SUBSET Everything]
        /\ spent \in [Kinds -> Nat]
    OBVIOUS
  <1>5. \A p \in Pods : pc[p] = "new" /\ hpc[p] = "off"
    OBVIOUS
  <1>6. QED BY <1>1, <1>2, <1>m, <1>3, <1>4, <1>5 DEF TypeOK, InPass

LEMMA NextType == TypeOK /\ [Next]_vars => TypeOK'
  <1> SUFFICES ASSUME TypeOK, [Next]_vars PROVE TypeOK'
    OBVIOUS
  <1>1. CASE UNCHANGED vars
    BY <1>1 DEF TypeOK, vars, store, main, handler
  <1>2. CASE Change
    BY <1>2, SpendType DEF Change, TypeOK, vars, store, main, handler, Kinds
  <1>3. ASSUME NEW p \in Pods, Start(p) PROVE TypeOK'
    BY <1>3 DEF Start, TypeOK, store, main, handler, Goto, InPass, MainStates
  <1>4. ASSUME NEW p \in Pods, Query(p) PROVE TypeOK'
    <2>0. "list" \in MainStates /\ "sleep" \in MainStates
      BY DEF MainStates
    <2>1. pc' \in [Pods -> MainStates] /\ hash' \in [Pods -> Texts \cup {None}]
      BY <1>4, <2>0, GotoType DEF Query, TypeOK
    <2>2. disturbed' \in [Pods -> SUBSET Everything]
      BY <1>4, VouchType DEF Query, TypeOK
    <2>3. spent' \in [Kinds -> Nat]
      BY <1>4, SpendType DEF Query, TypeOK, Kinds
    <2>4. \A q \in Pods : pc'[q] \in InPass => hash'[q] \in Texts
      BY <1>4 DEF Query, TypeOK, Goto, InPass
    <2>5. \A q \in Pods : (pc'[q] = pc[q]) \/ pc'[q] \in {"list", "sleep"}
      BY <1>4 DEF Query, TypeOK, Goto
    <2>6. QED BY <1>4, <2>1, <2>2, <2>3, <2>4, <2>5 DEF Query, TypeOK, store, handler
  <1>5. ASSUME NEW p \in Pods, ListEndpoints(p) PROVE TypeOK'
    <2>0. "clusters" \in MainStates /\ "sleep" \in MainStates
      BY DEF MainStates
    <2>1. pc' \in [Pods -> MainStates] /\ endpointDict' \in [Pods -> [Names -> Endpoint \cup {Absent}]]
      BY <1>5, <2>0, GotoType DEF ListEndpoints, TypeOK
    <2>2. disturbed' \in [Pods -> SUBSET Everything]
      BY <1>5, VouchType DEF ListEndpoints, TypeOK
    <2>3. spent' \in [Kinds -> Nat]
      BY <1>5, SpendType DEF ListEndpoints, TypeOK, Kinds
    <2>4. hash[p] \in Texts
      BY <1>5 DEF ListEndpoints, MainAt, TypeOK, InPass
    <2>5. todo' \in [Pods -> SUBSET (Clusters \cup {NoCluster})]
      BY <1>5, <2>4, TextTypes DEF ListEndpoints, TypeOK
    <2>6. \A q \in Pods : pc'[q] = pc[q] \/ (q = p /\ pc'[q] \in {"clusters", "sleep"})
      BY <1>5 DEF ListEndpoints, TypeOK, Goto
    <2>7. QED
      BY <1>5, <2>1, <2>2, <2>3, <2>4, <2>5, <2>6 DEF ListEndpoints, TypeOK, store, handler, InPass
  <1>6. ASSUME NEW p \in Pods, UnnamedCluster(p) PROVE TypeOK'
    BY <1>6, VouchType DEF UnnamedCluster, TypeOK, store, handler, Goto, InPass, MainStates, MainAt
  <1>7. ASSUME NEW p \in Pods, UpdateEndpointIfNeed(p) PROVE TypeOK'
    BY <1>7 DEF UpdateEndpointIfNeed, TypeOK, store, handler, InPass, MainAt
  <1>8. ASSUME NEW p \in Pods, CreateService(p) PROVE TypeOK'
    BY <1>8, PayType, TouchType, LowerAssumption DEF CreateService, TypeOK, handler, Goto, InPass, MainStates, MainAt, Everything
  <1>9. ASSUME NEW p \in Pods, CreateEndpoints(p) PROVE TypeOK'
    BY <1>9, PayType, TouchType, LowerAssumption, TextTypes DEF CreateEndpoints, TypeOK, handler, Goto, InPass, MainStates, MainAt, Everything, Put
  <1>10. ASSUME NEW p \in Pods, DeleteServiceEndpointIfNeed(p) PROVE TypeOK'
    BY <1>10 DEF DeleteServiceEndpointIfNeed, Obsoleted, Present, TypeOK, store, handler, Goto, InPass, MainStates, MainAt
  <1>11. ASSUME NEW p \in Pods, DeleteEndpoints(p) PROVE TypeOK'
    <2>1. PICK n \in doomed[p], o \in Outcomes :
             /\ RemoveEndpoints(p, n, o)
             /\ doomed' = [doomed EXCEPT ![p] = Rest(@, n, o)]
             /\ IF ServiceIsNext(n, o)
                THEN Goto(p, "delSvc") /\ cur' = [cur EXCEPT ![p] = n]
                ELSE UNCHANGED <<pc, cur>>
      BY <1>11 DEF DeleteEndpoints
    <2>2. n \in Names /\ n \in Everything
      BY <2>1 DEF TypeOK, Everything
    <2>3. endpoints' \in [Names -> Endpoint \cup {Absent}]
      BY <2>1, <2>2 DEF RemoveEndpoints, Put, TypeOK
    <2>4. doomed' \in [Pods -> SUBSET Names]
      BY <2>1 DEF Rest, TypeOK
    <2>5. disturbed' \in [Pods -> SUBSET Everything] /\ spent' \in [Kinds -> Nat]
      BY <2>1, <2>2, TouchType, PayType DEF RemoveEndpoints, TypeOK
    <2>6. /\ pc' \in [Pods -> MainStates] /\ cur' \in [Pods -> Clusters \cup Names \cup {None}]
          /\ \A q \in Pods : /\ pc'[q] \in InPass => hash[q] \in Texts
                             /\ pc'[q] = "createEp" => cur'[q] \in Clusters
                             /\ pc'[q] = "delSvc" => cur'[q] \in Names
      <3>1. CASE ServiceIsNext(n, o)
        <4>1. "delSvc" \in MainStates /\ "delete" \in InPass
          BY DEF MainStates, InPass
        <4>2. hash[p] \in Texts
          BY <1>11, <4>1 DEF DeleteEndpoints, MainAt, TypeOK
        <4>3. cur' \in [Pods -> Clusters \cup Names \cup {None}]
              /\ \A q \in Pods : cur'[q] = IF q = p THEN n ELSE cur[q]
          BY <2>1, <2>2, <3>1 DEF TypeOK
        <4>4. QED BY <2>1, <2>2, <3>1, <4>1, <4>2, <4>3, GotoType DEF TypeOK
      <3>2. CASE ~ServiceIsNext(n, o)
        BY <2>1, <3>2 DEF TypeOK
      <3>3. QED BY <3>1, <3>2
    <2>7. QED BY <1>11, <2>3, <2>4, <2>5, <2>6 DEF DeleteEndpoints, TypeOK, handler
  <1>12. ASSUME NEW p \in Pods, DeleteService(p) PROVE TypeOK'
    BY <1>12, PayType, TouchType DEF DeleteService, RemoveService, TypeOK, handler, Goto, InPass, MainStates, MainAt, Everything
  <1>13. ASSUME NEW p \in Pods, ListServiceMonitors(p) PROVE TypeOK'
    <2>1. spent' \in [Kinds -> Nat]
      BY <1>13, SpendType DEF ListServiceMonitors, TypeOK, Kinds
    <2>2. disturbed' \in [Pods -> SUBSET Everything]
      BY <1>13 DEF ListServiceMonitors, TypeOK, Everything
    <2>3. PICK s \in {"createMon", "patchMon", "sleep"} : Goto(p, s)
      BY <1>13 DEF ListServiceMonitors
    <2>4. pc' \in [Pods -> MainStates] /\ \A q \in Pods : pc'[q] = pc[q] \/ (q = p /\ pc'[q] = s)
      BY <2>3 DEF Goto, TypeOK, MainStates
    <2>5. hash[p] \in Texts
      BY <1>13 DEF ListServiceMonitors, MainAt, TypeOK, InPass
    <2>6. stale' \in [Pods -> BOOLEAN]
      BY <1>13 DEF ListServiceMonitors, TypeOK
    <2>7. QED
      BY <1>13, <2>1, <2>2, <2>4, <2>5, <2>6 DEF ListServiceMonitors, TypeOK, store, handler, InPass
  <1>14. ASSUME NEW p \in Pods, CreateServiceMonitor(p) PROVE TypeOK'
    BY <1>14, PayType, TouchType, TextTypes, ZenonT(60) DEF CreateServiceMonitor, WriteMonitor, TypeOK, handler, Goto, InPass, MainStates, MainAt, Everything, Put, MonitorNames
  <1>15. ASSUME NEW p \in Pods, UpdateServiceMonitor(p) PROVE TypeOK'
    BY <1>15, PayType, TouchType, TextTypes, ZenonT(60) DEF UpdateServiceMonitor, WriteMonitor, TypeOK, handler, Goto, InPass, MainStates, MainAt, Everything, Put, MonitorNames
  <1>16. ASSUME NEW p \in Pods, Wake(p) PROVE TypeOK'
    BY <1>16 DEF Wake, TypeOK, store, handler, Goto, InPass, MainStates, MainAt
  <1>17. ASSUME NEW p \in Pods, HandlerList(p) PROVE TypeOK'
    BY <1>17 DEF HandlerList, TypeOK, store, main, Present
  <1>18. ASSUME NEW p \in Pods, HandlerListFails(p) PROVE TypeOK'
    <2>1. spent' \in [Kinds -> Nat]
      BY <1>18, SpendType DEF HandlerListFails, TypeOK, Kinds
    <2>2. hpc' \in [Pods -> {"off", "list", "delete", "delSvc", "done"}]
          /\ \A q \in Pods : hpc'[q] = "delSvc" => hpc[q] = "delSvc"
      BY <1>18 DEF HandlerListFails, TypeOK
    <2>3. /\ pc' \in [Pods -> MainStates]
          /\ todo' \in [Pods -> SUBSET (Clusters \cup {NoCluster})]
          /\ doomed' \in [Pods -> SUBSET Names]
          /\ cur' \in [Pods -> Clusters \cup Names \cup {None}]
          /\ \A q \in Pods : /\ pc'[q] \in InPass => hash[q] \in Texts
                             /\ pc'[q] = "createEp" => cur'[q] \in Clusters
                             /\ pc'[q] = "delSvc" => cur'[q] \in Names
      <3>1. CASE /\ Goto(p, IF pc[p] = "sleep" THEN "gone" ELSE "sleep")
                 /\ UNCHANGED <<todo, doomed, cur>>
        BY <3>1 DEF Goto, TypeOK, MainStates, InPass
      <3>2. CASE SkipCall(p)
        <4>1. CASE pc[p] = "clusters" /\ \E c \in todo[p] \ {NoCluster} :
                      IF endpointDict[p][Lower[c]] = Absent
                      THEN /\ cur' = [cur EXCEPT ![p] = c]
                           /\ Goto(p, "createEp")
                           /\ UNCHANGED <<todo, doomed>>
                      ELSE /\ todo' = [todo EXCEPT ![p] = @ \ {c}]
                           /\ UNCHANGED <<pc, doomed, cur>>
          <5>1. PICK c \in todo[p] \ {NoCluster} :
                   IF endpointDict[p][Lower[c]] = Absent
                   THEN /\ cur' = [cur EXCEPT ![p] = c]
                        /\ Goto(p, "createEp")
                        /\ UNCHANGED <<todo, doomed>>
                   ELSE /\ todo' = [todo EXCEPT ![p] = @ \ {c}]
                        /\ UNCHANGED <<pc, doomed, cur>>
            BY <4>1
          <5>2. c \in Clusters /\ hash[p] \in Texts /\ "createEp" \in MainStates
            BY <4>1 DEF TypeOK, InPass, MainStates
          <5>3. CASE endpointDict[p][Lower[c]] = Absent
            <6>1. cur' \in [Pods -> Clusters \cup Names \cup {None}]
                  /\ \A q \in Pods : cur'[q] = IF q = p THEN c ELSE cur[q]
              BY <5>1, <5>2, <5>3, ZenonT(60) DEF TypeOK
            <6>2. Goto(p, "createEp") /\ todo' = todo /\ doomed' = doomed
              BY <5>1, <5>3
            <6>3. /\ pc' \in [Pods -> MainStates]
                  /\ \A q \in Pods : pc'[q] = IF q = p THEN "createEp" ELSE pc[q]
              BY <5>2, <6>2, GotoType DEF TypeOK
            <6>4. /\ \A q \in Pods : pc'[q] \in InPass => hash[q] \in Texts
                  /\ \A q \in Pods : pc'[q] = "createEp" => cur'[q] \in Clusters
                  /\ \A q \in Pods : pc'[q] = "delSvc" => cur'[q] \in Names
              BY <5>2, <6>1, <6>3 DEF TypeOK
            <6>5. QED BY <6>1, <6>2, <6>3, <6>4 DEF TypeOK
          <5>4. CASE endpointDict[p][Lower[c]] # Absent
            <6>1. todo' = [todo EXCEPT ![p] = @ \ {c}] /\ pc' = pc /\ doomed' = doomed /\ cur' = cur
              BY <5>1, <5>4
            <6>2. todo' \in [Pods -> SUBSET (Clusters \cup {NoCluster})]
              BY <6>1 DEF TypeOK
            <6>3. QED BY <6>1, <6>2 DEF TypeOK
          <5>5. QED BY <5>3, <5>4
        <4>2. CASE ~(pc[p] = "clusters")
          <5>1. CASE UNCHANGED pc
            BY <3>2, <4>2, <5>1, ZenonT(60) DEF SkipCall, TypeOK
          <5>2. CASE ~UNCHANGED pc
            <6>1. PICK s \in {"clusters", "delete"} : Goto(p, s)
              BY <3>2, <4>2, <5>2 DEF SkipCall
            <6>2. s \in MainStates /\ hash[p] \in Texts /\ cur' = cur
              BY <3>2, <4>2, <5>2 DEF SkipCall, MainStates, InPass, TypeOK
            <6>3. /\ pc' \in [Pods -> MainStates]
                  /\ \A q \in Pods : pc'[q] = IF q = p THEN s ELSE pc[q]
              BY <6>1, <6>2, GotoType DEF TypeOK
            <6>4. /\ todo' \in [Pods -> SUBSET (Clusters \cup {NoCluster})]
                  /\ doomed' \in [Pods -> SUBSET Names]
              BY <3>2, <4>2, ZenonT(60) DEF SkipCall, TypeOK
            <6>5. QED BY <6>1, <6>2, <6>3, <6>4 DEF TypeOK
          <5>3. QED BY <5>1, <5>2
        <4>3. QED BY <3>2, <4>1, <4>2 DEF SkipCall
      <3>3. QED BY <1>18, <3>1, <3>2 DEF HandlerListFails
    <2>4. QED BY <1>18, <2>1, <2>2, <2>3 DEF HandlerListFails, TypeOK, store
  <1>19. ASSUME NEW p \in Pods, HandlerDeleteEndpoints(p) PROVE TypeOK'
    <2>1. PICK n \in hdoomed[p], o \in Outcomes :
             /\ RemoveEndpoints(p, n, o)
             /\ hdoomed' = [hdoomed EXCEPT ![p] = Rest(@, n, o)]
             /\ IF ServiceIsNext(n, o)
                THEN /\ hpc' = [hpc EXCEPT ![p] = "delSvc"]
                     /\ hcur' = [hcur EXCEPT ![p] = n]
                ELSE UNCHANGED <<hpc, hcur>>
      BY <1>19 DEF HandlerDeleteEndpoints
    <2>2. n \in Names /\ n \in Everything
      BY <2>1 DEF TypeOK, Everything
    <2>3. endpoints' \in [Names -> Endpoint \cup {Absent}]
      BY <2>1, <2>2 DEF RemoveEndpoints, Put, TypeOK
    <2>4. hdoomed' \in [Pods -> SUBSET Names]
      BY <2>1 DEF Rest, TypeOK
    <2>5. disturbed' \in [Pods -> SUBSET Everything] /\ spent' \in [Kinds -> Nat]
      BY <2>1, <2>2, TouchType, PayType DEF RemoveEndpoints, TypeOK
    <2>6. /\ hpc' \in [Pods -> {"off", "list", "delete", "delSvc", "done"}]
          /\ hcur' \in [Pods -> Names \cup {None}]
          /\ \A q \in Pods : hpc'[q] = "delSvc" => hcur'[q] \in Names
      BY <2>1, <2>2 DEF TypeOK
    <2>7. QED BY <1>19, <2>3, <2>4, <2>5, <2>6 DEF HandlerDeleteEndpoints, TypeOK, main
  <1>20. ASSUME NEW p \in Pods, HandlerDeleteService(p) PROVE TypeOK'
    BY <1>20, PayType, TouchType DEF HandlerDeleteService, RemoveService, TypeOK, main, Everything
  <1>21. ASSUME NEW p \in Pods, HandlerDeleteMonitor(p) PROVE TypeOK'
    <2>1. PICK o \in Outcomes : WriteMonitor(p, Label, Absent, o) /\ Pay(o)
      BY <1>21 DEF HandlerDeleteMonitor
    <2>2. spent' \in [Kinds -> Nat]
      BY <2>1, PayType DEF TypeOK
    <2>3. disturbed' \in [Pods -> SUBSET Everything]
      BY <2>1, TouchType DEF WriteMonitor, TypeOK, Everything
    <2>4. monitors' \in [MonitorNames -> (SUBSET Paths) \cup {Absent}] /\ stale' \in [Pods -> BOOLEAN]
      BY <2>1 DEF WriteMonitor, Put, TypeOK, MonitorNames
    <2>5. /\ hpc' \in [Pods -> {"off", "list", "delete", "delSvc", "done"}]
          /\ \A q \in Pods : hpc'[q] = "delSvc" => hpc[q] = "delSvc"
      BY <1>21 DEF HandlerDeleteMonitor, TypeOK
    <2>6. QED BY <1>21, <2>2, <2>3, <2>4, <2>5 DEF HandlerDeleteMonitor, TypeOK, main
  <1>22. ASSUME NEW p \in Pods, Environment(p) PROVE TypeOK'
    BY <1>22, SpendType, VouchType, ZenonT(60) DEF Environment, Sigterm, Kill, Crash, TypeOK, store, handler, Goto, InPass, MainStates, Kinds
  <1>23. QED
    BY <1>1, <1>2, <1>3, <1>4, <1>5, <1>6, <1>7, <1>8, <1>9, <1>10, <1>11, <1>12, <1>13,
       <1>14, <1>15, <1>16, <1>17, <1>18, <1>19, <1>20, <1>21, <1>22
    DEF Next, MainStep, HandlerStep

(* The type invariant of every behaviour.                                    *)
THEOREM TypeCorrect == Spec => []TypeOK
  <1>1. QED BY InitType, NextType, PTL DEF Spec

-----------------------------------------------------------------------------
(* PassSynced is an invariant.  It only speaks of passes that are past their *)
(* deletions; the inductive invariant says, for each earlier stage, what the *)
(* pass has achieved so far and what it still remembers to do.  At the end,  *)
(* that Operator implements Reconciler.                                      *)

Handled(p) == {Lower[c] : c \in ClustersOf(hash[p]) \ (todo[p] \cup {NoCluster})}

PassInv(p) ==
    /\ (pc[p] \in {"new", "start", "list"} \/ HandlerActive(p)) => disturbed[p] = Everything
    /\ pc[p] \in {"clusters", "createEp"} =>
          /\ todo[p] \subseteq ClustersOf(hash[p])
          /\ Vouched(p, Present(endpointDict[p]) \cup Handled(p))
    /\ pc[p] = "createEp" =>
          /\ cur[p] \in todo[p] \ {NoCluster}
          /\ endpointDict[p][Lower[cur[p]]] = Absent
          /\ Lower[cur[p]] \in services \cup disturbed[p]
    /\ pc[p] \in {"delete", "delSvc"} =>
          /\ doomed[p] \subseteq Obsoleted(p)
          /\ Vouched(p, ClusterNames(hash[p]) \cup doomed[p])
    /\ pc[p] = "delSvc" => cur[p] \in Obsoleted(p)
    /\ PastDeletions(p) => Vouched(p, ClusterNames(hash[p]))

IInv == TypeOK /\ \A p \in Pods : PassInv(p)

(* The main variables of q are as they were.                                 *)
MainKept(q) ==
    /\ pc'[q] = pc[q] /\ hash'[q] = hash[q] /\ endpointDict'[q] = endpointDict[q]
    /\ todo'[q] = todo[q] /\ doomed'[q] = doomed[q] /\ cur'[q] = cur[q]

(* What q vouches for is as it was, but for names it vouches for no more.    *)
StoreKept(q) ==
    /\ disturbed[q] \subseteq disturbed'[q]
    /\ \A n \in Names \ disturbed'[q] :
          /\ endpoints'[n] = endpoints[n]
          /\ n \in services => n \in services'

LEMMA VouchedKept ==
    ASSUME NEW q \in Pods, NEW expected,
           StoreKept(q), hash'[q] = hash[q], endpointDict'[q] = endpointDict[q],
           Vouched(q, expected)
    PROVE  \A n \in Names \ disturbed'[q] :
              /\ endpoints'[n] # Absent <=> n \in expected
              /\ endpoints'[n] # Absent /\ endpointDict'[q][n] = Absent => Made(q, n)'
  <1> TAKE n \in Names \ disturbed'[q]
  <1>1. n \in Names \ disturbed[q]
    BY DEF StoreKept
  <1>2. endpoints'[n] = endpoints[n] /\ (n \in services => n \in services')
    BY DEF StoreKept
  <1>3. /\ endpoints[n] # Absent <=> n \in expected
        /\ endpoints[n] # Absent /\ endpointDict[q][n] = Absent => Made(q, n)
    BY <1>1 DEF Vouched
  <1>4. Made(q, n) => Made(q, n)'
    BY <1>2 DEF Made, ClustersOf, NewEndpoint, HostsOf, PortsOf
  <1>5. QED BY <1>2, <1>3, <1>4

(* Nothing a pod relies on changes when others act on other names.           *)
LEMMA Frame ==
    ASSUME IInv, TypeOK', NEW q \in Pods, MainKept(q), StoreKept(q),
           HandlerActive(q)' => disturbed'[q] = Everything
    PROVE  PassInv(q)'
  <1>1. PassInv(q)
    BY DEF IInv
  <1>a. disturbed'[q] \subseteq Everything
    BY DEF TypeOK
  <1>2. disturbed[q] = Everything => disturbed'[q] = Everything
    BY <1>a DEF StoreKept
  <1>3. /\ Handled(q)' = Handled(q)
        /\ Present(endpointDict[q])' = Present(endpointDict[q])
        /\ ClusterNames(hash[q])' = ClusterNames(hash[q])
        /\ ClustersOf(hash[q])' = ClustersOf(hash[q])
        /\ Obsoleted(q)' = Obsoleted(q)
        /\ PastDeletions(q)' = PastDeletions(q)
    BY DEF MainKept, Handled, Present, ClusterNames, ClustersOf, Obsoleted, PastDeletions
  <1>4. pc'[q] \in {"new", "start", "list"} => disturbed'[q] = Everything
    BY <1>1, <1>2 DEF PassInv, MainKept
  <1>5. ASSUME NEW S, Vouched(q, S)
        PROVE  \A n \in Names \ disturbed'[q] :
                 /\ endpoints'[n] # Absent <=> n \in S
                 /\ endpoints'[n] # Absent /\ endpointDict'[q][n] = Absent => Made(q, n)'
    BY <1>5, VouchedKept DEF MainKept
  <1>b. ASSUME NEW S, NEW T, Vouched(q, S), T = S
        PROVE  \A n \in Names \ disturbed'[q] :
                 /\ endpoints'[n] # Absent <=> n \in T
                 /\ endpoints'[n] # Absent /\ endpointDict'[q][n] = Absent => Made(q, n)'
    BY <1>5, <1>b
  <1>6. pc'[q] \in {"clusters", "createEp"} =>
          /\ todo'[q] \subseteq ClustersOf(hash[q])'
          /\ Vouched(q, Present(endpointDict[q]) \cup Handled(q))'
    <2> SUFFICES ASSUME pc'[q] \in {"clusters", "createEp"}
                 PROVE  /\ todo'[q] \subseteq ClustersOf(hash[q])'
                        /\ Vouched(q, Present(endpointDict[q]) \cup Handled(q))'
      OBVIOUS
    <2>1. pc[q] \in {"clusters", "createEp"} /\ todo'[q] = todo[q]
      BY DEF MainKept
    <2>2. /\ todo[q] \subseteq ClustersOf(hash[q])
          /\ Vouched(q, Present(endpointDict[q]) \cup Handled(q))
      BY <1>1, <2>1 DEF PassInv
    <2>3. \A n \in Names \ disturbed'[q] :
                 /\ endpoints'[n] # Absent <=> n \in Present(endpointDict[q])' \cup Handled(q)'
                 /\ endpoints'[n] # Absent /\ endpointDict'[q][n] = Absent => Made(q, n)'
      BY <1>3, <1>b, <2>2
    <2>4. QED BY <1>3, <2>1, <2>2, <2>3 DEF Vouched
  <1>7. pc'[q] = "createEp" =>
          /\ cur'[q] \in todo'[q] \ {NoCluster}
          /\ endpointDict'[q][Lower[cur'[q]]] = Absent
          /\ Lower[cur'[q]] \in services' \cup disturbed'[q]
    <2> SUFFICES ASSUME pc'[q] = "createEp"
                 PROVE  /\ cur'[q] \in todo'[q] \ {NoCluster}
                        /\ endpointDict'[q][Lower[cur'[q]]] = Absent
                        /\ Lower[cur'[q]] \in services' \cup disturbed'[q]
      OBVIOUS
    <2>1. Lower[cur[q]] \in Names
      BY LowerAssumption DEF MainKept, IInv, TypeOK
    <2>2. QED BY <1>1, <2>1 DEF PassInv, MainKept, StoreKept
  <1>8. pc'[q] \in {"delete", "delSvc"} =>
          /\ doomed'[q] \subseteq Obsoleted(q)'
          /\ Vouched(q, ClusterNames(hash[q]) \cup doomed[q])'
    <2> SUFFICES ASSUME pc'[q] \in {"delete", "delSvc"}
                 PROVE  /\ doomed'[q] \subseteq Obsoleted(q)'
                        /\ Vouched(q, ClusterNames(hash[q]) \cup doomed[q])'
      OBVIOUS
    <2>1. pc[q] \in {"delete", "delSvc"} /\ doomed'[q] = doomed[q]
      BY DEF MainKept
    <2>2. /\ doomed[q] \subseteq Obsoleted(q)
          /\ Vouched(q, ClusterNames(hash[q]) \cup doomed[q])
      BY <1>1, <2>1 DEF PassInv
    <2>3. \A n \in Names \ disturbed'[q] :
             /\ endpoints'[n] # Absent <=> n \in ClusterNames(hash[q])' \cup doomed'[q]
             /\ endpoints'[n] # Absent /\ endpointDict'[q][n] = Absent => Made(q, n)'
      BY <1>3, <1>b, <2>1, <2>2
    <2>4. QED BY <1>3, <2>1, <2>2, <2>3 DEF Vouched
  <1>9. pc'[q] = "delSvc" => cur'[q] \in Obsoleted(q)'
    BY <1>1, <1>3 DEF PassInv, MainKept
  <1>10. PastDeletions(q)' => Vouched(q, ClusterNames(hash[q]))'
    BY <1>1, <1>3, <1>5 DEF PassInv, MainKept, Vouched
  <1>11. QED BY <1>4, <1>6, <1>7, <1>8, <1>9, <1>10 DEF PassInv

(* A pod that vouches for nothing is in order wherever it stands, as long as *)
(* its own lists are.                                                        *)
LEMMA NothingVouched ==
    ASSUME TypeOK', NEW q \in Pods, disturbed'[q] = Everything,
           pc'[q] \in {"clusters", "createEp"} => todo'[q] \subseteq ClustersOf(hash[q])',
           pc'[q] = "createEp" => /\ cur'[q] \in todo'[q] \ {NoCluster}
                                  /\ endpointDict'[q][Lower[cur'[q]]] = Absent,
           pc'[q] \in {"delete", "delSvc"} => doomed'[q] \subseteq Obsoleted(q)',
           pc'[q] = "delSvc" => cur'[q] \in Obsoleted(q)'
    PROVE  PassInv(q)'
  <1>1. Names \ disturbed'[q] = {}
    BY DEF Everything
  <1>2. ASSUME NEW S PROVE \A n \in Names \ disturbed'[q] :
                 /\ endpoints'[n] # Absent <=> n \in S
                 /\ endpoints'[n] # Absent /\ endpointDict'[q][n] = Absent => Made(q, n)'
    BY <1>1
  <1>3. pc'[q] = "createEp" => Lower[cur'[q]] \in disturbed'[q]
    BY LowerAssumption DEF TypeOK, Everything
  <1>4. /\ Vouched(q, Present(endpointDict[q]) \cup Handled(q))'
        /\ Vouched(q, ClusterNames(hash[q]) \cup doomed[q])'
        /\ Vouched(q, ClusterNames(hash[q]))'
    BY <1>1 DEF Vouched
  <1>5. QED BY <1>3, <1>4 DEF PassInv

-----------------------------------------------------------------------------
(* What the calls leave alone.                                               *)
LEMMA TouchEffect ==
    ASSUME TypeOK, NEW p \in Pods, NEW x \in Everything, NEW o, Touch(p, x, o)
    PROVE  /\ \A q \in Pods : disturbed[q] \subseteq disturbed'[q]
           /\ \A q \in Pods \ {p} : o # "refused" => x \in disturbed'[q]
           /\ o # "ok" => x \in disturbed'[p]
           /\ o = "ok" => disturbed'[p] = disturbed[p]
  <1>1. disturbed \in [Pods -> SUBSET Everything]
    BY DEF TypeOK
  <1>2. QED BY <1>1 DEF Touch

LEMMA RemoveEndpointsKept ==
    ASSUME TypeOK, NEW p \in Pods, NEW n \in Names, NEW o \in Outcomes,
           RemoveEndpoints(p, n, o), services' = services, NEW q \in Pods,
           q # p \/ disturbed[p] = Everything
    PROVE  StoreKept(q)
  <1>1. endpoints \in [Names -> Endpoint \cup {Absent}] /\ n \in Everything
    BY DEF TypeOK, Everything
  <1>2. \A r \in Pods : disturbed[r] \subseteq disturbed'[r]
    BY <1>1, TouchEffect DEF RemoveEndpoints
  <1>3. CASE q # p
    BY <1>1, <1>2, <1>3, TouchEffect DEF RemoveEndpoints, StoreKept, Put
  <1>4. CASE disturbed[p] = Everything /\ q = p
    BY <1>2, <1>4 DEF StoreKept, Everything
  <1>5. QED BY <1>3, <1>4

LEMMA RemoveServiceKept ==
    ASSUME TypeOK, NEW p \in Pods, NEW n \in Names, NEW o \in Outcomes,
           RemoveService(p, n, o), endpoints' = endpoints, NEW q \in Pods,
           q # p \/ disturbed[p] = Everything
    PROVE  StoreKept(q)
  <1>1. n \in Everything
    BY DEF Everything
  <1>2. \A r \in Pods : disturbed[r] \subseteq disturbed'[r]
    BY <1>1, TouchEffect DEF RemoveService
  <1>3. CASE q # p
    BY <1>1, <1>2, <1>3, TouchEffect DEF RemoveService, StoreKept
  <1>4. CASE disturbed[p] = Everything /\ q = p
    BY <1>2, <1>4 DEF StoreKept, Everything
  <1>5. QED BY <1>3, <1>4

LEMMA WriteMonitorKept ==
    ASSUME TypeOK, NEW p \in Pods, NEW m, NEW v, NEW o,
           WriteMonitor(p, m, v, o), UNCHANGED <<services, endpoints>>, NEW q \in Pods
    PROVE  StoreKept(q)
  BY TouchEffect DEF WriteMonitor, StoreKept, Everything

(* A pod's step leaves the other pods in order.                              *)
LEMMA OnePod ==
    ASSUME IInv, TypeOK', NEW p \in Pods, PassInv(p)',
           \A q \in Pods \ {p} : MainKept(q) /\ StoreKept(q) /\ hpc'[q] = hpc[q]
    PROVE  IInv'
  <1>1. ASSUME NEW q \in Pods \ {p} PROVE PassInv(q)'
    <2>1. disturbed'[q] \subseteq Everything
      BY DEF TypeOK
    <2>2. HandlerActive(q)' => disturbed'[q] = Everything
      BY <2>1 DEF IInv, PassInv, StoreKept, HandlerActive
    <2>3. QED BY <2>2, Frame
  <1>2. QED BY <1>1 DEF IInv

-----------------------------------------------------------------------------
(* The steps of a pass, one lemma each.                                      *)
LEMMA StartKeeps ==
    ASSUME IInv, TypeOK', NEW p \in Pods, Start(p)
    PROVE  IInv'
  <1>1. disturbed'[p] = Everything /\ pc'[p] = "query"
    BY DEF Start, IInv, PassInv, Goto, TypeOK
  <1>2. PassInv(p)'
    BY <1>1, NothingVouched
  <1>3. \A q \in Pods \ {p} : MainKept(q) /\ StoreKept(q) /\ hpc'[q] = hpc[q]
    BY DEF Start, MainKept, StoreKept, Goto, IInv, TypeOK, store, handler
  <1>4. QED BY <1>2, <1>3, OnePod

LEMMA QueryKeeps ==
    ASSUME IInv, TypeOK', NEW p \in Pods, Query(p)
    PROVE  IInv'
  <1>1. PassInv(p) /\ ~HandlerActive(p) /\ ~HandlerActive(p)' /\ pc[p] = "query"
    BY DEF Query, IInv, MainAt, HandlerActive, handler
  <1>2. ASSUME UNCHANGED <<hash, disturbed>>, Goto(p, "sleep") PROVE PassInv(p)'
    <2>1. pc'[p] = "sleep"
      BY <1>2 DEF Goto, IInv, TypeOK
    <2>2. /\ endpoints' = endpoints /\ services' = services
          /\ endpointDict' = endpointDict /\ hash' = hash /\ disturbed' = disturbed
      BY <1>2 DEF Query, store
    <2>3. Vouched(p, ClusterNames(hash[p]))
      BY <1>1 DEF PassInv, PastDeletions
    <2>4. Vouched(p, ClusterNames(hash[p]))'
      <3>1. \A n : Made(p, n)' = Made(p, n)
        BY <2>2 DEF Made, ClustersOf, NewEndpoint, HostsOf, PortsOf
      <3>2. ClusterNames(hash[p])' = ClusterNames(hash[p])
        BY <2>2 DEF ClusterNames, ClustersOf
      <3>3. QED BY <2>2, <2>3, <3>1, <3>2 DEF Vouched
    <2>5. QED BY <1>1, <2>1, <2>4 DEF PassInv
  <1>3. ASSUME Vouch(p, {}), NEW s \in {"list", "sleep"}, Goto(p, s) PROVE PassInv(p)'
    <2>1. disturbed'[p] = Everything
      BY <1>3 DEF Vouch, IInv, TypeOK
    <2>2. pc'[p] \notin {"clusters", "createEp", "delete", "delSvc"}
      BY <1>3 DEF Goto, IInv, TypeOK
    <2>3. QED BY <2>1, <2>2, NothingVouched
  <1>4. PassInv(p)'
    BY <1>2, <1>3 DEF Query
  <1>5. \A q \in Pods \ {p} : hash'[q] = hash[q] /\ disturbed'[q] = disturbed[q] /\ pc'[q] = pc[q]
    BY DEF Query, Vouch, Goto, IInv, TypeOK
  <1>6. \A q \in Pods \ {p} : MainKept(q) /\ StoreKept(q) /\ hpc'[q] = hpc[q]
    BY <1>5 DEF Query, MainKept, StoreKept, store, handler
  <1>7. QED BY <1>4, <1>6, OnePod

LEMMA ListEndpointsKeeps ==
    ASSUME IInv, TypeOK', NEW p \in Pods, ListEndpoints(p)
    PROVE  IInv'
  <1>1. PassInv(p) /\ ~HandlerActive(p) /\ ~HandlerActive(p)' /\ pc[p] = "list"
    BY DEF ListEndpoints, IInv, MainAt, HandlerActive, handler
  <1>2. ASSUME Goto(p, "sleep"), disturbed' = disturbed PROVE PassInv(p)'
    <2>1. disturbed'[p] = Everything /\ pc'[p] = "sleep"
      BY <1>1, <1>2 DEF PassInv, Goto, IInv, TypeOK
    <2>2. QED BY <2>1, NothingVouched
  <1>3. ASSUME endpointDict' = [endpointDict EXCEPT ![p] = endpoints],
               todo' = [todo EXCEPT ![p] = ClustersOf(hash[p])],
               Goto(p, "clusters")
        PROVE  PassInv(p)'
    <2>1. pc'[p] = "clusters" /\ endpointDict'[p] = endpoints /\ todo'[p] = ClustersOf(hash[p])
      BY <1>3 DEF Goto, IInv, TypeOK
    <2>2. endpoints' = endpoints /\ hash' = hash
      BY DEF ListEndpoints, store
    <2>3. Handled(p)' = {} /\ ClustersOf(hash[p])' = ClustersOf(hash[p])
      BY <2>1, <2>2 DEF Handled, ClustersOf
    <2>4. Vouched(p, Present(endpointDict[p]) \cup Handled(p))'
      BY <2>1, <2>2, <2>3 DEF Vouched, Present
    <2>5. QED BY <1>1, <2>1, <2>3, <2>4 DEF PassInv, PastDeletions
  <1>4. PassInv(p)'
    BY <1>2, <1>3 DEF ListEndpoints
  <1>5. \A q \in Pods \ {p} : /\ endpointDict'[q] = endpointDict[q] /\ todo'[q] = todo[q]
                              /\ disturbed'[q] = disturbed[q] /\ pc'[q] = pc[q]
    BY DEF ListEndpoints, Vouch, Goto, IInv, TypeOK
  <1>6. \A q \in Pods \ {p} : MainKept(q) /\ StoreKept(q) /\ hpc'[q] = hpc[q]
    BY <1>5 DEF ListEndpoints, MainKept, StoreKept, store, handler
  <1>7. QED BY <1>4, <1>6, OnePod

LEMMA UnnamedClusterKeeps ==
    ASSUME IInv, TypeOK', NEW p \in Pods, UnnamedCluster(p)
    PROVE  IInv'
  <1>1. disturbed'[p] = Everything /\ pc'[p] = "sleep"
    BY DEF UnnamedCluster, Vouch, Goto, IInv, TypeOK
  <1>2. PassInv(p)'
    BY <1>1, NothingVouched
  <1>3. \A q \in Pods \ {p} : disturbed'[q] = disturbed[q] /\ pc'[q] = pc[q]
    BY DEF UnnamedCluster, Vouch, Goto, IInv, TypeOK
  <1>4. \A q \in Pods \ {p} : MainKept(q) /\ StoreKept(q) /\ hpc'[q] = hpc[q]
    BY <1>3 DEF UnnamedCluster, MainKept, StoreKept, store, handler
  <1>5. QED BY <1>2, <1>4, OnePod

LEMMA UpdateEndpointIfNeedKeeps ==
    ASSUME IInv, TypeOK', NEW p \in Pods, UpdateEndpointIfNeed(p)
    PROVE  IInv'
  <1>1. PassInv(p) /\ ~HandlerActive(p) /\ ~HandlerActive(p)' /\ pc[p] = "clusters"
    BY DEF UpdateEndpointIfNeed, IInv, MainAt, HandlerActive, handler
  <1>2. PICK c \in todo[p] \ {NoCluster} :
           /\ endpointDict[p][Lower[c]] # Absent
           /\ todo' = [todo EXCEPT ![p] = @ \ {c}]
    BY DEF UpdateEndpointIfNeed
  <1>3. /\ todo'[p] = todo[p] \ {c} /\ c \in Clusters /\ Lower[c] \in Names
        /\ \A q \in Pods \ {p} : todo'[q] = todo[q]
    BY <1>2, LowerAssumption DEF IInv, TypeOK
  <1>4. /\ endpoints' = endpoints /\ services' = services /\ hash' = hash /\ pc' = pc
        /\ endpointDict' = endpointDict /\ disturbed' = disturbed /\ hpc' = hpc
    BY DEF UpdateEndpointIfNeed, store, handler
  <1>5. /\ todo[p] \subseteq ClustersOf(hash[p])
        /\ Vouched(p, Present(endpointDict[p]) \cup Handled(p))
    BY <1>1 DEF PassInv
  <1>6. Present(endpointDict[p])' \cup Handled(p)' = Present(endpointDict[p]) \cup Handled(p)
    <2>1. Handled(p)' \subseteq Handled(p) \cup {Lower[c]} /\ Handled(p) \subseteq Handled(p)'
      BY <1>3, <1>4 DEF Handled, ClustersOf
    <2>2. Lower[c] \in Present(endpointDict[p])
      BY <1>2, <1>3 DEF Present
    <2>3. QED BY <1>4, <2>1, <2>2 DEF Present
  <1>7. Vouched(p, Present(endpointDict[p]) \cup Handled(p))'
    <2>1. \A n : Made(p, n)' = Made(p, n)
      BY <1>4 DEF Made, ClustersOf, NewEndpoint, HostsOf, PortsOf
    <2>2. QED BY <1>4, <1>5, <1>6, <2>1 DEF Vouched
  <1>8. todo'[p] \subseteq ClustersOf(hash[p])'
    BY <1>3, <1>4, <1>5 DEF ClustersOf
  <1>9. PassInv(p)'
    BY <1>1, <1>4, <1>7, <1>8 DEF PassInv, PastDeletions
  <1>10. \A q \in Pods \ {p} : MainKept(q) /\ StoreKept(q) /\ hpc'[q] = hpc[q]
    BY <1>3, <1>4 DEF UpdateEndpointIfNeed, MainKept, StoreKept
  <1>11. QED BY <1>9, <1>10, OnePod

LEMMA CreateServiceKeeps ==
    ASSUME IInv, TypeOK', NEW p \in Pods, CreateService(p)
    PROVE  IInv'
  <1>1. PassInv(p) /\ ~HandlerActive(p) /\ ~HandlerActive(p)' /\ pc[p] = "clusters"
    BY DEF CreateService, IInv, MainAt, HandlerActive, handler
  <1>2. PICK c \in todo[p] \ {NoCluster}, o \in Outcomes :
           /\ endpointDict[p][Lower[c]] = Absent
           /\ cur' = [cur EXCEPT ![p] = c]
           /\ services' = IF o = "refused" THEN services ELSE services \cup {Lower[c]}
           /\ Touch(p, Lower[c], o)
    BY DEF CreateService
  <1>3. c \in Clusters /\ Lower[c] \in Everything
    BY <1>2, LowerAssumption DEF IInv, TypeOK, Everything
  <1>4. /\ cur'[p] = c /\ pc'[p] = "createEp"
        /\ \A q \in Pods \ {p} : cur'[q] = cur[q] /\ pc'[q] = pc[q]
    BY <1>2 DEF CreateService, Goto, IInv, TypeOK
  <1>5. /\ endpoints' = endpoints /\ hash' = hash /\ endpointDict' = endpointDict
        /\ todo' = todo /\ doomed' = doomed /\ hpc' = hpc
    BY DEF CreateService, handler
  <1>6. \A q \in Pods : StoreKept(q)
    BY <1>2, <1>3, <1>5, TouchEffect DEF StoreKept, IInv
  <1>7. Lower[c] \in services' \cup disturbed'[p]
    <2>1. CASE o = "ok"
      BY <1>2, <2>1
    <2>2. CASE o # "ok"
      BY <1>2, <1>3, <2>2, TouchEffect DEF IInv
    <2>3. QED BY <2>1, <2>2
  <1>8. /\ todo[p] \subseteq ClustersOf(hash[p])
        /\ Vouched(p, Present(endpointDict[p]) \cup Handled(p))
    BY <1>1 DEF PassInv
  <1>9. /\ Present(endpointDict[p])' = Present(endpointDict[p])
        /\ Handled(p)' = Handled(p) /\ ClustersOf(hash[p])' = ClustersOf(hash[p])
    BY <1>5 DEF Present, Handled, ClustersOf
  <1>10. \A n \in Names \ disturbed'[p] :
            /\ endpoints'[n] # Absent <=> n \in Present(endpointDict[p]) \cup Handled(p)
            /\ endpoints'[n] # Absent /\ endpointDict'[p][n] = Absent => Made(p, n)'
    BY <1>5, <1>6, <1>8, VouchedKept
  <1>11. Vouched(p, Present(endpointDict[p]) \cup Handled(p))'
    BY <1>9, <1>10 DEF Vouched
  <1>12. PassInv(p)'
    BY <1>1, <1>2, <1>4, <1>5, <1>7, <1>8, <1>9, <1>11 DEF PassInv, PastDeletions
  <1>13. \A q \in Pods \ {p} : MainKept(q) /\ hpc'[q] = hpc[q]
    BY <1>4, <1>5 DEF MainKept
  <1>14. QED BY <1>6, <1>12, <1>13, OnePod

LEMMA CreateEndpointsKeeps ==
    ASSUME IInv, TypeOK', NEW p \in Pods, CreateEndpoints(p)
    PROVE  IInv'
  <1> DEFINE c == cur[p]
             n == Lower[c]
  <1>1. PassInv(p) /\ ~HandlerActive(p) /\ ~HandlerActive(p)' /\ pc[p] = "createEp"
    BY DEF CreateEndpoints, IInv, MainAt, HandlerActive, handler
  <1>2. PICK o \in Outcomes :
           /\ endpoints' = IF o = "refused" \/ endpoints[n] # Absent THEN endpoints
                           ELSE Put(endpoints, n, NewEndpoint(hash[p], c))
           /\ Touch(p, n, o)
    BY DEF CreateEndpoints
  <1>3. /\ c \in todo[p] \ {NoCluster} /\ endpointDict[p][n] = Absent
        /\ n \in services \cup disturbed[p]
        /\ todo[p] \subseteq ClustersOf(hash[p])
        /\ Vouched(p, Present(endpointDict[p]) \cup Handled(p))
    BY <1>1 DEF PassInv
  <1>4. c \in Clusters /\ n \in Names /\ n \in Everything /\ hash[p] \in Texts
    BY <1>1, LowerAssumption DEF IInv, TypeOK, Everything, InPass
  <1>5. NewEndpoint(hash[p], c) # Absent
    BY <1>4, TextTypes, AbsentAssumption
  <1>6. /\ todo'[p] = todo[p] \ {c} /\ pc'[p] = "clusters"
        /\ \A q \in Pods \ {p} : todo'[q] = todo[q] /\ pc'[q] = pc[q]
    BY DEF CreateEndpoints, Goto, IInv, TypeOK
  <1>7. /\ services' = services /\ hash' = hash /\ endpointDict' = endpointDict
        /\ cur' = cur /\ doomed' = doomed /\ hpc' = hpc
    BY DEF CreateEndpoints, handler
  <1>8. /\ \A q \in Pods : disturbed[q] \subseteq disturbed'[q]
        /\ \A q \in Pods \ {p} : o # "refused" => n \in disturbed'[q]
        /\ o # "ok" => n \in disturbed'[p]
    BY <1>2, <1>4, TouchEffect DEF IInv
  <1>9. endpoints \in [Names -> Endpoint \cup {Absent}]
    BY DEF IInv, TypeOK
  <1>10. \A m \in Names \ {n} : endpoints'[m] = endpoints[m]
    BY <1>2, <1>9 DEF Put
  <1>11. \A q \in Pods \ {p} : StoreKept(q)
    BY <1>2, <1>4, <1>7, <1>8, <1>10 DEF StoreKept
  <1>12. /\ Present(endpointDict[p])' = Present(endpointDict[p])
         /\ ClustersOf(hash[p])' = ClustersOf(hash[p])
         /\ Handled(p)' = Handled(p) \cup {n}
    BY <1>3, <1>6, <1>7 DEF Present, Handled, ClustersOf
  <1>13. ASSUME NEW m \in Names \ disturbed'[p]
         PROVE  /\ endpoints'[m] # Absent <=> m \in Present(endpointDict[p]) \cup Handled(p) \cup {n}
                /\ endpoints'[m] # Absent /\ endpointDict'[p][m] = Absent => Made(p, m)'
    <2>1. /\ m \notin disturbed[p]
          /\ endpoints[m] # Absent <=> m \in Present(endpointDict[p]) \cup Handled(p)
          /\ endpoints[m] # Absent /\ endpointDict[p][m] = Absent => Made(p, m)
      BY <1>3, <1>8 DEF Vouched
    <2>2. endpoints'[m] = endpoints[m] => Made(p, m)' = Made(p, m)
      BY <1>7 DEF Made, ClustersOf, NewEndpoint, HostsOf, PortsOf
    <2>3. CASE m # n
      BY <1>7, <1>10, <2>1, <2>2, <2>3
    <2>4. CASE m = n /\ endpoints[n] # Absent
      BY <1>2, <1>7, <2>1, <2>2, <2>4
    <2>5. CASE m = n /\ endpoints[n] = Absent
      <3>1. o = "ok"
        BY <1>8, <2>5
      <3>2. endpoints'[n] = NewEndpoint(hash[p], c)
        BY <1>2, <1>4, <1>9, <2>5, <3>1 DEF Put
      <3>3. n \in services'
        BY <1>3, <1>7, <2>1, <2>5
      <3>4. NewEndpoint(hash[p], c)' = NewEndpoint(hash[p], c)
        BY <1>7 DEF NewEndpoint, HostsOf, PortsOf
      <3>5. c \in ClustersOf(hash[p])' \ {NoCluster}
        BY <1>3, <1>12
      <3>6. Made(p, m)'
        BY <1>7, <2>5, <3>2, <3>3, <3>4, <3>5 DEF Made, NewEndpoint, HostsOf, PortsOf
      <3>7. QED BY <1>5, <2>5, <3>2, <3>6
    <2>6. QED BY <2>3, <2>4, <2>5
  <1>14. Vouched(p, Present(endpointDict[p]) \cup Handled(p))'
    BY <1>12, <1>13 DEF Vouched
  <1>15. todo'[p] \subseteq ClustersOf(hash[p])'
    BY <1>3, <1>6, <1>12
  <1>16. PassInv(p)'
    BY <1>1, <1>6, <1>14, <1>15 DEF PassInv, PastDeletions
  <1>17. \A q \in Pods \ {p} : MainKept(q) /\ hpc'[q] = hpc[q]
    BY <1>6, <1>7 DEF MainKept
  <1>18. QED BY <1>11, <1>16, <1>17, OnePod

LEMMA DeleteServiceEndpointIfNeedKeeps ==
    ASSUME IInv, TypeOK', NEW p \in Pods, DeleteServiceEndpointIfNeed(p)
    PROVE  IInv'
  <1>1. PassInv(p) /\ ~HandlerActive(p) /\ ~HandlerActive(p)' /\ pc[p] = "clusters"
    BY DEF DeleteServiceEndpointIfNeed, IInv, MainAt, HandlerActive, handler
  <1>2. /\ todo[p] = {} /\ doomed'[p] = Obsoleted(p) /\ pc'[p] = "delete"
        /\ \A q \in Pods \ {p} : doomed'[q] = doomed[q] /\ pc'[q] = pc[q]
    BY DEF DeleteServiceEndpointIfNeed, Goto, IInv, TypeOK
  <1>3. /\ endpoints' = endpoints /\ services' = services /\ hash' = hash /\ todo' = todo
        /\ endpointDict' = endpointDict /\ cur' = cur /\ disturbed' = disturbed /\ hpc' = hpc
    BY DEF DeleteServiceEndpointIfNeed, store, handler
  <1>4. /\ Obsoleted(p)' = Obsoleted(p)
        /\ ClusterNames(hash[p])' \cup doomed'[p] = Present(endpointDict[p]) \cup Handled(p)
    BY <1>2, <1>3 DEF Obsoleted, Present, ClusterNames, ClustersOf, Handled
  <1>5. Vouched(p, Present(endpointDict[p]) \cup Handled(p))
    BY <1>1 DEF PassInv
  <1>6. \A n : Made(p, n)' = Made(p, n)
    BY <1>3 DEF Made, ClustersOf, NewEndpoint, HostsOf, PortsOf
  <1>7. Vouched(p, ClusterNames(hash[p]) \cup doomed[p])'
    BY <1>3, <1>4, <1>5, <1>6 DEF Vouched
  <1>8. PassInv(p)'
    BY <1>1, <1>2, <1>4, <1>7 DEF PassInv, PastDeletions
  <1>9. \A q \in Pods \ {p} : MainKept(q) /\ StoreKept(q) /\ hpc'[q] = hpc[q]
    BY <1>2, <1>3 DEF MainKept, StoreKept
  <1>10. QED BY <1>8, <1>9, OnePod

LEMMA DeleteEndpointsKeeps ==
    ASSUME IInv, TypeOK', NEW p \in Pods, DeleteEndpoints(p)
    PROVE  IInv'
  <1>1. PassInv(p) /\ ~HandlerActive(p) /\ ~HandlerActive(p)' /\ pc[p] = "delete"
    BY DEF DeleteEndpoints, IInv, MainAt, HandlerActive, handler
  <1>2. PICK n \in doomed[p], o \in Outcomes :
           /\ RemoveEndpoints(p, n, o)
           /\ doomed' = [doomed EXCEPT ![p] = Rest(@, n, o)]
           /\ IF ServiceIsNext(n, o)
              THEN Goto(p, "delSvc") /\ cur' = [cur EXCEPT ![p] = n]
              ELSE UNCHANGED <<pc, cur>>
    BY DEF DeleteEndpoints
  <1>3. /\ doomed[p] \subseteq Obsoleted(p)
        /\ Vouched(p, ClusterNames(hash[p]) \cup doomed[p])
    BY <1>1 DEF PassInv
  <1>4. n \in Names /\ n \in Everything /\ n \notin ClusterNames(hash[p])
    BY <1>2, <1>3 DEF IInv, TypeOK, Everything, Obsoleted
  <1>5. /\ doomed'[p] = doomed[p] \ {n}
        /\ \A q \in Pods \ {p} : doomed'[q] = doomed[q]
    BY <1>2 DEF Rest, IInv, TypeOK
  <1>6. /\ \A q \in Pods \ {p} : pc'[q] = pc[q] /\ cur'[q] = cur[q]
        /\ pc'[p] \in {"delete", "delSvc"}
        /\ pc'[p] = "delSvc" => cur'[p] = n
    <2>1. CASE ServiceIsNext(n, o)
      BY <1>2, <2>1 DEF Goto, IInv, TypeOK
    <2>2. CASE ~ServiceIsNext(n, o)
      BY <1>1, <1>2, <2>2
    <2>3. QED BY <2>1, <2>2
  <1>7. /\ services' = services /\ hash' = hash /\ endpointDict' = endpointDict
        /\ todo' = todo /\ hpc' = hpc
    BY DEF DeleteEndpoints, handler
  <1>8. \A q \in Pods \ {p} : StoreKept(q)
    BY <1>2, <1>4, <1>7, RemoveEndpointsKept DEF IInv
  <1>9. /\ disturbed[p] \subseteq disturbed'[p]
        /\ o # "ok" => n \in disturbed'[p]
    BY <1>2, <1>4, TouchEffect DEF RemoveEndpoints, IInv
  <1>10. /\ \A m \in Names \ {n} : endpoints'[m] = endpoints[m]
         /\ o = "ok" => endpoints'[n] = Absent
    BY <1>2, <1>4 DEF RemoveEndpoints, Put, IInv, TypeOK
  <1>11. /\ Obsoleted(p)' = Obsoleted(p)
         /\ ClusterNames(hash[p])' = ClusterNames(hash[p])
    BY <1>7 DEF Obsoleted, Present, ClusterNames, ClustersOf
  <1>12. ASSUME NEW m \in Names \ disturbed'[p]
         PROVE  /\ endpoints'[m] # Absent <=> m \in ClusterNames(hash[p]) \cup (doomed[p] \ {n})
                /\ endpoints'[m] # Absent /\ endpointDict'[p][m] = Absent => Made(p, m)'
    <2>1. /\ endpoints[m] # Absent <=> m \in ClusterNames(hash[p]) \cup doomed[p]
          /\ endpoints[m] # Absent /\ endpointDict[p][m] = Absent => Made(p, m)
      BY <1>3, <1>9 DEF Vouched
    <2>2. endpoints'[m] = endpoints[m] => Made(p, m)' = Made(p, m)
      BY <1>7 DEF Made, ClustersOf, NewEndpoint, HostsOf, PortsOf
    <2>3. CASE m # n
      BY <1>7, <1>10, <2>1, <2>2, <2>3
    <2>4. CASE m = n
      BY <1>4, <1>9, <1>10, <2>4
    <2>5. QED BY <2>3, <2>4
  <1>13. Vouched(p, ClusterNames(hash[p]) \cup doomed[p])'
    BY <1>5, <1>11, <1>12 DEF Vouched
  <1>14. doomed'[p] \subseteq Obsoleted(p)' /\ (pc'[p] = "delSvc" => cur'[p] \in Obsoleted(p)')
    BY <1>2, <1>3, <1>5, <1>6, <1>11
  <1>15. PassInv(p)'
    BY <1>1, <1>6, <1>13, <1>14 DEF PassInv, PastDeletions
  <1>16. \A q \in Pods \ {p} : MainKept(q) /\ hpc'[q] = hpc[q]
    BY <1>5, <1>6, <1>7 DEF MainKept
  <1>17. QED BY <1>8, <1>15, <1>16, OnePod

LEMMA DeleteServiceKeeps ==
    ASSUME IInv, TypeOK', NEW p \in Pods, DeleteService(p)
    PROVE  IInv'
  <1> DEFINE n == cur[p]
  <1>1. PassInv(p) /\ ~HandlerActive(p) /\ ~HandlerActive(p)' /\ pc[p] = "delSvc"
    BY DEF DeleteService, IInv, MainAt, HandlerActive, handler
  <1>2. PICK o \in Outcomes : RemoveService(p, n, o)
    BY DEF DeleteService
  <1>3. /\ doomed[p] \subseteq Obsoleted(p) /\ n \in Obsoleted(p)
        /\ Vouched(p, ClusterNames(hash[p]) \cup doomed[p])
    BY <1>1 DEF PassInv
  <1>4. n \in Names /\ n \in Everything /\ endpointDict[p][n] # Absent
    BY <1>3 DEF Everything, Obsoleted, Present
  <1>5. /\ endpoints' = endpoints /\ hash' = hash /\ endpointDict' = endpointDict
        /\ todo' = todo /\ doomed' = doomed /\ cur' = cur /\ hpc' = hpc
    BY DEF DeleteService, handler
  <1>6. pc'[p] = "delete" /\ \A q \in Pods \ {p} : pc'[q] = pc[q]
    BY DEF DeleteService, Goto, IInv, TypeOK
  <1>7. \A q \in Pods \ {p} : StoreKept(q)
    BY <1>2, <1>4, <1>5, RemoveServiceKept DEF IInv
  <1>8. disturbed[p] \subseteq disturbed'[p]
    BY <1>2, <1>4, TouchEffect DEF RemoveService, IInv
  <1>9. \A m \in services : m # n => m \in services'
    BY <1>2 DEF RemoveService
  <1>10. ASSUME NEW m \in Names \ disturbed'[p]
         PROVE  /\ endpoints'[m] # Absent <=> m \in ClusterNames(hash[p]) \cup doomed[p]
                /\ endpoints'[m] # Absent /\ endpointDict'[p][m] = Absent => Made(p, m)'
    <2>1. /\ endpoints[m] # Absent <=> m \in ClusterNames(hash[p]) \cup doomed[p]
          /\ endpoints[m] # Absent /\ endpointDict[p][m] = Absent => Made(p, m)
      BY <1>3, <1>8 DEF Vouched
    <2>2. Made(p, m) /\ m # n => Made(p, m)'
      BY <1>5, <1>9 DEF Made, ClustersOf, NewEndpoint, HostsOf, PortsOf
    <2>3. QED BY <1>4, <1>5, <2>1, <2>2
  <1>11. /\ Obsoleted(p)' = Obsoleted(p)
         /\ ClusterNames(hash[p])' = ClusterNames(hash[p])
    BY <1>5 DEF Obsoleted, Present, ClusterNames, ClustersOf
  <1>12. Vouched(p, ClusterNames(hash[p]) \cup doomed[p])'
    BY <1>5, <1>10, <1>11 DEF Vouched
  <1>13. PassInv(p)'
    BY <1>1, <1>3, <1>5, <1>6, <1>11, <1>12 DEF PassInv, PastDeletions
  <1>14. \A q \in Pods \ {p} : MainKept(q) /\ hpc'[q] = hpc[q]
    BY <1>5, <1>6 DEF MainKept
  <1>15. QED BY <1>7, <1>13, <1>14, OnePod

(* From the end of the deletions on nothing a pass vouches for changes.      *)
LEMMA PastDeletionsKept ==
    ASSUME IInv, TypeOK', NEW p \in Pods, ~HandlerActive(p)', StoreKept(p),
           hash' = hash, endpointDict' = endpointDict,
           Vouched(p, ClusterNames(hash[p])),
           PastDeletions(p)'
    PROVE  PassInv(p)'
  <1>1. ClusterNames(hash[p])' = ClusterNames(hash[p])
    BY DEF ClusterNames, ClustersOf
  <1>2. Vouched(p, ClusterNames(hash[p]))'
    BY <1>1, VouchedKept DEF Vouched
  <1>3. QED BY <1>2 DEF PassInv, PastDeletions

LEMMA ListServiceMonitorsKeeps ==
    ASSUME IInv, TypeOK', NEW p \in Pods, ListServiceMonitors(p)
    PROVE  IInv'
  <1>1. PassInv(p) /\ ~HandlerActive(p) /\ ~HandlerActive(p)' /\ pc[p] = "delete" /\ doomed[p] = {}
    BY DEF ListServiceMonitors, IInv, MainAt, HandlerActive, handler
  <1>2. Vouched(p, ClusterNames(hash[p]))
    BY <1>1 DEF PassInv, Vouched
  <1>3. PICK s \in {"createMon", "patchMon", "sleep"} : Goto(p, s)
    BY DEF ListServiceMonitors
  <1>4. PastDeletions(p)' /\ \A q \in Pods \ {p} : pc'[q] = pc[q]
    BY <1>3 DEF Goto, PastDeletions, IInv, TypeOK
  <1>5. /\ endpoints' = endpoints /\ services' = services /\ hash' = hash /\ doomed' = doomed
        /\ endpointDict' = endpointDict /\ todo' = todo /\ cur' = cur /\ hpc' = hpc
    BY DEF ListServiceMonitors, store, handler
  <1>6. \A q \in Pods : disturbed[q] \subseteq disturbed'[q]
    <2>1. disturbed \in [Pods -> SUBSET Everything]
      BY DEF IInv, TypeOK
    <2>2. disturbed' = disturbed \/ disturbed' = [disturbed EXCEPT ![p] = @ \cup {Monitor}]
      BY DEF ListServiceMonitors
    <2>3. QED BY <2>1, <2>2
  <1>7. \A q \in Pods : StoreKept(q)
    BY <1>5, <1>6 DEF StoreKept
  <1>8. PassInv(p)'
    BY <1>1, <1>2, <1>4, <1>5, <1>7, PastDeletionsKept
  <1>9. \A q \in Pods \ {p} : MainKept(q) /\ hpc'[q] = hpc[q]
    BY <1>4, <1>5 DEF MainKept
  <1>10. QED BY <1>7, <1>8, <1>9, OnePod

LEMMA ServiceMonitorKeeps ==
    ASSUME IInv, TypeOK', NEW p \in Pods, CreateServiceMonitor(p) \/ UpdateServiceMonitor(p)
    PROVE  IInv'
  <1>1. /\ PassInv(p) /\ ~HandlerActive(p) /\ ~HandlerActive(p)'
        /\ pc[p] \in {"createMon", "patchMon"}
    BY DEF CreateServiceMonitor, UpdateServiceMonitor, IInv, MainAt, HandlerActive, handler
  <1>2. Vouched(p, ClusterNames(hash[p]))
    BY <1>1 DEF PassInv, PastDeletions
  <1>3. Goto(p, "sleep")
    BY DEF CreateServiceMonitor, UpdateServiceMonitor
  <1>4. PastDeletions(p)' /\ \A q \in Pods \ {p} : pc'[q] = pc[q]
    BY <1>3 DEF Goto, PastDeletions, IInv, TypeOK
  <1>5. /\ endpoints' = endpoints /\ services' = services /\ hash' = hash /\ doomed' = doomed
        /\ endpointDict' = endpointDict /\ todo' = todo /\ cur' = cur /\ hpc' = hpc
    BY DEF CreateServiceMonitor, UpdateServiceMonitor, handler
  <1>6. \E m, v, o : WriteMonitor(p, m, v, o)
    <2>1. CASE CreateServiceMonitor(p)
      <3>1. \E o \in Outcomes : WriteMonitor(p, MonitorName, ServiceMonitorEndPoints(hash[p]), o)
        BY <2>1 DEF CreateServiceMonitor
      <3>2. QED BY <3>1
    <2>2. CASE UpdateServiceMonitor(p)
      <3>1. \E o \in Outcomes : WriteMonitor(p, Label, ServiceMonitorEndPoints(hash[p]), o)
        BY <2>2 DEF UpdateServiceMonitor
      <3>2. QED BY <3>1
    <2>3. QED BY <2>1, <2>2
  <1>7. \A q \in Pods : StoreKept(q)
    BY <1>5, <1>6, WriteMonitorKept DEF IInv
  <1>8. PassInv(p)'
    BY <1>1, <1>2, <1>4, <1>5, <1>7, PastDeletionsKept
  <1>9. \A q \in Pods \ {p} : MainKept(q) /\ hpc'[q] = hpc[q]
    BY <1>4, <1>5 DEF MainKept
  <1>10. QED BY <1>7, <1>8, <1>9, OnePod

LEMMA WakeKeeps ==
    ASSUME IInv, TypeOK', NEW p \in Pods, Wake(p)
    PROVE  IInv'
  <1>1. PassInv(p) /\ ~HandlerActive(p) /\ ~HandlerActive(p)' /\ pc[p] = "sleep"
    BY DEF Wake, IInv, MainAt, HandlerActive, handler
  <1>2. Vouched(p, ClusterNames(hash[p]))
    BY <1>1 DEF PassInv, PastDeletions
  <1>3. pc'[p] = "query" /\ \A q \in Pods \ {p} : pc'[q] = pc[q]
    BY DEF Wake, Goto, IInv, TypeOK
  <1>4. /\ endpoints' = endpoints /\ services' = services /\ hash' = hash /\ doomed' = doomed
        /\ endpointDict' = endpointDict /\ todo' = todo /\ cur' = cur /\ hpc' = hpc
        /\ disturbed' = disturbed
    BY DEF Wake, store, handler
  <1>5. \A q \in Pods : StoreKept(q)
    BY <1>4 DEF StoreKept
  <1>6. PassInv(p)'
    BY <1>1, <1>2, <1>3, <1>4, <1>5, PastDeletionsKept DEF PastDeletions
  <1>7. \A q \in Pods \ {p} : MainKept(q) /\ hpc'[q] = hpc[q]
    BY <1>3, <1>4 DEF MainKept
  <1>8. QED BY <1>5, <1>6, <1>7, OnePod

-----------------------------------------------------------------------------
(* The handler and the environment.  A pod whose handler runs vouches for    *)
(* nothing, so that its own deletions cannot contradict it.                  *)
LEMMA SigtermKeeps ==
    ASSUME IInv, TypeOK', NEW p \in Pods, Sigterm(p)
    PROVE  IInv'
  <1>1. PassInv(p)
    BY DEF IInv
  <1>2. disturbed'[p] = Everything /\ \A q \in Pods \ {p} : disturbed'[q] = disturbed[q]
    BY DEF Sigterm, Vouch, IInv, TypeOK
  <1>3. /\ pc'[p] = pc[p] \/ pc'[p] = "gone"
        /\ \A q \in Pods \ {p} : pc'[q] = pc[q] /\ hpc'[q] = hpc[q]
    BY DEF Sigterm, Goto, IInv, TypeOK
  <1>4. /\ endpoints' = endpoints /\ services' = services /\ hash' = hash /\ doomed' = doomed
        /\ endpointDict' = endpointDict /\ todo' = todo /\ cur' = cur
    BY DEF Sigterm, store
  <1>5. Obsoleted(p)' = Obsoleted(p) /\ ClustersOf(hash[p])' = ClustersOf(hash[p])
    BY <1>4 DEF Obsoleted, Present, ClusterNames, ClustersOf
  <1>6. PassInv(p)'
    BY <1>1, <1>2, <1>3, <1>4, <1>5, NothingVouched DEF PassInv
  <1>7. \A q \in Pods \ {p} : MainKept(q) /\ StoreKept(q)
    BY <1>2, <1>3, <1>4 DEF MainKept, StoreKept
  <1>8. QED BY <1>3, <1>6, <1>7, OnePod

LEMMA HandlerListKeeps ==
    ASSUME IInv, TypeOK', NEW p \in Pods, HandlerList(p)
    PROVE  IInv'
  <1>1. /\ disturbed[p] = Everything
        /\ \A q \in Pods \ {p} : hpc'[q] = hpc[q]
    BY DEF HandlerList, IInv, PassInv, HandlerActive, TypeOK
  <1>2. \A q \in Pods : MainKept(q) /\ StoreKept(q) /\ disturbed'[q] = disturbed[q]
    BY DEF HandlerList, MainKept, StoreKept, store, main
  <1>3. PassInv(p)'
    BY <1>1, <1>2, Frame
  <1>4. QED BY <1>1, <1>2, <1>3, OnePod

LEMMA HandlerListFailsKeeps ==
    ASSUME IInv, TypeOK', NEW p \in Pods, HandlerListFails(p)
    PROVE  IInv'
  <1>1. PassInv(p) /\ disturbed[p] = Everything
    BY DEF HandlerListFails, IInv, PassInv, HandlerActive
  <1>2. /\ endpoints' = endpoints /\ services' = services /\ hash' = hash
        /\ endpointDict' = endpointDict /\ disturbed' = disturbed
        /\ \A q \in Pods \ {p} : hpc'[q] = hpc[q]
    BY DEF HandlerListFails, store, IInv, TypeOK
  <1>3. Obsoleted(p)' = Obsoleted(p) /\ ClustersOf(hash[p])' = ClustersOf(hash[p])
    BY <1>2 DEF Obsoleted, Present, ClusterNames, ClustersOf
  <1>4. \A q \in Pods \ {p} : /\ pc'[q] = pc[q] /\ todo'[q] = todo[q]
                              /\ doomed'[q] = doomed[q] /\ cur'[q] = cur[q]
    BY DEF HandlerListFails, SkipCall, Goto, IInv, TypeOK
  <1>5. PassInv(p)'
    <2>1. CASE Goto(p, IF pc[p] = "sleep" THEN "gone" ELSE "sleep")
      <3>1. pc'[p] \in {"gone", "sleep"}
        BY <2>1 DEF Goto, IInv, TypeOK
      <3>2. QED BY <1>1, <1>2, <3>1, NothingVouched
    <2>2. CASE SkipCall(p) /\ pc[p] = "clusters"
      <3>1. PICK c \in todo[p] \ {NoCluster} :
               IF endpointDict[p][Lower[c]] = Absent
               THEN /\ cur' = [cur EXCEPT ![p] = c]
                    /\ Goto(p, "createEp")
                    /\ UNCHANGED <<todo, doomed>>
               ELSE /\ todo' = [todo EXCEPT ![p] = @ \ {c}]
                    /\ UNCHANGED <<pc, doomed, cur>>
        BY <2>2 DEF SkipCall
      <3>2. todo[p] \subseteq ClustersOf(hash[p])
        BY <1>1, <2>2 DEF PassInv
      <3>3. CASE endpointDict[p][Lower[c]] = Absent
        <4>1. cur'[p] = c /\ pc'[p] = "createEp" /\ todo' = todo
          BY <3>1, <3>3 DEF Goto, IInv, TypeOK
        <4>2. QED BY <1>1, <1>2, <1>3, <3>1, <3>2, <3>3, <4>1, NothingVouched
      <3>4. CASE endpointDict[p][Lower[c]] # Absent
        <4>1. todo'[p] = todo[p] \ {c} /\ pc'[p] = "clusters"
          BY <2>2, <3>1, <3>4 DEF IInv, TypeOK
        <4>2. QED BY <1>1, <1>2, <1>3, <3>2, <4>1, NothingVouched
      <3>5. QED BY <3>3, <3>4
    <2>3. CASE SkipCall(p) /\ pc[p] = "createEp"
      <3>1. todo'[p] = todo[p] \ {cur[p]} /\ pc'[p] = "clusters"
        BY <2>3 DEF SkipCall, Goto, IInv, TypeOK
      <3>2. todo[p] \subseteq ClustersOf(hash[p])
        BY <1>1, <2>3 DEF PassInv
      <3>3. QED BY <1>1, <1>2, <1>3, <3>1, <3>2, NothingVouched
    <2>4. CASE SkipCall(p) /\ pc[p] \in {"delete", "delSvc"}
      <3>1. doomed'[p] \subseteq doomed[p] /\ pc'[p] = "delete"
        BY <2>4 DEF SkipCall, Goto, IInv, TypeOK
      <3>2. doomed[p] \subseteq Obsoleted(p)
        BY <1>1, <2>4 DEF PassInv
      <3>3. QED BY <1>1, <1>2, <1>3, <3>1, <3>2, NothingVouched
    <2>5. CASE SkipCall(p) /\ pc[p] = "query"
      <3>1. pc'[p] = "query"
        BY <2>5 DEF SkipCall
      <3>2. QED BY <1>1, <1>2, <3>1, NothingVouched
    <2>6. SkipCall(p) => pc[p] \in {"query", "clusters", "createEp", "delete", "delSvc"}
      BY DEF SkipCall
    <2>7. QED BY <2>1, <2>2, <2>3, <2>4, <2>5, <2>6 DEF HandlerListFails
  <1>6. \A q \in Pods \ {p} : MainKept(q) /\ StoreKept(q)
    BY <1>2, <1>4 DEF MainKept, StoreKept
  <1>7. QED BY <1>2, <1>5, <1>6, OnePod

LEMMA HandlerDeletesKeep ==
    ASSUME IInv, TypeOK', NEW p \in Pods,
           HandlerDeleteEndpoints(p) \/ HandlerDeleteService(p) \/ HandlerDeleteMonitor(p)
    PROVE  IInv'
  <1>1. disturbed[p] = Everything
    BY DEF HandlerDeleteEndpoints, HandlerDeleteService, HandlerDeleteMonitor,
           IInv, PassInv, HandlerActive
  <1>2. \A q \in Pods : MainKept(q)
    BY DEF HandlerDeleteEndpoints, HandlerDeleteService, HandlerDeleteMonitor, MainKept, main
  <1>3. \A q \in Pods \ {p} : hpc'[q] = hpc[q]
    BY DEF HandlerDeleteEndpoints, HandlerDeleteService, HandlerDeleteMonitor, IInv, TypeOK
  <1>4. \A q \in Pods : StoreKept(q)
    <2>1. CASE HandlerDeleteEndpoints(p)
      <3>1. PICK n \in hdoomed[p], o \in Outcomes : RemoveEndpoints(p, n, o)
        BY <2>1 DEF HandlerDeleteEndpoints
      <3>2. n \in Names /\ services' = services
        BY <2>1, <3>1 DEF HandlerDeleteEndpoints, IInv, TypeOK
      <3>3. QED BY <1>1, <3>1, <3>2, RemoveEndpointsKept DEF IInv
    <2>2. CASE HandlerDeleteService(p)
      <3>1. PICK o \in Outcomes : RemoveService(p, hcur[p], o)
        BY <2>2 DEF HandlerDeleteService
      <3>2. hcur[p] \in Names /\ endpoints' = endpoints
        BY <2>2 DEF HandlerDeleteService, IInv, TypeOK
      <3>3. QED BY <1>1, <3>1, <3>2, RemoveServiceKept DEF IInv
    <2>3. CASE HandlerDeleteMonitor(p)
      <3>1. PICK o \in Outcomes : WriteMonitor(p, Label, Absent, o)
        BY <2>3 DEF HandlerDeleteMonitor
      <3>2. UNCHANGED <<services, endpoints>>
        BY <2>3 DEF HandlerDeleteMonitor
      <3>3. QED BY <3>1, <3>2, WriteMonitorKept DEF IInv
    <2>4. QED BY <2>1, <2>2, <2>3
  <1>5. disturbed'[p] = Everything
    BY <1>1, <1>4 DEF StoreKept, TypeOK
  <1>6. PassInv(p)'
    BY <1>2, <1>4, <1>5, Frame
  <1>7. QED BY <1>2, <1>3, <1>4, <1>6, OnePod

LEMMA KillKeeps ==
    ASSUME IInv, TypeOK', NEW p \in Pods, Kill(p)
    PROVE  IInv'
  <1>1. pc'[p] = "gone" /\ hpc'[p] = "done"
    BY DEF Kill, Goto, IInv, TypeOK
  <1>2. PassInv(p)'
    BY <1>1 DEF PassInv, HandlerActive, PastDeletions
  <1>3. \A q \in Pods \ {p} : MainKept(q) /\ StoreKept(q) /\ hpc'[q] = hpc[q]
    BY DEF Kill, Goto, MainKept, StoreKept, store, IInv, TypeOK
  <1>4. QED BY <1>2, <1>3, OnePod

LEMMA CrashKeeps ==
    ASSUME IInv, TypeOK', NEW p \in Pods, Crash(p)
    PROVE  IInv'
  <1>1. /\ pc'[p] = "start" /\ disturbed'[p] = Everything
        /\ \A q \in Pods \ {p} : pc'[q] = pc[q] /\ disturbed'[q] = disturbed[q]
    BY DEF Crash, Goto, Vouch, IInv, TypeOK
  <1>2. PassInv(p)'
    BY <1>1, NothingVouched
  <1>3. \A q \in Pods \ {p} : MainKept(q) /\ StoreKept(q) /\ hpc'[q] = hpc[q]
    BY <1>1 DEF Crash, MainKept, StoreKept, store, handler
  <1>4. QED BY <1>2, <1>3, OnePod

LEMMA IdleKeeps ==
    ASSUME IInv, TypeOK', UNCHANGED <<store, main, handler, disturbed>>
    PROVE  IInv'
  <1>1. ASSUME NEW q \in Pods PROVE PassInv(q)'
    <2>1. MainKept(q) /\ StoreKept(q)
      BY DEF MainKept, StoreKept, store, main
    <2>2. HandlerActive(q)' => disturbed'[q] = Everything
      BY DEF IInv, PassInv, HandlerActive, handler
    <2>3. QED BY <2>1, <2>2, Frame
  <1>2. QED BY <1>1 DEF IInv

-----------------------------------------------------------------------------
LEMMA InitIInv == Init => IInv
  <1> SUFFICES ASSUME Init PROVE IInv
    OBVIOUS
  <1>1. TypeOK
    BY InitType
  <1>2. ASSUME NEW p \in Pods PROVE PassInv(p)
    <2>1. pc[p] = "new" /\ hpc[p] = "off" /\ disturbed[p] = Everything
      BY DEF Init
    <2>2. QED BY <2>1 DEF PassInv, PastDeletions
  <1>3. QED BY <1>1, <1>2 DEF IInv

LEMMA NextIInv == IInv /\ [Next]_vars => IInv'
  <1> SUFFICES ASSUME IInv, [Next]_vars PROVE IInv'
    OBVIOUS
  <1>1. TypeOK'
    BY NextType DEF IInv
  <1>2. CASE UNCHANGED vars \/ Change
    BY <1>1, <1>2, IdleKeeps DEF vars, Change
  <1>3. ASSUME NEW p \in Pods, MainStep(p) PROVE IInv'
    BY <1>1, <1>3, StartKeeps, QueryKeeps, ListEndpointsKeeps, UnnamedClusterKeeps,
       UpdateEndpointIfNeedKeeps, CreateServiceKeeps, CreateEndpointsKeeps,
       DeleteServiceEndpointIfNeedKeeps, DeleteEndpointsKeeps, DeleteServiceKeeps,
       ListServiceMonitorsKeeps, ServiceMonitorKeeps, WakeKeeps
    DEF MainStep
  <1>4. ASSUME NEW p \in Pods, HandlerStep(p) PROVE IInv'
    BY <1>1, <1>4, HandlerListKeeps, HandlerListFailsKeeps, HandlerDeletesKeep DEF HandlerStep
  <1>5. ASSUME NEW p \in Pods, Environment(p) PROVE IInv'
    BY <1>1, <1>5, SigtermKeeps, KillKeeps, CrashKeeps DEF Environment
  <1>6. QED BY <1>2, <1>3, <1>4, <1>5 DEF Next

(* Whatever fails and whoever interferes, the names a finished pass vouches  *)
(* for are as its text says: updateK8sServiceEndpoints keeps the failures of *)
(* one cluster away from the others.                                         *)
THEOREM PassesSync == Spec => []PassSynced
  <1>1. Spec => []IInv
    BY InitIInv, NextIInv, PTL DEF Spec
  <1>2. IInv => PassSynced
    BY DEF IInv, PassInv, PassSynced
  <1>3. QED BY <1>1, <1>2, PTL

(* An Endpoints object goes away only while a handler cleans up, or in the   *)
(* pass of a pod whose text does not have its cluster.                       *)
LEMMA DropStep ==
    ASSUME IInv, [Next]_vars, NEW n \in Names, endpoints[n] # Absent, endpoints'[n] = Absent
    PROVE  \E p \in Pods : \/ HandlerActive(p)
                           \/ pc[p] = "delete" /\ n \notin ClusterNames(hash[p])
  <1>1. PICK p \in Pods : \/ CreateEndpoints(p) \/ DeleteEndpoints(p) \/ HandlerDeleteEndpoints(p)
    BY DEF Next, vars, store, MainStep, HandlerStep, Environment, Change, Start, Query,
           ListEndpoints, UnnamedCluster, UpdateEndpointIfNeed, CreateService,
           DeleteServiceEndpointIfNeed, DeleteService, ListServiceMonitors,
           CreateServiceMonitor, UpdateServiceMonitor, Wake, HandlerList, HandlerListFails,
           HandlerDeleteService, HandlerDeleteMonitor, Sigterm, Kill, Crash
  <1>2. CASE HandlerDeleteEndpoints(p)
    BY <1>2 DEF HandlerDeleteEndpoints, HandlerActive
  <1>3. CASE DeleteEndpoints(p)
    <2>1. pc[p] = "delete" /\ doomed[p] \subseteq Obsoleted(p)
      BY <1>3 DEF DeleteEndpoints, MainAt, IInv, PassInv
    <2>2. n \in doomed[p]
      BY <1>3 DEF DeleteEndpoints, RemoveEndpoints, Put, IInv, TypeOK
    <2>3. QED BY <2>1, <2>2 DEF Obsoleted
  <1>4. CASE CreateEndpoints(p)
    <2>1. cur[p] \in Clusters /\ hash[p] \in Texts
      BY <1>4 DEF CreateEndpoints, MainAt, IInv, TypeOK, InPass
    <2>2. NewEndpoint(hash[p], cur[p]) # Absent
      BY <2>1, TextTypes, AbsentAssumption
    <2>3. QED BY <1>4, <2>1, <2>2, LowerAssumption DEF CreateEndpoints, Put, IInv, TypeOK
  <1>5. QED BY <1>1, <1>2, <1>3, <1>4

THEOREM DropsAreObsolete == Spec => DropsOnlyObsolete
  <1>1. Spec => []IInv
    BY InitIInv, NextIInv, PTL DEF Spec
  <1>2. IInv /\ [Next]_vars => [\A n \in Names : (endpoints[n] # Absent /\ endpoints'[n] = Absent) =>
          \E p \in Pods : \/ HandlerActive(p)
                          \/ pc[p] = "delete" /\ n \notin ClusterNames(hash[p])]_vars
    BY DropStep
  <1>3. QED BY <1>1, <1>2, PTL DEF Spec, DropsOnlyObsolete

-----------------------------------------------------------------------------
(* Operator implements Reconciler.                                           *)

(* Only these three change which Endpoints there are.                        *)
LEMMA EndpointsChange ==
    ASSUME [Next]_vars, endpoints' # endpoints
    PROVE  \E p \in Pods : CreateEndpoints(p) \/ DeleteEndpoints(p) \/ HandlerDeleteEndpoints(p)
  BY DEF Next, vars, store, MainStep, HandlerStep, Environment, Change, Start, Query,
         ListEndpoints, UnnamedCluster, UpdateEndpointIfNeed, CreateService,
         DeleteServiceEndpointIfNeed, DeleteService, ListServiceMonitors,
         CreateServiceMonitor, UpdateServiceMonitor, Wake, HandlerList, HandlerListFails,
         HandlerDeleteService, HandlerDeleteMonitor, Sigterm, Kill, Crash

(* Only these two change a hash, and they change nothing of the handlers.    *)
LEMMA HashChange ==
    ASSUME [Next]_vars, hash' # hash
    PROVE  hpc' = hpc /\ endpoints' = endpoints
  <1>1. PICK p \in Pods : Start(p) \/ Query(p)
    BY DEF Next, vars, main, MainStep, HandlerStep, Environment, Change,
           ListEndpoints, UnnamedCluster, UpdateEndpointIfNeed, CreateService, CreateEndpoints,
           DeleteServiceEndpointIfNeed, DeleteEndpoints, DeleteService, ListServiceMonitors,
           CreateServiceMonitor, UpdateServiceMonitor, Wake, HandlerList, HandlerListFails,
           HandlerDeleteEndpoints, HandlerDeleteService, HandlerDeleteMonitor, Sigterm, Kill, Crash
  <1>2. QED BY <1>1 DEF Start, Query, handler, store

LEMMA TargetKept == ASSUME hash' = hash PROVE Target' = Target /\ Informed' = Informed
  BY DEF Target, Informed, ClusterNames, ClustersOf

LEMMA CleaningKept == ASSUME hpc' = hpc PROVE Cleaning' = Cleaning
  BY DEF Cleaning, HandlerActive

LEMMA PublishedKept == ASSUME endpoints' = endpoints PROVE Present(endpoints)' = Present(endpoints)
  BY DEF Present

(* What is added belongs to the target of the pod that adds it.              *)
LEMMA Adds ==
    ASSUME IInv, NEW p \in Pods, CreateEndpoints(p)
    PROVE  \/ Present(endpoints)' = Present(endpoints)
           \/ /\ p \in Informed /\ Lower[cur[p]] \in Target[p] /\ Lower[cur[p]] \in Names
              /\ Present(endpoints)' = Present(endpoints) \cup {Lower[cur[p]]}
  <1> DEFINE n == Lower[cur[p]]
  <1>1. /\ cur[p] \in Clusters /\ hash[p] \in Texts /\ n \in Names
        /\ cur[p] \in ClustersOf(hash[p]) \ {NoCluster}
    BY LowerAssumption DEF CreateEndpoints, MainAt, IInv, TypeOK, InPass, PassInv
  <1>2. hash[p] # None /\ n \in ClusterNames(hash[p]) /\ ClusterNames(hash[p]) \subseteq Names
    BY <1>1, TextAssumption, TextTypes DEF ClusterNames
  <1>3. NewEndpoint(hash[p], cur[p]) # Absent
    BY <1>1, TextTypes, AbsentAssumption
  <1>4. endpoints \in [Names -> Endpoint \cup {Absent}]
    BY DEF IInv, TypeOK
  <1>5. Target[p] = ClusterNames(hash[p])
    BY <1>2 DEF Target
  <1>6. \/ endpoints' = endpoints
        \/ endpoints' = [endpoints EXCEPT ![n] = NewEndpoint(hash[p], cur[p])]
    BY DEF CreateEndpoints, Put
  <1>7. \/ Present(endpoints)' = Present(endpoints)
        \/ Present(endpoints)' = Present(endpoints) \cup {n}
    BY <1>1, <1>3, <1>4, <1>6 DEF Present
  <1>8. p \in Informed
    BY <1>2 DEF Informed
  <1>9. QED BY <1>1, <1>2, <1>5, <1>7, <1>8

(* What is dropped is no part of the target of the pod that drops it, or     *)
(* that pod is cleaning up.                                                  *)
LEMMA Drops ==
    ASSUME IInv, NEW p \in Pods, DeleteEndpoints(p) \/ HandlerDeleteEndpoints(p)
    PROVE  \/ Present(endpoints)' = Present(endpoints)
           \/ \E n \in Names :
                 /\ p \in Cleaning \/ (p \in Informed /\ n \notin Target[p])
                 /\ Present(endpoints)' = Present(endpoints) \ {n}
  <1>1. endpoints \in [Names -> Endpoint \cup {Absent}]
    BY DEF IInv, TypeOK
  <1>2. ASSUME NEW n \in Names, NEW o \in Outcomes, RemoveEndpoints(p, n, o)
        PROVE  \/ Present(endpoints)' = Present(endpoints)
               \/ Present(endpoints)' = Present(endpoints) \ {n}
    BY <1>1, <1>2 DEF RemoveEndpoints, Put, Present
  <1>3. CASE DeleteEndpoints(p)
    <2>1. PICK n \in doomed[p], o \in Outcomes : RemoveEndpoints(p, n, o)
      BY <1>3 DEF DeleteEndpoints
    <2>2. doomed[p] \subseteq Obsoleted(p) /\ hash[p] \in Texts
      BY <1>3 DEF DeleteEndpoints, MainAt, IInv, PassInv, TypeOK, InPass
    <2>3. n \in Names /\ n \notin ClusterNames(hash[p]) /\ hash[p] # None
      BY <2>1, <2>2, TextAssumption DEF Obsoleted, Present
    <2>4. p \in Informed /\ n \notin Target[p]
      BY <2>3 DEF Informed, Target
    <2>5. QED BY <1>2, <2>1, <2>3, <2>4
  <1>4. CASE HandlerDeleteEndpoints(p)
    <2>1. PICK n \in hdoomed[p], o \in Outcomes : RemoveEndpoints(p, n, o)
      BY <1>4 DEF HandlerDeleteEndpoints
    <2>2. n \in Names /\ p \in Cleaning
      BY <1>4, <2>1 DEF HandlerDeleteEndpoints, HandlerActive, Cleaning, IInv, TypeOK
    <2>3. QED BY <1>2, <2>1, <2>2
  <1>5. QED BY <1>3, <1>4

(* These three leave the hashes alone, and whether a handler runs.           *)
LEMMA EndpointsOnly ==
    ASSUME IInv, NEW p \in Pods,
           CreateEndpoints(p) \/ DeleteEndpoints(p) \/ HandlerDeleteEndpoints(p)
    PROVE  hash' = hash /\ Cleaning' = Cleaning
  <1>1. hash' = hash
    BY DEF CreateEndpoints, DeleteEndpoints, HandlerDeleteEndpoints, main
  <1>2. CASE CreateEndpoints(p) \/ DeleteEndpoints(p)
    <2>1. hpc' = hpc
      BY <1>2 DEF CreateEndpoints, DeleteEndpoints, handler
    <2>2. QED BY <1>1, <2>1, CleaningKept
  <1>3. CASE HandlerDeleteEndpoints(p)
    <2>1. /\ hpc[p] = "delete" /\ hpc'[p] \in {"delete", "delSvc"}
          /\ \A q \in Pods \ {p} : hpc'[q] = hpc[q]
      <3>1. hpc[p] = "delete" /\ (hpc' = hpc \/ hpc' = [hpc EXCEPT ![p] = "delSvc"])
        BY <1>3 DEF HandlerDeleteEndpoints
      <3>2. QED BY <3>1 DEF IInv, TypeOK
    <2>2. QED BY <1>1, <2>1 DEF Cleaning, HandlerActive
  <1>4. QED BY <1>2, <1>3

LEMMA AbstractInit == Init => Abstract!Init
  BY DEF Init, Abstract!Init, Informed, Target, Cleaning, HandlerActive, Present

LEMMA AbstractStep ==
    ASSUME IInv, IInv', [Next]_vars
    PROVE  [Abstract!Next]_Abstract!rvars
  <1>1. /\ Informed' \in SUBSET Pods /\ Cleaning' \in SUBSET Pods
        /\ Target' \in [Pods -> SUBSET Names]
    <2>1. ASSUME NEW p \in Pods, hash'[p] # None PROVE ClusterNames(hash[p])' \subseteq Names
      <3>1. hash'[p] \in Texts
        BY <2>1 DEF IInv, TypeOK
      <3>2. QED BY <3>1, TextTypes DEF ClusterNames, ClustersOf
    <2>2. Target' \in [Pods -> SUBSET Names]
      BY <2>1 DEF Target
    <2>3. QED BY <2>2 DEF Informed, Cleaning
  <1>2. CASE hash' # hash
    <2>1. Cleaning' = Cleaning /\ Present(endpoints)' = Present(endpoints)
      BY <1>2, HashChange, CleaningKept, PublishedKept
    <2>2. Abstract!Retarget
      BY <1>1, <2>1 DEF Abstract!Retarget
    <2>3. QED BY <2>2 DEF Abstract!Next
  <1>3. CASE hash' = hash /\ endpoints' = endpoints
    <2>1. /\ Target' = Target /\ Informed' = Informed
          /\ Present(endpoints)' = Present(endpoints)
      BY <1>3, TargetKept, PublishedKept
    <2>2. Abstract!Clean
      BY <1>1, <2>1 DEF Abstract!Clean
    <2>3. QED BY <2>2 DEF Abstract!Next
  <1>4. CASE hash' = hash /\ endpoints' # endpoints
    <2>1. PICK p \in Pods : CreateEndpoints(p) \/ DeleteEndpoints(p) \/ HandlerDeleteEndpoints(p)
      BY <1>4, EndpointsChange
    <2>2. Target' = Target /\ Informed' = Informed /\ Cleaning' = Cleaning
      BY <1>4, <2>1, TargetKept, EndpointsOnly
    <2>3. CASE Present(endpoints)' = Present(endpoints)
      BY <2>2, <2>3 DEF Abstract!rvars
    <2>4. CASE CreateEndpoints(p) /\ Present(endpoints)' # Present(endpoints)
      <3>1. Abstract!Publish
        BY <2>2, <2>4, Adds DEF Abstract!Publish
      <3>2. QED BY <3>1 DEF Abstract!Next
    <2>5. CASE /\ DeleteEndpoints(p) \/ HandlerDeleteEndpoints(p)
               /\ Present(endpoints)' # Present(endpoints)
      <3>1. Abstract!Withdraw
        BY <2>2, <2>5, Drops DEF Abstract!Withdraw
      <3>2. QED BY <3>1 DEF Abstract!Next
    <2>6. QED BY <2>1, <2>3, <2>4, <2>5
  <1>5. QED BY <1>2, <1>3, <1>4

(* Operator implements Reconciler: however passes, handlers, crashes and     *)
(* failing calls interleave, a name appears only while some pod's text has   *)
(* it, and disappears only while some pod's text lacks it or its handler     *)
(* cleans up.                                                                *)
THEOREM OperatorRefines == Spec => RefinesReconciler
  <1>1. Spec => []IInv
    BY InitIInv, NextIInv, PTL DEF Spec
  <1>2. QED
    BY <1>1, AbstractInit, AbstractStep, PTL DEF Spec, RefinesReconciler, Abstract!Spec

=============================================================================

------------------------- MODULE OperatorRestProofs -------------------------
(* What is left when a pass or a handler has come to its end: MonitorSynced, *)
(* QuietSynced and CleanupComplete, for every set of pods, clusters and      *)
(* texts.                                                                    *)
EXTENDS OperatorProofs

-----------------------------------------------------------------------------
(* MonitorSynced.                                                            *)

AtRest(q) == pc[q] \in {"sleep", "query"}
MonitorOK(q) ==
    (AtRest(q) /\ Monitor \notin disturbed[q] /\ Label = MonitorName)
    => monitors[Label] = ServiceMonitorEndPoints(hash[q])

LEMMA MonitorInEverything == Monitor \in Everything
  BY DEF Everything

(* A step that leaves the monitor alone and brings q to rest either makes it *)
(* vouch for the monitor no more, or found it at rest with that text.        *)
LEMMA MonitorKept ==
    ASSUME NEW q \in Pods, MonitorOK(q), monitors' = monitors,
           AtRest(q)' => \/ Monitor \in disturbed'[q]
                         \/ AtRest(q) /\ hash'[q] = hash[q] /\ Monitor \notin disturbed[q]
    PROVE  MonitorOK(q)'
  BY DEF MonitorOK, ServiceMonitorEndPoints

(* Another pod's step.                                                       *)
LEMMA MonitorFrame ==
    ASSUME NEW q \in Pods, MonitorOK(q), monitors' = monitors, MainKept(q),
           disturbed[q] \subseteq disturbed'[q]
    PROVE  MonitorOK(q)'
  <1>1. AtRest(q)' => AtRest(q) /\ hash'[q] = hash[q]
    BY DEF AtRest, MainKept
  <1>2. QED BY <1>1, MonitorKept

(* The two calls that write it.                                              *)
LEMMA MonitorWritten ==
    ASSUME IInv, \A q \in Pods : MonitorOK(q), NEW p \in Pods, NEW v, NEW o \in Outcomes,
           WriteMonitor(p, Label, v, o), UNCHANGED hash,
           \A q \in Pods \ {p} : pc'[q] = pc[q],
           v = ServiceMonitorEndPoints(hash[p]) \/ disturbed[p] = Everything
    PROVE  \A q \in Pods : MonitorOK(q)'
  <1> TAKE q \in Pods
  <1>1. /\ \A r \in Pods : disturbed[r] \subseteq disturbed'[r]
        /\ \A r \in Pods \ {p} : o # "refused" => Monitor \in disturbed'[r]
        /\ o # "ok" => Monitor \in disturbed'[p]
    BY TouchEffect, MonitorInEverything DEF WriteMonitor, IInv
  <1>2. CASE q # p /\ o = "refused"
    <2>1. monitors' = monitors /\ (AtRest(q)' => AtRest(q))
      BY <1>2 DEF WriteMonitor, AtRest
    <2>2. QED BY <1>1, <2>1, MonitorKept
  <1>3. CASE q # p /\ o # "refused"
    BY <1>1, <1>3 DEF MonitorOK
  <1>4. CASE q = p /\ (o # "ok" \/ disturbed[p] = Everything)
    BY <1>1, <1>4, MonitorInEverything DEF MonitorOK
  <1>5. CASE q = p /\ o = "ok" /\ disturbed[p] # Everything
    <2>1. monitors'[Label] = v
      BY <1>5 DEF WriteMonitor, Put, IInv, TypeOK, MonitorNames
    <2>2. ServiceMonitorEndPoints(hash[q])' = ServiceMonitorEndPoints(hash[q])
      BY DEF ServiceMonitorEndPoints
    <2>3. QED BY <1>5, <2>1, <2>2 DEF MonitorOK
  <1>6. QED BY <1>2, <1>3, <1>4, <1>5

(* A step of p that does not write the monitor.                              *)
LEMMA MonitorOnePod ==
    ASSUME NEW p \in Pods, \A q \in Pods : MonitorOK(q), monitors' = monitors,
           \A q \in Pods \ {p} : MainKept(q) /\ disturbed[q] \subseteq disturbed'[q],
           AtRest(p)' => \/ Monitor \in disturbed'[p]
                         \/ AtRest(p) /\ hash'[p] = hash[p] /\ Monitor \notin disturbed[p]
    PROVE  \A q \in Pods : MonitorOK(q)'
  BY MonitorFrame, MonitorKept

LEMMA MonitorStep ==
    ASSUME IInv, \A q \in Pods : MonitorOK(q), [Next]_vars, Label = MonitorName
    PROVE  \A q \in Pods : MonitorOK(q)'
  <1> DEFINE Goal == \A q \in Pods : MonitorOK(q)'
  <1>0. /\ disturbed \in [Pods -> SUBSET Everything]
        /\ pc \in [Pods -> MainStates] /\ hash \in [Pods -> Texts \cup {None}]
    BY DEF IInv, TypeOK
  <1>1. CASE UNCHANGED vars \/ Change
    <2>1. \A q \in Pods : /\ MainKept(q) /\ disturbed[q] \subseteq disturbed'[q]
                          /\ monitors' = monitors
      BY <1>1 DEF vars, Change, MainKept, main, store
    <2>2. QED BY <2>1, MonitorFrame
  <1>2. ASSUME NEW p \in Pods, Start(p) PROVE Goal
    <2>1. disturbed' = disturbed /\ disturbed[p] = Everything /\ monitors' = monitors
      BY <1>2 DEF Start, IInv, PassInv, store
    <2>2. \A q \in Pods \ {p} : MainKept(q)
      BY <1>0, <1>2 DEF Start, Goto, MainKept
    <2>3. QED BY <2>1, <2>2, MonitorInEverything, MonitorOnePod
  <1>3. ASSUME NEW p \in Pods, Query(p) PROVE Goal
    <2>1. \A q \in Pods \ {p} : MainKept(q) /\ disturbed'[q] = disturbed[q]
      BY <1>0, <1>3 DEF Query, Goto, Vouch, MainKept
    <2>2. \/ disturbed' = disturbed /\ hash' = hash
          \/ disturbed'[p] = Everything
      BY <1>0, <1>3 DEF Query, Vouch
    <2>3. AtRest(p) /\ monitors' = monitors
      BY <1>3 DEF Query, MainAt, AtRest, store
    <2>4. QED BY <2>1, <2>2, <2>3, MonitorInEverything, MonitorOnePod
  <1>4. ASSUME NEW p \in Pods, ListEndpoints(p) PROVE Goal
    <2>1. \A q \in Pods \ {p} : MainKept(q) /\ disturbed'[q] = disturbed[q]
      BY <1>0, <1>4 DEF ListEndpoints, Goto, Vouch, MainKept, IInv, TypeOK
    <2>2. pc'[p] = "clusters" \/ disturbed' = disturbed
      BY <1>0, <1>4 DEF ListEndpoints, Goto
    <2>3. disturbed[p] = Everything /\ monitors' = monitors
      BY <1>4 DEF ListEndpoints, MainAt, IInv, PassInv, store
    <2>4. QED BY <2>1, <2>2, <2>3, MonitorInEverything, MonitorOnePod DEF AtRest
  <1>5. ASSUME NEW p \in Pods, UnnamedCluster(p) \/ Crash(p) \/ Sigterm(p) PROVE Goal
    <2>1. \A q \in Pods \ {p} : MainKept(q) /\ disturbed'[q] = disturbed[q]
      BY <1>0, <1>5 DEF UnnamedCluster, Crash, Sigterm, Goto, Vouch, MainKept
    <2>2. disturbed'[p] = Everything /\ monitors' = monitors
      BY <1>0, <1>5 DEF UnnamedCluster, Crash, Sigterm, Vouch, store
    <2>3. QED BY <2>1, <2>2, MonitorInEverything, MonitorOnePod
  <1>6. ASSUME NEW p \in Pods,
               UpdateEndpointIfNeed(p) \/ DeleteServiceEndpointIfNeed(p) \/ Kill(p)
        PROVE  Goal
    <2>1. \A q \in Pods \ {p} : MainKept(q)
      BY <1>0, <1>6 DEF UpdateEndpointIfNeed, DeleteServiceEndpointIfNeed, Kill, Goto, MainKept, IInv, TypeOK
    <2>2. disturbed' = disturbed /\ monitors' = monitors
      BY <1>6 DEF UpdateEndpointIfNeed, DeleteServiceEndpointIfNeed, Kill, store
    <2>3. pc'[p] \in {"clusters", "delete", "gone"}
      BY <1>0, <1>6 DEF UpdateEndpointIfNeed, DeleteServiceEndpointIfNeed, Kill, Goto, MainAt
    <2>4. QED BY <2>1, <2>2, <2>3, MonitorOnePod DEF AtRest
  <1>7. ASSUME NEW p \in Pods, CreateService(p) \/ CreateEndpoints(p) \/ DeleteEndpoints(p) \/ DeleteService(p)
        PROVE  Goal
    <2>1. \E x \in Everything, o \in Outcomes : Touch(p, x, o)
      <3>1. CASE CreateService(p)
        <4>1. PICK c \in todo[p] \ {NoCluster}, o \in Outcomes : Touch(p, Lower[c], o)
          BY <3>1 DEF CreateService
        <4>2. Lower[c] \in Everything
          BY <4>1, LowerAssumption DEF IInv, TypeOK, Everything
        <4>3. QED BY <4>1, <4>2
      <3>2. CASE CreateEndpoints(p)
        <4>1. PICK o \in Outcomes : Touch(p, Lower[cur[p]], o)
          BY <3>2 DEF CreateEndpoints
        <4>2. Lower[cur[p]] \in Everything
          BY <3>2, LowerAssumption DEF CreateEndpoints, MainAt, IInv, TypeOK, Everything
        <4>3. QED BY <4>1, <4>2
      <3>3. CASE DeleteEndpoints(p)
        <4>1. PICK n \in doomed[p], o \in Outcomes : Touch(p, n, o)
          BY <3>3 DEF DeleteEndpoints, RemoveEndpoints
        <4>2. n \in Everything
          BY <4>1 DEF IInv, TypeOK, Everything
        <4>3. QED BY <4>1, <4>2
      <3>4. CASE DeleteService(p)
        <4>1. PICK o \in Outcomes : Touch(p, cur[p], o)
          BY <3>4 DEF DeleteService, RemoveService
        <4>2. cur[p] \in Everything
          BY <3>4 DEF DeleteService, MainAt, IInv, TypeOK, Everything
        <4>3. QED BY <4>1, <4>2
      <3>5. QED BY <1>7, <3>1, <3>2, <3>3, <3>4
    <2>2. \A q \in Pods : disturbed[q] \subseteq disturbed'[q]
      BY <2>1, TouchEffect DEF IInv
    <2>3. monitors' = monitors /\ hash' = hash /\ endpointDict' = endpointDict
      BY <1>7 DEF CreateService, CreateEndpoints, DeleteEndpoints, DeleteService
    <2>4. \A q \in Pods \ {p} : MainKept(q)
      <3>1. CASE CreateService(p)
        BY <1>0, <2>3, <3>1 DEF CreateService, Goto, MainKept, IInv, TypeOK
      <3>2. CASE CreateEndpoints(p)
        BY <1>0, <2>3, <3>2 DEF CreateEndpoints, Goto, MainKept, IInv, TypeOK
      <3>3. CASE DeleteEndpoints(p)
        BY <1>0, <2>3, <3>3 DEF DeleteEndpoints, Goto, MainKept, IInv, TypeOK
      <3>4. CASE DeleteService(p)
        BY <1>0, <2>3, <3>4 DEF DeleteService, Goto, MainKept, IInv, TypeOK
      <3>5. QED BY <1>7, <3>1, <3>2, <3>3, <3>4
    <2>5. pc'[p] \in {"createEp", "clusters", "delete", "delSvc"}
      BY <1>0, <1>7 DEF CreateService, CreateEndpoints, DeleteEndpoints, DeleteService, Goto, MainAt
    <2>6. QED BY <2>2, <2>3, <2>4, <2>5, MonitorOnePod DEF AtRest
  <1>8. ASSUME NEW p \in Pods, ListServiceMonitors(p) PROVE Goal
    <2>1. \A q \in Pods \ {p} : MainKept(q) /\ disturbed'[q] = disturbed[q]
      BY <1>0, <1>8 DEF ListServiceMonitors, Goto, MainKept
    <2>2. pc'[p] \in {"createMon", "patchMon"} \/ Monitor \in disturbed'[p]
      BY <1>0, <1>8 DEF ListServiceMonitors, Goto
    <2>3. monitors' = monitors
      BY <1>8 DEF ListServiceMonitors, store
    <2>4. QED BY <2>1, <2>2, <2>3, MonitorOnePod DEF AtRest
  <1>9. ASSUME NEW p \in Pods, CreateServiceMonitor(p) \/ UpdateServiceMonitor(p) PROVE Goal
    <2>1. \E o \in Outcomes : WriteMonitor(p, Label, ServiceMonitorEndPoints(hash[p]), o)
      <3>1. CASE CreateServiceMonitor(p)
        BY <3>1 DEF CreateServiceMonitor
      <3>2. CASE UpdateServiceMonitor(p)
        BY <3>2 DEF UpdateServiceMonitor
      <3>3. QED BY <1>9, <3>1, <3>2
    <2>2. UNCHANGED hash /\ \A q \in Pods \ {p} : pc'[q] = pc[q]
      BY <1>0, <1>9 DEF CreateServiceMonitor, UpdateServiceMonitor, Goto
    <2>3. QED BY <2>1, <2>2, MonitorWritten
  <1>10. ASSUME NEW p \in Pods, Wake(p) PROVE Goal
    <2>1. \A q \in Pods \ {p} : MainKept(q)
      BY <1>0, <1>10 DEF Wake, Goto, MainKept
    <2>2. disturbed' = disturbed /\ monitors' = monitors /\ hash' = hash /\ AtRest(p)
      BY <1>10 DEF Wake, MainAt, AtRest, store
    <2>3. QED BY <2>1, <2>2, MonitorOnePod
  <1>11. ASSUME NEW p \in Pods, HandlerListFails(p) PROVE Goal
    <2>1. \A q \in Pods \ {p} : MainKept(q)
      BY <1>0, <1>11 DEF HandlerListFails, SkipCall, Goto, MainKept, IInv, TypeOK
    <2>2. disturbed' = disturbed /\ monitors' = monitors /\ disturbed[p] = Everything
      BY <1>11 DEF HandlerListFails, HandlerActive, IInv, PassInv, store
    <2>3. QED BY <2>1, <2>2, MonitorInEverything, MonitorOnePod
  <1>12. ASSUME NEW p \in Pods,
                HandlerList(p) \/ HandlerDeleteEndpoints(p) \/ HandlerDeleteService(p)
         PROVE  Goal
    <2>1. \A q \in Pods : MainKept(q)
      BY <1>12 DEF HandlerList, HandlerDeleteEndpoints, HandlerDeleteService, main, MainKept
    <2>2. \A q \in Pods : disturbed[q] \subseteq disturbed'[q]
      <3>1. CASE HandlerList(p)
        BY <3>1 DEF HandlerList
      <3>2. CASE HandlerDeleteEndpoints(p)
        <4>1. PICK n \in hdoomed[p], o \in Outcomes : Touch(p, n, o)
          BY <3>2 DEF HandlerDeleteEndpoints, RemoveEndpoints
        <4>2. n \in Everything
          BY <4>1 DEF IInv, TypeOK, Everything
        <4>3. QED BY <4>1, <4>2, TouchEffect DEF IInv
      <3>3. CASE HandlerDeleteService(p)
        <4>1. PICK o \in Outcomes : Touch(p, hcur[p], o)
          BY <3>3 DEF HandlerDeleteService, RemoveService
        <4>2. hcur[p] \in Everything
          BY <3>3 DEF HandlerDeleteService, IInv, TypeOK, Everything
        <4>3. QED BY <4>1, <4>2, TouchEffect DEF IInv
      <3>4. QED BY <1>12, <3>1, <3>2, <3>3
    <2>3. monitors' = monitors
      BY <1>12 DEF HandlerList, HandlerDeleteEndpoints, HandlerDeleteService, store
    <2>4. QED BY <2>1, <2>2, <2>3, MonitorFrame
  <1>13. ASSUME NEW p \in Pods, HandlerDeleteMonitor(p) PROVE Goal
    <2>1. PICK o \in Outcomes : WriteMonitor(p, Label, Absent, o)
      BY <1>13 DEF HandlerDeleteMonitor
    <2>2. UNCHANGED hash /\ pc' = pc /\ disturbed[p] = Everything
      BY <1>13 DEF HandlerDeleteMonitor, main, IInv, PassInv, HandlerActive
    <2>3. QED BY <2>1, <2>2, MonitorWritten
  <1>14. QED
    BY <1>1, <1>2, <1>3, <1>4, <1>5, <1>6, <1>7, <1>8, <1>9, <1>10, <1>11, <1>12, <1>13
    DEF Next, MainStep, HandlerStep, Environment

(* With the monitor's two names one, a pass whose monitor call was answered  *)
(* leaves the monitor with the paths of its text.                            *)
THEOREM MonitorSyncs == Spec => []MonitorSynced
  <1>1. CASE Label = MonitorName
    <2> DEFINE Inv == IInv /\ \A q \in Pods : MonitorOK(q)
    <2>1. Init => Inv
      <3> SUFFICES ASSUME Init PROVE Inv
        OBVIOUS
      <3>1. IInv
        BY InitIInv
      <3>2. \A q \in Pods : pc[q] = "new"
        BY DEF Init
      <3>3. QED BY <3>1, <3>2 DEF MonitorOK, AtRest
    <2>2. Inv /\ [Next]_vars => Inv'
      BY <1>1, NextIInv, MonitorStep
    <2>3. Inv => MonitorSynced
      BY DEF MonitorOK, AtRest, MonitorSynced
    <2>4. QED BY <2>1, <2>2, <2>3, PTL DEF Spec
  <1>2. CASE Label # MonitorName
    <2>1. MonitorSynced
      BY <1>2 DEF MonitorSynced
    <2>2. QED BY <2>1, PTL
  <1>3. QED BY <1>1, <1>2

-----------------------------------------------------------------------------
(* QuietSynced.                                                              *)

(* While no call failed and no handler ran, every pod goes through its pass  *)
(* call by call.  Once all that run work on the same text, each difference   *)
(* between the objects and that text is on some pod's list.                  *)
Settled(p, t) ==
    /\ pc[p] \in {"clusters", "createEp", "delete", "delSvc",
                  "createMon", "patchMon", "sleep", "query"}
    /\ hash[p] = t
Running == \E p \in Pods : pc[p] # "new"
Matched(n, t) == endpoints[n] # Absent <=> n \in ClusterNames(t)
ToCreate(p, n) ==
    /\ pc[p] \in {"clusters", "createEp"}
    /\ endpointDict[p][n] = Absent
    /\ \E c \in todo[p] \ {NoCluster} : Lower[c] = n
ToDelete(p, n) ==
    \/ /\ pc[p] \in {"clusters", "createEp"}
       /\ endpointDict[p][n] # Absent /\ n \notin ClusterNames(hash[p])
    \/ pc[p] \in {"delete", "delSvc"} /\ n \in doomed[p]
Pending(p, n) == ToCreate(p, n) \/ ToDelete(p, n)
NamesInv(t) ==
    (Running /\ \A p \in Pods : pc[p] = "new" \/ Settled(p, t)) =>
       \A n \in Names : Matched(n, t) \/ \E p \in Pods : Pending(p, n)

(* The same of the monitor, once all are past their deletions.               *)
Past(p, t) == PastDeletions(p) /\ hash[p] = t
ToWrite(p) == \/ pc[p] = "createMon" /\ monitors[Label] = Absent
              \/ pc[p] = "patchMon" /\ ~stale[p]
MonitorInv(t) ==
    (Running /\ \A p \in Pods : pc[p] = "new" \/ Past(p, t)) =>
       MonitorMatches(t) \/ \E p \in Pods : ToWrite(p)

(* A pod that is alone makes the Service first and deletes it last.          *)
ServicesInv ==
    \A p \in Pods : Pods = {p} =>
       /\ Present(endpoints) \subseteq services
       /\ pc[p] = "createEp" => Lower[cur[p]] \in services
       /\ pc[p] = "delSvc" => endpoints[cur[p]] = Absent

Calm == \A p \in Pods : hpc[p] = "off" /\ pc[p] # "gone"
TextsInv == \A t \in Texts : Usable(t) => /\ NamesInv(t)
                                          /\ Label = MonitorName => MonitorInv(t)
QuietInv == Unharmed => Calm /\ TextsInv /\ ServicesInv

-----------------------------------------------------------------------------
(* Counters only grow, and a call that was paid for nothing was answered.    *)
LEMMA SpentUp ==
    ASSUME TypeOK, NEW k \in Kinds, Spend(k)
    PROVE  /\ spent'[k] # 0
           /\ \A j \in Kinds : spent'[j] = 0 => spent[j] = 0
  BY DEF TypeOK, Spend

LEMMA NoneSpent ==
    ASSUME TypeOK, Unharmed, Unharmed'
    PROVE  ~Spend("fault") /\ ~Spend("term") /\ \A o : Pay(o) => o = "ok"
  BY SpentUp DEF Unharmed, Kinds, Pay

LEMMA SpentKept ==
    ASSUME TypeOK, UNCHANGED spent \/ (\E k \in Kinds : Spend(k)), Unharmed'
    PROVE  Unharmed
  BY SpentUp DEF Unharmed, Kinds

LEMMA SpentStep ==
    ASSUME [Next]_vars
    PROVE  UNCHANGED spent \/ \E k \in Kinds : Spend(k)
  <1>1. "fault" \in Kinds /\ "crash" \in Kinds /\ "change" \in Kinds /\ "term" \in Kinds
    BY DEF Kinds
  <1>2. ASSUME NEW o, Pay(o) PROVE UNCHANGED spent \/ \E k \in Kinds : Spend(k)
    BY <1>1, <1>2 DEF Pay
  <1>3. CASE UNCHANGED vars \/ Change
    BY <1>1, <1>3 DEF vars, Change
  <1>4. ASSUME NEW p \in Pods, MainStep(p) PROVE UNCHANGED spent \/ \E k \in Kinds : Spend(k)
    <2>1. CASE Start(p) \/ UnnamedCluster(p) \/ UpdateEndpointIfNeed(p)
               \/ DeleteServiceEndpointIfNeed(p) \/ Wake(p)
      BY <2>1 DEF Start, UnnamedCluster, UpdateEndpointIfNeed, DeleteServiceEndpointIfNeed, Wake
    <2>2. CASE Query(p) \/ ListEndpoints(p) \/ ListServiceMonitors(p)
      BY <1>1, <2>2 DEF Query, ListEndpoints, ListServiceMonitors
    <2>3. CASE CreateService(p) \/ CreateEndpoints(p)
      BY <1>2, <2>3 DEF CreateService, CreateEndpoints
    <2>4. CASE DeleteEndpoints(p) \/ DeleteService(p)
      BY <1>2, <2>4 DEF DeleteEndpoints, DeleteService, RemoveEndpoints, RemoveService
    <2>5. CASE CreateServiceMonitor(p) \/ UpdateServiceMonitor(p)
      BY <1>2, <2>5 DEF CreateServiceMonitor, UpdateServiceMonitor
    <2>6. QED BY <1>4, <2>1, <2>2, <2>3, <2>4, <2>5 DEF MainStep
  <1>5. ASSUME NEW p \in Pods, HandlerStep(p) PROVE UNCHANGED spent \/ \E k \in Kinds : Spend(k)
    <2>1. CASE HandlerList(p) \/ HandlerListFails(p)
      BY <1>1, <2>1 DEF HandlerList, HandlerListFails
    <2>2. CASE HandlerDeleteEndpoints(p) \/ HandlerDeleteService(p) \/ HandlerDeleteMonitor(p)
      BY <1>2, <2>2 DEF HandlerDeleteEndpoints, HandlerDeleteService, HandlerDeleteMonitor,
                        RemoveEndpoints, RemoveService
    <2>3. QED BY <1>5, <2>1, <2>2 DEF HandlerStep
  <1>6. ASSUME NEW p \in Pods, Environment(p) PROVE UNCHANGED spent \/ \E k \in Kinds : Spend(k)
    BY <1>1, <1>6 DEF Environment, Sigterm, Kill, Crash
  <1>7. QED BY <1>3, <1>4, <1>5, <1>6 DEF Next

(* Without failed calls and signals only the passes and crashes are left.    *)
LEMMA CalmStep ==
    ASSUME IInv, Unharmed, Unharmed', Calm, [Next]_vars
    PROVE  /\ Calm'
           /\ UNCHANGED vars \/ Change \/ \E p \in Pods : MainStep(p) \/ Crash(p)
  <1>0. TypeOK /\ ~Spend("term")
    BY NoneSpent DEF IInv
  <1>1. UNCHANGED vars \/ Change \/ \E p \in Pods : MainStep(p) \/ Crash(p)
    BY <1>0 DEF Next, Environment, HandlerStep, Sigterm, Kill, Calm, HandlerList, HandlerListFails,
                HandlerDeleteEndpoints, HandlerDeleteService, HandlerDeleteMonitor
  <1>2. hpc' = hpc
    BY <1>1 DEF vars, handler, Change, Crash, MainStep, Start, Query, ListEndpoints, UnnamedCluster,
           UpdateEndpointIfNeed, CreateService, CreateEndpoints, DeleteServiceEndpointIfNeed,
           DeleteEndpoints, DeleteService, ListServiceMonitors, CreateServiceMonitor,
           UpdateServiceMonitor, Wake
  <1>3. \A p \in Pods : pc'[p] # "gone"
    <2>1. CASE UNCHANGED vars \/ Change
      BY <2>1 DEF vars, main, Change, Calm
    <2>2. ASSUME NEW p \in Pods, MainStep(p) \/ Crash(p) PROVE \A q \in Pods : pc'[q] # "gone"
      <3>1. pc' = pc \/ \E s \in MainStates \ {"gone"} : Goto(p, s)
        <4>1. MainStates \ {"gone"} = {"new", "start", "query", "list", "clusters", "createEp",
                  "delete", "delSvc", "createMon", "patchMon", "sleep"}
          BY DEF MainStates
        <4>2. CASE MainStep(p)
          BY <4>1, <4>2 DEF MainStep, Start, Query, ListEndpoints, UnnamedCluster,
               UpdateEndpointIfNeed, CreateService, CreateEndpoints, DeleteServiceEndpointIfNeed,
               DeleteEndpoints, DeleteService, ListServiceMonitors, CreateServiceMonitor,
               UpdateServiceMonitor, Wake
        <4>3. CASE Crash(p)
          BY <4>1, <4>3 DEF Crash
        <4>4. QED BY <2>2, <4>2, <4>3
      <3>2. QED BY <1>0, <3>1 DEF Calm, Goto, TypeOK
    <2>3. QED BY <1>1, <2>1, <2>2
  <1>4. QED BY <1>1, <1>2, <1>3 DEF Calm

(* A pass changes its own pod's variables only.                              *)
LEMMA OthersKept ==
    ASSUME TypeOK, NEW p \in Pods, MainStep(p) \/ Crash(p)
    PROVE  \A q \in Pods \ {p} : MainKept(q)
  <1>1. CASE Start(p) \/ Query(p) \/ Crash(p)
    BY <1>1 DEF Start, Query, Crash, Goto, MainKept, TypeOK
  <1>2. CASE ListEndpoints(p)
    BY <1>2 DEF ListEndpoints, Goto, MainKept, TypeOK
  <1>3. CASE UnnamedCluster(p) \/ UpdateEndpointIfNeed(p)
    BY <1>3 DEF UnnamedCluster, UpdateEndpointIfNeed, Goto, MainKept, TypeOK
  <1>4. CASE CreateService(p) \/ CreateEndpoints(p)
    BY <1>4 DEF CreateService, CreateEndpoints, Goto, MainKept, TypeOK
  <1>5. CASE DeleteServiceEndpointIfNeed(p)
    BY <1>5 DEF DeleteServiceEndpointIfNeed, Goto, MainKept, TypeOK
  <1>6. CASE DeleteEndpoints(p)
    BY <1>6 DEF DeleteEndpoints, Goto, MainKept, TypeOK
  <1>7. CASE DeleteService(p)
    BY <1>7 DEF DeleteService, Goto, MainKept, TypeOK
  <1>8. CASE ListServiceMonitors(p) \/ CreateServiceMonitor(p) \/ UpdateServiceMonitor(p) \/ Wake(p)
    BY <1>8 DEF ListServiceMonitors, CreateServiceMonitor, UpdateServiceMonitor, Wake, Goto,
                MainKept, TypeOK
  <1>9. QED
    BY <1>1, <1>2, <1>3, <1>4, <1>5, <1>6, <1>7, <1>8 DEF MainStep

-----------------------------------------------------------------------------
(* A step of p that keeps all pods on the text keeps every matched name, and *)
(* drops a name from p's list only when it is matched.                       *)
LEMMA NamesOnePod ==
    ASSUME NEW t, NamesInv(t), NEW p \in Pods, \A q \in Pods \ {p} : MainKept(q),
           pc'[p] # "new",
           Settled(p, t)' =>
              /\ Settled(p, t)
              /\ \A n \in Names : /\ Matched(n, t) => Matched(n, t)'
                                  /\ Pending(p, n) => Pending(p, n)' \/ Matched(n, t)'
    PROVE  NamesInv(t)'
  <1> SUFFICES ASSUME \A q \in Pods : pc'[q] = "new" \/ Settled(q, t)', NEW n \in Names
               PROVE  Matched(n, t)' \/ \E q \in Pods : Pending(q, n)'
    BY DEF NamesInv
  <1>1. Settled(p, t)' /\ Settled(p, t) /\ pc[p] # "new"
    BY DEF Settled
  <1>2. \A q \in Pods \ {p} : Settled(q, t)' = Settled(q, t) /\ Pending(q, n)' = Pending(q, n)
    BY DEF MainKept, Settled, Pending, ToCreate, ToDelete, ClusterNames, ClustersOf
  <1>3. \A q \in Pods : pc[q] = "new" \/ Settled(q, t)
    BY <1>1, <1>2 DEF MainKept
  <1>4. Matched(n, t) \/ \E q \in Pods : Pending(q, n)
    BY <1>1, <1>3 DEF NamesInv, Running
  <1>5. QED BY <1>1, <1>2, <1>4

LEMMA MonitorOnePodKept ==
    ASSUME NEW t, MonitorInv(t), NEW p \in Pods, \A q \in Pods \ {p} : MainKept(q),
           monitors' = monitors, stale' = stale, pc'[p] # "new",
           Past(p, t)' => Past(p, t) /\ (ToWrite(p) => ToWrite(p)')
    PROVE  MonitorInv(t)'
  <1> SUFFICES ASSUME \A q \in Pods : pc'[q] = "new" \/ Past(q, t)'
               PROVE  MonitorMatches(t)' \/ \E q \in Pods : ToWrite(q)'
    BY DEF MonitorInv
  <1>1. Past(p, t)' /\ Past(p, t) /\ pc[p] # "new"
    BY DEF Past, PastDeletions
  <1>2. \A q \in Pods \ {p} : Past(q, t)' = Past(q, t) /\ ToWrite(q)' = ToWrite(q)
    BY DEF MainKept, Past, PastDeletions, ToWrite
  <1>3. \A q \in Pods : pc[q] = "new" \/ Past(q, t)
    BY <1>1, <1>2 DEF MainKept
  <1>4. MonitorMatches(t) \/ \E q \in Pods : ToWrite(q)
    BY <1>1, <1>3 DEF MonitorInv, Running
  <1>5. MonitorMatches(t) => MonitorMatches(t)'
    BY DEF MonitorMatches, ServiceMonitorEndPoints
  <1>6. QED BY <1>1, <1>2, <1>4, <1>5

(* Such a step neither adds nor drops a name.                                *)
LEMMA SameNames ==
    ASSUME endpoints' = endpoints, NEW t, NEW n, Matched(n, t)
    PROVE  Matched(n, t)'
  BY DEF Matched, ClusterNames, ClustersOf

(* The steps that begin or abandon a pass: no pod's text is t afterwards, or *)
(* it was so before and had nothing left to do.                              *)
LEMMA TextChanges ==
    ASSUME IInv, Unharmed, Unharmed', NEW t \in Texts, Usable(t), NEW p \in Pods,
           Start(p) \/ Query(p) \/ UnnamedCluster(p) \/ Crash(p) \/ Wake(p)
    PROVE  /\ pc'[p] # "new" /\ monitors' = monitors /\ stale' = stale
           /\ endpoints' = endpoints
           /\ Settled(p, t)' \/ Past(p, t)' => /\ hash[p] = t /\ pc[p] \in {"query", "sleep"}
                                               /\ pc'[p] \in {"query", "sleep"}
  <1>0. TypeOK /\ ~Spend("fault") /\ t # None /\ PassInv(p)
    BY NoneSpent, TextAssumption DEF IInv
  <1>1. CASE Start(p)
    BY <1>0, <1>1 DEF Start, Goto, store, Settled, Past, TypeOK
  <1>2. CASE Crash(p)
    BY <1>0, <1>2 DEF Crash, Goto, store, Settled, Past, PastDeletions, TypeOK
  <1>3. CASE Wake(p)
    BY <1>0, <1>3 DEF Wake, MainAt, Goto, store, Settled, Past, TypeOK
  <1>4. CASE UnnamedCluster(p)
    <2>1. NoCluster \in ClustersOf(hash[p]) /\ hash' = hash
      BY <1>0, <1>4 DEF UnnamedCluster, MainAt, PassInv
    <2>2. hash'[p] # t
      BY <2>1 DEF Usable
    <2>3. QED BY <1>0, <1>4, <2>2 DEF UnnamedCluster, Goto, store, Settled, Past, TypeOK
  <1>5. CASE Query(p)
    <2>1. stale' = stale /\ monitors' = monitors /\ endpoints' = endpoints /\ pc[p] = "query"
      BY <1>5 DEF Query, store, MainAt
    <2>2. \/ Goto(p, "sleep") /\ hash' = hash
          \/ hash' = [hash EXCEPT ![p] = vc] /\ Goto(p, "list")
          \/ hash' = [hash EXCEPT ![p] = vc] /\ Goto(p, "sleep") /\ vc \in Unparsable
      BY <1>0, <1>5 DEF Query
    <2>3. t \notin Unparsable
      BY DEF Usable
    <2>4. \/ pc'[p] = "sleep" /\ hash' = hash
          \/ pc'[p] = "list"
          \/ pc'[p] = "sleep" /\ hash'[p] # t
      BY <1>0, <2>2, <2>3 DEF Goto, TypeOK
    <2>5. QED BY <2>1, <2>4 DEF Settled, Past, PastDeletions
  <1>6. QED BY <1>1, <1>2, <1>3, <1>4, <1>5

LEMMA TextChangesQuiet ==
    ASSUME IInv, Unharmed, Unharmed', TextsInv, NEW p \in Pods,
           Start(p) \/ Query(p) \/ UnnamedCluster(p) \/ Crash(p) \/ Wake(p)
    PROVE  TextsInv'
  <1> SUFFICES ASSUME NEW t \in Texts, Usable(t)
               PROVE  NamesInv(t)' /\ (Label = MonitorName => MonitorInv(t)')
    BY DEF TextsInv, Usable, ClustersOf
  <1>1. \A q \in Pods \ {p} : MainKept(q)
    BY OthersKept DEF MainStep, IInv
  <1>2. /\ pc'[p] # "new" /\ monitors' = monitors /\ stale' = stale
        /\ endpoints' = endpoints
        /\ Settled(p, t)' \/ Past(p, t)' => /\ hash[p] = t /\ pc[p] \in {"query", "sleep"}
                                            /\ pc'[p] \in {"query", "sleep"}
    BY TextChanges
  <1>3. NamesInv(t)'
    <2>1. NamesInv(t) /\ \A n \in Names : Matched(n, t) => Matched(n, t)'
      BY <1>2, SameNames DEF TextsInv
    <2>2. Settled(p, t)' => Settled(p, t) /\ \A n \in Names : ~Pending(p, n)
      BY <1>2 DEF Settled, Pending, ToCreate, ToDelete
    <2>3. QED BY <1>1, <1>2, <2>1, <2>2, NamesOnePod
  <1>4. ASSUME Label = MonitorName PROVE MonitorInv(t)'
    <2>1. MonitorInv(t)
      BY <1>4 DEF TextsInv
    <2>2. Past(p, t)' => Past(p, t) /\ ~ToWrite(p)
      BY <1>2 DEF Past, PastDeletions, ToWrite
    <2>3. QED BY <1>1, <1>2, <2>1, <2>2, MonitorOnePodKept
  <1>5. QED BY <1>3, <1>4

(* The listing: whatever differs is on the lister's list.                    *)
LEMMA ListEndpointsQuiet ==
    ASSUME IInv, Unharmed, Unharmed', NEW p \in Pods, ListEndpoints(p)
    PROVE  TextsInv'
  <1> SUFFICES ASSUME NEW t \in Texts
               PROVE  NamesInv(t)' /\ MonitorInv(t)'
    BY DEF TextsInv
  <1>1. /\ endpointDict' = [endpointDict EXCEPT ![p] = endpoints]
        /\ todo' = [todo EXCEPT ![p] = ClustersOf(hash[p])]
        /\ Goto(p, "clusters") /\ hash' = hash /\ endpoints' = endpoints
    BY NoneSpent DEF ListEndpoints, IInv, store
  <1>2. /\ endpointDict'[p] = endpoints /\ todo'[p] = ClustersOf(hash[p]) /\ pc'[p] = "clusters"
    BY <1>1 DEF IInv, TypeOK, Goto
  <1>3. ASSUME hash[p] = t, NEW n \in Names PROVE Matched(n, t)' \/ Pending(p, n)'
    <2>1. CASE endpoints[n] # Absent /\ n \notin ClusterNames(t)
      <3>1. n \notin ClusterNames(hash[p])'
        BY <1>1, <1>3, <2>1 DEF ClusterNames, ClustersOf
      <3>2. QED BY <1>1, <1>2, <2>1, <3>1 DEF Pending, ToDelete
    <2>2. CASE endpoints[n] = Absent /\ n \in ClusterNames(t)
      <3>1. PICK c \in ClustersOf(t) \ {NoCluster} : Lower[c] = n
        BY <2>2 DEF ClusterNames
      <3>2. QED BY <1>2, <1>3, <2>2, <3>1 DEF Pending, ToCreate
    <2>3. CASE endpoints[n] # Absent <=> n \in ClusterNames(t)
      BY <1>1, <2>3 DEF Matched, ClusterNames, ClustersOf
    <2>4. QED BY <2>1, <2>2, <2>3
  <1>4. NamesInv(t)'
    <2>1. (\A q \in Pods : pc'[q] = "new" \/ Settled(q, t)') => hash[p] = t
      BY <1>1, <1>2 DEF Settled
    <2>2. QED BY <1>3, <2>1 DEF NamesInv
  <1>5. MonitorInv(t)'
    BY <1>2 DEF MonitorInv, Past, PastDeletions
  <1>6. QED BY <1>4, <1>5

(* One call of a pass about one name does what the text asks for.            *)
LEMMA UpdateNames ==
    ASSUME IInv, NEW t, NEW p \in Pods, UpdateEndpointIfNeed(p), Settled(p, t)', NEW n \in Names,
           Pending(p, n)
    PROVE  Pending(p, n)'
  <1>1. PICK c \in todo[p] \ {NoCluster} :
           /\ endpointDict[p][Lower[c]] # Absent
           /\ todo' = [todo EXCEPT ![p] = @ \ {c}]
    BY DEF UpdateEndpointIfNeed
  <1>2. /\ todo'[p] = todo[p] \ {c} /\ pc[p] = "clusters"
        /\ hash' = hash /\ endpointDict' = endpointDict /\ pc' = pc
    BY <1>1 DEF UpdateEndpointIfNeed, MainAt, IInv, TypeOK
  <1>3. ClusterNames(hash[p])' = ClusterNames(hash[p])
    BY <1>2 DEF ClusterNames, ClustersOf
  <1>4. QED BY <1>1, <1>2, <1>3 DEF Pending, ToCreate, ToDelete

LEMMA CreateServiceNames ==
    ASSUME IInv, NEW p \in Pods, CreateService(p), NEW n \in Names, Pending(p, n)
    PROVE  Pending(p, n)'
  <1>1. /\ pc[p] = "clusters" /\ pc'[p] = "createEp" /\ todo' = todo
        /\ hash' = hash /\ endpointDict' = endpointDict
    BY DEF CreateService, MainAt, Goto, IInv, TypeOK
  <1>2. ClusterNames(hash[p])' = ClusterNames(hash[p])
    BY <1>1 DEF ClusterNames, ClustersOf
  <1>3. QED BY <1>1, <1>2 DEF Pending, ToCreate, ToDelete

LEMMA CreateEndpointsNames ==
    ASSUME IInv, Unharmed, Unharmed', NEW t, NEW p \in Pods, CreateEndpoints(p), Settled(p, t)',
           NEW n \in Names
    PROVE  /\ Matched(n, t) => Matched(n, t)'
           /\ Pending(p, n) => Pending(p, n)' \/ Matched(n, t)'
  <1> DEFINE c == cur[p]
  <1>1. /\ endpoints' = IF endpoints[Lower[c]] # Absent THEN endpoints
                        ELSE Put(endpoints, Lower[c], NewEndpoint(hash[p], c))
        /\ hash' = hash /\ endpointDict' = endpointDict /\ pc[p] = "createEp"
    BY NoneSpent DEF CreateEndpoints, MainAt, IInv
  <1>2. todo'[p] = todo[p] \ {c} /\ pc'[p] = "clusters"
    BY DEF CreateEndpoints, Goto, IInv, TypeOK
  <1>3. /\ c \in Clusters /\ Lower[c] \in Names /\ hash[p] \in Texts
        /\ c \in ClustersOf(hash[p]) \ {NoCluster}
    BY <1>1, LowerAssumption DEF IInv, TypeOK, InPass, PassInv
  <1>4. hash[p] = t /\ Lower[c] \in ClusterNames(t)
    BY <1>1, <1>3 DEF Settled, ClusterNames
  <1>5. NewEndpoint(hash[p], c) # Absent
    BY <1>3, TextTypes, AbsentAssumption
  <1>6. /\ endpoints'[Lower[c]] # Absent
        /\ \A m \in Names \ {Lower[c]} : endpoints'[m] = endpoints[m]
    BY <1>1, <1>3, <1>5 DEF Put, IInv, TypeOK
  <1>7. ClusterNames(t)' = ClusterNames(t) /\ ClusterNames(hash[p])' = ClusterNames(hash[p])
    BY <1>1 DEF ClusterNames, ClustersOf
  <1>8. CASE n = Lower[c]
    BY <1>4, <1>6, <1>7, <1>8 DEF Matched
  <1>9. CASE n # Lower[c]
    <2>1. Matched(n, t) => Matched(n, t)'
      BY <1>6, <1>7, <1>9 DEF Matched
    <2>2. Pending(p, n) => Pending(p, n)'
      BY <1>1, <1>2, <1>7, <1>9 DEF Pending, ToCreate, ToDelete
    <2>3. QED BY <2>1, <2>2
  <1>10. QED BY <1>8, <1>9

LEMMA DeleteNames ==
    ASSUME IInv, NEW p \in Pods, DeleteServiceEndpointIfNeed(p), NEW n \in Names, Pending(p, n)
    PROVE  Pending(p, n)'
  <1>1. /\ pc[p] = "clusters" /\ todo[p] = {} /\ doomed'[p] = Obsoleted(p) /\ pc'[p] = "delete"
    BY DEF DeleteServiceEndpointIfNeed, MainAt, Goto, IInv, TypeOK
  <1>2. QED BY <1>1 DEF Pending, ToCreate, ToDelete, Obsoleted, Present

LEMMA DeleteEndpointsNames ==
    ASSUME IInv, Unharmed, Unharmed', NEW t, NEW p \in Pods, DeleteEndpoints(p), Settled(p, t)',
           NEW n \in Names
    PROVE  /\ Matched(n, t) => Matched(n, t)'
           /\ Pending(p, n) => Pending(p, n)' \/ Matched(n, t)'
  <1>1. PICK m \in doomed[p] :
           /\ endpoints' = Put(endpoints, m, Absent)
           /\ doomed' = [doomed EXCEPT ![p] = @ \ {m}]
           /\ Goto(p, "delSvc") \/ UNCHANGED pc
    <2>1. PICK m \in doomed[p], o \in Outcomes :
             /\ RemoveEndpoints(p, m, o)
             /\ doomed' = [doomed EXCEPT ![p] = Rest(@, m, o)]
             /\ IF ServiceIsNext(m, o)
                THEN Goto(p, "delSvc") /\ cur' = [cur EXCEPT ![p] = m]
                ELSE UNCHANGED <<pc, cur>>
      BY DEF DeleteEndpoints
    <2>2. o = "ok"
      BY <2>1, NoneSpent DEF RemoveEndpoints, IInv
    <2>3. QED BY <2>1, <2>2 DEF RemoveEndpoints, Rest
  <1>2. /\ hash' = hash /\ pc[p] = "delete" /\ doomed[p] \subseteq Obsoleted(p)
    BY DEF DeleteEndpoints, MainAt, IInv, PassInv
  <1>3. /\ pc'[p] \in {"delete", "delSvc"} /\ doomed'[p] = doomed[p] \ {m} /\ m \in Names
    BY <1>1, <1>2 DEF Goto, IInv, TypeOK
  <1>4. m \notin ClusterNames(t)
    BY <1>1, <1>2 DEF Settled, Obsoleted
  <1>5. /\ endpoints'[m] = Absent
        /\ \A k \in Names \ {m} : endpoints'[k] = endpoints[k]
    BY <1>1, <1>3 DEF Put, IInv, TypeOK
  <1>6. ClusterNames(t)' = ClusterNames(t)
    BY DEF ClusterNames, ClustersOf
  <1>7. CASE n = m
    BY <1>4, <1>5, <1>6, <1>7 DEF Matched
  <1>8. CASE n # m
    <2>1. Matched(n, t) => Matched(n, t)'
      BY <1>5, <1>6, <1>8 DEF Matched
    <2>2. Pending(p, n) => Pending(p, n)'
      BY <1>2, <1>3, <1>8 DEF Pending, ToCreate, ToDelete
    <2>3. QED BY <2>1, <2>2
  <1>9. QED BY <1>7, <1>8

LEMMA DeleteServiceNames ==
    ASSUME IInv, NEW p \in Pods, DeleteService(p), NEW n \in Names, Pending(p, n)
    PROVE  Pending(p, n)'
  <1>1. pc[p] = "delSvc" /\ pc'[p] = "delete" /\ doomed' = doomed
    BY DEF DeleteService, MainAt, Goto, IInv, TypeOK
  <1>2. QED BY <1>1 DEF Pending, ToCreate, ToDelete

LEMMA ObjectStepsQuiet ==
    ASSUME IInv, Unharmed, Unharmed', TextsInv, NEW p \in Pods,
           \/ UpdateEndpointIfNeed(p) \/ CreateService(p) \/ CreateEndpoints(p)
           \/ DeleteServiceEndpointIfNeed(p) \/ DeleteEndpoints(p) \/ DeleteService(p)
    PROVE  TextsInv'
  <1> SUFFICES ASSUME NEW t \in Texts, Usable(t)
               PROVE  NamesInv(t)' /\ (Label = MonitorName => MonitorInv(t)')
    BY DEF TextsInv, Usable, ClustersOf
  <1>1. \A q \in Pods \ {p} : MainKept(q)
    BY OthersKept DEF MainStep, IInv
  <1>2. /\ hash' = hash /\ pc[p] \in {"clusters", "createEp", "delete", "delSvc"}
        /\ pc'[p] \in {"clusters", "createEp", "delete", "delSvc"}
    BY DEF UpdateEndpointIfNeed, CreateService, CreateEndpoints, DeleteServiceEndpointIfNeed,
           DeleteEndpoints, DeleteService, MainAt, Goto, IInv, TypeOK
  <1>3. MonitorInv(t)'
    BY <1>2 DEF MonitorInv, Past, PastDeletions
  <1>4. NamesInv(t)'
    <2>1. NamesInv(t) /\ (Settled(p, t)' => Settled(p, t))
      BY <1>2 DEF TextsInv, Settled
    <2>2. CASE CreateEndpoints(p)
      BY <1>1, <1>2, <2>1, <2>2, CreateEndpointsNames, NamesOnePod
    <2>3. CASE DeleteEndpoints(p)
      BY <1>1, <1>2, <2>1, <2>3, DeleteEndpointsNames, NamesOnePod
    <2>4. CASE UpdateEndpointIfNeed(p) \/ CreateService(p)
               \/ DeleteServiceEndpointIfNeed(p) \/ DeleteService(p)
      <3>1. endpoints' = endpoints
        BY <2>4 DEF UpdateEndpointIfNeed, CreateService, DeleteServiceEndpointIfNeed,
                    DeleteService, store
      <3>2. \A n \in Names : Matched(n, t) => Matched(n, t)'
        BY <3>1, SameNames
      <3>3. Settled(p, t)' => \A n \in Names : Pending(p, n) => Pending(p, n)'
        BY <2>4, UpdateNames, CreateServiceNames, DeleteNames, DeleteServiceNames
      <3>4. QED BY <1>1, <1>2, <2>1, <3>2, <3>3, NamesOnePod
    <2>5. QED BY <2>2, <2>3, <2>4
  <1>5. QED BY <1>3, <1>4

(* The monitor's listing, and its two writes: one is refused only when the   *)
(* monitor was written since.                                                *)
LEMMA MonitorStepsNames ==
    ASSUME IInv, Unharmed, Unharmed', TextsInv, NEW t \in Texts, Usable(t), NEW p \in Pods,
           ListServiceMonitors(p) \/ CreateServiceMonitor(p) \/ UpdateServiceMonitor(p)
    PROVE  NamesInv(t)' /\ hash' = hash /\ pc'[p] # "new"
  <1>1. \A q \in Pods \ {p} : MainKept(q)
    BY OthersKept DEF MainStep, IInv
  <1>2. /\ hash' = hash /\ endpoints' = endpoints
        /\ pc'[p] \in {"createMon", "patchMon", "sleep"}
        /\ pc[p] \in {"createMon", "patchMon"} \/ (pc[p] = "delete" /\ doomed[p] = {})
    BY DEF ListServiceMonitors, CreateServiceMonitor, UpdateServiceMonitor, MainAt, Goto, store,
           IInv, TypeOK
  <1>3. NamesInv(t) /\ \A n \in Names : Matched(n, t) => Matched(n, t)'
    BY <1>2, SameNames DEF TextsInv
  <1>4. Settled(p, t)' => Settled(p, t) /\ \A n \in Names : ~Pending(p, n)
    BY <1>2 DEF Settled, Pending, ToCreate, ToDelete
  <1>5. NamesInv(t)'
    BY <1>1, <1>2, <1>3, <1>4, NamesOnePod
  <1>6. QED BY <1>2, <1>5

LEMMA ListServiceMonitorsQuiet ==
    ASSUME IInv, Unharmed, Unharmed', TextsInv, NEW p \in Pods, ListServiceMonitors(p)
    PROVE  TextsInv'
  <1> SUFFICES ASSUME NEW t \in Texts, Usable(t) PROVE NamesInv(t)' /\ MonitorInv(t)'
    BY DEF TextsInv, Usable, ClustersOf
  <1>1. /\ Goto(p, IF monitors[Label] = Absent THEN "createMon" ELSE "patchMon")
        /\ stale' = [stale EXCEPT ![p] = FALSE] /\ monitors' = monitors
    BY NoneSpent DEF ListServiceMonitors, IInv, store
  <1>2. ToWrite(p)'
    BY <1>1 DEF ToWrite, Goto, IInv, TypeOK
  <1>3. MonitorInv(t)'
    BY <1>2 DEF MonitorInv
  <1>4. QED BY <1>3, MonitorStepsNames

LEMMA WritesQuiet ==
    ASSUME IInv, Unharmed, Unharmed', TextsInv, NEW p \in Pods,
           CreateServiceMonitor(p) \/ UpdateServiceMonitor(p)
    PROVE  TextsInv'
  <1> SUFFICES ASSUME NEW t \in Texts, Usable(t)
               PROVE  NamesInv(t)' /\ (Label = MonitorName => MonitorInv(t)')
    BY DEF TextsInv, Usable, ClustersOf
  <1>1. NamesInv(t)' /\ hash' = hash /\ pc'[p] # "new"
    BY MonitorStepsNames
  <1>2. ASSUME Label = MonitorName PROVE MonitorInv(t)'
    <2>1. \/ monitors' = Put(monitors, Label, ServiceMonitorEndPoints(hash[p]))
          \/ monitors' = monitors /\ stale' = stale /\ ~ToWrite(p)
      <3>1. CASE CreateServiceMonitor(p)
        <4>1. PICK o \in Outcomes :
                 /\ WriteMonitor(p, MonitorName, ServiceMonitorEndPoints(hash[p]), o)
                 /\ IF monitors[MonitorName] # Absent
                    THEN o = "refused" /\ UNCHANGED spent ELSE Pay(o)
          BY <3>1 DEF CreateServiceMonitor
        <4>2. pc[p] = "createMon"
          BY <3>1 DEF CreateServiceMonitor, MainAt
        <4>3. CASE monitors[MonitorName] # Absent
          BY <1>2, <4>1, <4>2, <4>3 DEF WriteMonitor, ToWrite
        <4>4. CASE monitors[MonitorName] = Absent
          <5>1. o = "ok"
            BY <4>1, <4>4, NoneSpent DEF IInv
          <5>2. QED BY <1>2, <4>1, <5>1 DEF WriteMonitor
        <4>5. QED BY <4>3, <4>4
      <3>2. CASE UpdateServiceMonitor(p)
        <4>1. PICK o \in Outcomes :
                 /\ WriteMonitor(p, Label, ServiceMonitorEndPoints(hash[p]), o)
                 /\ IF stale[p] THEN o = "refused" /\ UNCHANGED spent ELSE Pay(o)
          BY <3>2 DEF UpdateServiceMonitor
        <4>2. pc[p] = "patchMon"
          BY <3>2 DEF UpdateServiceMonitor, MainAt
        <4>3. CASE stale[p]
          BY <4>1, <4>2, <4>3 DEF WriteMonitor, ToWrite
        <4>4. CASE ~stale[p]
          <5>1. o = "ok"
            BY <4>1, <4>4, NoneSpent DEF IInv
          <5>2. QED BY <4>1, <5>1 DEF WriteMonitor
        <4>5. QED BY <4>3, <4>4
      <3>3. QED BY <3>1, <3>2
    <2>2. CASE monitors' = Put(monitors, Label, ServiceMonitorEndPoints(hash[p]))
      <3>1. monitors'[Label] = ServiceMonitorEndPoints(hash[p])
        BY <2>2 DEF Put, IInv, TypeOK, MonitorNames
      <3>2. Past(p, t)' => MonitorMatches(t)'
        BY <1>1, <3>1 DEF Past, MonitorMatches, ServiceMonitorEndPoints
      <3>3. QED BY <1>1, <3>2 DEF MonitorInv
    <2>3. CASE monitors' = monitors /\ stale' = stale /\ ~ToWrite(p)
      <3>1. MonitorInv(t) /\ \A q \in Pods \ {p} : MainKept(q)
        BY <1>2, OthersKept DEF TextsInv, MainStep, IInv
      <3>2. PastDeletions(p)
        BY DEF CreateServiceMonitor, UpdateServiceMonitor, MainAt, PastDeletions
      <3>3. Past(p, t)' => Past(p, t)
        BY <1>1, <3>2 DEF Past
      <3>4. QED BY <1>1, <2>3, <3>1, <3>3, MonitorOnePodKept
    <2>4. QED BY <2>1, <2>2, <2>3
  <1>3. QED BY <1>1, <1>2

(* A pod that is alone.                                                      *)
LEMMA ServicesStep ==
    ASSUME IInv, Unharmed, Unharmed', ServicesInv, NEW p \in Pods, MainStep(p) \/ Crash(p)
    PROVE  ServicesInv'
  <1> SUFFICES ASSUME Pods = {p}
               PROVE  /\ Present(endpoints') \subseteq services'
                      /\ pc'[p] = "createEp" => Lower[cur'[p]] \in services'
                      /\ pc'[p] = "delSvc" => endpoints'[cur'[p]] = Absent
    BY DEF ServicesInv, Present
  <1>0. /\ TypeOK /\ Present(endpoints) \subseteq services
        /\ pc[p] = "createEp" => Lower[cur[p]] \in services
        /\ pc[p] = "delSvc" => endpoints[cur[p]] = Absent
        /\ \A o : Pay(o) => o = "ok"
    BY NoneSpent DEF ServicesInv, IInv
  <1>1. CASE CreateService(p)
    <2>1. PICK c \in todo[p] \ {NoCluster} :
             cur' = [cur EXCEPT ![p] = c] /\ services' = services \cup {Lower[c]}
      BY <1>0, <1>1 DEF CreateService
    <2>2. cur'[p] = c /\ pc'[p] = "createEp" /\ endpoints' = endpoints
      BY <1>0, <1>1, <2>1 DEF CreateService, Goto, TypeOK
    <2>3. QED BY <1>0, <2>1, <2>2
  <1>2. CASE CreateEndpoints(p)
    <2>1. /\ pc[p] = "createEp" /\ pc'[p] = "clusters" /\ services' = services
          /\ \/ endpoints' = endpoints
             \/ endpoints' = Put(endpoints, Lower[cur[p]], NewEndpoint(hash[p], cur[p]))
      BY <1>0, <1>2 DEF CreateEndpoints, MainAt, Goto, TypeOK
    <2>2. Present(endpoints') \subseteq Present(endpoints) \cup {Lower[cur[p]]}
      BY <1>0, <2>1 DEF Present, Put, TypeOK
    <2>3. QED BY <1>0, <2>1, <2>2
  <1>3. CASE DeleteEndpoints(p)
    <2>1. PICK n \in doomed[p] :
             /\ endpoints' = Put(endpoints, n, Absent)
             /\ \/ Goto(p, "delSvc") /\ cur' = [cur EXCEPT ![p] = n]
                \/ UNCHANGED pc
      BY <1>0, <1>3 DEF DeleteEndpoints, RemoveEndpoints
    <2>2. n \in Names /\ services' = services /\ pc[p] = "delete"
      BY <1>0, <1>3, <2>1 DEF DeleteEndpoints, MainAt, TypeOK
    <2>3. endpoints'[n] = Absent /\ Present(endpoints') \subseteq Present(endpoints)
      BY <1>0, <2>1, <2>2 DEF Put, Present, TypeOK
    <2>4. pc'[p] = "delete" \/ (pc'[p] = "delSvc" /\ cur'[p] = n)
      BY <1>0, <2>1, <2>2 DEF Goto, TypeOK
    <2>5. QED BY <1>0, <2>2, <2>3, <2>4
  <1>4. CASE DeleteService(p)
    <2>1. /\ pc[p] = "delSvc" /\ pc'[p] = "delete" /\ endpoints' = endpoints
          /\ services' = services \ {cur[p]}
      BY <1>0, <1>4 DEF DeleteService, MainAt, Goto, RemoveService, TypeOK
    <2>2. cur[p] \notin Present(endpoints)
      BY <1>0, <2>1 DEF Present
    <2>3. QED BY <1>0, <2>1, <2>2
  <1>5. CASE \/ Start(p) \/ Query(p) \/ ListEndpoints(p) \/ UnnamedCluster(p)
             \/ UpdateEndpointIfNeed(p) \/ DeleteServiceEndpointIfNeed(p)
             \/ ListServiceMonitors(p) \/ CreateServiceMonitor(p) \/ UpdateServiceMonitor(p)
             \/ Wake(p) \/ Crash(p)
    <2>1. endpoints' = endpoints /\ services' = services
      BY <1>5 DEF Start, Query, ListEndpoints, UnnamedCluster, UpdateEndpointIfNeed,
           DeleteServiceEndpointIfNeed, ListServiceMonitors, CreateServiceMonitor,
           UpdateServiceMonitor, Wake, Crash, store
    <2>2. pc'[p] \notin {"createEp", "delSvc"}
      BY <1>0, <1>5 DEF Start, Query, ListEndpoints, UnnamedCluster, UpdateEndpointIfNeed,
           DeleteServiceEndpointIfNeed, ListServiceMonitors, CreateServiceMonitor,
           UpdateServiceMonitor, Wake, Crash, MainAt, Goto, TypeOK
    <2>3. QED BY <1>0, <2>1, <2>2
  <1>6. QED BY <1>1, <1>2, <1>3, <1>4, <1>5 DEF MainStep

LEMMA QuietStep == IInv /\ QuietInv /\ [Next]_vars => QuietInv'
  <1> SUFFICES ASSUME IInv, QuietInv, [Next]_vars, Unharmed'
               PROVE  Calm' /\ TextsInv' /\ ServicesInv'
    BY DEF QuietInv
  <1>1. Unharmed /\ Calm /\ TextsInv /\ ServicesInv
    BY SpentStep, SpentKept DEF IInv, QuietInv
  <1>2. /\ Calm'
        /\ UNCHANGED vars \/ Change \/ \E p \in Pods : MainStep(p) \/ Crash(p)
    BY <1>1, CalmStep
  <1>3. CASE UNCHANGED vars \/ Change
    <2>1. UNCHANGED <<store, main, stale>>
      BY <1>3 DEF vars, Change
    <2>2. TextsInv'
      BY <1>1, <2>1 DEF store, main, TextsInv, Usable, NamesInv, MonitorInv, Running, Settled,
             Matched, Pending, ToCreate, ToDelete, Past, PastDeletions, ToWrite, MonitorMatches,
             ClustersOf, ClusterNames, ServiceMonitorEndPoints
    <2>3. ServicesInv'
      BY <1>1, <2>1 DEF store, main, ServicesInv, Present
    <2>4. QED BY <1>2, <2>2, <2>3
  <1>4. ASSUME NEW p \in Pods, MainStep(p) \/ Crash(p) PROVE TextsInv' /\ ServicesInv'
    <2>1. TextsInv'
      BY <1>1, <1>4, TextChangesQuiet, ListEndpointsQuiet, ObjectStepsQuiet,
         ListServiceMonitorsQuiet, WritesQuiet DEF MainStep
    <2>2. QED BY <1>1, <1>4, <2>1, ServicesStep
  <1>5. QED BY <1>2, <1>3, <1>4

(* At rest nothing is left to do, so the objects are those of the answer.    *)
LEMMA QuietRest == QuietInv => QuietSynced
  <1> SUFFICES ASSUME QuietInv, Unharmed, Quiescent
               PROVE  /\ NamesMatch(vc)
                      /\ Label = MonitorName => MonitorMatches(vc)
                      /\ (\E p \in Pods : Pods = {p}) => Present(endpoints) \subseteq services
    BY DEF QuietSynced
  <1>1. Calm /\ TextsInv /\ ServicesInv
    BY DEF QuietInv
  <1>2. \A p \in Pods : pc[p] = "new" \/ (pc[p] = "sleep" /\ hash[p] = vc)
    BY <1>1 DEF Quiescent, Calm
  <1>3. Usable(vc) /\ vc \in Texts /\ Running
    BY DEF Quiescent, Usable, Running
  <1>4. NamesMatch(vc)
    <2>1. \A p \in Pods : (pc[p] = "new" \/ Settled(p, vc)) /\ \A n \in Names : ~Pending(p, n)
      BY <1>2 DEF Settled, Pending, ToCreate, ToDelete
    <2>2. \A n \in Names : Matched(n, vc)
      BY <1>1, <1>3, <2>1 DEF TextsInv, NamesInv
    <2>3. ClusterNames(vc) \subseteq Names
      BY <1>3, TextTypes
    <2>4. QED BY <2>2, <2>3 DEF Matched, NamesMatch, Present
  <1>5. ASSUME Label = MonitorName PROVE MonitorMatches(vc)
    <2>1. \A p \in Pods : (pc[p] = "new" \/ Past(p, vc)) /\ ~ToWrite(p)
      BY <1>2 DEF Past, PastDeletions, ToWrite
    <2>2. QED BY <1>1, <1>3, <1>5, <2>1 DEF TextsInv, MonitorInv
  <1>6. QED BY <1>1, <1>4, <1>5 DEF ServicesInv

(* However many pods, changes and crashes there are, at rest the objects are *)
(* those of the present answer as long as every call was answered and no     *)
(* handler ran.                                                              *)
THEOREM QuietSyncs == Spec => []QuietSynced
  <1>1. Init => QuietInv
    <2> SUFFICES ASSUME Init PROVE QuietInv
      OBVIOUS
    <2>1. Calm /\ ~Running
      BY DEF Init, Calm, Running
    <2>2. TextsInv
      BY <2>1 DEF TextsInv, NamesInv, MonitorInv
    <2>3. ServicesInv
      BY DEF Init, ServicesInv, Present
    <2>4. QED BY <2>1, <2>2, <2>3 DEF QuietInv
  <1>2. QED BY <1>1, InitIInv, NextIInv, QuietStep, QuietRest, PTL DEF Spec

-----------------------------------------------------------------------------
(* CleanupComplete.                                                          *)

(* The name p, or its handler, is between its two calls on.                  *)
Between(p) == IF pc[p] = "createEp" THEN {Lower[cur[p]]} ELSE
              IF pc[p] = "delSvc" THEN {cur[p]} ELSE {}
HandlerBetween(p) == IF hpc[p] = "delSvc" THEN {hcur[p]} ELSE {}

(* While every call of the only pod is answered, a Service whose Endpoints   *)
(* are not there is the one a pass or the handler is about to deal with; and *)
(* the handler's list has all Endpoints that are left, because the main loop *)
(* stands still.                                                             *)
Clean(p) ==
    /\ services \subseteq Present(endpoints) \cup Between(p) \cup HandlerBetween(p)
    /\ hpc[p] \in {"delete", "delSvc"} => Present(endpoints) \subseteq hdoomed[p]
Alone(p) == Pods = {p} /\ pc[p] # "gone" /\ hpc[p] # "done"
Unfailing == spent["fault"] = 0 /\ spent["crash"] = 0
CleanInv == Unfailing => \A p \in Pods : Alone(p) => Clean(p)

LEMMA UnfailingBefore ==
    ASSUME TypeOK, [Next]_vars, Unfailing'
    PROVE  Unfailing /\ ~Spend("fault") /\ ~Spend("crash") /\ \A o : Pay(o) => o = "ok"
  BY SpentStep, SpentUp DEF Unfailing, Kinds, Pay

(* The pass, while no handler runs.                                          *)
LEMMA MainClean ==
    ASSUME IInv, Unfailing', [Next]_vars, NEW p \in Pods, MainStep(p), hpc[p] # "done",
           Alone(p) => Clean(p), Alone(p)'
    PROVE  Clean(p)'
  <1>0. TypeOK /\ \A o : Pay(o) => o = "ok"
    BY UnfailingBefore DEF IInv
  <1>1. hpc' = hpc /\ hdoomed' = hdoomed /\ hcur' = hcur
    BY DEF handler, MainStep, Start, Query, ListEndpoints, UnnamedCluster,
           UpdateEndpointIfNeed, CreateService, CreateEndpoints, DeleteServiceEndpointIfNeed,
           DeleteEndpoints, DeleteService, ListServiceMonitors, CreateServiceMonitor,
           UpdateServiceMonitor, Wake
  <1>2. pc[p] # "gone"
    BY DEF MainStep, MainAt, Start, Query, ListEndpoints, UnnamedCluster,
           UpdateEndpointIfNeed, CreateService, CreateEndpoints, DeleteServiceEndpointIfNeed,
           DeleteEndpoints, DeleteService, ListServiceMonitors, CreateServiceMonitor,
           UpdateServiceMonitor, Wake
  <1>3. Clean(p)
    BY <1>2 DEF Alone
  <1>4. CASE Start(p)
    <2>1. /\ endpoints' = endpoints /\ services' = services /\ pc[p] \in {"new", "start"}
          /\ pc'[p] = "query"
      BY <1>0, <1>4 DEF Start, Goto, store, TypeOK
    <2>2. QED BY <1>1, <1>3, <2>1 DEF Clean, Between, HandlerBetween, Present
  <1>5. CASE ~Start(p)
    <2>0. ~HandlerActive(p)
      BY <1>5 DEF MainStep, MainAt, Query, ListEndpoints, UnnamedCluster,
           UpdateEndpointIfNeed, CreateService, CreateEndpoints, DeleteServiceEndpointIfNeed,
           DeleteEndpoints, DeleteService, ListServiceMonitors, CreateServiceMonitor,
           UpdateServiceMonitor, Wake
    <2>1. /\ hpc'[p] \notin {"delete", "delSvc"}
          /\ services \subseteq Present(endpoints) \cup Between(p)
      BY <1>1, <1>3, <2>0 DEF HandlerActive, Clean, HandlerBetween
    <2>2. SUFFICES services' \subseteq Present(endpoints') \cup Between(p)'
      BY <2>1 DEF Clean, HandlerBetween, Present
    <2>3. CASE CreateService(p)
      <3>1. PICK c \in todo[p] \ {NoCluster} :
               cur' = [cur EXCEPT ![p] = c] /\ services' = services \cup {Lower[c]}
        BY <1>0, <2>3 DEF CreateService
      <3>2. /\ cur'[p] = c /\ pc[p] = "clusters" /\ pc'[p] = "createEp"
            /\ endpoints' = endpoints
        BY <1>0, <2>3, <3>1 DEF CreateService, MainAt, Goto, TypeOK
      <3>3. QED BY <2>1, <3>1, <3>2 DEF Between
    <2>4. CASE CreateEndpoints(p)
      <3>1. /\ pc[p] = "createEp" /\ services' = services
            /\ endpoints' = IF endpoints[Lower[cur[p]]] # Absent THEN endpoints
                            ELSE Put(endpoints, Lower[cur[p]], NewEndpoint(hash[p], cur[p]))
        BY <1>0, <2>4 DEF CreateEndpoints, MainAt
      <3>2. Lower[cur[p]] \in Names /\ NewEndpoint(hash[p], cur[p]) # Absent
        <4>1. hash[p] \in Texts /\ cur[p] \in Clusters
          BY <1>0, <3>1 DEF TypeOK, InPass
        <4>2. QED BY <4>1, TextTypes, LowerAssumption, AbsentAssumption
      <3>3. Present(endpoints) \cup {Lower[cur[p]]} \subseteq Present(endpoints')
        BY <1>0, <3>1, <3>2 DEF Present, Put, TypeOK
      <3>4. QED BY <2>1, <3>1, <3>3 DEF Between
    <2>5. CASE DeleteEndpoints(p)
      <3>1. PICK n \in doomed[p] :
               /\ endpoints' = Put(endpoints, n, Absent)
               /\ IF endpoints[n] # Absent
                  THEN Goto(p, "delSvc") /\ cur' = [cur EXCEPT ![p] = n]
                  ELSE UNCHANGED <<pc, cur>>
        BY <1>0, <2>5 DEF DeleteEndpoints, RemoveEndpoints, ServiceIsNext
      <3>2. n \in Names /\ services' = services /\ pc[p] = "delete"
        BY <1>0, <2>5, <3>1 DEF DeleteEndpoints, MainAt, TypeOK
      <3>3. Present(endpoints) \subseteq Present(endpoints') \cup {n}
        BY <1>0, <3>1, <3>2 DEF Present, Put, TypeOK
      <3>4. CASE endpoints[n] # Absent
        <4>1. pc'[p] = "delSvc" /\ cur'[p] = n
          BY <1>0, <3>1, <3>4 DEF Goto, TypeOK
        <4>2. QED BY <2>1, <3>2, <3>3, <4>1 DEF Between
      <3>5. CASE endpoints[n] = Absent
        <4>1. n \notin Present(endpoints)
          BY <3>5 DEF Present
        <4>2. QED BY <2>1, <3>2, <3>3, <4>1 DEF Between
      <3>6. QED BY <3>4, <3>5
    <2>6. CASE DeleteService(p)
      <3>1. /\ pc[p] = "delSvc" /\ endpoints' = endpoints
            /\ services' = services \ {cur[p]}
        BY <1>0, <2>6 DEF DeleteService, MainAt, RemoveService
      <3>2. QED BY <2>1, <3>1 DEF Between
    <2>7. CASE \/ Query(p) \/ ListEndpoints(p) \/ UnnamedCluster(p)
               \/ UpdateEndpointIfNeed(p) \/ DeleteServiceEndpointIfNeed(p)
               \/ ListServiceMonitors(p) \/ CreateServiceMonitor(p) \/ UpdateServiceMonitor(p)
               \/ Wake(p)
      <3>1. /\ endpoints' = endpoints /\ services' = services
            /\ pc[p] \notin {"createEp", "delSvc"}
        BY <2>7 DEF MainAt, Query, ListEndpoints, UnnamedCluster, UpdateEndpointIfNeed,
             DeleteServiceEndpointIfNeed, ListServiceMonitors, CreateServiceMonitor,
             UpdateServiceMonitor, Wake, store
      <3>2. QED BY <2>1, <3>1 DEF Between
    <2>8. QED BY <1>5, <2>3, <2>4, <2>5, <2>6, <2>7 DEF MainStep
  <1>6. QED BY <1>4, <1>5

(* The handler.                                                              *)
LEMMA HandlerClean ==
    ASSUME IInv, Unfailing', [Next]_vars, NEW p \in Pods, HandlerStep(p),
           Alone(p) => Clean(p), Alone(p)'
    PROVE  Clean(p)'
  <1>0. TypeOK /\ ~Spend("fault") /\ \A o : Pay(o) => o = "ok"
    BY UnfailingBefore DEF IInv
  <1>1. \/ HandlerList(p) \/ HandlerDeleteEndpoints(p) \/ HandlerDeleteService(p)
    <2>1. ~HandlerListFails(p)
      BY <1>0 DEF HandlerListFails
    <2>2. ~HandlerDeleteMonitor(p)
      BY <1>0 DEF HandlerDeleteMonitor, Alone, TypeOK
    <2>3. QED BY <2>1, <2>2 DEF HandlerStep
  <1>2. UNCHANGED main
    BY <1>1 DEF HandlerList, HandlerDeleteEndpoints, HandlerDeleteService
  <1>3. Between(p)' = Between(p)
    BY <1>2 DEF main, Between
  <1>4. hpc[p] \in {"list", "delete", "delSvc"}
    BY <1>1 DEF HandlerList, HandlerDeleteEndpoints, HandlerDeleteService
  <1>5. Clean(p)
    BY <1>2, <1>4 DEF Alone, main
  <1>6. CASE HandlerList(p)
    <2>1. /\ endpoints' = endpoints /\ services' = services /\ hpc[p] = "list"
          /\ hpc'[p] = "delete" /\ hdoomed'[p] = Present(endpoints)
      BY <1>0, <1>6 DEF HandlerList, store, TypeOK
    <2>2. QED BY <1>3, <1>5, <2>1 DEF Clean, HandlerBetween, Present
  <1>7. CASE HandlerDeleteEndpoints(p)
    <2>1. PICK n \in hdoomed[p] :
             /\ endpoints' = Put(endpoints, n, Absent)
             /\ hdoomed' = [hdoomed EXCEPT ![p] = @ \ {n}]
             /\ IF endpoints[n] # Absent
                THEN /\ hpc' = [hpc EXCEPT ![p] = "delSvc"]
                     /\ hcur' = [hcur EXCEPT ![p] = n]
                ELSE UNCHANGED <<hpc, hcur>>
      BY <1>0, <1>7 DEF HandlerDeleteEndpoints, RemoveEndpoints, ServiceIsNext, Rest
    <2>2. /\ n \in Names /\ services' = services /\ hpc[p] = "delete"
          /\ hdoomed'[p] = hdoomed[p] \ {n}
      BY <1>0, <1>7, <2>1 DEF HandlerDeleteEndpoints, TypeOK
    <2>3. /\ Present(endpoints) \subseteq Present(endpoints') \cup {n}
          /\ Present(endpoints') \subseteq Present(endpoints) \ {n}
      BY <1>0, <2>1, <2>2 DEF Present, Put, TypeOK
    <2>4. Present(endpoints') \subseteq hdoomed'[p]
      BY <1>5, <2>2, <2>3 DEF Clean
    <2>5. services \subseteq Present(endpoints) \cup Between(p)
      BY <1>5, <2>2 DEF Clean, HandlerBetween
    <2>6. services' \subseteq Present(endpoints') \cup Between(p)' \cup HandlerBetween(p)'
      <3>1. CASE endpoints[n] # Absent
        <4>1. hpc'[p] = "delSvc" /\ hcur'[p] = n
          BY <1>0, <2>1, <3>1 DEF TypeOK
        <4>2. QED BY <1>3, <2>2, <2>3, <2>5, <4>1 DEF HandlerBetween
      <3>2. CASE endpoints[n] = Absent
        <4>1. n \notin Present(endpoints)
          BY <3>2 DEF Present
        <4>2. QED BY <1>3, <2>2, <2>3, <2>5, <4>1
      <3>3. QED BY <3>1, <3>2
    <2>7. QED BY <2>4, <2>6 DEF Clean, Present
  <1>8. CASE HandlerDeleteService(p)
    <2>1. /\ hpc[p] = "delSvc" /\ hpc'[p] = "delete" /\ hdoomed' = hdoomed
          /\ endpoints' = endpoints /\ services' = services \ {hcur[p]}
      BY <1>0, <1>8 DEF HandlerDeleteService, RemoveService, TypeOK
    <2>2. QED BY <1>3, <1>5, <2>1 DEF Clean, HandlerBetween, Present
  <1>9. QED BY <1>1, <1>6, <1>7, <1>8

LEMMA CleanStep == IInv /\ CleanInv /\ [Next]_vars => CleanInv'
  <1> SUFFICES ASSUME IInv, CleanInv, [Next]_vars, Unfailing', NEW p \in Pods, Alone(p)'
               PROVE  Clean(p)'
    BY DEF CleanInv
  <1>0. TypeOK /\ ~Spend("crash") /\ (Alone(p) => Clean(p)) /\ Pods = {p}
    BY UnfailingBefore DEF IInv, CleanInv, Alone
  <1>1. CASE UNCHANGED vars \/ Change
    <2>1. UNCHANGED <<store, main, handler>>
      BY <1>1 DEF vars, Change
    <2>2. QED BY <1>0, <2>1 DEF store, main, handler, Alone, Clean, Between, HandlerBetween, Present
  <1>2. CASE MainStep(p)
    <2>1. hpc[p] # "done"
      <3>1. hpc' = hpc
        BY <1>2 DEF handler, MainStep, Start, Query, ListEndpoints, UnnamedCluster,
           UpdateEndpointIfNeed, CreateService, CreateEndpoints, DeleteServiceEndpointIfNeed,
           DeleteEndpoints, DeleteService, ListServiceMonitors, CreateServiceMonitor,
           UpdateServiceMonitor, Wake
      <3>2. QED BY <3>1 DEF Alone
    <2>2. QED BY <1>0, <1>2, <2>1, MainClean
  <1>3. CASE HandlerStep(p)
    BY <1>0, <1>3, HandlerClean
  <1>4. CASE Environment(p)
    <2>1. ~Crash(p)
      BY <1>0 DEF Crash
    <2>2. ~Kill(p)
      BY <1>0 DEF Kill, Alone, TypeOK
    <2>3. Sigterm(p)
      BY <1>4, <2>1, <2>2 DEF Environment
    <2>4. /\ UNCHANGED <<store, todo, doomed, cur, hdoomed, hcur>> /\ pc' = pc
          /\ hpc[p] = "off" /\ hpc'[p] = "list"
      BY <1>0, <2>3 DEF Sigterm, Goto, Alone, TypeOK
    <2>5. QED BY <1>0, <2>4 DEF store, Alone, Clean, Between, HandlerBetween, Present
  <1>5. QED BY <1>0, <1>1, <1>2, <1>3, <1>4 DEF Next

(* The handler's last call ends it with nothing left on its list.            *)
LEMMA CleanEnd ==
    ASSUME IInv, CleanInv, [Next]_vars, NEW p \in Pods, HandlerActive(p), hpc'[p] = "done",
           pc'[p] # "gone", Pods = {p}, Unfailing'
    PROVE  /\ Present(endpoints') = {}
           /\ monitors'[Label] = Absent
           /\ services' \subseteq Between(p)
  <1>0. /\ TypeOK /\ Unfailing /\ ~Spend("fault") /\ ~Spend("crash")
        /\ \A o : Pay(o) => o = "ok"
    BY UnfailingBefore DEF IInv
  <1>1. HandlerDeleteMonitor(p)
    <2>1. ~(UNCHANGED vars) /\ ~Change
      BY DEF vars, Change, handler, HandlerActive
    <2>2. ~MainStep(p)
      BY DEF HandlerActive, handler, MainStep, Start, Query, ListEndpoints, UnnamedCluster,
           UpdateEndpointIfNeed, CreateService, CreateEndpoints, DeleteServiceEndpointIfNeed,
           DeleteEndpoints, DeleteService, ListServiceMonitors, CreateServiceMonitor,
           UpdateServiceMonitor, Wake
    <2>3. ~Environment(p)
      BY <1>0 DEF Environment, Sigterm, Kill, Crash, Goto, HandlerActive, TypeOK
    <2>4. ~HandlerList(p) /\ ~HandlerListFails(p) /\ ~HandlerDeleteEndpoints(p) /\ ~HandlerDeleteService(p)
      BY <1>0 DEF HandlerList, HandlerListFails, HandlerDeleteEndpoints, HandlerDeleteService, TypeOK
    <2>5. QED BY <2>1, <2>2, <2>3, <2>4 DEF Next, HandlerStep
  <1>2. /\ hpc[p] = "delete" /\ hdoomed[p] = {} /\ pc' = pc
        /\ endpoints' = endpoints /\ services' = services
        /\ monitors' = Put(monitors, Label, Absent)
    BY <1>0, <1>1 DEF HandlerDeleteMonitor, WriteMonitor, main
  <1>3. Clean(p)
    BY <1>0, <1>2 DEF CleanInv, Alone
  <1>4. Present(endpoints) = {} /\ services \subseteq Between(p)
    BY <1>2, <1>3 DEF Clean, HandlerBetween
  <1>5. monitors'[Label] = Absent
    BY <1>0, <1>2 DEF Put, TypeOK, MonitorNames
  <1>6. QED BY <1>2, <1>4, <1>5

(* When the handler of the only pod returns, and every call of its life was  *)
(* answered, at most the Service its pass was interrupted on is left.        *)
THEOREM CleanupIsComplete == Spec => CleanupComplete
  <1>1. Init => CleanInv
    BY DEF Init, CleanInv, Clean
  <1>2. IInv /\ CleanInv /\ [Next]_vars =>
          [\A p \in Pods : (HandlerActive(p) /\ hpc'[p] = "done" /\ pc'[p] # "gone"
                        /\ Pods = {p} /\ Label = MonitorName
                        /\ spent'["fault"] = 0 /\ spent'["crash"] = 0) =>
          /\ Present(endpoints') = {}
          /\ monitors'[Label] = Absent
          /\ services' \subseteq (IF pc[p] = "createEp" THEN {Lower[cur[p]]} ELSE
                                  IF pc[p] = "delSvc" THEN {cur[p]} ELSE {})]_vars
    BY CleanEnd DEF Unfailing, Between
  <1>3. QED BY <1>1, <1>2, InitIInv, NextIInv, CleanStep, PTL DEF Spec, CleanupComplete

=============================================================================

------------------------------ MODULE Exporter ------------------------------
(***************************************************************************)
(* vsan-prometheus-exporter: the HTTP server that scrapes the ESX hosts of *)
(* one cluster.  One process, several request threads, and one table of    *)
(* connected hosts, hostMos, that every request may read and write without *)
(* a lock.                                                                 *)
(*                                                                         *)
(* A step is what a thread does between two points where another one can   *)
(* make a difference: a remote call, an access to the table, a round of a  *)
(* loop over it.                                                           *)
(***************************************************************************)
EXTENDS Naturals, FiniteSets

CONSTANTS
    Threads, \* gunicorn's request threads
    Hosts,   \* managed object ids of hosts
    Call,    \* stands for a call to vCenter among what a request has lost
    None,
    Bound    \* how often the environment may do each of Kinds

Kinds == {"fault", "change"}
Requests == Hosts \cup {"serviceDiscovery", "all"}
Codes == {0, 200, 401, 404, 500}

ASSUME HostAssumption ==
    /\ IsFiniteSet(Hosts)
    /\ Call \notin Hosts
    /\ Hosts \cap {"serviceDiscovery", "all"} = {}
    /\ None \notin Requests
ASSUME BoundAssumption == Bound \in [Kinds -> Nat]

VARIABLES
    cluster, \* clusterRef.host: the hosts of the cluster in vCenter
    state,   \* "starting" until connectOnStart is over, then "up", or "down"
             \* when it failed and there is no authToken
    hostMos, \* the keys of the table
    due,     \* HOST_CONSISTENCY_CHECK_INTERVAL is over since lastUpdateTime
    th,      \* thread |-> its local state
    spent    \* how often the environment did each of Kinds

vars == <<cluster, state, hostMos, due, th, spent>>

(* What a thread holds: pc; req, the request it serves; seen, the hosts the *)
(* cluster had when it asked; todo, what a loop still has to go through;    *)
(* missing, the hosts it found unconnected; out, the hosts it answers with, *)
(* collected from a table of that size; code, the status of the answer.  As *)
(* history: touched, the hosts another thread connected or dropped since    *)
(* the request, its check or its loop began; lost, what a call of its own   *)
(* failed on.                                                               *)
Idle == [pc |-> "idle", req |-> None, seen |-> {}, todo |-> {}, missing |-> {},
         out |-> {}, size |-> 0, code |-> 0, touched |-> {}, lost |-> {}]

Spend(k) == /\ spent[k] < Bound[k]
            /\ spent' = [spent EXCEPT ![k] = @ + 1]
Paid == UNCHANGED spent

At(t, s) == th[t].pc = s

(* t's local state becomes r.                                              *)
Local(t, r) == /\ th' = [th EXCEPT ![t] = r]
               /\ UNCHANGED <<cluster, state, hostMos>>

(* ... and the table becomes table, under the eyes of the other threads.   *)
Write(t, r, table) ==
    /\ hostMos' = table
    /\ th' = [u \in Threads |->
                IF u = t THEN r
                ELSE IF At(u, "idle") THEN th[u]
                ELSE [th[u] EXCEPT !.touched =
                        @ \cup (table \ hostMos) \cup (hostMos \ table)]]
    /\ UNCHANGED <<cluster, state>>

Goto(r, s) == [r EXCEPT !.pc = s]
Begin(q, s) == [Idle EXCEPT !.req = q, !.pc = s]
Reply(r, code, body) == [r EXCEPT !.pc = "answered", !.code = code, !.out = body,
                                  !.todo = {}, !.missing = {}, !.size = 0]
Lose(r, x) == [r EXCEPT !.lost = @ \cup x]

(* An exception is answered with an empty list by service discovery, and   *)
(* becomes an internal error elsewhere.                                    *)
Broken(r) == Reply(r, IF r.req = "serviceDiscovery" THEN 200 ELSE 500, {})

(* Connecting to a set of hosts, one thread each: a thread that fails ends *)
(* silently and its host is left out.                                      *)
GetHostMos(refs, up) == up \subseteq refs /\ (IF up = refs THEN Paid ELSE Spend("fault"))

Init ==
    /\ cluster \in SUBSET Hosts
    /\ state = "starting"
    /\ hostMos = {}
    /\ due = FALSE
    /\ th = [t \in Threads |-> Idle]
    /\ spent = [k \in Kinds |-> 0]

(* Before the first request is served.  A failure is logged and final.     *)
ConnectOnStart ==
    /\ state = "starting"
    /\ \/ \E up \in SUBSET cluster :
             /\ GetHostMos(cluster, up)
             /\ hostMos' = up
             /\ state' = "up"
       \/ /\ Spend("fault")
          /\ state' = "down"
          /\ UNCHANGED hostMos
    /\ UNCHANGED <<cluster, due, th>>

-----------------------------------------------------------------------------
(* Requests.                                                               *)

(* The token is another one, or there is none to compare with: discovery is *)
(* an empty list then, anything else is refused.                           *)
Unauthorized(t) ==
    /\ At(t, "idle") /\ state # "starting"
    /\ \E code \in {200, 401} : Local(t, Reply(Idle, code, {}))
    /\ UNCHANGED <<due, spent>>

(* Mutant: with no token at all, a request without one is as good.         *)
ServiceDiscoveryNoToken(t) ==
    /\ At(t, "idle") /\ state # "starting"
    /\ Local(t, Begin("serviceDiscovery", IF due THEN "check" ELSE "name"))
    /\ UNCHANGED <<due, spent>>

(* serviceDiscovery, and _hostConsistencyCheck up to its early return.     *)
ServiceDiscovery(t) ==
    /\ At(t, "idle") /\ state = "up"
    /\ Local(t, Begin("serviceDiscovery", IF due THEN "check" ELSE "name"))
    /\ UNCHANGED <<due, spent>>

GetStatsForAllHosts(t) ==
    /\ At(t, "idle") /\ state = "up"
    /\ Local(t, [Begin("all", "iterate") EXCEPT !.size = Cardinality(hostMos)])
    /\ UNCHANGED <<due, spent>>

(* getStatsForHost and its first look at the table.                        *)
GetStatsForHost(t) ==
    /\ At(t, "idle") /\ state = "up"
    /\ \E h \in Hosts :
          Local(t, Begin(h, IF h \in hostMos THEN "again" ELSE "find"))
    /\ UNCHANGED <<due, spent>>

-----------------------------------------------------------------------------
(* _hostConsistencyCheck.                                                  *)

(* clusterRef.host is one remote call; the loop goes through its result.   *)
FetchClusterHosts(t) ==
    /\ At(t, "check")
    /\ \/ /\ Local(t, [Goto(th[t], "compare") EXCEPT !.seen = cluster, !.todo = cluster,
                                                      !.touched = {}])
          /\ Paid
       \/ Local(t, Broken(Lose(th[t], {Call}))) /\ Spend("fault")
    /\ UNCHANGED due

(* Mutant: the comparison the wrong way round.                             *)
CompareSwapped(t) ==
    /\ At(t, "compare")
    /\ \/ \E h \in th[t].todo :
             Local(t, [th[t] EXCEPT !.todo = @ \ {h},
                                    !.missing = IF h \in hostMos THEN @ \cup {h} ELSE @])
       \/ /\ th[t].todo = {}
          /\ Local(t, Goto(th[t], IF th[t].missing = {} THEN "keys" ELSE "connect"))
    /\ UNCHANGED <<due, spent>>

Compare(t) ==
    /\ At(t, "compare")
    /\ \/ \E h \in th[t].todo :
             Local(t, [th[t] EXCEPT !.todo = @ \ {h},
                                    !.missing = IF h \in hostMos THEN @ ELSE @ \cup {h}])
       \/ /\ th[t].todo = {}
          /\ Local(t, Goto(th[t], IF th[t].missing = {} THEN "keys" ELSE "connect"))
    /\ UNCHANGED <<due, spent>>

(* Mutant: one host that cannot be reached costs the others.               *)
ConnectAllOrNone(t) ==
    /\ At(t, "connect")
    /\ \E up \in SUBSET th[t].missing :
          /\ GetHostMos(th[t].missing, up)
          /\ Write(t, [Goto(Lose(th[t], th[t].missing \ up), "keys") EXCEPT !.missing = {}],
                   IF up = th[t].missing THEN hostMos \cup up ELSE hostMos)
    /\ UNCHANGED due

ConnectMissing(t) ==
    /\ At(t, "connect")
    /\ \E up \in SUBSET th[t].missing :
          /\ GetHostMos(th[t].missing, up)
          /\ Write(t, [Goto(Lose(th[t], th[t].missing \ up), "keys") EXCEPT !.missing = {}],
                   hostMos \cup up)
    /\ UNCHANGED due

(* Mutant: the loop goes over the table itself, and meets its own deletions. *)
SweepInPlace(t) ==
    /\ At(t, "sweep")
    /\ \/ /\ \E h \in th[t].todo :
                IF h \in hostMos
                THEN Write(t, Broken(th[t]), hostMos \ {h})
                ELSE Local(t, Broken(th[t]))
          /\ UNCHANGED due
       \/ /\ th[t].todo = {}
          /\ Local(t, Begin(th[t].req, "name"))
          /\ due' = FALSE
    /\ Paid

(* The obsolete ones among the keys as they are now are dropped one by one; *)
(* one that another request has dropped already raises a KeyError.  Only a *)
(* check that gets to its end counts.                                      *)
ListKeys(t) ==
    /\ At(t, "keys")
    /\ Local(t, [Goto(th[t], "sweep") EXCEPT !.todo = hostMos \ th[t].seen])
    /\ UNCHANGED <<due, spent>>
Sweep(t) ==
    /\ At(t, "sweep")
    /\ \/ /\ \E h \in th[t].todo :
                IF h \in hostMos
                THEN Write(t, [th[t] EXCEPT !.todo = @ \ {h}], hostMos \ {h})
                ELSE Local(t, Broken(th[t]))
          /\ UNCHANGED due
       \/ /\ th[t].todo = {}
          /\ Local(t, Begin(th[t].req, "name"))
          /\ due' = FALSE
    /\ Paid

-----------------------------------------------------------------------------
(* Listing the table, for service discovery or for all metrics.            *)

(* clusterRef.name is a remote call.                                       *)
FetchClusterName(t) ==
    /\ At(t, "name")
    /\ \/ /\ Local(t, [Begin(th[t].req, "iterate") EXCEPT !.size = Cardinality(hostMos)])
          /\ Paid
       \/ Local(t, Broken(Lose(th[t], {Call}))) /\ Spend("fault")
    /\ UNCHANGED due

(* Every round of a loop over a dict first compares its size with the one  *)
(* at the start, and raises a RuntimeError when they differ.  A dict that  *)
(* lost one key and got another has the same size; the loop may then end   *)
(* early.                                                                  *)
Iterate(t) ==
    /\ At(t, "iterate")
    /\ \/ /\ th[t].size # Cardinality(hostMos)
          /\ Local(t, Broken(th[t]))
       \/ /\ th[t].size = Cardinality(hostMos)
          /\ \E h \in hostMos \ th[t].out :
                Local(t, [th[t] EXCEPT !.out = @ \cup {h}])
       \/ /\ th[t].size = Cardinality(hostMos)
          /\ hostMos \subseteq th[t].out \/ th[t].touched # {}
          /\ Local(t, IF th[t].req = "serviceDiscovery" THEN Reply(th[t], 200, th[t].out)
                      ELSE [Begin("all", "retrieve") EXCEPT !.out = th[t].out])
    /\ UNCHANGED <<due, spent>>

-----------------------------------------------------------------------------
(* The metrics of one host.                                                *)

(* Mutant: any name is taken for one of the cluster's hosts.                *)
FindHostUnchecked(t) ==
    /\ At(t, "find")
    /\ \/ Local(t, [Goto(th[t], "connectOne") EXCEPT !.seen = cluster]) /\ Paid
       \/ Local(t, Broken(Lose(th[t], {Call}))) /\ Spend("fault")
    /\ UNCHANGED due

FindHost(t) ==
    /\ At(t, "find")
    /\ \/ /\ Local(t, [Goto(th[t], IF th[t].req \in cluster THEN "connectOne" ELSE "again")
                       EXCEPT !.seen = cluster])
          /\ Paid
       \/ Local(t, Broken(Lose(th[t], {Call}))) /\ Spend("fault")
    /\ UNCHANGED due

(* Mutant: the new connection is not put into the table.                   *)
ConnectHostForgets(t) ==
    /\ At(t, "connectOne")
    /\ \E up \in SUBSET {th[t].req} :
          /\ GetHostMos({th[t].req}, up)
          /\ Write(t, Goto(Lose(th[t], {th[t].req} \ up), "again"), hostMos)
    /\ UNCHANGED due

ConnectHost(t) ==
    /\ At(t, "connectOne")
    /\ \E up \in SUBSET {th[t].req} :
          /\ GetHostMos({th[t].req}, up)
          /\ Write(t, Goto(Lose(th[t], {th[t].req} \ up), "again"), hostMos \cup up)
    /\ UNCHANGED due

(* Mutant: the entry is fetched without a second look.                     *)
LookAgainSkipped(t) ==
    /\ At(t, "again")
    /\ Local(t, Goto(th[t], "get"))
    /\ UNCHANGED <<due, spent>>

LookAgain(t) ==
    /\ At(t, "again")
    /\ Local(t, IF th[t].req \in hostMos THEN Goto(th[t], "get") ELSE Reply(th[t], 404, {}))
    /\ UNCHANGED <<due, spent>>

GetEntry(t) ==
    /\ At(t, "get")
    /\ Local(t, IF th[t].req \in hostMos
                THEN [Begin(th[t].req, "retrieve") EXCEPT !.out = {th[t].req}]
                ELSE Broken(th[t]))
    /\ UNCHANGED <<due, spent>>

(* A host whose metrics cannot be fetched contributes none.                *)
RetrieveStats(t) ==
    /\ At(t, "retrieve")
    /\ \E got \in SUBSET th[t].out :
          /\ Local(t, Reply(Idle, 200, got))
          /\ IF got = th[t].out THEN Paid ELSE Spend("fault")
    /\ UNCHANGED due

(* The answer is out.                                                      *)
Answered(t) ==
    /\ At(t, "answered")
    /\ Local(t, Idle)
    /\ UNCHANGED <<due, spent>>

-----------------------------------------------------------------------------
ClusterChanges ==
    /\ Spend("change")
    /\ cluster' \in SUBSET Hosts \ {cluster}
    /\ UNCHANGED <<state, hostMos, due, th>>

IntervalPasses ==
    /\ state = "up" /\ ~due
    /\ due' = TRUE
    /\ UNCHANGED <<cluster, state, hostMos, th, spent>>

Request(t) == \/ Unauthorized(t) \/ ServiceDiscovery(t) \/ GetStatsForAllHosts(t)
              \/ GetStatsForHost(t)
Step(t) == \/ FetchClusterHosts(t) \/ Compare(t) \/ ConnectMissing(t) \/ ListKeys(t)
           \/ Sweep(t) \/ FetchClusterName(t) \/ Iterate(t) \/ FindHost(t)
           \/ ConnectHost(t) \/ LookAgain(t) \/ GetEntry(t) \/ RetrieveStats(t)
           \/ Answered(t)

Next == \/ ConnectOnStart \/ ClusterChanges \/ IntervalPasses
        \/ \E t \in Threads : Request(t) \/ Step(t)

Spec == Init /\ [][Next]_vars

(* A request that was accepted goes on until it is answered; time passes;  *)
(* Prometheus asks for its targets again and again, and its request waits  *)
(* in line until a thread is free.                                         *)
FairSpec == /\ Spec
            /\ WF_vars(ConnectOnStart) /\ WF_vars(IntervalPasses)
            /\ \A t \in Threads : WF_vars(Step(t))
            /\ SF_vars(\E t \in Threads : ServiceDiscovery(t))

=============================================================================

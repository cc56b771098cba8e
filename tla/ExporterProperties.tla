------------------------- MODULE ExporterProperties -------------------------
(* What is claimed of Exporter.                                              *)
EXTENDS Exporter

Steps == {"idle", "check", "compare", "connect", "keys", "sweep", "name", "iterate",
          "find", "connectOne", "again", "get", "retrieve", "answered"}
Thread == [pc : Steps, req : Requests \cup {None}, seen : SUBSET Hosts,
           todo : SUBSET Hosts, missing : SUBSET Hosts, out : SUBSET Hosts,
           size : Nat, code : Codes, touched : SUBSET Hosts,
           lost : SUBSET (Hosts \cup {Call})]

(* The variables have their types, and no request is served before the      *)
(* connection on start.                                                     *)
TypeOK ==
    /\ cluster \subseteq Hosts
    /\ state \in {"starting", "up", "down"}
    /\ hostMos \subseteq Hosts
    /\ due \in BOOLEAN
    /\ th \in [Threads -> Thread]
    /\ spent \in [Kinds -> Nat]
    /\ state # "up" => hostMos = {} /\ \A t \in Threads : th[t].pc \in {"idle", "answered"}
    /\ \A t \in Threads : th[t].pc \in {"find", "connectOne", "again", "get"} => th[t].req \in Hosts

(* A consistency check does what it is for, host by host: once it is over,  *)
(* a host no other request connected or dropped meanwhile is in the table   *)
(* just if the cluster had it when the check asked, unless this check could *)
(* not reach it.  A host that cannot be reached costs no other one.         *)
CheckConverges ==
    \A t \in Threads :
       (At(t, "sweep") /\ th[t].todo = {})
       => \A h \in Hosts \ th[t].touched :
             h \in hostMos <=> h \in th[t].seen \ th[t].lost

(* A request for the metrics of a host is told there are none only if the   *)
(* cluster did not have the host, the host could not be reached, or another *)
(* request dropped it meanwhile.                                            *)
NotFoundJustified ==
    \A t \in Threads :
       (At(t, "answered") /\ th[t].code = 404)
       => th[t].req \notin (th[t].seen \ th[t].lost) \ th[t].touched

(* An internal error has a cause outside this request: a call to vCenter    *)
(* failed, or another request changed the table under it.                   *)
ErrorsJustified ==
    \A t \in Threads :
       (At(t, "answered") /\ th[t].code = 500) => Call \in th[t].lost \/ th[t].touched # {}

(* Once the cluster stays as it is, the table comes to hold just its hosts  *)
(* and to stay so, whatever requests overlapped and however often a host    *)
(* could not be reached.                                                    *)
EventuallyConnected ==
    \A S \in SUBSET Hosts :
       <>[](cluster = S /\ state = "up") => <>[](hostMos = S)

(* What an authorised service discovery answers is the table: a host that    *)
(* is connected is left out, or one that is not is listed, only if a call of *)
(* its own to vCenter failed or another request changed the table since the *)
(* listing, or the check before it, began.                                  *)
DiscoveryJustified ==
    \A t \in Threads :
       (At(t, "answered") /\ th[t].req = "serviceDiscovery")
       => th[t].out = hostMos \/ Call \in th[t].lost \/ th[t].touched # {}

(* Requests overlap with snapshots of different age, lose calls and break    *)
(* off, and yet no host is connected or dropped but by a request that was    *)
(* told, and still goes by it, that the cluster has it or has it not.        *)
Holds(t) == th[t].pc \in {"compare", "connect", "keys", "sweep", "connectOne"}
Table == INSTANCE HostTable WITH
    table <- hostMos, snapshots <- {th[t].seen : t \in {u \in Threads : Holds(u)}}
RefinesHostTable == Table!Spec

=============================================================================

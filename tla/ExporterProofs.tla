--------------------------- MODULE ExporterProofs ---------------------------
(* Theorems about Exporter, for any number of request threads and hosts.     *)
EXTENDS ExporterProperties, FiniteSetTheorems, TLAPS

Checking == {"check", "compare", "connect", "keys", "sweep"}

(* What a thread in state e may rely on when the table is T: outside touched *)
(* the table is as the thread itself left it.                               *)
CheckGood(e, T) ==
    /\ e.pc \in Checking \cup {"name"} => e.req = "serviceDiscovery"
    /\ e.pc \in {"check", "compare", "connect"} => e.lost = {}
    /\ e.pc = "check" => e.missing = {}
    /\ e.pc = "compare" =>
         /\ e.todo \subseteq e.seen /\ e.missing \subseteq e.seen \ e.todo
         /\ \A h \in (e.seen \ e.todo) \ e.touched : h \in e.missing <=> h \notin T
    /\ e.pc = "connect" =>
         /\ e.missing \subseteq e.seen
         /\ \A h \in e.seen \ e.touched : h \in e.missing <=> h \notin T
    /\ e.pc \in {"keys", "sweep"} =>
         \A h \in e.seen \ e.touched : h \in T <=> h \notin e.lost
    /\ e.pc = "sweep" =>
         /\ e.todo \cap e.seen = {} /\ e.todo \subseteq T \cup e.touched
         /\ \A h \in Hosts \ (e.seen \cup e.touched) : h \in T <=> h \in e.todo

RequestGood(e, T) ==
    /\ e.pc = "iterate" =>
         /\ e.req \in {"serviceDiscovery", "all"}
         /\ e.touched = {} => e.size = Cardinality(T) /\ e.out \subseteq T
    /\ e.pc = "connectOne" => e.req \in e.seen
    /\ e.pc = "again" => (e.req \in (e.seen \ e.lost) \ e.touched => e.req \in T)
    /\ e.pc = "get" => e.req \in T \/ e.touched # {}
    /\ e.pc \in {"find", "connectOne", "again", "get"} => e.req \in Hosts

Justified(e, code, body, T) ==
    /\ code = 404 => e.req \notin (e.seen \ e.lost) \ e.touched
    /\ code = 500 => Call \in e.lost \/ e.touched # {}
    /\ e.req = "serviceDiscovery" => body = T \/ Call \in e.lost \/ e.touched # {}
AnswerGood(e, T) == e.pc = "answered" => Justified(e, e.code, e.out, T)

Good(e, T) == CheckGood(e, T) /\ RequestGood(e, T) /\ AnswerGood(e, T)

Types ==
    /\ cluster \subseteq Hosts
    /\ state \in {"starting", "up", "down"}
    /\ hostMos \subseteq Hosts
    /\ due \in BOOLEAN
    /\ th \in [Threads -> Thread]
    /\ spent \in [Kinds -> Nat]
    /\ state # "up" => hostMos = {} /\ \A t \in Threads : th[t].pc \in {"idle", "answered"}
    /\ state = "starting" => \A t \in Threads : th[t].pc = "idle"

IInv == Types /\ \A t \in Threads : Good(th[t], hostMos)

-----------------------------------------------------------------------------
LEMMA SizeIsNat == ASSUME NEW T \in SUBSET Hosts PROVE Cardinality(T) \in Nat
  BY HostAssumption, FS_Subset, FS_CardinalityType

LEMMA IdleIsGood == Idle \in Thread /\ \A T \in SUBSET Hosts : Good(Idle, T)
  BY HostAssumption
     DEF Idle, Thread, Steps, Codes, Good, CheckGood, RequestGood, AnswerGood, Checking

LEMMA InitIInv == Init => IInv
  <1> SUFFICES ASSUME Init PROVE IInv
    OBVIOUS
  <1>1. Types
    BY IdleIsGood DEF Init, Types, Kinds, Idle
  <1>2. QED BY <1>1, IdleIsGood DEF Init, IInv

(* Another thread's change of the table is among the hosts touched.          *)
Seeing(e, T, U) == [e EXCEPT !.touched = @ \cup (U \ T) \cup (T \ U)]

LEMMA OthersStayGood ==
    ASSUME NEW e \in Thread, NEW T \in SUBSET Hosts, NEW U \in SUBSET Hosts, Good(e, T)
    PROVE  /\ Seeing(e, T, U) \in Thread /\ Good(Seeing(e, T, U), U)
           /\ e.pc = "idle" => Good(e, U)
  <1> DEFINE f == Seeing(e, T, U)
  <1>1. /\ f \in Thread /\ f.pc = e.pc /\ f.req = e.req /\ f.seen = e.seen /\ f.todo = e.todo
        /\ f.missing = e.missing /\ f.out = e.out /\ f.size = e.size /\ f.code = e.code
        /\ f.lost = e.lost /\ f.touched = e.touched \cup (U \ T) \cup (T \ U)
    BY DEF Seeing, Thread
  <1> HIDE DEF f
  <1>2. CheckGood(f, U)
    BY <1>1 DEF Good, CheckGood, Thread
  <1>3. RequestGood(f, U)
    <2>1. f.touched = {} => U = T /\ e.touched = {}
      BY <1>1
    <2>2. QED BY <1>1, <2>1 DEF Good, RequestGood
  <1>4. AnswerGood(f, U)
    BY <1>1 DEF Good, AnswerGood, Justified
  <1>5. e.pc = "idle" => Good(e, U)
    BY DEF Good, CheckGood, RequestGood, AnswerGood, Checking
  <1>6. QED BY <1>1, <1>2, <1>3, <1>4, <1>5 DEF f, Good

LEMMA SpendTypes ==
    ASSUME NEW k \in Kinds, spent \in [Kinds -> Nat], Spend(k) \/ UNCHANGED spent
    PROVE  spent' \in [Kinds -> Nat]
  BY DEF Spend

LEMMA LocalKeeps ==
    ASSUME IInv, NEW t \in Threads, NEW e \in Thread, Local(t, e), Good(e, hostMos),
           state = "up" \/ (state # "starting" /\ e.pc \in {"idle", "answered"}),
           due' \in BOOLEAN, Spend("fault") \/ UNCHANGED spent
    PROVE  IInv'
  <1>1. spent' \in [Kinds -> Nat]
    BY SpendTypes DEF IInv, Types, Kinds
  <1>2. QED BY <1>1 DEF IInv, Types, Local

LEMMA WriteKeeps ==
    ASSUME IInv, NEW t \in Threads, NEW e \in Thread, NEW U \in SUBSET Hosts,
           Write(t, e, U), Good(e, U), state = "up",
           due' \in BOOLEAN, Spend("fault") \/ UNCHANGED spent
    PROVE  IInv'
  <1>1. spent' \in [Kinds -> Nat]
    BY SpendTypes DEF IInv, Types, Kinds
  <1>2. ASSUME NEW u \in Threads PROVE th'[u] \in Thread /\ Good(th'[u], U)
    <2>1. CASE u = t
      BY <2>1 DEF Write
    <2>2. CASE u # t
      <3>1. th[u] \in Thread /\ Good(th[u], hostMos) /\ hostMos \in SUBSET Hosts
        BY DEF IInv, Types
      <3>2. th'[u] = IF th[u].pc = "idle" THEN th[u] ELSE Seeing(th[u], hostMos, U)
        BY <2>2 DEF Write, At, Seeing
      <3>3. QED BY <3>1, <3>2, OthersStayGood
    <2>3. QED BY <2>1, <2>2
  <1>3. th' \in [Threads -> Thread]
    BY <1>2 DEF Write
  <1>4. QED BY <1>1, <1>2, <1>3 DEF IInv, Types, Write

(* What IInv says of the thread that takes a step.                           *)
LEMMA OfThread ==
    ASSUME IInv, NEW t \in Threads
    PROVE  /\ th[t] \in Thread /\ Good(th[t], hostMos)
           /\ th[t].pc \notin {"idle", "answered"} => state = "up"
           /\ th[t].pc # "idle" => state # "starting"
           /\ hostMos \subseteq Hosts /\ cluster \subseteq Hosts /\ due \in BOOLEAN
  BY DEF IInv, Types

-----------------------------------------------------------------------------
(* What the ways to change a thread's state do to its fields.                *)
LEMMA Begins ==
    ASSUME NEW q \in Requests, NEW s \in Steps
    PROVE  /\ Begin(q, s) \in Thread /\ Begin(q, s).pc = s /\ Begin(q, s).req = q
           /\ Begin(q, s).seen = {} /\ Begin(q, s).todo = {} /\ Begin(q, s).missing = {}
           /\ Begin(q, s).touched = {} /\ Begin(q, s).lost = {}
  <1>1. Begin(q, s) \in Thread
    BY DEF Begin, Idle, Thread, Codes
  <1>2. /\ Begin(q, s).pc = s /\ Begin(q, s).req = q
        /\ Begin(q, s).seen = {} /\ Begin(q, s).todo = {} /\ Begin(q, s).missing = {}
        /\ Begin(q, s).touched = {} /\ Begin(q, s).lost = {}
    BY DEF Begin, Idle
  <1>3. QED BY <1>1, <1>2

LEMMA Replies ==
    ASSUME NEW e \in Thread, NEW c \in Codes, NEW b \in SUBSET Hosts
    PROVE  /\ Reply(e, c, b) \in Thread /\ Reply(e, c, b).pc = "answered"
           /\ Reply(e, c, b).req = e.req /\ Reply(e, c, b).seen = e.seen
           /\ Reply(e, c, b).touched = e.touched /\ Reply(e, c, b).lost = e.lost
           /\ Reply(e, c, b).code = c /\ Reply(e, c, b).out = b
  <1>1. Reply(e, c, b) \in Thread
    BY DEF Reply, Thread, Steps
  <1>2. /\ Reply(e, c, b).pc = "answered"
        /\ Reply(e, c, b).req = e.req /\ Reply(e, c, b).seen = e.seen
        /\ Reply(e, c, b).touched = e.touched /\ Reply(e, c, b).lost = e.lost
        /\ Reply(e, c, b).code = c /\ Reply(e, c, b).out = b
    BY DEF Reply, Thread
  <1>3. QED BY <1>1, <1>2

LEMMA BeginIsGood ==
    ASSUME NEW T \in SUBSET Hosts, NEW q \in Requests, NEW s \in {"check", "name", "find", "again"},
           s \in {"check", "name"} => q = "serviceDiscovery",
           s \in {"find", "again"} => q \in Hosts,
           s = "again" => q \in T
    PROVE  Begin(q, s) \in Thread /\ Good(Begin(q, s), T) /\ Begin(q, s).pc = s
  <1> DEFINE e == Begin(q, s)
  <1>1. /\ e \in Thread /\ e.pc = s /\ e.req = q /\ e.missing = {} /\ e.lost = {}
    BY Begins DEF Steps
  <1> HIDE DEF e
  <1>2. Good(e, T)
    BY <1>1 DEF Good, CheckGood, RequestGood, AnswerGood, Checking
  <1>3. QED BY <1>1, <1>2 DEF e

(* The start of a loop over the table.                                       *)
LEMMA ListIsGood ==
    ASSUME NEW T \in SUBSET Hosts, NEW q \in {"serviceDiscovery", "all"}
    PROVE  LET e == [Begin(q, "iterate") EXCEPT !.size = Cardinality(T)]
           IN  e \in Thread /\ Good(e, T)
  <1> DEFINE d == Begin(q, "iterate")
             e == [d EXCEPT !.size = Cardinality(T)]
  <1>1. d \in Thread /\ d.pc = "iterate" /\ d.req = q
    BY Begins DEF Requests, Steps
  <1>2. d.out = {}
    BY DEF Begin, Idle
  <1> HIDE DEF d
  <1>3. e \in Thread /\ e.pc = "iterate" /\ e.req = q /\ e.out = {} /\ e.size = Cardinality(T)
    BY <1>1, <1>2, SizeIsNat DEF Thread
  <1> HIDE DEF e
  <1>4. Good(e, T)
    BY <1>3 DEF Good, CheckGood, RequestGood, AnswerGood, Checking
  <1>5. QED BY <1>3, <1>4 DEF e, d

LEMMA ReplyIsGood ==
    ASSUME NEW T \in SUBSET Hosts, NEW e \in Thread, NEW c \in Codes, NEW b \in SUBSET Hosts,
           Justified(e, c, b, T)
    PROVE  /\ Reply(e, c, b) \in Thread /\ Reply(e, c, b).pc = "answered"
           /\ Good(Reply(e, c, b), T)
  <1> DEFINE f == Reply(e, c, b)
  <1>1. /\ f \in Thread /\ f.pc = "answered" /\ f.req = e.req /\ f.seen = e.seen
        /\ f.touched = e.touched /\ f.lost = e.lost /\ f.code = c /\ f.out = b
    BY Replies
  <1> HIDE DEF f
  <1>2. Good(f, T)
    BY <1>1 DEF Good, CheckGood, RequestGood, AnswerGood, Justified, Checking
  <1>3. QED BY <1>1, <1>2 DEF f

LEMMA RequestKeeps == ASSUME IInv, NEW t \in Threads, Request(t) PROVE IInv'
  <1> USE OfThread
  <1>1. CASE Unauthorized(t)
    <2>1. PICK code \in {200, 401} : Local(t, Reply(Idle, code, {}))
      BY <1>1 DEF Unauthorized
    <2>2. Idle \in Thread /\ Idle.req # "serviceDiscovery"
      BY IdleIsGood, HostAssumption DEF Idle, Requests
    <2>3. {} \in SUBSET Hosts /\ code \in Codes /\ Justified(Idle, code, {}, hostMos)
      BY <2>1, <2>2 DEF Codes, Justified
    <2> DEFINE e == Reply(Idle, code, {})
    <2>4. e \in Thread /\ e.pc = "answered" /\ Good(e, hostMos)
      BY <2>2, <2>3, ReplyIsGood
    <2>5. Local(t, e) /\ UNCHANGED <<due, spent>> /\ state # "starting"
      BY <1>1, <2>1 DEF Unauthorized
    <2> HIDE DEF e
    <2>6. QED BY <2>4, <2>5, LocalKeeps
  <1>2. CASE ServiceDiscovery(t)
    BY <1>2, BeginIsGood, LocalKeeps DEF ServiceDiscovery, Requests
  <1>3. CASE GetStatsForAllHosts(t)
    BY <1>3, ListIsGood, LocalKeeps DEF GetStatsForAllHosts
  <1>4. CASE GetStatsForHost(t)
    BY <1>4, BeginIsGood, LocalKeeps DEF GetStatsForHost, Requests
  <1>5. QED BY <1>1, <1>2, <1>3, <1>4 DEF Request

(* An exception, for which there is always a cause outside this request.     *)
LEMMA BrokenIsGood ==
    ASSUME NEW e \in Thread, NEW T \in SUBSET Hosts, Call \in e.lost \/ e.touched # {}
    PROVE  Broken(e) \in Thread /\ Broken(e).pc = "answered" /\ Good(Broken(e), T)
  <1>1. ASSUME NEW c \in {200, 500}
        PROVE  /\ Reply(e, c, {}) \in Thread /\ Reply(e, c, {}).pc = "answered"
               /\ Good(Reply(e, c, {}), T)
    <2>1. {} \in SUBSET Hosts /\ c \in Codes /\ Justified(e, c, {}, T)
      BY DEF Codes, Justified
    <2>2. QED BY <2>1, ReplyIsGood
  <1>2. QED BY <1>1 DEF Broken

(* A call to vCenter that fails.                                             *)
LEMMA LostCall ==
    ASSUME IInv, NEW t \in Threads, th[t].pc # "idle",
           Local(t, Broken(Lose(th[t], {Call}))), Spend("fault"), UNCHANGED due
    PROVE  IInv'
  <1>1. Lose(th[t], {Call}) \in Thread /\ Call \in Lose(th[t], {Call}).lost
    BY OfThread DEF Lose, Thread
  <1>2. QED BY <1>1, OfThread, BrokenIsGood, LocalKeeps

LEMMA FetchClusterHostsKeeps == ASSUME IInv, NEW t \in Threads, FetchClusterHosts(t) PROVE IInv'
  <1> USE OfThread
  <1> DEFINE e == [Goto(th[t], "compare") EXCEPT !.seen = cluster, !.todo = cluster, !.touched = {}]
  <1>1. CASE Local(t, e) /\ Paid
    <2>0. th[t].pc = "check" /\ th[t].lost = {} /\ th[t].req = "serviceDiscovery"
      BY DEF FetchClusterHosts, At, Good, CheckGood, Checking
    <2>1. e \in Thread /\ e.pc = "compare" /\ e.seen = cluster /\ e.todo = cluster
      BY DEF Goto, Thread, Steps
    <2>2. e.touched = {} /\ e.lost = {} /\ e.missing = th[t].missing /\ e.req = th[t].req
      BY <2>0 DEF Goto, Thread
    <2>3. th[t].missing = {}
      BY <2>0 DEF Good, CheckGood
    <2> HIDE DEF e
    <2>4. Good(e, hostMos)
      BY <2>0, <2>1, <2>2, <2>3 DEF Good, CheckGood, RequestGood, AnswerGood, Checking
    <2>5. QED BY <1>1, <2>0, <2>1, <2>4, LocalKeeps DEF FetchClusterHosts, Paid
  <1>2. QED BY <1>1, LostCall DEF FetchClusterHosts, At

LEMMA CompareKeeps == ASSUME IInv, NEW t \in Threads, Compare(t) PROVE IInv'
  <1> USE OfThread
  <1>0. th[t].pc = "compare" /\ th[t].lost = {} /\ th[t].req = "serviceDiscovery"
    BY DEF Compare, At, Good, CheckGood, Checking
  <1>1. ASSUME NEW h \in th[t].todo,
               Local(t, [th[t] EXCEPT !.todo = @ \ {h},
                                      !.missing = IF h \in hostMos THEN @ ELSE @ \cup {h}])
        PROVE  IInv'
    <2> DEFINE e == [th[t] EXCEPT !.todo = @ \ {h},
                                  !.missing = IF h \in hostMos THEN @ ELSE @ \cup {h}]
    <2>1. e \in Thread
      BY DEF Thread
    <2>2. Good(e, hostMos)
      BY <1>0 DEF Good, CheckGood, RequestGood, AnswerGood, Checking, Thread
    <2>3. QED BY <1>0, <1>1, <2>1, <2>2, LocalKeeps DEF Compare
  <1>2. CASE /\ th[t].todo = {}
             /\ Local(t, Goto(th[t], IF th[t].missing = {} THEN "keys" ELSE "connect"))
    <2> DEFINE e == Goto(th[t], IF th[t].missing = {} THEN "keys" ELSE "connect")
    <2>1. e \in Thread
      BY DEF Goto, Thread, Steps
    <2>2. Good(e, hostMos)
      BY <1>0, <1>2 DEF Goto, Good, CheckGood, RequestGood, AnswerGood, Checking, Thread
    <2>3. QED BY <1>0, <1>2, <2>1, <2>2, LocalKeeps DEF Compare
  <1>3. QED BY <1>1, <1>2 DEF Compare

LEMMA GetHostMosSpends ==
    ASSUME NEW S, NEW up, GetHostMos(S, up) PROVE Spend("fault") \/ UNCHANGED spent
  BY DEF GetHostMos, Paid

LEMMA ConnectMissingKeeps == ASSUME IInv, NEW t \in Threads, ConnectMissing(t) PROVE IInv'
  <1> USE OfThread
  <1>0. th[t].pc = "connect" /\ th[t].lost = {} /\ th[t].req = "serviceDiscovery"
    BY DEF ConnectMissing, At, Good, CheckGood, Checking
  <1>1. PICK up \in SUBSET th[t].missing :
          /\ GetHostMos(th[t].missing, up)
          /\ Write(t, [Goto(Lose(th[t], th[t].missing \ up), "keys") EXCEPT !.missing = {}],
                   hostMos \cup up)
    BY DEF ConnectMissing
  <1> DEFINE e == [Goto(Lose(th[t], th[t].missing \ up), "keys") EXCEPT !.missing = {}]
  <1>2. e \in Thread /\ hostMos \cup up \in SUBSET Hosts
    BY DEF Goto, Lose, Thread, Steps
  <1>3. Good(e, hostMos \cup up)
    BY <1>0 DEF Goto, Lose, Good, CheckGood, RequestGood, AnswerGood, Checking, Thread
  <1>4. QED BY <1>0, <1>1, <1>2, <1>3, GetHostMosSpends, WriteKeeps DEF ConnectMissing

LEMMA ListKeysKeeps == ASSUME IInv, NEW t \in Threads, ListKeys(t) PROVE IInv'
  <1> USE OfThread
  <1> DEFINE e == [Goto(th[t], "sweep") EXCEPT !.todo = hostMos \ th[t].seen]
  <1>0. th[t].pc = "keys" /\ th[t].req = "serviceDiscovery"
    BY DEF ListKeys, At, Good, CheckGood, Checking
  <1>1. e \in Thread
    BY DEF Goto, Thread, Steps
  <1>2. Good(e, hostMos)
    BY <1>0 DEF Goto, Good, CheckGood, RequestGood, AnswerGood, Checking, Thread
  <1>3. QED BY <1>0, <1>1, <1>2, LocalKeeps DEF ListKeys

LEMMA SweepKeeps == ASSUME IInv, NEW t \in Threads, Sweep(t) PROVE IInv'
  <1> USE OfThread
  <1>0. th[t].pc = "sweep" /\ th[t].req = "serviceDiscovery"
    BY DEF Sweep, At, Good, CheckGood, Checking
  <1>1. ASSUME NEW h \in th[t].todo, h \in hostMos, UNCHANGED <<due, spent>>,
               Write(t, [th[t] EXCEPT !.todo = @ \ {h}], hostMos \ {h})
        PROVE  IInv'
    <2> DEFINE e == [th[t] EXCEPT !.todo = @ \ {h}]
    <2>1. e \in Thread
      BY DEF Thread
    <2>2. Good(e, hostMos \ {h})
      BY <1>0, <1>1 DEF Good, CheckGood, RequestGood, AnswerGood, Checking, Thread
    <2>3. QED BY <1>0, <1>1, <2>1, <2>2, WriteKeeps
  <1>2. ASSUME NEW h \in th[t].todo, h \notin hostMos, UNCHANGED <<due, spent>>,
               Local(t, Broken(th[t]))
        PROVE  IInv'
    <2>1. th[t].touched # {}
      BY <1>0, <1>2 DEF Good, CheckGood
    <2>2. QED BY <1>0, <1>2, <2>1, BrokenIsGood, LocalKeeps
  <1>3. CASE Local(t, Begin(th[t].req, "name")) /\ due' = FALSE /\ Paid
    BY <1>0, <1>3, BeginIsGood, LocalKeeps DEF Paid, Requests
  <1>4. QED BY <1>1, <1>2, <1>3 DEF Sweep, Paid

LEMMA FetchClusterNameKeeps == ASSUME IInv, NEW t \in Threads, FetchClusterName(t) PROVE IInv'
  <1> USE OfThread
  <1>1. CASE /\ Local(t, [Begin(th[t].req, "iterate") EXCEPT !.size = Cardinality(hostMos)])
             /\ Paid
    <2> DEFINE e == [Begin("serviceDiscovery", "iterate") EXCEPT !.size = Cardinality(hostMos)]
    <2>1. th[t].pc = "name" /\ th[t].req = "serviceDiscovery"
      BY DEF FetchClusterName, At, Good, CheckGood
    <2>2. e \in Thread /\ Good(e, hostMos)
      BY ListIsGood
    <2>3. QED BY <1>1, <2>1, <2>2, LocalKeeps DEF FetchClusterName, Paid
  <1>2. QED BY <1>1, LostCall DEF FetchClusterName, At

LEMMA IterateKeeps == ASSUME IInv, NEW t \in Threads, Iterate(t) PROVE IInv'
  <1> USE OfThread
  <1>0. /\ th[t].pc = "iterate" /\ th[t].req \in {"serviceDiscovery", "all"}
        /\ th[t].touched = {} => th[t].size = Cardinality(hostMos) /\ th[t].out \subseteq hostMos
        /\ UNCHANGED <<due, spent>>
    BY DEF Iterate, At, Good, RequestGood
  <1>1. CASE th[t].size # Cardinality(hostMos) /\ Local(t, Broken(th[t]))
    BY <1>0, <1>1, BrokenIsGood, LocalKeeps
  <1>2. ASSUME NEW h \in hostMos, Local(t, [th[t] EXCEPT !.out = @ \cup {h}])
        PROVE  IInv'
    <2> DEFINE e == [th[t] EXCEPT !.out = @ \cup {h}]
    <2>1. /\ e \in Thread /\ e.pc = "iterate" /\ e.req = th[t].req /\ e.size = th[t].size
          /\ e.out = th[t].out \cup {h} /\ e.touched = th[t].touched
      BY <1>0 DEF Thread
    <2> HIDE DEF e
    <2>2. Good(e, hostMos)
      BY <1>0, <2>1 DEF Good, CheckGood, RequestGood, AnswerGood, Checking
    <2>3. QED BY <1>0, <1>2, <2>1, <2>2, LocalKeeps DEF e
  <1>3. CASE /\ hostMos \subseteq th[t].out \/ th[t].touched # {}
             /\ Local(t, Reply(th[t], 200, th[t].out))
    <2> DEFINE e == Reply(th[t], 200, th[t].out)
    <2>0. th[t].touched = {} => th[t].out = hostMos
      BY <1>0, <1>3
    <2>1. /\ th[t].out \in SUBSET Hosts /\ 200 \in Codes
          /\ Justified(th[t], 200, th[t].out, hostMos)
      BY <2>0 DEF Thread, Codes, Justified
    <2>2. e \in Thread /\ e.pc = "answered" /\ Good(e, hostMos)
      BY <2>1, ReplyIsGood
    <2> HIDE DEF e
    <2>3. Local(t, e)
      BY <1>3 DEF e
    <2>4. QED BY <1>0, <2>2, <2>3, LocalKeeps
  <1>4. CASE Local(t, [Begin("all", "retrieve") EXCEPT !.out = th[t].out])
    <2> DEFINE d == Begin("all", "retrieve")
               e == [d EXCEPT !.out = th[t].out]
    <2>1. d \in Thread /\ d.pc = "retrieve"
      BY Begins DEF Requests, Steps
    <2> HIDE DEF d
    <2>2. e \in Thread /\ e.pc = "retrieve"
      BY <2>1 DEF Thread
    <2>3. Local(t, e)
      BY <1>4 DEF d
    <2> HIDE DEF e
    <2>4. Good(e, hostMos)
      BY <2>2 DEF Good, CheckGood, RequestGood, AnswerGood, Checking
    <2>5. QED BY <1>0, <2>2, <2>3, <2>4, LocalKeeps
  <1>5. QED BY <1>1, <1>2, <1>3, <1>4 DEF Iterate

LEMMA FindHostKeeps == ASSUME IInv, NEW t \in Threads, FindHost(t) PROVE IInv'
  <1> USE OfThread
  <1>1. CASE /\ Local(t, [Goto(th[t], IF th[t].req \in cluster THEN "connectOne" ELSE "again")
                          EXCEPT !.seen = cluster])
             /\ Paid
    <2> DEFINE e == [Goto(th[t], IF th[t].req \in cluster THEN "connectOne" ELSE "again")
                       EXCEPT !.seen = cluster]
    <2>0. th[t].pc = "find" /\ th[t].req \in Hosts
      BY DEF FindHost, At, Good, RequestGood
    <2>1. /\ e \in Thread /\ e.seen = cluster /\ e.req = th[t].req
          /\ e.pc = IF th[t].req \in cluster THEN "connectOne" ELSE "again"
      BY DEF Goto, Thread, Steps
    <2>2. Local(t, e)
      BY <1>1
    <2> HIDE DEF e
    <2>3. Good(e, hostMos)
      BY <2>0, <2>1 DEF Good, CheckGood, RequestGood, AnswerGood, Checking
    <2>4. QED BY <1>1, <2>0, <2>1, <2>2, <2>3, LocalKeeps DEF FindHost, Paid
  <1>2. QED BY <1>1, LostCall DEF FindHost, At

LEMMA ConnectHostKeeps == ASSUME IInv, NEW t \in Threads, ConnectHost(t) PROVE IInv'
  <1> USE OfThread
  <1>0. th[t].pc = "connectOne" /\ th[t].req \in Hosts
    BY DEF ConnectHost, At, Good, RequestGood
  <1>1. PICK up \in SUBSET {th[t].req} :
          /\ GetHostMos({th[t].req}, up)
          /\ Write(t, Goto(Lose(th[t], {th[t].req} \ up), "again"), hostMos \cup up)
    BY DEF ConnectHost
  <1> DEFINE e == Goto(Lose(th[t], {th[t].req} \ up), "again")
  <1>2. /\ e \in Thread /\ e.pc = "again" /\ e.req = th[t].req
        /\ e.lost = th[t].lost \cup ({th[t].req} \ up)
    BY <1>0 DEF Goto, Lose, Thread, Steps
  <1>3. hostMos \cup up \in SUBSET Hosts
    BY <1>0
  <1>4. Write(t, e, hostMos \cup up)
    BY <1>1
  <1> HIDE DEF e
  <1>5. Good(e, hostMos \cup up)
    BY <1>0, <1>2 DEF Good, CheckGood, RequestGood, AnswerGood, Checking
  <1>6. QED BY <1>0, <1>1, <1>2, <1>3, <1>4, <1>5, GetHostMosSpends, WriteKeeps DEF ConnectHost

LEMMA LookAgainKeeps == ASSUME IInv, NEW t \in Threads, LookAgain(t) PROVE IInv'
  <1> USE OfThread
  <1>0. /\ th[t].pc = "again" /\ th[t].req \in Hosts /\ UNCHANGED <<due, spent>>
        /\ th[t].req \in (th[t].seen \ th[t].lost) \ th[t].touched => th[t].req \in hostMos
    BY DEF LookAgain, At, Good, RequestGood
  <1>1. CASE th[t].req \in hostMos /\ Local(t, Goto(th[t], "get"))
    <2> DEFINE e == Goto(th[t], "get")
    <2>1. e \in Thread /\ e.pc = "get" /\ e.req = th[t].req
      BY DEF Goto, Thread, Steps
    <2> HIDE DEF e
    <2>2. Good(e, hostMos)
      BY <1>0, <1>1, <2>1 DEF Good, CheckGood, RequestGood, AnswerGood, Checking
    <2>3. QED BY <1>0, <1>1, <2>1, <2>2, LocalKeeps DEF e
  <1>2. CASE th[t].req \notin hostMos /\ Local(t, Reply(th[t], 404, {}))
    <2> DEFINE e == Reply(th[t], 404, {})
    <2>1. {} \in SUBSET Hosts /\ 404 \in Codes /\ Justified(th[t], 404, {}, hostMos)
      BY <1>0, <1>2, HostAssumption DEF Codes, Justified
    <2>2. e \in Thread /\ e.pc = "answered" /\ Good(e, hostMos)
      BY <2>1, ReplyIsGood
    <2> HIDE DEF e
    <2>3. Local(t, e)
      BY <1>2 DEF e
    <2>4. QED BY <1>0, <2>2, <2>3, LocalKeeps
  <1>3. QED BY <1>1, <1>2 DEF LookAgain

LEMMA GetEntryKeeps == ASSUME IInv, NEW t \in Threads, GetEntry(t) PROVE IInv'
  <1> USE OfThread
  <1>0. /\ th[t].pc = "get" /\ th[t].req \in Hosts /\ UNCHANGED <<due, spent>>
        /\ th[t].req \in hostMos \/ th[t].touched # {}
    BY DEF GetEntry, At, Good, RequestGood
  <1>1. CASE Local(t, [Begin(th[t].req, "retrieve") EXCEPT !.out = {th[t].req}])
    <2> DEFINE d == Begin(th[t].req, "retrieve")
               e == [d EXCEPT !.out = {th[t].req}]
    <2>1. d \in Thread /\ d.pc = "retrieve"
      BY <1>0, Begins DEF Requests, Steps
    <2> HIDE DEF d
    <2>2. e \in Thread /\ e.pc = "retrieve"
      BY <1>0, <2>1 DEF Thread
    <2>3. Local(t, e)
      BY <1>1 DEF d
    <2> HIDE DEF e
    <2>4. Good(e, hostMos)
      BY <2>2 DEF Good, CheckGood, RequestGood, AnswerGood, Checking
    <2>5. QED BY <1>0, <2>2, <2>3, <2>4, LocalKeeps
  <1>2. CASE th[t].req \notin hostMos /\ Local(t, Broken(th[t]))
    BY <1>0, <1>2, BrokenIsGood, LocalKeeps
  <1>3. QED BY <1>1, <1>2 DEF GetEntry

LEMMA RetrieveStatsKeeps == ASSUME IInv, NEW t \in Threads, RetrieveStats(t) PROVE IInv'
  <1> USE OfThread
  <1>1. PICK got \in SUBSET th[t].out :
          /\ Local(t, Reply(Idle, 200, got))
          /\ IF got = th[t].out THEN Paid ELSE Spend("fault")
    BY DEF RetrieveStats
  <1> DEFINE e == Reply(Idle, 200, got)
  <1>2. /\ got \in SUBSET Hosts /\ 200 \in Codes /\ Idle \in Thread
        /\ Justified(Idle, 200, got, hostMos)
    BY IdleIsGood, HostAssumption DEF Thread, Codes, Justified, Idle, Requests
  <1>3. e \in Thread /\ e.pc = "answered" /\ Good(e, hostMos)
    BY <1>2, ReplyIsGood
  <1>4. Local(t, e)
    BY <1>1
  <1> HIDE DEF e
  <1>5. QED BY <1>1, <1>3, <1>4, LocalKeeps DEF RetrieveStats, Paid, At

LEMMA AnsweredKeeps == ASSUME IInv, NEW t \in Threads, Answered(t) PROVE IInv'
  <1>1. Idle.pc = "idle"
    BY DEF Idle
  <1>2. QED BY <1>1, OfThread, IdleIsGood, LocalKeeps DEF Answered, At

(* The connection on start: no request has begun.                            *)
LEMMA ConnectOnStartKeeps == ASSUME IInv, ConnectOnStart PROVE IInv'
  <1>1. hostMos' \subseteq Hosts /\ state' \in {"up", "down"} /\ (state' = "down" => hostMos' = {})
    BY DEF IInv, Types, ConnectOnStart, GetHostMos
  <1>2. spent' \in [Kinds -> Nat]
    BY SpendTypes DEF IInv, Types, ConnectOnStart, GetHostMos, Paid, Kinds
  <1>3. state = "starting" /\ UNCHANGED <<cluster, due, th>>
    BY DEF ConnectOnStart
  <1>4. \A t \in Threads : th'[t] = th[t] /\ th[t].pc = "idle"
    BY <1>3 DEF IInv, Types
  <1>5. Types'
    BY <1>1, <1>2, <1>3, <1>4 DEF IInv, Types
  <1>6. ASSUME NEW t \in Threads PROVE Good(th'[t], hostMos')
    BY <1>4 DEF Good, CheckGood, RequestGood, AnswerGood, Checking
  <1>7. QED BY <1>5, <1>6 DEF IInv

LEMMA NextKeeps == IInv /\ [Next]_vars => IInv'
  <1> SUFFICES ASSUME IInv, [Next]_vars PROVE IInv'
    OBVIOUS
  <1>1. ASSUME NEW t \in Threads, Step(t) PROVE IInv'
    BY <1>1, FetchClusterHostsKeeps, CompareKeeps, ConnectMissingKeeps, ListKeysKeeps,
       SweepKeeps, FetchClusterNameKeeps, IterateKeeps, FindHostKeeps, ConnectHostKeeps,
       LookAgainKeeps, GetEntryKeeps, RetrieveStatsKeeps, AnsweredKeeps DEF Step
  <1>2. CASE ClusterChanges
    BY <1>2, SpendTypes DEF ClusterChanges, IInv, Types, Kinds
  <1>3. CASE IntervalPasses
    BY <1>3 DEF IntervalPasses, IInv, Types
  <1>4. CASE UNCHANGED vars
    BY <1>4 DEF vars, IInv, Types
  <1>5. QED BY <1>1, <1>2, <1>3, <1>4, RequestKeeps, ConnectOnStartKeeps DEF Next

LEMMA Invariant == Spec => []IInv
  BY InitIInv, NextKeeps, PTL DEF Spec

-----------------------------------------------------------------------------
(* The variables keep their types, and no request is served before the       *)
(* connection on start or after its failure.                                *)
THEOREM TypeCorrect == Spec => []TypeOK
  <1>1. IInv => TypeOK
    BY DEF IInv, Types, TypeOK, Good, RequestGood
  <1>2. QED BY <1>1, Invariant, PTL

(* A check that is over has connected and dropped what it should, outside    *)
(* what other requests did meanwhile, however many of them overlap.         *)
THEOREM ChecksConverge == Spec => []CheckConverges
  <1>1. IInv => CheckConverges
    BY DEF IInv, Types, Thread, Good, CheckGood, CheckConverges, At
  <1>2. QED BY <1>1, Invariant, PTL

(* A 404 of getStatsForHost has a cause outside the request.                 *)
THEOREM NotFoundIsJustified == Spec => []NotFoundJustified
  <1>1. IInv => NotFoundJustified
    BY DEF IInv, Good, AnswerGood, Justified, NotFoundJustified, At
  <1>2. QED BY <1>1, Invariant, PTL

(* So has an internal error.                                                 *)
THEOREM ErrorsAreJustified == Spec => []ErrorsJustified
  <1>1. IInv => ErrorsJustified
    BY DEF IInv, Good, AnswerGood, Justified, ErrorsJustified, At
  <1>2. QED BY <1>1, Invariant, PTL

(* serviceDiscovery answers the table unless vCenter failed it or another    *)
(* request got in its way.                                                  *)
THEOREM DiscoveryIsJustified == Spec => []DiscoveryJustified
  <1>1. IInv => DiscoveryJustified
    BY DEF IInv, Good, AnswerGood, Justified, DiscoveryJustified, At
  <1>2. QED BY <1>1, Invariant, PTL

-----------------------------------------------------------------------------
(* The abstract table: what the requests that are going on were told.        *)
Told == {th[u].seen : u \in {v \in Threads : Holds(v)}}
HoldingAt == {"compare", "connect", "keys", "sweep", "connectOne"}

(* The steps of HostTable.                                                   *)
LEMMA TableLook ==
    ASSUME UNCHANGED <<cluster, hostMos>>, Told' \subseteq Told \cup {cluster}
    PROVE  Table!Next
  BY DEF Table!Next, Table!Look, Told

LEMMA TableMove ==
    ASSUME NEW s \in Told \cup {cluster}, UNCHANGED cluster, Told' \subseteq Told,
           \/ hostMos \subseteq hostMos' /\ hostMos' \ hostMos \subseteq s
           \/ hostMos' \subseteq hostMos /\ (hostMos \ hostMos') \cap s = {}
    PROVE  Table!Next
  BY DEF Table!Next, Table!Move, Table!Connect, Table!Drop, Told

(* A thread that does not write the table only asks or forgets.              *)
LEMMA LocalLooks ==
    ASSUME NEW t \in Threads, IInv, NEW e, Local(t, e),
           e.pc \in HoldingAt => e.seen = cluster \/ (th[t].pc \in HoldingAt /\ e.seen = th[t].seen)
    PROVE  Table!Next
  <1>1. th' = [th EXCEPT ![t] = e] /\ UNCHANGED <<cluster, hostMos>> /\ th \in [Threads -> Thread]
    BY DEF Local, IInv, Types
  <1>2. ASSUME NEW u \in Threads, Holds(u)' PROVE th'[u].seen \in Told \cup {cluster}
    <2>1. CASE u = t
      BY <1>1, <1>2, <2>1 DEF Holds, HoldingAt, Told
    <2>2. CASE u # t
      BY <1>1, <1>2, <2>2 DEF Holds, Told
    <2>3. QED BY <2>1, <2>2
  <1>3. Told' \subseteq Told \cup {cluster}
    BY <1>2 DEF Told
  <1>4. QED BY <1>1, <1>3, TableLook

(* One that does write it goes by what it was told.                          *)
LEMMA WriteMoves ==
    ASSUME NEW t \in Threads, IInv, NEW e, NEW U, Write(t, e, U), Holds(t),
           e.pc \in HoldingAt => e.seen = th[t].seen,
           \/ hostMos \subseteq U /\ U \ hostMos \subseteq th[t].seen
           \/ U \subseteq hostMos /\ (hostMos \ U) \cap th[t].seen = {}
    PROVE  Table!Next
  <1>1. hostMos' = U /\ UNCHANGED cluster /\ th \in [Threads -> Thread]
    BY DEF Write, IInv, Types
  <1>2. ASSUME NEW u \in Threads, Holds(u)' PROVE th'[u].seen \in Told
    <2>1. CASE u = t
      <3>1. th'[u] = e
        BY <2>1 DEF Write
      <3>2. th'[u].seen = th[t].seen
        BY <1>2, <3>1 DEF Holds, HoldingAt
      <3>3. QED BY <3>2 DEF Told
    <2>2. CASE u # t
      <3>1. th[u] \in Thread
        BY <1>1
      <3>2. th'[u].pc = th[u].pc /\ th'[u].seen = th[u].seen
        BY <2>2, <3>1 DEF Write, At, Thread
      <3>3. QED BY <1>2, <3>2 DEF Holds, Told
    <2>3. QED BY <2>1, <2>2
  <1>3. Told' \subseteq Told
    BY <1>2 DEF Told
  <1>4. th[t].seen \in Told
    BY DEF Told
  <1>5. QED BY <1>1, <1>3, <1>4, TableMove

(* A thread that goes where nobody holds a snapshot.                         *)
LEMMA LocalForgets ==
    ASSUME NEW t \in Threads, IInv, NEW e, Local(t, e), e.pc \notin HoldingAt
    PROVE  Table!Next
  BY LocalLooks

LEMMA BrokenForgets ==
    ASSUME NEW t \in Threads, IInv, NEW e \in Thread, Local(t, Broken(e))
    PROVE  Table!Next
  <1>1. \A c \in {200, 500} : Reply(e, c, {}).pc = "answered"
    BY Replies DEF Codes
  <1>2. Broken(e).pc \notin HoldingAt
    BY <1>1 DEF Broken, HoldingAt
  <1>3. QED BY <1>2, LocalForgets

LEMMA RequestLooks == ASSUME IInv, NEW t \in Threads, Request(t) PROVE Table!Next
  <1>1. \A q, s : Begin(q, s).pc = s
    BY DEF Begin, Idle
  <1>2. CASE Unauthorized(t)
    <2>1. PICK code \in {200, 401} : Local(t, Reply(Idle, code, {}))
      BY <1>2 DEF Unauthorized
    <2>2. Reply(Idle, code, {}).pc \notin HoldingAt
      BY DEF Reply, Idle, HoldingAt
    <2>3. QED BY <2>1, <2>2, LocalForgets
  <1>3. CASE ServiceDiscovery(t)
    <2>1. PICK s \in {"check", "name"} : Local(t, Begin("serviceDiscovery", s))
      BY <1>3 DEF ServiceDiscovery
    <2>2. QED BY <1>1, <2>1, LocalForgets DEF HoldingAt
  <1>4. CASE GetStatsForAllHosts(t)
    <2>1. Local(t, [Begin("all", "iterate") EXCEPT !.size = Cardinality(hostMos)])
      BY <1>4 DEF GetStatsForAllHosts
    <2>2. [Begin("all", "iterate") EXCEPT !.size = Cardinality(hostMos)].pc \notin HoldingAt
      BY DEF Begin, Idle, HoldingAt
    <2>3. QED BY <2>1, <2>2, LocalForgets
  <1>5. CASE GetStatsForHost(t)
    <2>1. PICK h \in Hosts, s \in {"again", "find"} : Local(t, Begin(h, s))
      BY <1>5 DEF GetStatsForHost
    <2>2. QED BY <1>1, <2>1, LocalForgets DEF HoldingAt
  <1>6. QED BY <1>2, <1>3, <1>4, <1>5 DEF Request

LEMMA CheckMoves ==
    ASSUME IInv, NEW t \in Threads,
           FetchClusterHosts(t) \/ Compare(t) \/ ConnectMissing(t) \/ ListKeys(t) \/ Sweep(t)
    PROVE  Table!Next
  <1>0. th[t] \in Thread /\ Lose(th[t], {Call}) \in Thread /\ Good(th[t], hostMos)
    BY OfThread DEF Lose, Thread
  <1>1. CASE FetchClusterHosts(t)
    <2> DEFINE e == [Goto(th[t], "compare") EXCEPT !.seen = cluster, !.todo = cluster, !.touched = {}]
    <2>1. e.seen = cluster
      BY <1>0 DEF Goto, Thread
    <2>2. CASE Local(t, e)
      BY <2>1, <2>2, LocalLooks
    <2>3. QED BY <1>0, <1>1, <2>2, BrokenForgets DEF FetchClusterHosts
  <1>2. CASE Compare(t)
    <2>1. PICK e : Local(t, e) /\ e.seen = th[t].seen
      <3>1. ASSUME NEW h \in th[t].todo,
                   Local(t, [th[t] EXCEPT !.todo = @ \ {h},
                                          !.missing = IF h \in hostMos THEN @ ELSE @ \cup {h}])
            PROVE  \E e : Local(t, e) /\ e.seen = th[t].seen
        <4> DEFINE d == [th[t] EXCEPT !.todo = @ \ {h},
                                      !.missing = IF h \in hostMos THEN @ ELSE @ \cup {h}]
        <4>1. d.seen = th[t].seen /\ Local(t, d)
          BY <1>0, <3>1 DEF Thread
        <4> HIDE DEF d
        <4>2. QED BY <4>1
      <3>2. CASE \E s \in {"keys", "connect"} : Local(t, Goto(th[t], s))
        BY <1>0, <3>2 DEF Goto, Thread
      <3>3. QED BY <1>2, <3>1, <3>2 DEF Compare
    <2>2. th[t].pc \in HoldingAt
      BY <1>2 DEF Compare, At, HoldingAt
    <2>3. QED BY <2>1, <2>2, LocalLooks
  <1>3. CASE ConnectMissing(t)
    <2>1. PICK up \in SUBSET th[t].missing :
             Write(t, [Goto(Lose(th[t], th[t].missing \ up), "keys") EXCEPT !.missing = {}],
                   hostMos \cup up)
      BY <1>3 DEF ConnectMissing
    <2> DEFINE e == [Goto(Lose(th[t], th[t].missing \ up), "keys") EXCEPT !.missing = {}]
    <2>2. e.seen = th[t].seen
      BY <1>0 DEF Goto, Lose, Thread
    <2>3. up \subseteq th[t].seen
      BY <1>0, <1>3 DEF Good, CheckGood, ConnectMissing, At
    <2>4. Holds(t)
      BY <1>3 DEF Holds, ConnectMissing, At
    <2>5. Write(t, e, hostMos \cup up)
      BY <2>1
    <2> HIDE DEF e
    <2>6. QED BY <2>2, <2>3, <2>4, <2>5, WriteMoves
  <1>4. CASE ListKeys(t)
    <2> DEFINE e == [Goto(th[t], "sweep") EXCEPT !.todo = hostMos \ th[t].seen]
    <2>1. e.seen = th[t].seen /\ th[t].pc \in HoldingAt /\ Local(t, e)
      BY <1>0, <1>4 DEF ListKeys, Goto, Thread, At, HoldingAt
    <2> HIDE DEF e
    <2>2. QED BY <2>1, LocalLooks
  <1>5. CASE Sweep(t)
    <2>0. Holds(t)
      BY <1>5 DEF Sweep, Holds, At
    <2>1. ASSUME NEW h \in th[t].todo, Write(t, [th[t] EXCEPT !.todo = @ \ {h}], hostMos \ {h})
          PROVE  Table!Next
      <3> DEFINE e == [th[t] EXCEPT !.todo = @ \ {h}]
      <3>1. e.seen = th[t].seen /\ Write(t, e, hostMos \ {h})
        BY <1>0, <2>1 DEF Thread
      <3>2. h \notin th[t].seen
        BY <1>0, <1>5 DEF Good, CheckGood, Sweep, At
      <3> HIDE DEF e
      <3>3. QED BY <2>0, <3>1, <3>2, WriteMoves
    <2>2. CASE Local(t, Broken(th[t]))
      BY <1>0, <2>2, BrokenForgets
    <2>3. CASE Local(t, Begin(th[t].req, "name"))
      <3>1. Begin(th[t].req, "name").pc \notin HoldingAt
        BY DEF Begin, Idle, HoldingAt
      <3>2. QED BY <2>3, <3>1, LocalForgets
    <2>4. QED BY <1>5, <2>1, <2>2, <2>3 DEF Sweep
  <1>6. QED BY <1>1, <1>2, <1>3, <1>4, <1>5

LEMMA ListLooks ==
    ASSUME IInv, NEW t \in Threads, FetchClusterName(t) \/ Iterate(t)
    PROVE  Table!Next
  <1>0. th[t] \in Thread /\ Lose(th[t], {Call}) \in Thread
    BY OfThread DEF Lose, Thread
  <1>1. CASE Local(t, Broken(th[t])) \/ Local(t, Broken(Lose(th[t], {Call})))
    BY <1>0, <1>1, BrokenForgets
  <1>2. CASE \E s : Local(t, [Begin(th[t].req, "iterate") EXCEPT !.size = s])
    <2>1. PICK s : Local(t, [Begin(th[t].req, "iterate") EXCEPT !.size = s])
      BY <1>2
    <2>2. [Begin(th[t].req, "iterate") EXCEPT !.size = s].pc \notin HoldingAt
      BY DEF Begin, Idle, HoldingAt
    <2>3. QED BY <2>1, <2>2, LocalForgets
  <1>3. CASE At(t, "iterate") /\ \E h : Local(t, [th[t] EXCEPT !.out = @ \cup {h}])
    <2>1. PICK h : Local(t, [th[t] EXCEPT !.out = @ \cup {h}])
      BY <1>3
    <2>2. [th[t] EXCEPT !.out = @ \cup {h}].pc \notin HoldingAt
      BY <1>0, <1>3 DEF Thread, HoldingAt, At
    <2>3. QED BY <2>1, <2>2, LocalForgets
  <1>4. CASE Local(t, Reply(th[t], 200, th[t].out))
    <2>1. Reply(th[t], 200, th[t].out).pc \notin HoldingAt
      BY <1>0 DEF Reply, Thread, HoldingAt
    <2>2. QED BY <1>4, <2>1, LocalForgets
  <1>5. CASE Local(t, [Begin("all", "retrieve") EXCEPT !.out = th[t].out])
    <2>1. [Begin("all", "retrieve") EXCEPT !.out = th[t].out].pc \notin HoldingAt
      BY DEF Begin, Idle, HoldingAt
    <2>2. QED BY <1>5, <2>1, LocalForgets
  <1>6. CASE FetchClusterName(t)
    BY <1>1, <1>2, <1>6 DEF FetchClusterName
  <1>7. CASE Iterate(t)
    BY <1>1, <1>3, <1>4, <1>5, <1>7 DEF Iterate
  <1>8. QED BY <1>6, <1>7

LEMMA HostMoves ==
    ASSUME IInv, NEW t \in Threads,
           \/ FindHost(t) \/ ConnectHost(t) \/ LookAgain(t) \/ GetEntry(t)
           \/ RetrieveStats(t) \/ Answered(t)
    PROVE  Table!Next
  <1>0. th[t] \in Thread /\ Lose(th[t], {Call}) \in Thread /\ Good(th[t], hostMos)
    BY OfThread DEF Lose, Thread
  <1>1. CASE FindHost(t)
    <2>1. ASSUME NEW s, Local(t, [Goto(th[t], s) EXCEPT !.seen = cluster]) PROVE Table!Next
      <3> DEFINE e == [Goto(th[t], s) EXCEPT !.seen = cluster]
      <3>1. e.seen = cluster /\ Local(t, e)
        BY <1>0, <2>1 DEF Goto, Thread
      <3> HIDE DEF e
      <3>2. QED BY <3>1, LocalLooks
    <2>2. CASE Local(t, Broken(Lose(th[t], {Call})))
      BY <1>0, <2>2, BrokenForgets
    <2>3. QED BY <1>1, <2>1, <2>2 DEF FindHost
  <1>2. CASE ConnectHost(t)
    <2>1. PICK up \in SUBSET {th[t].req} :
             Write(t, Goto(Lose(th[t], {th[t].req} \ up), "again"), hostMos \cup up)
      BY <1>2 DEF ConnectHost
    <2> DEFINE e == Goto(Lose(th[t], {th[t].req} \ up), "again")
    <2>2. e.pc \notin HoldingAt
      BY <1>0 DEF Goto, Lose, Thread, HoldingAt
    <2>3. up \subseteq th[t].seen /\ Holds(t)
      BY <1>0, <1>2 DEF Good, RequestGood, ConnectHost, At, Holds
    <2>4. Write(t, e, hostMos \cup up)
      BY <2>1
    <2> HIDE DEF e
    <2>5. QED BY <2>2, <2>3, <2>4, WriteMoves
  <1>3. CASE LookAgain(t) \/ GetEntry(t)
    <2>1. CASE Local(t, Goto(th[t], "get"))
      <3>1. Goto(th[t], "get").pc \notin HoldingAt
        BY <1>0 DEF Goto, Thread, HoldingAt
      <3>2. QED BY <2>1, <3>1, LocalForgets
    <2>2. CASE Local(t, Reply(th[t], 404, {}))
      <3>1. Reply(th[t], 404, {}).pc \notin HoldingAt
        BY <1>0 DEF Reply, Thread, HoldingAt
      <3>2. QED BY <2>2, <3>1, LocalForgets
    <2>3. CASE Local(t, [Begin(th[t].req, "retrieve") EXCEPT !.out = {th[t].req}])
      <3>1. [Begin(th[t].req, "retrieve") EXCEPT !.out = {th[t].req}].pc \notin HoldingAt
        BY DEF Begin, Idle, HoldingAt
      <3>2. QED BY <2>3, <3>1, LocalForgets
    <2>4. CASE Local(t, Broken(th[t]))
      BY <1>0, <2>4, BrokenForgets
    <2>5. QED BY <1>3, <2>1, <2>2, <2>3, <2>4 DEF LookAgain, GetEntry
  <1>4. CASE RetrieveStats(t)
    <2>1. PICK got : Local(t, Reply(Idle, 200, got))
      BY <1>4 DEF RetrieveStats
    <2>2. Reply(Idle, 200, got).pc \notin HoldingAt
      BY DEF Reply, Idle, HoldingAt
    <2>3. QED BY <2>1, <2>2, LocalForgets
  <1>5. CASE Answered(t)
    <2>1. Local(t, Idle) /\ Idle.pc \notin HoldingAt
      BY <1>5 DEF Answered, Idle, HoldingAt
    <2>2. QED BY <2>1, LocalForgets
  <1>6. QED BY <1>1, <1>2, <1>3, <1>4, <1>5

LEMMA OutsideMoves ==
    ASSUME IInv, ConnectOnStart \/ ClusterChanges \/ IntervalPasses \/ UNCHANGED vars
    PROVE  [Table!Next]_Table!hvars
  <1>1. Told' = Told
    BY DEF ConnectOnStart, ClusterChanges, IntervalPasses, vars, Told, Holds
  <1>2. CASE ConnectOnStart
    <2>1. hostMos = {} /\ hostMos' \subseteq cluster /\ UNCHANGED cluster
      BY <1>2 DEF ConnectOnStart, GetHostMos, IInv, Types
    <2>2. QED BY <1>1, <2>1, TableMove
  <1>3. CASE ClusterChanges
    <2>1. cluster' \subseteq Hosts /\ UNCHANGED hostMos
      BY <1>3 DEF ClusterChanges
    <2>2. QED BY <1>1, <2>1 DEF Table!Next, Table!Change, Told
  <1>4. CASE IntervalPasses \/ UNCHANGED vars
    <2>1. UNCHANGED <<cluster, hostMos>>
      BY <1>4 DEF IntervalPasses, vars
    <2>2. QED BY <1>1, <2>1, TableLook
  <1>5. QED BY <1>2, <1>3, <1>4

(* Whatever requests overlap, fail and break off, the table is moved only    *)
(* towards the cluster as one of them saw it: the exporter implements        *)
(* HostTable.                                                                *)
THEOREM ExporterRefines == Spec => RefinesHostTable
  <1>1. Init => Table!Init
    BY DEF Init, Table!Init, Holds, Idle
  <1>2. IInv /\ [Next]_vars => [Table!Next]_Table!hvars
    <2> SUFFICES ASSUME IInv, [Next]_vars PROVE [Table!Next]_Table!hvars
      OBVIOUS
    <2>1. ASSUME NEW t \in Threads, Request(t) \/ Step(t) PROVE Table!Next
      BY <2>1, RequestLooks, CheckMoves, ListLooks, HostMoves DEF Step
    <2>2. QED BY <2>1, OutsideMoves DEF Next
  <1>3. QED BY <1>1, <1>2, Invariant, PTL DEF Spec, RefinesHostTable, Table!Spec

=============================================================================

-------------------------- MODULE TokenChainProofs --------------------------
(* Theorems about TokenChain: each part behaves as its own module says, and  *)
(* what holds of the two together, for any number of runs.                   *)
EXTENDS TokenChain, TokenSetupProofs

(* The two parts, each as it is alone.                                       *)

(* In the chain the setup does what TokenSetup allows, so that all theorems  *)
(* about TokenSetup hold of the chain.                                       *)
THEOREM SetupInChain == ChainSpec => Spec
  <1>1. [ChainNext]_chainVars => [Next]_vars
    BY DEF ChainNext, SetupStep, DaemonStep, chainVars
  <1>2. ChainInit => Init
    BY DEF ChainInit
  <1>3. QED BY <1>1, <1>2, PTL DEF ChainSpec, Spec

(* All that a run or the administrator changes for the sidecar is the token  *)
(* vCenter accepts, or the one in the secret.                                *)
LEMMA SetupShares ==
    ASSUME Next
    PROVE  \/ UNCHANGED <<accepted, admin>>
           \/ /\ \E r \in Runs : task[r] = "running" /\ accepted' = r
              /\ UNCHANGED admin
           \/ /\ \E r \in Runs : run[r].told = "token" /\ secret' = r /\ saved' = saved \cup {r}
              /\ UNCHANGED accepted
  <1>1. ASSUME NEW r \in Runs, Connect(r) \/ Step(r) \/ Kill(r) \/ Expire(r)
        PROVE  UNCHANGED <<accepted, admin>>
    BY <1>1 DEF Connect, Step, Kill, Expire, CheckAbout, GetClusterInstance,
                CheckVsanCapability, Ask, ReconfigureEx, CreateFilter, WaitForUpdates,
                HandleUpdate, DestroyFilter, CheckState, Disconnect, vcenter
  <1>2. ASSUME NEW r \in Runs, TaskRuns(r) \/ TaskFails(r)
        PROVE  UNCHANGED <<accepted, admin>>
    BY <1>2 DEF TaskRuns, TaskFails
  <1>3. QED BY <1>1, <1>2 DEF Next, TaskStep, TaskSucceeds, Save, vcenter

(* In the chain the sidecar meets nothing ServiceDiscovery does not allow    *)
(* for, so that all that is proved of ServiceDiscovery holds of the chain.   *)
THEOREM SidecarInChain == ChainSpec => Daemon!Spec
  <1>1. SetupStep => [Daemon!Next]_(Daemon!vars)
    <2> SUFFICES ASSUME SetupStep PROVE [Daemon!Next]_(Daemon!vars)
      OBVIOUS
    <2>1. Next /\ UNCHANGED daemon
      BY DEF SetupStep
    <2>2. CASE UNCHANGED <<accepted, admin>>
      BY <2>1, <2>2 DEF daemon, admin, Daemon!vars, Daemon!given, Daemon!pass, Daemon!disk
    <2>3. CASE UNCHANGED admin /\ \E r \in Runs : accepted' = r
      <3>1. accepted' = accepted \/ Daemon!Rotate
        BY <2>1, <2>3 DEF Daemon!Rotate, daemon, admin, Tokens, Daemon!pass, Daemon!disk
      <3>2. QED BY <2>2, <2>3, <3>1 DEF Daemon!Next, Daemon!Environment
    <2>4. CASE UNCHANGED accepted /\ \E r \in Runs : secret' = r
      <3>1. secret' = secret \/ Daemon!Publish
        BY <2>1, <2>4 DEF Daemon!Publish, daemon, Tokens, Daemon!pass, Daemon!disk
      <3>2. CASE secret' = secret
        BY <2>1, <2>4, <3>2 DEF daemon, Daemon!vars, Daemon!given, Daemon!pass, Daemon!disk
      <3>3. QED BY <3>1, <3>2 DEF Daemon!Next, Daemon!Environment
    <2>5. QED BY <2>1, <2>2, <2>3, <2>4, SetupShares
  <1>2. DaemonStep => Daemon!Next
    BY DEF DaemonStep, Daemon!Next, Daemon!Environment
  <1>3. UNCHANGED chainVars => UNCHANGED Daemon!vars
    BY DEF chainVars, daemon, vars, vcenter, admin,
           Daemon!vars, Daemon!given, Daemon!pass, Daemon!disk
  <1>4. [ChainNext]_chainVars => [Daemon!Next]_(Daemon!vars)
    BY <1>1, <1>2, <1>3 DEF ChainNext
  <1>5. QED BY <1>4, PTL DEF ChainSpec, ChainInit, Daemon!Spec

-----------------------------------------------------------------------------
(* The two together.                                                         *)

DaemonTypes ==
    /\ mode \in Configs
    /\ pc \in {"start", "token", "resolve", "query", "create", "write", "rename",
               "chmod", "print", "sleep", "gone"}
    /\ hash \in Texts \cup {Refusal, None}
    /\ vc \in Texts \cup {None}
    /\ daemonSpent \in [Daemon!Kinds -> Nat]

(* The secret and the sidecar hold nothing but the first token and such as   *)
(* an administrator was told and saved.                                     *)
Held ==
    /\ secret \in {Initial} \cup saved
    /\ token \in {None, Initial} \cup saved
    /\ pc \notin {"start", "gone"} => token # None

(* A token that is replaced is never accepted again, so what was refused by  *)
(* the time of the query still is.                                          *)
Refused == Updating /\ hash = Refusal => token # accepted

(* As long as no call of the sidecar failed and vCenter serves what it did,  *)
(* a pass whose token is accepted, and so was when it asked, has acted on   *)
(* what vCenter serves; and each stage has done its part for the body.      *)
Served ==
    (daemonSpent["fault"] = 0 /\ daemonSpent["change"] = 0) =>
       /\ vc \in Texts
       /\ (Updating \/ pc \in {"sleep", "print"}) /\ token = accepted => hash = vc
       /\ pc = "rename" => tmp = hash
       /\ pc = "chmod" => file = [text |-> hash, readable |-> FALSE]
       /\ pc \in {"token", "resolve", "query", "sleep", "print"} /\ hash # None
          => file = [text |-> hash, readable |-> TRUE]

ChainInv == IInv /\ DaemonTypes /\ Held /\ Refused /\ Served

LEMMA InitChainInv == ChainInit => ChainInv
  <1> SUFFICES ASSUME ChainInit PROVE ChainInv
    OBVIOUS
  <1>1. IInv
    BY InitIInv DEF ChainInit
  <1>2. DaemonTypes
    BY DEF ChainInit, Daemon!Init, DaemonTypes
  <1>3. Held /\ Refused
    BY DEF ChainInit, Init, Daemon!Init, Held, Refused, Updating
  <1>4. Served
    BY DEF ChainInit, Daemon!Init, Served, Updating
  <1>5. QED BY <1>1, <1>2, <1>3, <1>4 DEF ChainInv

(* A token is told, and so saved, only after vCenter accepted it.            *)
LEMMA SavedGranted ==
    ASSUME IInv, NEW r \in saved
    PROVE  r \in Runs /\ task[r] = "success"
  <1>1. r \in Runs /\ run[r].told = "token"
    BY DEF IInv, Types, SecretInv
  <1>2. QED BY <1>1, OfRun DEF Knows

LEMMA SetupKeepsChain == ChainInv /\ SetupStep => ChainInv'
  <1> SUFFICES ASSUME ChainInv, SetupStep PROVE ChainInv'
    OBVIOUS
  <1>1. Next /\ UNCHANGED daemon
    BY DEF SetupStep
  <1>2. IInv'
    BY <1>1, NextKeeps DEF ChainInv
  <1>3. DaemonTypes'
    BY <1>1 DEF ChainInv, DaemonTypes, daemon
  <1>4. Held'
    BY <1>1, SetupShares DEF ChainInv, Held, daemon, admin
  <1>5. accepted' = accepted \/ token # accepted'
    <2>1. ASSUME NEW r \in Runs, task[r] = "running", accepted' = r
          PROVE  token # accepted'
      <3>1. r \notin saved
        BY <2>1, SavedGranted DEF ChainInv
      <3>2. r # None /\ r # Initial
        BY RunsAssumption, TokensAssumption DEF Tokens
      <3>3. QED BY <2>1, <3>1, <3>2 DEF ChainInv, Held
    <2>2. QED BY <1>1, <2>1, SetupShares
  <1>6. Refused'
    BY <1>1, <1>5 DEF ChainInv, Refused, Updating, daemon
  <1>7. Served'
    BY <1>1, <1>5 DEF ChainInv, Served, Updating, daemon
  <1>8. QED BY <1>2, <1>3, <1>4, <1>6, <1>7 DEF ChainInv

-----------------------------------------------------------------------------
(* A step of the sidecar: what it keeps of the setup, and what it is to show *)
(* of its own.                                                              *)
LEMMA DaemonKeeps ==
    ASSUME ChainInv, UNCHANGED vars, DaemonTypes', Refused', Served',
           token' \in {token, secret},
           pc' \notin {"start", "gone"} => pc \notin {"start", "gone"} \/ token' = secret
    PROVE  ChainInv'
  <1>1. IInv'
    BY NextKeeps DEF ChainInv
  <1>2. UNCHANGED <<secret, saved>>
    BY DEF vars, admin
  <1>3. Initial # None /\ None \notin saved
    BY TokensAssumption DEF ChainInv, IInv, Types, Tokens
  <1>4. Held'
    BY <1>2, <1>3 DEF ChainInv, Held
  <1>5. QED BY <1>1, <1>4 DEF ChainInv

LEMMA DaemonSpends ==
    ASSUME ChainInv, NEW k \in Daemon!Kinds, Daemon!Spend(k)
    PROVE  /\ daemonSpent' \in [Daemon!Kinds -> Nat]
           /\ daemonSpent'[k] # 0
           /\ \A j \in Daemon!Kinds \ {k} : daemonSpent'[j] = daemonSpent[j]
  BY DEF ChainInv, DaemonTypes, Daemon!Spend

(* A call that fails makes Served say nothing.                               *)
LEMMA FailKeepsChain ==
    ASSUME ChainInv, UNCHANGED vars, Daemon!Fail, UNCHANGED <<mode, vc>>, pc # "start", pc # "gone"
    PROVE  ChainInv'
  <1>1. /\ daemonSpent' \in [Daemon!Kinds -> Nat] /\ daemonSpent'["fault"] # 0
    BY DaemonSpends DEF Daemon!Fail, Daemon!Kinds
  <1>2. pc' \in {"sleep", "print"} /\ UNCHANGED <<hash, token>>
    BY DEF Daemon!Fail, Daemon!AfterPass
  <1>3. DaemonTypes' /\ Refused' /\ Served'
    BY <1>1, <1>2 DEF ChainInv, DaemonTypes, Refused, Served, Updating
  <1>4. QED BY <1>2, <1>3, DaemonKeeps

(* The process starts with the token of the secret and without a hash.       *)
LEMMA StartKeepsChain == ChainInv /\ UNCHANGED vars /\ Daemon!Start => ChainInv'
  <1> SUFFICES ASSUME ChainInv, UNCHANGED vars, Daemon!Start PROVE ChainInv'
    OBVIOUS
  <1>1. /\ hash' = None /\ UNCHANGED <<mode, vc>>
        /\ \/ token' = secret /\ pc' = "token" /\ UNCHANGED daemonSpent
           \/ Daemon!Spend("fault") /\ pc' \in {"start", "gone"} /\ token' = token
    BY DEF Daemon!Start, Daemon!given, Daemon!AfterDeath
  <1>2. daemonSpent' \in [Daemon!Kinds -> Nat]
    BY <1>1, DaemonSpends DEF ChainInv, DaemonTypes, Daemon!Kinds
  <1>3. DaemonTypes' /\ Refused'
    BY <1>1, <1>2 DEF ChainInv, DaemonTypes, Refused, Updating
  <1>4. Served'
    <2>1. CASE UNCHANGED daemonSpent
      BY <1>1, <2>1 DEF ChainInv, Served, Updating
    <2>2. CASE Daemon!Spend("fault")
      BY <2>2, DaemonSpends DEF Served, Daemon!Kinds
    <2>3. QED BY <1>1, <2>1, <2>2
  <1>5. QED BY <1>1, <1>3, <1>4, DaemonKeeps

LEMMA AskKeepsChain ==
    ASSUME ChainInv, UNCHANGED vars,
           \/ Daemon!GetBearToken
           \/ Daemon!GetFQDNfromIpAddress
           \/ Daemon!GetProviderFromServiceDiscovery
    PROVE  ChainInv'
  <1>1. CASE Daemon!Fail
    <2>1. pc \in {"token", "resolve", "query"} /\ UNCHANGED <<mode, vc>>
      BY <1>1 DEF Daemon!GetBearToken, Daemon!GetFQDNfromIpAddress,
                  Daemon!GetProviderFromServiceDiscovery, Daemon!Fail, Daemon!given
    <2>2. QED BY <1>1, <2>1, FailKeepsChain
  <1>2. CASE ~Daemon!Fail /\ (Daemon!GetBearToken \/ Daemon!GetFQDNfromIpAddress)
    <2>1. /\ pc \in {"token", "resolve"} /\ pc' \in {"resolve", "query"}
          /\ token' \in {token, secret}
          /\ UNCHANGED <<mode, vc, hash, tmp, failed, file, daemonSpent>>
      BY <1>2 DEF Daemon!GetBearToken, Daemon!GetFQDNfromIpAddress,
                  Daemon!given, Daemon!pass, Daemon!disk
    <2>2. DaemonTypes' /\ Refused' /\ Served'
      BY <2>1 DEF ChainInv, DaemonTypes, Refused, Served, Updating
    <2>3. QED BY <2>1, <2>2, DaemonKeeps
  <1>3. CASE ~Daemon!Fail /\ Daemon!GetProviderFromServiceDiscovery
    <2>1. /\ pc = "query"
          /\ UNCHANGED <<mode, vc, accepted, token, tmp, file, daemonSpent>>
          /\ \/ Daemon!Answer(token) \in {None, hash} /\ hash' = hash /\ pc' \in {"sleep", "print"}
             \/ /\ Daemon!Answer(token) # None /\ hash' = Daemon!Answer(token)
                /\ pc' = "create"
      BY <1>3 DEF Daemon!GetProviderFromServiceDiscovery, Daemon!AfterPass,
                  Daemon!given, Daemon!pass, Daemon!disk
    <2>2. Daemon!Answer(token) = IF token = accepted THEN vc ELSE Refusal
      BY DEF Daemon!Answer
    <2>3. DaemonTypes'
      BY <2>1, <2>2 DEF ChainInv, DaemonTypes
    <2>4. Refused'
      BY <2>1, <2>2, BodiesAssumption DEF ChainInv, DaemonTypes, Refused, Updating
    <2>5. Served'
      BY <2>1, <2>2, BodiesAssumption DEF ChainInv, Served, Updating
    <2>6. QED BY <2>1, <2>3, <2>4, <2>5, DaemonKeeps
  <1>4. QED BY <1>1, <1>2, <1>3

(* The system calls of an update.                                            *)
LEMMA UpdateKeepsChain ==
    ASSUME ChainInv, UNCHANGED vars,
           Daemon!CreateTmp \/ Daemon!WriteTmp \/ Daemon!RenameTmp \/ Daemon!Chmod
    PROVE  ChainInv'
  <1>1. CASE Daemon!Fail
    <2>1. Updating /\ UNCHANGED <<mode, vc>>
      BY <1>1 DEF Daemon!CreateTmp, Daemon!WriteTmp, Daemon!RenameTmp, Daemon!Chmod,
                  Daemon!Fail, Daemon!given, Updating
    <2>2. QED BY <1>1, <2>1, FailKeepsChain DEF Updating
  <1>2. CASE ~Daemon!Fail
    <2>1. UNCHANGED <<mode, vc, accepted, hash, token, daemonSpent>>
      BY <1>2 DEF Daemon!CreateTmp, Daemon!WriteTmp, Daemon!RenameTmp, Daemon!Chmod,
                  Daemon!given, Daemon!pass
    <2>2. \/ pc = "create" /\ pc' = "write"
          \/ pc = "write" /\ pc' = "rename" /\ tmp' = hash
          \/ /\ pc = "rename" /\ pc' = "chmod"
             /\ file' = [text |-> tmp, readable |-> FALSE]
          \/ /\ pc = "chmod" /\ pc' \in {"sleep", "print"}
             /\ file' = [file EXCEPT !.readable = TRUE]
      BY <1>2 DEF Daemon!CreateTmp, Daemon!WriteTmp, Daemon!RenameTmp, Daemon!Chmod,
                  Daemon!AfterPass
    <2>3. DaemonTypes' /\ Refused'
      BY <2>1, <2>2 DEF ChainInv, DaemonTypes, Refused, Updating
    <2>4. Served'
      BY <2>1, <2>2 DEF ChainInv, Served, Updating
    <2>5. QED BY <2>1, <2>2, <2>3, <2>4, DaemonKeeps
  <1>3. QED BY <1>1, <1>2

LEMMA RestKeepsChain ==
    ASSUME ChainInv, UNCHANGED vars, Daemon!PrintList \/ Daemon!Wake
    PROVE  ChainInv'
  <1>1. /\ UNCHANGED <<mode, vc, hash, token, tmp, file, daemonSpent>>
        /\ \/ pc = "print" /\ pc' = "gone"
           \/ pc = "sleep" /\ pc' = "token"
    BY DEF Daemon!PrintList, Daemon!Wake, Daemon!given, Daemon!pass, Daemon!disk
  <1>2. DaemonTypes' /\ Refused' /\ Served'
    BY <1>1 DEF ChainInv, DaemonTypes, Refused, Served, Updating
  <1>3. QED BY <1>1, <1>2, DaemonKeeps

(* A process that ends, or starts anew, has to show nothing.                 *)
LEMMA DeathKeepsChain ==
    ASSUME ChainInv, UNCHANGED vars, Daemon!TerminateContainer \/ Daemon!Kill \/ Daemon!Crash
    PROVE  ChainInv'
  <1>1. /\ UNCHANGED <<mode, vc, hash, token, file>>
        /\ \/ pc' \in {"gone", "start"}
           \/ pc = "resolve" /\ pc' = "query"
    BY DEF Daemon!TerminateContainer, Daemon!Kill, Daemon!Crash, Daemon!AfterDeath, Daemon!given
  <1>2. /\ daemonSpent' \in [Daemon!Kinds -> Nat]
        /\ daemonSpent'["fault"] = daemonSpent["fault"]
        /\ daemonSpent'["change"] = daemonSpent["change"]
    <2>1. CASE Daemon!TerminateContainer \/ Daemon!Crash
      BY <2>1, DaemonSpends DEF Daemon!TerminateContainer, Daemon!Crash, Daemon!Kinds
    <2>2. CASE Daemon!Kill
      BY <2>2 DEF Daemon!Kill, ChainInv, DaemonTypes
    <2>3. QED BY <2>1, <2>2
  <1>3. DaemonTypes' /\ Refused' /\ Served'
    BY <1>1, <1>2 DEF ChainInv, DaemonTypes, Refused, Served, Updating
  <1>4. QED BY <1>1, <1>3, DaemonKeeps

LEMMA OutsideKeepsChain ==
    ASSUME ChainInv, UNCHANGED vars,
           Daemon!Reload \/ Daemon!PrometheusRestarts \/ Daemon!Change
    PROVE  ChainInv'
  <1>1. UNCHANGED <<mode, pc, hash, token, tmp, file>> /\ vc' \in Texts \cup {None}
    BY DEF Daemon!Reload, Daemon!PrometheusRestarts, Daemon!Change,
           Daemon!given, Daemon!pass, Daemon!disk, ChainInv, DaemonTypes
  <1>2. /\ daemonSpent' \in [Daemon!Kinds -> Nat]
        /\ \/ /\ daemonSpent'["fault"] = daemonSpent["fault"]
              /\ daemonSpent'["change"] = daemonSpent["change"] /\ vc' = vc
           \/ daemonSpent'["change"] # 0
    <2>1. CASE Daemon!Reload
      BY <2>1 DEF Daemon!Reload, Daemon!given, ChainInv, DaemonTypes
    <2>2. CASE Daemon!PrometheusRestarts
      BY <2>2, DaemonSpends DEF Daemon!PrometheusRestarts, Daemon!given, Daemon!Kinds
    <2>3. CASE Daemon!Change
      BY <2>3, DaemonSpends DEF Daemon!Change, Daemon!Kinds
    <2>4. QED BY <2>1, <2>2, <2>3
  <1>3. DaemonTypes' /\ Refused' /\ Served'
    <2>1. accepted' = accepted
      BY DEF vars, vcenter
    <2>2. QED BY <1>1, <1>2, <2>1 DEF ChainInv, DaemonTypes, Refused, Served, Updating
  <1>4. QED BY <1>1, <1>3, DaemonKeeps

LEMMA NextChainInv == ChainInv /\ [ChainNext]_chainVars => ChainInv'
  <1> SUFFICES ASSUME ChainInv, [ChainNext]_chainVars PROVE ChainInv'
    OBVIOUS
  <1>1. CASE DaemonStep
    BY <1>1, StartKeepsChain, AskKeepsChain, UpdateKeepsChain, RestKeepsChain,
       DeathKeepsChain, OutsideKeepsChain DEF DaemonStep, Daemon!Main, Daemon!Events
  <1>2. CASE UNCHANGED chainVars
    <2>1. UNCHANGED vars /\ UNCHANGED daemon
      BY <1>2 DEF chainVars
    <2>2. IInv'
      BY <2>1, NextKeeps DEF ChainInv
    <2>3. UNCHANGED <<accepted, secret, saved>>
      BY <2>1 DEF vars, vcenter, admin
    <2>4. QED BY <2>1, <2>2, <2>3 DEF ChainInv, DaemonTypes, Held, Refused, Served, Updating, daemon
  <1>3. QED BY <1>1, <1>2, SetupKeepsChain DEF ChainNext

LEMMA ChainInvariant == ChainSpec => []ChainInv
  BY InitChainInv, NextChainInv, PTL DEF ChainSpec

-----------------------------------------------------------------------------
(* The sidecar's queries (getProviderFromServiceDiscovery) are never refused *)
(* for being early, and a refusal that is made the list came to a token that *)
(* the setup has replaced for good, whatever fails in either.                *)
THEOREM RefusalsAreLate == ChainSpec => []RefusedOnlyLate
  <1>1. ChainInv => RefusedOnlyLate
    <2> SUFFICES ASSUME ChainInv, Updating
                 PROVE  /\ token \in {Initial} \cup {r \in Runs : task[r] = "success"}
                        /\ hash = Refusal => token # accepted
      BY DEF RefusedOnlyLate
    <2>1. token \in {Initial} \cup saved
      BY DEF ChainInv, Held, Updating
    <2>2. token \in {Initial} \cup {r \in Runs : task[r] = "success"}
      BY <2>1, SavedGranted DEF ChainInv
    <2>3. QED BY <2>2 DEF ChainInv, Refused
  <1>2. QED BY <1>1, ChainInvariant, PTL

(* From main of the setup to updateServerList of the sidecar: after runs that *)
(* did not disturb each other, a sidecar that rests with the token of the    *)
(* secret has made the list the one vCenter serves.                          *)
THEOREM RotationsAreDelivered == ChainSpec => []Delivered
  <1>1. IInv => SecretCurrent
    BY IInvCurrent
  <1>2. ChainInv /\ SecretCurrent => Delivered
    <2> SUFFICES ASSUME ChainInv, SecretCurrent, Undisturbed, \A r \in Runs : Settled(r),
                        daemonSpent["fault"] = 0, daemonSpent["change"] = 0,
                        pc \in {"sleep", "print"}, token = secret
                 PROVE  file = [text |-> vc, readable |-> TRUE]
      BY DEF Delivered
    <2>1. secret = accepted
      BY DEF SecretCurrent, Undisturbed
    <2>2. hash = vc /\ vc \in Texts
      BY <2>1 DEF ChainInv, Served
    <2>3. hash # None
      BY <2>2, BodiesAssumption
    <2>4. QED BY <2>2, <2>3 DEF ChainInv, Served
  <1>3. ChainInv => Delivered
    BY <1>1, <1>2 DEF ChainInv
  <1>4. QED BY <1>3, ChainInvariant, PTL

=============================================================================

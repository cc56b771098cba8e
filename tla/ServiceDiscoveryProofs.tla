----------------------- MODULE ServiceDiscoveryProofs -----------------------
(* Theorems about ServiceDiscovery, for every set of bodies and tokens.      *)
EXTENDS ServiceDiscovery, TLAPS

(* What each stage of an update has achieved.                                *)
StageInv ==
    /\ Updating => hash \in Bodies /\ ~failed
    /\ pc = "rename" => tmp = hash
    /\ pc = "chmod" => ~failed /\ hash \in Bodies /\ file.text = hash

(* A process that ignored its SIGTERM may still leave one file when killed.  *)
Owed == IF handled /\ pc # "gone" THEN 1 ELSE 0
LitterInv ==
    /\ handled => pc # "start"
    /\ litter + Owed <= spent["fault"] + spent["crash"] + spent["term"]

IInv == TypeOK /\ NeverTorn /\ UpdatePublishes /\ StageInv /\ LitterInv

-----------------------------------------------------------------------------
LEMMA InitIInv == Init => IInv
  <1> SUFFICES ASSUME Init PROVE IInv
    OBVIOUS
  <1>1. TypeOK
    BY DEF Init, TypeOK
  <1>2. NeverTorn /\ UpdatePublishes /\ StageInv
    BY DEF Init, NeverTorn, UpdatePublishes, StageInv, Updating
  <1>3. LitterInv
    BY DEF Init, LitterInv, Owed, Kinds
  <1>4. QED BY <1>1, <1>2, <1>3 DEF IInv

(* Spending keeps the type of spent and adds one to one kind.                *)
LEMMA SpendCounts ==
    ASSUME NEW k \in Kinds, Spend(k), spent \in [Kinds -> Nat]
    PROVE  /\ spent' \in [Kinds -> Nat]
           /\ spent'[k] = spent[k] + 1
           /\ \A j \in Kinds \ {k} : spent'[j] = spent[j]
  BY DEF Spend

LEMMA Answers ==
    ASSUME NEW k, TypeOK
    PROVE  Answer(k) \in Bodies \cup {None}
  BY DEF Answer, TypeOK, Bodies

(* A step of the pass that fails.                                            *)
LEMMA FailKeeps ==
    ASSUME IInv, Fail, pc \in {"token", "query", "create", "write", "rename", "chmod"},
           tmp' \in {tmp, Absent}, tmp' = tmp => tmp = Absent,
           litter' = IF tmp' = tmp THEN litter ELSE Abandoned,
           failed' \in BOOLEAN,
           pc \in {"create", "write", "rename", "chmod"} => failed' = TRUE,
           pc \in {"token", "query"} => failed' = failed
    PROVE  IInv'
  <1>1. /\ spent' \in [Kinds -> Nat] /\ spent'["fault"] = spent["fault"] + 1
        /\ spent'["crash"] = spent["crash"] /\ spent'["term"] = spent["term"]
    BY SpendCounts DEF Fail, IInv, TypeOK, Kinds
  <1>2. litter' \in {litter, litter + 1} /\ tmp' = Absent /\ pc' \in {"sleep", "print"}
    BY DEF Abandoned, Fail, AfterPass
  <1>3. TypeOK'
    BY <1>1, <1>2 DEF Fail, IInv, TypeOK, given
  <1>4. LitterInv'
    <2>1. spent["fault"] \in Nat /\ spent["crash"] \in Nat /\ spent["term"] \in Nat /\ litter \in Nat
      BY DEF IInv, TypeOK, Kinds
    <2>2. handled' = handled /\ Owed' = Owed
      BY <1>2 DEF Fail, Owed
    <2>3. Owed \in Nat
      BY DEF Owed
    <2>4. litter' + Owed' <= spent'["fault"] + spent'["crash"] + spent'["term"]
      BY <1>1, <1>2, <2>1, <2>2, <2>3 DEF IInv, LitterInv
    <2>5. QED BY <1>2, <2>2, <2>4 DEF LitterInv
  <1>5. NeverTorn' /\ StageInv'
    BY <1>2 DEF Fail, IInv, NeverTorn, StageInv, Updating
  <1>6. UpdatePublishes'
    BY <1>2 DEF Fail, IInv, TypeOK, UpdatePublishes
  <1>7. QED BY <1>3, <1>4, <1>5, <1>6 DEF IInv

(* Nothing is spent and the litter stays: only what the stages hold changes. *)
LEMMA CalmKeeps ==
    ASSUME IInv, TypeOK', NeverTorn', UpdatePublishes', StageInv',
           UNCHANGED <<litter, handled, spent>>, pc # "gone", pc' # "start"
    PROVE  IInv'
  <1>1. /\ spent["fault"] \in Nat /\ spent["crash"] \in Nat /\ spent["term"] \in Nat
        /\ litter \in Nat
    BY DEF IInv, TypeOK, Kinds
  <1>2. Owed' \in Nat /\ Owed' <= Owed
    BY DEF Owed
  <1>3. LitterInv'
    BY <1>1, <1>2 DEF IInv, LitterInv, Owed
  <1>4. QED BY <1>3 DEF IInv

LEMMA StartKeeps == IInv /\ Start => IInv'
  <1> SUFFICES ASSUME IInv, Start PROVE IInv'
    OBVIOUS
  <1>1. NeverTorn' /\ UpdatePublishes' /\ StageInv'
    BY DEF Start, AfterDeath, IInv, TypeOK, NeverTorn, UpdatePublishes, StageInv, Updating, disk
  <1>2. ~handled /\ ~handled' /\ Owed' = 0 /\ Owed = 0
    BY DEF Start, IInv, LitterInv, Owed
  <1>3. CASE UNCHANGED spent
    <2>1. TypeOK'
      BY <1>3 DEF Start, AfterDeath, IInv, TypeOK, given, disk
    <2>2. LitterInv'
      BY <1>2, <1>3 DEF Start, IInv, LitterInv, disk
    <2>3. QED BY <1>1, <2>1, <2>2 DEF IInv
  <1>4. CASE Spend("fault")
    <2>1. /\ spent' \in [Kinds -> Nat] /\ spent'["fault"] = spent["fault"] + 1
          /\ spent'["crash"] = spent["crash"] /\ spent'["term"] = spent["term"]
      BY <1>4, SpendCounts DEF IInv, TypeOK, Kinds
    <2>2. TypeOK'
      BY <2>1 DEF Start, AfterDeath, IInv, TypeOK, given, disk
    <2>3. spent["fault"] \in Nat /\ spent["crash"] \in Nat /\ spent["term"] \in Nat /\ litter \in Nat
      BY DEF IInv, TypeOK, Kinds
    <2>4. litter' + Owed' <= spent'["fault"] + spent'["crash"] + spent'["term"]
      BY <1>2, <2>1, <2>3 DEF Start, IInv, LitterInv, disk
    <2>5. QED BY <1>1, <1>2, <2>2, <2>4 DEF IInv, LitterInv
  <1>5. QED BY <1>3, <1>4 DEF Start

LEMMA GetBearTokenKeeps == IInv /\ GetBearToken => IInv'
  <1> SUFFICES ASSUME IInv, GetBearToken PROVE IInv'
    OBVIOUS
  <1>1. CASE Fail /\ UNCHANGED <<tmp, litter, failed>>
    <2>1. pc = "token" /\ tmp = Absent /\ failed \in BOOLEAN
      BY DEF GetBearToken, IInv, TypeOK
    <2>2. QED BY <1>1, <2>1, FailKeeps
  <1>2. CASE ~(Fail /\ UNCHANGED <<tmp, litter, failed>>)
    <2>1. /\ pc = "token" /\ pc' \in {"resolve", "query"}
          /\ token' \in {token, secret}
          /\ UNCHANGED <<given, hash, tmp, failed, disk, loaded, printed, handled, spent>>
      BY <1>2 DEF GetBearToken
    <2>2. TypeOK'
      BY <2>1 DEF IInv, TypeOK, given, disk
    <2>3. NeverTorn' /\ UpdatePublishes' /\ StageInv'
      BY <2>1 DEF IInv, NeverTorn, UpdatePublishes, StageInv, Updating, disk
    <2>4. QED BY <2>1, <2>2, <2>3, CalmKeeps DEF disk
  <1>3. QED BY <1>1, <1>2 DEF GetBearToken

LEMMA ResolveKeeps == IInv /\ GetFQDNfromIpAddress => IInv'
  <1> SUFFICES ASSUME IInv, GetFQDNfromIpAddress PROVE IInv'
    OBVIOUS
  <1>1. TypeOK'
    BY DEF GetFQDNfromIpAddress, IInv, TypeOK, given, pass, disk
  <1>2. NeverTorn' /\ UpdatePublishes' /\ StageInv'
    BY DEF GetFQDNfromIpAddress, IInv, NeverTorn, UpdatePublishes, StageInv, Updating, pass, disk
  <1>3. QED BY <1>1, <1>2, CalmKeeps DEF GetFQDNfromIpAddress, disk

LEMMA QueryKeeps == IInv /\ GetProviderFromServiceDiscovery => IInv'
  <1> SUFFICES ASSUME IInv, GetProviderFromServiceDiscovery PROVE IInv'
    OBVIOUS
  <1>0. pc = "query" /\ tmp = Absent /\ failed \in BOOLEAN
    BY DEF GetProviderFromServiceDiscovery, IInv, TypeOK
  <1>1. CASE Fail /\ UNCHANGED <<tmp, litter, failed>>
    BY <1>0, <1>1, FailKeeps
  <1>2. CASE pc' = AfterPass /\ UNCHANGED <<given, pass, disk, loaded, printed, handled, spent>>
    <2>1. TypeOK'
      BY <1>0, <1>2 DEF AfterPass, IInv, TypeOK, given, pass, disk
    <2>2. NeverTorn' /\ UpdatePublishes' /\ StageInv'
      BY <1>0, <1>2 DEF AfterPass, IInv, NeverTorn, UpdatePublishes, StageInv, Updating, pass, disk
    <2>3. QED BY <1>0, <1>2, <2>1, <2>2, CalmKeeps DEF AfterPass, disk
  <1>3. CASE /\ Answer(token) \notin {None, hash} /\ hash' = Answer(token)
             /\ failed' = FALSE /\ pc' = "create"
             /\ UNCHANGED <<given, token, tmp, disk, loaded, printed, handled, spent>>
    <2>1. hash' \in Bodies
      BY <1>3, Answers DEF IInv
    <2>2. TypeOK'
      BY <1>0, <1>3, <2>1 DEF IInv, TypeOK, given, disk
    <2>3. NeverTorn' /\ UpdatePublishes' /\ StageInv'
      BY <1>3, <2>1 DEF IInv, NeverTorn, UpdatePublishes, StageInv, Updating, disk
    <2>4. QED BY <1>0, <1>3, <2>2, <2>3, CalmKeeps DEF disk
  <1>4. QED BY <1>1, <1>2, <1>3 DEF GetProviderFromServiceDiscovery

LEMMA CreateTmpKeeps == IInv /\ CreateTmp => IInv'
  <1> SUFFICES ASSUME IInv, CreateTmp PROVE IInv'
    OBVIOUS
  <1>0. pc = "create" /\ tmp = Absent
    BY DEF CreateTmp, IInv, TypeOK
  <1>1. CASE Fail /\ failed' = TRUE /\ UNCHANGED <<tmp, litter>>
    BY <1>0, <1>1, FailKeeps
  <1>2. CASE /\ tmp' = Partial /\ pc' = "write"
             /\ UNCHANGED <<given, hash, token, failed, disk, loaded, printed, handled, spent>>
    <2>1. TypeOK'
      BY <1>0, <1>2, AbsentAssumption DEF IInv, TypeOK, given, disk
    <2>2. NeverTorn' /\ UpdatePublishes' /\ StageInv'
      BY <1>0, <1>2 DEF IInv, NeverTorn, UpdatePublishes, StageInv, Updating, disk
    <2>3. QED BY <1>0, <1>2, <2>1, <2>2, CalmKeeps DEF disk
  <1>3. QED BY <1>1, <1>2 DEF CreateTmp

LEMMA WriteTmpKeeps == IInv /\ WriteTmp => IInv'
  <1> SUFFICES ASSUME IInv, WriteTmp PROVE IInv'
    OBVIOUS
  <1>0. pc = "write" /\ tmp # Absent /\ hash \in Bodies
    BY DEF WriteTmp, IInv, TypeOK, StageInv, Updating
  <1>1. CASE Fail /\ failed' = TRUE /\ tmp' = Absent /\ litter' = Abandoned
    BY <1>0, <1>1, FailKeeps
  <1>2. CASE /\ tmp' = hash /\ pc' = "rename"
             /\ UNCHANGED <<given, hash, token, failed, disk, loaded, printed, handled, spent>>
    <2>1. TypeOK'
      BY <1>0, <1>2, AbsentAssumption DEF IInv, TypeOK, given, disk
    <2>2. NeverTorn' /\ UpdatePublishes' /\ StageInv'
      BY <1>0, <1>2 DEF IInv, NeverTorn, UpdatePublishes, StageInv, Updating, disk
    <2>3. QED BY <1>0, <1>2, <2>1, <2>2, CalmKeeps DEF disk
  <1>3. QED BY <1>1, <1>2 DEF WriteTmp

LEMMA RenameTmpKeeps == IInv /\ RenameTmp => IInv'
  <1> SUFFICES ASSUME IInv, RenameTmp PROVE IInv'
    OBVIOUS
  <1>0. pc = "rename" /\ tmp # Absent /\ tmp = hash /\ hash \in Bodies /\ ~failed
    BY DEF RenameTmp, IInv, TypeOK, StageInv, Updating
  <1>1. CASE Fail /\ failed' = TRUE /\ tmp' = Absent /\ litter' = Abandoned
    BY <1>0, <1>1, FailKeeps
  <1>2. CASE /\ file' = [text |-> tmp, readable |-> FALSE] /\ tmp' = Absent /\ pc' = "chmod"
             /\ UNCHANGED <<given, hash, token, failed, litter, loaded, printed, handled, spent>>
    <2>1. file' \in ListFile /\ file'.text = hash
      BY <1>0, <1>2 DEF ListFile
    <2> file' # Absent
      BY <2>1, AbsentAssumption
    <2>2. TypeOK'
      BY <1>0, <1>2, <2>1 DEF IInv, TypeOK, given
    <2>3. NeverTorn' /\ UpdatePublishes' /\ StageInv'
      BY <1>0, <1>2, <2>1 DEF IInv, NeverTorn, UpdatePublishes, StageInv, Updating
    <2>4. QED BY <1>0, <1>2, <2>2, <2>3, CalmKeeps
  <1>3. QED BY <1>1, <1>2 DEF RenameTmp

LEMMA ChmodKeeps == IInv /\ Chmod => IInv'
  <1> SUFFICES ASSUME IInv, Chmod PROVE IInv'
    OBVIOUS
  <1>0. pc = "chmod" /\ tmp = Absent /\ hash \in Bodies /\ file \in ListFile /\ file.text = hash
    BY DEF Chmod, IInv, TypeOK, StageInv
  <1>1. CASE Fail /\ failed' = TRUE /\ UNCHANGED <<tmp, litter>>
    BY <1>0, <1>1, FailKeeps
  <1>2. CASE /\ file' = [file EXCEPT !.readable = TRUE] /\ pc' = AfterPass
             /\ UNCHANGED <<given, pass, litter, loaded, printed, handled, spent>>
    <2>1. file' = [text |-> hash, readable |-> TRUE] /\ file' \in ListFile
      BY <1>0, <1>2 DEF ListFile
    <2>2. TypeOK'
      BY <1>0, <1>2, <2>1 DEF AfterPass, IInv, TypeOK, given, pass
    <2>3. NeverTorn' /\ UpdatePublishes' /\ StageInv'
      BY <1>0, <1>2, <2>1 DEF AfterPass, NeverTorn, UpdatePublishes, StageInv, Updating, pass
    <2>4. QED BY <1>0, <1>2, <2>2, <2>3, CalmKeeps DEF AfterPass
  <1>3. QED BY <1>1, <1>2 DEF Chmod

LEMMA PrintWakeKeep == IInv /\ (PrintList \/ Wake) => IInv'
  <1> SUFFICES ASSUME IInv, PrintList \/ Wake PROVE IInv'
    OBVIOUS
  <1>1. /\ pc \in {"print", "sleep"} /\ pc' \in {"gone", "token"}
        /\ pc = "print" => pc' = "gone"
        /\ UNCHANGED <<given, pass, disk, loaded, handled, spent>>
    BY DEF PrintList, Wake
  <1>2. printed' \in Bodies \cup {Partial, None}
    BY DEF PrintList, Wake, IInv, TypeOK, ListFile
  <1>3. TypeOK'
    BY <1>1, <1>2 DEF IInv, TypeOK, given, pass, disk
  <1>4. NeverTorn' /\ UpdatePublishes' /\ StageInv'
    BY <1>1 DEF IInv, NeverTorn, UpdatePublishes, StageInv, Updating, pass, disk
  <1>5. QED BY <1>1, <1>3, <1>4, CalmKeeps DEF disk

-----------------------------------------------------------------------------
(* The process ends, at most one temporary file is left behind, and what it  *)
(* owes or what was spent grows as much.                                     *)
LEMMA EndKeeps ==
    ASSUME IInv, pc # "gone", pc # "start", pc' \in {"gone", "start"},
           tmp' = Absent, litter' = Abandoned,
           UNCHANGED <<given, hash, token, failed, file, loaded, printed>>,
           handled' \in BOOLEAN, handled' => pc' = "gone",
           spent' \in [Kinds -> Nat],
           \A k \in Kinds : spent[k] <= spent'[k],
           Owed = 1 \/ spent'["crash"] = spent["crash"] + 1 \/ spent'["term"] = spent["term"] + 1
    PROVE  IInv'
  <1>1. TypeOK'
    BY DEF Abandoned, IInv, TypeOK, given
  <1>2. NeverTorn' /\ UpdatePublishes' /\ StageInv'
    BY DEF IInv, NeverTorn, UpdatePublishes, StageInv, Updating
  <1>3. /\ spent["fault"] \in Nat /\ spent["crash"] \in Nat /\ spent["term"] \in Nat
        /\ spent'["fault"] \in Nat /\ spent'["crash"] \in Nat /\ spent'["term"] \in Nat
        /\ spent["fault"] <= spent'["fault"] /\ spent["crash"] <= spent'["crash"]
        /\ spent["term"] <= spent'["term"]
        /\ litter \in Nat /\ litter' \in {litter, litter + 1}
    BY DEF Abandoned, IInv, TypeOK, Kinds
  <1>4. Owed \in {0, 1} /\ Owed' = 0
    BY DEF Owed
  <1>5. litter + Owed <= spent["fault"] + spent["crash"] + spent["term"]
    BY DEF IInv, LitterInv
  <1>6. litter' + Owed' <= spent'["fault"] + spent'["crash"] + spent'["term"]
    BY <1>3, <1>4, <1>5
  <1>7. QED BY <1>1, <1>2, <1>6 DEF IInv, LitterInv

LEMMA TerminateKeeps == IInv /\ TerminateContainer => IInv'
  <1> SUFFICES ASSUME IInv, TerminateContainer PROVE IInv'
    OBVIOUS
  <1>1. /\ spent' \in [Kinds -> Nat] /\ spent'["term"] = spent["term"] + 1
        /\ \A k \in Kinds \ {"term"} : spent'[k] = spent[k]
    BY SpendCounts DEF TerminateContainer, IInv, TypeOK, Kinds
  <1>2. \A k \in Kinds : spent[k] \in Nat
    BY DEF IInv, TypeOK
  <1>3. CASE pc = "resolve"
    <2>1. TypeOK'
      BY <1>1, <1>3 DEF TerminateContainer, IInv, TypeOK, given
    <2>2. NeverTorn' /\ UpdatePublishes' /\ StageInv'
      BY <1>3 DEF TerminateContainer, IInv, NeverTorn, UpdatePublishes, StageInv, Updating
    <2>3. litter \in Nat /\ litter' = litter /\ Owed \in {0, 1} /\ Owed' = 1 /\ pc' = "query"
      BY <1>3 DEF TerminateContainer, Owed, IInv, TypeOK
    <2>4. litter' + Owed' <= spent'["fault"] + spent'["crash"] + spent'["term"]
      BY <1>1, <1>2, <2>3 DEF IInv, LitterInv, Kinds
    <2>5. QED BY <2>1, <2>2, <2>3, <2>4 DEF IInv, LitterInv
  <1>4. CASE pc # "resolve"
    <2>1. \A k \in Kinds : spent[k] <= spent'[k]
      BY <1>1, <1>2
    <2>2. QED BY <1>1, <1>4, <2>1, EndKeeps DEF TerminateContainer
  <1>5. QED BY <1>3, <1>4

LEMMA KillKeeps == IInv /\ Kill => IInv'
  <1> SUFFICES ASSUME IInv, Kill PROVE IInv'
    OBVIOUS
  <1>1. Owed = 1 /\ pc # "start" /\ handled \in BOOLEAN
    BY DEF Kill, Owed, IInv, LitterInv, TypeOK
  <1>2. spent' \in [Kinds -> Nat] /\ \A k \in Kinds : spent[k] <= spent'[k]
    BY DEF Kill, IInv, TypeOK
  <1>3. /\ pc # "gone" /\ pc' \in {"gone", "start"} /\ tmp' = Absent /\ litter' = Abandoned
        /\ UNCHANGED <<given, hash, token, failed, file, loaded, printed>>
        /\ handled' = handled
        /\ handled' => pc' = "gone"
    BY <1>1 DEF Kill
  <1>4. QED BY <1>1, <1>2, <1>3, EndKeeps

LEMMA CrashKeeps == IInv /\ Crash => IInv'
  <1> SUFFICES ASSUME IInv, Crash PROVE IInv'
    OBVIOUS
  <1>1. /\ spent' \in [Kinds -> Nat] /\ spent'["crash"] = spent["crash"] + 1
        /\ \A k \in Kinds \ {"crash"} : spent'[k] = spent[k]
    BY SpendCounts DEF Crash, IInv, TypeOK, Kinds
  <1>2. \A k \in Kinds : spent[k] <= spent'[k]
    BY <1>1 DEF IInv, TypeOK
  <1>3. /\ pc # "gone" /\ pc # "start" /\ pc' \in {"gone", "start"}
        /\ tmp' = Absent /\ litter' = Abandoned
        /\ UNCHANGED <<given, hash, token, failed, file, loaded, printed>>
        /\ handled' = FALSE
    BY DEF Crash, AfterDeath, IInv, TypeOK
  <1>4. QED BY <1>1, <1>2, <1>3, EndKeeps

(* Prometheus, vCenter and the secret change nothing the process works on.   *)
LEMMA OutsideKeeps ==
    ASSUME IInv, Reload \/ PrometheusRestarts \/ Change \/ Rotate \/ Publish \/ UNCHANGED vars
    PROVE  IInv'
  <1>1. UNCHANGED <<pc, pass, disk, printed, handled>>
    BY DEF Reload, PrometheusRestarts, Change, Rotate, Publish, vars
  <1>2. /\ spent' \in [Kinds -> Nat]
        /\ \A k \in Kinds : spent[k] \in Nat /\ spent'[k] \in Nat /\ spent[k] <= spent'[k]
    <2>1. UNCHANGED spent \/ \E k \in Kinds : Spend(k)
      BY DEF Reload, PrometheusRestarts, Change, Rotate, Publish, vars, Kinds
    <2>2. QED BY <2>1, SpendCounts DEF IInv, TypeOK
  <1>3. /\ mode' = mode
        /\ vc' \in Texts \cup {None} /\ accepted' \in Tokens /\ secret' \in Tokens
        /\ loaded' \in Bodies \cup {Partial, None}
    BY DEF Reload, Loadable, PrometheusRestarts, Change, Rotate, Publish, vars, given, IInv,
           TypeOK, ListFile
  <1>4. TypeOK'
    BY <1>1, <1>2, <1>3 DEF IInv, TypeOK, pass, disk
  <1>5. NeverTorn' /\ UpdatePublishes' /\ StageInv'
    BY <1>1 DEF IInv, NeverTorn, UpdatePublishes, StageInv, Updating, pass, disk
  <1>6. /\ litter' + Owed' <= spent'["fault"] + spent'["crash"] + spent'["term"]
        /\ handled' => pc' # "start"
    <2>1. Owed' = Owed /\ Owed \in {0, 1} /\ litter' = litter /\ litter \in Nat
      BY <1>1 DEF Owed, disk, IInv, TypeOK
    <2>2. QED BY <1>1, <1>2, <2>1 DEF IInv, LitterInv, Kinds
  <1>7. QED BY <1>4, <1>5, <1>6 DEF IInv, LitterInv

LEMMA NextIInv == IInv /\ [Next]_vars => IInv'
  BY StartKeeps, GetBearTokenKeeps, ResolveKeeps, QueryKeeps, CreateTmpKeeps, WriteTmpKeeps,
     RenameTmpKeeps, ChmodKeeps, PrintWakeKeep, TerminateKeeps, KillKeeps, CrashKeeps, OutsideKeeps
  DEF Next, Main, Environment, Events

LEMMA Invariance == Spec => []IInv
  BY InitIInv, NextIInv, PTL DEF Spec

-----------------------------------------------------------------------------
(* The variables keep their types, and an update has a temporary file just   *)
(* while it writes one and moves it.                                         *)
THEOREM TypeCorrect == Spec => []TypeOK
  <1>1. IInv => TypeOK
    BY DEF IInv
  <1>2. QED BY <1>1, Invariance, PTL

(* However an update is cut short, what is called servers.json is a whole    *)
(* body.                                                                     *)
THEOREM ListNeverTorn == Spec => []NeverTorn
  <1>1. IInv => NeverTorn
    BY DEF IInv
  <1>2. QED BY <1>1, Invariance, PTL

(* Between two updates the list is what the process last acted on, readable  *)
(* for Prometheus, unless a step of that update failed.                      *)
THEOREM UpdatesPublish == Spec => []UpdatePublishes
  <1>1. IInv => UpdatePublishes
    BY DEF IInv
  <1>2. QED BY <1>1, Invariance, PTL

(* Failures and deaths leave one temporary file each, successes none.        *)
THEOREM LitterIsBounded == Spec => []LitterBounded
  <1>1. IInv => LitterBounded
    <2> SUFFICES ASSUME IInv PROVE LitterBounded
      OBVIOUS
    <2>1. /\ Owed \in {0, 1} /\ litter \in Nat
          /\ spent["fault"] \in Nat /\ spent["crash"] \in Nat /\ spent["term"] \in Nat
      BY DEF Owed, IInv, TypeOK, Kinds
    <2>2. QED BY <2>1 DEF LitterBounded, IInv, LitterInv
  <1>2. QED BY <1>1, Invariance, PTL

-----------------------------------------------------------------------------
(* The register the sidecar implements: where its parts lie.                 *)
Published == IF file = Absent THEN None ELSE file.text
Readable == file # Absent /\ file.readable

LEMMA StillRegister ==
    ASSUME UNCHANGED <<hash, file, loaded>>, Updating' = Updating
    PROVE  UNCHANGED Register!lvars
  BY DEF Register!lvars

(* A pass that ends without having moved its file into place.                *)
LEMMA EndedRegister ==
    ASSUME UNCHANGED <<hash, file, loaded>>, ~Updating'
    PROVE  [Register!Next]_Register!lvars
  <1>1. CASE Updating
    BY <1>1 DEF Register!Next, Register!GiveUp
  <1>2. CASE ~Updating
    BY <1>2, StillRegister DEF Updating
  <1>3. QED BY <1>1, <1>2

LEMMA MainRegister ==
    ASSUME IInv, Main
    PROVE  [Register!Next]_Register!lvars
  <1>1. CASE Start
    <2>1. hash' = None /\ ~Updating /\ ~Updating' /\ file' = file /\ loaded' = loaded
      BY <1>1 DEF Start, Updating, AfterDeath, disk
    <2>2. Register!Forget
      BY <2>1 DEF Register!Forget, Updating
    <2>3. QED BY <2>2 DEF Register!Next
  <1>2. CASE GetBearToken
    <2>1. UNCHANGED <<hash, file, loaded>> /\ ~Updating'
      BY <1>2 DEF GetBearToken, Updating, Fail, AfterPass, disk
    <2>2. QED BY <2>1, EndedRegister
  <1>3. CASE GetFQDNfromIpAddress \/ PrintList \/ Wake
    <2>1. UNCHANGED <<hash, file, loaded>> /\ ~Updating'
      BY <1>3 DEF GetFQDNfromIpAddress, PrintList, Wake, Updating, pass, disk
    <2>2. QED BY <2>1, EndedRegister
  <1>4. CASE GetProviderFromServiceDiscovery
    <2>1. CASE /\ Answer(token) \notin {None, hash} /\ hash' = Answer(token)
               /\ pc' = "create" /\ UNCHANGED <<file, loaded>>
      <3>1. hash' \in Bodies \ {hash}
        BY <2>1, Answers DEF IInv
      <3>2. ~Updating /\ Updating'
        BY <1>4, <2>1 DEF GetProviderFromServiceDiscovery, Updating
      <3>3. Register!Decide
        BY <2>1, <3>1, <3>2 DEF Register!Decide
      <3>4. QED BY <3>3 DEF Register!Next
    <2>2. CASE UNCHANGED <<hash, file, loaded>> /\ pc' = AfterPass
      <3>1. ~Updating'
        BY <2>2 DEF Updating, AfterPass
      <3>2. QED BY <2>2, <3>1, EndedRegister
    <2>3. QED BY <1>4, <2>1, <2>2 DEF GetProviderFromServiceDiscovery, Fail, pass, disk
  <1>5. CASE CreateTmp \/ WriteTmp
    <2>1. UNCHANGED <<hash, file, loaded>> /\ Updating /\ pc' \in {"write", "rename", AfterPass}
      BY <1>5 DEF CreateTmp, WriteTmp, Updating, Fail, disk
    <2>2. CASE pc' \in {"write", "rename"}
      <3>1. Updating' = Updating
        BY <2>1, <2>2 DEF Updating
      <3>2. QED BY <2>1, <3>1, StillRegister
    <2>3. CASE pc' = AfterPass
      <3>1. ~Updating'
        BY <2>3 DEF Updating, AfterPass
      <3>2. QED BY <2>1, <3>1, EndedRegister
    <2>4. QED BY <2>1, <2>2, <2>3
  <1>6. CASE RenameTmp
    <2>1. CASE /\ file' = [text |-> tmp, readable |-> FALSE] /\ pc' = "chmod"
               /\ UNCHANGED <<hash, loaded>>
      <3>1. pc = "rename" /\ tmp = hash /\ hash \in Bodies
        BY <1>6 DEF RenameTmp, IInv, StageInv, Updating
      <3>2. file' # Absent
        <4>1. file' \in ListFile
          BY <2>1, <3>1 DEF ListFile
        <4>2. QED BY <4>1, AbsentAssumption
      <3>3. Published' = hash /\ ~Readable' /\ Updating /\ ~Updating'
        BY <2>1, <3>1, <3>2 DEF Published, Readable, Updating
      <3>4. Register!Publish
        BY <2>1, <3>3 DEF Register!Publish, Published, Readable
      <3>5. QED BY <3>4 DEF Register!Next
    <2>2. CASE UNCHANGED <<hash, file, loaded>> /\ pc' = AfterPass
      <3>1. ~Updating'
        BY <2>2 DEF Updating, AfterPass
      <3>2. QED BY <2>2, <3>1, EndedRegister
    <2>3. QED BY <1>6, <2>1, <2>2 DEF RenameTmp, Fail
  <1>7. CASE Chmod
    <2>1. CASE /\ file' = [file EXCEPT !.readable = TRUE] /\ pc' = AfterPass
               /\ UNCHANGED <<hash, loaded>>
      <3>1. pc = "chmod" /\ file \in ListFile /\ file # Absent /\ file.text = hash
        BY <1>7 DEF Chmod, IInv, TypeOK, StageInv
      <3>2. file' \in ListFile /\ file'.text = hash /\ file'.readable
        BY <2>1, <3>1 DEF ListFile
      <3>3. file' # Absent
        BY <3>2, AbsentAssumption
      <3>4. Published = hash /\ Published' = hash /\ Readable' /\ ~Updating /\ ~Updating'
        BY <2>1, <3>1, <3>2, <3>3 DEF Published, Readable, Updating, AfterPass
      <3>5. Register!Open
        BY <2>1, <3>4 DEF Register!Open, Published, Readable, Updating
      <3>6. QED BY <3>5 DEF Register!Next
    <2>2. CASE UNCHANGED <<hash, file, loaded>> /\ pc' = AfterPass
      <3>1. ~Updating'
        BY <2>2 DEF Updating, AfterPass
      <3>2. QED BY <2>2, <3>1, EndedRegister
    <2>3. QED BY <1>7, <2>1, <2>2 DEF Chmod, Fail, pass
  <1>8. QED BY <1>1, <1>2, <1>3, <1>4, <1>5, <1>6, <1>7 DEF Main

LEMMA EnvironmentRegister ==
    ASSUME IInv, Environment
    PROVE  [Register!Next]_Register!lvars
  <1>1. CASE TerminateContainer \/ Kill \/ Crash
    <2>1. UNCHANGED <<hash, file, loaded>> /\ ~Updating'
      BY <1>1 DEF TerminateContainer, Kill, Crash, Updating, AfterDeath
    <2>2. QED BY <2>1, EndedRegister
  <1>2. CASE Reload
    <2>1. UNCHANGED <<hash, file, pc>> /\ Readable /\ Published \in Lists /\ loaded' = Published
      BY <1>2 DEF Reload, Loadable, Readable, Published, pass, disk
    <2>2. Register!Load
      BY <2>1 DEF Register!Load, Readable, Published, Updating
    <2>3. QED BY <2>2 DEF Register!Next
  <1>3. CASE PrometheusRestarts
    <2>1. UNCHANGED <<hash, file, pc>> /\ loaded' = None
      BY <1>3 DEF PrometheusRestarts, pass, disk
    <2>2. Register!Unload
      BY <2>1 DEF Register!Unload, Updating
    <2>3. QED BY <2>2 DEF Register!Next
  <1>4. CASE Change \/ Rotate \/ Publish
    <2>1. UNCHANGED <<hash, file, loaded, pc>>
      BY <1>4 DEF Change, Rotate, Publish, pass, disk
    <2>2. QED BY <2>1, StillRegister DEF Updating
  <1>5. QED BY <1>1, <1>2, <1>3, <1>4 DEF Environment, Events

(* The five system calls of an update, and all that may come between them,   *)
(* are a register that is written in one step.                               *)
THEOREM SidecarRefines == Spec => RefinesServerList
  <1>1. Init => Register!Init
    BY DEF Init, Register!Init, Updating
  <1>2. IInv /\ [Next]_vars => [Register!Next]_Register!lvars
    <2>1. CASE UNCHANGED vars
      BY <2>1, StillRegister DEF vars, pass, disk, Updating
    <2>2. QED BY <2>1, MainRegister, EnvironmentRegister DEF Next
  <1>3. QED BY <1>1, <1>2, Invariance, PTL DEF Spec, RefinesServerList, Register!Spec

=============================================================================

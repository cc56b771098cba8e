-------------------------- MODULE ServiceDiscovery --------------------------
(***************************************************************************)
(* vsan-prometheus-servicediscovery: the sidecar that keeps the server     *)
(* list file Prometheus reads equal to what vCenter advertises.            *)
(*                                                                         *)
(* Every system call on the file is one step: Prometheus may read, the     *)
(* process may die and a SIGTERM may arrive between any two.  The          *)
(* directory survives a restart of the container, the hash does not.       *)
(***************************************************************************)
EXTENDS Naturals

CONSTANTS
    Texts,       \* the bodies vCenter serves to a token it accepts
    Refusal,     \* what it answers to any other token
    Lists,       \* the bodies that parse as a list of targets
    Tokens,
    Configs,     \* the ways to run it: which of Modes are configured
    Absent,      \* no such file
    Partial,     \* a file without all of its content
    None,
    Bound        \* how often the environment may do each of Kinds

Kinds == {"fault", "crash", "change", "term"}
Modes == {"CaCert", "TokenInEnv", "Standalone"}
Bodies == Texts \cup {Refusal}
ListFile == [text : Bodies \cup {Partial}, readable : BOOLEAN]

ASSUME BodyAssumption == None \notin Bodies /\ Partial \notin Bodies
ASSUME AbsentAssumption == Absent \notin Bodies /\ Absent # Partial /\ Absent \notin ListFile
ASSUME ConfigAssumption == Configs \subseteq SUBSET Modes
ASSUME BoundAssumption == Bound \in [Kinds -> Nat]

VARIABLES
    mode,     \* the environment variables and files the container has
    vc,       \* the body vCenter serves now, None when it serves none
    accepted, \* the token vCenter accepts
    secret,   \* the token in the mounted secret
    pc,       \* where main stands
    hash,     \* serversList_hash: the last body a pass acted on
    token,    \* bearer_token
    tmp,      \* the temporary file the pass is working on
    file,     \* CONFIG_DIR, servers.json
    litter,   \* temporary files nobody will rename or remove
    loaded,   \* the targets Prometheus scrapes
    printed,  \* what a standalone run printed
    handled,  \* terminateContainer has run
    failed,   \* history: a step of the pass that recorded hash failed
    spent     \* how often the environment did each of Kinds

given == <<mode, vc, accepted, secret>>
pass == <<hash, token, tmp, failed>>
disk == <<file, litter>>
vars == <<given, pc, pass, disk, loaded, printed, handled, spent>>

-----------------------------------------------------------------------------
Spend(k) == /\ spent[k] < Bound[k]
            /\ spent' = [spent EXCEPT ![k] = @ + 1]

(* What is left of a pass that stops here: its temporary file.             *)
Abandoned == IF tmp = Absent THEN litter ELSE litter + 1

(* Where a pass goes when it is over, and where a process that died.       *)
AfterPass == IF "Standalone" \in mode THEN "print" ELSE "sleep"
AfterDeath == IF "Standalone" \in mode THEN "gone" ELSE "start"

Answer(k) == IF k = accepted THEN vc ELSE Refusal

Init ==
    /\ mode \in Configs
    /\ vc \in Texts
    /\ accepted \in Tokens
    /\ secret = accepted
    /\ pc = "start"
    /\ hash = None
    /\ token = None
    /\ tmp = Absent
    /\ file = Absent
    /\ litter = 0
    /\ loaded = None
    /\ printed = None
    /\ handled = FALSE
    /\ failed = FALSE
    /\ spent = [k \in Kinds |-> 0]

-----------------------------------------------------------------------------
(* The process reads the token, which must be there, and installs the      *)
(* handler.                                                                *)
Start ==
    /\ pc = "start"
    /\ hash' = None
    /\ failed' = FALSE
    /\ \/ token' = secret /\ pc' = "token" /\ UNCHANGED spent
       \/ Spend("fault") /\ pc' = AfterDeath /\ UNCHANGED token
    /\ UNCHANGED <<given, tmp, disk, loaded, printed, handled>>

(* A call of the pass fails: main logs the exception and the pass is over. *)
Fail ==
    /\ Spend("fault")
    /\ pc' = AfterPass
    /\ UNCHANGED <<given, hash, token, file, loaded, printed, handled>>

(* Mutant: the token is only read when the process starts.                 *)
GetBearTokenOnce ==
    /\ pc = "token"
    /\ pc' = IF "CaCert" \in mode THEN "resolve" ELSE "query"
    /\ UNCHANGED <<given, pass, disk, loaded, printed, handled, spent>>

(* The token is read afresh, unless the environment holds it.              *)
GetBearToken ==
    /\ pc = "token"
    /\ \/ /\ token' = IF "TokenInEnv" \in mode THEN token ELSE secret
          /\ pc' = IF "CaCert" \in mode THEN "resolve" ELSE "query"
          /\ UNCHANGED <<given, hash, tmp, failed, disk, loaded, printed, handled, spent>>
       \/ /\ "TokenInEnv" \notin mode
          /\ Fail
          /\ UNCHANGED <<tmp, litter, failed>>

(* With a certificate the host name of vCenter is looked up; whatever goes *)
(* wrong there is caught by a bare except.                                 *)
GetFQDNfromIpAddress ==
    /\ pc = "resolve"
    /\ pc' = "query"
    /\ UNCHANGED <<given, pass, disk, loaded, printed, handled, spent>>

(* Any body but an empty one or that of a 404 is an answer.  A new one is   *)
(* recorded as acted on before the list is written.                        *)
GetProviderFromServiceDiscovery ==
    /\ pc = "query"
    /\ \/ /\ Answer(token) \in {None, hash}
          /\ pc' = AfterPass
          /\ UNCHANGED <<given, pass, disk, loaded, printed, handled, spent>>
       \/ /\ Answer(token) \notin {None, hash}
          /\ hash' = Answer(token)
          /\ failed' = FALSE
          /\ pc' = "create"
          /\ UNCHANGED <<given, token, tmp, disk, loaded, printed, handled, spent>>
       \/ /\ Fail
          /\ UNCHANGED <<tmp, litter, failed>>

-----------------------------------------------------------------------------
(* updateServerList, one action per system call that counts.               *)

CreateTmp ==
    /\ pc = "create"
    /\ \/ /\ tmp' = Partial
          /\ pc' = "write"
          /\ UNCHANGED <<given, hash, token, failed, disk, loaded, printed, handled, spent>>
       \/ /\ Fail
          /\ failed' = TRUE
          /\ UNCHANGED <<tmp, litter>>

(* Mutant: moved into place before it is written.                          *)
WriteLast ==
    /\ pc = "write"
    /\ pc' = "rename"
    /\ UNCHANGED <<given, pass, disk, loaded, printed, handled, spent>>

WriteTmp ==
    /\ pc = "write"
    /\ \/ /\ tmp' = hash
          /\ pc' = "rename"
          /\ UNCHANGED <<given, hash, token, failed, disk, loaded, printed, handled, spent>>
       \/ /\ Fail
          /\ failed' = TRUE
          /\ tmp' = Absent
          /\ litter' = Abandoned

(* Mutant: copied into place, the temporary file is not removed.           *)
CopyTmp ==
    /\ pc = "rename"
    /\ file' = [text |-> tmp, readable |-> FALSE]
    /\ tmp' = Absent
    /\ litter' = Abandoned
    /\ pc' = "chmod"
    /\ UNCHANGED <<given, hash, token, failed, loaded, printed, handled, spent>>

(* Mutant: a failed rename is ignored and the mode set all the same.        *)
RenameUnchecked ==
    /\ pc = "rename"
    /\ \/ file' = [text |-> tmp, readable |-> FALSE] /\ UNCHANGED <<litter, spent>>
       \/ Spend("fault") /\ litter' = Abandoned /\ UNCHANGED file
    /\ tmp' = Absent
    /\ pc' = "chmod"
    /\ UNCHANGED <<given, hash, token, failed, loaded, printed, handled>>

(* The temporary file was made for its owner only, and keeps that mode.  An *)
(* OSError of either call is written to stderr and forgotten.              *)
RenameTmp ==
    /\ pc = "rename"
    /\ \/ /\ file' = [text |-> tmp, readable |-> FALSE]
          /\ tmp' = Absent
          /\ pc' = "chmod"
          /\ UNCHANGED <<given, hash, token, failed, litter, loaded, printed, handled, spent>>
       \/ /\ Fail
          /\ failed' = TRUE
          /\ tmp' = Absent
          /\ litter' = Abandoned

(* Mutant: the mode is set for the owner only.                             *)
ChmodOwnerOnly ==
    /\ pc = "chmod"
    /\ pc' = AfterPass
    /\ UNCHANGED <<given, pass, disk, loaded, printed, handled, spent>>

Chmod ==
    /\ pc = "chmod"
    /\ \/ /\ file' = [file EXCEPT !.readable = TRUE]
          /\ pc' = AfterPass
          /\ UNCHANGED <<given, pass, litter, loaded, printed, handled, spent>>
       \/ /\ Fail
          /\ failed' = TRUE
          /\ UNCHANGED <<tmp, litter>>

(* Mutant: the loop is not left.                                           *)
PrintAndLoop ==
    /\ pc = "print"
    /\ printed' = IF file # Absent /\ file.text \in Lists THEN file.text ELSE None
    /\ pc' = "sleep"
    /\ UNCHANGED <<given, pass, disk, loaded, handled, spent>>

(* A standalone run prints the list, when there is one, and is over.        *)
PrintList ==
    /\ pc = "print"
    /\ printed' = IF file # Absent /\ file.text \in Lists THEN file.text ELSE None
    /\ pc' = "gone"
    /\ UNCHANGED <<given, pass, disk, loaded, handled, spent>>

Wake ==
    /\ pc = "sleep"
    /\ pc' = "token"
    /\ UNCHANGED <<given, pass, disk, loaded, printed, handled, spent>>

-----------------------------------------------------------------------------
(* SIGTERM: terminateContainer raises SystemExit wherever main stands.  No *)
(* handler catches it but the bare except of the look-up.                  *)
TerminateContainer ==
    /\ pc \notin {"start", "gone"}
    /\ Spend("term")
    /\ handled' = TRUE
    /\ IF pc = "resolve"
       THEN pc' = "query" /\ UNCHANGED <<tmp, litter>>
       ELSE pc' = "gone" /\ tmp' = Absent /\ litter' = Abandoned
    /\ UNCHANGED <<given, hash, token, failed, file, loaded, printed>>

(* Kubelet kills the container when the grace period is over.              *)
Kill ==
    /\ handled /\ pc # "gone"
    /\ pc' = "gone" /\ tmp' = Absent /\ litter' = Abandoned
    /\ UNCHANGED <<given, hash, token, failed, file, loaded, printed, handled, spent>>

(* The process dies and its container is restarted.                        *)
Crash ==
    /\ pc \notin {"start", "gone"} /\ ~handled
    /\ Spend("crash")
    /\ pc' = AfterDeath
    /\ tmp' = Absent /\ litter' = Abandoned
    /\ UNCHANGED <<given, hash, token, failed, file, loaded, printed, handled>>

(* Prometheus reads the list anew, on its own clock; it keeps its targets  *)
(* when it cannot open the file or not parse it, and forgets them when it  *)
(* is restarted.                                                           *)
Loadable == file # Absent /\ file.readable /\ file.text \in Lists
Reload ==
    /\ Loadable /\ loaded # file.text
    /\ loaded' = file.text
    /\ UNCHANGED <<given, pc, pass, disk, printed, handled, spent>>
PrometheusRestarts ==
    /\ Spend("crash")
    /\ loaded' = None
    /\ UNCHANGED <<given, pc, pass, disk, printed, handled>>

(* vCenter's hosts change, or it starts or stops answering.                *)
Change ==
    /\ Spend("change")
    /\ vc' \in (Texts \cup {None}) \ {vc}
    /\ UNCHANGED <<mode, accepted, secret, pc, pass, disk, loaded, printed, handled>>

(* The setup overwrites the token; some time later the secret has another  *)
(* one, as a rule but not always the one that was set up last.             *)
Rotate ==
    /\ accepted' \in Tokens \ {accepted}
    /\ UNCHANGED <<mode, vc, secret, pc, pass, disk, loaded, printed, handled, spent>>
Publish ==
    /\ secret' \in Tokens \ {secret}
    /\ UNCHANGED <<mode, vc, accepted, pc, pass, disk, loaded, printed, handled, spent>>

-----------------------------------------------------------------------------
Main == \/ Start \/ GetBearToken \/ GetFQDNfromIpAddress
        \/ GetProviderFromServiceDiscovery \/ CreateTmp \/ WriteTmp \/ RenameTmp
        \/ Chmod \/ PrintList \/ Wake
Events == \/ TerminateContainer \/ Kill \/ Crash \/ Reload
          \/ PrometheusRestarts \/ Change
Environment == Events \/ Rotate \/ Publish

Next == Main \/ Environment
Spec == Init /\ [][Next]_vars

(* The daemon never stops between two calls, and Prometheus reads the list *)
(* again and again.                                                        *)
FairSpec == Spec /\ WF_vars(Main) /\ WF_vars(Reload)

-----------------------------------------------------------------------------
(* The variables have their types, and each stage of an update holds the    *)
(* file it works on.                                                        *)
TypeOK ==
    /\ mode \in Configs
    /\ vc \in Texts \cup {None}
    /\ accepted \in Tokens /\ secret \in Tokens
    /\ pc \in {"start", "token", "resolve", "query", "create", "write", "rename",
               "chmod", "print", "sleep", "gone"}
    /\ hash \in Bodies \cup {None}
    /\ token \in Tokens \cup {None}
    /\ tmp \in Bodies \cup {Partial, Absent}
    /\ file \in ListFile \cup {Absent}
    /\ litter \in Nat
    /\ loaded \in Bodies \cup {Partial, None}
    /\ printed \in Bodies \cup {Partial, None}
    /\ handled \in BOOLEAN /\ failed \in BOOLEAN
    /\ spent \in [Kinds -> Nat]
    /\ tmp # Absent <=> pc \in {"write", "rename"}
    /\ pc = "chmod" => file # Absent

(* Wherever it is cut short, an update never leaves part of a body under    *)
(* the name Prometheus reads.                                               *)
NeverTorn == file # Absent => file.text \in Bodies

(* Between two updates, the list is the last body the process acted on and  *)
(* Prometheus may read it, unless a step of that update failed; a restart,  *)
(* which forgets the body, is no exception to that.                         *)
UpdatePublishes ==
    (pc \in {"sleep", "print", "token", "resolve", "query"} /\ hash # None /\ ~failed)
    => file = [text |-> hash, readable |-> TRUE]

(* A temporary file is left behind only by an update that failed or by a    *)
(* process that died: one each, however many updates succeed.               *)
LitterBounded ==
    litter <= spent["fault"] + spent["crash"] + spent["term"]

(* Once vCenter serves the same list for good, to the token in the secret,  *)
(* and no update of the list failed since, Prometheus comes to scrape just  *)
(* that list and keeps to it, however often the token was replaced, a query *)
(* failed or either process died on the way, unless the sidecar was told to *)
(* stop.                                                                    *)
EventuallyLoaded ==
    mode \intersect {"TokenInEnv", "Standalone"} = {} =>
    \A t \in Texts \cap Lists :
       <>[](vc = t /\ secret = accepted /\ ~failed /\ ~handled) => <>[](loaded = t)

(* A standalone run comes to its end, whatever fails.                       *)
StandaloneEnds == "Standalone" \in mode => <>[](pc = "gone")

(* The system calls of an update, cut short anywhere and under the eyes of a *)
(* reader, are one write of a register: no other process than the one that  *)
(* decided on a body publishes it, none publishes it twice or decides anew  *)
(* before, and Prometheus loads nothing else.                               *)
Updating == pc \in {"create", "write", "rename"}
Register == INSTANCE ServerList WITH
    decided <- hash, pending <- Updating,
    published <- IF file = Absent THEN None ELSE file.text,
    readable <- file # Absent /\ file.readable
RefinesServerList == Register!Spec

(* What Prometheus is given is always a list of targets.                    *)
ListIsList == file # Absent => file.text \in Lists

=============================================================================

----------------------------- MODULE TokenChain -----------------------------
(***************************************************************************)
(* The way of a token: a run of the setup makes vCenter accept it and      *)
(* prints it, the administrator puts it into the secret, the sidecar reads *)
(* it there, asks vCenter with it and writes the list, Prometheus loads    *)
(* the list.  The setup and the sidecar are those of their own modules;    *)
(* they share what vCenter accepts and what is in the secret.              *)
(***************************************************************************)
EXTENDS TokenSetup

CONSTANTS Texts, Refusal, Lists, Configs, Absent, Partial, DaemonBound

ASSUME BodiesAssumption == None \notin Texts /\ Refusal \notin Texts \cup {None}
ASSUME TokensAssumption == None \notin Tokens

VARIABLES
    mode, vc, pc, hash, token, tmp, file, litter, loaded, printed, handled,
    failed, daemonSpent \* the sidecar's and Prometheus'

Daemon == INSTANCE ServiceDiscovery WITH Bound <- DaemonBound, spent <- daemonSpent

daemon == <<mode, vc, pc, hash, token, tmp, file, litter, loaded, printed, handled,
            failed, daemonSpent>>
chainVars == <<vars, daemon>>

ChainInit == Init /\ Daemon!Init

SetupStep == Next /\ UNCHANGED daemon

(* All the sidecar may meet, but that the token and the secret change by   *)
(* the hand of a run and of the administrator only.                        *)
DaemonStep == (Daemon!Main \/ Daemon!Events) /\ UNCHANGED vars

ChainNext == SetupStep \/ DaemonStep
ChainSpec == ChainInit /\ [][ChainNext]_chainVars

(* Each part keeps the fairness it has alone; an administrator who was told *)
(* a token saves it.                                                       *)
ChainFairSpec ==
    /\ ChainSpec
    /\ \A r \in Runs : /\ WF_chainVars(UNCHANGED daemon /\ Step(r))
                       /\ WF_chainVars(UNCHANGED daemon /\ TaskStep(r))
                       /\ WF_chainVars(UNCHANGED daemon /\ Save(r))
    /\ WF_chainVars(UNCHANGED vars /\ Daemon!Main)
    /\ WF_chainVars(UNCHANGED vars /\ Daemon!Reload)

-----------------------------------------------------------------------------
Undisturbed == ~crossed /\ \A r \in Runs : run[r].lost = {} /\ ~At(r, "killed")

(* Whatever fails and however runs overlap, the sidecar is refused only     *)
(* because it is late: it never asks with a token that vCenter does not     *)
(* accept yet, and a refusal that it makes the list came to a token that    *)
(* has been replaced for good.                                             *)
Updating == pc \in {"create", "write", "rename", "chmod"}
RefusedOnlyLate ==
    Updating => /\ token \in {Initial} \cup {r \in Runs : task[r] = "success"}
                /\ hash = Refusal => token # accepted

(* At every rest of the sidecar at which it has the token of the secret, the *)
(* list is the one vCenter serves, when the runs of the setup are all       *)
(* settled, did not cross each other, no call of theirs failed and none was *)
(* killed; as long as no call of the sidecar failed either and vCenter      *)
(* serves what it did.  Deaths of the sidecar are no exception.             *)
Delivered ==
    (/\ Undisturbed /\ \A r \in Runs : Settled(r)
     /\ daemonSpent["fault"] = 0 /\ daemonSpent["change"] = 0
     /\ pc \in {"sleep", "print"} /\ token = secret)
    => file = [text |-> vc, readable |-> TRUE]

(* From the setup to Prometheus: when vCenter serves the same list for good, *)
(* runs do not cross each other, no call of theirs fails and none is killed, *)
(* Prometheus comes to scrape that list and keeps to it, however many runs   *)
(* have replaced the token, and whatever the sidecar was doing when they did, *)
(* unless it was told to stop.                                               *)
RotationSurvived ==
    \A t \in Texts \cap Lists :
       ([]Undisturbed /\ <>[](vc = t /\ ~failed /\ ~handled)) => <>[](loaded = t)

=============================================================================

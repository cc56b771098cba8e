----------------------------- MODULE TokenSetup -----------------------------
(***************************************************************************)
(* vsan-prometheus-setup: a command that gives a cluster a new metrics     *)
(* token.  A run asks vCenter to reconfigure the cluster, waits for the    *)
(* task through a property collector, looks at its final state and prints  *)
(* the token; administrators may have several runs going, and put what is  *)
(* printed into the secret.  A token is named by the run that generated it. *)
(*                                                                         *)
(* A step is one call to vCenter with what follows it; vCenter works on a  *)
(* task between any two of them.                                           *)
(***************************************************************************)
EXTENDS Naturals

CONSTANTS
    Runs,    \* runs of the command
    Initial, \* the token that was accepted before
    None,
    Bound    \* how often the environment may do each of Kinds

Kinds == {"fault", "reject", "kill"}
Sites == {"esx", "noCluster", "unsupported", "ready"}
Tokens == Runs \cup {Initial}
TaskStates == {"queued", "running", "success", "error"}

ASSUME RunsAssumption == Initial \notin Runs
ASSUME NoneAssumption == None \notin TaskStates
ASSUME BoundAssumption == Bound \in [Kinds -> Nat]

VARIABLES
    site,     \* what the administrator's arguments name
    accepted, \* the token in the cluster's metrics configuration
    task,     \* run |-> the state of its task in vCenter
    session,  \* the runs that are logged in
    filter,   \* the runs with a filter in vCenter's property collector
    run,      \* run |-> its local state
    secret,   \* the token in the secret
    saved,    \* the runs whose token was put there
    crossed,  \* history: a run asked for its token before another was settled
    spent     \* how often the environment did each of Kinds

vcenter == <<accepted, task, crossed>>
admin == <<secret, saved>>
vars == <<site, vcenter, session, filter, run, admin, spent>>

(* A run holds: pc; seen, what the version of its last update stands for;  *)
(* update, the name and value of the change it has been given; raised, an  *)
(* exception is on its way through the finally; told, what it has printed. *)
(* As history: lost, the stages at which a call of it failed.               *)
Fresh == [pc |-> "new", seen |-> None, update |-> None, raised |-> FALSE,
          told |-> "nothing", lost |-> {}]
NoChange == [name |-> "info.progress", state |-> None]
Info(s) == [name |-> "info", state |-> s]
InfoState(s) == [name |-> "info.state", state |-> s]

Spend(k) == /\ spent[k] < Bound[k]
            /\ spent' = [spent EXCEPT ![k] = @ + 1]
Paid == UNCHANGED spent

At(r, s) == run[r].pc = s
Local(r, e) == run' = [run EXCEPT ![r] = e]
Goto(e, s) == [e EXCEPT !.pc = s]
Tell(e, what) == [e EXCEPT !.pc = "leave", !.told = what]
Lose(e) == [e EXCEPT !.lost = @ \cup {e.pc}]

(* A call that fails may have had its effect.                              *)
MayHold(S, r) == {S, S \cup {r}}
MayLack(S, r) == {S, S \ {r}}

(* A run's task is over, and so is the run; its token is in the secret if it *)
(* told one.                                                               *)
Settled(r) ==
    task[r] # None => /\ task[r] \in {"success", "error"}
                      /\ run[r].pc \in {"over", "killed"}
                      /\ run[r].told = "token" => r \in saved
Queue(r) == /\ task' = [task EXCEPT ![r] = "queued"]
            /\ crossed' = (crossed \/ \E q \in Runs \ {r} : ~Settled(q))

Init ==
    /\ site \in Sites
    /\ accepted = Initial
    /\ task = [r \in Runs |-> None]
    /\ session = {}
    /\ filter = {}
    /\ run = [r \in Runs |-> Fresh]
    /\ secret = Initial /\ saved = {} /\ crossed = FALSE
    /\ spent = [k \in Kinds |-> 0]

-----------------------------------------------------------------------------
(* main, up to the try.  An exception ends the process here; whoever has   *)
(* logged in logs out at exit.                                             *)
Connect(r) ==
    /\ At(r, "new")
    /\ \/ Local(r, Goto(run[r], "about")) /\ session' = session \cup {r} /\ Paid
       \/ /\ Local(r, Goto(Lose(run[r]), "over")) /\ Spend("fault")
          /\ session' \in MayHold(session, r)
    /\ UNCHANGED <<site, vcenter, filter, admin>>

(* One question to vCenter; the answer may end the run.                    *)
Ask(r, stage, obstacle, next) ==
    /\ At(r, stage)
    /\ \/ /\ Local(r, IF site = obstacle THEN Tell(run[r], "refusal") ELSE Goto(run[r], next))
          /\ Paid
       \/ Local(r, Goto(Lose(run[r]), "leave")) /\ Spend("fault")
    /\ UNCHANGED <<site, vcenter, session, filter, admin>>
CheckAbout(r) == Ask(r, "about", "esx", "find")
GetClusterInstance(r) == Ask(r, "find", "noCluster", "capability")
CheckVsanCapability(r) == Ask(r, "capability", "unsupported", "reconfigure")

-----------------------------------------------------------------------------
(* SetUpMetricToken.  Any exception is reported as a failure.              *)

(* Mutant: the token is printed as soon as the task exists.                *)
ReconfigureExNoWait(r) ==
    /\ At(r, "reconfigure")
    /\ Queue(r)
    /\ Local(r, Tell(run[r], "token"))
    /\ UNCHANGED <<site, accepted, session, filter, admin, spent>>

(* Mutant: the run goes on to wait when the call has failed.               *)
ReconfigureExUnchecked(r) ==
    /\ At(r, "reconfigure")
    /\ \/ Queue(r) /\ Paid
       \/ Spend("fault") /\ UNCHANGED <<task, crossed>>
    /\ Local(r, Goto(run[r], "filter"))
    /\ UNCHANGED <<site, accepted, session, filter, admin>>

ReconfigureEx(r) ==
    /\ At(r, "reconfigure")
    /\ \/ Queue(r) /\ Local(r, Goto(run[r], "filter")) /\ Paid
       \/ /\ Queue(r) \/ UNCHANGED <<task, crossed>>
          /\ Local(r, Tell(Lose(run[r]), "failure")) /\ Spend("fault")
    /\ UNCHANGED <<site, accepted, session, filter, admin>>

CreateFilter(r) ==
    /\ At(r, "filter")
    /\ \/ Local(r, Goto(run[r], "wait")) /\ filter' = filter \cup {r} /\ Paid
       \/ /\ Local(r, Tell(Lose(run[r]), "failure")) /\ Spend("fault")
          /\ filter' \in MayHold(filter, r)
    /\ UNCHANGED <<site, vcenter, session, admin>>

(* Without a version the collector answers at once with all there is; with *)
(* one, when something has changed since, however many changes that were.  *)
WaitForUpdates(r) ==
    /\ At(r, "wait")
    /\ \/ /\ \E u \in IF run[r].seen = None THEN {Info(task[r])}
                      ELSE IF task[r] # run[r].seen THEN {InfoState(task[r])}
                      ELSE IF task[r] = "running" THEN {NoChange} ELSE {} :
                Local(r, [run[r] EXCEPT !.pc = "handle", !.update = u, !.seen = task[r]])
          /\ Paid
       \/ /\ Local(r, [Lose(run[r]) EXCEPT !.pc = "destroy", !.raised = TRUE])
          /\ Spend("fault")
    /\ UNCHANGED <<site, vcenter, session, filter, admin>>

(* Mutant: only the first update, which has the whole info, is looked at.  *)
HandleUpdateInfoOnly(r) ==
    /\ At(r, "handle")
    /\ Local(r, [run[r] EXCEPT
                   !.pc = IF run[r].update \in {Info("success"), Info("error")}
                          THEN "destroy" ELSE "wait",
                   !.raised = run[r].update = Info("error"),
                   !.update = None])
    /\ UNCHANGED <<site, vcenter, session, filter, admin, spent>>

(* Mutant: whatever is not success counts as an error.                     *)
HandleUpdateHasty(r) ==
    /\ At(r, "handle")
    /\ Local(r, [run[r] EXCEPT
                   !.pc = IF run[r].update = NoChange THEN "wait" ELSE "destroy",
                   !.raised = run[r].update.state \notin {None, "success"},
                   !.update = None])
    /\ UNCHANGED <<site, vcenter, session, filter, admin, spent>>

HandleUpdate(r) ==
    /\ At(r, "handle")
    /\ Local(r, [run[r] EXCEPT
                   !.pc = IF run[r].update.state \in {"success", "error"}
                          THEN "destroy" ELSE "wait",
                   !.raised = run[r].update.state = "error",
                   !.update = None])
    /\ UNCHANGED <<site, vcenter, session, filter, admin, spent>>

(* Mutant: the filter is destroyed after the wait and not in a finally.     *)
DestroyFilterAfter(r) ==
    /\ At(r, "destroy")
    /\ \/ /\ run[r].raised /\ Local(r, Tell(run[r], "failure"))
          /\ UNCHANGED filter /\ Paid
       \/ /\ ~run[r].raised /\ Local(r, Goto(run[r], "check"))
          /\ filter' = filter \ {r} /\ Paid
       \/ /\ ~run[r].raised /\ Local(r, Tell(Lose(run[r]), "failure")) /\ Spend("fault")
          /\ filter' \in MayLack(filter, r)
    /\ UNCHANGED <<site, vcenter, session, admin>>

DestroyFilter(r) ==
    /\ At(r, "destroy")
    /\ \/ /\ Local(r, IF run[r].raised THEN Tell(run[r], "failure") ELSE Goto(run[r], "check"))
          /\ filter' = filter \ {r} /\ Paid
       \/ /\ Local(r, Tell(Lose(run[r]), "failure")) /\ Spend("fault")
          /\ filter' \in MayLack(filter, r)
    /\ UNCHANGED <<site, vcenter, session, admin>>

CheckState(r) ==
    /\ At(r, "check")
    /\ \/ Local(r, Tell(run[r], IF task[r] = "success" THEN "token" ELSE "failure")) /\ Paid
       \/ Local(r, Tell(Lose(run[r]), "failure")) /\ Spend("fault")
    /\ UNCHANGED <<site, vcenter, session, filter, admin>>

-----------------------------------------------------------------------------
(* At exit.  The filters of a session go with it; a logout that fails is   *)
(* ignored.                                                                *)
Disconnect(r) ==
    /\ At(r, "leave")
    /\ \/ /\ Local(r, Goto(run[r], "over"))
          /\ session' = session \ {r} /\ filter' = filter \ {r} /\ Paid
       \/ /\ Local(r, Goto(Lose(run[r]), "over")) /\ Spend("fault")
          /\ UNCHANGED <<session, filter>>
    /\ UNCHANGED <<site, vcenter, admin>>

-----------------------------------------------------------------------------
(* The process is killed, which leaves its session to expire.              *)
Kill(r) ==
    /\ run[r].pc \notin {"new", "over", "killed"}
    /\ Spend("kill")
    /\ Local(r, Goto(run[r], "killed"))
    /\ UNCHANGED <<site, vcenter, session, filter, admin>>
Expire(r) ==
    /\ r \in session /\ run[r].pc \in {"over", "killed"}
    /\ session' = session \ {r} /\ filter' = filter \ {r}
    /\ UNCHANGED <<site, vcenter, run, admin, spent>>

(* vCenter's side of a task.  With it the profiles of the cluster become   *)
(* the one that was asked for: the token before is accepted no more.       *)
TaskRuns(r) ==
    /\ task[r] = "queued"
    /\ task' = [task EXCEPT ![r] = "running"]
    /\ UNCHANGED <<site, accepted, crossed, session, filter, run, admin, spent>>
TaskSucceeds(r) ==
    /\ task[r] = "running"
    /\ task' = [task EXCEPT ![r] = "success"]
    /\ accepted' = r
    /\ UNCHANGED <<site, crossed, session, filter, run, admin, spent>>
TaskFails(r) ==
    /\ task[r] \in {"queued", "running"}
    /\ Spend("reject")
    /\ task' = [task EXCEPT ![r] = "error"]
    /\ UNCHANGED <<site, accepted, crossed, session, filter, run, admin>>

(* The administrator keeps each token he is told.                          *)
Save(r) ==
    /\ run[r].told = "token" /\ r \notin saved
    /\ secret' = r
    /\ saved' = saved \cup {r}
    /\ UNCHANGED <<site, vcenter, session, filter, run, spent>>

-----------------------------------------------------------------------------
Step(r) == \/ CheckAbout(r) \/ GetClusterInstance(r) \/ CheckVsanCapability(r)
           \/ ReconfigureEx(r) \/ CreateFilter(r) \/ WaitForUpdates(r)
           \/ HandleUpdate(r) \/ DestroyFilter(r) \/ CheckState(r) \/ Disconnect(r)
TaskStep(r) == TaskRuns(r) \/ TaskSucceeds(r) \/ TaskFails(r)

Next == \E r \in Runs : \/ Connect(r) \/ Step(r) \/ Kill(r) \/ Expire(r)
                        \/ TaskStep(r) \/ Save(r)
Spec == Init /\ [][Next]_vars

(* A run goes on until it ends, and vCenter ends each task.                *)
FairSpec == Spec /\ \A r \in Runs : WF_vars(Step(r)) /\ WF_vars(TaskStep(r))

-----------------------------------------------------------------------------
Stages == {"new", "about", "find", "capability", "reconfigure", "filter", "wait",
           "handle", "destroy", "check", "leave", "over", "killed"}
Update == {NoChange} \cup [name : {"info", "info.state"}, state : TaskStates]

RunState == [pc : Stages, seen : TaskStates \cup {None}, update : Update \cup {None},
             raised : BOOLEAN, told : {"nothing", "refusal", "failure", "token"},
             lost : SUBSET Stages]

(* The variables have their types; a run has a session from its login to    *)
(* its logout, and a task, with a state, while it waits for one.            *)
TypeOK ==
    /\ site \in Sites
    /\ accepted \in Tokens
    /\ task \in [Runs -> TaskStates \cup {None}]
    /\ session \subseteq Runs /\ filter \subseteq Runs
    /\ run \in [Runs -> RunState]
    /\ secret \in Tokens /\ saved \subseteq Runs
    /\ crossed \in BOOLEAN
    /\ spent \in [Kinds -> Nat]
    /\ \A r \in Runs :
          /\ run[r].pc \in {"wait", "handle", "destroy", "check"} => task[r] # None
          /\ run[r].pc \in Stages \ {"new", "over", "killed"} => r \in session
          /\ run[r].pc = "handle" => run[r].update \in Update

(* A run that ended has told its token if vCenter accepted it, unless one   *)
(* of its own calls failed: an administrator is never left with a token he  *)
(* does not know by the order of a task's updates alone.                    *)
UntoldJustified ==
    \A r \in Runs : (At(r, "over") /\ task[r] = "success" /\ run[r].told # "token")
                    => run[r].lost # {}

(* However a run comes to its end, and whichever of its other calls failed,  *)
(* a logout that is answered leaves neither its session nor its filter; and *)
(* the finally of the wait has removed the filter before that, whether the  *)
(* wait ended well, with the error of the task or by an unanswered call.    *)
NothingLeft ==
    \A r \in Runs :
       /\ (At(r, "over") /\ run[r].lost \cap {"new", "leave"} = {}) => r \notin session \cup filter
       /\ (run[r].pc \in {"check", "leave", "over"} /\ run[r].lost \cap {"filter", "destroy"} = {})
          => r \notin filter

(* When every run that asked for a token is settled, and none asked before   *)
(* another one was, the secret has the token vCenter accepts, or that is    *)
(* the token of a run that was killed or failed on one of its calls.        *)
SecretCurrent ==
    (~crossed /\ \A r \in Runs : Settled(r)) =>
       \/ secret = accepted
       \/ /\ accepted \in Runs \ saved
          /\ run[accepted].lost # {} \/ At(accepted, "killed")

(* Overlapping runs, failures and all, the command does what TokenGrant     *)
(* says; above all, a token is printed only after vCenter accepted it.      *)
Saying(what) == {r \in Runs : run[r].told = what}
Abstract == INSTANCE TokenGrant WITH
    granted <- {r \in Runs : task[r] = "success"},
    told <- Saying("token"), failed <- Saying("failure")
RefinesGrant == Abstract!Spec

(* A run that has begun comes to its end, whether its task ends before the  *)
(* wait, during it, or between two updates.                                 *)
SetupEnds == \A r \in Runs : ~At(r, "new") ~> run[r].pc \in {"over", "killed"}

=============================================================================

-------------------------- MODULE TokenSetupProofs --------------------------
(* Theorems about TokenSetup, for any number of overlapping runs.            *)
EXTENDS TokenSetup, TLAPS

Before == {"new", "about", "find", "capability", "reconfigure"}
Waiting == {"filter", "wait", "handle", "destroy", "check"}

Types ==
    /\ site \in Sites
    /\ accepted \in Tokens
    /\ task \in [Runs -> TaskStates \cup {None}]
    /\ session \subseteq Runs /\ filter \subseteq Runs
    /\ run \in [Runs -> RunState]
    /\ secret \in Tokens /\ saved \subseteq Runs
    /\ crossed \in BOOLEAN
    /\ spent \in [Kinds -> Nat]

(* What one run, in state e and with its task in state s, knows of its task  *)
(* and has said of it; inS and inF, whether vCenter has its session and its *)
(* filter.                                                                 *)
Knows(e, s) ==
    /\ e.pc \in Before => s = None
    /\ e.pc \in Waiting => s # None
    /\ e.pc \in Before \cup Waiting => e.told = "nothing"
    /\ e.pc = "handle" => /\ e.update \in Update
                          /\ e.update.state \in {"success", "error"} => s = e.update.state
    /\ e.pc = "destroy" => IF e.raised THEN s = "error" \/ e.lost # {} ELSE s = "success"
    /\ e.pc = "check" => s = "success"
    /\ e.told = "token" => s = "success"
    /\ e.told = "failure" => s = "error" \/ e.lost # {}
    /\ (e.pc \in {"leave", "over"} /\ e.told \in {"nothing", "refusal"}) => s = None
Holds(e, inS, inF) ==
    /\ e.pc \in Stages \ {"new", "over", "killed"} => inS
    /\ (e.pc = "over" /\ e.lost \cap {"new", "leave"} = {}) => ~inS /\ ~inF
    /\ e.pc \in Before \cup {"filter"} => ~inF
    /\ (e.pc \in {"check", "leave", "over"} /\ e.lost \cap {"filter", "destroy"} = {}) => ~inF

RunsInv == \A r \in Runs : /\ Knows(run[r], task[r])
                           /\ Holds(run[r], r \in session, r \in filter)

(* While no two runs cross, at most one is unsettled; if vCenter has         *)
(* accepted its token, that is the accepted one; and the accepted token is  *)
(* in the secret unless nobody saved it.                                    *)
SecretInv ==
    /\ \A r \in saved : run[r].told = "token"
    /\ accepted \in Runs => task[accepted] = "success"
    /\ ~crossed =>
         /\ \A p, q \in Runs : Settled(p) \/ Settled(q) \/ p = q
         /\ \A r \in Runs : Settled(r) \/ task[r] # "success" \/ accepted = r
         /\ secret = accepted \/ accepted \in Runs \ saved

IInv == Types /\ RunsInv /\ SecretInv

-----------------------------------------------------------------------------
LEMMA InitIInv == Init => IInv
  <1> SUFFICES ASSUME Init PROVE IInv
    OBVIOUS
  <1>1. Fresh \in RunState
    BY DEF Fresh, RunState, Stages
  <1>2. Types
    BY <1>1 DEF Init, Types, Tokens, Kinds
  <1>3. RunsInv
    BY NoneAssumption DEF Init, RunsInv, Knows, Holds, Fresh, Before, Waiting, TaskStates
  <1>4. SecretInv
    BY RunsAssumption DEF Init, SecretInv, Settled
  <1>5. QED BY <1>2, <1>3, <1>4 DEF IInv

LEMMA SpendTypes ==
    ASSUME NEW k \in Kinds, spent \in [Kinds -> Nat], Spend(k) \/ UNCHANGED spent
    PROVE  spent' \in [Kinds -> Nat]
  BY DEF Spend

(* One run takes a step: its new state has its type and knows what the state *)
(* of its task allows, and the others are untouched.                        *)
LEMMA OneRun ==
    ASSUME IInv, NEW r \in Runs, NEW e \in RunState, NEW s \in TaskStates \cup {None},
           run' = [run EXCEPT ![r] = e], task' = [task EXCEPT ![r] = s],
           session' \in {session, session \cup {r}, session \ {r}},
           filter' \in {filter, filter \cup {r}, filter \ {r}},
           Knows(e, s), Holds(e, r \in session', r \in filter')
    PROVE  /\ RunsInv' /\ run' \in [Runs -> RunState]
           /\ task' \in [Runs -> TaskStates \cup {None}]
           /\ session' \subseteq Runs /\ filter' \subseteq Runs
           /\ run'[r] = e /\ task'[r] = s
           /\ \A q \in Runs \ {r} : run'[q] = run[q] /\ task'[q] = task[q]
  <1>1. /\ run' \in [Runs -> RunState] /\ task' \in [Runs -> TaskStates \cup {None}]
        /\ session' \subseteq Runs /\ filter' \subseteq Runs
    BY DEF IInv, Types
  <1>2. /\ run'[r] = e /\ task'[r] = s
        /\ \A q \in Runs \ {r} : run'[q] = run[q] /\ task'[q] = task[q]
    BY DEF IInv, Types
  <1>3. ASSUME NEW q \in Runs
        PROVE  Knows(run'[q], task'[q]) /\ Holds(run'[q], q \in session', q \in filter')
    <2>1. CASE q = r
      BY <1>2, <2>1
    <2>2. CASE q # r
      <3>1. /\ run'[q] = run[q] /\ task'[q] = task[q]
            /\ (q \in session') = (q \in session) /\ (q \in filter') = (q \in filter)
        BY <1>2, <2>2
      <3>2. Knows(run[q], task[q]) /\ Holds(run[q], q \in session, q \in filter)
        BY DEF IInv, RunsInv
      <3>3. QED BY <3>1, <3>2
    <2>3. QED BY <2>1, <2>2
  <1>4. RunsInv'
    BY <1>3 DEF RunsInv
  <1>5. QED BY <1>1, <1>2, <1>4

(* A step of a run that leaves the tasks and the secret alone settles no run *)
(* that was, and unsettles none.                                            *)
LEMMA SecretKept ==
    ASSUME IInv, NEW r \in Runs, UNCHANGED <<vcenter, admin>>,
           \A q \in Runs \ {r} : run'[q] = run[q],
           run[r].pc \notin {"over", "killed"} \/ run'[r] = run[r],
           run[r].told # "token" \/ run'[r].told = run[r].told
    PROVE  SecretInv'
  <1>1. ASSUME NEW q \in Runs, Settled(q) PROVE Settled(q)'
    BY <1>1 DEF Settled, vcenter, admin
  <1>2. QED BY <1>1 DEF IInv, Types, SecretInv, vcenter, admin

LEMMA QuietStep ==
    ASSUME IInv, NEW r \in Runs, NEW e \in RunState, Local(r, e),
           run[r].pc \notin {"over", "killed"},
           run[r].told # "token" \/ e.told = "token",
           session' \in {session, session \cup {r}, session \ {r}},
           filter' \in {filter, filter \cup {r}, filter \ {r}},
           Knows(e, task[r]), Holds(e, r \in session', r \in filter'),
           UNCHANGED <<site, vcenter, admin>>,
           Paid \/ \E k \in Kinds : Spend(k)
    PROVE  IInv'
  <1>1. task[r] \in TaskStates \cup {None} /\ task' = [task EXCEPT ![r] = task[r]]
    BY DEF IInv, Types, vcenter
  <1>2. /\ RunsInv' /\ run' \in [Runs -> RunState]
        /\ task' \in [Runs -> TaskStates \cup {None}]
        /\ session' \subseteq Runs /\ filter' \subseteq Runs
        /\ run'[r] = e /\ \A q \in Runs \ {r} : run'[q] = run[q]
    BY <1>1, OneRun DEF Local
  <1>3. spent' \in [Kinds -> Nat]
    BY SpendTypes DEF IInv, Types, Paid
  <1>4. SecretInv'
    BY <1>2, SecretKept
  <1>5. Types'
    BY <1>2, <1>3 DEF IInv, Types, vcenter, admin
  <1>6. QED BY <1>2, <1>4, <1>5 DEF IInv

(* What IInv says of the run that takes a step.                              *)
LEMMA OfRun ==
    ASSUME IInv, NEW r \in Runs
    PROVE  /\ run[r] \in RunState /\ task[r] \in TaskStates \cup {None}
           /\ Knows(run[r], task[r])
           /\ Holds(run[r], r \in session, r \in filter)
  BY DEF IInv, Types, RunsInv

(* The three ways to go on keep the type of a run.                          *)
LEMMA Moves ==
    ASSUME NEW e \in RunState, NEW s \in Stages,
           NEW w \in {"nothing", "refusal", "failure", "token"}
    PROVE  Goto(e, s) \in RunState /\ Tell(e, w) \in RunState /\ Lose(e) \in RunState
  <1>1. Goto(e, s) \in RunState
    BY DEF Goto, RunState
  <1>2. Tell(e, w) \in RunState
    BY DEF Tell, RunState, Stages
  <1>3. Lose(e) \in RunState
    BY DEF Lose, RunState
  <1>4. QED BY <1>1, <1>2, <1>3

LEMMA ConnectKeeps == ASSUME IInv, NEW r \in Runs, Connect(r) PROVE IInv'
  <1> USE OfRun
  <1>1. CASE Local(r, Goto(run[r], "about")) /\ session' = session \cup {r} /\ Paid
    <2> DEFINE e == Goto(run[r], "about")
    <2>1. e \in RunState
      BY Moves DEF Stages
    <2>2. Knows(e, task[r]) /\ Holds(e, r \in session', r \in filter')
      BY <1>1 DEF Connect, At, Goto, Knows, Holds, Before, Waiting, RunState
    <2>3. QED BY <1>1, <2>1, <2>2, QuietStep DEF Connect, At, Goto, RunState, Knows, Before
  <1>2. CASE /\ Local(r, Goto(Lose(run[r]), "over")) /\ Spend("fault")
             /\ session' \in MayHold(session, r)
    <2> DEFINE e == Goto(Lose(run[r]), "over")
    <2>1. e \in RunState
      BY Moves DEF Stages
    <2>2. Knows(e, task[r]) /\ Holds(e, r \in session', r \in filter')
      BY <1>2 DEF Connect, At, Goto, Lose, Knows, Holds, Before, Waiting, RunState
    <2>3. QED BY <1>2, <2>1, <2>2, QuietStep
              DEF Connect, At, Goto, Lose, RunState, Knows, Before, MayHold, Kinds
  <1>3. QED BY <1>1, <1>2 DEF Connect

(* The three questions.                                                      *)
LEMMA AskKeeps ==
    ASSUME IInv, NEW r \in Runs, NEW stage \in Before \ {"new", "reconfigure"},
           NEW obstacle, NEW next \in Before \ {"new"}, Ask(r, stage, obstacle, next)
    PROVE  IInv'
  <1> USE OfRun
  <1>1. CASE Local(r, Tell(run[r], "refusal")) /\ Paid
    <2> DEFINE e == Tell(run[r], "refusal")
    <2>1. e \in RunState
      BY Moves DEF Stages
    <2>2. Knows(e, task[r]) /\ Holds(e, r \in session', r \in filter')
      BY DEF Ask, At, Tell, Knows, Holds, Before, Waiting, RunState, Stages
    <2>3. QED BY <1>1, <2>1, <2>2, QuietStep DEF Ask, At, Tell, RunState, Knows, Before
  <1>2. CASE Local(r, Goto(run[r], next)) /\ Paid
    <2> DEFINE e == Goto(run[r], next)
    <2>1. e \in RunState
      BY Moves DEF Stages, Before
    <2>2. Knows(e, task[r]) /\ Holds(e, r \in session', r \in filter')
      BY DEF Ask, At, Goto, Knows, Holds, Before, Waiting, RunState, Stages
    <2>3. QED BY <1>2, <2>1, <2>2, QuietStep DEF Ask, At, Goto, RunState, Knows, Before
  <1>3. CASE Local(r, Goto(Lose(run[r]), "leave")) /\ Spend("fault")
    <2> DEFINE e == Goto(Lose(run[r]), "leave")
    <2>1. e \in RunState
      BY Moves DEF Stages
    <2>2. Knows(e, task[r]) /\ Holds(e, r \in session', r \in filter')
      BY DEF Ask, At, Goto, Lose, Knows, Holds, Before, Waiting, RunState, Stages
    <2>3. QED BY <1>3, <2>1, <2>2, QuietStep DEF Ask, At, Goto, Lose, RunState, Knows, Before, Kinds
  <1>4. QED BY <1>1, <1>2, <1>3 DEF Ask

LEMMA QuestionsKeep ==
    ASSUME IInv, NEW r \in Runs, CheckAbout(r) \/ GetClusterInstance(r) \/ CheckVsanCapability(r)
    PROVE  IInv'
  BY AskKeeps DEF CheckAbout, GetClusterInstance, CheckVsanCapability, Before

LEMMA CreateFilterKeeps == ASSUME IInv, NEW r \in Runs, CreateFilter(r) PROVE IInv'
  <1> USE OfRun
  <1>1. CASE Local(r, Goto(run[r], "wait")) /\ filter' = filter \cup {r} /\ Paid
    <2> DEFINE e == Goto(run[r], "wait")
    <2>1. e \in RunState
      BY Moves DEF Stages
    <2>2. Knows(e, task[r]) /\ Holds(e, r \in session', r \in filter')
      BY DEF CreateFilter, At, Goto, Knows, Holds, Before, Waiting, RunState, Stages
    <2>3. QED BY <1>1, <2>1, <2>2, QuietStep DEF CreateFilter, At, Goto, RunState, Knows, Waiting
  <1>2. CASE /\ Local(r, Tell(Lose(run[r]), "failure")) /\ Spend("fault")
             /\ filter' \in MayHold(filter, r)
    <2> DEFINE e == Tell(Lose(run[r]), "failure")
    <2>1. e \in RunState
      BY Moves DEF Stages
    <2>2. Knows(e, task[r]) /\ Holds(e, r \in session', r \in filter')
      BY DEF CreateFilter, At, Tell, Lose, Knows, Holds, Before, Waiting, RunState, Stages
    <2>3. QED BY <1>2, <2>1, <2>2, QuietStep
              DEF CreateFilter, At, Tell, Lose, RunState, Knows, Waiting, MayHold, Kinds
  <1>3. QED BY <1>1, <1>2 DEF CreateFilter

LEMMA WaitForUpdatesKeeps == ASSUME IInv, NEW r \in Runs, WaitForUpdates(r) PROVE IInv'
  <1> USE OfRun
  <1>0. task[r] \in TaskStates /\ run[r].pc = "wait"
    BY DEF WaitForUpdates, At, Knows, Waiting
  <1>1. ASSUME NEW u \in {Info(task[r]), InfoState(task[r]), NoChange},
               Local(r, [run[r] EXCEPT !.pc = "handle", !.update = u, !.seen = task[r]]), Paid
        PROVE  IInv'
    <2> DEFINE e == [run[r] EXCEPT !.pc = "handle", !.update = u, !.seen = task[r]]
    <2>1. u \in Update /\ (u.state \in {"success", "error"} => task[r] = u.state)
      <3>1. CASE u = NoChange
        BY <3>1, NoneAssumption DEF NoChange, Update, TaskStates
      <3>2. CASE u \in {Info(task[r]), InfoState(task[r])}
        BY <3>2, <1>0 DEF Info, InfoState, Update
      <3>3. QED BY <3>1, <3>2
    <2>2. e \in RunState
      <3>1. run[r] \in RunState /\ u \in Update \cup {None} /\ task[r] \in TaskStates \cup {None}
        BY <1>0, <2>1
      <3>2. QED BY <3>1 DEF RunState, Stages
    <2>3. Knows(e, task[r]) /\ Holds(e, r \in session', r \in filter')
      BY <1>0, <2>1 DEF WaitForUpdates, Knows, Holds, Before, Waiting, RunState, Stages
    <2>4. QED BY <1>0, <1>1, <2>2, <2>3, QuietStep DEF WaitForUpdates, RunState, Knows, Waiting
  <1>2. CASE /\ Local(r, [Lose(run[r]) EXCEPT !.pc = "destroy", !.raised = TRUE])
             /\ Spend("fault")
    <2> DEFINE e == [Lose(run[r]) EXCEPT !.pc = "destroy", !.raised = TRUE]
    <2>1. e \in RunState
      BY DEF Lose, RunState, Stages
    <2>2. Knows(e, task[r]) /\ Holds(e, r \in session', r \in filter')
      BY <1>0 DEF WaitForUpdates, Lose, Knows, Holds, Before, Waiting, RunState, Stages
    <2>3. QED BY <1>0, <1>2, <2>1, <2>2, QuietStep
              DEF WaitForUpdates, Lose, RunState, Knows, Waiting, Kinds
  <1>3. QED BY <1>1, <1>2 DEF WaitForUpdates

LEMMA HandleUpdateKeeps == ASSUME IInv, NEW r \in Runs, HandleUpdate(r) PROVE IInv'
  <1> USE OfRun
  <1> DEFINE e == [run[r] EXCEPT
                     !.pc = IF run[r].update.state \in {"success", "error"} THEN "destroy" ELSE "wait",
                     !.raised = run[r].update.state = "error",
                     !.update = None]
  <1>0. run[r].pc = "handle" /\ Local(r, e)
    BY DEF HandleUpdate, At
  <1>1. e \in RunState
    <2>1. (run[r].update.state = "error") \in BOOLEAN
      OBVIOUS
    <2>2. (IF run[r].update.state \in {"success", "error"} THEN "destroy" ELSE "wait") \in Stages
      BY DEF Stages
    <2>3. QED BY <2>1, <2>2 DEF RunState
  <1>2. Knows(e, task[r]) /\ Holds(e, r \in session', r \in filter')
    <2>1. /\ e.told = run[r].told /\ e.lost = run[r].lost
          /\ e.pc = IF run[r].update.state \in {"success", "error"} THEN "destroy" ELSE "wait"
          /\ e.raised = (run[r].update.state = "error")
      BY DEF RunState
    <2>2. /\ run[r].told = "nothing" /\ task[r] # None /\ r \in session
          /\ run[r].update.state \in {"success", "error"} => task[r] = run[r].update.state
      BY <1>0 DEF Knows, Holds, Waiting, Stages
    <2>3. session' = session
      BY DEF HandleUpdate
    <2> HIDE DEF e
    <2>4. Knows(e, task[r])
      BY <2>1, <2>2 DEF Knows, Before, Waiting
    <2>5. e.pc \in {"destroy", "wait"}
      BY <2>1
    <2>6. QED BY <2>2, <2>3, <2>4, <2>5 DEF Holds, Before
  <1>3. e.told = run[r].told /\ run[r].pc \notin {"over", "killed"}
    BY <1>0 DEF RunState
  <1>4. UNCHANGED <<site, vcenter, session, filter, admin, spent>>
    BY DEF HandleUpdate
  <1> HIDE DEF e
  <1>5. QED BY <1>0, <1>1, <1>2, <1>3, <1>4, QuietStep DEF Paid

LEMMA DestroyFilterKeeps == ASSUME IInv, NEW r \in Runs, DestroyFilter(r) PROVE IInv'
  <1> USE OfRun
  <1>0. run[r].pc = "destroy"
    BY DEF DestroyFilter, At
  <1>1. CASE run[r].raised /\ Local(r, Tell(run[r], "failure")) /\ filter' = filter \ {r} /\ Paid
    <2> DEFINE e == Tell(run[r], "failure")
    <2>1. e \in RunState
      BY Moves DEF Stages
    <2>2. Knows(e, task[r]) /\ Holds(e, r \in session', r \in filter')
      BY <1>0, <1>1 DEF DestroyFilter, Tell, Knows, Holds, Before, Waiting, RunState, Stages
    <2>3. QED BY <1>0, <1>1, <2>1, <2>2, QuietStep DEF DestroyFilter, Tell, RunState, Knows, Waiting
  <1>2. CASE ~run[r].raised /\ Local(r, Goto(run[r], "check")) /\ filter' = filter \ {r} /\ Paid
    <2> DEFINE e == Goto(run[r], "check")
    <2>1. e \in RunState
      BY Moves DEF Stages
    <2>2. Knows(e, task[r]) /\ Holds(e, r \in session', r \in filter')
      BY <1>0, <1>2 DEF DestroyFilter, Goto, Knows, Holds, Before, Waiting, RunState, Stages
    <2>3. QED BY <1>0, <1>2, <2>1, <2>2, QuietStep DEF DestroyFilter, Goto, RunState, Knows, Waiting
  <1>3. CASE /\ Local(r, Tell(Lose(run[r]), "failure")) /\ Spend("fault")
             /\ filter' \in MayLack(filter, r)
    <2> DEFINE e == Tell(Lose(run[r]), "failure")
    <2>1. e \in RunState
      BY Moves DEF Stages
    <2>2. Knows(e, task[r]) /\ Holds(e, r \in session', r \in filter')
      BY <1>0 DEF DestroyFilter, Tell, Lose, Knows, Holds, Before, Waiting, RunState, Stages
    <2>3. QED BY <1>0, <1>3, <2>1, <2>2, QuietStep
              DEF DestroyFilter, Tell, Lose, RunState, Knows, Waiting, MayLack, Kinds
  <1>4. QED BY <1>1, <1>2, <1>3 DEF DestroyFilter

LEMMA CheckStateKeeps == ASSUME IInv, NEW r \in Runs, CheckState(r) PROVE IInv'
  <1> USE OfRun
  <1>0. run[r].pc = "check" /\ task[r] = "success"
    BY DEF CheckState, At, Knows
  <1>1. CASE Local(r, Tell(run[r], "token")) /\ Paid
    <2> DEFINE e == Tell(run[r], "token")
    <2>1. e \in RunState
      BY Moves DEF Stages
    <2>2. Knows(e, task[r]) /\ Holds(e, r \in session', r \in filter')
      BY <1>0 DEF CheckState, Tell, Knows, Holds, Before, Waiting, RunState, Stages
    <2>3. QED BY <1>0, <1>1, <2>1, <2>2, QuietStep DEF CheckState, Tell, RunState
  <1>2. CASE Local(r, Tell(Lose(run[r]), "failure")) /\ Spend("fault")
    <2> DEFINE e == Tell(Lose(run[r]), "failure")
    <2>1. e \in RunState
      BY Moves DEF Stages
    <2>2. Knows(e, task[r]) /\ Holds(e, r \in session', r \in filter')
      BY <1>0 DEF CheckState, Tell, Lose, Knows, Holds, Before, Waiting, RunState, Stages
    <2>3. QED BY <1>0, <1>2, <2>1, <2>2, QuietStep
              DEF CheckState, Tell, Lose, RunState, Knows, Waiting, Kinds
  <1>3. QED BY <1>0, <1>1, <1>2 DEF CheckState

LEMMA DisconnectKeeps == ASSUME IInv, NEW r \in Runs, Disconnect(r) PROVE IInv'
  <1> USE OfRun
  <1>0. run[r].pc = "leave"
    BY DEF Disconnect, At
  <1>1. CASE /\ Local(r, Goto(run[r], "over"))
             /\ session' = session \ {r} /\ filter' = filter \ {r} /\ Paid
    <2> DEFINE e == Goto(run[r], "over")
    <2>1. e \in RunState
      BY Moves DEF Stages
    <2>2. Knows(e, task[r]) /\ Holds(e, r \in session', r \in filter')
      BY <1>0, <1>1 DEF Goto, Knows, Holds, Before, Waiting, RunState, Stages
    <2>3. QED BY <1>0, <1>1, <2>1, <2>2, QuietStep DEF Disconnect, Goto, RunState
  <1>2. CASE Local(r, Goto(Lose(run[r]), "over")) /\ Spend("fault") /\ UNCHANGED <<session, filter>>
    <2> DEFINE e == Goto(Lose(run[r]), "over")
    <2>1. e \in RunState
      BY Moves DEF Stages
    <2>2. Knows(e, task[r]) /\ Holds(e, r \in session', r \in filter')
      BY <1>0, <1>2 DEF Goto, Lose, Knows, Holds, Before, Waiting, RunState, Stages
    <2>3. QED BY <1>0, <1>2, <2>1, <2>2, QuietStep DEF Disconnect, Goto, Lose, RunState, Kinds
  <1>3. QED BY <1>1, <1>2 DEF Disconnect

LEMMA KillKeeps == ASSUME IInv, NEW r \in Runs, Kill(r) PROVE IInv'
  <1> USE OfRun
  <1> DEFINE e == Goto(run[r], "killed")
  <1>1. e \in RunState
    BY DEF Goto, RunState, Stages
  <1>2. Knows(e, task[r]) /\ Holds(e, r \in session', r \in filter')
    BY DEF Goto, Knows, Holds, Before, Waiting, RunState, Stages
  <1>3. QED BY <1>1, <1>2, QuietStep DEF Kill, Goto, RunState, Kinds

-----------------------------------------------------------------------------
(* A task is asked for: it leaves the others settled, or counts as crossing. *)
LEMMA QueueKeeps ==
    ASSUME IInv, NEW r \in Runs, NEW e \in RunState, Local(r, e), Queue(r),
           At(r, "reconfigure"), e.told # "token",
           Knows(e, "queued"), Holds(e, r \in session, r \in filter),
           UNCHANGED <<site, accepted, session, filter, admin>>, Paid \/ Spend("fault")
    PROVE  IInv'
  <1>0. /\ run[r] \in RunState /\ run[r].pc = "reconfigure" /\ run[r].told = "nothing"
        /\ task[r] = None /\ task' = [task EXCEPT ![r] = "queued"]
    BY OfRun DEF At, Knows, Before, Queue
  <1>1. /\ RunsInv' /\ run' \in [Runs -> RunState]
        /\ task' \in [Runs -> TaskStates \cup {None}]
        /\ run'[r] = e /\ task'[r] = "queued"
        /\ \A q \in Runs \ {r} : run'[q] = run[q] /\ task'[q] = task[q]
    BY <1>0, OneRun DEF Local, TaskStates
  <1>2. spent' \in [Kinds -> Nat]
    BY SpendTypes DEF IInv, Types, Paid, Kinds
  <1>3. crossed' \in BOOLEAN
    BY DEF IInv, Types, Queue
  <1>4. Types'
    BY <1>1, <1>2, <1>3 DEF IInv, Types, admin
  <1>5. r \notin saved
    BY <1>0 DEF IInv, SecretInv
  <1>6. SecretInv'
    <2>1. \A q \in saved' : run'[q].told = "token"
      BY <1>1, <1>5 DEF IInv, Types, SecretInv, admin
    <2>2. accepted' \in Runs => task'[accepted'] = "success"
      BY <1>0, <1>1, NoneAssumption DEF IInv, SecretInv, TaskStates
    <2>3. ASSUME ~crossed' PROVE ~crossed /\ \A q \in Runs \ {r} : Settled(q)'
      <3>1. ~crossed /\ \A q \in Runs \ {r} : Settled(q)
        BY <2>3 DEF Queue, IInv, Types
      <3>2. QED BY <3>1, <1>1 DEF Settled, admin
    <2>4. ASSUME ~crossed'
          PROVE  /\ \A p, q \in Runs : Settled(p)' \/ Settled(q)' \/ p = q
                 /\ \A q \in Runs : Settled(q)' \/ task'[q] # "success" \/ accepted' = q
                 /\ secret' = accepted' \/ accepted' \in Runs \ saved'
      BY <2>3, <2>4, <1>1 DEF IInv, SecretInv, admin
    <2>5. QED BY <2>1, <2>4, <2>2 DEF SecretInv
  <1>7. QED BY <1>1, <1>4, <1>6 DEF IInv

LEMMA ReconfigureExKeeps == ASSUME IInv, NEW r \in Runs, ReconfigureEx(r) PROVE IInv'
  <1> USE OfRun
  <1>0. run[r].pc = "reconfigure"
    BY DEF ReconfigureEx, At
  <1>1. CASE Queue(r) /\ Local(r, Goto(run[r], "filter")) /\ Paid
    <2> DEFINE e == Goto(run[r], "filter")
    <2>1. e \in RunState /\ e.told # "token"
      BY <1>0 DEF Goto, RunState, Stages, Knows, Before
    <2>2. Knows(e, "queued") /\ Holds(e, r \in session, r \in filter)
      BY <1>0, NoneAssumption
         DEF Goto, Knows, Holds, Before, Waiting, RunState, Stages, TaskStates
    <2>3. QED BY <1>1, <2>1, <2>2, QueueKeeps DEF ReconfigureEx
  <1>2. CASE Queue(r) /\ Local(r, Tell(Lose(run[r]), "failure")) /\ Spend("fault")
    <2> DEFINE e == Tell(Lose(run[r]), "failure")
    <2>0. e \in RunState
      BY Moves DEF Stages
    <2>1. e \in RunState /\ e.told # "token"
      BY <2>0 DEF Tell, Lose, RunState
    <2>2. Knows(e, "queued") /\ Holds(e, r \in session, r \in filter)
      BY <1>0 DEF Tell, Lose, Knows, Holds, Before, Waiting, RunState, Stages
    <2>3. QED BY <1>2, <2>1, <2>2, QueueKeeps DEF ReconfigureEx
  <1>3. CASE /\ UNCHANGED <<task, crossed>>
             /\ Local(r, Tell(Lose(run[r]), "failure")) /\ Spend("fault")
    <2> DEFINE e == Tell(Lose(run[r]), "failure")
    <2>1. e \in RunState
      BY Moves DEF Stages
    <2>2. Knows(e, task[r]) /\ Holds(e, r \in session', r \in filter')
      BY <1>0 DEF ReconfigureEx, Tell, Lose, Knows, Holds, Before, Waiting, RunState, Stages
    <2>3. QED BY <1>0, <1>3, <2>1, <2>2, QuietStep
              DEF ReconfigureEx, Tell, Lose, RunState, Knows, Before, Kinds, vcenter
  <1>4. QED BY <1>1, <1>2, <1>3 DEF ReconfigureEx

LEMMA ExpireKeeps == ASSUME IInv, NEW r \in Runs, Expire(r) PROVE IInv'
  <1>1. Types'
    BY DEF Expire, IInv, Types, vcenter, admin
  <1>2. RunsInv'
    BY DEF Expire, IInv, RunsInv, Knows, Holds, vcenter
  <1>3. SecretInv'
    BY DEF Expire, IInv, SecretInv, Settled, vcenter, admin
  <1>4. QED BY <1>1, <1>2, <1>3 DEF IInv

(* A task that is not over goes on in vCenter.                               *)
LEMMA TaskKeeps ==
    ASSUME IInv, NEW r \in Runs, NEW s \in {"running", "success", "error"},
           task[r] \in {"queued", "running"}, task' = [task EXCEPT ![r] = s],
           accepted' = IF s = "success" THEN r ELSE accepted,
           UNCHANGED <<site, crossed, session, filter, run, admin>>,
           Paid \/ Spend("reject")
    PROVE  IInv'
  <1>0. run[r] \in RunState /\ Knows(run[r], task[r]) /\ Holds(run[r], r \in session, r \in filter)
    BY OfRun
  <1>1. Knows(run[r], s)
    BY <1>0, NoneAssumption DEF Knows, TaskStates, RunState
  <1>2. /\ RunsInv' /\ task' \in [Runs -> TaskStates \cup {None}] /\ task'[r] = s
        /\ \A q \in Runs \ {r} : task'[q] = task[q]
    <2>1. run' = [run EXCEPT ![r] = run[r]]
      BY DEF IInv, Types
    <2>3. QED BY <1>0, <1>1, <2>1, OneRun DEF TaskStates
  <1>3. spent' \in [Kinds -> Nat]
    BY SpendTypes DEF IInv, Types, Paid, Kinds
  <1>4. Types'
    BY <1>2, <1>3 DEF IInv, Types, Tokens, admin
  <1>5. ~Settled(r) /\ r \notin saved
    BY <1>0, NoneAssumption DEF Settled, TaskStates, IInv, SecretInv, Knows
  <1>6. ASSUME NEW q \in Runs \ {r} PROVE Settled(q)' = Settled(q)
    BY <1>2 DEF Settled, admin
  <1>7. SecretInv'
    <2>1. \A q \in saved' : run'[q].told = "token"
      BY DEF IInv, SecretInv, admin
    <2>2. accepted' \in Runs => task'[accepted'] = "success"
      BY <1>2 DEF IInv, SecretInv
    <2>3. ASSUME ~crossed PROVE \A q \in Runs \ {r} : Settled(q)
      BY <2>3, <1>5 DEF IInv, SecretInv
    <2>4. ASSUME ~crossed
          PROVE  /\ \A p, q \in Runs : Settled(p)' \/ Settled(q)' \/ p = q
                 /\ \A q \in Runs : Settled(q)' \/ task'[q] # "success" \/ accepted' = q
                 /\ secret' = accepted' \/ accepted' \in Runs \ saved'
      <3>1. \A q \in Runs \ {r} : Settled(q)'
        BY <2>3, <2>4, <1>6
      <3>2. task'[r] # "success" \/ accepted' = r
        BY <1>2
      <3>3. secret' = accepted' \/ accepted' \in Runs \ saved'
        BY <2>4, <1>5 DEF IInv, SecretInv, admin
      <3>4. QED BY <3>1, <3>2, <3>3
    <2>5. QED BY <2>1, <2>4, <2>2 DEF SecretInv
  <1>8. QED BY <1>2, <1>4, <1>7 DEF IInv

LEMMA TaskStepKeeps == ASSUME IInv, NEW r \in Runs, TaskStep(r) PROVE IInv'
  <1>1. CASE TaskRuns(r)
    BY <1>1, TaskKeeps DEF TaskRuns, Paid
  <1>2. CASE TaskSucceeds(r)
    BY <1>2, TaskKeeps DEF TaskSucceeds, Paid
  <1>3. CASE TaskFails(r)
    BY <1>3, TaskKeeps DEF TaskFails
  <1>4. QED BY <1>1, <1>2, <1>3 DEF TaskStep

LEMMA SaveKeeps == ASSUME IInv, NEW r \in Runs, Save(r) PROVE IInv'
  <1>0. task[r] = "success" /\ ~Settled(r)
    BY OfRun, NoneAssumption DEF Save, Knows, Settled, TaskStates
  <1>1. Types'
    BY DEF Save, IInv, Types, Tokens, vcenter
  <1>2. RunsInv'
    BY DEF Save, IInv, RunsInv, Knows, Holds, vcenter
  <1>3. ASSUME NEW q \in Runs, Settled(q) PROVE Settled(q)'
    BY <1>3 DEF Settled, Save, vcenter
  <1>4. SecretInv'
    <2>1. \A q \in saved' : run'[q].told = "token"
      BY DEF IInv, SecretInv, Save
    <2>2. ASSUME ~crossed PROVE secret' = accepted'
      BY <2>2, <1>0 DEF IInv, SecretInv, Save, vcenter
    <2>3. QED BY <2>1, <2>2, <1>3 DEF IInv, SecretInv, Save, vcenter
  <1>5. QED BY <1>1, <1>2, <1>4 DEF IInv

LEMMA NextKeeps == IInv /\ [Next]_vars => IInv'
  <1> SUFFICES ASSUME IInv, [Next]_vars PROVE IInv'
    OBVIOUS
  <1>1. ASSUME NEW r \in Runs, Step(r) PROVE IInv'
    BY <1>1, QuestionsKeep, ReconfigureExKeeps, CreateFilterKeeps, WaitForUpdatesKeeps,
       HandleUpdateKeeps, DestroyFilterKeeps, CheckStateKeeps, DisconnectKeeps DEF Step
  <1>2. CASE Next
    BY <1>1, <1>2, ConnectKeeps, KillKeeps, ExpireKeeps, TaskStepKeeps, SaveKeeps DEF Next
  <1>3. CASE UNCHANGED vars
    BY <1>3 DEF IInv, Types, RunsInv, SecretInv, Settled, vars, vcenter, admin
  <1>4. QED BY <1>2, <1>3

LEMMA Invariant == Spec => []IInv
  BY InitIInv, NextKeeps, PTL DEF Spec

-----------------------------------------------------------------------------
(* The variables of every run keep their types; a run is logged in from      *)
(* main's SmartConnect to its end, and waits only for a task that exists.   *)
THEOREM TypeCorrect == Spec => []TypeOK
  <1>1. IInv => TypeOK
    BY DEF IInv, Types, RunsInv, Knows, Holds, Waiting, TypeOK
  <1>2. QED BY <1>1, Invariant, PTL

(* A run that ended without telling its token, although vCenter accepted it, *)
(* had one of its own calls fail: WaitForTasks itself never loses an outcome. *)
THEOREM AcceptedIsTold == Spec => []UntoldJustified
  <1>1. IInv => UntoldJustified
    <2> SUFFICES ASSUME IInv, NEW r \in Runs, At(r, "over"), task[r] = "success",
                        run[r].told # "token"
                 PROVE  run[r].lost # {}
      BY DEF UntoldJustified
    <2>1. run[r] \in RunState /\ Knows(run[r], task[r])
      BY OfRun
    <2>2. QED BY <2>1, NoneAssumption DEF Knows, At, RunState, TaskStates
  <1>2. QED BY <1>1, Invariant, PTL

(* A logout that is answered leaves neither session nor filter, and the wait *)
(* no filter, whichever other calls failed.                                 *)
THEOREM LeavesNothing == Spec => []NothingLeft
  <1>1. IInv => NothingLeft
    BY DEF IInv, RunsInv, Holds, NothingLeft, At
  <1>2. QED BY <1>1, Invariant, PTL

LEMMA IInvCurrent == IInv => SecretCurrent
  <1> SUFFICES ASSUME IInv, ~crossed, \A r \in Runs : Settled(r), secret # accepted
               PROVE  /\ accepted \in Runs \ saved
                      /\ run[accepted].lost # {} \/ At(accepted, "killed")
    BY DEF SecretCurrent
  <1>1. accepted \in Runs \ saved
    BY DEF IInv, SecretInv
  <1>2. task[accepted] = "success" /\ Settled(accepted) /\ run[accepted].told # "token"
    BY <1>1, NoneAssumption DEF IInv, SecretInv, Settled, TaskStates
  <1>3. QED BY <1>1, <1>2, OfRun, NoneAssumption
            DEF Settled, Knows, At, RunState, TaskStates

(* Runs that do not cross leave the secret with the accepted token, or with  *)
(* one that nobody could have been told.                                    *)
THEOREM SecretIsCurrent == Spec => []SecretCurrent
  <1>1. QED BY IInvCurrent, Invariant, PTL

-----------------------------------------------------------------------------
(* The command implements TokenGrant.                                        *)

Granted == {r \in Runs : task[r] = "success"}

(* Changes of one run or one task that nobody outside can see.               *)
LEMMA Unseen ==
    ASSUME IInv, NEW r \in Runs, NEW e \in RunState, Local(r, e),
           UNCHANGED <<accepted, Granted>>, e.told \in {run[r].told, "refusal"},
           run[r].told \in {"nothing", e.told}
    PROVE  UNCHANGED Abstract!gvars
  BY DEF IInv, Types, Local, Abstract!gvars, Granted, Saying

LEMMA FailureSeen ==
    ASSUME IInv, NEW r \in Runs, NEW e \in RunState, Local(r, e),
           UNCHANGED <<accepted, Granted>>, e.told = "failure", run[r].told = "nothing"
    PROVE  Abstract!Fail
  <1>1. r \in Runs \ (Saying("token") \cup Saying("failure"))
    BY DEF Saying
  <1>2. /\ Saying("failure")' = Saying("failure") \cup {r}
        /\ Saying("token")' = Saying("token")
    BY DEF IInv, Types, Local, Saying
  <1>3. QED BY <1>1, <1>2 DEF Abstract!Fail, Granted

LEMMA TokenSeen ==
    ASSUME IInv, NEW r \in Runs, NEW e \in RunState, Local(r, e),
           UNCHANGED <<accepted, Granted>>, e.told = "token", run[r].told = "nothing",
           task[r] = "success"
    PROVE  Abstract!Tell
  <1>1. r \in Granted \ (Saying("token") \cup Saying("failure"))
    BY DEF Saying, Granted
  <1>2. /\ Saying("token")' = Saying("token") \cup {r}
        /\ Saying("failure")' = Saying("failure")
    BY DEF IInv, Types, Local, Saying
  <1>3. QED BY <1>1, <1>2 DEF Abstract!Tell, Granted

LEMMA SameTasks == UNCHANGED task => UNCHANGED Granted
  BY DEF Granted

LEMMA QueueGrantsNothing ==
    ASSUME IInv, NEW r \in Runs, At(r, "reconfigure"), Queue(r) PROVE UNCHANGED Granted
  <1>1. task[r] = None
    BY OfRun DEF At, Knows, Before
  <1>2. QED BY <1>1, NoneAssumption DEF IInv, Types, Queue, Granted, TaskStates

LEMMA TaskRefines ==
    ASSUME IInv, NEW r \in Runs, TaskStep(r)
    PROVE  Abstract!Next \/ UNCHANGED Abstract!gvars
  <1>0. UNCHANGED run
    BY DEF TaskStep, TaskRuns, TaskSucceeds, TaskFails
  <1>1. CASE TaskRuns(r) \/ TaskFails(r)
    <2>1. UNCHANGED <<Granted, accepted>>
      BY <1>1 DEF IInv, Types, TaskRuns, TaskFails, Granted
    <2>2. QED BY <1>0, <2>1 DEF Abstract!gvars, Saying, Granted
  <1>2. CASE TaskSucceeds(r)
    <2>1. r \in Runs \ Granted /\ accepted' = r /\ Granted' = Granted \cup {r}
      BY <1>2 DEF IInv, Types, TaskSucceeds, Granted
    <2>2. Abstract!Grant
      BY <1>0, <2>1 DEF Abstract!Grant, Saying, Granted
    <2>3. QED BY <2>2 DEF Abstract!Next
  <1>3. QED BY <1>1, <1>2 DEF TaskStep

LEMMA StepRefines ==
    ASSUME IInv, NEW r \in Runs, Connect(r) \/ Step(r) \/ Kill(r)
    PROVE  Abstract!Next \/ UNCHANGED Abstract!gvars
  <1> DEFINE Goal == Abstract!Next \/ UNCHANGED Abstract!gvars
  <1> USE OfRun
  <1>1. CASE Connect(r)
    <2>1. UNCHANGED <<Granted, accepted>>
      BY <1>1, SameTasks DEF Connect, vcenter
    <2>2. CASE Local(r, Goto(run[r], "about"))
      <3>1. Goto(run[r], "about") \in RunState /\ Goto(run[r], "about").told = run[r].told
        BY DEF Goto, RunState, Stages
      <3>2. QED BY <2>1, <2>2, <3>1, Unseen
    <2>3. CASE Local(r, Goto(Lose(run[r]), "over"))
      <3>1. /\ Goto(Lose(run[r]), "over") \in RunState
            /\ Goto(Lose(run[r]), "over").told = run[r].told
        BY DEF Goto, Lose, RunState, Stages
      <3>2. QED BY <2>1, <2>3, <3>1, Unseen DEF RunState
    <2>4. QED BY <1>1, <2>2, <2>3 DEF Connect
  <1>2. ASSUME NEW stage \in Before, NEW obstacle, NEW next \in Before, Ask(r, stage, obstacle, next)
        PROVE  Goal
    <2>1. UNCHANGED <<Granted, accepted>>
      BY <1>2, SameTasks DEF Ask, vcenter
    <2>2. run[r].told = "nothing"
      BY <1>2 DEF Ask, At, Knows
    <2>3. CASE Local(r, Tell(run[r], "refusal"))
      <3>1. Tell(run[r], "refusal") \in RunState /\ Tell(run[r], "refusal").told = "refusal"
        BY DEF Tell, RunState, Stages
      <3>2. QED BY <2>1, <2>2, <2>3, <3>1, Unseen
    <2>4. CASE Local(r, Goto(run[r], next))
      <3>1. Goto(run[r], next) \in RunState /\ Goto(run[r], next).told = run[r].told
        BY DEF Goto, RunState, Stages, Before
      <3>2. QED BY <2>1, <2>2, <2>4, <3>1, Unseen
    <2>5. CASE Local(r, Goto(Lose(run[r]), "leave"))
      <3>1. /\ Goto(Lose(run[r]), "leave") \in RunState
            /\ Goto(Lose(run[r]), "leave").told = run[r].told
        BY DEF Goto, Lose, RunState, Stages
      <3>2. QED BY <2>1, <2>2, <2>5, <3>1, Unseen
    <2>6. QED BY <1>2, <2>3, <2>4, <2>5 DEF Ask
  <1>3. ASSUME Local(r, Tell(Lose(run[r]), "failure")), UNCHANGED <<Granted, accepted>>,
               run[r].pc \in Before \cup Waiting
        PROVE  Goal
    <2>1. /\ Tell(Lose(run[r]), "failure") \in RunState
          /\ Tell(Lose(run[r]), "failure").told = "failure" /\ run[r].told = "nothing"
      BY <1>3 DEF Tell, Lose, RunState, Stages, Knows
    <2>2. QED BY <1>3, <2>1, FailureSeen DEF Abstract!Next
  <1>4. ASSUME NEW e \in RunState, Local(r, e), UNCHANGED <<task, accepted>>, e.told = run[r].told
        PROVE  Goal
    BY <1>4, Unseen, SameTasks
  <1>5. CASE ReconfigureEx(r)
    <2>1. UNCHANGED <<Granted, accepted>> /\ run[r].pc \in Before
      BY <1>5, SameTasks, QueueGrantsNothing DEF ReconfigureEx, At, Before
    <2>2. CASE Local(r, Goto(run[r], "filter"))
      <3>1. Goto(run[r], "filter") \in RunState /\ Goto(run[r], "filter").told = run[r].told
        BY DEF Goto, RunState, Stages
      <3>2. QED BY <2>1, <2>2, <3>1, Unseen
    <2>3. QED BY <1>5, <2>1, <2>2, <1>3 DEF ReconfigureEx
  <1>6. CASE CreateFilter(r)
    <2>1. Goto(run[r], "wait") \in RunState /\ Goto(run[r], "wait").told = run[r].told
      BY DEF Goto, RunState, Stages
    <2>2. QED BY <1>6, <2>1, <1>3, <1>4, SameTasks DEF CreateFilter, At, Waiting, vcenter
  <1>7. CASE WaitForUpdates(r)
    <2>1. UNCHANGED <<task, accepted>> /\ task[r] \in TaskStates
      BY <1>7 DEF WaitForUpdates, At, Knows, Waiting, vcenter
    <2>2. ASSUME NEW u \in {Info(task[r]), InfoState(task[r]), NoChange},
                 Local(r, [run[r] EXCEPT !.pc = "handle", !.update = u, !.seen = task[r]])
          PROVE  Goal
      <3> DEFINE e == [run[r] EXCEPT !.pc = "handle", !.update = u, !.seen = task[r]]
      <3>1. u \in Update
        BY <2>1 DEF Update, Info, InfoState
      <3>2. e \in RunState /\ e.told = run[r].told
        BY <3>1 DEF RunState, Stages
      <3>3. QED BY <2>1, <2>2, <3>2, <1>4
    <2>3. CASE Local(r, [Lose(run[r]) EXCEPT !.pc = "destroy", !.raised = TRUE])
      <3> DEFINE e == [Lose(run[r]) EXCEPT !.pc = "destroy", !.raised = TRUE]
      <3>1. e \in RunState /\ e.told = run[r].told
        BY DEF Lose, RunState, Stages
      <3>2. QED BY <2>1, <2>3, <3>1, <1>4
    <2>4. QED BY <1>7, <2>2, <2>3 DEF WaitForUpdates
  <1>8. CASE HandleUpdate(r)
    <2> DEFINE e == [run[r] EXCEPT
                       !.pc = IF run[r].update.state \in {"success", "error"}
                              THEN "destroy" ELSE "wait",
                       !.raised = run[r].update.state = "error",
                       !.update = None]
    <2>1. e \in RunState /\ e.told = run[r].told
      BY DEF RunState, Stages
    <2>2. QED BY <1>8, <2>1, <1>4 DEF HandleUpdate, vcenter
  <1>9. CASE DestroyFilter(r)
    <2>1. UNCHANGED <<Granted, task, accepted>> /\ run[r].pc = "destroy" /\ run[r].told = "nothing"
      BY <1>9, SameTasks DEF DestroyFilter, At, vcenter, Knows, Waiting
    <2>2. CASE Local(r, Tell(run[r], "failure"))
      <3>1. Tell(run[r], "failure") \in RunState /\ Tell(run[r], "failure").told = "failure"
        BY DEF Tell, RunState, Stages
      <3>2. QED BY <2>1, <2>2, <3>1, FailureSeen DEF Abstract!Next
    <2>3. CASE Local(r, Goto(run[r], "check"))
      <3>1. Goto(run[r], "check") \in RunState /\ Goto(run[r], "check").told = run[r].told
        BY DEF Goto, RunState, Stages
      <3>2. QED BY <2>1, <2>3, <3>1, <1>4
    <2>4. QED BY <1>9, <2>1, <2>2, <2>3, <1>3 DEF DestroyFilter, Waiting
  <1>10. CASE CheckState(r)
    <2>1. /\ UNCHANGED <<Granted, accepted>> /\ run[r].pc = "check"
          /\ run[r].told = "nothing" /\ task[r] = "success"
      BY <1>10, SameTasks DEF CheckState, At, vcenter, Knows, Waiting
    <2>2. CASE Local(r, Tell(run[r], "token"))
      <3>1. Tell(run[r], "token") \in RunState /\ Tell(run[r], "token").told = "token"
        BY DEF Tell, RunState, Stages
      <3>2. QED BY <2>1, <2>2, <3>1, TokenSeen DEF Abstract!Next
    <2>3. QED BY <1>10, <2>1, <2>2, <1>3 DEF CheckState, Waiting
  <1>11. CASE Disconnect(r)
    <2>1. Goto(run[r], "over") \in RunState /\ Goto(run[r], "over").told = run[r].told
      BY DEF Goto, RunState, Stages
    <2>2. /\ Goto(Lose(run[r]), "over") \in RunState
          /\ Goto(Lose(run[r]), "over").told = run[r].told
      BY DEF Goto, Lose, RunState, Stages
    <2>3. QED BY <1>11, <2>1, <2>2, <1>4 DEF Disconnect, vcenter
  <1>12. CASE Kill(r)
    <2>1. Goto(run[r], "killed") \in RunState /\ Goto(run[r], "killed").told = run[r].told
      BY DEF Goto, RunState, Stages
    <2>2. QED BY <1>12, <2>1, <1>4 DEF Kill, vcenter
  <1>13. CASE CheckAbout(r) \/ GetClusterInstance(r) \/ CheckVsanCapability(r)
    BY <1>13, <1>2 DEF CheckAbout, GetClusterInstance, CheckVsanCapability, Before
  <1>14. QED BY <1>1, <1>5, <1>6, <1>7, <1>8, <1>9, <1>10, <1>11, <1>12, <1>13 DEF Step

(* However runs overlap and whatever fails, a token is printed only after    *)
(* vCenter accepted it, each run replaces the accepted one at most once and *)
(* prints one thing: the command implements TokenGrant.                     *)
THEOREM SetupRefinesGrant == Spec => RefinesGrant
  <1>1. Init => Abstract!Init
    BY NoneAssumption DEF Init, Abstract!Init, Saying, Fresh, TaskStates
  <1>2. IInv /\ [Next]_vars => [Abstract!Next]_(Abstract!gvars)
    <2> SUFFICES ASSUME IInv, [Next]_vars PROVE Abstract!Next \/ UNCHANGED Abstract!gvars
      BY DEF Abstract!gvars
    <2>1. ASSUME NEW r \in Runs, Expire(r) \/ Save(r) PROVE UNCHANGED Abstract!gvars
      BY <2>1 DEF Expire, Save, vcenter, Abstract!gvars, Saying
    <2>2. CASE Next
      BY <2>1, <2>2, StepRefines, TaskRefines DEF Next
    <2>3. CASE UNCHANGED vars
      BY <2>3 DEF vars, vcenter, Abstract!gvars, Saying
    <2>4. QED BY <2>2, <2>3
  <1>3. QED BY <1>1, <1>2, Invariant, PTL DEF Spec, RefinesGrant, Abstract!Spec

=============================================================================

---------------------------- MODULE HostSession ----------------------------
(***************************************************************************)
(* The exporter and one host over time: its worker starts and is restarted, *)
(* with the token requests need; the host is connected with the secret it  *)
(* shares then; the request threads use one stub, which logs in on the     *)
(* first call and again when the host knows its session no more.  (How the *)
(* threads share the table of all hosts is in Exporter.)                   *)
(***************************************************************************)
EXTENDS Naturals, Sequences

CONSTANTS
    Threads, \* gunicorn's request threads
    Retries, \* how often the stub tries a call
    None,
    Bound    \* how often the environment may do each of Kinds

Kinds == {"fault", "expire", "rotate", "drop", "restart"}

ASSUME RetriesAssumption == Retries \in Nat \ {0}
ASSUME NoneAssumption == None \notin Nat
ASSUME BoundAssumption == Bound \in [Kinds -> Nat]

VARIABLES
    given,  \* BEARER_TOKEN is set
    state,  \* "starting" until connectOnStart is over, then "up" or "down"
    token,  \* authToken: 0 is BEARER_TOKEN, others are of the life that made them
    known,  \* the token Prometheus sends
    read,   \* history: the life in whose log the administrator found it
    secret, \* the host's shared secret, by its number
    stubs,  \* the stubs made in this life
    entry,  \* the number of the one in the table, 0 for none
    th,     \* thread |-> its local state
    spent   \* how often the environment did each of Kinds

access == <<given, state, token, known, read>>
vars == <<access, secret, stubs, entry, th, spent>>

Life == spent["restart"]

(* What a thread holds: pc; held, a secret it fetched; stub, the number of *)
(* the one it uses; left, the tries it has; code and got, its answer and   *)
(* whether that has metrics.  As history: lost, a call of it failed; asof,  *)
(* the host's secret when held was fetched; ended, the sessions of its stub *)
(* that ended since the request began.                                     *)
Idle == [pc |-> "idle", held |-> 0, stub |-> 0, left |-> 0, code |-> 0, got |-> FALSE,
         lost |-> FALSE, asof |-> 0, ended |-> 0]

Spend(k) == /\ spent[k] < Bound[k]
            /\ spent' = [spent EXCEPT ![k] = @ + 1]
Paid == UNCHANGED spent

At(t, s) == th[t].pc = s
Local(t, r) == th' = [th EXCEPT ![t] = r]
Goto(r, s) == [r EXCEPT !.pc = s]
Lose(r) == [r EXCEPT !.lost = TRUE]
Reply(r, code, got) == [r EXCEPT !.pc = "answered", !.code = code, !.got = got,
                                 !.held = 0, !.asof = 0, !.left = 0]
Use(r, n) == [r EXCEPT !.pc = "check", !.stub = n, !.held = 0, !.asof = 0, !.left = Retries]

(* Mutant: the session is made on connecting, and never again.             *)
ConnectToHostPlain(s, now) == [secret |-> None, authed |-> TRUE, live |-> s = now, asof |-> now]

(* A stub has the secret it logs in with, whether it takes itself for      *)
(* logged in, and whether the host knows its session.                      *)
ConnectToHost(s, now) == [secret |-> s, authed |-> FALSE, live |-> FALSE, asof |-> now]

Init ==
    /\ given \in BOOLEAN
    /\ state = "starting"
    /\ token = None
    /\ known = IF given THEN 0 ELSE None
    /\ read = None
    /\ secret = 0
    /\ stubs = <<>> /\ entry = 0
    /\ th = [t \in Threads |-> Idle]
    /\ spent = [k \in Kinds |-> 0]

-----------------------------------------------------------------------------
(* Mutant: every start makes a token of its own.                           *)
ConnectOnStartOwnToken ==
    /\ state = "starting"
    /\ \/ state' = "up" /\ token' = Life + 1
          /\ stubs' = <<ConnectToHost(secret, secret)>> /\ entry' = 1 /\ Paid
       \/ state' = "down" /\ UNCHANGED <<token, stubs, entry>> /\ Spend("fault")
    /\ UNCHANGED <<given, known, read, secret, th>>

(* The vCenter, then the host, which may fail silently, then the token.    *)
ConnectOnStart ==
    /\ state = "starting"
    /\ \/ /\ state' = "up"
          /\ token' = IF given THEN 0 ELSE Life + 1
          /\ \/ stubs' = <<ConnectToHost(secret, secret)>> /\ entry' = 1 /\ Paid
             \/ UNCHANGED <<stubs, entry>> /\ Spend("fault")
       \/ state' = "down" /\ UNCHANGED <<token, stubs, entry>> /\ Spend("fault")
    /\ UNCHANGED <<given, known, read, secret, th>>

-----------------------------------------------------------------------------
(* A scrape.                                                               *)

(* Mutant: the table is not looked at.                                     *)
GetStatsForHostUnchecked(t) ==
    /\ At(t, "idle") /\ state # "starting"
    /\ Local(t, IF token = None \/ token # known THEN Reply(Idle, 401, FALSE)
                ELSE Use(Idle, entry))
    /\ UNCHANGED <<access, secret, stubs, entry, spent>>

GetStatsForHost(t) ==
    /\ At(t, "idle") /\ state # "starting"
    /\ Local(t, IF token = None \/ token # known THEN Reply(Idle, 401, FALSE)
                ELSE IF entry = 0 THEN Goto(Idle, "fetch")
                ELSE Use(Idle, entry))
    /\ UNCHANGED <<access, secret, stubs, entry, spent>>

(* Mutant: the secret is fetched once and for all.                         *)
FetchVsanSharedSecretOnce(t) ==
    /\ At(t, "fetch")
    /\ \/ Local(t, [Goto(th[t], "enter") EXCEPT !.held = 0, !.asof = secret]) /\ Paid
       \/ Local(t, Goto(Lose(th[t]), "again")) /\ Spend("fault")
    /\ UNCHANGED <<access, secret, stubs, entry>>

FetchVsanSharedSecret(t) ==
    /\ At(t, "fetch")
    /\ \/ Local(t, [Goto(th[t], "enter") EXCEPT !.held = secret, !.asof = secret]) /\ Paid
       \/ Local(t, Goto(Lose(th[t]), "again")) /\ Spend("fault")
    /\ UNCHANGED <<access, secret, stubs, entry>>

(* GetHostInfo asks the host's inventory; then the connection replaces what *)
(* another request may have put there since.                               *)
EnterHost(t) ==
    /\ At(t, "enter")
    /\ \/ /\ stubs' = Append(stubs, ConnectToHost(th[t].held, th[t].asof))
          /\ entry' = Len(stubs) + 1
          /\ Local(t, Goto(th[t], "again")) /\ Paid
       \/ Local(t, Goto(Lose(th[t]), "again")) /\ UNCHANGED <<stubs, entry>> /\ Spend("fault")
    /\ UNCHANGED <<access, secret>>

LookAgain(t) ==
    /\ At(t, "again")
    /\ Local(t, IF entry = 0 THEN Reply(th[t], 404, FALSE) ELSE Use(th[t], entry))
    /\ UNCHANGED <<access, secret, stubs, entry, spent>>

(* The login method only logs a refusal: the stub counts as logged in.     *)
Login(t) ==
    /\ At(t, "check")
    /\ LET s == stubs[th[t].stub] IN
       \/ /\ Local(t, Goto(th[t], "call")) /\ Paid
          /\ stubs' = IF s.authed THEN stubs
                      ELSE [stubs EXCEPT ![th[t].stub].authed = TRUE,
                                         ![th[t].stub].live = @ \/ s.secret = secret]
       \/ /\ ~s.authed
          /\ Local(t, Reply(Lose(th[t]), 200, FALSE)) /\ UNCHANGED stubs /\ Spend("fault")
    /\ UNCHANGED <<access, secret, entry>>

(* Without metrics the answer is an empty page.                            *)
CaptureInternalStats(t) ==
    /\ At(t, "call")
    /\ \/ Local(t, IF stubs[th[t].stub].live THEN Reply(th[t], 200, TRUE)
                   ELSE Goto(th[t], "renew")) /\ Paid
       \/ Local(t, Reply(Lose(th[t]), 200, FALSE)) /\ Spend("fault")
    /\ UNCHANGED <<access, secret, stubs, entry>>

(* The host knew no such session: the stub logs in for the next try.       *)
Renew(t) ==
    /\ At(t, "renew")
    /\ stubs' = [stubs EXCEPT ![th[t].stub].authed = FALSE]
    /\ Local(t, IF th[t].left = 1 THEN Reply(th[t], 200, FALSE)
                ELSE [Goto(th[t], "check") EXCEPT !.left = @ - 1])
    /\ UNCHANGED <<access, secret, entry, spent>>

Answered(t) ==
    /\ At(t, "answered")
    /\ Local(t, Idle)
    /\ UNCHANGED <<access, secret, stubs, entry, spent>>

-----------------------------------------------------------------------------
(* The host ends a session; its secret is replaced; it leaves the cluster, *)
(* comes back, and a consistency check drops its entry; the worker dies and *)
(* gunicorn starts another; the administrator looks the token up.          *)
Expire(n) ==
    /\ stubs[n].live
    /\ Spend("expire")
    /\ stubs' = [stubs EXCEPT ![n].live = FALSE]
    /\ th' = [t \in Threads |-> IF th[t].stub = n THEN [th[t] EXCEPT !.ended = @ + 1]
                                ELSE th[t]]
    /\ UNCHANGED <<access, secret, entry>>
Rotate ==
    /\ Spend("rotate")
    /\ secret' = secret + 1
    /\ UNCHANGED <<access, stubs, entry, th>>
Drop ==
    /\ entry # 0
    /\ Spend("drop")
    /\ entry' = 0
    /\ UNCHANGED <<access, secret, stubs, th>>
Restart ==
    /\ Spend("restart")
    /\ state' = "starting" /\ token' = None
    /\ stubs' = <<>> /\ entry' = 0
    /\ th' = [t \in Threads |-> Idle]
    /\ UNCHANGED <<given, known, read, secret>>
ReadLog ==
    /\ ~given /\ token # None
    /\ known' = token /\ read' = Life
    /\ UNCHANGED <<given, state, token, secret, stubs, entry, th, spent>>

Step(t) == \/ FetchVsanSharedSecret(t) \/ EnterHost(t) \/ LookAgain(t) \/ Login(t)
           \/ CaptureInternalStats(t) \/ Renew(t) \/ Answered(t)

Next == \/ ConnectOnStart \/ Rotate \/ Drop \/ Restart \/ ReadLog
        \/ \E n \in DOMAIN stubs : Expire(n)
        \/ \E t \in Threads : GetStatsForHost(t) \/ Step(t)

Spec == Init /\ [][Next]_vars

(* A request that was accepted goes on until it is answered.               *)
FairSpec == Spec /\ WF_vars(ConnectOnStart) /\ \A t \in Threads : WF_vars(Step(t))

-----------------------------------------------------------------------------
(* The variables have their types; a request that talks to the host has one *)
(* of the stubs of this life, and there is a token while there is a table.  *)
TypeOK ==
    /\ given \in BOOLEAN
    /\ state \in {"starting", "up", "down"}
    /\ token = None <=> state # "up"
    /\ secret \in 0..Bound["rotate"]
    /\ \A n \in DOMAIN stubs : stubs[n].authed \in BOOLEAN /\ stubs[n].live \in BOOLEAN
    /\ entry \in {0} \cup DOMAIN stubs
    /\ \A t \in Threads : th[t].pc \in {"check", "call", "renew"} =>
          th[t].stub \in DOMAIN stubs /\ th[t].left \in 1..Retries

(* A page has no metrics only if a call failed, if the host replaced its    *)
(* secret after it was connected, or if it ended one session after the      *)
(* other while the request went on.  An expired session, another thread     *)
(* that logs in on the same stub, or an entry that is replaced, costs none. *)
EmptyJustified ==
    \A t \in Threads : (At(t, "answered") /\ th[t].code = 200 /\ ~th[t].got) =>
       \/ th[t].lost
       \/ stubs[th[t].stub].asof # secret
       \/ th[t].ended >= Retries - 1

(* Prometheus is refused only while the connection on start has failed, or  *)
(* while the administrator has yet to look up the token of this life of the *)
(* worker, and that only without BEARER_TOKEN.                              *)
RefusalJustified ==
    [][\A t \in Threads : (th'[t].code = 401 /\ th[t].code # 401) =>
          state = "down" \/ (~given /\ read # Life)]_vars

(* Once the entry is of the host's present secret for good, scrapes come to *)
(* have metrics, and go on having them, whatever sessions ended before.     *)
SessionRecovers ==
    <>[](state = "up" /\ entry # 0 /\ stubs[entry].asof = secret)
    => <>[](\A t \in Threads : At(t, "answered") => th[t].got \/ th[t].code = 401)

=============================================================================

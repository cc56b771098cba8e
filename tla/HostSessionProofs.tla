------------------------- MODULE HostSessionProofs -------------------------
(* Theorems about HostSession, for any number of threads and tries.          *)
EXTENDS HostSession, TLAPS

Stages == {"idle", "fetch", "enter", "again", "check", "call", "renew", "answered"}
Talking == {"check", "call", "renew"}
Codes == {0, 200, 401, 404}
Stub == [secret : Nat, authed : BOOLEAN, live : BOOLEAN, asof : Nat]
Thread == [pc : Stages, held : Nat, stub : Nat, left : Nat, code : Codes,
           got : BOOLEAN, lost : BOOLEAN, asof : Nat, ended : Nat]

Types ==
    /\ given \in BOOLEAN
    /\ state \in {"starting", "up", "down"}
    /\ token \in Nat \cup {None} /\ known \in Nat \cup {None} /\ read \in Nat \cup {None}
    /\ token = None <=> state # "up"
    /\ secret \in Nat /\ secret = spent["rotate"] /\ secret <= Bound["rotate"]
    /\ stubs \in Seq(Stub)
    /\ entry \in {0} \cup DOMAIN stubs
    /\ th \in [Threads -> Thread]
    /\ spent \in [Kinds -> Nat]
    /\ state # "up" => stubs = <<>> /\ \A t \in Threads : th[t].pc \in {"idle", "answered"}

(* Who has which token: BEARER_TOKEN everybody, one that was generated only  *)
(* who read the log of this life.                                           *)
AccessInv ==
    /\ state = "up" => token = IF given THEN 0 ELSE Life + 1
    /\ given => known = 0
    /\ read # None => read <= Life
    /\ (~given /\ read = Life) => known = Life + 1

(* A stub logs in with the secret the host had when it was connected.        *)
StubGood(b, s) == b.secret = b.asof /\ b.asof <= s

(* A try is lost on a session only when one ended: as long as the secret is  *)
(* the host's, the tries that are used up are at most one more than the     *)
(* sessions that ended since, and no more than these while another is about *)
(* to be lost.                                                              *)
Tries(e, b, s) ==
    b.asof = s =>
      /\ Retries <= e.left + e.ended + 1
      /\ (e.pc = "renew" \/ (~b.live /\ (e.pc = "call" \/ b.authed)))
         => Retries <= e.left + e.ended
Empty(e, b, s) == e.lost \/ b.asof # s \/ e.ended >= Retries - 1

(* What a thread in state e may rely on with these stubs and this secret.    *)
Good(e, S, s) ==
    /\ e.pc = "enter" => e.held = e.asof /\ e.asof <= s
    /\ e.pc \in Talking => /\ e.stub \in DOMAIN S /\ e.left \in 1..Retries
                           /\ Tries(e, S[e.stub], s)
    /\ (e.pc = "answered" /\ e.code = 200) => e.stub \in DOMAIN S
    /\ (e.pc = "answered" /\ e.code = 200 /\ ~e.got) => Empty(e, S[e.stub], s)

StubsGood(S, s) == \A n \in DOMAIN S : StubGood(S[n], s)
IInv == /\ Types /\ AccessInv
        /\ StubsGood(stubs, secret)
        /\ \A t \in Threads : Good(th[t], stubs, secret)

-----------------------------------------------------------------------------
LEMMA KindsAre == {"fault", "expire", "rotate", "drop", "restart"} = Kinds
  BY DEF Kinds

LEMMA IdleIsGood ==
    Idle \in Thread /\ \A S \in Seq(Stub) : \A s \in Nat : Good(Idle, S, s)
  BY DEF Idle, Thread, Stages, Codes, Good, Talking

LEMMA InitIInv == Init => IInv
  <1> SUFFICES ASSUME Init PROVE IInv
    OBVIOUS
  <1>1. Types
    <2>1. "rotate" \in Kinds /\ spent["rotate"] = 0 /\ 0 <= Bound["rotate"]
      BY BoundAssumption, KindsAre DEF Init
    <2>2. th \in [Threads -> Thread] /\ \A t \in Threads : th[t].pc = "idle"
      BY IdleIsGood DEF Init, Idle
    <2>3. /\ token \in Nat \cup {None} /\ known \in Nat \cup {None} /\ read \in Nat \cup {None}
          /\ spent \in [Kinds -> Nat] /\ stubs \in Seq(Stub)
      BY DEF Init
    <2>4. QED BY <2>1, <2>2, <2>3 DEF Init, Types
  <1>2. AccessInv
    BY NoneAssumption DEF Init, AccessInv, Life, Kinds
  <1>3. StubsGood(stubs, secret) /\ \A t \in Threads : Good(th[t], stubs, secret)
    <2>1. stubs = <<>> /\ stubs \in Seq(Stub) /\ secret \in Nat
      BY DEF Init
    <2>2. StubsGood(stubs, secret)
      BY <2>1 DEF StubsGood
    <2>3. \A t \in Threads : th[t] = Idle
      BY DEF Init
    <2>4. QED BY <2>1, <2>2, <2>3, IdleIsGood
  <1>4. QED BY <1>1, <1>2, <1>3 DEF IInv

(* The stubs move on: there may be more of them, they keep what they were    *)
(* connected with, and as long as that is the host's secret none becomes    *)
(* worse.  Nothing of this disturbs another thread.                         *)
Onward(S, U, s) ==
    /\ DOMAIN S \subseteq DOMAIN U
    /\ \A n \in DOMAIN S :
          /\ U[n].asof = S[n].asof
          /\ (S[n].asof = s /\ ~U[n].live) => ~S[n].live /\ (U[n].authed => S[n].authed)

LEMMA OthersStayGood ==
    ASSUME NEW e \in Thread, NEW S \in Seq(Stub), NEW U \in Seq(Stub), NEW s \in Nat,
           Good(e, S, s), Onward(S, U, s)
    PROVE  Good(e, U, s)
  <1>1. CASE e.pc \in Talking
    <2>1. /\ e.stub \in DOMAIN S /\ e.stub \in DOMAIN U /\ e.left \in 1..Retries
          /\ Tries(e, S[e.stub], s)
      BY <1>1 DEF Good, Onward
    <2>2. Tries(e, U[e.stub], s)
      BY <2>1 DEF Tries, Onward
    <2>3. QED BY <1>1, <2>1, <2>2 DEF Good, Talking
  <1>2. CASE e.pc \notin Talking
    BY <1>2 DEF Good, Onward, Empty
  <1>3. QED BY <1>1, <1>2

LEMMA SpendTypes ==
    ASSUME NEW k \in Kinds, spent \in [Kinds -> Nat], Spend(k)
    PROVE  /\ spent' \in [Kinds -> Nat]
           /\ \A j \in Kinds : spent'[j] = IF j = k THEN spent[j] + 1 ELSE spent[j]
           /\ spent[k] + 1 <= Bound[k]
  <1>1. spent[k] \in Nat /\ Bound[k] \in Nat
    BY BoundAssumption
  <1>2. QED BY <1>1 DEF Spend

LEMMA FaultTypes ==
    ASSUME IInv, Paid \/ Spend("fault")
    PROVE  /\ spent' \in [Kinds -> Nat]
           /\ spent'["rotate"] = spent["rotate"] /\ spent'["restart"] = spent["restart"]
  <1>1. CASE Paid
    BY <1>1 DEF Paid, IInv, Types
  <1>2. CASE Spend("fault")
    BY <1>2, SpendTypes, KindsAre DEF IInv, Types
  <1>3. QED BY <1>1, <1>2

LEMMA AccessKept ==
    ASSUME AccessInv, UNCHANGED access, spent'["restart"] = spent["restart"]
    PROVE  AccessInv'
  BY DEF AccessInv, access, Life

(* A thread takes a step: what it comes to hold is good with the stubs it    *)
(* leaves, and the stubs have moved on.                                     *)
LEMMA StepKeeps ==
    ASSUME IInv, NEW t \in Threads, NEW e \in Thread, Local(t, e),
           stubs' \in Seq(Stub), Onward(stubs, stubs', secret), StubsGood(stubs', secret),
           entry' \in {0} \cup DOMAIN stubs', UNCHANGED <<access, secret>>,
           Good(e, stubs', secret), Paid \/ Spend("fault"),
           state = "up" \/ (stubs' = stubs /\ e.pc \in {"idle", "answered"})
    PROVE  IInv'
  <1>1. /\ spent' \in [Kinds -> Nat]
        /\ spent'["rotate"] = spent["rotate"] /\ spent'["restart"] = spent["restart"]
    BY FaultTypes
  <1>2. /\ th' \in [Threads -> Thread]
        /\ \A u \in Threads : th'[u] = IF u = t THEN e ELSE th[u]
    BY DEF Local, IInv, Types
  <1>3. Types'
    BY <1>1, <1>2 DEF IInv, Types, access
  <1>4. AccessInv'
    BY <1>1, AccessKept DEF IInv
  <1>5. ASSUME NEW u \in Threads PROVE Good(th'[u], stubs', secret)
    <2>1. th[u] \in Thread /\ Good(th[u], stubs, secret) /\ stubs \in Seq(Stub) /\ secret \in Nat
      BY DEF IInv, Types
    <2>2. QED BY <1>2, <2>1, OthersStayGood
  <1>6. QED BY <1>3, <1>4, <1>5 DEF IInv

(* ... which it has when the stubs are left alone.                           *)
LEMMA QuietStep ==
    ASSUME IInv, NEW t \in Threads, NEW e \in Thread, Local(t, e),
           UNCHANGED <<access, secret, stubs, entry>>, Good(e, stubs, secret),
           Paid \/ Spend("fault"), state = "up" \/ e.pc \in {"idle", "answered"}
    PROVE  IInv'
  <1>1. Onward(stubs, stubs', secret) /\ StubsGood(stubs', secret) /\ stubs' \in Seq(Stub)
    BY DEF Onward, IInv, Types
  <1>2. entry' \in {0} \cup DOMAIN stubs' /\ Good(e, stubs', secret)
    BY DEF IInv, Types
  <1>3. QED BY <1>1, <1>2, StepKeeps

(* What IInv says of the thread that takes a step.                           *)
LEMMA OfThread ==
    ASSUME IInv, NEW t \in Threads
    PROVE  /\ th[t] \in Thread /\ Good(th[t], stubs, secret)
           /\ stubs \in Seq(Stub) /\ secret \in Nat /\ entry \in {0} \cup DOMAIN stubs
           /\ th[t].pc \notin {"idle", "answered"} => state = "up"
           /\ token # None => state = "up"
           /\ Retries \in Nat \ {0}
  BY RetriesAssumption DEF IInv, Types

-----------------------------------------------------------------------------
(* What the operators on a thread's local state give.                        *)
LEMMA GotoIs ==
    ASSUME NEW r \in Thread, NEW s \in Stages
    PROVE  /\ Goto(r, s) \in Thread /\ Goto(r, s).pc = s /\ Goto(r, s).held = r.held
           /\ Goto(r, s).stub = r.stub /\ Goto(r, s).left = r.left /\ Goto(r, s).code = r.code
           /\ Goto(r, s).asof = r.asof /\ Goto(r, s).ended = r.ended
  BY DEF Goto, Thread

LEMMA LoseIs ==
    ASSUME NEW r \in Thread
    PROVE  /\ Lose(r) \in Thread /\ Lose(r).stub = r.stub /\ Lose(r).lost
           /\ Lose(r).code = r.code
  BY DEF Lose, Thread

(* A page with metrics, and an answer without.                              *)
FullPage(r, c) == Reply(r, c, TRUE)
NoPage(r, c) == Reply(r, c, FALSE)

LEMMA FullPageIs ==
    ASSUME NEW r \in Thread, NEW c \in Codes
    PROVE  /\ FullPage(r, c) \in Thread /\ FullPage(r, c).pc = "answered"
           /\ FullPage(r, c).code = c /\ FullPage(r, c).got
           /\ FullPage(r, c).stub = r.stub /\ (FullPage(r, c).lost <=> r.lost)
           /\ FullPage(r, c).ended = r.ended
  <1>1. "answered" \in Stages /\ 0 \in Nat
    BY DEF Stages
  <1>2. FullPage(r, c) \in Thread
    BY <1>1 DEF FullPage, Reply, Thread
  <1>3. /\ FullPage(r, c).pc = "answered" /\ FullPage(r, c).code = c
        /\ FullPage(r, c).stub = r.stub /\ FullPage(r, c).ended = r.ended
    BY DEF FullPage, Reply, Thread
  <1>4. FullPage(r, c).got
    BY DEF FullPage, Reply, Thread
  <1>5. FullPage(r, c).lost <=> r.lost
    BY DEF FullPage, Reply, Thread
  <1>6. QED BY <1>2, <1>3, <1>4, <1>5

LEMMA NoPageIs ==
    ASSUME NEW r \in Thread, NEW c \in Codes
    PROVE  /\ NoPage(r, c) \in Thread /\ NoPage(r, c).pc = "answered"
           /\ NoPage(r, c).code = c /\ ~NoPage(r, c).got
           /\ NoPage(r, c).stub = r.stub /\ (NoPage(r, c).lost <=> r.lost)
           /\ NoPage(r, c).ended = r.ended
  <1>1. "answered" \in Stages /\ 0 \in Nat
    BY DEF Stages
  <1>2. NoPage(r, c) \in Thread
    BY <1>1 DEF NoPage, Reply, Thread
  <1>3. /\ NoPage(r, c).pc = "answered" /\ NoPage(r, c).code = c
        /\ NoPage(r, c).stub = r.stub /\ NoPage(r, c).ended = r.ended
    BY DEF NoPage, Reply, Thread
  <1>4. ~NoPage(r, c).got
    BY DEF NoPage, Reply, Thread
  <1>5. NoPage(r, c).lost <=> r.lost
    BY DEF NoPage, Reply, Thread
  <1>6. QED BY <1>2, <1>3, <1>4, <1>5

LEMMA UseIs ==
    ASSUME NEW r \in Thread, NEW n \in Nat
    PROVE  /\ Use(r, n) \in Thread /\ Use(r, n).pc = "check" /\ Use(r, n).stub = n
           /\ Use(r, n).left = Retries /\ Use(r, n).ended = r.ended /\ Use(r, n).code = r.code
  BY RetriesAssumption DEF Use, Thread, Stages

LEMMA IdleIs == Idle \in Thread /\ Idle.pc = "idle" /\ Idle.ended = 0 /\ Idle.code = 0
  BY DEF Idle, Thread, Stages, Codes

(* A thread between its calls relies on nothing; one that begins to talk to  *)
(* the stub in the table has all its tries; one that lost a call may have    *)
(* an empty page.                                                           *)
LEMMA FreeIsGood ==
    ASSUME NEW e \in Thread, e.pc \in {"idle", "fetch", "again"}
           \/ (e.pc = "answered" /\ e.code \in {401, 404}), NEW S, NEW s
    PROVE  Good(e, S, s)
  BY DEF Good, Talking

LEMMA UseIsGood ==
    ASSUME IInv, entry # 0, NEW r \in Thread
    PROVE  Use(r, entry) \in Thread /\ Good(Use(r, entry), stubs, secret)
  <1>1. entry \in DOMAIN stubs /\ entry \in Nat /\ Retries \in Nat \ {0}
    BY RetriesAssumption DEF IInv, Types
  <1>2. /\ Use(r, entry) \in Thread /\ Use(r, entry).pc = "check" /\ Use(r, entry).stub = entry
        /\ Use(r, entry).left = Retries /\ Use(r, entry).ended \in Nat
    BY <1>1, UseIs DEF Thread
  <1>3. Tries(Use(r, entry), stubs[entry], secret)
    BY <1>1, <1>2 DEF Tries
  <1>4. QED BY <1>1, <1>2, <1>3 DEF Good

LEMMA LostIsGood ==
    ASSUME NEW r \in Thread, NEW S, NEW s
    PROVE  /\ Goto(Lose(r), "again") \in Thread /\ Good(Goto(Lose(r), "again"), S, s)
           /\ NoPage(Lose(r), 200) \in Thread
           /\ r.stub \in DOMAIN S => Good(NoPage(Lose(r), 200), S, s)
  <1>1. "again" \in Stages /\ 200 \in Codes
    BY DEF Stages, Codes
  <1>2. /\ Goto(Lose(r), "again") \in Thread /\ Goto(Lose(r), "again").pc = "again"
    BY <1>1, LoseIs, GotoIs
  <1>3. /\ NoPage(Lose(r), 200) \in Thread /\ NoPage(Lose(r), 200).pc = "answered"
        /\ NoPage(Lose(r), 200).lost /\ NoPage(Lose(r), 200).stub = r.stub
    BY <1>1, LoseIs, NoPageIs
  <1>4. r.stub \in DOMAIN S => Good(NoPage(Lose(r), 200), S, s)
    BY <1>3 DEF Good, Talking, Empty
  <1>5. QED BY <1>2, <1>3, <1>4, FreeIsGood

-----------------------------------------------------------------------------
(* One lemma for each action.                                                *)
LEMMA ScrapeKeeps == ASSUME IInv, NEW t \in Threads, GetStatsForHost(t) PROVE IInv'
  <1>1. UNCHANGED <<access, secret, stubs, entry>> /\ Paid
    BY DEF GetStatsForHost, Paid
  <1>2. CASE token = None \/ token # known
    <2>1. /\ NoPage(Idle, 401) \in Thread /\ NoPage(Idle, 401).pc = "answered"
          /\ NoPage(Idle, 401).code = 401
      BY IdleIs, NoPageIs DEF Codes
    <2>2. Good(NoPage(Idle, 401), stubs, secret)
      BY <2>1, FreeIsGood
    <2>3. Local(t, NoPage(Idle, 401))
      BY <1>2 DEF GetStatsForHost, NoPage
    <2>4. QED BY <1>1, <2>1, <2>2, <2>3, QuietStep
  <1>3. CASE ~(token = None \/ token # known) /\ entry = 0
    <2>1. Goto(Idle, "fetch") \in Thread /\ Goto(Idle, "fetch").pc = "fetch"
      BY IdleIs, GotoIs DEF Stages
    <2>2. Good(Goto(Idle, "fetch"), stubs, secret)
      BY <2>1, FreeIsGood
    <2>3. state = "up" /\ Local(t, Goto(Idle, "fetch"))
      BY <1>3, OfThread DEF GetStatsForHost
    <2>4. QED BY <1>1, <2>1, <2>2, <2>3, QuietStep
  <1>4. CASE ~(token = None \/ token # known) /\ entry # 0
    <2>1. Use(Idle, entry) \in Thread /\ Good(Use(Idle, entry), stubs, secret)
      BY <1>4, IdleIs, UseIsGood
    <2>2. state = "up" /\ Local(t, Use(Idle, entry))
      BY <1>4, OfThread DEF GetStatsForHost
    <2>3. QED BY <1>1, <2>1, <2>2, QuietStep
  <1>5. QED BY <1>2, <1>3, <1>4

LEMMA FetchKeeps == ASSUME IInv, NEW t \in Threads, FetchVsanSharedSecret(t) PROVE IInv'
  <1>1. state = "up" /\ UNCHANGED <<access, secret, stubs, entry>>
    BY OfThread DEF FetchVsanSharedSecret, At
  <1>2. CASE Local(t, [Goto(th[t], "enter") EXCEPT !.held = secret, !.asof = secret]) /\ Paid
    <2> DEFINE r == Goto(th[t], "enter")
               e == [r EXCEPT !.held = secret, !.asof = secret]
    <2>1. r \in Thread /\ r.pc = "enter" /\ secret \in Nat
      BY OfThread, GotoIs DEF Stages
    <2> HIDE DEF r
    <2>2. e \in Thread /\ e.pc = "enter" /\ e.held = secret /\ e.asof = secret
      BY <2>1 DEF Thread
    <2> HIDE DEF e
    <2>3. Good(e, stubs, secret)
      BY <2>1, <2>2 DEF Good, Talking
    <2>4. Local(t, e)
      BY <1>2 DEF e, r
    <2>5. QED BY <1>1, <1>2, <2>2, <2>3, <2>4, QuietStep
  <1>3. CASE Local(t, Goto(Lose(th[t]), "again")) /\ Spend("fault")
    BY <1>1, <1>3, LostIsGood, OfThread, QuietStep
  <1>4. QED BY <1>2, <1>3 DEF FetchVsanSharedSecret

LEMMA EnterKeeps == ASSUME IInv, NEW t \in Threads, EnterHost(t) PROVE IInv'
  <1>1. state = "up" /\ th[t].pc = "enter" /\ UNCHANGED <<access, secret>>
    BY OfThread DEF EnterHost, At
  <1>2. ASSUME stubs' = Append(stubs, ConnectToHost(th[t].held, th[t].asof)),
               entry' = Len(stubs) + 1, Local(t, Goto(th[t], "again")), Paid
        PROVE  IInv'
    <2> DEFINE b == ConnectToHost(th[t].held, th[t].asof)
    <2>1. b \in Stub /\ StubGood(b, secret)
      BY <1>1, OfThread DEF ConnectToHost, Stub, Thread, StubGood, Good
    <2> HIDE DEF b
    <2>2. /\ stubs \in Seq(Stub) /\ stubs' = Append(stubs, b)
      BY <1>2, OfThread DEF b
    <2>3. /\ stubs' \in Seq(Stub) /\ Len(stubs) \in Nat
          /\ DOMAIN stubs = 1..Len(stubs) /\ DOMAIN stubs' = 1..(Len(stubs) + 1)
          /\ \A n \in 1..Len(stubs) : stubs'[n] = stubs[n]
          /\ stubs'[Len(stubs) + 1] = b
      BY <2>1, <2>2
    <2>4. Onward(stubs, stubs', secret)
      BY <2>3 DEF Onward
    <2>5. entry' \in {0} \cup DOMAIN stubs'
      BY <1>2, <2>3
    <2>6. StubsGood(stubs', secret)
      BY <2>1, <2>3 DEF IInv, StubsGood
    <2>7. Goto(th[t], "again") \in Thread /\ Good(Goto(th[t], "again"), stubs', secret)
      BY OfThread, GotoIs, FreeIsGood DEF Stages
    <2>8. QED BY <1>1, <1>2, <2>3, <2>4, <2>5, <2>6, <2>7, StepKeeps
  <1>3. CASE Local(t, Goto(Lose(th[t]), "again")) /\ UNCHANGED <<stubs, entry>> /\ Spend("fault")
    BY <1>1, <1>3, LostIsGood, OfThread, QuietStep
  <1>4. QED BY <1>2, <1>3 DEF EnterHost

LEMMA AgainKeeps == ASSUME IInv, NEW t \in Threads, LookAgain(t) PROVE IInv'
  <1>1. /\ state = "up" /\ UNCHANGED <<access, secret, stubs, entry>> /\ Paid
        /\ th[t] \in Thread
    BY OfThread DEF LookAgain, At, Paid
  <1>2. CASE entry = 0
    <2>1. /\ NoPage(th[t], 404) \in Thread /\ NoPage(th[t], 404).pc = "answered"
          /\ NoPage(th[t], 404).code = 404
      BY <1>1, NoPageIs DEF Codes
    <2>2. Good(NoPage(th[t], 404), stubs, secret)
      BY <2>1, FreeIsGood
    <2>3. Local(t, NoPage(th[t], 404))
      BY <1>2 DEF LookAgain, NoPage
    <2>4. QED BY <1>1, <2>1, <2>2, <2>3, QuietStep
  <1>3. CASE entry # 0
    <2>1. Local(t, Use(th[t], entry))
      BY <1>3 DEF LookAgain
    <2>2. QED BY <1>1, <1>3, <2>1, UseIsGood, QuietStep
  <1>4. QED BY <1>2, <1>3

LEMMA AnsweredKeeps == ASSUME IInv, NEW t \in Threads, Answered(t) PROVE IInv'
  <1>1. Idle \in Thread /\ Good(Idle, stubs, secret) /\ Idle.pc = "idle"
    BY IdleIs, FreeIsGood
  <1>2. QED BY <1>1, QuietStep DEF Answered, Paid

(* The thread's stub, and what it relies on while it talks to it.            *)
LEMMA TalkingFacts ==
    ASSUME IInv, NEW t \in Threads, th[t].pc \in Talking
    PROVE  /\ state = "up" /\ th[t] \in Thread /\ th[t].stub \in DOMAIN stubs
           /\ stubs[th[t].stub] \in Stub /\ StubGood(stubs[th[t].stub], secret)
           /\ th[t].left \in 1..Retries /\ Tries(th[t], stubs[th[t].stub], secret)
           /\ stubs \in Seq(Stub) /\ secret \in Nat /\ StubsGood(stubs, secret)
  <1>1. /\ state = "up" /\ th[t] \in Thread /\ Good(th[t], stubs, secret)
        /\ stubs \in Seq(Stub) /\ secret \in Nat /\ StubsGood(stubs, secret)
    BY OfThread DEF IInv, Talking
  <1>2. /\ th[t].stub \in DOMAIN stubs /\ th[t].left \in 1..Retries
        /\ Tries(th[t], stubs[th[t].stub], secret)
    BY <1>1 DEF Good
  <1>3. stubs[th[t].stub] \in Stub
    BY <1>1, <1>2
  <1>4. QED BY <1>1, <1>2, <1>3 DEF StubsGood

(* A stub that only changes whether it is logged in, and so that the tries   *)
(* of the threads still add up.                                             *)
LEMMA OneStub ==
    ASSUME NEW S \in Seq(Stub), NEW s \in Nat, NEW n \in DOMAIN S, NEW b \in Stub, StubsGood(S, s),
           b.secret = S[n].secret, b.asof = S[n].asof,
           (b.asof = s /\ ~b.live) => ~S[n].live /\ (b.authed => S[n].authed)
    PROVE  /\ [S EXCEPT ![n] = b] \in Seq(Stub) /\ DOMAIN [S EXCEPT ![n] = b] = DOMAIN S
           /\ \A m \in DOMAIN S : [S EXCEPT ![n] = b][m] = IF m = n THEN b ELSE S[m]
           /\ Onward(S, [S EXCEPT ![n] = b], s) /\ StubsGood([S EXCEPT ![n] = b], s)
  <1> DEFINE U == [S EXCEPT ![n] = b]
  <1>1. U \in Seq(Stub) /\ DOMAIN U = DOMAIN S
    OBVIOUS
  <1>2. \A m \in DOMAIN S : U[m] = IF m = n THEN b ELSE S[m]
    OBVIOUS
  <1> HIDE DEF U
  <1>3. Onward(S, U, s)
    BY <1>1, <1>2 DEF Onward
  <1>4. StubsGood(U, s)
    <2>1. ASSUME NEW m \in DOMAIN S PROVE StubGood(U[m], s)
      BY <1>2 DEF StubsGood, StubGood
    <2>2. QED BY <1>1, <2>1 DEF StubsGood
  <1>5. QED BY <1>1, <1>2, <1>3, <1>4 DEF U

LEMMA LoginKeeps == ASSUME IInv, NEW t \in Threads, Login(t) PROVE IInv'
  <1> DEFINE n == th[t].stub
             s == stubs[n]
             e == Goto(th[t], "call")
  <1>1. th[t].pc = "check" /\ th[t].pc \in Talking /\ UNCHANGED <<access, secret, entry>>
    BY DEF Login, At, Talking
  <1>2. /\ e \in Thread /\ e.pc = "call" /\ e.stub = n /\ e.left = th[t].left
        /\ e.ended = th[t].ended
    BY <1>1, TalkingFacts, GotoIs DEF Stages
  <1>3. entry \in {0} \cup DOMAIN stubs
    BY OfThread
  <1>4. CASE Local(t, e) /\ Paid /\ s.authed /\ stubs' = stubs
    <2> HIDE DEF e
    <2>1. Tries(e, s, secret)
      BY <1>1, <1>2, <1>4, TalkingFacts DEF Tries
    <2>2. Good(e, stubs, secret)
      BY <1>1, <1>2, <2>1, TalkingFacts DEF Good
    <2>3. QED BY <1>1, <1>2, <1>4, <2>2, TalkingFacts, QuietStep
  <1>5. CASE /\ Local(t, e) /\ Paid /\ ~s.authed
             /\ stubs' = [stubs EXCEPT ![n].authed = TRUE, ![n].live = @ \/ s.secret = secret]
    <2> DEFINE b == [s EXCEPT !.authed = TRUE, !.live = @ \/ s.secret = secret]
    <2>0. s \in Stub /\ s.secret = s.asof /\ n \in DOMAIN stubs
      BY <1>1, TalkingFacts DEF StubGood
    <2>1. b \in Stub /\ b.secret = s.secret /\ b.asof = s.asof /\ (b.asof = secret => b.live)
      BY <2>0 DEF Stub
    <2>2. stubs' = [stubs EXCEPT ![n] = b]
      BY <1>5, <2>0 DEF Stub
    <2> HIDE DEF b, e
    <2>3. /\ stubs' \in Seq(Stub) /\ DOMAIN stubs' = DOMAIN stubs /\ stubs'[n] = b
          /\ Onward(stubs, stubs', secret) /\ StubsGood(stubs', secret)
      BY <1>1, <2>0, <2>1, <2>2, TalkingFacts, OneStub
    <2>4. Tries(e, b, secret)
      BY <1>1, <1>2, <2>1, TalkingFacts DEF Tries
    <2>5. Good(e, stubs', secret)
      BY <1>1, <1>2, <2>0, <2>3, <2>4, TalkingFacts DEF Good
    <2>6. QED BY <1>1, <1>2, <1>3, <1>5, <2>3, <2>5, TalkingFacts, StepKeeps
  <1>6. CASE Local(t, NoPage(Lose(th[t]), 200)) /\ UNCHANGED stubs /\ Spend("fault")
    BY <1>1, <1>6, TalkingFacts, LostIsGood, QuietStep
  <1>7. QED BY <1>4, <1>5, <1>6 DEF Login, NoPage

LEMMA CaptureKeeps == ASSUME IInv, NEW t \in Threads, CaptureInternalStats(t) PROVE IInv'
  <1>1. /\ th[t].pc = "call" /\ th[t].pc \in Talking /\ UNCHANGED <<access, secret, stubs, entry>>
    BY DEF CaptureInternalStats, At, Talking
  <1>2. CASE Local(t, FullPage(th[t], 200)) /\ Paid
    <2>1. FullPage(th[t], 200) \in Thread /\ Good(FullPage(th[t], 200), stubs, secret)
      BY <1>1, TalkingFacts, FullPageIs DEF Codes, Good, Talking
    <2>2. QED BY <1>1, <1>2, <2>1, TalkingFacts, QuietStep
  <1>3. CASE ~stubs[th[t].stub].live /\ Local(t, Goto(th[t], "renew")) /\ Paid
    <2> DEFINE e == Goto(th[t], "renew")
    <2>1. /\ e \in Thread /\ e.pc = "renew" /\ e.stub = th[t].stub /\ e.left = th[t].left
          /\ e.ended = th[t].ended
      BY <1>1, TalkingFacts, GotoIs DEF Stages
    <2> HIDE DEF e
    <2>2. Tries(e, stubs[e.stub], secret)
      BY <1>1, <1>3, <2>1, TalkingFacts DEF Tries
    <2>3. Good(e, stubs, secret)
      BY <1>1, <2>1, <2>2, TalkingFacts DEF Good
    <2>4. QED BY <1>1, <1>3, <2>1, <2>3, TalkingFacts, QuietStep DEF e
  <1>4. CASE Local(t, NoPage(Lose(th[t]), 200)) /\ Spend("fault")
    BY <1>1, <1>4, TalkingFacts, LostIsGood, QuietStep
  <1>5. QED BY <1>2, <1>3, <1>4 DEF CaptureInternalStats, NoPage, FullPage

(* The last try that fails leaves an empty page, and there were as many ends *)
(* of sessions as tries but one.                                            *)
LEMMA RenewKeeps == ASSUME IInv, NEW t \in Threads, Renew(t) PROVE IInv'
  <1> DEFINE n == th[t].stub
             s == stubs[n]
             b == [s EXCEPT !.authed = FALSE]
  <1>1. /\ th[t].pc = "renew" /\ th[t].pc \in Talking /\ UNCHANGED <<access, secret, entry>> /\ Paid
    BY DEF Renew, At, Talking, Paid
  <1>2. s \in Stub /\ n \in DOMAIN stubs /\ entry \in {0} \cup DOMAIN stubs
    BY <1>1, TalkingFacts, OfThread
  <1>3. /\ b \in Stub /\ b.secret = s.secret /\ b.asof = s.asof /\ ~b.authed
        /\ (~b.live => ~s.live)
    BY <1>2 DEF Stub
  <1>4. stubs' = [stubs EXCEPT ![n] = b]
    BY <1>2 DEF Renew
  <1> HIDE DEF b
  <1>5. /\ stubs' \in Seq(Stub) /\ DOMAIN stubs' = DOMAIN stubs /\ stubs'[n] = b
        /\ Onward(stubs, stubs', secret) /\ StubsGood(stubs', secret)
    BY <1>1, <1>2, <1>3, <1>4, TalkingFacts, OneStub
  <1>6. CASE th[t].left = 1
    <2> DEFINE e == NoPage(th[t], 200)
    <2>1. Local(t, e)
      BY <1>6 DEF Renew, NoPage
    <2>2. /\ e \in Thread /\ e.pc = "answered" /\ e.stub = n /\ e.ended = th[t].ended
      BY <1>1, TalkingFacts, NoPageIs DEF Codes
    <2> HIDE DEF e
    <2>3. Empty(e, b, secret)
      BY <1>1, <1>3, <1>6, <2>2, TalkingFacts, RetriesAssumption DEF Tries, Empty, Thread
    <2>4. Good(e, stubs', secret)
      BY <1>2, <1>5, <2>2, <2>3 DEF Good, Talking
    <2>5. QED BY <1>1, <1>2, <1>5, <2>1, <2>2, <2>4, TalkingFacts, StepKeeps
  <1>7. CASE th[t].left # 1
    <2> DEFINE r == Goto(th[t], "check")
               e == [r EXCEPT !.left = @ - 1]
    <2>1. Local(t, e)
      BY <1>7 DEF Renew
    <2>2. /\ r \in Thread /\ r.pc = "check" /\ r.stub = n /\ r.left = th[t].left
          /\ r.ended = th[t].ended /\ th[t].left \in 1..Retries /\ Retries \in Nat \ {0}
      BY <1>1, TalkingFacts, GotoIs, RetriesAssumption DEF Stages
    <2> HIDE DEF r
    <2>3. /\ e \in Thread /\ e.pc = "check" /\ e.stub = n /\ e.left = th[t].left - 1
          /\ e.ended = th[t].ended
      BY <1>7, <2>2 DEF Thread
    <2> HIDE DEF e
    <2>4. Tries(e, b, secret)
      <3>1. s.asof = secret => Retries <= th[t].left + th[t].ended
        BY <1>1, TalkingFacts DEF Tries
      <3>2. th[t].ended \in Nat /\ e.pc # "renew" /\ e.pc # "call"
        BY <1>1, <2>3, TalkingFacts DEF Thread
      <3>3. b.asof = secret => Retries <= e.left + e.ended + 1
        BY <1>3, <2>2, <2>3, <3>1, <3>2
      <3>4. QED BY <1>3, <3>2, <3>3 DEF Tries
    <2>5. Good(e, stubs', secret)
      BY <1>2, <1>5, <1>7, <2>2, <2>3, <2>4 DEF Good
    <2>6. QED BY <1>1, <1>2, <1>5, <2>1, <2>3, <2>5, TalkingFacts, StepKeeps
  <1>8. QED BY <1>6, <1>7

-----------------------------------------------------------------------------
(* The start, and what the environment does.                                 *)
LEMMA StartKeeps == ASSUME IInv, ConnectOnStart PROVE IInv'
  <1>1. /\ stubs = <<>> /\ entry = 0 /\ UNCHANGED <<given, known, read, secret, th>>
        /\ \A t \in Threads : th[t].pc \in {"idle", "answered"}
    BY DEF ConnectOnStart, IInv, Types
  <1>2. /\ spent' \in [Kinds -> Nat]
        /\ spent'["rotate"] = spent["rotate"] /\ spent'["restart"] = spent["restart"]
    BY FaultTypes DEF ConnectOnStart
  <1>3. ConnectToHost(secret, secret) \in Stub /\ StubGood(ConnectToHost(secret, secret), secret)
    BY DEF ConnectToHost, Stub, StubGood, IInv, Types
  <1>4. /\ stubs' \in Seq(Stub) /\ entry' \in {0} \cup DOMAIN stubs' /\ StubsGood(stubs', secret)
    <2>1. CASE stubs' = <<ConnectToHost(secret, secret)>> /\ entry' = 1
      <3> DEFINE b == ConnectToHost(secret, secret)
      <3> HIDE DEF b
      <3>1. stubs' = <<b>> /\ b \in Stub /\ StubGood(b, secret)
        BY <1>3, <2>1 DEF b
      <3>2. /\ stubs' \in Seq(Stub) /\ DOMAIN stubs' = {1} /\ stubs'[1] = b
        BY <3>1
      <3>3. QED BY <2>1, <3>1, <3>2 DEF StubsGood
    <2>2. CASE UNCHANGED <<stubs, entry>>
      BY <2>2 DEF IInv, Types
    <2>3. QED BY <2>1, <2>2 DEF ConnectOnStart
  <1>5. Onward(stubs, stubs', secret)
    BY <1>1 DEF Onward
  <1>6. ASSUME NEW t \in Threads PROVE Good(th'[t], stubs', secret')
    BY <1>1, <1>4, <1>5, OfThread, OthersStayGood
  <1>7. Life' = Life /\ Life \in Nat
    BY <1>2, KindsAre DEF Life, IInv, Types
  <1>8. \/ state' = "up" /\ token' = IF given THEN 0 ELSE Life + 1
        \/ state' = "down" /\ token' = None /\ stubs' = <<>>
    BY <1>1 DEF ConnectOnStart, IInv, Types
  <1>9. AccessInv'
    BY <1>1, <1>7, <1>8 DEF IInv, AccessInv
  <1>10. Types'
    BY <1>1, <1>2, <1>4, <1>7, <1>8, NoneAssumption DEF IInv, Types
  <1>11. QED BY <1>1, <1>4, <1>6, <1>9, <1>10 DEF IInv

(* A session that ends costs the threads on its stub one try more.           *)
LEMMA ExpireKeeps == ASSUME IInv, NEW n \in DOMAIN stubs, Expire(n) PROVE IInv'
  <1> DEFINE b == [stubs[n] EXCEPT !.live = FALSE]
  <1>1. /\ UNCHANGED <<access, secret, entry>> /\ stubs[n] \in Stub /\ stubs[n].live
        /\ stubs \in Seq(Stub) /\ secret \in Nat
    BY DEF Expire, IInv, Types
  <1>2. b \in Stub /\ b.secret = stubs[n].secret /\ b.asof = stubs[n].asof
    BY <1>1 DEF Stub
  <1>3. stubs' = [stubs EXCEPT ![n] = b]
    BY <1>1 DEF Expire
  <1> HIDE DEF b
  <1>4. /\ stubs' \in Seq(Stub) /\ DOMAIN stubs' = DOMAIN stubs
        /\ \A m \in DOMAIN stubs : stubs'[m] = IF m = n THEN b ELSE stubs[m]
    BY <1>1, <1>2, <1>3
  <1>5. StubsGood(stubs', secret)
    BY <1>2, <1>4 DEF IInv, StubsGood, StubGood
  <1>6. /\ spent' \in [Kinds -> Nat]
        /\ spent'["rotate"] = spent["rotate"] /\ spent'["restart"] = spent["restart"]
    BY SpendTypes, KindsAre DEF Expire, IInv, Types
  <1>7. ASSUME NEW t \in Threads
        PROVE  th'[t] \in Thread /\ Good(th'[t], stubs', secret) /\ th'[t].pc = th[t].pc
    <2>1. th[t] \in Thread /\ Good(th[t], stubs, secret) /\ Retries \in Nat
      BY OfThread
    <2>2. CASE th[t].stub = n
      <3> DEFINE e == [th[t] EXCEPT !.ended = @ + 1]
      <3>1. th'[t] = e
        BY <2>2 DEF Expire
      <3>2. /\ e \in Thread /\ e.pc = th[t].pc /\ e.stub = n /\ e.left = th[t].left
            /\ e.ended = th[t].ended + 1 /\ e.held = th[t].held /\ e.asof = th[t].asof
            /\ e.code = th[t].code /\ (e.got <=> th[t].got) /\ (e.lost <=> th[t].lost)
            /\ th[t].ended \in Nat
        BY <2>1, <2>2 DEF Thread
      <3> HIDE DEF e
      <3>3. ASSUME e.pc \in Talking PROVE Good(e, stubs', secret)
        <4>1. th[t].left \in 1..Retries /\ Tries(th[t], stubs[n], secret)
          BY <2>1, <2>2, <3>2, <3>3 DEF Good
        <4>2. Tries(e, b, secret)
          BY <1>2, <2>1, <3>2, <4>1 DEF Tries
        <4>3. QED BY <1>4, <3>2, <3>3, <4>1, <4>2 DEF Good, Talking
      <3>4. ASSUME e.pc \notin Talking PROVE Good(e, stubs', secret)
        <4>1. (e.pc = "answered" /\ e.code = 200 /\ ~e.got) => Empty(e, b, secret)
          BY <1>2, <2>1, <2>2, <3>2 DEF Good, Empty
        <4>2. QED BY <1>4, <2>1, <3>2, <3>4, <4>1 DEF Good
      <3>5. QED BY <3>1, <3>2, <3>3, <3>4
    <2>3. CASE th[t].stub # n
      <3>1. th'[t] = th[t]
        BY <2>3 DEF Expire
      <3>2. Good(th[t], stubs', secret)
        BY <1>4, <2>1, <2>3 DEF Good
      <3>3. QED BY <2>1, <3>1, <3>2
    <2>4. QED BY <2>2, <2>3
  <1>8. th' \in [Threads -> Thread]
    BY <1>7 DEF Expire
  <1>9. Types'
    <2>1. state = "up"
      BY DEF IInv, Types
    <2>2. QED BY <1>1, <1>4, <1>6, <1>8, <2>1 DEF IInv, Types, access
  <1>10. AccessInv'
    BY <1>1, <1>6, AccessKept DEF IInv
  <1>11. QED BY <1>1, <1>5, <1>7, <1>9, <1>10 DEF IInv

(* No stub is of a secret that is new.                                       *)
LEMMA RotateKeeps == ASSUME IInv, Rotate PROVE IInv'
  <1>1. UNCHANGED <<access, stubs, entry, th>> /\ secret' = secret + 1 /\ secret \in Nat
    BY DEF Rotate, IInv, Types
  <1>2. /\ spent' \in [Kinds -> Nat] /\ spent'["restart"] = spent["restart"]
        /\ spent'["rotate"] = spent["rotate"] + 1 /\ spent["rotate"] + 1 <= Bound["rotate"]
    BY SpendTypes, KindsAre DEF Rotate, IInv, Types
  <1>3. \A m \in DOMAIN stubs : StubGood(stubs[m], secret') /\ stubs[m].asof # secret'
    <2>1. ASSUME NEW m \in DOMAIN stubs
          PROVE  StubGood(stubs[m], secret') /\ stubs[m].asof # secret'
      <3>1. stubs[m] \in Stub /\ StubGood(stubs[m], secret)
        BY DEF IInv, Types, StubsGood
      <3>2. QED BY <1>1, <3>1 DEF Stub, StubGood
    <2>2. QED BY <2>1
  <1>4. ASSUME NEW t \in Threads PROVE Good(th[t], stubs, secret')
    <2>1. th[t] \in Thread /\ Good(th[t], stubs, secret)
      BY OfThread
    <2>2. th[t].pc = "enter" => th[t].held = th[t].asof /\ th[t].asof <= secret'
      BY <1>1, <2>1 DEF Good, Thread
    <2>3. QED BY <1>3, <2>1, <2>2 DEF Good, Tries, Empty
  <1>5. Types'
    BY <1>1, <1>2 DEF IInv, Types, access
  <1>6. AccessInv'
    BY <1>1, <1>2, AccessKept DEF IInv
  <1>7. QED BY <1>1, <1>3, <1>4, <1>5, <1>6 DEF IInv, StubsGood

LEMMA DropKeeps == ASSUME IInv, Drop PROVE IInv'
  <1>1. UNCHANGED <<access, secret, stubs, th>> /\ entry' = 0
    BY DEF Drop
  <1>2. /\ spent' \in [Kinds -> Nat]
        /\ spent'["rotate"] = spent["rotate"] /\ spent'["restart"] = spent["restart"]
    BY SpendTypes, KindsAre DEF Drop, IInv, Types
  <1>3. Types'
    BY <1>1, <1>2 DEF IInv, Types, access
  <1>4. AccessInv'
    BY <1>1, <1>2, AccessKept DEF IInv
  <1>5. QED BY <1>1, <1>3, <1>4 DEF IInv

(* A new life: nobody has read its log yet.                                  *)
LEMMA RestartKeeps == ASSUME IInv, Restart PROVE IInv'
  <1>1. /\ UNCHANGED <<given, known, read, secret>> /\ state' = "starting" /\ token' = None
        /\ stubs' = <<>> /\ entry' = 0 /\ \A t \in Threads : th'[t] = Idle
        /\ th' = [t \in Threads |-> Idle]
    BY DEF Restart
  <1>2. /\ spent' \in [Kinds -> Nat] /\ spent'["rotate"] = spent["rotate"]
        /\ spent'["restart"] = spent["restart"] + 1 /\ spent["restart"] \in Nat
    BY SpendTypes, KindsAre DEF Restart, IInv, Types
  <1>3. Types'
    BY <1>1, <1>2, IdleIs DEF IInv, Types
  <1>4. AccessInv'
    BY <1>1, <1>2, NoneAssumption DEF IInv, Types, AccessInv, Life
  <1>5. StubsGood(stubs', secret')
    BY <1>1 DEF StubsGood
  <1>6. \A t \in Threads : Good(th'[t], stubs', secret')
    BY <1>1, IdleIs, FreeIsGood
  <1>7. QED BY <1>3, <1>4, <1>5, <1>6 DEF IInv

LEMMA ReadLogKeeps == ASSUME IInv, ReadLog PROVE IInv'
  <1>1. /\ UNCHANGED <<given, state, token, secret, stubs, entry, th, spent>>
        /\ known' = token /\ read' = Life /\ ~given /\ state = "up"
    BY DEF ReadLog, IInv, Types
  <1>2. Life \in Nat /\ Life' = Life
    BY <1>1, KindsAre DEF Life, IInv, Types
  <1>3. Types'
    BY <1>1, <1>2 DEF IInv, Types
  <1>4. AccessInv'
    BY <1>1, <1>2 DEF IInv, AccessInv
  <1>5. QED BY <1>1, <1>3, <1>4 DEF IInv

LEMMA NextIInv == IInv /\ [Next]_vars => IInv'
  <1> SUFFICES ASSUME IInv, [Next]_vars PROVE IInv'
    OBVIOUS
  <1>1. CASE UNCHANGED vars
    BY <1>1 DEF vars, access, IInv, Types, AccessInv, Life
  <1>2. ASSUME NEW t \in Threads, GetStatsForHost(t) \/ Step(t) PROVE IInv'
    BY <1>2, ScrapeKeeps, FetchKeeps, EnterKeeps, AgainKeeps, LoginKeeps, CaptureKeeps,
       RenewKeeps, AnsweredKeeps DEF Step
  <1>3. QED
    BY <1>1, <1>2, StartKeeps, ExpireKeeps, RotateKeeps, DropKeeps, RestartKeeps, ReadLogKeeps
       DEF Next

LEMMA IInvAlways == Spec => []IInv
  BY InitIInv, NextIInv, PTL DEF Spec

-----------------------------------------------------------------------------
(* The variables have their types, and a request that talks to the host has  *)
(* one of the stubs of this life of the worker.                             *)
THEOREM TypeCorrect == Spec => []TypeOK
  <1>1. IInv => TypeOK
    <2> SUFFICES ASSUME IInv PROVE TypeOK
      OBVIOUS
    <2>1. secret \in 0..Bound["rotate"]
      BY BoundAssumption, KindsAre DEF IInv, Types
    <2>2. \A n \in DOMAIN stubs : stubs[n].authed \in BOOLEAN /\ stubs[n].live \in BOOLEAN
      <3>1. \A n \in DOMAIN stubs : stubs[n] \in Stub
        BY DEF IInv, Types
      <3>2. QED BY <3>1 DEF Stub
    <2>3. \A t \in Threads : th[t].pc \in {"check", "call", "renew"} =>
             th[t].stub \in DOMAIN stubs /\ th[t].left \in 1..Retries
      BY DEF IInv, Good, Talking
    <2>4. QED BY <2>1, <2>2, <2>3 DEF TypeOK, IInv, Types
  <1>2. QED BY <1>1, IInvAlways, PTL

(* A page of metrics is empty only when a call failed, when the host's       *)
(* secret was replaced since it was connected, or when as many sessions     *)
(* ended while the request went on as the stub has tries, but one.          *)
THEOREM EmptyIsJustified == Spec => []EmptyJustified
  <1>1. IInv => EmptyJustified
    BY DEF IInv, Good, Empty, EmptyJustified, At
  <1>2. QED BY <1>1, IInvAlways, PTL

(* Only the check of the token answers with 401.                             *)
LEMMA LocalCode ==
    ASSUME IInv, NEW u \in Threads, NEW e, Local(u, e), e.code \in {th[u].code, 0, 200, 404}
    PROVE  \A t \in Threads : th'[t].code \in {th[t].code, 0, 200, 404}
  BY DEF Local, IInv, Types

LEMMA StepCode ==
    ASSUME IInv, NEW u \in Threads, Step(u)
    PROVE  \A t \in Threads : th'[t].code \in {th[t].code, 0, 200, 404}
  <1>1. th[u] \in Thread /\ secret \in Nat /\ entry \in Nat
    BY OfThread DEF IInv, Types
  <1>2. /\ Goto(th[u], "again").code = th[u].code /\ Goto(Lose(th[u]), "again").code = th[u].code
        /\ Goto(th[u], "call").code = th[u].code /\ Goto(th[u], "renew").code = th[u].code
    BY <1>1, GotoIs, LoseIs DEF Stages
  <1>3. /\ NoPage(th[u], 404).code = 404 /\ NoPage(th[u], 200).code = 200
        /\ FullPage(th[u], 200).code = 200 /\ NoPage(Lose(th[u]), 200).code = 200
    BY <1>1, NoPageIs, FullPageIs, LoseIs DEF Codes
  <1>4. Use(th[u], entry).code = th[u].code
    BY <1>1, UseIs
  <1>5. [Goto(th[u], "enter") EXCEPT !.held = secret, !.asof = secret].code = th[u].code
    BY <1>1, GotoIs DEF Goto, Thread
  <1>6. [Goto(th[u], "check") EXCEPT !.left = @ - 1].code = th[u].code
    BY <1>1, GotoIs DEF Goto, Thread
  <1>7. CASE FetchVsanSharedSecret(u)
    BY <1>2, <1>5, <1>7, LocalCode DEF FetchVsanSharedSecret
  <1>8. CASE EnterHost(u)
    BY <1>2, <1>8, LocalCode DEF EnterHost
  <1>9. CASE LookAgain(u)
    <2>1. Local(u, NoPage(th[u], 404)) \/ Local(u, Use(th[u], entry))
      BY <1>9 DEF LookAgain, NoPage
    <2>2. QED BY <1>3, <1>4, <2>1, LocalCode
  <1>10. CASE Login(u)
    <2>1. Local(u, Goto(th[u], "call")) \/ Local(u, NoPage(Lose(th[u]), 200))
      BY <1>10 DEF Login, NoPage
    <2>2. QED BY <1>2, <1>3, <2>1, LocalCode
  <1>11. CASE CaptureInternalStats(u)
    <2>1. \/ Local(u, FullPage(th[u], 200)) \/ Local(u, Goto(th[u], "renew"))
          \/ Local(u, NoPage(Lose(th[u]), 200))
      BY <1>11 DEF CaptureInternalStats, NoPage, FullPage
    <2>2. QED BY <1>2, <1>3, <2>1, LocalCode
  <1>12. CASE Renew(u)
    <2> DEFINE e == [Goto(th[u], "check") EXCEPT !.left = @ - 1]
    <2>1. Local(u, NoPage(th[u], 200)) \/ Local(u, e)
      BY <1>12 DEF Renew, NoPage
    <2>2. e.code = th[u].code
      BY <1>6
    <2> HIDE DEF e
    <2>3. QED BY <1>3, <2>1, <2>2, LocalCode
  <1>13. CASE Answered(u)
    BY <1>13, IdleIs, LocalCode DEF Answered
  <1>14. QED BY <1>7, <1>8, <1>9, <1>10, <1>11, <1>12, <1>13 DEF Step

LEMMA RefusalStep ==
    ASSUME IInv, [Next]_vars, NEW t \in Threads, th'[t].code = 401, th[t].code # 401
    PROVE  state = "down" \/ (~given /\ read # Life)
  <1>1. ASSUME NEW u \in Threads, GetStatsForHost(u)
        PROVE  state = "down" \/ (~given /\ read # Life)
    <2>1. CASE token = None \/ token # known
      <3>1. state # "starting"
        BY <1>1 DEF GetStatsForHost
      <3>2. QED BY <2>1, <3>1 DEF IInv, Types, AccessInv
    <2>2. CASE ~(token = None \/ token # known)
      <3>1. entry \in Nat
        BY DEF IInv, Types
      <3>2. Goto(Idle, "fetch").code = 0 /\ Use(Idle, entry).code = 0
        <4>1. "fetch" \in Stages
          BY DEF Stages
        <4>2. Goto(Idle, "fetch").code = Idle.code
          BY <4>1, IdleIs, GotoIs
        <4>3. Use(Idle, entry).code = Idle.code
          BY <3>1, IdleIs, UseIs
        <4>4. QED BY <4>2, <4>3, IdleIs
      <3>3. Local(u, Goto(Idle, "fetch")) \/ Local(u, Use(Idle, entry))
        BY <1>1, <2>2 DEF GetStatsForHost
      <3>4. th'[t].code \in {th[t].code, 0, 200, 404}
        BY <3>2, <3>3, LocalCode
      <3>5. QED BY <3>4
    <2>3. QED BY <2>1, <2>2
  <1>2. ASSUME NEW n \in DOMAIN stubs, Expire(n) PROVE th'[t].code = th[t].code
    <2>1. th[t] \in Thread
      BY OfThread
    <2>2. [th[t] EXCEPT !.ended = @ + 1].code = th[t].code
      BY <2>1 DEF Thread
    <2>3. QED BY <1>2, <2>2 DEF Expire
  <1>3. Restart => th'[t].code = 0
    BY IdleIs DEF Restart
  <1>4. (ConnectOnStart \/ Rotate \/ Drop \/ ReadLog \/ UNCHANGED vars) => th'[t].code = th[t].code
    BY DEF ConnectOnStart, Rotate, Drop, ReadLog, vars
  <1>5. ASSUME NEW u \in Threads, Step(u) PROVE th'[t].code \in {th[t].code, 0, 200, 404}
    BY <1>5, StepCode
  <1>6. QED BY <1>1, <1>2, <1>3, <1>4, <1>5 DEF Next

(* A scrape is refused only while the connection on start has failed, or,    *)
(* without BEARER_TOKEN, as long as nobody has read this life's log: the    *)
(* token the administrator knows otherwise is the one the worker has.       *)
THEOREM RefusalIsJustified == Spec => RefusalJustified
  <1>1. IInv /\ [Next]_vars =>
          [\A t \in Threads : (th'[t].code = 401 /\ th[t].code # 401) =>
              state = "down" \/ (~given /\ read # Life)]_vars
    BY RefusalStep
  <1>2. QED BY <1>1, IInvAlways, PTL DEF Spec, RefusalJustified

=============================================================================

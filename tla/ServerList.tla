----------------------------- MODULE ServerList -----------------------------
(***************************************************************************)
(* What the sidecar promises to the reader of its list, whatever fails and *)
(* whoever dies: the list is a register that is written in one step, with  *)
(* the body decided on last and with that one at most once.  A process     *)
(* that gives up, or forgets what it decided, leaves the list as it was;   *)
(* an unreadable list is opened to others only while it is the one decided *)
(* on; Prometheus loads whole lists it may read, and no others.            *)
(***************************************************************************)
CONSTANTS Bodies, Lists, None

VARIABLES
    decided,   \* the body that is, or was, to become the list; None after a restart
    pending,   \* it is still to be written
    published, \* the list, None when there is none
    readable,  \* by Prometheus
    loaded     \* what Prometheus scrapes

lvars == <<decided, pending, published, readable, loaded>>

Init == /\ decided = None /\ published = None /\ loaded = None
        /\ ~pending /\ ~readable

Decide == /\ ~pending
          /\ decided' \in Bodies \ {decided}
          /\ pending'
          /\ UNCHANGED <<published, readable, loaded>>

Publish == /\ pending /\ ~pending'
           /\ published' = decided
           /\ ~readable'
           /\ UNCHANGED <<decided, loaded>>

Open == /\ ~pending
        /\ published = decided
        /\ readable'
        /\ UNCHANGED <<decided, pending, published, loaded>>

GiveUp == /\ pending /\ ~pending'
          /\ UNCHANGED <<decided, published, readable, loaded>>

Forget == /\ ~pending
          /\ decided' = None
          /\ UNCHANGED <<pending, published, readable, loaded>>

Load == /\ readable /\ published \in Lists
        /\ loaded' = published
        /\ UNCHANGED <<decided, pending, published, readable>>

Unload == /\ loaded' = None
          /\ UNCHANGED <<decided, pending, published, readable>>

Next == Decide \/ Publish \/ Open \/ GiveUp \/ Forget \/ Load \/ Unload
Spec == Init /\ [][Next]_lvars

=============================================================================

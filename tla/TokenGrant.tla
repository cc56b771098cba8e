----------------------------- MODULE TokenGrant -----------------------------
(***************************************************************************)
(* What setting up a token promises, whatever fails: a run's token replaces *)
(* the accepted one at most once; what is told to the administrator as a   *)
(* token has been accepted by then; and each run tells one thing, a token  *)
(* or a failure.  A failed run's token may still come to be accepted.      *)
(***************************************************************************)
CONSTANTS Runs, Initial

VARIABLES
    accepted, \* the token the cluster accepts
    granted,  \* the runs whose token was accepted at some time
    told,     \* the runs that printed their token
    failed    \* the runs that reported a failure

gvars == <<accepted, granted, told, failed>>

Init == accepted = Initial /\ granted = {} /\ told = {} /\ failed = {}

Grant == /\ \E r \in Runs \ granted : accepted' = r /\ granted' = granted \cup {r}
         /\ UNCHANGED <<told, failed>>

Tell == /\ \E r \in granted \ (told \cup failed) : told' = told \cup {r}
        /\ UNCHANGED <<accepted, granted, failed>>

Fail == /\ \E r \in Runs \ (told \cup failed) : failed' = failed \cup {r}
        /\ UNCHANGED <<accepted, granted, told>>

Next == Grant \/ Tell \/ Fail
Spec == Init /\ [][Next]_gvars

=============================================================================

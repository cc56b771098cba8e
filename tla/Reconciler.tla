----------------------------- MODULE Reconciler -----------------------------
(***************************************************************************)
(* What a set of reconcilers promises, whatever fails: each has a target,  *)
(* the set of names it wants published, or none, and a name appears only   *)
(* while some reconciler wants it and disappears only while some           *)
(* reconciler does not want it or is cleaning up.  No step ever moves the  *)
(* published names away from everybody's target.                           *)
(***************************************************************************)
CONSTANTS Reconcilers, Names

VARIABLES
    informed,  \* the reconcilers that have a target
    target,    \* reconciler |-> the names it wants, once it has a target
    cleaning,  \* the reconcilers that are cleaning up
    published  \* the names that are published

rvars == <<informed, target, cleaning, published>>

Init == /\ informed = {}
        /\ target = [r \in Reconcilers |-> {}]
        /\ cleaning = {}
        /\ published = {}

(* A reconciler learns of another target, or forgets the one it had.       *)
Retarget == /\ informed' \in SUBSET Reconcilers
            /\ target' \in [Reconcilers -> SUBSET Names]
            /\ UNCHANGED <<cleaning, published>>

(* A reconciler begins to clean up, or is done with it.                    *)
Clean == /\ cleaning' \in SUBSET Reconcilers
         /\ UNCHANGED <<informed, target, published>>

Publish == /\ \E n \in Names, r \in Reconcilers :
                 /\ r \in informed /\ n \in target[r]
                 /\ published' = published \cup {n}
           /\ UNCHANGED <<informed, target, cleaning>>

(* A name is dropped by who cleans up or has a target without it.          *)
Withdraw == /\ \E n \in Names, r \in Reconcilers :
                  /\ \/ r \in cleaning
                     \/ r \in informed /\ n \notin target[r]
                  /\ published' = published \ {n}
            /\ UNCHANGED <<informed, target, cleaning>>

Next == Retarget \/ Clean \/ Publish \/ Withdraw
Spec == Init /\ [][Next]_rvars

=============================================================================

--------------------------- MODULE PolicyRegister ---------------------------
(***************************************************************************)
(* What the policy cache promises, without its goroutines: each role has a *)
(* policy, and what is served for it is nothing (the policy is looked up   *)
(* afresh) or the policy, except while the role is marked as changed.  A   *)
(* mark says that a change is on its way, or that one was missed because   *)
(* it came while the policy was being loaded or its file watched again: a  *)
(* mark of the second kind lasts until a later change is dealt with, so    *)
(* nothing says that marks go away.  PolicyCache implements this           *)
(* (PolicyCache!Register).                                                 *)
(***************************************************************************)
CONSTANTS Role, Policy, None

VARIABLES
    policy,   \* the present policy of a role, None if it has none
    served,   \* what is kept in memory to answer from
    changed   \* whether a change is still to be dealt with, or was missed

rvars == <<policy, served, changed>>

Init ==
    /\ policy \in [Role -> Policy \cup {None}]
    /\ served = [r \in Role |-> None]
    /\ changed = [r \in Role |-> FALSE]

Current(r) == served[r] \in {None, policy[r]}

(* Someone edits the policy of r: if that makes what is served for r       *)
(* outdated, r is marked.                                                  *)
Edit(r) ==
    /\ \E p \in Policy \cup {None} : policy' = [policy EXCEPT ![r] = p]
    /\ \E b \in BOOLEAN : changed' = [changed EXCEPT ![r] = b]
    /\ UNCHANGED served
    /\ Current(r)' \/ changed'[r]

(* What is served changes; r can lose its mark if the result is current.   *)
Serve(r) ==
    /\ \E p \in Policy \cup {None} : served' = [served EXCEPT ![r] = p]
    /\ \E b \in BOOLEAN : changed' = [changed EXCEPT ![r] = b]
    /\ UNCHANGED policy
    /\ Current(r)' \/ changed'[r]

Next == \E r \in Role : Edit(r) \/ Serve(r)

Spec == Init /\ [][Next]_rvars
============================================================================

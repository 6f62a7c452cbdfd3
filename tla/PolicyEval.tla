----------------------------- MODULE PolicyEval -----------------------------
(***************************************************************************)
(* EvaluateAll and Evaluate of aws/service/iam/policy-evaluation.go: the   *)
(* statements of a policy are looked at one by one, for each of the actions*)
(* a request needs.                                                        *)
(***************************************************************************)
EXTENDS PolicyLanguage

CONSTANTS
    Policies,  \* the policies, sequences of statements
    Requests   \* the sequences of actions requests need

ASSUME PolicyEvalAssumption ==
    /\ \A pol \in Policies : \A n \in DOMAIN pol : pol[n].effect \in {"Allow", "Deny"}
    /\ Policies \subseteq Seq(UNION {{pol[n] : n \in DOMAIN pol} : pol \in Policies})
    /\ Requests \subseteq Seq(UNION {{acts[n] : n \in DOMAIN acts} : acts \in Requests})

VARIABLES
    pol,      \* the policy
    acts,     \* the actions
    k,        \* the action that is evaluated
    i,        \* the statement that is looked at next
    allowed,  \* isAllowed
    verdict   \* the result, "none" before

vars == <<pol, acts, k, i, allowed, verdict>>

(* Types: the loops stay within the policy and the actions.                *)
TypeOK ==
    /\ pol \in Policies /\ acts \in Requests
    /\ i \in 1 .. Len(pol) + 1
    /\ verdict \in {"none", "allowed", "denied", "error"}
    /\ verdict = "none" => k \in 1 .. Len(acts)
    /\ allowed \in BOOLEAN

(* EvaluateAll: at least one action is needed.                             *)
Init ==
    /\ pol \in Policies /\ acts \in Requests
    /\ k = 1 /\ i = 1
    /\ allowed = FALSE
    /\ verdict = IF acts = <<>> THEN "error" ELSE "none"

(* A statement that is not relevant is skipped.                            *)
Irrelevant ==
    /\ "no" \in Relevance(pol[i], acts[k])
    /\ UNCHANGED <<allowed, verdict>>

Fails ==
    /\ "error" \in Relevance(pol[i], acts[k])
    /\ allowed' = FALSE /\ verdict' = "error"

Allows ==
    /\ pol[i].effect = "Allow" /\ "yes" \in Relevance(pol[i], acts[k])
    /\ allowed' = TRUE /\ UNCHANGED verdict

(* Not the code: a later statement may allow what this one denies.         *)
DeniesForNow ==
    /\ pol[i].effect = "Deny" /\ "yes" \in Relevance(pol[i], acts[k])
    /\ allowed' = FALSE /\ UNCHANGED verdict

(* An explicit deny ends the evaluation.                                   *)
Denies ==
    /\ pol[i].effect = "Deny" /\ "yes" \in Relevance(pol[i], acts[k])
    /\ allowed' = FALSE /\ verdict' = "denied"

NextStatement ==
    /\ verdict = "none" /\ i <= Len(pol)
    /\ Irrelevant \/ Fails \/ Allows \/ Denies
    /\ i' = i + 1
    /\ UNCHANGED <<pol, acts, k>>

(* Not the code: the actions are counted from zero.                        *)
EndOfPolicyOffByOne ==
    /\ verdict = "none" /\ i > Len(pol)
    /\ \/ ~ allowed /\ verdict' = "denied" /\ UNCHANGED <<k, i, allowed>>
       \/ allowed /\ k <= Len(acts) /\ k' = k + 1 /\ i' = 1 /\ allowed' = FALSE /\ UNCHANGED verdict
    /\ UNCHANGED <<pol, acts>>

(* Not the code: isAllowed is not reset for the next action.               *)
EndOfPolicyNoReset ==
    /\ verdict = "none" /\ i > Len(pol)
    /\ \/ ~ allowed /\ verdict' = "denied" /\ UNCHANGED <<k, i, allowed>>
       \/ allowed /\ k = Len(acts) /\ verdict' = "allowed" /\ UNCHANGED <<k, i, allowed>>
       \/ allowed /\ k < Len(acts) /\ k' = k + 1 /\ i' = 1 /\ UNCHANGED <<allowed, verdict>>
    /\ UNCHANGED <<pol, acts>>

(* Evaluate ends.  All actions must be allowed.                            *)
EndOfPolicy ==
    /\ verdict = "none" /\ i > Len(pol)
    /\ \/ ~ allowed /\ verdict' = "denied" /\ UNCHANGED <<k, i, allowed>>
       \/ allowed /\ k = Len(acts) /\ verdict' = "allowed" /\ UNCHANGED <<k, i, allowed>>
       \/ allowed /\ k < Len(acts) /\ k' = k + 1 /\ i' = 1 /\ allowed' = FALSE /\ UNCHANGED verdict
    /\ UNCHANGED <<pol, acts>>

Next == NextStatement \/ EndOfPolicy

Spec == Init /\ [][Next]_vars

----------------------------------------------------------------------------
(* Properties                                                              *)

(* The verdict is what the policy means, whatever the order of its         *)
(* statements and conditions: allowed if each action is allowed by some    *)
(* statement and denied by none, an error only where there can be one.     *)
VerdictIsMeaning ==
    /\ verdict = "allowed" => acts # <<>> /\ \A n \in DOMAIN acts : Permits(pol, acts[n])
    /\ verdict = "denied" => \E n \in DOMAIN acts : ~ Permits(pol, acts[n])
    /\ verdict = "error" => acts = <<>> \/ \E n \in DOMAIN acts : MayFail(pol, acts[n])

(* No action is allowed to which a statement that denies it applies, by    *)
(* what is documented of wildcards and of keys without a value, wherever   *)
(* that statement is and whatever else the policy says.  What Applies      *)
(* leaves out are the values for which StringNotLike does not hold only    *)
(* because iamStringLike finds a pattern within them: there a deny that is *)
(* documented does not hold.                                               *)
ApplyingDenyHolds ==
    verdict = "allowed" =>
        ~ \E n \in DOMAIN pol, m \in DOMAIN acts : pol[n].effect = "Deny" /\ Applies(pol[n], acts[m])

(* What a loop has found so far: the strengthening of VerdictIsMeaning     *)
(* that each statement preserves.                                          *)
SoFar ==
    verdict = "none" =>
        /\ \A n \in 1 .. k - 1 : Permits(pol, acts[n])
        /\ \A n \in 1 .. i - 1 : ~ (pol[n].effect = "Deny" /\ "yes" \in Relevance(pol[n], acts[k]))
        /\ allowed <=> \E n \in 1 .. i - 1 :
                          pol[n].effect = "Allow" /\ "yes" \in Relevance(pol[n], acts[k])

IInv == TypeOK /\ SoFar /\ VerdictIsMeaning
============================================================================

--------------------------- MODULE PolicyLanguage ---------------------------
(***************************************************************************)
(* What the statements of a policy say of an action:                       *)
(* aws/service/iam/policy-evaluation.go and policy-iam-action.go.          *)
(*                                                                         *)
(* A string is a sequence of characters.  A statement has an effect, sets  *)
(* of patterns for actions and resources, and conditions: for an operator, *)
(* for each of the keys it names, a set of patterns.  An action has a name,*)
(* a resource, and the values of the condition keys known for it, its      *)
(* context; each key has one value.                                        *)
(***************************************************************************)
EXTENDS Integers, Sequences

Newline == "\n"

----------------------------------------------------------------------------
(* Matching                                                                *)

(* What the regular expression for character c of a pattern matches, from  *)
(* after position i of s up to j: a dot matches no newline.                *)
Piece(c, s, i, j) ==
    CASE c = "*" -> i <= j /\ \A n \in i + 1 .. j : s[n] # Newline
      [] c = "?" -> j = i + 1 /\ s[j] # Newline
      [] OTHER   -> j = i + 1 /\ s[j] = c

(* The ways to find pattern p in s: where each of its characters ends.     *)
Occurrences(p, s) ==
    {f \in [0 .. Len(p) -> 0 .. Len(s)] : \A n \in 1 .. Len(p) : Piece(p[n], s, f[n - 1], f[n])}

(* regexp.MatchString looks for the pattern anywhere in the string.        *)
IamStringLike(p, s) == Occurrences(p, s) # {}

(* What AWS documents, for strings without newlines: the pattern describes *)
(* the whole string.                                                       *)
DescribesAll(p, s) == \E f \in Occurrences(p, s) : f[0] = 0 /\ f[Len(p)] = Len(s)

----------------------------------------------------------------------------
(* Conditions                                                              *)

(* Not the code: a key without a value is left out of consideration.       *)
EvalStringLikeIfExists(details, context) ==
    \A key \in DOMAIN details :
        key \in DOMAIN context => \E p \in details[key] : IamStringLike(p, context[key])

(* evalStringLike                                                          *)
EvalStringLike(details, context) ==
    \A key \in DOMAIN details :
        key \in DOMAIN context /\ \E p \in details[key] : IamStringLike(p, context[key])

Supported == {"StringLike", "StringNotLike"}

(* isConditionMetForOperator, for a supported operator                     *)
IsConditionMet(operator, details, context) ==
    EvalStringLike(details, context) <=> operator = "StringLike"

(* isRelevantFor: "yes", "no" or "error".  The conditions are looked at in *)
(* the order of a Go map, which is any order, up to the first that is not  *)
(* met or not supported.                                                   *)
InScope(s, a) ==
    /\ \E p \in s.actions : p = a.name \/ IamStringLike(p, a.name)
    /\ \E p \in s.resources : IamStringLike(p, a.resource)
Unsupported(s) == DOMAIN s.condition \ Supported
Unmet(s, a) ==
    {o \in DOMAIN s.condition \cap Supported : ~ IsConditionMet(o, s.condition[o], a.context)}

Relevance(s, a) ==
    IF ~ InScope(s, a) THEN {"no"}
    ELSE IF Unsupported(s) = {} /\ Unmet(s, a) = {} THEN {"yes"}
    ELSE {"error" : o \in Unsupported(s)} \cup {"no" : o \in Unmet(s, a)}

----------------------------------------------------------------------------
(* Actions                                                                 *)

(* addGenericSessionContextKeys: of region, subject and issuer only those  *)
(* that are not empty; the other keys of a session are its tags.           *)
GenericContext(session) ==
    LET known(k) == k \in {"aws:RequestedRegion", "claims:sub", "claims:iss"} => session[k] # <<>>
    IN  [k \in {k \in DOMAIN session : known(k)} |-> session[k]]

(* NewIamAction and AddContext                                             *)
NewIamAction(name, resource, session, extra) ==
    LET generic == GenericContext(session)
    IN  [name |-> name, resource |-> resource,
         context |-> [k \in DOMAIN generic \cup DOMAIN extra |->
                         IF k \in DOMAIN extra THEN extra[k] ELSE generic[k]]]

----------------------------------------------------------------------------
(* What a policy means                                                     *)

Some(pol, effect, a, relevance) ==
    \E n \in DOMAIN pol : pol[n].effect = effect /\ relevance \in Relevance(pol[n], a)

(* Allowed by some statement and denied by none.                           *)
Permits(pol, a) == Some(pol, "Allow", a, "yes") /\ ~ Some(pol, "Deny", a, "yes")

(* The order of the conditions or of the statements decides whether there  *)
(* is an error.                                                            *)
MayFail(pol, a) == \E e \in {"Allow", "Deny"} : Some(pol, e, a, "error")

(* A statement that certainly applies: its patterns describe the whole     *)
(* strings, as is documented, and StringNotLike holds if a key has no value*)
(* (policy-evaluation_test.go, the comment at line 173), or one in which   *)
(* none of the patterns is found.  By the documentation it holds as well   *)
(* for a value in which a pattern is found that does not describe all of   *)
(* it; the code, which does not anchor patterns, has it otherwise.         *)
Satisfied(operator, details, context) ==
    \/ /\ operator = "StringLike"
       /\ \A key \in DOMAIN details :
             key \in DOMAIN context /\ \E p \in details[key] : DescribesAll(p, context[key])
    \/ /\ operator = "StringNotLike"
       /\ \E key \in DOMAIN details :
             key \in DOMAIN context => \A p \in details[key] : ~ IamStringLike(p, context[key])

Applies(s, a) ==
    /\ \E p \in s.actions : DescribesAll(p, a.name)
    /\ \E p \in s.resources : DescribesAll(p, a.resource)
    /\ \A o \in DOMAIN s.condition : Satisfied(o, s.condition[o], a.context)
============================================================================

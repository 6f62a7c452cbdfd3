-------------------------- MODULE PolicyEvalProofs --------------------------
(***************************************************************************)
(* Theorems about PolicyEval, for every set of policies and of requests:   *)
(* the evaluation gives what the policy means.                             *)
(***************************************************************************)
EXTENDS PolicyEval, TLAPS

(* Policies and requests are sequences.                                    *)
LEMMA Sequential ==
    ASSUME TypeOK
    PROVE  /\ Len(pol) \in Nat /\ DOMAIN pol = 1 .. Len(pol)
           /\ Len(acts) \in Nat /\ DOMAIN acts = 1 .. Len(acts)
           /\ \A n \in 1 .. Len(pol) : pol[n].effect \in {"Allow", "Deny"}
<1>1. pol \in Seq(UNION {{p[n] : n \in DOMAIN p} : p \in Policies})
  BY PolicyEvalAssumption DEF TypeOK
<1>2. acts \in Seq(UNION {{r[n] : n \in DOMAIN r} : r \in Requests})
  BY PolicyEvalAssumption DEF TypeOK
<1>. QED
  BY <1>1, <1>2, PolicyEvalAssumption DEF TypeOK

(* A statement says one thing of an action, unless it can fail.            *)
LEMMA OneRelevance ==
    ASSUME NEW s, NEW a
    PROVE  "yes" \in Relevance(s, a) => "no" \notin Relevance(s, a) /\ "error" \notin Relevance(s, a)
BY DEF Relevance

(* At the start nothing has been found.                                    *)
LEMMA InitIInv == Init => IInv
<1>. SUFFICES ASSUME Init
              PROVE  IInv
  OBVIOUS
<1>0. /\ acts \in Seq(UNION {{r[n] : n \in DOMAIN r} : r \in Requests})
      /\ pol \in Seq(UNION {{p[n] : n \in DOMAIN p} : p \in Policies})
  BY PolicyEvalAssumption DEF Init
<1>1. TypeOK
  <2>1. Len(pol) \in Nat /\ Len(acts) \in Nat
    BY <1>0
  <2>2. acts # <<>> => 1 \in 1 .. Len(acts)
    BY <1>0
  <2>3. allowed \in BOOLEAN
    BY DEF Init
  <2>4. i \in 1 .. Len(pol) + 1 /\ (verdict = "none" => k \in 1 .. Len(acts))
    BY <2>1, <2>2 DEF Init
  <2>5. verdict \in {"none", "allowed", "denied", "error"}
    BY DEF Init
  <2>. QED
    BY <2>3, <2>4, <2>5 DEF Init, TypeOK
<1>2. SoFar
  BY DEF Init, SoFar
<1>3. VerdictIsMeaning
  BY DEF Init, VerdictIsMeaning
<1>. QED
  BY <1>1, <1>2, <1>3 DEF IInv

(* Evaluate considers one more statement.                                  *)
LEMMA NextStatementIInv ==
    ASSUME IInv, NextStatement
    PROVE  IInv'
<1>0. TypeOK /\ SoFar /\ verdict = "none"
  BY DEF IInv, NextStatement
<1>1. /\ Len(pol) \in Nat /\ DOMAIN pol = 1 .. Len(pol)
      /\ Len(acts) \in Nat /\ DOMAIN acts = 1 .. Len(acts)
  BY <1>0, Sequential
<1>2. /\ i \in 1 .. Len(pol) /\ i' = i + 1 /\ k \in 1 .. Len(acts)
      /\ pol' = pol /\ acts' = acts /\ k' = k
  BY <1>0, <1>1 DEF NextStatement, TypeOK
<1>3. pol[i].effect \in {"Allow", "Deny"}
  BY <1>0, <1>2, Sequential
<1> DEFINE Yes(n) == "yes" \in Relevance(pol[n], acts[k])
<1>4. /\ \A n \in 1 .. k - 1 : Permits(pol, acts[n])
      /\ \A n \in 1 .. i - 1 : ~ (pol[n].effect = "Deny" /\ Yes(n))
      /\ allowed <=> \E n \in 1 .. i - 1 : pol[n].effect = "Allow" /\ Yes(n)
  BY <1>0 DEF SoFar
<1>5. \A n \in 1 .. i' - 1 : n \in 1 .. i - 1 \/ n = i
  BY <1>2
<1>6. 1 .. i - 1 \subseteq 1 .. i' - 1 /\ i \in 1 .. i' - 1
  BY <1>2
<1>7. i' \in 1 .. Len(pol') + 1
  BY <1>1, <1>2
<1>8. CASE Irrelevant
  <2>1. ~ Yes(i)
    BY <1>8, OneRelevance DEF Irrelevant
  <2>2. allowed' = allowed /\ verdict' = "none"
    BY <1>8, <1>0 DEF Irrelevant
  <2>3. SoFar'
    <3>1. \A n \in 1 .. i' - 1 : ~ (pol[n].effect = "Deny" /\ Yes(n))
      BY <2>1, <1>4, <1>5
    <3>2. allowed <=> \E n \in 1 .. i' - 1 : pol[n].effect = "Allow" /\ Yes(n)
      BY <2>1, <1>4, <1>5, <1>6
    <3>. HIDE DEF Yes
    <3>. QED
      BY <3>1, <3>2, <2>2, <1>2, <1>4 DEF SoFar, Yes
  <2>4. allowed' \in BOOLEAN
    BY <2>2, <1>0 DEF TypeOK
  <2>5. TypeOK'
    BY <2>2, <2>4, <1>0, <1>7, <1>2 DEF TypeOK
  <2>6. VerdictIsMeaning'
    BY <2>2 DEF VerdictIsMeaning
  <2>. QED
    BY <2>3, <2>5, <2>6 DEF IInv
<1>9. CASE Fails
  <2>1. MayFail(pol, acts[k])
    BY <1>9, <1>1, <1>2, <1>3 DEF Fails, MayFail, Some
  <2>2. verdict' = "error" /\ allowed' = FALSE
    BY <1>9 DEF Fails
  <2>3. TypeOK'
    BY <2>2, <1>0, <1>7, <1>2 DEF TypeOK
  <2>4. SoFar' /\ VerdictIsMeaning'
    BY <2>1, <2>2, <1>1, <1>2 DEF SoFar, VerdictIsMeaning
  <2>. QED
    BY <2>3, <2>4 DEF IInv
<1>10. CASE Allows
  <2>1. pol[i].effect = "Allow" /\ Yes(i) /\ allowed' = TRUE /\ verdict' = "none"
    BY <1>10, <1>0 DEF Allows
  <2>2. SoFar'
    <3>1. \A n \in 1 .. i' - 1 : ~ (pol[n].effect = "Deny" /\ Yes(n))
      BY <2>1, <1>4, <1>5
    <3>2. \E n \in 1 .. i' - 1 : pol[n].effect = "Allow" /\ Yes(n)
      BY <2>1, <1>6
    <3>. QED
      BY <3>1, <3>2, <2>1, <1>2, <1>4 DEF SoFar
  <2>3. TypeOK' /\ VerdictIsMeaning'
    BY <2>1, <1>0, <1>1, <1>2 DEF TypeOK, VerdictIsMeaning
  <2>. QED
    BY <2>2, <2>3 DEF IInv
<1>11. CASE Denies
  <2>1. ~ Permits(pol, acts[k])
    BY <1>11, <1>1, <1>2 DEF Denies, Permits, Some
  <2>2. verdict' = "denied" /\ allowed' = FALSE
    BY <1>11 DEF Denies
  <2>3. TypeOK'
    BY <2>2, <1>0, <1>7, <1>2 DEF TypeOK
  <2>4. SoFar' /\ VerdictIsMeaning'
    BY <2>1, <2>2, <1>1, <1>2 DEF SoFar, VerdictIsMeaning
  <2>. QED
    BY <2>3, <2>4 DEF IInv
<1>. QED
  BY <1>8, <1>9, <1>10, <1>11 DEF NextStatement

(* The last statement was considered: the policy permits the action just if*)
(* isAllowed, and EvaluateAll ends or takes the next action.               *)
LEMMA EndOfPolicyIInv ==
    ASSUME IInv, EndOfPolicy
    PROVE  IInv'
<1>0. TypeOK /\ SoFar /\ verdict = "none"
  BY DEF IInv, EndOfPolicy
<1>1. /\ Len(pol) \in Nat /\ DOMAIN pol = 1 .. Len(pol)
      /\ Len(acts) \in Nat /\ DOMAIN acts = 1 .. Len(acts)
  BY <1>0, Sequential
<1>2. i = Len(pol) + 1 /\ k \in 1 .. Len(acts) /\ pol' = pol /\ acts' = acts
  BY <1>0, <1>1 DEF EndOfPolicy, TypeOK
<1>3. 1 .. i - 1 = DOMAIN pol
  BY <1>1, <1>2
<1>4. /\ \A n \in 1 .. k - 1 : Permits(pol, acts[n])
      /\ allowed <=> Permits(pol, acts[k])
  BY <1>0, <1>3 DEF SoFar, Permits, Some
<1>5. CASE ~ allowed /\ verdict' = "denied" /\ UNCHANGED <<k, i, allowed>>
  BY <1>5, <1>0, <1>1, <1>2, <1>4 DEF IInv, TypeOK, SoFar, VerdictIsMeaning
<1>6. CASE allowed /\ k = Len(acts) /\ verdict' = "allowed" /\ UNCHANGED <<k, i, allowed>>
  <2>1. \A n \in DOMAIN acts : Permits(pol, acts[n])
    <3>. SUFFICES ASSUME NEW n \in 1 .. k
                  PROVE  Permits(pol, acts[n])
      BY <1>6, <1>1
    <3>1. n \in 1 .. k - 1 \/ n = k
      BY <1>2
    <3>. QED
      BY <3>1, <1>4, <1>6
  <2>2. acts # <<>>
    BY <1>2
  <2>. QED
    BY <2>1, <2>2, <1>6, <1>0, <1>1, <1>2 DEF IInv, TypeOK, SoFar, VerdictIsMeaning
<1>7. CASE allowed /\ k < Len(acts) /\ k' = k + 1 /\ i' = 1 /\ allowed' = FALSE /\ UNCHANGED verdict
  <2>1. \A n \in 1 .. k' - 1 : n \in 1 .. k - 1 \/ n = k
    BY <1>7, <1>2
  <2>2. \A n \in 1 .. k' - 1 : Permits(pol, acts[n])
    BY <2>1, <1>4, <1>7
  <2>3. 1 .. i' - 1 = {}
    BY <1>7
  <2>4. SoFar'
    BY <2>2, <2>3, <1>7, <1>2 DEF SoFar
  <2>5. k' \in 1 .. Len(acts) /\ i' \in 1 .. Len(pol) + 1
    BY <1>7, <1>1, <1>2
  <2>6. TypeOK'
    BY <2>5, <1>7, <1>0, <1>2 DEF TypeOK
  <2>7. VerdictIsMeaning'
    BY <1>7, <1>0 DEF VerdictIsMeaning
  <2>. QED
    BY <2>4, <2>6, <2>7 DEF IInv
<1>. QED
  BY <1>5, <1>6, <1>7 DEF EndOfPolicy

(* Every step keeps the inductive invariant.                               *)
LEMMA NextIInv == IInv /\ [Next]_vars => IInv'
<1>. SUFFICES ASSUME IInv, [Next]_vars
              PROVE  IInv'
  OBVIOUS
<1>1. CASE NextStatement
  BY <1>1, NextStatementIInv
<1>2. CASE EndOfPolicy
  BY <1>2, EndOfPolicyIInv
<1>3. CASE UNCHANGED vars
  BY <1>3 DEF vars, IInv, TypeOK, SoFar, VerdictIsMeaning
<1>. QED
  BY <1>1, <1>2, <1>3 DEF Next

(* For all policies and requests, with any number of statements and        *)
(* actions, Evaluate and EvaluateAll give what the policy means.           *)
THEOREM EvaluationIsMeaning == Spec => []VerdictIsMeaning
<1>1. IInv => VerdictIsMeaning
  BY DEF IInv
<1>. QED
  BY <1>1, InitIInv, NextIInv, PTL DEF Spec

(* The indices stay within the policy and the actions (EvaluateAll).       *)
THEOREM EvaluationTypes == Spec => []TypeOK
<1>1. IInv => TypeOK
  BY DEF IInv
<1>. QED
  BY <1>1, InitIInv, NextIInv, PTL DEF Spec

(* What the loop remembers (allowed) is what the statements and actions    *)
(* that it has passed say.                                                 *)
THEOREM LoopInvariant == Spec => []SoFar
<1>1. IInv => SoFar
  BY DEF IInv
<1>. QED
  BY <1>1, InitIInv, NextIInv, PTL DEF Spec

(* A pattern that describes a whole string is found in it.                 *)
LEMMA DescribedIsFound ==
    ASSUME NEW p, NEW s, DescribesAll(p, s)
    PROVE  IamStringLike(p, s)
BY DEF DescribesAll, IamStringLike

(* A statement that applies is relevant, whatever the order in which its   *)
(* conditions are looked at.                                               *)
LEMMA ApplyingIsRelevant ==
    ASSUME NEW s, NEW a, Applies(s, a)
    PROVE  "yes" \in Relevance(s, a)
<1>1. InScope(s, a)
  BY DescribedIsFound DEF Applies, InScope
<1>2. ASSUME NEW o \in DOMAIN s.condition
      PROVE  o \in Supported /\ IsConditionMet(o, s.condition[o], a.context)
  <2>1. Satisfied(o, s.condition[o], a.context)
    BY <1>2 DEF Applies
  <2>2. CASE o = "StringLike"
    <3>1. EvalStringLike(s.condition[o], a.context)
      BY <2>1, <2>2, DescribedIsFound DEF Satisfied, EvalStringLike
    <3>. QED
      BY <3>1, <2>2 DEF IsConditionMet, Supported
  <2>3. CASE o = "StringNotLike"
    <3>1. ~ EvalStringLike(s.condition[o], a.context)
      BY <2>1, <2>3 DEF Satisfied, EvalStringLike
    <3>. QED
      BY <3>1, <2>3 DEF IsConditionMet, Supported
  <2>. QED
    BY <2>1, <2>2, <2>3 DEF Satisfied
<1>3. Unsupported(s) = {} /\ Unmet(s, a) = {}
  BY <1>2 DEF Unsupported, Unmet
<1>. QED
  BY <1>1, <1>3 DEF Relevance

(* An action is never allowed that a statement denies which applies to it: *)
(* its patterns describe the whole strings, or, of StringNotLike, one key  *)
(* has no value or one in which none of its patterns is found.             *)
THEOREM DenyIsRespected == Spec => []ApplyingDenyHolds
<1>1. VerdictIsMeaning => ApplyingDenyHolds
  BY ApplyingIsRelevant DEF VerdictIsMeaning, ApplyingDenyHolds, Permits, Some
<1>. QED
  BY <1>1, EvaluationIsMeaning, PTL

----------------------------------------------------------------------------
(* What makes a statement relevant                                         *)

(* A statement may be relevant just if it is in scope and its conditions   *)
(* are all supported and met.                                              *)
LEMMA RelevantIs ==
    ASSUME NEW s, NEW a
    PROVE  "yes" \in Relevance(s, a) <=>
              /\ InScope(s, a)
              /\ \A o \in DOMAIN s.condition :
                    o \in Supported /\ IsConditionMet(o, s.condition[o], a.context)
<1>1. Unsupported(s) = {} <=> \A o \in DOMAIN s.condition : o \in Supported
  BY DEF Unsupported
<1>2. ASSUME Unsupported(s) = {}
      PROVE  Unmet(s, a) = {} <=>
                \A o \in DOMAIN s.condition : IsConditionMet(o, s.condition[o], a.context)
  BY <1>1, <1>2 DEF Unmet
<1>3. "yes" \in Relevance(s, a) <=> InScope(s, a) /\ Unsupported(s) = {} /\ Unmet(s, a) = {}
  BY DEF Relevance
<1>. QED
  BY <1>1, <1>2, <1>3

(* A condition more makes a statement relevant for no more actions: it     *)
(* narrows what is allowed, and as well what is denied (isRelevantFor).    *)
THEOREM ConditionsNarrow ==
    ASSUME NEW s, NEW t, NEW a,
           t.actions = s.actions, t.resources = s.resources,
           DOMAIN s.condition \subseteq DOMAIN t.condition,
           \A o \in DOMAIN s.condition : t.condition[o] = s.condition[o],
           "yes" \in Relevance(t, a)
    PROVE  "yes" \in Relevance(s, a)
<1>1. InScope(s, a) <=> InScope(t, a)
  BY Zenon DEF InScope
<1>. QED
  BY <1>1, RelevantIs

(* EvaluateAll allows nothing by default: for each action there has to be a*)
(* statement that allows it, matches its name and its resource, and all of *)
(* whose conditions are supported and met; so that StringLike is no use for*)
(* a key of which the session has no value (isConditionMetForOperator).    *)
AllowedIsGranted ==
    verdict = "allowed" => acts # <<>> /\ \A m \in DOMAIN acts : \E n \in DOMAIN pol :
        /\ pol[n].effect = "Allow"
        /\ InScope(pol[n], acts[m])
        /\ DOMAIN pol[n].condition \subseteq Supported
        /\ "StringLike" \in DOMAIN pol[n].condition =>
              DOMAIN pol[n].condition["StringLike"] \subseteq DOMAIN acts[m].context

(* What is allowed is granted by statements, of any policy (EvaluateAll).   *)
THEOREM NothingByDefault == Spec => []AllowedIsGranted
<1>1. ASSUME NEW s, NEW a, "yes" \in Relevance(s, a)
      PROVE  /\ InScope(s, a) /\ DOMAIN s.condition \subseteq Supported
             /\ "StringLike" \in DOMAIN s.condition =>
                   DOMAIN s.condition["StringLike"] \subseteq DOMAIN a.context
  <2>1. /\ InScope(s, a)
        /\ \A o \in DOMAIN s.condition :
              o \in Supported /\ IsConditionMet(o, s.condition[o], a.context)
    BY <1>1, RelevantIs
  <2>2. ASSUME "StringLike" \in DOMAIN s.condition
        PROVE  EvalStringLike(s.condition["StringLike"], a.context)
    BY <2>1, <2>2 DEF IsConditionMet
  <2>. QED
    BY <2>1, <2>2 DEF EvalStringLike
<1>2. VerdictIsMeaning => AllowedIsGranted
  <2>. SUFFICES ASSUME VerdictIsMeaning, verdict = "allowed", NEW m \in DOMAIN acts
                PROVE  \E n \in DOMAIN pol :
                          /\ pol[n].effect = "Allow"
                          /\ InScope(pol[n], acts[m])
                          /\ DOMAIN pol[n].condition \subseteq Supported
                          /\ "StringLike" \in DOMAIN pol[n].condition =>
                                DOMAIN pol[n].condition["StringLike"] \subseteq DOMAIN acts[m].context
    BY DEF VerdictIsMeaning, AllowedIsGranted
  <2>1. PICK n \in DOMAIN pol : pol[n].effect = "Allow" /\ "yes" \in Relevance(pol[n], acts[m])
    BY DEF VerdictIsMeaning, Permits, Some
  <2>. QED
    BY <1>1, <2>1
<1>. QED
  BY <1>2, EvaluationIsMeaning, PTL

----------------------------------------------------------------------------
(* What a pattern is found in                                              *)

(* iamStringLike does not anchor its regular expression: what is found in a*)
(* string is found in each longer one, whatever is before and after it.    *)
THEOREM FoundAnywhere ==
    ASSUME NEW T, NEW p, NEW s \in Seq(T), NEW before \in Seq(T), NEW after \in Seq(T),
           Len(p) \in Nat, IamStringLike(p, s)
    PROVE  IamStringLike(p, before \o s \o after)
<1> DEFINE long == before \o s \o after
           b == Len(before)
<1>1. PICK f \in [0 .. Len(p) -> 0 .. Len(s)] :
          \A n \in 1 .. Len(p) : Piece(p[n], s, f[n - 1], f[n])
  BY DEF IamStringLike, Occurrences
<1> DEFINE g == [n \in 0 .. Len(p) |-> f[n] + b]
<1>2. /\ b \in Nat /\ Len(s) \in Nat /\ Len(long) = b + Len(s) + Len(after) /\ Len(after) \in Nat
      /\ \A n \in 1 .. Len(s) : long[n + b] = s[n]
  OBVIOUS
<1>. HIDE DEF long, b
<1>3. g \in [0 .. Len(p) -> 0 .. Len(long)]
  BY <1>2
<1>4. ASSUME NEW c, NEW x \in 0 .. Len(s), NEW y \in 0 .. Len(s), Piece(c, s, x, y)
      PROVE  Piece(c, long, x + b, y + b)
  <2>1. x \in Int /\ y \in Int /\ 0 <= x /\ y <= Len(s)
    BY <1>2
  <2>2. CASE c = "*"
    <3>1. x <= y /\ \A n \in x + 1 .. y : s[n] # Newline
      BY <1>4, <2>2 DEF Piece
    <3>2. ASSUME NEW n \in x + b + 1 .. y + b
          PROVE  long[n] # Newline
      <4>1. n - b \in x + 1 .. y /\ n - b \in 1 .. Len(s) /\ n - b + b = n
        BY <1>2, <2>1
      <4>. QED
        BY <1>2, <3>1, <4>1
    <3>. QED
      BY <1>2, <2>1, <2>2, <3>1, <3>2 DEF Piece
  <2>3. CASE c # "*"
    <3>1. y = x + 1 /\ (IF c = "?" THEN s[y] # Newline ELSE s[y] = c)
      BY <1>4, <2>3 DEF Piece
    <3>2. y \in 1 .. Len(s)
      BY <1>2, <2>1, <3>1
    <3>3. long[y + b] = s[y] /\ y + b = x + b + 1
      BY <1>2, <2>1, <3>1, <3>2
    <3>. QED
      BY <2>3, <3>1, <3>3 DEF Piece
  <2>. QED
    BY <2>2, <2>3
<1>5. ASSUME NEW n \in 1 .. Len(p)
      PROVE  Piece(p[n], long, g[n - 1], g[n])
  <2>1. n \in 0 .. Len(p) /\ n - 1 \in 0 .. Len(p)
    OBVIOUS
  <2>2. f[n - 1] \in 0 .. Len(s) /\ f[n] \in 0 .. Len(s) /\ Piece(p[n], s, f[n - 1], f[n])
    BY <1>1, <2>1
  <2>3. Piece(p[n], long, f[n - 1] + b, f[n] + b)
    BY <1>4, <2>2
  <2>. QED
    BY <2>1, <2>3
<1>. HIDE DEF g
<1>6. IamStringLike(p, long)
  BY <1>3, <1>5 DEF IamStringLike, Occurrences
<1>. QED
  BY <1>6 DEF long

(* A text of one line is found where it is written, taken as a pattern,    *)
(* also if wildcards are part of it (iamStringLike).                       *)
THEOREM TextIsFound ==
    ASSUME NEW T, NEW s \in Seq(T)
    PROVE  (\A n \in 1 .. Len(s) : s[n] # Newline) => IamStringLike(s, s)
<1>. SUFFICES ASSUME \A n \in 1 .. Len(s) : s[n] # Newline
              PROVE  IamStringLike(s, s)
  OBVIOUS
<1> DEFINE f == [n \in 0 .. Len(s) |-> n]
<1>1. f \in [0 .. Len(s) -> 0 .. Len(s)]
  OBVIOUS
<1>2. ASSUME NEW n \in 1 .. Len(s)
      PROVE  Piece(s[n], s, f[n - 1], f[n])
  <2>1. f[n - 1] = n - 1 /\ f[n] = n /\ n = n - 1 + 1 /\ n - 1 <= n
    OBVIOUS
  <2>2. \A m \in n - 1 + 1 .. n : m = n
    OBVIOUS
  <2>. QED
    BY <2>1, <2>2 DEF Piece
<1>. QED
  BY <1>1, <1>2 DEF IamStringLike, Occurrences

(* "*" is found in every string, whatever lines it has (iamStringLike).    *)
THEOREM StarIsFound ==
    ASSUME NEW T, NEW s \in Seq(T)
    PROVE  IamStringLike(<<"*">>, s)
<1> DEFINE f == [n \in 0 .. 1 |-> 0]
<1>1. f \in [0 .. Len(<<"*">>) -> 0 .. Len(s)]
  OBVIOUS
<1>2. Piece("*", s, 0, 0)
  BY DEF Piece
<1>3. ASSUME NEW n \in 1 .. Len(<<"*">>)
      PROVE  Piece(<<"*">>[n], s, f[n - 1], f[n])
  <2>1. n = 1
    OBVIOUS
  <2>. QED
    BY <1>2, <2>1
<1>. QED
  BY <1>1, <1>3 DEF IamStringLike, Occurrences
============================================================================

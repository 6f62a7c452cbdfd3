------------------------------- MODULE MCSTS -------------------------------
(***************************************************************************)
(* Small instances of STS for TLC: seconds of 2 units, durations that wrap *)
(* around at 16, sessions of 1 to 3 seconds; two providers, one of them    *)
(* named like the iss of the other.                                        *)
(***************************************************************************)
EXTENDS STS, TLC

CONSTANTS r1, good, junk, noTime

MCProvider == {"kc", "idp"}
MCIss == "kc" :> "https://kc" @@ "idp" :> "kc"
MCProviderKey == "kc" :> "kcKey" @@ "idp" :> "idpKey"

Usual ==
    [form |-> "exchange", key |-> "kcKey", iss |-> "https://kc", sub |-> "joe",
     nbf |-> 0, exp |-> 2, asked |-> "number", seconds |-> 2, role |-> r1]

(* The usual request, and what differs from it in one respect; 17, -15 and *)
(* 24 seconds wrap around.                                                 *)
OneOff ==
    {Usual}
    \cup {[Usual EXCEPT !.form = f] : f \in {"other", "version", "get"}}
    \cup {[Usual EXCEPT !.key = k, !.iss = i] :
             k \in {"kcKey", "idpKey"}, i \in {"https://kc", "kc", "idp", "", "nobody"}}
    \cup {[Usual EXCEPT !.key = "strange"], [Usual EXCEPT !.sub = ""], [Usual EXCEPT !.nbf = 1],
          [Usual EXCEPT !.exp = 1], [Usual EXCEPT !.exp = noTime], [Usual EXCEPT !.asked = "absent"],
          [Usual EXCEPT !.asked = "junk"]}
    \cup {[Usual EXCEPT !.seconds = n] : n \in {-15, 0, 1, 3, 4, 16, 17, 24}}
============================================================================

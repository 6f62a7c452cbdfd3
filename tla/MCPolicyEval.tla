---------------------------- MODULE MCPolicyEval ----------------------------
(***************************************************************************)
(* A small instance of PolicyEval for TLC: actions g, p and gx, objects in *)
(* the bucket b, the regions e and f; policies of up to two statements, for*)
(* requests with no, one or two actions.                                   *)
(***************************************************************************)
EXTENDS PolicyEval, TLC

Region == "aws:RequestedRegion"
Subject == "claims:sub"

Conditions ==
    {<<>>,
     "StringLike" :> (Region :> {<<"e">>}),
     "StringNotLike" :> (Region :> {<<"*">>} @@ Subject :> {<<"*", "j">>}),
     "StringLike" :> ("s3:prefix" :> {<<"b", "*">>}),
     "StringEquals" :> (Region :> {<<"e">>}) @@ "StringLike" :> (Subject :> {<<"j">>})}

Statements ==
    [effect : {"Allow", "Deny"}, actions : {{<<"g">>}, {<<"?", "x">>, <<"p">>}},
     resources : {{<<"b", "*">>}}, condition : Conditions]
        \cup [effect : {"Deny"}, actions : {{<<"*">>}}, resources : {{<<"?", "c">>}},
              condition : {<<>>}]

MCPolicies == UNION {[1 .. n -> Statements] : n \in 0 .. 2}

Sessions ==
    {Region :> <<"e">> @@ Subject :> <<"j">>,
     Region :> <<"e">> @@ Subject :> <<"j", "k">>,
     Region :> <<"e">> @@ Subject :> <<"k">>,
     Region :> <<>> @@ Subject :> <<"j", "k">>,
     Region :> <<"f">> @@ Subject :> <<>>,
     Region :> <<>> @@ Subject :> <<>>}

Actions ==
    {NewIamAction(n, r, s, <<>>) : n \in {<<"g">>, <<"g", "x">>},
                                   r \in {<<"b">>, <<"b", "c">>}, s \in Sessions}
        \cup {NewIamAction(<<"p">>, <<"b", Newline>>, s, "s3:prefix" :> <<"b">>) : s \in Sessions}

MCRequests ==
    {<<>>} \cup {<<a>> : a \in Actions}
        \cup {<<NewIamAction(<<"g">>, <<"b">>, s, <<>>), NewIamAction(<<"p">>, <<"b">>, s, "s3:prefix" :> <<"b">>)>>
                 : s \in Sessions}
============================================================================

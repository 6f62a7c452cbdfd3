----------------------------- MODULE MCSessions -----------------------------
(***************************************************************************)
(* A small instance of Sessions for TLC: the requests to the STS proxy of  *)
(* MCSTS; to an S3 proxy with one backend reads and writes, with each kind *)
(* of authentication.                                                      *)
(***************************************************************************)
EXTENDS Sessions, MCSTS

MCGrants == [p \in Policy |-> IF p = good THEN {"s3:GetObject", "s3:PutObject"} \X Regions ELSE {}]

Sends(names) == [n \in S3Inputs!Name |-> IF n \in names THEN <<"client">> ELSE <<>>]

Signs(auth) ==
    IF auth = "header" THEN {"X-Amz-Security-Token", "X-Amz-Date", "X-Amz-Content-Sha256"} ELSE {}

InEu == [shape |-> "ok", region |-> "eu"]

MCUses ==
    {[op |-> o, auth |-> a, authorization |-> InEu, credential |-> InEu,
      wellFormed |-> TRUE, headersOk |-> TRUE, genuine |-> TRUE, bound |-> TRUE,
      exp |-> MaxTime, signedFor |-> S3Inputs!Method[o], urlExp |-> MaxTime,
      sendable |-> TRUE, payer |-> FALSE, query |-> S3Inputs!AuthParams[a],
      headers |-> Sends(Signs(a) \cup IF a = "header" THEN {"Authorization"} ELSE {}),
      signed |-> Sends(Signs(a)), role |-> r1]
        : o \in {"GetObject", "PutObject"}, a \in {"header", "v4", "v1"}}

(* One kind is enough, of those that are checked least: reads by URL.      *)
MCForged ==
    {[r EXCEPT !.genuine = FALSE] : r \in {x \in MCUses : x.op = "GetObject" /\ x.auth = "v4"}}

(* Sessions of one second, and those for as long as one gets if one asks   *)
(* for nothing.                                                            *)
MCUsing == {[Usual EXCEPT !.seconds = 1], [Usual EXCEPT !.asked = "absent"]}
=============================================================================

----------------------------- MODULE HeaderOps -----------------------------
(***************************************************************************)
(* What the proxy does to the headers of a request around a signature      *)
(* (presign/header-operations.go): those that nobody it trusts has signed  *)
(* are taken out while a signature is calculated and put back afterwards.  *)
(* The headers of a request are a function from their canonical names to   *)
(* the values given for each, in order, <<>> if it is absent; a value is   *)
(*    "client", "other"   something a client sends                         *)
(*    "streaming"         STREAMING-UNSIGNED-PAYLOAD-TRAILER               *)
(*    "proxy"             what the proxy or its signer puts there          *)
(***************************************************************************)
EXTENDS Sequences

Value == {"client", "other", "streaming", "proxy"}

(* The names that some code looks at, and Range for all others.  A server  *)
(* of Go's library has moved Host elsewhere; the proxy adds it again.      *)
Name == {"Authorization", "X-Amz-Security-Token", "X-Amz-Date", "X-Amz-Content-Sha256",
         "X-Amz-Request-Payer", "Content-Length", "Range", "Host"}

Headers == [Name -> Seq(Value)]

NoHeaders == [n \in Name |-> <<>>]

Present(h) == {n \in Name : h[n] # <<>>}

----------------------------------------------------------------------------
(* Del, Set and Add of http.Header, and Del of all but some names.         *)
Del(h, n) == [h EXCEPT ![n] = <<>>]
Keep(h, names) == [n \in Name |-> IF n \in names THEN h[n] ELSE <<>>]
Set(h, n, v) == [h EXCEPT ![n] = <<v>>]
Add(h, n, v) == [h EXCEPT ![n] = Append(@, v)]

(* The value that Get returns, as the only one.                            *)
First(values) == IF values = <<>> THEN <<>> ELSE <<Head(values)>>

----------------------------------------------------------------------------
(* alwaysSignHeaders: the names that are never taken out                   *)
AlwaysSign == {"X-Amz-Content-Sha256", "X-Amz-Request-Payer", "Host", "Authorization"}

(* Not the code: a header is remembered before it is looked at whether it  *)
(* is kept.                                                                *)
RemovedAll(h, keep) == [n \in Name |-> First(h[n])]

(* temporaryRemoveHeaders remembers the first value of each header that it *)
(* takes out of h ...                                                      *)
Removed(h, keep) == [n \in Name |-> IF n \in keep THEN <<>> ELSE First(h[n])]

(* ... and reAddHeaders adds it to what h is by then.                      *)
ReAdd(h, removed) == [n \in Name |-> h[n] \o removed[n]]

----------------------------------------------------------------------------
(* The signer of the AWS SDK: it fills in the date, unless SignWithCreds   *)
(* found one, and the token of the credentials, <<>> if they have none; its*)
(* signature covers all headers there are but Authorization.               *)
Prepared(h, token) ==
    [h EXCEPT !["X-Amz-Date"] = IF @ = <<>> THEN <<"proxy">> ELSE First(@),
              !["X-Amz-Security-Token"] = IF token = <<>> THEN @ ELSE token]

Covered(h) == Del(h, "Authorization")
============================================================================

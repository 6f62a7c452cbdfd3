------------------------------- MODULE Access -------------------------------
(***************************************************************************)
(* What the STS proxy and the S3 proxy promise together: the backends are  *)
(* only used in sessions.  A session is for one role and its lifetime, set *)
(* when it is granted, is within limits; a use of a backend answers a      *)
(* request that came in before the session of its role expired, or, for    *)
(* uses that are lenient, not long after.  Sessions implements it.         *)
(***************************************************************************)
EXTENDS Integers

CONSTANTS
    Role,       \* the roles of sessions
    Lifetime,   \* how long a session may last
    Grace       \* how long after it a lenient use may be asked for

VARIABLES
    sessions,   \* those granted: their role, and when they expire
    uses,       \* those made: their role, when asked for, and if lenient
    now         \* the clock

avars == <<sessions, uses, now>>

Init == sessions = {} /\ uses = {} /\ now = 0

Grant ==
    /\ \E role \in Role, l \in Lifetime :
          sessions' = sessions \cup {[role |-> role, exp |-> now + l]}
    /\ UNCHANGED <<uses, now>>

(* The request of a use came in at some time before.                       *)
Use ==
    /\ \E s \in sessions, t \in 0 .. now, lenient \in BOOLEAN :
          /\ t < s.exp + IF lenient THEN Grace ELSE 0
          /\ uses' = uses \cup {[role |-> s.role, at |-> t, lenient |-> lenient]}
    /\ UNCHANGED <<sessions, now>>

Tick == now' = now + 1 /\ UNCHANGED <<sessions, uses>>

Next == Grant \/ Use \/ Tick

Spec == Init /\ [][Next]_avars
=============================================================================

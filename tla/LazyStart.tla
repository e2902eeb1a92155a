----------------------------- MODULE LazyStart -----------------------------
(***************************************************************************)
(* What a lazily started application promises, without locks or contexts:  *)
(* it is started at most once, no request reaches it before that, and no   *)
(* request reaches it twice.                                               *)
(***************************************************************************)
EXTENDS Integers

CONSTANT Requests

VARIABLES
    starts,     \* times the application has been started
    reached     \* requests it has been given

Init == starts = 0 /\ reached = {}

Start ==
    /\ starts = 0
    /\ starts' = 1
    /\ UNCHANGED reached

Reach(r) ==
    /\ starts = 1
    /\ r \notin reached
    /\ reached' = reached \cup {r}
    /\ UNCHANGED starts

\* The request that starts the application is the first it is given.
StartAndReach(r) ==
    /\ starts = 0
    /\ starts' = 1
    /\ reached' = {r}

Next == Start \/ \E r \in Requests : Reach(r) \/ StartAndReach(r)

Spec == Init /\ [][Next]_<<starts, reached>>
=============================================================================

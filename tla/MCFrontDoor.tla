---------------------------- MODULE MCFrontDoor ----------------------------
(* Small instances of FrontDoor for TLC. *)
EXTENDS FrontDoor, TLC

CONSTANTS r1, r2, r3, k1, k2

\* A session that outlives the instance and two that expire in it.
Signed(k, exp) == [alg |-> "asymmetric", kid |-> k, exp |-> exp,
                   genuine |-> TRUE, subject |-> TRUE]
MCTokens == {Signed(k1, 99), Signed(k2, 2),
             [Signed(k1, 1) EXCEPT !.alg = "HS256"]}
=============================================================================

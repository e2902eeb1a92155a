------------------------------- MODULE MCUsage -------------------------------
(* Small instances of Usage for TLC. *)
EXTENDS Usage, TLC

CONSTANTS u1, u2, w1, w2, w3

MCSymmetry == Permutations(Workers) \cup Permutations(Users)
=============================================================================

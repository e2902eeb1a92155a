----------------------------- MODULE MCAdmission -----------------------------
(* Small instances of Admission for TLC. *)
EXTENDS Admission, TLC

CONSTANTS u1, u2, u3, w1, w2

MCSymmetry == Permutations(Users) \cup Permutations(Workers)
=============================================================================

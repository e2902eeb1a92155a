----------------------------- MODULE MCTaxonomy -----------------------------
(* Small instances of Taxonomy for TLC. *)
EXTENDS Taxonomy, TLC

CONSTANTS h1, h2, h3, c1, c2

MCSymmetry == Permutations(Conns) \cup Permutations(Handlers \ BatchHandlers)
=============================================================================

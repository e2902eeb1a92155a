------------------------------ MODULE MCCloset ------------------------------
(* Small instances of Closet for TLC. *)
EXTENDS Closet, TLC

CONSTANTS u1, u2, w1, w2, i1, i2, i3, i4, i5

(* Three of the seeded categories: a hat may say it is waterproof, a scarf *)
(* has no such field, and shoes must say their shoe_type.                  *)
MCTemplate == {<<"hat", "plain">>, <<"hat", "waterproof">>, <<"scarf", "plain">>,
               <<"shoes", "sneaker">>}

Hat   == [category |-> "hat", fields |-> "plain"]
Scarf == [category |-> "scarf", fields |-> "waterproof"]   \* not a scarf's field

MCSingles == {Hat, Scarf}
MCHats    == {Hat}
MCBatches == {<<Hat, Hat>>, <<Scarf, Hat>>}
NoBatches == {}
NoEdits   == {}

(* Turn the item into a scarf; say that it is waterproof. *)
MCEdits == {[category |-> "scarf", fields |-> Keep],
            [category |-> Keep, fields |-> "waterproof"]}

MCSymmetry == Permutations(Workers) \cup Permutations(ItemIds) \cup Permutations(Users)
=============================================================================

----------------------------- MODULE MCWebCloset -----------------------------
(* Three items fill the closet; a page holds two.  A hat may say whether it *)
(* is waterproof; the oldest one says it is not.                            *)
EXTENDS WebCloset

MCTemplate == [hat |-> {"waterproof"}, jeans |-> {}]
MCTrimmed == [text \in {"warm", "warm "} |-> "warm"]
Waterproof(flag) == [waterproof |-> flag]
Garment(id, kind, notes, fields) ==
    [id |-> id, kind |-> kind, notes |-> notes, fields |-> fields]
MCInitRows == <<Garment(3, "hat", None, Waterproof(TRUE)),
                Garment(2, "jeans", "warm ", NoFields),
                Garment(1, "hat", None, Waterproof(FALSE))>>
MCWrites == {[fields |-> Waterproof(FALSE)],
             [kind |-> "jeans", notes |-> None, fields |-> NoFields]}
=============================================================================

---------------------------- MODULE MCMarketArchive ----------------------------
(* Two callers over three observations: the first two are due at once, the    *)
(* third one tick later, when the first lease ends.                           *)
EXTENDS MarketArchive, TLC

Captures == [r \in Rows |-> IF r <= 2 THEN -2 ELSE -1]
Symmetry == Permutations(Workers)
=============================================================================

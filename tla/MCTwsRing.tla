----------------------------- MODULE MCTwsRing -----------------------------
(* Instances of TwsRing for TLC. *)
EXTENDS TwsRing

CONSTANTS left, right, p1, p2

TwoBuds == {left, right}
BothPhones == {p1, p2}
Swaps == Permutations(TwoBuds) \cup Permutations(BothPhones)
=============================================================================

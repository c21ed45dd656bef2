---------------------------- MODULE MCTwoPhones ----------------------------
(* Instances of TwoPhones for TLC. *)
EXTENDS TwoPhones

CONSTANTS p1, p2

Both == {p1, p2}
EitherPhone == Permutations(Both)
=============================================================================

------------------------------ MODULE MCTwsTone ------------------------------
(* Instances of TwsTone for TLC. *)
EXTENDS TwsTone

CONSTANTS left, right

TwoBuds == {left, right}
=============================================================================

---------------------------- MODULE MCTwsPoweroff ----------------------------
(* Instances of TwsPoweroff for TLC. *)
EXTENDS TwsPoweroff

CONSTANTS l, r

OneBud == {l}
TwoBuds == {l, r}
=============================================================================

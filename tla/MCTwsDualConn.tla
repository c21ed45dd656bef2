---------------------------- MODULE MCTwsDualConn ----------------------------
(* Instances of TwsDualConn for TLC. *)
EXTENDS TwsDualConn

CONSTANTS l, r, p1, p2

OneBud == {l}
TwoBuds == {l, r}
OnePhone == {p1}
TwoPhones == {p1, p2}

\* The two buds run the same code: swapping them maps behaviours to behaviours.
EitherBud == Permutations(TwoBuds)

NoneOrOne == {<<>>, <<p1>>}
UpToTwo == {<<>>, <<p1>>, <<p1, p2>>}
=============================================================================

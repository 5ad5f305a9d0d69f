-------------------------- MODULE MCBackgroundPool --------------------------
(* BackgroundPool on small instances.                                      *)
EXTENDS BackgroundPool

CONSTANTS w1, w2, q1, q2, q3

TwoWorkers   == {w1, w2}
ThreeQueries == {q1, q2, q3}
=============================================================================

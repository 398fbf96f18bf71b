--------------------------- MODULE MCStripeRelay ---------------------------
(* Model values for StripeRelay. *)
EXTENDS StripeRelay, TLC

CONSTANTS e1, e2, w1, w2

MCEvents == {e1, e2}
MCWorkers == {w1, w2}

MCSymmetry == Permutations(MCEvents) \cup Permutations(MCWorkers)
=============================================================================

------------------------------ MODULE MCOutbox ------------------------------
(* Model values for Outbox. *)
EXTENDS Outbox, TLC

CONSTANTS e1, e2, r1, r2

MCEventsOne == {e1}
MCEventsTwo == {e1, e2}
MCRelays == {r1, r2}

MCSymmetry == Permutations(MCEventsTwo) \cup Permutations(MCRelays)
=============================================================================

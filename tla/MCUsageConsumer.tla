-------------------------- MODULE MCUsageConsumer --------------------------
(* Two copies of one event, for two workers. *)
EXTENDS UsageConsumer, TLC

CONSTANTS e1, m1, m2, w1, w2

MCEvents == {e1}
MCEntries == {m1, m2}
MCEventOf == m1 :> e1 @@ m2 :> e1
MCTwoWorkers == {w1, w2}
MCConcurrency == w1 :> 2 @@ w2 :> 1
=============================================================================

--------------------------- MODULE MCTranscodeJob ---------------------------
(* Model values for TranscodeJob. *)
EXTENDS TranscodeJob, TLC

CONSTANTS a1, a2, w1, w2, m1, m2

MCOneRequester == {a1}
MCTwoRequesters == {a1, a2}
MCOneWorker == {w1}
MCTwoWorkers == {w1, w2}
MCTwoEntries == {m1, m2}

MCSymmetry == Permutations(MCTwoWorkers) \cup Permutations(MCTwoEntries)
=============================================================================

------------------------------ MODULE MCPlayer ------------------------------
(* Two videos, both with subtitles. *)
EXTENDS Player, TLC

CONSTANTS v1, v2

MCVideos == {v1, v2}
MCSymmetry == Permutations(MCVideos)
=============================================================================

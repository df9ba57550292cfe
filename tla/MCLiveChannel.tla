--------------------------- MODULE MCLiveChannel ---------------------------
(* LiveChannel for TLC: two channels and places for three lines, so that a *)
(* line that came back, the wanted one and a third are there at once.      *)
EXTENDS LiveChannel
=============================================================================

-------------------------- MODULE MCHeatmapEngine --------------------------
(***************************************************************************)
(* HeatmapEngine for TLC.  Counts and capacity are scaled down: with a      *)
(* capacity of 3, window totals of 1, 2 and 3 reach all three classes.      *)
(***************************************************************************)
EXTENDS HeatmapEngine

CONSTANTS z1, z2

ZoneSymmetry == Permutations({z1, z2})
=============================================================================

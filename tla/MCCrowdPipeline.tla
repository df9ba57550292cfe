--------------------------- MODULE MCCrowdPipeline ---------------------------
(***************************************************************************)
(* CrowdPipeline for TLC: two gates, one attendee, one socket; a count of 1 *)
(* of a capacity of 2 is green, two of them red.                            *)
(***************************************************************************)
EXTENDS CrowdPipeline
=============================================================================

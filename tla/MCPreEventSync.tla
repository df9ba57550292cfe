-------------------------- MODULE MCPreEventSync --------------------------
(* PreEventSync for TLC: two calls at once, so that every pair of awaits   *)
(* meets, and two rows, so that a table can be replaced in part.           *)
EXTENDS PreEventSync
=============================================================================

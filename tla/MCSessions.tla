------------------------------ MODULE MCSessions ------------------------------
(* TLC instance of Sessions: two requests and the refreshes of an app that    *)
(* may be killed once.                                                       *)
EXTENDS Sessions, TLC
=============================================================================

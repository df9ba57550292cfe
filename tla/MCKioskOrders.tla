--------------------------- MODULE MCKioskOrders ---------------------------
(***************************************************************************)
(* KioskOrders for TLC: two orders, and three requests in progress, so that *)
(* a stale one can outlive two others.                                     *)
(***************************************************************************)
EXTENDS KioskOrders
=============================================================================

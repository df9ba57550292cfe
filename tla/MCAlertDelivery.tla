-------------------------- MODULE MCAlertDelivery --------------------------
(* AlertDelivery for TLC: two notices to one attendee, one payload heard   *)
(* by up to three runs at a time.                                          *)
EXTENDS AlertDelivery, TLC

CONSTANTS r1, r2, r3

ReceiptsSymmetry == Permutations({r1, r2, r3})
=============================================================================

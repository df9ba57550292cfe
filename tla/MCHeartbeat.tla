---------------------------- MODULE MCHeartbeat ----------------------------
(***************************************************************************)
(* HeartbeatMonitor for TLC: two sensors, an interval of two ticks and     *)
(* checks that may last two, so that three of them overlap.                *)
(***************************************************************************)
EXTENDS HeartbeatMonitor
=============================================================================

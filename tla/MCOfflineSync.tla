---------------------------- MODULE MCOfflineSync ----------------------------
(* TLC instance of OfflineSync: an SOS and a report the server takes, and an *)
(* SOS, replayed before the report, that it refuses.                        *)
EXTENDS OfflineSync, TLC

CONSTANTS sos, report, refused

TypeRank == sos :> 1 @@ report :> 2 @@ refused :> 1
AllButRefused == sos :> TRUE @@ report :> TRUE @@ refused :> FALSE
=============================================================================

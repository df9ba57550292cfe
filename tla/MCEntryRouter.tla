---------------------------- MODULE MCEntryRouter ----------------------------
(***************************************************************************)
(* EntryRouter for TLC: three gates that are green or red, two of which may *)
(* turn red in one message, an attendee who reconnects, and two messages    *)
(* handled at once.                                                        *)
(***************************************************************************)
EXTENDS EntryRouter

TwoLevels == {[count |-> 1, status |-> "green"], [count |-> 9, status |-> "red"]}
=============================================================================

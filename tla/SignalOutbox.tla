---------------------------- MODULE SignalOutbox ----------------------------
(***************************************************************************)
(* What the app promises about an emergency signal it could not send: it   *)
(* owes the signal until the server has taken it, and sends one again only *)
(* when it cannot know that it was taken                                   *)
(* (apps/mobile/src/screens/SOSScreen.tsx, "Queue SOS offline in sync      *)
(* queue").  OfflineSync is shown to implement it.                         *)
(***************************************************************************)
EXTENDS Naturals

CONSTANT Signals

VARIABLES
    owed,       \* the signals the app has promised and the server has not seen
    copies,     \* copies[s]: how often the server took s
    doubted     \* the signals of which the app does not know that they were taken

outboxVars == <<owed, copies, doubted>>

Init ==
    /\ owed = {}
    /\ copies = [s \in Signals |-> 0]
    /\ doubted = {}

Promise(s) ==
    /\ copies[s] = 0
    /\ owed' = owed \cup {s}
    /\ UNCHANGED <<copies, doubted>>

\* The server takes the signals of S; of those unheard the answer is lost.
Deliver(S, unheard) ==
    /\ \A s \in S : copies[s] = 0 \/ s \in doubted
    /\ copies' = [s \in Signals |-> copies[s] + IF s \in S THEN 1 ELSE 0]
    /\ owed' = owed \ S
    /\ doubted' = doubted \cup unheard

\* The app has the answer and fails to note it.
Forget(s) ==
    /\ copies[s] > 0
    /\ doubted' = doubted \cup {s}
    /\ UNCHANGED <<owed, copies>>

Next ==
    \/ \E s \in Signals : Promise(s) \/ Forget(s)
    \/ \E S \in SUBSET Signals : \E unheard \in SUBSET S : Deliver(S, unheard)

Spec == Init /\ [][Next]_outboxVars
=============================================================================

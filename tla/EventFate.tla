----------------------------- MODULE EventFate -----------------------------
(***************************************************************************)
(* What the recovery loop promises about every revenue event, whatever     *)
(* happens inside it: its status only moves forward, it ends once, and the *)
(* ledger holds an entry for exactly the treated events that ended         *)
(* RECOVERED.  One step is one committed transaction, which may move many  *)
(* events and may move one of them more than once.                         *)
(***************************************************************************)
EXTENDS JourneyStates

CONSTANTS Events, Control

VARIABLES fate, ledger

EventSettled == {"RECOVERED", "LOST"}

\* Where one transaction may take the status of an event.
Later(e, status) ==
    {status} \cup
    IF e \in Control
    THEN IF status \in {"AT_RISK", "SUPPRESSED"}
         THEN EventSettled \cup {"SUPPRESSED"} ELSE {}
    ELSE CASE status = "AT_RISK"     -> EventStatus
           [] status = "IN_RECOVERY" -> EventSettled \cup {"SUPPRESSED"}
           [] OTHER                  -> {}

Booked == {e \in Events \ Control : fate[e] = "RECOVERED"}

Init ==
    /\ fate = [e \in Events |-> "AT_RISK"]
    /\ ledger = {}

Transaction ==
    /\ fate' \in [Events -> EventStatus]
    /\ \A e \in Events : fate'[e] \in Later(e, fate[e])
    /\ ledger' = Booked'

Next == Transaction

Spec == Init /\ [][Next]_<<fate, ledger>>
=============================================================================

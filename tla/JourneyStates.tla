--------------------------- MODULE JourneyStates ---------------------------
(***************************************************************************)
(* The vocabularies of the recovery loop (core/constants.py) and the       *)
(* journey state machine (services/journey.py).  A state machine is a      *)
(* function from a state to the set of its successors; NO_JOURNEY stands   *)
(* for an event for which no journey row exists.                           *)
(***************************************************************************)

EventStatus == {"AT_RISK", "IN_RECOVERY", "RECOVERED", "LOST", "SUPPRESSED"}

ActionStatus == {"PLANNED", "AWAITING_APPROVAL", "APPROVED", "EXECUTING",
                 "SUCCEEDED", "FAILED", "BLOCKED", "CANCELLED", "SKIPPED"}

JourneyState == {"DETECTED", "ANALYZING", "PLANNED", "AWAITING_APPROVAL",
                 "APPROVED", "EXECUTING", "VERIFYING", "RECOVERED", "CLOSED",
                 "BLOCKED", "FAILED", "PAUSED", "EXPIRED"}

TERMINAL_JOURNEY_STATES ==
    {"RECOVERED", "CLOSED", "BLOCKED", "FAILED", "EXPIRED"}

\* What can_transition answers from a state that no journey is ever in.
NO_JOURNEY == "NO_JOURNEY"

ALLOWED_TRANSITIONS ==
    [s \in JourneyState |->
        CASE s = "DETECTED"  -> {"ANALYZING", "BLOCKED", "CLOSED"}
          [] s = "ANALYZING" -> {"PLANNED", "CLOSED", "BLOCKED", "RECOVERED"}
          [] s = "PLANNED"   -> {"AWAITING_APPROVAL", "EXECUTING", "BLOCKED",
                                 "FAILED", "PAUSED", "CLOSED", "EXPIRED"}
          [] s = "AWAITING_APPROVAL" ->
                 {"APPROVED", "BLOCKED", "CLOSED", "EXPIRED", "PAUSED"}
          [] s = "APPROVED"  -> {"EXECUTING", "AWAITING_APPROVAL", "BLOCKED",
                                 "FAILED", "PAUSED", "CLOSED"}
          [] s = "EXECUTING" -> {"VERIFYING", "FAILED", "BLOCKED", "PAUSED",
                                 "CLOSED"}
          [] s = "VERIFYING" -> {"RECOVERED", "PLANNED", "AWAITING_APPROVAL",
                                 "FAILED", "CLOSED", "EXPIRED", "PAUSED"}
          [] s = "PAUSED"    -> {"PLANNED", "CLOSED", "EXPIRED", "APPROVED"}
          [] s = "RECOVERED" -> {"CLOSED"}
          [] s = "FAILED"    -> {"CLOSED", "PLANNED"}
          [] s = "BLOCKED"   -> {"CLOSED", "PLANNED"}
          [] s = "EXPIRED"   -> {"CLOSED"}
          [] s = "CLOSED"    -> {}]

\* (mutants) A closed journey can be planned again; a paused one never expires.
can_transition_reopens(current, target) ==
    \/ target \in ALLOWED_TRANSITIONS[current]
    \/ current = "CLOSED" /\ target = "PLANNED"
can_transition_unexpired(current, target) ==
    /\ target \in ALLOWED_TRANSITIONS[current]
    /\ current = "PAUSED" => target # "EXPIRED"

can_transition(current, target) == target \in ALLOWED_TRANSITIONS[current]

\* transition() accepts a move to the state the journey is already in, and
\* raises InvalidTransitionError when can_transition refuses.
MayMove(current, target) ==
    current = target \/ can_transition(current, target)

is_open(state) == state \in JourneyState \ TERMINAL_JOURNEY_STATES
=============================================================================

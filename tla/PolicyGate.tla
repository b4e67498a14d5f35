----------------------------- MODULE PolicyGate -----------------------------
(***************************************************************************)
(* The guardrail check of services/policy.py.  evaluate() is a pure        *)
(* function of the action, the policy row, the event, the customer, what   *)
(* the journey has already spent and the clock.  All of that is one record *)
(* here, a member of GateInput: counters are kept as numbers because the   *)
(* rules compare them with limits, and every comparison of a date, an hour *)
(* or an amount in paise is kept as its Boolean outcome.                   *)
(*                                                                         *)
(*   enabled, paused   automation_enabled; policy or journey paused        *)
(*   recovered         event.status is RECOVERED                           *)
(*   opted_out         customer.opted_out                                  *)
(*   contacts, retries what the event carried in plus what was used        *)
(*   npci, discounts, voice   what was used                                *)
(*   cooldown, quiet   _in_cooldown; quiet hours enforced and in force     *)
(*   peak              execution_window_guard and 10:00 <= IST < 13:00     *)
(*   degraded          degraded route and degradation_retry_guard          *)
(*   cause             layer of the root cause                             *)
(*   pdn               no pre-debit notice, one inside or one past         *)
(*                     pdn_lead_hours (which is positive)                  *)
(*   large, large_voice, large_discount   amounts at their threshold       *)
(***************************************************************************)
EXTENDS Naturals

CONSTANTS max_contacts, max_retries, max_discount_offers, max_voice_attempts,
          npci_max_attempts

ASSUME PolicyLimits ==
    /\ max_contacts \in Nat
    /\ max_retries \in Nat
    /\ max_discount_offers \in Nat
    /\ max_voice_attempts \in Nat
    /\ npci_max_attempts \in Nat

ActionType ==
    {"DO_NOTHING", "RETRY_PAYMENT", "PAYMENT_LINK", "ALT_PAYMENT_METHOD",
     "WHATSAPP", "SMS", "EMAIL", "VOICE", "DISCOUNT", "HUMAN_ESCALATION",
     "PROMISE_FOLLOWUP", "REREGISTER_MANDATE", "AMEND_MANDATE_CAP",
     "SEND_PDN", "SWITCH_RAIL"}

consumes_contact(action) ==
    action \notin {"DO_NOTHING", "RETRY_PAYMENT", "HUMAN_ESCALATION"}

touches_gateway(action) ==
    action \in {"RETRY_PAYMENT", "PAYMENT_LINK", "ALT_PAYMENT_METHOD",
                "REREGISTER_MANDATE", "AMEND_MANDATE_CAP", "SWITCH_RAIL"}

PolicyVerdict == {"ALLOW", "REQUIRE_APPROVAL", "BLOCK"}

\* EXECUTION_WINDOW_MISS is a regulatory cause that the futility rule exempts.
CauseClass == {"REGULATORY", "EXECUTION_WINDOW_MISS", "OTHER"}

PdnClass == {"NONE", "RECENT", "SERVED"}

GateInput ==
    [enabled: BOOLEAN, paused: BOOLEAN, recovered: BOOLEAN,
     opted_out: BOOLEAN, contacts: Nat, retries: Nat, npci: Nat,
     discounts: Nat, voice: Nat, cooldown: BOOLEAN, quiet: BOOLEAN,
     peak: BOOLEAN, degraded: BOOLEAN, cause: CauseClass, pdn: PdnClass,
     large: BOOLEAN, large_voice: BOOLEAN, large_discount: BOOLEAN]

\* Returned on its own, before any other rule is looked at.
RetryFutile(action, g) ==
    action = "RETRY_PAYMENT" /\ g.cause = "REGULATORY"

\* Without a notice only a regulatory cause asks for one; a notice that was
\* sent always has to be old enough.
PdnUnmet(g) ==
    IF g.pdn = "NONE" THEN g.cause # "OTHER" ELSE g.pdn = "RECENT"

\* Every rule that blocks, with the condition under which it does.
Blocks(action, g) ==
    LET retry   == action = "RETRY_PAYMENT"
        contact == consumes_contact(action)
        When(condition, rule) == IF condition THEN {rule} ELSE {}
    IN  UNION {
          When(retry /\ g.npci >= npci_max_attempts, "NPCI_BUDGET_EXHAUSTED"),
          When(retry /\ g.peak, "OUTSIDE_EXECUTION_WINDOW"),
          When(retry /\ PdnUnmet(g), "PDN_PRECONDITION_UNMET"),
          When(~g.enabled, "AUTOMATION_DISABLED"),
          When(g.paused, "JOURNEY_PAUSED"),
          When(g.recovered, "ALREADY_RECOVERED"),
          When(contact /\ g.opted_out, "CUSTOMER_OPTED_OUT"),
          When(contact /\ g.contacts >= max_contacts,
               "CONTACT_BUDGET_EXHAUSTED"),
          When(contact /\ g.cooldown, "COOLDOWN_ACTIVE"),
          When(contact /\ g.quiet, "QUIET_HOURS"),
          When(retry /\ g.retries >= max_retries, "RETRY_BUDGET_EXHAUSTED"),
          When(retry /\ g.degraded, "DEGRADATION_ACTIVE"),
          When(action = "DISCOUNT" /\ g.discounts >= max_discount_offers,
               "DISCOUNT_BUDGET_EXHAUSTED"),
          When(action = "VOICE" /\ g.voice >= max_voice_attempts,
               "VOICE_BUDGET_EXHAUSTED")}

\* The rules that ask for a human, looked at only when nothing blocks.  Only
\* a DISCOUNT has a discount percentage (decision._discount_pct).
NeedsApproval(action, g) ==
    \/ touches_gateway(action) /\ g.large
    \/ action = "DISCOUNT" /\ g.large_discount
    \/ action = "VOICE" /\ g.large_voice
    \/ action = "HUMAN_ESCALATION"

\* (mutant) The blocking rules are collected and never returned.
evaluate_never_blocks(action, g) ==
    IF action = "DO_NOTHING" THEN "ALLOW"
    ELSE IF RetryFutile(action, g) THEN "BLOCK"
    ELSE IF NeedsApproval(action, g) THEN "REQUIRE_APPROVAL" ELSE "ALLOW"

evaluate(action, g) ==
    IF action = "DO_NOTHING" THEN "ALLOW"
    ELSE IF RetryFutile(action, g) \/ Blocks(action, g) # {} THEN "BLOCK"
    ELSE IF NeedsApproval(action, g) THEN "REQUIRE_APPROVAL" ELSE "ALLOW"
=============================================================================

------------------------------ MODULE Planning ------------------------------
(***************************************************************************)
(* The planning agents and the plan they leave behind: what a scan does    *)
(* with one event (agents/pipeline.py, engines/root_cause.py,              *)
(* ml/predictor.py, engines/decision.py) and how the journey then walks    *)
(* the plan.  Recovery takes the plan and the cause of an event as given   *)
(* and has the whole of the journey; this module has where they come from  *)
(* and only as much of the journey as a plan needs.                        *)
(*                                                                         *)
(* An event is first scored when the data set is seeded (prescore), and    *)
(* then by every scan until one opens a journey or suppresses it.  The     *)
(* root cause is written by each of these passes, while the budget the     *)
(* gate is given was filled in before the pass.                            *)
(*                                                                         *)
(* Amounts are in rupees, prices in paise, probabilities in hundredths of  *)
(* a percent (One is certainty), ratios, rates and factors of a customer   *)
(* in percent.  Products are cut to that grain.                            *)
(***************************************************************************)
EXTENDS Catalog, Integers, Sequences, FiniteSets, FiniteSetsExt

CONSTANTS
    Profiles,       \* what the rows of the events and customers may say
    Signals,        \* what the degradation detector may report
    Clocks,         \* the facts of the clock a gate check can meet
    LearnedRates,   \* posterior rates the playbook may hold for a context
    Reasoner,       \* whether a language model refines the diagnosis
    min_confidence, \* policy floors
    min_expected_value_paise

One == 10000

ASSUME PlanningConstants ==
    /\ \A f \in Profiles : /\ f.kind \in EventKind
                           /\ f.failure_code \in FailureCode
                           /\ f.prior_contacts \in Nat
    /\ Signals \subseteq [route: Nat, method: Nat]
    /\ Clocks \subseteq [quiet: BOOLEAN, peak: BOOLEAN]
    /\ Reasoner \in BOOLEAN
    /\ min_confidence \in 0..One
    /\ min_expected_value_paise \in Nat

VARIABLES
    event,      \* the row: its profile, status, root_cause and cause_layer
    signal,     \* what this pass knows of the route and the method
    clock,      \* now, as this pass or tick sees it
    stage,      \* the agent whose turn it is, IDLE between passes
    ctx,        \* the RecoveryContext of the pass
    journey     \* the plan and how far the journey has come with it

vars == <<event, signal, clock, stage, ctx, journey>>

Agents == <<"SENTINEL", "INVESTIGATOR", "STRATEGIST", "OPTIMIZER",
            "POLICY_OFFICER">>
Stage == {"IDLE", "SEED", "PERSIST"} \cup Range(Agents)

p == event.profile
Lowest(a, b)  == IF a < b THEN a ELSE b
Clamp(x, low, high) == IF x < low THEN low ELSE IF x > high THEN high ELSE x

-----------------------------------------------------------------------------
(* Investigator: weights of the candidate causes, re-weighted by evidence. *)

Boost(w, cause, factor) ==
    LET old == IF cause \in DOMAIN w THEN w[cause] ELSE One \div 20
    IN  cause :> (old * factor) \div 100 @@ w

\* _boost does nothing when the evidence is missing.
BoostIf(evidence, w, cause, factor) ==
    IF evidence THEN Boost(w, cause, factor) ELSE w

DampIf(evidence, w, causes, factor) ==
    [c \in DOMAIN w |-> IF evidence /\ c \in causes
                        THEN (w[c] * factor) \div 100 ELSE w[c]]

Prior == [c \in DOMAIN FAILURE_CAUSE_PRIORS[p.failure_code] |->
             100 * FAILURE_CAUSE_PRIORS[p.failure_code][c]]

Systemic(w) ==
    LET route == BoostIf(signal.route > 0, w, "ROUTE_DEGRADATION",
                         100 + Lowest((13 * signal.route) \div 10, 520))
        declines == DampIf(signal.route > 0, route,
                        {"TRANSIENT_BANK_DECLINE", "HARD_BANK_DECLINE"}, 55)
    IN  BoostIf(signal.method > 0, declines, "METHOD_DEGRADATION",
                100 + Lowest(signal.method, 400))

Transaction(w) ==
    LET again == p.retry_count >= 2
        cart  == p.kind = "CART_ABANDONMENT"
        quick == p.duration < 75 /\ p.cart_items <= 1
        hard  == DampIf(again, BoostIf(again, w, "HARD_BANK_DECLINE", 210),
                        {"TRANSIENT_BANK_DECLINE"}, 45)
        slow  == BoostIf(cart /\ p.duration > 600, hard, "CHECKOUT_LATENCY",
                         220)
        left  == BoostIf(cart /\ quick, slow, "DELIBERATE_ABANDONMENT", 190)
    IN  BoostIf(cart /\ p.ratio > 200, left, "PRICE_SENSITIVITY",
                170 + (12 * Lowest(p.ratio, 600)) \div 100)

Customer(w) ==
    LET loyal == p.success >= 90 /\ p.payments >= 4
        calm  == DampIf(loyal, w,
                     {"DELIBERATE_ABANDONMENT", "DISPUTED_INVOICE"}, 55)
        keen  == DampIf(loyal, calm,
                     {"TRANSIENT_BANK_DECLINE", "AUTH_FRICTION"}, 135)
    IN  BoostIf(~loyal /\ p.payments <= 1, keen,
                "WRONG_INSTRUMENT_DETAILS", 140)

Receivable(w) ==
    LET cause == IF p.days_overdue > 30 THEN "DISPUTED_INVOICE"
                 ELSE IF p.days_overdue > 12 THEN "APPROVAL_BOTTLENECK"
                 ELSE "BUYER_CASHFLOW"
        factor == IF p.days_overdue > 30 THEN 200
                  ELSE IF p.days_overdue > 12 THEN 150 ELSE 140
        due == p.kind = "OVERDUE_INVOICE"
    IN  BoostIf(due /\ p.failure_code = "PROMISE_BROKEN",
                BoostIf(due, w, cause, factor), "BUYER_CASHFLOW", 160)

Weights == Receivable(Customer(Transaction(Systemic(Prior))))

Leading(w) == {c \in DOMAIN w : \A d \in DOMAIN w : w[c] >= w[d]}

\* The four heaviest, less those below MIN_CANDIDATE_WEIGHT.
Candidates(w) ==
    LET total == MapThenSumSet(LAMBDA c : w[c], DOMAIN w)
    IN  {c \in DOMAIN w :
            /\ 50 * w[c] >= total
            /\ Cardinality({d \in DOMAIN w : w[d] > w[c]}) < 4}

-----------------------------------------------------------------------------
(* Predictor: HeuristicPredictor over the features of the event.           *)

customer_factor ==
    Clamp(60 + (55 * p.success + 35 * p.recovery) \div 100, 50, 155)

organic(cause) ==
    Clamp((((organic_multiplier[cause] * customer_factor) \div 10)
               * 82^p.retry_count) \div 100^p.retry_count, 100, 5500)

\* shape is 1 / (1 + 0.09 log1p(amount / average order)).
lift(cause, action) ==
    LET spec  == INTERVENTIONS[action]
        fresh == (spec.base_success * affinity(cause, action) * p.shape)
                     \div 100
        tired == (fresh * 9^p.prior_contacts) \div 10^p.prior_contacts
        known == (tired * Clamp(customer_factor, 60, 135)) \div 100
        retry == action = "RETRY_PAYMENT"
        routed == IF retry /\ signal.route > 0
                  THEN (known * 35) \div 100 ELSE known
    IN  Clamp(IF retry /\ cause \notin Retryable
              THEN (routed * 30) \div 100 ELSE routed, 0, 9200)

Score(cause, action) ==
    IF action = "DO_NOTHING" THEN organic(cause)
    ELSE Clamp(organic(cause)
                 + ((One - organic(cause)) * lift(cause, action)) \div One,
               100, 9700)

-----------------------------------------------------------------------------
(* Decision engine.                                                        *)

\* The gate, as the scan binds it and as the tick does: only the scan knows
\* what the mandate has behind it, only the tick what the journey has.
Gate(cause, used, npci, pdn) ==
    [enabled |-> TRUE, paused |-> FALSE, recovered |-> FALSE,
     opted_out |-> p.opted_out,
     contacts |-> p.prior_contacts + used.contact,
     retries |-> p.retry_count + used.retry, npci |-> npci,
     discounts |-> used.discount, voice |-> used.voice,
     cooldown |-> FALSE, quiet |-> clock.quiet, peak |-> clock.peak,
     degraded |-> signal.route > 0, cause |-> cause, pdn |-> pdn,
     large |-> p.amount >= 10000, large_voice |-> p.amount >= 25000,
     large_discount |-> FALSE]

Unused == [contact |-> 0, retry |-> 0, discount |-> 0, voice |-> 0]

PlanGate ==
    IF ctx.seeding THEN Gate("OTHER", Unused, 0, "NONE")
    ELSE Gate(CauseClassOf(ctx.budget_cause), Unused, p.npci, p.pdn)

friction_cost(action) ==
    (INTERVENTIONS[action].friction * (1500 + (22 * p.ltv) \div 100)
        * (100 + 55 * p.prior_contacts)) \div 10000

\* In tenths of a percent.
discount_pct(action) ==
    IF action # "DISCOUNT" THEN 0 ELSE IF p.amount >= 1000 THEN 80 ELSE 48

price_option(cause, i) ==
    LET action == ALLOWED_ACTIONS[p.kind][i]
        score == Score(cause, action)
        probability == IF action \in DOMAIN ctx.learned_rates
                       THEN (65 * score + 35 * ctx.learned_rates[action])
                                \div 100
                       ELSE score
        uplift == IF probability > organic(cause)
                  THEN probability - organic(cause) ELSE 0
        expected == (p.amount * probability) \div 1000
        discount_cost == (expected * discount_pct(action)) \div 100
        penalty == IF signal.route > 0 /\ action = "RETRY_PAYMENT"
                   THEN 2500 ELSE 0
    IN  [action |-> action, pos |-> i, probability |-> probability,
         value |-> IF action = "DO_NOTHING" THEN 0
                   ELSE (uplift * p.amount) \div 100 - discount_cost
                          - INTERVENTIONS[action].cost_paise
                          - friction_cost(action) - penalty,
         allowed |-> evaluate(action, PlanGate) # "BLOCK"]

Options(cause) == {price_option(cause, i) : i \in DOMAIN ALLOWED_ACTIONS[p.kind]}

\* The option that is sorted first: the most valuable, in the catalogue's order
\* between equals.
First(options) ==
    {o \in options : \A x \in options \ {o} :
        \/ o.value > x.value
        \/ o.value = x.value /\ o.pos < x.pos}

Viable(o) ==
    /\ o.allowed
    /\ o.action # "DO_NOTHING"
    /\ o.value >= min_expected_value_paise
    /\ o.probability >= min_confidence

chosen(options) ==
    LET viable == {o \in options : Viable(o)}
    IN  IF viable = {} THEN {"DO_NOTHING"}
        ELSE {o.action : o \in First(viable)}

\* (mutant) The channels a plan uses are not kept.
Fits_again(plan, o) ==
    /\ o.action # "DO_NOTHING"
    /\ o.allowed /\ o.value > 0
    /\ consumes_contact(o.action) => plan.contacts > 0

\* contacts is remaining_contacts.
Fits(plan, o) ==
    /\ o.action \notin Range(plan.steps) \cup {"DO_NOTHING"}
    /\ o.allowed /\ o.value > 0
    /\ consumes_contact(o.action) => plan.contacts > 0

\* (mutant) A contact that is planned is not taken off the contacts left.
With_uncounted(plan, o) == [plan EXCEPT !.steps = Append(@, o.action)]

With(plan, o) ==
    [steps |-> Append(plan.steps, o.action),
     contacts |-> IF consumes_contact(o.action) THEN plan.contacts - 1
                  ELSE plan.contacts]

\* The loop over the options goes on to the first that fits.  One it has
\* passed over never fits later: the steps grow and the contacts shrink.
Extend(plan, options) ==
    LET fit == {o \in options : Fits(plan, o)}
    IN  IF fit = {} THEN {plan} ELSE {With(plan, o) : o \in First(fit)}

ContactsLeft == IF p.prior_contacts < max_contacts
                THEN max_contacts - p.prior_contacts ELSE 0

\* The loop ends at three steps, the chosen one included.
Escalation(first, options) ==
    UNION {Extend(plan, options) :
              plan \in Extend([steps |-> <<first>>,
                               contacts |-> ContactsLeft], options)}

FollowUp(steps) ==
    IF p.kind = "OVERDUE_INVOICE" /\ "VOICE" \in Range(steps)
    THEN Append(steps, "PROMISE_FOLLOWUP") ELSE steps

build_plan(first, options) ==
    IF first = "DO_NOTHING" THEN {<<>>}
    ELSE {FollowUp(plan.steps) : plan \in Escalation(first, options)}

-----------------------------------------------------------------------------
(* One pass of the agents over the event.                                  *)

NoContext == [seeding |-> FALSE, budget_cause |-> "UNKNOWN",
              learned_rates |-> <<>>, chosen |-> "DO_NOTHING",
              plan |-> <<>>, verdict |-> "ALLOW"]

NoJourney == [plan |-> <<>>, step |-> 0, act |-> "ALLOW", used |-> Unused,
              npci |-> 0, done |-> <<>>]

\* The generator draws the true cause from the priors; what they leave over
\* goes to UNKNOWN.
Init ==
    \E profile \in Profiles :
    \E cause \in DOMAIN FAILURE_CAUSE_PRIORS[profile.failure_code]
                    \cup {"UNKNOWN"} :
        /\ event = [profile |-> profile, status |-> "AT_RISK",
                    root_cause |-> cause, cause_layer |-> "NONE"]
        /\ signal = [route |-> 0, method |-> 0]
        /\ clock = [quiet |-> FALSE, peak |-> FALSE]
        /\ stage = "SEED"
        /\ ctx = NoContext
        /\ journey = NoJourney

Begin(seeding) ==
    /\ signal' \in Signals
    /\ clock' \in Clocks
    /\ ctx' = [NoContext EXCEPT !.seeding = seeding,
                                !.budget_cause = event.root_cause]
    /\ stage' = "SENTINEL"
    /\ UNCHANGED <<event, journey>>

Prescore == stage = "SEED" /\ Begin(TRUE)

Scan == stage = "IDLE" /\ event.status = "AT_RISK" /\ Begin(FALSE)

\* RECOVERED cannot be met here: a scan only takes events that are AT_RISK.
Skipped == \/ p.amount < 200
           \/ p.opted_out /\ p.retry_count >= max_retries

Sentinel ==
    /\ stage = "SENTINEL"
    /\ IF Skipped
       THEN /\ stage' = "IDLE"
            /\ event' = IF ctx.seeding THEN event
                        ELSE [event EXCEPT !.status = "SUPPRESSED"]
       ELSE stage' = "INVESTIGATOR" /\ UNCHANGED event
    /\ UNCHANGED <<signal, clock, ctx, journey>>

\* A refinement replaces the cause and leaves the layer that was found.
Investigator ==
    /\ stage = "INVESTIGATOR"
    /\ \E top \in Leading(Weights) :
       \E cause \in {top} \cup (IF Reasoner /\ ~ctx.seeding
                                THEN Candidates(Weights) ELSE {}) :
           event' = [event EXCEPT !.root_cause = cause,
                                  !.cause_layer = layer[top]]
    /\ stage' = "STRATEGIST"
    /\ UNCHANGED <<signal, clock, ctx, journey>>

Strategist ==
    /\ stage = "STRATEGIST"
    /\ \E rates \in LearnedRates : ctx' = [ctx EXCEPT !.learned_rates = rates]
    /\ stage' = "OPTIMIZER"
    /\ UNCHANGED <<event, signal, clock, journey>>

Optimizer ==
    /\ stage = "OPTIMIZER"
    /\ LET options == Options(event.root_cause) IN
       \E first \in chosen(options) :
       \E plan \in build_plan(first, options) :
           ctx' = [ctx EXCEPT !.chosen = first, !.plan = plan]
    /\ stage' = "POLICY_OFFICER"
    /\ UNCHANGED <<event, signal, clock, journey>>

PolicyOfficer ==
    /\ stage = "POLICY_OFFICER"
    /\ ctx' = [ctx EXCEPT !.verdict = evaluate(ctx.chosen, PlanGate)]
    /\ stage' = IF ctx.seeding THEN "IDLE" ELSE "PERSIST"
    /\ UNCHANGED <<event, signal, clock, journey>>

Suppress ==
    /\ stage = "PERSIST"
    /\ ctx.chosen = "DO_NOTHING" \/ ctx.verdict = "BLOCK"
    /\ event' = [event EXCEPT !.status = "SUPPRESSED"]
    /\ stage' = "IDLE"
    /\ UNCHANGED <<signal, clock, ctx, journey>>

Acts == ctx.chosen # "DO_NOTHING" /\ ctx.verdict # "BLOCK"

\* Another journey owns the customer: a later scan starts afresh.
Defer ==
    /\ stage = "PERSIST" /\ Acts
    /\ stage' = "IDLE"
    /\ UNCHANGED <<event, signal, clock, ctx, journey>>

StartJourney ==
    /\ stage = "PERSIST" /\ Acts
    /\ event' = [event EXCEPT !.status = "IN_RECOVERY"]
    /\ journey' = [NoJourney EXCEPT !.plan = ctx.plan, !.step = 1,
                      !.act = evaluate(ctx.plan[1], PlanGate)]
    /\ stage' = "IDLE"
    /\ UNCHANGED <<signal, clock, ctx>>

-----------------------------------------------------------------------------
(* The journey walks the plan.  Each tick meets a clock and a signal of    *)
(* its own, which its gate reads.                                          *)

\* (mutant) The check before execution keeps to the cause of the scan.
TickGate_of_scan ==
    Gate(CauseClassOf(ctx.budget_cause), journey.used, journey.npci, "NONE")

TickGate == Gate(CauseClassOf(event.root_cause), journey.used, journey.npci,
                 "NONE")

Now(action) ==
    /\ stage = "IDLE" /\ event.status = "IN_RECOVERY"
    /\ journey.act = action
    /\ UNCHANGED <<stage, ctx>>

\* Time goes by, routes degrade and recover.
Wait ==
    /\ stage = "IDLE" /\ event.status = "IN_RECOVERY"
    /\ signal' \in Signals /\ clock' \in Clocks
    /\ UNCHANGED <<event, stage, ctx, journey>>

\* The next step, scheduled under the budget the tick began with, or LOST.
NextStepOrClose(j) ==
    IF j.step < Len(j.plan)
    THEN /\ journey' = [j EXCEPT !.step = @ + 1,
                           !.act = evaluate(j.plan[j.step + 1], TickGate)]
         /\ UNCHANGED event
    ELSE journey' = j /\ event' = [event EXCEPT !.status = "LOST"]

StepAction == journey.plan[journey.step]

Count(b) == IF b THEN 1 ELSE 0

\* (mutant) A contact is counted by the executor and by the journey.
Consume_twice(j, action) ==
    [j EXCEPT !.used = [@ EXCEPT
                  !.contact = @ + 2 * Count(consumes_contact(action)),
                  !.retry   = @ + Count(action = "RETRY_PAYMENT")],
              !.done = Append(@, action)]

Consume(j, action) ==
    [j EXCEPT !.used =
                  [contact  |-> @.contact + Count(consumes_contact(action)),
                   retry    |-> @.retry + Count(action = "RETRY_PAYMENT"),
                   discount |-> @.discount + Count(action = "DISCOUNT"),
                   voice    |-> @.voice + Count(action = "VOICE")],
              !.npci = @ + Count(action = "RETRY_PAYMENT"),
              !.done = Append(@, action)]

AdvanceBlocked ==
    /\ Now("BLOCK")
    /\ NextStepOrClose(journey)
    /\ UNCHANGED <<signal, clock>>

Regated(verdict) == Now("ALLOW") /\ evaluate(StepAction, TickGate) = verdict

RegateBlocks ==
    /\ Regated("BLOCK")
    /\ NextStepOrClose(journey)
    /\ UNCHANGED <<signal, clock>>

RegateAsks ==
    /\ Regated("REQUIRE_APPROVAL")
    /\ journey' = [journey EXCEPT !.act = "REQUIRE_APPROVAL"]
    /\ UNCHANGED <<event, signal, clock>>

AdvanceRecovers ==
    /\ Regated("ALLOW")
    /\ journey' = Consume(journey, StepAction)
    /\ event' = [event EXCEPT !.status = "RECOVERED"]
    /\ UNCHANGED <<signal, clock>>

AdvanceFails ==
    /\ Regated("ALLOW")
    /\ NextStepOrClose(Consume(journey, StepAction))
    /\ UNCHANGED <<signal, clock>>

\* A person approves, and the next re-check asks again; until it expires.
Approve ==
    /\ Now("REQUIRE_APPROVAL")
    /\ journey' = [journey EXCEPT !.act = "ALLOW"]
    /\ UNCHANGED <<event, signal, clock>>

Expire ==
    /\ Now("REQUIRE_APPROVAL")
    /\ event' = [event EXCEPT !.status = "LOST"]
    /\ UNCHANGED <<signal, clock, journey>>

Next ==
    \/ Prescore \/ Scan
    \/ Sentinel \/ Investigator \/ Strategist \/ Optimizer \/ PolicyOfficer
    \/ Suppress \/ Defer \/ StartJourney
    \/ Wait \/ AdvanceBlocked \/ RegateBlocks \/ RegateAsks
    \/ AdvanceRecovers \/ AdvanceFails \/ Approve \/ Expire

Spec == Init /\ [][Next]_vars

-----------------------------------------------------------------------------
(* Properties.                                                             *)

\* The type invariant.  What a journey has used never exceeds the steps it
\* has performed (_consume_budget).
TypeOK ==
    /\ event.profile \in Profiles
    /\ event.status \in {"AT_RISK", "IN_RECOVERY", "RECOVERED", "LOST",
                         "SUPPRESSED"}
    /\ event.root_cause \in RootCause
    /\ event.cause_layer \in CauseLayer \cup {"NONE"}
    /\ signal \in [route: Nat, method: Nat]
    /\ clock \in [quiet: BOOLEAN, peak: BOOLEAN]
    /\ stage \in Stage
    /\ ctx.seeding \in BOOLEAN /\ ctx.verdict \in PolicyVerdict
    /\ {ctx.budget_cause} \subseteq RootCause
    /\ Range(ctx.plan) \cup {ctx.chosen} \subseteq ActionType
    /\ journey.act \in PolicyVerdict
    /\ journey.step \in 0..Len(journey.plan)
    /\ Range(journey.done) \subseteq Range(journey.plan)
    /\ Len(journey.done) <= journey.step
    /\ \A count \in Range(journey.used) : count \in 0..Len(journey.done)

\* The plan an acting pass leaves behind is one Recovery can be given: the
\* chosen action first, at most four steps, only actions the kind of the
\* event allows, none of them DO_NOTHING, and nothing twice but the promise
\* follow-up, which is appended for an invoice whatever the plan holds.
PlanSuitsRecovery ==
    stage = "PERSIST" /\ Acts =>
        /\ ctx.plan # <<>> /\ ctx.plan[1] = ctx.chosen
        /\ Len(ctx.plan) <= 4
        /\ Range(ctx.plan) \subseteq
               Range(ALLOWED_ACTIONS[p.kind]) \ {"DO_NOTHING"}
        /\ \A i, j \in DOMAIN ctx.plan :
               ctx.plan[i] = ctx.plan[j] =>
                   i = j \/ ctx.plan[i] = "PROMISE_FOLLOWUP"

\* The contacts of a plan after its first step, the follow-up of an invoice
\* aside, fit in what the event has left of max_contacts: build_plan counts
\* neither of those two, so a plan can hold up to two contacts more than are
\* left, which the gate then blocks when their turn comes.
EscalationFitsContacts ==
    stage = "PERSIST" /\ Acts =>
        Cardinality({i \in 2..Len(ctx.plan) :
                        /\ consumes_contact(ctx.plan[i])
                        /\ ctx.plan[i] # "PROMISE_FOLLOWUP"}) <= ContactsLeft

\* An event whose cause is a mandate that cannot be charged is worked on with
\* the remedy of that cause first, whenever the gate lets the remedy through
\* and anything is worth doing: the affinities, the floors and the learned
\* rates of the decision engine agree with engines/mandate.required_remedy,
\* which the planning agents never call.
RemedyComesFirst ==
    LET cause == event.root_cause IN
    (/\ stage = "PERSIST" /\ Acts
     /\ cause \in REGULATORY_FUTILE_CAUSES
     /\ evaluate(required_remedy(cause), PlanGate) # "BLOCK")
        => ctx.chosen = required_remedy(cause)

\* A mandate that cannot be charged is never charged: though a scan may plan
\* and schedule such a retry (its gate knows the cause of the pass before),
\* the check before execution reads the cause the investigator has left.
FutileRetryNeverRuns ==
    [][Len(journey'.done) > Len(journey.done)
           /\ journey'.done[Len(journey'.done)] = "RETRY_PAYMENT"
         => event.root_cause \notin REGULATORY_FUTILE_CAUSES]_vars
=============================================================================

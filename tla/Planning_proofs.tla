-------------------------- MODULE Planning_proofs --------------------------
(***************************************************************************)
(* Proofs about Planning for any profiles, signals, clocks, learned rates  *)
(* and limits: what a scan leaves behind is a plan Recovery can be given,  *)
(* and no mandate is charged that cannot be.  How many steps a plan has,   *)
(* which, and what is left of the contacts follows from the loop over the  *)
(* options, whatever these are worth.                                      *)
(***************************************************************************)
EXTENDS Planning, FiniteSetTheorems, SequenceTheorems, TLAPS

-----------------------------------------------------------------------------
(* The invariant.                                                          *)

EventRows == [profile: Profiles,
              status: {"AT_RISK", "IN_RECOVERY", "RECOVERED", "LOST",
                       "SUPPRESSED"},
              root_cause: RootCause, cause_layer: CauseLayer \cup {"NONE"}]

Plans == Seq(ActionType)

Contexts == [seeding: BOOLEAN, budget_cause: RootCause,
             learned_rates: LearnedRates \cup {<<>>}, chosen: ActionType,
             plan: Plans, verdict: PolicyVerdict]

Budgets == [contact: Nat, retry: Nat, discount: Nat, voice: Nat]

Walks == [plan: Plans, step: Nat, act: PolicyVerdict,
          used: Budgets, npci: Nat, done: Plans]

\* The actions a plan for the kind of an event may have.
Allowed(kind) == Range(ALLOWED_ACTIONS[kind]) \ {"DO_NOTHING"}

\* The steps after the first that reach the customer.
Contacts(steps) == {i \in 2..Len(steps) : consumes_contact(steps[i])}

\* Steps that begin with first, of allowed actions and none of them twice; what
\* they take of the contacts and the contacts that remain are what was left.
Draft(steps, first, contacts, kind, left) ==
    /\ steps \in Seq(Allowed(kind)) /\ steps # <<>> /\ steps[1] = first
    /\ \A i, j \in 1..Len(steps) : steps[i] = steps[j] => i = j
    /\ contacts \in Nat
    /\ Cardinality(Contacts(steps)) + contacts <= left

\* What PlanSuitsRecovery and EscalationFitsContacts say of a plan.
Suits(plan, first, kind, left) ==
    /\ plan \in Seq(Allowed(kind)) /\ plan # <<>> /\ plan[1] = first
    /\ Len(plan) <= 4
    /\ \A i, j \in DOMAIN plan :
          plan[i] = plan[j] => i = j \/ plan[i] = "PROMISE_FOLLOWUP"
    /\ Cardinality({i \in Contacts(plan) : plan[i] # "PROMISE_FOLLOWUP"})
          <= left

\* A journey has performed some of the steps it has come to, each once, and has
\* used no more than it has performed.
Walked(j) ==
    /\ j.step \in 0..Len(j.plan)
    /\ Range(j.done) \subseteq Range(j.plan)
    /\ Len(j.done) <= j.step
    /\ j.used.contact <= Len(j.done) /\ j.used.retry <= Len(j.done)
    /\ j.used.discount <= Len(j.done) /\ j.used.voice <= Len(j.done)

PlanningInv ==
    /\ event \in EventRows
    /\ signal \in [route: Nat, method: Nat]
    /\ clock \in [quiet: BOOLEAN, peak: BOOLEAN]
    /\ stage \in Stage
    /\ ctx \in Contexts
    /\ journey \in Walks
    /\ Walked(journey)
    /\ stage # "IDLE" => event.status = "AT_RISK"
    /\ event.status = "IN_RECOVERY" => Len(journey.done) < journey.step
    /\ stage \in {"POLICY_OFFICER", "PERSIST"} /\ ctx.chosen # "DO_NOTHING" =>
          Suits(ctx.plan, ctx.chosen, p.kind, ContactsLeft)

-----------------------------------------------------------------------------
(* The catalogue.                                                          *)

\* The actions of every kind of event are actions, and the follow-up of a
\* promise is one for an invoice.
LEMMA AllowedActions ==
    /\ \A kind \in EventKind : ALLOWED_ACTIONS[kind] \in Seq(ActionType)
    /\ "PROMISE_FOLLOWUP" \in Allowed("OVERDUE_INVOICE")
<1>1. ALLOWED_ACTIONS["PAYMENT_FAILURE"] \in Seq(ActionType)
  BY DEF ALLOWED_ACTIONS, ActionType, EventKind
<1>2. ALLOWED_ACTIONS["CART_ABANDONMENT"] \in Seq(ActionType)
  BY DEF ALLOWED_ACTIONS, ActionType, EventKind
<1>3. ALLOWED_ACTIONS["SUBSCRIPTION_FAILURE"] \in Seq(ActionType)
  BY DEF ALLOWED_ACTIONS, ActionType, EventKind
<1>4. ALLOWED_ACTIONS["OVERDUE_INVOICE"] =
         <<"PAYMENT_LINK", "EMAIL", "WHATSAPP", "SMS", "VOICE",
           "PROMISE_FOLLOWUP", "HUMAN_ESCALATION", "DO_NOTHING">>
  BY DEF ALLOWED_ACTIONS, EventKind
<1>5. ALLOWED_ACTIONS["OVERDUE_INVOICE"] \in Seq(ActionType)
  BY <1>4 DEF ActionType
<1>6. "PROMISE_FOLLOWUP" \in Allowed("OVERDUE_INVOICE")
  BY <1>4 DEF Allowed, Range
<1> QED BY <1>1, <1>2, <1>3, <1>5, <1>6 DEF EventKind

\* Every failure code points to causes of the library, and these have a layer.
LEMMA Causes ==
    /\ \A f \in FailureCode : DOMAIN FAILURE_CAUSE_PRIORS[f] \subseteq RootCause
    /\ \A c \in RootCause : layer[c] \in CauseLayer
<1>1. \A c \in RootCause : layer[c] \in CauseLayer
  BY DEF layer, CauseLayer, RootCause
<1>2. ASSUME NEW f \in FailureCode
      PROVE  DOMAIN FAILURE_CAUSE_PRIORS[f] \subseteq RootCause
  BY DEF FAILURE_CAUSE_PRIORS, FailureCode, RootCause, :>, @@
<1> QED BY <1>1, <1>2

\* A mandate that cannot be charged is a regulatory cause to the gate.
LEMMA FutileIsRegulatory ==
    \A c \in REGULATORY_FUTILE_CAUSES : CauseClassOf(c) = "REGULATORY"
BY DEF REGULATORY_FUTILE_CAUSES, CauseClassOf, layer, RootCause

\* The agents, and where a pass may be.
LEMMA Stages ==
    Stage = {"IDLE", "SEED", "PERSIST", "SENTINEL", "INVESTIGATOR",
             "STRATEGIST", "OPTIMIZER", "POLICY_OFFICER"}
BY DEF Stage, Agents, Range

\* The gate answers with one of the three verdicts.
LEMMA Verdicts ==
    ASSUME NEW action, NEW g
    PROVE  evaluate(action, g) \in PolicyVerdict
BY DEF evaluate, PolicyVerdict

-----------------------------------------------------------------------------
(* The diagnosis: whatever the evidence, the weights are of causes of the  *)
(* library.                                                                *)

\* Evidence may bring in a cause of the library.
LEMMA Boosted ==
    ASSUME NEW w, NEW cause \in RootCause, NEW factor, NEW evidence,
           DOMAIN w \subseteq RootCause
    PROVE  DOMAIN BoostIf(evidence, w, cause, factor) \subseteq RootCause
BY DEF BoostIf, Boost, :>, @@

\* Evidence against causes brings in none.
LEMMA Damped ==
    ASSUME NEW w, NEW causes, NEW factor, NEW evidence,
           DOMAIN w \subseteq RootCause
    PROVE  DOMAIN DampIf(evidence, w, causes, factor) \subseteq RootCause
BY DEF DampIf

\* The causes that are weighed are of the library.
LEMMA Weighed ==
    ASSUME PlanningInv
    PROVE  DOMAIN Weights \subseteq RootCause
<1>1. /\ {"ROUTE_DEGRADATION", "METHOD_DEGRADATION", "HARD_BANK_DECLINE",
          "CHECKOUT_LATENCY", "DELIBERATE_ABANDONMENT", "PRICE_SENSITIVITY",
          "WRONG_INSTRUMENT_DETAILS", "DISPUTED_INVOICE",
          "APPROVAL_BOTTLENECK", "BUYER_CASHFLOW"} \subseteq RootCause
  BY DEF RootCause
<1>2. DOMAIN Prior \subseteq RootCause
  BY Causes, PlanningConstants DEF Prior, p, PlanningInv, EventRows
<1>3. ASSUME NEW w, DOMAIN w \subseteq RootCause
      PROVE  DOMAIN Systemic(w) \subseteq RootCause
  BY <1>1, <1>3, Boosted, Damped DEF Systemic
<1>4. ASSUME NEW w, DOMAIN w \subseteq RootCause
      PROVE  DOMAIN Transaction(w) \subseteq RootCause
  BY <1>1, <1>4, Boosted, Damped DEF Transaction
<1>5. ASSUME NEW w, DOMAIN w \subseteq RootCause
      PROVE  DOMAIN Customer(w) \subseteq RootCause
  BY <1>1, <1>5, Boosted, Damped DEF Customer
<1>6. ASSUME NEW w, DOMAIN w \subseteq RootCause
      PROVE  DOMAIN Receivable(w) \subseteq RootCause
  <2> DEFINE cause == IF p.days_overdue > 30 THEN "DISPUTED_INVOICE"
                      ELSE IF p.days_overdue > 12 THEN "APPROVAL_BOTTLENECK"
                      ELSE "BUYER_CASHFLOW"
  <2>1. cause \in RootCause
    BY <1>1
  <2> QED BY <1>1, <1>6, <2>1, Boosted DEF Receivable
<1> QED BY <1>2, <1>3, <1>4, <1>5, <1>6 DEF Weights

-----------------------------------------------------------------------------
(* The plan.                                                               *)

\* Every option is for an action of the catalogue.
LEMMA Priced ==
    ASSUME NEW cause, NEW o \in Options(cause)
    PROVE  o.action \in Range(ALLOWED_ACTIONS[p.kind])
<1>1. PICK i \in DOMAIN ALLOWED_ACTIONS[p.kind] : o = price_option(cause, i)
  BY DEF Options
<1>2. o.action = ALLOWED_ACTIONS[p.kind][i]
  BY <1>1 DEF price_option
<1> QED BY <1>2 DEF Range

\* An action that is chosen is one that is allowed.
LEMMA ChosenIsAllowed ==
    ASSUME NEW cause, NEW first \in chosen(Options(cause)),
           first # "DO_NOTHING"
    PROVE  first \in Allowed(p.kind)
<1>1. PICK o \in Options(cause) : Viable(o) /\ first = o.action
  BY DEF chosen, First
<1> QED BY <1>1, Priced DEF Viable, Allowed

\* A step more takes its own contact, if any.
LEMMA ContactsGrow ==
    ASSUME NEW S, NEW steps \in Seq(S), steps # <<>>, NEW action \in S
    PROVE  /\ IsFiniteSet(Contacts(steps))
           /\ Cardinality(Contacts(Append(steps, action))) =
                  Cardinality(Contacts(steps))
                      + (IF consumes_contact(action) THEN 1 ELSE 0)
<1> DEFINE n == Len(steps) + 1
           longer == Append(steps, action)
<1>1. /\ n \in Nat /\ n >= 2 /\ Len(longer) = n /\ longer[n] = action
      /\ \A i \in 1..Len(steps) : longer[i] = steps[i]
  OBVIOUS
<1>2. IsFiniteSet(Contacts(steps)) /\ n \notin Contacts(steps)
  <2>1. IsFiniteSet(2..Len(steps))
    BY FS_Interval
  <2> QED BY <2>1, FS_Subset DEF Contacts
<1>3. 2..n = (2..Len(steps)) \cup {n}
  BY <1>1
<1>4. CASE consumes_contact(action)
  <2>1. Contacts(longer) = Contacts(steps) \cup {n}
    BY <1>1, <1>3, <1>4 DEF Contacts
  <2> QED BY <1>2, <1>4, <2>1, FS_AddElement
<1>5. CASE ~consumes_contact(action)
  <2>1. Contacts(longer) = Contacts(steps)
    BY <1>1, <1>3, <1>5 DEF Contacts
  <2>2. Cardinality(Contacts(steps)) \in Nat
    BY <1>2, FS_CardinalityType
  <2> QED BY <1>2, <1>5, <2>1, <2>2
<1> QED BY <1>4, <1>5

\* A draft: the plan of the loop, with the options it goes through.
IsDraft(plan, first) ==
    Draft(plan.steps, first, plan.contacts, p.kind, ContactsLeft)

\* The loop finds a step that the draft does not have yet and that its contacts
\* allow, or it leaves the draft as it is.
LEMMA ExtendKeepsDraft ==
    ASSUME NEW cause, NEW first, NEW plan, IsDraft(plan, first),
           ContactsLeft \in Nat,
           NEW longer \in Extend(plan, Options(cause))
    PROVE  IsDraft(longer, first) /\ Len(longer.steps) <= Len(plan.steps) + 1
<1> DEFINE steps == plan.steps
           A == Allowed(p.kind)
<1>0. /\ steps \in Seq(A) /\ steps # <<>> /\ steps[1] = first
      /\ \A i, j \in 1..Len(steps) : steps[i] = steps[j] => i = j
      /\ plan.contacts \in Nat
      /\ Cardinality(Contacts(steps)) + plan.contacts <= ContactsLeft
  BY DEF IsDraft, Draft
<1>1. CASE longer = plan
  BY <1>0, <1>1
<1>2. CASE longer # plan
  <2>1. PICK o \in Options(cause) : Fits(plan, o) /\ longer = With(plan, o)
    BY <1>2 DEF Extend, First
  <2> DEFINE action == o.action
  <2>2. /\ action \in A /\ action \notin Range(steps)
        /\ consumes_contact(action) => plan.contacts > 0
    BY <2>1, Priced DEF Fits, Allowed
  <2>3. /\ longer.steps = Append(steps, action)
        /\ longer.contacts = IF consumes_contact(action)
                             THEN plan.contacts - 1 ELSE plan.contacts
    BY <2>1 DEF With
  <2> HIDE DEF action, steps, A
  <2>4. /\ Append(steps, action) \in Seq(A) /\ Append(steps, action) # <<>>
        /\ Append(steps, action)[1] = first
        /\ Len(Append(steps, action)) = Len(steps) + 1
    BY <1>0, <2>2
  <2>5. \A i, j \in 1..Len(Append(steps, action)) :
            Append(steps, action)[i] = Append(steps, action)[j] => i = j
    <3>1. \A i \in 1..Len(steps) : steps[i] # action
      BY <1>0, <2>2 DEF Range
    <3> QED BY <1>0, <2>2, <3>1
  <2>6. /\ longer.contacts \in Nat
        /\ Cardinality(Contacts(Append(steps, action))) + longer.contacts
               <= ContactsLeft
    <3>1. Cardinality(Contacts(steps)) \in Nat
      BY <1>0, <2>2, ContactsGrow, FS_CardinalityType
    <3>2. Cardinality(Contacts(Append(steps, action))) =
              Cardinality(Contacts(steps))
                  + (IF consumes_contact(action) THEN 1 ELSE 0)
      BY <1>0, <2>2, ContactsGrow
    <3> QED BY <1>0, <2>2, <2>3, <3>1, <3>2
  <2>7. IsDraft(longer, first)
    BY <2>3, <2>4, <2>5, <2>6 DEF IsDraft, Draft, A
  <2>8. Len(longer.steps) = Len(steps) + 1
    BY <2>3, <2>4
  <2> QED BY <1>0, <2>7, <2>8 DEF steps
<1> QED BY <1>1, <1>2

\* What is left of the contacts.
LEMMA ContactsAreLeft == PlanningInv => ContactsLeft \in Nat
BY PolicyLimits, PlanningConstants
   DEF PlanningInv, EventRows, ContactsLeft, p

\* The loop starts from the action that was chosen, with no contact counted.
LEMMA FirstIsDraft ==
    ASSUME NEW first \in Allowed(p.kind), ContactsLeft \in Nat
    PROVE  IsDraft([steps |-> <<first>>, contacts |-> ContactsLeft], first)
<1>1. Contacts(<<first>>) = {}
  BY DEF Contacts
<1> QED BY <1>1, FS_EmptySet DEF IsDraft, Draft

\* The follow-up of a promise comes on top of the draft of an invoice.
LEMMA FollowUpSuits ==
    ASSUME NEW steps \in Seq(Allowed(p.kind)), NEW first, steps # <<>>,
           steps[1] = first, Len(steps) <= 3,
           \A i, j \in 1..Len(steps) : steps[i] = steps[j] => i = j,
           Cardinality(Contacts(steps)) <= ContactsLeft,
           ContactsLeft \in Nat
    PROVE  Suits(FollowUp(steps), first, p.kind, ContactsLeft)
<1> DEFINE A == Allowed(p.kind)
           promise == "PROMISE_FOLLOWUP"
           Counted(plan) == {i \in Contacts(plan) : plan[i] # promise}
<1>1. IsFiniteSet(Contacts(steps))
  <2>1. IsFiniteSet(2..Len(steps))
    BY FS_Interval
  <2> QED BY <2>1, FS_Subset DEF Contacts
<1>2. Cardinality(Counted(steps)) <= ContactsLeft
  <2>1. /\ Cardinality(Counted(steps)) <= Cardinality(Contacts(steps))
        /\ IsFiniteSet(Counted(steps))
    BY <1>1, FS_Subset
  <2> QED BY <1>1, <2>1, FS_CardinalityType
<1>3. CASE FollowUp(steps) = steps
  <2>1. Range(steps) \subseteq A
    BY DEF Range
  <2> QED BY <1>2, <1>3, <2>1 DEF Suits
<1>4. CASE FollowUp(steps) # steps
  <2> DEFINE n == Len(steps) + 1
             plan == Append(steps, promise)
  <2>1. FollowUp(steps) = plan /\ p.kind = "OVERDUE_INVOICE"
    BY <1>4 DEF FollowUp
  <2>2. promise \in A
    BY <2>1, AllowedActions
  <2>3. /\ plan \in Seq(A) /\ plan # <<>> /\ plan[1] = first
        /\ Len(plan) = n /\ n \in Nat /\ n >= 2 /\ n <= 4 /\ plan[n] = promise
        /\ \A i \in 1..Len(steps) : plan[i] = steps[i]
    BY <2>2
  <2>4. \A i, j \in DOMAIN plan : plan[i] = plan[j] => i = j \/ plan[i] = promise
    BY <2>3
  <2>5. Counted(plan) = Counted(steps)
    BY <2>3 DEF Contacts
  <2>6. Range(plan) \subseteq A
    BY <2>3 DEF Range
  <2> HIDE DEF plan, n, A
  <2> QED BY <1>2, <2>1, <2>3, <2>4, <2>5, <2>6 DEF Suits, A
<1> QED BY <1>3, <1>4

\* Whatever the options are worth, the plan that is built suits the event.
LEMMA BuiltPlanSuits ==
    ASSUME PlanningInv, NEW cause, NEW first \in chosen(Options(cause)),
           first # "DO_NOTHING",
           NEW plan \in build_plan(first, Options(cause))
    PROVE  Suits(plan, first, p.kind, ContactsLeft)
<1> DEFINE seed == [steps |-> <<first>>, contacts |-> ContactsLeft]
<1>1. ContactsLeft \in Nat
  BY ContactsAreLeft
<1>2. IsDraft(seed, first) /\ Len(seed.steps) = 1
  BY <1>1, ChosenIsAllowed, FirstIsDraft
<1>3. PICK last \in Escalation(first, Options(cause)) :
          plan = FollowUp(last.steps)
  BY DEF build_plan
<1>4. PICK longer \in Extend(seed, Options(cause)) :
          last \in Extend(longer, Options(cause))
  BY <1>3 DEF Escalation
<1> HIDE DEF seed
<1>5. IsDraft(longer, first) /\ Len(longer.steps) <= 2
  <2>1. IsDraft(longer, first) /\ Len(longer.steps) <= Len(seed.steps) + 1
    BY <1>1, <1>2, ExtendKeepsDraft
  <2> QED BY <1>2, <2>1
<1>6. IsDraft(last, first) /\ Len(last.steps) <= 3
  <2>1. IsDraft(last, first) /\ Len(last.steps) <= Len(longer.steps) + 1
    BY <1>1, <1>4, <1>5, ExtendKeepsDraft
  <2>2. Len(longer.steps) \in Nat
    BY <1>5 DEF IsDraft, Draft
  <2>3. Len(last.steps) \in Nat
    BY <2>1 DEF IsDraft, Draft
  <2> QED BY <1>5, <2>1, <2>2, <2>3
<1> DEFINE steps == last.steps
<1>7. /\ steps \in Seq(Allowed(p.kind)) /\ steps # <<>> /\ steps[1] = first
      /\ \A i, j \in 1..Len(steps) : steps[i] = steps[j] => i = j
      /\ Cardinality(Contacts(steps)) + last.contacts <= ContactsLeft
      /\ last.contacts \in Nat /\ Len(steps) <= 3
  BY <1>6 DEF IsDraft, Draft
<1>8. Cardinality(Contacts(steps)) \in Nat
  <2>1. IsFiniteSet(2..Len(steps))
    BY <1>7, FS_Interval
  <2>2. IsFiniteSet(Contacts(steps))
    BY <2>1, FS_Subset DEF Contacts
  <2> QED BY <2>2, FS_CardinalityType
<1>9. Cardinality(Contacts(steps)) <= ContactsLeft
  BY <1>1, <1>7, <1>8
<1> HIDE DEF steps
<1>10. Suits(FollowUp(steps), first, p.kind, ContactsLeft)
  BY <1>1, <1>7, <1>9, FollowUpSuits
<1> QED BY <1>3, <1>10 DEF steps

-----------------------------------------------------------------------------
(* The journey.                                                            *)

\* What the gate says of a step is a verdict, so that the next step of a walk,
\* or its end, is again a walk.
LEMMA NextStepKeepsWalk ==
    ASSUME PlanningInv, NEW j \in Walks, Walked(j), NextStepOrClose(j)
    PROVE  /\ journey' \in Walks /\ Walked(journey')
           /\ journey'.done = j.done
           /\ event' \in EventRows /\ event'.profile = event.profile
           /\ event'.status = "IN_RECOVERY" => journey'.step = j.step + 1
           /\ event'.status = "AT_RISK" => event.status = "AT_RISK"
<1>0. event \in EventRows
  BY DEF PlanningInv
<1>1. CASE j.step < Len(j.plan)
  <2> DEFINE verdict == evaluate(j.plan[j.step + 1], TickGate)
             next == j.step + 1
  <2>1. verdict \in PolicyVerdict /\ next \in Nat
    BY Verdicts DEF Walks
  <2>2. /\ journey' = [j EXCEPT !.step = next, !.act = verdict]
        /\ event' = event
    BY <1>1 DEF NextStepOrClose
  <2> HIDE DEF verdict, next
  <2>3. journey' \in Walks /\ journey'.done = j.done
        /\ journey'.step = next /\ journey'.plan = j.plan
        /\ journey'.used = j.used
    BY <2>1, <2>2 DEF Walks
  <2>4. j.step \in Nat /\ Len(j.plan) \in Nat /\ Len(j.done) \in Nat
    BY DEF Walks, Plans
  <2>5. Walked(journey')
    BY <1>1, <2>3, <2>4 DEF Walked, next
  <2> QED BY <1>0, <2>2, <2>3, <2>5 DEF next
<1>2. CASE ~(j.step < Len(j.plan))
  <2>1. journey' = j /\ event' = [event EXCEPT !.status = "LOST"]
    BY <1>2 DEF NextStepOrClose
  <2>2. event' \in EventRows /\ event'.profile = event.profile
        /\ event'.status = "LOST"
    BY <1>0, <2>1 DEF EventRows
  <2> QED BY <2>1, <2>2
<1> QED BY <1>1, <1>2

\* Performing the step it has come to is a step of the walk.
LEMMA ConsumeKeepsWalk ==
    ASSUME PlanningInv, Len(journey.done) < journey.step,
           NEW j, j = Consume(journey, StepAction)
    PROVE  /\ j \in Walks /\ Walked(j) /\ j.step = journey.step
           /\ Len(j.done) = Len(journey.done) + 1
           /\ j.done[Len(j.done)] = StepAction
<1> DEFINE used == [contact |-> journey.used.contact
                                   + Count(consumes_contact(StepAction)),
                    retry |-> journey.used.retry
                                  + Count(StepAction = "RETRY_PAYMENT"),
                    discount |-> journey.used.discount
                                     + Count(StepAction = "DISCOUNT"),
                    voice |-> journey.used.voice
                                  + Count(StepAction = "VOICE")]
           npci == journey.npci + Count(StepAction = "RETRY_PAYMENT")
           done == Append(journey.done, StepAction)
<1>0. journey \in Walks /\ Walked(journey)
  BY DEF PlanningInv
<1>1. /\ journey.plan \in Seq(ActionType) /\ journey.done \in Seq(ActionType)
      /\ journey.step \in Nat /\ journey.used \in Budgets /\ journey.npci \in Nat
  BY <1>0 DEF Walks, Plans
<1>2. journey.step \in 1..Len(journey.plan)
  BY <1>0, <1>1 DEF Walked
<1>3. StepAction \in ActionType /\ StepAction \in Range(journey.plan)
  BY <1>1, <1>2 DEF StepAction, Range
<1>4. j = [journey EXCEPT !.used = used, !.npci = npci, !.done = done]
  BY DEF Consume
<1>5. /\ used \in Budgets /\ npci \in Nat /\ done \in Plans
      /\ used.contact <= journey.used.contact + 1
      /\ used.retry <= journey.used.retry + 1
      /\ used.discount <= journey.used.discount + 1
      /\ used.voice <= journey.used.voice + 1
  <2>1. \A b : Count(b) \in {0, 1}
    BY DEF Count
  <2>2. /\ journey.used.contact \in Nat /\ journey.used.retry \in Nat
        /\ journey.used.discount \in Nat /\ journey.used.voice \in Nat
    BY <1>1 DEF Budgets
  <2>3. done \in Plans
    BY <1>1, <1>3 DEF Plans
  <2>4. /\ used.contact \in journey.used.contact..(journey.used.contact + 1)
        /\ used.retry \in journey.used.retry..(journey.used.retry + 1)
        /\ used.discount \in journey.used.discount..(journey.used.discount + 1)
        /\ used.voice \in journey.used.voice..(journey.used.voice + 1)
        /\ used.contact \in Nat /\ used.retry \in Nat
        /\ used.discount \in Nat /\ used.voice \in Nat /\ npci \in Nat
    <3>1. \A n \in Nat : \A b : n + Count(b) \in n..(n + 1) /\ n + Count(b) \in Nat
      BY <2>1
    <3> QED BY <1>1, <2>2, <3>1
  <2>5. used \in Budgets
    BY <2>4 DEF Budgets
  <2> HIDE DEF used, npci, done
  <2> QED BY <2>2, <2>3, <2>4, <2>5
<1>6. /\ Len(done) = Len(journey.done) + 1 /\ done[Len(done)] = StepAction
      /\ Range(done) \subseteq Range(journey.plan)
  <2>1. Len(done) = Len(journey.done) + 1 /\ done[Len(done)] = StepAction
        /\ \A i \in 1..Len(journey.done) : done[i] = journey.done[i]
    BY <1>1, <1>3
  <2>2. Range(journey.done) \subseteq Range(journey.plan)
    BY <1>0 DEF Walked
  <2> HIDE DEF done
  <2>3. \A i \in DOMAIN done : done[i] \in Range(journey.plan)
    <3>1. DOMAIN done = 1..(Len(journey.done) + 1) /\ Len(journey.done) \in Nat
          /\ DOMAIN journey.done = 1..Len(journey.done)
      BY <1>1, <1>5, <2>1 DEF Plans
    <3>2. ASSUME NEW i \in DOMAIN done
          PROVE  done[i] \in Range(journey.plan)
      <4>1. CASE i \in 1..Len(journey.done)
        <5>1. done[i] = journey.done[i] /\ i \in DOMAIN journey.done
          BY <2>1, <3>1, <4>1
        <5> QED BY <2>2, <5>1 DEF Range
      <4>2. CASE i = Len(journey.done) + 1
        BY <1>3, <2>1, <4>2
      <4> QED BY <3>1, <4>1, <4>2
    <3> QED BY <3>2
  <2> QED BY <2>1, <2>3 DEF Range
<1> HIDE DEF used, npci, done
<1>7. /\ j \in Walks /\ j.step = journey.step /\ j.plan = journey.plan
      /\ j.used = used /\ j.done = done
  BY <1>0, <1>4, <1>5 DEF Walks
<1>8. Walked(j)
  <2>1. /\ journey.used.contact \in Nat /\ journey.used.retry \in Nat
        /\ journey.used.discount \in Nat /\ journey.used.voice \in Nat
        /\ used.contact \in Nat /\ used.retry \in Nat
        /\ used.discount \in Nat /\ used.voice \in Nat
    BY <1>1, <1>5 DEF Budgets
  <2>2. /\ journey.used.contact <= Len(journey.done)
        /\ journey.used.retry <= Len(journey.done)
        /\ journey.used.discount <= Len(journey.done)
        /\ journey.used.voice <= Len(journey.done)
    BY <1>0 DEF Walked
  <2>3. Len(journey.done) \in Nat /\ Len(journey.plan) \in Nat
    BY <1>1
  <2>4. j.step \in 0..Len(j.plan) /\ Len(j.done) <= j.step
    BY <1>1, <1>2, <1>6, <1>7, <2>3
  <2>5. /\ used.contact <= Len(done) /\ used.retry <= Len(done)
        /\ used.discount <= Len(done) /\ used.voice <= Len(done)
    <3> DEFINE n == Len(journey.done)
    <3>1. /\ n \in Nat /\ Len(done) = n + 1
          /\ journey.used.contact <= n /\ journey.used.retry <= n
          /\ journey.used.discount <= n /\ journey.used.voice <= n
      BY <1>6, <2>2, <2>3
    <3> HIDE DEF n
    <3>2. \A a, b \in Nat : a <= b + 1 /\ b <= n => a <= n + 1
      BY <3>1
    <3>3. /\ used.contact <= journey.used.contact + 1
          /\ used.retry <= journey.used.retry + 1
          /\ used.discount <= journey.used.discount + 1
          /\ used.voice <= journey.used.voice + 1
      BY <1>5
    <3>4. used.contact <= n + 1 /\ used.retry <= n + 1
      BY <2>1, <3>1, <3>2, <3>3
    <3>5. used.discount <= n + 1 /\ used.voice <= n + 1
      BY <2>1, <3>1, <3>2, <3>3
    <3> QED BY <3>1, <3>4, <3>5
  <2> QED BY <1>6, <1>7, <2>4, <2>5 DEF Walked
<1> QED BY <1>6, <1>7, <1>8

-----------------------------------------------------------------------------
(* Invariance.                                                             *)

\* The event is the same one, whatever a step makes of its status and cause.
SameEvent == event' \in EventRows /\ event'.profile = event.profile

\* What the environment shows a pass or a tick.
Surroundings == /\ signal \in [route: Nat, method: Nat]
                /\ clock \in [quiet: BOOLEAN, peak: BOOLEAN]

\* A step sees the clock and the signal it saw before, or others of the
\* constants.
LEMMA Observed ==
    (UNCHANGED <<signal, clock>> /\ PlanningInv)
        \/ (signal' \in Signals /\ clock' \in Clocks) => Surroundings'
BY PlanningConstants DEF Surroundings, PlanningInv

\* A plan that suits the event suits it after the step.
LEMMA SuitsOn ==
    ASSUME event'.profile = event.profile,
           NEW plan, NEW first, Suits(plan, first, p.kind, ContactsLeft)
    PROVE  Suits(plan, first, p'.kind, ContactsLeft')
BY DEF p, ContactsLeft

\* What a step of a pass owes the invariant.  No journey moves.
LEMMA PassKeepsInv ==
    ASSUME PlanningInv, SameEvent, Surroundings', UNCHANGED journey,
           stage' \in Stage, ctx' \in Contexts,
           event'.status # "IN_RECOVERY",
           stage' # "IDLE" => event'.status = "AT_RISK",
           stage' \in {"POLICY_OFFICER", "PERSIST"}
               /\ ctx'.chosen # "DO_NOTHING" =>
               Suits(ctx'.plan, ctx'.chosen, p.kind, ContactsLeft)
    PROVE  PlanningInv'
<1>1. stage' \in {"POLICY_OFFICER", "PERSIST"} /\ ctx'.chosen # "DO_NOTHING" =>
          Suits(ctx'.plan, ctx'.chosen, p'.kind, ContactsLeft')
  BY SuitsOn DEF SameEvent
<1>2. journey' \in Walks /\ Walked(journey)'
  BY DEF PlanningInv
<1> QED BY <1>1, <1>2 DEF PlanningInv, SameEvent, Surroundings

\* What a step of a journey owes the invariant.  No pass is under way.
LEMMA WalkKeepsInv ==
    ASSUME PlanningInv, SameEvent, Surroundings', ctx' \in Contexts,
           stage' = "IDLE", journey' \in Walks, Walked(journey'),
           event'.status = "IN_RECOVERY" => Len(journey'.done) < journey'.step
    PROVE  PlanningInv'
BY Stages DEF PlanningInv, SameEvent, Surroundings, Walked

\* An event is generated AT_RISK, with a cause of the library and no journey.
LEMMA InitIsPlanning == Init => PlanningInv
<1> SUFFICES ASSUME Init PROVE PlanningInv
  OBVIOUS
<1>0. PICK profile \in Profiles :
          \E cause \in DOMAIN FAILURE_CAUSE_PRIORS[profile.failure_code]
                           \cup {"UNKNOWN"} :
              event = [profile |-> profile, status |-> "AT_RISK",
                       root_cause |-> cause, cause_layer |-> "NONE"]
  BY DEF Init
<1>1. PICK cause \in DOMAIN FAILURE_CAUSE_PRIORS[profile.failure_code]
                         \cup {"UNKNOWN"} :
          event = [profile |-> profile, status |-> "AT_RISK",
                   root_cause |-> cause, cause_layer |-> "NONE"]
  BY <1>0
<1>2. /\ signal = [route |-> 0, method |-> 0]
      /\ clock = [quiet |-> FALSE, peak |-> FALSE]
      /\ stage = "SEED" /\ ctx = NoContext /\ journey = NoJourney
  BY DEF Init
<1>3. cause \in RootCause
  BY Causes, PlanningConstants DEF RootCause
<1>4. event \in EventRows /\ event.status = "AT_RISK"
  BY <1>1, <1>3 DEF EventRows
<1>5. ctx \in Contexts
  <2>1. "UNKNOWN" \in RootCause /\ "DO_NOTHING" \in ActionType
        /\ "ALLOW" \in PolicyVerdict /\ <<>> \in Plans
    BY DEF RootCause, ActionType, PolicyVerdict, Plans
  <2> QED BY <1>2, <2>1 DEF NoContext, Contexts
<1>6. journey \in Walks /\ Walked(journey)
  <2>1. Unused \in Budgets /\ "ALLOW" \in PolicyVerdict /\ <<>> \in Plans
    BY DEF Unused, Budgets, PolicyVerdict, Plans
  <2>2. journey \in Walks
    BY <1>2, <2>1 DEF NoJourney, Walks
  <2> QED BY <1>2, <2>2 DEF NoJourney, Walked, Unused, Range
<1> QED BY <1>2, <1>4, <1>5, <1>6, Stages DEF PlanningInv

\* A pass begins with the context of the event.
LEMMA BeginKeepsInv ==
    ASSUME PlanningInv, NEW seeding \in BOOLEAN, Begin(seeding),
           event.status = "AT_RISK"
    PROVE  PlanningInv'
<1>1. event \in EventRows /\ event.root_cause \in RootCause
  BY DEF PlanningInv, EventRows
<1>2. ctx' \in Contexts
  <2>1. "DO_NOTHING" \in ActionType /\ "ALLOW" \in PolicyVerdict
        /\ <<>> \in Plans
    BY DEF ActionType, PolicyVerdict, Plans
  <2>2. ctx' = [NoContext EXCEPT !.seeding = seeding,
                                 !.budget_cause = event.root_cause]
    BY DEF Begin
  <2> QED BY <1>1, <2>1, <2>2 DEF NoContext, Contexts
<1>3. SameEvent /\ event'.status = "AT_RISK" /\ UNCHANGED journey
  BY <1>1 DEF Begin, SameEvent
<1>4. Surroundings'
  BY Observed DEF Begin
<1>5. stage' = "SENTINEL" /\ "SENTINEL" \in Stage
  BY Stages DEF Begin
<1> QED BY <1>2, <1>3, <1>4, <1>5, PassKeepsInv

\* The sentinel passes the event on or ends the pass.
LEMMA SentinelKeepsInv == PlanningInv /\ Sentinel => PlanningInv'
<1> SUFFICES ASSUME PlanningInv, Sentinel PROVE PlanningInv'
  OBVIOUS
<1>1. /\ event \in EventRows /\ event.status = "AT_RISK"
      /\ ctx' \in Contexts /\ UNCHANGED journey
  BY DEF PlanningInv, Sentinel
<1>2. stage' \in {"IDLE", "INVESTIGATOR"} /\ stage' \in Stage
  BY Stages DEF Sentinel
<1>3. event' \in {event, [event EXCEPT !.status = "SUPPRESSED"]}
      /\ (stage' = "INVESTIGATOR" => event' = event)
  BY DEF Sentinel
<1>4. SameEvent /\ event'.status \in {"AT_RISK", "SUPPRESSED"}
  BY <1>1, <1>3 DEF SameEvent, EventRows
<1>5. Surroundings'
  BY Observed DEF Sentinel
<1> QED BY <1>1, <1>2, <1>3, <1>4, <1>5, PassKeepsInv

\* The investigator leaves a cause of the library and the layer of one.
LEMMA InvestigatorKeepsInv == PlanningInv /\ Investigator => PlanningInv'
<1> SUFFICES ASSUME PlanningInv, Investigator PROVE PlanningInv'
  OBVIOUS
<1>1. /\ event \in EventRows /\ event.status = "AT_RISK"
      /\ ctx' \in Contexts /\ UNCHANGED journey
  BY DEF PlanningInv, Investigator
<1> DEFINE Found(top) == {top} \cup (IF Reasoner /\ ~ctx.seeding
                                       THEN Candidates(Weights) ELSE {})
<1>0. PICK top \in Leading(Weights) :
          \E cause \in Found(top) :
              event' = [event EXCEPT !.root_cause = cause,
                                     !.cause_layer = layer[top]]
  BY DEF Investigator
<1>2. PICK cause \in Found(top) :
          event' = [event EXCEPT !.root_cause = cause,
                                 !.cause_layer = layer[top]]
  BY <1>0
<1>3. top \in RootCause /\ cause \in RootCause
  BY Weighed DEF Leading, Candidates
<1>4. layer[top] \in CauseLayer
  BY <1>3, Causes
<1>5. SameEvent /\ event'.status = "AT_RISK"
  BY <1>1, <1>2, <1>3, <1>4 DEF SameEvent, EventRows
<1>6. Surroundings'
  BY Observed DEF Investigator
<1>7. stage' = "STRATEGIST" /\ "STRATEGIST" \in Stage
  BY Stages DEF Investigator
<1> QED BY <1>1, <1>5, <1>6, <1>7, PassKeepsInv

\* The strategist adds the rates of the playbook.
LEMMA StrategistKeepsInv == PlanningInv /\ Strategist => PlanningInv'
<1> SUFFICES ASSUME PlanningInv, Strategist PROVE PlanningInv'
  OBVIOUS
<1>1. /\ event \in EventRows /\ event.status = "AT_RISK" /\ ctx \in Contexts
      /\ UNCHANGED <<event, journey>>
  BY DEF PlanningInv, Strategist
<1>2. PICK rates \in LearnedRates : ctx' = [ctx EXCEPT !.learned_rates = rates]
  BY DEF Strategist
<1>3. ctx' \in Contexts
  BY <1>1, <1>2 DEF Contexts
<1>4. SameEvent /\ event'.status = "AT_RISK"
  BY <1>1 DEF SameEvent
<1>5. Surroundings'
  BY Observed DEF Strategist
<1>6. stage' = "OPTIMIZER" /\ "OPTIMIZER" \in Stage
  BY Stages DEF Strategist
<1> QED BY <1>1, <1>3, <1>4, <1>5, <1>6, PassKeepsInv

\* The decision engine leaves a plan that suits the event, or none.
LEMMA OptimizerKeepsInv == PlanningInv /\ Optimizer => PlanningInv'
<1> SUFFICES ASSUME PlanningInv, Optimizer PROVE PlanningInv'
  OBVIOUS
<1>1. /\ event \in EventRows /\ event.status = "AT_RISK" /\ ctx \in Contexts
      /\ UNCHANGED <<event, journey>>
  BY DEF PlanningInv, Optimizer
<1> DEFINE options == Options(event.root_cause)
<1>0. PICK first \in chosen(options) :
          \E plan \in build_plan(first, options) :
              ctx' = [ctx EXCEPT !.chosen = first, !.plan = plan]
  BY DEF Optimizer
<1>2. PICK plan \in build_plan(first, options) :
          ctx' = [ctx EXCEPT !.chosen = first, !.plan = plan]
  BY <1>0
<1>3. Allowed(p.kind) \subseteq ActionType
  BY <1>1, AllowedActions, PlanningConstants DEF Allowed, Range, p, EventRows
<1>4. first \in ActionType
  BY <1>3, ChosenIsAllowed DEF ActionType
<1>5. CASE first = "DO_NOTHING"
  <2>1. plan = <<>>
    BY <1>5 DEF build_plan
  <2>2. ctx' \in Contexts /\ ctx'.chosen = "DO_NOTHING"
    <3>1. plan \in Plans
      BY <2>1 DEF Plans
    <3> QED BY <1>1, <1>2, <1>4, <1>5, <3>1 DEF Contexts
  <2>3. Surroundings' /\ SameEvent
    BY <1>1, Observed DEF Optimizer, SameEvent
  <2>4. stage' = "POLICY_OFFICER" /\ "POLICY_OFFICER" \in Stage
    BY Stages DEF Optimizer
  <2> QED BY <1>1, <2>2, <2>3, <2>4, PassKeepsInv
<1>6. CASE first # "DO_NOTHING"
  <2>1. Suits(plan, first, p.kind, ContactsLeft)
    BY <1>6, BuiltPlanSuits
  <2>2. plan \in Plans
    BY <1>3, <2>1 DEF Suits, Plans
  <2>3. ctx' \in Contexts /\ ctx'.chosen = first /\ ctx'.plan = plan
    BY <1>1, <1>2, <1>4, <2>2 DEF Contexts
  <2>4. Surroundings' /\ SameEvent
    BY <1>1, Observed DEF Optimizer, SameEvent
  <2>5. stage' = "POLICY_OFFICER" /\ "POLICY_OFFICER" \in Stage
    BY Stages DEF Optimizer
  <2> QED BY <1>1, <2>1, <2>3, <2>4, <2>5, PassKeepsInv
<1> QED BY <1>5, <1>6

\* The policy officer adds its verdict and leaves the plan.
LEMMA PolicyOfficerKeepsInv == PlanningInv /\ PolicyOfficer => PlanningInv'
<1> SUFFICES ASSUME PlanningInv, PolicyOfficer PROVE PlanningInv'
  OBVIOUS
<1>1. /\ event \in EventRows /\ event.status = "AT_RISK" /\ ctx \in Contexts
      /\ UNCHANGED <<event, journey>>
      /\ ctx.chosen # "DO_NOTHING" =>
             Suits(ctx.plan, ctx.chosen, p.kind, ContactsLeft)
  BY DEF PlanningInv, PolicyOfficer
<1> DEFINE verdict == evaluate(ctx.chosen, PlanGate)
<1>2. verdict \in PolicyVerdict /\ ctx' = [ctx EXCEPT !.verdict = verdict]
  BY Verdicts DEF PolicyOfficer
<1> HIDE DEF verdict
<1>3. ctx' \in Contexts /\ ctx'.chosen = ctx.chosen /\ ctx'.plan = ctx.plan
  BY <1>1, <1>2 DEF Contexts
<1>4. SameEvent /\ Surroundings' /\ event'.status = "AT_RISK"
  BY <1>1, Observed DEF PolicyOfficer, SameEvent
<1>5. stage' \in {"IDLE", "PERSIST"} /\ stage' \in Stage
  BY Stages DEF PolicyOfficer
<1> QED BY <1>1, <1>3, <1>4, <1>5, PassKeepsInv

\* A pass that does not act ends with the event.
LEMMA SuppressKeepsInv == PlanningInv /\ Suppress => PlanningInv'
<1> SUFFICES ASSUME PlanningInv, Suppress PROVE PlanningInv'
  OBVIOUS
<1>1. /\ event \in EventRows /\ ctx' \in Contexts /\ UNCHANGED journey
      /\ event' = [event EXCEPT !.status = "SUPPRESSED"]
  BY DEF PlanningInv, Suppress
<1>2. SameEvent /\ event'.status = "SUPPRESSED"
  BY <1>1 DEF SameEvent, EventRows
<1>3. Surroundings' /\ stage' = "IDLE" /\ stage' \in Stage
  BY Observed, Stages DEF Suppress
<1> QED BY <1>1, <1>2, <1>3, PassKeepsInv

\* A pass that finds the customer owned leaves the event to a later scan.
LEMMA DeferKeepsInv == PlanningInv /\ Defer => PlanningInv'
<1> SUFFICES ASSUME PlanningInv, Defer PROVE PlanningInv'
  OBVIOUS
<1>1. /\ event \in EventRows /\ event.status = "AT_RISK"
      /\ ctx' \in Contexts /\ UNCHANGED <<event, journey>>
  BY DEF PlanningInv, Defer
<1>2. SameEvent /\ event'.status = "AT_RISK"
  BY <1>1 DEF SameEvent
<1>3. Surroundings' /\ stage' = "IDLE" /\ stage' \in Stage
  BY Observed, Stages DEF Defer
<1> QED BY <1>1, <1>2, <1>3, PassKeepsInv

\* A journey starts with the first step of its plan.
LEMMA StartJourneyKeepsInv == PlanningInv /\ StartJourney => PlanningInv'
<1> SUFFICES ASSUME PlanningInv, StartJourney PROVE PlanningInv'
  OBVIOUS
<1>1. /\ event \in EventRows /\ ctx \in Contexts /\ UNCHANGED ctx
      /\ Suits(ctx.plan, ctx.chosen, p.kind, ContactsLeft)
      /\ event' = [event EXCEPT !.status = "IN_RECOVERY"]
  BY DEF PlanningInv, StartJourney, Acts
<1>2. SameEvent
  BY <1>1 DEF SameEvent, EventRows
<1>3. Surroundings' /\ stage' = "IDLE"
  BY Observed DEF StartJourney
<1> DEFINE verdict == evaluate(ctx.plan[1], PlanGate)
<1>4. /\ verdict \in PolicyVerdict
      /\ journey' = [NoJourney EXCEPT !.plan = ctx.plan, !.step = 1,
                                      !.act = verdict]
  BY Verdicts DEF StartJourney
<1> HIDE DEF verdict
<1>5. ctx.plan \in Plans /\ ctx.plan # <<>>
  BY <1>1 DEF Contexts, Suits
<1>6. /\ journey'.plan = ctx.plan /\ journey'.step = 1
      /\ journey'.done = <<>> /\ journey'.used = Unused
      /\ journey' \in Walks
  <2>1. Unused \in Budgets /\ <<>> \in Plans
    BY DEF Unused, Budgets, Plans
  <2> QED BY <1>4, <1>5, <2>1 DEF NoJourney, Walks
<1>7. Len(ctx.plan) \in Nat /\ Len(ctx.plan) >= 1
  BY <1>5 DEF Plans
<1>8. Walked(journey')
  BY <1>6, <1>7 DEF Walked, Unused, Range
<1>9. Len(journey'.done) < journey'.step
  BY <1>6
<1> QED BY <1>1, <1>2, <1>3, <1>6, <1>8, <1>9, WalkKeepsInv

\* A tick meets an open journey that has not performed the step it is at.
LEMMA TickMeets ==
    ASSUME PlanningInv, NEW action, Now(action)
    PROVE  /\ event \in EventRows /\ event.status = "IN_RECOVERY"
           /\ journey \in Walks /\ Walked(journey)
           /\ Len(journey.done) < journey.step
           /\ stage = "IDLE" /\ stage' = "IDLE"
           /\ ctx' = ctx /\ ctx' \in Contexts
BY DEF PlanningInv, Now

\* The end of a tick, whether or not the step was performed.
LEMMA NextStepKeepsInv ==
    ASSUME PlanningInv, NEW action, Now(action), UNCHANGED <<signal, clock>>,
           NEW j \in Walks, Walked(j), NextStepOrClose(j),
           Len(j.done) <= j.step
    PROVE  PlanningInv'
<1>1. /\ journey' \in Walks /\ Walked(journey') /\ journey'.done = j.done
      /\ SameEvent
      /\ event'.status = "IN_RECOVERY" => journey'.step = j.step + 1
  BY NextStepKeepsWalk DEF SameEvent
<1>2. Surroundings'
  BY Observed
<1>3. event'.status = "IN_RECOVERY" => Len(journey'.done) < journey'.step
  <2>1. Len(j.done) \in Nat /\ j.step \in Nat
    BY DEF Walks, Plans
  <2> QED BY <1>1, <2>1
<1> QED BY <1>1, <1>2, <1>3, TickMeets, WalkKeepsInv

\* Between ticks only the clock and the signal change.
LEMMA WaitKeepsInv == PlanningInv /\ Wait => PlanningInv'
<1> SUFFICES ASSUME PlanningInv, Wait PROVE PlanningInv'
  OBVIOUS
<1>1. /\ SameEvent /\ UNCHANGED <<event, stage, ctx, journey>>
      /\ stage = "IDLE" /\ ctx' \in Contexts
  BY DEF PlanningInv, Wait, SameEvent
<1>2. Surroundings'
  BY Observed DEF Wait
<1>3. /\ journey' \in Walks /\ Walked(journey')
      /\ event'.status = "IN_RECOVERY" => Len(journey'.done) < journey'.step
  BY <1>1 DEF PlanningInv
<1> QED BY <1>1, <1>2, <1>3, WalkKeepsInv

\* The step is passed over: its verdict was to block, or is now.
LEMMA BlockedKeepsInv ==
    PlanningInv /\ (AdvanceBlocked \/ RegateBlocks) => PlanningInv'
<1> SUFFICES ASSUME PlanningInv, AdvanceBlocked \/ RegateBlocks
             PROVE  PlanningInv'
  OBVIOUS
<1>1. PICK action : Now(action)
  BY DEF AdvanceBlocked, RegateBlocks, Regated
<1>2. NextStepOrClose(journey) /\ UNCHANGED <<signal, clock>>
  BY DEF AdvanceBlocked, RegateBlocks
<1>3. journey \in Walks /\ Walked(journey)
  BY <1>1, TickMeets
<1>4. Len(journey.done) <= journey.step
  BY <1>3 DEF Walked
<1> QED BY <1>1, <1>2, <1>3, <1>4, NextStepKeepsInv

\* A person is asked, or has answered.
LEMMA ApprovalKeepsInv ==
    PlanningInv /\ (RegateAsks \/ Approve) => PlanningInv'
<1> SUFFICES ASSUME PlanningInv, RegateAsks \/ Approve PROVE PlanningInv'
  OBVIOUS
<1>1. PICK action : Now(action)
  BY DEF RegateAsks, Approve, Regated
<1>2. PICK act \in PolicyVerdict : journey' = [journey EXCEPT !.act = act]
  BY DEF RegateAsks, Approve, PolicyVerdict
<1>3. UNCHANGED <<event, signal, clock>>
  BY DEF RegateAsks, Approve
<1>4. SameEvent /\ Surroundings'
  BY <1>1, <1>3, TickMeets, Observed DEF SameEvent
<1>5. /\ journey' \in Walks /\ journey'.done = journey.done
      /\ journey'.step = journey.step /\ journey'.plan = journey.plan
      /\ journey'.used = journey.used
  BY <1>1, <1>2, TickMeets DEF Walks
<1>6. Walked(journey')
  BY <1>1, <1>5, TickMeets DEF Walked
<1>7. Len(journey'.done) < journey'.step
  BY <1>1, <1>5, TickMeets
<1> QED BY <1>1, <1>4, <1>5, <1>6, <1>7, TickMeets, WalkKeepsInv

\* The step is performed; with the money the journey is over.
LEMMA PerformedKeepsInv ==
    PlanningInv /\ (AdvanceRecovers \/ AdvanceFails) => PlanningInv'
<1> SUFFICES ASSUME PlanningInv, AdvanceRecovers \/ AdvanceFails
             PROVE  PlanningInv'
  OBVIOUS
<1>1. Now("ALLOW") /\ UNCHANGED <<signal, clock>>
  BY DEF AdvanceRecovers, AdvanceFails, Regated
<1> DEFINE j == Consume(journey, StepAction)
<1>2. /\ j \in Walks /\ Walked(j) /\ j.step = journey.step
      /\ Len(j.done) = Len(journey.done) + 1
  BY <1>1, TickMeets, ConsumeKeepsWalk
<1>3. CASE AdvanceRecovers
  <2>1. journey' = j /\ event' = [event EXCEPT !.status = "RECOVERED"]
    BY <1>3 DEF AdvanceRecovers
  <2>2. SameEvent /\ event'.status = "RECOVERED"
    BY <1>1, <2>1, TickMeets DEF SameEvent, EventRows
  <2>3. Surroundings'
    BY <1>1, Observed
  <2> HIDE DEF j
  <2> QED BY <1>1, <1>2, <2>1, <2>2, <2>3, TickMeets, WalkKeepsInv
<1>4. CASE AdvanceFails
  <2>1. NextStepOrClose(j)
    BY <1>4 DEF AdvanceFails
  <2> HIDE DEF j
  <2>2. Len(j.done) <= j.step
    BY <1>2 DEF Walked
  <2> QED BY <1>1, <1>2, <2>1, <2>2, NextStepKeepsInv
<1> QED BY <1>3, <1>4

\* An approval that nobody gives ends the journey where it is.
LEMMA ExpireKeepsInv == PlanningInv /\ Expire => PlanningInv'
<1> SUFFICES ASSUME PlanningInv, Expire PROVE PlanningInv'
  OBVIOUS
<1>1. /\ Now("REQUIRE_APPROVAL") /\ UNCHANGED <<signal, clock, journey>>
      /\ event' = [event EXCEPT !.status = "LOST"]
  BY DEF Expire
<1>2. SameEvent /\ event'.status = "LOST"
  BY <1>1, TickMeets DEF SameEvent, EventRows
<1>3. Surroundings'
  BY <1>1, Observed
<1> QED BY <1>1, <1>2, <1>3, TickMeets, WalkKeepsInv

\* The invariant holds whatever the agents decide, whatever the clocks and the
\* detector show, and however the journey goes.
THEOREM PlanningInvariant == Spec => []PlanningInv
<1>1. Init => PlanningInv
  BY InitIsPlanning
<1>2. PlanningInv /\ [Next]_vars => PlanningInv'
  <2> SUFFICES ASSUME PlanningInv, [Next]_vars PROVE PlanningInv'
    OBVIOUS
  <2>1. CASE Prescore
    <3>1. event.status = "AT_RISK"
      BY <2>1 DEF PlanningInv, Prescore
    <3> QED BY <2>1, <3>1, BeginKeepsInv DEF Prescore
  <2>2. CASE Scan
    BY <2>2, BeginKeepsInv DEF Scan
  <2>3. CASE Sentinel \/ Investigator \/ Strategist \/ Optimizer
    BY <2>3, SentinelKeepsInv, InvestigatorKeepsInv, StrategistKeepsInv,
       OptimizerKeepsInv
  <2>4. CASE PolicyOfficer \/ Suppress \/ Defer \/ StartJourney
    BY <2>4, PolicyOfficerKeepsInv, SuppressKeepsInv, DeferKeepsInv,
       StartJourneyKeepsInv
  <2>5. CASE Wait \/ AdvanceBlocked \/ RegateBlocks \/ RegateAsks \/ Approve
    BY <2>5, WaitKeepsInv, BlockedKeepsInv, ApprovalKeepsInv
  <2>6. CASE AdvanceRecovers \/ AdvanceFails \/ Expire
    BY <2>6, PerformedKeepsInv, ExpireKeepsInv
  <2>7. CASE UNCHANGED vars
    BY <2>7 DEF vars, PlanningInv, p, ContactsLeft
  <2> QED BY <2>1, <2>2, <2>3, <2>4, <2>5, <2>6, <2>7 DEF Next
<1> QED BY <1>1, <1>2, PTL DEF Spec

\* The rows, the context of a pass and the walk of a journey stay in range; a
\* journey has used no more than the steps it has performed.
THEOREM TypeCorrect == Spec => []TypeOK
<1>1. PlanningInv => TypeOK
  <2> SUFFICES ASSUME PlanningInv PROVE TypeOK
    OBVIOUS
  <2>1. /\ event \in EventRows /\ ctx \in Contexts /\ journey \in Walks
        /\ Walked(journey)
    BY DEF PlanningInv
  <2>2. /\ event.profile \in Profiles /\ event.root_cause \in RootCause
        /\ event.status \in {"AT_RISK", "IN_RECOVERY", "RECOVERED", "LOST",
                             "SUPPRESSED"}
        /\ event.cause_layer \in CauseLayer \cup {"NONE"}
    BY <2>1 DEF EventRows
  <2>3. /\ ctx.seeding \in BOOLEAN /\ ctx.verdict \in PolicyVerdict
        /\ ctx.budget_cause \in RootCause /\ ctx.chosen \in ActionType
        /\ ctx.plan \in Seq(ActionType)
    BY <2>1 DEF Contexts, Plans
  <2>4. Range(ctx.plan) \subseteq ActionType
    BY <2>3 DEF Range
  <2>5. /\ journey.act \in PolicyVerdict /\ journey.used \in Budgets
        /\ Len(journey.done) \in Nat
    BY <2>1 DEF Walks, Plans
  <2>6. \A count \in Range(journey.used) : count \in 0..Len(journey.done)
    <3>1. Range(journey.used) =
              {journey.used.contact, journey.used.retry,
               journey.used.discount, journey.used.voice}
      BY <2>5 DEF Budgets, Range
    <3>2. /\ journey.used.contact \in Nat /\ journey.used.retry \in Nat
          /\ journey.used.discount \in Nat /\ journey.used.voice \in Nat
      BY <2>5 DEF Budgets
    <3>3. \A n \in {journey.used.contact, journey.used.retry,
                    journey.used.discount, journey.used.voice} :
              n \in Nat /\ n <= Len(journey.done)
      BY <2>1, <3>2 DEF Walked
    <3> QED BY <2>5, <3>1, <3>3
  <2> QED BY <2>1, <2>2, <2>3, <2>4, <2>5, <2>6
          DEF TypeOK, PlanningInv, Walked
<1> QED BY <1>1, PlanningInvariant, PTL

\* A scan that acts leaves a plan Recovery can be given: the chosen action
\* first, at most four steps, of the actions of the kind and none of them
\* twice.
THEOREM PlanSuits == Spec => []PlanSuitsRecovery
<1>1. PlanningInv => PlanSuitsRecovery
  <2> SUFFICES ASSUME PlanningInv, stage = "PERSIST", Acts
               PROVE  Suits(ctx.plan, ctx.chosen, p.kind, ContactsLeft)
    <3>1. ASSUME Suits(ctx.plan, ctx.chosen, p.kind, ContactsLeft)
          PROVE  Range(ctx.plan) \subseteq Allowed(p.kind)
      BY <3>1 DEF Suits, Range
    <3> QED BY <3>1 DEF PlanSuitsRecovery, Suits, Allowed
  <2> QED BY DEF PlanningInv, Acts
<1> QED BY <1>1, PlanningInvariant, PTL

\* What a scan plans after the first step fits in the contacts the event has
\* left, the follow-up of a promise aside.
THEOREM EscalationFits == Spec => []EscalationFitsContacts
<1>1. PlanningInv => EscalationFitsContacts
  <2> SUFFICES ASSUME PlanningInv, stage = "PERSIST", Acts
               PROVE  Suits(ctx.plan, ctx.chosen, p.kind, ContactsLeft)
    <3>1. {i \in 2..Len(ctx.plan) : /\ consumes_contact(ctx.plan[i])
                                    /\ ctx.plan[i] # "PROMISE_FOLLOWUP"} =
          {i \in Contacts(ctx.plan) : ctx.plan[i] # "PROMISE_FOLLOWUP"}
      BY DEF Contacts
    <3> QED BY <3>1 DEF EscalationFitsContacts, Suits
  <2> QED BY DEF PlanningInv, Acts
<1> QED BY <1>1, PlanningInvariant, PTL

\* A retry on a mandate that cannot be charged is blocked whatever else the
\* gate is given.
LEMMA FutileIsBlocked ==
    ASSUME event.root_cause \in REGULATORY_FUTILE_CAUSES
    PROVE  evaluate("RETRY_PAYMENT", TickGate) = "BLOCK"
<1>1. TickGate.cause = "REGULATORY"
  BY FutileIsRegulatory DEF TickGate, Gate
<1> QED BY <1>1 DEF evaluate, RetryFutile

\* A step is only performed when the check before execution lets it through.
LEMMA OnlyRegatedRuns ==
    ASSUME PlanningInv, Next, Len(journey'.done) > Len(journey.done)
    PROVE  /\ evaluate(StepAction, TickGate) = "ALLOW"
           /\ journey'.done[Len(journey'.done)] = StepAction
<1>0. Len(journey.done) \in Nat
  BY DEF PlanningInv, Walks, Plans
<1>1. CASE AdvanceRecovers \/ AdvanceFails
  <2> DEFINE j == Consume(journey, StepAction)
  <2>1. Now("ALLOW") /\ evaluate(StepAction, TickGate) = "ALLOW"
    BY <1>1 DEF AdvanceRecovers, AdvanceFails, Regated
  <2>2. /\ j \in Walks /\ Walked(j)
        /\ j.done[Len(j.done)] = StepAction
    BY <2>1, TickMeets, ConsumeKeepsWalk
  <2>3. journey' = j \/ NextStepOrClose(j)
    BY <1>1 DEF AdvanceRecovers, AdvanceFails
  <2> HIDE DEF j
  <2>4. journey'.done = j.done
    BY <2>2, <2>3, NextStepKeepsWalk
  <2> QED BY <2>1, <2>2, <2>4
<1>2. CASE AdvanceBlocked \/ RegateBlocks
  <2>1. NextStepOrClose(journey) /\ journey \in Walks /\ Walked(journey)
    BY <1>2 DEF AdvanceBlocked, RegateBlocks, PlanningInv
  <2> QED BY <1>0, <2>1, NextStepKeepsWalk
<1>3. CASE RegateAsks \/ Approve
  <2>1. PICK act : journey' = [journey EXCEPT !.act = act]
    BY <1>3 DEF RegateAsks, Approve
  <2>2. journey'.done = journey.done
    BY <2>1 DEF PlanningInv, Walks
  <2> QED BY <1>0, <2>2
<1>4. CASE StartJourney
  <2>1. journey'.done = <<>>
    BY <1>4 DEF StartJourney, NoJourney
  <2> QED BY <1>0, <2>1
<1>5. CASE \/ Prescore \/ Scan \/ Sentinel \/ Investigator \/ Strategist
           \/ Optimizer \/ PolicyOfficer \/ Suppress \/ Defer \/ Wait \/ Expire
  <2>1. UNCHANGED journey
    BY <1>5 DEF Prescore, Scan, Begin, Sentinel, Investigator, Strategist,
                Optimizer, PolicyOfficer, Suppress, Defer, Wait, Expire
  <2> QED BY <1>0, <2>1
<1> QED BY <1>1, <1>2, <1>3, <1>4, <1>5 DEF Next

\* A mandate that cannot be charged is never charged, though a scan may have
\* planned the retry under the cause of an earlier pass.
THEOREM FutileNeverRuns == Spec => FutileRetryNeverRuns
<1>1. ASSUME PlanningInv, [Next]_vars,
             Len(journey'.done) > Len(journey.done),
             journey'.done[Len(journey'.done)] = "RETRY_PAYMENT"
      PROVE  event.root_cause \notin REGULATORY_FUTILE_CAUSES
  <2>1. CASE Next
    BY <1>1, <2>1, OnlyRegatedRuns, FutileIsBlocked
  <2>2. CASE UNCHANGED vars
    <3>1. Len(journey.done) \in Nat
      BY <1>1 DEF PlanningInv, Walks, Plans
    <3> QED BY <1>1, <2>2, <3>1 DEF vars
  <2> QED BY <1>1, <2>1, <2>2
<1>2. PlanningInv /\ [Next]_vars =>
          [Len(journey'.done) > Len(journey.done)
               /\ journey'.done[Len(journey'.done)] = "RETRY_PAYMENT"
             => event.root_cause \notin REGULATORY_FUTILE_CAUSES]_vars
  BY <1>1
<1> QED BY <1>2, PlanningInvariant, PTL DEF Spec, FutileRetryNeverRuns
=============================================================================

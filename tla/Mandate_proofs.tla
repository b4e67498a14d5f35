--------------------------- MODULE Mandate_proofs ---------------------------
(***************************************************************************)
(* Proofs about Mandate for every set of events, amounts, plans, waits and *)
(* limits.  MandateInv, defined in Mandate, is inductive: the lemmas first *)
(* say what the gate, the clock and the operators on one row do, then what *)
(* becomes of DbInv when one row changes and the mandate is charged.  The  *)
(* last part shows that Mandate implements EventFate.                      *)
(***************************************************************************)
EXTENDS Mandate, SumLemmas

-----------------------------------------------------------------------------
(* Arithmetic.                                                             *)

\* A quotient of naturals is the one between two multiples of the divisor.
LEMMA Quotient ==
    ASSUME NEW a \in Nat, NEW c \in Nat \ {0}
    PROVE  /\ a \div c \in Nat
           /\ c * (a \div c) <= a
           /\ a < c * (a \div c) + c
OBVIOUS

\* A share of b in c parts of which there are no more than c.
LEMMA ShareIsNoMore ==
    ASSUME NEW b \in Nat, NEW s \in Nat, NEW c \in Nat \ {0}, s <= c
    PROVE  (b * s) \div c \in Nat /\ (b * s) \div c <= b
<1> DEFINE q == (b * s) \div c
<1>1. b * s \in Nat
  OBVIOUS
<1>2. q \in Nat /\ c * q <= b * s
  BY <1>1, Quotient
<1>3. b * s <= b * c
  OBVIOUS
<1> HIDE DEF q
<1>4. c * q <= c * b
  <2>1. b * c = c * b /\ c * q \in Nat /\ c * b \in Nat
    BY <1>2
  <2> QED BY <1>1, <1>2, <1>3, <2>1
<1>5. ASSUME q > b PROVE FALSE
  <2>1. c * q = c * b + c * (q - b)
    BY <1>2
  <2>2. q - b \in Nat \ {0}
    BY <1>2, <1>5
  <2>3. c * (q - b) > 0
    BY <2>2
  <2>4. c * b \in Nat /\ c * (q - b) \in Nat
    BY <2>2
  <2> QED BY <1>4, <2>1, <2>3, <2>4
<1>6. q <= b
  BY <1>2, <1>5
<1> QED BY <1>2, <1>6 DEF q

-----------------------------------------------------------------------------
(* What is looked up.                                                      *)

\* The catalogue has a price for every action.
LEMMA CostIsNat ==
    \A a \in ActionType : INTERVENTIONS[a].cost_paise \in Nat
BY DEF INTERVENTIONS, Intervention, ActionType

\* The steps of a plan are numbered, none of them does nothing, and at most
\* one of them retries the payment.
LEMMA StepsOfPlan ==
    ASSUME NEW p \in Plans
    PROVE  /\ p \in Seq(ActionType \ {"DO_NOTHING"})
           /\ Len(p) \in Steps
           /\ DOMAIN p = 1..Len(p)
           /\ \A i \in DOMAIN p :
                 i \in Steps /\ p[i] \in ActionType \ {"DO_NOTHING"}
           /\ \A i, j \in DOMAIN p :
                 p[i] = "RETRY_PAYMENT" /\ p[j] = "RETRY_PAYMENT" => i = j
<1>1. /\ p \in Seq(ActionType \ {"DO_NOTHING"})
      /\ Len(p) \in Steps
      /\ \A i, j \in DOMAIN p :
            p[i] = "RETRY_PAYMENT" /\ p[j] = "RETRY_PAYMENT" => i = j
  BY MandateConstants
<1>2. DOMAIN p = 1..Len(p)
  BY <1>1
<1>3. ASSUME NEW i \in DOMAIN p
      PROVE  i \in Steps /\ p[i] \in ActionType \ {"DO_NOTHING"}
  BY <1>1, <1>2, <1>3 DEF Steps
<1> QED BY <1>1, <1>2, <1>3

\* A wait is a natural number of quarters.
LEMMA QuartersAreNat ==
    ASSUME NEW minutes \in Nat
    PROVE  Quarters(minutes) \subseteq Nat
<1> DEFINE c == 15 * clock_speedup
<1>1. c \in Nat \ {0}
  BY MandateConstants
<1>2. minutes + c - 1 \in Nat
  BY <1>1
<1> HIDE DEF c
<1>3. minutes \div c \in Nat /\ (minutes + c - 1) \div c \in Nat
  BY <1>1, <1>2, Quotient
<1>4. Quarters(minutes) = {minutes \div c, (minutes + c - 1) \div c}
  BY DEF c, Quarters
<1> QED BY <1>3, <1>4

\* An action resolves within minutes of its own.
LEMMA ResolveDelayIsNat == \A a : RESOLVE_DELAY_MINUTES(a) \in Nat
BY DEF RESOLVE_DELAY_MINUTES

\* The delays of a step are minutes.
LEMMA DelaysAreNat == \A r, i : DelayMinutes(r, i) \subseteq Nat
BY DEF DelayMinutes

\* A discount is a part of the amount.
LEMMA DiscountIsPart ==
    ASSUME NEW e \in Events, NEW r
    PROVE  discount_paise(e, r) \in 0..Amount[e]
<1>1. Amount[e] \in Nat
  BY MandateConstants
<1> DEFINE share == IF Amount[e] >= 100000 THEN 80 ELSE 48
<1>2. share \in Nat /\ share <= 1000
  OBVIOUS
<1> HIDE DEF share
<1>3. (Amount[e] * share) \div 1000 \in 0..Amount[e]
  BY <1>1, <1>2, ShareIsNoMore
<1>4. \/ discount_paise(e, r) = (Amount[e] * share) \div 1000
      \/ discount_paise(e, r) = 0
  BY DEF discount_paise, share
<1> QED BY <1>1, <1>3, <1>4

\* What would have come anyway is no more than what came.
LEMMA OrganicIsPart ==
    ASSUME NEW gross \in Nat, NEW model \in ModelRates, NEW c \in CohortRates
    PROVE  organic_estimate(gross, model, c) \in 0..gross
<1> DEFINE hits  == IF c.total > 0 THEN c.hits ELSE c.overall_hits
           total == IF c.total > 0 THEN c.total ELSE c.overall_total
<1>1. hits \in Nat /\ total \in Nat /\ hits <= total
  BY MandateConstants
<1>2. model \in Nat /\ model <= 100
  BY MandateConstants
<1>3. organic_estimate(gross, model, c) =
        IF total < MIN_COHORT_SAMPLE THEN (gross * model) \div 100
        ELSE IF model = 0 THEN (gross * hits) \div total
        ELSE (gross * (100 * hits + model * total)) \div (200 * total)
  BY DEF organic_estimate
<1> HIDE DEF hits, total
<1>4. (gross * model) \div 100 \in 0..gross
  BY <1>2, ShareIsNoMore
<1>5. CASE total < MIN_COHORT_SAMPLE
  BY <1>3, <1>4, <1>5
<1>6. CASE ~(total < MIN_COHORT_SAMPLE)
  <2>1. total \in Nat \ {0}
    BY <1>1, <1>6 DEF MIN_COHORT_SAMPLE
  <2>2. (gross * hits) \div total \in 0..gross
    BY <1>1, <2>1, ShareIsNoMore
  <2>3. model * total \in Nat /\ model * total <= 100 * total
    BY <1>1, <1>2
  <2>4. 100 * hits + model * total \in Nat
    BY <1>1, <2>3
  <2>5. 100 * hits + model * total <= 200 * total
    BY <1>1, <2>3
  <2>6. 200 * total \in Nat \ {0}
    BY <2>1
  <2>7. (gross * (100 * hits + model * total)) \div (200 * total) \in 0..gross
    <3> DEFINE share == 100 * hits + model * total
               whole == 200 * total
    <3>1. share \in Nat /\ whole \in Nat \ {0} /\ share <= whole
      BY <2>4, <2>5, <2>6
    <3> HIDE DEF share, whole
    <3>2. (gross * share) \div whole \in 0..gross
      BY <3>1, ShareIsNoMore
    <3> QED BY <3>2 DEF share, whole
  <2> QED BY <1>3, <1>6, <2>2, <2>7
<1> QED BY <1>5, <1>6

-----------------------------------------------------------------------------
(* The gate.                                                               *)

\* What is allowed is blocked by no rule.
LEMMA AllowedIsUnblocked ==
    ASSUME NEW a, a # "DO_NOTHING", NEW g, evaluate(a, g) # "BLOCK"
    PROVE  Blocks(a, g) = {}
BY DEF evaluate

\* What a retry and a contact were let through for.
LEMMA AllowMeans ==
    ASSUME NEW a, a # "DO_NOTHING", NEW g, evaluate(a, g) # "BLOCK"
    PROVE  /\ a = "RETRY_PAYMENT" => ~(g.npci >= npci_max_attempts)
           /\ a = "RETRY_PAYMENT" => ~g.peak
           /\ a = "RETRY_PAYMENT" => ~PdnUnmet(g)
           /\ consumes_contact(a) => ~g.quiet
<1>1. \A rule : rule \notin Blocks(a, g)
  BY AllowedIsUnblocked
<1>2. a = "RETRY_PAYMENT" => ~(g.npci >= npci_max_attempts)
  BY <1>1 DEF Blocks
<1>3. a = "RETRY_PAYMENT" => ~g.peak
  BY <1>1 DEF Blocks
<1>4. a = "RETRY_PAYMENT" => ~PdnUnmet(g)
  BY <1>1 DEF Blocks
<1>5. consumes_contact(a) => ~g.quiet
  BY <1>1 DEF Blocks
<1> QED BY <1>2, <1>3, <1>4, <1>5

\* A retry does not count as a contact.
LEMMA RetryIsNoContact == ~consumes_contact("RETRY_PAYMENT")
BY DEF consumes_contact
-----------------------------------------------------------------------------
(* What has run.                                                           *)

\* A row in the hands of a handler: its journey is open and not yet booked.
InHand(r) == r \in Row /\ Running(r) /\ Open(r)

\* The steps that ran and the one that may are steps of the plan.
LEMMA InHandSteps ==
    ASSUME NEW r, InHand(r)
    PROVE  /\ r.plan \in Plans
           /\ DOMAIN r.plan = 1..Len(r.plan) /\ Len(r.plan) \in 1..4
           /\ r.step \in 1..Len(r.plan)
           /\ Action(r) \in ActionType \ {"DO_NOTHING"}
           /\ Cost(r) \in Nat
           /\ r.done \subseteq DOMAIN r.plan
           /\ \A i \in DOMAIN r.plan : r.plan[i] \in ActionType
           /\ r.done \in SUBSET Steps
<1>1. /\ r.plan \in Plans /\ r.step \in DOMAIN r.plan
      /\ r.done \subseteq 1..r.step
  BY DEF InHand, Running, Progress
<1>2. /\ DOMAIN r.plan = 1..Len(r.plan) /\ Len(r.plan) \in 1..4
      /\ \A i \in DOMAIN r.plan : r.plan[i] \in ActionType \ {"DO_NOTHING"}
  BY <1>1, StepsOfPlan DEF Steps
<1>3. Action(r) \in ActionType \ {"DO_NOTHING"}
  BY <1>1, <1>2 DEF Action
<1>4. Cost(r) \in Nat
  BY <1>3, CostIsNat DEF Cost
<1>5. r.done \subseteq DOMAIN r.plan
  BY <1>1, <1>2
<1>6. r.done \in SUBSET Steps
  BY <1>2, <1>5 DEF Steps
<1> QED BY <1>1, <1>2, <1>3, <1>4, <1>5, <1>6

\* What ran has cost depends on the plan and on what ran.
LEMMA RanSame ==
    ASSUME NEW r, NEW s, s.plan = r.plan, s.done = r.done
    PROVE  Ran(s) = Ran(r)
BY DEF Ran

\* A set of steps is finite.
LEMMA StepsAreFinite ==
    ASSUME NEW D \in SUBSET Steps PROVE IsFiniteSet(D)
<1>1. 1 \in Int /\ 4 \in Int
  OBVIOUS
<1>2. IsFiniteSet(Steps)
  BY <1>1, FS_Interval, Zenon DEF Steps
<1> QED BY <1>2, FS_Subset

\* A step that runs adds its cost.
LEMMA RanGrows ==
    ASSUME NEW r, InHand(r), r.step \notin r.done, NEW s, s.plan = r.plan,
           s.done = r.done \cup {r.step}
    PROVE  Ran(s) = Ran(r) + Cost(r)
<1> DEFINE D == r.done
           f == [i \in D |-> INTERVENTIONS[r.plan[i]].cost_paise]
           g == [i \in D \cup {r.step} |-> INTERVENTIONS[r.plan[i]].cost_paise]
<1>1. IsFiniteSet(D) /\ D \in SUBSET D
  BY InHandSteps, StepsAreFinite
<1>2. \A i \in D \cup {r.step} : g[i] \in Int
  <2>1. D \cup {r.step} \subseteq DOMAIN r.plan
    BY InHandSteps
  <2> QED BY <2>1, InHandSteps, CostIsNat
<1>3. SumOver(f, D) = SumOver(g, D)
  <2>1. \A i \in D : f[i] = g[i]
    OBVIOUS
  <2> HIDE DEF f, g
  <2> QED BY <1>1, <2>1, SumsAgree
<1>4. SumOver(g, D \cup {r.step}) = SumOver(g, D) + g[r.step]
  <2>1. r.step \notin D
    OBVIOUS
  <2> HIDE DEF g, D
  <2> QED BY <1>1, <1>2, <2>1, SumPutsIn
<1>5. g[r.step] = Cost(r)
  BY DEF Cost, Action
<1>6. Ran(r) = SumOver(f, D)
  BY DEF Ran, SumOver
<1>7. Ran(s) = SumOver(g, D \cup {r.step})
  BY DEF Ran, SumOver
<1> HIDE DEF f, g
<1> QED BY <1>3, <1>4, <1>5, <1>6, <1>7

-----------------------------------------------------------------------------
(* What the handlers do to one row.                                        *)

\* row may follow r when the gateway was not called.
Follows(e, r, row) ==
    /\ row \in Row /\ RowInv(e, row)
    /\ row.created_at = r.created_at
    /\ row.npci = r.npci /\ row.contacts = r.contacts
    /\ MayPresent(row) => MayPresent(r)

\* A journey whose step i can be planned next.
Schedulable(r, i) ==
    /\ r \in Row /\ r.plan \in Plans /\ i \in DOMAIN r.plan
    /\ r.done \subseteq 1..i /\ i \notin r.done
    /\ r.event_contacts = r.contacts /\ r.event_cost = r.cost
    /\ r.event = "IN_RECOVERY" /\ r.entry = None /\ r.cost = Ran(r)

\* The step that is planned, blocked or not, is a row at rest.
LEMMA ScheduleRests ==
    ASSUME NEW e \in Events, now \in Instants, NEW r, NEW i,
           Schedulable(r, i), NEW g, NEW row \in ScheduleStep(r, i, g)
    PROVE  /\ row \in Row /\ RowInv(e, row)
           /\ row.plan = r.plan /\ row.step = i
           /\ row.npci = r.npci /\ row.contacts = r.contacts
           /\ row.created_at = r.created_at /\ row.journey = "PLANNED"
<1> DEFINE s == [r EXCEPT !.journey = "PLANNED", !.step = i]
<1>1. r \in Row /\ i \in 1..4 /\ i \notin r.done
  BY StepsOfPlan DEF Schedulable, Steps
<1>0. now \in Nat /\ now >= Start
  BY MandateConstants DEF Instants
<1>2. PICK act \in {"PLANNED", "BLOCKED"}, due \in Nat :
          row = [s EXCEPT !.act = act, !.due = due] /\ due >= now
  <2>1. CASE evaluate(r.plan[i], g) = "BLOCK"
    <3>1. row = [s EXCEPT !.act = "BLOCKED", !.due = now]
      BY <2>1 DEF ScheduleStep, Block
    <3>2. now \in Nat /\ now >= now
      BY <1>0
    <3> QED BY <3>1, <3>2
  <2>2. CASE evaluate(r.plan[i], g) # "BLOCK"
    <3>1. PICK quarters \in UNION {Quarters(m) : m \in DelayMinutes(r, i)} :
            row = [s EXCEPT !.act = "PLANNED", !.due = now + quarters]
      BY <2>2 DEF ScheduleStep
    <3>2. quarters \in Nat
      BY <3>1, DelaysAreNat, QuartersAreNat
    <3>3. now + quarters \in Nat /\ now + quarters >= now
      BY <1>0, <3>2
    <3> QED BY <3>1, <3>3
  <2> QED BY <2>1, <2>2
<1>4. row \in Row
  <2>1. s \in Row
    <3>1. "PLANNED" \in JourneyStatus /\ i \in MaybeStep
      BY <1>1 DEF JourneyStatus, MaybeStep, Steps
    <3> QED BY <1>1, <3>1 DEF Row
  <2> HIDE DEF s
  <2>2. act \in ActStatus
    BY DEF ActStatus
  <2> QED BY <1>2, <2>1, <2>2 DEF Row
<1>5. /\ row.plan = r.plan /\ row.step = i /\ row.done = r.done
      /\ row.due >= Start /\ row.act \in {"PLANNED", "BLOCKED"}
      /\ row.event_contacts = r.event_contacts /\ row.contacts = r.contacts
      /\ row.event_cost = r.event_cost /\ row.cost = r.cost
      /\ row.event = r.event /\ row.entry = r.entry /\ row.npci = r.npci
      /\ row.created_at = r.created_at /\ row.journey = "PLANNED"
  <2>1. /\ s.plan = r.plan /\ s.step = i /\ s.done = r.done
        /\ s.event_contacts = r.event_contacts /\ s.contacts = r.contacts
        /\ s.event_cost = r.event_cost /\ s.cost = r.cost
        /\ s.event = r.event /\ s.entry = r.entry /\ s.npci = r.npci
        /\ s.created_at = r.created_at /\ s.journey = "PLANNED"
        /\ "act" \in DOMAIN s /\ "due" \in DOMAIN s
    BY <1>1 DEF Row
  <2>2. /\ row.act = act /\ row.due = due
    BY <1>2, <2>1
  <2>3. due >= Start
    BY <1>0, <1>2, MandateConstants
  <2> HIDE DEF s
  <2> QED BY <1>2, <2>1, <2>2, <2>3
<1>6. RowInv(e, row)
  <2>1. Progress(row)
    BY <1>5 DEF Schedulable, Progress
  <2>2. Running(row)
    BY <1>5, <2>1, RanSame DEF Schedulable, Running
  <2> QED BY <1>1, <1>5, <2>2 DEF RowInv
<1> QED BY <1>4, <1>5, <1>6

\* A journey that goes on to a later step.
LEMMA ScheduleFollows ==
    ASSUME NEW e \in Events, now \in Instants, NEW r, InHand(r),
           NEW i \in DOMAIN r.plan, i > r.step, NEW g,
           NEW row \in ScheduleStep(r, i, g)
    PROVE  Follows(e, r, row)
<1>1. Schedulable(r, i)
  <2>1. i \notin r.done /\ r.done \subseteq 1..i
    BY InHandSteps DEF InHand, Running, Progress
  <2> QED BY <2>1 DEF Schedulable, InHand, Running, Progress
<1>2. /\ row \in Row /\ RowInv(e, row)
      /\ row.plan = r.plan /\ row.step = i
      /\ row.npci = r.npci /\ row.contacts = r.contacts
      /\ row.created_at = r.created_at /\ row.journey = "PLANNED"
  BY <1>1, ScheduleRests
<1>3. MayPresent(row) => MayPresent(r)
  <2> SUFFICES ASSUME NEW j \in DOMAIN r.plan, r.plan[j] = "RETRY_PAYMENT",
                      j > i \/ j = i
               PROVE  j > r.step
    BY <1>2 DEF MayPresent, InHand
  <2> QED BY InHandSteps
<1> QED BY <1>2, <1>3 DEF Follows

\* s differs from r in the last action at most, which is not planned.
SameButAction(r, s) ==
    /\ s.plan = r.plan /\ s.step = r.step /\ s.done = r.done
    /\ s.event_contacts = r.event_contacts /\ s.contacts = r.contacts
    /\ s.event_cost = r.event_cost /\ s.cost = r.cost
    /\ s.event = r.event /\ s.entry = r.entry /\ s.npci = r.npci
    /\ s.created_at = r.created_at /\ s.journey = r.journey
    /\ s.due >= Start /\ s.act # "PLANNED"

\* What is in hand stays in hand,
LEMMA SameInHand ==
    ASSUME NEW r, InHand(r), NEW s \in Row, SameButAction(r, s)
    PROVE  InHand(s) /\ (MayPresent(s) => MayPresent(r))
<1>1. Progress(s)
  BY DEF SameButAction, InHand, Running, Progress
<1>2. Running(s)
  BY <1>1, RanSame DEF SameButAction, InHand, Running
<1>3. Open(s)
  BY DEF SameButAction, InHand, Open
<1>4. MayPresent(s) => MayPresent(r)
  BY DEF SameButAction, InHand, MayPresent
<1> QED BY <1>2, <1>3, <1>4 DEF InHand

\* and what follows it follows the row it was.
LEMMA FollowsSame ==
    ASSUME NEW e, NEW r, InHand(r), NEW s \in Row, SameButAction(r, s),
           NEW row, Follows(e, s, row)
    PROVE  Follows(e, r, row)
BY SameInHand DEF SameButAction, Follows

\* The re-check blocks the action,
LEMMA BlockSame ==
    ASSUME NEW r, InHand(r), now \in Instants
    PROVE  Block(r) \in Row /\ SameButAction(r, Block(r))
<1>1. now \in Nat /\ now >= Start
  BY MandateConstants DEF Instants
<1>2. r \in Row /\ "BLOCKED" \in ActStatus
  BY DEF InHand, ActStatus
<1>3. Block(r) \in Row
  BY <1>1, <1>2 DEF Block, Row
<1>4. SameButAction(r, Block(r))
  BY <1>1, <1>2 DEF Block, Row, SameButAction
<1> QED BY <1>3, <1>4

\* or it failed.
LEMMA FailSame ==
    ASSUME NEW r, InHand(r)
    PROVE  /\ [r EXCEPT !.act = "FAILED"] \in Row
           /\ SameButAction(r, [r EXCEPT !.act = "FAILED"])
<1>1. r \in Row /\ "FAILED" \in ActStatus /\ r.due >= Start
  BY DEF InHand, Running, Progress, ActStatus
<1>2. [r EXCEPT !.act = "FAILED"] \in Row
  BY <1>1 DEF Row
<1>3. SameButAction(r, [r EXCEPT !.act = "FAILED"])
  BY <1>1 DEF Row, SameButAction
<1> QED BY <1>2, <1>3

\* The journey goes on to its next step or is lost.
LEMMA NextFollows ==
    ASSUME NEW e \in Events, now \in Instants, NEW r, InHand(r), NEW ctx,
           NEW row \in NextStepOrClose(e, ctx, r)
    PROVE  Follows(e, r, row)
<1>1. CASE r.step < Len(r.plan)
  <2>1. row \in ScheduleStep(r, r.step + 1, TickGate(e, ctx))
    BY <1>1 DEF NextStepOrClose
  <2>2. r.step + 1 \in DOMAIN r.plan /\ r.step + 1 > r.step
    BY <1>1, InHandSteps
  <2> QED BY <2>1, <2>2, ScheduleFollows
<1>2. CASE ~(r.step < Len(r.plan))
  <2>1. row = [r EXCEPT !.event = "LOST", !.journey = "CLOSED"]
    BY <1>2 DEF NextStepOrClose
  <2>2. r \in Row /\ "LOST" \in EventStatus /\ "CLOSED" \in JourneyStatus
    BY DEF InHand, EventStatus, JourneyStatus
  <2>3. row \in Row
    BY <2>1, <2>2 DEF Row
  <2>4. /\ row.plan = r.plan /\ row.step = r.step /\ row.done = r.done
        /\ row.event_contacts = r.event_contacts /\ row.contacts = r.contacts
        /\ row.event_cost = r.event_cost /\ row.cost = r.cost
        /\ row.event = "LOST" /\ row.entry = r.entry /\ row.npci = r.npci
        /\ row.created_at = r.created_at /\ row.journey = "CLOSED"
        /\ row.due = r.due
    BY <2>1, <2>2 DEF Row
  <2>5. RowInv(e, row)
    BY <2>4, RanSame DEF RowInv, InHand, Running, Progress
  <2>6. ~MayPresent(row)
    BY <2>4 DEF MayPresent, Open
  <2> QED BY <2>3, <2>4, <2>5, <2>6 DEF Follows
<1> QED BY <1>1, <1>2

\* A recovery is booked.
LEMMA BookFollows ==
    ASSUME NEW e \in Events, NEW r, InHand(r),
           NEW model \in ModelRates, NEW c \in CohortRates
    PROVE  Follows(e, r, Book(e, r, model, c))
<1> DEFINE discount == discount_paise(e, r)
           gross   == Amount[e] - discount
           cost    == Cost(r) + discount
           organic == organic_estimate(gross, model, c)
           entry   == [gross |-> gross, organic |-> organic, cost |-> cost,
                       incremental |-> gross - organic - cost]
           row     == Book(e, r, model, c)
           total   == r.cost + cost
           totals  == r.event_cost + cost
<1>1. discount \in Nat /\ gross \in Nat /\ cost \in Nat
  <2>1. discount \in 0..Amount[e]
    BY DiscountIsPart
  <2>2. Amount[e] \in Nat
    BY MandateConstants
  <2>3. Cost(r) \in Nat
    BY InHandSteps
  <2> HIDE DEF discount
  <2> QED BY <2>1, <2>2, <2>3
<1>2. organic \in Nat /\ organic <= gross
  <2> HIDE DEF gross
  <2> QED BY <1>1, OrganicIsPart
<1>3. gross + discount = Amount[e]
  <2>1. Amount[e] \in Nat
    BY MandateConstants
  <2> QED BY <1>1, <2>1
<1>4. row = [r EXCEPT !.act = "SUCCEEDED", !.event = "RECOVERED",
                      !.journey = "CLOSED", !.recovered = gross,
                      !.event_cost = totals, !.cost = total, !.entry = entry]
  BY DEF Book
<1>5. /\ entry.gross = gross /\ entry.organic = organic /\ entry.cost = cost
      /\ entry # None
      /\ entry \in MaybeEntry
  <2> HIDE DEF gross, cost, organic
  <2>1. entry \in Entry
    BY <1>1, <1>2 DEF Entry
  <2>2. entry # None /\ entry \in MaybeEntry
    BY <2>1, MandateConstants DEF MaybeEntry
  <2> QED BY <2>2
<1>6. /\ r \in Row /\ r.cost \in Nat /\ r.event_cost \in Nat
      /\ total \in Nat /\ totals \in Nat /\ total = totals
  <2>1. r \in Row /\ r.event_cost = r.cost
    BY DEF InHand, Running, Progress
  <2>2. r.cost \in Nat /\ r.event_cost \in Nat
    BY <2>1 DEF Row
  <2> HIDE DEF cost
  <2> QED BY <1>1, <2>1, <2>2
<1>7. /\ "SUCCEEDED" \in ActStatus /\ "RECOVERED" \in EventStatus
      /\ "CLOSED" \in JourneyStatus
  BY DEF ActStatus, EventStatus, JourneyStatus
<1> HIDE DEF discount, gross, cost, organic, entry, row, total, totals
<1>8. row \in Row
  BY <1>1, <1>4, <1>5, <1>6, <1>7 DEF Row
<1>9. /\ row.plan = r.plan /\ row.step = r.step /\ row.done = r.done
      /\ row.event_contacts = r.event_contacts /\ row.contacts = r.contacts
      /\ row.event_cost = totals /\ row.cost = total
      /\ row.event = "RECOVERED" /\ row.entry = entry /\ row.npci = r.npci
      /\ row.created_at = r.created_at /\ row.journey = "CLOSED"
      /\ row.due = r.due /\ row.recovered = gross
  BY <1>4, <1>6 DEF Row
<1>10. Progress(row)
  BY <1>6, <1>9 DEF InHand, Running, Progress
<1>11. Booked(e, row)
  <2>1. discount_paise(e, row) = discount
    BY <1>9 DEF discount_paise, discount
  <2>2. row.cost = Ran(row) + row.entry.cost
    BY <1>5, <1>9, RanSame DEF total, InHand, Running
  <2> QED BY <1>2, <1>3, <1>5, <1>9, <2>1, <2>2 DEF Booked
<1>12. RowInv(e, row)
  BY <1>9, <1>10, <1>11 DEF RowInv
<1>13. ~MayPresent(row)
  BY <1>9 DEF MayPresent, Open
<1> QED BY <1>8, <1>9, <1>12, <1>13 DEF Follows, row

\* The gateway was called: what is in hand is a row that waits for an answer.
LEMMA ExecutedInHand ==
    ASSUME NEW r, InHand(r), now \in Instants, r.step \notin r.done,
           r.act = "PLANNED"
    PROVE  /\ InHand(Executed(r))
           /\ Executed(r).journey = "VERIFYING"
           /\ Executed(r).act = "EXECUTING"
           /\ Executed(r).created_at = r.created_at
           /\ Executed(r).npci = r.npci
                 + (IF Action(r) = "RETRY_PAYMENT" THEN 1 ELSE 0)
           /\ Executed(r).contacts = r.contacts
                 + (IF consumes_contact(Action(r)) THEN 1 ELSE 0)
           /\ MayPresent(Executed(r)) => MayPresent(r)
           /\ Action(r) = "RETRY_PAYMENT" =>
                 MayPresent(r) /\ ~MayPresent(Executed(r))
<1> DEFINE contact == IF consumes_contact(Action(r)) THEN 1 ELSE 0
           retry   == IF Action(r) = "RETRY_PAYMENT" THEN 1 ELSE 0
           D    == r.done \cup {r.step}
           last == IF contact = 1 THEN now ELSE r.last_contact
           c1   == r.contacts + contact
           c2   == r.event_contacts + contact
           n1   == r.retries + retry
           n2   == r.npci + retry
           p1   == r.cost + Cost(r)
           p2   == r.event_cost + Cost(r)
           s    == Executed(r)
<1>1. s = [r EXCEPT !.act = "EXECUTING", !.journey = "VERIFYING", !.polls = 0,
                    !.done = D, !.last_contact = last,
                    !.contacts = c1, !.event_contacts = c2,
                    !.retries = n1, !.npci = n2,
                    !.cost = p1, !.event_cost = p2]
  BY DEF Executed
<1>2. /\ r \in Row /\ r.step \in Steps
      /\ r.event_contacts = r.contacts /\ r.event_cost = r.cost
      /\ Cost(r) \in Nat /\ r.plan \in Plans /\ r.done \subseteq 1..r.step
      /\ r.step \in 1..Len(r.plan)
  BY InHandSteps DEF InHand, Running, Progress, Steps
<1>3. contact \in Nat /\ retry \in Nat
  OBVIOUS
<1>4. /\ r.contacts \in Nat /\ r.event_contacts \in Nat /\ r.retries \in Nat
      /\ r.npci \in Nat /\ r.cost \in Nat /\ r.event_cost \in Nat
      /\ r.done \in SUBSET Steps /\ r.last_contact \in MaybeInstant
  BY <1>2 DEF Row
<1>5. /\ D \in SUBSET Steps /\ last \in MaybeInstant
      /\ c1 \in Nat /\ c2 \in Nat /\ n1 \in Nat /\ n2 \in Nat
      /\ p1 \in Nat /\ p2 \in Nat
  <2>1. D \in SUBSET Steps
    BY <1>2, <1>4
  <2>2. last \in MaybeInstant
    BY <1>4 DEF MaybeInstant
  <2> HIDE DEF D, last, contact, retry
  <2>3. c1 \in Nat /\ c2 \in Nat
    BY <1>3, <1>4
  <2>4. n1 \in Nat /\ n2 \in Nat
    BY <1>3, <1>4
  <2>5. p1 \in Nat /\ p2 \in Nat
    BY <1>2, <1>4
  <2> QED BY <2>1, <2>2, <2>3, <2>4, <2>5
<1>6. "EXECUTING" \in ActStatus /\ "VERIFYING" \in JourneyStatus
  BY DEF ActStatus, JourneyStatus
<1>7. p1 = Ran(r) + Cost(r) /\ c1 = c2 /\ p1 = p2
  BY <1>2 DEF InHand, Running
<1>8. D \subseteq 1..r.step
  BY <1>2
<1> HIDE DEF D, last, c1, c2, n1, n2, p1, p2, s
<1>9. s \in Row
  BY <1>1, <1>2, <1>5, <1>6 DEF Row
<1>10. /\ s.plan = r.plan /\ s.step = r.step /\ s.done = D
       /\ s.event_contacts = c2 /\ s.contacts = c1
       /\ s.event_cost = p2 /\ s.cost = p1
       /\ s.event = r.event /\ s.entry = r.entry /\ s.npci = n2
       /\ s.created_at = r.created_at /\ s.journey = "VERIFYING"
       /\ s.due = r.due /\ s.act = "EXECUTING"
  BY <1>1, <1>2 DEF Row
<1>11. Ran(s) = Ran(r) + Cost(r)
  BY <1>10, RanGrows DEF D
<1>12. Running(s)
  BY <1>7, <1>8, <1>10, <1>11 DEF InHand, Running, Progress
<1>13. InHand(s)
  BY <1>9, <1>10, <1>12 DEF InHand, Open
<1>14. MayPresent(s) => MayPresent(r)
  BY <1>10 DEF MayPresent, InHand
<1>15. ASSUME Action(r) = "RETRY_PAYMENT"
       PROVE  MayPresent(r) /\ ~MayPresent(s)
  <2>1. r.step \in DOMAIN r.plan /\ r.plan[r.step] = "RETRY_PAYMENT"
    BY <1>15 DEF Action, InHand, Running, Progress
  <2>2. MayPresent(r)
    BY <2>1 DEF MayPresent, InHand
  <2>3. \A i \in DOMAIN r.plan : r.plan[i] = "RETRY_PAYMENT" => i = r.step
    BY <1>2, <2>1, StepsOfPlan
  <2>4. ~MayPresent(s)
    BY <1>2, <1>10, <2>3 DEF MayPresent
  <2> QED BY <2>2, <2>4
<1> QED BY <1>10, <1>13, <1>14, <1>15 DEF s, c1, n2

\* The answer stays out, is a success or a failure.
LEMMA AnsweredFollows ==
    ASSUME NEW e \in Events, now \in Instants, NEW r, InHand(r),
           r.journey = "VERIFYING", r.act = "EXECUTING",
           NEW ctx, NEW wait \in Nat, NEW row \in Answered(e, ctx, r, wait)
    PROVE  Follows(e, r, row)
<1>1. ASSUME row \in NextStepOrClose(e, ctx, [r EXCEPT !.act = "FAILED"])
      PROVE  Follows(e, r, row)
  <2> DEFINE s == [r EXCEPT !.act = "FAILED"]
  <2>1. s \in Row /\ SameButAction(r, s)
    BY FailSame
  <2> HIDE DEF s
  <2>2. InHand(s)
    BY <2>1, SameInHand
  <2>3. Follows(e, s, row)
    BY <1>1, <2>2, NextFollows DEF s
  <2> QED BY <2>1, <2>3, FollowsSame
<1>2. ASSUME row \in Bookings(e, r)
      PROVE  Follows(e, r, row)
  <2>1. PICK model \in ModelRates, c \in CohortRates :
             row = Book(e, r, model, c)
    BY <1>2 DEF Bookings
  <2> QED BY <2>1, BookFollows
<1>3. ASSUME row \in StaysOut(r, wait)
      PROVE  Follows(e, r, row)
  <2>1. PICK quarters \in Quarters(wait) :
             row = [r EXCEPT !.due = now + quarters, !.polls = @ + 1]
    BY <1>3 DEF StaysOut
  <2> DEFINE due == now + quarters
             polls == r.polls + 1
  <2>2. quarters \in Nat /\ now \in Nat /\ now >= Start /\ Start \in Nat
    BY QuartersAreNat, MandateConstants DEF Instants
  <2>3. due \in Nat /\ due >= Start
    BY <2>2
  <2>4. r \in Row /\ r.polls \in Nat /\ polls \in Nat
    BY DEF InHand, Row
  <2>5. row = [r EXCEPT !.due = due, !.polls = polls]
    BY <2>1
  <2> HIDE DEF due, polls
  <2>6. row \in Row
    BY <2>3, <2>4, <2>5 DEF Row
  <2>7. SameButAction(r, row) /\ row.act = "EXECUTING"
    BY <2>3, <2>4, <2>5 DEF Row, SameButAction
  <2>8. InHand(row) /\ (MayPresent(row) => MayPresent(r))
    BY <2>6, <2>7, SameInHand
  <2>9. RowInv(e, row)
    BY <2>7, <2>8 DEF RowInv, InHand, SameButAction
  <2> QED BY <2>6, <2>7, <2>8, <2>9 DEF Follows, SameButAction
<1> QED BY <1>1, <1>2, <1>3 DEF Answered

-----------------------------------------------------------------------------
(* What one row that changes does to rows and mandate.                     *)

\* 1 for a row that has an attempt in reserve.
Claim(r) == IF MayPresent(r) THEN 1 ELSE 0

\* The sums of Mandate are those the lemmas of SumLemmas are about.
LEMMA SumIsOverEvents == \A f : Sum(f) = SumOver(f, Events)
BY DEF Sum, SumOver

\* A column of the rows that holds numbers.
LEMMA ColumnMoves ==
    ASSUME NEW f, NEW g, NEW e \in Events,
           \A x \in Events : f[x] \in Int /\ g[x] \in Int,
           \A x \in Events : x # e => g[x] = f[x]
    PROVE  Sum(g) = Sum(f) + g[e] - f[e]
<1>1. IsFiniteSet(Events)
  BY MandateConstants
<1>2. SumOver(g, Events) = SumOver(f, Events) + g[e] - f[e]
  BY <1>1, SumChangesWithOne
<1> QED BY <1>2, SumIsOverEvents

\* A column of numbers sums up to a number.
LEMMA ColumnIsInt ==
    ASSUME NEW f, \A x \in Events : f[x] \in Int
    PROVE  Sum(f) \in Int
<1>1. IsFiniteSet(Events) /\ Events \in SUBSET Events
  BY MandateConstants
<1>2. SumOver(f, Events) \in Int
  BY <1>1, SumIsInt
<1> QED BY <1>2, SumIsOverEvents

\* There are finitely many rows that may present.
LEMMA PresentingIsFinite ==
    \A d : IsFiniteSet(Presenting(d)) /\ Cardinality(Presenting(d)) \in Nat
<1> SUFFICES ASSUME NEW d
             PROVE  IsFiniteSet(Presenting(d))
                    /\ Cardinality(Presenting(d)) \in Nat
  OBVIOUS
<1>1. IsFiniteSet(Events)
  BY MandateConstants
<1>2. Presenting(d) \in SUBSET Events
  BY DEF Presenting
<1>3. IsFiniteSet(Presenting(d))
  BY <1>1, <1>2, FS_Subset
<1> QED BY <1>3, FS_CardinalityType

\* When one row changes, the others present as before.
LEMMA PresentingMoves ==
    ASSUME NEW d, NEW c, NEW e \in Events, NEW row, d.rows \in [Events -> Row],
           c.rows = [d.rows EXCEPT ![e] = row]
    PROVE  Cardinality(Presenting(c)) + Claim(d.rows[e]) =
              Cardinality(Presenting(d)) + Claim(row)
<1> DEFINE P == Presenting(d)
           Q == Presenting(c)
<1>1. \A x \in Events : x # e => (x \in P <=> x \in Q)
  BY DEF Presenting
<1>2. (e \in P <=> MayPresent(d.rows[e])) /\ (e \in Q <=> MayPresent(row))
  BY DEF Presenting
<1>3. P \subseteq Events /\ Q \subseteq Events
  BY DEF Presenting
<1>4. /\ IsFiniteSet(P) /\ Cardinality(P) \in Nat
      /\ IsFiniteSet(Q) /\ Cardinality(Q) \in Nat
  BY PresentingIsFinite
<1> HIDE DEF P, Q
<1>5. CASE MayPresent(d.rows[e]) <=> MayPresent(row)
  <2>1. P = Q
    BY <1>1, <1>2, <1>3, <1>5
  <2>2. Claim(row) = Claim(d.rows[e])
    BY <1>5 DEF Claim
  <2> QED BY <2>1, <2>2 DEF P, Q
<1>6. CASE MayPresent(d.rows[e]) /\ ~MayPresent(row)
  <2>1. P = Q \cup {e} /\ e \notin Q
    BY <1>1, <1>2, <1>3, <1>6
  <2>2. Cardinality(P) = Cardinality(Q) + 1
    BY <1>4, <2>1, FS_AddElement
  <2>3. Claim(row) = 0 /\ Claim(d.rows[e]) = 1
    BY <1>6 DEF Claim
  <2> QED BY <1>4, <2>2, <2>3 DEF P, Q
<1>7. CASE ~MayPresent(d.rows[e]) /\ MayPresent(row)
  <2>1. Q = P \cup {e} /\ e \notin P
    BY <1>1, <1>2, <1>3, <1>7
  <2>2. Cardinality(Q) = Cardinality(P) + 1
    BY <1>4, <2>1, FS_AddElement
  <2>3. Claim(row) = 1 /\ Claim(d.rows[e]) = 0
    BY <1>7 DEF Claim
  <2> QED BY <1>4, <2>2, <2>3 DEF P, Q
<1> QED BY <1>5, <1>6, <1>7

\* DbInv outlives the row that takes the place of another, if what was charged
\* to the mandate is what the row counts, if there is an attempt in reserve
\* for it when it may present, and if it has been noticed.
LEMMA RowMoves ==
    ASSUME NEW t \in Int, NEW n \in Nat, NEW k \in Nat, NEW d, DbInv(d, t, n),
           NEW e \in Events, NEW row \in Row, RowInv(e, row),
           row.created_at <= t,
           NEW c \in Database, c.rows = [d.rows EXCEPT ![e] = row],
           c.mandate.seeded = d.mandate.seeded,
           c.mandate.attempts_used =
              d.mandate.attempts_used + row.npci - d.rows[e].npci,
           c.mandate.last_pdn_sent_at \in {d.mandate.last_pdn_sent_at, t},
           MayPresent(row) => Noticed(c.mandate.last_pdn_sent_at, row),
           c.mandate.attempts_used + Cardinality(Presenting(d)) + Claim(row)
              <= npci_max_attempts + k + Claim(d.rows[e])
    PROVE  DbInv(c, t, k)
<1>1. /\ d.rows \in [Events -> Row] /\ c.rows \in [Events -> Row]
      /\ d.mandate.attempts_used \in Nat /\ d.mandate.seeded \in Nat
      /\ c.mandate.attempts_used \in Nat
  BY DEF DbInv, Database, Mandates
<1>2. \A x \in Events : x # e => c.rows[x] = d.rows[x]
  BY <1>1
<1>3. c.rows[e] = row
  BY <1>1
<1>4. \A x \in Events : RowInv(x, c.rows[x]) /\ c.rows[x].created_at <= t
  BY <1>2, <1>3 DEF DbInv
<1>5. c.mandate.attempts_used =
          c.mandate.seeded + Sum([x \in Events |-> c.rows[x].npci])
  <2> DEFINE f == [x \in Events |-> d.rows[x].npci]
             g == [x \in Events |-> c.rows[x].npci]
  <2>1. \A x \in Events : f[x] \in Int /\ g[x] \in Int
    <3>1. \A r \in Row : r.npci \in Int
      BY DEF Row
    <3> QED BY <1>1, <3>1
  <2>2. \A x \in Events : x # e => g[x] = f[x]
    BY <1>2
  <2>3. g[e] = row.npci /\ f[e] = d.rows[e].npci
    BY <1>3
  <2>4. d.mandate.attempts_used = d.mandate.seeded + Sum(f)
    BY DEF DbInv
  <2> HIDE DEF f, g
  <2>5. Sum(g) = Sum(f) + g[e] - f[e]
    BY <2>1, <2>2, ColumnMoves
  <2>6. Sum(f) \in Int
    BY <2>1, ColumnIsInt
  <2>7. c.mandate.attempts_used = c.mandate.seeded + Sum(g)
    BY <1>1, <2>1, <2>3, <2>4, <2>5, <2>6
  <2> QED BY <2>7 DEF g
<1>6. c.mandate.attempts_used + Cardinality(Presenting(c))
          <= npci_max_attempts + k
  <2>1. Cardinality(Presenting(c)) + Claim(d.rows[e]) =
           Cardinality(Presenting(d)) + Claim(row)
    BY <1>1, PresentingMoves
  <2>2. Claim(row) \in Nat /\ Claim(d.rows[e]) \in Nat
    BY DEF Claim
  <2>3. /\ Cardinality(Presenting(c)) \in Nat
        /\ Cardinality(Presenting(d)) \in Nat
    BY PresentingIsFinite
  <2>4. npci_max_attempts \in Nat
    BY PolicyLimits
  <2> QED BY <1>1, <2>1, <2>2, <2>3, <2>4
<1>7. ASSUME NEW x \in Presenting(c)
      PROVE  Noticed(c.mandate.last_pdn_sent_at, c.rows[x])
  <2>1. x \in Events /\ MayPresent(c.rows[x])
    BY DEF Presenting
  <2>2. CASE x = e
    BY <1>3, <2>1, <2>2
  <2>3. CASE x # e
    <3>1. x \in Presenting(d) /\ c.rows[x] = d.rows[x]
      BY <1>2, <2>1, <2>3 DEF Presenting
    <3>2. Noticed(d.mandate.last_pdn_sent_at, c.rows[x])
      BY <3>1 DEF DbInv
    <3>3. Noticed(t, c.rows[x])
      BY <1>4, <2>1, <3>1 DEF Noticed
    <3> QED BY <3>2, <3>3
  <2> QED BY <2>2, <2>3
<1> QED BY <1>4, <1>5, <1>6, <1>7 DEF DbInv

\* Rows and mandate stay as they were, and time goes on.
LEMMA TimeMoves ==
    ASSUME NEW t \in Int, NEW u \in Int, NEW n \in Nat, NEW k \in Nat,
           t <= u, n <= k, NEW d, DbInv(d, t, n)
    PROVE  DbInv(d, u, k)
<1>1. \A e \in Events : d.rows[e].created_at <= u
  <2>1. \A r \in Row : r.created_at \in Int
    BY MandateConstants DEF Row, Instants
  <2>2. \A e \in Events : d.rows[e] \in Row
    BY DEF DbInv, Database
  <2> QED BY <2>1, <2>2 DEF DbInv
<1>2. d.mandate.attempts_used + Cardinality(Presenting(d))
          <= npci_max_attempts + k
  <2>1. d.mandate.attempts_used \in Nat
    BY DEF DbInv, Database, Mandates
  <2> QED BY <2>1, PolicyLimits, PresentingIsFinite DEF DbInv
<1> QED BY <1>1, <1>2 DEF DbInv

-----------------------------------------------------------------------------
(* Rows that nothing has happened to.                                      *)

\* The row of a new event: a row of the database, with nothing counted.
LEMMA NewRowIs ==
    /\ NewRow \in Row
    /\ NewRow.event = "AT_RISK" /\ NewRow.journey = "NONE"
    /\ NewRow.created_at = Start /\ NewRow.npci = 0 /\ NewRow.contacts = 0
    /\ NewRow.event_contacts = 0 /\ NewRow.event_cost = 0
    /\ NewRow.cost = 0 /\ NewRow.entry = None /\ NewRow.done = {}
    /\ ~Open(NewRow) /\ ~MayPresent(NewRow)
<1>1. /\ "AT_RISK" \in EventStatus /\ "NONE" \in JourneyStatus
      /\ Start \in Instants /\ Start \in Nat /\ <<>> \in MaybePlan
      /\ 0 \in MaybeStep /\ "NONE" \in ActStatus /\ {} \in SUBSET Steps
      /\ None \in MaybeInstant /\ None \in MaybeEntry /\ 0 \in Nat
  BY MandateConstants DEF EventStatus, JourneyStatus, Instants, MaybePlan,
       MaybeStep, ActStatus, MaybeInstant, MaybeEntry
<1>2. NewRow \in Row
  BY <1>1 DEF NewRow, Row
<1>3. /\ NewRow.event = "AT_RISK" /\ NewRow.journey = "NONE"
      /\ NewRow.created_at = Start /\ NewRow.npci = 0 /\ NewRow.contacts = 0
      /\ NewRow.event_contacts = 0 /\ NewRow.event_cost = 0
      /\ NewRow.cost = 0 /\ NewRow.entry = None /\ NewRow.done = {}
  BY DEF NewRow
<1>4. ~Open(NewRow) /\ ~MayPresent(NewRow)
  BY <1>3 DEF Open, MayPresent
<1> QED BY <1>2, <1>3, <1>4

\* Nothing has run.
LEMMA RanNothing == ASSUME NEW r, r.done = {} PROVE Ran(r) = 0
<1> DEFINE f == [i \in r.done |-> INTERVENTIONS[r.plan[i]].cost_paise]
<1>1. Ran(r) = SumOver(f, r.done)
  BY DEF Ran, SumOver
<1> HIDE DEF f
<1> QED BY <1>1, SumOfNothing

\* An event at risk has not been touched.
LEMMA AtRiskIsNew ==
    ASSUME NEW e, NEW r \in Row, RowInv(e, r), r.event = "AT_RISK"
    PROVE  r = NewRow
<1>1. r.journey \in {"NONE", "PLANNED", "VERIFYING", "CLOSED"}
  BY DEF Row, JourneyStatus
<1>2. r.journey = "NONE"
  BY <1>1 DEF RowInv, Running, Booked
<1>3. Untouched(r)
  BY <1>2 DEF RowInv
<1>4. [r EXCEPT !.event = "AT_RISK"] = r
  BY DEF Row
<1> QED BY <1>3, <1>4 DEF Untouched

\* Nothing has happened to the row of a new event.
LEMMA NewRowRests == \A e : RowInv(e, NewRow)
<1>1. [NewRow EXCEPT !.event = "AT_RISK"] = NewRow
  BY NewRowIs DEF Row
<1> QED BY <1>1, NewRowIs DEF RowInv, Untouched

\* What is suppressed stays otherwise untouched.
LEMMA SuppressFollows ==
    ASSUME NEW e, NEW row, row = [NewRow EXCEPT !.event = "SUPPRESSED"]
    PROVE  Follows(e, NewRow, row)
<1>1. row \in Row
  <2>1. "SUPPRESSED" \in EventStatus
    BY DEF EventStatus
  <2> QED BY <2>1, NewRowIs DEF Row
<1>2. /\ row.event = "SUPPRESSED" /\ row.journey = "NONE"
      /\ row.created_at = Start /\ row.npci = 0 /\ row.contacts = 0
  BY DEF NewRow
<1>3. Untouched(row)
  <2>1. [row EXCEPT !.event = "AT_RISK"] = NewRow
    BY NewRowIs DEF Row
  <2> QED BY <2>1 DEF Untouched
<1>4. RowInv(e, row)
  BY <1>2, <1>3 DEF RowInv
<1>5. ~MayPresent(row)
  BY <1>2 DEF MayPresent, Open
<1> QED BY <1>1, <1>2, <1>4, <1>5, NewRowIs DEF Follows

\* An open row at rest is one a handler can take in hand.
LEMMA OpenIsInHand ==
    ASSUME NEW e, NEW r \in Row, RowInv(e, r), Open(r)
    PROVE  /\ InHand(r)
           /\ r.act = "PLANNED" => r.step \notin r.done
           /\ r.act = "EXECUTING" => r.journey = "VERIFYING"
<1>1. CASE r.journey = "PLANNED"
  BY <1>1 DEF RowInv, InHand
<1>2. CASE r.journey = "VERIFYING"
  BY <1>2 DEF RowInv, InHand
<1> QED BY <1>1, <1>2 DEF Open

\* What a row at rest says of its columns.
LEMMA RowTells ==
    ASSUME NEW e \in Events, NEW r \in Row, RowInv(e, r)
    PROVE  /\ r.event_contacts = r.contacts
           /\ r.event_cost = r.cost
           /\ r.entry # None <=> r.event = "RECOVERED"
           /\ r.entry = None => r.cost = Ran(r)
           /\ r.entry # None => Booked(e, r)
<1>1. r.journey \in {"NONE", "PLANNED", "VERIFYING", "CLOSED"}
  BY DEF Row, JourneyStatus
<1>2. CASE r.journey = "NONE"
  <2>1. [r EXCEPT !.event = "AT_RISK"] = NewRow
    BY <1>2 DEF RowInv, Untouched
  <2>2. /\ r.event_contacts = NewRow.event_contacts
        /\ r.contacts = NewRow.contacts /\ r.event_cost = NewRow.event_cost
        /\ r.cost = NewRow.cost /\ r.entry = NewRow.entry
        /\ r.done = NewRow.done
    <3> DEFINE s == [r EXCEPT !.event = "AT_RISK"]
    <3>1. /\ s.event_contacts = r.event_contacts
          /\ s.contacts = r.contacts /\ s.event_cost = r.event_cost
          /\ s.cost = r.cost /\ s.entry = r.entry
          /\ s.done = r.done
      BY DEF Row
    <3> HIDE DEF s
    <3>2. s = NewRow
      BY <2>1 DEF s
    <3> QED BY <3>1, <3>2
  <2>3. r.event # "RECOVERED"
    BY <1>2 DEF RowInv
  <2>4. Ran(r) = 0
    BY <2>2, NewRowIs, RanNothing
  <2> QED BY <2>2, <2>3, <2>4, NewRowIs
<1>3. CASE r.journey \in {"PLANNED", "VERIFYING"}
  BY <1>3 DEF RowInv, Running, Progress
<1>4. CASE r.journey = "CLOSED"
  BY <1>4 DEF RowInv, Progress, Booked
<1> QED BY <1>1, <1>2, <1>3, <1>4

-----------------------------------------------------------------------------
(* One handler.                                                            *)

\* What the invariant says of the session and of the rows.
LEMMA InvTells ==
    ASSUME MandateInv
    PROVE  /\ now \in Instants /\ now \in Int /\ now \in Nat
           /\ world.overlaps \in Nat
           /\ DbInv(db, now, world.overlaps)
           /\ DbInv(saved, now, world.overlaps)
           /\ db \in Database /\ saved \in Database
           /\ \A e \in Events : db.rows[e] \in Row /\ RowInv(e, db.rows[e])
           /\ todo \subseteq Events
<1>1. now \in Instants /\ now \in Nat
  BY MandateConstants DEF MandateInv, Instants
<1>2. world.overlaps \in Nat
  BY DEF MandateInv, WorldInv, Worlds
<1>3. DbInv(db, now, world.overlaps) /\ DbInv(saved, now, world.overlaps)
  BY DEF MandateInv
<1>4. db \in Database /\ saved \in Database
  BY <1>3 DEF DbInv
<1>5. \A e \in Events : db.rows[e] \in Row /\ RowInv(e, db.rows[e])
  BY <1>3, <1>4 DEF DbInv, Database
<1> QED BY <1>1, <1>2, <1>3, <1>4, <1>5 DEF MandateInv

\* The database with one row changed.
LEMMA DatabaseKeeps ==
    ASSUME NEW d \in Database, NEW e \in Events, NEW row \in Row
    PROVE  LET c == [d EXCEPT !.rows[e] = row]
           IN  /\ c \in Database /\ c.rows = [d.rows EXCEPT ![e] = row]
               /\ c.mandate = d.mandate
BY DEF Database

\* The contacts counted in the journeys.
Contacts(d) == Sum([x \in Events |-> d.rows[x].contacts])

\* When one row changes, the contacts change as that row does.
LEMMA ContactsMove ==
    ASSUME NEW d \in Database, NEW c \in Database, NEW e \in Events,
           NEW row, c.rows = [d.rows EXCEPT ![e] = row]
    PROVE  /\ Contacts(c) = Contacts(d) + row.contacts - d.rows[e].contacts
           /\ Contacts(d) \in Int
<1> DEFINE f == [x \in Events |-> d.rows[x].contacts]
           g == [x \in Events |-> c.rows[x].contacts]
<1>1. d.rows \in [Events -> Row] /\ c.rows \in [Events -> Row]
  BY DEF Database
<1>2. \A x \in Events : f[x] \in Int /\ g[x] \in Int
  <2>1. \A r \in Row : r.contacts \in Int
    BY DEF Row
  <2> QED BY <1>1, <2>1
<1>3. \A x \in Events : x # e => g[x] = f[x]
  BY <1>1
<1>4. g[e] = row.contacts /\ f[e] = d.rows[e].contacts
  BY <1>1
<1> HIDE DEF f, g
<1>5. Sum(g) = Sum(f) + g[e] - f[e]
  BY <1>2, <1>3, ColumnMoves
<1>6. Sum(f) \in Int
  BY <1>2, ColumnIsInt
<1> QED BY <1>4, <1>5, <1>6 DEF f, g, Contacts

\* A row that follows another without a charge leaves DbInv as it was.
LEMMA FollowMoves ==
    ASSUME NEW t \in Int, NEW n \in Nat, NEW d, DbInv(d, t, n),
           NEW e \in Events, NEW row, Follows(e, d.rows[e], row),
           NEW c \in Database, c.rows = [d.rows EXCEPT ![e] = row],
           c.mandate = d.mandate
    PROVE  DbInv(c, t, n)
<1> DEFINE r == d.rows[e]
<1>1. row \in Row /\ RowInv(e, row) /\ row.created_at = r.created_at
      /\ row.npci = r.npci /\ (MayPresent(row) => MayPresent(r))
  BY DEF Follows
<1>2. /\ r \in Row /\ r.created_at <= t /\ r.npci \in Nat
      /\ d.mandate.attempts_used \in Nat
  <2>1. d.rows \in [Events -> Row] /\ d.mandate.attempts_used \in Nat
    BY DEF DbInv, Database, Mandates
  <2>2. r \in Row
    BY <2>1
  <2> QED BY <2>1, <2>2 DEF DbInv, Row
<1>3. c.mandate.attempts_used =
          d.mandate.attempts_used + row.npci - d.rows[e].npci
  BY <1>1, <1>2
<1>4. MayPresent(row) => Noticed(c.mandate.last_pdn_sent_at, row)
  <2> SUFFICES ASSUME MayPresent(row)
               PROVE  Noticed(d.mandate.last_pdn_sent_at, row)
    OBVIOUS
  <2>1. e \in Presenting(d)
    BY <1>1 DEF Presenting
  <2>2. Noticed(d.mandate.last_pdn_sent_at, r)
    BY <2>1 DEF DbInv
  <2> QED BY <1>1, <2>2 DEF Noticed
<1>5. c.mandate.attempts_used + Cardinality(Presenting(d)) + Claim(row)
          <= npci_max_attempts + n + Claim(d.rows[e])
  <2>1. /\ Claim(row) \in Nat /\ Claim(r) \in Nat
        /\ Claim(row) <= Claim(r)
    BY <1>1 DEF Claim
  <2>2. c.mandate.attempts_used + Cardinality(Presenting(d))
           <= npci_max_attempts + n
    BY DEF DbInv
  <2>3. Cardinality(Presenting(d)) \in Nat /\ npci_max_attempts \in Nat
    BY PresentingIsFinite, PolicyLimits
  <2> HIDE DEF r
  <2> QED BY <1>2, <2>1, <2>2, <2>3 DEF r
<1> HIDE DEF r
<1> QED BY <1>1, <1>2, <1>3, <1>4, <1>5, RowMoves DEF r

\* A handler that does not call the gateway keeps the invariant.
LEMMA HandleKeeps ==
    ASSUME MandateInv, phase \in {"scan", "tick"}, NEW e \in todo, NEW row,
           Follows(e, db.rows[e], row), Handle(e, row),
           UNCHANGED <<now, saved, phase, world>>
    PROVE  MandateInv'
<1>1. /\ now \in Int /\ world.overlaps \in Nat
      /\ DbInv(db, now, world.overlaps) /\ DbInv(saved, now, world.overlaps)
      /\ db \in Database /\ e \in Events
  BY InvTells
<1>2. /\ db' \in Database /\ db'.rows = [db.rows EXCEPT ![e] = row]
      /\ db'.mandate = db.mandate
  <2>1. db' = [db EXCEPT !.rows[e] = row] /\ row \in Row
    BY DEF Handle, Follows
  <2> QED BY <1>1, <2>1, DatabaseKeeps
<1>3. DbInv(db', now, world.overlaps)
  BY <1>1, <1>2, FollowMoves
<1>4. \A d \in {db', saved'} : DbInv(d, now', world'.overlaps)
  BY <1>1, <1>3
<1>5. WorldInv'
  <2>1. /\ Contacts(db') =
              Contacts(db) + row.contacts - db.rows[e].contacts
        /\ Contacts(db) \in Int
    BY <1>1, <1>2, ContactsMove
  <2>2. row.contacts = db.rows[e].contacts /\ row.contacts \in Nat
    BY DEF Follows, Row
  <2>3. Contacts(db') = Contacts(db)
    BY <2>1, <2>2
  <2>4. Sum([x \in Events |-> db'.rows[x].contacts]) =
           Sum([x \in Events |-> db.rows[x].contacts])
    BY <2>3 DEF Contacts
  <2> QED BY <1>2, <2>4 DEF MandateInv, WorldInv
<1>6. \A x \in todo' : x # e /\ x \in todo /\ db'.rows[x] = db.rows[x]
  <2>1. todo' = todo \ {e}
    BY DEF Handle
  <2>2. db.rows \in [Events -> Row] /\ todo \subseteq Events
    BY <1>1, InvTells DEF Database
  <2> QED BY <1>2, <2>1, <2>2
<1> QED BY <1>4, <1>5, <1>6 DEF MandateInv, Handle

\* Executing a step keeps DbInv: what the mandate is charged is one attempt at
\* most, and the attempt was in reserve.
LEMMA ExecuteMoves ==
    ASSUME MandateInv, NEW e \in Events, Open(db.rows[e]),
           db.rows[e].act = "PLANNED", NEW row,
           Follows(e, Executed(db.rows[e]), row),
           NEW c \in Database, c.rows = [db.rows EXCEPT ![e] = row],
           c.mandate = Charge(db.mandate, Action(db.rows[e]))
    PROVE  DbInv(c, now, world.overlaps)
<1> DEFINE r == db.rows[e]
           x == Executed(r)
           retry == IF Action(r) = "RETRY_PAYMENT" THEN 1 ELSE 0
<1>1. /\ now \in Instants /\ now \in Int /\ world.overlaps \in Nat
      /\ DbInv(db, now, world.overlaps)
      /\ r \in Row /\ RowInv(e, r)
  BY InvTells
<1>2. InHand(r) /\ r.step \notin r.done
  BY <1>1, OpenIsInHand
<1>3. /\ x.created_at = r.created_at /\ x.npci = r.npci + retry
      /\ MayPresent(x) => MayPresent(r)
      /\ retry = 1 => MayPresent(r) /\ ~MayPresent(x)
  BY <1>1, <1>2, ExecutedInHand
<1>4. /\ row \in Row /\ RowInv(e, row) /\ row.created_at = r.created_at
      /\ row.npci = r.npci + retry
      /\ MayPresent(row) => MayPresent(r)
      /\ retry = 1 => MayPresent(r) /\ ~MayPresent(row)
  BY <1>3 DEF Follows
<1>5. /\ db.mandate.attempts_used \in Nat /\ r.npci \in Nat
      /\ retry \in {0, 1} /\ r.created_at <= now /\ r.created_at \in Int
      /\ db.mandate \in Mandates
  <2>1. db.mandate \in Mandates
    BY <1>1 DEF DbInv, Database
  <2>2. r.created_at <= now
    BY <1>1 DEF DbInv
  <2>3. r.created_at \in Int /\ r.npci \in Nat
    <3>1. \A s \in Row : s.created_at \in Int /\ s.npci \in Nat
      BY MandateConstants DEF Row, Instants
    <3> QED BY <1>1, <3>1
  <2> QED BY <2>1, <2>2, <2>3 DEF Mandates
<1>6. /\ c.mandate.seeded = db.mandate.seeded
      /\ c.mandate.attempts_used = db.mandate.attempts_used + retry
      /\ c.mandate.last_pdn_sent_at \in {db.mandate.last_pdn_sent_at, now}
  <2>1. CASE Action(r) = "RETRY_PAYMENT"
    BY <1>5, <2>1 DEF Charge, Mandates
  <2>2. CASE Action(r) = "SEND_PDN"
    BY <1>5, <2>2 DEF Charge, Mandates
  <2>3. CASE Action(r) \notin {"RETRY_PAYMENT", "SEND_PDN"}
    BY <1>5, <2>3 DEF Charge, Mandates
  <2> QED BY <2>1, <2>2, <2>3
<1>7. MayPresent(row) => Noticed(c.mandate.last_pdn_sent_at, row)
  <2> SUFFICES ASSUME MayPresent(row)
               PROVE  Noticed(c.mandate.last_pdn_sent_at, r)
    BY <1>4 DEF Noticed
  <2>1. e \in Presenting(db)
    BY <1>4 DEF Presenting
  <2>2. Noticed(db.mandate.last_pdn_sent_at, r)
    BY <1>1, <2>1 DEF DbInv
  <2>3. Noticed(now, r)
    BY <1>5 DEF Noticed
  <2> QED BY <1>6, <2>2, <2>3
<1>8. c.mandate.attempts_used + Cardinality(Presenting(db)) + Claim(row)
          <= npci_max_attempts + world.overlaps + Claim(r)
  <2>1. Claim(row) \in Nat /\ Claim(r) \in Nat /\ retry + Claim(row) <= Claim(r)
    BY <1>4, <1>5 DEF Claim
  <2>2. db.mandate.attempts_used + Cardinality(Presenting(db))
           <= npci_max_attempts + world.overlaps
    BY <1>1 DEF DbInv
  <2>3. Cardinality(Presenting(db)) \in Nat /\ npci_max_attempts \in Nat
    BY PresentingIsFinite, PolicyLimits
  <2> HIDE DEF r, retry
  <2> QED BY <1>1, <1>5, <1>6, <2>1, <2>2, <2>3
<1> HIDE DEF retry, x
<1>9. c.mandate.attempts_used =
          db.mandate.attempts_used + row.npci - db.rows[e].npci
  BY <1>4, <1>5, <1>6
<1>10. row.created_at <= now
  BY <1>4, <1>5
<1> QED BY <1>1, <1>4, <1>6, <1>7, <1>8, <1>9, <1>10, RowMoves

\* What a step that runs is, and what its answer leaves.
LEMMA ExecuteIs ==
    ASSUME MandateInv, NEW e \in Events, Execute(e)
    PROVE  \E row :
             LET r == db.rows[e]
             IN  /\ r \in Row /\ InHand(r) /\ r.step \notin r.done
                 /\ Open(r) /\ r.act = "PLANNED" /\ e \in todo
                 /\ phase = "tick"
                 /\ Action(r) # "DO_NOTHING"
                 /\ evaluate(Action(r), TickGate(e, r)) # "BLOCK"
                 /\ Follows(e, Executed(r), row)
                 /\ db' = [db EXCEPT !.rows[e] = row,
                                     !.mandate = Charge(@, Action(r))]
<1> DEFINE r == db.rows[e]
<1>1. /\ e \in todo /\ phase = "tick" /\ r.act = "PLANNED"
      /\ evaluate(Action(r), TickGate(e, r)) # "BLOCK"
  BY DEF Execute, Advancing
<1>2. PICK row \in Answered(e, r, Executed(r),
                            RESOLVE_DELAY_MINUTES(Action(r))) :
            db' = [db EXCEPT !.rows[e] = row,
                             !.mandate = Charge(@, Action(r))]
  BY DEF Execute
<1>3. r \in Row /\ RowInv(e, r) /\ Open(r) /\ now \in Instants
  BY <1>1, InvTells DEF MandateInv
<1>4. InHand(r) /\ r.step \notin r.done
  BY <1>1, <1>3, OpenIsInHand
<1>5. /\ InHand(Executed(r)) /\ Executed(r).journey = "VERIFYING"
      /\ Executed(r).act = "EXECUTING"
  BY <1>1, <1>3, <1>4, ExecutedInHand
<1>6. Follows(e, Executed(r), row)
  BY <1>2, <1>3, <1>5, ResolveDelayIsNat, AnsweredFollows
<1>7. Action(r) # "DO_NOTHING"
  BY <1>4, InHandSteps
<1> HIDE DEF r
<1> QED BY <1>1, <1>2, <1>3, <1>4, <1>6, <1>7 DEF r

\* The gateway is called.
LEMMA ExecuteKeeps ==
    ASSUME MandateInv, NEW e \in Events, Execute(e)
    PROVE  MandateInv'
<1> DEFINE r == db.rows[e]
           m == Charge(db.mandate, Action(r))
           retry == IF Action(r) = "RETRY_PAYMENT" THEN 1 ELSE 0
           contact == IF consumes_contact(Action(r)) THEN 1 ELSE 0
<1>1. PICK row :
        /\ r \in Row /\ InHand(r) /\ r.step \notin r.done
        /\ Open(r) /\ r.act = "PLANNED" /\ e \in todo /\ phase = "tick"
        /\ Follows(e, Executed(r), row)
        /\ db' = [db EXCEPT !.rows[e] = row, !.mandate = m]
  BY ExecuteIs
<1>2. /\ now \in Instants /\ now \in Int /\ world.overlaps \in Nat
      /\ DbInv(saved, now, world.overlaps)
      /\ db \in Database /\ db.rows \in [Events -> Row]
      /\ todo \subseteq Events
      /\ db.mandate \in Mandates
  BY InvTells DEF Database
<1>3. /\ m \in Mandates
      /\ m.seeded = db.mandate.seeded
      /\ m.attempts_used = db.mandate.attempts_used + retry
  <2>1. CASE Action(r) = "RETRY_PAYMENT"
    BY <1>2, <2>1 DEF Charge, Mandates
  <2>2. CASE Action(r) = "SEND_PDN"
    BY <1>2, <2>2 DEF Charge, Mandates
  <2>3. CASE Action(r) \notin {"RETRY_PAYMENT", "SEND_PDN"}
    BY <1>2, <2>3 DEF Charge, Mandates
  <2> QED BY <2>1, <2>2, <2>3
<1>4. /\ row \in Row
      /\ row.contacts = r.contacts + contact
      /\ r.contacts \in Nat
  <2>1. Executed(r).contacts = r.contacts + contact
    BY <1>1, <1>2, ExecutedInHand
  <2> QED BY <1>1, <2>1 DEF Follows, Row
<1>5. /\ db' \in Database /\ db'.rows = [db.rows EXCEPT ![e] = row]
      /\ db'.mandate = m
  <2>1. db' = [db EXCEPT !.rows[e] = row, !.mandate = m]
    BY <1>1
  <2>2. e \in Events /\ db \in Database /\ row \in Row /\ m \in Mandates
    BY <1>1, <1>2, <1>3, <1>4
  <2> HIDE DEF m
  <2> QED BY <2>1, <2>2 DEF Database
<1>6. DbInv(db', now, world.overlaps)
  BY <1>1, <1>5, ExecuteMoves
<1>7. /\ now' = now /\ saved' = saved /\ phase' = phase
      /\ todo' = todo \ {e}
      /\ world' = [world EXCEPT
            !.presented = IF Action(r) = "RETRY_PAYMENT" THEN @ + 1 ELSE @,
            !.contacted = IF consumes_contact(Action(r)) THEN @ + 1 ELSE @]
  BY DEF Execute
<1>8. /\ world' \in Worlds
      /\ world'.presented = world.presented + retry
      /\ world'.contacted = world.contacted + contact
      /\ world'.undone = world.undone /\ world'.unsaid = world.unsaid
      /\ world'.overlaps = world.overlaps
  <2> DEFINE p == IF Action(r) = "RETRY_PAYMENT" THEN world.presented + 1
                  ELSE world.presented
             c == IF consumes_contact(Action(r)) THEN world.contacted + 1
                  ELSE world.contacted
  <2>1. world \in Worlds
    BY DEF MandateInv, WorldInv
  <2>2. world.presented \in Nat /\ world.contacted \in Nat
    BY <2>1 DEF Worlds
  <2>3. /\ p \in Nat /\ p = world.presented + retry
        /\ c \in Nat /\ c = world.contacted + contact
    BY <2>2
  <2>4. world' = [world EXCEPT !.presented = p, !.contacted = c]
    BY <1>7
  <2> HIDE DEF p, c, retry, contact
  <2> QED BY <2>1, <2>3, <2>4 DEF Worlds
<1>9. WorldInv'
  <2>1. /\ Contacts(db') = Contacts(db) + row.contacts - r.contacts
        /\ Contacts(db) \in Int
    BY <1>2, <1>5, ContactsMove
  <2>2. /\ world.presented - world.undone =
              db.mandate.attempts_used - db.mandate.seeded
        /\ world.contacted - world.unsaid = Contacts(db)
        /\ db.mandate.seeded = saved.mandate.seeded
        /\ world.presented \in Nat /\ world.contacted \in Nat
        /\ world.undone \in Int /\ world.unsaid \in Int
    BY DEF MandateInv, WorldInv, Worlds, Contacts
  <2>3. db.mandate.attempts_used \in Nat /\ db.mandate.seeded \in Nat
    BY <1>2 DEF Mandates
  <2>4. retry \in {0, 1} /\ contact \in {0, 1}
    OBVIOUS
  <2> HIDE DEF r, m, retry, contact
  <2>5. /\ world'.presented - world'.undone =
              db'.mandate.attempts_used - db'.mandate.seeded
        /\ db'.mandate.seeded = saved'.mandate.seeded
    BY <1>3, <1>5, <1>7, <1>8, <2>2, <2>3, <2>4
  <2>6. world'.contacted - world'.unsaid = Contacts(db')
    BY <1>4, <1>8, <2>1, <2>2, <2>4
  <2> QED BY <1>8, <2>5, <2>6 DEF WorldInv, Contacts
<1>10. \A x \in todo' : x \in todo /\ db'.rows[x] = db.rows[x]
  BY <1>2, <1>5, <1>7
<1>11. \A d \in {db', saved'} : DbInv(d, now', world'.overlaps)
  BY <1>2, <1>6, <1>7, <1>8
<1> QED BY <1>1, <1>7, <1>9, <1>10, <1>11 DEF MandateInv

-----------------------------------------------------------------------------
(* A journey begins.                                                       *)

\* The scan lets a retry into a plan only when an attempt is left and the
\* last notice is old enough.
LEMMA PlannableTells ==
    ASSUME NEW e \in Events, NEW p \in Plans, Plannable(e, p),
           NEW j \in DOMAIN p, p[j] = "RETRY_PAYMENT",
           db.mandate.attempts_used \in Nat
    PROVE  /\ db.mandate.attempts_used < npci_max_attempts
           /\ \/ db.mandate.last_pdn_sent_at = None
              \/ now - db.mandate.last_pdn_sent_at >= 4 * pdn_lead_hours
<1> DEFINE g == ScanGate(e)
<1>1. evaluate("RETRY_PAYMENT", g) # "BLOCK"
  BY DEF Plannable
<1>2. ~(g.npci >= npci_max_attempts) /\ ~PdnUnmet(g)
  BY <1>1, AllowMeans
<1>3. /\ g.npci = db.mandate.attempts_used
      /\ g.pdn = IF db.mandate.last_pdn_sent_at = None THEN "NONE"
                 ELSE IF pdn_satisfied(db.mandate.last_pdn_sent_at)
                      THEN "SERVED" ELSE "RECENT"
  BY DEF ScanGate, Gate
<1>4. db.mandate.attempts_used < npci_max_attempts
  BY <1>2, <1>3, PolicyLimits
<1> HIDE DEF g
<1>5. g.pdn # "RECENT"
  BY <1>2 DEF PdnUnmet
<1> QED BY <1>3, <1>4, <1>5 DEF pdn_satisfied

\* The row of a fresh journey: nothing has been counted in it yet.
Fresh(p) == [NewRow EXCEPT !.event = "IN_RECOVERY", !.created_at = now,
                           !.plan = p]

\* Scheduling the first step of a fresh journey counts nothing.
LEMMA FreshRests ==
    ASSUME NEW e \in Events, now \in Instants, NEW p \in Plans, NEW g,
           NEW row \in ScheduleStep(Fresh(p), 1, g)
    PROVE  /\ row \in Row /\ RowInv(e, row) /\ row.plan = p
           /\ row.npci = 0 /\ row.contacts = 0
           /\ row.created_at = now /\ row.journey = "PLANNED"
<1> DEFINE r == Fresh(p)
<1>1. "IN_RECOVERY" \in EventStatus /\ p \in MaybePlan
  BY DEF EventStatus, MaybePlan
<1>2. r \in Row
  BY <1>1, NewRowIs DEF Row, Fresh
<1>3. /\ r.event = "IN_RECOVERY" /\ r.created_at = now /\ r.plan = p
      /\ r.event_contacts = 0 /\ r.contacts = 0 /\ r.event_cost = 0
      /\ r.cost = 0 /\ r.entry = None /\ r.done = {} /\ r.npci = 0
  BY NewRowIs DEF Row, Fresh
<1> HIDE DEF r
<1>4. 1 \in DOMAIN p
  BY StepsOfPlan DEF Steps
<1>5. Ran(r) = 0
  BY <1>3, RanNothing
<1>6. Schedulable(r, 1)
  BY <1>2, <1>3, <1>4, <1>5 DEF Schedulable
<1>7. row \in ScheduleStep(r, 1, g)
  BY DEF r
<1> QED BY <1>3, <1>6, <1>7, ScheduleRests

\* Without an open journey nothing is in reserve.
LEMMA NoneInReserve ==
    ASSUME ~SomeOpen PROVE Cardinality(Presenting(db)) = 0
<1>1. Presenting(db) = {}
  BY DEF SomeOpen, Presenting, MayPresent
<1> QED BY <1>1, FS_EmptySet

\* A journey begins, beside another one or not.
LEMMA StartKeeps ==
    ASSUME MandateInv, NEW e \in Events, StartJourney(e)
    PROVE  MandateInv'
<1> DEFINE r == db.rows[e]
           k == world'.overlaps
<1>1. PICK p \in Plans :
        /\ Plannable(e, p)
        /\ \E row \in ScheduleStep(Fresh(p), 1, ScanGate(e)) : Handle(e, row)
  BY DEF StartJourney, Fresh
<1>2. PICK row \in ScheduleStep(Fresh(p), 1, ScanGate(e)) : Handle(e, row)
  BY <1>1
<1>3. /\ now \in Instants /\ now \in Int /\ world.overlaps \in Nat
      /\ DbInv(db, now, world.overlaps) /\ DbInv(saved, now, world.overlaps)
      /\ db \in Database /\ r \in Row /\ RowInv(e, r)
      /\ todo \subseteq Events
  BY InvTells
<1>4. /\ row \in Row /\ RowInv(e, row) /\ row.plan = p
      /\ row.npci = 0 /\ row.contacts = 0
      /\ row.created_at = now /\ row.journey = "PLANNED"
  BY <1>2, <1>3, FreshRests
<1>5. e \in todo /\ phase = "scan" /\ r = NewRow
  <2>1. e \in todo /\ phase = "scan"
    BY DEF StartJourney
  <2>2. r.event = "AT_RISK"
    BY <2>1 DEF MandateInv
  <2> QED BY <1>3, <2>1, <2>2, AtRiskIsNew
<1>6. /\ db' \in Database /\ db'.rows = [db.rows EXCEPT ![e] = row]
      /\ db'.mandate = db.mandate
  <2>1. db' = [db EXCEPT !.rows[e] = row]
    BY <1>2 DEF Handle
  <2> QED BY <1>3, <1>4, <2>1, DatabaseKeeps
<1>7. /\ db.mandate \in Mandates /\ db.mandate.attempts_used \in Nat
  BY <1>3 DEF Database, Mandates
<1>8. /\ k \in Nat /\ world.overlaps <= k
      /\ SomeOpen => k = world.overlaps + 1
      /\ world' \in Worlds
      /\ world'.presented = world.presented /\ world'.undone = world.undone
      /\ world'.contacted = world.contacted /\ world'.unsaid = world.unsaid
  <2>1. world \in Worlds
    BY DEF MandateInv, WorldInv
  <2>2. CASE SomeOpen
    <3> DEFINE n == world.overlaps + 1
    <3>1. world' = [world EXCEPT !.overlaps = n] /\ n \in Nat
      BY <1>3, <2>2 DEF StartJourney
    <3> HIDE DEF n
    <3>2. /\ k = n /\ world' \in Worlds
          /\ world'.presented = world.presented
          /\ world'.undone = world.undone
          /\ world'.contacted = world.contacted
          /\ world'.unsaid = world.unsaid
      BY <2>1, <3>1 DEF Worlds
    <3>3. world.overlaps <= n
      BY <1>3 DEF n
    <3> QED BY <3>1, <3>2, <3>3 DEF n
  <2>3. CASE ~SomeOpen
    <3>1. world' = world
      BY <2>3 DEF StartJourney
    <3> QED BY <1>3, <2>1, <2>3, <3>1
  <2> QED BY <2>2, <2>3
<1>9. MayPresent(row) =>
         /\ db.mandate.attempts_used < npci_max_attempts
         /\ Noticed(db.mandate.last_pdn_sent_at, row)
  <2> SUFFICES ASSUME MayPresent(row)
               PROVE  /\ db.mandate.attempts_used < npci_max_attempts
                      /\ Noticed(db.mandate.last_pdn_sent_at, row)
    OBVIOUS
  <2>1. PICK j \in DOMAIN p : p[j] = "RETRY_PAYMENT"
    BY <1>4 DEF MayPresent
  <2> QED BY <1>1, <1>4, <1>7, <2>1, PlannableTells DEF Noticed
<1>10. db'.mandate.attempts_used + Cardinality(Presenting(db)) + Claim(row)
          <= npci_max_attempts + k + Claim(r)
  <2>1. Claim(r) = 0
    BY <1>5, NewRowIs DEF Claim
  <2>2. /\ Cardinality(Presenting(db)) \in Nat /\ npci_max_attempts \in Nat
        /\ Claim(row) \in {0, 1}
    BY PresentingIsFinite, PolicyLimits DEF Claim
  <2>3. db.mandate.attempts_used + Cardinality(Presenting(db))
           <= npci_max_attempts + world.overlaps
    BY <1>3 DEF DbInv
  <2>4. CASE SomeOpen
    <3>1. k = world.overlaps + 1
      BY <1>8, <2>4
    <3> HIDE DEF k, r
    <3> QED BY <1>3, <1>6, <1>7, <2>1, <2>2, <2>3, <3>1
  <2>5. CASE ~SomeOpen /\ MayPresent(row)
    <3>1. Cardinality(Presenting(db)) = 0
      BY <2>5, NoneInReserve
    <3>2. db.mandate.attempts_used < npci_max_attempts
      BY <1>9, <2>5
    <3>3. k \in Nat
      BY <1>8
    <3> HIDE DEF k, r
    <3> QED BY <1>6, <1>7, <2>1, <2>2, <3>1, <3>2, <3>3
  <2>6. CASE ~MayPresent(row)
    <3>1. Claim(row) = 0
      BY <2>6 DEF Claim
    <3>2. k \in Nat /\ world.overlaps <= k
      BY <1>8
    <3> HIDE DEF k, r
    <3> QED BY <1>3, <1>6, <1>7, <2>1, <2>2, <2>3, <3>1, <3>2
  <2> QED BY <2>4, <2>5, <2>6
<1>11. DbInv(db', now, k)
  <2>1. row.created_at <= now
    BY <1>3, <1>4
  <2>2. db'.mandate.attempts_used =
          db.mandate.attempts_used + row.npci - db.rows[e].npci
    BY <1>4, <1>5, <1>6, <1>7, NewRowIs
  <2>3. MayPresent(row) => Noticed(db'.mandate.last_pdn_sent_at, row)
    BY <1>6, <1>9
  <2>4. k \in Nat
    BY <1>8
  <2> HIDE DEF k
  <2> QED BY <1>3, <1>4, <1>6, <1>10, <2>1, <2>2, <2>3, <2>4, RowMoves DEF r
<1>12. /\ now' = now /\ saved' = saved /\ phase' = phase
       /\ todo' = todo \ {e}
  BY <1>2 DEF StartJourney, Handle
<1>13. \A d \in {db', saved'} : DbInv(d, now', world'.overlaps)
  <2>1. DbInv(saved, now, k)
    BY <1>3, <1>8, TimeMoves
  <2> QED BY <1>11, <1>12, <2>1
<1>14. WorldInv'
  <2>1. /\ Contacts(db') = Contacts(db) + row.contacts - r.contacts
        /\ Contacts(db) \in Int
    BY <1>3, <1>6, ContactsMove
  <2>2. Contacts(db') = Contacts(db)
    BY <1>4, <1>5, <2>1, NewRowIs
  <2> HIDE DEF k, r
  <2> QED BY <1>6, <1>8, <1>12, <2>2 DEF MandateInv, WorldInv, Contacts
<1>15. \A x \in todo' : x \in todo /\ db'.rows[x] = db.rows[x]
  <2>1. db.rows \in [Events -> Row]
    BY <1>3 DEF Database
  <2> QED BY <1>3, <1>6, <1>12, <2>1
<1> HIDE DEF k, r
<1> QED BY <1>5, <1>12, <1>13, <1>14, <1>15 DEF MandateInv

-----------------------------------------------------------------------------
(* The other handlers.                                                     *)

\* A row that a tick looks at is open.
LEMMA AdvancingTells ==
    ASSUME MandateInv, NEW e \in Events, Advancing(e)
    PROVE  /\ phase \in {"scan", "tick"} /\ e \in todo /\ now \in Instants
           /\ InHand(db.rows[e]) /\ RowInv(e, db.rows[e])
           /\ db.rows[e].act = "EXECUTING" => db.rows[e].journey = "VERIFYING"
<1>1. phase = "tick" /\ e \in todo /\ Open(db.rows[e])
  BY DEF Advancing, MandateInv
<1>2. now \in Instants /\ db.rows[e] \in Row /\ RowInv(e, db.rows[e])
  BY InvTells
<1> QED BY <1>1, <1>2, OpenIsInHand

\* A step whose parameters no policy allows goes on to the next one.
LEMMA AdvanceBlockedKeeps ==
    ASSUME MandateInv, NEW e \in Events, AdvanceBlocked(e)
    PROVE  MandateInv'
<1> DEFINE r == db.rows[e]
<1>1. PICK row \in NextStepOrClose(e, r, r) : Handle(e, row)
  BY DEF AdvanceBlocked
<1>2. /\ phase \in {"scan", "tick"} /\ e \in todo /\ now \in Instants
      /\ InHand(r)
  BY AdvancingTells DEF AdvanceBlocked
<1>3. Follows(e, r, row)
  BY <1>1, <1>2, NextFollows
<1>4. UNCHANGED <<now, saved, phase, world>>
  BY DEF AdvanceBlocked
<1> QED BY <1>1, <1>2, <1>3, <1>4, HandleKeeps

\* A step the policy blocks when it falls due is skipped.
LEMMA RegateBlocksKeeps ==
    ASSUME MandateInv, NEW e \in Events, RegateBlocks(e)
    PROVE  MandateInv'
<1> DEFINE r == db.rows[e]
           s == Block(r)
<1>1. PICK row \in NextStepOrClose(e, r, s) : Handle(e, row)
  BY DEF RegateBlocks
<1>2. /\ phase \in {"scan", "tick"} /\ e \in todo /\ now \in Instants
      /\ InHand(r)
  BY AdvancingTells DEF RegateBlocks
<1>3. s \in Row /\ SameButAction(r, s)
  BY <1>2, BlockSame
<1> HIDE DEF s
<1>4. InHand(s)
  BY <1>2, <1>3, SameInHand
<1>5. Follows(e, s, row)
  BY <1>1, <1>2, <1>4, NextFollows
<1>6. Follows(e, r, row)
  BY <1>2, <1>3, <1>5, FollowsSame
<1>7. UNCHANGED <<now, saved, phase, world>>
  BY DEF RegateBlocks
<1> QED BY <1>1, <1>2, <1>6, <1>7, HandleKeeps

\* Polling the outcome of what was executed before.
LEMMA VerifyKeeps ==
    ASSUME MandateInv, NEW e \in Events, Verify(e)
    PROVE  MandateInv'
<1> DEFINE r == db.rows[e]
<1>1. PICK row \in Answered(e, r, r, 10) : Handle(e, row)
  BY DEF Verify
<1>2. /\ phase \in {"scan", "tick"} /\ e \in todo /\ now \in Instants
      /\ InHand(r) /\ r.act = "EXECUTING" /\ r.journey = "VERIFYING"
  BY AdvancingTells DEF Verify
<1>3. Follows(e, r, row)
  BY <1>1, <1>2, AnsweredFollows
<1>4. UNCHANGED <<now, saved, phase, world>>
  BY DEF Verify
<1> QED BY <1>1, <1>2, <1>3, <1>4, HandleKeeps

\* An event the scan finds no plan for.
LEMMA ScanSuppressesKeeps ==
    ASSUME MandateInv, NEW e \in Events, ScanSuppresses(e)
    PROVE  MandateInv'
<1> DEFINE r == db.rows[e]
           row == [r EXCEPT !.event = "SUPPRESSED"]
<1>1. phase = "scan" /\ e \in todo /\ Handle(e, row)
  BY DEF ScanSuppresses
<1>2. r = NewRow
  BY <1>1, InvTells, AtRiskIsNew DEF MandateInv
<1>3. Follows(e, r, row)
  BY <1>2, SuppressFollows
<1>4. UNCHANGED <<now, saved, phase, world>>
  BY DEF ScanSuppresses
<1> HIDE DEF row
<1> QED BY <1>1, <1>3, <1>4, HandleKeeps

\* An event the scan leaves for a later one.
LEMMA ScanLeavesKeeps ==
    ASSUME MandateInv, NEW e \in Events, ScanLeaves(e)
    PROVE  MandateInv'
<1>1. phase = "scan" /\ e \in todo /\ Handle(e, db.rows[e])
  BY DEF ScanLeaves
<1>2. Follows(e, db.rows[e], db.rows[e])
  BY InvTells DEF Follows
<1>3. UNCHANGED <<now, saved, phase, world>>
  BY DEF ScanLeaves
<1> QED BY <1>1, <1>2, <1>3, HandleKeeps

-----------------------------------------------------------------------------
(* The session and the clock.                                              *)

\* New events and a mandate some of whose attempts are used.
LEMMA InitHolds == Init => MandateInv
<1> SUFFICES ASSUME Init PROVE MandateInv
  OBVIOUS
<1>1. PICK attempts \in Seeded, age \in Notices :
         db = [rows |-> [e \in Events |-> NewRow],
               mandate |-> [seeded |-> attempts, attempts_used |-> attempts,
                            last_pdn_sent_at |-> IF age = None THEN None
                                                 ELSE Start - age]]
  BY DEF Init
<1>2. /\ now = Start /\ saved = db /\ phase = "idle" /\ todo = {}
      /\ world = [presented |-> 0, contacted |-> 0, undone |-> 0,
                  unsaid |-> 0, overlaps |-> 0, rollbacks |-> 0,
                  outages |-> 0]
  BY DEF Init
<1>3. /\ now \in Instants /\ Start \in Nat
  BY <1>2, MandateConstants DEF Instants
<1> DEFINE sent == IF age = None THEN None ELSE Start - age
<1>4. /\ attempts \in Nat /\ attempts <= npci_max_attempts
      /\ sent \in Int \cup {None}
  BY <1>3, MandateConstants, PolicyLimits
<1>5. /\ \A e \in Events : db.rows[e] = NewRow
      /\ db.mandate.seeded = attempts /\ db.mandate.attempts_used = attempts
      /\ db.mandate.last_pdn_sent_at = sent
  BY <1>1
<1>6. db \in Database
  <2> HIDE DEF sent
  <2>1. db.mandate \in Mandates
    BY <1>1, <1>4 DEF Mandates, sent
  <2>2. db.rows \in [Events -> Row]
    BY <1>1, NewRowIs
  <2>3. db = [rows |-> db.rows, mandate |-> db.mandate]
    BY <1>1
  <2> QED BY <2>1, <2>2, <2>3 DEF Database
<1>7. Sum([e \in Events |-> db.rows[e].npci]) = 0
  <2> DEFINE f == [e \in Events |-> db.rows[e].npci]
  <2>1. \A e \in Events : f[e] = 0
    BY <1>5, NewRowIs
  <2> HIDE DEF f
  <2>2. SumOver(f, Events) = 0
    BY <2>1, SumOfZeros, MandateConstants
  <2> QED BY <2>2, SumIsOverEvents DEF f
<1>8. Sum([e \in Events |-> db.rows[e].contacts]) = 0
  <2> DEFINE f == [e \in Events |-> db.rows[e].contacts]
  <2>1. \A e \in Events : f[e] = 0
    BY <1>5, NewRowIs
  <2> HIDE DEF f
  <2>2. SumOver(f, Events) = 0
    BY <2>1, SumOfZeros, MandateConstants
  <2> QED BY <2>2, SumIsOverEvents DEF f
<1>9. Presenting(db) = {} /\ Cardinality(Presenting(db)) = 0
  <2>1. Presenting(db) = {}
    BY <1>5, NewRowIs DEF Presenting
  <2> QED BY <2>1, FS_EmptySet
<1>10. \A e \in Events : RowInv(e, db.rows[e]) /\ db.rows[e].created_at <= now
  BY <1>2, <1>3, <1>5, NewRowIs, NewRowRests
<1> HIDE DEF sent
<1>11. DbInv(db, now, 0)
  <2>1. db.mandate.attempts_used + Cardinality(Presenting(db))
           <= npci_max_attempts + 0
    BY <1>4, <1>5, <1>9, PolicyLimits
  <2>2. db.mandate.attempts_used =
           db.mandate.seeded + Sum([e \in Events |-> db.rows[e].npci])
    BY <1>4, <1>5, <1>7
  <2> QED BY <1>6, <1>9, <1>10, <2>1, <2>2 DEF DbInv
<1>12. WorldInv
  <2>1. world \in Worlds
    BY <1>2 DEF Worlds
  <2>2. /\ world.presented - world.undone = 0
        /\ world.contacted - world.unsaid = 0
    BY <1>2
  <2>3. db.mandate.attempts_used - db.mandate.seeded = 0
    BY <1>4, <1>5
  <2> QED BY <1>2, <1>8, <2>1, <2>2, <2>3 DEF WorldInv
<1>13. world.overlaps = 0
  BY <1>2
<1> QED BY <1>2, <1>3, <1>11, <1>12, <1>13 DEF MandateInv

\* A session begins, ends or goes on, and the rows stay as they are.
LEMMA SessionKeeps ==
    ASSUME MandateInv, BeginScan \/ BeginTick \/ Commit
    PROVE  MandateInv'
<1>1. CASE BeginScan
  <2>1. UNCHANGED <<now, db, saved, world>>
    BY <1>1 DEF BeginScan
  <2>2. /\ phase' = "scan" /\ todo' \subseteq Events
        /\ \A e \in todo' : db'.rows[e].event = "AT_RISK"
    BY <1>1, <2>1 DEF BeginScan
  <2>3. WorldInv'
    BY <2>1 DEF MandateInv, WorldInv
  <2>4. now' \in Instants /\ \A d \in {db', saved'} : DbInv(d, now', world'.overlaps)
    BY <2>1 DEF MandateInv
  <2> QED BY <2>2, <2>3, <2>4 DEF MandateInv
<1>2. CASE BeginTick
  <2>1. UNCHANGED <<now, db, saved, world>>
    BY <1>2 DEF BeginTick
  <2>2. /\ phase' = "tick" /\ todo' \subseteq Events
        /\ \A e \in todo' : Open(db'.rows[e])
    BY <1>2, <2>1 DEF BeginTick
  <2>3. WorldInv'
    BY <2>1 DEF MandateInv, WorldInv
  <2>4. now' \in Instants /\ \A d \in {db', saved'} : DbInv(d, now', world'.overlaps)
    BY <2>1 DEF MandateInv
  <2> QED BY <2>2, <2>3, <2>4 DEF MandateInv
<1>3. CASE Commit
  <2>1. UNCHANGED <<now, db, todo, world>> /\ saved' = db /\ phase' = "idle"
    BY <1>3 DEF Commit
  <2>2. WorldInv'
    BY <2>1 DEF MandateInv, WorldInv
  <2>3. now' \in Instants /\ \A d \in {db', saved'} : DbInv(d, now', world'.overlaps)
    BY <2>1 DEF MandateInv
  <2>4. db' = saved' /\ todo' \subseteq Events
    BY <2>1 DEF MandateInv
  <2> QED BY <2>1, <2>2, <2>3, <2>4 DEF MandateInv
<1> QED BY <1>1, <1>2, <1>3

\* The counts of the events are those of their journeys.
LEMMA EventContacts ==
    ASSUME NEW d, NEW t, NEW n, DbInv(d, t, n)
    PROVE  Sum([e \in Events |-> d.rows[e].event_contacts]) = Contacts(d)
<1> DEFINE f == [e \in Events |-> d.rows[e].event_contacts]
           g == [e \in Events |-> d.rows[e].contacts]
<1>1. \A e \in Events : d.rows[e] \in Row /\ RowInv(e, d.rows[e])
  BY DEF DbInv, Database
<1>2. \A e \in Events : d.rows[e].event_contacts = d.rows[e].contacts
  BY <1>1, RowTells
<1>3. f = g
  BY <1>2
<1> HIDE DEF f, g
<1> QED BY <1>3 DEF Contacts, f, g

\* The contacts of the journeys are a number.
LEMMA ContactsAreInt ==
    ASSUME NEW d \in Database PROVE Contacts(d) \in Int
<1> DEFINE f == [x \in Events |-> d.rows[x].contacts]
<1>1. \A x \in Events : f[x] \in Int
  <2>1. \A r \in Row : r.contacts \in Int
    BY DEF Row
  <2>2. d.rows \in [Events -> Row]
    BY DEF Database
  <2> QED BY <2>1, <2>2
<1> HIDE DEF f
<1> QED BY <1>1, ColumnIsInt DEF Contacts, f

\* A cycle raises: what it did is done, and its rows are gone.
LEMMA RollbackKeeps ==
    ASSUME MandateInv, Rollback
    PROVE  MandateInv'
<1> DEFINE said == Sum([e \in Events |-> db.rows[e].event_contacts])
           kept == Sum([e \in Events |-> saved.rows[e].event_contacts])
           n == world.rollbacks + 1
           u == world.undone + db.mandate.attempts_used
                   - saved.mandate.attempts_used
           s == world.unsaid + said - kept
<1>1. /\ db' = saved /\ phase' = "idle" /\ todo' = {}
      /\ now' = now /\ saved' = saved
      /\ world' = [world EXCEPT !.rollbacks = n, !.undone = u, !.unsaid = s]
  BY DEF Rollback
<1>2. /\ DbInv(saved, now, world.overlaps) /\ DbInv(db, now, world.overlaps)
      /\ db \in Database /\ saved \in Database /\ now \in Instants
  BY InvTells
<1>3. /\ db.mandate.attempts_used \in Nat /\ db.mandate.seeded \in Nat
      /\ saved.mandate.attempts_used \in Nat
  BY <1>2 DEF Database, Mandates
<1>4. said = Contacts(db) /\ kept = Contacts(saved)
  BY <1>2, EventContacts
<1>5. said \in Int /\ kept \in Int
  BY <1>2, <1>4, ContactsAreInt
<1>6. /\ world \in Worlds
      /\ world.presented - world.undone =
            db.mandate.attempts_used - db.mandate.seeded
      /\ world.contacted - world.unsaid = Contacts(db)
      /\ db.mandate.seeded = saved.mandate.seeded
  BY DEF MandateInv, WorldInv, Contacts
<1>7. /\ world.presented \in Nat /\ world.contacted \in Nat
      /\ world.undone \in Int /\ world.unsaid \in Int
      /\ world.rollbacks \in Nat
  BY <1>6 DEF Worlds
<1> HIDE DEF said, kept
<1>8. u \in Int /\ s \in Int /\ n \in Nat
  BY <1>3, <1>5, <1>7
<1>9. /\ world.presented - u = saved.mandate.attempts_used - saved.mandate.seeded
      /\ world.contacted - s = Contacts(saved)
  BY <1>3, <1>4, <1>5, <1>6, <1>7
<1> HIDE DEF u, s, n
<1>10. /\ world' \in Worlds /\ world'.undone = u /\ world'.unsaid = s
       /\ world'.presented = world.presented
       /\ world'.contacted = world.contacted
       /\ world'.overlaps = world.overlaps
  BY <1>1, <1>6, <1>8 DEF Worlds
<1>11. WorldInv'
  BY <1>1, <1>9, <1>10 DEF WorldInv, Contacts
<1>12. \A d \in {db', saved'} : DbInv(d, now', world'.overlaps)
  BY <1>1, <1>2, <1>10
<1> QED BY <1>1, <1>2, <1>11, <1>12 DEF MandateInv

\* Time goes on, and the rows stay as they are.
LEMMA ClockKeeps ==
    ASSUME MandateInv, TimePasses \/ Outage
    PROVE  MandateInv'
<1>1. /\ now \in Int /\ now \in Nat /\ world.overlaps \in Nat
      /\ DbInv(db, now, world.overlaps) /\ DbInv(saved, now, world.overlaps)
      /\ db \in Database /\ now \in Instants
  BY InvTells
<1>2. UNCHANGED <<db, saved, phase, todo>>
  BY DEF TimePasses, Outage
<1>3. now' \in Instants /\ now <= now' /\ now' \in Int
  <2>1. CASE TimePasses
    <3>1. PICK e \in Events : /\ Open(db.rows[e]) /\ db.rows[e].due <= End
                              /\ now' = db.rows[e].due
      BY <2>1 DEF TimePasses
    <3>2. db.rows[e].due > now
      BY <2>1, <3>1 DEF TimePasses, Waiting
    <3>3. db.rows[e].due \in Nat
      <4>1. \A r \in Row : r.due \in Nat
        BY DEF Row
      <4> QED BY <1>1, <3>1, <4>1 DEF Database
    <3>4. now >= Start /\ Start \in Nat /\ End \in Nat
      BY <1>1, MandateConstants DEF Instants
    <3> QED BY <1>1, <3>1, <3>2, <3>3, <3>4 DEF Instants
  <2>2. CASE Outage
    <3>1. PICK quarters \in Outages :
             now + quarters <= End /\ now' = now + quarters
      BY <2>2 DEF Outage
    <3>2. quarters \in Nat /\ now >= Start /\ Start \in Nat /\ End \in Nat
      BY <1>1, MandateConstants DEF Instants
    <3> QED BY <1>1, <3>1, <3>2 DEF Instants
  <2> QED BY <2>1, <2>2
<1>4. /\ world' \in Worlds /\ world'.overlaps = world.overlaps
      /\ world'.presented = world.presented /\ world'.undone = world.undone
      /\ world'.contacted = world.contacted /\ world'.unsaid = world.unsaid
  <2>1. world \in Worlds
    BY DEF MandateInv, WorldInv
  <2>2. CASE TimePasses
    BY <2>1, <2>2 DEF TimePasses
  <2>3. CASE Outage
    <3> DEFINE n == world.outages + 1
    <3>1. world' = [world EXCEPT !.outages = n]
      BY <2>3 DEF Outage
    <3>2. n \in Nat
      BY <2>1 DEF Worlds
    <3> HIDE DEF n
    <3> QED BY <2>1, <3>1, <3>2 DEF Worlds
  <2> QED BY <2>2, <2>3
<1>5. WorldInv'
  BY <1>2, <1>4 DEF MandateInv, WorldInv
<1>6. DbInv(db, now', world.overlaps) /\ DbInv(saved, now', world.overlaps)
  BY <1>1, <1>3, TimeMoves
<1>7. \A d \in {db', saved'} : DbInv(d, now', world'.overlaps)
  BY <1>2, <1>4, <1>6
<1> QED BY <1>2, <1>3, <1>5, <1>7 DEF MandateInv

\* Nothing happens.
LEMMA StutterKeeps ==
    ASSUME MandateInv, UNCHANGED vars PROVE MandateInv'
<1>1. UNCHANGED <<now, db, saved, phase, todo, world>>
  BY DEF vars
<1>2. WorldInv'
  BY <1>1 DEF MandateInv, WorldInv
<1>3. \A d \in {db', saved'} : DbInv(d, now', world'.overlaps)
  BY <1>1 DEF MandateInv
<1> QED BY <1>1, <1>2, <1>3 DEF MandateInv

\* Every step keeps the invariant: one case per action.
LEMMA NextKeeps == MandateInv /\ [Next]_vars => MandateInv'
<1> SUFFICES ASSUME MandateInv, [Next]_vars PROVE MandateInv'
  OBVIOUS
<1>1. CASE BeginScan \/ BeginTick \/ Commit
  BY <1>1, SessionKeeps
<1>2. CASE Rollback
  BY <1>2, RollbackKeeps
<1>3. CASE TimePasses \/ Outage
  BY <1>3, ClockKeeps
<1>4. ASSUME NEW e \in Events, ScanSuppresses(e) PROVE MandateInv'
  BY <1>4, ScanSuppressesKeeps
<1>5. ASSUME NEW e \in Events, ScanLeaves(e) PROVE MandateInv'
  BY <1>5, ScanLeavesKeeps
<1>6. ASSUME NEW e \in Events, StartJourney(e) PROVE MandateInv'
  BY <1>6, StartKeeps
<1>7. ASSUME NEW e \in Events, AdvanceBlocked(e) PROVE MandateInv'
  BY <1>7, AdvanceBlockedKeeps
<1>8. ASSUME NEW e \in Events, RegateBlocks(e) PROVE MandateInv'
  BY <1>8, RegateBlocksKeeps
<1>9. ASSUME NEW e \in Events, Execute(e) PROVE MandateInv'
  BY <1>9, ExecuteKeeps
<1>10. ASSUME NEW e \in Events, Verify(e) PROVE MandateInv'
  BY <1>10, VerifyKeeps
<1>11. CASE UNCHANGED vars
  BY <1>11, StutterKeeps
<1> QED BY <1>1, <1>2, <1>3, <1>4, <1>5, <1>6, <1>7, <1>8, <1>9, <1>10, <1>11
        DEF Next

-----------------------------------------------------------------------------
(* The theorems.                                                           *)

\* MandateInv is inductive, so that it holds always.
THEOREM MandateInvariant == Spec => []MandateInv
BY InitHolds, NextKeeps, PTL DEF Spec

\* Every row holds what its columns say.
THEOREM MandateTypeCorrect == Spec => []TypeOK
<1>1. MandateInv => TypeOK
  <2> SUFFICES ASSUME MandateInv PROVE TypeOK
    OBVIOUS
  <2>1. db \in Database /\ saved \in Database /\ now \in Instants
    BY InvTells
  <2> QED BY <2>1 DEF MandateInv, TypeOK, Database, Mandates
<1> QED BY <1>1, MandateInvariant, PTL

\* Presentations and contacts are counted once each, in the mandate and in the
\* events as in the journeys, but for what a cycle that raised had done.
THEOREM EffectsCounted == Spec => []EffectsAreCounted
<1>1. MandateInv => EffectsAreCounted
  <2> SUFFICES ASSUME MandateInv PROVE EffectsAreCounted
    OBVIOUS
  <2>1. DbInv(saved, now, world.overlaps)
    BY InvTells
  <2>2. saved.mandate.attempts_used =
           saved.mandate.seeded + Sum([e \in Events |-> saved.rows[e].npci])
    BY <2>1 DEF DbInv
  <2>3. \A e \in Events : saved.rows[e].event_contacts = saved.rows[e].contacts
    <3>1. \A e \in Events : saved.rows[e] \in Row /\ RowInv(e, saved.rows[e])
      BY <2>1 DEF DbInv, Database
    <3> QED BY <3>1, RowTells
  <2>4. ASSUME phase = "idle"
        PROVE  /\ world.presented - world.undone =
                     saved.mandate.attempts_used - saved.mandate.seeded
               /\ world.contacted - world.unsaid =
                     Sum([e \in Events |-> saved.rows[e].contacts])
    <3>1. db = saved
      BY <2>4 DEF MandateInv
    <3> QED BY <3>1 DEF MandateInv, WorldInv
  <2> QED BY <2>2, <2>3, <2>4 DEF EffectsAreCounted
<1> QED BY <1>1, MandateInvariant, PTL

\* The mandate is not charged past its limit, save once for each journey that
\* was opened beside an open one.
THEOREM AttemptsLimited == Spec => []AttemptsKeepLimit
<1>1. MandateInv => AttemptsKeepLimit
  <2> SUFFICES ASSUME MandateInv PROVE AttemptsKeepLimit
    OBVIOUS
  <2>1. DbInv(saved, now, world.overlaps) /\ world.overlaps \in Nat
        /\ saved \in Database
    BY InvTells
  <2>2. saved.mandate.attempts_used \in Nat
    BY <2>1 DEF Database, Mandates
  <2>3. saved.mandate.attempts_used + Cardinality(Presenting(saved))
           <= npci_max_attempts + world.overlaps
    BY <2>1 DEF DbInv
  <2> QED BY <2>1, <2>2, <2>3, PresentingIsFinite, PolicyLimits
          DEF AttemptsKeepLimit
<1> QED BY <1>1, MandateInvariant, PTL

\* The ledger and the rows tell the same story of a recovery.
THEOREM LedgerAgrees == Spec => []LedgerAgreesWithRows
<1>1. MandateInv => LedgerAgreesWithRows
  <2> SUFFICES ASSUME MandateInv, NEW e \in Events
               PROVE  LET r == saved.rows[e]
                      IN  /\ r.entry # None <=> r.event = "RECOVERED"
                          /\ r.event_cost = r.cost
                          /\ r.entry = None => r.cost = Ran(r)
                          /\ r.entry # None =>
                                /\ r.entry.gross = r.recovered
                                /\ r.entry.gross + discount_paise(e, r)
                                     = Amount[e]
                                /\ r.entry.organic <= r.entry.gross
                                /\ r.cost = Ran(r) + r.entry.cost
    BY DEF LedgerAgreesWithRows
  <2>1. saved.rows[e] \in Row /\ RowInv(e, saved.rows[e])
    BY InvTells DEF DbInv, Database
  <2> QED BY <2>1, RowTells DEF Booked
<1> QED BY <1>1, MandateInvariant, PTL

-----------------------------------------------------------------------------
(* What a step may never do.                                               *)

\* Only the step that calls the gateway presents and contacts.
LEMMA OnlyExecutePresents ==
    ASSUME MandateInv, [Next]_vars,
           \/ world'.presented # world.presented
           \/ world'.contacted # world.contacted
    PROVE  \E e \in Events :
              /\ Execute(e)
              /\ world'.presented # world.presented =>
                    Action(db.rows[e]) = "RETRY_PAYMENT"
              /\ world'.contacted # world.contacted =>
                    consumes_contact(Action(db.rows[e]))
<1>1. world \in Worlds
  BY DEF MandateInv, WorldInv
<1>2. CASE \E e \in Events : Execute(e)
  <2>1. PICK e \in Events : Execute(e)
    BY <1>2
  <2>2. world' = [world EXCEPT
            !.presented = IF Action(db.rows[e]) = "RETRY_PAYMENT"
                          THEN @ + 1 ELSE @,
            !.contacted = IF consumes_contact(Action(db.rows[e]))
                          THEN @ + 1 ELSE @]
    BY <2>1 DEF Execute
  <2>3. /\ Action(db.rows[e]) # "RETRY_PAYMENT" =>
              world'.presented = world.presented
        /\ ~consumes_contact(Action(db.rows[e])) =>
              world'.contacted = world.contacted
    BY <1>1, <2>2 DEF Worlds
  <2> QED BY <2>1, <2>3
<1>3. ASSUME ~\E e \in Events : Execute(e) PROVE FALSE
  <2>1. CASE \E e \in Events : StartJourney(e)
    <3>1. world' = world \/ world' = [world EXCEPT !.overlaps = @ + 1]
      BY <2>1 DEF StartJourney
    <3> QED BY <1>1, <3>1 DEF Worlds
  <2>2. CASE Rollback
    <3> DEFINE u == world.undone + db.mandate.attempts_used
                       - saved.mandate.attempts_used
               s == world.unsaid
                      + Sum([e \in Events |-> db.rows[e].event_contacts])
                      - Sum([e \in Events |-> saved.rows[e].event_contacts])
    <3>1. world' = [world EXCEPT !.rollbacks = @ + 1, !.undone = u,
                                 !.unsaid = s]
      BY <2>2 DEF Rollback
    <3> HIDE DEF u, s
    <3> QED BY <1>1, <3>1 DEF Worlds
  <2>3. CASE Outage
    <3>1. world' = [world EXCEPT !.outages = @ + 1]
      BY <2>3 DEF Outage
    <3> QED BY <1>1, <3>1 DEF Worlds
  <2>4. CASE UNCHANGED world
    BY <2>4
  <2>5. CASE BeginScan \/ BeginTick \/ Commit \/ TimePasses
             \/ UNCHANGED vars
    <3>1. UNCHANGED world
      BY <2>5 DEF BeginScan, BeginTick, Commit, TimePasses, vars
    <3> QED BY <2>4, <3>1
  <2>6. ASSUME NEW e \in Events,
               \/ ScanSuppresses(e) \/ ScanLeaves(e)
               \/ AdvanceBlocked(e) \/ RegateBlocks(e) \/ Verify(e)
        PROVE  FALSE
    <3>1. UNCHANGED world
      BY <2>6 DEF ScanSuppresses, ScanLeaves, AdvanceBlocked, RegateBlocks,
                  Verify
    <3> QED BY <2>4, <3>1
  <2> QED BY <1>3, <2>1, <2>2, <2>3, <2>5, <2>6 DEF Next
<1> QED BY <1>2, <1>3

\* A presentation follows the last notice by pdn_lead_hours, although the
\* check before it does not know of the notice, unless the notice was sent
\* after its journey was planned.
THEOREM NoticeLeading == Spec => NoticeLeads
<1>1. MandateInv /\ [Next]_vars
        => [\A e \in Events : Presents(e) =>
               LET sent == db.mandate.last_pdn_sent_at
               IN  \/ sent = None
                   \/ pdn_satisfied(sent)
                   \/ sent >= db.rows[e].created_at]_vars
  <2> SUFFICES ASSUME MandateInv, [Next]_vars, NEW e \in Events, Presents(e)
               PROVE  LET sent == db.mandate.last_pdn_sent_at
                      IN  \/ sent = None
                          \/ pdn_satisfied(sent)
                          \/ sent >= db.rows[e].created_at
    OBVIOUS
  <2> DEFINE r == db.rows[e]
             sent == db.mandate.last_pdn_sent_at
  <2>1. PICK x \in Events : Execute(x) /\ Action(db.rows[x]) = "RETRY_PAYMENT"
    BY OnlyExecutePresents DEF Presents
  <2>2. x = e
    BY <2>1 DEF Presents, Execute
  <2>3. InHand(r) /\ r.step \notin r.done /\ r.act = "PLANNED"
    BY <2>1, <2>2, ExecuteIs
  <2>4. /\ now \in Instants /\ now \in Int /\ DbInv(db, now, world.overlaps)
        /\ db \in Database /\ r \in Row
    BY InvTells
  <2>5. MayPresent(r)
    BY <2>1, <2>2, <2>3, <2>4, ExecutedInHand
  <2>6. Noticed(sent, r)
    BY <2>4, <2>5 DEF DbInv, Presenting
  <2>7. r.created_at <= now /\ r.created_at \in Int
    <3>1. \A s \in Row : s.created_at \in Int
      BY MandateConstants DEF Row, Instants
    <3> QED BY <2>4, <3>1 DEF DbInv
  <2>8. sent \in Int \cup {None}
    BY <2>4 DEF Database, Mandates
  <2>9. 4 * pdn_lead_hours \in Int
    BY MandateConstants
  <2> HIDE DEF r, sent
  <2>10. sent = None \/ pdn_satisfied(sent) \/ sent >= r.created_at
    BY <2>4, <2>6, <2>7, <2>8, <2>9 DEF Noticed, pdn_satisfied
  <2> QED BY <2>10 DEF r, sent
<1> QED BY <1>1, MandateInvariant, PTL DEF Spec, NoticeLeads

\* Outside the quiet hours of the default policy, and with the minutes left
\* out, it is half past eight at least and not yet half past nine in India.
LEMMA QuietHoursEnd ==
    ASSUME quiet_hours_start = 21, quiet_hours_end = 8, NEW t \in Nat,
           ~in_quiet_hours(t)
    PROVE  Ist(t) \in 34..85
<1> DEFINE q == t \div 4
           hour == ((8 * q) + 44) % 192
<1>1. hour < 168 /\ hour >= 64
  BY DEF in_quiet_hours
<1>2. q \in Nat /\ 4 * q <= t /\ t < 4 * q + 4
  OBVIOUS
<1> HIDE DEF q
<1> DEFINE k == ((8 * q) + 44) \div 192
<1>3. k \in Nat /\ 8 * q + 44 = 192 * k + hour /\ hour \in Nat
  BY <1>2
<1> HIDE DEF k, hour
<1>4. t + 22 >= 96 * k + 34 /\ t + 22 < 96 * k + 86
  BY <1>1, <1>2, <1>3
<1> QED BY <1>3, <1>4 DEF Ist

\* Nothing is presented between 10:00 and 13:00 and nobody contacted between
\* 21:30 and 8:30, with the quiet hours of the default policy.
THEOREM HoursKept ==
    ASSUME quiet_hours_start = 21, quiet_hours_end = 8
    PROVE  Spec => HoursAreKept
<1>1. MandateInv /\ [Next]_vars
        => [/\ world'.presented # world.presented => Ist(now) \notin 40..51
            /\ world'.contacted # world.contacted => Ist(now) \in 34..85]_vars
  <2> SUFFICES ASSUME MandateInv, [Next]_vars,
                      \/ world'.presented # world.presented
                      \/ world'.contacted # world.contacted
               PROVE  /\ world'.presented # world.presented =>
                            Ist(now) \notin 40..51
                      /\ world'.contacted # world.contacted =>
                            Ist(now) \in 34..85
    OBVIOUS
  <2>1. PICK e \in Events :
           /\ Execute(e)
           /\ world'.presented # world.presented =>
                 Action(db.rows[e]) = "RETRY_PAYMENT"
           /\ world'.contacted # world.contacted =>
                 consumes_contact(Action(db.rows[e]))
    BY OnlyExecutePresents
  <2> DEFINE a == Action(db.rows[e])
             g == TickGate(e, db.rows[e])
  <2>2. a # "DO_NOTHING" /\ evaluate(a, g) # "BLOCK"
    BY <2>1, ExecuteIs
  <2>3. /\ a = "RETRY_PAYMENT" => ~g.peak
        /\ consumes_contact(a) => ~g.quiet
    <3> HIDE DEF a, g
    <3> QED BY <2>2, AllowMeans
  <2>4. g.peak = ~in_execution_window(now) /\ g.quiet = in_quiet_hours(now)
    BY DEF TickGate, Gate
  <2>5. now \in Nat
    BY InvTells
  <2>6. world'.presented # world.presented => Ist(now) \notin 40..51
    BY <2>1, <2>3, <2>4 DEF in_execution_window
  <2>7. world'.contacted # world.contacted => Ist(now) \in 34..85
    BY <2>1, <2>3, <2>4, <2>5, QuietHoursEnd
  <2> QED BY <2>6, <2>7
<1> QED BY <1>1, MandateInvariant, PTL DEF Spec, HoursAreKept

-----------------------------------------------------------------------------
(* The refinement of EventFate.                                            *)

\* An event that is at risk or in recovery was committed as one of these two.
LEMMA LaterStill ==
    ASSUME NEW e, NEW s, NEW t \in Fate!Later(e, s)
    PROVE  /\ s \in Fate!Later(e, s)
           /\ t = "AT_RISK" => \A u \in EventStatus : u \in Fate!Later(e, s)
           /\ t = "IN_RECOVERY" =>
                 \A u \in {"IN_RECOVERY", "LOST", "RECOVERED"} :
                    u \in Fate!Later(e, s)
BY DEF Fate!Later, Fate!EventStatus, Fate!EventSettled, EventStatus

\* The event of the row a step is scheduled in is not touched,
LEMMA ScheduleEvent ==
    ASSUME NEW r \in Row, NEW i, NEW g, NEW row \in ScheduleStep(r, i, g)
    PROVE  row.event = r.event
<1> DEFINE s == [r EXCEPT !.journey = "PLANNED", !.step = i]
<1>1. s.event = r.event /\ \A a, d : [s EXCEPT !.act = a, !.due = d].event
                                        = s.event
  BY DEF Row
<1>2. \E a, d : row = [s EXCEPT !.act = a, !.due = d]
  <2>1. CASE evaluate(r.plan[i], g) = "BLOCK"
    BY <2>1 DEF ScheduleStep, Block
  <2>2. CASE evaluate(r.plan[i], g) # "BLOCK"
    BY <2>2 DEF ScheduleStep
  <2> QED BY <2>1, <2>2
<1> HIDE DEF s
<1> QED BY <1>1, <1>2

\* that of a journey that ends is lost,
LEMMA NextEvent ==
    ASSUME NEW e, NEW ctx, NEW r \in Row, NEW row \in NextStepOrClose(e, ctx, r)
    PROVE  row.event \in {r.event, "LOST"}
<1>1. CASE r.step < Len(r.plan)
  BY <1>1, ScheduleEvent DEF NextStepOrClose
<1>2. CASE ~(r.step < Len(r.plan))
  BY <1>2 DEF NextStepOrClose, Row
<1> QED BY <1>1, <1>2

\* and that of an action that succeeded is recovered.
LEMMA AnsweredEvent ==
    ASSUME NEW e, NEW ctx, NEW r, InHand(r), NEW wait,
           NEW row \in Answered(e, ctx, r, wait)
    PROVE  row.event \in {"IN_RECOVERY", "LOST", "RECOVERED"}
<1>1. r \in Row /\ r.event = "IN_RECOVERY"
  BY DEF InHand, Running
<1>2. CASE row \in StaysOut(r, wait)
  BY <1>1, <1>2 DEF StaysOut, Row
<1>3. CASE row \in Bookings(e, r)
  <2>1. PICK model \in ModelRates, c \in CohortRates :
           row = Book(e, r, model, c)
    BY <1>3 DEF Bookings
  <2> DEFINE gross == Amount[e] - discount_paise(e, r)
             cost  == Cost(r) + discount_paise(e, r)
             organic == organic_estimate(gross, model, c)
             entry == [gross |-> gross, organic |-> organic, cost |-> cost,
                       incremental |-> gross - organic - cost]
             total  == r.cost + cost
             totals == r.event_cost + cost
  <2>2. row = [r EXCEPT !.act = "SUCCEEDED", !.event = "RECOVERED",
                        !.journey = "CLOSED", !.recovered = gross,
                        !.event_cost = totals, !.cost = total,
                        !.entry = entry]
    BY <2>1 DEF Book
  <2> HIDE DEF gross, cost, organic, entry, total, totals
  <2> QED BY <1>1, <2>2 DEF Row
<1>4. CASE row \in NextStepOrClose(e, ctx, [r EXCEPT !.act = "FAILED"])
  <2> DEFINE s == [r EXCEPT !.act = "FAILED"]
  <2>1. s \in Row /\ s.event = r.event
    BY <1>1 DEF Row, ActStatus
  <2>2. row \in NextStepOrClose(e, ctx, s)
    BY <1>4
  <2> HIDE DEF s
  <2>3. row.event \in {s.event, "LOST"}
    BY <2>1, <2>2, NextEvent
  <2> QED BY <1>1, <2>1, <2>3
<1> QED BY <1>2, <1>3, <1>4 DEF Answered

\* The session is never behind what is committed.
Forward ==
    \A e \in Events :
        db.rows[e].event \in Fate!Later(e, saved.rows[e].event)

\* Whatever a handler does to the event it has taken is forward.
LEMMA TakenForward ==
    ASSUME MandateInv, Forward, NEW e \in Events, NEW row, saved' = saved,
           db'.rows = [db.rows EXCEPT ![e] = row],
           \/ db.rows[e].event = "AT_RISK" /\ row.event \in EventStatus
           \/ /\ db.rows[e].event = "IN_RECOVERY"
              /\ row.event \in {"IN_RECOVERY", "LOST", "RECOVERED"}
    PROVE  Forward'
<1>1. db.rows \in [Events -> Row]
  BY InvTells DEF Database
<1>2. row.event \in Fate!Later(e, saved.rows[e].event)
  BY LaterStill DEF Forward
<1> QED BY <1>1, <1>2 DEF Forward

LEMMA HandledForward ==
    ASSUME MandateInv, Forward, NEW e \in Events, NEW row, saved' = saved,
           Handle(e, row),
           \/ db.rows[e].event = "AT_RISK" /\ row.event \in EventStatus
           \/ /\ db.rows[e].event = "IN_RECOVERY"
              /\ row.event \in {"IN_RECOVERY", "LOST", "RECOVERED"}
    PROVE  Forward'
<1>1. db'.rows = [db.rows EXCEPT ![e] = row]
  BY InvTells DEF Handle, Database
<1> QED BY <1>1, TakenForward

\* What is committed as it stands goes nowhere.
LEMMA SameForward == ASSUME saved' = db' PROVE Forward'
BY LaterStill DEF Forward, Fate!Later

LEMMA UnmovedForward ==
    ASSUME Forward, db' = db, saved' = saved PROVE Forward'
BY DEF Forward

\* The handlers of a scan meet events at risk,
LEMMA ScanForward ==
    ASSUME MandateInv, Forward, NEW e \in Events,
           ScanSuppresses(e) \/ ScanLeaves(e) \/ StartJourney(e)
    PROVE  Forward'
<1>1. /\ saved' = saved /\ db.rows[e].event = "AT_RISK"
      /\ db.rows[e] \in Row
  BY InvTells DEF ScanSuppresses, ScanLeaves, StartJourney, MandateInv
<1>2. CASE ScanSuppresses(e)
  <2>1. [db.rows[e] EXCEPT !.event = "SUPPRESSED"].event \in EventStatus
    BY <1>1 DEF Row, EventStatus
  <2> QED BY <1>1, <1>2, <2>1, HandledForward DEF ScanSuppresses
<1>3. CASE ScanLeaves(e)
  <2>1. db.rows[e].event \in EventStatus
    BY <1>1 DEF Row
  <2> QED BY <1>1, <1>3, <2>1, HandledForward DEF ScanLeaves
<1>4. CASE StartJourney(e)
  <2>1. PICK p \in Plans : \E row \in ScheduleStep(Fresh(p), 1, ScanGate(e)) :
                              Handle(e, row)
    BY <1>4 DEF StartJourney, Fresh
  <2>2. Fresh(p) \in Row /\ Fresh(p).event = "IN_RECOVERY"
    <3>1. "IN_RECOVERY" \in EventStatus /\ p \in MaybePlan /\ now \in Instants
      BY InvTells DEF EventStatus, MaybePlan
    <3> QED BY <3>1, NewRowIs DEF Row, Fresh
  <2>3. PICK row \in ScheduleStep(Fresh(p), 1, ScanGate(e)) : Handle(e, row)
    BY <2>1
  <2>4. row.event \in EventStatus
    BY <2>2, <2>3, ScheduleEvent DEF EventStatus
  <2> QED BY <1>1, <2>3, <2>4, HandledForward
<1> QED BY <1>2, <1>3, <1>4

\* and those of a tick events in recovery.
LEMMA TickForward ==
    ASSUME MandateInv, Forward, NEW e \in Events,
           AdvanceBlocked(e) \/ RegateBlocks(e) \/ Execute(e) \/ Verify(e)
    PROVE  Forward'
<1> DEFINE r == db.rows[e]
<1>1. saved' = saved /\ Advancing(e) /\ now \in Instants
  BY InvTells DEF AdvanceBlocked, RegateBlocks, Execute, Verify
<1>2. InHand(r) /\ r \in Row /\ r.event = "IN_RECOVERY"
  BY <1>1, AdvancingTells DEF InHand, Running
<1>3. CASE AdvanceBlocked(e)
  <2>1. PICK row \in NextStepOrClose(e, r, r) : Handle(e, row)
    BY <1>3 DEF AdvanceBlocked
  <2>2. row.event \in {"IN_RECOVERY", "LOST"}
    BY <1>2, <2>1, NextEvent
  <2> QED BY <1>1, <1>2, <2>1, <2>2, HandledForward
<1>4. CASE RegateBlocks(e)
  <2> DEFINE s == Block(r)
  <2>1. PICK row \in NextStepOrClose(e, r, s) : Handle(e, row)
    BY <1>4 DEF RegateBlocks
  <2>2. s \in Row /\ s.event = "IN_RECOVERY"
    BY <1>1, <1>2, BlockSame DEF SameButAction
  <2> HIDE DEF s
  <2>3. row.event \in {"IN_RECOVERY", "LOST"}
    BY <2>1, <2>2, NextEvent
  <2> QED BY <1>1, <1>2, <2>1, <2>3, HandledForward
<1>5. CASE Verify(e)
  <2>1. PICK row \in Answered(e, r, r, 10) : Handle(e, row)
    BY <1>5 DEF Verify
  <2>2. row.event \in {"IN_RECOVERY", "LOST", "RECOVERED"}
    BY <1>2, <2>1, AnsweredEvent
  <2> QED BY <1>1, <1>2, <2>1, <2>2, HandledForward
<1>6. CASE Execute(e)
  <2>1. r.step \notin r.done /\ r.act = "PLANNED"
    BY <1>6, ExecuteIs
  <2>2. InHand(Executed(r))
    BY <1>1, <1>2, <2>1, ExecutedInHand
  <2> DEFINE x == Executed(r)
             wait == RESOLVE_DELAY_MINUTES(Action(r))
  <2>3. PICK row \in Answered(e, r, x, wait) :
           db' = [db EXCEPT !.rows[e] = row,
                            !.mandate = Charge(@, Action(r))]
    BY <1>6 DEF Execute
  <2>4. row.event \in {"IN_RECOVERY", "LOST", "RECOVERED"}
    <3> HIDE DEF x, wait
    <3>1. InHand(x)
      BY <2>2 DEF x
    <3> QED BY <2>3, <3>1, AnsweredEvent
  <2>5. db'.rows = [db.rows EXCEPT ![e] = row]
    <3> HIDE DEF x, wait
    <3> QED BY <2>3, InvTells DEF Database
  <2> QED BY <1>1, <1>2, <2>4, <2>5, TakenForward
<1> QED BY <1>3, <1>4, <1>5, <1>6

LEMMA StepForward ==
    ASSUME MandateInv, Forward, [Next]_vars
    PROVE  Forward'
<1>1. CASE BeginScan \/ BeginTick \/ TimePasses \/ Outage \/ UNCHANGED vars
  <2>1. db' = db /\ saved' = saved
    BY <1>1 DEF BeginScan, BeginTick, TimePasses, Outage, vars
  <2> QED BY <2>1, UnmovedForward
<1>2. CASE Commit \/ Rollback
  <2>1. saved' = db'
    BY <1>2 DEF Commit, Rollback
  <2> QED BY <2>1, SameForward
<1> QED BY <1>1, <1>2, ScanForward, TickForward DEF Next

\* The ledger of the committed rows is the one EventFate speaks of.
LEMMA LedgerIsBooked ==
    ASSUME MandateInv
    PROVE  {e \in Events : saved.rows[e].entry # None} = Fate!Booked
<1>1. \A e \in Events : saved.rows[e].entry # None
                           <=> saved.rows[e].event = "RECOVERED"
  BY InvTells, RowTells DEF DbInv, Database
<1> QED BY <1>1 DEF Fate!Booked

\* The committed rows and the ledger implement EventFate, whatever the hour,
\* the outages, the cycles that raise and the journeys that overlap.
THEOREM MandateImplementsEventFate == Spec => FateSpec
<1>1. Init => Fate!Init /\ Forward
  <2> SUFFICES ASSUME Init PROVE Fate!Init /\ Forward
    OBVIOUS
  <2>1. saved = db /\ \A e \in Events : db.rows[e] = NewRow
    BY DEF Init
  <2>2. NewRow.event = "AT_RISK" /\ NewRow.entry = None
    BY DEF NewRow
  <2> QED BY <2>1, <2>2 DEF Fate!Init, Forward, Fate!Later
<1>2. MandateInv /\ Forward /\ [Next]_vars => Forward'
  BY StepForward
<1>3. MandateInv /\ Forward /\ MandateInv' /\ [Next]_vars =>
          [Fate!Next]_<<[e \in Events |-> saved.rows[e].event],
                        {e \in Events : saved.rows[e].entry # None}>>
  <2> SUFFICES ASSUME MandateInv, Forward, MandateInv', [Next]_vars,
                      saved' # saved
               PROVE  Fate!Transaction
    BY DEF Fate!Next
  <2>1. Commit
    <3>1. ASSUME NEW e \in Events,
                 \/ ScanSuppresses(e) \/ ScanLeaves(e) \/ StartJourney(e)
                 \/ AdvanceBlocked(e) \/ RegateBlocks(e) \/ Execute(e)
                 \/ Verify(e)
          PROVE  FALSE
      BY <3>1 DEF ScanSuppresses, ScanLeaves, StartJourney, AdvanceBlocked,
                  RegateBlocks, Execute, Verify
    <3>2. ~(BeginScan \/ BeginTick \/ Rollback \/ TimePasses \/ Outage
              \/ UNCHANGED vars)
      BY DEF BeginScan, BeginTick, Rollback, TimePasses, Outage, vars
    <3> QED BY <3>1, <3>2 DEF Next
  <2>2. saved' = db
    BY <2>1 DEF Commit
  <2>3. \A e \in Events : db.rows[e].event \in Fate!EventStatus
    BY InvTells DEF Row, EventStatus, Fate!EventStatus
  <2>4. ({e \in Events : saved.rows[e].entry # None} = Fate!Booked)'
    BY LedgerIsBooked, PTL
  <2> QED BY <2>2, <2>3, <2>4 DEF Fate!Transaction, Forward
<1> QED BY <1>1, <1>2, <1>3, MandateInvariant, PTL DEF Spec, FateSpec, Fate!Spec
=============================================================================

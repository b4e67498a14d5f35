------------------------------ MODULE Mandate ------------------------------
(***************************************************************************)
(* One customer's mandate and the events charged against it, by the clock: *)
(* what the guardrails know of the mandate, of the hour and of the last    *)
(* contact when a plan is made, when a step is scheduled and when it runs, *)
(* and what is counted and booked on the way (services/orchestrator.py,    *)
(* services/policy.py, agents/verifier.py, services/ledger.py,             *)
(* engines/counterfactual.py, engines/mandate.py).                         *)
(*                                                                         *)
(* Instants are quarters of an hour UTC, and everything happens on a       *)
(* quarter; a wait that is none ends on the one before or the one after.   *)
(* Amounts lie below every approval threshold and people do nothing:       *)
(* Recovery has the approvals and the controls, and the ways in which a    *)
(* customer comes to have two open journeys, which is here a step that     *)
(* MaxOverlaps allows.                                                     *)
(***************************************************************************)
EXTENDS Catalog, Integers, Sequences, FiniteSets, FiniteSetsExt

CONSTANTS
    Events,
    Amount,         \* [Events -> paise]
    CauseOf,        \* [Events -> CauseClass]
    Plans,          \* plans build_plan may return
    Seeded,         \* attempts a mandate may have behind it at the start
    Notices,        \* age of its last pre-debit notice at the start, or None
    ModelRates,     \* organic probabilities of the predictor, in percent
    CohortRates,    \* what the control cohort of a kind may show
    Start, End,     \* bounds: the quarters between which everything happens
    MaxOverlaps,    \* bound: journeys opened beside an open one
    MaxRollbacks,   \* bound: cycles that raise
    MaxPolls,       \* bound: times an answer stays out
    MaxOutages,     \* bound: times the scheduler is down
    Outages,        \* for how many quarters it may be
    clock_speedup,
    pdn_lead_hours,
    quiet_hours_start, quiet_hours_end,
    None

Steps == 1..4

\* A row of the ledger.
Entry == [gross: Nat, organic: Nat, cost: Nat, incremental: Int]

\* A plan holds no option twice but the promise (Planning: PlanSuitsRecovery);
\* a mandate is seeded with two attempts at most (services/seeding.py:109).
ASSUME MandateConstants ==
    /\ IsFiniteSet(Events)
    /\ Amount \in [Events -> Nat]
    /\ CauseOf \in [Events -> CauseClass]
    /\ Plans \subseteq Seq(ActionType \ {"DO_NOTHING"})
    /\ \A p \in Plans :
          /\ Len(p) \in Steps
          /\ \A i, j \in DOMAIN p :
                p[i] = "RETRY_PAYMENT" /\ p[j] = "RETRY_PAYMENT" => i = j
    /\ Seeded \subseteq 0..npci_max_attempts
    /\ Notices \subseteq Nat \cup {None}
    /\ ModelRates \subseteq 0..100
    /\ CohortRates \subseteq [hits: Nat, total: Nat, overall_hits: Nat,
                              overall_total: Nat]
    /\ \A c \in CohortRates :
          c.hits <= c.total /\ c.overall_hits <= c.overall_total
    /\ {Start, End, MaxOverlaps, MaxRollbacks, MaxPolls, MaxOutages,
        pdn_lead_hours} \subseteq Nat
    /\ Start <= End
    /\ Outages \subseteq Nat
    /\ clock_speedup \in Nat \ {0}
    /\ quiet_hours_start \in 0..23 /\ quiet_hours_end \in 0..23
    /\ None \notin Int /\ None \notin Entry

VARIABLES
    now,
    db,         \* rows and mandate as the open session sees them
    saved,      \* the same as committed
    phase,
    todo,
    world       \* history: what really happened, and how often

vars == <<now, db, saved, phase, todo, world>>

ActStatus == {"NONE", "PLANNED", "BLOCKED", "EXECUTING", "SUCCEEDED", "FAILED"}

\* The rows of an event, of its journey and of the journey's last action.
\* done are the steps with an executed_at.
NewRow ==
    [event |-> "AT_RISK", event_contacts |-> 0, event_cost |-> 0,
     recovered |-> 0,
     journey |-> "NONE", created_at |-> Start, plan |-> <<>>, step |-> 0, act |-> "NONE",
     due |-> Start, done |-> {}, last_contact |-> None,
     contacts |-> 0, retries |-> 0, npci |-> 0, cost |-> 0, polls |-> 0,
     entry |-> None]

Init ==
    /\ now = Start
    /\ \E attempts \in Seeded, age \in Notices :
         db = [rows |-> [e \in Events |-> NewRow],
               mandate |-> [seeded |-> attempts, attempts_used |-> attempts,
                            last_pdn_sent_at |-> IF age = None THEN None
                                                 ELSE Start - age]]
    /\ saved = db
    /\ phase = "idle"
    /\ todo = {}
    /\ world = [presented |-> 0, contacted |-> 0, undone |-> 0,
                unsaid |-> 0, overlaps |-> 0, rollbacks |-> 0, outages |-> 0]

-----------------------------------------------------------------------------
(* The clock.                                                              *)

\* The minutes of a wait as quarters, shortened by the clock dial.
Quarters(minutes) ==
    {minutes \div (15 * clock_speedup),
     (minutes + 15 * clock_speedup - 1) \div (15 * clock_speedup)}

\* Quarters past midnight in India, five and a half hours ahead.
Ist(t) == (t + 22) % 96

\* (mutant) The window is compared with the hour in UTC.
in_execution_window_utc(t) == t % 96 \notin 40..51

\* 10:00 to 13:00.
in_execution_window(t) == Ist(t) \notin 40..51

\* _in_quiet_hours, in eighths of an hour: the hour without its minutes.
in_quiet_hours(t) ==
    LET hour == ((8 * (t \div 4)) + 44) % 192
    IN  IF quiet_hours_start > quiet_hours_end
        THEN hour >= 8 * quiet_hours_start \/ hour < 8 * quiet_hours_end
        ELSE hour >= 8 * quiet_hours_start /\ hour < 8 * quiet_hours_end

pdn_satisfied(sent) == now - sent >= 4 * pdn_lead_hours

\* contact_cooldown_minutes is 45 and is not shortened by the dial.
in_cooldown(r) == r.last_contact # None /\ now - r.last_contact < 3

\* Minutes until the simulator can tell what became of an action.
RESOLVE_DELAY_MINUTES(action) ==
    CASE action = "SEND_PDN"                             -> 20
      [] action = "VOICE"                                -> 25
      [] action \in {"ALT_PAYMENT_METHOD", "SWITCH_RAIL"} -> 30
      [] action \in {"PAYMENT_LINK", "AMEND_MANDATE_CAP"} -> 35
      [] action \in {"WHATSAPP", "REREGISTER_MANDATE"}    -> 40
      [] action = "DISCOUNT"                             -> 45
      [] action = "SMS"                                  -> 55
      [] action = "EMAIL"                                -> 90
      [] action = "PROMISE_FOLLOWUP"                     -> 120
      [] action = "HUMAN_ESCALATION"                     -> 180
      [] OTHER                                           -> 60

-----------------------------------------------------------------------------
(* The guardrails.                                                         *)

Gate(e, attempts, pdn, r) ==
    [enabled |-> TRUE, paused |-> FALSE, recovered |-> r.event = "RECOVERED",
     opted_out |-> FALSE, contacts |-> r.contacts, retries |-> r.retries,
     npci |-> attempts, discounts |-> 0, voice |-> 0,
     cooldown |-> in_cooldown(r), quiet |-> in_quiet_hours(now),
     peak |-> ~in_execution_window(now), degraded |-> FALSE,
     cause |-> CauseOf[e], pdn |-> pdn, large |-> FALSE,
     large_voice |-> FALSE, large_discount |-> FALSE]

\* (mutant) The scan, too, counts the attempts of the journey.
ScanGate_of_journey(e) == Gate(e, 0, "NONE", NewRow)

\* scan asks the mandate,
ScanGate(e) ==
    LET sent == db.mandate.last_pdn_sent_at
    IN  Gate(e, db.mandate.attempts_used,
             IF sent = None THEN "NONE"
             ELSE IF pdn_satisfied(sent) THEN "SERVED" ELSE "RECENT", NewRow)

\* and tick, in _context, the journey.
TickGate(e, r) == Gate(e, r.npci, "NONE", r)

-----------------------------------------------------------------------------
(* What the handlers do to one row.                                        *)

\* Only the step that was priced has a discount, in tenths of a percent.
discount_paise(e, r) ==
    IF r.step = 1 /\ r.plan[1] = "DISCOUNT"
    THEN (Amount[e] * (IF Amount[e] >= 100000 THEN 80 ELSE 48)) \div 1000
    ELSE 0

DelayMinutes(r, i) ==
    CASE r.plan[i] = "PROMISE_FOLLOWUP" -> {1440}
      [] r.plan[i] = "RETRY_PAYMENT" /\ i = 1 -> {25, 45}
      [] i = 1 -> {0}
      [] consumes_contact(r.plan[i]) -> {360}
      [] OTHER -> {60}

Block(r) == [r EXCEPT !.act = "BLOCKED", !.due = now]

\* _schedule_step: the guardrails are asked when the step is planned, about
\* the present, and not about the instant it is planned for.
ScheduleStep(r, i, g) ==
    LET s == [r EXCEPT !.journey = "PLANNED", !.step = i]
    IN  IF evaluate(r.plan[i], g) = "BLOCK"
        THEN {Block(s)}
        ELSE {[s EXCEPT !.act = "PLANNED", !.due = now + quarters] :
                 quarters \in UNION {Quarters(m) : m \in DelayMinutes(r, i)}}

\* The rows _next_step_or_close may leave; ctx is the row the context was
\* built from.
NextStepOrClose(e, ctx, r) ==
    IF r.step < Len(r.plan)
    THEN ScheduleStep(r, r.step + 1, TickGate(e, ctx))
    ELSE {[r EXCEPT !.event = "LOST", !.journey = "CLOSED"]}

Action(r) == r.plan[r.step]
Cost(r) == INTERVENTIONS[Action(r)].cost_paise

\* (mutant) The contact is counted in the journey and not in the event.
Executed_of_journey(r) ==
    LET contact == IF consumes_contact(Action(r)) THEN 1 ELSE 0
        retry   == IF Action(r) = "RETRY_PAYMENT" THEN 1 ELSE 0
    IN  [r EXCEPT !.act = "EXECUTING", !.journey = "VERIFYING", !.polls = 0,
                  !.done = @ \cup {r.step},
                  !.last_contact = IF contact = 1 THEN now ELSE @,
                  !.contacts = @ + contact,
                  !.retries = @ + retry, !.npci = @ + retry,
                  !.cost = @ + Cost(r), !.event_cost = @ + Cost(r)]

\* The row once the gateway was called, _consume_budget was run and the cost
\* added.
Executed(r) ==
    LET contact == IF consumes_contact(Action(r)) THEN 1 ELSE 0
        retry   == IF Action(r) = "RETRY_PAYMENT" THEN 1 ELSE 0
    IN  [r EXCEPT !.act = "EXECUTING", !.journey = "VERIFYING", !.polls = 0,
                  !.done = @ \cup {r.step},
                  !.last_contact = IF contact = 1 THEN now ELSE @,
                  !.contacts = @ + contact, !.event_contacts = @ + contact,
                  !.retries = @ + retry, !.npci = @ + retry,
                  !.cost = @ + Cost(r), !.event_cost = @ + Cost(r)]

\* organic_estimate: the rate of the control cohort of the kind, or of all
\* kinds when this one has none, is blended in from MIN_COHORT_SAMPLE on.
MIN_COHORT_SAMPLE == 40

organic_estimate(gross, model, c) ==
    LET hits  == IF c.total > 0 THEN c.hits ELSE c.overall_hits
        total == IF c.total > 0 THEN c.total ELSE c.overall_total
    IN  IF total < MIN_COHORT_SAMPLE THEN (gross * model) \div 100
        ELSE IF model = 0 THEN (gross * hits) \div total
        ELSE (gross * (100 * hits + model * total)) \div (200 * total)

\* (mutant) What is booked is what was asked for, with the discount.
Book_in_full(e, r, model, cohort) ==
    LET gross   == Amount[e]
        cost    == Cost(r) + discount_paise(e, r)
        organic == organic_estimate(gross, model, cohort)
    IN  [r EXCEPT !.act = "SUCCEEDED", !.event = "RECOVERED",
                  !.journey = "CLOSED", !.recovered = gross,
                  !.event_cost = @ + cost, !.cost = @ + cost,
                  !.entry = [gross |-> gross, organic |-> organic,
                             cost |-> cost,
                             incremental |-> gross - organic - cost]]

\* Verifier._book, book_recovery, and the journey closed.
Book(e, r, model, cohort) ==
    LET discount == discount_paise(e, r)
        gross   == Amount[e] - discount
        cost    == Cost(r) + discount
        organic == organic_estimate(gross, model, cohort)
    IN  [r EXCEPT !.act = "SUCCEEDED", !.event = "RECOVERED",
                  !.journey = "CLOSED", !.recovered = gross,
                  !.event_cost = @ + cost, !.cost = @ + cost,
                  !.entry = [gross |-> gross, organic |-> organic,
                             cost |-> cost,
                             incremental |-> gross - organic - cost]]

\* An answer that stays out is asked for again MaxPolls times.
StaysOut(r, wait) ==
    {[r EXCEPT !.due = now + quarters, !.polls = @ + 1] :
        quarters \in IF r.polls > MaxPolls THEN {} ELSE Quarters(wait)}

Bookings(e, r) ==
    {Book(e, r, model, c) : model \in ModelRates, c \in CohortRates}

\* The rows an answer of the gateway may lead to, waits in minutes.
Answered(e, ctx, r, wait) ==
    StaysOut(r, wait) \cup Bookings(e, r)
      \cup NextStepOrClose(e, ctx, [r EXCEPT !.act = "FAILED"])

-----------------------------------------------------------------------------
(* scan.                                                                   *)

Handle(e, row) ==
    /\ db' = [db EXCEPT !.rows[e] = row]
    /\ todo' = todo \ {e}

\* (mutant) Any event without an open journey is scanned, ended ones as well.
BeginScan_ended ==
    /\ phase = "idle"
    /\ phase' = "scan"
    /\ todo' = {e \in Events : db.rows[e].journey \in {"NONE", "CLOSED"}}
    /\ todo' # {}
    /\ UNCHANGED <<now, db, saved, world>>

BeginScan ==
    /\ phase = "idle"
    /\ phase' = "scan"
    /\ todo' = {e \in Events : db.rows[e].event = "AT_RISK"}
    /\ todo' # {}
    /\ UNCHANGED <<now, db, saved, world>>

\* Nothing is worth its cost, or the chosen action is blocked.
ScanSuppresses(e) ==
    /\ phase = "scan" /\ e \in todo
    /\ Handle(e, [db.rows[e] EXCEPT !.event = "SUPPRESSED"])
    /\ UNCHANGED <<now, saved, phase, world>>

Open(r) == r.journey \in {"PLANNED", "VERIFYING"}

SomeOpen == \E e \in Events : Open(db.rows[e])

\* The customer is owned.
ScanLeaves(e) ==
    /\ phase = "scan" /\ e \in todo
    /\ SomeOpen
    /\ Handle(e, db.rows[e])
    /\ UNCHANGED <<now, saved, phase, world>>

\* build_plan only takes options the gate of the scan allowed; the promise is
\* added without being asked for.
Plannable(e, p) ==
    \A i \in DOMAIN p : \/ p[i] = "PROMISE_FOLLOWUP"
                        \/ evaluate(p[i], ScanGate(e)) # "BLOCK"

StartJourney(e) ==
    /\ phase = "scan" /\ e \in todo
    /\ \E p \in Plans :
         /\ Plannable(e, p)
         /\ \E row \in ScheduleStep([NewRow EXCEPT !.event = "IN_RECOVERY",
                                                   !.created_at = now,
                                                   !.plan = p],
                                    1, ScanGate(e)) : Handle(e, row)
    /\ IF SomeOpen
       THEN /\ world.overlaps < MaxOverlaps
            /\ world' = [world EXCEPT !.overlaps = @ + 1]
       ELSE UNCHANGED world
    /\ UNCHANGED <<now, saved, phase>>

-----------------------------------------------------------------------------
(* tick.                                                                   *)

BeginTick ==
    /\ phase \in {"idle", "scan"} /\ todo = {}
    /\ phase' = "tick"
    /\ todo' = {e \in Events : Open(db.rows[e]) /\ db.rows[e].due <= now}
    /\ phase = "idle" => todo' # {}
    /\ UNCHANGED <<now, db, saved, world>>

Advancing(e) == phase = "tick" /\ e \in todo

AdvanceBlocked(e) ==
    LET r == db.rows[e] IN
    /\ Advancing(e) /\ r.act = "BLOCKED"
    /\ \E row \in NextStepOrClose(e, r, r) : Handle(e, row)
    /\ UNCHANGED <<now, saved, phase, world>>

RegateBlocks(e) ==
    LET r == db.rows[e]
        g == TickGate(e, r)
    IN
    /\ Advancing(e) /\ r.act = "PLANNED"
    /\ evaluate(Action(r), g) = "BLOCK"
    /\ \E row \in NextStepOrClose(e, r, Block(r)) :
          Handle(e, row)
    /\ UNCHANGED <<now, saved, phase, world>>

\* (mutant) The attempts left are counted down, and not those made up.
Charge_down(m, action) ==
    CASE action = "RETRY_PAYMENT" -> [m EXCEPT !.attempts_used = npci_max_attempts - @ - 2]
      [] action = "SEND_PDN"      -> [m EXCEPT !.last_pdn_sent_at = now]
      [] OTHER                    -> m

\* The mandate after an action.
Charge(m, action) ==
    CASE action = "RETRY_PAYMENT" -> [m EXCEPT !.attempts_used = @ + 1]
      [] action = "SEND_PDN"      -> [m EXCEPT !.last_pdn_sent_at = now]
      [] OTHER                    -> m

\* The re-check allows: the gateway is called.
Execute(e) ==
    LET r == db.rows[e]
        retry == Action(r) = "RETRY_PAYMENT"
    IN
    /\ Advancing(e) /\ r.act = "PLANNED"
    /\ evaluate(Action(r), TickGate(e, r)) = "ALLOW"
    /\ \E row \in Answered(e, r, Executed(r),
                           RESOLVE_DELAY_MINUTES(Action(r))) :
          db' = [db EXCEPT !.rows[e] = row,
                           !.mandate = Charge(@, Action(r))]
    /\ todo' = todo \ {e}
    /\ world' = [world EXCEPT
          !.presented = IF retry THEN @ + 1 ELSE @,
          !.contacted = IF consumes_contact(Action(r)) THEN @ + 1 ELSE @]
    /\ UNCHANGED <<now, saved, phase>>

\* The outcome is asked for again, ten minutes later when it is open.
Verify(e) ==
    LET r == db.rows[e] IN
    /\ Advancing(e) /\ r.act = "EXECUTING"
    /\ \E row \in Answered(e, r, r, 10) : Handle(e, row)
    /\ UNCHANGED <<now, saved, phase, world>>

-----------------------------------------------------------------------------
(* The session and the clock.                                              *)

Commit ==
    /\ phase # "idle" /\ todo = {}
    /\ saved' = db
    /\ phase' = "idle"
    /\ UNCHANGED <<now, db, todo, world>>

Sum(f) == MapThenSumSet(LAMBDA e : f[e], Events)

\* What was done in the cycle that raises stays done.
Rollback ==
    /\ phase # "idle"
    /\ world.rollbacks < MaxRollbacks
    /\ db' = saved
    /\ phase' = "idle"
    /\ todo' = {}
    /\ world' = [world EXCEPT
          !.rollbacks = @ + 1,
          !.undone = @ + db.mandate.attempts_used
                       - saved.mandate.attempts_used,
          !.unsaid = @ + Sum([e \in Events |-> db.rows[e].event_contacts])
                       - Sum([e \in Events |-> saved.rows[e].event_contacts])]
    /\ UNCHANGED <<now, saved>>

Waiting(e) ==
    LET r == db.rows[e]
    IN  IF Open(r) THEN r.due > now ELSE r.event = "AT_RISK" => SomeOpen

\* The scheduler beats every ten seconds: as long as it does, nothing waits
\* for longer than it has to, and nothing happens until the next row is due.
TimePasses ==
    /\ phase = "idle"
    /\ \A e \in Events : Waiting(e)
    /\ \E e \in Events :
         /\ Open(db.rows[e])
         /\ \A x \in Events : Open(db.rows[x]) =>
                                 db.rows[e].due <= db.rows[x].due
         /\ db.rows[e].due <= End
         /\ now' = db.rows[e].due
    /\ UNCHANGED <<db, saved, phase, todo, world>>

\* The scheduler is down for a while, and late for whatever became due.
Outage ==
    /\ phase = "idle"
    /\ world.outages < MaxOutages
    /\ \E quarters \in Outages :
         now + quarters <= End /\ now' = now + quarters
    /\ world' = [world EXCEPT !.outages = @ + 1]
    /\ UNCHANGED <<db, saved, phase, todo>>

Next ==
    \/ BeginScan \/ BeginTick \/ Commit \/ Rollback
    \/ TimePasses \/ Outage
    \/ \E e \in Events :
         \/ ScanSuppresses(e) \/ ScanLeaves(e) \/ StartJourney(e)
         \/ AdvanceBlocked(e) \/ RegateBlocks(e) \/ Execute(e) \/ Verify(e)

Spec == Init /\ [][Next]_vars

-----------------------------------------------------------------------------
(* Properties.                                                             *)

EventStatus == {"AT_RISK", "IN_RECOVERY", "SUPPRESSED", "RECOVERED", "LOST"}
JourneyStatus == {"NONE", "PLANNED", "VERIFYING", "CLOSED"}
Instants == Start..End
MaybeInstant == Instants \cup {None}
MaybePlan == Plans \cup {<<>>}
MaybeStep == Steps \cup {0}
MaybeEntry == Entry \cup {None}

Row == [event: EventStatus, event_contacts: Nat, event_cost: Nat,
        recovered: Nat, journey: JourneyStatus, created_at: Instants,
        plan: MaybePlan, step: MaybeStep, act: ActStatus, due: Nat,
        done: SUBSET Steps, last_contact: MaybeInstant,
        contacts: Nat, retries: Nat, npci: Nat, cost: Nat, polls: Nat,
        entry: MaybeEntry]

\* Every row holds what its columns say.
TypeOK ==
    /\ now \in Instants
    /\ \A rows \in {db.rows, saved.rows} : rows \in [Events -> Row]
    /\ \A m \in {db.mandate, saved.mandate} :
          m.attempts_used \in Nat /\ m.last_pdn_sent_at \in Int \cup {None}
    /\ phase \in {"idle", "scan", "tick"}
    /\ todo \subseteq Events

\* Every presentation and every contact that was made is counted exactly
\* once: in the mandate as in the journeys, in the events as in the
\* journeys, and what a cycle that raised had done is all that is missing.
EffectsAreCounted ==
    /\ saved.mandate.attempts_used =
          saved.mandate.seeded + Sum([e \in Events |-> saved.rows[e].npci])
    /\ \A e \in Events : saved.rows[e].event_contacts = saved.rows[e].contacts
    /\ phase = "idle" =>
          /\ world.presented - world.undone =
                saved.mandate.attempts_used - saved.mandate.seeded
          /\ world.contacted - world.unsaid =
                Sum([e \in Events |-> saved.rows[e].contacts])

\* "Hard 4-attempt ledger" (README.md:17): although only the scan asks the
\* mandate, and the check before execution asks the journey, a mandate is not
\* charged past its limit, save once for each journey that was opened beside
\* an open one.
AttemptsKeepLimit ==
    saved.mandate.attempts_used <= npci_max_attempts + world.overlaps

Presents(e) ==
    /\ world'.presented # world.presented
    /\ e \in todo /\ e \notin todo'

\* A presentation follows the last notice by pdn_lead_hours, although the
\* check before it does not know of the notice, unless the notice was sent
\* after its journey was planned (README.md:17, "PDN 24h precondition").
NoticeLeads ==
    [][\A e \in Events : Presents(e) =>
          LET sent == db.mandate.last_pdn_sent_at
          IN  \/ sent = None
              \/ pdn_satisfied(sent)
              \/ sent >= db.rows[e].created_at]_vars

\* Nothing is presented between 10:00 and 13:00 and nobody contacted between
\* 21:30 and 8:30, Indian time, whatever was planned when: both are asked
\* again when a step runs.  The quiet hours are meant to begin at 21:00 and
\* to end at 8:00 (models/policy.py), but the minutes are not looked at.
HoursAreKept ==
    [][/\ world'.presented # world.presented => Ist(now) \notin 40..51
       /\ world'.contacted # world.contacted => Ist(now) \in 34..85]_vars

\* What the actions that ran have cost.
Ran(r) ==
    LET cost == [i \in r.done |-> INTERVENTIONS[r.plan[i]].cost_paise]
    IN  MapThenSumSet(LAMBDA i : cost[i], r.done)

\* The ledger and the rows of event and journey tell the same story of a
\* recovery: gross with the discount is the amount, the discount is no
\* revenue and is a cost, and the cost of the rows is that of the ledger and
\* of every action that ran, so that the one that recovered is in it twice.
LedgerAgreesWithRows ==
    \A e \in Events :
        LET r == saved.rows[e]
        IN  /\ r.entry # None <=> r.event = "RECOVERED"
            /\ r.event_cost = r.cost
            /\ r.entry = None => r.cost = Ran(r)
            /\ r.entry # None =>
                  /\ r.entry.gross = r.recovered
                  /\ r.entry.gross + discount_paise(e, r) = Amount[e]
                  /\ r.entry.organic <= r.entry.gross
                  /\ r.cost = Ran(r) + r.entry.cost

\* The committed rows and the ledger implement what EventFate promises, by
\* the clock and with overlapping journeys as without: no transaction takes
\* an outcome back, and what is in the ledger is what recovered
\* (orchestrator.scan and tick, verifier._book, ledger.book_recovery).
Fate == INSTANCE EventFate WITH
            Control <- {},
            fate <- [e \in Events |-> saved.rows[e].event],
            ledger <- {e \in Events : saved.rows[e].entry # None}
FateSpec == Fate!Spec

-----------------------------------------------------------------------------
(* The inductive invariant of the proofs.                                  *)

Mandates == [seeded: Nat, attempts_used: Nat,
             last_pdn_sent_at: Int \cup {None}]
Database == [rows: [Events -> Row], mandate: Mandates]

\* A row at rest: untouched, suppressed, on its way through the plan, or
\* closed, and what is known of it then.
Untouched(r) == [r EXCEPT !.event = "AT_RISK"] = NewRow

Progress(r) ==
    /\ r.plan \in Plans /\ r.step \in DOMAIN r.plan
    /\ r.done \subseteq 1..r.step
    /\ r.due >= Start
    /\ r.event_contacts = r.contacts /\ r.event_cost = r.cost

Running(r) ==
    /\ Progress(r)
    /\ r.event = "IN_RECOVERY" /\ r.entry = None /\ r.cost = Ran(r)

Booked(e, r) ==
    /\ r.event = "RECOVERED" /\ r.entry # None
    /\ r.entry.gross = r.recovered
    /\ r.entry.gross + discount_paise(e, r) = Amount[e]
    /\ r.entry.organic <= r.entry.gross
    /\ r.cost = Ran(r) + r.entry.cost

RowInv(e, r) ==
    CASE r.journey = "NONE" ->
           r.event \in {"AT_RISK", "SUPPRESSED"} /\ Untouched(r)
      [] r.journey = "PLANNED" ->
           /\ Running(r) /\ r.step \notin r.done
           /\ r.act \in {"PLANNED", "BLOCKED"}
      [] r.journey = "VERIFYING" -> Running(r) /\ r.act = "EXECUTING"
      [] r.journey = "CLOSED" ->
           /\ Progress(r)
           /\ \/ r.event = "LOST" /\ r.entry = None /\ r.cost = Ran(r)
              \/ Booked(e, r)

\* The journey may still present: the retry of its plan is ahead of it.
MayPresent(r) ==
    /\ Open(r)
    /\ \E i \in DOMAIN r.plan :
          /\ r.plan[i] = "RETRY_PAYMENT"
          /\ i > r.step \/ (i = r.step /\ r.act = "PLANNED")

Presenting(d) == {e \in Events : MayPresent(d.rows[e])}

\* The journey was planned in full view of the last notice, or before it.
Noticed(sent, r) ==
    \/ sent = None
    \/ sent >= r.created_at
    \/ r.created_at - sent >= 4 * pdn_lead_hours

\* What is true of rows and mandate at t with n overlaps, as the session sees
\* them and as committed.  Each journey that may still present has an attempt
\* in reserve, save those that were opened beside an open one.
DbInv(d, t, n) ==
    /\ d \in Database
    /\ \A e \in Events :
          RowInv(e, d.rows[e]) /\ d.rows[e].created_at <= t
    /\ d.mandate.attempts_used =
          d.mandate.seeded + Sum([e \in Events |-> d.rows[e].npci])
    /\ d.mandate.attempts_used + Cardinality(Presenting(d))
          <= npci_max_attempts + n
    /\ \A e \in Presenting(d) :
          Noticed(d.mandate.last_pdn_sent_at, d.rows[e])

Worlds == [presented: Nat, contacted: Nat, undone: Int, unsaid: Int,
           overlaps: Nat, rollbacks: Nat, outages: Nat]

WorldInv ==
    /\ world \in Worlds
    /\ db.mandate.seeded = saved.mandate.seeded
    /\ world.presented - world.undone =
          db.mandate.attempts_used - db.mandate.seeded
    /\ world.contacted - world.unsaid =
          Sum([e \in Events |-> db.rows[e].contacts])

MandateInv ==
    /\ now \in Instants
    /\ phase \in {"idle", "scan", "tick"}
    /\ todo \subseteq Events
    /\ WorldInv
    /\ \A d \in {db, saved} : DbInv(d, now, world.overlaps)
    /\ phase = "idle" => db = saved
    /\ phase = "scan" => \A e \in todo : db.rows[e].event = "AT_RISK"
    /\ phase = "tick" => \A e \in todo : Open(db.rows[e])
=============================================================================

------------------------------ MODULE Recovery ------------------------------
(***************************************************************************)
(* The recovery loop: services/orchestrator.py with the executor and the   *)
(* verifier it drives, the customer lock of services/idempotency.py, and   *)
(* the transaction workers/scheduler.py wraps around a cycle.              *)
(*                                                                         *)
(* An event never returns to AT_RISK, so it has at most one journey in its *)
(* life and the row of the event, of its journey and of the journey's      *)
(* actions are one record, db[e].  db is what the worker's open session    *)
(* sees, saved is what is committed; they differ only while a cycle runs,  *)
(* and an exception anywhere in the cycle puts db back to saved.  The      *)
(* customer lock (key store) and the gateway are outside the transaction.  *)
(*                                                                         *)
(* A cycle is taken apart into one step per event or journey it handles.   *)
(* Requests of the API are single transactions and are placed between      *)
(* cycles.                                                                 *)
(***************************************************************************)
EXTENDS PolicyGate, JourneyStates, Sequences, FiniteSets

CONSTANTS
    Events,         \* revenue events, and so the journeys they may open
    Customers,
    CustomerOf,     \* [Events -> Customers]
    Control,        \* the events of the control cohort
    AmountOf,       \* [Events -> Nat], by which scan orders the events
    HighValue,      \* events whose amount is at the approval threshold
    CauseOf,        \* [Events -> CauseClass]
    OptedOut,       \* customers who refuse contact
    Plans,          \* the plans build_plan can return
    MaxSteps,       \* the length of the longest of them
    GateEnvs,       \* the clock and route facts a gate check can meet
    ScanLimit,      \* events one scan takes, journeys one tick advances
    TickLimit,
    HumanOps,       \* the API operations that may be called
    Faults          \* the failures that may happen

Free == "FREE"

GateEnv == [cooldown: BOOLEAN, quiet: BOOLEAN, peak: BOOLEAN,
            degraded: BOOLEAN]

AllHumanOps == {"approve", "reject", "pause", "resume", "stop",
                "kill_switch", "patch_policy"}

AllFaults == {"fetch_state_raises", "lock_expires", "restart"}

ASSUME RecoveryConstants ==
    /\ CustomerOf \in [Events -> Customers]
    /\ Control \subseteq Events
    /\ AmountOf \in [Events -> Nat]
    /\ HighValue \subseteq Events
    /\ \A e \in HighValue, x \in Events \ HighValue : AmountOf[e] > AmountOf[x]
    /\ ScanLimit \in Nat \ {0} /\ TickLimit \in Nat \ {0}
    /\ CauseOf \in [Events -> CauseClass]
    /\ OptedOut \subseteq Customers
    /\ MaxSteps \in Nat \ {0}
    /\ Plans \subseteq Seq(ActionType \ {"DO_NOTHING"})
    /\ \A p \in Plans : Len(p) \in 1..MaxSteps
    /\ GateEnvs \subseteq GateEnv
    /\ HumanOps \subseteq AllHumanOps
    /\ Faults \subseteq AllFaults
    /\ Free \notin Events

VARIABLES
    db,       \* [Events -> Row], the rows as the open session sees them
    saved,    \* [Events -> Row], the rows as last committed
    policy,   \* the active policy row
    phase,    \* what the worker is doing
    todo,     \* the events or journeys the current loop has left to handle
    lock,     \* [Customers -> Events \cup {Free}], the key store
    calls,    \* gateway.execute calls per action, 2 standing for "again"
    lost      \* history: customers whose lock was taken from a journey

vars == <<db, saved, policy, phase, todo, lock, calls, lost>>

Steps  == 1..MaxSteps
Budget == {"contact", "retry", "discount", "voice"}
When   == {"NONE", "LATER", "DUE"}
Phase  == {"idle", "scan", "tick", "settle", "expire"}

(***************************************************************************)
(* step counts from 1 where step_index counts from 0.  next and sched are  *)
(* next_action_at and the last action's scheduled_at relative to now; aged *)
(* is past the journey TTL (past the settling time for a control event).   *)
(***************************************************************************)
Row == [event:  EventStatus,
        state:  JourneyState \cup {NO_JOURNEY},
        plan:   Plans \cup {<<>>},
        step:   0..MaxSteps,
        acts:   [Steps -> ActionStatus \cup {"NONE"}],
        sched:  {"LATER", "DUE"},
        next:   When,
        aged:   BOOLEAN,
        used:   [Budget -> Nat],
        booked: Nat]

\* A freshly ingested event.
NewRow == [event |-> "AT_RISK", state |-> NO_JOURNEY, plan |-> <<>>,
           step |-> 0, acts |-> [i \in Steps |-> "NONE"], sched |-> "DUE",
           next |-> "NONE", aged |-> FALSE,
           used |-> [b \in Budget |-> 0], booked |-> 0]

IsOpen(r) == is_open(r.state)

Init ==
    /\ db = [e \in Events |-> NewRow]
    /\ saved = db
    /\ policy = [enabled |-> TRUE, paused |-> FALSE, threshold |-> TRUE]
    /\ phase = "idle"
    /\ todo = {}
    /\ lock = [c \in Customers |-> Free]
    /\ calls = [e \in Events |-> [i \in Steps |-> 0]]
    /\ lost = {}

-----------------------------------------------------------------------------
(* What the handlers do to one row.                                        *)

\* transition(): a move into a terminal state clears next_action_at, unless
\* the journey is in that state already.
Move(r, target) ==
    [r EXCEPT !.state = target,
              !.next = IF target \in TERMINAL_JOURNEY_STATES \ {r.state}
                       THEN "NONE" ELSE r.next]

MayMoveTo(r, target) == MayMove(r.state, target)

\* (mutant) A journey is left in the terminal state it ended in.
Close_forgotten(r) == r

Close(r) == Move(r, "CLOSED")

SetAction(r, status) == [r EXCEPT !.acts[r.step] = status]

\* The last action of the journey, journey.actions[-1].
Action(r) == r.plan[r.step]
Status(r) == r.acts[r.step]

\* What _context and scan hand to the policy engine for step i.  Only the
\* step the decision was made for has a discount percentage.
GateFor(e, r, i, env, pdn) ==
    [enabled |-> policy.enabled,
     paused |-> policy.paused \/ r.state = "PAUSED",
     recovered |-> r.event = "RECOVERED",
     opted_out |-> CustomerOf[e] \in OptedOut,
     contacts |-> r.used["contact"], retries |-> r.used["retry"],
     npci |-> r.used["retry"], discounts |-> r.used["discount"],
     voice |-> r.used["voice"],
     cooldown |-> env.cooldown /\ r.used["contact"] > 0,
     quiet |-> env.quiet, peak |-> env.peak, degraded |-> env.degraded,
     cause |-> CauseOf[e], pdn |-> pdn,
     large |-> e \in HighValue /\ policy.threshold,
     large_voice |-> e \in HighValue /\ policy.threshold,
     large_discount |-> i = 1 /\ e \in HighValue /\ policy.threshold]

\* _context never carries pdn_sent_at.
Verdict(e, r, i, env) == evaluate(r.plan[i], GateFor(e, r, i, env, "NONE"))

\* _schedule_step: the row after action number i was added under verdict v.
\* The delay of a step is zero or some minutes.
ScheduleStep(r, i, v, delay) ==
    LET s == [r EXCEPT !.step = i, !.sched = delay, !.next = delay]
    IN  CASE v = "ALLOW" -> SetAction(s, "PLANNED")
          [] v = "BLOCK" -> [SetAction(s, "BLOCKED") EXCEPT !.next = "DUE"]
          [] v = "REQUIRE_APPROVAL" ->
                 Move(SetAction(s, "AWAITING_APPROVAL"), "AWAITING_APPROVAL")

\* (mutant) Spending is counted the wrong way round.
Consume_refunds(used, action) ==
    [b \in Budget |-> IF b = "contact" THEN used[b] - 1 ELSE used[b]]

\* _consume_budget.
Consume(used, action) ==
    [b \in Budget |->
        IF \/ b = "contact"  /\ consumes_contact(action)
           \/ b = "retry"    /\ action = "RETRY_PAYMENT"
           \/ b = "discount" /\ action = "DISCOUNT"
           \/ b = "voice"    /\ action = "VOICE"
        THEN used[b] + 1 ELSE used[b]]

\* (mutant) The journey is not moved on to VERIFYING.
Executed_unverified(r) ==
    [Move(SetAction(r, "EXECUTING"), "EXECUTING")
        EXCEPT !.used = Consume(r.used, Action(r))]

\* The row while the verifier looks at an executed action: the budgets are
\* spent and the journey is VERIFYING.
Executed(r) ==
    [Move(SetAction(r, "EXECUTING"), "VERIFYING")
        EXCEPT !.used = Consume(r.used, Action(r))]

\* (mutant) The recovery is not entered in the ledger.
Recover_unbooked(r) ==
    Close(Move([SetAction(r, "SUCCEEDED") EXCEPT !.event = "RECOVERED"],
               "RECOVERED"))

\* Verifier._book, RECOVERED and _close.
Recover(r) ==
    Close(Move([SetAction(r, "SUCCEEDED") EXCEPT !.event = "RECOVERED",
                                                 !.booked = r.booked + 1],
               "RECOVERED"))

-----------------------------------------------------------------------------
(* Ending a transaction.                                                   *)

Handle(e, r) ==
    /\ db' = [db EXCEPT ![e] = r]
    /\ todo' = todo \ {e}

\* (mutants) The lock is set whoever holds it; it is never given back.
claim_customer_always(e) == TRUE
release_customer_forgotten(e) == UNCHANGED lock

\* claim_customer, which sets the key only if it is absent.
claim_customer(e) == lock[CustomerOf[e]] = Free

release_customer(e) == lock' = [lock EXCEPT ![CustomerOf[e]] = Free]

\* The session is rolled back.  A lock released for a journey this cycle had
\* closed is not taken back, although the journey is open again.
Rollback ==
    /\ db' = saved
    /\ phase' = "idle"
    /\ todo' = {}
    /\ lost' = lost \cup {CustomerOf[e] : e \in
                  {x \in Events : IsOpen(saved[x]) /\ ~IsOpen(db[x])}}

Raise == Rollback /\ UNCHANGED <<saved, policy, lock>>

Commit == saved' = db' /\ phase' = "idle" /\ todo' = {}

\* One API request: a transaction of its own that changes one row.
Request(op, e, r) ==
    /\ op \in HumanOps
    /\ phase = "idle"
    /\ db' = [db EXCEPT ![e] = r]
    /\ Commit
-----------------------------------------------------------------------------
(* scan: one step per unclaimed event.                                     *)

\* (mutants) Any event without an open journey; the holdout is not asked for.
Unclaimed_any(e) == ~IsOpen(db[e])
HeldOut_ignored(e) == FALSE

HeldOut(e) == e \in Control

Unclaimed(e) == db[e].event = "AT_RISK" /\ ~IsOpen(db[e])

\* What a query with a LIMIT may return of its matches.
Limited(matches, limit) ==
    {s \in SUBSET matches :
        Cardinality(s) = IF Cardinality(matches) < limit
                         THEN Cardinality(matches) ELSE limit}

\* _unclaimed_events: the largest amounts come first.
BeginScan ==
    LET unclaimed == {e \in Events : Unclaimed(e)} IN
    /\ phase = "idle"
    /\ phase' = "scan"
    /\ todo' \in {s \in Limited(unclaimed, ScanLimit) :
                   \A e \in s, x \in unclaimed \ s :
                       AmountOf[e] >= AmountOf[x]}
    /\ UNCHANGED <<db, saved, policy, lock, calls, lost>>

\* The sentinel finds the event not worth pursuing, no option is worth its
\* cost, or the guardrails block the chosen one: the event is SUPPRESSED.
ScanSuppresses(e) ==
    /\ phase = "scan" /\ e \in todo
    /\ Handle(e, [db[e] EXCEPT !.event = "SUPPRESSED"])
    /\ UNCHANGED <<saved, policy, phase, lock, calls, lost>>

\* A control event is held out, an event whose customer is owned collides.
ScanLeaves(e) ==
    /\ phase = "scan" /\ e \in todo
    /\ HeldOut(e) \/ ~claim_customer(e)
    /\ Handle(e, db[e])
    /\ UNCHANGED <<saved, policy, phase, lock, calls, lost>>

\* _start_journey: DETECTED, ANALYZING, PLANNED and the first step.  The
\* claim under "pending" and the one under the journey's id are one step.
StartJourney(e) ==
    /\ phase = "scan" /\ e \in todo
    /\ ~HeldOut(e)
    /\ claim_customer(e)
    /\ \E p \in Plans, env \in GateEnvs, pdn \in PdnClass :
         LET v == evaluate(p[1], GateFor(e, db[e], 1, env, pdn))
             r == [NewRow EXCEPT !.event = "IN_RECOVERY",
                                 !.state = "PLANNED", !.plan = p]
         IN  /\ v # "BLOCK"
             /\ \E delay \in {"LATER", "DUE"} :
                   Handle(e, ScheduleStep(r, 1, v, delay))
    /\ lock' = [lock EXCEPT ![CustomerOf[e]] = e]
    /\ UNCHANGED <<saved, policy, phase, calls, lost>>

\* /ops/scan commits here, run_once goes on to the tick.
CommitScan ==
    /\ phase = "scan" /\ todo = {}
    /\ db' = db
    /\ Commit
    /\ UNCHANGED <<policy, lock, calls, lost>>

-----------------------------------------------------------------------------
(* tick: one step per due journey.                                         *)

IsDue(r) == IsOpen(r) /\ r.next = "DUE"

\* run_once after its scan, or /ops/tick.  _due_journeys takes the instants
\* that passed first, which the model does not order.
BeginTick ==
    /\ phase \in {"idle", "scan"} /\ todo = {}
    /\ policy.enabled
    /\ phase' = "tick"
    /\ todo' \in Limited({e \in Events : IsDue(db[e])}, TickLimit)
    /\ UNCHANGED <<db, saved, policy, lock, calls, lost>>

\* _next_step_or_close.  ctx is the row the context was built from, before
\* the step that led here.
NextStepOrClose(e, ctx, r) ==
    LET i == r.step + 1 IN
    \/ /\ i <= Len(r.plan)
       /\ MayMoveTo(r, "PLANNED")
       /\ \E env \in GateEnvs, delay \in {"LATER", "DUE"} :
            Handle(e, ScheduleStep(Move(r, "PLANNED"), i,
                                   Verdict(e, ctx, i, env), delay))
       /\ UNCHANGED <<saved, policy, phase, lock, lost>>
    \/ /\ i > Len(r.plan)
       /\ MayMoveTo(r, "FAILED")
       /\ Handle(e, Close(Move([r EXCEPT !.event = "LOST"], "FAILED")))
       /\ release_customer(e)
       /\ UNCHANGED <<saved, policy, phase, lost>>
    \/ /\ ~MayMoveTo(r, IF i <= Len(r.plan) THEN "PLANNED" ELSE "FAILED")
       /\ Raise

Advancing(e) == phase = "tick" /\ e \in todo

\* The action waits for a human, not for the clock.
AdvanceWaits(e) ==
    /\ Advancing(e)
    /\ Status(db[e]) = "AWAITING_APPROVAL"
    /\ Handle(e, [db[e] EXCEPT !.next = "NONE"])
    /\ UNCHANGED <<saved, policy, phase, lock, calls, lost>>

\* The action was blocked when it was scheduled.
AdvanceBlocked(e) ==
    /\ Advancing(e)
    /\ Status(db[e]) = "BLOCKED"
    /\ NextStepOrClose(e, db[e], db[e])
    /\ UNCHANGED calls

Runnable(r) == Status(r) \in {"PLANNED", "APPROVED"}

\* The journey is due before its action is.
AdvanceEarly(e) ==
    /\ Advancing(e)
    /\ Runnable(db[e]) /\ db[e].sched = "LATER"
    /\ Handle(e, [db[e] EXCEPT !.next = "LATER"])
    /\ UNCHANGED <<saved, policy, phase, lock, calls, lost>>

\* _regate asks for approval, whether or not the action has it already.
RegateAsks(e) ==
    LET r == db[e] IN
    /\ Advancing(e)
    /\ Runnable(r) /\ r.sched = "DUE"
    /\ \E env \in GateEnvs :
         Verdict(e, r, r.step, env) = "REQUIRE_APPROVAL"
    /\ \/ /\ MayMoveTo(r, "AWAITING_APPROVAL")
          /\ Handle(e, [Move(SetAction(r, "AWAITING_APPROVAL"),
                             "AWAITING_APPROVAL") EXCEPT !.next = "NONE"])
          /\ UNCHANGED <<saved, policy, phase, lock, lost>>
       \/ /\ ~MayMoveTo(r, "AWAITING_APPROVAL")
          /\ Raise
    /\ UNCHANGED calls

\* _regate blocks.
RegateBlocks(e) ==
    LET r == db[e] IN
    /\ Advancing(e)
    /\ Runnable(r) /\ r.sched = "DUE"
    /\ \E env \in GateEnvs : Verdict(e, r, r.step, env) = "BLOCK"
    /\ NextStepOrClose(e, r, SetAction(r, "BLOCKED"))
    /\ UNCHANGED calls

\* What the gateway answers, an ambiguous answer replaced by what
\* fetch_state then reports: the verifier's three outcomes for row r, whose
\* action is EXECUTING and whose journey is VERIFYING.
Outcome(e, ctx, r) ==
    \/ /\ Handle(e, Recover(r))
       /\ release_customer(e)
       /\ UNCHANGED <<saved, policy, phase, lost>>
    \/ NextStepOrClose(e, ctx, SetAction(r, "FAILED"))
    \/ /\ Handle(e, [r EXCEPT !.next = "LATER"])
       /\ UNCHANGED <<saved, policy, phase, lock, lost>>
    \/ /\ "fetch_state_raises" \in Faults
       /\ Raise

\* _regate allows: the executor calls the gateway.  The reservation of the
\* idempotency key never refuses: the key is derived from the journey and
\* the step, so its owner can only be this very action.
Execute(e) ==
    LET r == db[e]
        i == r.step
    IN
    /\ Advancing(e)
    /\ Runnable(r) /\ r.sched = "DUE"
    /\ \E env \in GateEnvs : Verdict(e, r, r.step, env) = "ALLOW"
    /\ \/ /\ MayMoveTo(r, "EXECUTING")
          /\ calls' = [calls EXCEPT ![e][i] = IF @ = 0 THEN 1 ELSE 2]
          /\ Outcome(e, r, Executed(r))
       \/ /\ ~MayMoveTo(r, "EXECUTING")
          /\ Raise
          /\ UNCHANGED calls

\* The action is neither waiting nor runnable: it is out, and is polled.
Verify(e) ==
    LET r == db[e] IN
    /\ Advancing(e)
    /\ Status(r) = "EXECUTING"
    /\ \/ /\ MayMoveTo(r, "VERIFYING")
          /\ Outcome(e, r, Move(r, "VERIFYING"))
       \/ /\ ~MayMoveTo(r, "VERIFYING")
          /\ Raise
    /\ UNCHANGED calls
-----------------------------------------------------------------------------
(* The rest of the tick: the control cohort, then the journeys past their  *)
(* TTL, then the commit.                                                   *)

\* (mutant) A holdout event that ended already is settled again.
Settleable_again(e) == e \in Control /\ db[e].aged

Settleable(e) ==
    /\ e \in Control
    /\ db[e].event \in {"AT_RISK", "SUPPRESSED"}
    /\ db[e].aged

BeginSettle ==
    /\ phase = "tick" /\ todo = {}
    /\ phase' = "settle"
    /\ todo' = {e \in Events : Settleable(e)}
    /\ UNCHANGED <<db, saved, policy, lock, calls, lost>>

\* _settle_control_cohort: the event ends the way the gateway says it did.
Settle(e) ==
    /\ phase = "settle" /\ e \in todo
    /\ \/ /\ \E outcome \in {"RECOVERED", "LOST"} :
               Handle(e, [db[e] EXCEPT !.event = outcome])
          /\ UNCHANGED <<saved, policy, phase, lock, lost>>
       \/ /\ "fetch_state_raises" \in Faults
          /\ Raise
    /\ UNCHANGED calls

BeginExpire ==
    /\ phase = "settle" /\ todo = {}
    /\ phase' = "expire"
    /\ todo' = {e \in Events : IsOpen(db[e]) /\ db[e].aged}
    /\ UNCHANGED <<db, saved, policy, lock, calls, lost>>

\* _expire_stale.
Expire(e) ==
    LET r == db[e] IN
    /\ phase = "expire" /\ e \in todo
    /\ \/ /\ MayMoveTo(r, "EXPIRED")
          /\ Handle(e, Close(Move([r EXCEPT !.event = "LOST"], "EXPIRED")))
          /\ release_customer(e)
          /\ UNCHANGED <<saved, policy, phase, lost>>
       \/ /\ ~MayMoveTo(r, "EXPIRED")
          /\ Raise
    /\ UNCHANGED calls

CommitTick ==
    /\ phase = "expire" /\ todo = {}
    /\ db' = db
    /\ Commit
    /\ UNCHANGED <<policy, lock, calls, lost>>

-----------------------------------------------------------------------------
(* The API.  A request that raises changes nothing and is left out.        *)

\* approve_action takes the id of any action and looks at no status.
Approve(e, i) ==
    LET r == db[e] IN
    /\ r.acts[i] # "NONE"
    /\ Request("approve", e,
          [r EXCEPT !.acts[i] = "APPROVED",
                    !.sched = IF i = r.step THEN "DUE" ELSE r.sched,
                    !.state = IF r.state = "AWAITING_APPROVAL"
                              THEN "APPROVED" ELSE r.state,
                    !.next = "DUE"])
    /\ UNCHANGED <<policy, lock, calls, lost>>

reject_action(e, i) ==
    LET r == db[e] IN
    /\ r.acts[i] # "NONE"
    /\ MayMoveTo(r, "BLOCKED")
    /\ Request("reject", e,
          Close(Move([r EXCEPT !.acts[i] = "CANCELLED",
                               !.event = "SUPPRESSED"], "BLOCKED")))
    /\ release_customer(e)
    /\ UNCHANGED <<policy, calls, lost>>

HasJourney(r) == r.state # NO_JOURNEY

Pause(e) ==
    LET r == db[e] IN
    /\ HasJourney(r) /\ MayMoveTo(r, "PAUSED")
    /\ Request("pause", e, [Move(r, "PAUSED") EXCEPT !.next = "NONE"])
    /\ UNCHANGED <<policy, lock, calls, lost>>

\* resume_journey does not ask whether the journey is paused.
Resume(e) ==
    LET r == db[e]
        target == IF Status(r) = "APPROVED" THEN "APPROVED" ELSE "PLANNED"
    IN
    /\ HasJourney(r) /\ MayMoveTo(r, target)
    /\ Request("resume", e, [Move(r, target) EXCEPT !.next = "DUE"])
    /\ UNCHANGED <<policy, lock, calls, lost>>

Orphaned(c) == \E x \in Events : CustomerOf[x] = c /\ IsOpen(db[x])

\* close_journey releases the lock of the customer even when the journey was
\* closed before and another one owns the customer now.
Stop(e) ==
    LET r == db[e] IN
    /\ HasJourney(r)
    /\ \/ /\ IsOpen(r) /\ MayMoveTo(r, "BLOCKED")
          /\ Request("stop", e, Close(Move(r, "BLOCKED")))
          /\ UNCHANGED lost
       \/ /\ ~IsOpen(r)
          /\ Request("stop", e, Close(r))
          /\ lost' = IF Orphaned(CustomerOf[e])
                     THEN lost \cup {CustomerOf[e]} ELSE lost
    /\ release_customer(e)
    /\ UNCHANGED <<policy, calls>>

\* (mutant) Turning automation on again makes the open journeys due.
KillSwitch_wakes(on) ==
    /\ "kill_switch" \in HumanOps
    /\ phase = "idle"
    /\ policy' = [policy EXCEPT !.enabled = on]
    /\ db' = [e \in Events |->
                 IF IsOpen(db[e])
                 THEN [db[e] EXCEPT !.next = IF on THEN "DUE" ELSE "NONE"]
                 ELSE db[e]]
    /\ Commit
    /\ UNCHANGED <<lock, calls, lost>>

\* set_kill_switch.
KillSwitch(on) ==
    /\ "kill_switch" \in HumanOps
    /\ phase = "idle"
    /\ policy' = [policy EXCEPT !.enabled = on]
    /\ db' = [e \in Events |->
                 IF IsOpen(db[e]) /\ ~on
                 THEN [db[e] EXCEPT !.next = "NONE"] ELSE db[e]]
    /\ Commit
    /\ UNCHANGED <<lock, calls, lost>>

\* PATCH /policies/active, for the fields the model has.
PatchPolicy ==
    /\ "patch_policy" \in HumanOps
    /\ phase = "idle"
    /\ policy' \in [enabled: BOOLEAN, paused: BOOLEAN, threshold: BOOLEAN]
    /\ db' = db
    /\ Commit
    /\ UNCHANGED <<lock, calls, lost>>

-----------------------------------------------------------------------------
(* Time and failures.                                                      *)

Environment(r, e) ==
    /\ phase = "idle"
    /\ db' = [db EXCEPT ![e] = r]
    /\ Commit
    /\ UNCHANGED <<policy, lock, calls, lost>>

\* The instants a row is waiting for arrive.
TimePasses(e) ==
    LET r == db[e] IN
    /\ "LATER" \in {r.next, r.sched}
    /\ Environment([r EXCEPT !.sched = "DUE",
                             !.next = IF @ = "LATER" THEN "DUE" ELSE @], e)

\* A control event passes CONTROL_SETTLE_HOURS, a journey its TTL.
Age(e) ==
    /\ ~db[e].aged
    /\ e \in Control \/ IsOpen(db[e])
    /\ Environment([db[e] EXCEPT !.aged = TRUE], e)

\* CUSTOMER_LOCK_TTL_SECONDS have passed since the claim.
LockExpires(c) ==
    /\ "lock_expires" \in Faults
    /\ phase = "idle"
    /\ lock[c] # Free
    /\ lock' = [lock EXCEPT ![c] = Free]
    /\ lost' = IF Orphaned(c) THEN lost \cup {c} ELSE lost
    /\ UNCHANGED <<db, saved, policy, phase, todo, calls>>

\* The process dies and comes back with an empty memory key store; the
\* transaction it was in is gone.
Restart ==
    /\ "restart" \in Faults
    /\ db' = saved
    /\ phase' = "idle"
    /\ todo' = {}
    /\ lock' = [c \in Customers |-> Free]
    /\ lost' = lost \cup {CustomerOf[e] : e \in
                             {x \in Events : IsOpen(saved[x])}}
    /\ UNCHANGED <<saved, policy, calls>>

-----------------------------------------------------------------------------
Scan ==
    \/ BeginScan
    \/ \E e \in Events : ScanSuppresses(e) \/ ScanLeaves(e) \/ StartJourney(e)
    \/ CommitScan

Advance(e) ==
    \/ AdvanceWaits(e)
    \/ AdvanceBlocked(e)
    \/ AdvanceEarly(e)
    \/ RegateAsks(e)
    \/ RegateBlocks(e)
    \/ Execute(e)
    \/ Verify(e)

Tick ==
    \/ BeginTick
    \/ \E e \in Events : Advance(e) \/ Settle(e) \/ Expire(e)
    \/ BeginSettle
    \/ BeginExpire
    \/ CommitTick

Human ==
    \/ \E e \in Events, i \in Steps : Approve(e, i) \/ reject_action(e, i)
    \/ \E e \in Events : Pause(e) \/ Resume(e) \/ Stop(e)
    \/ \E on \in BOOLEAN : KillSwitch(on)
    \/ PatchPolicy

World ==
    \/ \E e \in Events : TimePasses(e) \/ Age(e)
    \/ \E c \in Customers : LockExpires(c)
    \/ Restart

Next == Scan \/ Tick \/ Human \/ World

Spec == Init /\ [][Next]_vars
(***************************************************************************)
(* Fairness.  The scheduler runs a scan and a tick every interval,         *)
(* whatever became of the last one, and a cycle, once begun, goes on; the  *)
(* clock advances whatever the worker is doing.  Nothing is assumed of     *)
(* people or faults.                                                       *)
(***************************************************************************)
Fairness ==
    /\ WF_vars(Scan \/ Tick)
    /\ SF_vars(BeginScan) /\ SF_vars(BeginTick)
    /\ \A e \in Events : SF_vars(TimePasses(e)) /\ SF_vars(Age(e))

LiveSpec == Spec /\ Fairness
-----------------------------------------------------------------------------
(* Properties.                                                             *)

\* Every variable holds what its declaration says.
TypeOK ==
    /\ db \in [Events -> Row]
    /\ saved \in [Events -> Row]
    /\ policy \in [enabled: BOOLEAN, paused: BOOLEAN, threshold: BOOLEAN]
    /\ phase \in Phase
    /\ todo \in SUBSET Events
    /\ lock \in [Customers -> Events \cup {Free}]
    /\ calls \in [Events -> [Steps -> 0..2]]
    /\ lost \in SUBSET Customers

\* A journey that is still open holds the lock of its customer, so that no
\* customer is worked on by two journeys, until the key store drops the lock
\* or a stop or a rollback takes it away (orchestrator.py:3-5).
OpenJourneyOwnsCustomer ==
    \A e \in Events : IsOpen(db[e]) /\ CustomerOf[e] \notin lost
                        => lock[CustomerOf[e]] = e

\* A treated event is RECOVERED exactly when one ledger entry was booked for
\* it, whatever was approved, paused, resumed or executed twice on the way
\* (verifier._book, ledger.book_recovery).
RecoveredIffBookedOnce ==
    \A e \in Events \ Control :
        /\ db[e].booked \in {0, 1}
        /\ db[e].event = "RECOVERED" <=> db[e].booked = 1

\* The holdout is never touched: no journey, no gateway call, no booking
\* (scan, tests/test_orchestrator.py:64-67).
ControlUntouched ==
    \A e \in Control : /\ db[e].state = NO_JOURNEY
                       /\ db[e].booked = 0
                       /\ \A i \in Steps : calls[e][i] = 0

WithinLimits(r) ==
    /\ r.used["contact"] <= max_contacts
    /\ r.used["retry"] <= max_retries
    /\ r.used["discount"] <= max_discount_offers
    /\ r.used["voice"] <= max_voice_attempts

\* What a journey has spent of the friction budget stays within the policy
\* although an action may be run again (policy.evaluate, _consume_budget).
WithinBudget == \A e \in Events : WithinLimits(db[e])

Resting == {"PLANNED", "AWAITING_APPROVAL", "APPROVED", "VERIFYING", "PAUSED"}

CanBeAdvanced(r) ==
    /\ r.event = "IN_RECOVERY"
    /\ r.state \in Resting
    /\ Status(r) \in {"PLANNED", "AWAITING_APPROVAL", "APPROVED", "BLOCKED",
                      "EXECUTING"}

\* Between cycles no journey rests in a state that only exists inside a
\* handler, its event is in recovery, and its last action is one the tick
\* knows how to take further (_advance has no branch for the others).
OpenJourneyCanBeAdvanced ==
    \A e \in Events : IsOpen(saved[e]) => CanBeAdvanced(saved[e])

\* The gateway is only ever called for a journey that, as committed, is not
\* paused, while neither the kill switch nor the policy pause is on, for an
\* event that has not recovered (_regate, tick).
CallsAreGated ==
    [][\A e \in Events : calls'[e] # calls[e] =>
          /\ policy.enabled /\ ~policy.paused
          /\ saved[e].state # "PAUSED"
          /\ saved[e].event # "RECOVERED"]_vars

\* A closed journey stays closed, whatever is later asked of its actions
\* (journey.py:16-86, approve_action, resume_journey, close_journey).
ClosedIsFinal ==
    [][\A e \in Events : saved[e].state = "CLOSED" =>
                            saved'[e].state = "CLOSED"]_vars

Halted(r) == IsOpen(r) /\ r.next = "NONE"

\* A journey without an instant stays as it is, whatever becomes of the clock,
\* the worker and the policy, until a person approves or resumes it or it is
\* closed, and its action is not performed.  So journeys the kill switch has
\* halted are not taken up again by switching it back (set_kill_switch), nor
\* is one that waits for an approval or is paused.
HaltedUntilAPersonActs ==
    [][\A e \in Events : Halted(saved[e]) =>
          /\ calls'[e] = calls[e]
          /\ \/ Halted(saved'[e])
             \/ ~IsOpen(saved'[e])
             \/ Resume(e)
             \/ \E i \in Steps : Approve(e, i)]_vars

\* The committed rows implement what EventFate promises: no transaction
\* takes an outcome back, and the ledger is exactly the recovered events.
Fate == INSTANCE EventFate WITH
            fate <- [e \in Events |-> saved[e].event],
            ledger <- {e \in Events : saved[e].booked # 0}
FateSpec == Fate!Spec

\* Every event is decided: recovered, lost or given up (scan, tick, TTL).
EveryEventIsDecided ==
    \A e \in Events :
        <>(saved[e].event \in {"RECOVERED", "LOST", "SUPPRESSED"})

\* No customer is owned for good: an event of a customer that another
\* journey owns is not deferred for ever.
EveryLockIsReleased ==
    \A c \in Customers : lock[c] # Free ~> lock[c] = Free

-----------------------------------------------------------------------------
(* What the documentation says and the code does not do.                   *)

\* "At most one open journey may own a customer" (models/journey.py:20).
OneOpenJourney ==
    \A e, x \in Events :
        IsOpen(saved[e]) /\ IsOpen(saved[x]) /\ CustomerOf[e] = CustomerOf[x]
            => e = x

\* "Performs an approved action exactly once" (executor.py:1).
PerformedAtMostOnce ==
    \A e \in Events, i \in Steps : calls[e][i] <= 1

\* "Performs an approved action exactly once" (executor.py:1): what is
\* approved while its journey is open is performed.
ApprovedIsPerformed ==
    \A e \in Events, i \in Steps :
        (saved[e].acts[i] = "APPROVED" /\ IsOpen(saved[e])) ~>
            calls[e][i] > 0

\* "Due steps are executed" (docs/architecture.md:45): a due journey does not
\* stay due for ever.
DueIsHandled ==
    \A e \in Events : IsDue(saved[e]) ~> ~IsDue(saved[e])

-----------------------------------------------------------------------------
(***************************************************************************)
(* The inductive invariant.  RowInv is what is true of a row at rest, in   *)
(* the session and as committed; CycleInv ties the two together while a    *)
(* cycle runs.                                                             *)
(***************************************************************************)
RowInv(e, r) ==
    /\ r.state \in Resting \cup {NO_JOURNEY, "CLOSED"}
    /\ r.state = NO_JOURNEY =>
          /\ r.acts = [i \in Steps |-> "NONE"]
          /\ r.booked = 0
          /\ e \in Control \/ r.event \in {"AT_RISK", "SUPPRESSED"}
    /\ r.state # NO_JOURNEY =>
          /\ e \notin Control
          /\ r.plan \in Plans /\ r.step \in 1..Len(r.plan)
          /\ r.event # "AT_RISK"
    /\ IsOpen(r) => CanBeAdvanced(r)
    /\ e \in Control => r.event # "IN_RECOVERY"
    /\ e \notin Control =>
          r.booked = IF r.event = "RECOVERED" THEN 1 ELSE 0
    /\ WithinLimits(r)

\* What a row that is still to be handled in this phase looks like.
Pending(e) ==
    CASE phase = "scan"   -> db[e].event = "AT_RISK"
      [] phase = "tick"   -> IsDue(db[e])
      [] phase = "settle" -> e \in Control
                             /\ db[e].event \in {"AT_RISK", "SUPPRESSED"}
      [] phase = "expire" -> IsOpen(db[e])
      [] OTHER            -> FALSE

CycleInv ==
    /\ phase = "idle" => saved = db /\ todo = {}
    /\ phase = "tick" => policy.enabled
    /\ phase = "scan" =>
          \A e \in Events : db[e] = saved[e] \/ saved[e].event = "AT_RISK"
    /\ phase = "tick" =>
          \A e \in todo : db[e] = saved[e] \/ saved[e].event = "AT_RISK"
    /\ \A e \in todo : Pending(e)
    /\ \A e \in Events :
          /\ db[e].event \in Fate!Later(e, saved[e].event)
          /\ saved[e].state = "CLOSED" => db[e].state = "CLOSED"

IInv ==
    /\ TypeOK
    /\ \A e \in Events : RowInv(e, db[e]) /\ RowInv(e, saved[e])
    /\ CycleInv
    /\ OpenJourneyOwnsCustomer
    /\ \A e \in Control, i \in Steps : calls[e][i] = 0
=============================================================================

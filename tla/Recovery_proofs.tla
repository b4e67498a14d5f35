--------------------------- MODULE Recovery_proofs ---------------------------
(***************************************************************************)
(* Proofs about Recovery for every set of events, customers, plans and     *)
(* limits.  IInv, defined in Recovery, is inductive: the lemmas first say  *)
(* what the operators on one row do to RowInv, then what one handler of a  *)
(* cycle, a rollback and a request do to IInv, and the action-by-action    *)
(* proof only has to find the right lemma.  The last part is about the     *)
(* journeys that are halted, which no cycle wakes.                         *)
(***************************************************************************)
EXTENDS Recovery, TLAPS

\* A row at rest.
RowOK(e, r) == r \in Row /\ RowInv(e, r)

\* A row in the hands of a handler: the journey may be in a passing state.
InHand(e, r) ==
    /\ r \in Row
    /\ e \notin Control
    /\ r.state \in JourneyState
    /\ r.event = "IN_RECOVERY"
    /\ r.booked = 0
    /\ r.plan \in Plans
    /\ r.step \in 1..Len(r.plan)
    /\ WithinLimits(r)

-----------------------------------------------------------------------------
(* The gate.                                                               *)

\* evaluate answers with a verdict.
LEMMA EvaluateType ==
    \A action, g : evaluate(action, g) \in PolicyVerdict
BY DEF evaluate, PolicyVerdict

\* Nothing that a rule blocks is allowed.
LEMMA AllowedIsUnblocked ==
    ASSUME NEW action, action # "DO_NOTHING", NEW g,
           evaluate(action, g) = "ALLOW"
    PROVE  Blocks(action, g) = {}
BY DEF evaluate

\* What ALLOW says of the switches and of the budgets (policy.py:204-232).
LEMMA AllowMeans ==
    ASSUME NEW action, action # "DO_NOTHING", NEW g,
           evaluate(action, g) = "ALLOW"
    PROVE  /\ g.enabled
           /\ ~g.paused
           /\ ~g.recovered
           /\ consumes_contact(action) => ~(g.contacts >= max_contacts)
           /\ action = "RETRY_PAYMENT" => ~(g.retries >= max_retries)
           /\ action = "DISCOUNT" => ~(g.discounts >= max_discount_offers)
           /\ action = "VOICE" => ~(g.voice >= max_voice_attempts)
<1>1. Blocks(action, g) = {}
  BY AllowedIsUnblocked
<1>2. \A rule : rule \notin Blocks(action, g)
  BY <1>1
<1>3. g.enabled
  BY <1>2 DEF Blocks
<1>4. ~g.paused
  BY <1>2 DEF Blocks
<1>5. ~g.recovered
  BY <1>2 DEF Blocks
<1>6. consumes_contact(action) => ~(g.contacts >= max_contacts)
  BY <1>2 DEF Blocks
<1>7. action = "RETRY_PAYMENT" => ~(g.retries >= max_retries)
  BY <1>2 DEF Blocks
<1>8. action = "DISCOUNT" => ~(g.discounts >= max_discount_offers)
  BY <1>2 DEF Blocks
<1>9. action = "VOICE" => ~(g.voice >= max_voice_attempts)
  BY <1>2 DEF Blocks
<1> QED
  BY <1>3, <1>4, <1>5, <1>6, <1>7, <1>8, <1>9
-----------------------------------------------------------------------------
(* One row.                                                                *)

\* An open row at rest is one a handler can take in hand.
LEMMA OpenIsInHand ==
    ASSUME NEW e \in Events, NEW r, RowOK(e, r), IsOpen(r)
    PROVE  InHand(e, r)
<1>1. r.state # NO_JOURNEY /\ r.state \in JourneyState
  BY DEF IsOpen, is_open, NO_JOURNEY, JourneyState
<1>2. CanBeAdvanced(r)
  BY DEF RowOK, RowInv
<1>3. r.event = "IN_RECOVERY"
  BY <1>2 DEF CanBeAdvanced
<1> QED
  BY <1>1, <1>3 DEF RowOK, RowInv, InHand

\* transition() leaves everything but the state and next_action_at alone.
LEMMA MoveInHand ==
    ASSUME NEW e \in Events, NEW r, InHand(e, r), NEW target \in JourneyState
    PROVE  /\ InHand(e, Move(r, target))
           /\ Move(r, target).state = target
           /\ Move(r, target).acts = r.acts
           /\ Move(r, target).step = r.step
           /\ Move(r, target).plan = r.plan
           /\ Move(r, target).event = r.event
           /\ Move(r, target).booked = r.booked
           /\ Move(r, target).used = r.used
<1>1. r \in Row
  BY DEF InHand
<1>2. Move(r, target) \in Row
  BY <1>1 DEF Move, Row, When
<1> QED
  BY <1>1, <1>2 DEF Move, Row, InHand, WithinLimits

\* The steps of a plan are steps of the journey.
LEMMA StepsOfPlan ==
    ASSUME NEW p \in Plans, NEW i \in 1..Len(p)
    PROVE  /\ i \in Steps
           /\ p[i] \in ActionType \ {"DO_NOTHING"}
<1>1. p \in Seq(ActionType \ {"DO_NOTHING"}) /\ Len(p) \in 1..MaxSteps
  BY RecoveryConstants
<1> QED
  BY <1>1, RecoveryConstants DEF Steps

\* Giving the last action a status changes that status only.
LEMMA SetActionInHand ==
    ASSUME NEW e \in Events, NEW r, InHand(e, r), NEW s \in ActionStatus
    PROVE  /\ InHand(e, SetAction(r, s))
           /\ SetAction(r, s).state = r.state
           /\ SetAction(r, s).step = r.step
           /\ SetAction(r, s).plan = r.plan
           /\ Status(SetAction(r, s)) = s
<1>1. r \in Row /\ r.step \in Steps
  BY StepsOfPlan DEF InHand
<1>2. SetAction(r, s) \in Row
  BY <1>1 DEF SetAction, Row
<1> QED
  BY <1>1, <1>2 DEF SetAction, Status, Row, InHand, WithinLimits

\* Whatever the gate said, the row _schedule_step leaves is an open row at
\* rest.
LEMMA ScheduleRests ==
    ASSUME NEW e \in Events, NEW r, InHand(e, r), r.state = "PLANNED",
           NEW i \in 1..Len(r.plan), NEW v \in PolicyVerdict,
           NEW delay \in {"LATER", "DUE"}
    PROVE  /\ RowOK(e, ScheduleStep(r, i, v, delay))
           /\ IsOpen(ScheduleStep(r, i, v, delay))
<1> DEFINE s == [r EXCEPT !.step = i, !.sched = delay, !.next = delay]
<1>1. r \in Row /\ r.plan \in Plans /\ i \in Steps
  BY StepsOfPlan DEF InHand
<1>2. InHand(e, s) /\ s.state = "PLANNED" /\ s.step = i /\ s.plan = r.plan
  <2>1. i \in 0..MaxSteps
    BY <1>1, RecoveryConstants DEF Steps
  <2>2. s \in Row
    BY <1>1, <2>1 DEF Row, When
  <2> QED
    BY <1>1, <2>2 DEF InHand, Row, WithinLimits
<1> HIDE DEF s
<1>3. ASSUME NEW t, InHand(e, t), t.state \in {"PLANNED", "AWAITING_APPROVAL"},
             Status(t) \in {"PLANNED", "BLOCKED", "AWAITING_APPROVAL"}
      PROVE  RowOK(e, t) /\ IsOpen(t)
  BY <1>3 DEF RowOK, RowInv, InHand, IsOpen, is_open, JourneyState, Resting,
              TERMINAL_JOURNEY_STATES, NO_JOURNEY, CanBeAdvanced
<1>4. CASE v = "ALLOW"
  <2>1. ScheduleStep(r, i, v, delay) = SetAction(s, "PLANNED")
    BY <1>4 DEF ScheduleStep, s
  <2>2. "PLANNED" \in ActionStatus
    BY DEF ActionStatus
  <2> QED
    BY <1>2, <1>3, <2>1, <2>2, SetActionInHand
<1>5. CASE v = "BLOCK"
  <2> DEFINE b == SetAction(s, "BLOCKED")
  <2>1. ScheduleStep(r, i, v, delay) = [b EXCEPT !.next = "DUE"]
    BY <1>5 DEF ScheduleStep, s
  <2>2. InHand(e, b) /\ b.state = "PLANNED" /\ Status(b) = "BLOCKED"
    BY <1>2, SetActionInHand DEF ActionStatus
  <2> HIDE DEF b
  <2> DEFINE t == [b EXCEPT !.next = "DUE"]
  <2>3. InHand(e, t) /\ t.state = "PLANNED" /\ Status(t) = "BLOCKED"
    BY <2>2 DEF InHand, Row, When, WithinLimits, Status
  <2> HIDE DEF t
  <2>4. RowOK(e, t) /\ IsOpen(t)
    BY <1>3, <2>3
  <2> QED
    BY <2>1, <2>4 DEF t
<1>6. CASE v = "REQUIRE_APPROVAL"
  <2> DEFINE b == SetAction(s, "AWAITING_APPROVAL")
  <2>1. ScheduleStep(r, i, v, delay) = Move(b, "AWAITING_APPROVAL")
    BY <1>6 DEF ScheduleStep, s
  <2>2. InHand(e, b) /\ Status(b) = "AWAITING_APPROVAL"
    BY <1>2, SetActionInHand DEF ActionStatus
  <2> HIDE DEF b
  <2> DEFINE t == Move(b, "AWAITING_APPROVAL")
  <2>3. /\ InHand(e, t) /\ t.state = "AWAITING_APPROVAL"
        /\ t.acts = b.acts /\ t.step = b.step
    BY <2>2, MoveInHand DEF JourneyState
  <2> HIDE DEF t
  <2>4. Status(t) = "AWAITING_APPROVAL"
    BY <2>2, <2>3 DEF Status
  <2>5. RowOK(e, t) /\ IsOpen(t)
    BY <1>3, <2>3, <2>4
  <2> QED
    BY <2>1, <2>5 DEF t
<1> QED
  BY <1>4, <1>5, <1>6 DEF PolicyVerdict

\* An executed action has been paid for out of a budget that had room for it.
LEMMA ExecutedInHand ==
    ASSUME NEW e \in Events, NEW r, RowOK(e, r), IsOpen(r), NEW env,
           Verdict(e, r, r.step, env) = "ALLOW"
    PROVE  /\ InHand(e, Executed(r))
           /\ Executed(r).state = "VERIFYING"
           /\ Executed(r).plan = r.plan
           /\ Executed(r).step = r.step
           /\ Status(Executed(r)) = "EXECUTING"
           /\ policy.enabled /\ ~policy.paused /\ r.state # "PAUSED"
<1> DEFINE g == GateFor(e, r, r.step, env, "NONE")
           u == Consume(r.used, Action(r))
           m == Move(SetAction(r, "EXECUTING"), "VERIFYING")
<1>1. InHand(e, r) /\ r \in Row /\ r.plan \in Plans /\ r.step \in 1..Len(r.plan)
  BY OpenIsInHand DEF InHand
<1>2. Action(r) # "DO_NOTHING"
  BY <1>1, StepsOfPlan DEF Action
<1>3. evaluate(Action(r), g) = "ALLOW"
  BY DEF Verdict, Action
<1>4. /\ g.enabled /\ ~g.paused
      /\ consumes_contact(Action(r)) => ~(g.contacts >= max_contacts)
      /\ Action(r) = "RETRY_PAYMENT" => ~(g.retries >= max_retries)
      /\ Action(r) = "DISCOUNT" => ~(g.discounts >= max_discount_offers)
      /\ Action(r) = "VOICE" => ~(g.voice >= max_voice_attempts)
  <2> HIDE DEF g
  <2> QED
    BY <1>2, <1>3, AllowMeans
<1>5. /\ g.enabled = policy.enabled
      /\ g.paused = (policy.paused \/ r.state = "PAUSED")
      /\ g.contacts = r.used["contact"] /\ g.retries = r.used["retry"]
      /\ g.discounts = r.used["discount"] /\ g.voice = r.used["voice"]
  BY DEF GateFor
<1> HIDE DEF g
<1>6. r.used \in [Budget -> Nat] /\ WithinLimits(r)
  BY <1>1 DEF InHand, Row
<1>7. u \in [Budget -> Nat]
  BY <1>6 DEF Consume
<1>8. /\ u["contact"] <= max_contacts
      /\ u["retry"] <= max_retries
      /\ u["discount"] <= max_discount_offers
      /\ u["voice"] <= max_voice_attempts
  BY <1>4, <1>5, <1>6, PolicyLimits DEF Consume, WithinLimits, Budget
<1>9. /\ InHand(e, m) /\ m.state = "VERIFYING" /\ m.plan = r.plan
      /\ m.step = r.step /\ Status(m) = "EXECUTING"
  <2>1. /\ InHand(e, SetAction(r, "EXECUTING"))
        /\ SetAction(r, "EXECUTING").step = r.step
        /\ SetAction(r, "EXECUTING").plan = r.plan
        /\ Status(SetAction(r, "EXECUTING")) = "EXECUTING"
    BY <1>1, SetActionInHand DEF ActionStatus
  <2>2. "VERIFYING" \in JourneyState
    BY DEF JourneyState
  <2> QED
    BY <2>1, <2>2, MoveInHand DEF Status
<1>10. Executed(r) = [m EXCEPT !.used = u]
  BY DEF Executed
<1> HIDE DEF m, u
<1> DEFINE x == [m EXCEPT !.used = u]
<1>11. /\ x \in Row /\ x.used = u
       /\ x.state = m.state /\ x.event = m.event /\ x.booked = m.booked
       /\ x.plan = m.plan /\ x.step = m.step /\ x.acts = m.acts
  BY <1>7, <1>9 DEF InHand, Row
<1> HIDE DEF x
<1>12. InHand(e, x)
  BY <1>8, <1>9, <1>11 DEF InHand, WithinLimits
<1>13. Status(x) = "EXECUTING"
  BY <1>9, <1>11 DEF Status
<1> QED
  BY <1>4, <1>5, <1>9, <1>10, <1>11, <1>12, <1>13 DEF x

\* Verifier._book and _close leave a closed, recovered row with one entry.
LEMMA RecoverRests ==
    ASSUME NEW e \in Events, NEW r, InHand(e, r)
    PROVE  /\ RowOK(e, Recover(r))
           /\ Recover(r).state = "CLOSED"
           /\ Recover(r).event = "RECOVERED"
<1> DEFINE s == SetAction(r, "SUCCEEDED")
           b == [s EXCEPT !.event = "RECOVERED", !.booked = r.booked + 1]
<1>1. InHand(e, s)
  BY SetActionInHand DEF ActionStatus
<1> HIDE DEF s
<1>2. /\ b \in Row /\ b.event = "RECOVERED" /\ b.booked = 1
      /\ b.plan \in Plans /\ b.step \in 1..Len(b.plan) /\ WithinLimits(b)
  <2>1. r.booked + 1 = 1
    BY DEF InHand
  <2>2. b = [s EXCEPT !.event = "RECOVERED", !.booked = 1]
    BY <2>1
  <2> HIDE DEF b
  <2>3. s \in Row
    BY <1>1 DEF InHand
  <2>4. b \in Row
    BY <2>2, <2>3 DEF Row, EventStatus
  <2>5. /\ b.event = "RECOVERED" /\ b.booked = 1 /\ b.plan = s.plan
        /\ b.step = s.step /\ b.used = s.used
    BY <2>2, <2>3 DEF Row
  <2> QED
    BY <1>1, <2>4, <2>5 DEF InHand, WithinLimits
<1>3. Recover(r) = Close(Move(b, "RECOVERED"))
  BY DEF Recover, s
<1> HIDE DEF b
<1> DEFINE c == Close(Move(b, "RECOVERED"))
<1>4. /\ c \in Row /\ c.state = "CLOSED" /\ c.event = b.event
      /\ c.booked = b.booked /\ c.plan = b.plan /\ c.step = b.step
      /\ c.used = b.used
  BY <1>2 DEF Close, Move, Row, When, JourneyState
<1> HIDE DEF c
<1>5. e \notin Control
  BY DEF InHand
<1>6. RowOK(e, c)
  BY <1>2, <1>4, <1>5 DEF RowOK, RowInv, Resting, NO_JOURNEY, IsOpen, is_open,
                         TERMINAL_JOURNEY_STATES, WithinLimits
<1> QED
  BY <1>2, <1>3, <1>4, <1>6 DEF c

Ended(r, outcome, target) == Close(Move([r EXCEPT !.event = outcome], target))

\* A row that is closed as lost, or rejected, is at rest.
LEMMA EndRests ==
    ASSUME NEW e \in Events, NEW r, InHand(e, r),
           NEW outcome \in {"LOST", "SUPPRESSED", "IN_RECOVERY"},
           NEW target \in JourneyState
    PROVE  /\ RowOK(e, Ended(r, outcome, target))
           /\ Ended(r, outcome, target).state = "CLOSED"
           /\ Ended(r, outcome, target).event = outcome
<1> DEFINE b == [r EXCEPT !.event = outcome]
           c == Close(Move(b, target))
<1>1. /\ b \in Row /\ b.event = outcome /\ b.booked = 0
      /\ b.plan \in Plans /\ b.step \in 1..Len(b.plan) /\ WithinLimits(b)
  BY DEF InHand, Row, EventStatus, WithinLimits
<1> HIDE DEF b
<1>2. /\ c \in Row /\ c.state = "CLOSED" /\ c.event = b.event
      /\ c.booked = b.booked /\ c.plan = b.plan /\ c.step = b.step
      /\ c.used = b.used
  BY <1>1 DEF Close, Move, Row, When, JourneyState
<1> HIDE DEF c
<1>3. e \notin Control
  BY DEF InHand
<1>4. RowOK(e, c)
  BY <1>1, <1>2, <1>3 DEF RowOK, RowInv, Resting, NO_JOURNEY, IsOpen, is_open,
                         TERMINAL_JOURNEY_STATES, WithinLimits
<1> QED
  BY <1>1, <1>2, <1>4 DEF b, c, Ended
-----------------------------------------------------------------------------
(* The order of an event's statuses.                                       *)

\* Two moves forward are a move forward.
LEMMA LaterTransitive ==
    ASSUME NEW e, NEW s, NEW t, NEW u,
           t \in Fate!Later(e, s), u \in Fate!Later(e, t)
    PROVE  u \in Fate!Later(e, s)
BY DEF Fate!Later, Fate!EventSettled, Fate!EventStatus

\* No event comes back to AT_RISK, nor a holdout event into recovery.
LEMMA AtRiskIsFirst ==
    ASSUME NEW e, NEW s, "AT_RISK" \in Fate!Later(e, s)
    PROVE  s = "AT_RISK"
BY DEF Fate!Later, Fate!EventSettled, Fate!EventStatus

LEMMA LaterReflexive ==
    \A e, s : s \in Fate!Later(e, s)
BY DEF Fate!Later

-----------------------------------------------------------------------------
(* The lock.                                                               *)

\* A handler that opens no journey may leave the lock alone.
LEMMA LockKept ==
    ASSUME IInv, NEW e \in Events, NEW r, db' = [db EXCEPT ![e] = r],
           IsOpen(r) => IsOpen(db[e]),
           UNCHANGED lock, lost \subseteq lost'
    PROVE  OpenJourneyOwnsCustomer'
<1>1. db \in [Events -> Row] /\ OpenJourneyOwnsCustomer
  BY DEF IInv, TypeOK
<1>2. \A x \in Events : IsOpen(db'[x]) => IsOpen(db[x])
  BY <1>1
<1> QED
  BY <1>1, <1>2 DEF OpenJourneyOwnsCustomer

\* A handler that closes an open journey may release its customer: if the
\* customer's lock was never lost, it was this journey that held it.
LEMMA LockReleased ==
    ASSUME IInv, NEW e \in Events, NEW r, db' = [db EXCEPT ![e] = r],
           IsOpen(db[e]), ~IsOpen(r),
           release_customer(e), lost \subseteq lost'
    PROVE  /\ lock' \in [Customers -> Events \cup {Free}]
           /\ OpenJourneyOwnsCustomer'
<1>1. /\ db \in [Events -> Row] /\ OpenJourneyOwnsCustomer
      /\ lock \in [Customers -> Events \cup {Free}]
      /\ CustomerOf \in [Events -> Customers]
  BY RecoveryConstants DEF IInv, TypeOK
<1>2. lock' \in [Customers -> Events \cup {Free}]
  BY <1>1 DEF release_customer
<1>3. ASSUME NEW x \in Events, IsOpen(db'[x]), CustomerOf[x] \notin lost'
      PROVE  lock'[CustomerOf[x]] = x
  <2>1. x # e /\ IsOpen(db[x])
    BY <1>1, <1>3
  <2>2. lock[CustomerOf[x]] = x
    BY <1>1, <1>3, <2>1 DEF OpenJourneyOwnsCustomer
  <2>3. CustomerOf[x] # CustomerOf[e]
    BY <1>1, <1>3, <2>1, <2>2 DEF OpenJourneyOwnsCustomer
  <2> QED
    BY <1>1, <2>2, <2>3 DEF release_customer
<1> QED
  BY <1>2, <1>3 DEF OpenJourneyOwnsCustomer

-----------------------------------------------------------------------------
(* What one handler, a rollback and a request do to the invariant.         *)

\* A row still to be handled was not closed when it was committed.
LEMMA PendingWasNotClosed ==
    ASSUME IInv, NEW e \in todo
    PROVE  /\ e \in Events
           /\ db[e].state # "CLOSED"
           /\ saved[e].state # "CLOSED"
           /\ phase # "idle"
<1>1. e \in Events /\ phase \in Phase
  BY DEF IInv, TypeOK
<1>2. Pending(e) /\ RowInv(e, db[e]) /\ phase # "idle"
  BY <1>1 DEF IInv, CycleInv
<1>3. db[e].state # "CLOSED"
  BY <1>1, <1>2 DEF Pending, IsDue, RowInv, IsOpen, is_open, JourneyState,
                   NO_JOURNEY, TERMINAL_JOURNEY_STATES, Phase
<1> QED
  BY <1>1, <1>2, <1>3 DEF IInv, CycleInv

\* A handler that leaves its row at rest, no earlier in its life than it
\* found it, and keeps the locks in order preserves the invariant.
LEMMA Handled ==
    ASSUME IInv, NEW e \in todo, NEW r, RowOK(e, r), Handle(e, r),
           r.event \in Fate!Later(e, db[e].event),
           UNCHANGED <<saved, policy, phase, lost>>,
           lock' \in [Customers -> Events \cup {Free}],
           OpenJourneyOwnsCustomer',
           calls' \in [Events -> [Steps -> 0..2]],
           \A x \in Control, i \in Steps : calls'[x][i] = 0
    PROVE  IInv'
<1>1. TypeOK /\ e \in Events /\ saved[e].state # "CLOSED" /\ phase # "idle"
  BY PendingWasNotClosed DEF IInv
<1>2. /\ db'[e] = r
      /\ \A x \in Events \ {e} : db'[x] = db[x]
      /\ todo' = todo \ {e}
  BY <1>1 DEF Handle, TypeOK
<1>3. TypeOK'
  BY <1>1 DEF TypeOK, Handle, RowOK
<1>4. \A x \in Events : RowInv(x, db'[x]) /\ RowInv(x, saved'[x])
  BY <1>1, <1>2 DEF RowOK, IInv
<1>5. (\A x \in Events : RowInv(x, db[x]) /\ RowInv(x, saved[x]))'
  BY <1>4
<1>6. CycleInv'
  <2>1. \A x \in todo' : Pending(x)'
    BY <1>1, <1>2 DEF IInv, CycleInv, TypeOK, Pending
  <2>2. /\ db'[e].event \in Fate!Later(e, saved[e].event)
        /\ \A x \in Events : db'[x].event \in Fate!Later(x, saved[x].event)
    <3>1. db[e].event \in Fate!Later(e, saved[e].event)
      BY <1>1 DEF IInv, CycleInv
    <3> QED
      BY <1>1, <1>2, <3>1, LaterTransitive DEF IInv, CycleInv
  <2>3. \A x \in Events : saved[x].state = "CLOSED" => db'[x].state = "CLOSED"
    BY <1>1, <1>2 DEF IInv, CycleInv
  <2>4. ASSUME phase = "scan"
        PROVE  \A x \in Events : db'[x] = saved[x] \/ saved[x].event = "AT_RISK"
    <3>1. db[e].event = "AT_RISK" /\ db[e].event \in Fate!Later(e, saved[e].event)
      BY <1>1, <2>4 DEF IInv, CycleInv, Pending
    <3>2. saved[e].event = "AT_RISK"
      BY <3>1, AtRiskIsFirst
    <3> QED
      BY <1>1, <1>2, <2>4, <3>2 DEF IInv, CycleInv
  <2>5. ASSUME phase = "tick"
        PROVE  \A x \in todo' : db'[x] = saved[x] \/ saved[x].event = "AT_RISK"
    BY <1>1, <1>2, <2>5 DEF IInv, CycleInv, TypeOK
  <2> QED
    BY <1>1, <2>1, <2>2, <2>3, <2>4, <2>5 DEF IInv, CycleInv
<1> QED
  BY <1>3, <1>5, <1>6 DEF IInv

\* A rollback puts back rows that were at rest.  A journey that is open again
\* had its lock unless this cycle closed it.
LEMMA RolledBack ==
    ASSUME IInv, Rollback, UNCHANGED <<saved, policy, lock>>,
           calls' \in [Events -> [Steps -> 0..2]],
           \A x \in Control, i \in Steps : calls'[x][i] = 0
    PROVE  IInv'
<1>1. TypeOK /\ TypeOK'
  BY RecoveryConstants DEF IInv, TypeOK, Rollback, Phase
<1>2. (\A x \in Events : RowInv(x, db[x]) /\ RowInv(x, saved[x]))'
  BY DEF IInv, Rollback
<1>3. CycleInv'
  BY LaterReflexive, <1>2 DEF Rollback, CycleInv, Pending, IInv
<1>4. OpenJourneyOwnsCustomer'
  BY DEF IInv, OpenJourneyOwnsCustomer, Rollback
<1> QED
  BY <1>1, <1>2, <1>3, <1>4 DEF IInv

\* A transaction that is placed between cycles and leaves every row at rest.
LEMMA Requested ==
    ASSUME IInv, phase = "idle", Commit,
           db' \in [Events -> Row],
           \A x \in Events : RowInv(x, db'[x]),
           policy' \in [enabled: BOOLEAN, paused: BOOLEAN, threshold: BOOLEAN],
           lock' \in [Customers -> Events \cup {Free}],
           lost' \in SUBSET Customers,
           OpenJourneyOwnsCustomer',
           UNCHANGED calls
    PROVE  IInv'
<1>1. TypeOK'
  BY DEF IInv, TypeOK, Commit, Phase
<1>2. (\A x \in Events : RowInv(x, db[x]) /\ RowInv(x, saved[x]))'
  BY DEF Commit
<1>3. CycleInv'
  BY LaterReflexive DEF Commit, CycleInv, Pending
<1> QED
  BY <1>1, <1>2, <1>3 DEF IInv

\* What the tick's lemmas start from: a due journey and a gateway call that
\* leaves the holdout alone.
Advanced(e) ==
    /\ IInv
    /\ phase = "tick"
    /\ e \in todo
    /\ calls' \in [Events -> [Steps -> 0..2]]
    /\ \A x \in Control, i \in Steps : calls'[x][i] = 0

\* The row of a journey that is being advanced is open and in recovery.
LEMMA AdvancedRow ==
    ASSUME IInv, phase \in {"tick", "expire"}, NEW e \in todo
    PROVE  /\ e \in Events
           /\ e \notin Control
           /\ IsOpen(db[e])
           /\ db[e].event = "IN_RECOVERY"
           /\ RowOK(e, db[e])
           /\ InHand(e, db[e])
<1>1. e \in Events /\ RowOK(e, db[e])
  BY DEF IInv, TypeOK, RowOK
<1>2. IsOpen(db[e])
  BY DEF IInv, CycleInv, Pending, IsDue
<1>3. InHand(e, db[e])
  BY <1>1, <1>2, OpenIsInHand
<1> QED
  BY <1>1, <1>2, <1>3 DEF InHand

\* From recovery a treated event may go to any outcome.
LEMMA LaterInRecovery ==
    \A e : e \notin Control =>
        \A s \in {"IN_RECOVERY", "RECOVERED", "LOST", "SUPPRESSED"} :
            s \in Fate!Later(e, "IN_RECOVERY")
BY DEF Fate!Later, Fate!EventSettled

\* A handler of the tick that leaves the journey open.
LEMMA LeftOpen ==
    ASSUME NEW e, Advanced(e), NEW r, RowOK(e, r), IsOpen(r), Handle(e, r),
           UNCHANGED <<saved, policy, phase, lock, lost>>
    PROVE  IInv'
<1>1. /\ IInv /\ e \in todo /\ e \in Events /\ e \notin Control
      /\ IsOpen(db[e]) /\ db[e].event = "IN_RECOVERY"
  BY AdvancedRow DEF Advanced
<1>2. r.event = "IN_RECOVERY"
  BY DEF RowOK, RowInv, CanBeAdvanced
<1>3. OpenJourneyOwnsCustomer'
  BY <1>1, LockKept DEF Handle
<1>4. lock' \in [Customers -> Events \cup {Free}]
  BY <1>1 DEF IInv, TypeOK
<1>5. r.event \in Fate!Later(e, db[e].event)
  BY <1>1, <1>2, LaterReflexive
<1> QED
  BY <1>1, <1>3, <1>4, <1>5, Handled DEF Advanced

\* A handler that closes the journey and releases its customer.
LEMMA LeftClosed ==
    ASSUME IInv, NEW e \in todo, phase \in {"tick", "expire"},
           calls' \in [Events -> [Steps -> 0..2]],
           \A x \in Control, i \in Steps : calls'[x][i] = 0,
           NEW r, RowOK(e, r), r.state = "CLOSED",
           r.event \in {"RECOVERED", "LOST"},
           Handle(e, r), release_customer(e),
           UNCHANGED <<saved, policy, phase, lost>>
    PROVE  IInv'
<1>1. /\ e \in Events /\ e \notin Control
      /\ IsOpen(db[e]) /\ db[e].event = "IN_RECOVERY"
  BY AdvancedRow
<1>2. ~IsOpen(r)
  BY DEF IsOpen, is_open, TERMINAL_JOURNEY_STATES
<1>3. /\ OpenJourneyOwnsCustomer'
      /\ lock' \in [Customers -> Events \cup {Free}]
  BY <1>1, <1>2, LockReleased DEF Handle
<1>4. r.event \in Fate!Later(e, db[e].event)
  BY <1>1, LaterInRecovery
<1> QED
  BY <1>1, <1>3, <1>4, Handled

\* _next_step_or_close preserves the invariant, whichever way it goes.
LEMMA NextStepOrClosePreserves ==
    ASSUME NEW e, Advanced(e), NEW ctx, NEW r, InHand(e, r),
           NextStepOrClose(e, ctx, r)
    PROVE  IInv'
<1> DEFINE i == r.step + 1
<1>1. IInv /\ e \in todo /\ e \in Events
  BY AdvancedRow DEF Advanced
<1>2. CASE /\ i <= Len(r.plan)
           /\ \E env \in GateEnvs, delay \in {"LATER", "DUE"} :
                 Handle(e, ScheduleStep(Move(r, "PLANNED"), i,
                                  Verdict(e, ctx, i, env), delay))
           /\ UNCHANGED <<saved, policy, phase, lock, lost>>
  <2> DEFINE m == Move(r, "PLANNED")
  <2>1. InHand(e, m) /\ m.state = "PLANNED" /\ m.plan = r.plan
    BY <1>1, MoveInHand DEF JourneyState
  <2>2. r.step \in 1..Len(r.plan) /\ Len(r.plan) \in Nat
    BY RecoveryConstants DEF InHand
  <2>3. i \in 1..Len(m.plan)
    BY <1>2, <2>1, <2>2
  <2> HIDE DEF m, i
  <2>4. PICK env \in GateEnvs, delay \in {"LATER", "DUE"} :
           Handle(e, ScheduleStep(m, i, Verdict(e, ctx, i, env), delay))
    BY <1>2 DEF m
  <2> DEFINE v == Verdict(e, ctx, i, env)
  <2>5. v \in PolicyVerdict
    BY EvaluateType DEF Verdict
  <2> HIDE DEF v
  <2>6. /\ RowOK(e, ScheduleStep(m, i, v, delay))
        /\ IsOpen(ScheduleStep(m, i, v, delay))
    BY <1>1, <2>1, <2>3, <2>5, ScheduleRests
  <2>7. Handle(e, ScheduleStep(m, i, v, delay))
    BY <2>4 DEF v
  <2> QED
    BY <1>2, <2>6, <2>7, LeftOpen
<1>3. CASE /\ Handle(e, Close(Move([r EXCEPT !.event = "LOST"], "FAILED")))
           /\ release_customer(e)
           /\ UNCHANGED <<saved, policy, phase, lost>>
  <2> DEFINE c == Ended(r, "LOST", "FAILED")
  <2>1. RowOK(e, c) /\ c.state = "CLOSED" /\ c.event = "LOST"
    BY <1>1, EndRests DEF JourneyState
  <2>2. Handle(e, c)
    BY <1>3 DEF Ended
  <2> HIDE DEF c
  <2> QED
    BY <1>1, <1>3, <2>1, <2>2, LeftClosed DEF Advanced
<1>4. CASE Raise
  BY <1>1, <1>4, RolledBack DEF Raise, Advanced
<1> QED
  BY <1>2, <1>3, <1>4 DEF NextStepOrClose

\* So does the verifier, whatever the gateway answers.
LEMMA OutcomePreserves ==
    ASSUME NEW e, Advanced(e), NEW ctx, NEW r, InHand(e, r),
           r.state = "VERIFYING", Status(r) = "EXECUTING",
           Outcome(e, ctx, r)
    PROVE  IInv'
<1>1. IInv /\ e \in todo /\ e \in Events
  BY AdvancedRow DEF Advanced
<1>2. CASE /\ Handle(e, Recover(r))
           /\ release_customer(e)
           /\ UNCHANGED <<saved, policy, phase, lost>>
  <2>1. /\ RowOK(e, Recover(r)) /\ Recover(r).state = "CLOSED"
        /\ Recover(r).event = "RECOVERED"
    BY <1>1, RecoverRests
  <2> QED
    BY <1>1, <1>2, <2>1, LeftClosed DEF Advanced
<1>3. CASE NextStepOrClose(e, ctx, SetAction(r, "FAILED"))
  <2>1. InHand(e, SetAction(r, "FAILED"))
    BY <1>1, SetActionInHand DEF ActionStatus
  <2> QED
    BY <1>3, <2>1, NextStepOrClosePreserves
<1>4. CASE /\ Handle(e, [r EXCEPT !.next = "LATER"])
           /\ UNCHANGED <<saved, policy, phase, lock, lost>>
  <2> DEFINE t == [r EXCEPT !.next = "LATER"]
  <2>1. /\ InHand(e, t) /\ t.state = "VERIFYING" /\ Status(t) = "EXECUTING"
    BY DEF InHand, Row, When, WithinLimits, Status
  <2>2. Handle(e, t)
    BY <1>4
  <2> HIDE DEF t
  <2>3. RowOK(e, t) /\ IsOpen(t)
    BY <2>1 DEF RowOK, RowInv, InHand, IsOpen, is_open, JourneyState, Resting,
                TERMINAL_JOURNEY_STATES, NO_JOURNEY, CanBeAdvanced
  <2> QED
    BY <1>4, <2>2, <2>3, LeftOpen
<1>5. CASE Raise
  BY <1>1, <1>5, RolledBack DEF Raise, Advanced
<1> QED
  BY <1>2, <1>3, <1>4, <1>5 DEF Outcome
-----------------------------------------------------------------------------
(* The scan.                                                               *)

LEMMA BeginScanPreserves ==
    ASSUME IInv, BeginScan
    PROVE  IInv'
<1>1. /\ phase = "idle" /\ saved = db
      /\ todo' \in SUBSET {e \in Events : Unclaimed(e)}
  BY DEF BeginScan, IInv, CycleInv, Limited
<1>2. TypeOK'
  BY <1>1 DEF BeginScan, IInv, TypeOK, Phase
<1>3. (\A e \in Events : RowInv(e, db[e]) /\ RowInv(e, saved[e]))'
  BY DEF BeginScan, IInv
<1>4. CycleInv'
  BY <1>1, LaterReflexive DEF BeginScan, CycleInv, Pending, Unclaimed
<1>5. OpenJourneyOwnsCustomer'
  BY DEF BeginScan, IInv, OpenJourneyOwnsCustomer
<1> QED
  BY <1>2, <1>3, <1>4, <1>5 DEF IInv, BeginScan

\* An event that is scanned has no journey.
LEMMA ScannedRow ==
    ASSUME IInv, phase = "scan", NEW e \in todo
    PROVE  /\ e \in Events
           /\ db[e] \in Row
           /\ RowInv(e, db[e])
           /\ db[e].event = "AT_RISK"
           /\ db[e].state = NO_JOURNEY
           /\ ~IsOpen(db[e])
<1>1. e \in Events /\ db[e] \in Row /\ RowInv(e, db[e])
  BY DEF IInv, TypeOK
<1>2. db[e].event = "AT_RISK"
  BY DEF IInv, CycleInv, Pending
<1>3. db[e].state = NO_JOURNEY
  BY <1>1, <1>2 DEF RowInv
<1> QED
  BY <1>1, <1>2, <1>3 DEF IsOpen, is_open, NO_JOURNEY, JourneyState

LEMMA ScanSuppressesPreserves ==
    ASSUME IInv, NEW e \in Events, ScanSuppresses(e)
    PROVE  IInv'
<1> DEFINE r == [db[e] EXCEPT !.event = "SUPPRESSED"]
<1>1. phase = "scan" /\ e \in todo /\ Handle(e, r)
  BY DEF ScanSuppresses
<1>2. /\ db[e] \in Row /\ RowInv(e, db[e]) /\ db[e].event = "AT_RISK"
      /\ db[e].state = NO_JOURNEY /\ ~IsOpen(db[e])
  BY <1>1, ScannedRow
<1>3. /\ r \in Row /\ r.event = "SUPPRESSED" /\ r.state = NO_JOURNEY
      /\ r.acts = db[e].acts /\ r.booked = db[e].booked
      /\ r.used = db[e].used
  BY <1>2 DEF Row, EventStatus
<1> HIDE DEF r
<1>4. RowOK(e, r) /\ ~IsOpen(r)
  BY <1>2, <1>3 DEF RowOK, RowInv, IsOpen, is_open, NO_JOURNEY, JourneyState,
                    WithinLimits
<1>5. OpenJourneyOwnsCustomer'
  BY <1>1, <1>4, LockKept DEF ScanSuppresses, Handle
<1>6. r.event \in Fate!Later(e, db[e].event)
  BY <1>2, <1>3 DEF Fate!Later, Fate!EventStatus
<1> QED
  BY <1>1, <1>4, <1>5, <1>6, Handled DEF ScanSuppresses, IInv, TypeOK

LEMMA ScanLeavesPreserves ==
    ASSUME IInv, NEW e \in Events, ScanLeaves(e)
    PROVE  IInv'
<1>1. phase = "scan" /\ e \in todo /\ Handle(e, db[e])
  BY DEF ScanLeaves
<1>2. RowOK(e, db[e])
  BY <1>1, ScannedRow DEF RowOK
<1>3. OpenJourneyOwnsCustomer'
  BY <1>1, LockKept DEF ScanLeaves, Handle
<1> QED
  BY <1>1, <1>2, <1>3, LaterReflexive, Handled DEF ScanLeaves, IInv, TypeOK

LEMMA NewRowType ==
    NewRow \in Row
<1>1. 0 \in 0..MaxSteps
  BY RecoveryConstants
<1> QED
  BY <1>1 DEF NewRow, Row, EventStatus, When

\* A journey is only started for a customer whose lock is free, so any other
\* open journey of that customer has lost its lock.
LEMMA StartJourneyPreserves ==
    ASSUME IInv, NEW e \in Events, StartJourney(e)
    PROVE  IInv'
<1>1. /\ phase = "scan" /\ e \in todo /\ e \notin Control
      /\ lock[CustomerOf[e]] = Free
  BY DEF StartJourney, HeldOut, claim_customer
<1>2. db[e].event = "AT_RISK" /\ ~IsOpen(db[e])
  BY <1>1, ScannedRow
<1> DEFINE fresh(p) == [NewRow EXCEPT !.event = "IN_RECOVERY",
                                      !.state = "PLANNED", !.plan = p]
<1>3. PICK p \in Plans, v \in PolicyVerdict, delay \in {"LATER", "DUE"} :
         Handle(e, ScheduleStep(fresh(p), 1, v, delay))
  BY EvaluateType DEF StartJourney
<1> DEFINE s == ScheduleStep(fresh(p), 1, v, delay)
<1>4. RowOK(e, s) /\ IsOpen(s)
  <2>1. /\ fresh(p).event = "IN_RECOVERY" /\ fresh(p).state = "PLANNED"
        /\ fresh(p).plan = p /\ fresh(p).booked = 0
        /\ fresh(p).used = [b \in Budget |-> 0]
        /\ fresh(p).step = 0
    BY DEF NewRow
  <2>2. Len(p) \in Nat \ {0} /\ 1 \in 1..Len(p)
    BY RecoveryConstants
  <2>3. fresh(p) \in Row
    <3>1. NewRow \in Row
      BY NewRowType
    <3>2. \A r \in Row : [r EXCEPT !.event = "IN_RECOVERY",
                                  !.state = "PLANNED", !.plan = p] \in Row
      BY DEF Row, EventStatus, JourneyState
    <3> QED
      BY <3>1, <3>2
  <2> DEFINE f == [fresh(p) EXCEPT !.step = 1]
  <2>4. s = ScheduleStep(f, 1, v, delay)
    BY <2>1 DEF ScheduleStep, NewRow
  <2>5. 1 \in 0..MaxSteps
    BY RecoveryConstants
  <2> HIDE DEF fresh, s
  <2>6. f \in Row /\ f.step = 1
    BY <2>3, <2>5 DEF Row
  <2>7. f.event = "IN_RECOVERY" /\ f.state = "PLANNED" /\ f.plan = p
    BY <2>1, <2>3 DEF Row
  <2>8. f.booked = 0 /\ f.used = [b \in Budget |-> 0]
    BY <2>1, <2>3 DEF Row
  <2> HIDE DEF f
  <2>9. WithinLimits(f)
    BY <2>8, PolicyLimits DEF WithinLimits, Budget
  <2>10. InHand(e, f)
    BY <1>1, <2>2, <2>6, <2>7, <2>8, <2>9 DEF InHand, JourneyState
  <2> QED
    BY <2>2, <2>4, <2>7, <2>10, ScheduleRests
<1>5. Handle(e, s)
  BY <1>3
<1> HIDE DEF s, fresh
<1>6. /\ db \in [Events -> Row] /\ lock \in [Customers -> Events \cup {Free}]
      /\ CustomerOf \in [Events -> Customers]
      /\ OpenJourneyOwnsCustomer
      /\ lock' = [lock EXCEPT ![CustomerOf[e]] = e]
      /\ lost' = lost
  BY RecoveryConstants DEF IInv, TypeOK, StartJourney
<1>7. lock' \in [Customers -> Events \cup {Free}]
  BY <1>6
<1>8. OpenJourneyOwnsCustomer'
  <2>1. ASSUME NEW x \in Events, IsOpen(db'[x]), CustomerOf[x] \notin lost'
        PROVE  lock'[CustomerOf[x]] = x
    <3>1. CASE x = e
      BY <1>6, <3>1
    <3>2. CASE x # e
      <4>1. IsOpen(db[x])
        BY <1>5, <1>6, <2>1, <3>2 DEF Handle
      <4>2. lock[CustomerOf[x]] = x
        BY <1>6, <2>1, <4>1 DEF OpenJourneyOwnsCustomer
      <4>3. CustomerOf[x] # CustomerOf[e]
        BY <1>1, <4>2, RecoveryConstants
      <4> QED
        BY <1>6, <4>2, <4>3
    <3> QED
      BY <3>1, <3>2
  <2> QED
    BY <2>1 DEF OpenJourneyOwnsCustomer
<1>9. s.event \in Fate!Later(e, db[e].event)
  <2>1. s.event = "IN_RECOVERY"
    BY <1>4 DEF RowOK, RowInv, CanBeAdvanced
  <2> QED
    BY <1>1, <1>2, <2>1 DEF Fate!Later, Fate!EventStatus
<1> QED
  BY <1>1, <1>4, <1>5, <1>7, <1>8, <1>9, Handled DEF StartJourney, IInv, TypeOK

\* A transaction that ends as it stands.
LEMMA Committed ==
    ASSUME IInv, db' = db, Commit, UNCHANGED <<policy, lock, calls, lost>>
    PROVE  IInv'
<1>1. TypeOK'
  BY DEF IInv, TypeOK, Commit, Phase
<1>2. (\A e \in Events : RowInv(e, db[e]) /\ RowInv(e, saved[e]))'
  BY DEF IInv, Commit
<1>3. CycleInv'
  BY LaterReflexive DEF Commit, CycleInv, Pending
<1>4. OpenJourneyOwnsCustomer'
  BY DEF IInv, OpenJourneyOwnsCustomer
<1> QED
  BY <1>1, <1>2, <1>3, <1>4 DEF IInv
-----------------------------------------------------------------------------
(* The tick.                                                               *)

LEMMA BeginTickPreserves ==
    ASSUME IInv, BeginTick
    PROVE  IInv'
<1>1. \A e \in Events : db[e] = saved[e] \/ saved[e].event = "AT_RISK"
  BY DEF BeginTick, IInv, CycleInv
<1>2. todo' \in SUBSET {e \in Events : IsDue(db[e])}
  BY DEF BeginTick, Limited
<1>3. TypeOK'
  BY <1>2 DEF BeginTick, IInv, TypeOK, Phase
<1>4. (\A e \in Events : RowInv(e, db[e]) /\ RowInv(e, saved[e]))'
  BY DEF BeginTick, IInv
<1>5. CycleInv'
  <2>1. /\ phase' = "tick" /\ todo' \in SUBSET {e \in Events : IsDue(db[e])}
        /\ UNCHANGED <<db, saved, policy>> /\ policy.enabled
    BY <1>2 DEF BeginTick
  <2>2. \A e \in todo' : Pending(e)'
    BY <2>1 DEF Pending, IsDue
  <2>3. \A e \in Events :
          /\ db[e].event \in Fate!Later(e, saved[e].event)
          /\ saved[e].state = "CLOSED" => db[e].state = "CLOSED"
    BY DEF IInv, CycleInv
  <2> QED
    BY <1>1, <2>1, <2>2, <2>3 DEF CycleInv
<1>6. OpenJourneyOwnsCustomer'
  BY DEF BeginTick, IInv, OpenJourneyOwnsCustomer
<1> QED
  BY <1>3, <1>4, <1>5, <1>6 DEF IInv, BeginTick

LEMMA AdvanceWaitsPreserves ==
    ASSUME IInv, NEW e \in Events, AdvanceWaits(e)
    PROVE  IInv'
<1> DEFINE r == [db[e] EXCEPT !.next = "NONE"]
<1>1. phase = "tick" /\ e \in todo /\ Handle(e, r)
  BY DEF AdvanceWaits, Advancing
<1>2. RowOK(e, db[e]) /\ IsOpen(db[e])
  BY <1>1, AdvancedRow
<1>3. RowOK(e, r) /\ IsOpen(r)
  BY <1>2 DEF RowOK, Row, When, RowInv, IsOpen, WithinLimits, CanBeAdvanced,
              Status
<1> HIDE DEF r
<1>4. Advanced(e)
  BY <1>1 DEF AdvanceWaits, Advanced, IInv, TypeOK
<1> QED
  BY <1>1, <1>3, <1>4, LeftOpen DEF AdvanceWaits

LEMMA AdvanceBlockedPreserves ==
    ASSUME IInv, NEW e \in Events, AdvanceBlocked(e)
    PROVE  IInv'
<1>1. phase = "tick" /\ e \in todo
  BY DEF AdvanceBlocked, Advancing
<1>2. Advanced(e) /\ InHand(e, db[e])
  BY <1>1, AdvancedRow DEF AdvanceBlocked, Advanced, IInv, TypeOK
<1> QED
  BY <1>2, NextStepOrClosePreserves DEF AdvanceBlocked

LEMMA AdvanceEarlyPreserves ==
    ASSUME IInv, NEW e \in Events, AdvanceEarly(e)
    PROVE  IInv'
<1> DEFINE r == [db[e] EXCEPT !.next = "LATER"]
<1>1. phase = "tick" /\ e \in todo /\ Handle(e, r)
  BY DEF AdvanceEarly, Advancing
<1>2. RowOK(e, db[e]) /\ IsOpen(db[e])
  BY <1>1, AdvancedRow
<1>3. RowOK(e, r) /\ IsOpen(r)
  BY <1>2 DEF RowOK, Row, When, RowInv, IsOpen, WithinLimits, CanBeAdvanced,
              Status
<1> HIDE DEF r
<1>4. Advanced(e)
  BY <1>1 DEF AdvanceEarly, Advanced, IInv, TypeOK
<1> QED
  BY <1>1, <1>3, <1>4, LeftOpen DEF AdvanceEarly

LEMMA RegateAsksPreserves ==
    ASSUME IInv, NEW e \in Events, RegateAsks(e)
    PROVE  IInv'
<1> DEFINE b == SetAction(db[e], "AWAITING_APPROVAL")
           m == Move(b, "AWAITING_APPROVAL")
           r == [m EXCEPT !.next = "NONE"]
<1>1. phase = "tick" /\ e \in todo /\ UNCHANGED calls
  BY DEF RegateAsks, Advancing
<1>2. Advanced(e) /\ InHand(e, db[e])
  BY <1>1, AdvancedRow DEF Advanced, IInv, TypeOK
<1>3. CASE /\ Handle(e, r)
           /\ UNCHANGED <<saved, policy, phase, lock, lost>>
  <2>1. InHand(e, b) /\ Status(b) = "AWAITING_APPROVAL"
    BY <1>2, SetActionInHand DEF ActionStatus
  <2> HIDE DEF b
  <2>2. /\ InHand(e, m) /\ Status(m) = "AWAITING_APPROVAL"
        /\ m.state = "AWAITING_APPROVAL"
    BY <2>1, MoveInHand DEF Status, JourneyState
  <2> HIDE DEF m
  <2>3. /\ InHand(e, r) /\ Status(r) = "AWAITING_APPROVAL"
        /\ r.state = "AWAITING_APPROVAL"
    BY <2>2 DEF InHand, Row, When, WithinLimits, Status
  <2>4. Handle(e, r)
    BY <1>3
  <2> HIDE DEF r
  <2>5. RowOK(e, r) /\ IsOpen(r)
    BY <2>3 DEF RowOK, RowInv, InHand, IsOpen, is_open, JourneyState, Resting,
                TERMINAL_JOURNEY_STATES, NO_JOURNEY, CanBeAdvanced
  <2> QED
    BY <1>2, <1>3, <2>4, <2>5, LeftOpen
<1>4. CASE Raise
  BY <1>2, <1>4, RolledBack DEF Raise, Advanced
<1> QED
  BY <1>3, <1>4 DEF RegateAsks

LEMMA RegateBlocksPreserves ==
    ASSUME IInv, NEW e \in Events, RegateBlocks(e)
    PROVE  IInv'
<1>1. phase = "tick" /\ e \in todo /\ UNCHANGED calls
  BY DEF RegateBlocks, Advancing
<1>2. Advanced(e) /\ InHand(e, db[e])
  BY <1>1, AdvancedRow DEF Advanced, IInv, TypeOK
<1>3. InHand(e, SetAction(db[e], "BLOCKED"))
  BY <1>2, SetActionInHand DEF ActionStatus
<1> QED
  BY <1>2, <1>3, NextStepOrClosePreserves DEF RegateBlocks

LEMMA ExecutePreserves ==
    ASSUME IInv, NEW e \in Events, Execute(e)
    PROVE  IInv'
<1> DEFINE r == db[e]
<1>1. phase = "tick" /\ e \in todo
  BY DEF Execute, Advancing
<1>2. /\ RowOK(e, r) /\ IsOpen(r) /\ InHand(e, r) /\ e \notin Control
      /\ calls \in [Events -> [Steps -> 0..2]]
      /\ \A x \in Control, i \in Steps : calls[x][i] = 0
  BY <1>1, AdvancedRow DEF IInv, TypeOK
<1>3. PICK env \in GateEnvs : Verdict(e, r, r.step, env) = "ALLOW"
  BY DEF Execute
<1>4. /\ InHand(e, Executed(r)) /\ Executed(r).state = "VERIFYING"
      /\ Status(Executed(r)) = "EXECUTING"
  BY <1>2, <1>3, ExecutedInHand
<1>5. CASE /\ calls' = [calls EXCEPT ![e][r.step] = IF @ = 0 THEN 1 ELSE 2]
           /\ Outcome(e, r, Executed(r))
  <2>1. r.step \in Steps
    BY <1>2, StepsOfPlan DEF InHand
  <2>2. calls' \in [Events -> [Steps -> 0..2]]
    BY <1>2, <1>5, <2>1
  <2>3. \A x \in Control, i \in Steps : calls'[x][i] = 0
    BY <1>2, <1>5, <2>1, RecoveryConstants
  <2>4. Advanced(e)
    BY <1>1, <2>2, <2>3 DEF Advanced
  <2> QED
    BY <1>4, <1>5, <2>4, OutcomePreserves
<1>6. CASE Raise /\ UNCHANGED calls
  BY <1>2, <1>6, RolledBack DEF Raise
<1> QED
  BY <1>5, <1>6 DEF Execute

LEMMA VerifyPreserves ==
    ASSUME IInv, NEW e \in Events, Verify(e)
    PROVE  IInv'
<1> DEFINE m == Move(db[e], "VERIFYING")
<1>1. phase = "tick" /\ e \in todo /\ UNCHANGED calls
  BY DEF Verify, Advancing
<1>2. Advanced(e) /\ InHand(e, db[e]) /\ Status(db[e]) = "EXECUTING"
  BY <1>1, AdvancedRow DEF Verify, Advanced, IInv, TypeOK
<1>3. InHand(e, m) /\ m.state = "VERIFYING" /\ Status(m) = "EXECUTING"
  BY <1>2, MoveInHand DEF Status, JourneyState
<1>4. CASE Outcome(e, db[e], m)
  BY <1>2, <1>3, <1>4, OutcomePreserves
<1>5. CASE Raise
  BY <1>2, <1>5, RolledBack DEF Raise, Advanced
<1> QED
  BY <1>4, <1>5 DEF Verify

LEMMA BeginSettlePreserves ==
    ASSUME IInv, BeginSettle
    PROVE  IInv'
<1>1. TypeOK'
  BY DEF BeginSettle, IInv, TypeOK, Phase
<1>2. (\A e \in Events : RowInv(e, db[e]) /\ RowInv(e, saved[e]))'
  BY DEF BeginSettle, IInv
<1>3. CycleInv'
  BY DEF BeginSettle, IInv, CycleInv, Pending, Settleable
<1>4. OpenJourneyOwnsCustomer'
  BY DEF BeginSettle, IInv, OpenJourneyOwnsCustomer
<1> QED
  BY <1>1, <1>2, <1>3, <1>4 DEF IInv, BeginSettle

LEMMA SettlePreserves ==
    ASSUME IInv, NEW e \in Events, Settle(e)
    PROVE  IInv'
<1>1. phase = "settle" /\ e \in todo /\ UNCHANGED calls
  BY DEF Settle
<1>2. /\ e \in Control /\ db[e].event \in {"AT_RISK", "SUPPRESSED"}
      /\ RowOK(e, db[e])
  BY <1>1 DEF IInv, TypeOK, RowOK, CycleInv, Pending
<1>3. /\ calls' \in [Events -> [Steps -> 0..2]]
      /\ \A x \in Control, i \in Steps : calls'[x][i] = 0
      /\ lock \in [Customers -> Events \cup {Free}]
  BY <1>1 DEF IInv, TypeOK
<1>4. ASSUME NEW outcome \in {"RECOVERED", "LOST"},
             Handle(e, [db[e] EXCEPT !.event = outcome]),
             UNCHANGED <<saved, policy, phase, lock, lost>>
      PROVE  IInv'
  <2> DEFINE r == [db[e] EXCEPT !.event = outcome]
  <2>1. /\ r \in Row /\ r.event = outcome /\ r.state = db[e].state
        /\ r.acts = db[e].acts /\ r.booked = db[e].booked
        /\ r.used = db[e].used
    BY <1>2 DEF RowOK, Row, EventStatus
  <2>2. Handle(e, r)
    BY <1>4
  <2> HIDE DEF r
  <2>3. RowOK(e, r) /\ ~IsOpen(r)
    BY <1>2, <2>1 DEF RowOK, RowInv, IsOpen, is_open, NO_JOURNEY,
                      JourneyState, WithinLimits
  <2>4. OpenJourneyOwnsCustomer'
    BY <1>4, <2>2, <2>3, LockKept DEF Handle
  <2>5. r.event \in Fate!Later(e, db[e].event)
    BY <1>2, <2>1 DEF Fate!Later, Fate!EventSettled
  <2> QED
    BY <1>1, <1>3, <1>4, <2>2, <2>3, <2>4, <2>5, Handled
<1>5. CASE Raise
  BY <1>3, <1>5, RolledBack DEF Raise
<1> QED
  BY <1>4, <1>5 DEF Settle

LEMMA BeginExpirePreserves ==
    ASSUME IInv, BeginExpire
    PROVE  IInv'
<1>1. TypeOK'
  BY DEF BeginExpire, IInv, TypeOK, Phase
<1>2. (\A e \in Events : RowInv(e, db[e]) /\ RowInv(e, saved[e]))'
  BY DEF BeginExpire, IInv
<1>3. CycleInv'
  BY DEF BeginExpire, IInv, CycleInv, Pending
<1>4. OpenJourneyOwnsCustomer'
  BY DEF BeginExpire, IInv, OpenJourneyOwnsCustomer
<1> QED
  BY <1>1, <1>2, <1>3, <1>4 DEF IInv, BeginExpire

LEMMA ExpirePreserves ==
    ASSUME IInv, NEW e \in Events, Expire(e)
    PROVE  IInv'
<1> DEFINE c == Ended(db[e], "LOST", "EXPIRED")
<1>1. phase = "expire" /\ e \in todo /\ UNCHANGED calls
  BY DEF Expire
<1>2. /\ InHand(e, db[e])
      /\ calls' \in [Events -> [Steps -> 0..2]]
      /\ \A x \in Control, i \in Steps : calls'[x][i] = 0
  BY <1>1, AdvancedRow DEF IInv, TypeOK
<1>3. CASE /\ Handle(e, c) /\ release_customer(e)
           /\ UNCHANGED <<saved, policy, phase, lost>>
  <2>1. RowOK(e, c) /\ c.state = "CLOSED" /\ c.event = "LOST"
    BY <1>2, EndRests DEF JourneyState
  <2>2. Handle(e, c)
    BY <1>3
  <2> HIDE DEF c
  <2> QED
    BY <1>1, <1>2, <1>3, <2>1, <2>2, LeftClosed
<1>4. CASE Raise
  BY <1>2, <1>4, RolledBack DEF Raise
<1> QED
  BY <1>3, <1>4 DEF Expire, Ended
-----------------------------------------------------------------------------
(* The API.                                                                *)

\* A state machine fact: a closed journey moves nowhere else.
LEMMA ClosedMovesNowhere ==
    \A target : MayMove("CLOSED", target) => target = "CLOSED"
BY DEF MayMove, can_transition, ALLOWED_TRANSITIONS, JourneyState

\* A request that may move a journey away from where it rests found it open.
LEMMA MovableIsOpen ==
    ASSUME IInv, NEW e \in Events, HasJourney(db[e]),
           NEW target \in JourneyState \ {"CLOSED"}, MayMoveTo(db[e], target)
    PROVE  IsOpen(db[e]) /\ RowOK(e, db[e]) /\ InHand(e, db[e])
<1>1. RowOK(e, db[e])
  BY DEF IInv, TypeOK, RowOK
<1>2. db[e].state \in Resting
  BY <1>1, ClosedMovesNowhere DEF RowOK, RowInv, HasJourney, MayMoveTo
<1>3. IsOpen(db[e])
  BY <1>2 DEF Resting, IsOpen, is_open, JourneyState, TERMINAL_JOURNEY_STATES
<1> QED
  BY <1>1, <1>3, OpenIsInHand

\* A request that changes one row, and closes no journey or leaves the locks
\* in order.
LEMMA RequestPreserves ==
    ASSUME IInv, NEW op, NEW e \in Events, NEW r, RowOK(e, r),
           Request(op, e, r),
           lock' \in [Customers -> Events \cup {Free}],
           lost' \in SUBSET Customers,
           OpenJourneyOwnsCustomer',
           UNCHANGED <<policy, calls>>
    PROVE  IInv'
<1>1. phase = "idle" /\ db' = [db EXCEPT ![e] = r] /\ Commit
  BY DEF Request
<1>2. /\ db' \in [Events -> Row]
      /\ \A x \in Events : RowInv(x, db'[x])
  BY <1>1 DEF IInv, TypeOK, RowOK
<1>3. policy' \in [enabled: BOOLEAN, paused: BOOLEAN, threshold: BOOLEAN]
  BY DEF IInv, TypeOK
<1> QED
  BY <1>1, <1>2, <1>3, Requested

\* The common case: the request leaves the lock alone and opens no journey.
LEMMA QuietRequest ==
    ASSUME IInv, NEW op, NEW e \in Events, NEW r, RowOK(e, r),
           Request(op, e, r), IsOpen(r) => IsOpen(db[e]),
           UNCHANGED <<policy, lock, calls, lost>>
    PROVE  IInv'
<1>1. OpenJourneyOwnsCustomer'
  BY LockKept DEF Request
<1>2. /\ lock' \in [Customers -> Events \cup {Free}]
      /\ lost' \in SUBSET Customers
  BY DEF IInv, TypeOK
<1> QED
  BY <1>1, <1>2, RequestPreserves

LEMMA ApprovePreserves ==
    ASSUME IInv, NEW e \in Events, NEW i \in Steps, Approve(e, i)
    PROVE  IInv'
<1> DEFINE d == db[e]
           n == IF d.state = "AWAITING_APPROVAL" THEN "APPROVED" ELSE d.state
           w == IF i = d.step THEN "DUE" ELSE d.sched
           a == [d EXCEPT !.acts[i] = "APPROVED", !.sched = w, !.state = n,
                          !.next = "DUE"]
<1>1. Request("approve", e, a) /\ UNCHANGED <<policy, lock, calls, lost>>
  BY DEF Approve
<1>2. RowOK(e, d) /\ d.acts[i] # "NONE"
  BY DEF IInv, TypeOK, RowOK, Approve
<1>3. d.state # NO_JOURNEY
  BY <1>2 DEF RowOK, RowInv
<1>4. /\ w \in {"LATER", "DUE"} /\ n \in JourneyState
      /\ n = d.state \/ (n = "APPROVED" /\ d.state = "AWAITING_APPROVAL")
  <2>1. d.state \in JourneyState /\ d.sched \in {"LATER", "DUE"}
    BY <1>2, <1>3 DEF RowOK, Row
  <2> QED
    BY <2>1 DEF JourneyState
<1> HIDE DEF n, w
<1>5. a \in Row
  BY <1>2, <1>4 DEF RowOK, Row, ActionStatus, When
<1>6. /\ a.state = n /\ a.event = d.event /\ a.booked = d.booked
      /\ a.plan = d.plan /\ a.step = d.step /\ a.used = d.used
      /\ a.acts = [d.acts EXCEPT ![i] = "APPROVED"]
  BY <1>2 DEF RowOK, Row
<1>7. Status(a) \in {Status(d), "APPROVED"}
  <2>1. d.acts \in [Steps -> ActionStatus \cup {"NONE"}]
    BY <1>2 DEF RowOK, Row
  <2>2. d.step \in Steps
    BY <1>2, <1>3, StepsOfPlan DEF RowOK, RowInv
  <2> QED
    BY <1>6, <2>1, <2>2 DEF Status
<1> HIDE DEF a, d
<1>8. IsOpen(a) <=> IsOpen(d)
  BY <1>4, <1>6 DEF IsOpen, is_open, JourneyState, TERMINAL_JOURNEY_STATES
<1>9. IsOpen(a) => CanBeAdvanced(a)
  BY <1>2, <1>4, <1>6, <1>7, <1>8 DEF RowOK, RowInv, CanBeAdvanced, Resting
<1>10. RowOK(e, a)
  BY <1>2, <1>3, <1>4, <1>5, <1>6, <1>9
     DEF RowOK, RowInv, Resting, NO_JOURNEY, WithinLimits
<1> QED
  BY <1>1, <1>8, <1>10, QuietRequest DEF d

LEMMA RejectPreserves ==
    ASSUME IInv, NEW e \in Events, NEW i \in Steps, reject_action(e, i)
    PROVE  IInv'
<1> DEFINE d == db[e]
           b == [d EXCEPT !.acts[i] = "CANCELLED"]
           c == Ended(b, "SUPPRESSED", "BLOCKED")
<1>1. RowOK(e, d) /\ d.acts[i] # "NONE" /\ MayMoveTo(d, "BLOCKED")
  BY DEF IInv, TypeOK, RowOK, reject_action
<1>2. HasJourney(d)
  BY <1>1 DEF RowOK, RowInv, HasJourney
<1>3. IsOpen(d) /\ InHand(e, d)
  BY <1>1, <1>2, MovableIsOpen DEF JourneyState
<1>4. InHand(e, b)
  BY <1>3 DEF InHand, Row, ActionStatus, WithinLimits
<1>5. RowOK(e, c) /\ c.state = "CLOSED"
  BY <1>4, EndRests DEF JourneyState
<1>6. c = Close(Move([d EXCEPT !.acts[i] = "CANCELLED",
                               !.event = "SUPPRESSED"], "BLOCKED"))
  BY DEF Ended
<1>7. Request("reject", e, c)
  BY <1>6 DEF reject_action
<1> HIDE DEF c
<1>8. ~IsOpen(c)
  BY <1>5 DEF IsOpen, is_open, TERMINAL_JOURNEY_STATES
<1>9. /\ lock' \in [Customers -> Events \cup {Free}]
      /\ OpenJourneyOwnsCustomer'
  BY <1>3, <1>7, <1>8, LockReleased DEF reject_action, Request
<1> QED
  BY <1>5, <1>7, <1>9, RequestPreserves DEF reject_action, IInv, TypeOK

\* Pausing and resuming move an open journey to another resting state.
LEMMA MovedRests ==
    ASSUME NEW e \in Events, NEW r, RowOK(e, r), IsOpen(r),
           NEW target \in Resting, NEW w \in When
    PROVE  /\ RowOK(e, [Move(r, target) EXCEPT !.next = w])
           /\ IsOpen([Move(r, target) EXCEPT !.next = w])
<1> DEFINE m == Move(r, target)
           t == [m EXCEPT !.next = w]
<1>1. target \in JourneyState
  BY DEF Resting, JourneyState
<1>2. InHand(e, r)
  BY OpenIsInHand
<1>3. /\ InHand(e, m) /\ m.state = target /\ m.acts = r.acts /\ m.step = r.step
  BY <1>1, <1>2, MoveInHand
<1> HIDE DEF m
<1>4. /\ InHand(e, t) /\ t.state = target /\ Status(t) = Status(r)
  BY <1>3 DEF InHand, Row, WithinLimits, Status
<1> HIDE DEF t
<1>5. CanBeAdvanced(r)
  BY DEF RowOK, RowInv
<1>6. RowOK(e, t) /\ IsOpen(t)
  BY <1>4, <1>5 DEF RowOK, RowInv, InHand, IsOpen, is_open, JourneyState,
                    Resting, TERMINAL_JOURNEY_STATES, NO_JOURNEY, CanBeAdvanced
<1> QED
  BY <1>6 DEF m, t

LEMMA PausePreserves ==
    ASSUME IInv, NEW e \in Events, Pause(e)
    PROVE  IInv'
<1>1. RowOK(e, db[e]) /\ IsOpen(db[e])
  BY MovableIsOpen DEF Pause, JourneyState
<1>2. "PAUSED" \in Resting /\ "NONE" \in When
  BY DEF Resting, When
<1> QED
  BY <1>1, <1>2, MovedRests, QuietRequest DEF Pause

LEMMA ResumePreserves ==
    ASSUME IInv, NEW e \in Events, Resume(e)
    PROVE  IInv'
<1> DEFINE target == IF Status(db[e]) = "APPROVED" THEN "APPROVED"
                     ELSE "PLANNED"
<1>1. /\ HasJourney(db[e]) /\ MayMoveTo(db[e], target)
      /\ Request("resume", e, [Move(db[e], target) EXCEPT !.next = "DUE"])
      /\ UNCHANGED <<policy, lock, calls, lost>>
  BY DEF Resume
<1>2. target \in Resting /\ target \in JourneyState \ {"CLOSED"}
  BY DEF Resting, JourneyState
<1> HIDE DEF target
<1>3. RowOK(e, db[e]) /\ IsOpen(db[e])
  BY <1>1, <1>2, MovableIsOpen
<1>4. "DUE" \in When
  BY DEF When
<1> QED
  BY <1>1, <1>2, <1>3, <1>4, MovedRests, QuietRequest

LEMMA StopPreserves ==
    ASSUME IInv, NEW e \in Events, Stop(e)
    PROVE  IInv'
<1> DEFINE d == db[e]
<1>1. /\ RowOK(e, d) /\ HasJourney(d) /\ release_customer(e)
      /\ UNCHANGED <<policy, calls>>
  BY DEF Stop, IInv, TypeOK, RowOK
<1>2. CASE /\ IsOpen(d) /\ MayMoveTo(d, "BLOCKED")
           /\ Request("stop", e, Close(Move(d, "BLOCKED")))
           /\ UNCHANGED lost
  <2> DEFINE c == Ended(d, "IN_RECOVERY", "BLOCKED")
  <2>1. InHand(e, d)
    BY <1>1, <1>2, OpenIsInHand
  <2>2. d = [d EXCEPT !.event = "IN_RECOVERY"]
    BY <2>1 DEF InHand, Row
  <2>3. Request("stop", e, c)
    BY <1>2, <2>2 DEF Ended
  <2>4. RowOK(e, c) /\ c.state = "CLOSED"
    BY <2>1, EndRests DEF JourneyState
  <2> HIDE DEF c
  <2>5. ~IsOpen(c)
    BY <2>4 DEF IsOpen, is_open, TERMINAL_JOURNEY_STATES
  <2>6. /\ lock' \in [Customers -> Events \cup {Free}]
        /\ OpenJourneyOwnsCustomer'
    BY <1>1, <1>2, <2>3, <2>5, LockReleased DEF Request
  <2> QED
    BY <1>1, <1>2, <2>3, <2>4, <2>6, RequestPreserves DEF IInv, TypeOK
<1>3. CASE /\ ~IsOpen(d)
           /\ Request("stop", e, Close(d))
           /\ lost' = IF Orphaned(CustomerOf[e])
                      THEN lost \cup {CustomerOf[e]} ELSE lost
  <2> DEFINE c == Close(d)
  <2>1. d.state = "CLOSED" /\ d \in Row
    BY <1>1, <1>3 DEF RowOK, RowInv, HasJourney, Resting, IsOpen, is_open,
                      JourneyState, TERMINAL_JOURNEY_STATES
  <2>2. /\ c \in Row /\ c.state = "CLOSED" /\ c.event = d.event
        /\ c.booked = d.booked /\ c.plan = d.plan /\ c.step = d.step
        /\ c.used = d.used
    BY <2>1 DEF Close, Move, Row, When
  <2>3. Request("stop", e, c)
    BY <1>3
  <2> HIDE DEF c
  <2>4. ~IsOpen(c)
    BY <2>2 DEF IsOpen, is_open, TERMINAL_JOURNEY_STATES
  <2>5. RowOK(e, c)
    BY <1>1, <2>1, <2>2, <2>4 DEF RowOK, RowInv, Resting, NO_JOURNEY,
                                  WithinLimits
  <2>6. /\ db \in [Events -> Row] /\ db' = [db EXCEPT ![e] = c]
        /\ lock \in [Customers -> Events \cup {Free}]
        /\ lock' = [lock EXCEPT ![CustomerOf[e]] = Free]
        /\ CustomerOf \in [Events -> Customers]
        /\ lost \in SUBSET Customers
        /\ OpenJourneyOwnsCustomer
    BY <1>1, <2>3, RecoveryConstants
       DEF IInv, TypeOK, Request, release_customer
  <2>7. lock' \in [Customers -> Events \cup {Free}] /\ lost' \in SUBSET Customers
    BY <1>3, <2>6
  <2>8. ASSUME NEW x \in Events, IsOpen(db'[x]), CustomerOf[x] \notin lost'
        PROVE  lock'[CustomerOf[x]] = x
    <3>1. IsOpen(db[x])
      BY <1>3, <2>4, <2>6, <2>8
    <3>2. CustomerOf[x] # CustomerOf[e] /\ CustomerOf[x] \notin lost
      BY <1>3, <2>8, <3>1 DEF Orphaned
    <3> QED
      BY <2>6, <3>1, <3>2 DEF OpenJourneyOwnsCustomer
  <2>9. OpenJourneyOwnsCustomer'
    BY <2>8 DEF OpenJourneyOwnsCustomer
  <2> QED
    BY <1>1, <2>3, <2>5, <2>7, <2>9, RequestPreserves
<1> QED
  BY <1>2, <1>3 DEF Stop

\* The kill switch only takes scheduled instants away.
LEMMA Unscheduled ==
    ASSUME NEW e \in Events, NEW r, RowOK(e, r), NEW w \in When
    PROVE  /\ RowOK(e, [r EXCEPT !.next = w])
           /\ IsOpen([r EXCEPT !.next = w]) <=> IsOpen(r)
<1> DEFINE t == [r EXCEPT !.next = w]
<1>1. /\ t \in Row /\ t.event = r.event /\ t.state = r.state
      /\ t.plan = r.plan /\ t.step = r.step /\ t.acts = r.acts
      /\ t.used = r.used /\ t.booked = r.booked
  BY DEF RowOK, Row
<1> HIDE DEF t
<1>2. RowOK(e, t) /\ (IsOpen(t) <=> IsOpen(r))
  BY <1>1 DEF RowOK, RowInv, IsOpen, CanBeAdvanced, Status, WithinLimits
<1> QED
  BY <1>2 DEF t

LEMMA KillSwitchPreserves ==
    ASSUME IInv, NEW on \in BOOLEAN, KillSwitch(on)
    PROVE  IInv'
<1>1. "NONE" \in When
  BY DEF When
<1>2. \A x \in Events : RowOK(x, db[x])
  BY DEF IInv, TypeOK, RowOK
<1>3. \A x \in Events : RowOK(x, db'[x]) /\ (IsOpen(db'[x]) <=> IsOpen(db[x]))
  BY <1>1, <1>2, Unscheduled DEF KillSwitch
<1>4. db' \in [Events -> Row]
  BY <1>3 DEF KillSwitch, RowOK
<1>5. OpenJourneyOwnsCustomer'
  BY <1>3 DEF IInv, OpenJourneyOwnsCustomer, KillSwitch
<1>6. /\ policy' \in [enabled: BOOLEAN, paused: BOOLEAN, threshold: BOOLEAN]
      /\ phase = "idle" /\ Commit
  BY DEF KillSwitch, IInv, TypeOK
<1> QED
  BY <1>3, <1>4, <1>5, <1>6, Requested
     DEF KillSwitch, RowOK, IInv, TypeOK

LEMMA PatchPolicyPreserves ==
    ASSUME IInv, PatchPolicy
    PROVE  IInv'
<1>1. OpenJourneyOwnsCustomer'
  BY DEF IInv, OpenJourneyOwnsCustomer, PatchPolicy
<1> QED
  BY <1>1, Requested DEF PatchPolicy, IInv, TypeOK
-----------------------------------------------------------------------------
(* Time and failures.                                                      *)

\* Time touches nothing RowInv speaks of.
LEMMA Aged ==
    ASSUME NEW e \in Events, NEW r, RowOK(e, r), NEW t \in Row,
           t.event = r.event, t.state = r.state, t.plan = r.plan,
           t.step = r.step, t.acts = r.acts, t.used = r.used,
           t.booked = r.booked
    PROVE  RowOK(e, t) /\ (IsOpen(t) <=> IsOpen(r))
BY DEF RowOK, RowInv, IsOpen, CanBeAdvanced, Status, WithinLimits

LEMMA EnvironmentPreserves ==
    ASSUME IInv, NEW e \in Events, NEW t, RowOK(e, t),
           IsOpen(t) => IsOpen(db[e]), Environment(t, e)
    PROVE  IInv'
<1>1. /\ db' \in [Events -> Row]
      /\ \A x \in Events : RowInv(x, db'[x])
  BY DEF Environment, IInv, TypeOK, RowOK
<1>2. OpenJourneyOwnsCustomer'
  BY LockKept DEF Environment
<1> QED
  BY <1>1, <1>2, Requested DEF Environment, IInv, TypeOK

LEMMA TimePassesPreserves ==
    ASSUME IInv, NEW e \in Events, TimePasses(e)
    PROVE  IInv'
<1> DEFINE d == db[e]
           n == IF d.next = "LATER" THEN "DUE" ELSE d.next
           t == [d EXCEPT !.sched = "DUE", !.next = n]
<1>1. RowOK(e, d) /\ Environment(t, e)
  BY DEF IInv, TypeOK, RowOK, TimePasses
<1>2. n \in When
  BY <1>1 DEF RowOK, Row, When
<1> HIDE DEF n
<1>3. /\ t \in Row /\ t.event = d.event /\ t.state = d.state
      /\ t.plan = d.plan /\ t.step = d.step /\ t.acts = d.acts
      /\ t.used = d.used /\ t.booked = d.booked
  BY <1>1, <1>2 DEF RowOK, Row
<1> HIDE DEF t, d
<1>4. RowOK(e, t) /\ (IsOpen(t) <=> IsOpen(d))
  BY <1>1, <1>3, Aged
<1> QED
  BY <1>1, <1>4, EnvironmentPreserves DEF d

LEMMA AgePreserves ==
    ASSUME IInv, NEW e \in Events, Age(e)
    PROVE  IInv'
<1> DEFINE d == db[e]
           t == [d EXCEPT !.aged = TRUE]
<1>1. RowOK(e, d) /\ Environment(t, e)
  BY DEF IInv, TypeOK, RowOK, Age
<1>2. /\ t \in Row /\ t.event = d.event /\ t.state = d.state
      /\ t.plan = d.plan /\ t.step = d.step /\ t.acts = d.acts
      /\ t.used = d.used /\ t.booked = d.booked
  BY <1>1 DEF RowOK, Row
<1> HIDE DEF t, d
<1>3. RowOK(e, t) /\ (IsOpen(t) <=> IsOpen(d))
  BY <1>1, <1>2, Aged
<1> QED
  BY <1>1, <1>3, EnvironmentPreserves DEF d

LEMMA LockExpiresPreserves ==
    ASSUME IInv, NEW c \in Customers, LockExpires(c)
    PROVE  IInv'
<1>1. /\ lock \in [Customers -> Events \cup {Free}]
      /\ lost \in SUBSET Customers
      /\ OpenJourneyOwnsCustomer
      /\ CustomerOf \in [Events -> Customers]
  BY RecoveryConstants DEF IInv, TypeOK
<1>2. TypeOK'
  BY <1>1 DEF IInv, TypeOK, LockExpires
<1>3. OpenJourneyOwnsCustomer'
  BY <1>1 DEF LockExpires, OpenJourneyOwnsCustomer, Orphaned
<1>4. CycleInv'
  BY DEF IInv, CycleInv, Pending, LockExpires
<1> QED
  BY <1>2, <1>3, <1>4 DEF IInv, LockExpires

LEMMA RestartPreserves ==
    ASSUME IInv, Restart
    PROVE  IInv'
<1>1. TypeOK'
  BY RecoveryConstants DEF IInv, TypeOK, Restart, Phase
<1>2. OpenJourneyOwnsCustomer'
  BY DEF Restart, OpenJourneyOwnsCustomer
<1>3. CycleInv'
  BY LaterReflexive DEF Restart, CycleInv, Pending
<1> QED
  BY <1>1, <1>2, <1>3 DEF IInv, Restart

-----------------------------------------------------------------------------
(* The invariant.                                                          *)

\* A fresh event is a row at rest.
LEMMA NewRowRests ==
    \A e \in Events : RowOK(e, NewRow)
<1> SUFFICES ASSUME NEW e \in Events
             PROVE  RowOK(e, NewRow)
  OBVIOUS
<1>1. NewRow \in Row
  BY NewRowType
<1>2. /\ NewRow.event = "AT_RISK" /\ NewRow.state = NO_JOURNEY
      /\ NewRow.acts = [i \in Steps |-> "NONE"] /\ NewRow.booked = 0
      /\ \A b \in Budget : NewRow.used[b] = 0
  BY DEF NewRow
<1>3. WithinLimits(NewRow)
  BY <1>2, PolicyLimits DEF WithinLimits, Budget
<1> QED
  BY <1>1, <1>2, <1>3 DEF RowOK, RowInv, IsOpen, is_open, NO_JOURNEY,
                          TERMINAL_JOURNEY_STATES, JourneyState

LEMMA InitIInv == Init => IInv
<1> SUFFICES ASSUME Init PROVE IInv
  OBVIOUS
<1>1. \A e \in Events : db[e] = NewRow /\ saved[e] = NewRow
  BY DEF Init
<1>2. \A e \in Events : RowInv(e, db[e]) /\ RowInv(e, saved[e])
  BY <1>1, NewRowRests DEF RowOK
<1>3. TypeOK
  <2>1. db \in [Events -> Row] /\ saved \in [Events -> Row]
    BY NewRowRests DEF Init, RowOK
  <2> QED
    BY <2>1 DEF Init, TypeOK, Phase
<1>4. CycleInv
  BY LaterReflexive DEF Init, CycleInv
<1>5. OpenJourneyOwnsCustomer
  BY <1>1 DEF OpenJourneyOwnsCustomer, NewRow, IsOpen, is_open, NO_JOURNEY,
              JourneyState, TERMINAL_JOURNEY_STATES
<1>6. \A e \in Control, i \in Steps : calls[e][i] = 0
  BY RecoveryConstants DEF Init
<1> QED
  BY <1>2, <1>3, <1>4, <1>5, <1>6 DEF IInv

LEMMA ScanPreserves ==
    ASSUME IInv, Scan
    PROVE  IInv'
<1>1. CASE BeginScan
  BY <1>1, BeginScanPreserves
<1>2. ASSUME NEW e \in Events, ScanSuppresses(e) PROVE IInv'
  BY <1>2, ScanSuppressesPreserves
<1>3. ASSUME NEW e \in Events, ScanLeaves(e) PROVE IInv'
  BY <1>3, ScanLeavesPreserves
<1>4. ASSUME NEW e \in Events, StartJourney(e) PROVE IInv'
  BY <1>4, StartJourneyPreserves
<1>5. CASE CommitScan
  BY <1>5, Committed DEF CommitScan
<1> QED
  BY <1>1, <1>2, <1>3, <1>4, <1>5 DEF Scan

LEMMA AdvancePreserves ==
    ASSUME IInv, NEW e \in Events, Advance(e)
    PROVE  IInv'
BY AdvanceWaitsPreserves, AdvanceBlockedPreserves, AdvanceEarlyPreserves,
   RegateAsksPreserves, RegateBlocksPreserves, ExecutePreserves,
   VerifyPreserves DEF Advance

LEMMA TickPreserves ==
    ASSUME IInv, Tick
    PROVE  IInv'
<1>1. CASE BeginTick
  BY <1>1, BeginTickPreserves
<1>2. ASSUME NEW e \in Events, Advance(e) PROVE IInv'
  BY <1>2, AdvancePreserves
<1>3. ASSUME NEW e \in Events, Settle(e) PROVE IInv'
  BY <1>3, SettlePreserves
<1>4. ASSUME NEW e \in Events, Expire(e) PROVE IInv'
  BY <1>4, ExpirePreserves
<1>5. CASE BeginSettle
  BY <1>5, BeginSettlePreserves
<1>6. CASE BeginExpire
  BY <1>6, BeginExpirePreserves
<1>7. CASE CommitTick
  BY <1>7, Committed DEF CommitTick
<1> QED
  BY <1>1, <1>2, <1>3, <1>4, <1>5, <1>6, <1>7 DEF Tick

LEMMA HumanPreserves ==
    ASSUME IInv, Human
    PROVE  IInv'
BY ApprovePreserves, RejectPreserves, PausePreserves, ResumePreserves,
   StopPreserves, KillSwitchPreserves, PatchPolicyPreserves DEF Human

LEMMA WorldPreserves ==
    ASSUME IInv, World
    PROVE  IInv'
BY TimePassesPreserves, AgePreserves, LockExpiresPreserves, RestartPreserves
   DEF World

\* IInv speaks of the variables only.
LEMMA StutterPreserves ==
    ASSUME IInv, UNCHANGED vars
    PROVE  IInv'
<1>1. TypeOK' /\ OpenJourneyOwnsCustomer'
  BY DEF IInv, TypeOK, OpenJourneyOwnsCustomer, vars
<1>2. CycleInv'
  BY DEF IInv, CycleInv, Pending, vars
<1> QED
  BY <1>1, <1>2 DEF IInv, vars

LEMMA IInvInductive == IInv /\ [Next]_vars => IInv'
BY ScanPreserves, TickPreserves, HumanPreserves, WorldPreserves,
   StutterPreserves DEF Next

\* The inductive invariant, from which the theorems below follow: rows at
\* rest are in order, in the session and as committed, and a running cycle
\* only moves rows forward (orchestrator.py).
THEOREM Invariant == Spec => []IInv
BY InitIInv, IInvInductive, PTL DEF Spec

\* Every variable keeps its type: no path raises a budget past the naturals,
\* none leaves a journey with a step its plan does not have.
THEOREM TypeCorrect == Spec => []TypeOK
<1>1. IInv => TypeOK
  BY DEF IInv
<1> QED
  BY <1>1, Invariant, PTL

\* The customer lock: an open journey owns its customer, whatever is asked
\* of it and however the cycle ends, until the lock is taken from it by
\* expiry, by a restart, by a stop or by a rollback (orchestrator.py:3-5).
THEOREM OneOwner == Spec => []OpenJourneyOwnsCustomer
<1>1. IInv => OpenJourneyOwnsCustomer
  BY DEF IInv
<1> QED
  BY <1>1, Invariant, PTL

\* A treated event is in the ledger once if it recovered, and not at all
\* otherwise (verifier._book, ledger.book_recovery).
THEOREM BookedOnce == Spec => []RecoveredIffBookedOnce
<1>1. IInv => RecoveredIffBookedOnce
  BY DEF IInv, RowInv, RecoveredIffBookedOnce
<1> QED
  BY <1>1, Invariant, PTL

\* The control cohort is never worked on (scan, _settle_control_cohort).
THEOREM HoldoutUntouched == Spec => []ControlUntouched
<1>1. IInv => ControlUntouched
  <2>1. \A e \in Control : e \in Events
    BY RecoveryConstants
  <2>2. ASSUME IInv, NEW e \in Control PROVE db[e].state = NO_JOURNEY
    BY <2>1, <2>2 DEF IInv, RowInv
  <2> QED
    BY <2>1, <2>2 DEF IInv, RowInv, ControlUntouched
<1> QED
  BY <1>1, Invariant, PTL

\* No journey spends more contacts, retries, discounts or voice calls than
\* the policy allows, approvals and repeated executions included
\* (policy.evaluate, _regate, _consume_budget).
THEOREM BudgetRespected == Spec => []WithinBudget
<1>1. IInv => WithinBudget
  BY DEF IInv, RowInv, WithinBudget
<1> QED
  BY <1>1, Invariant, PTL

\* Between cycles an open journey rests where the next tick can take it
\* further (_advance, transition).
THEOREM NoStrandedJourney == Spec => []OpenJourneyCanBeAdvanced
<1>1. IInv => OpenJourneyCanBeAdvanced
  BY DEF IInv, RowInv, OpenJourneyCanBeAdvanced
<1> QED
  BY <1>1, Invariant, PTL
-----------------------------------------------------------------------------
(* The steps: what a committed transaction may do to a row.                *)

\* A row moves on the way EventFate allows, and a closed journey stays so.
RowForward(e, r, t) ==
    /\ t.event \in Fate!Later(e, r.event)
    /\ r.state = "CLOSED" => t.state = "CLOSED"

SavedForward == \A x \in Events : RowForward(x, saved[x], saved'[x])

\* A commit adds what its own step does to what the cycle did before.
LEMMA CommitForward ==
    ASSUME IInv, Commit, \A x \in Events : RowForward(x, db[x], db'[x])
    PROVE  SavedForward
<1> SUFFICES ASSUME NEW x \in Events
             PROVE  RowForward(x, saved[x], db'[x])
  BY DEF SavedForward, Commit
<1>1. RowForward(x, saved[x], db[x])
  BY DEF IInv, CycleInv, RowForward
<1> QED
  BY <1>1, LaterTransitive DEF RowForward

\* A step that is no commit moves no committed row.
LEMMA NoCommitForward ==
    ASSUME saved' = saved
    PROVE  SavedForward
BY LaterReflexive DEF SavedForward, RowForward

LEMMA SameForward ==
    ASSUME IInv, Commit, db' = db
    PROVE  SavedForward
BY CommitForward, LaterReflexive DEF RowForward

LEMMA RequestForward ==
    ASSUME IInv, NEW op, NEW e \in Events, NEW r, Request(op, e, r),
           RowForward(e, db[e], r)
    PROVE  SavedForward
<1>1. \A x \in Events : RowForward(x, db[x], db'[x])
  BY LaterReflexive DEF Request, IInv, TypeOK, RowForward
<1> QED
  BY <1>1, CommitForward DEF Request

LEMMA EnvironmentForward ==
    ASSUME IInv, NEW e \in Events, NEW r, Environment(r, e),
           RowForward(e, db[e], r)
    PROVE  SavedForward
<1>1. \A x \in Events : RowForward(x, db[x], db'[x])
  BY LaterReflexive DEF Environment, IInv, TypeOK, RowForward
<1> QED
  BY <1>1, CommitForward DEF Environment

LEMMA ScanForward ==
    ASSUME IInv, Scan
    PROVE  SavedForward
<1>1. saved' = saved \/ (db' = db /\ Commit)
  BY DEF Scan, BeginScan, ScanSuppresses, ScanLeaves, StartJourney, CommitScan
<1> QED
  BY <1>1, NoCommitForward, SameForward

LEMMA TickForward ==
    ASSUME IInv, Tick
    PROVE  SavedForward
<1>1. ASSUME NEW e \in Events, Advance(e) PROVE saved' = saved
  BY <1>1 DEF Advance, AdvanceWaits, AdvanceBlocked, AdvanceEarly, RegateAsks,
              RegateBlocks, Execute, Verify, Outcome, NextStepOrClose, Raise
<1>2. saved' = saved \/ (db' = db /\ Commit)
  BY <1>1 DEF Tick, BeginTick, BeginSettle, BeginExpire, Settle, Expire, Raise,
              CommitTick
<1> QED
  BY <1>2, NoCommitForward, SameForward

\* The operations on the row of an event that are no decision about it.
LEMMA SameEventForward ==
    ASSUME NEW e, NEW r, NEW t, t.event = r.event,
           r.state = "CLOSED" => t.state = "CLOSED"
    PROVE  RowForward(e, r, t)
BY LaterReflexive DEF RowForward

\* A request that may move a closed journey leaves it closed.
LEMMA MovedForward ==
    ASSUME NEW e, NEW r \in Row, NEW target, MayMoveTo(r, target), NEW w
    PROVE  RowForward(e, r, [Move(r, target) EXCEPT !.next = w])
<1> DEFINE t == [Move(r, target) EXCEPT !.next = w]
<1>1. t.event = r.event /\ t.state = target
  BY DEF Move, Row
<1>2. r.state = "CLOSED" => target = "CLOSED"
  BY ClosedMovesNowhere DEF MayMoveTo
<1> HIDE DEF t
<1>3. RowForward(e, r, t)
  BY <1>1, <1>2, SameEventForward
<1> QED
  BY <1>3 DEF t

LEMMA ApproveForward ==
    ASSUME IInv, NEW e \in Events, NEW i \in Steps, Approve(e, i)
    PROVE  SavedForward
<1> DEFINE d == db[e]
           n == IF d.state = "AWAITING_APPROVAL" THEN "APPROVED" ELSE d.state
           w == IF i = d.step THEN "DUE" ELSE d.sched
           a == [d EXCEPT !.acts[i] = "APPROVED", !.sched = w, !.state = n,
                          !.next = "DUE"]
<1>1. Request("approve", e, a) /\ d \in Row
  BY DEF Approve, IInv, TypeOK
<1>2. a.event = d.event /\ a.state = n
  BY <1>1 DEF Row
<1>3. d.state = "CLOSED" => n = "CLOSED"
  OBVIOUS
<1> HIDE DEF a, n, d
<1>4. RowForward(e, d, a)
  BY <1>2, <1>3, SameEventForward
<1> QED
  BY <1>1, <1>4, RequestForward DEF d

LEMMA RejectForward ==
    ASSUME IInv, NEW e \in Events, NEW i \in Steps, reject_action(e, i)
    PROVE  SavedForward
<1> DEFINE d == db[e]
           b == [d EXCEPT !.acts[i] = "CANCELLED", !.event = "SUPPRESSED"]
           c == Close(Move(b, "BLOCKED"))
<1>1. RowOK(e, d) /\ d.acts[i] # "NONE" /\ MayMoveTo(d, "BLOCKED")
  BY DEF IInv, TypeOK, RowOK, reject_action
<1>2. HasJourney(d)
  BY <1>1 DEF RowOK, RowInv, HasJourney
<1>3. IsOpen(d) /\ InHand(e, d)
  BY <1>1, <1>2, MovableIsOpen DEF JourneyState
<1>4. c.event = "SUPPRESSED" /\ c.state = "CLOSED"
  BY <1>1 DEF Close, Move, Row, RowOK
<1>5. Request("reject", e, c)
  BY DEF reject_action
<1> HIDE DEF c
<1>6. RowForward(e, d, c)
  BY <1>3, <1>4, LaterInRecovery DEF RowForward, InHand
<1> QED
  BY <1>5, <1>6, RequestForward

LEMMA StopForward ==
    ASSUME IInv, NEW e \in Events, Stop(e)
    PROVE  SavedForward
<1> DEFINE d == db[e]
<1>1. d \in Row
  BY DEF IInv, TypeOK
<1>2. CASE Request("stop", e, Close(Move(d, "BLOCKED")))
  <2> DEFINE c == Close(Move(d, "BLOCKED"))
  <2>1. c.event = d.event /\ c.state = "CLOSED"
    BY <1>1 DEF Close, Move, Row
  <2> HIDE DEF c
  <2>2. RowForward(e, d, c)
    BY <2>1, SameEventForward
  <2> QED
    BY <1>2, <2>2, RequestForward DEF c
<1>3. CASE Request("stop", e, Close(d))
  <2> DEFINE c == Close(d)
  <2>1. c.event = d.event /\ c.state = "CLOSED"
    BY <1>1 DEF Close, Move, Row
  <2> HIDE DEF c
  <2>2. RowForward(e, d, c)
    BY <2>1, SameEventForward
  <2> QED
    BY <1>3, <2>2, RequestForward DEF c
<1> QED
  BY <1>2, <1>3 DEF Stop

LEMMA HumanForward ==
    ASSUME IInv, Human
    PROVE  SavedForward
<1>1. ASSUME NEW e \in Events, Pause(e) PROVE SavedForward
  BY <1>1, MovedForward, RequestForward DEF Pause, IInv, TypeOK
<1>2. ASSUME NEW e \in Events, Resume(e) PROVE SavedForward
  <2> DEFINE target == IF Status(db[e]) = "APPROVED" THEN "APPROVED"
                       ELSE "PLANNED"
  <2>1. /\ MayMoveTo(db[e], target)
        /\ Request("resume", e, [Move(db[e], target) EXCEPT !.next = "DUE"])
        /\ db[e] \in Row
    BY <1>2 DEF Resume, IInv, TypeOK
  <2> HIDE DEF target
  <2> QED
    BY <2>1, MovedForward, RequestForward
<1>3. ASSUME NEW on \in BOOLEAN, KillSwitch(on) PROVE SavedForward
  <2>1. \A x \in Events : /\ db'[x].event = db[x].event
                          /\ db'[x].state = db[x].state
    BY <1>3 DEF KillSwitch, IInv, TypeOK, Row
  <2>2. \A x \in Events : RowForward(x, db[x], db'[x])
    BY <2>1, SameEventForward
  <2> QED
    BY <1>3, <2>2, CommitForward DEF KillSwitch
<1>4. CASE PatchPolicy
  BY <1>4, SameForward DEF PatchPolicy
<1> QED
  BY <1>1, <1>2, <1>3, <1>4, ApproveForward, RejectForward, StopForward
     DEF Human

LEMMA WorldForward ==
    ASSUME IInv, World
    PROVE  SavedForward
<1>1. ASSUME NEW e \in Events, TimePasses(e) PROVE SavedForward
  <2> DEFINE d == db[e]
             t == [d EXCEPT !.sched = "DUE",
                            !.next = IF d.next = "LATER" THEN "DUE"
                                     ELSE d.next]
  <2>1. Environment(t, e) /\ d \in Row
    BY <1>1 DEF TimePasses, IInv, TypeOK
  <2>2. t.event = d.event /\ t.state = d.state
    BY <2>1 DEF Row
  <2> HIDE DEF t, d
  <2>3. RowForward(e, d, t)
    BY <2>2, SameEventForward
  <2> QED
    BY <2>1, <2>3, EnvironmentForward DEF d
<1>2. ASSUME NEW e \in Events, Age(e) PROVE SavedForward
  <2> DEFINE t == [db[e] EXCEPT !.aged = TRUE]
  <2>1. Environment(t, e) /\ db[e] \in Row
    BY <1>2 DEF Age, IInv, TypeOK
  <2>2. t.event = db[e].event /\ t.state = db[e].state
    BY <2>1 DEF Row
  <2> HIDE DEF t
  <2> QED
    BY <2>1, <2>2, SameEventForward, EnvironmentForward
<1>3. (\E c \in Customers : LockExpires(c)) \/ Restart => saved' = saved
  BY DEF LockExpires, Restart
<1> QED
  BY <1>1, <1>2, <1>3, NoCommitForward DEF World

LEMMA StepForward == IInv /\ [Next]_vars => SavedForward
BY ScanForward, TickForward, HumanForward, WorldForward, NoCommitForward
   DEF Next, vars

\* A closed journey stays closed, approvals, resumptions, stops and rolled
\* back cycles included (journey.py:16-86).
THEOREM ClosedStaysClosed == Spec => ClosedIsFinal
<1>1. IInv /\ [Next]_vars =>
          [\A e \in Events : saved[e].state = "CLOSED" =>
                                saved'[e].state = "CLOSED"]_vars
  BY StepForward DEF SavedForward, RowForward
<1> QED
  BY <1>1, Invariant, PTL DEF Spec, ClosedIsFinal

-----------------------------------------------------------------------------
(* The gate in front of the gateway.                                       *)

\* A journey the tick has not handled is as it was committed, unless this
\* very transaction started it.
LEMMA CallGated ==
    ASSUME IInv, NEW e \in Events, Execute(e)
    PROVE  /\ policy.enabled /\ ~policy.paused
           /\ saved[e].state # "PAUSED" /\ saved[e].event # "RECOVERED"
<1>1. /\ IsOpen(db[e]) /\ RowInv(e, saved[e]) /\ RowInv(e, db[e])
      /\ db[e] = saved[e] \/ saved[e].event = "AT_RISK"
      /\ policy.enabled /\ db[e].plan \in Plans /\ db[e] \in Row
      /\ db[e].step \in 1..Len(db[e].plan)
  BY DEF IInv, TypeOK, CycleInv, Pending, IsDue, Execute, Advancing, RowInv,
         IsOpen, is_open, NO_JOURNEY, JourneyState
<1>2. PICK env \in GateEnvs : Verdict(e, db[e], db[e].step, env) = "ALLOW"
  BY DEF Execute
<1>3. Action(db[e]) # "DO_NOTHING"
  BY <1>1, RecoveryConstants DEF Action
<1>4. ~policy.paused /\ db[e].state # "PAUSED" /\ db[e].event # "RECOVERED"
  <2> DEFINE g == GateFor(e, db[e], db[e].step, env, "NONE")
  <2>1. g.paused = (policy.paused \/ db[e].state = "PAUSED")
    BY DEF GateFor
  <2>2. g.recovered = (db[e].event = "RECOVERED")
    BY DEF GateFor
  <2>3. evaluate(Action(db[e]), g) = "ALLOW"
    BY <1>2 DEF Verdict, Action
  <2> HIDE DEF g
  <2>4. ~g.paused /\ ~g.recovered
    BY <1>3, <2>3, AllowMeans
  <2> QED
    BY <2>1, <2>2, <2>4
<1>5. saved[e].event = "AT_RISK" => saved[e].state = NO_JOURNEY
  BY <1>1 DEF RowInv
<1> QED
  BY <1>1, <1>4, <1>5 DEF NO_JOURNEY

\* The executor is the only one to call the gateway, for the journey it is
\* handed.
LEMMA OnlyExecuteCalls ==
    ASSUME IInv, [Next]_vars, NEW e \in Events, calls'[e] # calls[e]
    PROVE  Execute(e)
<1>1. ASSUME NEW x \in Events, Execute(x) PROVE x = e
  BY <1>1 DEF Execute, IInv, TypeOK
<1>2. ASSUME NEW x \in Events, Advance(x), ~Execute(x) PROVE calls' = calls
  BY <1>2 DEF Advance, AdvanceWaits, AdvanceBlocked, AdvanceEarly, RegateAsks,
              RegateBlocks, Verify
<1>3. ~Scan
  BY DEF Scan, BeginScan, ScanSuppresses, ScanLeaves, StartJourney, CommitScan
<1>4. ~Human
  BY DEF Human, Approve, reject_action, Pause, Resume, Stop, KillSwitch,
         PatchPolicy
<1>5. ~World
  BY DEF World, TimePasses, Age, Environment, LockExpires, Restart
<1>6. Tick
  BY <1>3, <1>4, <1>5 DEF Next, vars
<1> QED
  BY <1>1, <1>2, <1>6 DEF Tick, BeginTick, Settle, Expire, BeginSettle,
                          BeginExpire, CommitTick

\* The gateway is called only with the automation on, and never for a
\* journey that is paused or an event that has recovered (_regate, tick).
THEOREM GatedCalls == Spec => CallsAreGated
<1>1. IInv /\ [Next]_vars =>
          [\A e \in Events : calls'[e] # calls[e] =>
             /\ policy.enabled /\ ~policy.paused
             /\ saved[e].state # "PAUSED"
             /\ saved[e].event # "RECOVERED"]_vars
  BY CallGated, OnlyExecuteCalls
<1> QED
  BY <1>1, Invariant, PTL DEF Spec, CallsAreGated

-----------------------------------------------------------------------------
(* Halted journeys.                                                        *)

\* What a halted journey may turn into without a person: itself or its end.
StaysHalted(r) == Halted(r) \/ ~IsOpen(r)

\* A cycle does not wake what was halted when the cycle began.
HaltedRows == \A e \in Events : Halted(saved[e]) => StaysHalted(db[e])

\* A row that is scanned, advanced or settled was not halted.
LEMMA PendingIsAwake ==
    ASSUME IInv, phase \in {"scan", "tick", "settle"}, NEW e \in todo
    PROVE  e \in Events /\ ~Halted(saved[e])
<1>1. /\ e \in Events /\ RowInv(e, db[e]) /\ RowInv(e, saved[e])
      /\ db[e].event \in Fate!Later(e, saved[e].event) /\ Pending(e)
  BY DEF IInv, TypeOK, CycleInv
<1>2. saved[e].event = "AT_RISK" => ~IsOpen(saved[e])
  BY <1>1 DEF RowInv, IsOpen, is_open, NO_JOURNEY, JourneyState
<1>3. CASE phase = "scan"
  BY <1>1, <1>2, <1>3, AtRiskIsFirst DEF Pending, Halted
<1>4. CASE phase = "tick"
  <2>1. db[e] = saved[e] \/ saved[e].event = "AT_RISK"
    BY <1>4 DEF IInv, CycleInv
  <2>2. IsDue(db[e])
    BY <1>1, <1>4 DEF Pending
  <2> QED
    BY <1>1, <1>2, <2>1, <2>2 DEF IsDue, Halted
<1>5. CASE phase = "settle"
  <2>1. e \in Control
    BY <1>1, <1>5 DEF Pending
  <2>2. saved[e].state = NO_JOURNEY
    BY <1>1, <2>1 DEF RowInv
  <2> QED
    BY <1>1, <2>2 DEF Halted, IsOpen, is_open, NO_JOURNEY, JourneyState
<1> QED
  BY <1>3, <1>4, <1>5

\* One step of a cycle for event e, or the rollback of the whole.
CycleStep(e) ==
    /\ e \in todo /\ saved' = saved
    /\ \/ \E r : Handle(e, r)
       \/ db' = saved

LEMMA ScanSteps ==
    ASSUME NEW e \in Events, ScanSuppresses(e) \/ ScanLeaves(e) \/ StartJourney(e)
    PROVE  phase = "scan" /\ CycleStep(e)
<1>1. CASE ScanSuppresses(e)
  BY <1>1 DEF ScanSuppresses, CycleStep
<1>2. CASE ScanLeaves(e)
  BY <1>2 DEF ScanLeaves, CycleStep
<1>3. CASE StartJourney(e)
  BY <1>3 DEF StartJourney, CycleStep
<1> QED
  BY <1>1, <1>2, <1>3

LEMMA NextStepSteps ==
    ASSUME NEW e, e \in todo, NEW ctx, NEW r, NextStepOrClose(e, ctx, r)
    PROVE  CycleStep(e)
BY DEF NextStepOrClose, CycleStep, Raise, Rollback

LEMMA OutcomeSteps ==
    ASSUME NEW e, e \in todo, NEW ctx, NEW r, Outcome(e, ctx, r)
    PROVE  CycleStep(e)
BY NextStepSteps DEF Outcome, CycleStep, Raise, Rollback

LEMMA AdvanceSteps ==
    ASSUME NEW e \in Events, Advance(e)
    PROVE  phase = "tick" /\ CycleStep(e)
<1>1. CASE AdvanceWaits(e)
  BY <1>1 DEF AdvanceWaits, Advancing, CycleStep
<1>2. CASE AdvanceBlocked(e)
  BY <1>2, NextStepSteps DEF AdvanceBlocked, Advancing
<1>3. CASE AdvanceEarly(e)
  BY <1>3 DEF AdvanceEarly, Advancing, CycleStep
<1>4. CASE RegateAsks(e)
  BY <1>4 DEF RegateAsks, Advancing, CycleStep, Raise, Rollback
<1>5. CASE RegateBlocks(e)
  BY <1>5, NextStepSteps DEF RegateBlocks, Advancing
<1>6. CASE Execute(e)
  BY <1>6, OutcomeSteps DEF Execute, Advancing, CycleStep, Raise, Rollback
<1>7. CASE Verify(e)
  BY <1>7, OutcomeSteps DEF Verify, Advancing, CycleStep, Raise, Rollback
<1> QED
  BY <1>1, <1>2, <1>3, <1>4, <1>5, <1>6, <1>7 DEF Advance

LEMMA SettleSteps ==
    ASSUME NEW e \in Events, Settle(e)
    PROVE  phase = "settle" /\ CycleStep(e)
BY DEF Settle, CycleStep, Raise, Rollback

\* What is committed as it stands in the session is halted in both or in
\* neither.
LEMMA SettledHalt ==
    ASSUME saved' = db'
    PROVE  HaltedRows'
BY DEF HaltedRows, StaysHalted

LEMMA CycleStepHalt ==
    ASSUME IInv, HaltedRows, phase \in {"scan", "tick", "settle"},
           NEW e, CycleStep(e)
    PROVE  HaltedRows'
<1>1. e \in Events /\ ~Halted(saved[e]) /\ saved' = saved
  BY PendingIsAwake DEF CycleStep
<1>2. CASE \E r : Handle(e, r)
  <2>1. \A x \in Events \ {e} : db'[x] = db[x]
    BY <1>2 DEF Handle, IInv, TypeOK
  <2> QED
    BY <1>1, <2>1 DEF HaltedRows
<1>3. CASE db' = saved
  BY <1>1, <1>3, SettledHalt
<1> QED
  BY <1>2, <1>3 DEF CycleStep

\* The journeys past their TTL are closed.
LEMMA ExpireHalt ==
    ASSUME IInv, HaltedRows, NEW e \in Events, Expire(e)
    PROVE  HaltedRows'
<1> DEFINE x == [db[e] EXCEPT !.event = "LOST"]
           r == Close(Move(x, "EXPIRED"))
<1>1. saved' = saved /\ db \in [Events -> Row]
  BY DEF Expire, Raise, Rollback, IInv, TypeOK
<1>2. CASE Handle(e, r)
  <2>1. ~IsOpen(r)
    BY <1>1 DEF Close, Move, IsOpen, is_open, TERMINAL_JOURNEY_STATES, Row
  <2>2. db' = [db EXCEPT ![e] = r]
    BY <1>2 DEF Handle
  <2> HIDE DEF r
  <2> QED
    BY <1>1, <2>1, <2>2 DEF HaltedRows, StaysHalted
<1>3. CASE Raise
  BY <1>3, SettledHalt DEF Raise, Rollback
<1> QED
  BY <1>2, <1>3 DEF Expire

\* A step that opens the next part of a cycle touches no row.
LEMMA SameRowsHalt ==
    ASSUME HaltedRows, db' = db, saved' = saved
    PROVE  HaltedRows'
BY DEF HaltedRows

LEMMA HaltStep ==
    ASSUME IInv, HaltedRows, [Next]_vars
    PROVE  HaltedRows'
<1>1. CASE Scan
  <2>1. CASE BeginScan
    BY <2>1, SameRowsHalt DEF BeginScan
  <2>2. ASSUME NEW e \in Events,
               ScanSuppresses(e) \/ ScanLeaves(e) \/ StartJourney(e)
        PROVE  HaltedRows'
    BY <2>2, ScanSteps, CycleStepHalt
  <2>3. CASE CommitScan
    BY <2>3, SettledHalt DEF CommitScan, Commit
  <2> QED
    BY <1>1, <2>1, <2>2, <2>3 DEF Scan
<1>2. CASE Tick
  <2>1. CASE BeginTick \/ BeginSettle \/ BeginExpire
    BY <2>1, SameRowsHalt DEF BeginTick, BeginSettle, BeginExpire
  <2>2. ASSUME NEW e \in Events, Advance(e) PROVE HaltedRows'
    BY <2>2, AdvanceSteps, CycleStepHalt
  <2>3. ASSUME NEW e \in Events, Settle(e) PROVE HaltedRows'
    BY <2>3, SettleSteps, CycleStepHalt
  <2>4. ASSUME NEW e \in Events, Expire(e) PROVE HaltedRows'
    BY <2>4, ExpireHalt
  <2>5. CASE CommitTick
    BY <2>5, SettledHalt DEF CommitTick, Commit
  <2> QED
    BY <1>2, <2>1, <2>2, <2>3, <2>4, <2>5 DEF Tick
<1>3. CASE Human
  <2>1. saved' = db'
    BY <1>3 DEF Human, Approve, reject_action, Pause, Resume, Stop, Request,
                KillSwitch, PatchPolicy, Commit
  <2> QED
    BY <2>1, SettledHalt
<1>4. CASE World
  <2>1. ASSUME NEW c \in Customers, LockExpires(c) PROVE HaltedRows'
    BY <2>1, SameRowsHalt DEF LockExpires
  <2>2. ASSUME NEW e \in Events, TimePasses(e) \/ Age(e) PROVE HaltedRows'
    BY <2>2, SettledHalt DEF TimePasses, Age, Environment, Commit
  <2>3. CASE Restart
    BY <2>3, SettledHalt DEF Restart
  <2> QED
    BY <1>4, <2>1, <2>2, <2>3 DEF World
<1>5. CASE UNCHANGED vars
  BY <1>5, SameRowsHalt DEF vars
<1> QED
  BY <1>1, <1>2, <1>3, <1>4, <1>5 DEF Next

\* A journey that was halted when the cycle began is not woken in the cycle:
\* in the rows of the open session it is halted or closed (_due_journeys takes
\* only journeys with an instant, _expire_stale only closes).
THEOREM CyclesKeepHalted == Spec => []HaltedRows
<1>1. Init => HaltedRows
  BY DEF Init, HaltedRows, StaysHalted
<1>2. IInv /\ HaltedRows /\ [Next]_vars => HaltedRows'
  BY HaltStep
<1> QED
  BY <1>1, <1>2, Invariant, PTL DEF Spec

\* A person's request or the clock changes one row of those committed.
LEMMA OneRowChanges ==
    ASSUME IInv, phase = "idle", NEW e \in Events, NEW x \in Events, x # e,
           NEW r, db' = [db EXCEPT ![x] = r], Commit
    PROVE  saved'[e] = saved[e]
BY DEF IInv, TypeOK, CycleInv, Commit

LEMMA OnlyPeopleWake ==
    ASSUME IInv, HaltedRows, [Next]_vars, NEW e \in Events, Halted(saved[e])
    PROVE  \/ StaysHalted(saved'[e])
           \/ Resume(e)
           \/ \E i \in Steps : Approve(e, i)
<1>1. CASE saved' = saved
  BY <1>1 DEF StaysHalted
<1>2. CASE db' = db /\ Commit
  BY <1>2 DEF HaltedRows, Commit
<1>3. Scan \/ Tick \/ (\E c \in Customers : LockExpires(c)) \/ Restart
      \/ PatchPolicy \/ UNCHANGED vars
          => saved' = saved \/ (db' = db /\ Commit)
  <2>1. Scan => saved' = saved \/ (db' = db /\ Commit)
    BY DEF Scan, BeginScan, ScanSuppresses, ScanLeaves, StartJourney,
           CommitScan
  <2>2. ASSUME NEW x \in Events, Advance(x) \/ Settle(x)
        PROVE  saved' = saved
    BY <2>2, AdvanceSteps, SettleSteps DEF CycleStep
  <2>3. Tick => saved' = saved \/ (db' = db /\ Commit)
    BY <2>2 DEF Tick, BeginTick, BeginSettle, BeginExpire, Expire, Raise,
                CommitTick
  <2> QED
    BY <2>1, <2>3 DEF LockExpires, Restart, PatchPolicy, vars
<1>4. ASSUME NEW x \in Events, NEW r, phase = "idle",
             db' = [db EXCEPT ![x] = r], Commit,
             ~IsOpen(r) \/ r.next = "NONE" \/ x # e
      PROVE  StaysHalted(saved'[e])
  <2>1. CASE x # e
    BY <1>4, <2>1, OneRowChanges DEF StaysHalted
  <2>2. CASE x = e
    <3>1. saved'[e] = r
      BY <1>4, <2>2 DEF Commit, IInv, TypeOK
    <3> QED
      BY <1>4, <2>2, <3>1 DEF StaysHalted, Halted
  <2> QED
    BY <2>1, <2>2
<1>5. ASSUME NEW x \in Events, NEW i \in Steps, Approve(x, i), x # e
      PROVE  StaysHalted(saved'[e])
  BY <1>4, <1>5 DEF Approve, Request
<1>6. ASSUME NEW x \in Events, Resume(x), x # e
      PROVE  StaysHalted(saved'[e])
  BY <1>4, <1>6 DEF Resume, Request
<1>8. ASSUME NEW x \in Events, NEW i \in Steps, reject_action(x, i)
      PROVE  StaysHalted(saved'[e])
  <2> DEFINE b == [db[x] EXCEPT !.acts[i] = "CANCELLED",
                                !.event = "SUPPRESSED"]
             c == Close(Move(b, "BLOCKED"))
  <2>1. db[x] \in Row
    BY DEF IInv, TypeOK
  <2>2. ~IsOpen(c)
    BY <2>1 DEF Close, Move, IsOpen, is_open, TERMINAL_JOURNEY_STATES, Row
  <2>3. Request("reject", x, c)
    BY <1>8 DEF reject_action
  <2> HIDE DEF c
  <2> QED
    BY <1>4, <2>2, <2>3 DEF Request
<1>9. ASSUME NEW x \in Events, Pause(x) PROVE StaysHalted(saved'[e])
  <2> DEFINE c == [Move(db[x], "PAUSED") EXCEPT !.next = "NONE"]
  <2>1. c.next = "NONE"
    BY DEF Move, IInv, TypeOK, Row
  <2>2. Request("pause", x, c)
    BY <1>9 DEF Pause
  <2> HIDE DEF c
  <2> QED
    BY <1>4, <2>1, <2>2 DEF Request
<1>10. ASSUME NEW x \in Events, Stop(x) PROVE StaysHalted(saved'[e])
  <2>1. db[x] \in Row
    BY DEF IInv, TypeOK
  <2> DEFINE a == Close(Move(db[x], "BLOCKED"))
             b == Close(db[x])
  <2>2. ~IsOpen(a) /\ ~IsOpen(b)
    BY <2>1 DEF Close, Move, IsOpen, is_open, TERMINAL_JOURNEY_STATES, Row
  <2>3. Request("stop", x, a) \/ Request("stop", x, b)
    BY <1>10 DEF Stop
  <2> HIDE DEF a, b
  <2> QED
    BY <1>4, <2>2, <2>3 DEF Request
<1>11. ASSUME NEW on \in BOOLEAN, KillSwitch(on) PROVE StaysHalted(saved'[e])
  <2>1. saved = db /\ db[e] \in Row /\ saved' = db'
    BY <1>11 DEF KillSwitch, IInv, TypeOK, CycleInv, Commit
  <2>2. db'[e] = IF IsOpen(db[e]) /\ ~on
                 THEN [db[e] EXCEPT !.next = "NONE"] ELSE db[e]
    BY <1>11 DEF KillSwitch
  <2>3. [db[e] EXCEPT !.next = "NONE"].next = "NONE"
    BY <2>1 DEF Row
  <2> QED
    BY <2>1, <2>2, <2>3 DEF StaysHalted, Halted
<1>12. ASSUME NEW x \in Events, TimePasses(x) \/ Age(x)
       PROVE  StaysHalted(saved'[e])
  <2>1. db[x] \in Row /\ saved = db
    BY <1>12 DEF TimePasses, Age, Environment, IInv, TypeOK, CycleInv
  <2> DEFINE t == [db[x] EXCEPT !.sched = "DUE",
                                !.next = IF @ = "LATER" THEN "DUE" ELSE @]
             a == [db[x] EXCEPT !.aged = TRUE]
  <2>2. x = e => t.next = "NONE" /\ a.next = "NONE"
    BY <2>1 DEF Row, Halted
  <2>3. Environment(t, x) \/ Environment(a, x)
    BY <1>12 DEF TimePasses, Age
  <2> HIDE DEF t, a
  <2> QED
    BY <1>4, <2>2, <2>3 DEF Environment
<1> QED
  BY <1>1, <1>2, <1>3, <1>5, <1>6, <1>8, <1>9, <1>10, <1>11, <1>12
     DEF Next, Human, World

\* A journey halted by the kill switch, by a pause or for an approval is left
\* alone by the worker, the clock and the policy until a person wakes it
\* (set_kill_switch, pause_journey, _due_journeys).
THEOREM HaltedStaysHalted == Spec => HaltedUntilAPersonActs
<1>1. IInv /\ HaltedRows /\ [Next]_vars =>
          [\A e \in Events : Halted(saved[e]) =>
              /\ calls'[e] = calls[e]
              /\ \/ Halted(saved'[e])
                 \/ ~IsOpen(saved'[e])
                 \/ Resume(e)
                 \/ \E i \in Steps : Approve(e, i)]_vars
  <2> SUFFICES ASSUME IInv, HaltedRows, [Next]_vars, NEW e \in Events,
                      Halted(saved[e])
               PROVE  /\ calls'[e] = calls[e]
                      /\ \/ Halted(saved'[e])
                         \/ ~IsOpen(saved'[e])
                         \/ Resume(e)
                         \/ \E i \in Steps : Approve(e, i)
    OBVIOUS
  <2>1. ~Execute(e)
    BY PendingIsAwake DEF Execute, Advancing
  <2> QED
    BY <2>1, OnlyExecuteCalls, OnlyPeopleWake DEF StaysHalted
<1> QED
  BY <1>1, Invariant, CyclesKeepHalted, PTL DEF Spec, HaltedUntilAPersonActs

-----------------------------------------------------------------------------
(* The refinement of EventFate.                                            *)

\* The ledger of the committed rows is the one EventFate speaks of.
LEMMA LedgerIsBooked ==
    ASSUME IInv
    PROVE  {e \in Events : saved[e].booked # 0} = Fate!Booked
<1>1. ASSUME NEW e \in Events
      PROVE  saved[e].booked # 0 <=>
                 (e \notin Control /\ saved[e].event = "RECOVERED")
  BY <1>1 DEF IInv, RowInv
<1> QED
  BY <1>1 DEF Fate!Booked

\* The committed rows implement EventFate: every transaction moves every
\* event forward, ends it once, and books what recovered (orchestrator.py,
\* verifier._book, docs/architecture.md:41).
THEOREM ImplementsEventFate == Spec => FateSpec
<1>1. Init => Fate!Init
  BY DEF Init, Fate!Init, NewRow
<1>2. IInv /\ IInv' /\ [Next]_vars =>
          [Fate!Next]_<<[e \in Events |-> saved[e].event],
                        {e \in Events : saved[e].booked # 0}>>
  <2> SUFFICES ASSUME IInv, IInv', [Next]_vars
               PROVE  Fate!Transaction
    BY DEF Fate!Next
  <2>1. \A e \in Events : saved'[e].event \in Fate!EventStatus
    BY DEF IInv, TypeOK, Row, EventStatus, Fate!EventStatus
  <2>2. \A e \in Events : saved'[e].event \in Fate!Later(e, saved[e].event)
    BY StepForward DEF SavedForward, RowForward
  <2>3. ({e \in Events : saved[e].booked # 0} = Fate!Booked)'
    BY LedgerIsBooked, PTL
  <2> QED
    BY <2>1, <2>2, <2>3 DEF Fate!Transaction
<1> QED
  BY <1>1, <1>2, Invariant, PTL DEF Spec, FateSpec, Fate!Spec
=============================================================================

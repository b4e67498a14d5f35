----------------------- MODULE Sessions_serial_proofs -----------------------
(***************************************************************************)
(* More proofs about Sessions: nobody is locked out for nothing, however   *)
(* many cycles overlap, and cycles of which none overlaps another keep the *)
(* journeys of a customer apart, book every event once and implement       *)
(* EventFate.  What a session may have loaded and written is SessionsInv,  *)
(* of Sessions_proofs.                                                     *)
(***************************************************************************)
EXTENDS Sessions_proofs

-----------------------------------------------------------------------------
(* The invariant of the lock, whatever overlaps.                           *)

\* A session flushes the row of a journey that it made before the journey can
\* be due, and that of its event with it: only a journey that is committed
\* makes Verifier._book wait.
Tidy(v) ==
    /\ v.phase = "idle" => v = Idle
    /\ v.closing => v.phase = "tick" /\ v.unflushed # {}
    /\ v.phase \in {"scan", "claimed"} => \A j \in Journeys :
          /\ JourneyRow(j) \notin v.unflushed
          /\ JourneyRow(j) \in v.dirty => EventRow(v.journey[j].event) \in Own(v)
    /\ v.phase = "released" =>
          /\ JourneyRow(v.starting) \in v.dirty
          /\ Open(v.journey[v.starting])
          /\ v.journey[v.starting].event = Min(v.todo)
          /\ \A j \in Journeys \ {v.starting} : JourneyRow(j) \in v.dirty =>
                EventRow(v.journey[j].event) \in v.dirty
    /\ v.phase = "tick" => \A j \in v.todo :
          /\ JourneyRow(j) \notin v.unflushed
          /\ JourneyRow(j) \in v.dirty => EventRow(v.journey[j].event) \in v.dirty

\* The journey that owns the customer is open in the rows of v, or v waits to
\* close it and to release the lock.
KeepsOpen(v, owner) ==
    owner \in Journeys /\ JourneyRow(owner) \in Own(v) =>
        \/ Open(v.journey[owner])
        \/ v.closing /\ JourneyRow(owner) \notin v.dirty

\* The journey that is to be named is not committed.
Unnamed(v, sv) == v.phase = "released" => sv.journey[v.starting] = NoRow

LockInv ==
    /\ \A s \in Sessions : Tidy(session[s])
    /\ \A s \in Sessions : Unnamed(session[s], saved)
    /\ ~world.undone => \A s \in Sessions : KeepsOpen(session[s], lock)
    /\ LockHasHolder

-----------------------------------------------------------------------------
(* The invariant of cycles that do not overlap.                            *)

\* What will be committed if v ends here.
After(v, sv) ==
    [event |-> [e \in Events |-> IF v.event[e] = None THEN sv.event[e]
                                 ELSE v.event[e]],
     journey |-> [j \in Journeys |-> IF v.journey[j] = None THEN sv.journey[j]
                                     ELSE v.journey[j]],
     ledger |-> [e \in Events |-> sv.ledger[e] + v.booked[e]]]

\* An event is booked once if it is RECOVERED and not otherwise, an open
\* journey is that of an event IN_RECOVERY, and no other is.
Consistent(w) ==
    /\ \A e \in Events :
          w.ledger[e] = IF w.event[e] = "RECOVERED" THEN 1 ELSE 0
    /\ \A j \in Journeys : Open(w.journey[j]) =>
          w.event[w.journey[j].event] = "IN_RECOVERY"
    /\ \A j, k \in Journeys :
          /\ Open(w.journey[j]) /\ Open(w.journey[k])
          /\ w.journey[j].event = w.journey[k].event
          => j = k

\* The event a session is making a journey of: its row is not yet flushed.
Starts(v, e) == v.phase = "released" /\ e = Min(v.todo)

\* What a session has loaded and not written is what is committed.
Fresh(v, sv) ==
    /\ \A e \in Events : v.event[e] # None /\ ~Starts(v, e) =>
          EventRow(e) \in v.dirty \/ v.event[e] = sv.event[e]
    /\ \A j \in Journeys : v.journey[j] # None =>
          JourneyRow(j) \in v.dirty \/ v.journey[j] = sv.journey[j]

\* What a session has before it is still to be done.
Todo(v) ==
    /\ v.phase \in {"scan", "claimed", "released"} =>
          \A e \in v.todo : Starts(v, e) \/ v.event[e] = "AT_RISK"
    /\ v.phase = "released" => v.event[Min(v.todo)] = "IN_RECOVERY"
    /\ v.phase = "tick" => \A j \in v.todo :
          Open(v.journey[j]) /\ v.event[v.journey[j].event] # None

\* The lock names the open journey, unless a cycle was rolled back.
Names(v, sv, owner, undone) ==
    /\ v.phase = "claimed" => owner = Pending
    /\ v.phase = "released" => owner = None
    /\ ~undone => \A j \in Journeys : Open(After(v, sv).journey[j]) =>
          owner = j \/ (v.phase = "released" /\ v.starting = j)

\* No event is behind what is committed of it.
Ahead(w, sv) == \A e \in Events : w.event[e] \in Fate!Later(e, sv.event[e])

OpenIsOne(sv) ==
    \A j, k \in Journeys : Open(sv.journey[j]) /\ Open(sv.journey[k]) => j = k

Serial(v, sv) ==
    /\ v.unflushed = {}
    /\ Consistent(After(v, sv))
    /\ Ahead(After(v, sv), sv)
    /\ Fresh(v, sv)
    /\ Todo(v)

\* s is the only session that may have begun.
Alone(s) == \A t \in Sessions \ {s} : session[t].phase = "idle"

SerialInv ==
    world.overlaps = 0 =>
        /\ Consistent(saved)
        /\ ~world.undone => OpenIsOne(saved)
        /\ \A s \in Sessions : session[s].phase # "idle" => Alone(s)
        /\ \A s \in Sessions : Serial(session[s], saved)
        /\ \A s \in Sessions : Alone(s) =>
              Names(session[s], saved, lock, world.undone)

-----------------------------------------------------------------------------
(* What the steps of a session leave of it.                                *)

\* The columns of a session.
LEMMA Columns ==
    ASSUME NEW v \in SessionStates
    PROVE  /\ v.phase \in {"idle", "scan", "claimed", "released", "tick"}
           /\ v.todo \in SUBSET (Events \cup Journeys)
           /\ v.starting \in Journeys \cup {None}
           /\ v.event \in [Events -> Status \cup {None}]
           /\ v.journey \in [Journeys -> LiveRow \cup {None}]
           /\ v.dirty \in SUBSET Rows /\ v.unflushed \in SUBSET Rows
           /\ v.closing \in BOOLEAN
           /\ v.booked \in [Events -> Nat]
BY DEF SessionStates

\* u has written the rows over v, or waits to write them.
Flushed(u, v, rows, held) ==
    \/ /\ rows \cap held = {}
       /\ u.dirty = v.dirty \cup rows /\ u.unflushed = {}
    \/ /\ rows \cap held # {}
       /\ u.dirty = v.dirty /\ u.unflushed = rows

\* A session flushes at once or waits.
LEMMA FlushingIs ==
    ASSUME NEW s \in Sessions, NEW v \in SessionStates, v.unflushed = {},
           NEW rows, rows \in SUBSET Rows, NEW u, u = Flushing(s, v, rows)
    PROVE  /\ Flushed(u, v, rows, Held(s))
           /\ u \in SessionStates
           /\ u.phase = v.phase /\ u.todo = v.todo
           /\ u.starting = v.starting /\ u.closing = v.closing
           /\ u.event = v.event /\ u.journey = v.journey
           /\ u.booked = v.booked
<1> DEFINE held == Held(s)
           d == v.dirty \cup rows
<1>0. d \in SUBSET Rows
  BY Columns
<1>1. CASE rows \cap held = {}
  <2>1. u = [v EXCEPT !.dirty = d]
    BY <1>1 DEF Flushing
  <2> HIDE DEF held, d
  <2>2. /\ u.dirty = d /\ u.unflushed = v.unflushed /\ u \in SessionStates
        /\ u.phase = v.phase /\ u.todo = v.todo
        /\ u.starting = v.starting /\ u.closing = v.closing
        /\ u.event = v.event /\ u.journey = v.journey
        /\ u.booked = v.booked
    BY <1>0, <2>1 DEF SessionStates
  <2> QED BY <1>1, <2>2 DEF Flushed, held, d
<1>2. CASE rows \cap held # {}
  <2>1. u = [v EXCEPT !.unflushed = rows]
    BY <1>2 DEF Flushing
  <2> HIDE DEF held
  <2>2. /\ u.dirty = v.dirty /\ u.unflushed = rows /\ u \in SessionStates
        /\ u.phase = v.phase /\ u.todo = v.todo
        /\ u.starting = v.starting /\ u.closing = v.closing
        /\ u.event = v.event /\ u.journey = v.journey
        /\ u.booked = v.booked
    BY <2>1 DEF SessionStates
  <2> QED BY <1>2, <2>2 DEF Flushed, held
<1> QED BY <1>1, <1>2

\* The rows a handler of tick writes when the row of j becomes r and the event
\* of r becomes e.
Written(v, j, r, e) ==
    {JourneyRow(j)} \cup (IF e = v.event[r.event] THEN {} ELSE {EventRow(r.event)})

Writing(u, v, j, r, e, held) ==
    /\ r \in LiveRow /\ r.event = v.journey[j].event
    /\ e \in Status \cup {v.event[r.event]}
    /\ u \in SessionStates
    /\ u.phase = "tick" /\ u.todo = v.todo \ {j}
    /\ u.event = [v.event EXCEPT ![r.event] = e]
    /\ u.journey = [v.journey EXCEPT ![j] = r]
    /\ Flushed(u, v, Written(v, j, r, e), held)

\* A handler of tick writes.
LEMMA WroteIs ==
    ASSUME SessionsInv, NEW s \in Sessions, NEW j \in Journeys,
           Advancing(s, j), NEW v, v = session[s], NEW r \in LiveRow,
           r.event = v.journey[j].event,
           NEW e, e \in Status \cup {v.event[r.event]},
           NEW u, u = Wrote(s, j, r, e)
    PROVE  /\ Writing(u, v, j, r, e, Held(s))
           /\ u.closing = v.closing /\ u.booked = v.booked
<1>1. v \in SessionStates /\ v.phase = "tick" /\ v.unflushed = {} /\ j \in v.todo
  BY SessionFacts DEF Advancing, Ready
<1>2. r.event \in Events
  BY RowTypes
<1> DEFINE todo == v.todo \ {j}
           journey == [v.journey EXCEPT ![j] = r]
           event == [v.event EXCEPT ![r.event] = e]
           w == [v EXCEPT !.todo = todo, !.journey = journey, !.event = event]
           rows == Written(v, j, r, e)
<1>3. /\ todo \in SUBSET (Events \cup Journeys)
      /\ journey \in [Journeys -> LiveRow \cup {None}]
      /\ event \in [Events -> Status \cup {None}]
  BY <1>1, <1>2, Columns
<1>4. u = Flushing(s, w, rows)
  BY DEF Wrote, Written
<1>5. rows \in SUBSET Rows
  BY <1>2, RowNames DEF Written
<1> HIDE DEF todo, journey, event, rows
<1>6. /\ w \in SessionStates /\ w.todo = todo /\ w.journey = journey
      /\ w.event = event /\ w.phase = v.phase /\ w.dirty = v.dirty
      /\ w.unflushed = {} /\ w.closing = v.closing /\ w.booked = v.booked
  BY <1>1, <1>3 DEF SessionStates
<1> HIDE DEF w
<1>7. /\ Flushed(u, w, rows, Held(s)) /\ u \in SessionStates
      /\ u.phase = w.phase /\ u.todo = w.todo /\ u.closing = w.closing
      /\ u.event = w.event /\ u.journey = w.journey /\ u.booked = w.booked
  BY <1>4, <1>5, <1>6, FlushingIs
<1>8. Flushed(u, v, rows, Held(s))
  BY <1>6, <1>7 DEF Flushed
<1> QED BY <1>1, <1>6, <1>7, <1>8 DEF Writing, todo, journey, event, rows

\* What a handler of tick does with the row r of a journey: it goes on, is
\* given up, or is booked.
GoesOn(u, v, r, e, owner, next) ==
    /\ Open(r) /\ e = v.event[r.event]
    /\ ~u.closing /\ u.booked = v.booked
    /\ next = owner

GivenUp(u, v, r, e, owner, next) ==
    /\ r.state = "CLOSED" /\ e = "LOST"
    /\ ~u.closing /\ u.booked = v.booked
    /\ next = None

BookedOnce(u, v, r, e, owner, next) ==
    /\ r.state = "CLOSED" /\ e = "RECOVERED"
    /\ u.closing = (u.unflushed # {})
    /\ u.booked = [v.booked EXCEPT ![r.event] = @ + 1]
    /\ next = IF u.unflushed # {} THEN owner ELSE None

Handled(u, v, j, held, owner, next) ==
    \E r, e :
      /\ Writing(u, v, j, r, e, held)
      /\ \/ GoesOn(u, v, r, e, owner, next)
         \/ GivenUp(u, v, r, e, owner, next)
         \/ BookedOnce(u, v, r, e, owner, next)

Handles(s, j) == \E u : /\ session' = [session EXCEPT ![s] = u]
                        /\ Handled(u, session[s], j, Held(s), lock, lock')

\* _next_step_or_close goes on or gives up.
LEMMA NextStepHandles ==
    ASSUME SessionsInv, LockInv, NEW s \in Sessions, NEW j \in Journeys,
           Advancing(s, j), NEW r \in LiveRow,
           r.event = session[s].journey[j].event,
           NextStepOrClose(s, j, r)
    PROVE  Handles(s, j)
<1> DEFINE v == session[s]
           e == v.event[r.event]
<1>1. v \in SessionStates /\ ~v.closing
  BY SessionFacts, Columns DEF LockInv, Tidy, Advancing, Ready
<1>2. CASE r.step < Len(Plan)
  <2> DEFINE n == [r EXCEPT !.state = "PLANNED", !.step = @ + 1,
                            !.act = IF e = "RECOVERED" THEN "BLOCKED"
                                    ELSE "PLANNED"]
             u == Wrote(s, j, n, e)
  <2>1. r.step + 1 \in Steps
    <3>1. r.step \in 1..Len(Plan)
      BY RowTypes, PlanFacts
    <3> QED BY <1>2, <3>1, PlanFacts
  <2>2. n \in LiveRow /\ n.event = r.event /\ Open(n)
    BY <2>1 DEF LiveRow, Open
  <2>3. session' = [session EXCEPT ![s] = u] /\ lock' = lock
    BY <1>2 DEF NextStepOrClose, Becomes
  <2> HIDE DEF n
  <2>4. e \in Status \cup {v.event[n.event]}
    BY <2>2
  <2>5. Writing(u, v, j, n, e, Held(s)) /\ u.closing = v.closing
        /\ u.booked = v.booked
    BY <2>2, <2>4, WroteIs
  <2>6. GoesOn(u, v, n, e, lock, lock')
    BY <1>1, <2>2, <2>3, <2>5 DEF GoesOn
  <2> HIDE DEF u, v, e
  <2>7. Handled(u, v, j, Held(s), lock, lock')
    BY <2>5, <2>6 DEF Handled
  <2> QED BY <2>3, <2>7 DEF Handles, v
<1>3. CASE ~ (r.step < Len(Plan))
  <2> DEFINE n == [r EXCEPT !.state = "CLOSED"]
             u == Wrote(s, j, n, "LOST")
  <2>1. n \in LiveRow /\ n.event = r.event /\ n.state = "CLOSED"
    BY DEF LiveRow
  <2>2. session' = [session EXCEPT ![s] = u] /\ lock' = None
    BY <1>3 DEF NextStepOrClose, Becomes
  <2> HIDE DEF n
  <2>3. "LOST" \in Status \cup {v.event[n.event]}
    BY DEF Status
  <2>4. Writing(u, v, j, n, "LOST", Held(s)) /\ u.closing = v.closing
        /\ u.booked = v.booked
    BY <2>1, <2>3, WroteIs
  <2>5. GivenUp(u, v, n, "LOST", lock, lock')
    BY <1>1, <2>1, <2>2, <2>4 DEF GivenUp
  <2> HIDE DEF u, v, e
  <2>6. Handled(u, v, j, Held(s), lock, lock')
    BY <2>4, <2>5 DEF Handled
  <2> QED BY <2>2, <2>6 DEF Handles, v
<1> QED BY <1>2, <1>3

\* Verifier._book, and the journey closed.
LEMMA BookHandles ==
    ASSUME SessionsInv, LockInv, NEW s \in Sessions, NEW j \in Journeys,
           Advancing(s, j), NEW r \in LiveRow,
           r.event = session[s].journey[j].event,
           Book(s, j, r)
    PROVE  Handles(s, j)
<1> DEFINE v == session[s]
           n == [r EXCEPT !.state = "CLOSED", !.act = "SUCCEEDED"]
           x == Wrote(s, j, n, "RECOVERED")
           waits == x.unflushed # {}
           booked == [v.booked EXCEPT ![r.event] = @ + 1]
           u == [x EXCEPT !.closing = waits, !.booked = booked]
<1>1. v \in SessionStates
  BY SessionFacts
<1>2. n \in LiveRow /\ n.event = r.event /\ n.state = "CLOSED"
  BY DEF LiveRow
<1>3. /\ Becomes(s, [x EXCEPT !.closing = waits, !.booked[r.event] = @ + 1])
      /\ lock' = IF waits THEN lock ELSE None
  BY DEF Book
<1> HIDE DEF n
<1>4. "RECOVERED" \in Status \cup {v.event[n.event]}
  BY DEF Status
<1>5. Writing(x, v, j, n, "RECOVERED", Held(s)) /\ x.booked = v.booked
  BY <1>2, <1>4, WroteIs
<1> HIDE DEF x
<1>6. waits \in BOOLEAN /\ booked \in [Events -> Nat] /\ x \in SessionStates
  <2>1. r.event \in Events
    BY RowTypes
  <2> QED BY <1>1, <1>5, <2>1, Columns DEF Writing
<1>7. [x EXCEPT !.closing = waits, !.booked[r.event] = @ + 1] = u
  BY <1>5, <1>6 DEF SessionStates
<1>8. session' = [session EXCEPT ![s] = u]
  BY <1>3, <1>7 DEF Becomes
<1> HIDE DEF booked, waits
<1>9. /\ u \in SessionStates /\ u.phase = x.phase /\ u.todo = x.todo
      /\ u.event = x.event /\ u.journey = x.journey /\ u.dirty = x.dirty
      /\ u.unflushed = x.unflushed /\ u.closing = waits /\ u.booked = booked
  BY <1>6 DEF SessionStates
<1> HIDE DEF u
<1>10. Writing(u, v, j, n, "RECOVERED", Held(s))
  BY <1>5, <1>9 DEF Writing, Flushed
<1>11. BookedOnce(u, v, n, "RECOVERED", lock, lock')
  BY <1>2, <1>3, <1>9 DEF BookedOnce, waits, booked
<1> HIDE DEF v
<1>12. Handled(u, v, j, Held(s), lock, lock')
  BY <1>10, <1>11 DEF Handled
<1> QED BY <1>8, <1>12 DEF Handles, v

\* What the loop does with an answer.
LEMMA AnsweredHandles ==
    ASSUME SessionsInv, LockInv, NEW s \in Sessions, NEW j \in Journeys,
           Advancing(s, j), NEW r \in LiveRow,
           r = session[s].journey[j], NEW answer,
           Answered(s, j, r, answer)
    PROVE  Handles(s, j)
<1>1. CASE answer = "SUCCEEDED"
  <2>1. Book(s, j, r)
    BY <1>1 DEF Answered
  <2> QED BY <2>1, BookHandles
<1>2. CASE answer = "FAILED"
  <2> DEFINE n == [r EXCEPT !.act = "FAILED"]
  <2>1. n \in LiveRow /\ n.event = r.event
    BY DEF LiveRow
  <2>2. NextStepOrClose(s, j, n)
    BY <1>2 DEF Answered
  <2> HIDE DEF n
  <2> QED BY <2>1, <2>2, NextStepHandles
<1>3. CASE answer \notin {"SUCCEEDED", "FAILED"}
  <2> DEFINE v == session[s]
             n == [r EXCEPT !.state = "VERIFYING", !.act = "EXECUTING"]
             e == v.event[r.event]
             u == Wrote(s, j, n, e)
  <2>1. v \in SessionStates /\ ~v.closing
    BY SessionFacts, Columns DEF LockInv, Tidy, Advancing, Ready
  <2>2. n \in LiveRow /\ n.event = r.event /\ Open(n)
    BY DEF LiveRow, Open
  <2>3. session' = [session EXCEPT ![s] = u] /\ lock' = lock
    BY <1>3 DEF Answered, Becomes
  <2> HIDE DEF n
  <2>4. e \in Status \cup {v.event[n.event]}
    BY <2>2
  <2>5. Writing(u, v, j, n, e, Held(s)) /\ u.closing = v.closing
        /\ u.booked = v.booked
    BY <2>2, <2>4, WroteIs
  <2>6. GoesOn(u, v, n, e, lock, lock')
    BY <2>1, <2>2, <2>3, <2>5 DEF GoesOn
  <2> HIDE DEF u, v, e
  <2>7. Handled(u, v, j, Held(s), lock, lock')
    BY <2>5, <2>6 DEF Handled
  <2> QED BY <2>3, <2>7 DEF Handles, v
<1> QED BY <1>1, <1>2, <1>3

\* It is too early to ask for the outcome.
Waits_longer(s, j) ==
    /\ session' = [session EXCEPT ![s] = [session[s] EXCEPT !.todo = @ \ {j}]]
    /\ lock' = lock

\* The handlers of tick, and what they leave alone.
TickStep(s, j) ==
    \/ AdvanceBlocked(s, j) \/ Execute(s, j) \/ ExecuteFails(s, j)
    \/ Verify(s, j)

\* A step of the tick handles its journey or waits for the row of another.
LEMMA TickHandles ==
    ASSUME SessionsInv, LockInv, NEW s \in Sessions, NEW j \in Journeys,
           TickStep(s, j)
    PROVE  /\ Advancing(s, j)
           /\ Handles(s, j) \/ Waits_longer(s, j)
           /\ saved' = saved /\ world'.undone = world.undone
           /\ world'.overlaps = world.overlaps
<1>1. Advancing(s, j)
  BY DEF TickStep, AdvanceBlocked, Execute, ExecuteFails, Executable, Verify
<1>2. session[s].journey[j] \in LiveRow
  <2>1. /\ session[s] \in SessionStates /\ Phases(session[s])
        /\ session[s].phase = "tick" /\ j \in session[s].todo
    BY <1>1, SessionFacts DEF Advancing, Ready
  <2> QED BY <2>1, Columns DEF Phases
<1>3. /\ saved' = saved
      /\ UNCHANGED world \/ world' = [world EXCEPT !.mishaps = @ + 1]
  BY DEF TickStep, AdvanceBlocked, Execute, ExecuteFails, Verify
<1>4. world'.undone = world.undone /\ world'.overlaps = world.overlaps
  <2>1. world \in Worlds
    BY DEF SessionsInv
  <2> QED BY <1>3, <2>1 DEF Worlds
<1> DEFINE r == session[s].journey[j]
<1>5. CASE AdvanceBlocked(s, j)
  <2> DEFINE n == [r EXCEPT !.act = "BLOCKED"]
  <2>1. n \in LiveRow /\ n.event = r.event
    BY <1>2 DEF LiveRow
  <2>2. NextStepOrClose(s, j, n)
    BY <1>5 DEF AdvanceBlocked
  <2> HIDE DEF n
  <2> QED BY <1>1, <1>3, <1>4, <2>1, <2>2, NextStepHandles
<1>6. CASE \E answer : Answered(s, j, r, answer)
  BY <1>1, <1>2, <1>3, <1>4, <1>6, AnsweredHandles
<1>7. CASE Waits_longer(s, j)
  BY <1>1, <1>3, <1>4, <1>7
<1>8. \/ AdvanceBlocked(s, j) \/ Waits_longer(s, j)
      \/ \E answer : Answered(s, j, r, answer)
  <2>1. CASE AdvanceBlocked(s, j) \/ Execute(s, j) \/ ExecuteFails(s, j)
    BY <2>1 DEF Execute, ExecuteFails
  <2>2. CASE Verify(s, j)
    BY <2>2 DEF Verify, Waits_longer, Becomes
  <2> QED BY <2>1, <2>2 DEF TickStep
<1> HIDE DEF r
<1> QED BY <1>5, <1>6, <1>7, <1>8

\* What is known of a session, of what others hold and of the lock.
LEMMA LockTells ==
    ASSUME SessionsInv, LockInv, NEW s \in Sessions, NEW v, v = session[s]
    PROVE  /\ v \in SessionStates /\ Loaded(v) /\ Phases(v) /\ Tidy(v)
           /\ v.dirty \cap Held(s) = {}
           /\ ~world.undone => KeepsOpen(v, lock)
           /\ lock \in {None, Pending} \cup Journeys
           /\ \A t \in Sessions \ {s} : v.dirty \cap session[t].dirty = {}
           /\ world \in Worlds
<1>1. /\ v \in SessionStates /\ Loaded(v) /\ Phases(v)
      /\ lock \in {None, Pending} \cup Journeys
      /\ \A t \in Sessions \ {s} : v.dirty \cap session[t].dirty = {}
      /\ world \in Worlds
  BY SessionFacts
<1> QED BY <1>1 DEF LockInv, Held

\* The bounds of the model count, and undo nothing.
LEMMA BeginsCounts ==
    ASSUME SessionsInv, NEW s \in Sessions, Begins(s)
    PROVE  world'.undone = world.undone
           /\ world'.overlaps \in {world.overlaps, world.overlaps + 1}
           /\ (session[s].phase = "idle" /\ world'.overlaps = world.overlaps
                  => \A t \in Sessions \ {s} : session[t].phase = "idle")
<1>1. world \in Worlds /\ world.overlaps \in Nat
  BY DEF SessionsInv, Worlds
<1>2. CASE UNCHANGED world /\ ~(/\ session[s].phase = "idle"
                                /\ \E t \in Sessions \ {s} :
                                      session[t].phase # "idle")
  BY <1>2
<1>3. CASE world' = [world EXCEPT !.overlaps = @ + 1]
  <2>1. world'.undone = world.undone /\ world'.overlaps = world.overlaps + 1
    BY <1>1, <1>3 DEF Worlds
  <2> QED BY <1>1, <2>1
<1> QED BY <1>2, <1>3 DEF Begins

\* What a session has after it loaded rows.
LoadedFrom(u, v, s, es, js) ==
    /\ u.phase = v.phase /\ u.todo = v.todo /\ u.starting = v.starting
    /\ u.dirty = v.dirty /\ u.unflushed = v.unflushed
    /\ u.closing = v.closing /\ u.booked = v.booked
    /\ u.event = [e \in Events |-> IF e \in es /\ v.event[e] = None
                                   THEN DbEvent(s, e) ELSE v.event[e]]
    /\ u.journey = [j \in Journeys |-> IF j \in js /\ v.journey[j] = None
                                       THEN DbJourney(s, j) ELSE v.journey[j]]

\* What a load adds to the rows a session has.
LEMMA LoadIs ==
    ASSUME NEW v \in SessionStates, NEW s, NEW es, NEW js, NEW u,
           u = Load(s, v, es, js)
    PROVE  LoadedFrom(u, v, s, es, js)
<1> DEFINE event == [e \in Events |-> IF e \in es /\ v.event[e] = None
                                      THEN DbEvent(s, e) ELSE v.event[e]]
           journey == [j \in Journeys |-> IF j \in js /\ v.journey[j] = None
                                          THEN DbJourney(s, j)
                                          ELSE v.journey[j]]
<1>1. u = [v EXCEPT !.event = event, !.journey = journey]
  BY DEF Load
<1> HIDE DEF event, journey
<1>2. /\ u.phase = v.phase /\ u.todo = v.todo /\ u.starting = v.starting
      /\ u.dirty = v.dirty /\ u.unflushed = v.unflushed
      /\ u.closing = v.closing /\ u.booked = v.booked
      /\ u.event = event /\ u.journey = journey
  BY <1>1 DEF SessionStates
<1> QED BY <1>2 DEF LoadedFrom, event, journey

\* The session s as it begins to scan or tick, and what it loads.
Begun(s, phase, todo) == [session[s] EXCEPT !.phase = phase, !.todo = todo]

\* A session that begins keeps its rows and takes its work from a query.
LEMMA BegunIs ==
    ASSUME SessionsInv, NEW s \in Sessions, NEW phase, NEW todo
    PROVE  LET v == session[s]
               w == Begun(s, phase, todo)
           IN  /\ w.phase = phase /\ w.todo = todo
               /\ w.starting = v.starting /\ w.event = v.event
               /\ w.journey = v.journey /\ w.dirty = v.dirty
               /\ w.unflushed = v.unflushed /\ w.closing = v.closing
               /\ w.booked = v.booked
               /\ (/\ phase \in {"scan", "tick"}
                   /\ todo \in SUBSET (Events \cup Journeys)
                   => w \in SessionStates)
<1>1. session[s] \in SessionStates
  BY SessionFacts
<1> QED BY <1>1 DEF Begun, SessionStates

\* A scan begins.
LEMMA BeginScanIs ==
    ASSUME SessionsInv, LockInv, NEW s \in Sessions, BeginScan(s)
    PROVE  /\ session[s] = Idle
           /\ saved' = saved /\ lock' = lock
           /\ \E u : /\ session' = [session EXCEPT ![s] = u]
                     /\ LoadedFrom(u, Begun(s, "scan", Unclaimed(s)), s,
                                   Unclaimed(s), {})
<1>1. session[s] = Idle
  BY LockTells DEF BeginScan, Ready, Tidy
<1> DEFINE todo == Unclaimed(s)
           w == Begun(s, "scan", todo)
           u == Load(s, w, todo, {})
<1>2. session' = [session EXCEPT ![s] = u] /\ saved' = saved /\ lock' = lock
  BY DEF BeginScan, Becomes, Begun
<1>3. w \in SessionStates
  <2>1. todo \in SUBSET (Events \cup Journeys)
    BY DEF Unclaimed
  <2> HIDE DEF todo
  <2> QED BY <2>1, BegunIs
<1> HIDE DEF w
<1>4. LoadedFrom(u, w, s, todo, {})
  BY <1>3, LoadIs
<1> QED BY <1>1, <1>2, <1>4 DEF w

\* A tick begins, perhaps after the scan of its cycle.
LEMMA BeginTickIs ==
    ASSUME SessionsInv, LockInv, NEW s \in Sessions, BeginTick(s)
    PROVE  /\ \/ session[s] = Idle
              \/ session[s].phase = "scan" /\ session[s].todo = {}
           /\ session[s].unflushed = {}
           /\ saved' = saved /\ lock' = lock
           /\ \E due, u :
                /\ due \subseteq OpenIn(s)
                /\ session' = [session EXCEPT ![s] = u]
                /\ LoadedFrom(u, Begun(s, "tick", due), s, EventsOf(s, due), due)
<1>1. /\ \/ session[s] = Idle
         \/ session[s].phase = "scan" /\ session[s].todo = {}
      /\ session[s].unflushed = {}
  BY LockTells DEF BeginTick, Ready, Tidy
<1>2. PICK due \in SUBSET OpenIn(s) :
         Becomes(s, Load(s, Begun(s, "tick", due), EventsOf(s, due), due))
  BY DEF BeginTick, Begun
<1> DEFINE w == Begun(s, "tick", due)
           u == Load(s, w, EventsOf(s, due), due)
<1>3. session' = [session EXCEPT ![s] = u] /\ saved' = saved /\ lock' = lock
  BY <1>2 DEF BeginTick, Becomes
<1>4. w \in SessionStates
  <2>1. due \in SUBSET (Events \cup Journeys)
    BY DEF OpenIn
  <2> QED BY <2>1, BegunIs
<1> HIDE DEF w
<1>5. LoadedFrom(u, w, s, EventsOf(s, due), due)
  BY <1>4, LoadIs
<1> QED BY <1>1, <1>3, <1>5 DEF w

\* The event a scan is at.
LEMMA ScanTells ==
    ASSUME SessionsInv, LockInv, NEW s \in Sessions, NEW v, v = session[s],
           \/ v.phase = "scan" /\ v.todo # {}
           \/ v.phase \in {"claimed", "released"}
    PROVE  /\ Scanned(s) \in Events /\ Scanned(s) \in v.todo
           /\ Scanned(s) = Min(v.todo)
           /\ v.todo \subseteq Events /\ ~v.closing
<1>1. v \in SessionStates /\ Phases(v) /\ Tidy(v)
  BY LockTells
<1>2. v.todo \subseteq Events /\ v.todo # {}
  BY <1>1 DEF Phases
<1>3. v.todo \in SUBSET Nat
  BY <1>2 DEF Events
<1>4. Min(v.todo) \in v.todo
  BY <1>2, <1>3, MinIsIn
<1> QED BY <1>1, <1>2, <1>4, Columns DEF Scanned, Tidy

\* A step of a scan that writes at most the row of an event.
Scans(u, v, e, rows, held, event) ==
    /\ u \in SessionStates
    /\ u.todo = v.todo \ {e} /\ u.closing = v.closing
    /\ u.event = event /\ u.journey = v.journey /\ u.booked = v.booked
    /\ Flushed(u, v, rows, held)

\* An event that is suppressed.
LEMMA ScanSuppressesIs ==
    ASSUME SessionsInv, LockInv, NEW s \in Sessions, NEW v, v = session[s],
           NEW e, e = Scanned(s), ScanSuppresses(s)
    PROVE  /\ v.phase = "scan" /\ e \in Events /\ e \in v.todo
           /\ v.unflushed = {}
           /\ saved' = saved /\ lock' = lock /\ world' = world
           /\ \E u : /\ session' = [session EXCEPT ![s] = u]
                     /\ u.phase = "scan"
                     /\ Scans(u, v, e, {EventRow(e)}, Held(s),
                              [v.event EXCEPT ![e] = "SUPPRESSED"])
<1>1. v \in SessionStates /\ v.phase = "scan" /\ v.unflushed = {} /\ v.todo # {}
  BY LockTells DEF ScanSuppresses, Scanning, Ready
<1>2. e \in Events /\ e \in v.todo
  BY <1>1, ScanTells
<1> DEFINE todo == v.todo \ {e}
           event == [v.event EXCEPT ![e] = "SUPPRESSED"]
           w == [v EXCEPT !.todo = todo, !.event = event]
           u == Flushing(s, w, {EventRow(e)})
<1>3. session' = [session EXCEPT ![s] = u]
      /\ saved' = saved /\ lock' = lock /\ world' = world
  BY DEF ScanSuppresses, Becomes
<1>4. /\ todo \in SUBSET (Events \cup Journeys)
      /\ event \in [Events -> Status \cup {None}]
      /\ {EventRow(e)} \in SUBSET Rows
  BY <1>1, <1>2, Columns, RowNames DEF Status
<1> HIDE DEF todo, event
<1>5. /\ w \in SessionStates /\ w.todo = todo /\ w.event = event
      /\ w.phase = v.phase /\ w.journey = v.journey /\ w.dirty = v.dirty
      /\ w.unflushed = {} /\ w.closing = v.closing /\ w.booked = v.booked
  BY <1>1, <1>4 DEF SessionStates
<1> HIDE DEF w
<1>6. /\ Flushed(u, w, {EventRow(e)}, Held(s)) /\ u \in SessionStates
      /\ u.phase = w.phase /\ u.todo = w.todo /\ u.closing = w.closing
      /\ u.event = w.event /\ u.journey = w.journey /\ u.booked = w.booked
  BY <1>4, <1>5, FlushingIs
<1>7. Flushed(u, v, {EventRow(e)}, Held(s))
  BY <1>5, <1>6 DEF Flushed
<1> HIDE DEF u
<1>8. u.phase = "scan"
      /\ Scans(u, v, e, {EventRow(e)}, Held(s), [v.event EXCEPT ![e] = "SUPPRESSED"])
  BY <1>1, <1>5, <1>6, <1>7 DEF Scans, todo, event
<1> QED BY <1>1, <1>2, <1>3, <1>8

\* An event that is left, because the customer is owned.
LEMMA ScanDefersIs ==
    ASSUME SessionsInv, LockInv, NEW s \in Sessions, NEW v, v = session[s],
           NEW e, e = Scanned(s), ScanDefers(s)
    PROVE  /\ v.phase = "scan" /\ e \in Events /\ e \in v.todo
           /\ v.unflushed = {}
           /\ saved' = saved /\ lock' = lock /\ world' = world
           /\ \E u : /\ session' = [session EXCEPT ![s] = u]
                     /\ u.phase = "scan"
                     /\ Scans(u, v, e, {}, Held(s), v.event)
<1>1. v \in SessionStates /\ v.phase = "scan" /\ v.unflushed = {} /\ v.todo # {}
  BY LockTells DEF ScanDefers, Scanning, Ready
<1>2. e \in Events /\ e \in v.todo
  BY <1>1, ScanTells
<1> DEFINE todo == v.todo \ {e}
           u == [v EXCEPT !.todo = todo]
<1>3. session' = [session EXCEPT ![s] = u]
      /\ saved' = saved /\ lock' = lock /\ world' = world
  BY DEF ScanDefers, Becomes
<1>4. todo \in SUBSET (Events \cup Journeys)
  BY <1>1, Columns
<1> HIDE DEF todo
<1>5. /\ u \in SessionStates /\ u.todo = todo /\ u.event = v.event
      /\ u.phase = v.phase /\ u.journey = v.journey /\ u.dirty = v.dirty
      /\ u.unflushed = {} /\ u.closing = v.closing /\ u.booked = v.booked
  BY <1>1, <1>4 DEF SessionStates
<1> HIDE DEF u
<1>6. Scans(u, v, e, {}, Held(s), v.event)
  BY <1>5 DEF Scans, Flushed, todo
<1> QED BY <1>1, <1>2, <1>3, <1>5, <1>6

\* The lock is claimed without the name of a journey.
LEMMA ClaimCustomerIs ==
    ASSUME SessionsInv, LockInv, NEW s \in Sessions, NEW v, v = session[s],
           ClaimCustomer(s)
    PROVE  /\ v.phase = "scan" /\ v.todo # {} /\ v.unflushed = {}
           /\ lock = None /\ lock' = Pending /\ saved' = saved /\ world' = world
           /\ \E u : /\ session' = [session EXCEPT ![s] = u]
                     /\ u.phase = "claimed" /\ u.todo = v.todo
                     /\ u.event = v.event /\ u.journey = v.journey
                     /\ u.dirty = v.dirty /\ u.unflushed = {}
                     /\ u.closing = v.closing /\ u.booked = v.booked
                     /\ u \in SessionStates
<1>1. v \in SessionStates /\ v.phase = "scan" /\ v.unflushed = {} /\ v.todo # {}
  BY LockTells DEF ClaimCustomer, Scanning, Ready
<1> DEFINE u == [v EXCEPT !.phase = "claimed"]
<1>2. /\ session' = [session EXCEPT ![s] = u] /\ lock = None
      /\ saved' = saved /\ lock' = Pending /\ world' = world
  BY DEF ClaimCustomer, Becomes
<1>3. /\ u.phase = "claimed" /\ u.todo = v.todo
      /\ u.event = v.event /\ u.journey = v.journey
      /\ u.dirty = v.dirty /\ u.unflushed = {}
      /\ u.closing = v.closing /\ u.booked = v.booked
      /\ u \in SessionStates
  BY <1>1 DEF SessionStates
<1> HIDE DEF u
<1> QED BY <1>1, <1>2, <1>3

\* A row like no other is made for the journey.
NewJourney(e) == [event |-> e, state |-> "PLANNED", step |-> 1, act |-> "PLANNED"]

\* A number that no journey has yet names no row.
LEMMA NotYetNumbered ==
    ASSUME SessionsInv, NEW s \in Sessions, NEW j \in Journeys,
           ~ (j <= world.created)
    PROVE  session[s].journey[j] = None /\ saved.journey[j] = NoRow
BY DEF SessionsInv, Sound, Agrees

\* What a new journey leaves in its session, and the lock free until it is
\* named.
LEMMA StartJourneyIs ==
    ASSUME SessionsInv, LockInv, NEW s \in Sessions, NEW v, v = session[s],
           NEW e, e = Scanned(s), NEW j, j = world.created + 1,
           StartJourney(s)
    PROVE  /\ v.phase = "claimed" /\ e \in Events /\ e \in v.todo
           /\ v.unflushed = {} /\ j \in Journeys
           /\ ~ (j <= world.created)
           /\ saved' = saved /\ lock' = None
           /\ world'.undone = world.undone
           /\ world'.overlaps = world.overlaps
           /\ NewJourney(e) \in LiveRow
           /\ \E u : /\ session' = [session EXCEPT ![s] = u]
                     /\ u.phase = "released" /\ u.todo = v.todo
                     /\ u.starting = j
                     /\ u.event = [v.event EXCEPT ![e] = "IN_RECOVERY"]
                     /\ u.journey = [v.journey EXCEPT ![j] = NewJourney(e)]
                     /\ u.dirty = v.dirty \cup {JourneyRow(j)}
                     /\ u.unflushed = {}
                     /\ u.closing = v.closing /\ u.booked = v.booked
                     /\ u \in SessionStates
<1>1. v \in SessionStates /\ v.phase = "claimed" /\ v.unflushed = {}
      /\ world \in Worlds
  BY LockTells DEF StartJourney, Ready
<1>2. e \in Events /\ e \in v.todo
  BY <1>1, ScanTells
<1>3. j \in Journeys
  <2>1. s \in Claimed
    BY <1>1 DEF Claimed
  <2>2. PICK C : C = Claimed
    OBVIOUS
  <2>3. IsFiniteSet(C)
    BY <2>2, FS_Subset, SessionsConstants DEF Claimed
  <2>4. Cardinality(C) \in Nat /\ Cardinality(C) # 0
    BY <2>1, <2>2, <2>3, FS_CardinalityType, FS_EmptySet
  <2>5. world.created + Cardinality(C) <= MaxJourneys
    BY <2>2 DEF SessionsInv
  <2>6. world.created \in Nat /\ MaxJourneys \in Nat
    BY <1>1, SessionsConstants DEF Worlds
  <2> QED BY <2>4, <2>5, <2>6 DEF Journeys
<1>4. ~ (j <= world.created)
  <2>1. world.created \in Nat
    BY <1>1 DEF Worlds
  <2> QED BY <2>1
<1>5. NewJourney(e) \in LiveRow
  BY <1>2, PlanFacts DEF NewJourney, LiveRow
<1> DEFINE event == [v.event EXCEPT ![e] = "IN_RECOVERY"]
           journey == [v.journey EXCEPT ![j] = NewJourney(e)]
           dirty == v.dirty \cup {JourneyRow(j)}
           u == [v EXCEPT !.phase = "released", !.starting = j,
                          !.event = event, !.journey = journey,
                          !.dirty = dirty]
<1>6. /\ session' = [session EXCEPT ![s] = u]
      /\ saved' = saved /\ lock' = None
      /\ world' = [world EXCEPT !.created = j]
  BY DEF StartJourney, Becomes, NewJourney
<1>7. world'.undone = world.undone /\ world'.overlaps = world.overlaps
  BY <1>1, <1>6 DEF Worlds
<1>8. /\ event \in [Events -> Status \cup {None}]
      /\ journey \in [Journeys -> LiveRow \cup {None}]
      /\ dirty \in SUBSET Rows
  BY <1>1, <1>2, <1>3, <1>5, Columns, RowNames DEF Status
<1> HIDE DEF event, journey, dirty
<1>9. /\ u.phase = "released" /\ u.todo = v.todo
      /\ u.starting = j /\ u.event = event /\ u.journey = journey
      /\ u.dirty = dirty /\ u.unflushed = {}
      /\ u.closing = v.closing /\ u.booked = v.booked
      /\ u \in SessionStates
  BY <1>1, <1>3, <1>8 DEF SessionStates
<1> HIDE DEF u
<1> QED BY <1>1, <1>2, <1>3, <1>4, <1>5, <1>6, <1>7, <1>9
        DEF event, journey, dirty

\* The lock is claimed under the name of the journey, if it is still there.
LEMMA ReclaimCustomerIs ==
    ASSUME SessionsInv, LockInv, NEW s \in Sessions, NEW v, v = session[s],
           NEW e, e = Scanned(s), ReclaimCustomer(s)
    PROVE  /\ v.phase = "released" /\ e \in Events /\ e \in v.todo
           /\ v.starting \in Journeys /\ v.unflushed = {}
           /\ saved' = saved /\ world' = world
           /\ lock' = IF lock = None THEN v.starting ELSE lock
           /\ \E u : /\ session' = [session EXCEPT ![s] = u]
                     /\ u.phase = "scan"
                     /\ Scans(u, v, e, {EventRow(e)}, Held(s), v.event)
<1>1. v \in SessionStates /\ v.phase = "released" /\ v.unflushed = {}
      /\ v.starting \in Journeys
  BY LockTells DEF ReclaimCustomer, Phases
<1>2. e \in Events /\ e \in v.todo
  BY <1>1, ScanTells
<1> DEFINE todo == v.todo \ {e}
           w == [v EXCEPT !.phase = "scan", !.starting = None, !.todo = todo]
           u == Flushing(s, w, {EventRow(e)})
<1>3. /\ session' = [session EXCEPT ![s] = u]
      /\ saved' = saved /\ world' = world
      /\ lock' = IF lock = None THEN v.starting ELSE lock
  BY DEF ReclaimCustomer, Becomes
<1>4. todo \in SUBSET (Events \cup Journeys) /\ {EventRow(e)} \in SUBSET Rows
  BY <1>1, <1>2, Columns, RowNames
<1> HIDE DEF todo
<1>5. /\ w \in SessionStates /\ w.todo = todo /\ w.event = v.event
      /\ w.phase = "scan" /\ w.journey = v.journey /\ w.dirty = v.dirty
      /\ w.unflushed = {} /\ w.closing = v.closing /\ w.booked = v.booked
  BY <1>1, <1>4 DEF SessionStates
<1> HIDE DEF w
<1>6. /\ Flushed(u, w, {EventRow(e)}, Held(s)) /\ u \in SessionStates
      /\ u.phase = w.phase /\ u.todo = w.todo /\ u.closing = w.closing
      /\ u.event = w.event /\ u.journey = w.journey /\ u.booked = w.booked
  BY <1>4, <1>5, FlushingIs
<1>7. Flushed(u, v, {EventRow(e)}, Held(s))
  BY <1>5, <1>6 DEF Flushed
<1> HIDE DEF u
<1>8. u.phase = "scan" /\ Scans(u, v, e, {EventRow(e)}, Held(s), v.event)
  BY <1>5, <1>6, <1>7 DEF Scans, todo
<1> QED BY <1>1, <1>2, <1>3, <1>8

\* _expire_stale closes a journey and gives its event up.
Closed(r) == [r EXCEPT !.state = "CLOSED"]

\* What the end of an old journey leaves in its session, and the lock free.
LEMMA ExpireIs ==
    ASSUME SessionsInv, LockInv, NEW s \in Sessions, NEW v, v = session[s],
           NEW j \in Journeys, NEW d, d = DbJourney(s, j).event, Expire(s, j)
    PROVE  /\ v.phase = "tick" /\ v.todo = {} /\ v.unflushed = {}
           /\ j \in OpenIn(s) /\ d \in Events
           /\ saved' = saved /\ lock' = None
           /\ world'.undone = world.undone
           /\ world'.overlaps = world.overlaps
           /\ \E u, x :
                /\ session' = [session EXCEPT ![s] = u]
                /\ LoadedFrom(x, v, s, {d}, {j}) /\ x.journey[j] \in LiveRow
                /\ u \in SessionStates /\ u.phase = "tick" /\ u.todo = {}
                /\ u.event = [x.event EXCEPT ![d] = "LOST"]
                /\ u.journey = [x.journey EXCEPT ![j] = Closed(x.journey[j])]
                /\ u.closing = v.closing /\ u.booked = v.booked
                /\ Flushed(u, v, {JourneyRow(j), EventRow(d)}, Held(s))
<1>1. /\ v \in SessionStates /\ v.phase = "tick" /\ v.unflushed = {}
      /\ v.todo = {} /\ j \in OpenIn(s) /\ world \in Worlds
  BY LockTells DEF Expire, Ready
<1>2. /\ d \in Events /\ DbJourney(s, j) \in LiveRow
      /\ DbEvent(s, d) \in Status
      /\ v.journey[j] # None => v.journey[j].event = d
  BY <1>1, DbRows, RowTypes
<1> DEFINE x == Load(s, v, {d}, {j})
           r == x.journey[j]
<1>3. LoadedFrom(x, v, s, {d}, {j})
  BY <1>1, LoadIs
<1>4. session' = [session EXCEPT ![s] =
         Flushing(s, [x EXCEPT !.journey[j].state = "CLOSED",
                               !.event[r.event] = "LOST"],
                  {JourneyRow(j), EventRow(r.event)})]
  BY <1>1 DEF Expire, Becomes
<1> HIDE DEF x
<1>5. /\ x.event \in [Events -> Status \cup {None}]
      /\ x.journey \in [Journeys -> LiveRow \cup {None}]
      /\ r \in LiveRow /\ r.event = d
  <2>1. /\ v.event \in [Events -> Status \cup {None}]
        /\ v.journey \in [Journeys -> LiveRow \cup {None}]
    BY <1>1, Columns
  <2>2. x.event = [e \in Events |-> IF e \in {d} /\ v.event[e] = None
                                    THEN DbEvent(s, e) ELSE v.event[e]]
    BY <1>3 DEF LoadedFrom
  <2>3. x.journey = [k \in Journeys |-> IF k \in {j} /\ v.journey[k] = None
                                        THEN DbJourney(s, k) ELSE v.journey[k]]
    BY <1>3 DEF LoadedFrom
  <2>4. r = IF v.journey[j] = None THEN DbJourney(s, j) ELSE v.journey[j]
    BY <2>3
  <2>5. r \in LiveRow /\ r.event = d
    BY <1>2, <2>1, <2>4
  <2>6. x.event \in [Events -> Status \cup {None}]
    BY <1>2, <2>1, <2>2
  <2>7. x.journey \in [Journeys -> LiveRow \cup {None}]
    BY <1>2, <2>1, <2>3
  <2> QED BY <2>5, <2>6, <2>7
<1>6. x \in SessionStates
  BY <1>1, <1>3, <1>5 DEF x, Load, SessionStates
<1> DEFINE event == [x.event EXCEPT ![d] = "LOST"]
           journey == [x.journey EXCEPT ![j] = Closed(r)]
           w == [x EXCEPT !.journey = journey, !.event = event]
           rows == {JourneyRow(j), EventRow(d)}
           u == Flushing(s, w, rows)
<1>7. [x EXCEPT !.journey[j].state = "CLOSED", !.event[r.event] = "LOST"] = w
  BY <1>5, <1>6 DEF SessionStates, Closed
<1>8. session' = [session EXCEPT ![s] = u]
  BY <1>4, <1>5, <1>7
<1>9. /\ event \in [Events -> Status \cup {None}]
      /\ journey \in [Journeys -> LiveRow \cup {None}]
      /\ rows \in SUBSET Rows
  <2>1. Closed(r) \in LiveRow
    BY <1>5 DEF Closed, LiveRow
  <2>2. rows \in SUBSET Rows
    BY <1>2, RowNames
  <2> QED BY <1>2, <1>5, <2>1, <2>2 DEF Status
<1> HIDE DEF event, journey, rows, r
<1>10. /\ w \in SessionStates /\ w.todo = x.todo /\ w.event = event
       /\ w.phase = x.phase /\ w.journey = journey /\ w.dirty = x.dirty
       /\ w.unflushed = x.unflushed /\ w.closing = x.closing
       /\ w.booked = x.booked
  BY <1>6, <1>9 DEF SessionStates
<1> HIDE DEF w
<1>11. /\ x.phase = "tick" /\ x.todo = {} /\ x.unflushed = {}
       /\ x.dirty = v.dirty /\ x.closing = v.closing /\ x.booked = v.booked
  BY <1>1, <1>3 DEF LoadedFrom
<1>12. /\ Flushed(u, w, rows, Held(s)) /\ u \in SessionStates
       /\ u.phase = w.phase /\ u.todo = w.todo /\ u.closing = w.closing
       /\ u.event = w.event /\ u.journey = w.journey /\ u.booked = w.booked
  BY <1>9, <1>10, <1>11, FlushingIs
<1>13. Flushed(u, v, rows, Held(s))
  BY <1>10, <1>11, <1>12 DEF Flushed
<1> HIDE DEF u
<1>14. /\ u \in SessionStates /\ u.phase = "tick" /\ u.todo = {}
       /\ u.event = [x.event EXCEPT ![d] = "LOST"]
       /\ u.journey = [x.journey EXCEPT ![j] = Closed(x.journey[j])]
       /\ u.closing = v.closing /\ u.booked = v.booked
       /\ Flushed(u, v, {JourneyRow(j), EventRow(d)}, Held(s))
  BY <1>10, <1>11, <1>12, <1>13 DEF event, journey, rows, r
<1>15. saved' = saved /\ lock' = None
       /\ world' = [world EXCEPT !.mishaps = @ + 1]
  BY DEF Expire
<1>16. world'.undone = world.undone /\ world'.overlaps = world.overlaps
  BY <1>1, <1>15 DEF Worlds
<1>17. x.journey[j] \in LiveRow
  BY <1>5 DEF r
<1> QED BY <1>1, <1>2, <1>3, <1>8, <1>14, <1>15, <1>16, <1>17

\* What a session commits: the rows it has written, over what was committed.
LEMMA CommitIs ==
    ASSUME SessionsInv, NEW s \in Sessions, NEW v, v = session[s], Commit(s)
    PROVE  /\ v.phase \in {"scan", "tick"} /\ v.todo = {} /\ v.unflushed = {}
           /\ session' = [session EXCEPT ![s] = Idle]
           /\ \A e \in Events :
                 saved'.event[e] = IF EventRow(e) \in v.dirty THEN v.event[e]
                                   ELSE saved.event[e]
           /\ \A j \in Journeys :
                 saved'.journey[j] = IF JourneyRow(j) \in v.dirty
                                     THEN v.journey[j] ELSE saved.journey[j]
           /\ \A e \in Events :
                 saved'.ledger[e] = saved.ledger[e] + v.booked[e]
           /\ lock' = lock /\ world' = world
BY DEF Commit, Ready, Becomes, DbJourney

-----------------------------------------------------------------------------
(* The lock.                                                               *)

\* One session moves on and nothing is committed: the lock stays as it is, is
\* released, or is claimed.
LEMMA LockMoves ==
    ASSUME SessionsInv, LockInv, NEW s \in Sessions, NEW v, v = session[s],
           NEW u, session' = [session EXCEPT ![s] = u],
           saved' = saved, world'.undone = world.undone,
           Tidy(u), Unnamed(u, saved), v.dirty \subseteq u.dirty,
           v.phase = "claimed" => u.phase = "claimed" \/ lock' = None,
           \/ lock' = None
           \/ lock' = Pending /\ u.phase = "claimed"
           \/ lock' = lock /\ (~world.undone => KeepsOpen(u, lock))
    PROVE  LockInv'
<1>1. /\ session'[s] = u
      /\ \A t \in Sessions \ {s} : session'[t] = session[t]
  BY DEF SessionsInv
<1>2. /\ lock \in {None, Pending} \cup Journeys
      /\ None \notin Journeys /\ Pending \notin Journeys /\ None # Pending
  BY SessionsConstants DEF SessionsInv
<1>3. \A t \in Sessions : Tidy(session'[t]) /\ Unnamed(session'[t], saved')
  BY <1>1 DEF LockInv, Unnamed
<1>4. CASE lock' = None
  BY <1>2, <1>3, <1>4 DEF LockInv, LockHasHolder, KeepsOpen
<1>5. CASE lock' = Pending /\ u.phase = "claimed"
  BY <1>1, <1>2, <1>3, <1>5 DEF LockInv, LockHasHolder, KeepsOpen
<1>6. CASE lock' = lock /\ lock # None
  <2>1. ~world.undone => \A t \in Sessions : KeepsOpen(session'[t], lock)
    <3>1. ~world.undone => KeepsOpen(u, lock)
      BY <1>2, <1>6 DEF KeepsOpen
    <3>2. ~world.undone =>
             \A t \in Sessions \ {s} : KeepsOpen(session[t], lock)
      BY DEF LockInv
    <3> QED BY <1>1, <3>1, <3>2
  <2>2. ASSUME ~world.undone, lock = Pending
        PROVE  \E t \in Sessions : session'[t].phase = "claimed"
    <3>1. PICK t \in Sessions : session[t].phase = "claimed"
      BY <1>2, <2>2 DEF LockInv, LockHasHolder
    <3> QED BY <1>1, <1>6, <3>1
  <2>3. ASSUME ~world.undone, lock \in Journeys
        PROVE  \/ Open(saved.journey[lock])
               \/ \E t \in Sessions : /\ JourneyRow(lock) \in session'[t].dirty
                                      /\ Open(session'[t].journey[lock])
    <3>1. CASE Open(saved.journey[lock])
      BY <3>1
    <3>2. CASE ~ Open(saved.journey[lock])
      <4>1. PICK t \in Sessions : /\ JourneyRow(lock) \in session[t].dirty
                                  /\ Open(session[t].journey[lock])
        BY <1>2, <2>3, <3>2 DEF LockInv, LockHasHolder
      <4>2. CASE t = s
        <5>1. JourneyRow(lock) \in u.dirty
          BY <4>1, <4>2
        <5>2. Open(u.journey[lock])
          BY <1>1, <2>1, <2>3, <5>1 DEF KeepsOpen, Own
        <5> QED BY <1>1, <5>1, <5>2
      <4>3. CASE t # s
        BY <1>1, <4>1, <4>3
      <4> QED BY <4>2, <4>3
    <3> QED BY <3>1, <3>2
  <2>4. LockHasHolder'
    BY <1>2, <1>6, <2>2, <2>3 DEF LockHasHolder
  <2> QED BY <1>3, <1>6, <2>1, <2>4 DEF LockInv
<1> QED BY <1>4, <1>5, <1>6

\* A handler of tick keeps the lock with its journey: what a session has to
\* wait for to close, it has not written.
LEMMA HandlesKeepsLock ==
    ASSUME SessionsInv, LockInv, NEW s \in Sessions, NEW j \in Journeys,
           Advancing(s, j), Handles(s, j),
           saved' = saved, world'.undone = world.undone
    PROVE  LockInv'
<1> DEFINE v == session[s]
<1>1. /\ v \in SessionStates /\ Loaded(v) /\ v.phase = "tick"
      /\ v.unflushed = {} /\ j \in v.todo
      /\ v.dirty \cap Held(s) = {}
      /\ Tidy(v) /\ ~v.closing
      /\ lock \in {None, Pending} \cup Journeys
      /\ ~world.undone => KeepsOpen(v, lock)
  <2>1. /\ v \in SessionStates /\ Loaded(v) /\ v.phase = "tick"
        /\ v.unflushed = {} /\ j \in v.todo
        /\ \A t \in Sessions \ {s} : v.dirty \cap session[t].dirty = {}
        /\ lock \in {None, Pending} \cup Journeys
    BY SessionFacts DEF Advancing, Ready
  <2>2. v.dirty \cap Held(s) = {}
    BY <2>1 DEF Held
  <2>3. Tidy(v) /\ v.closing \in BOOLEAN
    BY <2>1, Columns DEF LockInv
  <2>4. ~v.closing
    BY <2>1, <2>3 DEF Tidy
  <2> QED BY <2>1, <2>2, <2>3, <2>4 DEF LockInv
<1>2. PICK u : /\ session' = [session EXCEPT ![s] = u]
               /\ Handled(u, v, j, Held(s), lock, lock')
  BY DEF Handles
<1>3. PICK r, e : /\ Writing(u, v, j, r, e, Held(s))
                  /\ \/ GoesOn(u, v, r, e, lock, lock')
                     \/ GivenUp(u, v, r, e, lock, lock')
                     \/ BookedOnce(u, v, r, e, lock, lock')
  BY <1>2 DEF Handled
<1> HIDE DEF v
<1> DEFINE rows == Written(v, j, r, e)
           held == Held(s)
<1>4. /\ u.phase = "tick" /\ u.todo = v.todo \ {j} /\ u \in SessionStates
      /\ u.journey = [v.journey EXCEPT ![j] = r]
      /\ Flushed(u, v, rows, held) /\ r \in LiveRow
      /\ r.event = v.journey[j].event
  BY <1>3 DEF Writing
<1>5. /\ JourneyRow(j) \in rows
      /\ \A k \in Journeys : JourneyRow(k) \in rows => k = j
      /\ \A x \in rows : x = JourneyRow(j) \/ x = EventRow(r.event)
  BY RowNames DEF Written
<1> HIDE DEF rows, held
<1>6. v.dirty \subseteq u.dirty /\ Own(u) = v.dirty \cup rows
  BY <1>4 DEF Flushed, Own
<1>7. /\ u.journey[j] = r
      /\ \A k \in Journeys \ {j} : u.journey[k] = v.journey[k]
  BY <1>1, <1>4, Columns
<1>8. JourneyRow(j) \in v.dirty => u.unflushed = {}
  <2> SUFFICES ASSUME JourneyRow(j) \in v.dirty PROVE rows \cap held = {}
    BY <1>4 DEF Flushed
  <2>1. EventRow(r.event) \in v.dirty
    BY <1>1, <1>4 DEF Tidy
  <2> QED BY <1>1, <1>5, <2>1 DEF held
<1>9. Tidy(u)
  <2>1. u.closing => u.unflushed # {}
    BY <1>3, <1>4, Columns DEF GoesOn, GivenUp, BookedOnce
  <2>2. ASSUME NEW k \in u.todo
        PROVE  /\ JourneyRow(k) \notin u.unflushed
               /\ JourneyRow(k) \in u.dirty =>
                     EventRow(u.journey[k].event) \in u.dirty
    <3>1. k \in v.todo /\ k # j
      BY <1>4
    <3>2. k \in Journeys
      BY <1>1, <3>1, SessionFacts DEF Phases, v
    <3>3. JourneyRow(k) \notin rows
      BY <1>5, <3>1, <3>2
    <3>4. JourneyRow(k) \in v.dirty => EventRow(v.journey[k].event) \in v.dirty
      BY <1>1, <3>1 DEF Tidy
    <3>5. JourneyRow(k) \notin u.unflushed
          /\ (JourneyRow(k) \in u.dirty => JourneyRow(k) \in v.dirty)
      BY <1>4, <3>3 DEF Flushed
    <3> QED BY <1>6, <1>7, <3>1, <3>2, <3>4, <3>5
  <2> QED BY <1>4, <2>1, <2>2 DEF Tidy
<1>10. \/ lock' = None
       \/ lock' = lock /\ (~world.undone => KeepsOpen(u, lock))
  <2>1. CASE lock' = None
    BY <2>1
  <2>2. CASE lock' = lock /\ (Open(r) \/ (u.closing /\ u.unflushed # {}))
    <3> SUFFICES ASSUME ~world.undone, lock \in Journeys,
                        JourneyRow(lock) \in Own(u)
                 PROVE  \/ Open(u.journey[lock])
                        \/ u.closing /\ JourneyRow(lock) \notin u.dirty
      BY <2>2 DEF KeepsOpen
    <3>1. CASE lock = j /\ Open(r)
      BY <1>7, <3>1
    <3>2. CASE lock = j /\ u.closing /\ u.unflushed # {}
      <4>1. u.dirty = v.dirty /\ JourneyRow(j) \notin v.dirty
        BY <1>4, <1>8, <3>2 DEF Flushed
      <4> QED BY <3>2, <4>1
    <3>3. CASE lock # j
      <4>1. JourneyRow(lock) \in v.dirty
        BY <1>5, <1>6, <3>3
      <4>2. Open(v.journey[lock])
        BY <1>1, <4>1 DEF KeepsOpen, Own
      <4> QED BY <1>7, <3>3, <4>2
    <3> QED BY <2>2, <3>1, <3>2, <3>3
  <2>3. lock' = None \/ (lock' = lock /\ (Open(r) \/ (u.closing /\ u.unflushed # {})))
    BY <1>3 DEF GoesOn, GivenUp, BookedOnce
  <2> QED BY <2>1, <2>2, <2>3
<1>11. v.phase # "claimed" /\ v = session[s] /\ Unnamed(u, saved)
  BY <1>1, <1>4 DEF v, Unnamed
<1> QED BY <1>2, <1>6, <1>9, <1>10, <1>11, LockMoves

\* u holds what v held, and the rows of no other journeys.
HoldsOn(u, v) ==
    /\ v.dirty \subseteq u.dirty
    /\ \A j \in Journeys : JourneyRow(j) \in Own(u) => JourneyRow(j) \in Own(v)

\* What a session has loaded besides changes nothing of what it keeps open.
LEMMA StaysOpen ==
    ASSUME NEW v, Loaded(v), NEW u, NEW owner, KeepsOpen(v, owner),
           ~v.closing,
           HoldsOn(u, v),
           \A j \in Journeys : v.journey[j] # None => u.journey[j] = v.journey[j]
    PROVE  KeepsOpen(u, owner)
<1> SUFFICES ASSUME owner \in Journeys, JourneyRow(owner) \in Own(u)
             PROVE  Open(u.journey[owner])
  BY DEF KeepsOpen
<1>1. JourneyRow(owner) \in Own(v)
  BY DEF HoldsOn
<1>2. v.journey[owner] # None /\ Open(v.journey[owner])
  BY <1>1 DEF Loaded, KeepsOpen
<1> QED BY <1>2

\* A step of a scan leaves the lock alone.
LEMMA ScansTidy ==
    ASSUME SessionsInv, LockInv, NEW s \in Sessions, NEW v, v = session[s],
           v.phase \in {"scan", "released"}, v.unflushed = {},
           NEW e, e = Scanned(s), NEW u, u.phase = "scan",
           NEW event, NEW rows \in SUBSET {EventRow(e)},
           v.phase = "released" => rows = {EventRow(e)},
           Scans(u, v, e, rows, Held(s), event)
    PROVE  Tidy(u) /\ HoldsOn(u, v)
<1>1. /\ v \in SessionStates /\ Tidy(v) /\ ~v.closing
      /\ v.phase = "released" => e = Min(v.todo)
  BY LockTells, ScanTells, Columns DEF Tidy
<1>2. u.closing = v.closing /\ u.journey = v.journey
      /\ Flushed(u, v, rows, Held(s))
  BY DEF Scans
<1>3. \A j \in Journeys : JourneyRow(j) \notin rows
  BY RowNames
<1>4. Own(u) = v.dirty \cup rows /\ v.dirty \subseteq u.dirty
      /\ u.unflushed \subseteq rows
  BY <1>2 DEF Flushed, Own
<1>5. \A j \in Journeys : JourneyRow(j) \in Own(u) => JourneyRow(j) \in v.dirty
  BY <1>3, <1>4
<1>6. ASSUME NEW j \in Journeys, JourneyRow(j) \in u.dirty
      PROVE  EventRow(u.journey[j].event) \in Own(u)
  <2>1. JourneyRow(j) \in v.dirty
    BY <1>5, <1>6 DEF Own
  <2>2. CASE v.phase = "scan"
    BY <1>1, <1>2, <1>4, <2>1, <2>2 DEF Tidy, Own
  <2>3. CASE v.phase = "released" /\ j # v.starting
    BY <1>1, <1>2, <1>4, <2>1, <2>3 DEF Tidy
  <2>4. CASE v.phase = "released" /\ j = v.starting
    BY <1>1, <1>2, <1>4, <2>4 DEF Tidy
  <2> QED BY <2>2, <2>3, <2>4
<1>7. Tidy(u)
  BY <1>1, <1>2, <1>3, <1>4, <1>6 DEF Tidy
<1> QED BY <1>4, <1>5, <1>7 DEF HoldsOn, Own

\* The steps of a scan that leave the lock alone.
LEMMA ScanKeepsLock ==
    ASSUME SessionsInv, LockInv, NEW s \in Sessions,
           ScanSuppresses(s) \/ ScanDefers(s)
    PROVE  LockInv'
<1> DEFINE v == session[s]
           e == Scanned(s)
<1>1. \E u, rows, event :
         /\ session' = [session EXCEPT ![s] = u]
         /\ u.phase = "scan" /\ rows \subseteq {EventRow(e)}
         /\ Scans(u, v, e, rows, Held(s), event)
  <2>1. CASE ScanSuppresses(s)
    <3> HIDE DEF v, e
    <3>1. PICK u : /\ session' = [session EXCEPT ![s] = u]
                   /\ u.phase = "scan"
                   /\ Scans(u, v, e, {EventRow(e)}, Held(s),
                            [v.event EXCEPT ![e] = "SUPPRESSED"])
      BY <2>1, ScanSuppressesIs DEF v, e
    <3> QED BY <3>1
  <2>2. CASE ScanDefers(s)
    <3> HIDE DEF v, e
    <3>1. PICK u : /\ session' = [session EXCEPT ![s] = u]
                   /\ u.phase = "scan"
                   /\ Scans(u, v, e, {}, Held(s), v.event)
      BY <2>2, ScanDefersIs DEF v, e
    <3> QED BY <3>1
  <2> QED BY <2>1, <2>2
<1>2. PICK u, rows, event :
         /\ session' = [session EXCEPT ![s] = u]
         /\ u.phase = "scan" /\ rows \subseteq {EventRow(e)}
         /\ Scans(u, v, e, rows, Held(s), event)
  BY <1>1
<1>3. /\ v.phase = "scan" /\ v.unflushed = {} /\ saved' = saved
      /\ lock' = lock /\ world' = world
  BY ScanSuppressesIs, ScanDefersIs
<1> HIDE DEF v, e
<1>4. Tidy(u) /\ HoldsOn(u, v)
  BY <1>2, <1>3, ScansTidy DEF v, e
<1>5. ~world.undone => KeepsOpen(u, lock)
  <2>1. Loaded(v) /\ Tidy(v) /\ (~world.undone => KeepsOpen(v, lock))
    BY LockTells DEF v
  <2>2. v.closing => v.phase = "tick"
    BY <2>1 DEF Tidy
  <2>3. u.journey = v.journey
    BY <1>2 DEF Scans
  <2> QED BY <1>3, <1>4, <2>1, <2>2, <2>3, StaysOpen
<1>6. Unnamed(u, saved) /\ v.dirty \subseteq u.dirty
  BY <1>2, <1>4 DEF Unnamed, HoldsOn
<1> QED BY <1>2, <1>3, <1>4, <1>5, <1>6, LockMoves DEF v

\* Claiming the customer for a journey that has no name yet.
LEMMA ClaimKeepsLock ==
    ASSUME SessionsInv, LockInv, NEW s \in Sessions, ClaimCustomer(s)
    PROVE  LockInv'
<1>1. PICK v : v = session[s]
  OBVIOUS
<1>2. PICK u : /\ session' = [session EXCEPT ![s] = u]
               /\ u.phase = "claimed" /\ u.journey = v.journey
               /\ u.dirty = v.dirty /\ u.unflushed = {}
               /\ u.closing = v.closing
  BY <1>1, ClaimCustomerIs
<1>3. /\ v.phase = "scan" /\ v.unflushed = {} /\ saved' = saved
      /\ lock' = Pending /\ world' = world
  BY <1>1, ClaimCustomerIs
<1>4. Tidy(v)
  BY <1>1, LockTells
<1>5. Own(u) = Own(v)
  BY <1>2, <1>3 DEF Own
<1>6. Tidy(u)
  BY <1>2, <1>3, <1>4, <1>5 DEF Tidy
<1>7. Unnamed(u, saved)
  BY <1>2 DEF Unnamed
<1> QED BY <1>1, <1>2, <1>3, <1>6, <1>7, LockMoves

\* The lock is released while the journey is inserted.
LEMMA StartKeepsLock ==
    ASSUME SessionsInv, LockInv, NEW s \in Sessions, StartJourney(s)
    PROVE  LockInv'
<1> DEFINE v == session[s]
           e == Scanned(s)
           j == world.created + 1
<1>1. /\ v.phase = "claimed" /\ e \in Events /\ e \in v.todo
      /\ v.unflushed = {} /\ j \in Journeys
      /\ saved' = saved /\ lock' = None
      /\ world'.undone = world.undone
      /\ v.journey[j] = None /\ saved.journey[j] = NoRow
  <2>1. /\ v.phase = "claimed" /\ e \in Events /\ e \in v.todo
        /\ v.unflushed = {} /\ j \in Journeys /\ ~ (j <= world.created)
        /\ saved' = saved /\ lock' = None
        /\ world'.undone = world.undone
    BY StartJourneyIs
  <2> HIDE DEF j
  <2> QED BY <2>1, NotYetNumbered
<1>2. PICK u : /\ session' = [session EXCEPT ![s] = u]
               /\ u.phase = "released" /\ u.todo = v.todo
               /\ u.starting = j
               /\ u.event = [v.event EXCEPT ![e] = "IN_RECOVERY"]
               /\ u.journey = [v.journey EXCEPT ![j] = NewJourney(e)]
               /\ u.dirty = v.dirty \cup {JourneyRow(j)}
               /\ u.unflushed = {}
               /\ u.closing = v.closing /\ u.booked = v.booked
               /\ u \in SessionStates
  BY StartJourneyIs
<1>3. v \in SessionStates /\ Tidy(v) /\ e = Min(v.todo) /\ Loaded(v)
  BY <1>1, LockTells, ScanTells
<1> HIDE DEF v, e, j
<1>4. v = session[s]
  BY DEF v
<1>5. /\ u.journey[j] = NewJourney(e)
      /\ \A k \in Journeys \ {j} : u.journey[k] = v.journey[k]
  BY <1>1, <1>2, <1>3, Columns
<1>6. Open(u.journey[j]) /\ u.journey[j].event = Min(u.todo)
  BY <1>2, <1>3, <1>5 DEF NewJourney, Open
<1>7. ASSUME NEW k \in Journeys \ {j}, JourneyRow(k) \in u.dirty
      PROVE  EventRow(u.journey[k].event) \in u.dirty
  <2>1. JourneyRow(k) \in v.dirty
    BY <1>2, <1>7, RowNames
  <2> QED BY <1>1, <1>2, <1>3, <1>5, <2>1 DEF Tidy, Own
<1>8. Tidy(u)
  <2>1. ~u.closing
    BY <1>1, <1>2, <1>3, Columns DEF Tidy
  <2> QED BY <1>2, <1>6, <1>7, <2>1 DEF Tidy
<1>9. Unnamed(u, saved)
  BY <1>1, <1>2 DEF Unnamed
<1>10. v.dirty \subseteq u.dirty
  BY <1>2
<1> QED BY <1>1, <1>2, <1>4, <1>8, <1>9, <1>10, LockMoves

\* The lock names the journey that was just inserted, which its session still
\* holds and nobody else has loaded.
LEMMA ReclaimKeepsLock ==
    ASSUME SessionsInv, LockInv, NEW s \in Sessions, ReclaimCustomer(s)
    PROVE  LockInv'
<1> DEFINE v == session[s]
           e == Scanned(s)
           j == v.starting
<1>1. /\ v.phase = "released" /\ e \in Events /\ e \in v.todo
      /\ j \in Journeys /\ v.unflushed = {}
      /\ saved' = saved /\ world' = world
      /\ lock' = IF lock = None THEN j ELSE lock
  BY ReclaimCustomerIs
<1>2. PICK u : /\ session' = [session EXCEPT ![s] = u]
               /\ u.phase = "scan"
               /\ Scans(u, v, e, {EventRow(e)}, Held(s), v.event)
  BY ReclaimCustomerIs
<1>3. Tidy(u) /\ HoldsOn(u, v)
  <2>1. v = session[s] /\ e = Scanned(s) /\ v.phase \in {"scan", "released"}
    BY <1>1
  <2> HIDE DEF v, e
  <2> QED BY <1>1, <1>2, <2>1, ScansTidy
<1>4. /\ Loaded(v) /\ Tidy(v) /\ (~world.undone => KeepsOpen(v, lock))
      /\ v \in SessionStates
      /\ \A t \in Sessions \ {s} : v.dirty \cap session[t].dirty = {}
      /\ saved.journey[j] = NoRow
  BY <1>1, LockTells DEF LockInv, Unnamed
<1>5. v = session[s]
  OBVIOUS
<1> HIDE DEF v, e, j
<1>6. /\ u.journey = v.journey /\ ~v.closing /\ Unnamed(u, saved)
      /\ v.dirty \subseteq u.dirty
  BY <1>1, <1>2, <1>3, <1>4, Columns DEF Scans, Tidy, Unnamed, HoldsOn
<1>7. CASE lock # None
  <2>1. ~world.undone => KeepsOpen(u, lock)
    BY <1>3, <1>4, <1>6, StaysOpen
  <2> QED BY <1>1, <1>2, <1>3, <1>5, <1>6, <1>7, <2>1, LockMoves
<1>8. CASE lock = None
  <2>1. /\ session'[s] = u
        /\ \A t \in Sessions \ {s} : session'[t] = session[t]
    BY <1>2 DEF SessionsInv
  <2>2. /\ JourneyRow(j) \in v.dirty /\ JourneyRow(j) \in u.dirty
        /\ Open(u.journey[j])
    BY <1>1, <1>3, <1>4, <1>6 DEF Tidy, j
  <2>3. ASSUME NEW t \in Sessions \ {s} PROVE JourneyRow(j) \notin Own(session[t])
    <3>1. Loaded(session[t]) /\ Agrees(session[t], saved.journey, world.created)
      BY DEF SessionsInv, Sound
    <3>2. JourneyRow(j) \in Own(session[t]) => JourneyRow(j) \in session[t].dirty
      BY <1>1, <1>4, <3>1 DEF Loaded, Agrees
    <3> QED BY <1>4, <2>2, <3>2
  <2>4. lock' = j /\ j # None /\ j # Pending
    BY <1>1, <1>8, SessionsConstants
  <2>5. \A t \in Sessions : KeepsOpen(session'[t], j)
    BY <2>1, <2>2, <2>3 DEF KeepsOpen
  <2>6. \A t \in Sessions : Tidy(session'[t]) /\ Unnamed(session'[t], saved')
    BY <1>1, <1>3, <1>6, <2>1 DEF LockInv
  <2>7. LockHasHolder'
    BY <2>1, <2>2, <2>4 DEF LockHasHolder
  <2> QED BY <1>1, <2>4, <2>5, <2>6, <2>7 DEF LockInv
<1> QED BY <1>7, <1>8

\* A session loads rows: what it has written stays as it was.
LEMMA BeginKeepsLock ==
    ASSUME SessionsInv, LockInv, NEW s \in Sessions,
           BeginScan(s) \/ BeginTick(s)
    PROVE  LockInv'
<1> DEFINE v == session[s]
<1>1. /\ v = Idle \/ v.phase = "scan"
      /\ v.unflushed = {} /\ saved' = saved /\ lock' = lock
  <2>1. Idle.unflushed = {}
    BY DEF Idle
  <2>2. CASE BeginScan(s)
    BY <2>1, <2>2, BeginScanIs
  <2>3. CASE BeginTick(s)
    BY <2>3, BeginTickIs
  <2> QED BY <2>2, <2>3
<1>2. PICK phase, todo, es, js, u :
         /\ phase \in {"scan", "tick"}
         /\ session' = [session EXCEPT ![s] = u]
         /\ LoadedFrom(u, Begun(s, phase, todo), s, es, js)
  <2>1. CASE BeginScan(s)
    BY <2>1, BeginScanIs
  <2>2. CASE BeginTick(s)
    BY <2>2, BeginTickIs
  <2> QED BY <2>1, <2>2
<1>3. /\ Loaded(v) /\ Tidy(v) /\ (~world.undone => KeepsOpen(v, lock))
      /\ v \in SessionStates
  BY LockTells
<1>4. world'.undone = world.undone
  BY BeginsCounts DEF BeginScan, BeginTick
<1>5. /\ u.phase = phase /\ u.dirty = v.dirty /\ u.unflushed = {}
      /\ u.closing = v.closing
      /\ u.journey = [j \in Journeys |-> IF j \in js /\ v.journey[j] = None
                                         THEN DbJourney(s, j) ELSE v.journey[j]]
  BY <1>1, <1>2, BegunIs DEF LoadedFrom
<1>6. v = session[s]
  OBVIOUS
<1> HIDE DEF v
<1>7. v.phase \in {"idle", "scan"} /\ ~v.closing
  BY <1>1, <1>3, Columns DEF Tidy, Idle
<1>8. \A j \in Journeys : JourneyRow(j) \in v.dirty =>
          /\ v.journey[j] # None
          /\ EventRow(v.journey[j].event) \in v.dirty
  <2>1. CASE v = Idle
    BY <2>1 DEF Idle
  <2>2. CASE v.phase = "scan"
    BY <1>1, <1>3, <2>2 DEF Tidy, Loaded, Own
  <2> QED BY <1>1, <2>1, <2>2
<1>9. \A j \in Journeys : v.journey[j] # None => u.journey[j] = v.journey[j]
  BY <1>5
<1>10. \A j \in Journeys : JourneyRow(j) \in u.dirty =>
          EventRow(u.journey[j].event) \in u.dirty
  BY <1>5, <1>8, <1>9
<1>11. u.phase = "tick" => \A j \in u.todo :
          /\ JourneyRow(j) \notin u.unflushed
          /\ JourneyRow(j) \in u.dirty => EventRow(u.journey[j].event) \in u.dirty
  <2>1. ASSUME NEW j, JourneyRow(j) \in u.dirty PROVE j \in Journeys
    <3>1. JourneyRow(j) \in Rows
      BY <1>3, <1>5, <2>1, Columns
    <3> QED BY <3>1 DEF Rows, EventRow, JourneyRow
  <2> QED BY <1>5, <1>10, <2>1
<1>12. Tidy(u)
  BY <1>2, <1>5, <1>7, <1>10, <1>11 DEF Tidy, Own
<1>13. HoldsOn(u, v)
  BY <1>1, <1>5 DEF HoldsOn, Own
<1>14. ~world.undone => KeepsOpen(u, lock)
  BY <1>3, <1>7, <1>9, <1>13, StaysOpen
<1>15. Unnamed(u, saved) /\ v.dirty \subseteq u.dirty
  BY <1>2, <1>5 DEF Unnamed
<1> QED BY <1>1, <1>2, <1>4, <1>6, <1>7, <1>12, <1>14, <1>15, LockMoves

\* A journey that is asked about later stays as it is.
LEMMA WaitsLongerKeepsLock ==
    ASSUME SessionsInv, LockInv, NEW s \in Sessions, NEW j \in Journeys,
           Advancing(s, j), Waits_longer(s, j),
           saved' = saved, world'.undone = world.undone
    PROVE  LockInv'
<1> DEFINE v == session[s]
           u == [v EXCEPT !.todo = @ \ {j}]
<1>1. /\ v \in SessionStates /\ Tidy(v) /\ v.phase = "tick"
      /\ ~world.undone => KeepsOpen(v, lock)
  BY LockTells DEF Advancing, Ready
<1>2. session' = [session EXCEPT ![s] = u] /\ lock' = lock
  BY DEF Waits_longer
<1>3. /\ u.phase = "tick" /\ u.todo = v.todo \ {j}
      /\ u.journey = v.journey /\ u.dirty = v.dirty
      /\ u.unflushed = v.unflushed /\ u.closing = v.closing
  BY <1>1 DEF SessionStates
<1>4. v = session[s]
  OBVIOUS
<1> HIDE DEF u, v
<1>5. Tidy(u) /\ Unnamed(u, saved) /\ v.dirty \subseteq u.dirty
  BY <1>1, <1>3 DEF Tidy, Unnamed
<1>6. ~world.undone => KeepsOpen(u, lock)
  BY <1>1, <1>3 DEF KeepsOpen, Own
<1> QED BY <1>1, <1>2, <1>4, <1>5, <1>6, LockMoves

\* A session that has waited writes its rows, and releases the lock if it was
\* to close a journey.
LEMMA FlushKeepsLock ==
    ASSUME SessionsInv, LockInv, NEW s \in Sessions, Flush(s)
    PROVE  LockInv'
<1> DEFINE v == session[s]
           dirty == v.dirty \cup v.unflushed
           u == [v EXCEPT !.dirty = dirty, !.unflushed = {}, !.closing = FALSE]
<1>1. /\ v \in SessionStates /\ Phases(v) /\ Tidy(v) /\ Loaded(v)
      /\ ~world.undone => KeepsOpen(v, lock)
  BY LockTells
<1>2. /\ session' = [session EXCEPT ![s] = u] /\ v.unflushed # {}
      /\ lock' = IF v.closing THEN None ELSE lock
      /\ saved' = saved /\ world' = world
  BY DEF Flush, Becomes
<1>3. dirty \in SUBSET Rows
  BY <1>1, Columns
<1> HIDE DEF dirty
<1>4. /\ u.dirty = dirty /\ u.unflushed = {} /\ u.closing = FALSE
      /\ u.phase = v.phase /\ u.todo = v.todo /\ u.starting = v.starting
      /\ u.journey = v.journey
  BY <1>1 DEF SessionStates
<1>5. v = session[s]
  OBVIOUS
<1> HIDE DEF u, v
<1>6. Own(u) = Own(v) /\ v.dirty \subseteq u.dirty
  BY <1>4 DEF Own, dirty
<1>7. v.phase \notin {"idle", "claimed", "released"}
  <2>1. Idle.unflushed = {}
    BY DEF Idle
  <2> QED BY <1>1, <1>2, <2>1 DEF Tidy, Phases
<1>8. Tidy(u)
  <2>1. CASE v.phase = "scan"
    <3>1. \A j \in Journeys : JourneyRow(j) \in dirty => JourneyRow(j) \in v.dirty
      BY <1>1, <2>1 DEF Tidy, dirty
    <3>2. \A j \in Journeys : JourneyRow(j) \in v.dirty =>
             EventRow(v.journey[j].event) \in Own(v)
      BY <1>1, <2>1 DEF Tidy
    <3> QED BY <1>4, <1>6, <2>1, <3>1, <3>2 DEF Tidy
  <2>2. CASE v.phase = "tick"
    <3>1. \A j \in v.todo : JourneyRow(j) \in dirty => JourneyRow(j) \in v.dirty
      BY <1>1, <2>2 DEF Tidy, dirty
    <3> QED BY <1>1, <1>4, <1>6, <2>2, <3>1 DEF Tidy
  <2> QED BY <1>1, <1>7, <2>1, <2>2, Columns
<1>9. Unnamed(u, saved)
  BY <1>4, <1>7 DEF Unnamed
<1>10. CASE v.closing
  BY <1>2, <1>5, <1>6, <1>7, <1>8, <1>9, <1>10, LockMoves
<1>11. CASE ~v.closing
  <2>1. ~world.undone => KeepsOpen(u, lock)
    BY <1>1, <1>4, <1>6, <1>11 DEF KeepsOpen
  <2> QED BY <1>2, <1>5, <1>6, <1>7, <1>8, <1>9, <1>11, <2>1, LockMoves
<1> QED BY <1>10, <1>11

\* A journey past its time is closed and the lock released.
LEMMA ExpireKeepsLock ==
    ASSUME SessionsInv, LockInv, NEW s \in Sessions, NEW j \in Journeys,
           Expire(s, j)
    PROVE  LockInv'
<1> DEFINE v == session[s]
           d == DbJourney(s, j).event
<1>1. /\ v.phase = "tick" /\ v.todo = {} /\ v.unflushed = {}
      /\ saved' = saved /\ lock' = None /\ world'.undone = world.undone
  BY ExpireIs
<1>2. PICK u, x :
         /\ session' = [session EXCEPT ![s] = u]
         /\ LoadedFrom(x, v, s, {d}, {j}) /\ x.journey[j] \in LiveRow
         /\ u \in SessionStates /\ u.phase = "tick" /\ u.todo = {}
         /\ u.event = [x.event EXCEPT ![d] = "LOST"]
         /\ u.journey = [x.journey EXCEPT ![j] = Closed(x.journey[j])]
         /\ u.closing = v.closing /\ u.booked = v.booked
         /\ Flushed(u, v, {JourneyRow(j), EventRow(d)}, Held(s))
  BY ExpireIs
<1>3. v \in SessionStates /\ Tidy(v)
  BY LockTells
<1>4. v = session[s]
  OBVIOUS
<1> HIDE DEF v, d
<1>5. ~u.closing /\ v.dirty \subseteq u.dirty
  BY <1>1, <1>2, <1>3, Columns DEF Tidy, Flushed
<1>6. Tidy(u) /\ Unnamed(u, saved)
  BY <1>2, <1>5 DEF Tidy, Unnamed
<1> QED BY <1>1, <1>2, <1>4, <1>5, <1>6, LockMoves

\* An idle session has nothing to tidy.
LEMMA IdleIsTidy ==
    /\ Tidy(Idle) /\ Idle.phase = "idle" /\ Idle.dirty = {}
    /\ Idle.unflushed = {}
    /\ \A owner : KeepsOpen(Idle, owner)
    /\ \A sv : Unnamed(Idle, sv)
<1>1. /\ Idle.phase = "idle" /\ Idle.dirty = {} /\ Idle.unflushed = {}
      /\ Idle.closing = FALSE
  BY DEF Idle
<1> QED BY <1>1 DEF Tidy, KeepsOpen, Own, Unnamed

\* The journey that owns the customer is open in what is committed, or in what
\* another session still holds.
LEMMA CommitKeepsLock ==
    ASSUME SessionsInv, LockInv, NEW s \in Sessions, Commit(s)
    PROVE  LockInv'
<1> DEFINE v == session[s]
<1>1. /\ v.phase \in {"scan", "tick"} /\ v.unflushed = {}
      /\ session' = [session EXCEPT ![s] = Idle]
      /\ \A j \in Journeys :
            saved'.journey[j] = IF JourneyRow(j) \in v.dirty
                                THEN v.journey[j] ELSE saved.journey[j]
      /\ lock' = lock /\ world' = world
  BY CommitIs
<1>2. /\ session'[s] = Idle
      /\ \A t \in Sessions \ {s} : session'[t] = session[t]
  BY <1>1 DEF SessionsInv
<1>3. /\ v \in SessionStates /\ Tidy(v) /\ ~v.closing
      /\ ~world.undone => KeepsOpen(v, lock)
      /\ lock \in {None, Pending} \cup Journeys
      /\ \A t \in Sessions \ {s} : v.dirty \cap session[t].dirty = {}
  BY <1>1, LockTells, Columns DEF Tidy
<1>4. v = session[s]
  OBVIOUS
<1> HIDE DEF v
<1>5. ASSUME NEW t \in Sessions
      PROVE  Tidy(session'[t]) /\ Unnamed(session'[t], saved')
  <2>1. CASE t = s
    BY <1>2, <2>1, IdleIsTidy
  <2>2. CASE t # s
    <3>1. Tidy(session[t]) /\ Unnamed(session[t], saved) /\ Phases(session[t])
      BY LockTells DEF LockInv
    <3>2. ASSUME session[t].phase = "released"
          PROVE  saved'.journey[session[t].starting] = NoRow
      <4>1. session[t].starting \in Journeys
            /\ JourneyRow(session[t].starting) \in session[t].dirty
            /\ saved.journey[session[t].starting] = NoRow
        BY <3>1, <3>2 DEF Tidy, Phases, Unnamed
      <4>2. JourneyRow(session[t].starting) \notin v.dirty
        BY <1>3, <2>2, <4>1
      <4> QED BY <1>1, <4>1, <4>2
    <3> QED BY <1>2, <2>2, <3>1, <3>2 DEF Unnamed
  <2> QED BY <2>1, <2>2
<1>6. ~world.undone => \A t \in Sessions : KeepsOpen(session'[t], lock)
  BY <1>2, IdleIsTidy DEF LockInv
<1>7. LockHasHolder'
  <2> SUFFICES ASSUME lock # None, ~world.undone
               PROVE  IF lock = Pending
                      THEN \E t \in Sessions : session'[t].phase = "claimed"
                      ELSE \/ Open(saved'.journey[lock])
                           \/ \E t \in Sessions :
                                /\ JourneyRow(lock) \in session'[t].dirty
                                /\ Open(session'[t].journey[lock])
    BY <1>1 DEF LockHasHolder
  <2>1. CASE lock = Pending
    <3>1. PICK t \in Sessions : session[t].phase = "claimed"
      BY <2>1 DEF LockInv, LockHasHolder
    <3> QED BY <1>1, <1>2, <1>4, <2>1, <3>1
  <2>2. CASE lock \in Journeys /\ JourneyRow(lock) \in v.dirty
    <3>1. Open(v.journey[lock])
      BY <1>3, <2>2 DEF KeepsOpen, Own
    <3> QED BY <1>1, <2>2, <3>1, SessionsConstants
  <2>3. CASE lock \in Journeys /\ JourneyRow(lock) \notin v.dirty
    <3>1. saved'.journey[lock] = saved.journey[lock]
      BY <1>1, <2>3
    <3>2. CASE Open(saved.journey[lock])
      BY <2>3, <3>1, <3>2, SessionsConstants
    <3>3. CASE ~ Open(saved.journey[lock])
      <4>1. PICK t \in Sessions : /\ JourneyRow(lock) \in session[t].dirty
                                  /\ Open(session[t].journey[lock])
        BY <2>3, <3>3, SessionsConstants DEF LockInv, LockHasHolder
      <4> QED BY <1>2, <1>4, <2>3, <4>1, SessionsConstants
    <3> QED BY <3>2, <3>3
  <2> QED BY <1>3, <2>1, <2>2, <2>3
<1> QED BY <1>1, <1>5, <1>6, <1>7 DEF LockInv

\* A cycle that is rolled back may leave the lock to nobody.
LEMMA RollbackKeepsLock ==
    ASSUME SessionsInv, LockInv, NEW s \in Sessions, Rollback(s)
    PROVE  LockInv'
<1>1. /\ session' = [session EXCEPT ![s] = Idle] /\ saved' = saved
      /\ \/ world' = [world EXCEPT !.mishaps = @ + 1, !.undone = TRUE]
         \/ world' = [world EXCEPT !.undone = TRUE]
  BY DEF Rollback, Becomes
<1>2. world'.undone
  <2>1. world \in Worlds
    BY DEF SessionsInv
  <2> QED BY <1>1, <2>1 DEF Worlds
<1>3. \A t \in Sessions : Tidy(session'[t]) /\ Unnamed(session'[t], saved')
  <2>1. /\ session'[s] = Idle
        /\ \A t \in Sessions \ {s} : session'[t] = session[t]
    BY <1>1 DEF SessionsInv
  <2> QED BY <1>1, <2>1, IdleIsTidy DEF LockInv
<1> QED BY <1>2, <1>3 DEF LockInv, LockHasHolder

\* The customer knows of no lock.
LEMMA PaysKeepsLock ==
    ASSUME SessionsInv, LockInv,
           \/ UNCHANGED vars
           \/ \E k \in Journeys \X Steps : CustomerPaysLink(k)
           \/ \E e \in Events : CustomerPaysOrder(e)
    PROVE  LockInv'
<1>1. /\ saved' = saved /\ session' = session /\ lock' = lock
      /\ world' = world \/ world' = [world EXCEPT !.paid = @ + 1]
  BY DEF vars, CustomerPaysLink, CustomerPaysOrder
<1>2. world'.undone = world.undone
  <2>1. world \in Worlds
    BY DEF SessionsInv
  <2> QED BY <1>1, <2>1 DEF Worlds
<1> QED BY <1>1, <1>2 DEF LockInv, LockHasHolder

\* Every step keeps the lock with its holder.
LEMMA LockNext == SessionsInv /\ LockInv /\ [Next]_vars => LockInv'
<1> SUFFICES ASSUME SessionsInv, LockInv, [Next]_vars PROVE LockInv'
  OBVIOUS
<1>1. ASSUME NEW s \in Sessions,
             \/ Flush(s) \/ BeginScan(s) \/ ScanSuppresses(s) \/ ScanDefers(s)
             \/ ClaimCustomer(s) \/ StartJourney(s) \/ ReclaimCustomer(s)
             \/ BeginTick(s) \/ Commit(s) \/ Rollback(s)
      PROVE  LockInv'
  BY <1>1, FlushKeepsLock, BeginKeepsLock, ScanKeepsLock, ClaimKeepsLock,
     StartKeepsLock, ReclaimKeepsLock, CommitKeepsLock, RollbackKeepsLock
<1>2. ASSUME NEW s \in Sessions, NEW j \in Journeys, TickStep(s, j)
      PROVE  LockInv'
  <2>1. /\ Advancing(s, j)
        /\ Handles(s, j) \/ Waits_longer(s, j)
        /\ saved' = saved /\ world'.undone = world.undone
    BY <1>2, TickHandles
  <2>2. CASE Handles(s, j)
    BY <2>1, <2>2, HandlesKeepsLock
  <2>3. CASE Waits_longer(s, j)
    BY <2>1, <2>3, WaitsLongerKeepsLock
  <2> QED BY <2>1, <2>2, <2>3
<1>3. ASSUME NEW s \in Sessions, NEW j \in Journeys, Expire(s, j)
      PROVE  LockInv'
  BY <1>3, ExpireKeepsLock
<1> QED BY <1>1, <1>2, <1>3, PaysKeepsLock DEF Next, TickStep

\* Nothing is locked before the first cycle.
LEMMA LockInit == Init => LockInv
<1> SUFFICES ASSUME Init PROVE LockInv
  OBVIOUS
<1>1. /\ lock = None /\ \A s \in Sessions : session[s] = Idle
  BY DEF Init
<1> QED BY <1>1, IdleIsTidy DEF LockInv, LockHasHolder

-----------------------------------------------------------------------------
(* The theorem of the lock.                                                *)

\* Unless a cycle was rolled back, a lock that is set has somebody who will
\* release it, however many cycles overlap and take it from each other: a
\* session about to name a journey, or a journey that is open, committed or
\* held by the session that wrote it (services/idempotency.py,
\* services/orchestrator.py).
THEOREM LockIsHeld == Spec => []LockHasHolder
<1>1. Init => SessionsInv /\ LockInv
  BY InitHolds, LockInit
<1>2. SessionsInv /\ LockInv /\ [Next]_vars => (SessionsInv /\ LockInv)'
  BY NextHolds, LockNext
<1>3. LockInv => LockHasHolder
  BY DEF LockInv
<1> QED BY <1>1, <1>2, <1>3, PTL DEF Spec

-----------------------------------------------------------------------------
(* Cycles that do not overlap.                                             *)

\* What will be committed, row by row.
LEMMA AfterIs ==
    ASSUME NEW v, NEW sv
    PROVE  /\ \A e \in Events : After(v, sv).event[e] =
                 IF v.event[e] = None THEN sv.event[e] ELSE v.event[e]
           /\ \A j \in Journeys : After(v, sv).journey[j] =
                 IF v.journey[j] = None THEN sv.journey[j] ELSE v.journey[j]
           /\ \A e \in Events :
                 After(v, sv).ledger[e] = sv.ledger[e] + v.booked[e]
BY DEF After

\* The only session that runs finds nothing held by others.
LEMMA SerialTells ==
    ASSUME SessionsInv, LockInv, SerialInv, world.overlaps = 0,
           NEW s \in Sessions, Alone(s), NEW v, v = session[s]
    PROVE  /\ Held(s) = {}
           /\ Serial(v, saved)
           /\ Names(v, saved, lock, world.undone)
           /\ Consistent(saved) /\ (~world.undone => OpenIsOne(saved))
<1>1. ASSUME NEW t \in Sessions \ {s} PROVE session[t].dirty = {}
  <2>1. session[t] = Idle
    BY DEF Alone, LockInv, Tidy
  <2> QED BY <2>1, IdleIsTidy
<1>2. Held(s) = {}
  BY <1>1 DEF Held
<1> QED BY <1>2 DEF SerialInv

\* Nobody else may have begun when a session runs.
LEMMA RunsAlone ==
    ASSUME SerialInv, world.overlaps = 0, NEW s \in Sessions,
           session[s].phase # "idle"
    PROVE  Alone(s)
BY DEF SerialInv

\* The session that runs moves on, and nothing is committed.
LEMMA SerialMoves ==
    ASSUME SessionsInv, SerialInv, world.overlaps = 0,
           NEW s \in Sessions, Alone(s),
           NEW u, session' = [session EXCEPT ![s] = u], u.phase # "idle",
           saved' = saved, world'.undone = world.undone,
           Serial(u, saved), Names(u, saved, lock', world.undone)
    PROVE  SerialInv'
<1>1. /\ session'[s] = u
      /\ \A t \in Sessions \ {s} : session'[t] = session[t]
  BY DEF SessionsInv
<1>2. Consistent(saved') /\ (~world'.undone => OpenIsOne(saved'))
  BY DEF SerialInv
<1>3. \A t \in Sessions : Serial(session'[t], saved')
  BY <1>1 DEF SerialInv
<1>4. \A t \in Sessions : session'[t].phase # "idle" =>
         \A x \in Sessions \ {t} : session'[x].phase = "idle"
  BY <1>1 DEF Alone
<1>5. ASSUME NEW t \in Sessions,
             \A x \in Sessions \ {t} : session'[x].phase = "idle"
      PROVE  Names(session'[t], saved', lock', world'.undone)
  <2>1. t = s
    BY <1>1, <1>5
  <2> QED BY <1>1, <2>1
<1> QED BY <1>2, <1>3, <1>4, <1>5 DEF SerialInv, Alone

\* One event and one journey of it change, from an open journey.
LEMMA ConsistentMoves ==
    ASSUME NEW w, Consistent(w), NEW j \in Journeys, NEW d \in Events,
           Open(w.journey[j]), w.journey[j].event = d,
           \A k \in Journeys : Open(w.journey[k]) => w.journey[k].event \in Events,
           NEW x, x.journey[j].event = d,
           \A k \in Journeys \ {j} : x.journey[k] = w.journey[k],
           \A e \in Events \ {d} :
              x.event[e] = w.event[e] /\ x.ledger[e] = w.ledger[e],
           x.ledger[d] = IF x.event[d] = "RECOVERED" THEN 1 ELSE 0,
           Open(x.journey[j]) => x.event[d] = "IN_RECOVERY"
    PROVE  Consistent(x)
<1>1. \A e \in Events :
         x.ledger[e] = IF x.event[e] = "RECOVERED" THEN 1 ELSE 0
  BY DEF Consistent
<1>2. ASSUME NEW k \in Journeys, Open(x.journey[k])
      PROVE  x.event[x.journey[k].event] = "IN_RECOVERY"
  <2>1. CASE k = j
    BY <1>2, <2>1
  <2>2. CASE k # j
    <3>1. Open(w.journey[k]) /\ x.journey[k] = w.journey[k]
      BY <1>2, <2>2
    <3>2. w.journey[k].event # d
      BY <2>2, <3>1 DEF Consistent
    <3>3. w.journey[k].event \in Events
      BY <3>1
    <3>4. w.event[w.journey[k].event] = "IN_RECOVERY"
      BY <3>1 DEF Consistent
    <3> QED BY <3>1, <3>2, <3>3, <3>4
  <2> QED BY <2>1, <2>2
<1>3. ASSUME NEW k \in Journeys, NEW l \in Journeys,
             Open(x.journey[k]), Open(x.journey[l]),
             x.journey[k].event = x.journey[l].event
      PROVE  k = l
  <2>1. ASSUME NEW i \in Journeys, Open(x.journey[i])
        PROVE  Open(w.journey[i]) /\ w.journey[i].event = x.journey[i].event
    BY <2>1
  <2> QED BY <1>3, <2>1 DEF Consistent
<1> QED BY <1>1, <1>2, <1>3 DEF Consistent

\* An event that is AT_RISK or IN_RECOVERY may still become what it becomes.
LEMMA LaterStill ==
    ASSUME NEW e, NEW c, NEW t \in Fate!Later(e, c)
    PROVE  /\ c \in Fate!Later(e, c)
           /\ t = "AT_RISK" => \A u \in Status : u \in Fate!Later(e, c)
           /\ t = "IN_RECOVERY" =>
                 \A u \in {"IN_RECOVERY", "LOST", "RECOVERED"} :
                    u \in Fate!Later(e, c)
BY DEF Fate!Later, Fate!EventStatus, Fate!EventSettled, Status

\* The event of one row moves on.
LEMMA AheadMoves ==
    ASSUME NEW w, NEW sv, Ahead(w, sv), NEW d \in Events, NEW x,
           \A e \in Events \ {d} : x.event[e] = w.event[e],
           \/ w.event[d] = "AT_RISK" /\ x.event[d] \in Status
           \/ /\ w.event[d] = "IN_RECOVERY"
              /\ x.event[d] \in {"IN_RECOVERY", "LOST", "RECOVERED"}
    PROVE  Ahead(x, sv)
<1>1. x.event[d] \in Fate!Later(d, sv.event[d])
  BY LaterStill DEF Ahead
<1> QED BY <1>1 DEF Ahead

\* The rows of what will be committed.
LEMMA AfterTypes ==
    ASSUME SessionsInv, NEW s \in Sessions, NEW w,
           w = After(session[s], saved)
    PROVE  /\ \A k \in Journeys : Open(w.journey[k]) => w.journey[k] \in LiveRow
           /\ \A k \in Journeys : Open(w.journey[k]) => w.journey[k].event \in Events
           /\ \A e \in Events : w.event[e] \in Status /\ w.ledger[e] \in Nat
<1>1. /\ session[s] \in SessionStates /\ saved \in SavedRows
  BY SessionFacts
<1>2. ~Open(NoRow)
  BY DEF NoRow, Open
<1>3. \A k \in Journeys : w.journey[k] \in LiveRow \cup {NoRow}
  <2>1. \A k \in Journeys : /\ session[s].journey[k] \in LiveRow \cup {None}
                            /\ saved.journey[k] \in LiveRow \cup {NoRow}
    BY <1>1, Columns DEF SavedRows
  <2> QED BY <2>1, AfterIs
<1>4. ASSUME NEW e \in Events PROVE w.event[e] \in Status /\ w.ledger[e] \in Nat
  <2>1. /\ session[s].event[e] \in Status \cup {None}
        /\ saved.event[e] \in Status /\ saved.ledger[e] \in Nat
        /\ session[s].booked[e] \in Nat
    BY <1>1, Columns DEF SavedRows
  <2>2. saved.ledger[e] + session[s].booked[e] \in Nat
    BY <2>1
  <2> QED BY <2>1, <2>2, AfterIs
<1> QED BY <1>2, <1>3, <1>4, RowTypes

\* The open journey a handler of tick is at, when no other session runs: its
\* event is IN_RECOVERY and not booked.
LEMMA AtHand ==
    ASSUME SessionsInv, LockInv, SerialInv, world.overlaps = 0,
           NEW s \in Sessions, NEW j \in Journeys, Advancing(s, j),
           NEW v, v = session[s], NEW w, w = After(v, saved),
           NEW d, d = v.journey[j].event
    PROVE  /\ v \in SessionStates /\ v.phase = "tick" /\ v.unflushed = {}
           /\ j \in v.todo /\ Alone(s) /\ Held(s) = {}
           /\ Serial(v, saved) /\ Names(v, saved, lock, world.undone)
           /\ Open(v.journey[j]) /\ w.journey[j] = v.journey[j]
           /\ d \in Events /\ v.event[d] = "IN_RECOVERY"
           /\ w.event[d] = "IN_RECOVERY"
           /\ saved.ledger[d] + v.booked[d] = 0
           /\ v.booked[d] \in Nat /\ saved.ledger[d] \in Nat
           /\ ~world.undone =>
                 \A k \in Journeys : Open(w.journey[k]) => k = j /\ lock = j
           /\ \A k \in v.todo : k \in Journeys
<1>1. /\ v \in SessionStates /\ Phases(v) /\ v.phase = "tick"
      /\ v.unflushed = {} /\ j \in v.todo
  BY SessionFacts DEF Advancing, Ready
<1>2. Alone(s)
  BY <1>1, RunsAlone
<1>3. Held(s) = {} /\ Serial(v, saved) /\ Names(v, saved, lock, world.undone)
  BY <1>2, SerialTells
<1>4. Open(v.journey[j]) /\ v.event[d] # None /\ v.journey[j] # None
  BY <1>1, <1>3 DEF Serial, Todo, Phases
<1>5. w.journey[j] = v.journey[j]
  BY <1>4, AfterIs
<1>6. d \in Events
  BY <1>4, <1>5, AfterTypes
<1>7. w.event[d] = v.event[d] /\ w.ledger[d] = saved.ledger[d] + v.booked[d]
  BY <1>4, <1>6, AfterIs
<1>8. w.event[d] = "IN_RECOVERY" /\ w.ledger[d] = 0
  BY <1>3, <1>4, <1>5, <1>6 DEF Serial, Consistent
<1>9. v.booked[d] \in Nat /\ saved.ledger[d] \in Nat
  <2>1. saved \in SavedRows
    BY SessionFacts
  <2> QED BY <1>1, <1>6, <2>1, Columns DEF SavedRows
<1>10. ASSUME ~world.undone, NEW k \in Journeys, Open(w.journey[k])
       PROVE  k = j /\ lock = j
  BY <1>1, <1>3, <1>4, <1>5, <1>10 DEF Names
<1> QED BY <1>1, <1>2, <1>3, <1>4, <1>5, <1>6, <1>7, <1>8, <1>9, <1>10
        DEF Phases

\* u has written the row of j, and that of d unless it is as v has it.
Touches(u, v, j, d) ==
    /\ \A x \in Events \ {d} : u.event[x] = v.event[x]
    /\ \A k \in Journeys \ {j} : u.journey[k] = v.journey[k]
    /\ v.dirty \subseteq u.dirty /\ JourneyRow(j) \in u.dirty
    /\ u.event[d] = v.event[d] \/ EventRow(d) \in u.dirty

\* What is written of an event and of one journey of it is what is loaded.
LEMMA StaysFresh ==
    ASSUME NEW v, Fresh(v, saved), v.phase = "tick",
           NEW u, u.phase = "tick", NEW j \in Journeys, NEW d \in Events,
           Touches(u, v, j, d)
    PROVE  Fresh(u, saved)
<1>1. ASSUME NEW x \in Events, u.event[x] # None
      PROVE  EventRow(x) \in u.dirty \/ u.event[x] = saved.event[x]
  <2>1. CASE u.event[x] = v.event[x]
    BY <1>1, <2>1 DEF Fresh, Touches, Starts
  <2>2. CASE u.event[x] # v.event[x]
    BY <1>1, <2>2 DEF Touches
  <2> QED BY <2>1, <2>2
<1>2. ASSUME NEW k \in Journeys, u.journey[k] # None
      PROVE  JourneyRow(k) \in u.dirty \/ u.journey[k] = saved.journey[k]
  <2>1. CASE k = j
    BY <2>1 DEF Touches
  <2>2. CASE k # j
    BY <1>2, <2>2 DEF Fresh, Touches
  <2> QED BY <2>1, <2>2
<1> QED BY <1>1, <1>2 DEF Fresh

\* A handler of tick that runs alone books an open journey once, or leaves its
\* event as it was or LOST.
LEMMA HandlesKeepsSerial ==
    ASSUME SessionsInv, LockInv, SerialInv, world.overlaps = 0,
           NEW s \in Sessions, NEW j \in Journeys,
           Advancing(s, j), Handles(s, j),
           saved' = saved, world'.undone = world.undone
    PROVE  SerialInv'
<1> DEFINE v == session[s]
           d == v.journey[j].event
           w == After(v, saved)
<1>1. /\ v \in SessionStates /\ v.phase = "tick" /\ v.unflushed = {}
      /\ j \in v.todo /\ Alone(s) /\ Held(s) = {}
      /\ Serial(v, saved) /\ Names(v, saved, lock, world.undone)
      /\ Open(v.journey[j]) /\ w.journey[j] = v.journey[j]
      /\ d \in Events /\ v.event[d] = "IN_RECOVERY"
      /\ w.event[d] = "IN_RECOVERY"
      /\ saved.ledger[d] + v.booked[d] = 0
      /\ v.booked[d] \in Nat /\ saved.ledger[d] \in Nat
      /\ ~world.undone =>
            \A k \in Journeys : Open(w.journey[k]) => k = j /\ lock = j
      /\ \A k \in v.todo : k \in Journeys
  BY AtHand, SMTT(30)
<1>2. PICK u : /\ session' = [session EXCEPT ![s] = u]
               /\ Handled(u, v, j, Held(s), lock, lock')
  BY DEF Handles
<1>3. PICK r, e : /\ Writing(u, v, j, r, e, Held(s))
                  /\ \/ GoesOn(u, v, r, e, lock, lock')
                     \/ GivenUp(u, v, r, e, lock, lock')
                     \/ BookedOnce(u, v, r, e, lock, lock')
  BY <1>2 DEF Handled
<1>4. \A k \in Journeys : Open(w.journey[k]) => w.journey[k].event \in Events
  BY AfterTypes
<1> HIDE DEF v, w, d
<1>5. /\ u.phase = "tick" /\ u.todo = v.todo \ {j} /\ u \in SessionStates
      /\ r \in LiveRow /\ r # None /\ r.event = d
      /\ u.event = [v.event EXCEPT ![d] = e]
      /\ u.journey = [v.journey EXCEPT ![j] = r]
      /\ Flushed(u, v, Written(v, j, r, e), {})
  BY <1>1, <1>3, RowTypes DEF Writing, d
<1>6. /\ u.unflushed = {} /\ u.dirty = v.dirty \cup Written(v, j, r, e)
  BY <1>5 DEF Flushed
<1>7. /\ u.event[d] = e /\ u.journey[j] = r
      /\ \A x \in Events \ {d} : u.event[x] = v.event[x]
      /\ \A k \in Journeys \ {j} : u.journey[k] = v.journey[k]
  BY <1>1, <1>5, Columns
<1>8. /\ \A x \in Events \ {d} : u.booked[x] = v.booked[x]
      /\ u.booked[d] = IF e = "RECOVERED" THEN v.booked[d] + 1 ELSE v.booked[d]
      /\ e \in {"IN_RECOVERY", "LOST", "RECOVERED"}
      /\ Open(r) => e = "IN_RECOVERY"
      /\ lock' = IF Open(r) THEN lock ELSE None
  <2>1. v.booked \in [Events -> Nat]
    BY <1>1, Columns
  <2>2. CASE GoesOn(u, v, r, e, lock, lock')
    BY <1>1, <1>5, <2>2 DEF GoesOn
  <2>3. CASE GivenUp(u, v, r, e, lock, lock')
    BY <1>1, <1>5, <2>3 DEF GivenUp, Open
  <2>4. CASE BookedOnce(u, v, r, e, lock, lock')
    BY <1>1, <1>5, <1>6, <2>1, <2>4 DEF BookedOnce, Open
  <2> QED BY <1>3, <2>2, <2>3, <2>4
<1> DEFINE x == After(u, saved)
<1>9. /\ x.journey[j] = r /\ x.event[d] = e
      /\ \A k \in Journeys \ {j} : x.journey[k] = w.journey[k]
      /\ \A y \in Events \ {d} :
            x.event[y] = w.event[y] /\ x.ledger[y] = w.ledger[y]
      /\ x.ledger[d] = saved.ledger[d] + u.booked[d]
  <2>1. e # None
    BY <1>8, SessionsConstants DEF Status
  <2>2. /\ x.journey[j] = r /\ x.event[d] = e
        /\ x.ledger[d] = saved.ledger[d] + u.booked[d]
    <3>1. /\ x.journey[j] = IF u.journey[j] = None THEN saved.journey[j]
                             ELSE u.journey[j]
          /\ x.event[d] = IF u.event[d] = None THEN saved.event[d]
                          ELSE u.event[d]
          /\ x.ledger[d] = saved.ledger[d] + u.booked[d]
      BY <1>1, AfterIs
    <3> HIDE DEF x
    <3> QED BY <1>5, <1>7, <2>1, <3>1
  <2>3. \A k \in Journeys \ {j} : x.journey[k] = w.journey[k]
    BY <1>7, AfterIs DEF w
  <2>4. ASSUME NEW y \in Events \ {d}
        PROVE  x.event[y] = w.event[y] /\ x.ledger[y] = w.ledger[y]
    <3>1. u.event[y] = v.event[y] /\ u.booked[y] = v.booked[y] /\ y \in Events
      BY <1>7, <1>8
    <3> QED BY <3>1, AfterIs DEF w
  <2> QED BY <2>2, <2>3, <2>4
<1>10. x.ledger[d] = IF x.event[d] = "RECOVERED" THEN 1 ELSE 0
  BY <1>1, <1>8, <1>9
<1> HIDE DEF x
<1>11. Consistent(x)
  <2>1. Consistent(w)
    BY <1>1 DEF Serial, w
  <2>2. x.journey[j].event = d /\ w.journey[j].event = d /\ Open(w.journey[j])
    BY <1>1, <1>5, <1>9 DEF d
  <2> QED BY <1>1, <1>4, <1>8, <1>9, <1>10, <2>1, <2>2, ConsistentMoves
<1>12. Fresh(u, saved)
  <2>1. JourneyRow(j) \in u.dirty /\ v.dirty \subseteq u.dirty
    BY <1>6 DEF Written
  <2>2. e = v.event[d] \/ EventRow(d) \in u.dirty
    BY <1>5, <1>6 DEF Written
  <2>3. Fresh(v, saved)
    BY <1>1 DEF Serial
  <2>4. Touches(u, v, j, d)
    BY <1>7, <2>1, <2>2 DEF Touches
  <2> QED BY <1>1, <1>5, <2>3, <2>4, StaysFresh
<1>13. Todo(u)
  <2>1. ASSUME NEW k \in u.todo
        PROVE  Open(u.journey[k]) /\ u.event[u.journey[k].event] # None
    <3>1. k \in Journeys \ {j} /\ Open(v.journey[k])
          /\ v.event[v.journey[k].event] # None
      BY <1>1, <1>5, <2>1 DEF Serial, Todo
    <3>2. v.journey[k] \in LiveRow
      <4>1. v.journey[k] # None
        BY <1>1, <1>5, <2>1, SessionFacts DEF v, Phases
      <4> QED BY <1>1, <3>1, <4>1, Columns
    <3>3. v.journey[k].event \in Events /\ e # None
      BY <1>8, <3>2, RowTypes, SessionsConstants DEF Status
    <3> QED BY <1>7, <3>1, <3>3
  <2> QED BY <1>5, <2>1 DEF Todo
<1>14. Names(u, saved, lock', world.undone)
  <2> SUFFICES ASSUME ~world.undone, NEW k \in Journeys, Open(x.journey[k])
               PROVE  lock' = k
    BY <1>5 DEF Names, x
  <2>1. CASE k = j
    <3>1. Open(r) /\ lock = j
      BY <1>1, <1>9, <2>1
    <3> QED BY <1>8, <2>1, <3>1
  <2>2. CASE k # j
    BY <1>1, <1>9, <2>2
  <2> QED BY <2>1, <2>2
<1>15. Ahead(x, saved)
  <2>1. Ahead(w, saved)
    BY <1>1 DEF Serial, w
  <2> QED BY <1>1, <1>8, <1>9, <2>1, AheadMoves
<1>16. Serial(u, saved) /\ u.phase # "idle"
  BY <1>5, <1>6, <1>11, <1>12, <1>13, <1>15 DEF Serial, x
<1> QED BY <1>1, <1>2, <1>14, <1>16, SerialMoves

\* A session that writes nothing to its rows will commit what it would have.
LEMMA SameAfter ==
    ASSUME NEW v, NEW u, u.event = v.event, u.journey = v.journey,
           u.booked = v.booked, NEW sv
    PROVE  After(u, sv) = After(v, sv)
BY DEF After

\* It is too early to ask.
LEMMA WaitsLongerKeepsSerial ==
    ASSUME SessionsInv, LockInv, SerialInv, world.overlaps = 0,
           NEW s \in Sessions, NEW j \in Journeys,
           Advancing(s, j), Waits_longer(s, j),
           saved' = saved, world'.undone = world.undone
    PROVE  SerialInv'
<1> DEFINE v == session[s]
           u == [v EXCEPT !.todo = @ \ {j}]
<1>1. /\ v \in SessionStates /\ v.phase = "tick" /\ v.unflushed = {}
      /\ Alone(s) /\ Serial(v, saved)
      /\ Names(v, saved, lock, world.undone)
  BY AtHand
<1>2. session' = [session EXCEPT ![s] = u] /\ lock' = lock
  BY DEF Waits_longer
<1>3. /\ u.phase = "tick" /\ u.todo = v.todo \ {j} /\ u.event = v.event
      /\ u.journey = v.journey /\ u.dirty = v.dirty
      /\ u.unflushed = v.unflushed /\ u.booked = v.booked
      /\ u.phase # "idle"
  BY <1>1 DEF SessionStates
<1> HIDE DEF u, v
<1>4. After(u, saved) = After(v, saved)
  BY <1>3, SameAfter
<1>5. Serial(u, saved)
  BY <1>1, <1>3, <1>4 DEF Serial, Fresh, Todo, Starts
<1>6. Names(u, saved, lock', world.undone)
  BY <1>1, <1>2, <1>3, <1>4 DEF Names
<1> QED BY <1>1, <1>2, <1>3, <1>5, <1>6, SerialMoves

\* The session that scans alone: what it has in hand is AT_RISK, and has no
\* open journey.
LEMMA ScanAtHand ==
    ASSUME SessionsInv, LockInv, SerialInv, world.overlaps = 0,
           NEW s \in Sessions, NEW v, v = session[s],
           \/ v.phase = "scan" /\ v.todo # {}
           \/ v.phase = "claimed",
           NEW w, w = After(v, saved), NEW e, e = Scanned(s)
    PROVE  /\ v \in SessionStates /\ Alone(s) /\ Held(s) = {}
           /\ Serial(v, saved) /\ Names(v, saved, lock, world.undone)
           /\ e \in Events /\ e = Min(v.todo) /\ v.todo \subseteq Events
           /\ v.event[e] = "AT_RISK" /\ w.event[e] = "AT_RISK"
           /\ w.ledger[e] = 0 /\ Consistent(w)
           /\ \A k \in Journeys : Open(w.journey[k]) =>
                 w.journey[k].event \in Events \ {e}
<1>1. v \in SessionStates /\ Alone(s)
  BY SessionFacts, RunsAlone
<1>2. Held(s) = {} /\ Serial(v, saved) /\ Names(v, saved, lock, world.undone)
  BY <1>1, SerialTells
<1>3. e \in Events /\ e \in v.todo /\ e = Min(v.todo) /\ v.todo \subseteq Events
  BY ScanTells
<1>4. v.event[e] = "AT_RISK"
  BY <1>2, <1>3 DEF Serial, Todo, Starts
<1>5. w.event[e] = "AT_RISK"
  BY <1>3, <1>4, AfterIs, SessionsConstants DEF Status
<1>6. Consistent(w) /\ w.ledger[e] = 0
  BY <1>2, <1>3, <1>5 DEF Serial, Consistent
<1>7. \A k \in Journeys : Open(w.journey[k]) => w.journey[k].event \in Events \ {e}
  BY <1>5, <1>6, AfterTypes DEF Consistent
<1> QED BY <1>1, <1>2, <1>3, <1>4, <1>5, <1>6, <1>7

\* An event AT_RISK that is suppressed has no open journey.
LEMMA ScanSuppressesKeepsSerial ==
    ASSUME SessionsInv, LockInv, SerialInv, world.overlaps = 0,
           NEW s \in Sessions, ScanSuppresses(s)
    PROVE  SerialInv'
<1> DEFINE v == session[s]
           e == Scanned(s)
           w == After(v, saved)
<1>1. /\ v.phase = "scan" /\ e \in v.todo /\ v.unflushed = {}
      /\ saved' = saved /\ lock' = lock /\ world' = world
  BY ScanSuppressesIs
<1>2. /\ v \in SessionStates /\ Alone(s) /\ Held(s) = {}
      /\ Serial(v, saved) /\ Names(v, saved, lock, world.undone)
      /\ e \in Events /\ v.todo \subseteq Events
      /\ w.event[e] = "AT_RISK" /\ w.ledger[e] = 0 /\ Consistent(w)
      /\ \A k \in Journeys : Open(w.journey[k]) =>
            w.journey[k].event \in Events \ {e}
  <2>1. v.phase = "scan" /\ v.todo # {}
    BY <1>1
  <2> HIDE DEF v, e, w
  <2> QED BY <2>1, ScanAtHand DEF v, e, w
<1>3. PICK u : /\ session' = [session EXCEPT ![s] = u]
               /\ u.phase = "scan"
               /\ Scans(u, v, e, {EventRow(e)}, Held(s),
                        [v.event EXCEPT ![e] = "SUPPRESSED"])
  BY ScanSuppressesIs
<1> HIDE DEF v, e, w
<1>4. /\ u.todo = v.todo \ {e} /\ u.journey = v.journey /\ u.booked = v.booked
      /\ u.unflushed = {} /\ u.dirty = v.dirty \cup {EventRow(e)}
      /\ u.event = [v.event EXCEPT ![e] = "SUPPRESSED"]
  BY <1>2, <1>3 DEF Scans, Flushed
<1>5. /\ u.event[e] = "SUPPRESSED"
      /\ \A y \in Events \ {e} : u.event[y] = v.event[y]
  BY <1>2, <1>4, Columns
<1> DEFINE x == After(u, saved)
<1>6. x.event[e] = "SUPPRESSED"
  <2>1. "SUPPRESSED" # None
    BY SessionsConstants DEF Status
  <2> QED BY <1>2, <1>5, <2>1, AfterIs
<1>7. /\ \A y \in Events \ {e} : x.event[y] = w.event[y]
      /\ \A y \in Events : x.ledger[y] = w.ledger[y]
      /\ \A k \in Journeys : x.journey[k] = w.journey[k]
  <2>1. ASSUME NEW y \in Events \ {e} PROVE x.event[y] = w.event[y]
    BY <1>5, AfterIs DEF w
  <2>2. ASSUME NEW y \in Events PROVE x.ledger[y] = w.ledger[y]
    BY <1>4, AfterIs DEF w
  <2>3. ASSUME NEW k \in Journeys PROVE x.journey[k] = w.journey[k]
    BY <1>4, AfterIs DEF w
  <2> QED BY <2>1, <2>2, <2>3
<1> HIDE DEF x
<1>8. Consistent(x)
  BY <1>2, <1>6, <1>7 DEF Consistent
<1>9. Fresh(u, saved)
  <2>1. Fresh(v, saved)
    BY <1>2 DEF Serial
  <2> QED BY <1>1, <1>3, <1>4, <1>5, <2>1 DEF Fresh, Starts
<1>10. Todo(u)
  BY <1>1, <1>2, <1>3, <1>4, <1>5 DEF Serial, Todo, Starts
<1>11. Serial(u, saved) /\ u.phase # "idle"
  <2>1. Ahead(w, saved) /\ "SUPPRESSED" \in Status
    BY <1>2 DEF Serial, w, Status
  <2>2. Ahead(x, saved)
    BY <1>2, <1>6, <1>7, <2>1, AheadMoves
  <2> QED BY <1>3, <1>4, <1>8, <1>9, <1>10, <2>2 DEF Serial, x
<1>12. Names(u, saved, lock', world.undone)
  BY <1>1, <1>2, <1>3, <1>7 DEF Names, x, w
<1> QED BY <1>1, <1>2, <1>3, <1>11, <1>12, SerialMoves

\* An event that is left for later.
LEMMA ScanDefersKeepsSerial ==
    ASSUME SessionsInv, LockInv, SerialInv, world.overlaps = 0,
           NEW s \in Sessions, ScanDefers(s)
    PROVE  SerialInv'
<1> DEFINE v == session[s]
           e == Scanned(s)
<1>1. /\ v.phase = "scan" /\ e \in v.todo /\ v.unflushed = {}
      /\ saved' = saved /\ lock' = lock /\ world' = world
  BY ScanDefersIs
<1>2. /\ Alone(s) /\ Serial(v, saved) /\ Names(v, saved, lock, world.undone)
  BY <1>1, RunsAlone, SerialTells
<1>3. PICK u : /\ session' = [session EXCEPT ![s] = u]
               /\ u.phase = "scan"
               /\ Scans(u, v, e, {}, Held(s), v.event)
  BY ScanDefersIs
<1> HIDE DEF v, e
<1>4. /\ u.todo = v.todo \ {e} /\ u.journey = v.journey /\ u.booked = v.booked
      /\ u.unflushed = {} /\ u.dirty = v.dirty /\ u.event = v.event
  BY <1>3 DEF Scans, Flushed
<1>5. After(u, saved) = After(v, saved)
  BY <1>4, SameAfter
<1>6. Fresh(u, saved)
  BY <1>1, <1>2, <1>3, <1>4 DEF Serial, Fresh, Starts
<1>7. Todo(u)
  BY <1>1, <1>2, <1>3, <1>4 DEF Serial, Todo, Starts
<1>8. Serial(u, saved) /\ u.phase # "idle"
  BY <1>2, <1>3, <1>4, <1>5, <1>6, <1>7 DEF Serial
<1>9. Names(u, saved, lock', world.undone)
  BY <1>1, <1>2, <1>3, <1>5 DEF Names
<1> QED BY <1>1, <1>2, <1>3, <1>8, <1>9, SerialMoves

\* The lock is free only while no journey is open.
LEMMA ClaimKeepsSerial ==
    ASSUME SessionsInv, LockInv, SerialInv, world.overlaps = 0,
           NEW s \in Sessions, ClaimCustomer(s)
    PROVE  SerialInv'
<1> DEFINE v == session[s]
<1>1. /\ v.phase = "scan" /\ v.unflushed = {}
      /\ lock = None /\ lock' = Pending /\ saved' = saved /\ world' = world
  BY ClaimCustomerIs
<1>2. /\ Alone(s) /\ Serial(v, saved) /\ Names(v, saved, lock, world.undone)
  BY <1>1, RunsAlone, SerialTells
<1>3. PICK u : /\ session' = [session EXCEPT ![s] = u]
               /\ u.phase = "claimed" /\ u.todo = v.todo
               /\ u.event = v.event /\ u.journey = v.journey
               /\ u.dirty = v.dirty /\ u.unflushed = {}
               /\ u.closing = v.closing /\ u.booked = v.booked
               /\ u \in SessionStates
  BY ClaimCustomerIs
<1> HIDE DEF v
<1>4. After(u, saved) = After(v, saved)
  BY <1>3, SameAfter
<1>5. Fresh(u, saved)
  BY <1>1, <1>2, <1>3 DEF Serial, Fresh, Starts
<1>6. Todo(u)
  BY <1>1, <1>2, <1>3 DEF Serial, Todo, Starts
<1>7. Serial(u, saved) /\ u.phase # "idle"
  BY <1>2, <1>3, <1>4, <1>5, <1>6 DEF Serial
<1>8. Names(u, saved, lock', world.undone)
  <2>1. ~world.undone => \A j \in Journeys : ~Open(After(v, saved).journey[j])
    BY <1>1, <1>2, SessionsConstants DEF Names
  <2> QED BY <1>1, <1>3, <1>4, <2>1 DEF Names
<1> QED BY <1>1, <1>2, <1>3, <1>7, <1>8, SerialMoves

\* The journey that is made is the only open one of its event, and of the
\* customer unless a cycle was rolled back.
LEMMA StartKeepsSerial ==
    ASSUME SessionsInv, LockInv, SerialInv, world.overlaps = 0,
           NEW s \in Sessions, StartJourney(s)
    PROVE  SerialInv'
<1> DEFINE v == session[s]
           e == Scanned(s)
           j == world.created + 1
           w == After(v, saved)
<1>1. /\ v.phase = "claimed" /\ e \in Events /\ e \in v.todo
      /\ v.unflushed = {} /\ j \in Journeys /\ ~ (j <= world.created)
      /\ saved' = saved /\ lock' = None
      /\ world'.undone = world.undone
  BY StartJourneyIs
<1>2. /\ v \in SessionStates /\ Alone(s)
      /\ Serial(v, saved) /\ Names(v, saved, lock, world.undone)
      /\ e = Min(v.todo)
      /\ w.event[e] = "AT_RISK" /\ w.ledger[e] = 0 /\ Consistent(w)
      /\ \A k \in Journeys : Open(w.journey[k]) =>
            w.journey[k].event \in Events \ {e}
  <2>1. v.phase = "claimed"
    BY <1>1
  <2> HIDE DEF v, e, w
  <2> QED BY <2>1, ScanAtHand DEF v, e, w
<1>3. PICK u : /\ session' = [session EXCEPT ![s] = u]
               /\ u.phase = "released" /\ u.todo = v.todo
               /\ u.starting = j
               /\ u.event = [v.event EXCEPT ![e] = "IN_RECOVERY"]
               /\ u.journey = [v.journey EXCEPT ![j] = NewJourney(e)]
               /\ u.dirty = v.dirty \cup {JourneyRow(j)}
               /\ u.unflushed = {}
               /\ u.closing = v.closing /\ u.booked = v.booked
               /\ u \in SessionStates
  BY StartJourneyIs
<1>4. NewJourney(e) \in LiveRow /\ NewJourney(e) # None
  BY <1>1, PlanFacts, RowTypes DEF NewJourney, LiveRow
<1> HIDE DEF v, e, j, w
<1>5. /\ u.event[e] = "IN_RECOVERY"
      /\ \A y \in Events \ {e} : u.event[y] = v.event[y]
      /\ u.journey[j] = NewJourney(e)
      /\ \A k \in Journeys \ {j} : u.journey[k] = v.journey[k]
  BY <1>1, <1>2, <1>3, Columns
<1> DEFINE x == After(u, saved)
<1>6. x.event[e] = "IN_RECOVERY" /\ x.journey[j] = NewJourney(e)
  <2>1. "IN_RECOVERY" # None
    BY SessionsConstants DEF Status
  <2>2. /\ x.event[e] = IF u.event[e] = None THEN saved.event[e] ELSE u.event[e]
        /\ x.journey[j] = IF u.journey[j] = None THEN saved.journey[j]
                          ELSE u.journey[j]
    BY <1>1, AfterIs
  <2> HIDE DEF x
  <2> QED BY <1>4, <1>5, <2>1, <2>2
<1>7. /\ \A y \in Events \ {e} : x.event[y] = w.event[y]
      /\ \A y \in Events : x.ledger[y] = w.ledger[y]
      /\ \A k \in Journeys \ {j} : x.journey[k] = w.journey[k]
  <2>1. ASSUME NEW y \in Events \ {e} PROVE x.event[y] = w.event[y]
    BY <1>5, AfterIs DEF w
  <2>2. ASSUME NEW y \in Events PROVE x.ledger[y] = w.ledger[y]
    BY <1>3, AfterIs DEF w
  <2>3. ASSUME NEW k \in Journeys \ {j} PROVE x.journey[k] = w.journey[k]
    BY <1>5, AfterIs DEF w
  <2> QED BY <2>1, <2>2, <2>3
<1> HIDE DEF x
<1>8. NewJourney(e).event = e
  BY DEF NewJourney
<1>9. Consistent(x)
  <2>1. ASSUME NEW y \in Events
        PROVE  x.ledger[y] = IF x.event[y] = "RECOVERED" THEN 1 ELSE 0
    BY <1>2, <1>6, <1>7 DEF Consistent
  <2>2. ASSUME NEW k \in Journeys, Open(x.journey[k])
        PROVE  /\ x.event[x.journey[k].event] = "IN_RECOVERY"
               /\ k # j => /\ x.journey[k].event # e
                           /\ Open(w.journey[k])
                           /\ w.journey[k] = x.journey[k]
    BY <1>2, <1>6, <1>7, <1>8, <2>2 DEF Consistent
  <2>3. ASSUME NEW k \in Journeys, NEW l \in Journeys,
               Open(x.journey[k]), Open(x.journey[l]),
               x.journey[k].event = x.journey[l].event
        PROVE  k = l
    BY <1>2, <1>6, <1>8, <2>2, <2>3 DEF Consistent
  <2> QED BY <2>1, <2>2, <2>3 DEF Consistent
<1>10. Fresh(u, saved)
  <2>1. Fresh(v, saved)
    BY <1>2 DEF Serial
  <2>2. \A y \in Events : ~Starts(v, y)
    BY <1>1 DEF Starts
  <2>3. ASSUME NEW y \in Events, u.event[y] # None, ~Starts(u, y)
        PROVE  EventRow(y) \in u.dirty \/ u.event[y] = saved.event[y]
    <3>1. y # e
      BY <1>2, <1>3, <2>3 DEF Starts
    <3> QED BY <1>3, <1>5, <2>1, <2>2, <2>3, <3>1 DEF Fresh
  <2>4. ASSUME NEW k \in Journeys, u.journey[k] # None
        PROVE  JourneyRow(k) \in u.dirty \/ u.journey[k] = saved.journey[k]
    BY <1>3, <1>5, <2>1, <2>4 DEF Fresh
  <2> QED BY <2>3, <2>4 DEF Fresh
<1>11. Todo(u)
  <2>1. \A y \in v.todo : v.event[y] = "AT_RISK"
    BY <1>1, <1>2 DEF Serial, Todo, Starts
  <2>2. v.todo \subseteq Events
    BY <1>1, SessionFacts DEF v, Phases
  <2> QED BY <1>2, <1>3, <1>5, <2>1, <2>2 DEF Todo, Starts
<1>12. Serial(u, saved) /\ u.phase # "idle"
  <2>1. Ahead(w, saved) /\ "IN_RECOVERY" \in Status
    BY <1>2 DEF Serial, w, Status
  <2>2. Ahead(x, saved)
    BY <1>1, <1>2, <1>6, <1>7, <2>1, AheadMoves
  <2> QED BY <1>3, <1>9, <1>10, <1>11, <2>2 DEF Serial, x
<1>13. Names(u, saved, lock', world.undone)
  <2> SUFFICES ASSUME ~world.undone, NEW k \in Journeys, Open(x.journey[k])
               PROVE  u.starting = k
    BY <1>1, <1>3 DEF Names, x
  <2>1. CASE k # j
    <3>1. Open(w.journey[k])
      BY <1>7, <2>1
    <3>2. lock = k /\ lock = Pending
      BY <1>1, <1>2, <3>1 DEF Names, w
    <3> QED BY <3>2, SessionsConstants
  <2> QED BY <1>3, <2>1
<1> QED BY <1>1, <1>2, <1>3, <1>12, <1>13, SerialMoves

\* A query of the session that runs alone finds what will be committed.
LEMMA DbIsAfter ==
    ASSUME SessionsInv, NEW s \in Sessions, NEW v, v = session[s],
           v.phase # "released", Fresh(v, saved)
    PROVE  /\ \A e \in Events : DbEvent(s, e) = After(v, saved).event[e]
           /\ \A j \in Journeys : DbJourney(s, j) = After(v, saved).journey[j]
<1>1. Loaded(v)
  BY SessionFacts
<1>2. ASSUME NEW e \in Events
      PROVE  DbEvent(s, e) = After(v, saved).event[e]
  <2>1. CASE EventRow(e) \in v.dirty
    BY <1>1, <2>1, AfterIs DEF Loaded, Own, DbEvent
  <2>2. CASE EventRow(e) \notin v.dirty
    BY <2>2, AfterIs DEF Fresh, Starts, DbEvent
  <2> QED BY <2>1, <2>2
<1>3. ASSUME NEW j \in Journeys
      PROVE  DbJourney(s, j) = After(v, saved).journey[j]
  <2>1. CASE JourneyRow(j) \in v.dirty
    BY <1>1, <2>1, AfterIs DEF Loaded, Own, DbJourney
  <2>2. CASE JourneyRow(j) \notin v.dirty
    BY <2>2, AfterIs DEF Fresh, DbJourney
  <2> QED BY <2>1, <2>2
<1> QED BY <1>2, <1>3

\* u has the rows es and js besides, and has written nothing.
Reloaded(u, v, s, es, js) ==
    /\ After(u, saved) = After(v, saved)
    /\ \A e \in Events : u.event[e] # None =>
          EventRow(e) \in v.dirty \/ u.event[e] = saved.event[e]
    /\ \A j \in Journeys : u.journey[j] # None =>
          JourneyRow(j) \in v.dirty \/ u.journey[j] = saved.journey[j]
    /\ \A e \in es : u.event[e] = DbEvent(s, e) /\ u.event[e] # None
    /\ \A j \in js : u.journey[j] = DbJourney(s, j)

\* A load takes what is not there yet from what is committed or was flushed.
LEMMA LoadsFresh ==
    ASSUME SessionsInv, NEW s \in Sessions, NEW v, v = session[s],
           v.phase # "released", Fresh(v, saved),
           NEW b, b.event = v.event, b.journey = v.journey, b.booked = v.booked,
           NEW es, es \subseteq Events, NEW js, js \subseteq Journeys,
           NEW u, LoadedFrom(u, b, s, es, js)
    PROVE  Reloaded(u, v, s, es, js)
<1>1. /\ \A e \in Events : u.event[e] =
            IF e \in es /\ v.event[e] = None THEN DbEvent(s, e) ELSE v.event[e]
      /\ \A j \in Journeys : u.journey[j] =
            IF j \in js /\ v.journey[j] = None THEN DbJourney(s, j)
            ELSE v.journey[j]
      /\ u.booked = v.booked
  BY DEF LoadedFrom
<1>2. /\ \A e \in Events : DbEvent(s, e) = After(v, saved).event[e]
      /\ \A j \in Journeys : DbJourney(s, j) = After(v, saved).journey[j]
  BY DbIsAfter
<1>3. ASSUME NEW e \in Events
      PROVE  /\ DbEvent(s, e) = IF v.event[e] = None THEN saved.event[e]
                                ELSE v.event[e]
             /\ DbEvent(s, e) # None
  <2>1. DbEvent(s, e) \in Status
    BY DbRows
  <2> QED BY <1>2, <2>1, AfterIs, SessionsConstants
<1>4. ASSUME NEW j \in Journeys
      PROVE  DbJourney(s, j) = IF v.journey[j] = None THEN saved.journey[j]
                               ELSE v.journey[j]
  BY <1>2, AfterIs
<1>5. After(u, saved) = After(v, saved)
  <2>1. [e \in Events |-> IF u.event[e] = None THEN saved.event[e]
                          ELSE u.event[e]]
        = [e \in Events |-> IF v.event[e] = None THEN saved.event[e]
                            ELSE v.event[e]]
    BY <1>1, <1>3
  <2>2. [j \in Journeys |-> IF u.journey[j] = None THEN saved.journey[j]
                            ELSE u.journey[j]]
        = [j \in Journeys |-> IF v.journey[j] = None THEN saved.journey[j]
                              ELSE v.journey[j]]
    BY <1>1, <1>4
  <2> QED BY <1>1, <2>1, <2>2, Zenon DEF After
<1>6. ASSUME NEW e \in Events, u.event[e] # None
      PROVE  EventRow(e) \in v.dirty \/ u.event[e] = saved.event[e]
  <2>1. CASE v.event[e] = None
    BY <1>1, <1>3, <1>6, <2>1
  <2>2. CASE v.event[e] # None
    BY <1>1, <2>2 DEF Fresh, Starts
  <2> QED BY <2>1, <2>2
<1>7. ASSUME NEW j \in Journeys, u.journey[j] # None
      PROVE  JourneyRow(j) \in v.dirty \/ u.journey[j] = saved.journey[j]
  <2>1. CASE v.journey[j] = None
    BY <1>1, <1>4, <1>7, <2>1
  <2>2. CASE v.journey[j] # None
    BY <1>1, <2>2 DEF Fresh
  <2> QED BY <2>1, <2>2
<1>8. ASSUME NEW e \in es
      PROVE  u.event[e] = DbEvent(s, e) /\ u.event[e] # None
  BY <1>1, <1>3
<1>9. ASSUME NEW j \in js PROVE u.journey[j] = DbJourney(s, j)
  BY <1>1, <1>4
<1> QED BY <1>5, <1>6, <1>7, <1>8, <1>9 DEF Reloaded

\* A cycle that begins alone loads AT_RISK events and open journeys.
LEMMA BeginsAlone ==
    ASSUME SessionsInv, LockInv, SerialInv, world.overlaps = 0,
           world'.overlaps = 0, NEW s \in Sessions,
           BeginScan(s) \/ BeginTick(s)
    PROVE  /\ Alone(s) /\ world'.undone = world.undone
           /\ session[s].phase \in {"idle", "scan"}
           /\ Serial(session[s], saved)
           /\ Names(session[s], saved, lock, world.undone)
           /\ saved' = saved /\ lock' = lock
<1>1. /\ world'.undone = world.undone
      /\ session[s].phase = "idle" => Alone(s)
  BY BeginsCounts DEF BeginScan, BeginTick, Alone
<1>2. Alone(s)
  BY <1>1, RunsAlone
<1>3. session[s].phase \in {"idle", "scan"}
  BY BeginScanIs, BeginTickIs, IdleIsTidy
<1> QED BY <1>1, <1>2, <1>3, SerialTells, BeginScanIs, BeginTickIs

\* A scan begins with events that are AT_RISK.
LEMMA BeginScanKeepsSerial ==
    ASSUME SessionsInv, LockInv, SerialInv, world.overlaps = 0,
           world'.overlaps = 0, NEW s \in Sessions, BeginScan(s)
    PROVE  SerialInv'
<1> DEFINE v == session[s]
           es == Unclaimed(s)
           b == Begun(s, "scan", es)
<1>1. /\ Alone(s) /\ world'.undone = world.undone
      /\ v.phase \in {"idle", "scan"} /\ Serial(v, saved)
      /\ Names(v, saved, lock, world.undone)
      /\ saved' = saved /\ lock' = lock
  BY BeginsAlone
<1>2. PICK u : /\ session' = [session EXCEPT ![s] = u]
               /\ LoadedFrom(u, b, s, es, {})
  BY BeginScanIs
<1>3. /\ b.phase = "scan" /\ b.todo = es /\ b.event = v.event
      /\ b.journey = v.journey /\ b.dirty = v.dirty
      /\ b.unflushed = v.unflushed /\ b.booked = v.booked
  BY BegunIs
<1>4. es \subseteq Events /\ \A e \in es : DbEvent(s, e) = "AT_RISK"
  BY DEF Unclaimed
<1> HIDE DEF b, es
<1>5. Reloaded(u, v, s, es, {})
  <2>1. Fresh(v, saved) /\ v.phase # "released"
    BY <1>1 DEF Serial
  <2>2. v = session[s]
    OBVIOUS
  <2> HIDE DEF v
  <2> QED BY <1>2, <1>3, <1>4, <2>1, <2>2, LoadsFresh
<1> HIDE DEF v
<1>6. /\ u.phase = "scan" /\ u.todo = es /\ u.dirty = v.dirty
      /\ u.unflushed = v.unflushed /\ u.phase # "idle"
  BY <1>2, <1>3 DEF LoadedFrom
<1>7. Serial(u, saved)
  <2>1. Fresh(u, saved)
    BY <1>5, <1>6 DEF Reloaded, Fresh
  <2>2. Todo(u)
    BY <1>4, <1>5, <1>6 DEF Reloaded, Todo, Starts
  <2> QED BY <1>1, <1>5, <1>6, <2>1, <2>2 DEF Serial, Reloaded
<1>8. Names(u, saved, lock', world.undone)
  BY <1>1, <1>5, <1>6 DEF Names, Reloaded
<1> QED BY <1>1, <1>2, <1>6, <1>7, <1>8, SerialMoves

\* A tick begins with journeys that are open.
LEMMA BeginTickKeepsSerial ==
    ASSUME SessionsInv, LockInv, SerialInv, world.overlaps = 0,
           world'.overlaps = 0, NEW s \in Sessions, BeginTick(s)
    PROVE  SerialInv'
<1> DEFINE v == session[s]
<1>1. /\ Alone(s) /\ world'.undone = world.undone
      /\ v.phase \in {"idle", "scan"} /\ Serial(v, saved)
      /\ Names(v, saved, lock, world.undone)
      /\ saved' = saved /\ lock' = lock
  BY BeginsAlone
<1>2. PICK due, u :
         /\ due \subseteq OpenIn(s)
         /\ session' = [session EXCEPT ![s] = u]
         /\ LoadedFrom(u, Begun(s, "tick", due), s, EventsOf(s, due), due)
  BY BeginTickIs
<1> DEFINE es == EventsOf(s, due)
           b == Begun(s, "tick", due)
<1>3. /\ b.phase = "tick" /\ b.todo = due /\ b.event = v.event
      /\ b.journey = v.journey /\ b.dirty = v.dirty
      /\ b.unflushed = v.unflushed /\ b.booked = v.booked
  BY BegunIs
<1>4. /\ due \subseteq Journeys /\ es \subseteq Events
      /\ \A j \in due : Open(DbJourney(s, j)) /\ DbJourney(s, j).event \in es
  <2>1. \A j \in due : j \in Journeys /\ Open(DbJourney(s, j))
    BY <1>2 DEF OpenIn
  <2>2. \A j \in due : DbJourney(s, j).event \in Events
    BY <1>2, DbRows, RowTypes
  <2> QED BY <2>1, <2>2 DEF EventsOf
<1> HIDE DEF b, es
<1>5. Reloaded(u, v, s, es, due)
  <2>1. Fresh(v, saved) /\ v.phase # "released"
    BY <1>1 DEF Serial
  <2>2. v = session[s] /\ LoadedFrom(u, b, s, es, due)
    BY <1>2 DEF b, es
  <2> HIDE DEF v
  <2> QED BY <1>3, <1>4, <2>1, <2>2, LoadsFresh
<1>6. /\ u.phase = "tick" /\ u.todo = due /\ u.dirty = v.dirty
      /\ u.unflushed = v.unflushed /\ u.phase # "idle"
  BY <1>2, <1>3 DEF LoadedFrom, b
<1> HIDE DEF v
<1>7. Serial(u, saved)
  <2>1. Fresh(u, saved)
    BY <1>5, <1>6 DEF Reloaded, Fresh
  <2>2. Todo(u)
    BY <1>4, <1>5, <1>6 DEF Reloaded, Todo
  <2> QED BY <1>1, <1>5, <1>6, <2>1, <2>2 DEF Serial, Reloaded
<1>8. Names(u, saved, lock', world.undone)
  BY <1>1, <1>5, <1>6 DEF Names, Reloaded
<1> QED BY <1>1, <1>2, <1>6, <1>7, <1>8, SerialMoves

\* The journey gets the lock it was made under.
LEMMA ReclaimKeepsSerial ==
    ASSUME SessionsInv, LockInv, SerialInv, world.overlaps = 0,
           NEW s \in Sessions, ReclaimCustomer(s)
    PROVE  SerialInv'
<1> DEFINE v == session[s]
           e == Scanned(s)
<1>1. /\ v.phase = "released" /\ e \in Events /\ e \in v.todo
      /\ v.unflushed = {} /\ saved' = saved /\ world' = world
      /\ lock' = IF lock = None THEN v.starting ELSE lock
      /\ e = Min(v.todo)
  BY ReclaimCustomerIs, ScanTells
<1>2. /\ Alone(s) /\ Held(s) = {} /\ Serial(v, saved)
      /\ Names(v, saved, lock, world.undone)
  BY <1>1, RunsAlone, SerialTells
<1>3. PICK u : /\ session' = [session EXCEPT ![s] = u]
               /\ u.phase = "scan"
               /\ Scans(u, v, e, {EventRow(e)}, Held(s), v.event)
  BY ReclaimCustomerIs
<1> HIDE DEF v, e
<1>4. /\ u.todo = v.todo \ {e} /\ u.journey = v.journey /\ u.booked = v.booked
      /\ u.unflushed = {} /\ u.dirty = v.dirty \cup {EventRow(e)}
      /\ u.event = v.event
  BY <1>2, <1>3 DEF Scans, Flushed
<1>5. After(u, saved) = After(v, saved)
  BY <1>4, SameAfter
<1>6. Fresh(u, saved)
  BY <1>1, <1>2, <1>4 DEF Serial, Fresh, Starts
<1>7. Todo(u)
  BY <1>1, <1>2, <1>3, <1>4 DEF Serial, Todo, Starts
<1>8. Serial(u, saved) /\ u.phase # "idle"
  BY <1>2, <1>3, <1>4, <1>5, <1>6, <1>7 DEF Serial
<1>9. Names(u, saved, lock', world.undone)
  <2>1. lock = None /\ lock' = v.starting
    BY <1>1, <1>2 DEF Names
  <2> SUFFICES ASSUME ~world.undone, NEW k \in Journeys,
                      Open(After(v, saved).journey[k])
               PROVE  lock' = k
    BY <1>3, <1>5 DEF Names
  <2>2. lock = k \/ v.starting = k
    BY <1>2 DEF Names
  <2> QED BY <2>1, <2>2, SessionsConstants
<1> QED BY <1>1, <1>2, <1>3, <1>8, <1>9, SerialMoves

\* A journey past its TTL is the open one of its event, and was not booked.
LEMMA ExpireKeepsSerial ==
    ASSUME SessionsInv, LockInv, SerialInv, world.overlaps = 0,
           NEW s \in Sessions, NEW j \in Journeys, Expire(s, j)
    PROVE  SerialInv'
<1> DEFINE v == session[s]
           d == DbJourney(s, j).event
           w == After(v, saved)
<1>1. /\ v.phase = "tick" /\ v.todo = {} /\ v.unflushed = {}
      /\ j \in OpenIn(s) /\ d \in Events
      /\ saved' = saved /\ lock' = None /\ world'.undone = world.undone
  BY ExpireIs
<1>2. PICK u, x :
         /\ session' = [session EXCEPT ![s] = u]
         /\ LoadedFrom(x, v, s, {d}, {j}) /\ x.journey[j] \in LiveRow
         /\ u \in SessionStates /\ u.phase = "tick" /\ u.todo = {}
         /\ u.event = [x.event EXCEPT ![d] = "LOST"]
         /\ u.journey = [x.journey EXCEPT ![j] = Closed(x.journey[j])]
         /\ u.closing = v.closing /\ u.booked = v.booked
         /\ Flushed(u, v, {JourneyRow(j), EventRow(d)}, Held(s))
  BY ExpireIs
<1>3. /\ Alone(s) /\ Held(s) = {} /\ Serial(v, saved)
      /\ Names(v, saved, lock, world.undone)
  BY <1>1, RunsAlone, SerialTells
<1>4. Open(DbJourney(s, j)) /\ DbJourney(s, j).event = d
  BY <1>1 DEF OpenIn
<1>5. \A k \in Journeys : Open(w.journey[k]) => w.journey[k].event \in Events
  BY AfterTypes
<1>6. v = session[s]
  OBVIOUS
<1> HIDE DEF v, d, w
<1>7. Fresh(v, saved) /\ Consistent(w)
  BY <1>3 DEF Serial, w
<1>8. Reloaded(x, v, s, {d}, {j})
  BY <1>1, <1>2, <1>6, <1>7, LoadsFresh
<1>9. w.journey[j] = DbJourney(s, j)
  BY <1>1, <1>6, <1>7, DbIsAfter DEF w
<1>10. w.event[d] = "IN_RECOVERY" /\ w.ledger[d] = 0
  BY <1>1, <1>4, <1>7, <1>9 DEF Consistent
<1>11. /\ u.event[d] = "LOST"
       /\ \A y \in Events \ {d} : u.event[y] = x.event[y]
       /\ u.journey[j] = Closed(x.journey[j])
       /\ \A k \in Journeys \ {j} : u.journey[k] = x.journey[k]
       /\ u.unflushed = {}
       /\ u.dirty = v.dirty \cup {JourneyRow(j), EventRow(d)}
  <2>1. d \in DOMAIN x.event /\ j \in DOMAIN x.journey
    BY <1>1, <1>2 DEF LoadedFrom
  <2>2. DOMAIN x.event = Events /\ DOMAIN x.journey = Journeys
    BY <1>2 DEF LoadedFrom
  <2> QED BY <1>2, <1>3, <2>1, <2>2 DEF Flushed
<1>12. /\ Closed(x.journey[j]).event = d /\ ~Open(Closed(x.journey[j]))
       /\ Closed(x.journey[j]) # None
  <2>1. x.journey[j] = DbJourney(s, j) /\ x.journey[j] \in LiveRow
    BY <1>2, <1>8 DEF Reloaded
  <2>2. /\ Closed(x.journey[j]) \in LiveRow
        /\ Closed(x.journey[j]).event = x.journey[j].event
        /\ Closed(x.journey[j]).state = "CLOSED"
    BY <2>1 DEF Closed, LiveRow
  <2> QED BY <1>4, <2>1, <2>2, RowTypes DEF Open
<1> DEFINE y == After(u, saved)
<1>13. /\ y.journey[j] = Closed(x.journey[j]) /\ y.event[d] = "LOST"
       /\ y.ledger[d] = w.ledger[d]
       /\ \A k \in Journeys \ {j} : y.journey[k] = w.journey[k]
       /\ \A e \in Events \ {d} :
             y.event[e] = w.event[e] /\ y.ledger[e] = w.ledger[e]
  <2>1. w = After(x, saved)
    BY <1>8 DEF Reloaded, w
  <2>2. y.journey[j] = Closed(x.journey[j])
    BY <1>11, <1>12, AfterIs
  <2>3. y.event[d] = "LOST"
    BY <1>1, <1>11, AfterIs, SessionsConstants DEF Status
  <2>4. ASSUME NEW k \in Journeys \ {j} PROVE y.journey[k] = w.journey[k]
    BY <1>11, <2>1, AfterIs
  <2>5. ASSUME NEW e \in Events \ {d} PROVE y.event[e] = w.event[e]
    BY <1>11, <2>1, AfterIs
  <2>6. ASSUME NEW e \in Events PROVE y.ledger[e] = w.ledger[e]
    BY <1>2, AfterIs DEF w
  <2> QED BY <1>1, <2>2, <2>3, <2>4, <2>5, <2>6
<1> HIDE DEF y
<1>14. Consistent(y)
  <2>1. /\ Open(w.journey[j]) /\ w.journey[j].event = d
        /\ y.journey[j].event = d /\ ~Open(y.journey[j])
        /\ y.ledger[d] = IF y.event[d] = "RECOVERED" THEN 1 ELSE 0
    BY <1>4, <1>9, <1>10, <1>12, <1>13
  <2> QED BY <1>1, <1>5, <1>7, <1>13, <2>1, ConsistentMoves
<1>15. Fresh(u, saved)
  BY <1>8, <1>11 DEF Reloaded, Fresh
<1>16. Todo(u)
  BY <1>2 DEF Todo
<1>17. Serial(u, saved) /\ u.phase # "idle"
  <2>1. Ahead(w, saved)
    BY <1>3 DEF Serial, w
  <2>2. Ahead(y, saved)
    BY <1>1, <1>10, <1>13, <2>1, AheadMoves
  <2> QED BY <1>2, <1>11, <1>14, <1>15, <1>16, <2>2 DEF Serial, y
<1>18. Names(u, saved, lock', world.undone)
  <2> SUFFICES ASSUME ~world.undone, NEW k \in Journeys, Open(y.journey[k])
               PROVE  FALSE
    BY <1>2 DEF Names, y
  <2>1. k # j /\ Open(w.journey[k]) /\ Open(w.journey[j])
    BY <1>4, <1>9, <1>12, <1>13
  <2>2. lock = k /\ lock = j
    BY <1>1, <1>3, <2>1 DEF Names, w
  <2> QED BY <2>1, <2>2
<1> QED BY <1>1, <1>2, <1>3, <1>17, <1>18, SerialMoves

\* A session that is idle will commit what is committed.
LEMMA IdleIsSerial ==
    ASSUME NEW sv \in SavedRows, Consistent(sv)
    PROVE  /\ Serial(Idle, sv)
           /\ \A j \in Journeys : After(Idle, sv).journey[j] = sv.journey[j]
<1>1. /\ \A e \in Events : Idle.event[e] = None /\ Idle.booked[e] = 0
      /\ \A j \in Journeys : Idle.journey[j] = None
      /\ Idle.phase = "idle" /\ Idle.unflushed = {}
  BY DEF Idle
<1>2. \A e \in Events : sv.ledger[e] + 0 = sv.ledger[e]
  BY DEF SavedRows
<1>3. After(Idle, sv).event = [e \in Events |-> sv.event[e]]
  BY <1>1 DEF After
<1>4. /\ \A e \in Events : After(Idle, sv).event[e] = sv.event[e]
      /\ \A e \in Events : After(Idle, sv).ledger[e] = sv.ledger[e]
      /\ \A j \in Journeys : After(Idle, sv).journey[j] = sv.journey[j]
  BY <1>1, <1>2, AfterIs
<1>5. \A j \in Journeys : Open(sv.journey[j]) => sv.journey[j].event \in Events
  BY RowTypes DEF SavedRows, Open, NoRow
<1> DEFINE w == After(Idle, sv)
<1> HIDE DEF w
<1>6. Consistent(w)
  BY <1>4, <1>5 DEF Consistent, w
<1>7. Fresh(Idle, sv) /\ Todo(Idle) /\ Ahead(w, sv)
  BY <1>1, <1>4 DEF Fresh, Todo, Ahead, Fate!Later, w
<1> QED BY <1>1, <1>4, <1>6, <1>7 DEF Serial, w

\* The cycle that ran alone ends.
LEMMA SerialEnds ==
    ASSUME SessionsInv, LockInv, SessionsInv',
           NEW s \in Sessions, Alone(s),
           session' = [session EXCEPT ![s] = Idle], Consistent(saved'),
           ~world'.undone => \A j \in Journeys :
                                Open(saved'.journey[j]) => lock' = j
    PROVE  SerialInv'
<1>1. \A t \in Sessions : session'[t] = Idle
  BY DEF SessionsInv, Alone, LockInv, Tidy
<1>2. saved' \in SavedRows
  BY DEF SessionsInv
<1>3. /\ Serial(Idle, saved')
      /\ \A j \in Journeys : After(Idle, saved').journey[j] = saved'.journey[j]
  BY <1>2, IdleIsSerial
<1>4. Names(Idle, saved', lock', world'.undone)
  BY <1>3, IdleIsTidy DEF Names
<1>5. ~world'.undone => OpenIsOne(saved')
  BY DEF OpenIsOne
<1> QED BY <1>1, <1>3, <1>4, <1>5, IdleIsTidy DEF SerialInv, Alone

\* A commit makes of the rows what they were to become.
LEMMA CommitKeepsSerial ==
    ASSUME SessionsInv, LockInv, SessionsInv', SerialInv, world.overlaps = 0,
           NEW s \in Sessions, Commit(s)
    PROVE  SerialInv'
<1> DEFINE v == session[s]
           w == After(v, saved)
<1>1. /\ v.phase \in {"scan", "tick"}
      /\ session' = [session EXCEPT ![s] = Idle]
      /\ \A e \in Events :
            saved'.event[e] = IF EventRow(e) \in v.dirty THEN v.event[e]
                              ELSE saved.event[e]
      /\ \A j \in Journeys :
            saved'.journey[j] = IF JourneyRow(j) \in v.dirty
                                THEN v.journey[j] ELSE saved.journey[j]
      /\ \A e \in Events : saved'.ledger[e] = saved.ledger[e] + v.booked[e]
      /\ lock' = lock /\ world' = world
  BY CommitIs
<1>2. /\ Alone(s) /\ Serial(v, saved) /\ Names(v, saved, lock, world.undone)
  BY <1>1, RunsAlone, SerialTells
<1>3. /\ \A e \in Events : DbEvent(s, e) = w.event[e]
      /\ \A j \in Journeys : DbJourney(s, j) = w.journey[j]
  BY <1>1, <1>2, DbIsAfter DEF Serial
<1>4. \A k \in Journeys : Open(w.journey[k]) => w.journey[k].event \in Events
  BY AfterTypes
<1>5. /\ \A e \in Events : saved'.event[e] = w.event[e]
      /\ \A e \in Events : saved'.ledger[e] = w.ledger[e]
      /\ \A j \in Journeys : saved'.journey[j] = w.journey[j]
  BY <1>1, <1>3, AfterIs DEF DbEvent, DbJourney
<1> HIDE DEF w, v
<1>6. Consistent(w)
  BY <1>2 DEF Serial, w
<1>7. Consistent(saved')
  BY <1>4, <1>5, <1>6 DEF Consistent
<1>8. ~world'.undone => \A j \in Journeys : Open(saved'.journey[j]) => lock' = j
  BY <1>1, <1>2, <1>5 DEF Names, w
<1> QED BY <1>1, <1>2, <1>7, <1>8, SerialEnds

\* A rollback leaves what is committed and may leave the lock behind.
LEMMA RollbackKeepsSerial ==
    ASSUME SessionsInv, LockInv, SessionsInv', SerialInv, world.overlaps = 0,
           NEW s \in Sessions, Rollback(s)
    PROVE  SerialInv'
<1>1. /\ session[s].phase # "idle"
      /\ session' = [session EXCEPT ![s] = Idle] /\ saved' = saved
      /\ \/ world' = [world EXCEPT !.mishaps = @ + 1, !.undone = TRUE]
         \/ world' = [world EXCEPT !.undone = TRUE]
  BY DEF Rollback, Becomes
<1>2. world'.undone
  <2>1. world \in Worlds
    BY DEF SessionsInv
  <2> QED BY <1>1, <2>1 DEF Worlds
<1>3. Alone(s) /\ Consistent(saved')
  BY <1>1, RunsAlone DEF SerialInv
<1> QED BY <1>1, <1>2, <1>3, SerialEnds

\* Cycles that overlapped once have overlapped.
LEMMA OverlapsGrow ==
    ASSUME SessionsInv, [Next]_vars, world'.overlaps = 0
    PROVE  world.overlaps = 0
<1>1. world \in Worlds /\ world.overlaps \in Nat
  BY DEF SessionsInv, Worlds
<1>2. ASSUME NEW s \in Sessions, BeginScan(s) \/ BeginTick(s)
      PROVE  world.overlaps = 0
  <2>1. world'.overlaps \in {world.overlaps, world.overlaps + 1}
    BY <1>2, BeginsCounts DEF BeginScan, BeginTick
  <2> QED BY <1>1, <2>1
<1>3. CASE \/ UNCHANGED vars
           \/ \E s \in Sessions :
                \/ Flush(s) \/ ScanSuppresses(s) \/ ScanDefers(s)
                \/ ClaimCustomer(s) \/ ReclaimCustomer(s) \/ Commit(s)
                \/ \E j \in Journeys : AdvanceBlocked(s, j) \/ Execute(s, j)
                                       \/ Verify(s, j)
  <2>1. world' = world
    BY <1>3 DEF vars, Flush, ScanSuppresses, ScanDefers, ClaimCustomer,
       ReclaimCustomer, Commit, AdvanceBlocked, Execute, Verify
  <2> QED BY <2>1
<1>4. CASE \/ \E s \in Sessions : \/ StartJourney(s) \/ Rollback(s)
                                  \/ \E j \in Journeys : ExecuteFails(s, j)
                                                         \/ Expire(s, j)
           \/ \E k \in Journeys \X Steps : CustomerPaysLink(k)
           \/ \E e \in Events : CustomerPaysOrder(e)
  <2>1. \/ world' = [world EXCEPT !.created = world.created + 1]
        \/ world' = [world EXCEPT !.mishaps = @ + 1, !.undone = TRUE]
        \/ world' = [world EXCEPT !.undone = TRUE]
        \/ world' = [world EXCEPT !.mishaps = @ + 1]
        \/ world' = [world EXCEPT !.paid = @ + 1]
    <3>1. CASE \E s \in Sessions : StartJourney(s)
      BY <3>1 DEF StartJourney
    <3>2. CASE \E s \in Sessions : Rollback(s)
      BY <3>2 DEF Rollback
    <3>3. CASE \E s \in Sessions, j \in Journeys :
                  ExecuteFails(s, j) \/ Expire(s, j)
      BY <3>3 DEF ExecuteFails, Expire
    <3>4. CASE \/ \E k \in Journeys \X Steps : CustomerPaysLink(k)
               \/ \E e \in Events : CustomerPaysOrder(e)
      BY <3>4 DEF CustomerPaysLink, CustomerPaysOrder
    <3> QED BY <1>4, <3>1, <3>2, <3>3, <3>4
  <2>2. world'.overlaps = world.overlaps
    BY <1>1, <2>1 DEF Worlds
  <2> QED BY <2>2
<1> QED BY <1>2, <1>3, <1>4 DEF Next

\* A payment changes no row.
LEMMA PaysKeepsSerial ==
    ASSUME SessionsInv, SerialInv, world.overlaps = 0,
           \/ UNCHANGED vars
           \/ \E k \in Journeys \X Steps : CustomerPaysLink(k)
           \/ \E e \in Events : CustomerPaysOrder(e)
    PROVE  SerialInv'
<1>1. /\ saved' = saved /\ session' = session /\ lock' = lock
      /\ world' = world \/ world' = [world EXCEPT !.paid = @ + 1]
  BY DEF vars, CustomerPaysLink, CustomerPaysOrder
<1>2. world'.undone = world.undone
  <2>1. world \in Worlds
    BY DEF SessionsInv
  <2> QED BY <1>1, <2>1 DEF Worlds
<1> QED BY <1>1, <1>2 DEF SerialInv, Alone

\* No session that runs alone has to wait.
LEMMA NoneWaits ==
    ASSUME SerialInv, world.overlaps = 0, NEW s \in Sessions
    PROVE  ~Flush(s)
BY DEF SerialInv, Serial, Flush

\* One lemma for each action, and nothing once cycles overlap.
LEMMA SerialNext ==
    SessionsInv /\ LockInv /\ SessionsInv' /\ SerialInv /\ [Next]_vars => SerialInv'
<1> SUFFICES ASSUME SessionsInv, LockInv, SessionsInv', SerialInv, [Next]_vars,
                    world'.overlaps = 0
             PROVE  SerialInv'
  BY DEF SerialInv
<1>1. world.overlaps = 0
  BY OverlapsGrow
<1>2. ASSUME NEW s \in Sessions,
             \/ Flush(s) \/ BeginScan(s) \/ ScanSuppresses(s) \/ ScanDefers(s)
             \/ ClaimCustomer(s) \/ StartJourney(s) \/ ReclaimCustomer(s)
             \/ BeginTick(s) \/ Commit(s) \/ Rollback(s)
      PROVE  SerialInv'
  BY <1>1, <1>2, NoneWaits, BeginScanKeepsSerial, ScanSuppressesKeepsSerial,
     ScanDefersKeepsSerial, ClaimKeepsSerial, StartKeepsSerial,
     ReclaimKeepsSerial, BeginTickKeepsSerial, CommitKeepsSerial,
     RollbackKeepsSerial
<1>3. ASSUME NEW s \in Sessions, NEW j \in Journeys, TickStep(s, j)
      PROVE  SerialInv'
  <2>1. /\ Advancing(s, j)
        /\ Handles(s, j) \/ Waits_longer(s, j)
        /\ saved' = saved /\ world'.undone = world.undone
    BY <1>3, TickHandles
  <2>2. CASE Handles(s, j)
    BY <1>1, <2>1, <2>2, HandlesKeepsSerial
  <2>3. CASE Waits_longer(s, j)
    BY <1>1, <2>1, <2>3, WaitsLongerKeepsSerial
  <2> QED BY <2>1, <2>2, <2>3
<1>4. ASSUME NEW s \in Sessions, NEW j \in Journeys, Expire(s, j)
      PROVE  SerialInv'
  BY <1>1, <1>4, ExpireKeepsSerial
<1> QED BY <1>1, <1>2, <1>3, <1>4, PaysKeepsSerial DEF Next, TickStep

\* Before the first cycle every event is AT_RISK, and none is booked.
LEMMA SerialInit == Init => SerialInv
<1> SUFFICES ASSUME Init PROVE SerialInv
  OBVIOUS
<1>1. SessionsInv
  BY InitHolds
<1>2. /\ \A e \in Events : saved.event[e] = "AT_RISK" /\ saved.ledger[e] = 0
      /\ \A j \in Journeys : ~Open(saved.journey[j])
      /\ \A s \in Sessions : session[s] = Idle
  BY DEF Init, NoRow, Open
<1>3. Consistent(saved) /\ OpenIsOne(saved)
  BY <1>2 DEF Consistent, OpenIsOne
<1>4. saved \in SavedRows
  BY <1>1 DEF SessionsInv
<1>5. /\ Serial(Idle, saved)
      /\ \A j \in Journeys : After(Idle, saved).journey[j] = saved.journey[j]
  BY <1>3, <1>4, IdleIsSerial
<1>6. Names(Idle, saved, lock, world.undone)
  BY <1>2, <1>5, IdleIsTidy DEF Names
<1> QED BY <1>2, <1>3, <1>5, <1>6, IdleIsTidy DEF SerialInv, Alone

-----------------------------------------------------------------------------
(* The theorem of cycles that do not overlap.                              *)

\* A set whose members are equal has one at most.
LEMMA AtMostOne ==
    ASSUME NEW S, \A x, y \in S : x = y
    PROVE  Cardinality(S) <= 1
<1>1. CASE S = {}
  BY <1>1, FS_EmptySet
<1>2. CASE S # {}
  <2>1. PICK x \in S : S = {x}
    BY <1>2
  <2> QED BY <2>1, FS_Singleton
<1> QED BY <1>1, <1>2

\* The property is what the invariant says of the committed rows.
LEMMA SerialIsSafe == SessionsInv /\ SerialInv => SerialCyclesAreSafe
<1> SUFFICES ASSUME SessionsInv, SerialInv, world.overlaps = 0
             PROVE  /\ \A e \in Events :
                         /\ saved.ledger[e] <= 1
                         /\ Cardinality(OpenOf(e)) <= 1
                         /\ saved.ledger[e] = 1 <=> saved.event[e] = "RECOVERED"
                         /\ saved.ledger[e] = 1 => OpenOf(e) = {}
                    /\ ~world.undone =>
                          Cardinality(UNION {OpenOf(e) : e \in Events}) <= 1
  BY DEF SerialCyclesAreSafe
<1>1. Consistent(saved) /\ (~world.undone => OpenIsOne(saved))
  BY DEF SerialInv
<1>2. ASSUME NEW e \in Events
      PROVE  /\ saved.ledger[e] <= 1
             /\ saved.ledger[e] = 1 <=> saved.event[e] = "RECOVERED"
             /\ saved.ledger[e] = 1 => OpenOf(e) = {}
  BY <1>1 DEF Consistent, OpenOf
<1>3. ASSUME NEW e \in Events PROVE Cardinality(OpenOf(e)) <= 1
  <2>1. \A x, y \in OpenOf(e) : x = y
    BY <1>1 DEF Consistent, OpenOf
  <2> QED BY <2>1, AtMostOne
<1>4. ASSUME ~world.undone
      PROVE  Cardinality(UNION {OpenOf(e) : e \in Events}) <= 1
  <2>1. \A x, y \in UNION {OpenOf(e) : e \in Events} : x = y
    BY <1>1, <1>4 DEF OpenIsOne, OpenOf
  <2> QED BY <2>1, AtMostOne
<1> QED BY <1>2, <1>3, <1>4

\* While no two cycles have overlapped an event is booked at most once, is
\* RECOVERED exactly when it is, has at most one open journey and none once it
\* was booked; and unless a cycle was rolled back the customer has at most one
\* open journey (workers/scheduler.py, services/orchestrator.py,
\* services/idempotency.py), whatever fails, expires or is paid late.
THEOREM SerialCyclesSafe == Spec => []SerialCyclesAreSafe
<1>1. Init => SessionsInv /\ LockInv /\ SerialInv
  BY InitHolds, LockInit, SerialInit
<1>2. SessionsInv /\ LockInv /\ SerialInv /\ [Next]_vars
         => (SessionsInv /\ LockInv /\ SerialInv)'
  BY NextHolds, LockNext, SerialNext
<1> QED BY <1>1, <1>2, SerialIsSafe, PTL DEF Spec

-----------------------------------------------------------------------------
(* The refinement of EventFate.                                            *)

Serially == world.overlaps = 0

\* What is committed alone is no step back, and books what it recovers.
LEMMA CommitIsTransaction ==
    ASSUME SessionsInv, LockInv, SerialInv, Serially, SessionsInv', SerialInv',
           Serially', NEW s \in Sessions, Commit(s)
    PROVE  Fate!Transaction
<1> DEFINE v == session[s]
           w == After(v, saved)
<1>1. /\ v.phase \in {"scan", "tick"}
      /\ \A e \in Events :
            saved'.event[e] = IF EventRow(e) \in v.dirty THEN v.event[e]
                              ELSE saved.event[e]
  BY CommitIs
<1>2. Serial(v, saved)
  BY <1>1, RunsAlone, SerialTells DEF Serially
<1>3. \A e \in Events : DbEvent(s, e) = w.event[e]
  BY <1>1, <1>2, DbIsAfter DEF Serial
<1>4. \A e \in Events : saved'.event[e] = w.event[e]
  BY <1>1, <1>3 DEF DbEvent
<1>5. \A e \in Events : saved'.event[e] \in Fate!Later(e, saved.event[e])
  BY <1>2, <1>4 DEF Serial, Ahead
<1>6. saved'.event \in [Events -> Fate!EventStatus]
  BY DEF SessionsInv, SavedRows, Status, Fate!EventStatus
<1>7. Consistent(saved)'
  BY DEF SerialInv, Serially
<1>8. {e \in Events : saved'.ledger[e] > 0}
        = {e \in Events \ {} : saved'.event[e] = "RECOVERED"}
  BY <1>7 DEF Consistent
<1> QED BY <1>5, <1>6, <1>8 DEF Fate!Transaction, Fate!Booked

\* Cycles that do not overlap implement EventFate: a status that was committed
\* only moves forward, and the ledger is exactly what was recovered, whatever
\* fails, is rolled back, expires or is paid late (scan, tick, get_session).
THEOREM SerialImplementsEventFate == Spec /\ []Serially => Fate!Spec
<1>1. Init => SessionsInv /\ LockInv /\ SerialInv
  BY InitHolds, LockInit, SerialInit
<1>2. SessionsInv /\ LockInv /\ SerialInv /\ [Next]_vars
         => (SessionsInv /\ LockInv /\ SerialInv)'
  BY NextHolds, LockNext, SerialNext
<1>3. Init => Fate!Init
  BY DEF Init, Fate!Init
<1>4. /\ SessionsInv /\ LockInv /\ SerialInv /\ Serially
      /\ (SessionsInv /\ SerialInv /\ Serially)' /\ [Next]_vars
      => [Fate!Next]_<<saved.event, {e \in Events : saved.ledger[e] > 0}>>
  <2> SUFFICES ASSUME SessionsInv, LockInv, SerialInv, Serially,
                      SessionsInv', SerialInv', Serially', [Next]_vars,
                      saved' # saved
               PROVE  Fate!Transaction
    BY DEF Fate!Next
  <2>1. ASSUME NEW s \in Sessions,
               \/ Flush(s) \/ BeginScan(s) \/ ScanSuppresses(s)
               \/ ScanDefers(s) \/ ClaimCustomer(s) \/ StartJourney(s)
               \/ ReclaimCustomer(s) \/ BeginTick(s) \/ Rollback(s)
        PROVE  FALSE
    BY <2>1 DEF Flush, BeginScan, ScanSuppresses, ScanDefers, ClaimCustomer,
       StartJourney, ReclaimCustomer, BeginTick, Rollback
  <2>2. ASSUME NEW s \in Sessions, NEW j \in Journeys,
               \/ AdvanceBlocked(s, j) \/ Execute(s, j)
               \/ ExecuteFails(s, j) \/ Verify(s, j) \/ Expire(s, j)
        PROVE  FALSE
    BY <2>2 DEF AdvanceBlocked, Execute, ExecuteFails, Verify, Expire
  <2>3. /\ ~UNCHANGED vars
        /\ \A k \in Journeys \X Steps : ~CustomerPaysLink(k)
        /\ \A e \in Events : ~CustomerPaysOrder(e)
    BY DEF vars, CustomerPaysLink, CustomerPaysOrder
  <2>4. PICK s \in Sessions : Commit(s)
    BY <2>1, <2>2, <2>3 DEF Next
  <2> QED BY <2>4, CommitIsTransaction
<1> QED BY <1>1, <1>2, <1>3, <1>4, PTL DEF Spec, Fate!Spec
=============================================================================

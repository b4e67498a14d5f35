------------------------------ MODULE Sessions ------------------------------
(***************************************************************************)
(* Cycles that overlap: the scheduler's, POST /ops/cycle, /ops/scan and    *)
(* /ops/tick each run scan and tick in a database session of their own     *)
(* (workers/scheduler.py, api/v1/routes/ops.py), and await in between.     *)
(* A session keeps the rows it has loaded, sees what others have committed *)
(* when it selects, and holds a row from the flush that writes it until it *)
(* ends; the customer lock (services/idempotency.py) and the payment       *)
(* provider (integrations/razorpay/client.py) know of no session.          *)
(*                                                                         *)
(* There is one customer.  The events are 1..NumEvents, the larger amount  *)
(* first; every guardrail but the one for recovered events allows, and     *)
(* amounts lie below the approval thresholds: Recovery has the rest.       *)
(***************************************************************************)
EXTENDS Naturals, Sequences, FiniteSets, FiniteSetsExt

CONSTANTS
    Sessions,
    NumEvents,
    Plan,           \* of steps that create a payment LINK or send a MESSAGE
    MaxJourneys,    \* bound: journeys ever opened
    MaxMishaps,     \* bound: cycles that raise without having to wait, calls
                    \* of the gateway that go wrong, journeys past their TTL
    MaxOverlaps,    \* bound: cycles that begin while another runs
    MaxPayments,    \* bound: payments of the customer
    Pending,        \* the value "pending" of the customer's key
    None

Events == 1..NumEvents
Journeys == 1..MaxJourneys
Steps == DOMAIN Plan

Status == {"AT_RISK", "IN_RECOVERY", "SUPPRESSED", "RECOVERED", "LOST"}
Row == [event: Events \cup {None}, step: {0} \cup Steps,
        state: {"NONE", "PLANNED", "VERIFYING", "CLOSED"},
        act: {"NONE", "PLANNED", "BLOCKED", "EXECUTING", "SUCCEEDED", "FAILED"}]

ASSUME SessionsConstants ==
    /\ IsFiniteSet(Sessions)
    /\ {NumEvents, MaxJourneys, MaxMishaps, MaxOverlaps,
        MaxPayments} \subseteq Nat
    /\ Plan \in Seq({"LINK", "MESSAGE"})
    /\ Len(Plan) > 0
    /\ None \notin Journeys \cup {Pending}
    /\ None \notin Events /\ None \notin Status /\ None \notin Row
    /\ Pending \notin Journeys

VARIABLES
    saved,      \* the committed rows
    session,    \* [Sessions -> what a session has loaded and written]
    lock,       \* value of the customer's key
    provider,   \* links by idempotency key, and orders, of the provider
    world       \* history and bounds

vars == <<saved, session, lock, provider, world>>

\* A journey and its last action; a row that is not there has state NONE.
NoRow == [event |-> None, state |-> "NONE", step |-> 0, act |-> "NONE"]

Open(r) == r.state \in {"PLANNED", "VERIFYING"}

\* event and journey are the loaded rows, dirty the rows this session has
\* written and holds, unflushed those it has changed and will write next.
Idle == [phase |-> "idle", todo |-> {}, starting |-> None,
         event |-> [e \in Events |-> None],
         journey |-> [j \in Journeys |-> None],
         dirty |-> {}, unflushed |-> {}, closing |-> FALSE,
         booked |-> [e \in Events |-> 0]]

Init ==
    /\ saved = [event |-> [e \in Events |-> "AT_RISK"],
                journey |-> [j \in Journeys |-> NoRow],
                ledger |-> [e \in Events |-> 0]]
    /\ session = [s \in Sessions |-> Idle]
    /\ lock = None
    /\ provider = [link |-> [k \in Journeys \X Steps |-> "none"],
                   order |-> [e \in Events |-> FALSE]]
    /\ world = [created |-> 0, mishaps |-> 0, paid |-> 0,
                overlaps |-> 0, undone |-> FALSE]

-----------------------------------------------------------------------------
(* What a session sees and writes.                                         *)

EventRow(e) == <<"event", e>>
JourneyRow(j) == <<"journey", j>>

\* The rows a query of s is answered from: its own writes over the committed.
DbEvent(s, e) == IF EventRow(e) \in session[s].dirty THEN session[s].event[e]
                 ELSE saved.event[e]
DbJourney(s, j) == IF JourneyRow(j) \in session[s].dirty
                   THEN session[s].journey[j] ELSE saved.journey[j]

OpenIn(s) == {j \in Journeys : Open(DbJourney(s, j))}

\* The session v of s with the rows es and js loaded; a row that is loaded
\* already keeps what it held.
Load(s, v, es, js) ==
    [v EXCEPT
       !.event = [e \in Events |-> IF e \in es /\ @[e] = None
                                   THEN DbEvent(s, e) ELSE @[e]],
       !.journey = [j \in Journeys |-> IF j \in js /\ @[j] = None
                                       THEN DbJourney(s, j) ELSE @[j]]]

EventsOf(s, js) == {DbJourney(s, j).event : j \in js}

Becomes(s, v) == session' = [session EXCEPT ![s] = v]

Ready(s, phase) == session[s].phase = phase /\ session[s].unflushed = {}

\* A cycle begins, perhaps beside another one.
Begins(s) ==
    IF /\ session[s].phase = "idle"
       /\ \E t \in Sessions \ {s} : session[t].phase # "idle"
    THEN /\ world.overlaps < MaxOverlaps
         /\ world' = [world EXCEPT !.overlaps = @ + 1]
    ELSE UNCHANGED world

Held(s) == UNION {session[t].dirty : t \in Sessions \ {s}}

\* (mutant) Rows are written whoever holds them.
Flushing_at_once(s, v, rows) == [v EXCEPT !.dirty = @ \cup rows]

\* The session v of s when it flushes: at once, or it has to wait.
Flushing(s, v, rows) ==
    IF rows \cap Held(s) = {} THEN [v EXCEPT !.dirty = @ \cup rows]
    ELSE [v EXCEPT !.unflushed = rows]

\* The others have ended, and the rows are written over what they left.
Flush(s) ==
    LET v == session[s] IN
    /\ v.unflushed # {} /\ v.unflushed \cap Held(s) = {}
    /\ Becomes(s, [v EXCEPT !.dirty = @ \cup v.unflushed, !.unflushed = {},
                            !.closing = FALSE])
    /\ lock' = IF v.closing THEN None ELSE lock
    /\ UNCHANGED <<saved, provider, world>>

-----------------------------------------------------------------------------
(* The provider, asked with the idempotency key of a step.                 *)

KeyOf(j, r) == <<j, r.step>>

\* (mutant) A link that exists is taken for paid.
fetch_state_by_link(j, r) ==
    LET link == provider.link[KeyOf(j, r)]
    IN  IF r.act = "EXECUTING" /\ Plan[r.step] = "LINK"
        THEN IF link # "none" THEN "SUCCEEDED" ELSE "PENDING"
        ELSE IF provider.order[r.event] THEN "SUCCEEDED" ELSE "FAILED"

\* A link is asked for by its reference; without one, after an answer that
\* was lost or a message, the order is.
fetch_state(j, r) ==
    LET link == provider.link[KeyOf(j, r)]
    IN  IF r.act = "EXECUTING" /\ Plan[r.step] = "LINK"
        THEN IF link = "paid" THEN "SUCCEEDED" ELSE "PENDING"
        ELSE IF provider.order[r.event] THEN "SUCCEEDED" ELSE "FAILED"

\* The key makes a second call find the link of the first.
CreateLink(k) == provider' = [provider EXCEPT !.link[k] = IF @ = "none"
                                                          THEN "open" ELSE @]

-----------------------------------------------------------------------------
(* scan.                                                                   *)

\* (mutant) The events of open journeys are not left out.
Unclaimed_any(s) == {e \in Events : DbEvent(s, e) \in {"AT_RISK", "IN_RECOVERY"}}

Unclaimed(s) == {e \in Events : /\ DbEvent(s, e) = "AT_RISK"
                                /\ \A j \in OpenIn(s) :
                                      DbJourney(s, j).event # e}

BeginScan(s) ==
    /\ Ready(s, "idle")
    /\ Unclaimed(s) # {}
    /\ Becomes(s, Load(s, [session[s] EXCEPT !.phase = "scan",
                                             !.todo = Unclaimed(s)],
                       Unclaimed(s), {}))
    /\ Begins(s)
    /\ UNCHANGED <<saved, lock, provider>>

Scanned(s) == Min(session[s].todo)

Scanning(s) == Ready(s, "scan") /\ session[s].todo # {}

\* Nothing is worth its cost, or the plan is blocked.
ScanSuppresses(s) ==
    LET e == Scanned(s) IN
    /\ Scanning(s)
    /\ Becomes(s, Flushing(s, [session[s] EXCEPT !.todo = @ \ {e},
                                                 !.event[e] = "SUPPRESSED"],
                           {EventRow(e)}))
    /\ UNCHANGED <<saved, lock, provider, world>>

\* The customer is owned, and the event is left for a later scan.
ScanDefers(s) ==
    /\ Scanning(s)
    /\ lock # None
    /\ Becomes(s, [session[s] EXCEPT !.todo = @ \ {Scanned(s)}])
    /\ UNCHANGED <<saved, lock, provider, world>>

ClaimCustomer(s) ==
    /\ Scanning(s)
    /\ lock = None
    /\ world.created + Cardinality({t \in Sessions :
                                      session[t].phase = "claimed"})
         < MaxJourneys
    /\ lock' = Pending
    /\ Becomes(s, [session[s] EXCEPT !.phase = "claimed"])
    /\ UNCHANGED <<saved, provider, world>>

\* _start_journey up to release_customer: the journey is inserted, which
\* nobody has to wait for and nobody else sees.
StartJourney(s) ==
    LET e == Scanned(s)
        j == world.created + 1
    IN
    /\ Ready(s, "claimed")
    /\ Becomes(s, [session[s] EXCEPT
                     !.phase = "released", !.starting = j,
                     !.event[e] = "IN_RECOVERY",
                     !.journey[j] = [event |-> e, state |-> "PLANNED",
                                     step |-> 1, act |-> "PLANNED"],
                     !.dirty = @ \cup {JourneyRow(j)}])
    /\ world' = [world EXCEPT !.created = j]
    /\ lock' = None
    /\ UNCHANGED <<saved, provider>>

\* The lock is claimed under the id of the journey; that somebody else was
\* faster is not looked at.  _schedule_step then flushes.
ReclaimCustomer(s) ==
    /\ session[s].phase = "released"
    /\ lock' = IF lock = None THEN session[s].starting ELSE lock
    /\ Becomes(s, Flushing(s, [session[s] EXCEPT !.phase = "scan",
                                                 !.starting = None,
                                                 !.todo = @ \ {Scanned(s)}],
                           {EventRow(Scanned(s))}))
    /\ UNCHANGED <<saved, provider, world>>

-----------------------------------------------------------------------------
(* tick.                                                                   *)

\* Any of the open journeys may be due.
BeginTick(s) ==
    /\ \/ Ready(s, "idle")
       \/ Ready(s, "scan") /\ session[s].todo = {}
    /\ \E due \in SUBSET OpenIn(s) \ {{}} :
         Becomes(s, Load(s, [session[s] EXCEPT !.phase = "tick",
                                               !.todo = due],
                         EventsOf(s, due), due))
    /\ Begins(s)
    /\ UNCHANGED <<saved, lock, provider>>

Advancing(s, j) == Ready(s, "tick") /\ j \in session[s].todo

\* The session of s after the row of j became r and its event e.
Wrote(s, j, r, e) ==
    Flushing(s, [session[s] EXCEPT !.todo = @ \ {j}, !.journey[j] = r,
                                   !.event[r.event] = e],
             {JourneyRow(j)} \cup IF e = session[s].event[r.event] THEN {}
                                  ELSE {EventRow(r.event)})

\* (mutant) The lock is left to its expiry.
NextStepOrClose_kept(s, j, r) ==
    LET e == session[s].event[r.event] IN
    IF r.step < Len(Plan)
    THEN /\ Becomes(s, Wrote(s, j, [r EXCEPT !.state = "PLANNED",
                                             !.step = @ + 1,
                                             !.act = IF e = "RECOVERED"
                                                     THEN "BLOCKED"
                                                     ELSE "PLANNED"], e))
         /\ UNCHANGED lock
    ELSE /\ Becomes(s, Wrote(s, j, [r EXCEPT !.state = "CLOSED"], "LOST"))
         /\ UNCHANGED lock

\* _next_step_or_close: the guardrails block every step of an event that
\* the session has loaded as recovered.
NextStepOrClose(s, j, r) ==
    LET e == session[s].event[r.event] IN
    IF r.step < Len(Plan)
    THEN /\ Becomes(s, Wrote(s, j, [r EXCEPT !.state = "PLANNED",
                                             !.step = @ + 1,
                                             !.act = IF e = "RECOVERED"
                                                     THEN "BLOCKED"
                                                     ELSE "PLANNED"], e))
         /\ UNCHANGED lock
    ELSE /\ Becomes(s, Wrote(s, j, [r EXCEPT !.state = "CLOSED"], "LOST"))
         /\ lock' = None

\* The action was blocked when it was scheduled, or is on the re-check.
AdvanceBlocked(s, j) ==
    LET r == session[s].journey[j] IN
    /\ Advancing(s, j)
    /\ \/ r.act = "BLOCKED"
       \/ r.act = "PLANNED" /\ session[s].event[r.event] = "RECOVERED"
    /\ NextStepOrClose(s, j, [r EXCEPT !.act = "BLOCKED"])
    /\ UNCHANGED <<saved, provider, world>>

\* (mutant) The ledger is left to the session that finds the order paid.
Book_order_only(s, j, r) ==
    LET v == Wrote(s, j, [r EXCEPT !.state = "CLOSED", !.act = "SUCCEEDED"],
                   "RECOVERED")
        waits == v.unflushed # {}
    IN  /\ Becomes(s, [v EXCEPT !.closing = waits,
                                !.booked[r.event] =
                                   IF provider.order[r.event] THEN @ + 1 ELSE @])
        /\ lock' = IF waits THEN lock ELSE None

\* Verifier._book, and the journey closed: the lock is released once the rows
\* are flushed.
Book(s, j, r) ==
    LET v == Wrote(s, j, [r EXCEPT !.state = "CLOSED", !.act = "SUCCEEDED"],
                   "RECOVERED")
        waits == v.unflushed # {}
    IN  /\ Becomes(s, [v EXCEPT !.closing = waits,
                                !.booked[r.event] = @ + 1])
        /\ lock' = IF waits THEN lock ELSE None

\* What the loop does with an answer about the action of j.
Answered(s, j, r, answer) ==
    CASE answer = "SUCCEEDED" -> Book(s, j, r)
      [] answer = "FAILED"    -> NextStepOrClose(s, j, [r EXCEPT !.act = "FAILED"])
      [] OTHER                -> UNCHANGED lock /\ Becomes(s,
              Wrote(s, j, [r EXCEPT !.state = "VERIFYING", !.act = "EXECUTING"],
                    session[s].event[r.event]))

Executable(s, j) ==
    /\ Advancing(s, j)
    /\ session[s].journey[j].act = "PLANNED"
    /\ session[s].event[session[s].journey[j].event] # "RECOVERED"

\* The gateway takes the message, or creates the link.  The reservation
\* before it never refuses: its owner is the action itself.
Execute(s, j) ==
    LET r == session[s].journey[j] IN
    /\ Executable(s, j)
    /\ IF Plan[r.step] = "LINK" THEN CreateLink(KeyOf(j, r))
       ELSE UNCHANGED provider
    /\ Answered(s, j, r, "PENDING")
    /\ UNCHANGED <<saved, world>>

\* The answer is lost or an error of the server: the link may be there, and
\* the order is asked instead.  With answer FAILED: the request is rejected
\* or the connection breaks.
ExecuteFails(s, j) ==
    LET r == session[s].journey[j] IN
    /\ Executable(s, j)
    /\ Plan[r.step] = "LINK"
    /\ world.mishaps < MaxMishaps
    /\ CreateLink(KeyOf(j, r)) \/ UNCHANGED provider
    /\ \E answer \in {"FAILED", fetch_state(j, r)} : Answered(s, j, r, answer)
    /\ world' = [world EXCEPT !.mishaps = @ + 1]
    /\ UNCHANGED saved

\* Verifier._poll: it is too early to ask, or the provider answers.
Verify(s, j) ==
    LET r == session[s].journey[j] IN
    /\ Advancing(s, j) /\ r.act = "EXECUTING"
    /\ \E answer \in {"PENDING", fetch_state(j, r)} :
          IF answer = "PENDING"
          THEN /\ Becomes(s, [session[s] EXCEPT !.todo = @ \ {j}])
               /\ UNCHANGED lock
          ELSE Answered(s, j, r, answer)
    /\ UNCHANGED <<saved, provider, world>>

\* _expire_stale: a journey is closed and its event given up, whatever is
\* still out.
Expire(s, j) ==
    LET v == Load(s, session[s], {DbJourney(s, j).event}, {j})
        r == v.journey[j]
    IN
    /\ Ready(s, "tick") /\ session[s].todo = {}
    /\ j \in OpenIn(s)
    /\ world.mishaps < MaxMishaps
    /\ Becomes(s, Flushing(s, [v EXCEPT !.journey[j].state = "CLOSED",
                                        !.event[r.event] = "LOST"],
                           {JourneyRow(j), EventRow(r.event)}))
    /\ lock' = None
    /\ world' = [world EXCEPT !.mishaps = @ + 1]
    /\ UNCHANGED <<saved, provider>>

-----------------------------------------------------------------------------
(* The end of a session, and the customer.                                 *)

Commit(s) ==
    LET v == session[s] IN
    /\ Ready(s, "scan") \/ Ready(s, "tick")
    /\ v.todo = {}
    /\ saved' = [event |-> [e \in Events |-> IF EventRow(e) \in v.dirty
                                             THEN v.event[e]
                                             ELSE saved.event[e]],
                 journey |-> [j \in Journeys |-> DbJourney(s, j)],
                 ledger |-> [e \in Events |-> saved.ledger[e] + v.booked[e]]]
    /\ Becomes(s, Idle)
    /\ UNCHANGED <<lock, provider, world>>

Waits(s) == session[s].unflushed \cap Held(s) # {}

\* A cycle raises, or is told to give up waiting: the busy timeout of
\* SQLite, a deadlock in PostgreSQL.  The key store and the provider keep
\* what it did.
Rollback(s) ==
    /\ session[s].phase # "idle"
    /\ \/ /\ world.mishaps < MaxMishaps
          /\ world' = [world EXCEPT !.mishaps = @ + 1, !.undone = TRUE]
       \/ /\ Waits(s)
          /\ world' = [world EXCEPT !.undone = TRUE]
    /\ Becomes(s, Idle)
    /\ UNCHANGED <<saved, lock, provider>>

\* A link is never taken back, so that it can be paid at any time.
CustomerPaysLink(k) ==
    /\ provider.link[k] = "open"
    /\ world.paid < MaxPayments
    /\ provider' = [provider EXCEPT !.link[k] = "paid"]
    /\ world' = [world EXCEPT !.paid = @ + 1]
    /\ UNCHANGED <<saved, session, lock>>

CustomerPaysOrder(e) ==
    /\ ~provider.order[e]
    /\ world.paid < MaxPayments
    /\ provider' = [provider EXCEPT !.order[e] = TRUE]
    /\ world' = [world EXCEPT !.paid = @ + 1]
    /\ UNCHANGED <<saved, session, lock>>

Next ==
    \/ \E s \in Sessions :
         \/ Flush(s) \/ BeginScan(s) \/ ScanSuppresses(s) \/ ScanDefers(s)
         \/ ClaimCustomer(s) \/ StartJourney(s) \/ ReclaimCustomer(s)
         \/ BeginTick(s) \/ Commit(s) \/ Rollback(s)
         \/ \E j \in Journeys :
              \/ AdvanceBlocked(s, j) \/ Execute(s, j) \/ ExecuteFails(s, j)
              \/ Verify(s, j) \/ Expire(s, j)
    \/ \E k \in Journeys \X Steps : CustomerPaysLink(k)
    \/ \E e \in Events : CustomerPaysOrder(e)

Spec == Init /\ [][Next]_vars

-----------------------------------------------------------------------------
(* Properties.                                                             *)

Rows == {EventRow(e) : e \in Events} \cup {JourneyRow(j) : j \in Journeys}

\* Every row, session and key is what its columns say, and no row is held by
\* two sessions.
TypeOK ==
    /\ saved.event \in [Events -> Status]
    /\ saved.journey \in [Journeys -> Row]
    /\ saved.ledger \in [Events -> Nat]
    /\ \A s \in Sessions :
         /\ session[s].phase \in {"idle", "scan", "claimed", "released", "tick"}
         /\ session[s].event \in [Events -> Status \cup {None}]
         /\ session[s].journey \in [Journeys -> Row \cup {None}]
         /\ session[s].dirty \cup session[s].unflushed \subseteq Rows
         /\ session[s].dirty \cap Held(s) = {}
         /\ session[s].booked \in [Events -> Nat]
    /\ lock \in {None, Pending} \cup Journeys
    /\ provider.link \in [Journeys \X Steps -> {"none", "open", "paid"}]
    /\ provider.order \in [Events -> BOOLEAN]

PaidFor(e) == \/ provider.order[e]
              \/ \E j \in Journeys, i \in Steps :
                   /\ saved.journey[j].event = e
                   /\ provider.link[<<j, i>>] = "paid"

\* No money is booked that the provider has not got, however calls fail,
\* repeat and overlap: an answer that was lost is never taken for a payment.
BookedIsPaid == \A e \in Events : saved.ledger[e] > 0 => PaidFor(e)

\* An event that is RECOVERED as committed is in the ledger, although the
\* session that wrote it may have written over what others had.
RecoveredIsBooked ==
    \A e \in Events : saved.event[e] = "RECOVERED" => saved.ledger[e] > 0

\* Nobody is locked out for nothing: unless a cycle was rolled back, the lock
\* is held by a session that is about to name a journey or by a journey that
\* is open, committed or not yet, also when sessions take it from each other.
LockHasHolder ==
    lock # None /\ ~world.undone =>
        IF lock = Pending
        THEN \E s \in Sessions : session[s].phase = "claimed"
        ELSE \/ Open(saved.journey[lock])
             \/ \E s \in Sessions : /\ JourneyRow(lock) \in session[s].dirty
                                    /\ Open(session[s].journey[lock])

OpenOf(e) == {j \in Journeys : Open(saved.journey[j])
                                 /\ saved.journey[j].event = e}

\* As long as no two cycles ran at a time, an event is booked at most once,
\* has at most one open journey, and none once it was booked; and the
\* customer has one open journey at most, unless a cycle was rolled back.
\* Cycles that overlap keep none of this: a journey can be opened in the gap
\* between release and claim, and two sessions can book the same answer.
SerialCyclesAreSafe ==
    world.overlaps = 0 =>
        /\ \A e \in Events :
             /\ saved.ledger[e] <= 1
             /\ Cardinality(OpenOf(e)) <= 1
             /\ saved.ledger[e] = 1 <=> saved.event[e] = "RECOVERED"
             /\ saved.ledger[e] = 1 => OpenOf(e) = {}
        /\ ~world.undone => Cardinality(UNION {OpenOf(e) : e \in Events}) <= 1

\* The committed rows as EventFate sees them.
Fate == INSTANCE EventFate WITH
    Control <- {},
    fate    <- saved.event,
    ledger  <- {e \in Events : saved.ledger[e] > 0}
=============================================================================

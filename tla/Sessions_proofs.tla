-------------------------- MODULE Sessions_proofs --------------------------
(***************************************************************************)
(* Proofs about Sessions for any number of overlapping sessions, events,   *)
(* journeys and steps: what is booked is paid, and what is RECOVERED is    *)
(* booked.  The invariant says of each session what it may have loaded and *)
(* written, given what is committed, what the provider has and how many    *)
(* journeys were ever numbered.                                            *)
(***************************************************************************)
EXTENDS Sessions, FiniteSetTheorems, WellFoundedInduction, TLAPS

-----------------------------------------------------------------------------
(* The invariant.                                                          *)

\* The row of a journey that exists.
LiveRow == [event: Events, step: Steps,
            state: {"PLANNED", "VERIFYING", "CLOSED"},
            act: {"PLANNED", "BLOCKED", "EXECUTING", "SUCCEEDED", "FAILED"}]

SessionStates ==
    [phase: {"idle", "scan", "claimed", "released", "tick"},
     todo: SUBSET (Events \cup Journeys), starting: Journeys \cup {None},
     event: [Events -> Status \cup {None}],
     journey: [Journeys -> LiveRow \cup {None}],
     dirty: SUBSET Rows, unflushed: SUBSET Rows, closing: BOOLEAN,
     booked: [Events -> Nat]]

Own(v) == v.dirty \cup v.unflushed

\* A row that is written was loaded or made.
Loaded(v) ==
    /\ \A e \in Events : EventRow(e) \in Own(v) => v.event[e] # None
    /\ \A j \in Journeys : JourneyRow(j) \in Own(v) => v.journey[j] # None

Phases(v) ==
    /\ v.phase \in {"scan", "claimed", "released"} => v.todo \subseteq Events
    /\ v.phase \in {"claimed", "released"} => v.todo # {} /\ v.unflushed = {}
    /\ v.phase = "released" => /\ v.starting \in Journeys
                               /\ v.event[Min(v.todo)] # None
    /\ v.phase = "tick" => /\ v.todo \subseteq Journeys
                           /\ \A j \in v.todo : v.journey[j] # None

\* What a session takes for RECOVERED is in the ledger or will be with it.
Booked(v, ledger) ==
    \A e \in Events : v.event[e] = "RECOVERED" => ledger[e] + v.booked[e] > 0

\* What it will book was paid, by the order or by a link of a journey whose
\* row it commits as well.
Paid(v, prov) ==
    \A e \in Events : v.booked[e] > 0 =>
        \/ prov.order[e]
        \/ \E j \in Journeys, i \in Steps :
             /\ prov.link[<<j, i>>] = "paid"
             /\ JourneyRow(j) \in Own(v)
             /\ v.journey[j].event = e

\* A journey keeps its event, and one that is not committed is its maker's.
Agrees(v, journey, created) ==
    \A j \in Journeys : v.journey[j] # None =>
        /\ j <= created
        /\ IF journey[j] = NoRow THEN JourneyRow(j) \in v.dirty
           ELSE v.journey[j].event = journey[j].event

\* What holds of a session wherever its cycle is,
Sound(v, sv, prov, created) ==
    /\ v \in SessionStates
    /\ Loaded(v)
    /\ Booked(v, sv.ledger)
    /\ Paid(v, prov)
    /\ Agrees(v, sv.journey, created)

SavedRows == [event: [Events -> Status],
              journey: [Journeys -> LiveRow \cup {NoRow}],
              ledger: [Events -> Nat]]

Providers == [link: [Journeys \X Steps -> {"none", "open", "paid"}],
              order: [Events -> BOOLEAN]]

Worlds == [created: Nat, mishaps: Nat, paid: Nat, overlaps: Nat,
           undone: BOOLEAN]

Claimed == {s \in Sessions : session[s].phase = "claimed"}

SessionsInv ==
    /\ saved \in SavedRows
    /\ provider \in Providers
    /\ lock \in {None, Pending} \cup Journeys
    /\ world \in Worlds
    /\ session \in [Sessions -> SessionStates]
    /\ \A s \in Sessions : /\ Sound(session[s], saved, provider, world.created)
                            /\ Phases(session[s])
    /\ \A s, t \in Sessions : s # t => session[s].dirty \cap session[t].dirty = {}
    /\ RecoveredIsBooked
    /\ BookedIsPaid
    /\ \A j \in Journeys : saved.journey[j] # NoRow => j <= world.created
    /\ world.created + Cardinality(Claimed) <= MaxJourneys

\* The provider forgets no payment.
Grows(prov, new) ==
    /\ new \in Providers
    /\ \A e \in Events : prov.order[e] => new.order[e]
    /\ \A k \in Journeys \X Steps :
          prov.link[k] = "paid" => new.link[k] = "paid"

\* The session v goes on as u, with what it has loaded, written and booked
\* besides.
Continues(u, v, sv, prov, created) ==
    /\ v.dirty \subseteq u.dirty
    /\ Own(v) \subseteq Own(u)
    /\ \A e \in Events : u.event[e] = "RECOVERED" =>
          \/ v.event[e] = "RECOVERED" /\ v.booked[e] <= u.booked[e]
          \/ sv.ledger[e] + u.booked[e] > 0
    /\ \A j \in Journeys : v.journey[j] # None =>
          u.journey[j] # None /\ u.journey[j].event = v.journey[j].event
    /\ \A j \in Journeys : v.journey[j] = None /\ u.journey[j] # None =>
          /\ j <= created
          /\ IF sv.journey[j] = NoRow THEN JourneyRow(j) \in u.dirty
             ELSE u.journey[j].event = sv.journey[j].event
    /\ \A e \in Events : u.booked[e] = v.booked[e]
          \/ prov.order[e]
          \/ \E j \in Journeys, i \in Steps :
               /\ prov.link[<<j, i>>] = "paid"
               /\ JourneyRow(j) \in Own(u)
               /\ u.journey[j].event = e

-----------------------------------------------------------------------------
(* Lemmas.                                                                 *)

\* The plan is not empty.
LEMMA PlanFacts ==
    /\ Len(Plan) \in Nat \ {0}
    /\ Steps = 1..Len(Plan)
    /\ \A i \in Steps : Plan[i] \in {"LINK", "MESSAGE"}
    /\ MaxJourneys \in Nat /\ NumEvents \in Nat
BY SessionsConstants DEF Steps

\* Rows have names of their own.
LEMMA RowNames ==
    /\ \A e \in Events : EventRow(e) \in Rows
    /\ \A j \in Journeys : JourneyRow(j) \in Rows
    /\ \A e, j : EventRow(e) # JourneyRow(j)
    /\ \A j, k : JourneyRow(j) = JourneyRow(k) => j = k
    /\ \A e, d : EventRow(e) = EventRow(d) => e = d
BY DEF Rows, EventRow, JourneyRow

\* A row that exists is a row, has an event and a step, and is not the empty one.
LEMMA RowTypes ==
    /\ None \notin LiveRow /\ NoRow \notin LiveRow
    /\ LiveRow \subseteq Row /\ NoRow \in Row
    /\ \A r \in LiveRow : r.event \in Events /\ r.step \in Steps
<1>1. LiveRow \subseteq Row
  BY DEF LiveRow, Row
<1>2. NoRow \in Row
  BY DEF NoRow, Row
<1>3. NoRow \notin LiveRow
  BY DEF NoRow, LiveRow
<1>4. \A r \in LiveRow : r.event \in Events /\ r.step \in Steps
  BY DEF LiveRow
<1> QED BY <1>1, <1>2, <1>3, <1>4, SessionsConstants

\* A set of numbers that is not empty has a least one.
LEMMA MinIsIn ==
    ASSUME NEW S \in SUBSET Nat, S # {}
    PROVE  Min(S) \in S
<1> DEFINE R == {ss \in Nat \X Nat : ss[1] < ss[2]}
<1>1. IsWellFoundedOn(R, Nat)
  BY NatLessThanWellFounded, Zenon DEF OpToRel
<1> HIDE DEF R
<1>2. PICK m \in S : \A k \in S : <<k, m>> \notin R
  BY <1>1, WFMin
<1>3. \A k \in S : m <= k
  <2> SUFFICES ASSUME NEW k \in S, k < m PROVE FALSE
    OBVIOUS
  <2>1. <<k, m>> \in R
    BY DEF R
  <2> QED BY <2>1, <1>2
<1> QED BY <1>3 DEF Min

\* A session that has loaded, written and booked more stays sound, if what is
\* new is.
LEMMA StaysSound ==
    ASSUME NEW v, NEW u \in SessionStates, NEW sv \in SavedRows,
           NEW prov \in Providers, NEW new, NEW created \in Nat,
           NEW more \in Nat, created <= more,
           Sound(v, sv, prov, created), Grows(prov, new),
           Loaded(u), Continues(u, v, sv, new, more)
    PROVE  Sound(u, sv, new, more)
<1>1. Booked(u, sv.ledger)
  <2> SUFFICES ASSUME NEW e \in Events, u.event[e] = "RECOVERED",
                      v.event[e] = "RECOVERED", v.booked[e] <= u.booked[e]
               PROVE  sv.ledger[e] + u.booked[e] > 0
    BY DEF Booked, Continues
  <2>1. sv.ledger[e] + v.booked[e] > 0
    BY DEF Sound, Booked
  <2>2. sv.ledger[e] \in Nat /\ v.booked[e] \in Nat /\ u.booked[e] \in Nat
    BY DEF Sound, SessionStates, SavedRows
  <2> QED BY <2>1, <2>2
<1>2. Paid(u, new)
  <2> SUFFICES ASSUME NEW e \in Events, u.booked[e] > 0,
                      u.booked[e] = v.booked[e]
               PROVE  \/ new.order[e]
                      \/ \E j \in Journeys, i \in Steps :
                           /\ new.link[<<j, i>>] = "paid"
                           /\ JourneyRow(j) \in Own(u)
                           /\ u.journey[j].event = e
    BY DEF Paid, Continues
  <2>1. CASE prov.order[e]
    BY <2>1 DEF Grows
  <2>2. CASE ~prov.order[e]
    <3>1. PICK j \in Journeys, i \in Steps :
             /\ prov.link[<<j, i>>] = "paid"
             /\ JourneyRow(j) \in Own(v)
             /\ v.journey[j].event = e
      BY <2>2 DEF Sound, Paid
    <3>2. v.journey[j] # None
      BY <3>1 DEF Sound, Loaded
    <3>3. u.journey[j].event = e /\ JourneyRow(j) \in Own(u)
      BY <3>1, <3>2 DEF Continues
    <3>4. <<j, i>> \in Journeys \X Steps
      OBVIOUS
    <3>5. new.link[<<j, i>>] = "paid"
      BY <3>1, <3>4 DEF Grows
    <3> QED BY <3>3, <3>5
  <2> QED BY <2>1, <2>2
<1>3. Agrees(u, sv.journey, more)
  <2> SUFFICES ASSUME NEW j \in Journeys, u.journey[j] # None,
                      v.journey[j] # None
               PROVE  /\ j <= more
                      /\ IF sv.journey[j] = NoRow THEN JourneyRow(j) \in u.dirty
                         ELSE u.journey[j].event = sv.journey[j].event
    BY DEF Agrees, Continues
  <2>1. /\ j <= created
        /\ IF sv.journey[j] = NoRow THEN JourneyRow(j) \in v.dirty
           ELSE v.journey[j].event = sv.journey[j].event
    BY DEF Sound, Agrees
  <2>2. j <= more
    BY <2>1 DEF Journeys
  <2>3. u.journey[j].event = v.journey[j].event
    BY DEF Continues
  <2> QED BY <2>1, <2>2, <2>3 DEF Continues
<1> QED BY <1>1, <1>2, <1>3 DEF Sound

\* What others have is sound whatever the provider is paid and how many
\* journeys are numbered.
LEMMA StillSound ==
    ASSUME SessionsInv, NEW t \in Sessions, Grows(provider, provider'),
           world'.created \in Nat, world.created <= world'.created
    PROVE  /\ Sound(session[t], saved, provider', world'.created)
           /\ Phases(session[t])
<1>1. PICK v : v = session[t]
  OBVIOUS
<1>2. v \in SessionStates /\ Loaded(v)
      /\ Sound(v, saved, provider, world.created) /\ Phases(v)
  BY <1>1 DEF SessionsInv, Sound
<1>3. /\ saved \in SavedRows /\ provider \in Providers /\ world.created \in Nat
      /\ \A e \in Events : v.booked[e] \in Nat
  BY <1>2 DEF SessionsInv, SessionStates, Worlds
<1>4. Continues(v, v, saved, provider', world'.created)
  BY <1>3 DEF Continues
<1>5. Sound(v, saved, provider', world'.created)
  BY <1>2, <1>3, <1>4, StaysSound
<1> QED BY <1>1, <1>2, <1>5

\* and what is booked stays paid.
LEMMA StillPaid ==
    ASSUME SessionsInv, saved' = saved, Grows(provider, provider')
    PROVE  BookedIsPaid'
<1> SUFFICES ASSUME NEW e \in Events, saved.ledger[e] > 0 PROVE PaidFor(e)'
  BY DEF BookedIsPaid
<1>1. PaidFor(e)
  BY DEF SessionsInv, BookedIsPaid
<1>2. CASE provider.order[e]
  BY <1>2 DEF Grows, PaidFor
<1>3. CASE ~provider.order[e]
  <2>1. PICK j \in Journeys, i \in Steps :
           saved.journey[j].event = e /\ provider.link[<<j, i>>] = "paid"
    BY <1>1, <1>3 DEF PaidFor
  <2>2. <<j, i>> \in Journeys \X Steps
    OBVIOUS
  <2>3. provider'.link[<<j, i>>] = "paid"
    BY <2>1, <2>2 DEF Grows
  <2> QED BY <2>1, <2>3 DEF PaidFor
<1> QED BY <1>2, <1>3

\* One session moves and nothing is committed.
LEMMA Moves ==
    ASSUME SessionsInv, NEW s \in Sessions, NEW u,
           session' = [session EXCEPT ![s] = u], saved' = saved,
           Grows(provider, provider'),
           lock' \in {None, Pending} \cup Journeys,
           world' \in Worlds, world.created <= world'.created,
           Sound(u, saved, provider', world'.created), Phases(u),
           \A t \in Sessions \ {s} : u.dirty \cap session[t].dirty = {},
           world'.created + Cardinality(Claimed') <= MaxJourneys
    PROVE  SessionsInv'
<1>1. world.created \in Nat /\ world'.created \in Nat
  BY DEF SessionsInv, Worlds
<1>2. u \in SessionStates
  BY DEF Sound
<1>3. session' \in [Sessions -> SessionStates]
  BY <1>2 DEF SessionsInv
<1>4. session'[s] = u /\ \A t \in Sessions \ {s} : session'[t] = session[t]
  BY DEF SessionsInv
<1>5. provider' \in Providers
  BY DEF Grows
<1>6. ASSUME NEW t \in Sessions
      PROVE  /\ Sound(session'[t], saved', provider', world'.created)
             /\ Phases(session'[t])
  <2>1. CASE t = s
    BY <1>4, <2>1
  <2>2. CASE t # s
    BY <1>1, <1>4, <2>2, StillSound
  <2> QED BY <2>1, <2>2
<1>7. \A t, x \in Sessions : t # x =>
         session'[t].dirty \cap session'[x].dirty = {}
  BY <1>4 DEF SessionsInv
<1>8. RecoveredIsBooked'
  BY DEF SessionsInv, RecoveredIsBooked
<1>9. BookedIsPaid'
  BY StillPaid
<1>10. \A j \in Journeys : saved'.journey[j] # NoRow => j <= world'.created
  BY <1>1 DEF SessionsInv, Journeys
<1>11. saved' \in SavedRows
  BY DEF SessionsInv
<1> QED BY <1>3, <1>5, <1>6, <1>7, <1>8, <1>9, <1>10, <1>11 DEF SessionsInv

\* Sessions that have claimed the customer, and will number a journey.
LEMMA ClaimsFall ==
    ASSUME SessionsInv, NEW s \in Sessions, NEW u, u.phase # "claimed",
           session' = [session EXCEPT ![s] = u]
    PROVE  /\ Cardinality(Claimed) \in Nat
           /\ Cardinality(Claimed') \in Nat
           /\ Cardinality(Claimed') <= Cardinality(Claimed)
           /\ session[s].phase = "claimed" =>
                 Cardinality(Claimed') = Cardinality(Claimed) - 1
<1>1. Claimed' = Claimed \ {s}
  BY DEF SessionsInv, Claimed
<1>2. PICK C : C = Claimed
  OBVIOUS
<1>3. IsFiniteSet(C)
  BY <1>2, FS_Subset, SessionsConstants DEF Claimed
<1>4. Cardinality(C) \in Nat
  BY <1>3, FS_CardinalityType
<1>5. /\ IsFiniteSet(C \ {s})
      /\ Cardinality(C \ {s}) \in Nat
      /\ Cardinality(C \ {s}) <= Cardinality(C)
  BY <1>3, FS_Subset, FS_CardinalityType
<1>6. s \in C => Cardinality(C \ {s}) = Cardinality(C) - 1
  BY <1>3, FS_RemoveElement
<1>7. session[s].phase = "claimed" => s \in C
  BY <1>2 DEF Claimed
<1> QED BY <1>1, <1>2, <1>4, <1>5, <1>6, <1>7

\* A step of a session that holds no claim, and leaves the world alone or
\* counts up what is not the journeys.
LEMMA MovesUnclaimed ==
    ASSUME SessionsInv, NEW s \in Sessions, NEW u,
           session' = [session EXCEPT ![s] = u], saved' = saved,
           Grows(provider, provider'),
           lock' \in {None, Pending} \cup Journeys,
           world' \in Worlds, world'.created = world.created,
           Sound(u, saved, provider', world.created), Phases(u),
           \A t \in Sessions \ {s} : u.dirty \cap session[t].dirty = {},
           u.phase # "claimed"
    PROVE  SessionsInv'
<1>1. world.created \in Nat /\ MaxJourneys \in Nat
  BY SessionsConstants DEF SessionsInv, Worlds
<1>2. /\ Cardinality(Claimed) \in Nat /\ Cardinality(Claimed') \in Nat
      /\ Cardinality(Claimed') <= Cardinality(Claimed)
  BY ClaimsFall
<1>3. world.created + Cardinality(Claimed) <= MaxJourneys
  BY DEF SessionsInv
<1>4. world'.created + Cardinality(Claimed') <= MaxJourneys
  BY <1>1, <1>2, <1>3
<1>5. world.created <= world'.created
  BY <1>1
<1>6. Sound(u, saved, provider', world'.created)
  OBVIOUS
<1> QED BY <1>4, <1>5, <1>6, Moves

\* A provider that nothing happens to forgets nothing.
LEMMA SameProvider == SessionsInv => Grows(provider, provider)
BY DEF SessionsInv, Grows

\* What the queries of a session return.
LEMMA DbRows ==
    ASSUME SessionsInv, NEW s \in Sessions
    PROVE  /\ \A e \in Events :
                /\ DbEvent(s, e) \in Status
                /\ DbEvent(s, e) = "RECOVERED" =>
                      saved.ledger[e] + session[s].booked[e] > 0
           /\ \A j \in OpenIn(s) :
                /\ j \in Journeys
                /\ DbJourney(s, j) \in LiveRow
                /\ session[s].journey[j] # None =>
                     session[s].journey[j].event = DbJourney(s, j).event
                /\ session[s].journey[j] = None =>
                     /\ DbJourney(s, j) = saved.journey[j]
                     /\ saved.journey[j] # NoRow
                     /\ j <= world.created
<1>1. PICK v : v = session[s]
  OBVIOUS
<1>2. /\ v \in SessionStates /\ Loaded(v) /\ Booked(v, saved.ledger)
      /\ Agrees(v, saved.journey, world.created)
  BY <1>1 DEF SessionsInv, Sound
<1>3. /\ saved.event \in [Events -> Status]
      /\ saved.journey \in [Journeys -> LiveRow \cup {NoRow}]
      /\ saved.ledger \in [Events -> Nat]
  BY DEF SessionsInv, SavedRows
<1>4. ASSUME NEW e \in Events
      PROVE  /\ DbEvent(s, e) \in Status
             /\ DbEvent(s, e) = "RECOVERED" =>
                   saved.ledger[e] + session[s].booked[e] > 0
  <2>1. CASE EventRow(e) \in v.dirty
    <3>1. DbEvent(s, e) = v.event[e] /\ v.event[e] # None
      BY <1>1, <1>2, <2>1 DEF DbEvent, Loaded, Own
    <3>2. v.event[e] \in Status
      BY <1>2, <3>1 DEF SessionStates
    <3> QED BY <1>1, <1>2, <3>1, <3>2 DEF Booked
  <2>2. CASE EventRow(e) \notin v.dirty
    <3>1. DbEvent(s, e) = saved.event[e]
      BY <1>1, <2>2 DEF DbEvent
    <3>2. saved.event[e] = "RECOVERED" => saved.ledger[e] > 0
      BY DEF SessionsInv, RecoveredIsBooked
    <3>3. v.booked[e] \in Nat /\ saved.ledger[e] \in Nat
      BY <1>2, <1>3 DEF SessionStates
    <3> QED BY <1>1, <1>3, <3>1, <3>2, <3>3
  <2> QED BY <2>1, <2>2
<1>5. ASSUME NEW j \in OpenIn(s)
      PROVE  /\ j \in Journeys
             /\ DbJourney(s, j) \in LiveRow
             /\ session[s].journey[j] # None =>
                  session[s].journey[j].event = DbJourney(s, j).event
             /\ session[s].journey[j] = None =>
                  /\ DbJourney(s, j) = saved.journey[j]
                  /\ saved.journey[j] # NoRow
                  /\ j <= world.created
  <2>1. j \in Journeys /\ DbJourney(s, j).state \in {"PLANNED", "VERIFYING"}
    BY DEF OpenIn, Open
  <2>2. CASE JourneyRow(j) \in v.dirty
    <3>1. DbJourney(s, j) = v.journey[j] /\ v.journey[j] # None
      BY <1>1, <1>2, <2>1, <2>2 DEF DbJourney, Loaded, Own
    <3>2. v.journey[j] \in LiveRow
      BY <1>2, <2>1, <3>1 DEF SessionStates
    <3> QED BY <1>1, <2>1, <3>1, <3>2
  <2>3. CASE JourneyRow(j) \notin v.dirty
    <3>1. DbJourney(s, j) = saved.journey[j]
      BY <1>1, <2>3 DEF DbJourney
    <3>2. saved.journey[j] # NoRow
      BY <2>1, <3>1 DEF NoRow
    <3>3. saved.journey[j] \in LiveRow
      BY <1>3, <2>1, <3>2
    <3>4. v.journey[j] # None => v.journey[j].event = saved.journey[j].event
      BY <1>2, <2>1, <3>2 DEF Agrees
    <3>5. j <= world.created
      BY <2>1, <3>2 DEF SessionsInv
    <3> QED BY <1>1, <2>1, <3>1, <3>2, <3>3, <3>4, <3>5
  <2> QED BY <2>2, <2>3
<1> QED BY <1>4, <1>5

\* v has the copies of rows that s has.
HasCopies(v, s) ==
    /\ v.event = session[s].event /\ v.journey = session[s].journey
    /\ v.dirty = session[s].dirty /\ v.unflushed = session[s].unflushed
    /\ v.booked = session[s].booked

HasLoaded(u, v, s, es, js) ==
    /\ Sound(u, saved, provider, world.created)
    /\ u.phase = v.phase /\ u.todo = v.todo
    /\ u.dirty = v.dirty /\ u.unflushed = v.unflushed
    /\ \A e \in es : u.event[e] # None
    /\ \A j \in js : u.journey[j] \in LiveRow

\* A session loads rows and keeps the copies it has.
LEMMA Loads ==
    ASSUME SessionsInv, NEW s \in Sessions, NEW v \in SessionStates,
           HasCopies(v, s),
           NEW es, es \subseteq Events, NEW js, js \subseteq OpenIn(s), NEW u,
           u = Load(s, v, es, js)
    PROVE  HasLoaded(u, v, s, es, js)
<1>1. PICK w : w = session[s]
  OBVIOUS
<1>2. /\ w \in SessionStates /\ Sound(w, saved, provider, world.created)
      /\ Loaded(w)
      /\ v.event = w.event /\ v.journey = w.journey /\ v.dirty = w.dirty
      /\ v.unflushed = w.unflushed /\ v.booked = w.booked
  BY <1>1 DEF SessionsInv, Sound, HasCopies
<1>3. /\ \A e \in Events : DbEvent(s, e) \in Status /\ DbEvent(s, e) # None
      /\ js \subseteq Journeys
      /\ \A j \in js : DbJourney(s, j) \in LiveRow /\ DbJourney(s, j) # None
  BY DbRows, RowTypes, SessionsConstants
<1>4. /\ u.phase = v.phase /\ u.todo = v.todo /\ u.starting = v.starting
      /\ u.dirty = v.dirty /\ u.unflushed = v.unflushed
      /\ u.closing = v.closing /\ u.booked = v.booked
      /\ u.event = [e \in Events |-> IF e \in es /\ v.event[e] = None
                                     THEN DbEvent(s, e) ELSE v.event[e]]
      /\ u.journey = [j \in Journeys |-> IF j \in js /\ v.journey[j] = None
                                         THEN DbJourney(s, j)
                                         ELSE v.journey[j]]
  BY DEF Load, SessionStates
<1>5. u.event \in [Events -> Status \cup {None}]
  BY <1>3, <1>4 DEF SessionStates
<1>6. u.journey \in [Journeys -> LiveRow \cup {None}]
  BY <1>3, <1>4 DEF SessionStates
<1>7. u \in SessionStates
  BY <1>5, <1>6 DEF Load, SessionStates
<1>8. Loaded(u)
  <2>1. Own(u) = Own(w)
    BY <1>1, <1>2, <1>4 DEF Own
  <2>2. \A e \in Events : w.event[e] # None => u.event[e] # None
    BY <1>1, <1>2, <1>3, <1>4
  <2>3. \A j \in Journeys : w.journey[j] # None => u.journey[j] # None
    BY <1>1, <1>2, <1>3, <1>4
  <2> QED BY <1>2, <2>1, <2>2, <2>3 DEF Loaded
<1>9. \A e \in Events : u.event[e] = "RECOVERED" =>
         \/ w.event[e] = "RECOVERED" /\ w.booked[e] <= u.booked[e]
         \/ saved.ledger[e] + u.booked[e] > 0
  <2> SUFFICES ASSUME NEW e \in Events, u.event[e] = "RECOVERED"
               PROVE  \/ w.event[e] = "RECOVERED" /\ w.booked[e] <= u.booked[e]
                      \/ saved.ledger[e] + u.booked[e] > 0
    OBVIOUS
  <2>1. u.booked[e] = w.booked[e] /\ w.booked[e] \in Nat
    BY <1>1, <1>2, <1>4 DEF SessionStates
  <2>2. w.event[e] = "RECOVERED" \/ DbEvent(s, e) = "RECOVERED"
    BY <1>1, <1>2, <1>4
  <2>3. DbEvent(s, e) = "RECOVERED" => saved.ledger[e] + w.booked[e] > 0
    BY <1>1, DbRows
  <2> QED BY <2>1, <2>2, <2>3
<1>10. \A j \in Journeys : w.journey[j] # None =>
          u.journey[j] # None /\ u.journey[j].event = w.journey[j].event
  BY <1>1, <1>2, <1>4
<1>11. \A j \in Journeys : w.journey[j] = None /\ u.journey[j] # None =>
          /\ j <= world.created
          /\ IF saved.journey[j] = NoRow THEN JourneyRow(j) \in u.dirty
             ELSE u.journey[j].event = saved.journey[j].event
  <2> SUFFICES ASSUME NEW j \in Journeys, w.journey[j] = None,
                      u.journey[j] # None
               PROVE  /\ j <= world.created
                      /\ saved.journey[j] # NoRow
                      /\ u.journey[j].event = saved.journey[j].event
    OBVIOUS
  <2>1. j \in js /\ u.journey[j] = DbJourney(s, j)
    BY <1>1, <1>2, <1>4
  <2> QED BY <1>1, <2>1, DbRows
<1>12. /\ saved \in SavedRows /\ provider \in Providers
       /\ world.created \in Nat /\ world.created <= world.created
       /\ Grows(provider, provider)
  BY SameProvider DEF SessionsInv, Worlds
<1>13. w.dirty \subseteq u.dirty /\ Own(w) \subseteq Own(u)
       /\ \A e \in Events : u.booked[e] = w.booked[e]
  BY <1>1, <1>2, <1>4 DEF Own
<1>14. Continues(u, w, saved, provider, world.created)
  BY <1>9, <1>10, <1>11, <1>13 DEF Continues
<1>15. Sound(u, saved, provider, world.created)
  BY <1>2, <1>7, <1>8, <1>12, <1>14, StaysSound
<1>16. \A e \in es : u.event[e] # None
  BY <1>3, <1>4
<1>17. \A j \in js : u.journey[j] \in LiveRow
  <2> SUFFICES ASSUME NEW j \in js PROVE u.journey[j] \in LiveRow
    OBVIOUS
  <2>1. CASE w.journey[j] = None
    BY <1>2, <1>3, <1>4, <2>1
  <2>2. CASE w.journey[j] # None
    BY <1>2, <1>3, <1>4, <2>2 DEF SessionStates
  <2> QED BY <2>1, <2>2
<1> QED BY <1>4, <1>16, <1>17, <1>15 DEF HasLoaded

\* A session flushes, or waits to.
LEMMA Flushes ==
    ASSUME NEW s \in Sessions, NEW v \in SessionStates, v.unflushed = {},
           \A t \in Sessions \ {s} : v.dirty \cap session[t].dirty = {},
           NEW rows \in SUBSET Rows, NEW u, u = Flushing(s, v, rows)
    PROVE  /\ u \in SessionStates
           /\ u.phase = v.phase /\ u.todo = v.todo
           /\ u.starting = v.starting /\ u.closing = v.closing
           /\ u.event = v.event /\ u.journey = v.journey
           /\ u.booked = v.booked
           /\ v.dirty \subseteq u.dirty /\ Own(u) = v.dirty \cup rows
           /\ \A t \in Sessions \ {s} : u.dirty \cap session[t].dirty = {}
<1>1. CASE rows \cap Held(s) = {}
  <2>1. u = [v EXCEPT !.dirty = @ \cup rows]
    BY <1>1 DEF Flushing
  <2>2. u \in SessionStates
    BY <2>1 DEF SessionStates
  <2>3. \A t \in Sessions \ {s} : rows \cap session[t].dirty = {}
    BY <1>1 DEF Held
  <2> QED BY <2>1, <2>2, <2>3 DEF SessionStates, Own
<1>2. CASE rows \cap Held(s) # {}
  <2>1. u = [v EXCEPT !.unflushed = rows]
    BY <1>2 DEF Flushing
  <2> QED BY <2>1 DEF SessionStates, Own
<1> QED BY <1>1, <1>2

-----------------------------------------------------------------------------
(* What the handlers of tick write.                                        *)

\* The session a handler leaves, whatever it made of the row of j.
LEMMA WroteFacts ==
    ASSUME SessionsInv, NEW s \in Sessions, NEW j \in Journeys,
           Advancing(s, j), NEW r \in LiveRow,
           r.event = session[s].journey[j].event,
           NEW e \in Status \cup {session[s].event[r.event]},
           NEW u, u = Wrote(s, j, r, e)
    PROVE  /\ u \in SessionStates
           /\ Loaded(u)
           /\ Phases(u) /\ u.phase = "tick"
           /\ u.event = [session[s].event EXCEPT ![r.event] = e]
           /\ u.journey = [session[s].journey EXCEPT ![j] = r]
           /\ u.booked = session[s].booked
           /\ JourneyRow(j) \in Own(u)
           /\ session[s].dirty \subseteq u.dirty
           /\ Own(session[s]) \subseteq Own(u)
           /\ \A t \in Sessions \ {s} : u.dirty \cap session[t].dirty = {}
<1>1. PICK w : w = session[s]
  OBVIOUS
<1>2. /\ w \in SessionStates /\ Loaded(w) /\ Phases(w)
      /\ w.phase = "tick" /\ w.unflushed = {} /\ j \in w.todo
      /\ \A t \in Sessions \ {s} : w.dirty \cap session[t].dirty = {}
  BY <1>1 DEF SessionsInv, Sound, Advancing, Ready
<1>3. r.event \in Events /\ r # None
  BY RowTypes
<1>4. w.event[r.event] \in Status \cup {None}
  BY <1>2, <1>3 DEF SessionStates
<1>5. PICK v : v = [w EXCEPT !.todo = @ \ {j}, !.journey[j] = r,
                             !.event[r.event] = e]
  OBVIOUS
<1>6. /\ v.phase = "tick" /\ v.todo = w.todo \ {j} /\ v.booked = w.booked
      /\ v.dirty = w.dirty /\ v.unflushed = {}
      /\ v.event = [w.event EXCEPT ![r.event] = e]
      /\ v.journey = [w.journey EXCEPT ![j] = r]
  BY <1>2, <1>5 DEF SessionStates
<1>7. v \in SessionStates
  <2>1. v.event \in [Events -> Status \cup {None}]
    BY <1>1, <1>2, <1>3, <1>4, <1>6 DEF SessionStates
  <2>2. v.journey \in [Journeys -> LiveRow \cup {None}]
    BY <1>2, <1>6 DEF SessionStates
  <2>3. v.todo \in SUBSET (Events \cup Journeys)
    BY <1>2, <1>6 DEF SessionStates
  <2> QED BY <1>2, <1>5, <2>1, <2>2, <2>3 DEF SessionStates
<1>8. PICK rows : rows = {JourneyRow(j)} \cup IF e = w.event[r.event] THEN {}
                                              ELSE {EventRow(r.event)}
  OBVIOUS
<1>9. rows \in SUBSET Rows
  BY <1>3, <1>8, RowNames
<1>10. u = Flushing(s, v, rows)
  BY <1>1, <1>5, <1>8 DEF Wrote
<1>11. /\ u \in SessionStates
       /\ u.phase = v.phase /\ u.todo = v.todo
       /\ u.event = v.event /\ u.journey = v.journey /\ u.booked = v.booked
       /\ v.dirty \subseteq u.dirty /\ Own(u) = v.dirty \cup rows
       /\ \A t \in Sessions \ {s} : u.dirty \cap session[t].dirty = {}
  BY <1>2, <1>6, <1>7, <1>9, <1>10, Flushes
<1>12. Own(w) \subseteq Own(u) /\ JourneyRow(j) \in Own(u)
  BY <1>2, <1>6, <1>8, <1>11 DEF Own
<1>13. Loaded(u)
  <2>1. ASSUME NEW d \in Events, EventRow(d) \in Own(u)
        PROVE  u.event[d] # None
    <3>1. EventRow(d) \in Own(w) \/ (d = r.event /\ e # w.event[r.event])
      BY <1>6, <1>8, <1>11, <2>1, RowNames DEF Own
    <3>2. d = r.event /\ e # w.event[r.event] => u.event[d] = e /\ e # None
      BY <1>1, <1>2, <1>3, <1>6, <1>11, SessionsConstants DEF SessionStates
    <3>3. EventRow(d) \in Own(w) => w.event[d] # None
      BY <1>2 DEF Loaded
    <3>4. EventRow(d) \in Own(w) => u.event[d] # None
      BY <1>1, <1>2, <1>3, <1>6, <1>11, <3>3, SessionsConstants
         DEF SessionStates
    <3> QED BY <3>1, <3>2, <3>4
  <2>2. ASSUME NEW k \in Journeys, JourneyRow(k) \in Own(u)
        PROVE  u.journey[k] # None
    <3>1. JourneyRow(k) \in Own(w) \/ k = j
      BY <1>6, <1>8, <1>11, <2>2, RowNames DEF Own
    <3>2. JourneyRow(k) \in Own(w) => w.journey[k] # None
      BY <1>2 DEF Loaded
    <3> QED BY <1>2, <1>3, <1>6, <1>11, <3>1, <3>2 DEF SessionStates
  <2> QED BY <2>1, <2>2 DEF Loaded
<1>14. Phases(u)
  BY <1>2, <1>3, <1>6, <1>11 DEF Phases, SessionStates
<1> QED BY <1>1, <1>6, <1>11, <1>12, <1>13, <1>14

\* A handler that neither books nor finds the event recovered.
LEMMA Writes ==
    ASSUME SessionsInv, NEW s \in Sessions, NEW j \in Journeys,
           Advancing(s, j), NEW r \in LiveRow,
           r.event = session[s].journey[j].event,
           NEW e \in Status \cup {session[s].event[r.event]},
           e # "RECOVERED" \/ e = session[s].event[r.event],
           Becomes(s, Wrote(s, j, r, e)), saved' = saved,
           Grows(provider, provider'),
           lock' \in {None, Pending} \cup Journeys,
           world' \in Worlds, world'.created = world.created
    PROVE  SessionsInv'
<1>1. PICK u : u = Wrote(s, j, r, e)
  OBVIOUS
<1>2. PICK w : w = session[s]
  OBVIOUS
<1>3. /\ u \in SessionStates
      /\ Loaded(u)
      /\ Phases(u) /\ u.phase = "tick"
      /\ u.event = [w.event EXCEPT ![r.event] = e]
      /\ u.journey = [w.journey EXCEPT ![j] = r]
      /\ u.booked = w.booked
      /\ w.dirty \subseteq u.dirty
      /\ Own(w) \subseteq Own(u)
      /\ \A t \in Sessions \ {s} : u.dirty \cap session[t].dirty = {}
  <2>1. e \in Status \cup {session[s].event[r.event]}
    OBVIOUS
  <2>2. /\ u \in SessionStates /\ Loaded(u) /\ Phases(u) /\ u.phase = "tick"
        /\ u.event = [session[s].event EXCEPT ![r.event] = e]
        /\ u.journey = [session[s].journey EXCEPT ![j] = r]
        /\ u.booked = session[s].booked
        /\ session[s].dirty \subseteq u.dirty
        /\ Own(session[s]) \subseteq Own(u)
        /\ \A t \in Sessions \ {s} : u.dirty \cap session[t].dirty = {}
    BY <1>1, <2>1, WroteFacts, Z3T(30)
  <2> QED BY <1>2, <2>2
<1>4. /\ w \in SessionStates /\ Sound(w, saved, provider, world.created)
      /\ w.journey[j] # None /\ r # None /\ r.event = w.journey[j].event
  BY <1>2, RowTypes DEF SessionsInv, Sound, Advancing, Ready, Phases
<1>5. \A d \in Events : u.event[d] = "RECOVERED" => w.event[d] = "RECOVERED"
  BY <1>2, <1>3, <1>4 DEF SessionStates
<1>6. /\ u.journey[j] = r
      /\ \A k \in Journeys \ {j} : u.journey[k] = w.journey[k]
  <2>1. w.journey \in [Journeys -> LiveRow \cup {None}]
    BY <1>4 DEF SessionStates
  <2> QED BY <1>3, <2>1
<1>7. \A d \in Events : w.booked[d] \in Nat
  BY <1>4 DEF SessionStates
<1>8. Continues(u, w, saved, provider', world.created)
  BY <1>3, <1>4, <1>5, <1>6, <1>7 DEF Continues
<1>9. /\ saved \in SavedRows /\ provider \in Providers
      /\ world.created \in Nat /\ world.created <= world.created
  BY DEF SessionsInv, Worlds
<1>10. Sound(u, saved, provider', world.created)
  BY <1>3, <1>4, <1>8, <1>9, StaysSound
<1>11. session' = [session EXCEPT ![s] = u]
  BY <1>1 DEF Becomes
<1> QED BY <1>3, <1>10, <1>11, MovesUnclaimed

\* _next_step_or_close.
LEMMA NextSteps ==
    ASSUME SessionsInv, NEW s \in Sessions, NEW j \in Journeys,
           Advancing(s, j), NEW r \in LiveRow,
           r.event = session[s].journey[j].event,
           NextStepOrClose(s, j, r), saved' = saved,
           Grows(provider, provider'),
           world' \in Worlds, world'.created = world.created
    PROVE  SessionsInv'
<1>1. lock \in {None, Pending} \cup Journeys
  BY DEF SessionsInv
<1>2. CASE r.step < Len(Plan)
  <2>1. PICK e : e = session[s].event[r.event]
    OBVIOUS
  <2>2. PICK n : n = [r EXCEPT !.state = "PLANNED", !.step = @ + 1,
                               !.act = IF e = "RECOVERED" THEN "BLOCKED"
                                       ELSE "PLANNED"]
    OBVIOUS
  <2>3. n \in LiveRow /\ n.event = r.event
    <3>1. r.step \in Steps /\ r.step + 1 \in Steps
      BY <1>2, PlanFacts, RowTypes
    <3> QED BY <2>2, <3>1 DEF LiveRow
  <2>4. Becomes(s, Wrote(s, j, n, e)) /\ lock' = lock
    BY <1>2, <2>1, <2>2 DEF NextStepOrClose
  <2>5. /\ n.event = session[s].journey[j].event
        /\ e \in Status \cup {session[s].event[n.event]}
        /\ e = session[s].event[n.event]
    BY <2>1, <2>3
  <2> QED BY <1>1, <2>3, <2>4, <2>5, Writes
<1>3. CASE ~(r.step < Len(Plan))
  <2>1. PICK n : n = [r EXCEPT !.state = "CLOSED"]
    OBVIOUS
  <2>2. n \in LiveRow /\ n.event = session[s].journey[j].event
    BY <2>1 DEF LiveRow
  <2>3. Becomes(s, Wrote(s, j, n, "LOST")) /\ lock' = None
    BY <1>3, <2>1 DEF NextStepOrClose
  <2>4. /\ "LOST" \in Status \cup {session[s].event[n.event]}
        /\ "LOST" # "RECOVERED"
    BY DEF Status
  <2>5. lock' \in {None, Pending} \cup Journeys
    BY <2>3
  <2> QED BY <2>2, <2>3, <2>4, <2>5, Writes
<1> QED BY <1>2, <1>3

\* Verifier._book, for what was paid.
LEMMA Books ==
    ASSUME SessionsInv, NEW s \in Sessions, NEW j \in Journeys,
           Advancing(s, j), NEW r \in LiveRow, r = session[s].journey[j],
           Book(s, j, r), saved' = saved,
           Grows(provider, provider'),
           provider'.order[r.event] \/ provider'.link[<<j, r.step>>] = "paid",
           world' \in Worlds, world'.created = world.created
    PROVE  SessionsInv'
<1>1. PICK n : n = [r EXCEPT !.state = "CLOSED", !.act = "SUCCEEDED"]
  OBVIOUS
<1>2. n \in LiveRow /\ n.event = r.event
  BY <1>1 DEF LiveRow
<1>3. PICK v : v = Wrote(s, j, n, "RECOVERED")
  OBVIOUS
<1>4. PICK w : w = session[s]
  OBVIOUS
<1>5. "RECOVERED" \in Status \cup {session[s].event[n.event]}
  BY DEF Status
<1>6. /\ v \in SessionStates
      /\ Loaded(v)
      /\ Phases(v) /\ v.phase = "tick"
      /\ v.event = [w.event EXCEPT ![r.event] = "RECOVERED"]
      /\ v.journey = [w.journey EXCEPT ![j] = n]
      /\ v.booked = w.booked
      /\ JourneyRow(j) \in Own(v)
      /\ w.dirty \subseteq v.dirty
      /\ Own(w) \subseteq Own(v)
      /\ \A t \in Sessions \ {s} : v.dirty \cap session[t].dirty = {}
  BY <1>2, <1>3, <1>4, <1>5, WroteFacts, SMTT(30)
<1>7. PICK waits : waits = (v.unflushed # {})
  OBVIOUS
<1>8. PICK u : u = [v EXCEPT !.closing = waits, !.booked[r.event] = @ + 1]
  OBVIOUS
<1>9. session' = [session EXCEPT ![s] = u]
  BY <1>1, <1>3, <1>7, <1>8 DEF Book, Becomes
<1>10. lock' \in {None, Pending} \cup Journeys
  BY DEF Book, SessionsInv
<1>11. /\ r.event \in Events /\ r.step \in Steps
       /\ \A d \in Events : v.booked[d] \in Nat
  BY <1>6, RowTypes DEF SessionStates
<1>12. /\ u.phase = v.phase /\ u.todo = v.todo /\ u.starting = v.starting
       /\ u.event = v.event /\ u.journey = v.journey
       /\ u.dirty = v.dirty /\ u.unflushed = v.unflushed
       /\ u.booked = [v.booked EXCEPT ![r.event] = @ + 1]
  BY <1>6, <1>8 DEF SessionStates
<1>13. u.booked \in [Events -> Nat]
  BY <1>6, <1>11, <1>12 DEF SessionStates
<1>14. waits \in BOOLEAN
  BY <1>7
<1>15. u \in SessionStates
  BY <1>6, <1>8, <1>13, <1>14 DEF SessionStates
<1>16. Own(u) = Own(v) /\ Loaded(u) /\ Phases(u)
  BY <1>6, <1>12, SMTT(30) DEF Own, Loaded, Phases
<1>17. /\ w \in SessionStates /\ Sound(w, saved, provider, world.created)
       /\ w.journey[j] # None /\ n # None /\ n.event = w.journey[j].event
  BY <1>2, <1>4, RowTypes DEF SessionsInv, Sound, Advancing, Ready, Phases
<1>18. \A d \in Events : u.event[d] = "RECOVERED" =>
          \/ w.event[d] = "RECOVERED" /\ w.booked[d] <= u.booked[d]
          \/ saved.ledger[d] + u.booked[d] > 0
  <2> SUFFICES ASSUME NEW d \in Events, u.event[d] = "RECOVERED"
               PROVE  \/ w.event[d] = "RECOVERED" /\ w.booked[d] <= u.booked[d]
                      \/ saved.ledger[d] + u.booked[d] > 0
    OBVIOUS
  <2>1. w.booked[d] \in Nat /\ saved.ledger[d] \in Nat
    BY <1>6, <1>11 DEF SessionsInv, SavedRows
  <2>2. CASE d = r.event
    <3>1. u.booked[d] = w.booked[d] + 1
      BY <1>6, <1>12, <2>2 DEF SessionStates
    <3> QED BY <2>1, <3>1
  <2>3. CASE d # r.event
    <3>1. w.event[d] = "RECOVERED" /\ u.booked[d] = w.booked[d]
      BY <1>6, <1>12, <2>3 DEF SessionStates
    <3> QED BY <2>1, <3>1
  <2> QED BY <2>2, <2>3
<1>19. /\ u.journey[j] = n
       /\ \A k \in Journeys \ {j} : u.journey[k] = w.journey[k]
  <2>1. w.journey \in [Journeys -> LiveRow \cup {None}]
    BY <1>17 DEF SessionStates
  <2> QED BY <1>6, <1>12, <2>1
<1>20. \A d \in Events : u.booked[d] = w.booked[d]
          \/ provider'.order[d]
          \/ \E k \in Journeys, i \in Steps :
               /\ provider'.link[<<k, i>>] = "paid"
               /\ JourneyRow(k) \in Own(u)
               /\ u.journey[k].event = d
  <2> SUFFICES ASSUME NEW d \in Events, u.booked[d] # w.booked[d],
                      ~provider'.order[d]
               PROVE  \E k \in Journeys, i \in Steps :
                        /\ provider'.link[<<k, i>>] = "paid"
                        /\ JourneyRow(k) \in Own(u)
                        /\ u.journey[k].event = d
    OBVIOUS
  <2>1. d = r.event
    BY <1>6, <1>12 DEF SessionStates
  <2>2. provider'.link[<<j, r.step>>] = "paid"
    BY <2>1
  <2>3. u.journey[j] = n
    BY <1>6, <1>12, <1>17 DEF SessionStates
  <2>4. u.journey[j].event = d
    BY <1>2, <2>1, <2>3
  <2> QED BY <1>6, <1>11, <1>16, <2>2, <2>4
<1>21. Continues(u, w, saved, provider', world.created)
  BY <1>6, <1>12, <1>16, <1>17, <1>18, <1>19, <1>20 DEF Continues
<1>22. /\ saved \in SavedRows /\ provider \in Providers
       /\ world.created \in Nat /\ world.created <= world.created
  BY DEF SessionsInv, Worlds
<1>23. Sound(u, saved, provider', world.created)
  BY <1>15, <1>16, <1>17, <1>21, <1>22, StaysSound
<1>24. u.phase # "claimed"
       /\ \A t \in Sessions \ {s} : u.dirty \cap session[t].dirty = {}
  BY <1>6, <1>12
<1> QED BY <1>9, <1>10, <1>16, <1>23, <1>24, MovesUnclaimed

\* What the loop does with an answer that is true.
LEMMA Answers ==
    ASSUME SessionsInv, NEW s \in Sessions, NEW j \in Journeys,
           Advancing(s, j), NEW r, r = session[s].journey[j], NEW answer,
           Answered(s, j, r, answer), saved' = saved,
           Grows(provider, provider'),
           answer = "SUCCEEDED" => \/ provider'.order[r.event]
                                   \/ provider'.link[<<j, r.step>>] = "paid",
           world' \in Worlds, world'.created = world.created
    PROVE  SessionsInv'
<1>1. r \in LiveRow
  <2>1. /\ session[s].journey \in [Journeys -> LiveRow \cup {None}]
        /\ session[s].journey[j] # None
    BY DEF SessionsInv, Sound, SessionStates, Advancing, Ready, Phases
  <2> QED BY <2>1
<1>2. CASE answer = "SUCCEEDED"
  <2>1. Book(s, j, r)
    BY <1>2 DEF Answered
  <2>2. provider'.order[r.event] \/ provider'.link[<<j, r.step>>] = "paid"
    BY <1>2
  <2> QED BY <1>1, <2>1, <2>2, Books
<1>3. CASE answer = "FAILED"
  <2>1. PICK n : n = [r EXCEPT !.act = "FAILED"]
    OBVIOUS
  <2>2. n \in LiveRow /\ n.event = session[s].journey[j].event
    BY <1>1, <2>1 DEF LiveRow
  <2>3. NextStepOrClose(s, j, n)
    BY <1>3, <2>1 DEF Answered
  <2> QED BY <2>2, <2>3, NextSteps
<1>4. CASE answer # "SUCCEEDED" /\ answer # "FAILED"
  <2>1. PICK n : n = [r EXCEPT !.state = "VERIFYING", !.act = "EXECUTING"]
    OBVIOUS
  <2>2. n \in LiveRow /\ n.event = r.event
    BY <1>1, <2>1 DEF LiveRow
  <2>3. PICK e : e = session[s].event[r.event]
    OBVIOUS
  <2>4. Becomes(s, Wrote(s, j, n, e)) /\ lock' = lock
    BY <1>4, <2>1, <2>3 DEF Answered
  <2>5. /\ n.event = session[s].journey[j].event
        /\ e \in Status \cup {session[s].event[n.event]}
        /\ e = session[s].event[n.event]
    BY <2>2, <2>3
  <2>6. lock' \in {None, Pending} \cup Journeys
    BY <2>4 DEF SessionsInv
  <2> QED BY <2>2, <2>4, <2>5, <2>6, Writes
<1> QED BY <1>2, <1>3, <1>4

\* Only the phase of a session, what it has to do and what it is about to
\* start may change of it.
LEMMA SameSound ==
    ASSUME NEW v, NEW u \in SessionStates, NEW sv, NEW prov, NEW created,
           Sound(v, sv, prov, created),
           u.event = v.event, u.journey = v.journey, u.dirty = v.dirty,
           u.unflushed = v.unflushed, u.booked = v.booked
    PROVE  Sound(u, sv, prov, created)
<1>1. Own(u) = Own(v)
  BY DEF Own
<1>2. Loaded(u)
  BY <1>1 DEF Sound, Loaded
<1>3. Booked(u, sv.ledger)
  BY DEF Sound, Booked
<1>4. Paid(u, prov)
  BY <1>1 DEF Sound, Paid
<1>5. Agrees(u, sv.journey, created)
  BY DEF Sound, Agrees
<1> QED BY <1>2, <1>3, <1>4, <1>5 DEF Sound

\* The provider answers SUCCEEDED for what was paid.
LEMMA FetchedIsPaid ==
    ASSUME NEW j, NEW r, fetch_state(j, r) = "SUCCEEDED"
    PROVE  provider.order[r.event] \/ provider.link[<<j, r.step>>] = "paid"
BY DEF fetch_state, KeyOf

\* A link that is created, or found, takes nothing away.
LEMMA CreatesLink ==
    ASSUME SessionsInv, NEW k \in Journeys \X Steps, CreateLink(k)
    PROVE  Grows(provider, provider') /\ provider'.order = provider.order
           /\ \A l \in Journeys \X Steps :
                 provider.link[l] = "paid" => provider'.link[l] = "paid"
BY DEF CreateLink, SessionsInv, Providers, Grows

\* The bounds of the model count.
LEMMA Counts ==
    ASSUME SessionsInv,
           \/ UNCHANGED world
           \/ world' = [world EXCEPT !.mishaps = @ + 1]
           \/ world' = [world EXCEPT !.mishaps = @ + 1, !.undone = TRUE]
           \/ world' = [world EXCEPT !.undone = TRUE]
           \/ world' = [world EXCEPT !.overlaps = @ + 1]
           \/ world' = [world EXCEPT !.paid = @ + 1]
    PROVE  world' \in Worlds /\ world'.created = world.created
<1>1. world \in Worlds
  BY DEF SessionsInv
<1>2. PICK n \in Nat : n = world.mishaps + 1
  BY <1>1 DEF Worlds
<1>3. PICK o \in Nat : o = world.overlaps + 1
  BY <1>1 DEF Worlds
<1>4. PICK p \in Nat : p = world.paid + 1
  BY <1>1 DEF Worlds
<1>5. \/ world' = world
      \/ world' = [world EXCEPT !.mishaps = n]
      \/ world' = [world EXCEPT !.mishaps = n, !.undone = TRUE]
      \/ world' = [world EXCEPT !.undone = TRUE]
      \/ world' = [world EXCEPT !.overlaps = o]
      \/ world' = [world EXCEPT !.paid = p]
  BY <1>2, <1>3, <1>4
<1>6. CASE world' = [world EXCEPT !.mishaps = n, !.undone = TRUE]
  BY <1>1, <1>6 DEF Worlds
<1>7. CASE world' = [world EXCEPT !.undone = TRUE]
  BY <1>1, <1>7 DEF Worlds
<1>8. CASE world' = [world EXCEPT !.mishaps = n]
  BY <1>1, <1>8 DEF Worlds
<1>9. CASE world' = [world EXCEPT !.overlaps = o]
  BY <1>1, <1>9 DEF Worlds
<1>10. CASE world' = [world EXCEPT !.paid = p]
  BY <1>1, <1>10 DEF Worlds
<1> QED BY <1>1, <1>5, <1>6, <1>7, <1>8, <1>9, <1>10

-----------------------------------------------------------------------------
(* Every action keeps the invariant.                                       *)

\* A session that has ended has nothing that could be wrong.
LEMMA IdleIsSound ==
    ASSUME NEW sv, NEW prov, NEW created
    PROVE  /\ Sound(Idle, sv, prov, created) /\ Phases(Idle)
           /\ Idle \in SessionStates
           /\ Idle.phase = "idle" /\ Idle.dirty = {}
<1>1. /\ Idle.phase = "idle" /\ Idle.dirty = {} /\ Idle.unflushed = {}
      /\ Idle.event = [e \in Events |-> None]
      /\ Idle.journey = [j \in Journeys |-> None]
      /\ Idle.booked = [e \in Events |-> 0]
  BY DEF Idle
<1>2. Idle \in SessionStates
  <2>1. FALSE \in BOOLEAN
    OBVIOUS
  <2> QED BY <2>1 DEF Idle, SessionStates
<1>3. Loaded(Idle) /\ Phases(Idle)
  BY <1>1 DEF Loaded, Own, Phases
<1>4. Booked(Idle, sv.ledger)
  BY <1>1, SessionsConstants DEF Booked, Status
<1>5. Paid(Idle, prov) /\ Agrees(Idle, sv.journey, created)
  BY <1>1 DEF Paid, Agrees
<1> QED BY <1>1, <1>2, <1>3, <1>4, <1>5 DEF Sound

\* Nothing is wrong before the first cycle.
LEMMA InitHolds == Init => SessionsInv
<1> SUFFICES ASSUME Init PROVE SessionsInv
  OBVIOUS
<1>1. /\ saved.event = [e \in Events |-> "AT_RISK"]
      /\ saved.journey = [j \in Journeys |-> NoRow]
      /\ saved.ledger = [e \in Events |-> 0]
      /\ world.created = 0
  BY DEF Init
<1>2. Idle \in SessionStates
  BY IdleIsSound
<1>3. Sound(Idle, saved, provider, world.created) /\ Phases(Idle)
  BY <1>2, IdleIsSound
<1>4. saved \in SavedRows
  BY DEF Init, SavedRows, Status
<1>5. provider \in Providers
  BY DEF Init, Providers
<1>6. world \in Worlds
  BY DEF Init, Worlds
<1>7. \A s \in Sessions : session[s] = Idle /\ session[s].dirty = {}
                          /\ session[s].phase = "idle"
  BY DEF Init, Idle
<1>8. Claimed = {} /\ Cardinality(Claimed) = 0
  BY <1>7, FS_EmptySet DEF Claimed
<1>9. world.created + Cardinality(Claimed) <= MaxJourneys
  BY <1>1, <1>8, SessionsConstants
<1>10. session \in [Sessions -> SessionStates]
  BY <1>2 DEF Init
<1>11. RecoveredIsBooked /\ BookedIsPaid
  BY <1>1 DEF RecoveredIsBooked, BookedIsPaid
<1>12. lock \in {None, Pending} \cup Journeys
  BY DEF Init
<1> QED BY <1>1, <1>3, <1>4, <1>5, <1>6, <1>7, <1>9, <1>10, <1>11, <1>12
        DEF SessionsInv

\* One lemma for each action.
LEMMA AdvanceBlockedHolds ==
    ASSUME SessionsInv, NEW s \in Sessions, NEW j \in Journeys,
           AdvanceBlocked(s, j)
    PROVE  SessionsInv'
<1>1. PICK r : r = session[s].journey[j]
  OBVIOUS
<1>2. r \in LiveRow
  <2>1. /\ session[s].journey \in [Journeys -> LiveRow \cup {None}]
        /\ session[s].journey[j] # None
    BY DEF AdvanceBlocked, SessionsInv, Sound, SessionStates, Advancing,
           Ready, Phases
  <2> QED BY <1>1, <2>1
<1>3. PICK n : n = [r EXCEPT !.act = "BLOCKED"]
  OBVIOUS
<1>4. n \in LiveRow /\ n.event = session[s].journey[j].event
  BY <1>1, <1>2, <1>3 DEF LiveRow
<1>5. Advancing(s, j) /\ NextStepOrClose(s, j, n) /\ saved' = saved
  BY <1>1, <1>3 DEF AdvanceBlocked
<1>6. Grows(provider, provider')
  BY SameProvider DEF AdvanceBlocked
<1>7. world' \in Worlds /\ world'.created = world.created
  BY DEF AdvanceBlocked, SessionsInv
<1> QED BY <1>4, <1>5, <1>6, <1>7, NextSteps

\* The gateway is called: the key may make a link, and an answer books only
\* what is paid.
LEMMA ExecuteHolds ==
    ASSUME SessionsInv, NEW s \in Sessions, NEW j \in Journeys,
           Execute(s, j) \/ ExecuteFails(s, j)
    PROVE  SessionsInv'
<1>1. PICK r : r = session[s].journey[j]
  OBVIOUS
<1>2. Advancing(s, j) /\ saved' = saved
  BY DEF Execute, ExecuteFails, Executable
<1>3. r \in LiveRow
  <2>1. /\ session[s].journey \in [Journeys -> LiveRow \cup {None}]
        /\ session[s].journey[j] # None
    BY <1>2 DEF SessionsInv, Sound, SessionStates, Advancing, Ready, Phases
  <2> QED BY <1>1, <2>1
<1>4. KeyOf(j, r) \in Journeys \X Steps
  BY <1>3, RowTypes DEF KeyOf
<1>5. Grows(provider, provider')
      /\ (provider.order[r.event] => provider'.order[r.event])
      /\ (provider.link[<<j, r.step>>] = "paid" =>
             provider'.link[<<j, r.step>>] = "paid")
  <2>1. CreateLink(KeyOf(j, r)) \/ provider' = provider
    BY <1>1 DEF Execute, ExecuteFails
  <2>2. CASE CreateLink(KeyOf(j, r))
    BY <1>4, <2>2, CreatesLink DEF KeyOf
  <2>3. CASE provider' = provider
    BY <2>3, SameProvider
  <2> QED BY <2>1, <2>2, <2>3
<1>6. world' \in Worlds /\ world'.created = world.created
  <2>1. UNCHANGED world \/ world' = [world EXCEPT !.mishaps = @ + 1]
    BY DEF Execute, ExecuteFails
  <2> QED BY <2>1, Counts
<1>7. PICK answer : /\ Answered(s, j, r, answer)
                    /\ answer \in {"PENDING", "FAILED", fetch_state(j, r)}
  BY <1>1 DEF Execute, ExecuteFails
<1>8. answer = "SUCCEEDED" => \/ provider'.order[r.event]
                              \/ provider'.link[<<j, r.step>>] = "paid"
  BY <1>5, <1>7, FetchedIsPaid
<1> QED BY <1>1, <1>2, <1>5, <1>6, <1>7, <1>8, Answers

\* The outcome is asked for.
LEMMA VerifyHolds ==
    ASSUME SessionsInv, NEW s \in Sessions, NEW j \in Journeys, Verify(s, j)
    PROVE  SessionsInv'
<1>1. PICK r : r = session[s].journey[j]
  OBVIOUS
<1>2. Advancing(s, j) /\ saved' = saved /\ provider' = provider
      /\ world' = world
  BY DEF Verify
<1>3. Grows(provider, provider')
  BY <1>2, SameProvider
<1>4. world' \in Worlds /\ world'.created = world.created
  BY <1>2 DEF SessionsInv
<1>5. CASE \E answer \in {fetch_state(j, r)} : Answered(s, j, r, answer)
  <2>1. PICK answer : /\ Answered(s, j, r, answer)
                      /\ answer = fetch_state(j, r)
    BY <1>5
  <2>2. answer = "SUCCEEDED" => \/ provider'.order[r.event]
                                \/ provider'.link[<<j, r.step>>] = "paid"
    BY <1>2, <2>1, FetchedIsPaid
  <2> QED BY <1>1, <1>2, <1>3, <1>4, <2>1, <2>2, Answers
<1>6. CASE Becomes(s, [session[s] EXCEPT !.todo = @ \ {j}]) /\ lock' = lock
  <2>1. PICK w : w = session[s]
    OBVIOUS
  <2>2. PICK u : u = [w EXCEPT !.todo = @ \ {j}]
    OBVIOUS
  <2>3. /\ w \in SessionStates /\ Phases(w) /\ w.phase = "tick"
        /\ Sound(w, saved, provider, world.created)
        /\ \A t \in Sessions \ {s} : w.dirty \cap session[t].dirty = {}
    BY <1>2, <2>1 DEF SessionsInv, Sound, Advancing, Ready
  <2>4. /\ u.phase = w.phase /\ u.todo = w.todo \ {j}
        /\ u.event = w.event /\ u.journey = w.journey
        /\ u.dirty = w.dirty /\ u.unflushed = w.unflushed
        /\ u.booked = w.booked
    BY <2>2, <2>3 DEF SessionStates
  <2>5. u \in SessionStates
    BY <2>2, <2>3 DEF SessionStates
  <2>6. Sound(u, saved, provider', world.created)
    BY <1>2, <2>3, <2>4, <2>5, SameSound
  <2>7. Phases(u) /\ u.phase # "claimed"
    BY <2>3, <2>4 DEF Phases
  <2>8. session' = [session EXCEPT ![s] = u]
    BY <1>6, <2>1, <2>2 DEF Becomes
  <2>9. lock' \in {None, Pending} \cup Journeys
    BY <1>6 DEF SessionsInv
  <2>10. \A t \in Sessions \ {s} : u.dirty \cap session[t].dirty = {}
    BY <2>3, <2>4
  <2> QED BY <1>2, <1>3, <1>4, <2>6, <2>7, <2>8, <2>9, <2>10, MovesUnclaimed
<1> QED BY <1>1, <1>5, <1>6 DEF Verify

-----------------------------------------------------------------------------
(* scan, the end of a session, and the customer.                           *)

\* A session writes over rows it has, and gives up what it writes.
LEMMA Rewrites ==
    ASSUME NEW v \in SessionStates, NEW u \in SessionStates,
           NEW sv \in SavedRows, NEW prov \in Providers, NEW created \in Nat,
           Sound(v, sv, prov, created),
           u.dirty = v.dirty, u.unflushed = v.unflushed, u.booked = v.booked,
           \A e \in Events : \/ u.event[e] = v.event[e]
                             \/ u.event[e] \in Status \ {"RECOVERED"},
           \A j \in Journeys :
              \/ u.journey[j] = v.journey[j]
              \/ /\ v.journey[j] \in LiveRow /\ u.journey[j] \in LiveRow
                 /\ u.journey[j].event = v.journey[j].event
    PROVE  Sound(u, sv, prov, created)
<1>1. Own(u) = Own(v)
  BY DEF Own
<1>2. Loaded(u)
  BY <1>1, RowTypes, SessionsConstants DEF Sound, Loaded
<1>3. \A e \in Events : u.event[e] = "RECOVERED" =>
         v.event[e] = "RECOVERED" /\ v.booked[e] <= u.booked[e]
  BY DEF SessionStates
<1>4. Continues(u, v, sv, prov, created)
  BY <1>1, <1>3, RowTypes DEF Continues
<1>5. Grows(prov, prov) /\ created <= created
  BY DEF Grows
<1> QED BY <1>2, <1>4, <1>5, StaysSound

\* A sound session flushes rows it has.
LEMMA FlushesSound ==
    ASSUME SessionsInv, NEW s \in Sessions, NEW v,
           Sound(v, saved, provider, world.created), v.unflushed = {},
           \A t \in Sessions \ {s} : v.dirty \cap session[t].dirty = {},
           NEW rows \in SUBSET Rows,
           \A e \in Events : EventRow(e) \in rows => v.event[e] # None,
           \A j \in Journeys : JourneyRow(j) \in rows => v.journey[j] # None,
           NEW u, u = Flushing(s, v, rows)
    PROVE  /\ Sound(u, saved, provider, world.created)
           /\ u.phase = v.phase /\ u.todo = v.todo
           /\ u.starting = v.starting
           /\ u.event = v.event /\ u.journey = v.journey
           /\ \A t \in Sessions \ {s} : u.dirty \cap session[t].dirty = {}
<1>1. v \in SessionStates
  BY DEF Sound
<1>2. /\ u \in SessionStates
      /\ u.phase = v.phase /\ u.todo = v.todo
      /\ u.starting = v.starting
      /\ u.event = v.event /\ u.journey = v.journey
      /\ u.booked = v.booked
      /\ v.dirty \subseteq u.dirty /\ Own(u) = v.dirty \cup rows
      /\ \A t \in Sessions \ {s} : u.dirty \cap session[t].dirty = {}
  BY <1>1, Flushes
<1>3. Own(v) = v.dirty
  BY DEF Own
<1>4. Loaded(u)
  BY <1>2, <1>3 DEF Sound, Loaded
<1>5. \A e \in Events : v.booked[e] \in Nat
  BY <1>1 DEF SessionStates
<1>6. Continues(u, v, saved, provider, world.created)
  BY <1>2, <1>3, <1>5 DEF Continues
<1>7. /\ saved \in SavedRows /\ provider \in Providers
      /\ world.created \in Nat /\ world.created <= world.created
      /\ Grows(provider, provider)
  BY SameProvider DEF SessionsInv, Worlds
<1> QED BY <1>2, <1>4, <1>6, <1>7, StaysSound

\* What is known of a session before it does anything.
LEMMA SessionFacts ==
    ASSUME SessionsInv, NEW s \in Sessions, NEW w, w = session[s]
    PROVE  /\ w \in SessionStates /\ Loaded(w) /\ Phases(w)
           /\ Sound(w, saved, provider, world.created)
           /\ \A t \in Sessions \ {s} : w.dirty \cap session[t].dirty = {}
           /\ saved \in SavedRows /\ provider \in Providers
           /\ world \in Worlds /\ world.created \in Nat
           /\ lock \in {None, Pending} \cup Journeys
           /\ Grows(provider, provider)
BY SameProvider DEF SessionsInv, Sound, Worlds

\* A session that had to wait writes its rows.
LEMMA FlushHolds ==
    ASSUME SessionsInv, NEW s \in Sessions, Flush(s)
    PROVE  SessionsInv'
<1>1. PICK w : w = session[s]
  OBVIOUS
<1>2. /\ w \in SessionStates /\ Loaded(w) /\ Phases(w)
      /\ Sound(w, saved, provider, world.created)
      /\ \A t \in Sessions \ {s} : w.dirty \cap session[t].dirty = {}
      /\ saved \in SavedRows /\ provider \in Providers
      /\ world \in Worlds /\ world.created \in Nat
      /\ world.created <= world.created
      /\ lock \in {None, Pending} \cup Journeys
      /\ Grows(provider, provider)
  BY <1>1, SessionFacts
<1>3. PICK u : u = [w EXCEPT !.dirty = @ \cup w.unflushed, !.unflushed = {},
                             !.closing = FALSE]
  OBVIOUS
<1>4. /\ w.unflushed # {} /\ w.unflushed \cap Held(s) = {}
      /\ session' = [session EXCEPT ![s] = u]
      /\ saved' = saved /\ provider' = provider /\ world' = world
      /\ lock' \in {None, Pending} \cup Journeys
  BY <1>1, <1>2, <1>3 DEF Flush, Becomes
<1>5. /\ u.phase = w.phase /\ u.todo = w.todo /\ u.starting = w.starting
      /\ u.event = w.event /\ u.journey = w.journey /\ u.booked = w.booked
      /\ u.dirty = w.dirty \cup w.unflushed /\ u.unflushed = {}
  BY <1>2, <1>3 DEF SessionStates
<1>6. u \in SessionStates
  <2>1. FALSE \in BOOLEAN /\ u.dirty \in SUBSET Rows
    BY <1>2, <1>5 DEF SessionStates
  <2> QED BY <1>2, <1>3, <1>5, <2>1 DEF SessionStates
<1>7. Own(u) = Own(w)
  BY <1>5 DEF Own
<1>8. Loaded(u) /\ Phases(u) /\ u.phase # "claimed"
  BY <1>2, <1>4, <1>5, <1>7 DEF Loaded, Phases
<1>9. Continues(u, w, saved, provider, world.created)
  <2>1. \A e \in Events : w.booked[e] \in Nat
    BY <1>2 DEF SessionStates
  <2> QED BY <1>5, <1>7, <2>1 DEF Continues
<1>10. Sound(u, saved, provider, world.created)
  BY <1>2, <1>6, <1>8, <1>9, StaysSound
<1>11. \A t \in Sessions \ {s} : u.dirty \cap session[t].dirty = {}
  BY <1>2, <1>4, <1>5 DEF Held
<1> QED BY <1>2, <1>4, <1>8, <1>10, <1>11, MovesUnclaimed

\* A scan begins, from what is committed by then.
LEMMA BeginScanHolds ==
    ASSUME SessionsInv, NEW s \in Sessions, BeginScan(s)
    PROVE  SessionsInv'
<1>1. PICK w : w = session[s]
  OBVIOUS
<1>2. /\ w \in SessionStates /\ Phases(w)
      /\ \A t \in Sessions \ {s} : w.dirty \cap session[t].dirty = {}
      /\ lock \in {None, Pending} \cup Journeys
      /\ Grows(provider, provider)
  BY <1>1, SessionFacts
<1>3. PICK todo : todo = Unclaimed(s)
  OBVIOUS
<1>4. PICK v : v = [w EXCEPT !.phase = "scan", !.todo = todo]
  OBVIOUS
<1>5. todo \in SUBSET Events
  BY <1>3 DEF Unclaimed
<1>6. v \in SessionStates
  <2>1. todo \in SUBSET (Events \cup Journeys)
    BY <1>5
  <2> QED BY <1>2, <1>4, <2>1 DEF SessionStates
<1>7. /\ v.event = w.event /\ v.journey = w.journey /\ v.dirty = w.dirty
      /\ v.unflushed = w.unflushed /\ v.booked = w.booked
      /\ v.phase = "scan" /\ v.todo = todo
  BY <1>2, <1>4 DEF SessionStates
<1>8. PICK u : u = Load(s, v, todo, {})
  OBVIOUS
<1>9. {} \subseteq OpenIn(s) /\ todo \subseteq Events
  BY <1>5
<1>10. /\ Sound(u, saved, provider, world.created)
       /\ u.phase = v.phase /\ u.todo = v.todo /\ u.dirty = v.dirty
  <2>1. HasCopies(v, s)
    BY <1>1, <1>7 DEF HasCopies
  <2>2. HasLoaded(u, v, s, todo, {})
    BY <1>6, <1>8, <1>9, <2>1, Loads
  <2> QED BY <2>2 DEF HasLoaded
<1>11. Phases(u) /\ u.phase # "claimed"
  BY <1>5, <1>7, <1>10 DEF Phases
<1>12. /\ session' = [session EXCEPT ![s] = u]
       /\ saved' = saved /\ provider' = provider /\ lock' = lock
  BY <1>1, <1>3, <1>4, <1>8 DEF BeginScan, Becomes
<1>13. world' \in Worlds /\ world'.created = world.created
  <2>1. UNCHANGED world \/ world' = [world EXCEPT !.overlaps = @ + 1]
    BY DEF BeginScan, Begins
  <2> QED BY <2>1, Counts
<1>14. \A t \in Sessions \ {s} : u.dirty \cap session[t].dirty = {}
  BY <1>2, <1>7, <1>10
<1> QED BY <1>2, <1>10, <1>11, <1>12, <1>13, <1>14, MovesUnclaimed

\* A tick begins, with copies some of which are older than the scan.
LEMMA BeginTickHolds ==
    ASSUME SessionsInv, NEW s \in Sessions, BeginTick(s)
    PROVE  SessionsInv'
<1>1. PICK w : w = session[s]
  OBVIOUS
<1>2. /\ w \in SessionStates /\ Phases(w)
      /\ \A t \in Sessions \ {s} : w.dirty \cap session[t].dirty = {}
      /\ lock \in {None, Pending} \cup Journeys
      /\ Grows(provider, provider)
  BY <1>1, SessionFacts
<1>3. PICK due \in SUBSET OpenIn(s) :
         Becomes(s, Load(s, [w EXCEPT !.phase = "tick", !.todo = due],
                         EventsOf(s, due), due))
  BY <1>1 DEF BeginTick
<1>4. PICK v : v = [w EXCEPT !.phase = "tick", !.todo = due]
  OBVIOUS
<1>5. due \subseteq Journeys
  BY DEF OpenIn
<1>6. v \in SessionStates
  <2>1. due \in SUBSET (Events \cup Journeys)
    BY <1>5
  <2> QED BY <1>2, <1>4, <2>1 DEF SessionStates
<1>7. /\ v.event = w.event /\ v.journey = w.journey /\ v.dirty = w.dirty
      /\ v.unflushed = w.unflushed /\ v.booked = w.booked
      /\ v.phase = "tick" /\ v.todo = due
  BY <1>2, <1>4 DEF SessionStates
<1>8. PICK es : es = EventsOf(s, due)
  OBVIOUS
<1>9. es \subseteq Events
  BY <1>8, DbRows, RowTypes DEF EventsOf
<1>10. PICK u : u = Load(s, v, es, due)
  OBVIOUS
<1>11. /\ Sound(u, saved, provider, world.created)
       /\ u.phase = v.phase /\ u.todo = v.todo /\ u.dirty = v.dirty
       /\ \A j \in due : u.journey[j] \in LiveRow
  <2>1. HasCopies(v, s)
    BY <1>1, <1>7 DEF HasCopies
  <2>2. due \subseteq OpenIn(s)
    OBVIOUS
  <2>3. HasLoaded(u, v, s, es, due)
    BY <1>6, <1>9, <1>10, <2>1, <2>2, Loads
  <2> QED BY <2>3 DEF HasLoaded
<1>12. Phases(u) /\ u.phase # "claimed"
  BY <1>5, <1>7, <1>11, RowTypes DEF Phases
<1>13. /\ session' = [session EXCEPT ![s] = u]
       /\ saved' = saved /\ provider' = provider /\ lock' = lock
  BY <1>3, <1>4, <1>8, <1>10 DEF BeginTick, Becomes
<1>14. world' \in Worlds /\ world'.created = world.created
  <2>1. UNCHANGED world \/ world' = [world EXCEPT !.overlaps = @ + 1]
    BY DEF BeginTick, Begins
  <2> QED BY <2>1, Counts
<1>15. \A t \in Sessions \ {s} : u.dirty \cap session[t].dirty = {}
  BY <1>2, <1>7, <1>11
<1> QED BY <1>2, <1>11, <1>12, <1>13, <1>14, <1>15, MovesUnclaimed

\* The event a scan has in hand is one.
LEMMA ScannedIsEvent ==
    ASSUME SessionsInv, NEW s \in Sessions,
           session[s].phase \in {"scan", "claimed", "released"},
           session[s].todo # {}
    PROVE  Scanned(s) \in Events /\ Scanned(s) \in session[s].todo
<1>1. session[s].todo \subseteq Events
  BY DEF SessionsInv, Phases
<1>2. session[s].todo \in SUBSET Nat
  BY <1>1 DEF Events
<1>3. Min(session[s].todo) \in session[s].todo
  BY <1>2, MinIsIn
<1> QED BY <1>1, <1>3 DEF Scanned

\* The event is given up.
LEMMA ScanSuppressesHolds ==
    ASSUME SessionsInv, NEW s \in Sessions, ScanSuppresses(s)
    PROVE  SessionsInv'
<1>1. PICK w : w = session[s]
  OBVIOUS
<1>2. /\ w \in SessionStates /\ Phases(w)
      /\ Sound(w, saved, provider, world.created)
      /\ \A t \in Sessions \ {s} : w.dirty \cap session[t].dirty = {}
      /\ saved \in SavedRows /\ provider \in Providers
      /\ world \in Worlds /\ world.created \in Nat
      /\ lock \in {None, Pending} \cup Journeys
      /\ Grows(provider, provider)
  BY <1>1, SessionFacts
<1>3. w.phase = "scan" /\ w.unflushed = {} /\ w.todo \subseteq Events
  BY <1>1, <1>2 DEF ScanSuppresses, Scanning, Ready, Phases
<1>4. PICK e : e = Scanned(s)
  OBVIOUS
<1>5. e \in Events
  BY <1>1, <1>3, <1>4, ScannedIsEvent DEF ScanSuppresses, Scanning
<1>6. PICK v : v = [w EXCEPT !.todo = @ \ {e}, !.event[e] = "SUPPRESSED"]
  OBVIOUS
<1>7. /\ v.phase = "scan" /\ v.todo = w.todo \ {e}
      /\ v.event = [w.event EXCEPT ![e] = "SUPPRESSED"]
      /\ v.journey = w.journey /\ v.dirty = w.dirty
      /\ v.unflushed = w.unflushed /\ v.booked = w.booked
  BY <1>2, <1>3, <1>6 DEF SessionStates
<1>8. v \in SessionStates
  <2>1. v.event \in [Events -> Status \cup {None}]
    BY <1>2, <1>7 DEF SessionStates, Status
  <2>2. v.todo \in SUBSET (Events \cup Journeys)
    BY <1>3, <1>7
  <2> QED BY <1>2, <1>6, <1>7, <2>1, <2>2 DEF SessionStates
<1>9. /\ v.event[e] = "SUPPRESSED"
      /\ \A d \in Events : v.event[d] = w.event[d]
                           \/ v.event[d] \in Status \ {"RECOVERED"}
  BY <1>2, <1>5, <1>7 DEF SessionStates, Status
<1>10. Sound(v, saved, provider, world.created)
  BY <1>2, <1>7, <1>8, <1>9, Rewrites
<1>11. PICK u : u = Flushing(s, v, {EventRow(e)})
  OBVIOUS
<1>12. /\ {EventRow(e)} \in SUBSET Rows
       /\ \A d \in Events : EventRow(d) \in {EventRow(e)} => v.event[d] # None
       /\ \A j \in Journeys : JourneyRow(j) \in {EventRow(e)} =>
                                 v.journey[j] # None
  BY <1>5, <1>9, RowNames, SessionsConstants DEF Status
<1>13. v.unflushed = {}
       /\ \A t \in Sessions \ {s} : v.dirty \cap session[t].dirty = {}
  BY <1>2, <1>3, <1>7
<1>14. /\ Sound(u, saved, provider, world.created)
       /\ u.phase = v.phase /\ u.todo = v.todo
       /\ \A t \in Sessions \ {s} : u.dirty \cap session[t].dirty = {}
  BY <1>10, <1>11, <1>12, <1>13, FlushesSound
<1>15. Phases(u) /\ u.phase # "claimed"
  BY <1>3, <1>7, <1>14 DEF Phases
<1>16. /\ session' = [session EXCEPT ![s] = u]
       /\ saved' = saved /\ provider' = provider /\ lock' = lock
       /\ world' = world
  BY <1>1, <1>4, <1>6, <1>11 DEF ScanSuppresses, Becomes
<1> QED BY <1>2, <1>14, <1>15, <1>16, MovesUnclaimed

\* The event is left alone.
LEMMA ScanDefersHolds ==
    ASSUME SessionsInv, NEW s \in Sessions, ScanDefers(s)
    PROVE  SessionsInv'
<1>1. PICK w : w = session[s]
  OBVIOUS
<1>2. /\ w \in SessionStates /\ Phases(w)
      /\ Sound(w, saved, provider, world.created)
      /\ \A t \in Sessions \ {s} : w.dirty \cap session[t].dirty = {}
      /\ world \in Worlds
      /\ lock \in {None, Pending} \cup Journeys
      /\ Grows(provider, provider)
  BY <1>1, SessionFacts
<1>3. PICK u : u = [w EXCEPT !.todo = @ \ {Scanned(s)}]
  OBVIOUS
<1>4. w.phase = "scan"
  BY <1>1 DEF ScanDefers, Scanning, Ready
<1>5. /\ u.phase = "scan" /\ u.todo = w.todo \ {Scanned(s)}
      /\ u.event = w.event /\ u.journey = w.journey /\ u.dirty = w.dirty
      /\ u.unflushed = w.unflushed /\ u.booked = w.booked
  BY <1>2, <1>3, <1>4 DEF SessionStates
<1>6. u \in SessionStates
  BY <1>2, <1>3 DEF SessionStates
<1>7. Sound(u, saved, provider, world.created)
  BY <1>2, <1>5, <1>6, SameSound
<1>8. Phases(u) /\ u.phase # "claimed"
  BY <1>2, <1>4, <1>5 DEF Phases
<1>9. /\ session' = [session EXCEPT ![s] = u]
      /\ saved' = saved /\ provider' = provider /\ lock' = lock
      /\ world' = world
  BY <1>1, <1>3 DEF ScanDefers, Becomes
<1>10. \A t \in Sessions \ {s} : u.dirty \cap session[t].dirty = {}
  BY <1>2, <1>5
<1> QED BY <1>2, <1>7, <1>8, <1>9, <1>10, MovesUnclaimed

\* The customer is claimed, and a journey will need a number.
LEMMA ClaimCustomerHolds ==
    ASSUME SessionsInv, NEW s \in Sessions, ClaimCustomer(s)
    PROVE  SessionsInv'
<1>1. PICK w : w = session[s]
  OBVIOUS
<1>2. /\ w \in SessionStates /\ Phases(w)
      /\ Sound(w, saved, provider, world.created)
      /\ \A t \in Sessions \ {s} : w.dirty \cap session[t].dirty = {}
      /\ world \in Worlds /\ world.created \in Nat
      /\ Grows(provider, provider)
  BY <1>1, SessionFacts
<1>3. PICK u : u = [w EXCEPT !.phase = "claimed"]
  OBVIOUS
<1>4. w.phase = "scan" /\ w.unflushed = {} /\ w.todo # {}
  BY <1>1 DEF ClaimCustomer, Scanning, Ready
<1>5. /\ u.phase = "claimed" /\ u.todo = w.todo
      /\ u.event = w.event /\ u.journey = w.journey /\ u.dirty = w.dirty
      /\ u.unflushed = w.unflushed /\ u.booked = w.booked
  BY <1>2, <1>3 DEF SessionStates
<1>6. u \in SessionStates
  BY <1>2, <1>3 DEF SessionStates
<1>7. Sound(u, saved, provider, world.created)
  BY <1>2, <1>5, <1>6, SameSound
<1>8. Phases(u)
  BY <1>2, <1>4, <1>5 DEF Phases
<1>9. /\ session' = [session EXCEPT ![s] = u]
      /\ saved' = saved /\ provider' = provider /\ lock' = Pending
      /\ world' = world
  BY <1>1, <1>3 DEF ClaimCustomer, Becomes
<1>10. \A t \in Sessions \ {s} : u.dirty \cap session[t].dirty = {}
  BY <1>2, <1>5
<1>11. world.created + Cardinality(Claimed') <= MaxJourneys
  <2>1. PICK C : C = Claimed
    OBVIOUS
  <2>2. world.created + Cardinality(C) < MaxJourneys
    BY <2>1 DEF ClaimCustomer, Claimed
  <2>3. IsFiniteSet(C)
    BY <2>1, FS_Subset, SessionsConstants DEF Claimed
  <2>4. Cardinality(C) \in Nat
    BY <2>3, FS_CardinalityType
  <2>5. Cardinality(C \cup {s}) = Cardinality(C)
        \/ Cardinality(C \cup {s}) = Cardinality(C) + 1
    BY <2>3, FS_AddElement
  <2>6. Claimed' = C \cup {s}
    BY <1>5, <1>9, <2>1 DEF SessionsInv, Claimed
  <2> QED BY <1>2, <2>2, <2>4, <2>5, <2>6, PlanFacts
<1>12. /\ lock' \in {None, Pending} \cup Journeys
       /\ world'.created = world.created /\ world.created <= world'.created
       /\ world' \in Worlds /\ Grows(provider, provider')
       /\ Sound(u, saved, provider', world'.created)
       /\ world'.created + Cardinality(Claimed') <= MaxJourneys
  BY <1>2, <1>7, <1>9, <1>11
<1> QED BY <1>8, <1>9, <1>10, <1>12, Moves

\* The number a journey gets is new to everyone.
LEMMA StartJourneyHolds ==
    ASSUME SessionsInv, NEW s \in Sessions, StartJourney(s)
    PROVE  SessionsInv'
<1>1. PICK w : w = session[s]
  OBVIOUS
<1>2. /\ w \in SessionStates /\ Phases(w) /\ Loaded(w)
      /\ Sound(w, saved, provider, world.created)
      /\ \A t \in Sessions \ {s} : w.dirty \cap session[t].dirty = {}
      /\ saved \in SavedRows /\ provider \in Providers
      /\ world \in Worlds /\ world.created \in Nat
      /\ Grows(provider, provider)
  BY <1>1, SessionFacts
<1>3. /\ w.phase = "claimed" /\ w.unflushed = {}
      /\ w.todo # {} /\ w.todo \subseteq Events
  BY <1>1, <1>2 DEF StartJourney, Ready, Phases
<1>4. PICK e : e = Scanned(s)
  OBVIOUS
<1>5. e \in Events
  BY <1>1, <1>3, <1>4, ScannedIsEvent
<1>6. PICK j : j = world.created + 1
  OBVIOUS
<1>7. PICK r : r = [event |-> e, state |-> "PLANNED", step |-> 1,
                    act |-> "PLANNED"]
  OBVIOUS
<1>8. r \in LiveRow
  <2>1. 1 \in Steps
    BY PlanFacts
  <2> QED BY <1>5, <1>7, <2>1 DEF LiveRow
<1>9. PICK u : u = [w EXCEPT !.phase = "released", !.starting = j,
                             !.event[e] = "IN_RECOVERY",
                             !.journey[j] = r,
                             !.dirty = @ \cup {JourneyRow(j)}]
  OBVIOUS
<1>10. /\ session' = [session EXCEPT ![s] = u]
       /\ saved' = saved /\ provider' = provider /\ lock' = None
       /\ world' = [world EXCEPT !.created = j]
  BY <1>1, <1>4, <1>6, <1>7, <1>9 DEF StartJourney, Becomes
<1>11. j \in Journeys /\ j \in Nat /\ world.created < j
       /\ j + Cardinality(Claimed') <= MaxJourneys
  <2>1. u.phase # "claimed"
    BY <1>2, <1>9 DEF SessionStates
  <2>2. /\ Cardinality(Claimed) \in Nat /\ Cardinality(Claimed') \in Nat
        /\ Cardinality(Claimed') = Cardinality(Claimed) - 1
    BY <1>1, <1>3, <1>10, <2>1, ClaimsFall
  <2>3. world.created + Cardinality(Claimed) <= MaxJourneys
    BY DEF SessionsInv
  <2> QED BY <1>2, <1>6, <2>2, <2>3, PlanFacts DEF Journeys
<1>12. saved.journey[j] = NoRow
  BY <1>2, <1>11 DEF SessionsInv
<1>13. \A t \in Sessions : /\ session[t].journey[j] = None
                           /\ JourneyRow(j) \notin session[t].dirty
  <2> SUFFICES ASSUME NEW t \in Sessions
               PROVE  /\ session[t].journey[j] = None
                      /\ JourneyRow(j) \notin session[t].dirty
    OBVIOUS
  <2>1. session[t].journey[j] # None => j <= world.created
    BY <1>11 DEF SessionsInv, Sound, Agrees
  <2>2. session[t].journey[j] = None
    BY <1>2, <1>11, <2>1
  <2> QED BY <1>11, <2>2 DEF SessionsInv, Sound, Loaded, Own
<1>14. /\ u.phase = "released" /\ u.todo = w.todo /\ u.starting = j
       /\ u.event = [w.event EXCEPT ![e] = "IN_RECOVERY"]
       /\ u.journey = [w.journey EXCEPT ![j] = r]
       /\ u.dirty = w.dirty \cup {JourneyRow(j)}
       /\ u.unflushed = w.unflushed /\ u.booked = w.booked
  BY <1>2, <1>9 DEF SessionStates
<1>15. u \in SessionStates
  <2>1. u.event \in [Events -> Status \cup {None}]
    BY <1>2, <1>14 DEF SessionStates, Status
  <2>2. u.journey \in [Journeys -> LiveRow \cup {None}]
    BY <1>2, <1>8, <1>14 DEF SessionStates
  <2>3. u.dirty \in SUBSET Rows
    BY <1>2, <1>11, <1>14, RowNames DEF SessionStates
  <2>4. u.starting \in Journeys \cup {None}
    BY <1>11, <1>14
  <2> QED BY <1>2, <1>9, <1>14, <2>1, <2>2, <2>3, <2>4 DEF SessionStates
<1>16. /\ u.event[e] = "IN_RECOVERY"
       /\ \A d \in Events \ {e} : u.event[d] = w.event[d]
       /\ u.journey[j] = r
       /\ \A k \in Journeys \ {j} : u.journey[k] = w.journey[k]
  <2>1. /\ w.event \in [Events -> Status \cup {None}]
        /\ w.journey \in [Journeys -> LiveRow \cup {None}]
    BY <1>2 DEF SessionStates
  <2> QED BY <1>5, <1>11, <1>14, <2>1
<1>17. "IN_RECOVERY" # None /\ r # None
  BY <1>8, RowTypes, SessionsConstants DEF Status
<1>18. Loaded(u)
  <2>1. \A d \in Events : EventRow(d) \in Own(u) => EventRow(d) \in Own(w)
    BY <1>14, RowNames DEF Own
  <2>2. \A k \in Journeys \ {j} : JourneyRow(k) \in Own(u) =>
                                    JourneyRow(k) \in Own(w)
    BY <1>14, RowNames DEF Own
  <2> QED BY <1>2, <1>16, <1>17, <2>1, <2>2 DEF Loaded
<1>19. Phases(u)
  BY <1>1, <1>3, <1>4, <1>11, <1>14, <1>16, <1>17 DEF Phases, Scanned
<1>20. Continues(u, w, saved, provider, j)
  <2>1. w.dirty \subseteq u.dirty /\ Own(w) \subseteq Own(u)
    BY <1>14 DEF Own
  <2>2. \A d \in Events : u.event[d] = "RECOVERED" =>
           w.event[d] = "RECOVERED" /\ w.booked[d] <= u.booked[d]
    BY <1>2, <1>14, <1>16 DEF SessionStates
  <2>3. w.journey[j] = None
    BY <1>1, <1>13
  <2>4. \A k \in Journeys : w.journey[k] # None =>
           u.journey[k] # None /\ u.journey[k].event = w.journey[k].event
    BY <1>16, <2>3
  <2>5. \A k \in Journeys : w.journey[k] = None /\ u.journey[k] # None =>
           /\ k <= j
           /\ IF saved.journey[k] = NoRow THEN JourneyRow(k) \in u.dirty
              ELSE u.journey[k].event = saved.journey[k].event
    BY <1>11, <1>12, <1>14, <1>16
  <2> QED BY <1>14, <2>1, <2>2, <2>4, <2>5 DEF Continues
<1>21. Sound(u, saved, provider, j)
  <2>1. world.created <= j
    BY <1>2, <1>11
  <2> QED BY <1>2, <1>11, <1>15, <1>18, <1>20, <2>1, StaysSound
<1>22. \A t \in Sessions \ {s} : u.dirty \cap session[t].dirty = {}
  BY <1>2, <1>13, <1>14
<1>23. /\ lock' \in {None, Pending} \cup Journeys
       /\ world'.created = j /\ world.created <= world'.created
       /\ world' \in Worlds
  BY <1>2, <1>10, <1>11 DEF Worlds
<1>24. /\ Grows(provider, provider')
       /\ Sound(u, saved, provider', world'.created)
       /\ world'.created + Cardinality(Claimed') <= MaxJourneys
  BY <1>2, <1>10, <1>11, <1>21, <1>23
<1> QED BY <1>10, <1>19, <1>22, <1>23, <1>24, Moves

\* The lock is claimed again and the event written.
LEMMA ReclaimCustomerHolds ==
    ASSUME SessionsInv, NEW s \in Sessions, ReclaimCustomer(s)
    PROVE  SessionsInv'
<1>1. PICK w : w = session[s]
  OBVIOUS
<1>2. /\ w \in SessionStates /\ Phases(w)
      /\ Sound(w, saved, provider, world.created)
      /\ \A t \in Sessions \ {s} : w.dirty \cap session[t].dirty = {}
      /\ world \in Worlds
      /\ lock \in {None, Pending} \cup Journeys
      /\ Grows(provider, provider)
  BY <1>1, SessionFacts
<1>3. PICK e : e = Scanned(s)
  OBVIOUS
<1>4. /\ w.phase = "released" /\ w.unflushed = {}
      /\ w.todo # {} /\ w.todo \subseteq Events
      /\ w.starting \in Journeys /\ w.event[e] # None
  BY <1>1, <1>2, <1>3 DEF ReclaimCustomer, Phases, Scanned
<1>5. e \in Events
  BY <1>1, <1>3, <1>4, ScannedIsEvent
<1>6. PICK v : v = [w EXCEPT !.phase = "scan", !.starting = None,
                             !.todo = @ \ {e}]
  OBVIOUS
<1>7. /\ v.phase = "scan" /\ v.todo = w.todo \ {e}
      /\ v.event = w.event /\ v.journey = w.journey /\ v.dirty = w.dirty
      /\ v.unflushed = w.unflushed /\ v.booked = w.booked
  BY <1>2, <1>6 DEF SessionStates
<1>8. v \in SessionStates
  BY <1>2, <1>6 DEF SessionStates
<1>9. Sound(v, saved, provider, world.created)
  BY <1>2, <1>7, <1>8, SameSound
<1>10. PICK u : u = Flushing(s, v, {EventRow(e)})
  OBVIOUS
<1>11. /\ {EventRow(e)} \in SUBSET Rows
       /\ \A d \in Events : EventRow(d) \in {EventRow(e)} => v.event[d] # None
       /\ \A j \in Journeys : JourneyRow(j) \in {EventRow(e)} =>
                                 v.journey[j] # None
  BY <1>4, <1>5, <1>7, RowNames
<1>12. v.unflushed = {}
       /\ \A t \in Sessions \ {s} : v.dirty \cap session[t].dirty = {}
  BY <1>2, <1>4, <1>7
<1>13. /\ Sound(u, saved, provider, world.created)
       /\ u.phase = v.phase /\ u.todo = v.todo
       /\ \A t \in Sessions \ {s} : u.dirty \cap session[t].dirty = {}
  BY <1>9, <1>10, <1>11, <1>12, FlushesSound
<1>14. Phases(u) /\ u.phase # "claimed"
  BY <1>4, <1>7, <1>13 DEF Phases
<1>15. /\ session' = [session EXCEPT ![s] = u]
       /\ saved' = saved /\ provider' = provider /\ world' = world
       /\ lock' \in {None, Pending} \cup Journeys
  BY <1>1, <1>2, <1>3, <1>4, <1>6, <1>10 DEF ReclaimCustomer, Becomes
<1> QED BY <1>2, <1>13, <1>14, <1>15, MovesUnclaimed

\* A journey is closed without having been in hand.
LEMMA ExpireHolds ==
    ASSUME SessionsInv, NEW s \in Sessions, NEW j \in Journeys, Expire(s, j)
    PROVE  SessionsInv'
<1>1. PICK w : w = session[s]
  OBVIOUS
<1>2. /\ w \in SessionStates
      /\ \A t \in Sessions \ {s} : w.dirty \cap session[t].dirty = {}
      /\ saved \in SavedRows /\ provider \in Providers
      /\ world \in Worlds /\ world.created \in Nat
      /\ Grows(provider, provider)
  BY <1>1, SessionFacts
<1>3. w.phase = "tick" /\ w.todo = {} /\ w.unflushed = {} /\ j \in OpenIn(s)
  BY <1>1 DEF Expire, Ready
<1>4. PICK es : es = {DbJourney(s, j).event}
  OBVIOUS
<1>5. es \subseteq Events /\ {j} \subseteq OpenIn(s)
  BY <1>3, <1>4, DbRows, RowTypes
<1>6. PICK v : v = Load(s, w, es, {j})
  OBVIOUS
<1>7. HasLoaded(v, w, s, es, {j})
  <2>1. HasCopies(w, s)
    BY <1>1 DEF HasCopies
  <2> QED BY <1>2, <1>5, <1>6, <2>1, Loads
<1>8. /\ Sound(v, saved, provider, world.created) /\ v \in SessionStates
      /\ v.phase = "tick" /\ v.todo = {} /\ v.dirty = w.dirty
      /\ v.unflushed = {} /\ v.journey[j] \in LiveRow
  BY <1>3, <1>7 DEF HasLoaded, Sound
<1>9. PICK r : r = v.journey[j]
  OBVIOUS
<1>10. r.event \in Events /\ r \in LiveRow
  BY <1>8, <1>9, RowTypes
<1>11. PICK x : x = [v EXCEPT !.journey[j].state = "CLOSED",
                              !.event[r.event] = "LOST"]
  OBVIOUS
<1>12. PICK n : n = [r EXCEPT !.state = "CLOSED"]
  OBVIOUS
<1>13. n \in LiveRow /\ n.event = r.event
  BY <1>10, <1>12 DEF LiveRow
<1>14. /\ v.event \in [Events -> Status \cup {None}]
       /\ v.journey \in [Journeys -> LiveRow \cup {None}]
  BY <1>8 DEF SessionStates
<1>15. /\ x.phase = "tick" /\ x.todo = {} /\ x.dirty = v.dirty
       /\ x.unflushed = {} /\ x.booked = v.booked
       /\ x.event = [v.event EXCEPT ![r.event] = "LOST"]
       /\ x.journey = [v.journey EXCEPT ![j] = n]
  BY <1>8, <1>9, <1>11, <1>12, <1>14 DEF SessionStates
<1>16. x \in SessionStates
  <2>1. x.event \in [Events -> Status \cup {None}]
    BY <1>14, <1>15 DEF Status
  <2>2. x.journey \in [Journeys -> LiveRow \cup {None}]
    BY <1>13, <1>14, <1>15
  <2> QED BY <1>8, <1>11, <1>15, <2>1, <2>2 DEF SessionStates
<1>17. /\ x.event[r.event] = "LOST"
       /\ \A d \in Events : x.event[d] = v.event[d]
                            \/ x.event[d] \in Status \ {"RECOVERED"}
       /\ x.journey[j] = n
       /\ \A k \in Journeys \ {j} : x.journey[k] = v.journey[k]
  BY <1>10, <1>14, <1>15 DEF Status
<1>18. \A k \in Journeys :
          \/ x.journey[k] = v.journey[k]
          \/ /\ v.journey[k] \in LiveRow /\ x.journey[k] \in LiveRow
             /\ x.journey[k].event = v.journey[k].event
  BY <1>9, <1>10, <1>13, <1>17
<1>19. Sound(x, saved, provider, world.created)
  BY <1>2, <1>8, <1>15, <1>16, <1>17, <1>18, Rewrites
<1>20. PICK rows : rows = {JourneyRow(j), EventRow(r.event)}
  OBVIOUS
<1>21. PICK u : u = Flushing(s, x, rows)
  OBVIOUS
<1>22. "LOST" # None /\ n # None
  BY <1>13, RowTypes, SessionsConstants DEF Status
<1>23. /\ rows \in SUBSET Rows
       /\ \A d \in Events : EventRow(d) \in rows => x.event[d] # None
       /\ \A k \in Journeys : JourneyRow(k) \in rows => x.journey[k] # None
  BY <1>10, <1>17, <1>20, <1>22, RowNames
<1>24. x.unflushed = {}
       /\ \A t \in Sessions \ {s} : x.dirty \cap session[t].dirty = {}
  BY <1>2, <1>8, <1>15
<1>25. /\ Sound(u, saved, provider, world.created)
       /\ u.phase = x.phase /\ u.todo = x.todo
       /\ \A t \in Sessions \ {s} : u.dirty \cap session[t].dirty = {}
  BY <1>19, <1>21, <1>23, <1>24, FlushesSound
<1>26. Phases(u) /\ u.phase # "claimed"
  BY <1>15, <1>25 DEF Phases
<1>27. /\ session' = [session EXCEPT ![s] = u]
       /\ saved' = saved /\ provider' = provider /\ lock' = None
       /\ world' = [world EXCEPT !.mishaps = @ + 1]
  BY <1>1, <1>4, <1>6, <1>9, <1>11, <1>20, <1>21 DEF Expire, Becomes
<1>28. world' \in Worlds /\ world'.created = world.created
  BY <1>27, Counts
<1> QED BY <1>2, <1>25, <1>26, <1>27, <1>28, MovesUnclaimed

\* A session forgets all it had.
LEMMA RollbackHolds ==
    ASSUME SessionsInv, NEW s \in Sessions, Rollback(s)
    PROVE  SessionsInv'
<1>1. /\ session' = [session EXCEPT ![s] = Idle]
      /\ saved' = saved /\ provider' = provider /\ lock' = lock
  BY DEF Rollback, Becomes
<1>2. world' \in Worlds /\ world'.created = world.created
  <2>1. \/ world' = [world EXCEPT !.mishaps = @ + 1, !.undone = TRUE]
        \/ world' = [world EXCEPT !.undone = TRUE]
    BY DEF Rollback
  <2> QED BY <2>1, Counts
<1>3. Grows(provider, provider') /\ lock' \in {None, Pending} \cup Journeys
  BY <1>1, SameProvider DEF SessionsInv
<1>4. /\ Sound(Idle, saved, provider', world.created) /\ Phases(Idle)
      /\ Idle.phase # "claimed"
      /\ \A t \in Sessions \ {s} : Idle.dirty \cap session[t].dirty = {}
  BY IdleIsSound
<1> QED BY <1>1, <1>2, <1>3, <1>4, MovesUnclaimed

\* What a session booked is paid by what it commits, and the rows it commits
\* have the events the others know them by.
LEMMA CommitHolds ==
    ASSUME SessionsInv, NEW s \in Sessions, Commit(s)
    PROVE  SessionsInv'
<1>1. PICK w : w = session[s]
  OBVIOUS
<1>2. /\ w \in SessionStates /\ Loaded(w)
      /\ Sound(w, saved, provider, world.created)
      /\ Booked(w, saved.ledger) /\ Paid(w, provider)
      /\ Agrees(w, saved.journey, world.created)
      /\ \A t \in Sessions \ {s} : w.dirty \cap session[t].dirty = {}
      /\ saved \in SavedRows /\ provider \in Providers
      /\ world \in Worlds /\ world.created \in Nat
      /\ lock \in {None, Pending} \cup Journeys
  BY <1>1, SessionFacts DEF Sound
<1>3. /\ session' = [session EXCEPT ![s] = Idle]
      /\ lock' = lock /\ provider' = provider /\ world' = world
      /\ w.unflushed = {}
  BY <1>1 DEF Commit, Becomes, Ready
<1>4. /\ session'[s] = Idle
      /\ \A t \in Sessions \ {s} : session'[t] = session[t]
      /\ session' \in [Sessions -> SessionStates]
  BY <1>3, IdleIsSound DEF SessionsInv
<1>5. /\ saved.event \in [Events -> Status]
      /\ saved.journey \in [Journeys -> LiveRow \cup {NoRow}]
      /\ saved.ledger \in [Events -> Nat]
      /\ w.event \in [Events -> Status \cup {None}]
      /\ w.journey \in [Journeys -> LiveRow \cup {None}]
      /\ w.booked \in [Events -> Nat]
  BY <1>2 DEF SavedRows, SessionStates
<1>6. /\ saved'.event = [e \in Events |-> IF EventRow(e) \in w.dirty
                                          THEN w.event[e] ELSE saved.event[e]]
      /\ saved'.journey = [j \in Journeys |-> IF JourneyRow(j) \in w.dirty
                                              THEN w.journey[j]
                                              ELSE saved.journey[j]]
      /\ saved'.ledger = [e \in Events |-> saved.ledger[e] + w.booked[e]]
  BY <1>1 DEF Commit, DbJourney
<1>7. /\ \A e \in Events : EventRow(e) \in w.dirty => w.event[e] # None
      /\ \A j \in Journeys : JourneyRow(j) \in w.dirty =>
            w.journey[j] # None /\ w.journey[j] \in LiveRow
  BY <1>2, <1>5 DEF Loaded, Own
<1>8. saved' \in SavedRows
  <2>1. saved'.event \in [Events -> Status]
    BY <1>5, <1>6, <1>7
  <2>2. saved'.journey \in [Journeys -> LiveRow \cup {NoRow}]
    BY <1>5, <1>6, <1>7
  <2>3. saved'.ledger \in [Events -> Nat]
    BY <1>5, <1>6
  <2>4. saved' = [event |-> saved'.event, journey |-> saved'.journey,
                  ledger |-> saved'.ledger]
    BY DEF Commit
  <2> QED BY <2>1, <2>2, <2>3, <2>4 DEF SavedRows
<1>9. \A j \in Journeys : saved'.journey[j] # NoRow => j <= world.created
  BY <1>2, <1>6, <1>7 DEF SessionsInv, Agrees
<1>10. \A j \in Journeys : saved.journey[j] # NoRow =>
          /\ saved'.journey[j] # NoRow
          /\ saved'.journey[j].event = saved.journey[j].event
  BY <1>2, <1>6, <1>7, RowTypes DEF Agrees
<1>11. \A j \in Journeys : saved.journey[j] = NoRow
                           /\ JourneyRow(j) \notin w.dirty =>
          saved'.journey[j] = NoRow
  BY <1>6
<1>12. \A e \in Events : saved.ledger[e] <= saved'.ledger[e]
  BY <1>5, <1>6
<1>13. ASSUME NEW t \in Sessions
       PROVE  /\ Sound(session'[t], saved', provider', world'.created)
              /\ Phases(session'[t])
  <2>1. CASE t = s
    BY <1>4, <2>1, IdleIsSound
  <2>2. CASE t # s
    <3>1. PICK v : v = session[t]
      OBVIOUS
    <3>2. /\ v \in SessionStates /\ Loaded(v) /\ Phases(v)
          /\ Booked(v, saved.ledger) /\ Paid(v, provider)
          /\ Agrees(v, saved.journey, world.created)
          /\ w.dirty \cap v.dirty = {}
      BY <1>2, <2>2, <3>1, SessionFacts DEF Sound
    <3>3. Booked(v, saved'.ledger)
      <4>1. \A e \in Events : /\ saved.ledger[e] \in Nat
                              /\ saved'.ledger[e] \in Nat
                              /\ v.booked[e] \in Nat
        BY <1>5, <1>8, <3>2 DEF SavedRows, SessionStates
      <4> QED BY <1>12, <3>2, <4>1 DEF Booked
    <3>4. Agrees(v, saved'.journey, world.created)
      BY <1>10, <1>11, <3>2 DEF Agrees
    <3>5. Sound(v, saved', provider, world.created)
      BY <3>2, <3>3, <3>4 DEF Sound
    <3> QED BY <1>3, <1>4, <2>2, <3>1, <3>2, <3>5
  <2> QED BY <2>1, <2>2
<1>14. RecoveredIsBooked'
  <2> SUFFICES ASSUME NEW e \in Events, saved'.event[e] = "RECOVERED"
               PROVE  saved'.ledger[e] > 0
    BY DEF RecoveredIsBooked
  <2>1. saved'.ledger[e] = saved.ledger[e] + w.booked[e]
        /\ saved.ledger[e] \in Nat /\ w.booked[e] \in Nat
    BY <1>5, <1>6
  <2>2. CASE EventRow(e) \in w.dirty
    <3>1. w.event[e] = "RECOVERED"
      BY <1>6, <2>2
    <3> QED BY <1>2, <2>1, <3>1 DEF Booked
  <2>3. CASE EventRow(e) \notin w.dirty
    <3>1. saved.event[e] = "RECOVERED"
      BY <1>6, <2>3
    <3>2. saved.ledger[e] > 0
      BY <3>1 DEF SessionsInv, RecoveredIsBooked
    <3> QED BY <2>1, <3>2
  <2> QED BY <2>2, <2>3
<1>15. BookedIsPaid'
  <2> SUFFICES ASSUME NEW e \in Events, saved'.ledger[e] > 0,
                      ~provider.order[e]
               PROVE  \E j \in Journeys, i \in Steps :
                        /\ saved'.journey[j].event = e
                        /\ provider.link[<<j, i>>] = "paid"
    BY <1>3 DEF BookedIsPaid, PaidFor
  <2>1. saved'.ledger[e] = saved.ledger[e] + w.booked[e]
        /\ saved.ledger[e] \in Nat /\ w.booked[e] \in Nat
    BY <1>5, <1>6
  <2>2. CASE w.booked[e] > 0
    <3>1. PICK j \in Journeys, i \in Steps :
             /\ provider.link[<<j, i>>] = "paid"
             /\ JourneyRow(j) \in Own(w)
             /\ w.journey[j].event = e
      BY <1>2, <2>2 DEF Paid
    <3>2. JourneyRow(j) \in w.dirty
      BY <1>3, <3>1 DEF Own
    <3>3. saved'.journey[j].event = e
      BY <1>6, <3>1, <3>2
    <3> QED BY <3>1, <3>3
  <2>3. CASE saved.ledger[e] > 0
    <3>1. PICK j \in Journeys, i \in Steps :
             saved.journey[j].event = e /\ provider.link[<<j, i>>] = "paid"
      BY <2>3 DEF SessionsInv, BookedIsPaid, PaidFor
    <3>2. saved.journey[j] # NoRow
      BY <3>1, SessionsConstants DEF NoRow
    <3> QED BY <1>10, <3>1, <3>2
  <2> QED BY <2>1, <2>2, <2>3
<1>16. world'.created + Cardinality(Claimed') <= MaxJourneys
  <2>1. /\ Cardinality(Claimed) \in Nat /\ Cardinality(Claimed') \in Nat
        /\ Cardinality(Claimed') <= Cardinality(Claimed)
    BY <1>3, ClaimsFall, IdleIsSound
  <2>2. world.created + Cardinality(Claimed) <= MaxJourneys
    BY DEF SessionsInv
  <2> QED BY <1>2, <1>3, <2>1, <2>2, PlanFacts
<1>17. \A t, x \in Sessions : t # x =>
          session'[t].dirty \cap session'[x].dirty = {}
  BY <1>4, IdleIsSound DEF SessionsInv
<1> QED BY <1>2, <1>3, <1>4, <1>8, <1>9, <1>13, <1>14, <1>15, <1>16, <1>17
        DEF SessionsInv

\* The customer pays, whoever is at work.
LEMMA PaysHolds ==
    ASSUME SessionsInv,
           \/ \E k \in Journeys \X Steps : CustomerPaysLink(k)
           \/ \E e \in Events : CustomerPaysOrder(e)
    PROVE  SessionsInv'
<1>1. saved' = saved /\ session' = session /\ lock' = lock
  BY DEF CustomerPaysLink, CustomerPaysOrder
<1>2. world' = [world EXCEPT !.paid = @ + 1]
  BY DEF CustomerPaysLink, CustomerPaysOrder
<1>3. /\ world' \in Worlds /\ world'.created = world.created
      /\ world'.created \in Nat /\ world.created <= world'.created
  BY <1>2, Counts DEF Worlds
<1>4. Grows(provider, provider')
  <2>1. CASE \E k \in Journeys \X Steps : CustomerPaysLink(k)
    BY <2>1 DEF CustomerPaysLink, SessionsInv, Providers, Grows
  <2>2. CASE \E e \in Events : CustomerPaysOrder(e)
    <3>1. PICK e \in Events : provider' = [provider EXCEPT !.order[e] = TRUE]
      BY <2>2 DEF CustomerPaysOrder
    <3>2. TRUE \in BOOLEAN /\ provider \in Providers
      BY DEF SessionsInv
    <3>3. /\ provider'.order = [provider.order EXCEPT ![e] = TRUE]
          /\ provider'.link = provider.link
          /\ provider' = [link |-> provider'.link, order |-> provider'.order]
      BY <3>1, <3>2 DEF Providers
    <3>4. provider'.order \in [Events -> BOOLEAN]
          /\ \A d \in Events : provider.order[d] => provider'.order[d]
      BY <3>2, <3>3 DEF Providers
    <3>5. provider' \in Providers
      BY <3>2, <3>3, <3>4 DEF Providers
    <3> QED BY <3>3, <3>4, <3>5 DEF Grows
  <2> QED BY <2>1, <2>2
<1>5. \A t \in Sessions : /\ Sound(session[t], saved, provider', world'.created)
                          /\ Phases(session[t])
  BY <1>3, <1>4, StillSound
<1>6. BookedIsPaid' /\ provider' \in Providers
  BY <1>1, <1>4, StillPaid DEF Grows
<1>7. RecoveredIsBooked' /\ Claimed' = Claimed
  BY <1>1 DEF SessionsInv, RecoveredIsBooked, Claimed
<1> QED BY <1>1, <1>3, <1>5, <1>6, <1>7 DEF SessionsInv

\* Every step keeps the invariant.
LEMMA NextHolds == SessionsInv /\ [Next]_vars => SessionsInv'
<1> SUFFICES ASSUME SessionsInv, [Next]_vars PROVE SessionsInv'
  OBVIOUS
<1>1. CASE UNCHANGED vars
  BY <1>1 DEF vars, SessionsInv, RecoveredIsBooked, BookedIsPaid, PaidFor,
              Claimed
<1>2. ASSUME NEW s \in Sessions, NEW j \in Journeys,
             \/ AdvanceBlocked(s, j) \/ Execute(s, j) \/ ExecuteFails(s, j)
             \/ Verify(s, j) \/ Expire(s, j)
      PROVE  SessionsInv'
  BY <1>2, AdvanceBlockedHolds, ExecuteHolds, VerifyHolds, ExpireHolds
<1>3. ASSUME NEW s \in Sessions,
             \/ Flush(s) \/ BeginScan(s) \/ ScanSuppresses(s) \/ ScanDefers(s)
             \/ ClaimCustomer(s) \/ StartJourney(s) \/ ReclaimCustomer(s)
             \/ BeginTick(s) \/ Commit(s) \/ Rollback(s)
      PROVE  SessionsInv'
  BY <1>3, FlushHolds, BeginScanHolds, ScanSuppressesHolds, ScanDefersHolds,
     ClaimCustomerHolds, StartJourneyHolds, ReclaimCustomerHolds,
     BeginTickHolds, CommitHolds, RollbackHolds
<1> QED BY <1>1, <1>2, <1>3, PaysHolds DEF Next

-----------------------------------------------------------------------------
(* The theorems.                                                           *)

\* Sessions that overlap keep what each of them relies on.
THEOREM SessionsInvariant == Spec => []SessionsInv
<1>1. Init => SessionsInv
  BY InitHolds
<1>2. SessionsInv /\ [Next]_vars => SessionsInv'
  BY NextHolds
<1> QED BY <1>1, <1>2, PTL DEF Spec

\* Rows, sessions, the lock and the provider's keys keep their types, and no
\* row is held by two sessions.
THEOREM SessionsTypeCorrect == Spec => []TypeOK
<1>1. SessionsInv => TypeOK
  <2> SUFFICES ASSUME SessionsInv PROVE TypeOK
    OBVIOUS
  <2>1. /\ saved.event \in [Events -> Status]
        /\ saved.journey \in [Journeys -> Row]
        /\ saved.ledger \in [Events -> Nat]
    <3>1. saved.journey \in [Journeys -> LiveRow \cup {NoRow}]
      BY DEF SessionsInv, SavedRows
    <3>2. saved.journey \in [Journeys -> Row]
      BY <3>1, RowTypes
    <3> QED BY <3>2 DEF SessionsInv, SavedRows
  <2>2. ASSUME NEW s \in Sessions
        PROVE  /\ session[s].phase \in {"idle", "scan", "claimed", "released",
                                        "tick"}
               /\ session[s].event \in [Events -> Status \cup {None}]
               /\ session[s].journey \in [Journeys -> Row \cup {None}]
               /\ session[s].dirty \cup session[s].unflushed \subseteq Rows
               /\ session[s].dirty \cap Held(s) = {}
               /\ session[s].booked \in [Events -> Nat]
    <3>1. PICK v : v = session[s]
      OBVIOUS
    <3>2. v \in SessionStates
      BY <3>1 DEF SessionsInv
    <3>3. v.journey \in [Journeys -> LiveRow \cup {None}]
      BY <3>2 DEF SessionStates
    <3>4. v.journey \in [Journeys -> Row \cup {None}]
      BY <3>3, RowTypes
    <3>5. session[s].dirty \cap Held(s) = {}
      BY DEF SessionsInv, Held
    <3> QED BY <3>1, <3>2, <3>4, <3>5 DEF SessionStates
  <2>3. /\ lock \in {None, Pending} \cup Journeys
        /\ provider.link \in [Journeys \X Steps -> {"none", "open", "paid"}]
        /\ provider.order \in [Events -> BOOLEAN]
    BY DEF SessionsInv, Providers
  <2> QED BY <2>1, <2>2, <2>3 DEF TypeOK
<1> QED BY <1>1, SessionsInvariant, PTL

\* Whatever sessions overlap, wait and are rolled back, and whatever answers
\* of the gateway are lost: money is only booked that the provider has.
THEOREM NothingBookedUnpaid == Spec => []BookedIsPaid
<1>1. SessionsInv => BookedIsPaid
  BY DEF SessionsInv
<1> QED BY <1>1, SessionsInvariant, PTL

\* A committed RECOVERED is in the ledger, although a session writes rows from
\* copies that are stale by then.
THEOREM NothingRecoveredUnbooked == Spec => []RecoveredIsBooked
<1>1. SessionsInv => RecoveredIsBooked
  BY DEF SessionsInv
<1> QED BY <1>1, SessionsInvariant, PTL

=============================================================================

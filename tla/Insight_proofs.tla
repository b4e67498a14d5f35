--------------------------- MODULE Insight_proofs ---------------------------
(***************************************************************************)
(* Proofs about Insight for any number of overlapping sessions, of cells   *)
(* and of scopes.  First the playbook: what a row holds is backed by the   *)
(* outcomes its session knows of.  Then the windows: what the sessions     *)
(* have opened or are about to open counts against the number of sessions. *)
(***************************************************************************)
EXTENDS Insight, FiniteSetTheorems, TLAPS

-----------------------------------------------------------------------------
(* The playbook.                                                           *)

\* What the record of a session can be, by TypeOK.
SessionStates ==
    [at: {"idle", "detected", "tick", "observe"},
     degraded: SUBSET Scopes, open: [Scopes -> 0..MaxWindows],
     cell: Cells \cup {None}, row: StrategyStat \cup {None}]

\* A session that waits for its next cycle holds nothing.
LEMMA IdleFacts ==
    /\ Idle \in SessionStates
    /\ [Idle EXCEPT !.at = "tick"] \in SessionStates
    /\ Idle.at = "idle" /\ Idle.row = None /\ Idle.degraded = {}
    /\ [Idle EXCEPT !.at = "tick"].at = "tick"
    /\ [Idle EXCEPT !.at = "tick"].row = None
<1>1. [c \in Scopes |-> 0] \in [Scopes -> 0..MaxWindows]
  BY InsightConstants
<1> QED BY <1>1 DEF Idle, SessionStates

\* A session moves on and the others stay where they are.
LEMMA SessionMoves ==
    ASSUME TypeOK, NEW s \in Sessions, NEW new \in SessionStates,
           session' = [session EXCEPT ![s] = new],
           new.at = "observe" => new.cell \in Cells
    PROVE  /\ session' \in [Sessions -> SessionStates]
           /\ session'[s] = new
           /\ \A t \in Sessions \ {s} : session'[t] = session[t]
           /\ \A t \in Sessions : session'[t].at = "observe"
                                    => session'[t].cell \in Cells
<1>1. session \in [Sessions -> SessionStates]
  BY DEF TypeOK, SessionStates
<1> QED BY <1>1 DEF TypeOK

\* A row is backed by so many successes and failures.
Backed(row, successes, failures) ==
    row # None =>
        /\ row.alpha = row.successes
        /\ row.successes <= successes
        /\ row.beta <= failures
        /\ row.trials <= successes + failures

\* The outcomes of c that session s has committed or told itself.
KnownSuccesses(s, c) == told[c].successes + pending[s][c].successes
KnownFailures(s, c) == told[c].failures + pending[s][c].failures

CommittedBacked ==
    \A c \in Cells :
        Backed(strategy_stats[c], told[c].successes, told[c].failures)

WrittenBacked ==
    \A s \in Sessions, c \in Cells :
        Backed(written[s][c], KnownSuccesses(s, c), KnownFailures(s, c))

\* What a session has read is backed, and the row is still there to write.
ReadBacked ==
    \A s \in Sessions : session[s].row # None =>
        /\ session[s].at = "observe"
        /\ Row(s, session[s].cell) # None
        /\ Backed(session[s].row, KnownSuccesses(s, session[s].cell),
                  KnownFailures(s, session[s].cell))

LearningInv == TypeOK /\ CommittedBacked /\ WrittenBacked /\ ReadBacked

\* None is no row, so a typed row that is there is a record.
LEMMA RowTypes ==
    ASSUME TypeOK, NEW s \in Sessions, NEW c \in Cells
    PROVE  /\ Row(s, c) \in StrategyStat \cup {None}
           /\ strategy_stats[c] \in StrategyStat \cup {None}
           /\ written[s][c] \in StrategyStat \cup {None}
           /\ session[s].row \in StrategyStat \cup {None}
           /\ told[c].successes \in Nat /\ told[c].failures \in Nat
           /\ pending[s][c].successes \in Nat
           /\ pending[s][c].failures \in Nat
BY DEF TypeOK, Row, Outcomes

LEMMA NoneIsNoRow == None \notin StrategyStat /\ None \notin Scopes
BY InsightConstants

\* observe adds one trial, to the rate and the count of a success or to the
\* failures, on top of the row another statement may have left (learning.py).
LEMMA SucceededFacts ==
    ASSUME NEW row \in StrategyStat, NEW base \in StrategyStat
    PROVE  /\ Succeeded(row, base) \in StrategyStat
           /\ Succeeded(row, base).trials = row.trials + 1
           /\ Succeeded(row, base).successes = row.successes + 1
           /\ Succeeded(row, base).alpha = row.alpha + 1
           /\ Succeeded(row, base).beta = base.beta
<1>1. row.trials \in Nat /\ row.successes \in Nat /\ row.alpha \in Nat
  BY DEF StrategyStat
<1>2. PICK n \in Nat, k \in Nat, a \in Nat :
        n = row.trials + 1 /\ k = row.successes + 1 /\ a = row.alpha + 1
  BY <1>1
<1>3. PICK r : r = [base EXCEPT !.trials = n, !.successes = k, !.alpha = a]
  OBVIOUS
<1>4. r \in StrategyStat
  BY <1>3 DEF StrategyStat
<1>5. /\ r.trials = n /\ r.successes = k /\ r.alpha = a
      /\ r.beta = base.beta
  BY <1>3 DEF StrategyStat
<1>6. r = Succeeded(row, base)
  BY <1>2, <1>3 DEF Succeeded
<1> QED BY <1>2, <1>4, <1>5, <1>6

LEMMA FailedFacts ==
    ASSUME NEW row \in StrategyStat, NEW base \in StrategyStat
    PROVE  /\ Failed(row, base) \in StrategyStat
           /\ Failed(row, base).trials = row.trials + 1
           /\ Failed(row, base).successes = base.successes
           /\ Failed(row, base).alpha = base.alpha
           /\ Failed(row, base).beta = row.beta + 1
<1>1. row.trials \in Nat /\ row.beta \in Nat
  BY DEF StrategyStat
<1>2. PICK n \in Nat, b \in Nat : n = row.trials + 1 /\ b = row.beta + 1
  BY <1>1
<1>3. PICK r : r = [base EXCEPT !.trials = n, !.beta = b]
  OBVIOUS
<1>4. r \in StrategyStat
  BY <1>3 DEF StrategyStat
<1>5. /\ r.trials = n /\ r.beta = b
      /\ r.successes = base.successes /\ r.alpha = base.alpha
  BY <1>3 DEF StrategyStat
<1>6. r = Failed(row, base)
  BY <1>2, <1>3 DEF Failed
<1> QED BY <1>2, <1>4, <1>5, <1>6

\* What is written on top of two backed rows is backed by one outcome more.
LEMMA WritesABackedRow ==
    ASSUME NEW row \in StrategyStat, NEW base \in StrategyStat,
           NEW k \in Nat, NEW f \in Nat, Backed(row, k, f), Backed(base, k, f)
    PROVE  /\ Backed(Succeeded(row, base), k + 1, f)
           /\ Backed(Failed(row, base), k, f + 1)
<1>1. /\ row.alpha = row.successes /\ row.successes <= k
      /\ row.beta <= f /\ row.trials <= k + f
      /\ base.alpha = base.successes /\ base.successes <= k
      /\ base.beta <= f
  BY NoneIsNoRow DEF Backed
<1>2. /\ row.trials \in Nat /\ row.successes \in Nat /\ row.beta \in Nat
      /\ base.successes \in Nat /\ base.beta \in Nat
  BY DEF StrategyStat
<1>3. Backed(Succeeded(row, base), k + 1, f)
  BY <1>1, <1>2, SucceededFacts DEF Backed
<1>4. Backed(Failed(row, base), k, f + 1)
  BY <1>1, <1>2, FailedFacts DEF Backed
<1> QED BY <1>3, <1>4

LEMMA FirstRowIsARow == FirstRow \in StrategyStat
BY DEF FirstRow, StrategyStat

LEMMA LearningHolds == Init => LearningInv
<1> SUFFICES ASSUME Init PROVE LearningInv
  OBVIOUS
<1>1. TypeOK
  <2>1. session \in [Sessions -> SessionStates]
    BY IdleFacts DEF Init
  <2>2. /\ told \in [Cells -> Outcomes]
        /\ pending \in [Sessions -> [Cells -> Outcomes]]
    BY DEF Init, Untold, Outcomes
  <2>3. \A s \in Sessions : session[s].at # "observe"
    BY DEF Init, Idle
  <2> QED BY <2>1, <2>2, <2>3 DEF Init, TypeOK, Unwritten, SessionStates
<1>2. CommittedBacked /\ WrittenBacked
  BY DEF Init, CommittedBacked, WrittenBacked, Backed, Unwritten
<1>3. ReadBacked
  BY DEF Init, ReadBacked, Idle
<1> QED BY <1>1, <1>2, <1>3 DEF LearningInv

\* A step that leaves the playbook alone and what the sessions hold of it.
LEMMA LearningUntouched ==
    ASSUME LearningInv, TypeOK', UNCHANGED learning,
           \A s \in Sessions : session'[s].row # None =>
               /\ session'[s].row = session[s].row
               /\ session'[s].at = session[s].at
               /\ session'[s].cell = session[s].cell
    PROVE  LearningInv'
<1>1. CommittedBacked' /\ WrittenBacked'
  BY DEF LearningInv, CommittedBacked, WrittenBacked, Backed, learning,
         KnownSuccesses, KnownFailures
<1>2. ReadBacked'
  BY DEF LearningInv, ReadBacked, Backed, Row, learning,
         KnownSuccesses, KnownFailures
<1> QED BY <1>1, <1>2 DEF LearningInv

LEMMA DetectLearns ==
    ASSUME LearningInv, NEW s \in Sessions, Detect(s)
    PROVE  LearningInv'
<1>1. PICK open \in [Scopes -> 0..MaxWindows] :
         session' = [session EXCEPT
            ![s] = [Idle EXCEPT !.at = "detected", !.degraded = detect,
                                !.open = open]]
  BY DEF Detect
<1>2. detect \subseteq Scopes
  BY DEF detect
<1> DEFINE new == [Idle EXCEPT !.at = "detected", !.degraded = detect,
                            !.open = open]
<1>3. new \in SessionStates /\ new.at = "detected" /\ new.row = None
  BY <1>2, IdleFacts DEF SessionStates
<1>4. session' = [session EXCEPT ![s] = new]
  BY <1>1
<1> HIDE DEF new
<1>5. /\ session' \in [Sessions -> SessionStates]
      /\ session'[s] = new
      /\ \A t \in Sessions \ {s} : session'[t] = session[t]
      /\ \A t \in Sessions : session'[t].at = "observe"
                               => session'[t].cell \in Cells
  BY <1>3, <1>4, SessionMoves DEF LearningInv
<1>6. TypeOK'
  BY <1>5 DEF LearningInv, TypeOK, Detect, learning, degradation,
              SessionStates
<1> QED BY <1>3, <1>5, <1>6, LearningUntouched DEF Detect

LEMMA ReconcileLearns ==
    ASSUME LearningInv, NEW s \in Sessions, Reconcile(s)
    PROVE  LearningInv'
<1>1. session' = [session EXCEPT ![s] = [Idle EXCEPT !.at = "tick"]]
  BY DEF Reconcile
<1>2. /\ session'[s].row = None
      /\ session'[s].at = "tick"
      /\ \A t \in Sessions \ {s} : session'[t] = session[t]
  BY <1>1, IdleFacts DEF LearningInv, TypeOK
<1>3. session' \in [Sessions -> SessionStates]
  BY <1>1, IdleFacts DEF LearningInv, TypeOK, SessionStates
<1>4. PICK new \in [Opens(s) -> {w \in 1..MaxWindows : windows[w] = None}] :
         /\ opened' = [opened EXCEPT ![s] = @ \cup {new[c] : c \in Opens(s)}]
         /\ windows' = [w \in 1..MaxWindows |->
                IF \E c \in Opens(s) : new[c] = w
                THEN CHOOSE c \in Opens(s) : new[c] = w ELSE windows[w]]
  BY DEF Reconcile
<1>5. Opens(s) \subseteq Scopes
  BY DEF LearningInv, TypeOK, Opens
<1>6. Resolves(s) \subseteq 1..MaxWindows /\ Rewrites(s) \subseteq 1..MaxWindows
  BY InsightConstants DEF LearningInv, TypeOK, Resolves, Rewrites
<1>7. windows' \in [1..MaxWindows -> Scopes \cup {None}]
  BY <1>4, <1>5 DEF LearningInv, TypeOK
<1>8. /\ opened' \in [Sessions -> SUBSET (1..MaxWindows)]
      /\ touched' \in [Sessions -> SUBSET (1..MaxWindows)]
      /\ resolved' \in [Sessions -> SUBSET (1..MaxWindows)]
  BY <1>4, <1>6 DEF LearningInv, TypeOK, Reconcile
<1>9. \A t \in Sessions : session'[t].at = "observe" => session'[t].cell \in Cells
  BY <1>2 DEF LearningInv, TypeOK
<1>10. TypeOK'
  BY <1>3, <1>7, <1>8, <1>9 DEF LearningInv, TypeOK, Reconcile, learning,
                                SessionStates
<1> QED BY <1>2, <1>10, LearningUntouched DEF Reconcile

LEMMA TickOnlyLearns ==
    ASSUME LearningInv, NEW s \in Sessions, TickOnly(s)
    PROVE  LearningInv'
<1> DEFINE new == [session[s] EXCEPT !.at = "tick"]
<1>1. session[s].row = None
  BY DEF LearningInv, ReadBacked, TickOnly
<1>2. session[s] \in SessionStates
  BY DEF LearningInv, TypeOK, SessionStates
<1>3. new \in SessionStates /\ new.at = "tick" /\ new.row = None
  BY <1>1, <1>2 DEF SessionStates
<1>4. session' = [session EXCEPT ![s] = new]
  BY DEF TickOnly
<1> HIDE DEF new
<1>5. /\ session' \in [Sessions -> SessionStates]
      /\ session'[s] = new
      /\ \A t \in Sessions \ {s} : session'[t] = session[t]
      /\ \A t \in Sessions : session'[t].at = "observe"
                               => session'[t].cell \in Cells
  BY <1>3, <1>4, SessionMoves DEF LearningInv
<1>6. TypeOK'
  BY <1>5 DEF LearningInv, TypeOK, TickOnly, learning, degradation,
              SessionStates
<1> QED BY <1>3, <1>5, <1>6, LearningUntouched DEF TickOnly

\* The row a session sees, its own or the committed one, is backed by what it
\* knows of.
LEMMA RowIsBacked ==
    ASSUME LearningInv, NEW s \in Sessions, NEW c \in Cells
    PROVE  Backed(Row(s, c), KnownSuccesses(s, c), KnownFailures(s, c))
<1>1. CASE written[s][c] # None
  BY <1>1 DEF Row, LearningInv, WrittenBacked
<1>2. CASE written[s][c] = None
  <2>1. /\ told[c].successes \in Nat /\ told[c].failures \in Nat
        /\ pending[s][c].successes \in Nat
        /\ pending[s][c].failures \in Nat
        /\ strategy_stats[c] \in StrategyStat \cup {None}
    BY RowTypes DEF LearningInv
  <2>2. Backed(strategy_stats[c], told[c].successes, told[c].failures)
    BY DEF LearningInv, CommittedBacked
  <2>3. Backed(strategy_stats[c], KnownSuccesses(s, c), KnownFailures(s, c))
    BY <2>1, <2>2 DEF Backed, KnownSuccesses, KnownFailures, StrategyStat
  <2> QED BY <1>2, <2>3 DEF Row
<1> QED BY <1>1, <1>2

LEMMA ObserveReadsLearns ==
    ASSUME LearningInv, NEW s \in Sessions, NEW c \in Cells, ObserveReads(s, c)
    PROVE  LearningInv'
<1> DEFINE new == [session[s] EXCEPT !.at = "observe", !.cell = c,
                                     !.row = Row(s, c)]
<1>1. Row(s, c) \in StrategyStat \cup {None}
  BY RowTypes DEF LearningInv
<1>2. session[s] \in SessionStates
  BY DEF LearningInv, TypeOK, SessionStates
<1>3. /\ new \in SessionStates /\ new.at = "observe"
      /\ new.cell = c /\ new.row = Row(s, c)
  BY <1>1, <1>2 DEF SessionStates
<1>4. session' = [session EXCEPT ![s] = new]
  BY DEF ObserveReads
<1> HIDE DEF new
<1>5. /\ session' \in [Sessions -> SessionStates]
      /\ session'[s] = new
      /\ \A t \in Sessions \ {s} : session'[t] = session[t]
      /\ \A t \in Sessions : session'[t].at = "observe"
                               => session'[t].cell \in Cells
  BY <1>3, <1>4, SessionMoves DEF LearningInv
<1>6. TypeOK'
  BY <1>5 DEF LearningInv, TypeOK, ObserveReads, learning, degradation,
              SessionStates
<1>7. CommittedBacked' /\ WrittenBacked'
  BY DEF LearningInv, CommittedBacked, WrittenBacked, Backed, ObserveReads,
         learning, KnownSuccesses, KnownFailures
<1>8. Backed(Row(s, c), KnownSuccesses(s, c), KnownFailures(s, c))
  BY RowIsBacked
<1>9. ReadBacked'
  <2> SUFFICES ASSUME NEW t \in Sessions, session'[t].row # None
               PROVE  /\ session'[t].at = "observe"
                      /\ Row(t, session[t].cell)' # None
                      /\ Backed(session[t].row, KnownSuccesses(t, session[t].cell),
                                KnownFailures(t, session[t].cell))'
    BY DEF ReadBacked
  <2>1. CASE t = s
    BY <1>3, <1>5, <1>8, <2>1 DEF ObserveReads, learning, Row, Backed,
          KnownSuccesses, KnownFailures
  <2>2. CASE t # s
    BY <1>5, <2>2 DEF LearningInv, ReadBacked, ObserveReads, learning, Row,
          Backed, KnownSuccesses, KnownFailures
  <2> QED BY <2>1, <2>2
<1> QED BY <1>6, <1>7, <1>9 DEF LearningInv

\* The row the flush of observe starts from, and the one it changes.
LEMMA WritesOnBackedRows ==
    ASSUME LearningInv, NEW s \in Sessions, ObserveWrites(s)
    PROVE  \E c \in Cells, row \in StrategyStat, base \in StrategyStat :
             /\ c = session[s].cell
             /\ Backed(row, KnownSuccesses(s, c), KnownFailures(s, c))
             /\ Backed(base, KnownSuccesses(s, c), KnownFailures(s, c))
             /\ \/ /\ written' = [written EXCEPT ![s][c] = Succeeded(row, base)]
                   /\ pending' = [pending EXCEPT ![s][c].successes = @ + 1]
                \/ /\ written' = [written EXCEPT ![s][c] = Failed(row, base)]
                   /\ pending' = [pending EXCEPT ![s][c].failures = @ + 1]
<1>1. PICK c \in Cells : c = session[s].cell
  BY DEF LearningInv, TypeOK, ObserveWrites
<1>2. PICK row : row = IF session[s].row = None THEN FirstRow
                       ELSE session[s].row
  OBVIOUS
<1>3. PICK base : base = IF session[s].row = None THEN FirstRow ELSE Row(s, c)
  OBVIOUS
<1>4. \/ /\ written' = [written EXCEPT ![s][c] = Succeeded(row, base)]
         /\ pending' = [pending EXCEPT ![s][c].successes = @ + 1]
      \/ /\ written' = [written EXCEPT ![s][c] = Failed(row, base)]
         /\ pending' = [pending EXCEPT ![s][c].failures = @ + 1]
  BY <1>1, <1>2, <1>3 DEF ObserveWrites
<1>5. /\ row \in StrategyStat /\ base \in StrategyStat
      /\ Backed(row, KnownSuccesses(s, c), KnownFailures(s, c))
      /\ Backed(base, KnownSuccesses(s, c), KnownFailures(s, c))
  <2>1. CASE session[s].row = None
    <3>1. row = FirstRow /\ base = FirstRow
      BY <1>2, <1>3, <2>1
    <3>2. KnownSuccesses(s, c) \in Nat /\ KnownFailures(s, c) \in Nat
      BY RowTypes DEF LearningInv, KnownSuccesses, KnownFailures
    <3>3. Backed(FirstRow, KnownSuccesses(s, c), KnownFailures(s, c))
      BY <3>2 DEF Backed, FirstRow
    <3> QED BY <3>1, <3>3, FirstRowIsARow
  <2>2. CASE session[s].row # None
    <3>1. row = session[s].row /\ base = Row(s, c)
      BY <1>2, <1>3, <2>2
    <3>2. /\ Row(s, c) # None
          /\ Backed(row, KnownSuccesses(s, c), KnownFailures(s, c))
      BY <1>1, <2>2, <3>1 DEF LearningInv, ReadBacked
    <3>3. Row(s, c) \in StrategyStat /\ session[s].row \in StrategyStat
      BY <2>2, <3>2, RowTypes DEF LearningInv
    <3> QED BY <3>1, <3>2, <3>3, RowIsBacked
  <2> QED BY <2>1, <2>2
<1> QED BY <1>1, <1>4, <1>5

LEMMA ObserveWritesLearns ==
    ASSUME LearningInv, NEW s \in Sessions, ObserveWrites(s)
    PROVE  LearningInv'
<1>1. PICK c \in Cells, row \in StrategyStat, base \in StrategyStat :
        /\ c = session[s].cell
        /\ Backed(row, KnownSuccesses(s, c), KnownFailures(s, c))
        /\ Backed(base, KnownSuccesses(s, c), KnownFailures(s, c))
        /\ \/ /\ written' = [written EXCEPT ![s][c] = Succeeded(row, base)]
              /\ pending' = [pending EXCEPT ![s][c].successes = @ + 1]
           \/ /\ written' = [written EXCEPT ![s][c] = Failed(row, base)]
              /\ pending' = [pending EXCEPT ![s][c].failures = @ + 1]
  BY WritesOnBackedRows
<1>2. /\ KnownSuccesses(s, c) \in Nat /\ KnownFailures(s, c) \in Nat
      /\ told[c].successes \in Nat /\ told[c].failures \in Nat
      /\ pending[s][c].successes \in Nat /\ pending[s][c].failures \in Nat
      /\ pending[s][c] \in Outcomes
  BY RowTypes DEF LearningInv, KnownSuccesses, KnownFailures, TypeOK
<1>3. \E new \in StrategyStat, heard \in Outcomes :
        /\ written' = [written EXCEPT ![s][c] = new]
        /\ pending' = [pending EXCEPT ![s][c] = heard]
        /\ Backed(new, told[c].successes + heard.successes,
                  told[c].failures + heard.failures)
  <2>1. CASE /\ written' = [written EXCEPT ![s][c] = Succeeded(row, base)]
             /\ pending' = [pending EXCEPT ![s][c].successes = @ + 1]
    <3>1. PICK heard : heard = [pending[s][c] EXCEPT !.successes = @ + 1]
      OBVIOUS
    <3>2. /\ heard \in Outcomes
          /\ heard.successes = pending[s][c].successes + 1
          /\ heard.failures = pending[s][c].failures
      BY <1>2, <3>1 DEF Outcomes
    <3>3. told[c].successes + heard.successes = KnownSuccesses(s, c) + 1
      BY <1>2, <3>2 DEF KnownSuccesses
    <3>4. told[c].failures + heard.failures = KnownFailures(s, c)
      BY <3>2 DEF KnownFailures
    <3>5. Backed(Succeeded(row, base), told[c].successes + heard.successes,
                 told[c].failures + heard.failures)
      BY <1>1, <1>2, <3>3, <3>4, WritesABackedRow
    <3>6. pending' = [pending EXCEPT ![s][c] = heard]
      BY <2>1, <3>1
    <3> QED BY <2>1, <3>2, <3>5, <3>6, SucceededFacts
  <2>2. CASE /\ written' = [written EXCEPT ![s][c] = Failed(row, base)]
             /\ pending' = [pending EXCEPT ![s][c].failures = @ + 1]
    <3>1. PICK heard : heard = [pending[s][c] EXCEPT !.failures = @ + 1]
      OBVIOUS
    <3>2. /\ heard \in Outcomes
          /\ heard.successes = pending[s][c].successes
          /\ heard.failures = pending[s][c].failures + 1
      BY <1>2, <3>1 DEF Outcomes
    <3>3. told[c].successes + heard.successes = KnownSuccesses(s, c)
      BY <3>2 DEF KnownSuccesses
    <3>4. told[c].failures + heard.failures = KnownFailures(s, c) + 1
      BY <1>2, <3>2 DEF KnownFailures
    <3>5. Backed(Failed(row, base), told[c].successes + heard.successes,
                 told[c].failures + heard.failures)
      BY <1>1, <1>2, <3>3, <3>4, WritesABackedRow
    <3>6. pending' = [pending EXCEPT ![s][c] = heard]
      BY <2>2, <3>1
    <3> QED BY <2>2, <3>2, <3>5, <3>6, FailedFacts
  <2> QED BY <1>1, <2>1, <2>2
<1>4. PICK new \in StrategyStat, heard \in Outcomes :
        /\ written' = [written EXCEPT ![s][c] = new]
        /\ pending' = [pending EXCEPT ![s][c] = heard]
        /\ Backed(new, told[c].successes + heard.successes,
                  told[c].failures + heard.failures)
  BY <1>3
<1>5. /\ session' \in [Sessions -> SessionStates]
      /\ session'[s].row = None
      /\ \A t \in Sessions \ {s} : session'[t] = session[t]
      /\ \A t \in Sessions : session'[t].at = "observe"
                               => session'[t].cell \in Cells
  <2>1. session' = [session EXCEPT ![s] = [Idle EXCEPT !.at = "tick"]]
    BY DEF ObserveWrites
  <2> QED BY <2>1, IdleFacts, SessionMoves DEF LearningInv
<1>6. /\ written' \in [Sessions -> [Cells -> StrategyStat \cup {None}]]
      /\ written'[s][c] = new
      /\ \A t \in Sessions, d \in Cells :
            t # s \/ d # c => written'[t][d] = written[t][d]
  BY <1>4 DEF LearningInv, TypeOK
<1>7. /\ pending' \in [Sessions -> [Cells -> Outcomes]]
      /\ pending'[s][c] = heard
      /\ \A t \in Sessions, d \in Cells :
            t # s \/ d # c => pending'[t][d] = pending[t][d]
  BY <1>4 DEF LearningInv, TypeOK
<1>8. told' = told /\ strategy_stats' = strategy_stats
  BY DEF ObserveWrites
<1>9. TypeOK'
  BY <1>5, <1>6, <1>7 DEF LearningInv, TypeOK, ObserveWrites, degradation,
                          SessionStates
<1>10. CommittedBacked'
  BY <1>8 DEF LearningInv, CommittedBacked, Backed
<1>11. WrittenBacked'
  <2> SUFFICES ASSUME NEW t \in Sessions, NEW d \in Cells
               PROVE  Backed(written'[t][d],
                             told'[d].successes + pending'[t][d].successes,
                             told'[d].failures + pending'[t][d].failures)
    BY DEF WrittenBacked, Backed, KnownSuccesses, KnownFailures
  <2>1. CASE t = s /\ d = c
    BY <1>4, <1>6, <1>7, <1>8, <2>1
  <2>2. CASE t # s \/ d # c
    <3>1. Backed(written[t][d], told[d].successes + pending[t][d].successes,
                 told[d].failures + pending[t][d].failures)
      BY DEF LearningInv, WrittenBacked, KnownSuccesses, KnownFailures
    <3> QED BY <1>6, <1>7, <1>8, <2>2, <3>1
  <2> QED BY <2>1, <2>2
<1>12. ReadBacked'
  <2> SUFFICES ASSUME NEW t \in Sessions, session'[t].row # None
               PROVE  /\ session'[t].at = "observe"
                      /\ Row(t, session[t].cell)' # None
                      /\ Backed(session[t].row, KnownSuccesses(t, session[t].cell),
                                KnownFailures(t, session[t].cell))'
    BY DEF ReadBacked
  <2>1. t # s /\ session'[t] = session[t]
    BY <1>5
  <2>2. written'[t] = written[t] /\ pending'[t] = pending[t]
    BY <1>4, <2>1 DEF LearningInv, TypeOK
  <2> QED BY <1>8, <2>1, <2>2 DEF LearningInv, ReadBacked, Row, Backed,
                                  KnownSuccesses, KnownFailures
<1> QED BY <1>9, <1>10, <1>11, <1>12 DEF LearningInv

\* A session that ends holds nothing of the playbook.
LEMMA EndsFacts ==
    ASSUME LearningInv, NEW s \in Sessions, Ends(s)
    PROVE  /\ session' \in [Sessions -> SessionStates]
           /\ session'[s].row = None
           /\ \A t \in Sessions : session'[t].at = "observe"
                                    => session'[t].cell \in Cells
           /\ written'[s] = Unwritten /\ pending'[s] = Untold
           /\ \A t \in Sessions \ {s} : /\ session'[t] = session[t]
                                         /\ written'[t] = written[t]
                                         /\ pending'[t] = pending[t]
           /\ written' \in [Sessions -> [Cells -> StrategyStat \cup {None}]]
           /\ pending' \in [Sessions -> [Cells -> Outcomes]]
           /\ opened' \in [Sessions -> SUBSET (1..MaxWindows)]
           /\ touched' \in [Sessions -> SUBSET (1..MaxWindows)]
           /\ resolved' \in [Sessions -> SUBSET (1..MaxWindows)]
           /\ traffic' = traffic
<1>1. session' = [session EXCEPT ![s] = Idle]
  BY DEF Ends
<1>2. /\ session' \in [Sessions -> SessionStates]
      /\ session'[s] = Idle
      /\ \A t \in Sessions \ {s} : session'[t] = session[t]
      /\ \A t \in Sessions : session'[t].at = "observe"
                               => session'[t].cell \in Cells
  BY <1>1, IdleFacts, SessionMoves DEF LearningInv
<1>3. /\ Unwritten \in [Cells -> StrategyStat \cup {None}]
      /\ Untold \in [Cells -> Outcomes]
  BY DEF Unwritten, Untold, Outcomes
<1>4. /\ written' \in [Sessions -> [Cells -> StrategyStat \cup {None}]]
      /\ pending' \in [Sessions -> [Cells -> Outcomes]]
      /\ written'[s] = Unwritten /\ pending'[s] = Untold
      /\ \A t \in Sessions \ {s} : /\ written'[t] = written[t]
                                    /\ pending'[t] = pending[t]
  BY <1>3 DEF LearningInv, TypeOK, Ends
<1>5. /\ opened' \in [Sessions -> SUBSET (1..MaxWindows)]
      /\ touched' \in [Sessions -> SUBSET (1..MaxWindows)]
      /\ resolved' \in [Sessions -> SUBSET (1..MaxWindows)]
      /\ traffic' = traffic
  BY DEF LearningInv, TypeOK, Ends
<1> QED BY <1>2, <1>4, <1>5, IdleFacts

\* When s ends, the others know no less than they did, and their rows stay as
\* long as the committed rows do not go and the committed outcomes only grow.
LEMMA OthersStayBacked ==
    ASSUME LearningInv, NEW s \in Sessions, Ends(s),
           \A c \in Cells : /\ told'[c] \in Outcomes
                            /\ told[c].successes <= told'[c].successes
                            /\ told[c].failures <= told'[c].failures
                            /\ strategy_stats[c] # None
                                  => strategy_stats'[c] # None
    PROVE  WrittenBacked' /\ ReadBacked'
<1>1. ASSUME NEW t \in Sessions \ {s}, NEW c \in Cells,
             NEW row \in StrategyStat \cup {None},
             Backed(row, KnownSuccesses(t, c), KnownFailures(t, c))
      PROVE  Backed(row, told'[c].successes + pending'[t][c].successes,
                    told'[c].failures + pending'[t][c].failures)
  <2>1. pending'[t] = pending[t]
    BY EndsFacts
  <2>2. /\ told[c].successes \in Nat /\ told[c].failures \in Nat
        /\ pending[t][c].successes \in Nat /\ pending[t][c].failures \in Nat
    BY RowTypes DEF LearningInv
  <2>3. told'[c].successes \in Nat /\ told'[c].failures \in Nat
    BY DEF Outcomes
  <2>4. /\ told[c].successes <= told'[c].successes
        /\ told[c].failures <= told'[c].failures
    OBVIOUS
  <2>5. CASE row = None
    BY <2>5 DEF Backed
  <2>6. CASE row \in StrategyStat
    <3>1. /\ row.successes \in Nat /\ row.beta \in Nat /\ row.trials \in Nat
      BY <2>6 DEF StrategyStat
    <3> QED BY <1>1, <2>1, <2>2, <2>3, <2>4, <3>1
            DEF Backed, KnownSuccesses, KnownFailures
  <2> QED BY <2>5, <2>6
<1>2. WrittenBacked'
  <2> SUFFICES ASSUME NEW t \in Sessions, NEW c \in Cells
               PROVE  Backed(written'[t][c],
                             told'[c].successes + pending'[t][c].successes,
                             told'[c].failures + pending'[t][c].failures)
    BY DEF WrittenBacked, Backed, KnownSuccesses, KnownFailures
  <2>1. CASE t = s
    BY <2>1, EndsFacts DEF Unwritten, Backed
  <2>2. CASE t # s
    <3>1. written'[t] = written[t]
      BY <2>2, EndsFacts
    <3>2. /\ written[t][c] \in StrategyStat \cup {None}
          /\ Backed(written[t][c], KnownSuccesses(t, c), KnownFailures(t, c))
      BY RowTypes DEF LearningInv, WrittenBacked
    <3> QED BY <1>1, <2>2, <3>1, <3>2
  <2> QED BY <2>1, <2>2
<1>3. ReadBacked'
  <2> SUFFICES ASSUME NEW t \in Sessions, session'[t].row # None
               PROVE  /\ session'[t].at = "observe"
                      /\ Row(t, session[t].cell)' # None
                      /\ Backed(session'[t].row,
                            told'[session'[t].cell].successes
                              + pending'[t][session'[t].cell].successes,
                            told'[session'[t].cell].failures
                              + pending'[t][session'[t].cell].failures)
    BY DEF ReadBacked, Backed, KnownSuccesses, KnownFailures
  <2>1. t # s /\ session'[t] = session[t] /\ written'[t] = written[t]
    BY EndsFacts
  <2>2. /\ session[t].at = "observe"
        /\ Row(t, session[t].cell) # None
        /\ Backed(session[t].row, KnownSuccesses(t, session[t].cell),
                  KnownFailures(t, session[t].cell))
    BY <2>1 DEF LearningInv, ReadBacked
  <2>3. PICK c \in Cells : c = session[t].cell
    BY <2>2 DEF LearningInv, TypeOK
  <2>4. session[t].row \in StrategyStat \cup {None}
    BY <2>3, RowTypes DEF LearningInv
  <2>5. Row(t, session[t].cell)' # None
    BY <2>1, <2>2, <2>3 DEF Row
  <2>6. Backed(session[t].row, told'[c].successes + pending'[t][c].successes,
               told'[c].failures + pending'[t][c].failures)
    BY <1>1, <2>1, <2>2, <2>3, <2>4
  <2> QED BY <2>1, <2>2, <2>3, <2>5, <2>6
<1> QED BY <1>2, <1>3

LEMMA CommitLearns ==
    ASSUME LearningInv, NEW s \in Sessions, Commit(s)
    PROVE  LearningInv'
<1>1. Ends(s)
  BY DEF Commit
<1>2. strategy_stats' \in [Cells -> StrategyStat \cup {None}]
  BY RowTypes DEF LearningInv, Commit
<1>3. \A c \in Cells :
        /\ told'[c] \in Outcomes
        /\ told'[c].successes = KnownSuccesses(s, c)
        /\ told'[c].failures = KnownFailures(s, c)
        /\ told[c].successes <= told'[c].successes
        /\ told[c].failures <= told'[c].failures
  <2> SUFFICES ASSUME NEW c \in Cells
               PROVE  /\ told'[c] \in Outcomes
                      /\ told'[c].successes = KnownSuccesses(s, c)
                      /\ told'[c].failures = KnownFailures(s, c)
                      /\ told[c].successes <= told'[c].successes
                      /\ told[c].failures <= told'[c].failures
    OBVIOUS
  <2>1. told'[c] = [successes |-> KnownSuccesses(s, c),
                    failures |-> KnownFailures(s, c)]
    BY DEF Commit, KnownSuccesses, KnownFailures
  <2>2. /\ told[c].successes \in Nat /\ told[c].failures \in Nat
        /\ pending[s][c].successes \in Nat /\ pending[s][c].failures \in Nat
    BY RowTypes DEF LearningInv
  <2>3. KnownSuccesses(s, c) \in Nat /\ KnownFailures(s, c) \in Nat
    BY <2>2 DEF KnownSuccesses, KnownFailures
  <2>4. told'[c] \in Outcomes
    BY <2>1, <2>3 DEF Outcomes
  <2>5. /\ told'[c].successes = KnownSuccesses(s, c)
        /\ told'[c].failures = KnownFailures(s, c)
    BY <2>1
  <2>6. /\ told[c].successes <= KnownSuccesses(s, c)
        /\ told[c].failures <= KnownFailures(s, c)
    BY <2>2 DEF KnownSuccesses, KnownFailures
  <2> QED BY <2>4, <2>5, <2>6
<1>4. told' \in [Cells -> Outcomes]
  <2>1. told' = [c \in Cells |->
          [successes |-> told[c].successes + pending[s][c].successes,
           failures |-> told[c].failures + pending[s][c].failures]]
    BY DEF Commit
  <2> QED BY <1>3, <2>1
<1>5. active' \subseteq 1..MaxWindows
  BY DEF LearningInv, TypeOK, Commit, Seen
<1>6. TypeOK'
  BY <1>1, <1>2, <1>4, <1>5, EndsFacts
     DEF LearningInv, TypeOK, Commit, SessionStates
<1>7. CommittedBacked'
  <2> SUFFICES ASSUME NEW c \in Cells
               PROVE  Backed(strategy_stats'[c], told'[c].successes,
                             told'[c].failures)
    BY DEF CommittedBacked, Backed
  <2>1. strategy_stats'[c] = Row(s, c)
    BY DEF Commit
  <2>2. Backed(Row(s, c), KnownSuccesses(s, c), KnownFailures(s, c))
    BY RowIsBacked
  <2> QED BY <1>3, <2>1, <2>2
<1>8. \A c \in Cells : strategy_stats[c] # None => strategy_stats'[c] # None
  BY DEF Commit, Row
<1>9. WrittenBacked' /\ ReadBacked'
  BY <1>1, <1>3, <1>8, OthersStayBacked
<1> QED BY <1>6, <1>7, <1>9 DEF LearningInv

LEMMA RolledBackLearns ==
    ASSUME LearningInv, NEW s \in Sessions, RolledBack(s)
    PROVE  LearningInv'
<1>1. /\ Ends(s) /\ strategy_stats' = strategy_stats
      /\ told' = told /\ active' = active
  BY DEF RolledBack
<1>2. windows' \in [1..MaxWindows -> Scopes \cup {None}]
  BY DEF LearningInv, TypeOK, RolledBack
<1>3. TypeOK'
  BY <1>1, <1>2, EndsFacts DEF LearningInv, TypeOK, SessionStates
<1>4. CommittedBacked'
  BY <1>1 DEF LearningInv, CommittedBacked, Backed
<1>5. \A c \in Cells : /\ told'[c] \in Outcomes
                       /\ told[c].successes <= told'[c].successes
                       /\ told[c].failures <= told'[c].failures
                       /\ strategy_stats[c] # None => strategy_stats'[c] # None
  BY <1>1 DEF LearningInv, TypeOK, Outcomes
<1>6. WrittenBacked' /\ ReadBacked'
  BY <1>1, <1>5, OthersStayBacked
<1> QED BY <1>3, <1>4, <1>6 DEF LearningInv

LEMMA BootstrapLearns ==
    ASSUME LearningInv, Bootstrap
    PROVE  LearningInv'
<1>1. PICK past \in History :
         /\ told' = past
         /\ strategy_stats' = [c \in Cells |->
               IF past[c] = Untold[c] THEN None
               ELSE [trials |-> past[c].successes + past[c].failures,
                     successes |-> past[c].successes,
                     alpha |-> past[c].successes,
                     beta |-> past[c].failures]]
  BY DEF Bootstrap
<1>2. past \in [Cells -> Outcomes]
  BY InsightConstants
<1>3. \A c \in Cells : /\ past[c].successes \in Nat /\ past[c].failures \in Nat
                       /\ past[c].successes + past[c].failures \in Nat
  BY <1>2 DEF Outcomes
<1>4. \A c \in Cells :
        /\ strategy_stats'[c] \in StrategyStat \cup {None}
        /\ Backed(strategy_stats'[c], told'[c].successes, told'[c].failures)
  <2> SUFFICES ASSUME NEW c \in Cells
               PROVE  /\ strategy_stats'[c] \in StrategyStat \cup {None}
                      /\ Backed(strategy_stats'[c], told'[c].successes,
                                told'[c].failures)
    OBVIOUS
  <2>1. CASE past[c] = Untold[c]
    BY <1>1, <2>1 DEF Backed
  <2>2. CASE past[c] # Untold[c]
    <3>1. strategy_stats'[c] =
            [trials |-> past[c].successes + past[c].failures,
             successes |-> past[c].successes, alpha |-> past[c].successes,
             beta |-> past[c].failures]
      BY <1>1, <2>2
    <3> QED BY <1>1, <1>3, <3>1 DEF Backed, StrategyStat
  <2> QED BY <2>1, <2>2
<1>5. strategy_stats' \in [Cells -> StrategyStat \cup {None}]
  BY <1>1, <1>4
<1>6. TypeOK'
  BY <1>1, <1>2, <1>5 DEF LearningInv, TypeOK, Bootstrap, degradation
<1>7. CommittedBacked'
  BY <1>4 DEF CommittedBacked, Backed
<1>8. \A s \in Sessions, c \in Cells : written[s][c] = None /\ written'[s][c] = None
  BY DEF Bootstrap, Unwritten
<1>9. WrittenBacked'
  BY <1>8 DEF WrittenBacked, Backed
<1>10. \A s \in Sessions : session'[s].row = None
  BY <1>8 DEF Bootstrap, Unwritten, LearningInv, ReadBacked, TypeOK, Row
<1>11. ReadBacked'
  BY <1>10 DEF ReadBacked
<1> QED BY <1>6, <1>7, <1>9, <1>11 DEF LearningInv

LEMMA LearningStep == LearningInv /\ [Next]_vars => LearningInv'
<1> SUFFICES ASSUME LearningInv, [Next]_vars
             PROVE  LearningInv'
  OBVIOUS
<1>1. CASE TrafficChanges
  <2>1. TypeOK'
    BY <1>1 DEF LearningInv, TypeOK, TrafficChanges, learning, degradation
  <2> QED BY <1>1, <2>1, LearningUntouched DEF TrafficChanges
<1>2. CASE Bootstrap
  BY <1>2, BootstrapLearns
<1>3. ASSUME NEW s \in Sessions, Detect(s) PROVE LearningInv'
  BY <1>3, DetectLearns
<1>4. ASSUME NEW s \in Sessions, Reconcile(s) PROVE LearningInv'
  BY <1>4, ReconcileLearns
<1>5. ASSUME NEW s \in Sessions, TickOnly(s) PROVE LearningInv'
  BY <1>5, TickOnlyLearns
<1>6. ASSUME NEW s \in Sessions, NEW c \in Cells, ObserveReads(s, c)
      PROVE  LearningInv'
  BY <1>6, ObserveReadsLearns
<1>7. ASSUME NEW s \in Sessions, ObserveWrites(s) PROVE LearningInv'
  BY <1>7, ObserveWritesLearns
<1>8. ASSUME NEW s \in Sessions, InsertConflict(s) PROVE LearningInv'
  BY <1>8, RolledBackLearns DEF InsertConflict
<1>9. ASSUME NEW s \in Sessions, Commit(s) PROVE LearningInv'
  BY <1>9, CommitLearns
<1>10. ASSUME NEW s \in Sessions, Rollback(s) PROVE LearningInv'
  BY <1>10, RolledBackLearns DEF Rollback
<1>11. CASE UNCHANGED vars
  <2>1. TypeOK'
    BY <1>11 DEF LearningInv, TypeOK, vars, learning, degradation
  <2> QED BY <1>11, <2>1, LearningUntouched DEF vars
<1> QED BY <1>1, <1>2, <1>3, <1>4, <1>5, <1>6, <1>7, <1>8, <1>9, <1>10, <1>11
        DEF Next

\* The invariant of the playbook: types, and rows backed by outcomes.
THEOREM PlaybookInvariant == Spec => []LearningInv
BY LearningHolds, LearningStep, PTL DEF Spec

\* Every variable of the sessions, of the playbook and of the windows keeps
\* its type.
THEOREM InsightTypeCorrect == Spec => []TypeOK
<1>1. LearningInv => TypeOK
  BY DEF LearningInv
<1> QED BY <1>1, PlaybookInvariant, PTL

\* However many cycles overlap and lose each other's updates, the rate and the
\* successes of a committed row agree (learning.py:117-124).
THEOREM RatesAgree == Spec => []RateMatchesSuccesses
<1>1. LearningInv => RateMatchesSuccesses
  BY DEF LearningInv, CommittedBacked, Backed, RateMatchesSuccesses
<1> QED BY <1>1, PlaybookInvariant, PTL

\* A committed row counts no outcome that was not verified and committed, and
\* a rate is used only when enough of them stand behind it.
THEOREM RatesAreEarned == Spec => []RatesRestOnOutcomes
<1>1. ASSUME LearningInv PROVE RatesRestOnOutcomes
  <2> SUFFICES ASSUME NEW c \in Cells, strategy_stats[c] # None
               PROVE  /\ strategy_stats[c].successes <= told[c].successes
                      /\ strategy_stats[c].beta <= told[c].failures
                      /\ strategy_stats[c].trials >= MIN_TRIALS_FOR_CONFIDENCE
                           => told[c].successes + told[c].failures
                                >= MIN_TRIALS_FOR_CONFIDENCE
    BY DEF RatesRestOnOutcomes, learned_rates
  <2>1. Backed(strategy_stats[c], told[c].successes, told[c].failures)
    BY <1>1 DEF LearningInv, CommittedBacked
  <2>2. strategy_stats[c].trials \in Nat
    BY <1>1 DEF LearningInv, TypeOK, StrategyStat
  <2>3. told[c].successes \in Nat /\ told[c].failures \in Nat
    BY <1>1 DEF LearningInv, TypeOK, Outcomes
  <2> QED BY <2>1, <2>2, <2>3, InsightConstants DEF Backed
<1> QED BY <1>1, PlaybookInvariant, PTL

-----------------------------------------------------------------------------
(* The windows.                                                            *)

\* The active windows of a scope.
ActiveOf(c) == {w \in active : windows[w] = c}

\* The sessions that have opened a window of it, or will.
WillOpen(s, c) == /\ session[s].at = "detected"
                  /\ c \in session[s].degraded
                  /\ session[s].open[c] = 0
HasOpened(s, c) == \E w \in opened[s] : windows[w] = c
Openers(c) == {s \in Sessions : WillOpen(s, c) \/ HasOpened(s, c)}

\* Together they are no more than the sessions, since who comes to open one
\* found none active.
OpenersAreFew ==
    \A c \in Scopes :
        Cardinality(ActiveOf(c)) + Cardinality(Openers(c))
            <= Cardinality(Sessions)

\* A session that has not flushed has opened and resolved nothing, and a
\* window opened and not committed is one session's, not active, and the only
\* one of its scope that this session opened.
OpenedIsOwn ==
    /\ \A s \in Sessions : session[s].at \in {"idle", "detected"} =>
          opened[s] = {} /\ resolved[s] = {}
    /\ \A w \in active : windows[w] # None
    /\ \A s \in Sessions : \A w \in opened[s] :
          windows[w] # None /\ w \notin active
    /\ \A s, t \in Sessions : s # t => opened[s] \cap opened[t] = {}
    /\ \A s \in Sessions : \A w, v \in opened[s] :
          windows[w] = windows[v] => w = v

WindowsInv == TypeOK /\ OpenersAreFew /\ OpenedIsOwn

\* All these sets are finite.
LEMMA WindowSetsAreFinite ==
    ASSUME TypeOK, NEW c \in Scopes
    PROVE  /\ IsFiniteSet(ActiveOf(c)) /\ Cardinality(ActiveOf(c)) \in Nat
           /\ IsFiniteSet(Openers(c)) /\ Cardinality(Openers(c)) \in Nat
           /\ Cardinality(Openers(c)) <= Cardinality(Sessions)
           /\ Cardinality(Sessions) \in Nat
<1>1. IsFiniteSet(1..MaxWindows)
  BY InsightConstants, FS_Interval
<1>2. ActiveOf(c) \in SUBSET (1..MaxWindows)
  BY DEF ActiveOf, TypeOK
<1>3. IsFiniteSet(Sessions) /\ Openers(c) \in SUBSET Sessions
  BY InsightConstants DEF Openers
<1>4. IsFiniteSet(ActiveOf(c))
  BY <1>1, <1>2, FS_Subset
<1>5. /\ IsFiniteSet(Openers(c))
      /\ Cardinality(Openers(c)) <= Cardinality(Sessions)
  BY <1>3, FS_Subset
<1> QED BY <1>3, <1>4, <1>5, FS_CardinalityType

LEMMA WindowsHold == Init => WindowsInv
<1> SUFFICES ASSUME Init PROVE WindowsInv
  OBVIOUS
<1>1. TypeOK
  BY LearningHolds DEF LearningInv
<1>2. OpenedIsOwn
  BY DEF Init, OpenedIsOwn
<1>3. ASSUME NEW c \in Scopes
      PROVE  Cardinality(ActiveOf(c)) + Cardinality(Openers(c))
                <= Cardinality(Sessions)
  <2>1. ActiveOf(c) = {}
    BY DEF Init, ActiveOf
  <2>2. Cardinality(ActiveOf(c)) = 0
    BY <2>1, FS_EmptySet
  <2> QED BY <1>1, <2>2, WindowSetsAreFinite
<1> QED BY <1>1, <1>2, <1>3 DEF WindowsInv, OpenersAreFew

\* A step that makes no window active and nobody an opener.
LEMMA NobodyOpens ==
    ASSUME TypeOK, TypeOK', NEW c \in Scopes,
           Cardinality(ActiveOf(c)) + Cardinality(Openers(c))
              <= Cardinality(Sessions),
           ActiveOf(c)' \subseteq ActiveOf(c),
           Openers(c)' \subseteq Openers(c)
    PROVE  (Cardinality(ActiveOf(c)) + Cardinality(Openers(c))
              <= Cardinality(Sessions))'
<1>1. /\ IsFiniteSet(ActiveOf(c)) /\ Cardinality(ActiveOf(c)) \in Nat
      /\ IsFiniteSet(Openers(c)) /\ Cardinality(Openers(c)) \in Nat
      /\ Cardinality(Sessions) \in Nat
  BY WindowSetsAreFinite
<1>2. PICK A : A = ActiveOf(c)'
  OBVIOUS
<1>3. PICK O : O = Openers(c)'
  OBVIOUS
<1>4. /\ Cardinality(A) <= Cardinality(ActiveOf(c))
      /\ Cardinality(O) <= Cardinality(Openers(c))
      /\ IsFiniteSet(A) /\ IsFiniteSet(O)
  BY <1>1, <1>2, <1>3, FS_Subset
<1>5. Cardinality(A) \in Nat /\ Cardinality(O) \in Nat
  BY <1>4, FS_CardinalityType
<1>6. Cardinality(A) + Cardinality(O) <= Cardinality(Sessions)
  BY <1>1, <1>4, <1>5
<1> QED BY <1>2, <1>3, <1>6

\* A step of session s that leaves the windows alone and does not bring s to
\* open one.
LEMMA WindowsUntouched ==
    ASSUME WindowsInv, TypeOK', NEW s \in Sessions, UNCHANGED degradation,
           \A t \in Sessions \ {s} : session'[t] = session[t],
           session'[s] = session[s] \/ session'[s].at \in {"tick", "observe"}
    PROVE  WindowsInv'
<1>1. OpenedIsOwn'
  BY DEF WindowsInv, OpenedIsOwn, degradation
<1>2. ASSUME NEW c \in Scopes
      PROVE  (Cardinality(ActiveOf(c)) + Cardinality(Openers(c))
                <= Cardinality(Sessions))'
  <2>1. ActiveOf(c)' = ActiveOf(c)
    BY DEF ActiveOf, degradation
  <2>2. Openers(c)' \subseteq Openers(c)
    BY DEF Openers, WillOpen, HasOpened, degradation
  <2> QED BY <2>1, <2>2, NobodyOpens DEF WindowsInv, OpenersAreFew
<1> QED BY <1>1, <1>2 DEF WindowsInv, OpenersAreFew

\* Who comes to open a window of c saw none active.
LEMMA DetectOpens ==
    ASSUME WindowsInv, TypeOK', NEW s \in Sessions, Detect(s)
    PROVE  WindowsInv'
<1>1. PICK open \in [Scopes -> 0..MaxWindows] :
        /\ \A c \in Scopes :
              LET rows == {w \in Seen(s) : windows[w] = c}
              IN  IF rows = {} THEN open[c] = 0 ELSE open[c] \in rows
        /\ session' = [session EXCEPT
               ![s] = [Idle EXCEPT !.at = "detected", !.degraded = detect,
                                   !.open = open]]
  BY DEF Detect
<1>2. session[s].at = "idle"
  BY DEF Detect
<1>3. /\ session'[s] = [Idle EXCEPT !.at = "detected", !.degraded = detect,
                                    !.open = open]
      /\ \A t \in Sessions \ {s} : session'[t] = session[t]
  BY <1>1 DEF WindowsInv, TypeOK
<1>4. session'[s].at = "detected" /\ session'[s].open = open
  BY <1>3, IdleFacts DEF SessionStates
<1>5. UNCHANGED <<windows, active, opened, resolved>>
  BY DEF Detect, degradation
<1>6. opened[s] = {} /\ Seen(s) = active
  BY <1>2 DEF WindowsInv, OpenedIsOwn, Seen
<1>7. OpenedIsOwn'
  BY <1>2, <1>3, <1>5 DEF WindowsInv, OpenedIsOwn
<1>8. ASSUME NEW c \in Scopes
      PROVE  (Cardinality(ActiveOf(c)) + Cardinality(Openers(c))
                <= Cardinality(Sessions))'
  <2>1. ActiveOf(c)' = ActiveOf(c)
    BY <1>5 DEF ActiveOf
  <2>2. CASE ActiveOf(c) = {}
    <3>1. Cardinality(ActiveOf(c)') = 0
      BY <2>1, <2>2, FS_EmptySet
    <3>2. /\ (Cardinality(Openers(c)) <= Cardinality(Sessions))'
          /\ (Cardinality(Openers(c)) \in Nat)'
      <4>1. TypeOK' => /\ (Cardinality(Openers(c)) <= Cardinality(Sessions))'
                       /\ (Cardinality(Openers(c)) \in Nat)'
        BY WindowSetsAreFinite, PTL
      <4> QED BY <4>1
    <3> QED BY <3>1, <3>2
  <2>3. CASE ActiveOf(c) # {}
    <3>1. open[c] \in ActiveOf(c)
      BY <1>1, <1>6, <2>3 DEF ActiveOf
    <3>2. open[c] # 0
      BY <3>1 DEF ActiveOf, WindowsInv, TypeOK
    <3>3. Openers(c)' \subseteq Openers(c)
      BY <1>3, <1>4, <1>5, <1>6, <3>2 DEF Openers, WillOpen, HasOpened
    <3> QED BY <2>1, <3>3, NobodyOpens DEF WindowsInv, OpenersAreFew
  <2> QED BY <2>2, <2>3
<1> QED BY <1>7, <1>8 DEF WindowsInv, OpenersAreFew

\* What s opens is what it came to open.
LEMMA ReconcileOpens ==
    ASSUME WindowsInv, TypeOK', NEW s \in Sessions, Reconcile(s)
    PROVE  WindowsInv'
<1>1. PICK new \in [Opens(s) -> {w \in 1..MaxWindows : windows[w] = None}] :
        /\ \A c, d \in Opens(s) : new[c] = new[d] => c = d
        /\ opened' = [opened EXCEPT ![s] = @ \cup {new[c] : c \in Opens(s)}]
        /\ windows' = [w \in 1..MaxWindows |->
               IF \E c \in Opens(s) : new[c] = w
               THEN CHOOSE c \in Opens(s) : new[c] = w ELSE windows[w]]
  BY DEF Reconcile
<1>2. /\ session[s].at = "detected" /\ opened[s] = {}
      /\ active' = active
  BY DEF WindowsInv, OpenedIsOwn, Reconcile
<1>3. /\ session'[s].at = "tick"
      /\ \A t \in Sessions \ {s} : session'[t] = session[t]
  <2>1. session' = [session EXCEPT ![s] = [Idle EXCEPT !.at = "tick"]]
    BY DEF Reconcile
  <2> QED BY <2>1, IdleFacts DEF WindowsInv, TypeOK
<1>4. /\ opened'[s] = {new[c] : c \in Opens(s)}
      /\ \A t \in Sessions \ {s} : opened'[t] = opened[t]
      /\ \A t \in Sessions \ {s} : resolved'[t] = resolved[t]
  <2>1. PICK mine : mine = {new[c] : c \in Opens(s)}
    OBVIOUS
  <2>2. opened' = [opened EXCEPT ![s] = {} \cup mine]
    BY <1>1, <1>2, <2>1
  <2>3. opened'[s] = mine
    BY <2>2 DEF WindowsInv, TypeOK
  <2>4. \A t \in Sessions \ {s} : opened'[t] = opened[t]
    BY <2>2 DEF WindowsInv, TypeOK
  <2>5. \A t \in Sessions \ {s} : resolved'[t] = resolved[t]
    BY DEF WindowsInv, TypeOK, Reconcile
  <2> QED BY <2>1, <2>3, <2>4, <2>5
<1>5. Opens(s) \subseteq Scopes /\ None \notin Scopes
  BY InsightConstants DEF Opens, WindowsInv, TypeOK
<1>6. \A c \in Opens(s) : /\ new[c] \in 1..MaxWindows
                          /\ windows[new[c]] = None
                          /\ windows'[new[c]] = c
  <2> SUFFICES ASSUME NEW c \in Opens(s)
               PROVE  /\ new[c] \in 1..MaxWindows
                      /\ windows[new[c]] = None
                      /\ windows'[new[c]] = c
    OBVIOUS
  <2>1. new[c] \in 1..MaxWindows /\ windows[new[c]] = None
    BY <1>1
  <2>2. PICK v : v = CHOOSE d \in Opens(s) : new[d] = new[c]
    OBVIOUS
  <2>3. v \in Opens(s) /\ new[v] = new[c]
    BY <2>2
  <2>4. v = c
    BY <1>1, <2>3
  <2>5. windows'[new[c]] = v
    BY <1>1, <2>1, <2>2
  <2> QED BY <2>1, <2>4, <2>5
<1>7. \A w \in 1..MaxWindows : windows[w] # None => windows'[w] = windows[w]
  BY <1>1, <1>6
<1>8. /\ active \subseteq 1..MaxWindows
      /\ \A w \in active : windows[w] # None
      /\ \A t \in Sessions : /\ opened[t] \subseteq 1..MaxWindows
                              /\ \A w \in opened[t] : windows[w] # None
                                                     /\ w \notin active
  BY DEF WindowsInv, TypeOK, OpenedIsOwn
<1>9. OpenedIsOwn'
  <2>1. \A t \in Sessions : session'[t].at \in {"idle", "detected"} =>
           opened'[t] = {} /\ resolved'[t] = {}
    BY <1>3, <1>4 DEF WindowsInv, OpenedIsOwn
  <2>2. \A w \in active' : windows'[w] # None
    BY <1>2, <1>7, <1>8
  <2>3. \A t \in Sessions : \A w \in opened'[t] :
           windows'[w] # None /\ w \notin active'
    <3> SUFFICES ASSUME NEW t \in Sessions, NEW w \in opened'[t]
                 PROVE  windows'[w] # None /\ w \notin active'
      OBVIOUS
    <3>1. CASE t = s
      <4>1. PICK c \in Opens(s) : w = new[c]
        BY <1>4, <3>1
      <4> QED BY <1>2, <1>5, <1>6, <1>8, <4>1
    <3>2. CASE t # s
      BY <1>2, <1>4, <1>7, <1>8, <3>2
    <3> QED BY <3>1, <3>2
  <2>4. \A t, u \in Sessions : t # u => opened'[t] \cap opened'[u] = {}
    <3>1. \A t \in Sessions \ {s} : opened'[s] \cap opened'[t] = {}
      BY <1>4, <1>6, <1>8
    <3>2. \A t, u \in Sessions \ {s} : t # u => opened'[t] \cap opened'[u] = {}
      BY <1>4 DEF WindowsInv, OpenedIsOwn
    <3> QED BY <3>1, <3>2
  <2>5. \A t \in Sessions : \A w, v \in opened'[t] :
           windows'[w] = windows'[v] => w = v
    <3> SUFFICES ASSUME NEW t \in Sessions, NEW w \in opened'[t],
                        NEW v \in opened'[t], windows'[w] = windows'[v]
                 PROVE  w = v
      OBVIOUS
    <3>1. CASE t = s
      <4>1. PICK c \in Opens(s) : w = new[c]
        BY <1>4, <3>1
      <4>2. PICK d \in Opens(s) : v = new[d]
        BY <1>4, <3>1
      <4> QED BY <1>6, <4>1, <4>2
    <3>2. CASE t # s
      BY <1>4, <1>7, <1>8, <3>2 DEF WindowsInv, OpenedIsOwn
    <3> QED BY <3>1, <3>2
  <2> QED BY <2>1, <2>2, <2>3, <2>4, <2>5 DEF OpenedIsOwn
<1>10. ASSUME NEW c \in Scopes
       PROVE  (Cardinality(ActiveOf(c)) + Cardinality(Openers(c))
                 <= Cardinality(Sessions))'
  <2>1. ActiveOf(c)' \subseteq ActiveOf(c)
    BY <1>2, <1>7, <1>8 DEF ActiveOf
  <2>2. Openers(c)' \subseteq Openers(c)
    <3> SUFFICES ASSUME NEW t \in Sessions, (WillOpen(t, c) \/ HasOpened(t, c))'
                 PROVE  WillOpen(t, c) \/ HasOpened(t, c)
      BY DEF Openers
    <3>1. CASE t = s
      <4>1. ~WillOpen(t, c)'
        BY <1>3, <3>1 DEF WillOpen
      <4>2. PICK w \in opened'[t] : windows'[w] = c
        BY <4>1 DEF HasOpened
      <4>3. PICK d \in Opens(s) : w = new[d]
        BY <1>4, <3>1, <4>2
      <4>4. c \in Opens(s)
        BY <1>6, <4>2, <4>3
      <4> QED BY <1>2, <3>1, <4>4 DEF Opens, WillOpen
    <3>2. CASE t # s
      BY <1>3, <1>4, <1>7, <1>8, <3>2 DEF WillOpen, HasOpened
    <3> QED BY <3>1, <3>2
  <2> QED BY <2>1, <2>2, NobodyOpens DEF WindowsInv, OpenersAreFew
<1> QED BY <1>9, <1>10 DEF WindowsInv, OpenersAreFew

\* A commit turns an opener into an active window, one for one.
LEMMA CommitOpens ==
    ASSUME WindowsInv, TypeOK', NEW s \in Sessions, Commit(s)
    PROVE  WindowsInv'
<1>1. /\ session'[s] = Idle
      /\ \A t \in Sessions \ {s} : session'[t] = session[t]
      /\ opened'[s] = {} /\ resolved'[s] = {}
      /\ \A t \in Sessions \ {s} : /\ opened'[t] = opened[t]
                                    /\ resolved'[t] = resolved[t]
      /\ windows' = windows
      /\ active' = Seen(s)
  BY DEF WindowsInv, TypeOK, Commit, Ends
<1>2. active' \subseteq active \cup opened[s]
  BY <1>1 DEF Seen
<1>3. OpenedIsOwn'
  BY <1>1, <1>2 DEF WindowsInv, OpenedIsOwn
<1>4. ASSUME NEW c \in Scopes
      PROVE  (Cardinality(ActiveOf(c)) + Cardinality(Openers(c))
                <= Cardinality(Sessions))'
  <2>1. Openers(c)' \subseteq Openers(c) \ {s}
    BY <1>1, IdleFacts DEF Openers, WillOpen, HasOpened
  <2>2. CASE ~HasOpened(s, c)
    <3>1. ActiveOf(c)' \subseteq ActiveOf(c)
      BY <1>1, <1>2, <2>2 DEF ActiveOf, HasOpened
    <3> QED BY <2>1, <3>1, NobodyOpens DEF WindowsInv, OpenersAreFew
  <2>3. CASE HasOpened(s, c)
    <3>1. PICK w \in opened[s] : windows[w] = c
      BY <2>3 DEF HasOpened
    <3>2. ActiveOf(c)' \subseteq ActiveOf(c) \cup {w}
      BY <1>1, <1>2, <3>1 DEF ActiveOf, WindowsInv, OpenedIsOwn
    <3>3. s \in Openers(c)
      BY <2>3 DEF Openers
    <3>4. PICK A : A = ActiveOf(c)'
      OBVIOUS
    <3>5. PICK O : O = Openers(c)'
      OBVIOUS
    <3>6. /\ IsFiniteSet(ActiveOf(c)) /\ Cardinality(ActiveOf(c)) \in Nat
          /\ IsFiniteSet(Openers(c)) /\ Cardinality(Openers(c)) \in Nat
          /\ Cardinality(Sessions) \in Nat
      BY WindowSetsAreFinite DEF WindowsInv
    <3>7. /\ IsFiniteSet(ActiveOf(c) \cup {w})
          /\ Cardinality(ActiveOf(c) \cup {w}) <= Cardinality(ActiveOf(c)) + 1
          /\ Cardinality(ActiveOf(c) \cup {w}) \in Nat
      <4>1. PICK B : B = ActiveOf(c)
        OBVIOUS
      <4>2. /\ IsFiniteSet(B \cup {w})
            /\ Cardinality(B \cup {w}) = Cardinality(B)
                 \/ Cardinality(B \cup {w}) = Cardinality(B) + 1
        BY <3>6, <4>1, FS_AddElement
      <4>3. Cardinality(B \cup {w}) \in Nat
        BY <4>2, FS_CardinalityType
      <4> QED BY <3>6, <4>1, <4>2, <4>3
    <3>8. /\ IsFiniteSet(Openers(c) \ {s})
          /\ Cardinality(Openers(c) \ {s}) = Cardinality(Openers(c)) - 1
          /\ Cardinality(Openers(c) \ {s}) \in Nat
      BY <3>3, <3>6, FS_RemoveElement, FS_CardinalityType
    <3>9. /\ IsFiniteSet(A) /\ IsFiniteSet(O)
          /\ Cardinality(A) <= Cardinality(ActiveOf(c) \cup {w})
          /\ Cardinality(O) <= Cardinality(Openers(c) \ {s})
      BY <2>1, <3>2, <3>4, <3>5, <3>7, <3>8, FS_Subset
    <3>10. Cardinality(A) \in Nat /\ Cardinality(O) \in Nat
      BY <3>9, FS_CardinalityType
    <3>11. Cardinality(ActiveOf(c)) + Cardinality(Openers(c))
             <= Cardinality(Sessions)
      BY DEF WindowsInv, OpenersAreFew
    <3>12. Cardinality(A) + Cardinality(O) <= Cardinality(Sessions)
      BY <3>6, <3>7, <3>8, <3>9, <3>10, <3>11
    <3> QED BY <3>4, <3>5, <3>12
  <2> QED BY <2>2, <2>3
<1> QED BY <1>3, <1>4 DEF WindowsInv, OpenersAreFew

\* A session that is rolled back leaves no window.
LEMMA RolledBackOpens ==
    ASSUME WindowsInv, TypeOK', NEW s \in Sessions, RolledBack(s)
    PROVE  WindowsInv'
<1>1. /\ session'[s] = Idle
      /\ \A t \in Sessions \ {s} : session'[t] = session[t]
      /\ opened'[s] = {} /\ resolved'[s] = {}
      /\ \A t \in Sessions \ {s} : /\ opened'[t] = opened[t]
                                    /\ resolved'[t] = resolved[t]
      /\ active' = active
  BY DEF WindowsInv, TypeOK, RolledBack, Ends
<1>2. /\ \A w \in 1..MaxWindows :
           windows'[w] = IF w \in opened[s] THEN None ELSE windows[w]
      /\ active \subseteq 1..MaxWindows
      /\ \A t \in Sessions : opened[t] \subseteq 1..MaxWindows
  BY DEF WindowsInv, TypeOK, RolledBack
<1>3. \A w \in active : windows'[w] = windows[w]
  BY <1>2 DEF WindowsInv, OpenedIsOwn
<1>4. \A t \in Sessions \ {s} : \A w \in opened[t] : windows'[w] = windows[w]
  BY <1>2 DEF WindowsInv, OpenedIsOwn
<1>5. OpenedIsOwn'
  <2>1. \A t \in Sessions : session'[t].at \in {"idle", "detected"} =>
           opened'[t] = {} /\ resolved'[t] = {}
    BY <1>1 DEF WindowsInv, OpenedIsOwn
  <2>2. \A w \in active' : windows'[w] # None
    BY <1>1, <1>3 DEF WindowsInv, OpenedIsOwn
  <2>3. \A t \in Sessions : \A w \in opened'[t] :
           windows'[w] # None /\ w \notin active'
    BY <1>1, <1>4 DEF WindowsInv, OpenedIsOwn
  <2>4. \A t, u \in Sessions : t # u => opened'[t] \cap opened'[u] = {}
    BY <1>1 DEF WindowsInv, OpenedIsOwn
  <2>5. \A t \in Sessions : \A w, v \in opened'[t] :
           windows'[w] = windows'[v] => w = v
    BY <1>1, <1>4 DEF WindowsInv, OpenedIsOwn
  <2> QED BY <2>1, <2>2, <2>3, <2>4, <2>5 DEF OpenedIsOwn
<1>6. ASSUME NEW c \in Scopes
      PROVE  (Cardinality(ActiveOf(c)) + Cardinality(Openers(c))
                <= Cardinality(Sessions))'
  <2>1. ActiveOf(c)' \subseteq ActiveOf(c)
    BY <1>1, <1>3 DEF ActiveOf
  <2>2. Openers(c)' \subseteq Openers(c)
    BY <1>1, <1>4, IdleFacts DEF Openers, WillOpen, HasOpened
  <2> QED BY <2>1, <2>2, NobodyOpens DEF WindowsInv, OpenersAreFew
<1> QED BY <1>5, <1>6 DEF WindowsInv, OpenersAreFew

LEMMA WindowsStep == WindowsInv /\ TypeOK' /\ [Next]_vars => WindowsInv'
<1> SUFFICES ASSUME WindowsInv, TypeOK', [Next]_vars
             PROVE  WindowsInv'
  OBVIOUS
<1>1. ASSUME UNCHANGED <<degradation, session>> PROVE WindowsInv'
  BY <1>1 DEF WindowsInv, OpenersAreFew, OpenedIsOwn, ActiveOf, Openers,
              WillOpen, HasOpened, degradation
<1>2. CASE TrafficChanges \/ Bootstrap \/ UNCHANGED vars
  BY <1>1, <1>2 DEF TrafficChanges, Bootstrap, vars
<1>3. ASSUME NEW s \in Sessions, Detect(s) PROVE WindowsInv'
  BY <1>3, DetectOpens
<1>4. ASSUME NEW s \in Sessions, Reconcile(s) PROVE WindowsInv'
  BY <1>4, ReconcileOpens
<1>5. ASSUME NEW s \in Sessions, TickOnly(s) PROVE WindowsInv'
  <2>1. /\ session'[s].at = "tick"
        /\ \A t \in Sessions \ {s} : session'[t] = session[t]
    BY <1>5 DEF TickOnly, WindowsInv, TypeOK
  <2> QED BY <1>5, <2>1, WindowsUntouched DEF TickOnly
<1>6. ASSUME NEW s \in Sessions, NEW c \in Cells, ObserveReads(s, c)
      PROVE  WindowsInv'
  <2>1. /\ session'[s].at = "observe"
        /\ \A t \in Sessions \ {s} : session'[t] = session[t]
    BY <1>6 DEF ObserveReads, WindowsInv, TypeOK
  <2> QED BY <1>6, <2>1, WindowsUntouched DEF ObserveReads
<1>7. ASSUME NEW s \in Sessions, ObserveWrites(s) PROVE WindowsInv'
  <2>1. session' = [session EXCEPT ![s] = [Idle EXCEPT !.at = "tick"]]
    BY <1>7 DEF ObserveWrites
  <2>2. /\ session'[s].at = "tick"
        /\ \A t \in Sessions \ {s} : session'[t] = session[t]
    BY <2>1, IdleFacts DEF WindowsInv, TypeOK
  <2>3. UNCHANGED degradation
    BY <1>7 DEF ObserveWrites
  <2> QED BY <2>2, <2>3, WindowsUntouched
<1>8. ASSUME NEW s \in Sessions, InsertConflict(s) PROVE WindowsInv'
  BY <1>8, RolledBackOpens DEF InsertConflict
<1>9. ASSUME NEW s \in Sessions, Commit(s) PROVE WindowsInv'
  BY <1>9, CommitOpens
<1>10. ASSUME NEW s \in Sessions, Rollback(s) PROVE WindowsInv'
  BY <1>10, RolledBackOpens DEF Rollback
<1> QED BY <1>2, <1>3, <1>4, <1>5, <1>6, <1>7, <1>8, <1>9, <1>10 DEF Next

\* Sessions that overlap may leave a scope several active windows, but never
\* more than there are sessions (degradation.py:190).
THEOREM FewWindows == Spec => []WindowsPerScope
<1>1. Init => WindowsInv
  BY WindowsHold
<1>2. TypeOK /\ TypeOK' /\ WindowsInv /\ [Next]_vars => WindowsInv'
  BY WindowsStep
<1>3. ASSUME WindowsInv PROVE WindowsPerScope
  <2> SUFFICES ASSUME NEW c \in Scopes
               PROVE  Cardinality(ActiveOf(c)) <= Cardinality(Sessions)
    BY DEF WindowsPerScope, ActiveOf
  <2>1. Cardinality(ActiveOf(c)) + Cardinality(Openers(c))
          <= Cardinality(Sessions)
    BY <1>3 DEF WindowsInv, OpenersAreFew
  <2>2. /\ Cardinality(ActiveOf(c)) \in Nat /\ Cardinality(Openers(c)) \in Nat
        /\ Cardinality(Sessions) \in Nat
    BY <1>3, WindowSetsAreFinite DEF WindowsInv
  <2> QED BY <2>1, <2>2
<1> QED BY <1>1, <1>2, <1>3, InsightTypeCorrect, PTL DEF Spec
=============================================================================

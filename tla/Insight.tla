------------------------------ MODULE Insight ------------------------------
(***************************************************************************)
(* What a cycle learns and leaves for the next: the degradation windows    *)
(* (engines/degradation.py) and the playbook (engines/learning.py, fed by  *)
(* agents/learner.py), written by sessions that overlap: the scheduler's   *)
(* cycle, /ops/scan, /ops/tick and /ops/cycle each have one of their own.  *)
(*                                                                         *)
(* A session sees what is committed and what it wrote itself.  It writes   *)
(* the columns it changed and no others, on top of whatever the row holds  *)
(* by then; a row it has written is locked until it ends, and another      *)
(* session that wants to write it waits (the row locks of PostgreSQL, read *)
(* committed).  Rollback also stands for the deadlocks the database        *)
(* breaks.                                                                 *)
(*                                                                         *)
(* The parameters of a posterior are kept less their priors, so that a row *)
(* of integers says all; money columns go with the counts beside them.     *)
(***************************************************************************)
EXTENDS Integers, FiniteSets

CONSTANTS
    Sessions,
    Cells,          \* pairs of a context key and an action
    Scopes,         \* routes and methods
    Traffic,        \* what the buckets of a scope may add up to
    MaxOutcomes,    \* bound: outcomes a cell is told
    MaxWindows,     \* bound: windows ever opened
    History,        \* resolved events a playbook may be bootstrapped from
    MIN_TRIALS_FOR_CONFIDENCE,
    None

StrategyStat == [trials: Nat, successes: Nat, alpha: Nat, beta: Nat]
Outcomes == [successes: Nat, failures: Nat]

ASSUME InsightConstants ==
    /\ IsFiniteSet(Sessions)
    /\ Traffic \subseteq [attempts: Nat, failures: Nat,
                          base_attempts: Nat, base_failures: Nat]
    /\ MaxOutcomes \in Nat
    /\ MaxWindows \in Nat
    /\ History \subseteq [Cells -> Outcomes]
    /\ MIN_TRIALS_FOR_CONFIDENCE \in Nat
    /\ None \notin Nat \cup Scopes \cup StrategyStat

VARIABLES
    strategy_stats, \* [Cells -> StrategyStat \cup {None}], as committed
    written,        \* [Sessions -> [Cells -> row or None]], not committed
    windows,        \* committed windows by number, the scope of each
    active,         \* numbers of the committed windows that are active
    opened,         \* [Sessions -> windows inserted, not committed]
    touched,        \* [Sessions -> windows updated, not committed]
    resolved,       \* [Sessions -> those of them set to resolved]
    pending,        \* history: outcomes told in the open transactions
    traffic,        \* [Scopes -> Traffic], the buckets of now
    session,        \* [Sessions -> what its cycle is at and has read]
    told            \* history: the outcomes of each cell, as committed

learning == <<strategy_stats, written, told, pending>>
degradation == <<windows, active, opened, touched, resolved>>
vars == <<learning, degradation, traffic, session>>

Untold == [c \in Cells |-> [successes |-> 0, failures |-> 0]]
Unwritten == [c \in Cells |-> None]

-----------------------------------------------------------------------------
(* Detection.                                                              *)

MIN_RECENT_ATTEMPTS == 60

\* The thresholds on ratio = observed / base, as products of the counts.  base
\* is the failure rate of the seven days before; without failures then the
\* ratio is taken to be 1 or 0, which no threshold lies under.
ratio_is_at_least(t, percent) ==
    /\ t.base_failures > 0
    /\ 100 * t.failures * t.base_attempts
          >= percent * t.base_failures * t.attempts

_severity(t) ==
    IF t.attempts < MIN_RECENT_ATTEMPTS \/ 20 * t.failures < t.attempts
    THEN "NONE"
    ELSE IF ratio_is_at_least(t, 260) THEN "CRITICAL"
    ELSE IF ratio_is_at_least(t, 190) THEN "ELEVATED"
    ELSE IF ratio_is_at_least(t, 145) THEN "WATCH" ELSE "NONE"

detect == {c \in Scopes : _severity(traffic[c]) \in {"ELEVATED", "CRITICAL"}}

-----------------------------------------------------------------------------

Idle == [at |-> "idle", degraded |-> {}, open |-> [c \in Scopes |-> 0],
         cell |-> None, row |-> None]

Init ==
    /\ strategy_stats = Unwritten
    /\ written = [s \in Sessions |-> Unwritten]
    /\ windows = [w \in 1..MaxWindows |-> None]
    /\ active = {}
    /\ opened = [s \in Sessions |-> {}]
    /\ touched = [s \in Sessions |-> {}]
    /\ resolved = [s \in Sessions |-> {}]
    /\ traffic \in [Scopes -> Traffic]
    /\ session = [s \in Sessions |-> Idle]
    /\ told = Untold
    /\ pending = [s \in Sessions |-> Untold]

\* The buckets of the last 45 minutes change.
TrafficChanges ==
    /\ traffic' \in [Scopes -> Traffic]
    /\ UNCHANGED <<learning, degradation, session>>

-----------------------------------------------------------------------------
(* scan: detect and reconcile_windows.                                     *)

\* The windows session s sees active.  A row it has updated it sees so.
Seen(s) == (active \cup opened[s]) \ resolved[s]

\* reconcile_windows reads the active windows into a map with one window per
\* scope: of several it keeps the one the database returns last.
Detect(s) ==
    /\ session[s].at = "idle"
    /\ \E open \in [Scopes -> 0..MaxWindows] :
         /\ \A c \in Scopes :
              LET rows == {w \in Seen(s) : windows[w] = c}
              IN  IF rows = {} THEN open[c] = 0 ELSE open[c] \in rows
         /\ session' = [session EXCEPT
                ![s] = [Idle EXCEPT !.at = "detected", !.degraded = detect,
                                    !.open = open]]
    /\ UNCHANGED <<learning, degradation, traffic>>

\* (mutant) A window is opened whether or not one was seen.
Opens_always(s) == session[s].degraded

\* Degraded scopes without a window get one,
Opens(s) == {c \in session[s].degraded : session[s].open[c] = 0}

\* the windows of the others are resolved,
Resolves(s) == {session[s].open[c] : c \in Scopes \ session[s].degraded} \ {0}

\* and those that stay have their rates written.
Rewrites(s) == {session[s].open[c] : c \in session[s].degraded} \ {0}

LockedByOthers(locks, s) == UNION {locks[t] : t \in Sessions \ {s}}

\* The flush of reconcile_windows.
Reconcile(s) ==
    /\ session[s].at = "detected"
    /\ LET updates == Resolves(s) \cup Rewrites(s)
       IN  /\ updates \cap LockedByOthers(touched, s) = {}
           /\ touched' = [touched EXCEPT ![s] = @ \cup updates]
    /\ resolved' = [resolved EXCEPT ![s] = @ \cup Resolves(s)]
    /\ \E new \in [Opens(s) -> {w \in 1..MaxWindows : windows[w] = None}] :
         /\ \A c, d \in Opens(s) : new[c] = new[d] => c = d
         /\ opened' = [opened EXCEPT ![s] = @ \cup {new[c] : c \in Opens(s)}]
         /\ windows' = [w \in 1..MaxWindows |->
                IF \E c \in Opens(s) : new[c] = w
                THEN CHOOSE c \in Opens(s) : new[c] = w ELSE windows[w]]
    /\ session' = [session EXCEPT ![s] = [Idle EXCEPT !.at = "tick"]]
    /\ UNCHANGED <<learning, active, traffic>>

\* /ops/tick does not scan.
TickOnly(s) ==
    /\ session[s].at = "idle"
    /\ session' = [session EXCEPT ![s].at = "tick"]
    /\ UNCHANGED <<learning, degradation, traffic>>

-----------------------------------------------------------------------------
(* tick: Learner.run, once for each outcome that was verified.             *)

Row(s, c) == IF written[s][c] # None THEN written[s][c]
             ELSE strategy_stats[c]

Heard(s, c) == told[c].successes + told[c].failures
                 + pending[s][c].successes + pending[s][c].failures

\* (mutant) The row is read and not held for what is told next.
ObserveReads_detached(s, c) ==
    /\ session[s].at = "tick"
    /\ Heard(s, c) < MaxOutcomes
    /\ session' = [session EXCEPT ![s].at = "observe"]
    /\ UNCHANGED <<learning, degradation, traffic>>

\* observe up to the await of its query.  No reference to a row outlives
\* Learner.run, so that the next query of the session reads it again.
ObserveReads(s, c) ==
    /\ session[s].at = "tick"
    /\ Heard(s, c) < MaxOutcomes
    /\ session' = [session EXCEPT ![s].at = "observe", ![s].cell = c,
                                  ![s].row = Row(s, c)]
    /\ UNCHANGED <<learning, degradation, traffic>>

\* (mutants) A success is one for the rate only; its trial counts twice.
Succeeded_rate_only(row, base) ==
    [base EXCEPT !.trials = row.trials + 1, !.alpha = row.alpha + 1]
Succeeded_twice(row, base) ==
    [base EXCEPT !.trials = row.trials + 2,
                 !.successes = row.successes + 1, !.alpha = row.alpha + 1]

\* The columns that changed since row was read, set in what is there now.
Succeeded(row, base) ==
    [base EXCEPT !.trials = row.trials + 1,
                 !.successes = row.successes + 1, !.alpha = row.alpha + 1]
Failed(row, base) ==
    [base EXCEPT !.trials = row.trials + 1, !.beta = row.beta + 1]

\* A row that was not there is written with its prior alone, and counted.
FirstRow == [trials |-> 0, successes |-> 0, alpha |-> 0, beta |-> 0]

LockedByOther(s, c) == \E t \in Sessions \ {s} : written[t][c] # None

\* The flush of observe.
ObserveWrites(s) ==
    /\ session[s].at = "observe"
    /\ LET c    == session[s].cell
           new  == session[s].row = None
           row  == IF new THEN FirstRow ELSE session[s].row
           base == IF new THEN FirstRow ELSE Row(s, c)
       IN  /\ ~LockedByOther(s, c)
           /\ new => strategy_stats[c] = None
           /\ \/ /\ written' = [written EXCEPT ![s][c] = Succeeded(row, base)]
                 /\ pending' = [pending EXCEPT ![s][c].successes = @ + 1]
              \/ /\ written' = [written EXCEPT ![s][c] = Failed(row, base)]
                 /\ pending' = [pending EXCEPT ![s][c].failures = @ + 1]
    /\ session' = [session EXCEPT ![s] = [Idle EXCEPT !.at = "tick"]]
    /\ UNCHANGED <<strategy_stats, told, degradation, traffic>>

\* What the session leaves when it ends, well or not.
Ends(s) ==
    /\ written' = [written EXCEPT ![s] = Unwritten]
    /\ pending' = [pending EXCEPT ![s] = Untold]
    /\ opened' = [opened EXCEPT ![s] = {}]
    /\ touched' = [touched EXCEPT ![s] = {}]
    /\ resolved' = [resolved EXCEPT ![s] = {}]
    /\ session' = [session EXCEPT ![s] = Idle]
    /\ UNCHANGED traffic

Commit(s) ==
    /\ session[s].at = "tick"
    /\ strategy_stats' = [c \in Cells |-> Row(s, c)]
    /\ told' = [c \in Cells |->
          [successes |-> told[c].successes + pending[s][c].successes,
           failures |-> told[c].failures + pending[s][c].failures]]
    /\ active' = Seen(s)
    /\ UNCHANGED windows
    /\ Ends(s)

RolledBack(s) ==
    /\ windows' = [w \in 1..MaxWindows |->
                      IF w \in opened[s] THEN None ELSE windows[w]]
    /\ UNCHANGED <<strategy_stats, told, active>>
    /\ Ends(s)

\* The cycle raises, for a reason of its own or because the database breaks a
\* deadlock.
Rollback(s) == session[s].at # "idle" /\ RolledBack(s)

\* Another session has meanwhile inserted the row this one found missing: the
\* index on context and action is unique, and the whole cycle is rolled back.
InsertConflict(s) ==
    /\ session[s].at = "observe"
    /\ session[s].row = None
    /\ strategy_stats[session[s].cell] # None
    /\ RolledBack(s)

\* bootstrap, which /ops/seed calls: only into an empty table.
Bootstrap ==
    /\ strategy_stats = Unwritten
    /\ \A s \in Sessions : written[s] = Unwritten
    /\ \E past \in History :
         /\ told' = past
         /\ strategy_stats' = [c \in Cells |->
               IF past[c] = Untold[c] THEN None
               ELSE [trials |-> past[c].successes + past[c].failures,
                     successes |-> past[c].successes,
                     alpha |-> past[c].successes,
                     beta |-> past[c].failures]]
    /\ UNCHANGED <<written, pending, degradation, traffic, session>>

Next ==
    \/ TrafficChanges \/ Bootstrap
    \/ \E s \in Sessions :
         \/ Detect(s) \/ Reconcile(s) \/ TickOnly(s)
         \/ \E c \in Cells : ObserveReads(s, c)
         \/ ObserveWrites(s) \/ InsertConflict(s)
         \/ Commit(s) \/ Rollback(s)

Spec == Init /\ [][Next]_vars

-----------------------------------------------------------------------------
(* Properties.                                                             *)

\* What strategist.run is given for a context.
learned_rates ==
    {c \in Cells : /\ strategy_stats[c] # None
                   /\ strategy_stats[c].trials >= MIN_TRIALS_FOR_CONFIDENCE}

\* The type invariant, with what the locks keep apart.
TypeOK ==
    /\ strategy_stats \in [Cells -> StrategyStat \cup {None}]
    /\ written \in [Sessions -> [Cells -> StrategyStat \cup {None}]]
    /\ told \in [Cells -> Outcomes]
    /\ pending \in [Sessions -> [Cells -> Outcomes]]
    /\ traffic \in [Scopes -> Traffic]
    /\ session \in [Sessions ->
          [at: {"idle", "detected", "tick", "observe"},
           degraded: SUBSET Scopes, open: [Scopes -> 0..MaxWindows],
           cell: Cells \cup {None}, row: StrategyStat \cup {None}]]
    /\ windows \in [1..MaxWindows -> Scopes \cup {None}]
    /\ active \subseteq 1..MaxWindows
    /\ opened \in [Sessions -> SUBSET (1..MaxWindows)]
    /\ touched \in [Sessions -> SUBSET (1..MaxWindows)]
    /\ resolved \in [Sessions -> SUBSET (1..MaxWindows)]
    /\ \A s \in Sessions : session[s].at = "observe" => session[s].cell \in Cells

\* However cycles overlap, the rate of a row and its count of successes tell
\* the same story: both are written from one read, and a cycle that overwrites
\* the one overwrites the other.  It is not so for trials and beta, which a
\* success and a failure told at the same time leave apart.
RateMatchesSuccesses ==
    \A c \in Cells : strategy_stats[c] # None =>
        strategy_stats[c].alpha = strategy_stats[c].successes

\* A row never knows of more than was verified and committed: an overlapping
\* cycle may lose an outcome and a rolled-back one takes its outcomes with it,
\* but none is invented or told twice, so that a rate is only blended into
\* decisions when MIN_TRIALS_FOR_CONFIDENCE outcomes really stand behind it.
RatesRestOnOutcomes ==
    \A c \in Cells :
        /\ strategy_stats[c] # None =>
             /\ strategy_stats[c].successes <= told[c].successes
             /\ strategy_stats[c].beta <= told[c].failures
        /\ c \in learned_rates =>
             told[c].successes + told[c].failures >= MIN_TRIALS_FOR_CONFIDENCE

\* A scope has no more active windows than there are sessions that overlap:
\* reconcile_windows reads before it inserts and nothing makes the pair
\* unique, so each of them may open one, but none opens a second.
WindowsPerScope ==
    \A c \in Scopes :
        Cardinality({w \in active : windows[w] = c}) <= Cardinality(Sessions)
=============================================================================

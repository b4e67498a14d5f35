----------------------------- MODULE AuditChain -----------------------------
(***************************************************************************)
(* The audit trail of services/audit.py: record appends a row whose hash   *)
(* covers the hash of the last row it sees, verify_chain walks the rows by *)
(* sequence and reports the first whose hash does not reproduce.           *)
(*                                                                         *)
(* record is called inside the transaction of whatever it records.  It     *)
(* reads the last row, awaits, and inserts, so two sessions may read the   *)
(* same last row: nothing makes the column sequence unique                 *)
(* (models/audit.py:24).                                                   *)
(***************************************************************************)
EXTENDS Integers, Sequences, FiniteSets, FiniteSetsExt, Functions

CONSTANTS
    Sessions,    \* database sessions: requests and the scheduler's cycles
    Summaries,   \* of "short" and "long", a text above 240 characters
    Edits,       \* may somebody change the text of a committed row?
    MaxRecords   \* bound: how many calls of record the model makes

ASSUME AuditConstants ==
    /\ Summaries \subseteq {"short", "long"}
    /\ Edits \in BOOLEAN
    /\ MaxRecords \in Nat

VARIABLES
    audit_logs,  \* the committed rows
    flushed,     \* of each session, the rows it inserted and has not committed
    recording,   \* the sessions inside record, between its read and its insert
    head,        \* of each session, sequence and hash of the row it read
    written      \* history: the summary given to each call that inserted

vars == <<audit_logs, flushed, recording, head, written>>

-----------------------------------------------------------------------------
(* Rows and hashes.                                                        *)

Texts == {"short", "long", "long[:240]", "edited"}

\* The column holds 240 characters.
Kept(summary) == IF summary = "long" THEN "long[:240]" ELSE summary

\* A hash stands for the list of all it was computed from: equal exactly when
\* the hashed bodies and, through previous_hash, all before them are equal.
Hashes == Seq([sequence : Nat, entity_id : Nat, summary : Texts])

GENESIS_HASH == <<>>

\* (mutant) The summary is left out of the hash.
Digest_without_summary(sequence, entity_id, summary, previous_hash) ==
    Append(previous_hash, [sequence |-> sequence, entity_id |-> entity_id,
                           summary |-> "short"])

\* The hash of a body.  entity_id stands for everything else in it that
\* tells two entries apart.
Digest(sequence, entity_id, summary, previous_hash) ==
    Append(previous_hash, [sequence |-> sequence, entity_id |-> entity_id,
                           summary |-> summary])

Rows == [sequence : Nat \ {0}, entity_id : Nat, summary : Texts,
         previous_hash : Hashes, entry_hash : Hashes]

Heads == [sequence : Nat, entry_hash : Hashes]

\* (mutant) The trail starts at 0.
NoRow_from_zero == [sequence |-> -1, entry_hash |-> GENESIS_HASH]

\* What record builds on in an empty table.
NoRow == [sequence |-> 0, entry_hash |-> GENESIS_HASH]

\* (mutant) Rows that are not committed are read.
Visible_dirty(s) == audit_logs \union UNION {flushed[t] : t \in Sessions}

\* What a query of s returns: the rows committed by now and its own, as at
\* PostgreSQL's isolation level.  (SQLite lets one session write at a time and
\* has fewer behaviours.)
Visible(s) == audit_logs \union flushed[s]

\* The last row by sequence; of several, the database returns any.
Lasts(s) ==
    IF Visible(s) = {} THEN {NoRow}
    ELSE {[sequence |-> r.sequence, entry_hash |-> r.entry_hash] :
            r \in {q \in Visible(s) :
                     \A p \in Visible(s) : p.sequence <= q.sequence}}

\* The row that record builds on the row h.
Entry(h, id, summary) ==
    [sequence      |-> h.sequence + 1,
     entity_id     |-> id,
     summary       |-> Kept(summary),
     previous_hash |-> h.entry_hash,
     entry_hash    |-> Digest(h.sequence + 1, id, summary, h.entry_hash)]

-----------------------------------------------------------------------------
(* Steps.                                                                  *)

Init ==
    /\ audit_logs = {}
    /\ flushed = [s \in Sessions |-> {}]
    /\ recording = {}
    /\ head = [s \in Sessions |-> NoRow]
    /\ written = <<>>

\* The first half of record, up to the await of its query.
ReadLast(s) ==
    /\ s \notin recording
    /\ Len(written) < MaxRecords
    /\ recording' = recording \union {s}
    /\ \E h \in Lasts(s) : head' = [head EXCEPT ![s] = h]
    /\ UNCHANGED <<audit_logs, flushed, written>>

\* The second half: the row is hashed, added and flushed.
Insert(s) ==
    /\ s \in recording
    /\ Len(written) < MaxRecords
    /\ \E summary \in Summaries :
         /\ flushed' = [flushed EXCEPT ![s] =
              @ \union {Entry(head[s], Len(written) + 1, summary)}]
         /\ written' = Append(written, summary)
    /\ recording' = recording \ {s}
    /\ head' = [head EXCEPT ![s] = NoRow]
    /\ UNCHANGED audit_logs

\* The session ends well.
Commit(s) ==
    /\ s \notin recording
    /\ audit_logs' = audit_logs \union flushed[s]
    /\ flushed' = [flushed EXCEPT ![s] = {}]
    /\ UNCHANGED <<recording, head, written>>

\* (mutant) The retry of a failed call goes on from the row read before.
Rollback_and_go_on(s) ==
    /\ flushed' = [flushed EXCEPT ![s] = {}]
    /\ UNCHANGED <<audit_logs, recording, head, written>>

\* The session ends in an exception, inside record or elsewhere.
Rollback(s) ==
    /\ flushed' = [flushed EXCEPT ![s] = {}]
    /\ recording' = recording \ {s}
    /\ head' = [head EXCEPT ![s] = NoRow]
    /\ UNCHANGED <<audit_logs, written>>

\* Somebody changes the text of a committed row, as the test of the trail does.
Edit(r) ==
    /\ Edits
    /\ audit_logs' = (audit_logs \ {r}) \union {[r EXCEPT !.summary = "edited"]}
    /\ UNCHANGED <<flushed, recording, head, written>>

Next ==
    \/ \E s \in Sessions : ReadLast(s)
    \/ \E s \in Sessions : Insert(s)
    \/ \E s \in Sessions : Commit(s)
    \/ \E s \in Sessions : Rollback(s)
    \/ \E r \in audit_logs : Edit(r)

Spec == Init /\ [][Next]_vars

-----------------------------------------------------------------------------
(* verify_chain.                                                           *)

\* The orders in which the query may return the rows: by sequence, rows with
\* equal sequences in any order.
Orderings ==
    {q \in Bijection(1..Cardinality(audit_logs), audit_logs) :
       \A i, j \in DOMAIN q : i < j => q[i].sequence <= q[j].sequence}

\* The positions a walk with this limit visits; 0 is no limit.
Window(q, limit) == {i \in DOMAIN q : limit = 0 \/ i <= limit}

\* The hash the walk carries when it comes to position i.
Previous(q, i) == IF i = 1 THEN GENESIS_HASH ELSE q[i - 1].entry_hash

Reproduces(q, i) ==
    /\ q[i].previous_hash = Previous(q, i)
    /\ q[i].entry_hash = Digest(q[i].sequence, q[i].entity_id, q[i].summary,
                                Previous(q, i))

Broken(q, limit) == {i \in Window(q, limit) : ~Reproduces(q, i)}

verify_chain(q, limit) ==
    IF Broken(q, limit) = {}
    THEN [valid |-> TRUE, broken_at |-> 0]
    ELSE [valid |-> FALSE, broken_at |-> q[Min(Broken(q, limit))].sequence]

-----------------------------------------------------------------------------
(* Properties.                                                             *)

\* The rows, the sessions and the history have their types; a row has a
\* sequence of 1 or more (services/audit.py:47).
TypeOK ==
    /\ audit_logs \subseteq Rows
    /\ flushed \in [Sessions -> SUBSET Rows]
    /\ recording \subseteq Sessions
    /\ head \in [Sessions -> Heads]
    /\ written \in Seq(Summaries)

\* r is the first entry or follows an entry of rows.
Follows(r, rows) ==
    \/ r.sequence = 1 /\ r.previous_hash = GENESIS_HASH
    \/ \E p \in rows : /\ r.sequence = p.sequence + 1
                       /\ r.previous_hash = p.entry_hash

\* Whatever sessions overlap, commit or roll back, every committed entry leads
\* back to the genesis hash through committed entries, one number at a time:
\* no entry hangs from a row that was rolled back (services/audit.py:44-48).
EntriesAreRooted == \A r \in audit_logs : Follows(r, audit_logs)

\* The row does not hold the text that was recorded: it was edited, or cut.
Altered(r) == r.summary # written[r.entity_id]

\* Another row among these has its number: two sessions read the same last row.
HasTwin(r, rows) == \E p \in rows \ {r} : p.sequence = r.sequence

\* The rows a walk visits, and those of them that it should report.
Walked(q, limit) == {q[i] : i \in Window(q, limit)}
Damaged(q, limit) ==
    {r \in Walked(q, limit) : Altered(r) \/ HasTwin(r, Walked(q, limit))}

\* verify_chain says neither more nor less than it can know
\* (services/audit.py:81-104): among the rows it walks, the first number at
\* which a text is not the one recorded or two rows stand, and that the chain
\* is valid when there is none; in whatever order rows of one number come.
VerdictIsExact ==
    \A q \in Orderings, limit \in 0..MaxRecords :
      verify_chain(q, limit) =
        IF Damaged(q, limit) = {}
        THEN [valid |-> TRUE, broken_at |-> 0]
        ELSE [valid |-> FALSE,
              broken_at |-> Min({r.sequence : r \in Damaged(q, limit)})]

-----------------------------------------------------------------------------
(* What is inductive.                                                      *)

\* The hash of a row covers what was given to record.
Sealed(r) ==
    /\ r.entity_id \in DOMAIN written
    /\ r.entry_hash = Digest(r.sequence, r.entity_id, written[r.entity_id],
                             r.previous_hash)

\* No two rows, committed or not, come from one call of record.
OneRowPerCall ==
    /\ \A r, p \in audit_logs : r.entity_id = p.entity_id => r = p
    /\ \A s \in Sessions : \A r \in flushed[s] :
         /\ \A p \in audit_logs : r.entity_id # p.entity_id
         /\ \A t \in Sessions : \A p \in flushed[t] :
              r.entity_id = p.entity_id => r = p /\ s = t

\* A session inside record still sees a row like the one it read.
HeadIsVisible ==
    \A s \in Sessions :
      head[s] = NoRow \/ \E p \in Visible(s) :
                           head[s] = [sequence |-> p.sequence,
                                      entry_hash |-> p.entry_hash]

\* The invariant of the proofs: the rows are sealed and told apart, and what a
\* session has inserted or is about to insert follows what it sees.
AuditInv ==
    /\ TypeOK
    /\ IsFiniteSet(audit_logs)
    /\ \A s \in Sessions : IsFiniteSet(flushed[s])
    /\ \A r \in audit_logs : Sealed(r)
    /\ \A s \in Sessions : \A r \in flushed[s] : Sealed(r)
    /\ OneRowPerCall
    /\ HeadIsVisible
    /\ EntriesAreRooted
    /\ \A s \in Sessions : \A r \in flushed[s] : Follows(r, Visible(s))

=============================================================================

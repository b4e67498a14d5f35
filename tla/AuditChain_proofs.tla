-------------------------- MODULE AuditChain_proofs --------------------------
(***************************************************************************)
(* Proofs about AuditChain for any number of sessions and of entries.      *)
(* First facts about hashes, then AuditInv action by action, and last what *)
(* a walk over the rows finds: where the text or the number of a row is    *)
(* not what record gave it, the walk stops, and nowhere before.            *)
(***************************************************************************)
EXTENDS AuditChain, FiniteSetTheorems, WellFoundedInduction, TLAPS

-----------------------------------------------------------------------------
(* Hashes.                                                                 *)

\* The texts record is given are texts a row can hold, cut or not.
LEMMA SummariesAreTexts ==
    \A t \in Summaries : t \in Texts /\ Kept(t) \in Texts
BY AuditConstants DEF Texts, Kept

\* A hash is a hash again, is not the genesis hash, and tells everything that
\* went into it (services/audit.py:29-30).
LEMMA DigestFacts ==
    ASSUME NEW n \in Nat, NEW i \in Nat, NEW t \in Texts, NEW h \in Hashes
    PROVE  /\ Digest(n, i, t, h) \in Hashes
           /\ Digest(n, i, t, h) # GENESIS_HASH
           /\ Len(Digest(n, i, t, h)) = Len(h) + 1
           /\ Digest(n, i, t, h)[Len(h) + 1] =
                [sequence |-> n, entity_id |-> i, summary |-> t]
<1> DEFINE Body == [sequence : Nat, entity_id : Nat, summary : Texts]
           body == [sequence |-> n, entity_id |-> i, summary |-> t]
<1>1. body \in Body
  OBVIOUS
<1>2. h \in Seq(Body)
  BY DEF Hashes
<1> HIDE DEF Body, body
<1>3. /\ Append(h, body) \in Seq(Body)
      /\ Len(Append(h, body)) = Len(h) + 1
      /\ Append(h, body)[Len(h) + 1] = body
  BY <1>1, <1>2
<1>4. Append(h, body) # <<>>
  BY <1>2, <1>3
<1> QED BY <1>3, <1>4 DEF Digest, Hashes, GENESIS_HASH, Body, body

\* Equal hashes were computed from equal numbers and texts.
LEMMA DigestTells ==
    ASSUME NEW n \in Nat, NEW i \in Nat, NEW t \in Texts, NEW h \in Hashes,
           NEW m \in Nat, NEW j \in Nat, NEW u \in Texts, NEW g \in Hashes,
           Digest(n, i, t, h) = Digest(m, j, u, g)
    PROVE  n = m /\ t = u
<1>1. Len(h) \in Nat /\ Len(g) \in Nat
  BY DEF Hashes
<1>2. Len(h) = Len(g)
  <2>1. Len(Digest(n, i, t, h)) = Len(h) + 1
    BY DigestFacts
  <2>2. Len(Digest(m, j, u, g)) = Len(g) + 1
    BY DigestFacts
  <2> QED BY <1>1, <2>1, <2>2
<1>3. [sequence |-> n, entity_id |-> i, summary |-> t]
        = [sequence |-> m, entity_id |-> j, summary |-> u]
  <2>1. Digest(n, i, t, h)[Len(h) + 1]
          = [sequence |-> n, entity_id |-> i, summary |-> t]
    BY DigestFacts
  <2>2. Digest(m, j, u, g)[Len(g) + 1]
          = [sequence |-> m, entity_id |-> j, summary |-> u]
    BY DigestFacts
  <2> QED BY <1>2, <2>1, <2>2
<1>4. n = m
  BY <1>3
<1>5. t = u
  BY <1>3
<1> QED BY <1>4, <1>5

\* The row record makes is a row, and follows the one it was built on.
LEMMA EntryFacts ==
    ASSUME NEW h \in Heads, NEW id \in Nat, NEW t \in Summaries
    PROVE  /\ Entry(h, id, t) \in Rows
           /\ Entry(h, id, t).sequence = h.sequence + 1
           /\ Entry(h, id, t).entity_id = id
           /\ Entry(h, id, t).previous_hash = h.entry_hash
           /\ Entry(h, id, t).entry_hash =
                Digest(h.sequence + 1, id, t, h.entry_hash)
<1>1. /\ h.sequence \in Nat
      /\ h.entry_hash \in Hashes
      /\ h.sequence + 1 \in Nat \ {0}
  BY DEF Heads
<1>2. t \in Texts /\ Kept(t) \in Texts
  BY SummariesAreTexts
<1>3. Digest(h.sequence + 1, id, t, h.entry_hash) \in Hashes
  BY <1>1, <1>2, DigestFacts
<1> QED BY <1>1, <1>2, <1>3 DEF Entry, Rows

\* What is followed among some rows is followed among more.
LEMMA FollowsMore ==
    ASSUME NEW r, NEW S, NEW T, S \subseteq T, Follows(r, S)
    PROVE  Follows(r, T)
BY DEF Follows

-----------------------------------------------------------------------------
(* AuditInv is inductive.                                                  *)

\* An empty trail satisfies it.
LEMMA InitKeeps == Init => AuditInv
<1> SUFFICES ASSUME Init PROVE AuditInv
  OBVIOUS
<1>1. NoRow \in Heads
  BY DEF NoRow, Heads, GENESIS_HASH, Hashes
<1>2. TypeOK
  BY <1>1 DEF Init, TypeOK
<1>3. IsFiniteSet({})
  BY FS_EmptySet
<1> QED BY <1>2, <1>3 DEF Init, AuditInv, OneRowPerCall, HeadIsVisible,
                          EntriesAreRooted

\* The last row a session sees is one it sees.
LEMMA ReadLastKeeps ==
    ASSUME AuditInv, NEW s \in Sessions, ReadLast(s)
    PROVE  AuditInv'
<1>1. PICK h \in Lasts(s) : head' = [head EXCEPT ![s] = h]
  BY DEF ReadLast
<1>2. Visible(s) \subseteq Rows
  BY DEF AuditInv, TypeOK, Visible
<1>3. /\ h \in Heads
      /\ h = NoRow \/ \E p \in Visible(s) :
                        h = [sequence |-> p.sequence,
                             entry_hash |-> p.entry_hash]
  <2>1. CASE Visible(s) = {}
    <3>1. h = NoRow
      BY <2>1 DEF Lasts
    <3> QED BY <3>1 DEF NoRow, Heads, GENESIS_HASH, Hashes
  <2>2. CASE Visible(s) # {}
    <3>1. PICK p \in Visible(s) : h = [sequence |-> p.sequence,
                                       entry_hash |-> p.entry_hash]
      BY <2>2 DEF Lasts
    <3>2. p.sequence \in Nat /\ p.entry_hash \in Hashes
      BY <1>2 DEF Rows
    <3> QED BY <3>1, <3>2 DEF Heads
  <2> QED BY <2>1, <2>2
<1>4. UNCHANGED <<audit_logs, flushed, written>>
  BY DEF ReadLast
<1>5. TypeOK'
  BY <1>1, <1>3, <1>4 DEF AuditInv, TypeOK, ReadLast
<1>6. HeadIsVisible'
  <2> SUFFICES ASSUME NEW t \in Sessions
               PROVE  (head[t] = NoRow \/ \E p \in Visible(t) :
                                head[t] = [sequence |-> p.sequence,
                                           entry_hash |-> p.entry_hash])'
    BY DEF HeadIsVisible
  <2>1. Visible(t)' = Visible(t)
    BY <1>4 DEF Visible
  <2>2. head'[t] = IF t = s THEN h ELSE head[t]
    BY <1>1 DEF AuditInv, TypeOK
  <2>3. NoRow' = NoRow
    BY DEF NoRow, GENESIS_HASH
  <2> QED BY <1>3, <2>1, <2>2, <2>3 DEF AuditInv, HeadIsVisible
<1> QED BY <1>4, <1>5, <1>6
        DEF AuditInv, Sealed, OneRowPerCall, EntriesAreRooted, Follows, Visible

\* The new row is sealed, has an id of its own and follows what was read.
LEMMA InsertKeeps ==
    ASSUME AuditInv, NEW s \in Sessions, Insert(s)
    PROVE  AuditInv'
<1>1. PICK t \in Summaries :
        /\ flushed' = [flushed EXCEPT ![s] =
             @ \union {Entry(head[s], Len(written) + 1, t)}]
        /\ written' = Append(written, t)
  BY DEF Insert
<1> DEFINE id == Len(written) + 1
<1>e. PICK e : e = Entry(head[s], id, t)
  OBVIOUS
<1>2. /\ head[s] \in Heads
      /\ written \in Seq(Summaries)
      /\ Len(written) \in Nat
      /\ id \in Nat
  BY DEF AuditInv, TypeOK
<1>3. /\ e \in Rows
      /\ e.sequence = head[s].sequence + 1
      /\ e.entity_id = id
      /\ e.previous_hash = head[s].entry_hash
      /\ e.entry_hash = Digest(e.sequence, id, t, e.previous_hash)
  BY <1>e, <1>2, EntryFacts
<1>4. /\ written' \in Seq(Summaries)
      /\ DOMAIN written' = 1..id
      /\ DOMAIN written = 1..Len(written)
      /\ written'[id] = t
      /\ \A i \in DOMAIN written : i \in DOMAIN written' /\ written'[i] = written[i]
  BY <1>1, <1>2
<1>5. UNCHANGED audit_logs
  BY DEF Insert
<1>6. \A u \in Sessions :
        flushed'[u] = IF u = s THEN flushed[s] \union {e} ELSE flushed[u]
  BY <1>1, <1>e DEF AuditInv, TypeOK
<1>7. TypeOK'
  <2>1. flushed' \in [Sessions -> SUBSET Rows]
    BY <1>1, <1>e, <1>3 DEF AuditInv, TypeOK
  <2>2. NoRow \in Heads
    BY DEF NoRow, Heads, GENESIS_HASH, Hashes
  <2> QED BY <1>4, <1>5, <2>1, <2>2 DEF AuditInv, TypeOK, Insert
<1>8. ASSUME NEW r, Sealed(r)
      PROVE  Sealed(r)' /\ r.entity_id # id
  BY <1>2, <1>4, <1>8 DEF Sealed, Digest
<1>9. Sealed(e)'
  BY <1>2, <1>3, <1>4 DEF Sealed, Digest
<1>10. \A u \in Sessions : \A r \in flushed'[u] : Sealed(r)'
  BY <1>6, <1>8, <1>9 DEF AuditInv
<1>11. \A r \in audit_logs' : Sealed(r)'
  BY <1>5, <1>8 DEF AuditInv
<1>12. OneRowPerCall'
  <2>1. \A r \in audit_logs : r.entity_id # e.entity_id
    BY <1>3, <1>8 DEF AuditInv
  <2>2. \A u \in Sessions : \A r \in flushed[u] : r.entity_id # e.entity_id
    BY <1>3, <1>8 DEF AuditInv
  <2> SUFFICES ASSUME NEW u \in Sessions, NEW r \in flushed'[u]
               PROVE  /\ \A p \in audit_logs : r.entity_id # p.entity_id
                      /\ \A v \in Sessions : \A p \in flushed'[v] :
                           r.entity_id = p.entity_id => r = p /\ u = v
    BY <1>5 DEF AuditInv, OneRowPerCall
  <2>3. CASE r = e /\ u = s
    BY <1>6, <2>1, <2>2, <2>3
  <2>4. CASE r \in flushed[u]
    BY <1>6, <2>1, <2>2, <2>4 DEF AuditInv, OneRowPerCall
  <2> QED BY <1>6, <2>3, <2>4
<1>13. \A u \in Sessions : Visible(u) \subseteq Visible(u)'
  BY <1>5, <1>6 DEF Visible
<1>14. HeadIsVisible'
  <2>1. \A u \in Sessions : head'[u] = IF u = s THEN NoRow ELSE head[u]
    BY DEF AuditInv, TypeOK, Insert
  <2>2. NoRow' = NoRow
    BY DEF NoRow, GENESIS_HASH
  <2> QED BY <1>13, <2>1, <2>2 DEF AuditInv, HeadIsVisible
<1>15. Follows(e, Visible(s))
  <2>1. CASE head[s] = NoRow
    BY <1>3, <2>1 DEF Follows, NoRow
  <2>2. CASE \E p \in Visible(s) : head[s] = [sequence |-> p.sequence,
                                              entry_hash |-> p.entry_hash]
    BY <1>3, <2>2 DEF Follows
  <2> QED BY <2>1, <2>2 DEF AuditInv, HeadIsVisible
<1>16. \A u \in Sessions : \A r \in flushed'[u] : Follows(r, Visible(u)')
  <2>1. \A u \in Sessions : \A r \in flushed'[u] : Follows(r, Visible(u))
    BY <1>6, <1>15 DEF AuditInv
  <2> QED BY <1>13, <2>1, FollowsMore
<1>17. \A u \in Sessions : IsFiniteSet(flushed'[u])
  BY <1>6, FS_AddElement DEF AuditInv
<1> QED BY <1>5, <1>7, <1>10, <1>11, <1>12, <1>14, <1>16, <1>17
        DEF AuditInv, EntriesAreRooted, Follows
\* What the session sees becomes what everybody sees.
LEMMA CommitKeeps ==
    ASSUME AuditInv, NEW s \in Sessions, Commit(s)
    PROVE  AuditInv'
<1>1. /\ audit_logs' = audit_logs \union flushed[s]
      /\ UNCHANGED <<recording, head, written>>
      /\ \A u \in Sessions :
           flushed'[u] = IF u = s THEN {} ELSE flushed[u]
  BY DEF AuditInv, TypeOK, Commit
<1>2. TypeOK'
  BY <1>1 DEF AuditInv, TypeOK, Commit
<1>3. \A u \in Sessions : Visible(u) \subseteq Visible(u)'
  BY <1>1 DEF Visible
<1>4. Visible(s) = audit_logs'
  BY <1>1 DEF Visible
<1>5. IsFiniteSet(audit_logs')
  BY <1>1, FS_Union DEF AuditInv
<1>6. \A u \in Sessions : IsFiniteSet(flushed'[u])
  BY <1>1, FS_EmptySet DEF AuditInv
<1>7. /\ \A r \in audit_logs' : Sealed(r)'
      /\ \A u \in Sessions : \A r \in flushed'[u] : Sealed(r)'
  BY <1>1 DEF AuditInv, Sealed
<1>8. OneRowPerCall'
  <2>1. \A r, p \in audit_logs' : r.entity_id = p.entity_id => r = p
    BY <1>1 DEF AuditInv, OneRowPerCall
  <2>2. \A u \in Sessions : \A r \in flushed'[u] : \A p \in audit_logs' :
          r.entity_id # p.entity_id
    BY <1>1 DEF AuditInv, OneRowPerCall
  <2>3. \A u, v \in Sessions : \A r \in flushed'[u] : \A p \in flushed'[v] :
          r.entity_id = p.entity_id => r = p /\ u = v
    BY <1>1 DEF AuditInv, OneRowPerCall
  <2> QED BY <2>1, <2>2, <2>3 DEF OneRowPerCall
<1>9. HeadIsVisible'
  <2>1. NoRow' = NoRow
    BY DEF NoRow, GENESIS_HASH
  <2> QED BY <1>1, <1>3, <2>1 DEF AuditInv, HeadIsVisible
<1>10. \A r \in audit_logs' : Follows(r, audit_logs')
  <2>1. ASSUME NEW r \in audit_logs PROVE Follows(r, audit_logs')
    BY <1>1, FollowsMore DEF AuditInv, EntriesAreRooted
  <2>2. ASSUME NEW r \in flushed[s] PROVE Follows(r, audit_logs')
    BY <1>4 DEF AuditInv
  <2> QED BY <1>1, <2>1, <2>2
<1>11. \A u \in Sessions : \A r \in flushed'[u] : Follows(r, Visible(u)')
  <2> SUFFICES ASSUME NEW u \in Sessions, NEW r \in flushed'[u]
               PROVE  Follows(r, Visible(u)')
    OBVIOUS
  <2>1. Follows(r, Visible(u))
    BY <1>1 DEF AuditInv
  <2> QED BY <1>3, <2>1, FollowsMore
<1> QED BY <1>2, <1>5, <1>6, <1>7, <1>8, <1>9, <1>10, <1>11
        DEF AuditInv, EntriesAreRooted, Follows

\* Nothing committed hangs from what a session gives up.
LEMMA RollbackKeeps ==
    ASSUME AuditInv, NEW s \in Sessions, Rollback(s)
    PROVE  AuditInv'
<1>1. /\ UNCHANGED <<audit_logs, written>>
      /\ \A u \in Sessions :
           flushed'[u] = IF u = s THEN {} ELSE flushed[u]
      /\ \A u \in Sessions : head'[u] = IF u = s THEN NoRow ELSE head[u]
  BY DEF AuditInv, TypeOK, Rollback
<1>2. TypeOK'
  <2>1. NoRow \in Heads
    BY DEF NoRow, Heads, GENESIS_HASH, Hashes
  <2> QED BY <2>1 DEF AuditInv, TypeOK, Rollback
<1>3. \A u \in Sessions : u # s => Visible(u)' = Visible(u)
  BY <1>1 DEF Visible
<1>4. NoRow' = NoRow
  BY DEF NoRow, GENESIS_HASH
<1>5. HeadIsVisible'
  BY <1>1, <1>3, <1>4 DEF AuditInv, HeadIsVisible
<1>6. \A u \in Sessions : IsFiniteSet(flushed'[u])
  BY <1>1, FS_EmptySet DEF AuditInv
<1>7. OneRowPerCall'
  BY <1>1 DEF AuditInv, OneRowPerCall
<1>8. \A u \in Sessions : \A r \in flushed'[u] : Follows(r, Visible(u)')
  BY <1>1, <1>3 DEF AuditInv
<1> QED BY <1>1, <1>2, <1>5, <1>6, <1>7, <1>8
        DEF AuditInv, EntriesAreRooted, Follows, Sealed

\* An edited row keeps its number, its hashes and its id.
LEMMA EditKeeps ==
    ASSUME AuditInv, NEW r \in audit_logs, Edit(r)
    PROVE  AuditInv'
<1> DEFINE Like(p, q) == /\ p.sequence = q.sequence
                         /\ p.entity_id = q.entity_id
                         /\ p.previous_hash = q.previous_hash
                         /\ p.entry_hash = q.entry_hash
<1>e. PICK e : e = [r EXCEPT !.summary = "edited"]
  OBVIOUS
<1>1. /\ audit_logs' = (audit_logs \ {r}) \union {e}
      /\ UNCHANGED <<flushed, recording, head, written>>
  BY <1>e DEF Edit
<1>2. r \in Rows
  BY DEF AuditInv, TypeOK
<1>3. e \in Rows /\ Like(e, r)
  BY <1>e, <1>2 DEF Rows, Texts
<1> HIDE DEF Like
<1>4. \A p : Like(p, p)
  BY DEF Like
<1>5. \A p \in audit_logs : \E q \in audit_logs' : Like(q, p)
  BY <1>1, <1>3, <1>4
<1>6. \A q \in audit_logs' : \E p \in audit_logs :
        Like(q, p) /\ (p = r => q = e) /\ (p # r => q = p)
  BY <1>1, <1>3, <1>4
<1>7. \A u \in Sessions : \A p \in Visible(u) : \E q \in Visible(u)' : Like(q, p)
  BY <1>1, <1>4, <1>5 DEF Visible
<1>8. TypeOK'
  BY <1>1, <1>3 DEF AuditInv, TypeOK
<1>9. IsFiniteSet(audit_logs')
  <2>1. IsFiniteSet(audit_logs \ {r})
    BY FS_RemoveElement DEF AuditInv
  <2> QED BY <1>1, <2>1, FS_AddElement
<1>10. \A q \in audit_logs' : Sealed(q)'
  BY <1>1, <1>6 DEF AuditInv, Sealed, Like
<1>11. OneRowPerCall'
  <2>1. \A q, p \in audit_logs' : q.entity_id = p.entity_id => q = p
    <3> SUFFICES ASSUME NEW q \in audit_logs', NEW p \in audit_logs',
                        q.entity_id = p.entity_id
                 PROVE  q = p
      OBVIOUS
    <3>1. PICK q0 \in audit_logs :
            Like(q, q0) /\ (q0 = r => q = e) /\ (q0 # r => q = q0)
      BY <1>6
    <3>2. PICK p0 \in audit_logs :
            Like(p, p0) /\ (p0 = r => p = e) /\ (p0 # r => p = p0)
      BY <1>6
    <3>3. q0.entity_id = p0.entity_id
      BY <3>1, <3>2 DEF Like
    <3>4. q0 = p0
      BY <3>3 DEF AuditInv, OneRowPerCall
    <3> QED BY <3>1, <3>2, <3>4
  <2>2. \A u \in Sessions : \A q \in flushed[u] : \A p \in audit_logs' :
          q.entity_id # p.entity_id
    BY <1>6 DEF AuditInv, OneRowPerCall, Like
  <2> QED BY <1>1, <2>1, <2>2 DEF AuditInv, OneRowPerCall
<1>12. HeadIsVisible'
  <2> SUFFICES ASSUME NEW u \in Sessions, head[u] # NoRow
               PROVE  \E q \in Visible(u)' :
                        head[u] = [sequence |-> q.sequence,
                                   entry_hash |-> q.entry_hash]
    BY <1>1 DEF HeadIsVisible, NoRow, GENESIS_HASH
  <2>1. PICK p \in Visible(u) : head[u] = [sequence |-> p.sequence,
                                           entry_hash |-> p.entry_hash]
    BY DEF AuditInv, HeadIsVisible
  <2>2. PICK q \in Visible(u)' : Like(q, p)
    BY <1>7
  <2> QED BY <2>1, <2>2 DEF Like
<1>13. \A q \in audit_logs' : Follows(q, audit_logs')
  <2> SUFFICES ASSUME NEW q \in audit_logs' PROVE Follows(q, audit_logs')
    OBVIOUS
  <2>1. PICK p \in audit_logs : Like(q, p)
    BY <1>6
  <2>2. Follows(p, audit_logs)
    BY DEF AuditInv, EntriesAreRooted
  <2> QED BY <1>5, <2>1, <2>2 DEF Follows, Like
<1>14. \A u \in Sessions : \A q \in flushed[u] : Follows(q, Visible(u)')
  BY <1>7 DEF AuditInv, Follows, Like
<1> QED BY <1>1, <1>8, <1>9, <1>10, <1>11, <1>12, <1>13, <1>14
        DEF AuditInv, EntriesAreRooted, Follows, Sealed

\* AuditInv holds in every reachable state (services/audit.py:33-78).
THEOREM AuditInvariant == Spec => []AuditInv
<1>1. Init => AuditInv
  BY InitKeeps
<1>2. AuditInv /\ [Next]_vars => AuditInv'
  <2> SUFFICES ASSUME AuditInv, [Next]_vars PROVE AuditInv'
    OBVIOUS
  <2>1. CASE UNCHANGED vars
    BY <2>1 DEF AuditInv, TypeOK, OneRowPerCall, HeadIsVisible, Visible,
                EntriesAreRooted, Follows, Sealed, vars
  <2>2. CASE \E s \in Sessions : ReadLast(s)
    BY <2>2, ReadLastKeeps
  <2>3. CASE \E s \in Sessions : Insert(s)
    BY <2>3, InsertKeeps
  <2>4. CASE \E s \in Sessions : Commit(s)
    BY <2>4, CommitKeeps
  <2>5. CASE \E s \in Sessions : Rollback(s)
    BY <2>5, RollbackKeeps
  <2>6. CASE \E r \in audit_logs : Edit(r)
    BY <2>6, EditKeeps
  <2> QED BY <2>1, <2>2, <2>3, <2>4, <2>5, <2>6 DEF Next
<1> QED BY <1>1, <1>2, PTL DEF Spec

\* Every variable keeps its type.
THEOREM AuditTypeCorrect == Spec => []TypeOK
<1>1. AuditInv => TypeOK
  BY DEF AuditInv
<1> QED BY <1>1, AuditInvariant, PTL

\* Every committed entry leads back to the genesis hash, however the sessions
\* overlap (services/audit.py:44-48).
THEOREM RootedTrail == Spec => []EntriesAreRooted
<1>1. AuditInv => EntriesAreRooted
  BY DEF AuditInv
<1> QED BY <1>1, AuditInvariant, PTL
-----------------------------------------------------------------------------
(* What a walk finds.                                                      *)

\* q lists the committed rows, each once, by sequence.
InOrder(q, N) ==
    /\ N \in Nat
    /\ q \in [1..N -> audit_logs]
    /\ \A i, j \in 1..N : q[i] = q[j] => i = j
    /\ \A r \in audit_logs : \E i \in 1..N : q[i] = r
    /\ \A i, j \in 1..N : i < j => q[i].sequence <= q[j].sequence

\* The query returns such lists.
LEMMA OrderingsAreInOrder ==
    ASSUME AuditInv, NEW q \in Orderings
    PROVE  InOrder(q, Cardinality(audit_logs))
<1>1. Cardinality(audit_logs) \in Nat
  BY FS_CardinalityType DEF AuditInv
<1>2. /\ q \in Injection(1..Cardinality(audit_logs), audit_logs)
      /\ q \in Surjection(1..Cardinality(audit_logs), audit_logs)
      /\ \A i, j \in DOMAIN q : i < j => q[i].sequence <= q[j].sequence
  BY DEF Orderings, Bijection
<1>3. q \in [1..Cardinality(audit_logs) -> audit_logs]
  BY <1>2 DEF Injection
<1>4. \A i, j \in 1..Cardinality(audit_logs) : q[i] = q[j] => i = j
  BY <1>2, <1>3 DEF Injection, IsInjective
<1>5. \A r \in audit_logs : \E i \in 1..Cardinality(audit_logs) : q[i] = r
  BY <1>2 DEF Surjection
<1> QED BY <1>1, <1>2, <1>3, <1>4, <1>5 DEF InOrder

\* A set of numbers that is not empty has a least one.
LEMMA MinIsLeast ==
    ASSUME NEW S \in SUBSET Nat, S # {}
    PROVE  Min(S) \in S /\ \A k \in S : Min(S) <= k
<1> DEFINE R == {ss \in Nat \X Nat : ss[1] < ss[2]}
<1>1. IsWellFoundedOn(R, Nat)
  BY NatLessThanWellFounded, Zenon DEF OpToRel
<1> HIDE DEF R
<1>2. PICK m \in S : \A k \in S : <<k, m>> \notin R
  BY <1>1, WFMin
<1>3. \A k \in S : m <= k
  <2> SUFFICES ASSUME NEW k \in S, k < m PROVE FALSE
    OBVIOUS
  <2>1. <<k, m>> \in R
    BY DEF R
  <2> QED BY <2>1, <1>2
<1> QED BY <1>3 DEF Min

\* A committed row has the types and the seal of a row.
LEMMA RowFacts ==
    ASSUME AuditInv, NEW r \in audit_logs
    PROVE  /\ r \in Rows
           /\ r.sequence \in Nat \ {0}
           /\ r.entity_id \in Nat
           /\ r.summary \in Texts
           /\ written[r.entity_id] \in Texts
           /\ r.previous_hash \in Hashes
           /\ r.entry_hash = Digest(r.sequence, r.entity_id,
                                    written[r.entity_id], r.previous_hash)
           /\ Follows(r, audit_logs)
<1>1. r \in Rows /\ Sealed(r) /\ Follows(r, audit_logs)
  BY DEF AuditInv, TypeOK, EntriesAreRooted
<1>2. written[r.entity_id] \in Texts
  <2>1. written \in Seq(Summaries)
    BY DEF AuditInv, TypeOK
  <2>2. r.entity_id \in DOMAIN written
    BY <1>1 DEF Sealed
  <2>3. written[r.entity_id] \in Summaries
    BY <2>1, <2>2
  <2> QED BY <2>3, SummariesAreTexts
<1> QED BY <1>1, <1>2 DEF Rows, Sealed

\* The walk only stops at or after a damaged row: a row that holds what was
\* recorded, after rows with numbers of their own, reproduces.
LEMMA StopsAtDamage ==
    ASSUME AuditInv, NEW N, NEW q, InOrder(q, N), NEW limit \in Nat,
           NEW i \in Broken(q, limit)
    PROVE  \E r \in Damaged(q, limit) : r.sequence <= q[i].sequence
<1> SUFFICES ASSUME \A r \in Damaged(q, limit) : ~(r.sequence <= q[i].sequence)
             PROVE  FALSE
  OBVIOUS
<1>1. /\ N \in Nat
      /\ DOMAIN q = 1..N
      /\ i \in 1..N
      /\ ~Reproduces(q, i)
      /\ \A j \in 1..i : j \in Window(q, limit) /\ q[j] \in Walked(q, limit)
  BY DEF Broken, Window, Walked, InOrder
<1>2. \A j \in 1..N : q[j] \in audit_logs /\ q[j].sequence \in Nat \ {0}
  BY RowFacts DEF InOrder
<1>3. q[i] \notin Damaged(q, limit)
  BY <1>1, <1>2
<1>4. \A j \in 1..i : j # i => q[j].sequence < q[i].sequence
  <2> SUFFICES ASSUME NEW j \in 1..i, j # i
               PROVE  q[j].sequence < q[i].sequence
    OBVIOUS
  <2>1. j \in 1..N /\ j < i
    BY <1>1
  <2>2. q[j].sequence <= q[i].sequence /\ q[j] # q[i]
    BY <1>1, <2>1 DEF InOrder
  <2>3. q[j].sequence # q[i].sequence
    BY <1>1, <1>3, <2>2 DEF Damaged, HasTwin
  <2> QED BY <1>1, <1>2, <2>1, <2>2, <2>3
<1>5. q[i].entry_hash = Digest(q[i].sequence, q[i].entity_id, q[i].summary,
                               q[i].previous_hash)
  <2>1. ~Altered(q[i])
    BY <1>1, <1>3 DEF Damaged
  <2> QED BY <1>1, <1>2, <2>1, RowFacts DEF Altered
<1>6. q[i].previous_hash # Previous(q, i)
  BY <1>1, <1>5 DEF Reproduces
<1>7. CASE q[i].sequence = 1 /\ q[i].previous_hash = GENESIS_HASH
  <2>1. i # 1
    BY <1>6, <1>7 DEF Previous
  <2>2. 1 \in 1..i /\ 1 \in 1..N
    BY <1>1
  <2>3. q[1].sequence < 1
    BY <1>4, <1>7, <2>1, <2>2
  <2> QED BY <1>2, <2>2, <2>3
<1>8. CASE \E p \in audit_logs : /\ q[i].sequence = p.sequence + 1
                                 /\ q[i].previous_hash = p.entry_hash
  <2>1. PICK p \in audit_logs : /\ q[i].sequence = p.sequence + 1
                                /\ q[i].previous_hash = p.entry_hash
    BY <1>8
  <2>2. PICK j \in 1..N : q[j] = p
    BY DEF InOrder
  <2>3. q[j].sequence < q[i].sequence
    BY <1>1, <1>2, <2>1, <2>2
  <2>4. j < i
    <3>1. j # i
      BY <1>1, <1>2, <2>3
    <3>2. ~(i < j)
      BY <1>1, <1>2, <2>3 DEF InOrder
    <3> QED BY <1>1, <3>1, <3>2
  <2>5. i - 1 \in 1..i /\ i - 1 \in 1..N /\ j \in 1..i /\ i # 1
    BY <1>1, <2>4
  <2>6. q[i - 1].sequence = p.sequence
    <3>1. q[i - 1].sequence < q[i].sequence
      BY <1>1, <1>4, <2>5
    <3>2. q[j].sequence <= q[i - 1].sequence
      <4>1. CASE j = i - 1
        BY <1>2, <4>1
      <4>2. CASE j < i - 1
        BY <2>5, <4>2 DEF InOrder
      <4> QED BY <1>1, <2>4, <4>1, <4>2
    <3> QED BY <1>1, <1>2, <2>1, <2>2, <2>5, <3>1, <3>2
  <2>7. j = i - 1
    <3> SUFFICES ASSUME j # i - 1 PROVE FALSE
      OBVIOUS
    <3>1. q[i - 1] # p
      BY <2>2, <2>5 DEF InOrder
    <3>2. p \in Walked(q, limit) /\ q[i - 1] \in Walked(q, limit)
      BY <1>1, <2>2, <2>5
    <3>3. p \in Damaged(q, limit)
      BY <2>6, <3>1, <3>2 DEF Damaged, HasTwin
    <3>4. p.sequence <= q[i].sequence
      BY <1>1, <1>2, <2>2, <2>3
    <3> QED BY <3>3, <3>4
  <2>8. Previous(q, i) = q[i].previous_hash
    BY <2>1, <2>2, <2>5, <2>7 DEF Previous
  <2> QED BY <1>6, <2>8
<1>9. Follows(q[i], audit_logs)
  BY <1>1, <1>2, RowFacts
<1> QED BY <1>7, <1>8, <1>9 DEF Follows
\* Of two rows with one number the walk stops at the later: it cannot follow
\* the earlier one.
LEMMA StopsAtTwin ==
    ASSUME AuditInv, NEW N, NEW q, InOrder(q, N), NEW limit \in Nat,
           NEW a \in Window(q, limit), NEW b \in Window(q, limit),
           a < b, q[a].sequence = q[b].sequence
    PROVE  b \in Broken(q, limit)
<1>1. N \in Nat /\ a \in 1..N /\ b \in 1..N
  BY DEF Window, InOrder
<1>2. b - 1 \in 1..N /\ b # 1
  BY <1>1
<1>3. q[b - 1] \in audit_logs /\ q[b] \in audit_logs /\ q[a] \in audit_logs
  BY <1>1, <1>2 DEF InOrder
<1>4. q[b - 1].sequence = q[b].sequence
  <2>1. q[b - 1].sequence <= q[b].sequence
    BY <1>1, <1>2 DEF InOrder
  <2>2. q[a].sequence <= q[b - 1].sequence
    <3>1. CASE a = b - 1
      BY <1>3, <3>1, RowFacts
    <3>2. CASE a < b - 1
      BY <1>1, <1>2, <3>2 DEF InOrder
    <3> QED BY <1>1, <3>1, <3>2
  <2> QED BY <1>3, <2>1, <2>2, RowFacts
<1>5. q[b].previous_hash # q[b - 1].entry_hash
  <2> DEFINE y == q[b - 1]
  <2> SUFFICES ASSUME q[b].previous_hash = y.entry_hash PROVE FALSE
    OBVIOUS
  <2>1. /\ y.sequence \in Nat /\ y.entity_id \in Nat
        /\ written[y.entity_id] \in Texts /\ y.previous_hash \in Hashes
        /\ y.entry_hash = Digest(y.sequence, y.entity_id,
                                 written[y.entity_id], y.previous_hash)
    BY <1>3, RowFacts
  <2>2. y.entry_hash # GENESIS_HASH
    <3> HIDE DEF y
    <3>1. \A n \in Nat, i \in Nat, t \in Texts, h \in Hashes :
            Digest(n, i, t, h) # GENESIS_HASH
      BY DigestFacts
    <3> QED BY <2>1, <3>1
  <2>3. PICK p \in audit_logs : /\ q[b].sequence = p.sequence + 1
                                /\ q[b].previous_hash = p.entry_hash
    BY <1>3, <2>2, RowFacts DEF Follows
  <2>4. /\ p.sequence \in Nat /\ p.entity_id \in Nat
        /\ written[p.entity_id] \in Texts /\ p.previous_hash \in Hashes
        /\ p.entry_hash = Digest(p.sequence, p.entity_id,
                                 written[p.entity_id], p.previous_hash)
    BY RowFacts
  <2> HIDE DEF y
  <2>5. Digest(p.sequence, p.entity_id, written[p.entity_id], p.previous_hash)
          = Digest(y.sequence, y.entity_id, written[y.entity_id],
                   y.previous_hash)
    BY <2>1, <2>3, <2>4
  <2>6. p.sequence = y.sequence
    BY <2>1, <2>4, <2>5, DigestTells, SMTT(30)
  <2> QED BY <1>4, <2>1, <2>3, <2>6 DEF y
<1> QED BY <1>2, <1>5 DEF Broken, Reproduces, Previous

\* The walk stops at or before every damaged row.
LEMMA DamageStops ==
    ASSUME AuditInv, NEW N, NEW q, InOrder(q, N), NEW limit \in Nat,
           NEW r \in Damaged(q, limit)
    PROVE  \E i \in Broken(q, limit) : q[i].sequence <= r.sequence
<1>1. PICK k \in Window(q, limit) : q[k] = r
  BY DEF Damaged, Walked
<1>2. k \in 1..N /\ N \in Nat /\ r \in audit_logs
  BY <1>1 DEF Window, InOrder
<1>3. r.sequence \in Nat
  BY <1>2, RowFacts
<1>4. CASE Altered(r)
  <2>1. ~Reproduces(q, k)
    <3> SUFFICES ASSUME Reproduces(q, k) PROVE FALSE
      OBVIOUS
    <3>1. r.entry_hash = Digest(r.sequence, r.entity_id, r.summary,
                                r.previous_hash)
      BY <1>1 DEF Reproduces
    <3>2. /\ r.entity_id \in Nat /\ r.summary \in Texts
          /\ written[r.entity_id] \in Texts /\ r.previous_hash \in Hashes
          /\ r.entry_hash = Digest(r.sequence, r.entity_id,
                                   written[r.entity_id], r.previous_hash)
      BY <1>2, RowFacts
    <3>3. Digest(r.sequence, r.entity_id, r.summary, r.previous_hash)
            = Digest(r.sequence, r.entity_id, written[r.entity_id],
                     r.previous_hash)
      BY <3>1, <3>2
    <3>4. r.summary = written[r.entity_id]
      BY <1>3, <3>2, <3>3, DigestTells
    <3> QED BY <1>4, <3>4 DEF Altered
  <2> QED BY <1>1, <1>3, <2>1 DEF Broken
<1>5. CASE HasTwin(r, Walked(q, limit))
  <2>1. PICK l \in Window(q, limit) : q[l] # r /\ q[l].sequence = r.sequence
    BY <1>5 DEF HasTwin, Walked
  <2>2. l \in 1..N /\ l # k
    BY <1>1, <2>1 DEF Window, InOrder
  <2>3. CASE l < k
    <3>1. k \in Broken(q, limit)
      BY <1>1, <2>1, <2>3, StopsAtTwin
    <3> QED BY <1>1, <1>3, <3>1
  <2>4. CASE k < l
    <3>1. l \in Broken(q, limit)
      BY <1>1, <2>1, <2>4, StopsAtTwin
    <3> QED BY <1>3, <2>1, <3>1
  <2> QED BY <1>2, <2>2, <2>3, <2>4
<1> QED BY <1>4, <1>5 DEF Damaged

\* The verdict of verify_chain is exact for any number of entries, sessions,
\* edits and limits (services/audit.py:81-104).
THEOREM VerdictExact == Spec => []VerdictIsExact
<1>1. AuditInv => VerdictIsExact
  <2> SUFFICES ASSUME AuditInv, NEW q \in Orderings, NEW limit \in 0..MaxRecords
               PROVE  verify_chain(q, limit) =
                        IF Damaged(q, limit) = {}
                        THEN [valid |-> TRUE, broken_at |-> 0]
                        ELSE [valid |-> FALSE,
                              broken_at |-> Min({r.sequence :
                                                   r \in Damaged(q, limit)})]
    BY DEF VerdictIsExact
  <2> DEFINE N == Cardinality(audit_logs)
             B == Broken(q, limit)
             D == Damaged(q, limit)
             numbers == {r.sequence : r \in D}
  <2>1. InOrder(q, N) /\ limit \in Nat
    BY AuditConstants, OrderingsAreInOrder
  <2> HIDE DEF N
  <2>2. B \subseteq 1..N /\ N \in Nat
    BY <2>1 DEF Broken, Window, InOrder
  <2>3. D \subseteq audit_logs
    BY <2>1 DEF Damaged, Walked, Window, InOrder
  <2>4. \A i \in B : \E r \in D : r.sequence <= q[i].sequence
    BY <2>1, StopsAtDamage
  <2>5. \A r \in D : \E i \in B : q[i].sequence <= r.sequence
    BY <2>1, DamageStops
  <2>6. CASE D = {}
    <3>1. B = {}
      BY <2>4, <2>6
    <3> QED BY <2>6, <3>1 DEF verify_chain
  <2>7. CASE D # {}
    <3>1. B # {} /\ B \in SUBSET Nat
      BY <2>2, <2>5, <2>7
    <3>2. Min(B) \in B /\ \A i \in B : Min(B) <= i
      BY <3>1, MinIsLeast
    <3>3. numbers \in SUBSET Nat /\ numbers # {}
      BY <2>3, <2>7, RowFacts
    <3>4. Min(numbers) \in numbers /\ \A k \in numbers : Min(numbers) <= k
      BY <3>3, MinIsLeast
    <3> HIDE DEF B, D
    <3>5. PICK d \in D : d.sequence = Min(numbers)
      BY <3>4
    <3>6. PICK i \in B : q[i].sequence <= d.sequence
      BY <2>5
    <3>7. q[Min(B)].sequence <= q[i].sequence
      <4>1. Min(B) \in 1..N /\ i \in 1..N /\ Min(B) <= i
        BY <2>2, <3>2
      <4>2. q[i].sequence \in Nat
        BY <2>1, <4>1, RowFacts DEF InOrder
      <4> QED BY <2>1, <2>2, <4>1, <4>2 DEF InOrder
    <3>8. PICK r \in D : r.sequence <= q[Min(B)].sequence
      BY <2>4, <3>2
    <3>9. Min(numbers) <= r.sequence
      BY <3>4
    <3>10. /\ q[Min(B)].sequence \in Nat /\ q[i].sequence \in Nat
           /\ d.sequence \in Nat /\ r.sequence \in Nat
      BY <2>1, <2>2, <2>3, <3>2, RowFacts DEF InOrder
    <3>11. q[Min(B)].sequence = Min(numbers)
      BY <3>5, <3>6, <3>7, <3>8, <3>9, <3>10
    <3> QED BY <2>7, <3>1, <3>11 DEF verify_chain, B, D
  <2> QED BY <2>6, <2>7
<1> QED BY <1>1, AuditInvariant, PTL
=============================================================================

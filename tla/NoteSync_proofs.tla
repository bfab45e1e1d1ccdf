---- MODULE NoteSync_proofs ----
(***************************************************************************)
(* Proofs about NoteSync, for every number of notes, of open transactions, *)
(* of rows in a page and of instants in a millisecond: the types, that a   *)
(* delta skips no write that its cursor had not passed, that a snapshot    *)
(* skips no note but for the rounding of the wire, and that no note comes  *)
(* back from a delete.                                                     *)
(***************************************************************************)
EXTENDS NoteSync, FiniteSetTheorems, TLAPS

---------------------------------------------------------------------------
(* The order of the rows                                                   *)

LEMMA InstantEq ==
  ASSUME NEW s \in Instants, NEW t \in Instants, s.ms = t.ms, s.us = t.us
  PROVE  s = t
BY DEF Instants

LEMMA WireType ==
  ASSUME SyncAssumption, NEW t \in Instants
  PROVE  Wire(t) \in Instants /\ Wire(t).ms = t.ms /\ Wire(t).us = 0
BY SyncAssumption DEF Wire, Instants, SyncAssumption

\* A cursor that is rounded down still has after it what its row has after it.
LEMMA WireBelow ==
  ASSUME SyncAssumption, NEW s \in Instants, NEW t \in Instants, NEW i \in Notes, NEW j \in Notes,
         Below(s, i, t, j)
  PROVE  Below(Wire(s), i, t, j)
<1>1. Wire(s) \in Instants /\ Wire(s).ms = s.ms /\ Wire(s).us = 0 BY WireType, SyncAssumption
<1>2. CASE Earlier(s, t)
  <2>1. s.ms \in Nat /\ s.us \in Nat /\ t.ms \in Nat /\ t.us \in Nat
    BY SyncAssumption DEF Instants, SyncAssumption
  <2> QED BY <1>1, <1>2, <2>1 DEF Earlier, Below
<1>3. CASE s = t /\ i < j
  <2>1. t.us \in Nat BY SyncAssumption DEF Instants, SyncAssumption
  <2>2. CASE t.us = 0
    BY <1>1, <1>3, <2>2, InstantEq DEF Below
  <2>3. CASE t.us # 0
    BY <1>1, <1>3, <2>1, <2>3 DEF Below, Earlier
  <2> QED BY <2>2, <2>3
<1> QED BY <1>2, <1>3 DEF Below

\* What comes before a row comes before the cursor it is rounded to, but for the
\* rows of its millisecond.
LEMMA BelowWire ==
  ASSUME SyncAssumption, NEW s \in Instants, NEW t \in Instants, NEW i \in Notes, NEW j \in Notes,
         Below(s, i, t, j)
  PROVE  \/ Below(s, i, Wire(t), j)
         \/ Wire(t) # t /\ s.ms = t.ms
<1>1. Wire(t) \in Instants /\ Wire(t).ms = t.ms BY WireType, SyncAssumption
<1>2. CASE Wire(t) = t BY <1>2
<1>3. CASE Wire(t) # t
  BY <1>1, <1>3 DEF Below, Earlier
<1> QED BY <1>2, <1>3

---------------------------------------------------------------------------
(* The inductive invariant                                                 *)

\* A live row has a body, of an earlier commit.
Bodies ==
  \A n \in Notes : row[n].body <= edits /\ (row[n].live => row[n].body > 0)

\* A note that was live throughout the snapshot was given, is still ahead of it, or
\* was rounded away.
Snapshot ==
  /\ axis = "none" => first
  /\ axis = "snapshot" /\ ~first => cursor.id # 0
  /\ axis \in {"snapshot", "done"} =>
       \A n \in steady : /\ row[n].live
                         /\ \/ got[n] # 0
                            \/ row[n].created.ms \in cuts
                            \/ axis = "snapshot" /\ (first \/ Before(n, cursor))

IInv == TypeOK /\ Bodies /\ DeltaNeverSkips /\ Snapshot

---------------------------------------------------------------------------
(* A step keeps it                                                         *)

LEMMA Stays ==
  ASSUME IInv, now' \in Instants, tx' \in [Writers -> Instants \cup {None}],
         UNCHANGED <<row, edits, pull>>
  PROVE  IInv'
BY DEF IInv, TypeOK, Bodies, DeltaNeverSkips, Snapshot, Since, Before, pull

LEMMA ClockStays ==
  ASSUME SyncAssumption, IInv, Tick
  PROVE  IInv'
<1>1. now.ms \in 0 .. MaxMs /\ now.us \in 0 .. Micro - 1 BY DEF IInv, TypeOK, Instants
<1>2. CASE now.us + 1 < Micro
  <2>1. now' = [now EXCEPT !.us = @ + 1] BY <1>2 DEF Tick
  <2>2. now' \in Instants
    BY <1>1, <1>2, <2>1, SyncAssumption DEF IInv, TypeOK, Instants, SyncAssumption
  <2> QED BY <2>2, Stays DEF Tick, IInv, TypeOK
<1>3. CASE ~(now.us + 1 < Micro)
  <2>1. now' = [ms |-> now.ms + 1, us |-> 0] /\ now.ms < MaxMs BY <1>3 DEF Tick
  <2>2. now' \in Instants BY <1>1, <2>1, SyncAssumption DEF Instants, SyncAssumption
  <2> QED BY <2>2, Stays DEF Tick, IInv, TypeOK
<1> QED BY <1>2, <1>3

LEMMA DeadRow ==
  ASSUME NEW r \in Rows, NEW e, e = [r EXCEPT !.live = FALSE]
  PROVE  e \in Rows /\ e.body = r.body /\ ~e.live
BY DEF Rows

\* What a request leaves of a row.
LEMMA WrittenRow ==
  ASSUME SyncAssumption, IInv, NEW n \in Notes, NEW op \in Ops, NEW S \in SUBSET Notes,
         NEW t \in Instants, NEW r, r = Written(n, op, S, t)
  PROVE  /\ r \in Rows
         /\ r.live => r.body \in {row[n].body, edits + 1}
         /\ r.live /\ r.body = row[n].body /\ row[n].body <= edits => r = row[n]
         /\ r.body <= edits + 1
         /\ r.live => r.body > 0
         /\ row[n].live /\ r.live => r.created = row[n].created
         /\ row[n] # NoRow /\ ~row[n].live => ~r.live
<1> DEFINE Facts ==
         /\ r \in Rows
         /\ r.live => r.body \in {row[n].body, edits + 1}
         /\ r.live /\ r.body = row[n].body /\ row[n].body <= edits => r = row[n]
         /\ r.body <= edits + 1
         /\ r.live => r.body > 0
         /\ row[n].live /\ r.live => r.created = row[n].created
         /\ row[n] # NoRow /\ ~row[n].live => ~r.live
<1>1. /\ row[n] \in Rows /\ edits \in Nat /\ row[n].body \in Nat /\ row[n].body <= edits
      /\ row[n].live => row[n].body > 0
  BY DEF IInv, TypeOK, Bodies, Rows
<1>2. NoRow \in Rows /\ ~NoRow.live /\ NoRow.body = 0
  BY SyncAssumption DEF NoRow, Rows, Start, Instants, SyncAssumption
<1>3. ASSUME r = row[n] PROVE Facts BY <1>1, <1>3
<1>4. ASSUME r = NoRow PROVE Facts BY <1>1, <1>2, <1>4
<1>5. ASSUME row[n] = NoRow, r = [created |-> t, updated |-> t, live |-> TRUE, body |-> edits + 1]
      PROVE  Facts
  BY <1>1, <1>2, <1>5 DEF Rows
<1>6. ASSUME row[n].live, r = [row[n] EXCEPT !.updated = t, !.body = edits + 1] PROVE Facts
  <2>1. r \in Rows /\ r.body = edits + 1 /\ r.live /\ r.created = row[n].created
    <3>1. edits + 1 \in Nat /\ row[n] \in Rows BY <1>1
    <3>2. r = [row[n] EXCEPT !.updated = t, !.body = edits + 1] BY <1>6
    <3>3. r \in Rows /\ r.body = edits + 1 /\ r.live = row[n].live /\ r.created = row[n].created
      BY ONLY <3>1, <3>2, t \in Instants DEF Rows
    <3> QED BY <1>6, <3>3
  <2> QED BY <1>1, <1>6, <2>1
<1>7. ASSUME r = [row[n] EXCEPT !.live = FALSE] PROVE Facts
  <2>1. r \in Rows /\ r.body = row[n].body /\ ~r.live BY <1>1, <1>7, DeadRow
  <2> QED BY <1>1, <2>1
<1>8. \/ r = row[n] \/ r = NoRow
      \/ row[n] = NoRow /\ r = [created |-> t, updated |-> t, live |-> TRUE, body |-> edits + 1]
      \/ row[n].live /\ r = [row[n] EXCEPT !.updated = t, !.body = edits + 1]
      \/ r = [row[n] EXCEPT !.live = FALSE]
  BY DEF Written, Created, Updated, Deleted, Purged, Ops
<1> HIDE DEF Facts
<1>9. Facts BY <1>3, <1>4, <1>5, <1>6, <1>7, <1>8
<1> QED BY <1>9 DEF Facts

LEMMA CommitKeeps ==
  ASSUME SyncAssumption, IInv, NEW w \in Writers, NEW op \in Ops, NEW S \in SUBSET Notes,
         Commit(w, op, S)
  PROVE  IInv' /\ \A n \in Notes : row[n] # NoRow /\ ~row[n].live => ~row'[n].live
<1>1. /\ tx[w] \in Instants
      /\ row' = [n \in Notes |-> Written(n, op, S, tx[w])]
      /\ edits' = edits + 1 /\ tx' = [tx EXCEPT ![w] = None]
      /\ UNCHANGED <<now, axis, first, cursor, got, cuts>>
      /\ steady' = {n \in steady : row'[n].live}
  BY DEF Commit, Overtaken, IInv, TypeOK
<1>2. \A n \in Notes :
        /\ row'[n] \in Rows
        /\ row'[n].live => row'[n].body \in {row[n].body, edits + 1}
        /\ row'[n].live /\ row'[n].body = row[n].body => row'[n] = row[n]
        /\ row'[n].body <= edits + 1
        /\ row'[n].live => row'[n].body > 0
        /\ row[n].live /\ row'[n].live => row'[n].created = row[n].created
        /\ row[n] # NoRow /\ ~row[n].live => ~row'[n].live
  <2> TAKE n \in Notes
  <2>1. row'[n] = Written(n, op, S, tx[w]) BY <1>1
  <2>2. row[n].body <= edits BY DEF IInv, Bodies
  <2> QED BY <1>1, <2>1, <2>2, WrittenRow, SyncAssumption
<1>3. TypeOK'
  <2>1. row' \in [Notes -> Rows] BY <1>1, <1>2
  <2>2. edits' \in Nat BY <1>1 DEF IInv, TypeOK
  <2>3. behind' \subseteq Notes BY DEF Commit, Overtaken
  <2>4. steady' \subseteq Notes BY <1>1 DEF IInv, TypeOK
  <2>5. tx' \in [Writers -> Instants \cup {None}] BY <1>1 DEF IInv, TypeOK
  <2> QED BY <1>1, <2>1, <2>2, <2>3, <2>4, <2>5 DEF IInv, TypeOK
<1>4. Bodies' BY <1>1, <1>2 DEF Bodies
<1>5. DeltaNeverSkips'
  <2> SUFFICES ASSUME axis = "delta", NEW n \in Notes, row'[n].live, n \notin behind',
                      ~Since(n, cursor)'
               PROVE  got[n] = row'[n].body
    BY <1>1 DEF DeltaNeverSkips
  <2>1. row'[n].body = row[n].body /\ n \notin behind BY DEF Commit, Overtaken
  <2>2. row'[n] = row[n] BY <1>2, <2>1
  <2>3. ~Since(n, cursor) BY <1>1, <2>2 DEF Since
  <2> QED BY <2>1, <2>2, <2>3 DEF IInv, DeltaNeverSkips
<1>6. Snapshot'
  <2>1. /\ axis' = "none" => first'
        /\ axis' = "snapshot" /\ ~first' => cursor'.id # 0
    BY <1>1 DEF IInv, Snapshot
  <2>2. ASSUME axis \in {"snapshot", "done"}, NEW n \in steady'
        PROVE  /\ row'[n].live
               /\ \/ got[n] # 0
                  \/ row'[n].created.ms \in cuts
                  \/ axis = "snapshot" /\ (first \/ Before(n, cursor)')
    <3>1. n \in steady /\ row'[n].live /\ n \in Notes BY <1>1, <2>2 DEF IInv, TypeOK
    <3>2. row'[n].created = row[n].created BY <1>2, <2>2, <3>1 DEF IInv, Snapshot
    <3> QED BY <1>1, <2>2, <3>1, <3>2 DEF IInv, Snapshot, Before
  <2> QED BY <1>1, <2>1, <2>2 DEF Snapshot
<1> QED BY <1>2, <1>3, <1>4, <1>5, <1>6 DEF IInv

LEMMA StartKeeps ==
  ASSUME SyncAssumption, IInv,
         StartSnapshot \/ \E ms \in 0 .. MaxMs, id \in 0 .. MaxNote : StartDelta(ms, id)
  PROVE  IInv'
<1>1. CASE StartSnapshot
  <2> USE <1>1 DEF StartSnapshot
  <2>1. TypeOK' BY DEF IInv, TypeOK
  <2>2. Bodies' BY DEF IInv, Bodies
  <2>3. DeltaNeverSkips' BY DEF DeltaNeverSkips
  <2>4. first BY DEF IInv, Snapshot
  <2>5. Snapshot' BY <2>4 DEF Snapshot
  <2> QED BY <2>1, <2>2, <2>3, <2>5 DEF IInv
<1>2. ASSUME NEW ms \in 0 .. MaxMs, NEW id \in 0 .. MaxNote, StartDelta(ms, id)
      PROVE  IInv'
  <2> USE <1>2 DEF StartDelta
  <2>1. cursor' \in Cursors
    BY SyncAssumption DEF Cursors, Instants, SyncAssumption
  <2>2. TypeOK' BY <2>1 DEF IInv, TypeOK
  <2>3. Bodies' BY DEF IInv, Bodies
  <2>4. DeltaNeverSkips' BY DEF DeltaNeverSkips, Since
  <2>5. Snapshot' BY DEF Snapshot
  <2> QED BY <2>2, <2>3, <2>4, <2>5 DEF IInv
<1> QED BY <1>1, <1>2

LEMMA SnapshotPageKeeps ==
  ASSUME SyncAssumption, IInv, NEW page \in SUBSET Notes, SnapshotPage(page)
  PROVE  IInv'
<1> DEFINE S == {n \in Notes : row[n].live /\ (first \/ Before(n, cursor))}
<1>1. /\ axis = "snapshot" /\ page \subseteq S /\ FirstOf(page, S, Newer)
      /\ got' = [n \in Notes |-> IF n \in page THEN row[n].body ELSE got[n]]
      /\ axis' = IF Cardinality(page) < Limit THEN "done" ELSE axis
      /\ UNCHANGED <<now, row, tx, edits, steady, behind>>
  BY DEF SnapshotPage, Given
<1>2. \A n \in Notes : row[n] \in Rows /\ row[n].body \in Nat /\ row[n].created \in Instants
  BY DEF IInv, TypeOK, Rows
<1>3. Bodies' BY <1>1 DEF IInv, Bodies
<1>4. DeltaNeverSkips' BY <1>1 DEF DeltaNeverSkips
<1>5. got' \in [Notes -> Nat] BY <1>1, <1>2 DEF IInv, TypeOK
<1>6. \A n \in page : got'[n] # 0 BY <1>1 DEF IInv, Bodies, TypeOK
<1>7. \A n \in Notes \ page : got'[n] = got[n] BY <1>1
<1>8. CASE page = {}
  <2>1. UNCHANGED <<first, cursor, cuts>> BY <1>8 DEF SnapshotPage
  <2>2. S = {}
    <3>1. Cardinality({}) = 0 BY FS_EmptySet
    <3> QED BY <1>1, <1>8, <3>1, SyncAssumption DEF FirstOf, SyncAssumption
  <2>3. TypeOK' BY <1>1, <1>5, <2>1 DEF IInv, TypeOK
  <2>4. \A n \in steady : row[n].live /\ (got'[n] # 0 \/ row[n].created.ms \in cuts)
    <3> TAKE n \in steady
    <3>1. n \in Notes /\ n \notin S BY <2>2 DEF IInv, TypeOK
    <3> QED BY <1>1, <1>7, <1>8, <3>1 DEF IInv, Snapshot
  <2>5. axis' = "snapshot" /\ ~first' => cursor'.id # 0 BY <1>1, <2>1 DEF IInv, Snapshot
  <2>6. Snapshot' BY <1>1, <2>1, <2>4, <2>5 DEF Snapshot
  <2> QED BY <1>3, <1>4, <2>3, <2>6 DEF IInv
<1>9. CASE page # {}
  <2>1. PICK last \in page :
          /\ LastOf(last, page, Newer)
          /\ first' = FALSE
          /\ cursor' = [at |-> Wire(row[last].created), id |-> last]
          /\ cuts' = IF Wire(row[last].created) = row[last].created THEN cuts
                     ELSE cuts \cup {row[last].created.ms}
    BY <1>9 DEF SnapshotPage
  <2>2. last \in Notes /\ last # 0 BY SyncAssumption DEF Notes, SyncAssumption
  <2>3. row[last].created \in Instants /\ Wire(row[last].created) \in Instants
    BY <1>2, <2>2, WireType, SyncAssumption
  <2>4. row[last].created.ms \in 0 .. MaxMs BY <2>3 DEF Instants
  <2>5. last \in Nat BY <2>2 DEF Notes
  <2>6. cursor' \in Cursors BY <2>1, <2>3, <2>5 DEF Cursors
  <2>7. cuts' \subseteq 0 .. MaxMs BY <2>1, <2>4 DEF IInv, TypeOK
  <2>8. axis' \in {"snapshot", "done"} BY <1>1
  <2>9. TypeOK'
    BY <1>1, <1>5, <2>1, <2>6, <2>7, <2>8 DEF IInv, TypeOK
  <2>10. ASSUME NEW n \in steady
         PROVE  /\ row[n].live
                /\ \/ got'[n] # 0
                   \/ row[n].created.ms \in cuts'
                   \/ axis' = "snapshot" /\ Before(n, cursor)'
    <3>1. n \in Notes /\ row[n].live BY <1>1 DEF IInv, TypeOK, Snapshot
    <3>2. CASE n \in page BY <1>6, <3>1, <3>2
    <3>3. CASE n \notin page /\ n \notin S
      BY <1>1, <1>7, <2>1, <3>1, <3>3 DEF IInv, Snapshot
    <3>4. CASE n \notin page /\ n \in S
      <4>1. Cardinality(page) = Limit /\ Newer(last, n)
        BY <1>1, <3>4 DEF FirstOf
      <4>2. axis' = "snapshot" BY <1>1, <4>1, SyncAssumption DEF SyncAssumption
      <4>3. Below(row[n].created, n, row[last].created, last) BY <4>1 DEF Newer
      <4>4. \/ Below(row[n].created, n, Wire(row[last].created), last)
            \/ Wire(row[last].created) # row[last].created
               /\ row[n].created.ms = row[last].created.ms
        BY <1>2, <2>2, <2>3, <3>1, <4>3, BelowWire, SyncAssumption
      <4>5. CASE Below(row[n].created, n, Wire(row[last].created), last)
        <5>1. cursor'.id = last /\ cursor'.at = Wire(row[last].created) BY <2>1
        <5>2. row'[n] = row[n] BY <1>1
        <5>3. Before(n, cursor)' BY <2>2, <4>5, <5>1, <5>2 DEF Before
        <5> QED BY <3>1, <4>2, <5>3
      <4>6. CASE Wire(row[last].created) # row[last].created
                 /\ row[n].created.ms = row[last].created.ms
        BY <2>1, <3>1, <4>6
      <4> QED BY <4>4, <4>5, <4>6
    <3> QED BY <3>2, <3>3, <3>4
  <2>11. cursor'.id # 0 BY <2>1, <2>2
  <2>12. Snapshot' BY <1>1, <2>1, <2>10, <2>11 DEF Snapshot
  <2> QED BY <1>3, <1>4, <2>9, <2>12 DEF IInv
<1> QED BY <1>8, <1>9

LEMMA DeltaPageKeeps ==
  ASSUME SyncAssumption, IInv, NEW page \in SUBSET Notes, DeltaPage(page)
  PROVE  IInv'
<1> DEFINE S == {n \in Notes : row[n].live /\ Since(n, cursor)}
<1>1. /\ axis = "delta" /\ page \subseteq S /\ FirstOf(page, S, OlderEdit)
      /\ got' = [n \in Notes |-> IF n \in page THEN row[n].body ELSE got[n]]
      /\ UNCHANGED <<now, row, tx, edits, axis, first, steady, cuts, behind>>
  BY DEF DeltaPage, Given
<1>2. \A n \in Notes : row[n] \in Rows /\ row[n].body \in Nat /\ row[n].updated \in Instants
  BY DEF IInv, TypeOK, Rows
<1>3. PICK last \in page :
        /\ LastOf(last, page, OlderEdit)
        /\ cursor' = [at |-> Wire(row[last].updated), id |-> last]
  BY DEF DeltaPage
<1>4. last \in Notes /\ last \in Nat /\ last # 0 BY SyncAssumption DEF Notes, SyncAssumption
<1>5. row[last].updated \in Instants /\ Wire(row[last].updated) \in Instants
  BY <1>2, <1>4, WireType, SyncAssumption
<1>6. TypeOK'
  <2>1. got' \in [Notes -> Nat] BY <1>1, <1>2 DEF IInv, TypeOK
  <2>2. cursor' \in Cursors BY <1>3, <1>4, <1>5 DEF Cursors
  <2> QED BY <1>1, <2>1, <2>2 DEF IInv, TypeOK
<1>7. Bodies' BY <1>1 DEF IInv, Bodies
<1>8. DeltaNeverSkips'
  <2> SUFFICES ASSUME NEW n \in Notes, row[n].live, n \notin behind
               PROVE  got'[n] = row[n].body \/ Since(n, cursor)'
    BY <1>1 DEF DeltaNeverSkips
  <2>1. CASE n \in page BY <1>1, <2>1
  <2>2. CASE n \notin page /\ n \notin S
    BY <1>1, <2>2 DEF IInv, DeltaNeverSkips
  <2>3. CASE n \notin page /\ n \in S
    <3>1. OlderEdit(last, n) BY <1>1, <2>3 DEF FirstOf
    <3>2. Below(Wire(row[last].updated), last, row[n].updated, n)
      BY <1>2, <1>4, <3>1, WireBelow, SyncAssumption DEF OlderEdit
    <3>3. cursor'.id = last /\ cursor'.at = Wire(row[last].updated) BY <1>3
    <3>4. row'[n] = row[n] BY <1>1
    <3>5. Since(n, cursor)' BY <1>4, <3>2, <3>3, <3>4 DEF Since
    <3> QED BY <3>5
  <2> QED BY <2>1, <2>2, <2>3
<1>9. Snapshot' BY <1>1 DEF Snapshot
<1> QED BY <1>6, <1>7, <1>8, <1>9 DEF IInv

LEMMA InitKeeps ==
  ASSUME SyncAssumption, Init
  PROVE  IInv
<1> USE DEF Init
<1>1. Start \in Instants BY SyncAssumption DEF Start, Instants, SyncAssumption
<1>2. NoRow \in Rows /\ ~NoRow.live /\ NoRow.body = 0 BY <1>1 DEF NoRow, Rows
<1>3. NoCursor \in Cursors BY <1>1 DEF NoCursor, Cursors
<1>4. TypeOK BY <1>1, <1>2, <1>3 DEF TypeOK
<1>5. Bodies BY <1>2 DEF Bodies
<1>6. DeltaNeverSkips BY DEF DeltaNeverSkips
<1>7. Snapshot BY DEF Snapshot
<1> QED BY <1>4, <1>5, <1>6, <1>7 DEF IInv

LEMMA NextKeeps ==
  ASSUME SyncAssumption, IInv, [Next]_vars
  PROVE  IInv'
<1>1. CASE Tick BY <1>1, ClockStays, SyncAssumption
<1>2. ASSUME NEW w \in Writers, Begin(w) \/ Rollback(w) PROVE IInv'
  <2>1. now' \in Instants /\ UNCHANGED <<row, edits, pull>>
    BY <1>2 DEF Begin, Rollback, IInv, TypeOK
  <2>2. tx' \in [Writers -> Instants \cup {None}]
    BY <1>2 DEF Begin, Rollback, IInv, TypeOK
  <2> QED BY <2>1, <2>2, Stays
<1>3. ASSUME NEW w \in Writers, NEW op \in Ops, NEW S \in SUBSET Notes, Commit(w, op, S)
      PROVE  IInv'
  BY <1>3, CommitKeeps, SyncAssumption
<1>4. CASE StartSnapshot \/ \E ms \in 0 .. MaxMs, id \in 0 .. MaxNote : StartDelta(ms, id)
  BY <1>4, StartKeeps, SyncAssumption
<1>5. ASSUME NEW page \in SUBSET Notes, SnapshotPage(page) PROVE IInv'
  BY <1>5, SnapshotPageKeeps, SyncAssumption
<1>6. ASSUME NEW page \in SUBSET Notes, DeltaPage(page) PROVE IInv'
  BY <1>6, DeltaPageKeeps, SyncAssumption
<1>7. CASE UNCHANGED vars
  <2>1. UNCHANGED <<row, edits, pull>> /\ now' = now /\ tx' = tx BY <1>7 DEF vars, pull
  <2> QED BY <2>1, Stays DEF IInv, TypeOK
<1> QED BY <1>1, <1>2, <1>3, <1>4, <1>5, <1>6, <1>7 DEF Next, Write, Pull

---------------------------------------------------------------------------

\* Every reachable state has the invariant: rows and cursor are well formed, a
\* delta skips nothing and a snapshot still has ahead of it what it has not given
\* (the routes of notes and lib/keyset-pagination.ts).
THEOREM Inductive == SyncAssumption => (Spec => []IInv)
<1> SUFFICES ASSUME SyncAssumption PROVE Spec => []IInv
  OBVIOUS
<1>1. Init => IInv BY InitKeeps, SyncAssumption
<1>2. IInv /\ [Next]_vars => IInv' BY NextKeeps, SyncAssumption
<1> QED BY <1>1, <1>2, PTL DEF Spec

\* The types of the table, of the transactions and of the device's pull.
THEOREM TypeCorrect == SyncAssumption => (Spec => []TypeOK)
<1>1. IInv => TypeOK BY DEF IInv
<1> QED BY <1>1, Inductive, PTL

\* A delta skips no write that its cursor had not passed when it committed, however
\* many rows share an instant and however many writers there are
\* (lib/keyset-pagination.ts:109-133).
THEOREM DeltaComplete == SyncAssumption => (Spec => []DeltaNeverSkips)
<1>1. IInv => DeltaNeverSkips BY DEF IInv
<1> QED BY <1>1, Inductive, PTL

\* A snapshot gives every note that was live throughout, but for the notes of a
\* millisecond in which the wire rounded the cursor.
THEOREM SnapshotGives == SyncAssumption => (Spec => []SnapshotSkipsRounded)
<1>1. IInv => SnapshotSkipsRounded
  BY DEF IInv, Snapshot, SnapshotSkipsRounded
<1> QED BY <1>1, Inductive, PTL

\* No step gives a deleted row life again, not even a create that is retried
\* (lib/client-id-upsert.ts:128-162).
THEOREM DeletedStaysDeleted == SyncAssumption => (Spec => NoResurrection)
<1> DEFINE Kept == \A n \in Notes : row[n] # NoRow /\ ~row[n].live => ~row'[n].live
<1> SUFFICES ASSUME SyncAssumption PROVE Spec => NoResurrection
  OBVIOUS
<1>1. IInv /\ [Next]_vars => [Kept]_vars
  <2> SUFFICES ASSUME IInv, Next PROVE Kept
    OBVIOUS
  <2>1. ASSUME row' = row PROVE Kept BY <2>1
  <2>2. ASSUME NEW w \in Writers, NEW op \in Ops, NEW S \in SUBSET Notes, Commit(w, op, S)
        PROVE  Kept
    BY <2>2, CommitKeeps, SyncAssumption
  <2>3. row' = row \/ \E w \in Writers, op \in Ops, S \in SUBSET Notes : Commit(w, op, S)
    BY DEF Next, Write, Pull, Tick, Begin, Rollback, StartSnapshot, StartDelta,
           SnapshotPage, DeltaPage
  <2> QED BY <2>1, <2>2, <2>3
<1>2. SyncAssumption => (Spec => []IInv) BY Inductive
<1> QED BY <1>1, <1>2, PTL DEF Spec, NoResurrection
====

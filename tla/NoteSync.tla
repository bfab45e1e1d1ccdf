---- MODULE NoteSync ----
(***************************************************************************)
(* The notes of one user: the routes that write them (create, batch-create,*)
(* update, delete, delete-all, and the batch-delete of transcriptions,     *)
(* which are listed the same way) and the list route a second device pulls *)
(* them with, page by page: backward by created_at (a snapshot) or forward *)
(* by updated_at (a delta).                                                *)
(*                                                                         *)
(* A writer is a transaction of one request: NOW() is fixed when it begins,*)
(* its rows are written and become visible when it commits. An instant has *)
(* milliseconds and the microseconds below them; a row on the wire, and a  *)
(* cursor, only the milliseconds. A note is known by its client id, which  *)
(* also stands for its place in the order of the row ids.                  *)
(***************************************************************************)
EXTENDS Naturals, FiniteSets

CONSTANTS
  MaxNote,   \* the notes are 1 .. MaxNote
  Writers,   \* transactions open at one time
  Limit,     \* rows of a page
  MaxBatch,  \* notes of a batch-create or a batch-delete
  MaxPurge,  \* MAX_INLINE_PURGE
  Micro,     \* instants of a millisecond
  MaxMs,     \* bound: milliseconds of the clock
  MaxEdits,  \* bound: commits that write
  None       \* no transaction

ASSUME SyncAssumption ==
  /\ MaxNote \in Nat
  /\ Limit \in Nat \ {0}
  /\ MaxBatch \in Nat
  /\ MaxPurge \in Nat
  /\ Micro \in Nat \ {0}
  /\ MaxMs \in Nat
  /\ MaxEdits \in Nat

Notes == 1 .. MaxNote
Instants == [ms : 0 .. MaxMs, us : 0 .. Micro - 1]

\* No row has body 0; it stands for a row that does not exist.
Rows == [created : Instants, updated : Instants, live : BOOLEAN, body : Nat]
Start == [ms |-> 0, us |-> 0]
NoRow == [created |-> Start, updated |-> Start, live |-> FALSE, body |-> 0]

Ops == {"create", "update", "delete", "purge"}

\* The cursor of a device: an instant of the wire and the id that breaks ties, 0
\* for none.
Cursors == [at : Instants, id : Nat]
NoCursor == [at |-> Start, id |-> 0]

VARIABLES
  now,     \* the clock of the database
  row,     \* the table, per note
  tx,      \* per writer: NOW() of its open transaction, or None
  edits,   \* writes so far: every one gives the rows it touches a new body
  axis,    \* what the device pulls: "none", "snapshot", "delta", "done"
  first,   \* it has no cursor yet
  cursor,  \* its cursor
  got,     \* per note: the body it was given in this pull, 0 if none
  steady,  \* of a snapshot: the notes live since it began
  cuts,    \* of a snapshot: the milliseconds in which the wire rounded a cursor
  behind   \* of a delta: notes whose last write is not after the cursor it was committed at

pull == <<axis, first, cursor, got, steady, cuts, behind>>
vars == <<now, row, tx, edits, axis, first, cursor, got, steady, cuts, behind>>

Init ==
  /\ now = Start
  /\ row = [n \in Notes |-> NoRow]
  /\ tx = [w \in Writers |-> None]
  /\ edits = 0
  /\ axis = "none"
  /\ first = TRUE
  /\ cursor = NoCursor
  /\ got = [n \in Notes |-> 0]
  /\ steady = {}
  /\ cuts = {}
  /\ behind = {}

---------------------------------------------------------------------------
(* The order of the rows                                                   *)

Earlier(s, t) == s.ms < t.ms \/ (s.ms = t.ms /\ s.us < t.us)

\* The comparison of tuples (instant, id).
Below(s, i, t, j) == Earlier(s, t) \/ (s = t /\ i < j)

\* A timestamp as the wire gives it: Date and toISOString keep the milliseconds.
Wire(t) == [t EXCEPT !.us = 0]

\* Mutant: no tie-breaker.
BeforeNoTie(n, c) == Earlier(row[n].created, c.at)

\* The keyset condition of ?before=.
Before(n, c) ==
  IF c.id = 0 THEN Earlier(row[n].created, c.at)
  ELSE Below(row[n].created, n, c.at, c.id)

\* Mutant: the delta is keyed on created_at.
SinceCreated(n, c) ==
  IF c.id = 0 THEN Earlier(c.at, row[n].created)
  ELSE Below(c.at, c.id, row[n].created, n)

\* The keyset condition of ?since=.
Since(n, c) ==
  IF c.id = 0 THEN Earlier(c.at, row[n].updated)
  ELSE Below(c.at, c.id, row[n].updated, n)

Newer(m, n) == Below(row[n].created, n, row[m].created, m)

\* Mutant: every page newest first.
OlderEditNewest(m, n) == Below(row[n].updated, n, row[m].updated, m)

OlderEdit(m, n) == Below(row[m].updated, m, row[n].updated, n)

\* The first Limit rows of S in an order.
FirstOf(page, S, Precedes(_, _)) ==
  /\ Cardinality(page) <= Limit
  /\ page # S => Cardinality(page) = Limit
  /\ \A m \in page, n \in S \ page : Precedes(m, n)

LastOf(last, page, Precedes(_, _)) ==
  last \in page /\ \A m \in page : m = last \/ Precedes(m, last)

---------------------------------------------------------------------------
(* Writes                                                                  *)

\* The clock: the next instant.
Tick ==
  /\ now.us + 1 < Micro \/ now.ms < MaxMs
  /\ now' = IF now.us + 1 < Micro THEN [now EXCEPT !.us = @ + 1]
            ELSE [ms |-> now.ms + 1, us |-> 0]
  /\ UNCHANGED <<row, tx, edits, pull>>

\* A request opens its transaction.
Begin(w) ==
  /\ tx[w] = None
  /\ edits < MaxEdits
  /\ tx' = [tx EXCEPT ![w] = now]
  /\ UNCHANGED <<now, row, edits, pull>>

\* The notes of a request: a create or a batch-create, an update, a delete or a
\* batch-delete, a delete-all.
Request(op, S) ==
  CASE op = "purge" -> S = {}
    [] op = "update" -> Cardinality(S) = 1
    [] OTHER -> Cardinality(S) \in 1 .. MaxBatch

\* Mutant: a retry overwrites the row.
CreatedOver(n, t) == [created |-> row[n].created, updated |-> t, live |-> TRUE, body |-> edits + 1]

\* ON CONFLICT DO NOTHING: the existing row is returned, deleted or not.
Created(n, t) ==
  IF row[n] # NoRow THEN row[n]
  ELSE [created |-> t, updated |-> t, live |-> TRUE, body |-> edits + 1]

Updated(n, t) ==
  IF row[n].live THEN [row[n] EXCEPT !.updated = t, !.body = edits + 1] ELSE row[n]

\* A soft delete; a batch with a note that is not live rolls back.
Deleted(n, S) ==
  IF \A m \in S : row[m].live THEN [row[n] EXCEPT !.live = FALSE] ELSE row[n]

\* delete-all removes the rows, tombstones included, unless there are too many.
Purged(n) ==
  IF Cardinality({m \in Notes : row[m] # NoRow}) <= MaxPurge THEN NoRow ELSE row[n]

\* The row a request leaves, in a transaction that began at t.
Written(n, op, S, t) ==
  CASE op = "create" /\ n \in S -> Created(n, t)
    [] op = "update" /\ n \in S -> Updated(n, t)
    [] op = "delete" /\ n \in S -> Deleted(n, S)
    [] op = "purge" -> Purged(n)
    [] OTHER -> row[n]

\* The pull in progress: what it need not, or can no longer, deliver.
Overtaken ==
  /\ steady' = {n \in steady : row'[n].live}
  /\ behind' = {n \in Notes : /\ axis = "delta"
                               /\ row'[n].live /\ ~Since(n, cursor)'
                               /\ (row'[n].body # row[n].body \/ n \in behind)}

\* The transaction has run its statements and commits.
Commit(w, op, S) ==
  /\ tx[w] # None
  /\ edits < MaxEdits
  /\ Request(op, S)
  /\ row' = [n \in Notes |-> Written(n, op, S, tx[w])]
  /\ edits' = edits + 1
  /\ tx' = [tx EXCEPT ![w] = None]
  /\ UNCHANGED <<now, axis, first, cursor, got, cuts>>
  /\ Overtaken

\* It fails, or its answer finds nothing to do: nothing is written.
Rollback(w) ==
  /\ tx[w] # None
  /\ tx' = [tx EXCEPT ![w] = None]
  /\ UNCHANGED <<now, row, edits, pull>>

---------------------------------------------------------------------------
(* The list route and the device that pulls                                *)

\* A device without a copy.
StartSnapshot ==
  /\ axis = "none"
  /\ axis' = "snapshot"
  /\ steady' = {n \in Notes : row[n].live}
  /\ UNCHANGED <<now, row, tx, edits, first, cursor, got, cuts, behind>>

\* A device with the cursor of an earlier pull.
StartDelta(ms, id) ==
  /\ axis = "none"
  /\ ms <= now.ms
  /\ axis' = "delta"
  /\ first' = FALSE
  /\ cursor' = [at |-> [ms |-> ms, us |-> 0], id |-> id]
  /\ behind' = {n \in Notes : row[n].live /\ ~Since(n, cursor')}
  /\ UNCHANGED <<now, row, tx, edits, got, steady, cuts>>

Given(page) == [n \in Notes |-> IF n \in page THEN row[n].body ELSE got[n]]

\* A page of the snapshot, newest first; its last row is the next cursor, and a
\* page that is not full ends the pull.
SnapshotPage(page) ==
  LET S == {n \in Notes : row[n].live /\ (first \/ Before(n, cursor))}
  IN /\ axis = "snapshot"
     /\ page \subseteq S
     /\ FirstOf(page, S, Newer)
     /\ got' = Given(page)
     /\ axis' = IF Cardinality(page) < Limit THEN "done" ELSE axis
     /\ IF page = {} THEN UNCHANGED <<first, cursor, cuts>>
        ELSE \E last \in page :
               /\ LastOf(last, page, Newer)
               /\ first' = FALSE
               /\ cursor' = [at |-> Wire(row[last].created), id |-> last]
               /\ cuts' = IF Wire(row[last].created) = row[last].created THEN cuts
                          ELSE cuts \cup {row[last].created.ms}
     /\ UNCHANGED <<now, row, tx, edits, steady, behind>>

\* A page of the delta, oldest edit first; its last row is the next cursor.
DeltaPage(page) ==
  LET S == {n \in Notes : row[n].live /\ Since(n, cursor)}
  IN /\ axis = "delta"
     /\ page \subseteq S
     /\ page # {}
     /\ FirstOf(page, S, OlderEdit)
     /\ got' = Given(page)
     /\ \E last \in page :
          /\ LastOf(last, page, OlderEdit)
          /\ cursor' = [at |-> Wire(row[last].updated), id |-> last]
     /\ UNCHANGED <<now, row, tx, edits, axis, first, steady, cuts, behind>>

---------------------------------------------------------------------------

Write ==
  \/ Tick
  \/ \E w \in Writers : Begin(w) \/ Rollback(w)
  \/ \E w \in Writers, op \in Ops, S \in SUBSET Notes : Commit(w, op, S)

Pull ==
  \/ StartSnapshot
  \/ \E ms \in 0 .. MaxMs, id \in 0 .. MaxNote : StartDelta(ms, id)
  \/ \E page \in SUBSET Notes : SnapshotPage(page) \/ DeltaPage(page)

Next == Write \/ Pull

Spec == Init /\ [][Next]_vars

\* A device goes on pulling.
Fairness == WF_vars(\E page \in SUBSET Notes : SnapshotPage(page) \/ DeltaPage(page))

FairSpec == Spec /\ Fairness

---------------------------------------------------------------------------
(* Properties                                                              *)

\* The type invariant.
TypeOK ==
  /\ now \in Instants
  /\ row \in [Notes -> Rows]
  /\ tx \in [Writers -> Instants \cup {None}]
  /\ edits \in Nat
  /\ axis \in {"none", "snapshot", "delta", "done"}
  /\ first \in BOOLEAN
  /\ cursor \in Cursors
  /\ got \in [Notes -> Nat]
  /\ steady \subseteq Notes
  /\ cuts \subseteq 0 .. MaxMs
  /\ behind \subseteq Notes

\* A delta never skips a write: what the device was not given is still ahead of its
\* cursor, whatever commits between two pages, unless the write carries a time its
\* cursor had passed when it committed (lib/keyset-pagination.ts:16-24).
DeltaNeverSkips ==
  axis = "delta" =>
    \A n \in Notes : row[n].live /\ n \notin behind =>
                      got[n] = row[n].body \/ Since(n, cursor)

\* A snapshot that ended has given every note that was live throughout, rows that
\* share an instant included, but for those of a millisecond in which a page ended
\* with a row the wire rounds (lib/keyset-pagination.ts:13-15, 38-43).
SnapshotSkipsRounded ==
  axis = "done" =>
    \A n \in steady : got[n] # 0 \/ row[n].created.ms \in cuts

\* The tuple comparison is there for rows that share a created_at, "e.g.
\* batch-create", which a single column "drops ... on the boundary".
SnapshotComplete ==
  axis = "done" => \A n \in steady : got[n] # 0

\* A deleted note stays deleted until it is purged: no create that is retried, and
\* no update that was under way, brings it back (lib/client-id-upsert.ts:128-162).
NoResurrection ==
  [][\A n \in Notes : row[n] # NoRow /\ ~row[n].live => ~row'[n].live]_vars

\* The device has not been given a write that is still ahead of its cursor.
Owed ==
  \E n \in Notes : axis = "delta" /\ row[n].live /\ n \notin behind /\ got[n] # row[n].body

\* A full page may lie in the millisecond of the cursor, and be asked for again.
Crowded ==
  Cardinality({n \in Notes : row[n].live /\ row[n].updated.ms = cursor.at.ms}) >= Limit

\* A device that goes on pulling catches up with the writes, however many pages it
\* takes and whatever is written between them, as long as the millisecond it has come
\* to does not fill a page.
CatchesUp == Owed ~> (~Owed \/ Crowded)
====

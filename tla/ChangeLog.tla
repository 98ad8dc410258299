------------------------------ MODULE ChangeLog ------------------------------
(***************************************************************************)
(* What every write of the server promises to the sync protocol: a row is  *)
(* written together with a fresh number of its owner's counter, and rows   *)
(* leave the database only as tombstones whose number is covered by the    *)
(* owner's purge watermark.                                                *)
(*                                                                         *)
(* Every write of the stores runs in a BEGIN IMMEDIATE transaction         *)
(* (internal/db/db.go:33), so two writes never overlap and a transaction   *)
(* is one step here.  Columns that the protocol does not look at are left  *)
(* out: DomainStore.tla has them, and implements this module.              *)
(***************************************************************************)
EXTENDS Naturals, FiniteSets

CONSTANTS
    Users,      \* accounts
    Rows,       \* primary keys over all the synced tables
    NoRow,      \* what a primary key that is not in its table maps to
    MaxSeq      \* bound on the numbers a counter hands out

\* A row as the sync protocol sees it.
Row == [owner : Users, seq : Nat, deleted : BOOLEAN]

ASSUME NoRowAssumption == NoRow \notin Row
ASSUME MaxSeqAssumption == MaxSeq \in Nat

VARIABLES
    row,        \* row[r]: the row with primary key r, or NoRow
    counter,    \* user_sync_counters.next_seq, 0 before the first write
    purged      \* user_sync_counters.purged_before_seq

logVars == <<row, counter, purged>>

Stored(r) == row[r] # NoRow
StoredFor(u, r) == Stored(r) /\ row[r].owner = u
Tombstone(r) == Stored(r) /\ row[r].deleted

\* Mutant of NextSeq: the upsert leaves the number of an existing counter alone.
NextSeqReused(u) == IF counter[u] = 0 THEN 1 ELSE counter[u]

\* NextSeq: INSERT ... ON CONFLICT DO UPDATE SET next_seq = next_seq + 1.
NextSeq(u) == counter[u] + 1

IsHighest(m, S) == m \in S /\ \A n \in S : n <= m

LogTypeOK ==
    /\ row \in [Rows -> Row \union {NoRow}]
    /\ counter \in [Users -> 0..MaxSeq]
    /\ purged \in [Users -> 0..MaxSeq]

LogInit ==
    /\ row = [r \in Rows |-> NoRow]
    /\ counter = [u \in Users |-> 0]
    /\ purged = [u \in Users |-> 0]

\* A write transaction of user u that creates, edits, deletes or restores r.
\* A primary key in use belongs to the user who created it, and only a row
\* that exists can become, or stay, a tombstone.
Commit(u, r, deleted) ==
    /\ NextSeq(u) <= MaxSeq
    /\ Stored(r) => row[r].owner = u
    /\ deleted => Stored(r)
    /\ counter' = [counter EXCEPT ![u] = NextSeq(u)]
    /\ row' = [row EXCEPT ![r] =
                 [owner |-> u, seq |-> NextSeq(u), deleted |-> deleted]]
    /\ UNCHANGED purged

\* Mutant of PurgeTombstones: the rows go and no watermark is left.
PurgeWithoutWatermark(S) ==
    /\ S # {}
    /\ \A r \in S : Tombstone(r)
    /\ row' = [r \in Rows |-> IF r \in S THEN NoRow ELSE row[r]]
    /\ UNCHANGED <<counter, purged>>

\* The purge removes the tombstones S that are past their retention and moves
\* each owner's watermark up to the highest number removed, in one transaction.
PurgeTombstones(S) ==
    /\ S # {}
    /\ \A r \in S : Tombstone(r)
    /\ purged' \in [Users -> 0..MaxSeq]
    /\ \A u \in Users :
          IsHighest(purged'[u],
                    {purged[u]} \union {row[r].seq : r \in {s \in S : row[s].owner = u}})
    /\ row' = [r \in Rows |-> IF r \in S THEN NoRow ELSE row[r]]
    /\ UNCHANGED counter

LogNext ==
    \/ \E u \in Users, r \in Rows, deleted \in BOOLEAN : Commit(u, r, deleted)
    \/ \E S \in SUBSET Rows : PurgeTombstones(S)

LogSpec == LogInit /\ [][LogNext]_logVars

-----------------------------------------------------------------------------
(* Properties.                                                             *)

\* No two rows of a user carry the same number, in whatever tables they are,
\* and no row or watermark is ahead of the counter: what lets
\* internal/sync/store.go:174 merge the tables by seq into one total order.
SeqsAreAllocatedOnce ==
    /\ \A r \in Rows : Stored(r) => row[r].seq \in 1..counter[row[r].owner]
    /\ \A r, s \in Rows :
          /\ Stored(r) /\ Stored(s) /\ row[r].owner = row[s].owner
          /\ row[r].seq = row[s].seq
          => r = s
    /\ \A u \in Users : purged[u] <= counter[u]

\* A row disappears only as a tombstone under its owner's watermark, and a row
\* that is written gets a number above every number its owner has seen so far:
\* a cursor can tell each of the two (internal/db/purge.go:22-28).
NoSilentChange ==
    [][\A r \in Rows : row'[r] # row[r] =>
          IF row'[r] = NoRow
          THEN row[r].deleted /\ row[r].seq <= purged'[row[r].owner]
          ELSE LET u == row'[r].owner
               IN  row'[r].seq > counter[u] /\ row'[r].seq = counter'[u]]_logVars

=============================================================================

--------------------------- MODULE ChangeLogProofs ---------------------------
(***************************************************************************)
(* Proofs about ChangeLog, for any users, any rows and any MaxSeq.         *)
(***************************************************************************)
EXTENDS ChangeLog, TLAPS

\* A row is never mistaken for the mark of an empty place.
LEMMA RowIsNotNoRow == ASSUME NEW x \in Row PROVE x # NoRow
BY NoRowAssumption

\* What a write transaction does to the rows, the counters and the watermarks.
LEMMA CommitEffect ==
    ASSUME LogTypeOK,
           NEW u \in Users, NEW r \in Rows, NEW deleted \in BOOLEAN,
           Commit(u, r, deleted)
    PROVE  /\ LogTypeOK'
           /\ counter'[u] = counter[u] + 1
           /\ \A v \in Users : v # u => counter'[v] = counter[v]
           /\ row'[r] = [owner |-> u, seq |-> counter[u] + 1, deleted |-> deleted]
           /\ row'[r] # NoRow
           /\ \A s \in Rows : s # r => row'[s] = row[s]
           /\ purged' = purged
           /\ Stored(r) => row[r].owner = u
<1> DEFINE new == [owner |-> u, seq |-> counter[u] + 1, deleted |-> deleted]
<1>1. /\ counter \in [Users -> 0..MaxSeq]
      /\ row \in [Rows -> Row \union {NoRow}]
      /\ purged \in [Users -> 0..MaxSeq]
  BY DEF LogTypeOK
<1>2. /\ counter[u] + 1 <= MaxSeq
      /\ counter' = [counter EXCEPT ![u] = counter[u] + 1]
      /\ row' = [row EXCEPT ![r] = new]
      /\ purged' = purged
      /\ Stored(r) => row[r].owner = u
  BY DEF Commit, NextSeq
<1>3. counter[u] + 1 \in 0..MaxSeq
  BY <1>1, <1>2, MaxSeqAssumption
<1>4. new \in Row
  BY <1>3 DEF Row
<1>5. LogTypeOK'
  BY <1>1, <1>2, <1>3, <1>4 DEF LogTypeOK
<1> QED
  BY <1>1, <1>2, <1>4, <1>5, RowIsNotNoRow

\* What a purge does: rows go, and the watermarks only move up, no further than
\* the numbers of the rows that go.
LEMMA PurgeEffect ==
    ASSUME LogTypeOK, NEW S \in SUBSET Rows, PurgeTombstones(S)
    PROVE  /\ LogTypeOK'
           /\ counter' = counter
           /\ \A r \in Rows : row'[r] = IF r \in S THEN NoRow ELSE row[r]
           /\ \A r \in S : Tombstone(r) /\ row[r].seq <= purged'[row[r].owner]
           /\ \A u \in Users :
                 /\ purged[u] <= purged'[u]
                 /\ \/ purged'[u] = purged[u]
                    \/ \E r \in S : row[r].owner = u /\ purged'[u] = row[r].seq
<1>1. /\ counter \in [Users -> 0..MaxSeq]
      /\ row \in [Rows -> Row \union {NoRow}]
      /\ purged \in [Users -> 0..MaxSeq]
  BY DEF LogTypeOK
<1>2. /\ purged' \in [Users -> 0..MaxSeq]
      /\ row' = [r \in Rows |-> IF r \in S THEN NoRow ELSE row[r]]
      /\ counter' = counter
      /\ \A r \in S : Tombstone(r)
  BY DEF PurgeTombstones
<1>3. LogTypeOK'
  BY <1>1, <1>2 DEF LogTypeOK
<1>4. ASSUME NEW r \in S
      PROVE  row[r] \in Row /\ row[r].owner \in Users /\ row[r].seq \in Nat
  BY <1>1, <1>2 DEF Tombstone, Stored, Row
<1>5. ASSUME NEW u \in Users
      PROVE  LET seqs == {row[r].seq : r \in {s \in S : row[s].owner = u}}
             IN  /\ purged'[u] \in {purged[u]} \union seqs
                 /\ \A n \in {purged[u]} \union seqs : n <= purged'[u]
  BY DEF PurgeTombstones, IsHighest
<1>6. ASSUME NEW r \in S
      PROVE  row[r].seq <= purged'[row[r].owner]
  <2> DEFINE u == row[r].owner
  <2>1. u \in Users
    BY <1>4
  <2>2. row[r].seq \in {row[q].seq : q \in {s \in S : row[s].owner = u}}
    OBVIOUS
  <2> QED
    BY <1>5, <2>1, <2>2
<1> QED
  BY <1>2, <1>3, <1>5, <1>6

\* The change log keeps its type in every step.
LEMMA LogTypeStep == LogTypeOK /\ [LogNext]_logVars => LogTypeOK'
<1> SUFFICES ASSUME LogTypeOK, [LogNext]_logVars
             PROVE  LogTypeOK'
  OBVIOUS
<1>1. CASE \E u \in Users, r \in Rows, deleted \in BOOLEAN : Commit(u, r, deleted)
  BY <1>1, CommitEffect
<1>2. CASE \E S \in SUBSET Rows : PurgeTombstones(S)
  BY <1>2, PurgeEffect
<1>3. CASE UNCHANGED logVars
  BY <1>3 DEF logVars, LogTypeOK
<1> QED
  BY <1>1, <1>2, <1>3 DEF LogNext

\* Type correctness of the abstract write side, the base of everything below.
THEOREM LogTypeCorrect == LogSpec => []LogTypeOK
<1>1. LogInit => LogTypeOK
  BY MaxSeqAssumption DEF LogInit, LogTypeOK
<1> QED
  BY <1>1, LogTypeStep, PTL DEF LogSpec

\* One step keeps the allocation invariant.
LEMMA AllocationStep ==
    LogTypeOK /\ SeqsAreAllocatedOnce /\ [LogNext]_logVars => SeqsAreAllocatedOnce'
<1> SUFFICES ASSUME LogTypeOK, SeqsAreAllocatedOnce, [LogNext]_logVars
             PROVE  SeqsAreAllocatedOnce'
  OBVIOUS
<1>1. /\ counter \in [Users -> 0..MaxSeq]
      /\ purged \in [Users -> 0..MaxSeq]
      /\ \A r \in Rows : Stored(r) => row[r] \in Row /\ row[r].owner \in Users
  BY DEF LogTypeOK, Stored, Row
<1>2. ASSUME NEW u \in Users, NEW r \in Rows, NEW deleted \in BOOLEAN,
             Commit(u, r, deleted)
      PROVE  SeqsAreAllocatedOnce'
  <2> DEFINE new == [owner |-> u, seq |-> counter[u] + 1, deleted |-> deleted]
  <2>0. /\ counter'[u] = counter[u] + 1
        /\ \A v \in Users : v # u => counter'[v] = counter[v]
        /\ row'[r] = new
        /\ \A s \in Rows : s # r => row'[s] = row[s]
        /\ purged' = purged
    BY <1>2, CommitEffect, Zenon
  <2>1. /\ counter'[u] = counter[u] + 1
        /\ \A v \in Users : v # u => counter'[v] = counter[v]
        /\ row'[r].owner = u /\ row'[r].seq = counter[u] + 1
        /\ \A s \in Rows : s # r => row'[s] = row[s]
        /\ purged' = purged
    BY <2>0
  <2>2. \A v \in Users : counter[v] \in Nat /\ counter[v] <= counter'[v]
    BY <1>1, <2>1
  <2>3. ASSUME NEW s \in Rows, Stored(s)'
        PROVE  row'[s].seq \in 1..counter'[row'[s].owner]
    <3>1. CASE s = r
      BY <2>1, <2>2, <3>1
    <3>2. CASE s # r
      BY <1>1, <2>1, <2>2, <2>3, <3>2 DEF SeqsAreAllocatedOnce, Stored
    <3> QED
      BY <3>1, <3>2
  <2>4. ASSUME NEW s \in Rows, NEW t \in Rows, Stored(s)', Stored(t)',
               row'[s].owner = row'[t].owner, row'[s].seq = row'[t].seq
        PROVE  s = t
    \* Other rows of u are numbered up to counter[u], r is above it.
    <3>1. ASSUME NEW q \in Rows, q # r, Stored(q)', row'[q].owner = u
          PROVE  row'[q].seq # counter[u] + 1
      BY <1>1, <2>1, <2>2, <3>1 DEF SeqsAreAllocatedOnce, Stored
    <3>2. CASE s # r /\ t # r
      BY <2>1, <2>4, <3>2 DEF SeqsAreAllocatedOnce, Stored
    <3> QED
      BY <2>1, <2>4, <3>1, <3>2
  <2>5. \A v \in Users : purged'[v] <= counter'[v]
    BY <1>1, <2>1, <2>2 DEF SeqsAreAllocatedOnce
  <2> QED
    BY <2>3, <2>4, <2>5 DEF SeqsAreAllocatedOnce
<1>3. ASSUME NEW S \in SUBSET Rows, PurgeTombstones(S)
      PROVE  SeqsAreAllocatedOnce'
  <2>1. /\ counter' = counter
        /\ \A r \in Rows : row'[r] = IF r \in S THEN NoRow ELSE row[r]
        /\ \A r \in S : Stored(r)
        /\ \A u \in Users :
              \/ purged'[u] = purged[u]
              \/ \E r \in S : row[r].owner = u /\ purged'[u] = row[r].seq
    BY <1>3, PurgeEffect DEF Tombstone
  <2>2. ASSUME NEW r \in Rows, Stored(r)'
        PROVE  Stored(r) /\ row'[r] = row[r]
    BY <2>1, <2>2 DEF Stored
  <2>3. \A u \in Users : purged'[u] <= counter'[u]
    BY <1>1, <2>1 DEF SeqsAreAllocatedOnce
  <2> QED
    BY <2>1, <2>2, <2>3 DEF SeqsAreAllocatedOnce
<1>4. CASE UNCHANGED logVars
  BY <1>4 DEF logVars, SeqsAreAllocatedOnce, Stored
<1> QED
  BY <1>2, <1>3, <1>4 DEF LogNext

\* All that a reader of user u's rows has to know of one step of the log: the
\* counter and the watermark only move up, a row of u that is there is the one
\* that was, or is numbered above the counter that was, and a row of u that is no
\* longer there was a tombstone under the watermark.
LEMMA LogStepFacts ==
    ASSUME LogTypeOK, SeqsAreAllocatedOnce, [LogNext]_logVars, NEW u \in Users
    PROVE  /\ counter[u] <= counter'[u]
           /\ purged[u] <= purged'[u]
           /\ \A r \in Rows : StoredFor(u, r)' =>
                 \/ StoredFor(u, r) /\ row'[r] = row[r]
                 \/ row'[r].seq > counter[u]
           /\ \A r \in Rows : StoredFor(u, r) =>
                 \/ StoredFor(u, r)'
                 \/ row[r].deleted /\ row[r].seq <= purged'[u]
<1>1. counter[u] \in Nat /\ purged[u] \in Nat
  BY MaxSeqAssumption DEF LogTypeOK
<1>2. ASSUME NEW v \in Users, NEW r \in Rows, NEW deleted \in BOOLEAN,
             Commit(v, r, deleted)
      PROVE  /\ counter[u] <= counter'[u]
             /\ purged'[u] = purged[u]
             /\ \A s \in Rows : StoredFor(u, s)' =>
                   \/ StoredFor(u, s) /\ row'[s] = row[s]
                   \/ row'[s].seq > counter[u]
             /\ \A s \in Rows : StoredFor(u, s) => StoredFor(u, s)'
  <2> DEFINE new == [owner |-> v, seq |-> counter[v] + 1, deleted |-> deleted]
  <2>1. /\ counter'[v] = counter[v] + 1
        /\ \A w \in Users : w # v => counter'[w] = counter[w]
        /\ row'[r] = new
        /\ row'[r] # NoRow
        /\ \A s \in Rows : s # r => row'[s] = row[s]
        /\ purged' = purged
        /\ Stored(r) => row[r].owner = v
    BY <1>2, CommitEffect, Zenon
  <2>2. counter[u] <= counter'[u]
    BY <1>1, <2>1
  <2>3. row'[r].owner = v /\ row'[r].seq = counter[v] + 1
    BY <2>1
  <2>4. ASSUME NEW s \in Rows, StoredFor(u, s)'
        PROVE  \/ StoredFor(u, s) /\ row'[s] = row[s]
               \/ row'[s].seq > counter[u]
    BY <1>1, <2>1, <2>3, <2>4 DEF StoredFor, Stored
  <2>5. ASSUME NEW s \in Rows, StoredFor(u, s)
        PROVE  StoredFor(u, s)'
    BY <2>1, <2>3, <2>5 DEF StoredFor, Stored
  <2> QED
    BY <2>1, <2>2, <2>4, <2>5
<1>3. ASSUME NEW S \in SUBSET Rows, PurgeTombstones(S)
      PROVE  /\ counter' = counter
             /\ purged[u] <= purged'[u]
             /\ \A s \in Rows : StoredFor(u, s)' => StoredFor(u, s) /\ row'[s] = row[s]
             /\ \A s \in Rows : StoredFor(u, s) =>
                   \/ StoredFor(u, s)'
                   \/ row[s].deleted /\ row[s].seq <= purged'[u]
  <2>1. /\ counter' = counter
        /\ purged[u] <= purged'[u]
        /\ \A r \in Rows : row'[r] = IF r \in S THEN NoRow ELSE row[r]
        /\ \A r \in S : Tombstone(r) /\ row[r].seq <= purged'[row[r].owner]
    BY <1>3, PurgeEffect
  <2> QED
    BY <2>1 DEF StoredFor, Stored, Tombstone
<1>4. CASE UNCHANGED logVars
  BY <1>1, <1>4 DEF logVars, StoredFor, Stored
<1> QED
  BY <1>1, <1>2, <1>3, <1>4 DEF LogNext

\* No number of a user is ever given to two rows, and no row or watermark is
\* ahead of its counter, whatever the stores write and the purge removes.
THEOREM AllocationIsUnique == LogSpec => []SeqsAreAllocatedOnce
<1>1. LogInit => SeqsAreAllocatedOnce
  BY DEF LogInit, SeqsAreAllocatedOnce, Stored
<1> QED
  BY <1>1, LogTypeCorrect, AllocationStep, PTL DEF LogSpec

\* No row changes or goes unnoticed: a write is numbered above everything its
\* owner has seen, a purged tombstone is covered by the watermark.
THEOREM ChangesAreVisible == LogSpec => NoSilentChange
<1> DEFINE Visible ==
      \A r \in Rows : row'[r] # row[r] =>
          IF row'[r] = NoRow
          THEN row[r].deleted /\ row[r].seq <= purged'[row[r].owner]
          ELSE LET u == row'[r].owner
               IN  row'[r].seq > counter[u] /\ row'[r].seq = counter'[u]
<1>1. LogTypeOK /\ [LogNext]_logVars => [Visible]_logVars
  <2> SUFFICES ASSUME LogTypeOK, LogNext
               PROVE  Visible
    OBVIOUS
  <2>1. ASSUME NEW u \in Users, NEW r \in Rows, NEW deleted \in BOOLEAN,
               Commit(u, r, deleted)
        PROVE  Visible
    <3>1. counter[u] \in Nat
      BY DEF LogTypeOK
    <3> DEFINE new == [owner |-> u, seq |-> counter[u] + 1, deleted |-> deleted]
    <3>2. /\ counter'[u] = counter[u] + 1
          /\ row'[r] = new
          /\ row'[r] # NoRow
          /\ \A s \in Rows : s # r => row'[s] = row[s]
      BY <2>1, CommitEffect, Zenon
    <3> QED
      BY <3>1, <3>2
  <2>2. ASSUME NEW S \in SUBSET Rows, PurgeTombstones(S)
        PROVE  Visible
    <3>1. /\ \A r \in Rows : row'[r] = IF r \in S THEN NoRow ELSE row[r]
          /\ \A r \in S : Tombstone(r) /\ row[r].seq <= purged'[row[r].owner]
      BY <2>2, PurgeEffect
    <3> QED
      BY <3>1 DEF Tombstone
  <2> QED
    BY <2>1, <2>2 DEF LogNext
<1> QED
  BY <1>1, LogTypeCorrect, PTL DEF LogSpec, NoSilentChange
=============================================================================

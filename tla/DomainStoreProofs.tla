-------------------------- MODULE DomainStoreProofs --------------------------
(***************************************************************************)
(* Proof that the seven stores implement the change log, for any users,    *)
(* ids, months, dates, fields, updates, bounds and retention.              *)
(*                                                                         *)
(* The argument: whatever an endpoint changes, it ends in Save with a      *)
(* record of the row's own user (IsWrite), and Save is a Commit of the     *)
(* log.  For the rows with a natural key nobody checks the owner: that     *)
(* they belong to the user in their key is the invariant OwnKeys.          *)
(***************************************************************************)
EXTENDS DomainStore, TLAPS

\* The row of a month or a date belongs to the user in its key.
OwnKeys ==
    \A u \in Users, k \in Months \union Dates :
        Stored(<<u, k>>) => row[<<u, k>>].owner = u

\* The inductive invariant.
StoreInv == TypeOK /\ OwnKeys

HistoryOK ==
    /\ born \in [Rows -> Edit \union {NoEdit}]
    /\ reposted \subseteq Rows
    /\ offered \in [Rows -> [Fields -> SUBSET Edit]]

\* A write transaction: one row is saved, by its owner or as a new row, and a row
\* that is not there does not become a tombstone.  The text merged into it is kept.
WritesRow(u, r, record) ==
    /\ Save(u, r, record)
    /\ record.owner = u
    /\ Stored(r) => row[r].owner = u
    /\ record.deleted_at # Never => Stored(r)
    /\ Stored(r) => row[r].content \subseteq record.content
    /\ r \in Ids \/ \E k \in Months \union Dates : r = <<u, k>>

IsWrite == \E u \in Users, r \in Rows, record \in RowRecord : WritesRow(u, r, record)

LEMMA NeverAndTime == Never \in {Never} \union Time /\ Time \subseteq {Never} \union Time
OBVIOUS

LEMMA BlankType == ASSUME NEW u \in Users PROVE Blank(u) \in RowRecord
BY DEF Blank, RowRecord, AllFields

\* The row a transaction starts from: the user's own, if the row is.
LEMMA LoadedType ==
    ASSUME TypeOK, NEW u \in Users, NEW r \in Rows, Stored(r) => row[r].owner = u
    PROVE  /\ Loaded(u, r) \in RowRecord /\ Loaded(u, r).owner = u
           /\ Stored(r) => Loaded(u, r) = row[r]
<1>1. CASE Stored(r)
  BY <1>1 DEF Loaded, TypeOK, Stored
<1>2. CASE ~Stored(r)
  BY <1>2, BlankType DEF Loaded, Blank
<1> QED
  BY <1>1, <1>2

LEMMA StampType ==
    ASSUME NEW S, NEW columns \in [Fields -> S], NEW F, NEW x \in S
    PROVE  Stamp(columns, F, x) \in [Fields -> S]
BY DEF Stamp

LEMMA EditType == ASSUME NEW e \in Edit PROVE e.at \in Time /\ e.at # Never
BY DEF Edit, Time, Never

\* The history of a PATCH: the newest of the edits so far and the new one.
LEMMA NewestType ==
    ASSUME NEW E \in SUBSET Edit, NEW e \in Edit
    PROVE  Newest(E \union {e}) \in SUBSET Edit
BY DEF Newest

-----------------------------------------------------------------------------
(* Every shape of write is a write.                                        *)

LEMMA UpsertIsWrite ==
    ASSUME TypeOK, NEW u \in Users, NEW r \in Ids, NEW e \in Edit, Upsert(u, r, e)
    PROVE  IsWrite /\ HistoryOK'
<1> DEFINE record == [Loaded(u, r) EXCEPT !.edit = AllFields(e),
                                          !.updated_at = e.at, !.deleted_at = Never]
<1>1. r \in Rows
  BY DEF Rows
<1>2. /\ Stored(r) => row[r].owner = u
      /\ Save(u, r, record)
  BY DEF Upsert
<1>3. /\ Loaded(u, r) \in RowRecord /\ Loaded(u, r).owner = u
      /\ Stored(r) => Loaded(u, r).content = row[r].content
  BY <1>1, <1>2, LoadedType
<1>4. /\ record \in RowRecord /\ record.owner = u /\ record.deleted_at = Never
      /\ record.content = Loaded(u, r).content
  BY <1>3, EditType DEF RowRecord, AllFields
<1>5. IsWrite
  <2> HIDE DEF record
  <2> QED
    BY <1>1, <1>2, <1>3, <1>4 DEF IsWrite, WritesRow
<1>6. HistoryOK'
  BY <1>1 DEF Upsert, HistoryOK, TypeOK
<1> QED
  BY <1>5, <1>6

\* A PATCH of the user's own row, or of a month that is not there yet.
LEMMA PatchIsWrite ==
    ASSUME TypeOK, NEW u \in Users, NEW r \in Rows, NEW F \in SUBSET Fields,
           NEW e \in Edit, Stored(r) => row[r].owner = u,
           r \in Ids \/ \E k \in Months \union Dates : r = <<u, k>>,
           Patch(u, r, F, e)
    PROVE  (IsWrite \/ UNCHANGED <<dbVars, now>>) /\ HistoryOK'
<1> DEFINE old == Loaded(u, r)
           won == {f \in F : Wins(old.field_at, f, e.at)}
           record == [old EXCEPT !.field_at = Stamp(@, won, e.at),
                                 !.edit = Stamp(@, won, e),
                                 !.updated_at = now, !.deleted_at = Never]
<1>1. old \in RowRecord /\ old.owner = u /\ (Stored(r) => old.content = row[r].content)
  BY LoadedType
<1>2. /\ record \in RowRecord /\ record.owner = u /\ record.deleted_at = Never
      /\ record.content = old.content
  <2>1. /\ Stamp(old.field_at, won, e.at) \in [Fields -> {Never} \union Time]
        /\ Stamp(old.edit, won, e) \in [Fields -> Edit \union {NoEdit}]
    <3> HIDE DEF old, won
    <3> QED
      BY <1>1, StampType, EditType DEF RowRecord
  <2>2. now \in {Never} \union Time
    BY DEF TypeOK
  <2> HIDE DEF old, won
  <2> QED
    BY <1>1, <2>1, <2>2 DEF RowRecord
<1>3. UNCHANGED <<dbVars, now>> \/ Save(u, r, record)
  BY DEF Patch
<1>4. IsWrite \/ UNCHANGED <<dbVars, now>>
  <2> HIDE DEF record, old
  <2> QED
    BY <1>1, <1>2, <1>3 DEF IsWrite, WritesRow
<1>5. HistoryOK'
  <2>1. UNCHANGED <<born, reposted>>
    BY DEF Patch
  <2>2. offered' = [offered EXCEPT ![r] =
                      [f \in Fields |-> IF f \in F THEN Newest(@[f] \union {e}) ELSE @[f]]]
    BY DEF Patch
  <2>3. offered \in [Rows -> [Fields -> SUBSET Edit]]
    BY DEF TypeOK
  <2>4. [f \in Fields |-> IF f \in F THEN Newest(offered[r][f] \union {e})
                         ELSE offered[r][f]] \in [Fields -> SUBSET Edit]
    BY <2>3, NewestType
  <2>5. offered' \in [Rows -> [Fields -> SUBSET Edit]]
    BY <2>2, <2>3, <2>4
  <2> QED
    BY <2>1, <2>5 DEF HistoryOK, TypeOK
<1> QED
  BY <1>4, <1>5

LEMMA PatchByIdIsWrite ==
    ASSUME TypeOK, NEW u \in Users, NEW r \in Ids, NEW F \in SUBSET Fields,
           NEW e \in Edit, PatchById(u, r, F, e)
    PROVE  (IsWrite \/ UNCHANGED <<dbVars, now>>) /\ HistoryOK'
<1>1. r \in Rows
  BY DEF Rows
<1> QED
  BY <1>1, PatchIsWrite DEF PatchById

LEMMA SoftDeleteIsWrite ==
    ASSUME TypeOK, NEW u \in Users, NEW r \in Rows, SoftDelete(u, r),
           r \in Ids \/ \E k \in Months \union Dates : r = <<u, k>>
    PROVE  IsWrite /\ HistoryOK'
<1> DEFINE record == [row[r] EXCEPT !.deleted_at = now, !.updated_at = now]
<1>1. Stored(r) /\ row[r].owner = u /\ Save(u, r, record)
  BY DEF SoftDelete, Live
<1>2. record \in RowRecord /\ record.owner = u /\ record.content = row[r].content
  <2>1. row[r] \in RowRecord /\ now \in {Never} \union Time
    BY <1>1 DEF Stored, TypeOK
  <2> QED
    BY <1>1, <2>1 DEF RowRecord
<1>3. IsWrite
  <2> HIDE DEF record
  <2> QED
    BY <1>1, <1>2 DEF IsWrite, WritesRow
<1>4. HistoryOK'
  BY DEF SoftDelete, histVars, HistoryOK, TypeOK
<1> QED
  BY <1>3, <1>4

LEMMA ContentType ==
    ASSUME NEW state \in SUBSET Updates, NEW update \in Updates
    PROVE  /\ ApplyTextUpdate(state, update) \in SUBSET Updates
           /\ state \subseteq ApplyTextUpdate(state, update)
BY DEF ApplyTextUpdate

LEMMA NoteContentIsWrite ==
    ASSUME TypeOK, NEW u \in Users, NEW id \in Notes, NEW update \in Updates,
           NEW t \in Time, NoteContent(u, id, update, t)
    PROVE  IsWrite /\ HistoryOK'
<1> DEFINE record == [row[id] EXCEPT !.content = ApplyTextUpdate(@, update),
                                     !.updated_at = t]
<1>1. id \in Ids /\ id \in Rows
  BY DEF Rows, Ids
<1>2. Stored(id) /\ row[id].owner = u /\ Save(u, id, record)
  BY DEF NoteContent
<1>3. row[id] \in RowRecord
  BY <1>1, <1>2 DEF Stored, TypeOK
<1>4. /\ ApplyTextUpdate(row[id].content, update) \in SUBSET Updates
      /\ row[id].content \subseteq ApplyTextUpdate(row[id].content, update)
  BY <1>3, ContentType DEF RowRecord
<1>5. record \in RowRecord /\ record.owner = u /\ row[id].content \subseteq record.content
  BY <1>2, <1>3, <1>4 DEF RowRecord
<1>6. IsWrite
  <2> HIDE DEF record
  <2> QED
    BY <1>1, <1>2, <1>5 DEF IsWrite, WritesRow
<1>7. HistoryOK'
  BY DEF NoteContent, histVars, HistoryOK, TypeOK
<1> QED
  BY <1>6, <1>7

LEMMA DailyContentIsWrite ==
    ASSUME StoreInv, NEW u \in Users, NEW date \in Dates, NEW update \in Updates,
           NEW t \in Time, DailyContent(u, date, update, t)
    PROVE  IsWrite /\ HistoryOK'
<1> DEFINE r == <<u, date>>
           old == Loaded(u, r)
           record == [old EXCEPT !.content = ApplyTextUpdate(@, update),
                                 !.updated_at = t, !.deleted_at = Never]
<1>1. r \in Rows /\ \E k \in Months \union Dates : r = <<u, k>>
  BY DEF Rows
<1>2. Stored(r) => row[r].owner = u
  BY DEF StoreInv, OwnKeys
<1>3. old \in RowRecord /\ old.owner = u /\ (Stored(r) => old.content = row[r].content)
  BY <1>1, <1>2, LoadedType DEF StoreInv
<1>4. Save(u, r, record)
  BY DEF DailyContent
<1>5. /\ record \in RowRecord /\ record.owner = u /\ record.deleted_at = Never
      /\ old.content \subseteq record.content
  <2> HIDE DEF old
  <2>1. /\ ApplyTextUpdate(old.content, update) \in SUBSET Updates
        /\ old.content \subseteq ApplyTextUpdate(old.content, update)
    BY <1>3, ContentType DEF RowRecord
  <2> QED
    BY <1>3, <2>1 DEF RowRecord
<1>6. IsWrite
  <2> HIDE DEF record, r, old
  <2> QED
    BY <1>1, <1>2, <1>3, <1>4, <1>5 DEF IsWrite, WritesRow
<1>7. HistoryOK'
  BY DEF DailyContent, histVars, HistoryOK, StoreInv, TypeOK
<1> QED
  BY <1>6, <1>7

-----------------------------------------------------------------------------
(* Every step of every store.                                              *)

LEMMA PostIsWrite ==
    ASSUME StoreInv, NEW u \in Users, Post(u)
    PROVE  IsWrite /\ HistoryOK'
<1>1. PICK r \in Ids, e \in Edit : Upsert(u, r, e)
  BY DEF Post, UpsertTask, UpsertNote, UpsertOvertimeEntry, UpsertEvent, UpsertDay, Ids
<1> QED
  BY <1>1, UpsertIsWrite DEF StoreInv

LEMMA PatchAnyIsWrite ==
    ASSUME StoreInv, NEW u \in Users, PatchAny(u)
    PROVE  (IsWrite \/ UNCHANGED <<dbVars, now>>) /\ HistoryOK'
<1>1. PICK F \in SUBSET Fields, e \in Edit :
         \/ \E r \in Ids : PatchById(u, r, F, e)
         \/ \E month \in Months : Patch(u, <<u, month>>, F, e)
  BY DEF PatchAny, PatchTask, PatchNote, PatchOvertimeEntry, PatchEvent, PatchDay,
         PatchMonthMeta, Ids
<1>2. CASE \E r \in Ids : PatchById(u, r, F, e)
  BY <1>2, PatchByIdIsWrite DEF StoreInv
<1>3. CASE \E month \in Months : Patch(u, <<u, month>>, F, e)
  <2>1. PICK month \in Months : Patch(u, <<u, month>>, F, e)
    BY <1>3
  <2>2. /\ <<u, month>> \in Rows
        /\ \E k \in Months \union Dates : <<u, month>> = <<u, k>>
        /\ Stored(<<u, month>>) => row[<<u, month>>].owner = u
    BY DEF Rows, StoreInv, OwnKeys
  <2> QED
    BY <2>1, <2>2, PatchIsWrite DEF StoreInv
<1> QED
  BY <1>1, <1>2, <1>3

LEMMA ContentIsWrite ==
    ASSUME StoreInv, NEW u \in Users, Content(u)
    PROVE  IsWrite /\ HistoryOK'
BY NoteContentIsWrite, DailyContentIsWrite DEF Content, StoreInv

LEMMA DeleteIsWrite ==
    ASSUME StoreInv, NEW u \in Users, Delete(u)
    PROVE  IsWrite /\ HistoryOK'
<1>1. \/ \E r \in Ids : SoftDelete(u, r)
      \/ \E k \in Months \union Dates : SoftDelete(u, <<u, k>>)
  BY DEF Delete, DeleteTask, DeleteNote, DeleteOvertimeEntry, DeleteEvent, DeleteDay,
         DeleteMonthMeta, DeleteDaily, Ids
<1>2. CASE \E r \in Ids : SoftDelete(u, r)
  BY <1>2, SoftDeleteIsWrite DEF StoreInv, Rows
<1>3. CASE \E k \in Months \union Dates : SoftDelete(u, <<u, k>>)
  <2>1. PICK k \in Months \union Dates : SoftDelete(u, <<u, k>>)
    BY <1>3
  <2>2. <<u, k>> \in Rows
    BY DEF Rows
  <2> QED
    BY <2>1, <2>2, SoftDeleteIsWrite DEF StoreInv
<1> QED
  BY <1>1, <1>2, <1>3

-----------------------------------------------------------------------------
(* A write keeps the invariant and is a commit of the change log.          *)

\* What a write leaves in the database.
LEMMA WriteEffect ==
    ASSUME StoreInv, NEW u \in Users, NEW r \in Rows, NEW record \in RowRecord,
           WritesRow(u, r, record)
    PROVE  /\ counter[u] \in Nat /\ counter[u] < MaxSeq
           /\ counter' = [counter EXCEPT ![u] = counter[u] + 1]
           /\ row' = [row EXCEPT ![r] = [record EXCEPT !.seq = counter[u] + 1]]
           /\ [record EXCEPT !.seq = counter[u] + 1] \in RowRecord
           /\ [record EXCEPT !.seq = counter[u] + 1].owner = u
           /\ [record EXCEPT !.seq = counter[u] + 1].seq = counter[u] + 1
           /\ [record EXCEPT !.seq = counter[u] + 1].deleted_at = record.deleted_at
           /\ UNCHANGED <<purged, now>>
<1>1. counter[u] \in Nat /\ counter[u] < MaxSeq
  BY StoreAssumption DEF StoreInv, TypeOK, WritesRow, Save
<1>2. counter' = [counter EXCEPT ![u] = counter[u] + 1]
  BY DEF WritesRow, Save
<1>3. row' = [row EXCEPT ![r] = [record EXCEPT !.seq = counter[u] + 1]]
  BY DEF WritesRow, Save
<1>4. UNCHANGED <<purged, now>>
  BY DEF WritesRow, Save
<1>5. counter[u] + 1 \in Nat
  BY <1>1
<1>6. /\ [record EXCEPT !.seq = counter[u] + 1] \in RowRecord
      /\ [record EXCEPT !.seq = counter[u] + 1].owner = record.owner
      /\ [record EXCEPT !.seq = counter[u] + 1].seq = counter[u] + 1
      /\ [record EXCEPT !.seq = counter[u] + 1].deleted_at = record.deleted_at
  BY <1>5 DEF RowRecord
<1>7. record.owner = u
  BY DEF WritesRow
<1> QED
  BY <1>1, <1>2, <1>3, <1>4, <1>6, <1>7

LEMMA WriteKeepsInv ==
    ASSUME StoreInv, IsWrite, HistoryOK'
    PROVE  StoreInv'
<1>1. PICK u \in Users, r \in Rows, record \in RowRecord : WritesRow(u, r, record)
  BY DEF IsWrite
<1> DEFINE new == [record EXCEPT !.seq = counter[u] + 1]
<1>2. /\ counter[u] \in Nat /\ counter[u] < MaxSeq
      /\ counter' = [counter EXCEPT ![u] = counter[u] + 1]
      /\ row' = [row EXCEPT ![r] = new]
      /\ new \in RowRecord /\ new.owner = u
      /\ UNCHANGED <<purged, now>>
  BY <1>1, WriteEffect
<1> HIDE DEF new
<1>3. row' \in [Rows -> RowRecord \union {NoRow}]
  BY <1>2 DEF StoreInv, TypeOK
<1>4. counter' \in [Users -> 0..MaxSeq]
  BY <1>2, StoreAssumption DEF StoreInv, TypeOK
<1>5. TypeOK'
  BY <1>2, <1>3, <1>4 DEF StoreInv, TypeOK, HistoryOK
<1>6. OwnKeys'
  <2> SUFFICES ASSUME NEW v \in Users, NEW k \in Months \union Dates,
                      Stored(<<v, k>>)'
               PROVE  row'[<<v, k>>].owner = v
    BY DEF OwnKeys
  <2>1. <<v, k>> \in Rows /\ row \in [Rows -> RowRecord \union {NoRow}]
    BY DEF Rows, StoreInv, TypeOK
  <2>2. CASE r = <<v, k>>
    <3>1. r \notin Ids
      BY <2>2, StoreAssumption
    <3>2. v = u
      BY <1>1, <2>2, <3>1 DEF WritesRow
    <3> QED
      BY <1>2, <2>1, <2>2, <3>2
  <2>3. CASE r # <<v, k>>
    <3>1. row'[<<v, k>>] = row[<<v, k>>]
      BY <1>2, <2>1, <2>3
    <3> QED
      BY <3>1 DEF Stored, StoreInv, OwnKeys
  <2> QED
    BY <2>2, <2>3
<1> QED
  BY <1>5, <1>6 DEF StoreInv

\* What the feed sees of a row.
LEMMA FeedRowOf ==
    ASSUME TypeOK, NEW r \in Rows
    PROVE  /\ Stored(r) => /\ FeedRow[r].owner = row[r].owner
                           /\ FeedRow[r].seq = row[r].seq
                           /\ FeedRow[r].deleted <=> row[r].deleted_at # Never
           /\ Log!Stored(r) <=> Stored(r)
<1> DEFINE seen == [owner |-> row[r].owner, seq |-> row[r].seq,
                    deleted |-> row[r].deleted_at # Never]
<1>1. ASSUME Stored(r) PROVE FeedRow[r] = seen
  BY <1>1 DEF FeedRow
<1>2. ASSUME Stored(r) PROVE seen # NoRow
  <2>1. row[r] \in RowRecord
    BY <1>2 DEF Stored, TypeOK
  <2>2. seen \in [owner : Users, seq : Nat, deleted : BOOLEAN]
    BY <2>1 DEF RowRecord
  <2> QED
    BY <2>2, StoreAssumption
<1>3. ASSUME ~Stored(r) PROVE FeedRow[r] = NoRow
  BY <1>3 DEF FeedRow
<1>4. /\ seen.owner = row[r].owner
      /\ seen.seq = row[r].seq
      /\ seen.deleted <=> row[r].deleted_at # Never
  OBVIOUS
<1> HIDE DEF seen
<1>5. Log!Stored(r) <=> Stored(r)
  BY <1>1, <1>2, <1>3 DEF Log!Stored
<1> QED
  BY <1>1, <1>4, <1>5

LEMMA WriteIsCommit ==
    ASSUME StoreInv, StoreInv', IsWrite
    PROVE  \E u \in Users, r \in Rows, deleted \in BOOLEAN : Log!Commit(u, r, deleted)
<1>1. PICK u \in Users, r \in Rows, record \in RowRecord : WritesRow(u, r, record)
  BY DEF IsWrite
<1> DEFINE new == [record EXCEPT !.seq = counter[u] + 1]
           deleted == record.deleted_at # Never
<1>2. /\ counter[u] \in Nat /\ counter[u] < MaxSeq
      /\ counter' = [counter EXCEPT ![u] = counter[u] + 1]
      /\ row' = [row EXCEPT ![r] = new]
      /\ new \in RowRecord /\ new.owner = u
      /\ new.seq = counter[u] + 1 /\ new.deleted_at = record.deleted_at
      /\ UNCHANGED <<purged, now>>
  BY <1>1, WriteEffect
<1> HIDE DEF new
<1>3. /\ Stored(r) => row[r].owner = u
      /\ deleted => Stored(r)
  BY <1>1 DEF WritesRow
<1>4. /\ Log!Stored(r) => FeedRow[r].owner = u
      /\ deleted => Log!Stored(r)
  <2>1. Stored(r) => FeedRow[r].owner = row[r].owner
    BY FeedRowOf DEF StoreInv
  <2>2. Log!Stored(r) <=> Stored(r)
    BY FeedRowOf DEF StoreInv
  <2> QED
    BY <1>3, <2>1, <2>2
<1>5. FeedRow' = [FeedRow EXCEPT ![r] =
                    [owner |-> u, seq |-> counter[u] + 1, deleted |-> deleted]]
  <2>1. row'[r] = new /\ new # NoRow
    BY <1>2, StoreAssumption DEF StoreInv, TypeOK
  <2>2. ASSUME NEW s \in Rows, s # r PROVE row'[s] = row[s]
    BY <1>2, <2>2 DEF StoreInv, TypeOK
  <2>3. FeedRow'[r] = [owner |-> u, seq |-> counter[u] + 1, deleted |-> deleted]
    BY <1>2, <2>1 DEF FeedRow, Stored
  <2>4. ASSUME NEW s \in Rows, s # r PROVE FeedRow'[s] = FeedRow[s]
    BY <2>2, <2>4 DEF FeedRow, Stored
  <2>5. FeedRow = [s \in Rows |-> FeedRow[s]] /\ FeedRow' = [s \in Rows |-> FeedRow'[s]]
    BY DEF FeedRow
  <2> HIDE DEF deleted
  <2> QED
    BY <2>3, <2>4, <2>5
<1>6. Log!NextSeq(u) = counter[u] + 1 /\ Log!NextSeq(u) <= MaxSeq
  BY <1>2, StoreAssumption DEF Log!NextSeq
<1>7. Log!Commit(u, r, deleted)
  <2> HIDE DEF deleted
  <2> QED
    BY <1>2, <1>4, <1>5, <1>6 DEF Log!Commit
<1>8. deleted \in BOOLEAN
  OBVIOUS
<1> HIDE DEF deleted
<1> QED
  BY <1>7, <1>8

-----------------------------------------------------------------------------
(* The purge.                                                              *)

LEMMA PurgeKeepsInv ==
    ASSUME StoreInv, PurgeTombstones
    PROVE  StoreInv'
<1>1. row' = [r \in Rows |-> IF r \in Expired THEN NoRow ELSE row[r]]
  BY DEF PurgeTombstones
<1>2. /\ purged' \in [Users -> 0..MaxSeq]
      /\ UNCHANGED <<counter, now>>
  BY DEF PurgeTombstones
<1>3. row' \in [Rows -> RowRecord \union {NoRow}]
  BY <1>1 DEF StoreInv, TypeOK
<1>4. HistoryOK'
  <2>1. born' = [r \in Rows |-> IF r \in Expired THEN NoEdit ELSE born[r]]
    BY DEF PurgeTombstones
  <2>2. reposted' = reposted \ Expired
    BY DEF PurgeTombstones
  <2>3. offered' = [r \in Rows |-> IF r \in Expired THEN AllFields({}) ELSE offered[r]]
    BY DEF PurgeTombstones
  <2>4. AllFields({}) \in [Fields -> SUBSET Edit]
    BY DEF AllFields
  <2>5. born' \in [Rows -> Edit \union {NoEdit}]
    BY <2>1 DEF StoreInv, TypeOK
  <2>6. offered' \in [Rows -> [Fields -> SUBSET Edit]]
    BY <2>3, <2>4 DEF StoreInv, TypeOK
  <2> QED
    BY <2>2, <2>5, <2>6 DEF StoreInv, TypeOK, HistoryOK
<1>5. TypeOK'
  BY <1>2, <1>3, <1>4 DEF StoreInv, TypeOK, HistoryOK
<1>6. OwnKeys'
  <2> SUFFICES ASSUME NEW u \in Users, NEW k \in Months \union Dates,
                      Stored(<<u, k>>)'
               PROVE  row'[<<u, k>>].owner = u
    BY DEF OwnKeys
  <2>1. <<u, k>> \in Rows
    BY DEF Rows
  <2>2. row'[<<u, k>>] = row[<<u, k>>]
    BY <1>1, <2>1 DEF Stored
  <2> QED
    BY <2>2 DEF Stored, StoreInv, OwnKeys
<1> QED
  BY <1>5, <1>6 DEF StoreInv

LEMMA PurgeIsPurge ==
    ASSUME StoreInv, PurgeTombstones
    PROVE  Expired \in SUBSET Rows /\ Log!PurgeTombstones(Expired)
<1>1. Expired \in SUBSET Rows
  BY DEF Expired
<1>2. ASSUME NEW r \in Expired
      PROVE  /\ Stored(r) /\ Log!Tombstone(r)
             /\ FeedRow[r].owner = row[r].owner /\ FeedRow[r].seq = row[r].seq
  <2>1. r \in Rows /\ Stored(r) /\ row[r].deleted_at # Never
    BY DEF Expired, Tombstone
  <2>2. Log!Stored(r) /\ FeedRow[r].deleted
    BY <2>1, FeedRowOf DEF StoreInv
  <2>3. FeedRow[r].owner = row[r].owner /\ FeedRow[r].seq = row[r].seq
    BY <2>1, FeedRowOf DEF StoreInv
  <2> QED
    BY <2>1, <2>2, <2>3 DEF Log!Tombstone
<1>3. ASSUME NEW u \in Users
      PROVE  {FeedRow[r].seq : r \in {s \in Expired : FeedRow[s].owner = u}}
               = {row[r].seq : r \in {s \in Expired : row[s].owner = u}}
  BY <1>2
<1>4. ASSUME NEW u \in Users
      PROVE  Log!IsHighest(purged'[u],
               {purged[u]} \union
                 {FeedRow[r].seq : r \in {s \in Expired : FeedRow[s].owner = u}})
  BY <1>3 DEF PurgeTombstones, Log!IsHighest
<1>5. FeedRow' = [r \in Rows |-> IF r \in Expired THEN NoRow ELSE FeedRow[r]]
  <2>1. row' = [r \in Rows |-> IF r \in Expired THEN NoRow ELSE row[r]]
    BY DEF PurgeTombstones
  <2> QED
    BY <2>1 DEF FeedRow, Stored
<1>6. /\ Expired # {}
      /\ purged' \in [Users -> 0..MaxSeq]
      /\ UNCHANGED counter
  BY DEF PurgeTombstones
<1>7. \A r \in Expired : Log!Tombstone(r)
  BY <1>2
<1> QED
  BY <1>1, <1>4, <1>5, <1>6, <1>7 DEF Log!PurgeTombstones

-----------------------------------------------------------------------------
(* Theorems.                                                               *)

LEMMA InitInv == Init => StoreInv
<1> SUFFICES ASSUME Init PROVE StoreInv
  OBVIOUS
<1>1. TypeOK
  BY StoreAssumption DEF Init, TypeOK, Time, AllFields
<1>2. \A u \in Users, k \in Months \union Dates : ~Stored(<<u, k>>)
  BY DEF Init, Stored, Rows
<1> QED
  BY <1>1, <1>2 DEF StoreInv, OwnKeys

\* What a step is: a write, a purge, or one that leaves the database alone.
LEMMA StepCases ==
    ASSUME StoreInv, [Next]_vars
    PROVE  \/ IsWrite /\ HistoryOK'
           \/ PurgeTombstones
           \/ UNCHANGED dbVars /\ now' \in Time /\ HistoryOK'
<1>1. now \in Time /\ HistoryOK
  BY DEF StoreInv, TypeOK, HistoryOK
<1>2. CASE \E u \in Users : Post(u) \/ Content(u) \/ Delete(u)
  BY <1>2, PostIsWrite, ContentIsWrite, DeleteIsWrite
<1>3. CASE \E u \in Users : PatchAny(u)
  BY <1>1, <1>3, PatchAnyIsWrite
<1>4. CASE PurgeTombstones
  BY <1>4
<1>5. CASE Tick
  <2>1. now' \in Time
    BY <1>1, <1>5, StoreAssumption DEF Tick, Time
  <2>2. HistoryOK'
    BY <1>1, <1>5 DEF Tick, histVars, HistoryOK
  <2> QED
    BY <1>5, <2>1, <2>2 DEF Tick
<1>6. CASE UNCHANGED vars
  BY <1>1, <1>6 DEF vars, histVars, HistoryOK
<1> QED
  BY <1>2, <1>3, <1>4, <1>5, <1>6 DEF Next

LEMMA StepKeepsInv ==
    ASSUME StoreInv, [Next]_vars
    PROVE  StoreInv'
<1>1. CASE IsWrite /\ HistoryOK'
  BY <1>1, WriteKeepsInv
<1>2. CASE PurgeTombstones
  BY <1>2, PurgeKeepsInv
<1>3. CASE UNCHANGED dbVars /\ now' \in Time /\ HistoryOK'
  BY <1>3 DEF StoreInv, TypeOK, OwnKeys, Stored, dbVars, HistoryOK
<1> QED
  BY <1>1, <1>2, <1>3, StepCases

\* The invariant: the rows, counters and watermarks keep their types, and a row
\* with a natural key belongs to the user in it, in every store.
THEOREM StoreInvariant == Spec => []StoreInv
<1>1. Init => StoreInv
  BY InitInv
<1>2. StoreInv /\ [Next]_vars => StoreInv'
  BY StepKeepsInv
<1> QED
  BY <1>1, <1>2, PTL DEF Spec

\* Rows, counters, watermarks and histories keep their types under every
\* endpoint of the seven stores.
THEOREM StoreTypeCorrect == Spec => []TypeOK
<1>1. StoreInv => TypeOK
  BY DEF StoreInv
<1> QED
  BY <1>1, StoreInvariant, PTL

\* Every transaction of the seven stores is a commit of the change log, the
\* purge is its purge, and nothing else touches what the feed reads.
THEOREM StoresImplementLog == Spec => ImplementsChangeLog
<1>1. Init => Log!LogInit
  BY DEF Init, Log!LogInit, FeedRow, Stored
<1>2. ASSUME StoreInv, StoreInv', [Next]_vars
      PROVE  [Log!LogNext]_(Log!logVars)
  <2>1. CASE IsWrite
    BY <1>2, <2>1, WriteIsCommit DEF Log!LogNext
  <2>2. CASE PurgeTombstones
    BY <1>2, <2>2, PurgeIsPurge DEF Log!LogNext
  <2>3. CASE UNCHANGED dbVars
    BY <2>3 DEF dbVars, Log!logVars, FeedRow, Stored
  <2> QED
    BY <1>2, <2>1, <2>2, <2>3, StepCases
<1>3. Spec => []StoreInv
  BY StoreInvariant
<1>4. StoreInv /\ StoreInv' /\ [Next]_vars => [Log!LogNext]_(Log!logVars)
  BY <1>2
<1> QED
  BY <1>1, <1>3, <1>4, PTL DEF Spec, ImplementsChangeLog, Log!LogSpec

\* No text that was merged into a row is lost while the row exists, whatever is
\* posted, patched, merged, deleted or restored.
THEOREM ContentIsKept == Spec => ContentIsNeverLost
<1>1. ASSUME StoreInv, [Next]_vars, NEW s \in Rows, Stored(s), row'[s] # NoRow
      PROVE  row[s].content \subseteq row'[s].content
  <2>1. CASE IsWrite
    <3>1. PICK u \in Users, r \in Rows, record \in RowRecord : WritesRow(u, r, record)
      BY <2>1 DEF IsWrite
    <3> DEFINE new == [record EXCEPT !.seq = counter[u] + 1]
    <3>2. row' = [row EXCEPT ![r] = new]
      BY <3>1 DEF WritesRow, Save
    <3>3. new.content = record.content
      BY DEF RowRecord
    <3>4. Stored(r) => row[r].content \subseteq record.content
      BY <3>1 DEF WritesRow
    <3> HIDE DEF new
    <3> QED
      BY <1>1, <3>2, <3>3, <3>4 DEF StoreInv, TypeOK
  <2>2. CASE PurgeTombstones
    <3>1. row' = [r \in Rows |-> IF r \in Expired THEN NoRow ELSE row[r]]
      BY <2>2 DEF PurgeTombstones
    <3> QED
      BY <1>1, <3>1
  <2>3. CASE UNCHANGED dbVars
    BY <2>3 DEF dbVars
  <2> QED
    BY <1>1, <2>1, <2>2, <2>3, StepCases
<1>2. StoreInv /\ [Next]_vars =>
        [\A r \in Rows : Stored(r) /\ row'[r] # NoRow =>
            row[r].content \subseteq row'[r].content]_vars
  BY <1>1
<1>3. Spec => []StoreInv
  BY StoreInvariant
<1> QED
  BY <1>2, <1>3, PTL DEF Spec, ContentIsNeverLost

=============================================================================

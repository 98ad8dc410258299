------------------------ MODULE DomainStoreMergeProofs ------------------------
(***************************************************************************)
(* Proof that a field holds the newest edit PATCHed to it and that a PATCH *)
(* no newer changes nothing, for any number of rows, fields, values and    *)
(* clocks.                                                                 *)
(*                                                                         *)
(* Neither is inductive: whether the next PATCH wins a field is decided by *)
(* field_at, of which they do not speak.  MergeInv adds that field_at is   *)
(* the time of the newest edits offered to each field, in every row,       *)
(* POSTed again or not, and that a row that is not there has no history.   *)
(***************************************************************************)
EXTENDS DomainStoreProofs

\* Timestamps are those of the newest edits, of which there is none at first.
StampedBy(field_at, newest) ==
    \A f \in Fields :
        IF newest[f] = {} THEN field_at[f] = Never
                          ELSE \A e \in newest[f] : e.at = field_at[f]

\* A field's value comes from the newest edits offered, or from the first POST.
FieldsOf(r) ==
    \A f \in Fields :
        IF offered[r][f] = {} THEN row[r].edit[f] = born[r]
                              ELSE row[r].edit[f] \in offered[r][f]

MergedRow(r) ==
    IF Stored(r)
    THEN StampedBy(row[r].field_at, offered[r]) /\ (r \notin reposted => FieldsOf(r))
    ELSE offered[r] = AllFields({}) /\ born[r] = NoEdit

MergeInv == \A r \in Rows : MergedRow(r)

\* What OnlyNewerPatchesCount says of a step that is no POST.
OlderLose ==
    \A r \in Rows : Stored(r) /\ row'[r] # NoRow =>
        \A f \in Fields :
            offered[r][f] # {} /\ offered[r][f] \subseteq offered'[r][f]
            => row'[r].edit[f] = row[r].edit[f]

\* A step that touches no row, or history of a row, but r.
OnlyRow(r) ==
    \A s \in Rows \ {r} :
        /\ row'[s] = row[s] /\ offered'[s] = offered[s] /\ born'[s] = born[s]
        /\ s \in reposted' <=> s \in reposted

LEMMA OtherRows ==
    ASSUME MergeInv, NEW r \in Rows, OnlyRow(r), MergedRow(r)'
    PROVE  MergeInv'
<1> SUFFICES ASSUME NEW s \in Rows PROVE MergedRow(s)'
  BY DEF MergeInv
<1>1. CASE s = r
  BY <1>1
<1>2. CASE s # r
  BY <1>2 DEF OnlyRow, MergeInv, MergedRow, FieldsOf, StampedBy, Stored
<1> QED
  BY <1>1, <1>2

LEMMA OtherRowsKeep ==
    ASSUME NEW r \in Rows, OnlyRow(r),
           \A f \in Fields :
               Stored(r) /\ offered[r][f] # {} /\ offered[r][f] \subseteq offered'[r][f]
               => row'[r].edit[f] = row[r].edit[f]
    PROVE  OlderLose
BY DEF OnlyRow, OlderLose

\* The row that a transaction saves.
LEMMA SavedRow ==
    ASSUME TypeOK, NEW u \in Users, NEW r \in Rows, NEW record \in RowRecord,
           Save(u, r, record)
    PROVE  /\ \A s \in Rows \ {r} : row'[s] = row[s]
           /\ row'[r].field_at = record.field_at
           /\ row'[r].edit = record.edit
           /\ Stored(r)'
<1> DEFINE new == [record EXCEPT !.seq = counter[u] + 1]
<1>1. row' = [row EXCEPT ![r] = new]
  BY DEF Save
<1>2. /\ new \in RowRecord
      /\ new.field_at = record.field_at /\ new.edit = record.edit
  <2>1. counter[u] + 1 \in Nat
    BY StoreAssumption DEF TypeOK
  <2> QED
    BY <2>1 DEF RowRecord
<1> HIDE DEF new
<1>3. row'[r] = new /\ \A s \in Rows \ {r} : row'[s] = row[s]
  BY <1>1 DEF TypeOK
<1> QED
  BY <1>2, <1>3, StoreAssumption DEF Stored

\* The columns a transaction starts from.
LEMMA LoadedColumns ==
    ASSUME StoreInv, MergeInv, NEW u \in Users, NEW r \in Rows,
           Stored(r) => row[r].owner = u
    PROVE  /\ Loaded(u, r) \in RowRecord
           /\ StampedBy(Loaded(u, r).field_at, offered[r])
           /\ ~Stored(r) => /\ Loaded(u, r).edit = AllFields(NoEdit)
                            /\ offered[r] = AllFields({}) /\ born[r] = NoEdit
           /\ Stored(r) => Loaded(u, r).edit = row[r].edit
<1>1. /\ Loaded(u, r) \in RowRecord
      /\ Stored(r) => Loaded(u, r) = row[r]
  BY LoadedType DEF StoreInv
<1>2. MergedRow(r)
  BY DEF MergeInv
<1>3. CASE Stored(r)
  BY <1>1, <1>2, <1>3 DEF MergedRow
<1>4. CASE ~Stored(r)
  <2>1. Loaded(u, r) = Blank(u)
    BY <1>4 DEF Loaded
  <2>2. Blank(u).field_at = AllFields(Never) /\ Blank(u).edit = AllFields(NoEdit)
    BY DEF Blank
  <2>3. StampedBy(AllFields(Never), AllFields({}))
    BY DEF StampedBy, AllFields
  <2> QED
    BY <1>1, <1>2, <1>4, <2>1, <2>2, <2>3 DEF MergedRow
<1> QED
  BY <1>3, <1>4

-----------------------------------------------------------------------------
(* Every shape of write keeps the rows merged.                             *)

LEMMA UpsertMerges ==
    ASSUME StoreInv, MergeInv, NEW u \in Users, NEW r \in Ids, NEW e \in Edit,
           Upsert(u, r, e)
    PROVE  MergeInv'
<1> DEFINE record == [Loaded(u, r) EXCEPT !.edit = AllFields(e),
                                          !.updated_at = e.at, !.deleted_at = Never]
<1>1. r \in Rows
  BY DEF Rows
<1>2. /\ Stored(r) => row[r].owner = u
      /\ Save(u, r, record)
  BY DEF Upsert
<1>3. /\ Loaded(u, r) \in RowRecord
      /\ StampedBy(Loaded(u, r).field_at, offered[r])
      /\ ~Stored(r) => offered[r] = AllFields({})
  BY <1>1, <1>2, LoadedColumns
<1>4. /\ record \in RowRecord
      /\ record.field_at = Loaded(u, r).field_at /\ record.edit = AllFields(e)
  BY <1>3, EditType DEF RowRecord, AllFields
<1> HIDE DEF record
<1>5. /\ \A s \in Rows \ {r} : row'[s] = row[s]
      /\ StampedBy(row'[r].field_at, offered[r]) /\ row'[r].edit = AllFields(e)
      /\ Stored(r)'
  BY <1>1, <1>2, <1>3, <1>4, SavedRow DEF StoreInv
<1>6. /\ born' = IF Stored(r) THEN born ELSE [born EXCEPT ![r] = e]
      /\ reposted' = IF Stored(r) THEN reposted \union {r} ELSE reposted
      /\ offered' = offered
  BY DEF Upsert
<1>7. OnlyRow(r)
  BY <1>5, <1>6 DEF OnlyRow, StoreInv, TypeOK
<1>8. StampedBy(row[r].field_at, offered[r])'
  BY <1>5, <1>6
<1>9. r \notin reposted' => FieldsOf(r)'
  <2>1. CASE Stored(r)
    BY <1>6, <2>1
  <2>2. CASE ~Stored(r)
    <3>1. born'[r] = e
      BY <1>1, <1>6, <2>2 DEF StoreInv, TypeOK
    <3> QED
      BY <1>3, <1>5, <1>6, <2>2, <3>1 DEF FieldsOf, AllFields
  <2> QED
    BY <2>1, <2>2
<1>10. MergedRow(r)'
  BY <1>5, <1>8, <1>9 DEF MergedRow
<1> QED
  BY <1>1, <1>7, <1>10, OtherRows

\* What an edit e does to the newest edits E of a field stamped with t: it
\* replaces them if it wins, and leaves them there if it does not.
LEMMA NewestOf ==
    ASSUME NEW E \in SUBSET Edit, NEW t \in {Never} \union Time, NEW e \in Edit,
           IF E = {} THEN t = Never ELSE \A d \in E : d.at = t
    PROVE  IF t = Never \/ e.at > t
           THEN Newest(E \union {e}) = {e} /\ e \notin E
           ELSE /\ E # {} /\ E \subseteq Newest(E \union {e})
                /\ \A d \in Newest(E \union {e}) : d.at = t
<1>1. \A d \in E \union {e} : d.at \in Time
  BY EditType
<1>2. t \in Nat /\ \A d \in E \union {e} : d.at \in Nat /\ d.at > Never
  BY <1>1 DEF Time, Never
<1>3. E # {} => t # Never
  BY <1>2
<1>4. CASE t = Never
  BY <1>2, <1>3, <1>4 DEF Newest
<1>5. CASE t # Never /\ e.at > t
  BY <1>2, <1>5 DEF Newest
<1>6. CASE t # Never /\ ~(e.at > t)
  BY <1>2, <1>6 DEF Newest
<1> QED
  BY <1>4, <1>5, <1>6

\* A PATCH of the fields F, field by field: a field it wins holds the edit, which
\* is then the newest; the others keep theirs.
LEMMA PatchedField ==
    ASSUME StoreInv, MergeInv, NEW u \in Users, NEW r \in Rows,
           NEW F \in SUBSET Fields, NEW e \in Edit, Stored(r) => row[r].owner = u,
           Patch(u, r, F, e), NEW f \in Fields
    PROVE  LET old == Loaded(u, r)
           IN  IF f \in F /\ Wins(old.field_at, f, e.at)
               THEN offered'[r][f] = {e} /\ e \notin offered[r][f]
               ELSE /\ offered[r][f] \subseteq offered'[r][f]
                    /\ offered'[r][f] = {} <=> offered[r][f] = {}
                    /\ \A d \in offered'[r][f] : d.at = old.field_at[f]
<1> DEFINE old == Loaded(u, r)
<1>1. old \in RowRecord /\ StampedBy(old.field_at, offered[r])
  BY LoadedColumns
<1>2. old.field_at[f] \in {Never} \union Time
  BY <1>1 DEF RowRecord
<1>3. offered[r][f] \in SUBSET Edit
  BY DEF StoreInv, TypeOK
<1>4. IF offered[r][f] = {} THEN old.field_at[f] = Never
                            ELSE \A d \in offered[r][f] : d.at = old.field_at[f]
  BY <1>1 DEF StampedBy
<1>5. offered'[r][f] = IF f \in F THEN Newest(offered[r][f] \union {e})
                                   ELSE offered[r][f]
  BY DEF Patch, StoreInv, TypeOK
<1> HIDE DEF old
<1>6. CASE f \in F
  <2> DEFINE E == offered[r][f]
             t == old.field_at[f]
  <2>1. E \in SUBSET Edit /\ t \in {Never} \union Time
    BY <1>2, <1>3
  <2>2. IF E = {} THEN t = Never ELSE \A d \in E : d.at = t
    BY <1>4
  <2>3. offered'[r][f] = Newest(E \union {e})
    BY <1>5, <1>6
  <2>4. Wins(old.field_at, f, e.at) <=> t = Never \/ e.at > t
    BY DEF Wins
  <2> HIDE DEF E, t
  <2>5. IF t = Never \/ e.at > t
        THEN Newest(E \union {e}) = {e} /\ e \notin E
        ELSE /\ E # {} /\ E \subseteq Newest(E \union {e})
             /\ \A d \in Newest(E \union {e}) : d.at = t
    BY <2>1, <2>2, NewestOf
  <2> QED
    BY <1>6, <2>3, <2>4, <2>5 DEF E, t, old
<1>7. CASE f \notin F
  BY <1>4, <1>5, <1>7 DEF old
<1> QED
  BY <1>6, <1>7

LEMMA PatchMerges ==
    ASSUME StoreInv, MergeInv, NEW u \in Users, NEW r \in Rows,
           NEW F \in SUBSET Fields, NEW e \in Edit, Stored(r) => row[r].owner = u,
           Patch(u, r, F, e)
    PROVE  MergeInv' /\ OlderLose
<1> DEFINE old == Loaded(u, r)
           won == {f \in F : Wins(old.field_at, f, e.at)}
           record == [old EXCEPT !.field_at = Stamp(@, won, e.at),
                                 !.edit = Stamp(@, won, e),
                                 !.updated_at = now, !.deleted_at = Never]
<1>1. /\ old \in RowRecord
      /\ StampedBy(old.field_at, offered[r])
      /\ ~Stored(r) => /\ old.edit = AllFields(NoEdit)
                       /\ offered[r] = AllFields({}) /\ born[r] = NoEdit
      /\ Stored(r) => old.edit = row[r].edit
  BY LoadedColumns
<1>2. \A f \in Fields :
         IF f \in won
         THEN offered'[r][f] = {e} /\ e \notin offered[r][f]
         ELSE /\ offered[r][f] \subseteq offered'[r][f]
              /\ offered'[r][f] = {} <=> offered[r][f] = {}
              /\ \A d \in offered'[r][f] : d.at = old.field_at[f]
  <2> SUFFICES ASSUME NEW f \in Fields
               PROVE  IF f \in won
                      THEN offered'[r][f] = {e} /\ e \notin offered[r][f]
                      ELSE /\ offered[r][f] \subseteq offered'[r][f]
                           /\ offered'[r][f] = {} <=> offered[r][f] = {}
                           /\ \A d \in offered'[r][f] : d.at = old.field_at[f]
    OBVIOUS
  <2> QED
    BY PatchedField
<1>3. /\ born' = born /\ reposted' = reposted
      /\ IF won = {} THEN UNCHANGED <<dbVars, now>> ELSE Save(u, r, record)
  BY DEF Patch
<1>4. \A s \in Rows \ {r} : offered'[s] = offered[s]
  BY DEF Patch, StoreInv, TypeOK
<1>5. won \subseteq Fields
  OBVIOUS
<1> HIDE DEF old, won
<1>6. CASE won = {}
  <2>1. row' = row
    BY <1>3, <1>6 DEF dbVars
  <2>2. OnlyRow(r)
    BY <1>3, <1>4, <2>1 DEF OnlyRow
  <2>3. CASE Stored(r)
    <3>1. StampedBy(row[r].field_at, offered[r])'
      <4>1. old = row[r]
        BY <2>3 DEF old, Loaded
      <4>2. \A f \in Fields : IF offered[r][f] = {} THEN old.field_at[f] = Never
                                                    ELSE TRUE
        BY <1>1 DEF StampedBy
      <4> QED
        BY <1>2, <1>6, <2>1, <4>1, <4>2 DEF StampedBy
    <3>2. r \notin reposted => FieldsOf(r)'
      BY <1>2, <1>3, <1>6, <2>1, <2>3 DEF MergeInv, MergedRow, FieldsOf
    <3> QED
      BY <1>3, <2>1, <2>2, <2>3, <3>1, <3>2, OtherRows, OtherRowsKeep DEF MergedRow, Stored
  <2>4. CASE ~Stored(r)
    <3>1. \A f \in Fields : offered'[r][f] = {}
      BY <1>1, <1>2, <1>6, <2>4 DEF AllFields
    <3>2. offered'[r] = [f \in Fields |-> offered'[r][f]]
      BY DEF Patch, StoreInv, TypeOK
    <3>3. offered'[r] = AllFields({})
      BY <3>1, <3>2 DEF AllFields
    <3>4. MergedRow(r)'
      BY <1>1, <1>3, <2>1, <2>4, <3>3 DEF MergedRow, Stored
    <3> QED
      BY <2>2, <2>4, <3>4, OtherRows, OtherRowsKeep
  <2> QED
    BY <2>3, <2>4
<1>7. CASE won # {}
  <2>1. /\ record \in RowRecord
        /\ record.field_at = Stamp(old.field_at, won, e.at)
        /\ record.edit = Stamp(old.edit, won, e)
    <3>1. /\ Stamp(old.field_at, won, e.at) \in [Fields -> {Never} \union Time]
          /\ Stamp(old.edit, won, e) \in [Fields -> Edit \union {NoEdit}]
      BY <1>1, StampType, EditType DEF RowRecord
    <3>2. now \in {Never} \union Time
      BY DEF StoreInv, TypeOK
    <3> QED
      BY <1>1, <3>1, <3>2 DEF RowRecord
  <2> HIDE DEF record
  <2>2. Save(u, r, record)
    BY <1>3, <1>7
  <2>3. /\ \A s \in Rows \ {r} : row'[s] = row[s]
        /\ row'[r].field_at = Stamp(old.field_at, won, e.at)
        /\ row'[r].edit = Stamp(old.edit, won, e)
        /\ Stored(r)'
    BY <1>1, <2>1, <2>2, SavedRow DEF StoreInv
  <2>4. OnlyRow(r)
    BY <1>3, <1>4, <2>3 DEF OnlyRow
  <2>5. StampedBy(row[r].field_at, offered[r])'
    <3>1. \A f \in Fields : IF offered[r][f] = {} THEN old.field_at[f] = Never ELSE TRUE
      BY <1>1 DEF StampedBy
    <3> QED
      BY <1>2, <2>3, <3>1 DEF StampedBy, Stamp
  <2>6. ASSUME r \notin reposted PROVE FieldsOf(r)'
    <3> SUFFICES ASSUME NEW f \in Fields
                 PROVE  IF offered'[r][f] = {} THEN row'[r].edit[f] = born'[r]
                                               ELSE row'[r].edit[f] \in offered'[r][f]
      BY DEF FieldsOf
    <3>1. CASE f \in won
      BY <1>2, <2>3, <3>1 DEF Stamp
    <3>2. CASE f \notin won
      <4>1. row'[r].edit[f] = old.edit[f]
        BY <2>3, <3>2 DEF Stamp
      <4>2. IF offered[r][f] = {} THEN old.edit[f] = born[r]
                                  ELSE old.edit[f] \in offered[r][f]
        BY <1>1, <2>6 DEF MergeInv, MergedRow, FieldsOf, AllFields
      <4> QED
        BY <1>2, <1>3, <3>2, <4>1, <4>2
    <3> QED
      BY <3>1, <3>2
  <2>7. MergedRow(r)'
    BY <1>3, <2>3, <2>5, <2>6 DEF MergedRow
  <2>8. ASSUME NEW f \in Fields, Stored(r), offered[r][f] # {},
               offered[r][f] \subseteq offered'[r][f]
        PROVE  row'[r].edit[f] = row[r].edit[f]
    <3>1. f \notin won
      BY <1>2, <2>8
    <3> QED
      BY <1>1, <2>3, <2>8, <3>1 DEF Stamp
  <2> QED
    BY <2>4, <2>7, <2>8, OtherRows, OtherRowsKeep
<1> QED
  BY <1>6, <1>7

\* A transaction that leaves the fields and their history as they are.
LEMMA OtherWriteMerges ==
    ASSUME StoreInv, MergeInv, NEW u \in Users, NEW r \in Rows,
           NEW record \in RowRecord, Save(u, r, record), UNCHANGED histVars,
           Stored(r) => row[r].owner = u,
           record.field_at = Loaded(u, r).field_at, record.edit = Loaded(u, r).edit
    PROVE  MergeInv' /\ OlderLose
<1>1. /\ StampedBy(Loaded(u, r).field_at, offered[r])
      /\ ~Stored(r) => /\ Loaded(u, r).edit = AllFields(NoEdit)
                       /\ offered[r] = AllFields({}) /\ born[r] = NoEdit
      /\ Stored(r) => Loaded(u, r).edit = row[r].edit
  BY LoadedColumns
<1>2. /\ \A s \in Rows \ {r} : row'[s] = row[s]
      /\ row'[r].field_at = record.field_at
      /\ row'[r].edit = record.edit
      /\ Stored(r)'
  BY SavedRow DEF StoreInv
<1>3. born' = born /\ reposted' = reposted /\ offered' = offered
  BY DEF histVars
<1>4. OnlyRow(r)
  BY <1>2, <1>3 DEF OnlyRow
<1>5. StampedBy(row[r].field_at, offered[r])'
  BY <1>1, <1>2, <1>3
<1>6. r \notin reposted => FieldsOf(r)'
  BY <1>1, <1>2, <1>3 DEF MergeInv, MergedRow, FieldsOf, AllFields
<1>7. MergedRow(r)'
  BY <1>2, <1>3, <1>5, <1>6 DEF MergedRow
<1> QED
  BY <1>1, <1>2, <1>4, <1>7, OtherRows, OtherRowsKeep

LEMMA SoftDeleteMerges ==
    ASSUME StoreInv, MergeInv, NEW u \in Users, NEW r \in Rows, SoftDelete(u, r)
    PROVE  MergeInv' /\ OlderLose
<1> DEFINE record == [row[r] EXCEPT !.deleted_at = now, !.updated_at = now]
<1>1. Stored(r) /\ row[r].owner = u /\ Save(u, r, record) /\ UNCHANGED histVars
  BY DEF SoftDelete, Live
<1>2. row[r] \in RowRecord /\ now \in {Never} \union Time
  BY <1>1 DEF Stored, StoreInv, TypeOK
<1>3. record \in RowRecord /\ record.field_at = row[r].field_at /\ record.edit = row[r].edit
  BY <1>2 DEF RowRecord
<1>4. Loaded(u, r) = row[r]
  BY <1>1 DEF Loaded
<1> HIDE DEF record
<1> QED
  BY <1>1, <1>3, <1>4, OtherWriteMerges

LEMMA NoteContentMerges ==
    ASSUME StoreInv, MergeInv, NEW u \in Users, NEW id \in Notes,
           NEW update \in Updates, NEW t \in Time, NoteContent(u, id, update, t)
    PROVE  MergeInv' /\ OlderLose
<1> DEFINE record == [row[id] EXCEPT !.content = ApplyTextUpdate(@, update),
                                     !.updated_at = t]
<1>1. id \in Rows
  BY DEF Rows, Ids
<1>2. Stored(id) /\ row[id].owner = u /\ Save(u, id, record) /\ UNCHANGED histVars
  BY DEF NoteContent
<1>3. row[id] \in RowRecord
  BY <1>1, <1>2 DEF Stored, StoreInv, TypeOK
<1>4. ApplyTextUpdate(row[id].content, update) \in SUBSET Updates
  BY <1>3, ContentType DEF RowRecord
<1>5. /\ record \in RowRecord
      /\ record.field_at = row[id].field_at /\ record.edit = row[id].edit
  BY <1>3, <1>4 DEF RowRecord
<1>6. Loaded(u, id) = row[id]
  BY <1>2 DEF Loaded
<1> HIDE DEF record
<1> QED
  BY <1>1, <1>2, <1>5, <1>6, OtherWriteMerges

LEMMA DailyContentMerges ==
    ASSUME StoreInv, MergeInv, NEW u \in Users, NEW date \in Dates,
           NEW update \in Updates, NEW t \in Time, DailyContent(u, date, update, t)
    PROVE  MergeInv' /\ OlderLose
<1> DEFINE r == <<u, date>>
           old == Loaded(u, r)
           record == [old EXCEPT !.content = ApplyTextUpdate(@, update),
                                 !.updated_at = t, !.deleted_at = Never]
<1>1. r \in Rows
  BY DEF Rows
<1>2. Stored(r) => row[r].owner = u
  BY DEF StoreInv, OwnKeys
<1>3. old \in RowRecord
  BY <1>1, <1>2, LoadedType DEF StoreInv
<1>4. Save(u, r, record) /\ UNCHANGED histVars
  BY DEF DailyContent
<1>5. /\ record \in RowRecord
      /\ record.field_at = old.field_at /\ record.edit = old.edit
  <2> HIDE DEF old
  <2>1. ApplyTextUpdate(old.content, update) \in SUBSET Updates
    BY <1>3, ContentType DEF RowRecord
  <2> QED
    BY <1>3, <2>1 DEF RowRecord
<1> HIDE DEF record, r
<1> QED
  BY <1>1, <1>2, <1>4, <1>5, OtherWriteMerges

LEMMA PurgeMerges ==
    ASSUME StoreInv, MergeInv, PurgeTombstones
    PROVE  MergeInv' /\ OlderLose
<1>1. row' = [r \in Rows |-> IF r \in Expired THEN NoRow ELSE row[r]]
  BY DEF PurgeTombstones
<1>2. /\ born' = [r \in Rows |-> IF r \in Expired THEN NoEdit ELSE born[r]]
      /\ reposted' = reposted \ Expired
      /\ offered' = [r \in Rows |-> IF r \in Expired THEN AllFields({}) ELSE offered[r]]
  BY DEF PurgeTombstones
<1>3. ASSUME NEW r \in Rows PROVE MergedRow(r)'
  <2>1. MergedRow(r)
    BY DEF MergeInv
  <2>2. CASE r \in Expired
    BY <1>1, <1>2, <2>2 DEF MergedRow, Stored
  <2>3. CASE r \notin Expired
    BY <1>1, <1>2, <2>1, <2>3 DEF MergedRow, Stored, FieldsOf, StampedBy
  <2> QED
    BY <2>2, <2>3
<1>4. OlderLose
  BY <1>1 DEF OlderLose
<1> QED
  BY <1>3, <1>4 DEF MergeInv

-----------------------------------------------------------------------------
LEMMA PostMerges ==
    ASSUME StoreInv, MergeInv, NEW u \in Users, Post(u)
    PROVE  MergeInv'
<1>1. PICK r \in Ids, e \in Edit : Upsert(u, r, e)
  BY DEF Post, UpsertTask, UpsertNote, UpsertOvertimeEntry, UpsertEvent, UpsertDay, Ids
<1> QED
  BY <1>1, UpsertMerges

\* A step that is no POST changes no field but by a newer PATCH.
LEMMA OtherStepMerges ==
    ASSUME StoreInv, MergeInv, [Next]_vars, \A u \in Users : ~Post(u)
    PROVE  MergeInv' /\ OlderLose
<1>1. ASSUME NEW u \in Users, PatchAny(u) PROVE MergeInv' /\ OlderLose
  <2>1. PICK F \in SUBSET Fields, e \in Edit :
           \/ \E r \in Ids : PatchById(u, r, F, e)
           \/ \E month \in Months : Patch(u, <<u, month>>, F, e)
    BY <1>1 DEF PatchAny, PatchTask, PatchNote, PatchOvertimeEntry, PatchEvent,
                PatchDay, PatchMonthMeta, Ids
  <2>2. CASE \E r \in Ids : PatchById(u, r, F, e)
    BY <2>2, PatchMerges DEF PatchById, Rows
  <2>3. CASE \E month \in Months : Patch(u, <<u, month>>, F, e)
    <3>1. PICK month \in Months : Patch(u, <<u, month>>, F, e)
      BY <2>3
    <3>2. <<u, month>> \in Rows /\ (Stored(<<u, month>>) => row[<<u, month>>].owner = u)
      BY DEF Rows, StoreInv, OwnKeys
    <3> QED
      BY <3>1, <3>2, PatchMerges
  <2> QED
    BY <2>1, <2>2, <2>3
<1>2. ASSUME NEW u \in Users, Content(u) PROVE MergeInv' /\ OlderLose
  BY <1>2, NoteContentMerges, DailyContentMerges DEF Content
<1>3. ASSUME NEW u \in Users, Delete(u) PROVE MergeInv' /\ OlderLose
  <2>1. \/ \E r \in Ids : SoftDelete(u, r)
        \/ \E k \in Months \union Dates : SoftDelete(u, <<u, k>>)
    BY <1>3 DEF Delete, DeleteTask, DeleteNote, DeleteOvertimeEntry, DeleteEvent,
                DeleteDay, DeleteMonthMeta, DeleteDaily, Ids
  <2>2. \E r \in Rows : SoftDelete(u, r)
    BY <2>1 DEF Rows
  <2> QED
    BY <2>2, SoftDeleteMerges
<1>4. CASE PurgeTombstones
  BY <1>4, PurgeMerges
<1>5. CASE Tick \/ UNCHANGED vars
  <2>1. UNCHANGED <<dbVars, histVars>>
    BY <1>5 DEF Tick, vars
  <2>2. MergeInv'
    BY <2>1 DEF MergeInv, MergedRow, FieldsOf, StampedBy, Stored, dbVars, histVars
  <2>3. OlderLose
    BY <2>1 DEF OlderLose, dbVars
  <2> QED
    BY <2>2, <2>3
<1> QED
  BY <1>1, <1>2, <1>3, <1>4, <1>5 DEF Next

LEMMA StepMerges ==
    ASSUME StoreInv, MergeInv, [Next]_vars
    PROVE  MergeInv' /\ (OlderLose \/ \E u \in Users : Post(u))
<1>1. CASE \E u \in Users : Post(u)
  BY <1>1, PostMerges
<1>2. CASE \A u \in Users : ~Post(u)
  BY <1>2, OtherStepMerges
<1> QED
  BY <1>1, <1>2

\* What decides every PATCH, the timestamps of a row, is the time of the newest
\* edits offered to each field, after any history of the row.
THEOREM MergeInvariant == Spec => []MergeInv
<1>1. Init => MergeInv
  BY DEF Init, MergeInv, MergedRow, Stored, AllFields
<1>2. StoreInv /\ MergeInv /\ [Next]_vars => MergeInv'
  BY StepMerges
<1>3. Spec => []StoreInv
  BY StoreInvariant
<1> QED
  BY <1>1, <1>2, <1>3, PTL DEF Spec

\* In whatever order PATCHes arrive, a field of a row POSTed once has the newest of
\* them, or one of the newest if several were made at the same time.
THEOREM FieldsMerge == Spec => []NewestPatchWins
<1>1. MergeInv => NewestPatchWins
  BY DEF MergeInv, MergedRow, FieldsOf, NewestPatchWins
<1> QED
  BY <1>1, MergeInvariant, PTL

\* A PATCH no newer than one before it, sent again or made at the same moment,
\* changes no field, whatever happened to the row in between.
THEOREM RetriesChangeNothing == Spec => OnlyNewerPatchesCount
<1>1. StoreInv /\ MergeInv /\ [Next]_vars =>
        [\A r \in Rows : Stored(r) /\ row'[r] # NoRow =>
            \A f \in Fields :
                offered[r][f] # {} /\ offered[r][f] \subseteq offered'[r][f]
                => row'[r].edit[f] = row[r].edit[f] \/ (\E u \in Users : Post(u))]_vars
  BY StepMerges DEF OlderLose
<1>2. Spec => []StoreInv /\ []MergeInv
  BY StoreInvariant, MergeInvariant
<1> QED
  BY <1>1, <1>2, PTL DEF Spec, OnlyNewerPatchesCount

=============================================================================

----------------------------- MODULE DomainStore ----------------------------
(***************************************************************************)
(* The write transactions of the seven stores (internal/task, note,        *)
(* overtime, calendar, absence, dailyentry) and of the purge, with the     *)
(* columns that decide them: owner, updated_at, deleted_at, the per-field  *)
(* timestamps of internal/db/fieldts.go and the merged CRDT content.       *)
(*                                                                         *)
(* POST is last-write-wins by row, PATCH by field, content merges.  What a *)
(* POST or PATCH writes is an edit: the time it was made at and a value,   *)
(* so that two edits of one moment are two edits.  Text is the set of CRDT *)
(* updates merged into it.  A request the store turns down (403, 404, 409) *)
(* writes nothing: it is a guard here.                                     *)
(***************************************************************************)
EXTENDS Naturals, FiniteSets

CONSTANTS
    Users,
    Tasks, Notes, OvertimeEntries,      \* ids, made up by the clients
    CalendarEvents, AbsenceDays,
    Months, Dates,                      \* natural keys, per user
    Fields,                             \* the LWW fields of a row
    Values, NoValue,                    \* what an edit writes
    Updates,                            \* CRDT updates
    NoRow,
    MaxSeq, MaxTime,                    \* bounds on counters and clocks
    Retention                           \* tombstone_retention_days

\* The primary keys of the seven tables: ids, and dates or months of a user.
Ids == Tasks \union Notes \union OvertimeEntries \union CalendarEvents
         \union AbsenceDays
Rows == Ids \union (Users \X (Months \union Dates))

Time == 1..MaxTime
Never == 0      \* NULL deleted_at, and a field without a timestamp

\* An edit, with the updated_at its client gave it; a field nobody wrote has none.
Edit == [at : Time, value : Values]
NoEdit == [at |-> Never, value |-> NoValue]

RowRecord ==
    [owner : Users, seq : Nat, updated_at : {Never} \union Time,
     deleted_at : {Never} \union Time, field_at : [Fields -> {Never} \union Time],
     edit : [Fields -> Edit \union {NoEdit}], content : SUBSET Updates]

ASSUME StoreAssumption ==
    /\ NoRow \notin RowRecord
    /\ NoRow \notin [owner : Users, seq : Nat, deleted : BOOLEAN]
    /\ Ids \intersect (Users \X (Months \union Dates)) = {}
    /\ MaxSeq \in Nat /\ MaxTime \in Nat \ {0} /\ Retention \in Nat

VARIABLES
    row, counter, purged,   \* as in ChangeLog, the rows with all their columns
    now,                    \* the server's clock
    born,       \* history: the edit of the POST that created the row
    reposted,   \* history: the rows POSTed again after that
    offered     \* history: the newest of the edits PATCHed to each field of a row

dbVars == <<row, counter, purged>>
histVars == <<born, reposted, offered>>
vars == <<dbVars, now, histVars>>

Stored(r) == row[r] # NoRow
Live(r) == Stored(r) /\ row[r].deleted_at = Never
Tombstone(r) == Stored(r) /\ row[r].deleted_at # Never

AllFields(x) == [f \in Fields |-> x]

TypeOK ==
    /\ row \in [Rows -> RowRecord \union {NoRow}]
    /\ counter \in [Users -> 0..MaxSeq]
    /\ purged \in [Users -> 0..MaxSeq]
    /\ now \in Time
    /\ born \in [Rows -> Edit \union {NoEdit}]
    /\ reposted \subseteq Rows
    /\ offered \in [Rows -> [Fields -> SUBSET Edit]]

Init ==
    /\ row = [r \in Rows |-> NoRow]
    /\ counter = [u \in Users |-> 0]
    /\ purged = [u \in Users |-> 0]
    /\ now = 1
    /\ born = [r \in Rows |-> NoEdit]
    /\ reposted = {}
    /\ offered = [r \in Rows |-> AllFields({})]

-----------------------------------------------------------------------------
(* The shapes the stores share.                                            *)

\* Mutant of Blank: a new row is left without its user.
BlankOfNobody(u) ==
    [owner |-> NoRow, seq |-> 0, updated_at |-> Never, deleted_at |-> Never,
     field_at |-> AllFields(Never), edit |-> AllFields(NoEdit), content |-> {}]

Blank(u) ==
    [owner |-> u, seq |-> 0, updated_at |-> Never, deleted_at |-> Never,
     field_at |-> AllFields(Never), edit |-> AllFields(NoEdit), content |-> {}]

Loaded(u, r) == IF Stored(r) THEN row[r] ELSE Blank(u)

\* The end of every write transaction: a fresh seq and the row commit together.
Save(u, r, record) ==
    /\ counter[u] < MaxSeq
    /\ counter' = [counter EXCEPT ![u] = @ + 1]
    /\ row' = [row EXCEPT ![r] = [record EXCEPT !.seq = counter[u] + 1]]
    /\ UNCHANGED <<purged, now>>

\* Mutant of Upsert: the row is replaced instead of updated.
UpsertFromBlank(u, r, e) ==
    /\ Stored(r) => row[r].owner = u /\ e.at > row[r].updated_at
    /\ Save(u, r, [Blank(u) EXCEPT !.edit = AllFields(e), !.updated_at = e.at])
    /\ born' = IF Stored(r) THEN born ELSE [born EXCEPT ![r] = e]
    /\ reposted' = IF Stored(r) THEN reposted \union {r} ELSE reposted
    /\ UNCHANGED offered

\* POST: all fields at once, restoring a tombstone; field_at and content stay.
Upsert(u, r, e) ==
    /\ Stored(r) => row[r].owner = u /\ e.at > row[r].updated_at
    /\ Save(u, r, [Loaded(u, r) EXCEPT !.edit = AllFields(e),
                                       !.updated_at = e.at, !.deleted_at = Never])
    /\ born' = IF Stored(r) THEN born ELSE [born EXCEPT ![r] = e]
    /\ reposted' = IF Stored(r) THEN reposted \union {r} ELSE reposted
    /\ UNCHANGED offered

\* Mutants of Wins: the last to arrive wins; the last of a tie wins.
AlwaysWins(field_at, f, t) == TRUE
WinsTies(field_at, f, t) == t >= field_at[f]

\* FieldTimestamps.Wins: strictly newer, or the field has no timestamp.
Wins(field_at, f, t) == field_at[f] = Never \/ t > field_at[f]

\* The columns of fields F set to x.
Stamp(columns, F, x) == [f \in Fields |-> IF f \in F THEN x ELSE columns[f]]

\* The edits of E that no other is newer than.
Newest(E) == {e \in E : \A d \in E : d.at <= e.at}

\* PATCH of the fields F, each against its own timestamp.  If all of them lose,
\* nothing is written; if one wins the row gets the server's time and, if it
\* was a tombstone, is restored.
Patch(u, r, F, e) ==
    LET old == Loaded(u, r)
        won == {f \in F : Wins(old.field_at, f, e.at)}
    IN  /\ IF won = {}
           THEN UNCHANGED <<dbVars, now>>
           ELSE Save(u, r, [old EXCEPT !.field_at = Stamp(@, won, e.at),
                                       !.edit = Stamp(@, won, e),
                                       !.updated_at = now, !.deleted_at = Never])
        /\ offered' = [offered EXCEPT ![r] =
                         [f \in Fields |-> IF f \in F THEN Newest(@[f] \union {e})
                                           ELSE @[f]]]
        /\ UNCHANGED <<born, reposted>>

\* Mutant of PatchById: the row is looked up by its id alone.
PatchAnyonesRow(u, r, F, e) ==
    /\ Stored(r)
    /\ Patch(u, r, F, e)

\* PATCH by id: the row, live or tombstone, must be there and the user's own.
PatchById(u, r, F, e) ==
    /\ Stored(r)
    /\ row[r].owner = u
    /\ Patch(u, r, F, e)

SoftDelete(u, r) ==
    /\ Live(r)
    /\ row[r].owner = u
    /\ Save(u, r, [row[r] EXCEPT !.deleted_at = now, !.updated_at = now])
    /\ UNCHANGED histVars

\* ApplyTextUpdate: Yjs updates commute and are idempotent.
ApplyTextUpdate(state, update) == state \union {update}

-----------------------------------------------------------------------------
(* The stores.                                                             *)

UpsertTask(u, id, e) == id \in Tasks /\ Upsert(u, id, e)
PatchTask(u, id, F, e) == id \in Tasks /\ PatchById(u, id, F, e)
DeleteTask(u, id) == id \in Tasks /\ SoftDelete(u, id)

UpsertNote(u, id, e) == id \in Notes /\ Upsert(u, id, e)
PatchNote(u, id, F, e) == id \in Notes /\ PatchById(u, id, F, e)
DeleteNote(u, id) == id \in Notes /\ SoftDelete(u, id)

\* A note's content keeps deleted_at and takes the client's time, newer or not.
NoteContent(u, id, update, t) ==
    /\ id \in Notes
    /\ Stored(id)
    /\ row[id].owner = u
    /\ Save(u, id, [row[id] EXCEPT !.content = ApplyTextUpdate(@, update),
                                   !.updated_at = t])
    /\ UNCHANGED histVars

UpsertOvertimeEntry(u, id, e) == id \in OvertimeEntries /\ Upsert(u, id, e)
PatchOvertimeEntry(u, id, F, e) == id \in OvertimeEntries /\ PatchById(u, id, F, e)
DeleteOvertimeEntry(u, id) == id \in OvertimeEntries /\ SoftDelete(u, id)

\* The month's PATCH has no POST beside it: it creates the row if it is missing.
PatchMonthMeta(u, month, F, e) == month \in Months /\ Patch(u, <<u, month>>, F, e)
DeleteMonthMeta(u, month) == month \in Months /\ SoftDelete(u, <<u, month>>)

UpsertEvent(u, id, e) == id \in CalendarEvents /\ Upsert(u, id, e)
PatchEvent(u, id, F, e) == id \in CalendarEvents /\ PatchById(u, id, F, e)
DeleteEvent(u, id) == id \in CalendarEvents /\ SoftDelete(u, id)

UpsertDay(u, id, e) == id \in AbsenceDays /\ Upsert(u, id, e)
PatchDay(u, id, F, e) == id \in AbsenceDays /\ PatchById(u, id, F, e)
DeleteDay(u, id) == id \in AbsenceDays /\ SoftDelete(u, id)

\* A daily entry's content creates the row, or restores it.
DailyContent(u, date, update, t) ==
    /\ date \in Dates
    /\ LET old == Loaded(u, <<u, date>>)
       IN  Save(u, <<u, date>>,
                [old EXCEPT !.content = ApplyTextUpdate(@, update),
                            !.updated_at = t, !.deleted_at = Never])
    /\ UNCHANGED histVars

DeleteDaily(u, date) == date \in Dates /\ SoftDelete(u, <<u, date>>)

-----------------------------------------------------------------------------
Expired == {r \in Rows : Tombstone(r) /\ row[r].deleted_at + Retention < now}

\* PurgeTombstones: watermarks first, then the rows, in one transaction.
PurgeTombstones ==
    LET seqs(u) == {row[r].seq : r \in {s \in Expired : row[s].owner = u}}
    IN  /\ Expired # {}
        /\ purged' \in [Users -> 0..MaxSeq]
        /\ \A u \in Users :
              /\ purged'[u] \in {purged[u]} \union seqs(u)
              /\ \A n \in {purged[u]} \union seqs(u) : n <= purged'[u]
        /\ row' = [r \in Rows |-> IF r \in Expired THEN NoRow ELSE row[r]]
        /\ born' = [r \in Rows |-> IF r \in Expired THEN NoEdit ELSE born[r]]
        /\ reposted' = reposted \ Expired
        /\ offered' = [r \in Rows |->
                         IF r \in Expired THEN AllFields({}) ELSE offered[r]]
        /\ UNCHANGED <<counter, now>>

Tick ==
    /\ now < MaxTime
    /\ now' = now + 1
    /\ UNCHANGED <<dbVars, histVars>>

Post(u) == \E r \in Rows, e \in Edit :
    \/ UpsertTask(u, r, e)
    \/ UpsertNote(u, r, e)
    \/ UpsertOvertimeEntry(u, r, e)
    \/ UpsertEvent(u, r, e)
    \/ UpsertDay(u, r, e)

PatchAny(u) == \E F \in SUBSET Fields \ {{}}, e \in Edit :
    \/ \E r \in Rows :
          \/ PatchTask(u, r, F, e)
          \/ PatchNote(u, r, F, e)
          \/ PatchOvertimeEntry(u, r, F, e)
          \/ PatchEvent(u, r, F, e)
          \/ PatchDay(u, r, F, e)
    \/ \E month \in Months : PatchMonthMeta(u, month, F, e)

Content(u) == \E update \in Updates, t \in Time :
    \/ \E id \in Notes : NoteContent(u, id, update, t)
    \/ \E date \in Dates : DailyContent(u, date, update, t)

Delete(u) ==
    \/ \E r \in Rows :
          \/ DeleteTask(u, r)
          \/ DeleteNote(u, r)
          \/ DeleteOvertimeEntry(u, r)
          \/ DeleteEvent(u, r)
          \/ DeleteDay(u, r)
    \/ \E month \in Months : DeleteMonthMeta(u, month)
    \/ \E date \in Dates : DeleteDaily(u, date)

Next ==
    \/ \E u \in Users : Post(u) \/ PatchAny(u) \/ Content(u) \/ Delete(u)
    \/ PurgeTombstones
    \/ Tick

Spec == Init /\ [][Next]_vars

-----------------------------------------------------------------------------
(* Properties.                                                             *)

\* The row as the feed sees it.
FeedRow == [r \in Rows |->
    IF Stored(r)
    THEN [owner |-> row[r].owner, seq |-> row[r].seq,
          deleted |-> row[r].deleted_at # Never]
    ELSE NoRow]

Log == INSTANCE ChangeLog WITH row <- FeedRow

\* Every transaction of every store is a Commit of the change log, the purge is
\* its PurgeTombstones, and nothing else touches what the feed reads.
ImplementsChangeLog == Log!LogSpec

\* A field of a row that was POSTed once has the edit it was created with until it
\* is PATCHed, and then the newest edit PATCHed to it, whatever order the PATCHes
\* arrive in (specs/lww-por-campo/requirements.md); edits of different fields all
\* survive, also across deletion and restoring.  Among edits made at the very same
\* time the order does decide: see OnlyNewerPatchesCount.
NewestPatchWins ==
    \A r \in Rows : Stored(r) /\ r \notin reposted =>
        \A f \in Fields :
            IF offered[r][f] = {}
            THEN row[r].edit[f] = born[r]
            ELSE row[r].edit[f] \in offered[r][f]

\* A field that was PATCHed is not changed by a PATCH that is no newer: not by one
\* sent again after its answer was lost, although the row was POSTed, deleted or
\* restored since, nor by another device's edit of the same moment, so the first
\* of a tie to arrive stays (internal/db/fieldts.go:48, fieldts_test.go:16).
OnlyNewerPatchesCount ==
    [][\A r \in Rows : Stored(r) /\ row'[r] # NoRow =>
          \A f \in Fields :
              offered[r][f] # {} /\ offered[r][f] \subseteq offered'[r][f]
              => row'[r].edit[f] = row[r].edit[f] \/ (\E u \in Users : Post(u))]_vars

\* Merged text is never lost while its row exists: not to a POST, a PATCH, a
\* deletion or a restoring (internal/note/store.go:36-41).
ContentIsNeverLost ==
    [][\A r \in Rows : Stored(r) /\ row'[r] # NoRow =>
          row[r].content \subseteq row'[r].content]_vars

\* internal/note/store.go:32-36: upsertNote updates a note "provided ...
\* n.UpdatedAt is newer than what's stored".  So a note that is never PATCHed
\* does not go back to an older edit.  But a content update may set updated_at
\* back, and an older POST is then accepted.
PostsStayInOrder ==
    [][\A r \in Notes :
          Stored(r) /\ row'[r] # NoRow /\ offered'[r] = AllFields({}) =>
             \A f \in Fields : row'[r].edit[f].at >= row[r].edit[f].at]_vars

=============================================================================

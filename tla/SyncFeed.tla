------------------------------ MODULE SyncFeed ------------------------------
(***************************************************************************)
(* GET /sync/changes (internal/sync) against concurrent writes and purges, *)
(* and the client protocol of openapi.yaml:28-42 that follows the feed.    *)
(*                                                                         *)
(* changesSince is not a transaction: it reads the purge watermark, the    *)
(* counter and then the seven tables one query after the other, and any    *)
(* write or purge may commit in between.  Each of these reads is a step.   *)
(* A client has one request under way at a time; it holds its cursor until *)
(* the response arrives, so cursor[c] is also the request's "since".       *)
(***************************************************************************)
EXTENDS ChangeLog

CONSTANTS
    Clients,
    UserOf,       \* UserOf[c]: the account client c is signed in to
    NumTables,    \* the synced tables, in the order changesSince reads them
    TableOf,      \* TableOf[r]: the table of primary key r
    PageSizes,    \* the limits a client may ask for, 0 for none
    MaxFailures   \* bound on the requests that get no answer

ASSUME FeedAssumption ==
    /\ UserOf \in [Clients -> Users]
    /\ NumTables \in Nat \ {0}
    /\ TableOf \in [Rows -> 1..NumTables]
    /\ IsFiniteSet(Rows)
    /\ PageSizes \subseteq Nat
    /\ MaxFailures \in Nat

VARIABLES
    pc,         \* pc[c]: where the request of client c is
    table,      \* table[c]: the next table the request reads
    got,        \* got[c]: the changes the request has read so far
    cursor,     \* cursor[c]: the highest seq the client has processed
    limit,      \* limit[c]: the page size client c asks for, always the same
    replica,    \* replica[c][r]: seq of the client's copy of r, 0 if it has none
    failures,   \* requests that got no answer so far
    expired,    \* the tombstones older than tombstone_retention_days
    horizon,    \* history: the counter when the request read its first table
    overtaken   \* history: what overtook the responses c has used (see Overtaken)

reqVars == <<pc, table, got, horizon>>
clientVars == <<cursor, limit, replica, overtaken>>
feedVars == <<logVars, reqVars, clientVars, failures, expired>>

Change == [id : Rows, seq : Nat, deleted : BOOLEAN]

FeedTypeOK ==
    /\ LogTypeOK
    /\ pc \in [Clients -> {"idle", "watermark", "latest", "reading"}]
    /\ table \in [Clients -> 1..(NumTables + 1)]
    /\ got \in [Clients -> SUBSET Change]
    /\ cursor \in [Clients -> Nat]
    /\ limit \in [Clients -> PageSizes]
    /\ replica \in [Clients -> [Rows -> Nat]]
    /\ failures \in 0..MaxFailures
    /\ horizon \in [Clients -> Nat]
    /\ expired \subseteq Rows
    /\ overtaken \in [Clients -> SUBSET {"write", "purge"}]

FeedInit ==
    /\ LogInit
    /\ pc = [c \in Clients |-> "idle"]
    /\ table = [c \in Clients |-> 1]
    /\ got = [c \in Clients |-> {}]
    /\ cursor = [c \in Clients |-> 0]
    /\ limit \in [Clients -> PageSizes]
    /\ replica = [c \in Clients |-> [r \in Rows |-> 0]]
    /\ failures = 0
    /\ horizon = [c \in Clients |-> 0]
    /\ expired = {}
    /\ overtaken = [c \in Clients |-> {}]

-----------------------------------------------------------------------------
(* The request, step by step.                                              *)

\* A full sync (since = 0) skips the two cursor checks.
Request(c) ==
    /\ pc[c] = "idle"
    /\ pc' = [pc EXCEPT ![c] = IF cursor[c] > 0 THEN "watermark" ELSE "reading"]
    /\ table' = [table EXCEPT ![c] = 1]
    /\ got' = [got EXCEPT ![c] = {}]
    /\ UNCHANGED <<logVars, clientVars, failures, expired, horizon>>

\* 410 Gone: the client drops its cursor and starts over from the full state.
Gone(c) ==
    /\ pc' = [pc EXCEPT ![c] = "idle"]
    /\ cursor' = [cursor EXCEPT ![c] = 0]
    /\ replica' = [replica EXCEPT ![c] = [r \in Rows |-> 0]]
    /\ overtaken' = [overtaken EXCEPT ![c] = {}]
    /\ UNCHANGED <<logVars, table, got, horizon, limit, failures, expired>>

Proceed(c, next) ==
    /\ pc' = [pc EXCEPT ![c] = next]
    /\ UNCHANGED <<logVars, clientVars, table, got, horizon, failures, expired>>

CheckWatermark(c) ==
    /\ pc[c] = "watermark"
    /\ IF cursor[c] < purged[UserOf[c]] THEN Gone(c) ELSE Proceed(c, "latest")

\* Mutant of CheckLatest: the cursor is not compared with the counter.
NoCheckOfLatest(c) ==
    /\ pc[c] = "latest"
    /\ Proceed(c, "reading")

CheckLatest(c) ==
    /\ pc[c] = "latest"
    /\ IF cursor[c] > counter[UserOf[c]] THEN Gone(c) ELSE Proceed(c, "reading")

\* Mutant of ChangesSince: the query has no "seq > ?".
WholeTable(c, t) ==
    {[id |-> r, seq |-> row[r].seq, deleted |-> row[r].deleted] :
        r \in {s \in Rows : TableOf[s] = t /\ StoredFor(UserOf[c], s)}}

\* Mutant of ChangesSince: the query has no "user_id = ?".
ChangesSinceOfAnyone(c, t) ==
    {[id |-> r, seq |-> row[r].seq, deleted |-> row[r].deleted] :
        r \in {s \in Rows : TableOf[s] = t /\ Stored(s) /\ row[s].seq > cursor[c]}}

\* One table's ChangesSince query: tombstones included, other users' rows not.
ChangesSince(c, t) ==
    {[id |-> r, seq |-> row[r].seq, deleted |-> row[r].deleted] :
        r \in {s \in Rows : /\ TableOf[s] = t
                            /\ StoredFor(UserOf[c], s)
                            /\ row[s].seq > cursor[c]}}

\* Mutant of ReadTable: the fan-out has an entry too many.
ReadTablePastTheEnd(c) ==
    /\ pc[c] = "reading"
    /\ got' = [got EXCEPT ![c] = @ \union ChangesSince(c, table[c])]
    /\ table' = [table EXCEPT ![c] = @ + 1]
    /\ horizon' = [horizon EXCEPT ![c] =
                     IF table[c] = 1 THEN counter[UserOf[c]] ELSE @]
    /\ UNCHANGED <<logVars, clientVars, failures, expired, pc>>

\* Mutant of ReadTable: each entry of the fan-out queries the first table.
ReadFirstTableAgain(c) ==
    /\ pc[c] = "reading"
    /\ table[c] <= NumTables
    /\ got' = [got EXCEPT ![c] = @ \union ChangesSince(c, 1)]
    /\ table' = [table EXCEPT ![c] = @ + 1]
    /\ horizon' = [horizon EXCEPT ![c] =
                     IF table[c] = 1 THEN counter[UserOf[c]] ELSE @]
    /\ UNCHANGED <<logVars, clientVars, failures, expired, pc>>

ReadTable(c) ==
    /\ pc[c] = "reading"
    /\ table[c] <= NumTables
    /\ got' = [got EXCEPT ![c] = @ \union ChangesSince(c, table[c])]
    /\ table' = [table EXCEPT ![c] = @ + 1]
    /\ horizon' = [horizon EXCEPT ![c] =
                     IF table[c] = 1 THEN counter[UserOf[c]] ELSE @]
    /\ UNCHANGED <<logVars, clientVars, failures, expired, pc>>

\* Mutant of Page: the changes are sorted by falling seq.
PageOfTheNewest(changes, size) ==
    IF size = 0
    THEN changes
    ELSE {g \in changes : Cardinality({h \in changes : h.seq > g.seq}) < size}

\* Mutant of Page: the cut is one short of the limit.
PageOneShort(changes, size) ==
    IF size = 0
    THEN changes
    ELSE {g \in changes : Cardinality({h \in changes : h.seq < g.seq}) < size - 1}

\* The changes with the lowest numbers, at most size of them.
Page(changes, size) ==
    IF size = 0
    THEN changes
    ELSE {g \in changes : Cardinality({h \in changes : h.seq < g.seq}) < size}

\* What a client's copy is after it applied the changes of a page.
Applied(copy, page) ==
    [r \in Rows |->
        IF \E g \in page : g.id = r
        THEN LET g == CHOOSE h \in page : h.id = r
             IN  IF g.deleted THEN 0 ELSE g.seq
        ELSE copy[r]]

\* A response that ends at seq "last" was overtaken by a write if it reaches past
\* the counter its first table was read at, and by a purge if it reaches past a
\* watermark that has come up behind its cursor since the check.
Overtaken(c, last) ==
    {cause \in {"write", "purge"} :
        IF cause = "write"
        THEN last > horizon[c]
        ELSE /\ 0 < cursor[c]
             /\ cursor[c] < purged[UserOf[c]]
             /\ purged[UserOf[c]] <= last}

\* The client's next cursor is the highest seq it received, if it received any.
IsNextCursor(k, page, since) ==
    IF page = {} THEN k = since ELSE IsHighest(k, {g.seq : g \in page})

Respond(c) ==
    /\ pc[c] = "reading"
    /\ table[c] = NumTables + 1
    /\ LET page == Page(got[c], limit[c])
       IN  \E last \in 0..MaxSeq :
              /\ IsNextCursor(last, page, cursor[c])
              /\ cursor' = [cursor EXCEPT ![c] = last]
              /\ replica' = [replica EXCEPT ![c] = Applied(@, page)]
              /\ overtaken' = [overtaken EXCEPT ![c] = @ \union Overtaken(c, last)]
    /\ pc' = [pc EXCEPT ![c] = "idle"]
    /\ UNCHANGED <<logVars, table, got, horizon, limit, failures, expired>>

\* The request fails on the server, or its response is lost on the way.
Fail(c) ==
    /\ pc[c] # "idle"
    /\ failures < MaxFailures
    /\ failures' = failures + 1
    /\ pc' = [pc EXCEPT ![c] = "idle"]
    /\ UNCHANGED <<logVars, clientVars, expired, table, got, horizon>>

ClientStep(c) ==
    \/ Request(c)
    \/ CheckWatermark(c)
    \/ CheckLatest(c)
    \/ ReadTable(c)
    \/ Respond(c)

\* A row that is restored is no longer a tombstone; one that is written as a
\* tombstone again (note content) keeps its deleted_at, and so its age.
Write ==
    /\ \E u \in Users, r \in Rows, deleted \in BOOLEAN :
          /\ Commit(u, r, deleted)
          /\ expired' = IF deleted THEN expired ELSE expired \ {r}
    /\ UNCHANGED <<reqVars, clientVars, failures>>

\* The retention period passes.  It is counted in days: no request is that long.
TimePasses ==
    /\ \A c \in Clients : pc[c] = "idle"
    /\ expired' = {r \in Rows : Tombstone(r)}
    /\ UNCHANGED <<logVars, reqVars, clientVars, failures>>

\* The purge job (cmd/server/main.go:152) runs at any time.
Purge ==
    /\ PurgeTombstones(expired)
    /\ expired' = {}
    /\ UNCHANGED <<reqVars, clientVars, failures>>

FeedNext ==
    \/ Write
    \/ TimePasses
    \/ Purge
    \/ \E c \in Clients : ClientStep(c) \/ Fail(c)

FeedSpec == FeedInit /\ [][FeedNext]_feedVars

\* A client syncs again and again, and the server answers the requests it
\* takes; nobody has to write, and the purge may never run.
FairFeedSpec == FeedSpec /\ \A c \in Clients : WF_feedVars(ClientStep(c))

-----------------------------------------------------------------------------
(* Safety.                                                                 *)

\* Client c holds exactly what its cursor says it has seen: its copy of every
\* row numbered up to the cursor is the current one, a deleted row is not in
\* it, and neither is a purged row, unless the watermark is past the cursor
\* (and then the next request is refused).
Complete(c) ==
    LET u == UserOf[c]
    IN  \A r \in Rows :
           IF StoredFor(u, r)
           THEN row[r].seq <= cursor[c] =>
                   replica[c][r] = IF row[r].deleted THEN 0 ELSE row[r].seq
           ELSE purged[u] <= cursor[c] => replica[c][r] = 0

\* No response skips a change: specs/sync-incremental/requirements.md, "un
\* unico endpoint que devuelva todas las entidades modificadas con seq mayor
\* al cursor".  The seven queries of changesSince do not see one state.
NeverSkipsAChange == \A c \in Clients : Complete(c)

\* A client that never used an overtaken response is complete, whatever other
\* writes, purges and lost responses its requests met, page by page.
CompleteUnlessOvertaken == \A c \in Clients : overtaken[c] = {} => Complete(c)

\* No client that follows the feed is ever refused for a cursor ahead of the
\* server (internal/db/purge.go:107): cursors and copies stay in the counter.
CursorsComeFromHere ==
    \A c \in Clients :
        /\ cursor[c] <= counter[UserOf[c]]
        /\ \A r \in Rows : replica[c][r] <= cursor[c]

\* Although the tables are read at different times, a response never carries
\* one row twice or two changes with one number: sorting by seq is a total
\* order (internal/sync/store.go:174).
ResponsesAreOrdered ==
    \A c \in Clients : \A g, h \in got[c] :
        g.id = h.id \/ g.seq = h.seq => g = h

\* A response never takes a client back: its cursor and its copies only move
\* forward, except that a 410 empties them (and a deletion drops a copy).
NeverGoesBack ==
    [][\A c \in Clients :
          \/ cursor'[c] = 0 /\ \A r \in Rows : replica'[c][r] = 0
          \/ /\ cursor'[c] >= cursor[c]
             /\ \A r \in Rows : replica'[c][r] \in {0, replica[c][r]}
                                    \/ replica'[c][r] > cursor[c]]_feedVars

-----------------------------------------------------------------------------
(* Liveness.                                                               *)

CaughtUp(c) ==
    \A r \in Rows : StoredFor(UserOf[c], r) => row[r].seq <= cursor[c]

\* Once the writes are over a client reaches the end of the feed, page by page if
\* it likes: "hasta agotar el delta" (specs/sync-incremental/requirements.md:67).
\* A client that takes pages does not, as the next property has it, if the purge
\* has left a watermark: that case is left out here.
ReachesTheEnd ==
    \A c \in Clients :
        []<>(CaughtUp(c) \/ (limit[c] > 0 /\ purged[UserOf[c]] > 0))

\* openapi.yaml:477-484 and specs/sync-incremental/requirements.md:61-67: a client
\* that repeats the query with the last seq it got reaches the end of the feed,
\* also after a purge.  But the first page of a full sync may end below the
\* watermark, and then the second one is refused: 410, full sync, 410...
PagesReachTheEnd == \A c \in Clients : []<>CaughtUp(c)

=============================================================================

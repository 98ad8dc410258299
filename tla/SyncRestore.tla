----------------------------- MODULE SyncRestore -----------------------------
(***************************************************************************)
(* SyncFeed on a server whose database may be put back to an older backup. *)
(* changesSince knows of it: a cursor ahead of the counter "can't have     *)
(* come from here" and gets a 410 (internal/sync/store.go:41-47).          *)
(* Backups and restores are made by the operator, outside the program.     *)
(***************************************************************************)
EXTENDS SyncFeed

CONSTANT MaxRestores    \* bound on the restores

ASSUME RestoreAssumption == MaxRestores \in Nat

VARIABLES
    backup,     \* the state of the database when it was last backed up
    restores,   \* how often the database was restored
    foreign     \* history: the clients with a cursor from before a restore that
                \* may mean something else after it (see OutOfPlace)

restoreVars == <<feedVars, backup, restores, foreign>>

Database == [row |-> row, counter |-> counter, purged |-> purged, expired |-> expired]

RestoreTypeOK ==
    /\ FeedTypeOK
    /\ backup \in [row : [Rows -> Row \union {NoRow}], counter : [Users -> 0..MaxSeq],
                   purged : [Users -> 0..MaxSeq], expired : SUBSET Rows]
    /\ restores \in 0..MaxRestores
    /\ foreign \subseteq Clients

RestoreInit == FeedInit /\ backup = Database /\ restores = 0 /\ foreign = {}

\* A client that starts over with an empty cursor is at home again.
FeedStep ==
    /\ FeedNext
    /\ foreign' = {c \in foreign : cursor'[c] # 0}
    /\ UNCHANGED <<backup, restores>>

TakeBackup ==
    /\ backup' = Database
    /\ UNCHANGED <<feedVars, restores, foreign>>

\* The client has a number that the backup never gave out; or it is behind a
\* watermark that the restore takes back; or it takes pages, and so may be past an
\* old number of a row without having come to its new one.
OutOfPlace(c) ==
    /\ cursor[c] > 0
    /\ \/ cursor[c] > backup.counter[UserOf[c]]
       \/ cursor[c] < purged[UserOf[c]]
       \/ limit[c] > 0

\* The server is stopped for it: the requests under way fail.
RestoreBackup ==
    /\ restores < MaxRestores
    /\ restores' = restores + 1
    /\ row' = backup.row
    /\ counter' = backup.counter
    /\ purged' = backup.purged
    /\ expired' = backup.expired
    /\ foreign' = foreign \union {c \in Clients : OutOfPlace(c)}
    /\ pc' = [c \in Clients |-> "idle"]
    /\ UNCHANGED <<table, got, horizon, clientVars, failures, backup>>

RestoreNext == FeedStep \/ TakeBackup \/ RestoreBackup

RestoreSpec == RestoreInit /\ [][RestoreNext]_restoreVars

\* The clients go on syncing, as in FairFeedSpec.
FairRestoreSpec ==
    /\ RestoreSpec
    /\ \A c \in Clients : WF_restoreVars(FeedStep /\ ClientStep(c))

-----------------------------------------------------------------------------
\* internal/sync/store.go:41-47: a client of a restored database is not told "no
\* changes", which "would hide every change up to that seq from the client
\* forever; the 410 makes it resync".  So a client whose cursor would pass both
\* checks, and that no overtaken response misled, is complete.  But new writes
\* can bring the restored counter up to the cursor before the client is back.
AcceptedCursorsAreComplete ==
    \A c \in Clients :
        /\ overtaken[c] = {}
        /\ cursor[c] <= counter[UserOf[c]]
        => Complete(c)

\* How far that goes: whatever is backed up and restored, and when, a client that
\* no overtaken response misled is complete if it was not out of place when the
\* database was restored, or has started over since.  So of the clients that take
\* no pages the restore itself misleads only those behind a watermark it takes
\* back and those whose cursor the new counter reaches (internal/sync/store.go:41).
OthersAreComplete ==
    \A c \in Clients \ foreign : overtaken[c] = {} => Complete(c)

\* A client is not left ahead of a restored database for ever, though nobody
\* writes: it drops its cursor, or the counter has caught up with it.
CursorsAheadAreGivenUp ==
    \A c \in Clients :
        cursor[c] > counter[UserOf[c]] ~> cursor[c] <= counter[UserOf[c]]

=============================================================================

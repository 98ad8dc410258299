--------------------------- MODULE SyncFeedProofs ----------------------------
(***************************************************************************)
(* Proofs about SyncFeed, for any users, clients, tables, page sizes and   *)
(* bounds, and any finite set of rows: the feed runs on the change log,    *)
(* and a client of it is complete unless a response of its was overtaken.  *)
(*                                                                         *)
(* The argument: what a request has read agrees with the rows as they are  *)
(* now, up to its horizon, whatever has committed since (ReadIsCurrent).   *)
(* A write cannot break that, because it is numbered above the counter,    *)
(* nor a purge, because a tombstone is in what was read or was numbered    *)
(* past the horizon, and then so is the watermark it leaves.               *)
(*                                                                         *)
(* The second half is about a server whose database is restored.  There    *)
(* the same is kept of the backup: what a request has read, and what a     *)
(* client has, agrees with it as far as neither is younger than it.        *)
(***************************************************************************)
EXTENDS SyncRestore, ChangeLogProofs, FiniteSetTheorems

-----------------------------------------------------------------------------
(* The feed runs on the change log.                                        *)

\* Every step of the feed is a step of the change log, or leaves it alone.
LEMMA FeedStepIsLogStep == FeedTypeOK /\ [FeedNext]_feedVars => [LogNext]_logVars
<1> SUFFICES ASSUME FeedTypeOK, [FeedNext]_feedVars
             PROVE  [LogNext]_logVars
  OBVIOUS
<1>1. CASE Write
  BY <1>1 DEF Write, LogNext
<1>2. CASE TimePasses
  BY <1>2 DEF TimePasses
<1>3. CASE Purge
  BY <1>3 DEF Purge, LogNext, FeedTypeOK
<1>4. CASE \E c \in Clients : ClientStep(c) \/ Fail(c)
  BY <1>4 DEF ClientStep, Request, CheckWatermark, CheckLatest, Gone, Proceed,
              ReadTable, Respond, Fail
<1>5. CASE UNCHANGED feedVars
  BY <1>5 DEF feedVars
<1> QED
  BY <1>1, <1>2, <1>3, <1>4, <1>5 DEF FeedNext

\* What a table's query returns is a set of changes.
LEMMA ChangesSinceType ==
    ASSUME LogTypeOK, NEW c \in Clients, NEW t
    PROVE  ChangesSince(c, t) \in SUBSET Change
BY DEF ChangesSince, Change, LogTypeOK, StoredFor, Stored, Row

\* A page is part of what the request read.
LEMMA PageIsPart == ASSUME NEW S, NEW n PROVE Page(S, n) \subseteq S
BY DEF Page

\* A client's copy of a row is a seq it had, one it received, or nothing.
LEMMA AppliedType ==
    ASSUME NEW copy \in [Rows -> Nat], NEW page \in SUBSET Change
    PROVE  Applied(copy, page) \in [Rows -> Nat]
<1> SUFFICES ASSUME NEW r \in Rows, NEW g \in page, g.id = r
             PROVE  (CHOOSE h \in page : h.id = r).seq \in Nat
  BY DEF Applied
<1>1. (CHOOSE h \in page : h.id = r) \in page
  OBVIOUS
<1> QED
  BY <1>1 DEF Change

\* Every step of the feed keeps the types.
LEMMA FeedTypeStep == FeedTypeOK /\ [FeedNext]_feedVars => FeedTypeOK'
<1> SUFFICES ASSUME FeedTypeOK, [FeedNext]_feedVars
             PROVE  FeedTypeOK'
  OBVIOUS
<1>1. LogTypeOK /\ LogTypeOK'
  BY FeedStepIsLogStep, LogTypeStep DEF FeedTypeOK
<1>2. CASE Write
  BY <1>1, <1>2 DEF Write, FeedTypeOK, reqVars, clientVars
<1>3. CASE TimePasses
  BY <1>1, <1>3 DEF TimePasses, FeedTypeOK, reqVars, clientVars
<1>4. CASE Purge
  BY <1>1, <1>4 DEF Purge, FeedTypeOK, reqVars, clientVars
<1>5. ASSUME NEW c \in Clients, Request(c)
      PROVE  FeedTypeOK'
  BY <1>1, <1>5, FeedAssumption DEF Request, FeedTypeOK, clientVars
<1>6. ASSUME NEW c \in Clients, Gone(c)
      PROVE  FeedTypeOK'
  BY <1>1, <1>6 DEF Gone, FeedTypeOK
<1>7. ASSUME NEW c \in Clients, NEW next \in {"latest", "reading"}, Proceed(c, next)
      PROVE  FeedTypeOK'
  BY <1>1, <1>7 DEF Proceed, FeedTypeOK, clientVars
<1>8. ASSUME NEW c \in Clients, ReadTable(c)
      PROVE  FeedTypeOK'
  <2>1. ChangesSince(c, table[c]) \in SUBSET Change
    BY <1>1, ChangesSinceType
  <2>2. got' \in [Clients -> SUBSET Change]
    BY <1>8, <2>1 DEF ReadTable, FeedTypeOK
  <2>3. table' \in [Clients -> 1..(NumTables + 1)]
    BY <1>8, FeedAssumption DEF ReadTable, FeedTypeOK
  <2>4. counter[UserOf[c]] \in Nat
    BY <1>1, FeedAssumption, MaxSeqAssumption DEF LogTypeOK
  <2>5. horizon' \in [Clients -> Nat]
    BY <1>8, <2>4 DEF ReadTable, FeedTypeOK
  <2> QED
    BY <1>1, <1>8, <2>2, <2>3, <2>5 DEF ReadTable, FeedTypeOK, clientVars
<1>9. ASSUME NEW c \in Clients, Respond(c)
      PROVE  FeedTypeOK'
  <2> DEFINE page == Page(got[c], limit[c])
  <2>1. PICK last \in 0..MaxSeq :
           /\ cursor' = [cursor EXCEPT ![c] = last]
           /\ replica' = [replica EXCEPT ![c] = Applied(@, page)]
           /\ overtaken' = [overtaken EXCEPT ![c] = @ \union Overtaken(c, last)]
    BY <1>9 DEF Respond
  <2>2. page \in SUBSET Change
    BY PageIsPart DEF FeedTypeOK
  <2>3. Applied(replica[c], page) \in [Rows -> Nat]
    BY <2>2, AppliedType DEF FeedTypeOK
  <2>4. replica' \in [Clients -> [Rows -> Nat]]
    BY <2>1, <2>3 DEF FeedTypeOK
  <2>5. cursor' \in [Clients -> Nat]
    BY <2>1, MaxSeqAssumption DEF FeedTypeOK
  <2>6. Overtaken(c, last) \in SUBSET {"write", "purge"}
    BY DEF Overtaken
  <2>7. overtaken' \in [Clients -> SUBSET {"write", "purge"}]
    BY <2>1, <2>6 DEF FeedTypeOK
  <2>8. pc' \in [Clients -> {"idle", "watermark", "latest", "reading"}]
    BY <1>9 DEF Respond, FeedTypeOK
  <2> QED
    BY <1>1, <1>9, <2>4, <2>5, <2>7, <2>8 DEF Respond, FeedTypeOK
<1>10. ASSUME NEW c \in Clients, Fail(c)
       PROVE  FeedTypeOK'
  BY <1>1, <1>10, FeedAssumption DEF Fail, FeedTypeOK, clientVars
<1>11. CASE UNCHANGED feedVars
  BY <1>1, <1>11 DEF feedVars, reqVars, clientVars, FeedTypeOK
<1> QED
  BY <1>2, <1>3, <1>4, <1>5, <1>6, <1>7, <1>8, <1>9, <1>10, <1>11
     DEF FeedNext, ClientStep, CheckWatermark, CheckLatest

\* Type correctness of the feed.
THEOREM FeedTypeCorrect == FeedSpec => []FeedTypeOK
<1>1. FeedInit => FeedTypeOK
  BY MaxSeqAssumption, FeedAssumption
     DEF FeedInit, FeedTypeOK, LogInit, LogTypeOK
<1> QED
  BY <1>1, FeedTypeStep, PTL DEF FeedSpec

\* The feed implements the change log: with requests, failures and clients added,
\* what happens to the rows, counters and watermarks is what LogSpec allows.
THEOREM FeedImplementsLog == FeedSpec => LogSpec
<1>1. FeedInit => LogInit
  BY DEF FeedInit
<1> QED
  BY <1>1, FeedTypeCorrect, FeedStepIsLogStep, PTL DEF FeedSpec, LogSpec

-----------------------------------------------------------------------------
(* The inductive invariant, by client.                                     *)

\* The client is not ahead of the server.
FromHere(c) ==
    /\ cursor[c] <= counter[UserOf[c]]
    /\ \A r \in Rows : replica[c][r] <= cursor[c]

\* Nothing was read before the first table.
ReadStartsEmpty(c) == pc[c] \in {"watermark", "latest"} => got[c] = {} /\ table[c] = 1

\* What was read comes from the tables before the next one, is new to the client
\* and not ahead of the counter, and its numbers belong to no other row.
ReadIsNew(c) ==
    pc[c] # "idle" => \A g \in got[c] :
        /\ TableOf[g.id] < table[c]
        /\ cursor[c] < g.seq
        /\ g.seq <= counter[UserOf[c]]
        /\ \A r \in Rows : StoredFor(UserOf[c], r) /\ row[r].seq = g.seq => r = g.id

\* No row and no number was read twice.
ReadIsOrdered(c) ==
    \A g, h \in got[c] : g.id = h.id \/ g.seq = h.seq => g = h

\* All that the tables read so far held between the cursor and the horizon was
\* read, and it is what they hold now.
ReadIsCurrent(c) ==
    pc[c] = "reading" /\ table[c] > 1 =>
        /\ horizon[c] <= counter[UserOf[c]]
        /\ \A r \in Rows :
              /\ StoredFor(UserOf[c], r)
              /\ TableOf[r] < table[c]
              /\ cursor[c] < row[r].seq
              /\ row[r].seq <= horizon[c]
              => [id |-> r, seq |-> row[r].seq, deleted |-> row[r].deleted] \in got[c]
        /\ \A g \in got[c] : g.seq <= horizon[c] =>
              IF StoredFor(UserOf[c], g.id)
              THEN \/ row[g.id].seq = g.seq /\ row[g.id].deleted = g.deleted
                   \/ row[g.id].seq > horizon[c]
              ELSE g.deleted \/ purged[UserOf[c]] > horizon[c]

\* What is known of a client's request, and of its copy.
RequestInv(c) ==
    /\ ReadStartsEmpty(c)
    /\ ReadIsNew(c)
    /\ ReadIsOrdered(c)
    /\ ReadIsCurrent(c)

CopyInv(c) ==
    /\ FromHere(c)
    /\ overtaken[c] = {} => Complete(c)

FeedInv == \A c \in Clients : RequestInv(c) /\ CopyInv(c)

-----------------------------------------------------------------------------
(* Types at hand in every step.                                            *)

LEMMA ClientTypes ==
    ASSUME FeedTypeOK, NEW c \in Clients
    PROVE  /\ UserOf[c] \in Users
           /\ counter[UserOf[c]] \in Nat
           /\ purged[UserOf[c]] \in Nat
           /\ cursor[c] \in Nat
           /\ horizon[c] \in Nat
           /\ table[c] \in 1..(NumTables + 1)
           /\ got[c] \in SUBSET Change
           /\ \A g \in got[c] : g.id \in Rows /\ g.seq \in Nat
           /\ \A r \in Rows : replica[c][r] \in Nat
           /\ \A r \in Rows : TableOf[r] \in 1..NumTables
           /\ \A r \in Rows : StoredFor(UserOf[c], r) => row[r] \in Row /\ row[r].seq \in Nat
BY FeedAssumption, MaxSeqAssumption
   DEF FeedTypeOK, LogTypeOK, Change, Row, StoredFor, Stored

-----------------------------------------------------------------------------
(* Steps of the log.                                                       *)

\* Writes and purges keep what is known of a client and its request.
LEMMA LogStepKeepsClient ==
    ASSUME FeedTypeOK, FeedTypeOK', SeqsAreAllocatedOnce, [LogNext]_logVars,
           UNCHANGED <<reqVars, clientVars>>,
           NEW c \in Clients, RequestInv(c)
    PROVE  RequestInv(c)' /\ (CopyInv(c) => CopyInv(c)')
<1> DEFINE u == UserOf[c]
<1>1. /\ u \in Users
      /\ counter[u] \in Nat /\ counter'[u] \in Nat
      /\ purged[u] \in Nat /\ purged'[u] \in Nat
      /\ cursor[c] \in Nat /\ horizon[c] \in Nat
      /\ \A g \in got[c] : g.id \in Rows /\ g.seq \in Nat
      /\ \A r \in Rows : StoredFor(u, r) => row[r].seq \in Nat
      /\ \A r \in Rows : StoredFor(u, r)' => row'[r].seq \in Nat
  BY ClientTypes DEF FeedTypeOK, LogTypeOK, StoredFor, Stored, Row
<1>2. /\ counter[u] <= counter'[u]
      /\ purged[u] <= purged'[u]
      /\ \A r \in Rows : StoredFor(u, r)' =>
            \/ StoredFor(u, r) /\ row'[r] = row[r]
            \/ row'[r].seq > counter[u]
      /\ \A r \in Rows : StoredFor(u, r) =>
            \/ StoredFor(u, r)'
            \/ row[r].deleted /\ row[r].seq <= purged'[u]
  BY <1>1, LogStepFacts DEF FeedTypeOK
<1>3. /\ pc' = pc /\ table' = table /\ got' = got /\ horizon' = horizon
      /\ cursor' = cursor /\ replica' = replica /\ overtaken' = overtaken
  BY DEF reqVars, clientVars
<1>4. FromHere(c) => FromHere(c)'
  BY <1>1, <1>2, <1>3 DEF FromHere
<1>5. ReadStartsEmpty(c)'
  BY <1>3 DEF RequestInv, ReadStartsEmpty
<1>6. ReadIsNew(c)'
  BY <1>1, <1>2, <1>3 DEF RequestInv, ReadIsNew
<1>7. ReadIsOrdered(c)'
  BY <1>3 DEF RequestInv, ReadIsOrdered
<1>8. ReadIsCurrent(c)'
  <2> SUFFICES ASSUME pc[c] = "reading", table[c] > 1
               PROVE  ReadIsCurrent(c)'
    BY <1>3 DEF ReadIsCurrent
  <2>1. /\ horizon[c] <= counter[u]
        /\ \A r \in Rows :
              /\ StoredFor(u, r)
              /\ TableOf[r] < table[c]
              /\ cursor[c] < row[r].seq
              /\ row[r].seq <= horizon[c]
              => [id |-> r, seq |-> row[r].seq, deleted |-> row[r].deleted] \in got[c]
        /\ \A g \in got[c] : g.seq <= horizon[c] =>
              IF StoredFor(u, g.id)
              THEN \/ row[g.id].seq = g.seq /\ row[g.id].deleted = g.deleted
                   \/ row[g.id].seq > horizon[c]
              ELSE g.deleted \/ purged[u] > horizon[c]
    BY DEF RequestInv, ReadIsCurrent
  <2>2. horizon[c] <= counter'[u]
    BY <1>1, <1>2, <2>1
  <2>3. ASSUME NEW r \in Rows, StoredFor(u, r)', row'[r].seq <= horizon[c]
        PROVE  StoredFor(u, r) /\ row'[r] = row[r]
    BY <1>1, <1>2, <2>1, <2>3
  <2>4. ASSUME NEW g \in got[c], g.seq <= horizon[c], StoredFor(u, g.id)'
        PROVE  \/ row'[g.id].seq = g.seq /\ row'[g.id].deleted = g.deleted
               \/ row'[g.id].seq > horizon[c]
    BY <1>1, <1>2, <2>1, <2>4
  <2>5. ASSUME NEW g \in got[c], g.seq <= horizon[c], ~StoredFor(u, g.id)'
        PROVE  g.deleted \/ purged'[u] > horizon[c]
    BY <1>1, <1>2, <2>1, <2>5
  <2> QED
    BY <1>3, <2>1, <2>2, <2>3, <2>4, <2>5 DEF ReadIsCurrent
<1>9. ASSUME CopyInv(c), overtaken[c] = {}
      PROVE  Complete(c)'
  <2>1. Complete(c)
    BY <1>9 DEF CopyInv
  <2>2. ASSUME NEW r \in Rows, StoredFor(u, r)', row'[r].seq <= cursor[c]
        PROVE  StoredFor(u, r) /\ row'[r] = row[r]
    BY <1>1, <1>2, <1>9, <2>2 DEF CopyInv, FromHere
  <2>3. ASSUME NEW r \in Rows, ~StoredFor(u, r)', purged'[u] <= cursor[c]
        PROVE  replica[c][r] = 0
    <3>1. purged[u] <= cursor[c]
      BY <1>1, <1>2, <2>3
    <3>2. CASE StoredFor(u, r)
      BY <1>1, <1>2, <2>1, <2>3, <3>2 DEF Complete
    <3>3. CASE ~StoredFor(u, r)
      BY <2>1, <3>1, <3>3 DEF Complete
    <3> QED
      BY <3>2, <3>3
  <2> QED
    BY <1>3, <2>1, <2>2, <2>3 DEF Complete
<1> QED
  BY <1>3, <1>4, <1>5, <1>6, <1>7, <1>8, <1>9 DEF RequestInv, CopyInv

-----------------------------------------------------------------------------
(* Steps of the clients.                                                   *)

\* A step in which nothing changes for client c.
LEMMA IdleStepKeepsClient ==
    ASSUME NEW c \in Clients, RequestInv(c), UNCHANGED logVars,
           pc'[c] = pc[c], table'[c] = table[c], got'[c] = got[c],
           horizon'[c] = horizon[c], cursor'[c] = cursor[c],
           replica'[c] = replica[c], overtaken'[c] = overtaken[c]
    PROVE  RequestInv(c)' /\ (CopyInv(c) => CopyInv(c)')
BY DEF RequestInv, CopyInv, FromHere, ReadStartsEmpty, ReadIsNew, ReadIsOrdered,
       ReadIsCurrent, Complete, StoredFor, Stored, logVars

\* A request starts with nothing read.
LEMMA RequestKeepsClient ==
    ASSUME FeedTypeOK, NEW c \in Clients, RequestInv(c), Request(c)
    PROVE  RequestInv(c)' /\ (CopyInv(c) => CopyInv(c)')
<1>1. /\ pc'[c] # "idle" /\ table'[c] = 1 /\ got'[c] = {}
      /\ cursor' = cursor /\ replica' = replica /\ overtaken' = overtaken
      /\ row' = row /\ counter' = counter /\ purged' = purged
  BY DEF Request, FeedTypeOK, clientVars, logVars
<1> QED
  BY <1>1 DEF RequestInv, CopyInv, FromHere, ReadStartsEmpty, ReadIsNew,
              ReadIsOrdered, ReadIsCurrent, Complete, StoredFor, Stored

\* A refused client is empty, and numbers start at 1: it is complete.
LEMMA GoneKeepsClient ==
    ASSUME FeedTypeOK, SeqsAreAllocatedOnce, NEW c \in Clients, RequestInv(c), Gone(c)
    PROVE  RequestInv(c)' /\ CopyInv(c)'
<1>1. /\ pc'[c] = "idle" /\ got' = got
      /\ cursor'[c] = 0 /\ replica'[c] = [r \in Rows |-> 0]
      /\ row' = row /\ counter' = counter /\ purged' = purged
  BY DEF Gone, FeedTypeOK, logVars
<1>2. Complete(c)'
  <2>1. \A r \in Rows : StoredFor(UserOf[c], r) => row[r].seq > 0
    BY ClientTypes DEF SeqsAreAllocatedOnce, StoredFor
  <2>2. \A r \in Rows : StoredFor(UserOf[c], r)' => StoredFor(UserOf[c], r)
    BY <1>1 DEF StoredFor, Stored
  <2> QED
    BY <1>1, <2>1, <2>2, ClientTypes DEF Complete
<1>3. FromHere(c)'
  BY <1>1, ClientTypes DEF FromHere
<1> QED
  BY <1>1, <1>2, <1>3 DEF RequestInv, CopyInv, ReadStartsEmpty, ReadIsNew,
                          ReadIsOrdered, ReadIsCurrent

\* The checks of the cursor read nothing.
LEMMA ProceedKeepsClient ==
    ASSUME FeedTypeOK, NEW c \in Clients, RequestInv(c),
           pc[c] \in {"watermark", "latest"},
           NEW next \in {"latest", "reading"}, Proceed(c, next)
    PROVE  RequestInv(c)' /\ (CopyInv(c) => CopyInv(c)')
<1>1. /\ pc'[c] = next /\ table' = table /\ got' = got /\ horizon' = horizon
      /\ cursor' = cursor /\ replica' = replica /\ overtaken' = overtaken
      /\ row' = row /\ counter' = counter /\ purged' = purged
  BY DEF Proceed, FeedTypeOK, clientVars, logVars
<1>2. got[c] = {} /\ table[c] = 1
  BY DEF RequestInv, ReadStartsEmpty
<1> QED
  BY <1>1, <1>2 DEF RequestInv, CopyInv, FromHere, ReadStartsEmpty, ReadIsNew,
                    ReadIsOrdered, ReadIsCurrent, Complete, StoredFor, Stored

\* A failed request leaves the client as it was.
LEMMA FailKeepsClient ==
    ASSUME FeedTypeOK, NEW c \in Clients, RequestInv(c), Fail(c)
    PROVE  RequestInv(c)' /\ (CopyInv(c) => CopyInv(c)')
<1>1. /\ pc'[c] = "idle" /\ got' = got
      /\ cursor' = cursor /\ replica' = replica /\ overtaken' = overtaken
      /\ row' = row /\ counter' = counter /\ purged' = purged
  BY DEF Fail, FeedTypeOK, clientVars, logVars
<1> QED
  BY <1>1 DEF RequestInv, CopyInv, FromHere, ReadStartsEmpty, ReadIsNew,
              ReadIsOrdered, ReadIsCurrent, Complete, StoredFor, Stored

\* Reading a table adds the rows it holds now.
LEMMA ReadTableKeepsClient ==
    ASSUME FeedTypeOK, SeqsAreAllocatedOnce, NEW c \in Clients, RequestInv(c), ReadTable(c)
    PROVE  RequestInv(c)' /\ (CopyInv(c) => CopyInv(c)')
<1> DEFINE u == UserOf[c]
           t == table[c]
           change(r) == [id |-> r, seq |-> row[r].seq, deleted |-> row[r].deleted]
<1>1. /\ u \in Users /\ counter[u] \in Nat /\ cursor[c] \in Nat /\ horizon[c] \in Nat
      /\ t \in 1..NumTables
      /\ \A g \in got[c] : g.id \in Rows /\ g.seq \in Nat
      /\ \A r \in Rows : TableOf[r] \in 1..NumTables
      /\ \A r \in Rows : StoredFor(u, r) => row[r].seq \in Nat /\ row[r].owner = u
  BY ClientTypes, FeedAssumption DEF ReadTable, StoredFor
<1>2. /\ pc[c] = "reading" /\ pc' = pc
      /\ got'[c] = got[c] \union ChangesSince(c, t)
      /\ table'[c] = t + 1
      /\ horizon'[c] = IF t = 1 THEN counter[u] ELSE horizon[c]
      /\ cursor' = cursor /\ replica' = replica /\ overtaken' = overtaken
      /\ row' = row /\ counter' = counter /\ purged' = purged
  BY DEF ReadTable, FeedTypeOK, clientVars, logVars
\* What the query returns.
<1>3. ASSUME NEW g \in ChangesSince(c, t)
      PROVE  /\ g.id \in Rows /\ TableOf[g.id] = t
             /\ StoredFor(u, g.id) /\ g = change(g.id)
             /\ g.seq = row[g.id].seq /\ g.deleted = row[g.id].deleted
             /\ cursor[c] < g.seq /\ g.seq <= counter[u]
  <2>1. PICK r \in Rows : TableOf[r] = t /\ StoredFor(u, r) /\ row[r].seq > cursor[c]
                          /\ g = change(r)
    BY DEF ChangesSince
  <2>2. row[r].seq <= counter[u]
    BY <1>1, <2>1 DEF SeqsAreAllocatedOnce, StoredFor
  <2> QED
    BY <1>1, <2>1, <2>2
<1>4. ASSUME NEW r \in Rows, StoredFor(u, r), TableOf[r] = t, cursor[c] < row[r].seq
      PROVE  change(r) \in ChangesSince(c, t)
  BY <1>1, <1>4 DEF ChangesSince
\* One number, one row.
<1>5. ASSUME NEW r \in Rows, NEW s \in Rows, StoredFor(u, r), StoredFor(u, s),
             row[r].seq = row[s].seq
      PROVE  r = s
  BY <1>5 DEF SeqsAreAllocatedOnce, StoredFor
\* What was read before.
<1>6. ASSUME NEW g \in got[c]
      PROVE  /\ TableOf[g.id] < t
             /\ cursor[c] < g.seq /\ g.seq <= counter[u]
             /\ \A r \in Rows : StoredFor(u, r) /\ row[r].seq = g.seq => r = g.id
  BY <1>2 DEF RequestInv, ReadIsNew
<1>7. CopyInv(c) => CopyInv(c)'
  BY <1>2 DEF CopyInv, FromHere, Complete, StoredFor, Stored
<1>8. ReadStartsEmpty(c)'
  BY <1>2 DEF ReadStartsEmpty
<1>9. ReadIsNew(c)'
  <2> SUFFICES ASSUME NEW g \in got'[c]
               PROVE  /\ TableOf[g.id] < t + 1
                      /\ cursor[c] < g.seq /\ g.seq <= counter[u]
                      /\ \A r \in Rows : StoredFor(u, r) /\ row[r].seq = g.seq => r = g.id
    BY <1>2 DEF ReadIsNew, StoredFor, Stored
  <2>1. CASE g \in got[c]
    BY <1>1, <1>6, <2>1
  <2>2. CASE g \in ChangesSince(c, t)
    BY <1>1, <1>3, <1>5, <2>2
  <2> QED
    BY <1>2, <2>1, <2>2
<1>10. ReadIsOrdered(c)'
  <2> SUFFICES ASSUME NEW g \in got'[c], NEW h \in got'[c], g.id = h.id \/ g.seq = h.seq
               PROVE  g = h
    BY DEF ReadIsOrdered
  <2>1. CASE g \in got[c] /\ h \in got[c]
    BY <2>1 DEF RequestInv, ReadIsOrdered
  <2>2. ASSUME NEW p \in got[c], NEW q \in ChangesSince(c, t)
        PROVE  p.id # q.id /\ p.seq # q.seq
    BY <1>1, <1>3, <1>6
  <2>3. CASE g \in ChangesSince(c, t) /\ h \in ChangesSince(c, t)
    BY <1>3, <1>5, <2>3
  <2> QED
    BY <1>2, <2>1, <2>2, <2>3
<1>11. ReadIsCurrent(c)'
  <2>1. horizon'[c] <= counter[u]
    BY <1>1, <1>2 DEF RequestInv, ReadIsCurrent
  <2>2. ASSUME NEW r \in Rows, StoredFor(u, r), TableOf[r] < t + 1,
               cursor[c] < row[r].seq, row[r].seq <= horizon'[c]
        PROVE  change(r) \in got'[c]
    <3>1. CASE TableOf[r] = t
      BY <1>2, <1>4, <2>2, <3>1
    <3>2. CASE TableOf[r] # t
      <4>1. TableOf[r] < t /\ t # 1 /\ t > 1
        BY <1>1, <2>2, <3>2
      <4> QED
        BY <1>2, <2>2, <4>1 DEF RequestInv, ReadIsCurrent
    <3> QED
      BY <3>1, <3>2
  <2>3. ASSUME NEW g \in got'[c], g.seq <= horizon'[c]
        PROVE  IF StoredFor(u, g.id)
               THEN \/ row[g.id].seq = g.seq /\ row[g.id].deleted = g.deleted
                    \/ row[g.id].seq > horizon'[c]
               ELSE g.deleted \/ purged[u] > horizon'[c]
    <3>1. CASE g \in ChangesSince(c, t)
      BY <1>3, <3>1
    <3>2. CASE g \in got[c]
      <4>1. t # 1 /\ t > 1
        BY <1>1, <1>6, <3>2
      <4> QED
        BY <1>2, <2>3, <3>2, <4>1 DEF RequestInv, ReadIsCurrent
    <3> QED
      BY <1>2, <3>1, <3>2
  <2> QED
    BY <1>2, <2>1, <2>2, <2>3 DEF ReadIsCurrent, StoredFor, Stored
<1> QED
  BY <1>7, <1>8, <1>9, <1>10, <1>11 DEF RequestInv

-----------------------------------------------------------------------------
(* The response.                                                           *)

\* A page that ends at "last" holds all that was read up to "last".
LEMMA PageIsDownClosed ==
    ASSUME NEW S \in SUBSET Change, IsFiniteSet(S), NEW n \in Nat,
           \A g, h \in S : g.seq = h.seq => g = h,
           NEW l \in Page(S, n), NEW g \in S, g.seq <= l.seq
    PROVE  g \in Page(S, n)
<1>1. CASE n = 0
  BY <1>1 DEF Page
<1>2. CASE n # 0
  <2> DEFINE below(x) == {h \in S : h.seq < x.seq}
  <2>1. l \in S /\ Cardinality(below(l)) < n
    BY <1>2 DEF Page
  <2>2. \A h \in S : h.seq \in Nat
    BY DEF Change
  <2>3. below(g) \subseteq below(l)
    BY <2>1, <2>2
  <2>4. IsFiniteSet(below(l))
    BY FS_Subset
  <2>5. /\ Cardinality(below(g)) <= Cardinality(below(l))
        /\ Cardinality(below(g)) \in Nat /\ Cardinality(below(l)) \in Nat
    BY <2>3, <2>4, FS_Subset, FS_CardinalityType
  <2>6. Cardinality(below(g)) < n
    BY <2>1, <2>5
  <2> QED
    BY <1>2, <2>6 DEF Page
<1> QED
  BY <1>1, <1>2

\* What a request has read is finite: a change for each row at most.
LEMMA GotIsFinite ==
    ASSUME FeedTypeOK, NEW c \in Clients, ReadIsOrdered(c)
    PROVE  IsFiniteSet(got[c])
<1> DEFINE f == [g \in got[c] |-> g.id]
<1>1. f \in Injection(got[c], Rows)
  BY ClientTypes DEF ReadIsOrdered, Injection, IsInjective
<1>2. IsFiniteSet(Rows)
  BY FeedAssumption
<1> QED
  BY <1>1, <1>2, FS_Injection

\* The client's copy after a page: the change to r if the page has one.
LEMMA AppliedValue ==
    ASSUME NEW copy \in [Rows -> Nat], NEW page \in SUBSET Change,
           \A g, h \in page : g.id = h.id => g = h,
           NEW r \in Rows
    PROVE  /\ \A g \in page : g.id = r =>
                 Applied(copy, page)[r] = IF g.deleted THEN 0 ELSE g.seq
           /\ (\A g \in page : g.id # r) => Applied(copy, page)[r] = copy[r]
<1>1. ASSUME NEW g \in page, g.id = r
      PROVE  (CHOOSE h \in page : h.id = r) = g
  BY <1>1
<1>2. ASSUME NEW g \in page, g.id = r
      PROVE  Applied(copy, page)[r] = IF g.deleted THEN 0 ELSE g.seq
  BY <1>1, <1>2 DEF Applied
<1>3. ASSUME \A g \in page : g.id # r
      PROVE  Applied(copy, page)[r] = copy[r]
  BY <1>3 DEF Applied
<1> QED
  BY <1>2, <1>3

\* A response applies all that was read up to its last seq, which becomes the
\* cursor; without a limit that is all that was read.
LEMMA RespondFacts ==
    ASSUME FeedTypeOK, NEW c \in Clients, RequestInv(c), Respond(c)
    PROVE  /\ pc[c] = "reading" /\ pc'[c] = "idle" /\ got' = got
           /\ table[c] > 1 /\ \A r \in Rows : TableOf[r] < table[c]
           /\ row' = row /\ counter' = counter /\ purged' = purged
           /\ cursor'[c] \in Nat /\ cursor[c] <= cursor'[c]
           /\ cursor'[c] = cursor[c] \/ \E g \in got[c] : cursor'[c] = g.seq
           /\ limit[c] = 0 => \A g \in got[c] : g.seq <= cursor'[c]
           /\ \A g \in got[c] : g.seq <= cursor'[c] =>
                 replica'[c][g.id] = IF g.deleted THEN 0 ELSE g.seq
           /\ \A r \in Rows :
                 (\A g \in got[c] : g.id = r => g.seq > cursor'[c])
                    => replica'[c][r] = replica[c][r]
           /\ overtaken'[c] = {} =>
                 /\ overtaken[c] = {} /\ cursor'[c] <= horizon[c]
                 /\ ~ (/\ 0 < cursor[c]
                       /\ cursor[c] < purged[UserOf[c]]
                       /\ purged[UserOf[c]] <= cursor'[c])
<1> DEFINE u == UserOf[c]
           page == Page(got[c], limit[c])
<1>1. PICK last \in 0..MaxSeq :
         /\ IsNextCursor(last, page, cursor[c])
         /\ cursor' = [cursor EXCEPT ![c] = last]
         /\ replica' = [replica EXCEPT ![c] = Applied(@, page)]
         /\ overtaken' = [overtaken EXCEPT ![c] = @ \union Overtaken(c, last)]
  BY DEF Respond
<1>2. /\ pc[c] = "reading" /\ pc'[c] = "idle" /\ table[c] = NumTables + 1 /\ got' = got
      /\ cursor'[c] = last
      /\ replica'[c] = Applied(replica[c], page)
      /\ overtaken'[c] = overtaken[c] \union Overtaken(c, last)
      /\ row' = row /\ counter' = counter /\ purged' = purged
  BY <1>1 DEF Respond, FeedTypeOK, logVars
<1>3. /\ purged[u] \in Nat
      /\ cursor[c] \in Nat /\ horizon[c] \in Nat /\ last \in Nat
      /\ limit[c] \in Nat
      /\ replica[c] \in [Rows -> Nat]
      /\ \A g \in got[c] : g.id \in Rows /\ g.seq \in Nat
      /\ table[c] > 1
      /\ \A r \in Rows : TableOf[r] < table[c]
  <2>1. last \in Nat
    BY MaxSeqAssumption
  <2>2. limit[c] \in Nat /\ replica[c] \in [Rows -> Nat]
    BY FeedAssumption DEF FeedTypeOK
  <2>3. table[c] > 1 /\ \A r \in Rows : TableOf[r] < table[c]
    BY <1>2, ClientTypes, FeedAssumption
  <2> QED
    BY <2>1, <2>2, <2>3, ClientTypes
<1>4. /\ \A g \in got[c] : cursor[c] < g.seq
      /\ \A g, h \in got[c] : g.id = h.id \/ g.seq = h.seq => g = h
  BY <1>2 DEF RequestInv, ReadIsNew, ReadIsOrdered
<1>5. page \in SUBSET Change /\ page \subseteq got[c]
  BY PageIsPart, ClientTypes
<1>6. /\ cursor[c] <= last
      /\ last = cursor[c] \/ \E g \in got[c] : last = g.seq
      /\ \A g \in page : g.seq <= last
  <2>1. CASE page = {}
    BY <1>1, <1>3, <2>1 DEF IsNextCursor
  <2>2. CASE page # {}
    <3>1. \E g \in page : last = g.seq
      BY <1>1, <2>2 DEF IsNextCursor, IsHighest
    <3>2. \A g \in page : g.seq <= last
      BY <1>1, <2>2 DEF IsNextCursor, IsHighest
    <3> QED
      BY <1>3, <1>4, <1>5, <3>1, <3>2
  <2> QED
    BY <2>1, <2>2
\* All that was read up to last is in the page.
<1>7. ASSUME NEW g \in got[c], g.seq <= last
      PROVE  g \in page
  <2>1. PICK l \in page : last = l.seq
    <3>1. cursor[c] < last
      BY <1>3, <1>4, <1>7
    <3>2. page # {}
      BY <1>1, <1>3, <3>1 DEF IsNextCursor
    <3> QED
      BY <1>1, <3>2 DEF IsNextCursor, IsHighest
  <2>2. IsFiniteSet(got[c])
    BY GotIsFinite DEF RequestInv
  <2> QED
    BY <1>3, <1>4, <1>7, <2>1, <2>2, PageIsDownClosed, ClientTypes
<1>8. ASSUME NEW r \in Rows
      PROVE  /\ \A g \in page : g.id = r =>
                   replica'[c][r] = IF g.deleted THEN 0 ELSE g.seq
             /\ (\A g \in page : g.id # r) => replica'[c][r] = replica[c][r]
  BY <1>2, <1>3, <1>4, <1>5, AppliedValue
<1>9. limit[c] = 0 => \A g \in got[c] : g.seq <= last
  BY <1>6 DEF Page
<1>10. \A g \in got[c] : g.seq <= last =>
          replica'[c][g.id] = IF g.deleted THEN 0 ELSE g.seq
  BY <1>3, <1>7, <1>8
<1>11. ASSUME NEW r \in Rows, \A g \in got[c] : g.id = r => g.seq > last
       PROVE  replica'[c][r] = replica[c][r]
  BY <1>3, <1>5, <1>6, <1>8, <1>11
<1>12. ASSUME overtaken'[c] = {}
       PROVE  /\ overtaken[c] = {} /\ last <= horizon[c]
              /\ ~(0 < cursor[c] /\ cursor[c] < purged[u] /\ purged[u] <= last)
  <2>1. "write" \notin Overtaken(c, last) /\ "purge" \notin Overtaken(c, last)
    BY <1>2, <1>12
  <2> QED
    BY <1>2, <1>3, <1>12, <2>1 DEF Overtaken
<1> QED
  BY <1>2, <1>3, <1>6, <1>9, <1>10, <1>11, <1>12

\* A response takes the client to the end of its page, and if nothing overtook it
\* the client is complete there.
LEMMA RespondKeepsClient ==
    ASSUME FeedTypeOK, NEW c \in Clients, RequestInv(c), Respond(c)
    PROVE  RequestInv(c)' /\ (CopyInv(c) => CopyInv(c)')
<1> DEFINE u == UserOf[c]
           last == cursor'[c]
<1>1. /\ pc[c] = "reading" /\ pc'[c] = "idle" /\ got' = got
      /\ table[c] > 1 /\ \A r \in Rows : TableOf[r] < table[c]
      /\ row' = row /\ counter' = counter /\ purged' = purged
      /\ last \in Nat /\ cursor[c] <= last
      /\ last = cursor[c] \/ \E g \in got[c] : last = g.seq
  BY RespondFacts
<1>2. ASSUME NEW r \in Rows
      PROVE  /\ \A g \in got[c] : g.id = r /\ g.seq <= last =>
                   replica'[c][r] = IF g.deleted THEN 0 ELSE g.seq
             /\ (\A g \in got[c] : g.id = r => g.seq > last)
                   => replica'[c][r] = replica[c][r]
  BY RespondFacts
<1>3. /\ counter[u] \in Nat /\ purged[u] \in Nat
      /\ cursor[c] \in Nat /\ horizon[c] \in Nat
      /\ \A r \in Rows : replica[c][r] \in Nat
      /\ \A g \in got[c] : g.id \in Rows /\ g.seq \in Nat
      /\ \A r \in Rows : StoredFor(u, r) => row[r].seq \in Nat
  BY ClientTypes
<1>4. \A g \in got[c] : cursor[c] < g.seq /\ g.seq <= counter[u]
  BY <1>1 DEF RequestInv, ReadIsNew
<1>5. ASSUME FromHere(c)
      PROVE  FromHere(c)'
  <2>1. ASSUME NEW r \in Rows
        PROVE  replica'[c][r] <= last
    <3>1. CASE \E g \in got[c] : g.id = r /\ g.seq <= last
      BY <1>1, <1>2, <1>3, <3>1
    <3>2. CASE \A g \in got[c] : g.id = r => g.seq > last
      BY <1>1, <1>2, <1>3, <1>5, <3>2 DEF FromHere
    <3> QED
      BY <1>1, <1>3, <3>1, <3>2
  <2>2. last <= counter[u]
    BY <1>1, <1>4, <1>5 DEF FromHere
  <2> QED
    BY <1>1, <2>1, <2>2 DEF FromHere
<1>6. ASSUME CopyInv(c), overtaken'[c] = {}
      PROVE  Complete(c)'
  <2>1. /\ overtaken[c] = {} /\ last <= horizon[c]
        /\ ~(0 < cursor[c] /\ cursor[c] < purged[u] /\ purged[u] <= last)
    BY <1>6, RespondFacts
  <2>2. FromHere(c) /\ Complete(c)
    BY <1>6, <2>1 DEF CopyInv
  <2>3. /\ \A r \in Rows :
              /\ StoredFor(u, r)
              /\ cursor[c] < row[r].seq
              /\ row[r].seq <= horizon[c]
              => [id |-> r, seq |-> row[r].seq, deleted |-> row[r].deleted] \in got[c]
        /\ \A g \in got[c] : g.seq <= horizon[c] =>
              IF StoredFor(u, g.id)
              THEN \/ row[g.id].seq = g.seq /\ row[g.id].deleted = g.deleted
                   \/ row[g.id].seq > horizon[c]
              ELSE g.deleted \/ purged[u] > horizon[c]
    BY <1>1 DEF RequestInv, ReadIsCurrent
  \* A row that is there and numbered up to last.
  <2>4. ASSUME NEW r \in Rows, StoredFor(u, r), row[r].seq <= last
        PROVE  replica'[c][r] = IF row[r].deleted THEN 0 ELSE row[r].seq
    <3> DEFINE change == [id |-> r, seq |-> row[r].seq, deleted |-> row[r].deleted]
    <3>1. CASE cursor[c] < row[r].seq
      <4>1. change \in got[c]
        BY <1>1, <1>3, <2>1, <2>3, <2>4, <3>1
      <4> QED
        BY <1>2, <2>4, <4>1
    <3>2. CASE row[r].seq <= cursor[c]
      <4>1. ASSUME NEW g \in got[c], g.id = r
            PROVE  g.seq > last
        BY <1>1, <1>3, <1>4, <2>1, <2>3, <2>4, <3>2, <4>1
      <4> QED
        BY <1>2, <2>2, <2>4, <3>2, <4>1 DEF Complete
    <3> QED
      BY <1>3, <2>4, <3>1, <3>2
  \* A row that is not there, under a watermark that is not past last.
  <2>5. ASSUME NEW r \in Rows, ~StoredFor(u, r), purged[u] <= last
        PROVE  replica'[c][r] = 0
    <3>1. ASSUME NEW g \in got[c], g.id = r, g.seq <= last
          PROVE  replica'[c][r] = 0
      <4>1. g.seq <= horizon[c] /\ ~(purged[u] > horizon[c])
        BY <1>1, <1>3, <2>1, <2>5, <3>1
      <4> QED
        BY <1>2, <2>3, <2>5, <3>1, <4>1
    <3>2. CASE \A g \in got[c] : g.id = r => g.seq > last
      <4>1. CASE purged[u] <= cursor[c]
        BY <1>2, <2>2, <2>5, <3>2, <4>1 DEF Complete
      <4>2. CASE cursor[c] < purged[u]
        <5>1. cursor[c] = 0
          BY <1>3, <2>1, <2>5, <4>2
        <5>2. replica[c][r] = 0
          BY <1>3, <2>2, <5>1 DEF FromHere
        <5> QED
          BY <1>2, <3>2, <5>2
      <4> QED
        BY <1>3, <4>1, <4>2
    <3> QED
      BY <1>1, <1>3, <3>1, <3>2
  <2> QED
    BY <1>1, <2>4, <2>5 DEF Complete, StoredFor, Stored
<1>7. RequestInv(c)'
  BY <1>1 DEF RequestInv, ReadStartsEmpty, ReadIsNew, ReadIsOrdered, ReadIsCurrent
<1> QED
  BY <1>5, <1>6, <1>7 DEF CopyInv

-----------------------------------------------------------------------------
(* The theorems.                                                           *)

\* What is known of a client's request is kept by every step, and then so is what
\* is known of its copy.
LEMMA ClientStepKeepsClient ==
    ASSUME FeedTypeOK, FeedTypeOK', SeqsAreAllocatedOnce, [FeedNext]_feedVars,
           NEW c \in Clients, RequestInv(c)
    PROVE  RequestInv(c)' /\ (CopyInv(c) => CopyInv(c)')
<1>1. CASE Write \/ TimePasses \/ Purge \/ UNCHANGED feedVars
  <2>1. UNCHANGED <<reqVars, clientVars>>
    BY <1>1 DEF Write, TimePasses, Purge, feedVars
  <2> QED
    BY <2>1, FeedStepIsLogStep, LogStepKeepsClient
<1>2. ASSUME NEW d \in Clients, ClientStep(d) \/ Fail(d), d # c
      PROVE  RequestInv(c)' /\ (CopyInv(c) => CopyInv(c)')
  <2>1. /\ UNCHANGED logVars
        /\ pc'[c] = pc[c] /\ table'[c] = table[c] /\ got'[c] = got[c]
        /\ horizon'[c] = horizon[c] /\ cursor'[c] = cursor[c]
        /\ replica'[c] = replica[c] /\ overtaken'[c] = overtaken[c]
    BY <1>2 DEF ClientStep, Request, CheckWatermark, CheckLatest, Gone, Proceed,
                ReadTable, Respond, Fail, FeedTypeOK, clientVars
  <2> QED
    BY <2>1, IdleStepKeepsClient
<1>3. CASE Request(c)
  BY <1>3, RequestKeepsClient
<1>4. CASE CheckWatermark(c) \/ CheckLatest(c)
  <2>1. CASE Gone(c)
    BY <2>1, GoneKeepsClient
  <2>2. CASE \E next \in {"latest", "reading"} : Proceed(c, next)
    BY <1>4, <2>2, ProceedKeepsClient DEF CheckWatermark, CheckLatest
  <2> QED
    BY <1>4, <2>1, <2>2 DEF CheckWatermark, CheckLatest
<1>5. CASE ReadTable(c)
  BY <1>5, ReadTableKeepsClient
<1>6. CASE Respond(c)
  BY <1>6, RespondKeepsClient
<1>7. CASE Fail(c)
  BY <1>7, FailKeepsClient
<1> QED
  BY <1>1, <1>2, <1>3, <1>4, <1>5, <1>6, <1>7 DEF FeedNext, ClientStep

\* The invariant is inductive.
LEMMA FeedInvStep ==
    FeedTypeOK /\ FeedTypeOK' /\ SeqsAreAllocatedOnce /\ FeedInv /\ [FeedNext]_feedVars
        => FeedInv'
BY ClientStepKeepsClient DEF FeedInv

\* In every state of the feed the numbers are allocated once and every client's
\* request has read what it should have.
THEOREM FeedInvariant == FeedSpec => [](SeqsAreAllocatedOnce /\ FeedInv)
<1>1. FeedInit => SeqsAreAllocatedOnce
  BY DEF FeedInit, LogInit, SeqsAreAllocatedOnce, Stored
<1>2. FeedInit => FeedInv
  BY FeedAssumption
     DEF FeedInit, LogInit, FeedInv, RequestInv, CopyInv, FromHere, ReadStartsEmpty, ReadIsNew,
         ReadIsOrdered, ReadIsCurrent, Complete, StoredFor, Stored
<1>3. FeedTypeOK /\ SeqsAreAllocatedOnce /\ [FeedNext]_feedVars => SeqsAreAllocatedOnce'
  BY FeedStepIsLogStep, AllocationStep DEF FeedTypeOK
<1> QED
  BY <1>1, <1>2, <1>3, FeedTypeCorrect, FeedInvStep, PTL DEF FeedSpec

\* A client that used no overtaken response holds exactly what its cursor says,
\* whatever writes, purges and failures its requests met, page by page.
THEOREM FeedIsComplete == FeedSpec => []CompleteUnlessOvertaken
<1>1. FeedInv => CompleteUnlessOvertaken
  BY DEF FeedInv, CopyInv, CompleteUnlessOvertaken
<1> QED
  BY <1>1, FeedInvariant, PTL

\* No client of this server's feed has a cursor, or a copy, ahead of the counter:
\* the 410 of CheckLatest is only ever for foreign cursors.
THEOREM FeedCursorsComeFromHere == FeedSpec => []CursorsComeFromHere
<1>1. FeedInv => CursorsComeFromHere
  BY DEF FeedInv, CopyInv, FromHere, CursorsComeFromHere
<1> QED
  BY <1>1, FeedInvariant, PTL

\* The changes of a response are totally ordered by seq, though its tables were
\* read at different times.
THEOREM FeedResponsesAreOrdered == FeedSpec => []ResponsesAreOrdered
<1>1. FeedInv => ResponsesAreOrdered
  BY DEF FeedInv, RequestInv, ReadIsOrdered, ResponsesAreOrdered
<1> QED
  BY <1>1, FeedInvariant, PTL

\* What a step of the feed may do to a client's cursor and copy.
LEMMA ClientMoves ==
    ASSUME FeedTypeOK, FeedNext, NEW c \in Clients
    PROVE  \/ /\ cursor'[c] = cursor[c] /\ replica'[c] = replica[c]
              /\ overtaken'[c] = overtaken[c]
           \/ Gone(c)
           \/ Respond(c)
<1>1. CASE Write \/ TimePasses \/ Purge
  BY <1>1 DEF Write, TimePasses, Purge, clientVars
<1>2. ASSUME NEW d \in Clients, ClientStep(d) \/ Fail(d), d # c
      PROVE  /\ cursor'[c] = cursor[c] /\ replica'[c] = replica[c]
             /\ overtaken'[c] = overtaken[c]
  BY <1>2 DEF ClientStep, Request, CheckWatermark, CheckLatest, Gone, Proceed,
              ReadTable, Respond, Fail, clientVars, FeedTypeOK
<1>3. CASE Request(c) \/ ReadTable(c) \/ Fail(c)
  BY <1>3 DEF Request, ReadTable, Fail, clientVars
<1>4. CASE CheckWatermark(c) \/ CheckLatest(c)
  BY <1>4 DEF CheckWatermark, CheckLatest, Proceed, clientVars
<1> QED
  BY <1>1, <1>2, <1>3, <1>4 DEF FeedNext, ClientStep

\* No step takes a client back, but for a refusal, which empties it.
THEOREM FeedNeverGoesBack == FeedSpec => NeverGoesBack
<1> DEFINE Forward(c) ==
      \/ cursor'[c] = 0 /\ \A r \in Rows : replica'[c][r] = 0
      \/ /\ cursor'[c] >= cursor[c]
         /\ \A r \in Rows : replica'[c][r] \in {0, replica[c][r]}
                                \/ replica'[c][r] > cursor[c]
<1>1. FeedTypeOK /\ FeedInv /\ [FeedNext]_feedVars
        => [\A c \in Clients : Forward(c)]_feedVars
  <2> SUFFICES ASSUME FeedTypeOK, FeedInv, FeedNext, NEW c \in Clients
               PROVE  Forward(c)
    OBVIOUS
  <2>1. cursor[c] \in Nat /\ RequestInv(c)
    BY DEF FeedTypeOK, FeedInv
  <2>2. CASE cursor'[c] = cursor[c] /\ replica'[c] = replica[c]
    BY <2>1, <2>2
  <2>3. CASE Gone(c)
    BY <2>3 DEF Gone, FeedTypeOK
  <2>4. CASE Respond(c)
    <3>1. cursor'[c] >= cursor[c]
      BY <2>1, <2>4, RespondFacts
    <3>2. ASSUME NEW r \in Rows
          PROVE  replica'[c][r] \in {0, replica[c][r]} \/ replica'[c][r] > cursor[c]
      <4>1. CASE \E g \in got[c] : g.id = r /\ g.seq <= cursor'[c]
        <5>1. PICK g \in got[c] : g.id = r /\ g.seq <= cursor'[c]
          BY <4>1
        <5>2. g.seq > cursor[c] /\ replica'[c][r] \in {0, g.seq}
          BY <2>1, <2>4, <5>1, RespondFacts, ClientTypes
             DEF RequestInv, ReadIsNew, Respond
        <5> QED
          BY <5>2
      <4>2. CASE \A g \in got[c] : g.id = r => g.seq > cursor'[c]
        BY <2>1, <2>4, <4>2, RespondFacts
      <4>3. \A g \in got[c] : g.seq \in Nat /\ cursor'[c] \in Nat
        BY <2>1, <2>4, RespondFacts, ClientTypes
      <4> QED
        BY <4>1, <4>2, <4>3
    <3> QED
      BY <3>1, <3>2
  <2> HIDE DEF Forward
  <2> QED
    BY <2>2, <2>3, <2>4, ClientMoves
<1> QED
  BY <1>1, FeedTypeCorrect, FeedInvariant, PTL DEF FeedSpec, NeverGoesBack

\* The numbers of the feed's rows are allocated once, as in the change log.
THEOREM FeedAllocatesOnce == FeedSpec => []SeqsAreAllocatedOnce
BY FeedInvariant, PTL

\* A write or a purge of the feed never goes unnoticed by a cursor.
THEOREM FeedChangesAreVisible == FeedSpec => NoSilentChange
BY FeedImplementsLog, ChangesAreVisible

-----------------------------------------------------------------------------
(* A database that is put back to a backup (SyncRestore).                  *)

InBackup(u, r) == backup.row[r] # NoRow /\ backup.row[r].owner = u

\* What SeqsAreAllocatedOnce says of the backup.
BackupIsAllocatedOnce ==
    /\ \A r \in Rows : backup.row[r] # NoRow =>
          backup.row[r].seq \in 1..backup.counter[backup.row[r].owner]
    /\ \A r, s \in Rows :
          /\ backup.row[r] # NoRow /\ backup.row[s] # NoRow
          /\ backup.row[r].owner = backup.row[s].owner
          /\ backup.row[r].seq = backup.row[s].seq
          => r = s
    /\ \A u \in Users : backup.purged[u] <= backup.counter[u]

\* The database is a later state of the backup: what was written since is numbered
\* above the backup's counter, and what was purged since left a watermark.
BackupIsPast ==
    \A u \in Users :
        /\ backup.counter[u] <= counter[u]
        /\ backup.purged[u] <= purged[u]
        /\ \A r \in Rows : StoredFor(u, r) =>
              row[r] = backup.row[r] \/ row[r].seq > backup.counter[u]
        /\ \A r \in Rows : InBackup(u, r) =>
              \/ StoredFor(u, r)
              \/ purged[u] > backup.counter[u]
              \/ backup.row[r].deleted /\ backup.row[r].seq <= purged[u]

\* What was read agrees with the backup as well, up to the horizon, as long as
\* nothing was met that is younger than the backup (compare ReadIsCurrent).
ReadIsOfBackup(c) ==
    LET u == UserOf[c]
    IN  /\ pc[c] = "reading" /\ table[c] > 1
        /\ \A g \in got[c] : g.seq <= backup.counter[u]
        /\ purged[u] <= backup.counter[u]
        => /\ \A r \in Rows :
                 /\ InBackup(u, r)
                 /\ TableOf[r] < table[c]
                 /\ cursor[c] < backup.row[r].seq
                 /\ backup.row[r].seq <= horizon[c]
                 => \/ [id |-> r, seq |-> backup.row[r].seq,
                        deleted |-> backup.row[r].deleted] \in got[c]
                    \/ backup.row[r].deleted /\ backup.row[r].seq <= purged[u]
           /\ \A g \in got[c] : g.seq <= horizon[c] =>
                 IF InBackup(u, g.id)
                 THEN \/ /\ backup.row[g.id].seq = g.seq
                         /\ backup.row[g.id].deleted = g.deleted
                      \/ backup.row[g.id].seq > horizon[c]
                 ELSE g.deleted \/ backup.purged[u] > horizon[c]

\* A client that takes no pages, whose cursor the backup knows and no watermark has
\* passed, holds what the backup has up to that cursor.
HoldsBackup(c) ==
    LET u == UserOf[c]
    IN  /\ overtaken[c] = {} /\ limit[c] = 0
        /\ cursor[c] <= backup.counter[u]
        /\ purged[u] <= cursor[c]
        => \A r \in Rows :
              IF InBackup(u, r)
              THEN backup.row[r].seq <= cursor[c] =>
                      replica[c][r] = IF backup.row[r].deleted
                                      THEN 0 ELSE backup.row[r].seq
              ELSE replica[c][r] = 0

RestoreInv ==
    /\ SeqsAreAllocatedOnce /\ BackupIsAllocatedOnce /\ BackupIsPast
    /\ \A c \in Clients : RequestInv(c) /\ ReadIsOfBackup(c)
    /\ \A c \in Clients \ foreign : CopyInv(c) /\ HoldsBackup(c)
    /\ \A c \in foreign : cursor[c] # 0

\* The types of the feed, the backup and the history.
THEOREM RestoreTypeCorrect == RestoreSpec => []RestoreTypeOK
<1>1. RestoreInit => RestoreTypeOK
  BY MaxSeqAssumption, FeedAssumption, RestoreAssumption
     DEF RestoreInit, RestoreTypeOK, FeedInit, FeedTypeOK, LogInit, LogTypeOK, Database
<1>2. RestoreTypeOK /\ [RestoreNext]_restoreVars => RestoreTypeOK'
  <2> SUFFICES ASSUME RestoreTypeOK, [RestoreNext]_restoreVars
               PROVE  RestoreTypeOK'
    OBVIOUS
  <2>1. CASE FeedStep
    <3>1. FeedTypeOK'
      BY <2>1, FeedTypeStep DEF FeedStep, RestoreTypeOK
    <3> QED
      BY <2>1, <3>1 DEF FeedStep, RestoreTypeOK
  <2>2. CASE TakeBackup
    BY <2>2 DEF TakeBackup, RestoreTypeOK, FeedTypeOK, LogTypeOK, Database, feedVars,
                logVars, reqVars, clientVars
  <2>3. CASE RestoreBackup
    BY <2>3, RestoreAssumption
       DEF RestoreBackup, RestoreTypeOK, FeedTypeOK, LogTypeOK, clientVars
  <2>4. CASE UNCHANGED restoreVars
    BY <2>4 DEF restoreVars, RestoreTypeOK, FeedTypeOK, LogTypeOK, feedVars,
                logVars, reqVars, clientVars
  <2> QED
    BY <2>1, <2>2, <2>3, <2>4 DEF RestoreNext
<1> QED
  BY <1>1, <1>2, PTL DEF RestoreSpec

-----------------------------------------------------------------------------
(* The backup while the feed goes on.                                      *)

\* Types of the backup at hand in every step.
LEMMA BackupTypes ==
    ASSUME RestoreTypeOK, NEW u \in Users
    PROVE  /\ backup.counter[u] \in Nat /\ backup.purged[u] \in Nat
           /\ \A r \in Rows : backup.row[r] # NoRow => backup.row[r] \in Row
           /\ \A r \in Rows : InBackup(u, r) => backup.row[r].seq \in Nat
BY MaxSeqAssumption DEF RestoreTypeOK, InBackup, Row

\* The backup's rows are numbered from 1 up to its counter.
LEMMA BackupNumbers ==
    ASSUME RestoreTypeOK, BackupIsAllocatedOnce, NEW u \in Users,
           NEW r \in Rows, InBackup(u, r)
    PROVE  1 <= backup.row[r].seq /\ backup.row[r].seq <= backup.counter[u]
BY BackupTypes DEF BackupIsAllocatedOnce, InBackup

\* Writes and purges only take the database further from the backup.
LEMMA BackupStaysPast ==
    ASSUME RestoreTypeOK, SeqsAreAllocatedOnce, BackupIsPast, FeedStep
    PROVE  BackupIsPast'
<1> SUFFICES ASSUME NEW u \in Users
             PROVE  /\ backup.counter[u] <= counter'[u]
                    /\ backup.purged[u] <= purged'[u]
                    /\ \A r \in Rows : StoredFor(u, r)' =>
                          row'[r] = backup.row[r] \/ row'[r].seq > backup.counter[u]
                    /\ \A r \in Rows : InBackup(u, r) =>
                          \/ StoredFor(u, r)'
                          \/ purged'[u] > backup.counter[u]
                          \/ backup.row[r].deleted /\ backup.row[r].seq <= purged'[u]
  BY DEF BackupIsPast, FeedStep, InBackup
<1>1. FeedTypeOK /\ FeedTypeOK' /\ [LogNext]_logVars
  BY FeedTypeStep, FeedStepIsLogStep DEF FeedStep, RestoreTypeOK
<1>2. /\ counter[u] \in Nat /\ counter'[u] \in Nat
      /\ purged[u] \in Nat /\ purged'[u] \in Nat
      /\ backup.counter[u] \in Nat /\ backup.purged[u] \in Nat
      /\ \A r \in Rows : StoredFor(u, r) => row[r].seq \in Nat
      /\ \A r \in Rows : StoredFor(u, r)' => row'[r].seq \in Nat
      /\ \A r \in Rows : InBackup(u, r) => backup.row[r].seq \in Nat
  BY <1>1, BackupTypes, MaxSeqAssumption
     DEF FeedTypeOK, LogTypeOK, StoredFor, Stored, Row
<1>3. /\ counter[u] <= counter'[u]
      /\ purged[u] <= purged'[u]
      /\ \A r \in Rows : StoredFor(u, r)' =>
            \/ StoredFor(u, r) /\ row'[r] = row[r]
            \/ row'[r].seq > counter[u]
      /\ \A r \in Rows : StoredFor(u, r) =>
            \/ StoredFor(u, r)'
            \/ row[r].deleted /\ row[r].seq <= purged'[u]
  BY <1>1, LogStepFacts DEF FeedTypeOK
<1>4. /\ backup.counter[u] <= counter[u]
      /\ backup.purged[u] <= purged[u]
      /\ \A r \in Rows : StoredFor(u, r) =>
            row[r] = backup.row[r] \/ row[r].seq > backup.counter[u]
      /\ \A r \in Rows : InBackup(u, r) =>
            \/ StoredFor(u, r)
            \/ purged[u] > backup.counter[u]
            \/ backup.row[r].deleted /\ backup.row[r].seq <= purged[u]
  BY DEF BackupIsPast
<1>5. ASSUME NEW r \in Rows, StoredFor(u, r)'
      PROVE  row'[r] = backup.row[r] \/ row'[r].seq > backup.counter[u]
  BY <1>2, <1>3, <1>4, <1>5
<1>6. ASSUME NEW r \in Rows, InBackup(u, r), ~StoredFor(u, r)'
      PROVE  \/ purged'[u] > backup.counter[u]
             \/ backup.row[r].deleted /\ backup.row[r].seq <= purged'[u]
  <2>1. CASE StoredFor(u, r)
    BY <1>2, <1>3, <1>4, <1>6, <2>1
  <2>2. CASE ~StoredFor(u, r)
    BY <1>2, <1>3, <1>4, <1>6, <2>2
  <2> QED
    BY <2>1, <2>2
<1> QED
  BY <1>2, <1>3, <1>4, <1>5, <1>6

\* What was read so far agrees with a backup that is taken now.
LEMMA ReadIsOfNewBackup ==
    ASSUME NEW c \in Clients, RequestInv(c), backup' = Database, UNCHANGED feedVars
    PROVE  ReadIsOfBackup(c)'
BY DEF RequestInv, ReadIsCurrent, ReadIsOfBackup, Database, InBackup, StoredFor, Stored,
       feedVars, logVars, reqVars, clientVars

\* A request keeps agreeing with the backup: the rows of the table it reads are the
\* backup's, or younger than it, or gone under a watermark.
LEMMA ReadTableIsOfBackup ==
    ASSUME RestoreTypeOK, BackupIsAllocatedOnce, BackupIsPast, NEW c \in Clients,
           RequestInv(c), ReadIsOfBackup(c), ReadTable(c), backup' = backup
    PROVE  ReadIsOfBackup(c)'
<1> DEFINE u == UserOf[c]
           t == table[c]
           was(r) == [id |-> r, seq |-> backup.row[r].seq,
                      deleted |-> backup.row[r].deleted]
<1>1. FeedTypeOK
  BY DEF RestoreTypeOK
<1>2. /\ u \in Users /\ counter[u] \in Nat /\ purged[u] \in Nat
      /\ cursor[c] \in Nat /\ horizon[c] \in Nat /\ t \in 1..NumTables
      /\ backup.counter[u] \in Nat /\ backup.purged[u] \in Nat
      /\ \A g \in got[c] : g.id \in Rows /\ g.seq \in Nat
      /\ \A r \in Rows : TableOf[r] \in 1..NumTables
      /\ \A r \in Rows : StoredFor(u, r) => row[r].seq \in Nat
      /\ \A r \in Rows : InBackup(u, r) => backup.row[r].seq \in Nat
  BY <1>1, ClientTypes, BackupTypes, FeedAssumption DEF ReadTable
<1>3. /\ pc[c] = "reading" /\ pc' = pc
      /\ got'[c] = got[c] \union ChangesSince(c, t)
      /\ table'[c] = t + 1
      /\ horizon'[c] = IF t = 1 THEN counter[u] ELSE horizon[c]
      /\ cursor' = cursor /\ purged' = purged
  BY <1>1 DEF ReadTable, FeedTypeOK, clientVars, logVars
<1>4. /\ \A r \in Rows : StoredFor(u, r) =>
            row[r] = backup.row[r] \/ row[r].seq > backup.counter[u]
      /\ \A r \in Rows : InBackup(u, r) =>
            \/ StoredFor(u, r)
            \/ purged[u] > backup.counter[u]
            \/ backup.row[r].deleted /\ backup.row[r].seq <= purged[u]
  BY <1>2 DEF BackupIsPast
<1>5. ASSUME NEW r \in Rows, StoredFor(u, r), TableOf[r] = t, cursor[c] < row[r].seq
      PROVE  [id |-> r, seq |-> row[r].seq, deleted |-> row[r].deleted]
                \in ChangesSince(c, t)
  BY <1>2, <1>5 DEF ChangesSince
<1>6. ASSUME NEW g \in ChangesSince(c, t)
      PROVE  /\ g.id \in Rows /\ StoredFor(u, g.id)
             /\ g.seq = row[g.id].seq /\ g.deleted = row[g.id].deleted
  BY DEF ChangesSince
<1> SUFFICES ASSUME \A g \in got'[c] : g.seq <= backup.counter[u],
                    purged[u] <= backup.counter[u]
             PROVE  /\ \A r \in Rows :
                          /\ InBackup(u, r) /\ TableOf[r] < t + 1
                          /\ cursor[c] < backup.row[r].seq
                          /\ backup.row[r].seq <= horizon'[c]
                          => \/ was(r) \in got'[c]
                             \/ backup.row[r].deleted /\ backup.row[r].seq <= purged[u]
                    /\ \A g \in got'[c] : g.seq <= horizon'[c] =>
                          IF InBackup(u, g.id)
                          THEN \/ /\ backup.row[g.id].seq = g.seq
                                  /\ backup.row[g.id].deleted = g.deleted
                               \/ backup.row[g.id].seq > horizon'[c]
                          ELSE g.deleted \/ backup.purged[u] > horizon'[c]
  BY <1>3 DEF ReadIsOfBackup, InBackup
<1>7. t > 1 =>
        /\ \A r \in Rows :
              /\ InBackup(u, r) /\ TableOf[r] < t
              /\ cursor[c] < backup.row[r].seq
              /\ backup.row[r].seq <= horizon[c]
              => \/ was(r) \in got[c]
                 \/ backup.row[r].deleted /\ backup.row[r].seq <= purged[u]
        /\ \A g \in got[c] : g.seq <= horizon[c] =>
              IF InBackup(u, g.id)
              THEN \/ /\ backup.row[g.id].seq = g.seq
                      /\ backup.row[g.id].deleted = g.deleted
                   \/ backup.row[g.id].seq > horizon[c]
              ELSE g.deleted \/ backup.purged[u] > horizon[c]
  BY <1>3 DEF ReadIsOfBackup
<1>8. ASSUME NEW r \in Rows, InBackup(u, r), TableOf[r] < t + 1,
             cursor[c] < backup.row[r].seq, backup.row[r].seq <= horizon'[c]
      PROVE  \/ was(r) \in got'[c]
             \/ backup.row[r].deleted /\ backup.row[r].seq <= purged[u]
  <2>1. CASE TableOf[r] = t /\ StoredFor(u, r)
    <3>1. CASE row[r] = backup.row[r]
      BY <1>3, <1>5, <1>8, <2>1, <3>1
    <3>2. CASE row[r].seq > backup.counter[u]
      <4>1. cursor[c] < row[r].seq
        BY <1>2, <1>8, <2>1, <3>2, BackupNumbers
      <4>2. [id |-> r, seq |-> row[r].seq, deleted |-> row[r].deleted] \in got'[c]
        BY <1>3, <1>5, <2>1, <4>1
      <4> QED
        BY <1>2, <2>1, <3>2, <4>2
    <3> QED
      BY <1>4, <2>1, <3>1, <3>2
  <2>2. CASE TableOf[r] = t /\ ~StoredFor(u, r)
    BY <1>2, <1>4, <1>8, <2>2
  <2>3. CASE TableOf[r] # t
    <3>1. TableOf[r] < t /\ t > 1 /\ t # 1
      BY <1>2, <1>8, <2>3
    <3> QED
      BY <1>3, <1>7, <1>8, <3>1
  <2> QED
    BY <2>1, <2>2, <2>3
<1>9. ASSUME NEW g \in got'[c], g.seq <= horizon'[c]
      PROVE  IF InBackup(u, g.id)
             THEN \/ /\ backup.row[g.id].seq = g.seq
                     /\ backup.row[g.id].deleted = g.deleted
                  \/ backup.row[g.id].seq > horizon'[c]
             ELSE g.deleted \/ backup.purged[u] > horizon'[c]
  <2>1. CASE g \in ChangesSince(c, t)
    <3>1. row[g.id] = backup.row[g.id]
      BY <1>2, <1>4, <1>6, <2>1
    <3> QED
      BY <1>6, <2>1, <3>1 DEF InBackup, StoredFor, Stored
  <2>2. CASE g \in got[c]
    <3>1. TableOf[g.id] < t
      BY <1>3, <2>2 DEF RequestInv, ReadIsNew
    <3>2. t > 1 /\ t # 1
      BY <1>2, <2>2, <3>1
    <3> QED
      BY <1>3, <1>7, <1>9, <2>2, <3>2
  <2> QED
    BY <1>3, <2>1, <2>2
<1> QED
  BY <1>8, <1>9

\* Every step of the feed keeps what was read in agreement with the backup.
LEMMA ReadStaysOfBackup ==
    ASSUME RestoreTypeOK, SeqsAreAllocatedOnce, BackupIsAllocatedOnce, BackupIsPast,
           FeedStep, NEW c \in Clients, RequestInv(c), ReadIsOfBackup(c)
    PROVE  ReadIsOfBackup(c)'
<1>1. FeedTypeOK /\ FeedTypeOK' /\ backup' = backup
  BY FeedTypeStep DEF FeedStep, RestoreTypeOK
<1>2. /\ UserOf[c] \in Users
      /\ purged[UserOf[c]] \in Nat /\ purged'[UserOf[c]] \in Nat
      /\ purged[UserOf[c]] <= purged'[UserOf[c]]
      /\ backup.counter[UserOf[c]] \in Nat
      /\ \A r \in Rows : InBackup(UserOf[c], r) => backup.row[r].seq \in Nat
  <2>1. [LogNext]_logVars
    BY <1>1, FeedStepIsLogStep DEF FeedStep
  <2>2. LogTypeOK /\ UserOf[c] \in Users
    BY <1>1, ClientTypes DEF FeedTypeOK
  <2>3. purged[UserOf[c]] <= purged'[UserOf[c]]
    BY <2>1, <2>2, LogStepFacts
  <2>4. purged'[UserOf[c]] \in Nat
    BY <1>1, <2>2, MaxSeqAssumption DEF FeedTypeOK, LogTypeOK
  <2> QED
    BY <1>1, <2>2, <2>3, <2>4, ClientTypes, BackupTypes
<1>3. ASSUME pc'[c] = pc[c], table'[c] = table[c], got'[c] = got[c],
             horizon'[c] = horizon[c], cursor'[c] = cursor[c]
      PROVE  ReadIsOfBackup(c)'
  BY <1>1, <1>2, <1>3 DEF ReadIsOfBackup, InBackup
<1>4. ASSUME pc'[c] # "reading" \/ table'[c] = 1
      PROVE  ReadIsOfBackup(c)'
  BY <1>4 DEF ReadIsOfBackup
<1>5. CASE Write \/ TimePasses \/ Purge
  BY <1>3, <1>5 DEF Write, TimePasses, Purge, reqVars, clientVars
<1>6. ASSUME NEW d \in Clients, ClientStep(d) \/ Fail(d), d # c
      PROVE  ReadIsOfBackup(c)'
  BY <1>1, <1>3, <1>6
     DEF ClientStep, Request, CheckWatermark, CheckLatest, Gone, Proceed,
         ReadTable, Respond, Fail, FeedTypeOK, clientVars
<1>7. CASE Request(c)
  BY <1>1, <1>4, <1>7 DEF Request, FeedTypeOK
<1>8. CASE CheckWatermark(c) \/ CheckLatest(c)
  <2>1. table[c] = 1
    BY <1>8 DEF CheckWatermark, CheckLatest, RequestInv, ReadStartsEmpty
  <2> QED
    BY <1>4, <1>8, <2>1 DEF CheckWatermark, CheckLatest, Gone, Proceed
<1>9. CASE ReadTable(c)
  BY <1>1, <1>9, ReadTableIsOfBackup
<1>10. CASE Respond(c) \/ Fail(c)
  BY <1>1, <1>4, <1>10 DEF Respond, Fail, FeedTypeOK
<1> QED
  BY <1>5, <1>6, <1>7, <1>8, <1>9, <1>10 DEF FeedStep, FeedNext, ClientStep

-----------------------------------------------------------------------------
(* What the clients hold of the backup.                                    *)

\* A client that is complete when a backup is taken holds what the backup has.
LEMMA HoldsNewBackup ==
    ASSUME NEW c \in Clients, CopyInv(c), backup' = Database, UNCHANGED feedVars
    PROVE  HoldsBackup(c)'
BY DEF CopyInv, Complete, HoldsBackup, Database, InBackup, StoredFor, Stored,
       feedVars, logVars, clientVars

\* A response that the backup's counter covers, and that nothing overtook, brings
\* the client what the backup has up to its new cursor.
LEMMA RespondHoldsBackup ==
    ASSUME RestoreTypeOK, BackupIsAllocatedOnce, BackupIsPast, NEW c \in Clients,
           RequestInv(c), ReadIsOfBackup(c), CopyInv(c), HoldsBackup(c),
           Respond(c), backup' = backup
    PROVE  HoldsBackup(c)'
<1> DEFINE u == UserOf[c]
           last == cursor'[c]
           value(r) == IF backup.row[r].deleted THEN 0 ELSE backup.row[r].seq
<1>1. FeedTypeOK
  BY DEF RestoreTypeOK
<1>2. /\ u \in Users /\ purged[u] \in Nat
      /\ cursor[c] \in Nat /\ horizon[c] \in Nat
      /\ backup.counter[u] \in Nat /\ backup.purged[u] \in Nat
      /\ \A r \in Rows : replica[c][r] \in Nat
      /\ \A g \in got[c] : g.id \in Rows /\ g.seq \in Nat
      /\ \A r \in Rows : InBackup(u, r) => backup.row[r].seq \in Nat
  BY <1>1, ClientTypes, BackupTypes
<1>3. /\ pc[c] = "reading" /\ table[c] > 1 /\ \A r \in Rows : TableOf[r] < table[c]
      /\ purged' = purged /\ last \in Nat /\ cursor[c] <= last
  BY <1>1, RespondFacts
<1>4. ASSUME NEW r \in Rows
      PROVE  /\ \A g \in got[c] : g.id = r /\ g.seq <= last =>
                   replica'[c][r] = IF g.deleted THEN 0 ELSE g.seq
             /\ (\A g \in got[c] : g.id = r => g.seq > last)
                   => replica'[c][r] = replica[c][r]
  BY <1>1, RespondFacts
<1>5. limit' = limit
  BY DEF Respond
<1> SUFFICES ASSUME overtaken'[c] = {}, limit[c] = 0,
                    last <= backup.counter[u], purged[u] <= last,
                    NEW r \in Rows
             PROVE  IF InBackup(u, r)
                    THEN backup.row[r].seq <= last => replica'[c][r] = value(r)
                    ELSE replica'[c][r] = 0
  BY <1>3, <1>5 DEF HoldsBackup, InBackup
<1>6. /\ overtaken[c] = {} /\ last <= horizon[c]
      /\ ~(0 < cursor[c] /\ cursor[c] < purged[u] /\ purged[u] <= last)
      /\ \A g \in got[c] : g.seq <= last /\ cursor[c] < g.seq
  BY <1>1, <1>3, RespondFacts DEF RequestInv, ReadIsNew
\* What the request has read of the backup.
<1>7. /\ /\ InBackup(u, r)
         /\ cursor[c] < backup.row[r].seq
         /\ backup.row[r].seq <= horizon[c]
         => \/ [id |-> r, seq |-> backup.row[r].seq,
                deleted |-> backup.row[r].deleted] \in got[c]
            \/ backup.row[r].deleted /\ backup.row[r].seq <= purged[u]
      /\ \A g \in got[c] : g.id = r =>
            IF InBackup(u, r)
            THEN \/ backup.row[r].seq = g.seq /\ backup.row[r].deleted = g.deleted
                 \/ backup.row[r].seq > horizon[c]
            ELSE g.deleted \/ backup.purged[u] > horizon[c]
  <2>1. /\ \A g \in got[c] : g.seq <= backup.counter[u] /\ g.seq <= horizon[c]
        /\ purged[u] <= backup.counter[u]
    BY <1>2, <1>3, <1>6
  <2> QED
    BY <1>3, <2>1 DEF ReadIsOfBackup
\* What the client held of it before.
<1>8. IF InBackup(u, r)
      THEN backup.row[r].seq <= cursor[c] => replica[c][r] = value(r)
      ELSE replica[c][r] = 0
  <2>1. CASE cursor[c] = 0
    <3>1. replica[c][r] = 0
      BY <1>2, <2>1 DEF CopyInv, FromHere
    <3>2. InBackup(u, r) => ~(backup.row[r].seq <= cursor[c])
      BY <1>2, <2>1, BackupNumbers
    <3> QED
      BY <3>1, <3>2
  <2>2. CASE cursor[c] # 0
    <3>1. purged[u] <= cursor[c] /\ cursor[c] <= backup.counter[u]
      BY <1>2, <1>3, <1>6, <2>2
    <3> QED
      BY <1>6, <3>1 DEF HoldsBackup
  <2> QED
    BY <2>1, <2>2
<1>9. ASSUME InBackup(u, r), backup.row[r].seq <= last
      PROVE  replica'[c][r] = value(r)
  <2>1. CASE \E g \in got[c] : g.id = r
    <3>1. PICK g \in got[c] : g.id = r
      BY <2>1
    <3>2. backup.row[r].seq = g.seq /\ backup.row[r].deleted = g.deleted
      BY <1>2, <1>3, <1>6, <1>7, <1>9, <3>1
    <3> QED
      BY <1>4, <1>6, <3>1, <3>2
  <2>2. CASE \A g \in got[c] : g.id # r
    <3>1. replica'[c][r] = replica[c][r]
      BY <1>4, <2>2
    <3>2. CASE backup.row[r].seq <= cursor[c]
      BY <1>8, <1>9, <3>1, <3>2
    \* A tombstone that was purged before this first request could read it.
    <3>3. CASE cursor[c] < backup.row[r].seq
      <4>1. backup.row[r].deleted /\ backup.row[r].seq <= purged[u]
        BY <1>2, <1>3, <1>6, <1>7, <1>9, <2>2, <3>3
      <4>2. cursor[c] = 0
        BY <1>2, <1>3, <1>6, <1>9, <3>3, <4>1
      <4>3. replica[c][r] = 0
        BY <1>2, <4>2 DEF CopyInv, FromHere
      <4> QED
        BY <3>1, <4>1, <4>3
    <3> QED
      BY <1>2, <1>9, <3>2, <3>3
  <2> QED
    BY <2>1, <2>2
<1>10. ASSUME ~InBackup(u, r)
       PROVE  replica'[c][r] = 0
  <2>1. backup.purged[u] <= purged[u]
    BY <1>2 DEF BackupIsPast
  <2>2. CASE \E g \in got[c] : g.id = r
    BY <1>2, <1>3, <1>4, <1>6, <1>7, <1>10, <2>1, <2>2
  <2>3. CASE \A g \in got[c] : g.id # r
    BY <1>4, <1>8, <1>10, <2>3
  <2> QED
    BY <2>2, <2>3
<1> QED
  BY <1>9, <1>10

\* A client that is refused holds nothing, and has no cursor to hold it up to.
LEMMA GoneHoldsBackup ==
    ASSUME RestoreTypeOK, BackupIsAllocatedOnce, NEW c \in Clients, Gone(c),
           backup' = backup
    PROVE  HoldsBackup(c)'
<1>1. cursor'[c] = 0 /\ \A r \in Rows : replica'[c][r] = 0
  BY DEF Gone, RestoreTypeOK, FeedTypeOK
<1>2. UserOf[c] \in Users
  BY ClientTypes DEF RestoreTypeOK
<1>3. \A r \in Rows : InBackup(UserOf[c], r) => ~(backup.row[r].seq <= 0)
  BY <1>2, BackupNumbers, BackupTypes
<1> QED
  BY <1>1, <1>3 DEF HoldsBackup, InBackup

\* The feed never changes the page size a client asks for.
LEMMA LimitsStay == ASSUME FeedNext PROVE limit' = limit
BY DEF FeedNext, Write, TimePasses, Purge, ClientStep, Request, CheckWatermark,
       CheckLatest, Gone, Proceed, ReadTable, Respond, Fail, clientVars

\* Every step of the feed keeps what a client holds of the backup.
LEMMA HoldsStays ==
    ASSUME RestoreTypeOK, SeqsAreAllocatedOnce, BackupIsAllocatedOnce, BackupIsPast,
           FeedStep, NEW c \in Clients,
           RequestInv(c), ReadIsOfBackup(c), CopyInv(c), HoldsBackup(c)
    PROVE  HoldsBackup(c)'
<1> DEFINE u == UserOf[c]
<1>1. FeedTypeOK /\ FeedTypeOK' /\ backup' = backup /\ limit' = limit
  BY FeedTypeStep, LimitsStay DEF FeedStep, RestoreTypeOK
<1>2. /\ u \in Users /\ purged[u] \in Nat /\ purged'[u] \in Nat /\ cursor[c] \in Nat
      /\ purged[u] <= purged'[u]
  <2>1. [LogNext]_logVars /\ LogTypeOK /\ LogTypeOK' /\ u \in Users /\ cursor[c] \in Nat
    BY <1>1, FeedStepIsLogStep, ClientTypes DEF FeedStep, FeedTypeOK
  <2> QED
    BY <2>1, LogStepFacts, MaxSeqAssumption DEF LogTypeOK
<1>3. CASE /\ cursor'[c] = cursor[c] /\ replica'[c] = replica[c]
           /\ overtaken'[c] = overtaken[c]
  BY <1>1, <1>2, <1>3 DEF HoldsBackup, InBackup
<1>4. CASE Gone(c)
  BY <1>1, <1>4, GoneHoldsBackup
<1>5. CASE Respond(c)
  BY <1>1, <1>5, RespondHoldsBackup
<1> QED
  BY <1>1, <1>3, <1>4, <1>5, ClientMoves DEF FeedStep

\* Only a refusal takes a cursor back to 0.
LEMMA OnlyGoneStartsOver ==
    ASSUME FeedTypeOK, FeedNext, NEW c \in Clients, RequestInv(c),
           cursor[c] # 0, cursor'[c] = 0
    PROVE  Gone(c)
<1>1. CASE Respond(c)
  BY <1>1, RespondFacts, ClientTypes
<1> QED
  BY <1>1, ClientMoves

-----------------------------------------------------------------------------
(* The steps of RestoreSpec.                                               *)

\* The feed goes on.
LEMMA FeedStepKeepsRestoreInv ==
    ASSUME RestoreTypeOK, RestoreInv, FeedStep
    PROVE  RestoreInv'
<1>1. /\ FeedTypeOK /\ FeedTypeOK' /\ LogTypeOK /\ [FeedNext]_feedVars
      /\ [LogNext]_logVars /\ backup' = backup /\ FeedNext
      /\ foreign \subseteq Clients
      /\ foreign' = {c \in foreign : cursor'[c] # 0}
  BY FeedTypeStep, FeedStepIsLogStep DEF FeedStep, RestoreTypeOK, FeedTypeOK
<1>2. SeqsAreAllocatedOnce' /\ BackupIsAllocatedOnce' /\ BackupIsPast'
  BY <1>1, AllocationStep, BackupStaysPast DEF RestoreInv, BackupIsAllocatedOnce
<1>3. ASSUME NEW c \in Clients
      PROVE  RequestInv(c)' /\ ReadIsOfBackup(c)'
  BY <1>1, <1>3, ClientStepKeepsClient, ReadStaysOfBackup DEF RestoreInv
<1>4. ASSUME NEW c \in Clients \ foreign'
      PROVE  CopyInv(c)' /\ HoldsBackup(c)'
  <2>1. CASE c \notin foreign
    BY <1>1, <1>4, <2>1, ClientStepKeepsClient, HoldsStays DEF RestoreInv
  <2>2. CASE c \in foreign
    <3>1. Gone(c)
      BY <1>1, <1>4, <2>2, OnlyGoneStartsOver DEF RestoreInv
    <3> QED
      BY <1>1, <3>1, GoneKeepsClient, GoneHoldsBackup DEF RestoreInv
  <2> QED
    BY <2>1, <2>2
<1>5. \A c \in foreign' : cursor'[c] # 0
  BY <1>1
<1> QED
  BY <1>2, <1>3, <1>4, <1>5 DEF RestoreInv

\* A backup is taken.
LEMMA TakeBackupKeepsRestoreInv ==
    ASSUME RestoreTypeOK, RestoreInv, TakeBackup
    PROVE  RestoreInv'
<1>1. /\ backup' = Database /\ UNCHANGED feedVars /\ foreign' = foreign
      /\ row' = row /\ counter' = counter /\ purged' = purged /\ cursor' = cursor
  BY DEF TakeBackup, feedVars, logVars, clientVars
<1>2. SeqsAreAllocatedOnce' /\ BackupIsAllocatedOnce'
  BY <1>1 DEF RestoreInv, SeqsAreAllocatedOnce, BackupIsAllocatedOnce, Stored, Database
<1>3. BackupIsPast'
  BY <1>1, MaxSeqAssumption
     DEF BackupIsPast, Database, InBackup, StoredFor, Stored, RestoreTypeOK, FeedTypeOK,
         LogTypeOK
<1>4. ASSUME NEW c \in Clients, RequestInv(c)
      PROVE  RequestInv(c)' /\ (CopyInv(c) => CopyInv(c)')
  BY <1>1, <1>4, IdleStepKeepsClient DEF feedVars, reqVars, clientVars
<1>5. ASSUME NEW c \in Clients
      PROVE  RequestInv(c)' /\ ReadIsOfBackup(c)'
  BY <1>1, <1>4, ReadIsOfNewBackup DEF RestoreInv
<1>6. ASSUME NEW c \in Clients \ foreign
      PROVE  CopyInv(c)' /\ HoldsBackup(c)'
  BY <1>1, <1>4, HoldsNewBackup DEF RestoreInv
<1> QED
  BY <1>1, <1>2, <1>3, <1>5, <1>6 DEF RestoreInv

\* The database is put back: who is in place is complete there.
LEMMA RestoreKeepsRestoreInv ==
    ASSUME RestoreTypeOK, RestoreInv, RestoreBackup
    PROVE  RestoreInv'
<1>1. /\ row' = backup.row /\ counter' = backup.counter /\ purged' = backup.purged
      /\ backup' = backup
      /\ foreign' = foreign \union {c \in Clients : OutOfPlace(c)}
      /\ \A c \in Clients : pc'[c] = "idle"
      /\ got' = got /\ cursor' = cursor /\ limit' = limit /\ replica' = replica
      /\ overtaken' = overtaken
  BY DEF RestoreBackup, clientVars
<1>2. SeqsAreAllocatedOnce' /\ BackupIsAllocatedOnce'
  BY <1>1 DEF RestoreInv, SeqsAreAllocatedOnce, BackupIsAllocatedOnce, Stored
<1>3. BackupIsPast'
  BY <1>1, BackupTypes DEF BackupIsPast, InBackup, StoredFor, Stored
<1>4. ASSUME NEW c \in Clients
      PROVE  RequestInv(c)' /\ ReadIsOfBackup(c)'
  BY <1>1, <1>4
     DEF RestoreInv, RequestInv, ReadStartsEmpty, ReadIsNew, ReadIsOrdered,
         ReadIsCurrent, ReadIsOfBackup
<1>5. ASSUME NEW c \in Clients \ foreign'
      PROVE  CopyInv(c)' /\ HoldsBackup(c)'
  <2> DEFINE u == UserOf[c]
  <2>1. c \notin foreign /\ ~OutOfPlace(c) /\ CopyInv(c) /\ HoldsBackup(c)
    BY <1>1, <1>5 DEF RestoreInv
  <2>2. /\ u \in Users /\ cursor[c] \in Nat /\ limit[c] \in Nat
        /\ purged[u] \in Nat /\ backup.counter[u] \in Nat
        /\ \A r \in Rows : replica[c][r] \in Nat
    BY ClientTypes, BackupTypes, FeedAssumption DEF RestoreTypeOK, FeedTypeOK
  <2>3. \A r \in Rows : replica[c][r] <= cursor[c]
    BY <2>1 DEF CopyInv, FromHere
  <2>4. ASSUME cursor[c] # 0
        PROVE  /\ cursor[c] <= backup.counter[u]
               /\ purged[u] <= cursor[c] /\ limit[c] = 0
    BY <2>1, <2>2, <2>4 DEF OutOfPlace
  <2>5. FromHere(c)'
    BY <1>1, <2>2, <2>3, <2>4 DEF FromHere
  <2>6. ASSUME overtaken[c] = {}, NEW r \in Rows
        PROVE  IF InBackup(u, r)
               THEN backup.row[r].seq <= cursor[c] =>
                       replica[c][r] = IF backup.row[r].deleted
                                       THEN 0 ELSE backup.row[r].seq
               ELSE replica[c][r] = 0
    <3>1. CASE cursor[c] = 0
      <4>1. replica[c][r] = 0
        BY <2>2, <2>3, <3>1
      <4>2. InBackup(u, r) => ~(backup.row[r].seq <= cursor[c])
        BY <2>2, <3>1, BackupNumbers, BackupTypes DEF RestoreInv
      <4> QED
        BY <4>1, <4>2
    <3>2. CASE cursor[c] # 0
      BY <2>1, <2>4, <2>6, <3>2 DEF HoldsBackup
    <3> QED
      BY <3>1, <3>2
  <2>7. overtaken[c] = {} => Complete(c)'
    BY <1>1, <2>6 DEF Complete, InBackup, StoredFor, Stored
  <2>8. HoldsBackup(c)'
    BY <1>1, <2>6 DEF HoldsBackup, InBackup
  <2> QED
    BY <1>1, <2>5, <2>7, <2>8 DEF CopyInv
<1>6. \A c \in foreign' : cursor'[c] # 0
  BY <1>1 DEF RestoreInv, OutOfPlace, RestoreTypeOK, FeedTypeOK
<1> QED
  BY <1>2, <1>3, <1>4, <1>5, <1>6 DEF RestoreInv

\* In every state of a server that may be restored the numbers are allocated once,
\* and what was read and copied agrees with the database and with the backup.
LEMMA RestoreInvariant == RestoreSpec => []RestoreInv
<1>1. RestoreInit => RestoreInv
  BY FeedAssumption
     DEF RestoreInit, FeedInit, LogInit, RestoreInv, SeqsAreAllocatedOnce,
         BackupIsAllocatedOnce, BackupIsPast, Database, InBackup, RequestInv,
         ReadStartsEmpty, ReadIsNew, ReadIsOrdered, ReadIsCurrent, ReadIsOfBackup,
         CopyInv, FromHere, Complete, HoldsBackup, StoredFor, Stored
<1>2. RestoreTypeOK /\ RestoreInv /\ [RestoreNext]_restoreVars => RestoreInv'
  <2> SUFFICES ASSUME RestoreTypeOK, RestoreInv, [RestoreNext]_restoreVars
               PROVE  RestoreInv'
    OBVIOUS
  <2>1. CASE UNCHANGED restoreVars
    BY <2>1
       DEF restoreVars, feedVars, logVars, reqVars, clientVars, RestoreInv,
           SeqsAreAllocatedOnce, BackupIsAllocatedOnce, BackupIsPast, InBackup,
           RequestInv, ReadStartsEmpty, ReadIsNew, ReadIsOrdered, ReadIsCurrent,
           ReadIsOfBackup, CopyInv, FromHere, Complete, HoldsBackup, StoredFor, Stored
  <2> QED
    BY <2>1, FeedStepKeepsRestoreInv, TakeBackupKeepsRestoreInv, RestoreKeepsRestoreInv
       DEF RestoreNext
<1> QED
  BY <1>1, <1>2, RestoreTypeCorrect, PTL DEF RestoreSpec

\* Whatever is backed up and restored, and how often, a client that was not out of
\* place at a restore, or has started over since, is complete unless a response of
\* its was overtaken.
THEOREM OthersStayComplete == RestoreSpec => []OthersAreComplete
<1>1. RestoreInv => OthersAreComplete
  BY DEF RestoreInv, CopyInv, OthersAreComplete
<1> QED
  BY <1>1, RestoreInvariant, PTL

\* A restored counter gives numbers out again, but never to two rows that are there
\* at once: the sort of a response is a total order after a restore as well.
THEOREM RestoredNumbersAreUnique ==
    RestoreSpec => [](SeqsAreAllocatedOnce /\ ResponsesAreOrdered)
<1>1. RestoreInv => SeqsAreAllocatedOnce /\ ResponsesAreOrdered
  BY DEF RestoreInv, RequestInv, ReadIsOrdered, ResponsesAreOrdered
<1> QED
  BY <1>1, RestoreInvariant, PTL

=============================================================================

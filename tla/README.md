# A TLA+ model of logday-server

logday-server keeps a person's tasks, notes, overtime, calendar, absences and
diary for several offline-first devices. It is one Go process over one SQLite
file. Its core is a synchronisation protocol: every write of a user gets the
next number of the user's counter (`seq`), and a device asks `GET
/sync/changes?since=<seq>` for what it has not seen. This directory models that
protocol, the stores that feed it, the WebSocket notices that drive it, and the
sessions, accounts and settings around it, checks them with TLC and proves the
central results with TLAPS.

Source paths below are relative to the repository's root.

## The system

| Component | State | Operations | Correct when |
|---|---|---|---|
| seq counters and purge (`internal/db/seq.go`, `purge.go`) | `user_sync_counters`: `next_seq`, `purged_before_seq` | `NextSeq` inside every write, `PurgeTombstones`, `LatestSeq`, `PurgedBeforeSeq` | no number is used twice; nothing disappears without a trace |
| seven stores (`internal/task`, `note`, `overtime` with entries and months, `calendar`, `absence`, `dailyentry`) | a table each: owner, `seq`, `updated_at`, `deleted_at`, `field_updated_at`, `content_crdt` | POST, PATCH, DELETE, PUT or POST of content, `ChangesSince` | each row stays with its owner; a field has its newest PATCH; merged text is kept; every change is visible to the feed |
| per-field timestamps and CRDT text (`internal/db/fieldts.go`, `internal/crdt`) | columns of the rows | `Wins`, `ApplyTextUpdate` | the newest edit wins in whatever order they arrive; of a tie, the first to arrive |
| sync feed (`internal/sync`) | none; a request in progress | `changesSince`, the handler's 410 | a device that follows it has what its cursor promises, and reaches the end |
| realtime (`internal/realtime`) | the hub's connections; per connection a buffer, `done` and two goroutines | `register`, `unregister`, `Notify`, `writeLoop`, `readLoop` | a device that listens hears of every write or loses its connection; nothing blocks a handler |
| purge job (`cmd/server/main.go`) | none | a purge at start and once a day | safe at any moment |
| authentication and devices (`internal/auth`) | `devices`, `used_refresh_tokens`; the browser's cookie | login, refresh, logout, revoke | a device is one chain of tokens; a logout ends its session; a retry does not cost the session |
| accounts (`internal/auth`) | `users`, `devices`, the rows of the domain | setup, bootstrap, create, promote, demote, deactivate, restore, reset, delete the account, accept the policy | an instance keeps an admin; what was revoked or erased stays so; the device limit holds |
| settings (`internal/settings`, the panel's form) | `instance_settings`, one row | draw, check, write back | a form changes what was edited; consent is to the text that was read |
| login rate limiter (`internal/auth/ratelimit.go`) | attempts per key, in memory | `Allow`, `RecordFailure`, `Reset` | between two right passwords, the failures within a window are bounded |
| panel pages, HTTP headers, migrations, web app | none that the protocol sees | rendering, headers, schema | not a subject of this model |

How they interact: an HTTP handler calls one store, whose transaction takes a
number from the counter and commits the row; then the handler calls
`Hub.Notify`, which puts a notice into the buffer of each of the user's
connections. A notified device pulls the feed, which reads the counter, the
watermark and the seven tables. The purge removes old tombstones behind all of
them and leaves its watermark. Transactions are `BEGIN IMMEDIATE`
(`internal/db/db.go:33`), so two writes never overlap; everything else does.
A request of a device is authenticated against `devices`, one of the panel against
`users`, and then runs its own statements: what was checked may have changed when
it writes. The limiter and the stores read the settings at every use, while the
panel's forms draw, check and write them back in three requests or statements.

What is hard here: the feed reads nine times without a transaction; a purge may
come between its check and its reads; pages, 410s and full resyncs make one
protocol; devices have their own clocks and write in any order; notices are
dropped, overtaken and lost with their connection; a database can be put back to
a backup; tabs of one browser refresh the same token at once and answers change
their common cookie in any order; users are deactivated, reset and erased while
their logins and writes are under way; two forms with the same settings are open
at once. PROJECT.json lists these hazards line by line, with the property that
would catch each of them, or the reason why there is none.

## The modules

| Module | What it is |
|---|---|
| `ChangeLog` | The abstract specification: what every write and the purge promise to the feed. A row is owner, number and deleted or not. `Commit` is a write transaction, `PurgeTombstones` the purge. |
| `SyncFeed` | Extends it with `GET /sync/changes`, one step per read, and the clients of the feed. |
| `SyncRestore` | `SyncFeed` on a server whose database is backed up and put back to a backup. |
| `DomainStore` | The write transactions of the seven stores with all the columns that decide them, and the purge. Implements `ChangeLog`. |
| `Realtime` | The hub, the connections and their goroutines, and the handlers that commit and then notify. |
| `Sessions` | Login over an old cookie, refresh and logout, statement by statement, and a browser with a cookie jar. |
| `Accounts` | The first admin, the panel's operations on users, login with the device limit, a device's writes and the deletion of an account. |
| `Settings` | The settings' row, the forms of the panel, and users who read and accept the policy. |
| `LoginLimiter` | Extends it with the limiter of failed logins, whose limit is a setting. |
| `ChangeLogProofs`, `SyncFeedProofs`, `DomainStoreProofs`, `DomainStoreMergeProofs`, `RealtimeProofs`, `SessionsProofs`, `AccountsProofs`, `SettingsProofs` | The theorems. |
| `MC*` | Values of the constants for TLC; the `.cfg` files choose among them. |

How they fit: `DomainStore` is shown to implement `ChangeLog` (a refinement
mapping that forgets the columns the feed does not read), and `SyncFeed` is built
on `ChangeLog`. So what is shown of the feed on abstract rows holds on the rows
the stores write, and the seven tables and their endpoints need not be
explored together with the nine reads of every request. `Sessions` and `Accounts`
share the table `devices`: in `Accounts` a device is a row that login adds and
revocations remove, in `Sessions` what it holds and how it is renewed; a
revocation of `Accounts` is a `Revoke` there, and a session that `Sessions` ends
is a `RevokeDevice` here.

### Correspondence with the code

*`ChangeLog`*: `row[r]` is the row with primary key `r`, in whatever table;
`counter[u]` is `next_seq` (0 before the first write, as `LatestSeq` has it),
`purged[u]` is `purged_before_seq`.

*`SyncFeed`*: `pc[c]`, `table[c]` and `got[c]` are the program counter of
`changesSince` and its `changes`. `CheckWatermark`, `CheckLatest` and one
`ReadTable` per table are separate steps; `Write` and `Purge` commit between any
two. `Respond` sorts, cuts at `limit` and is what the client does with the
answer: it applies the changes and its cursor becomes the highest number it got.
`Gone` is the 410: the client drops cursor and copy. `Fail` is a request
without an answer. A client has one request under way and always asks for the
same page size. The copy a client has of a row is represented by the number of
the version it has, as two versions never share one (which `SeqsAreAllocatedOnce`
proves). `TimePasses` makes the present tombstones old enough to be purged; it is
only taken while no request is under way, as the retention is counted in days
(at least one: `internal/auth/panel_handlers.go:635`). `horizon` and `overtaken`
are history variables: they remember whether a response that the client used
reached past a write, or a purge, that the request had missed.

*`SyncRestore`*: the operator's `TakeBackup` and `RestoreBackup` copy the database
(`row`, `counter`, `purged`, and the age of the tombstones); the server is stopped for a
restore, so the requests under way fail. The checks of `changesSince` are the
feed's own. `foreign` is history: the clients that `OutOfPlace` held for at a
restore and that have not started over since.

*`DomainStore`*: one action per endpoint and store. What a POST or PATCH writes
into a field is an edit: the time the client says it was made at, and a value, so
that two edits of one moment are two. Text is the set of updates merged into it. The clients' clocks are free (`t \in Time`), the server's
is `now`. The shapes the stores share (`Upsert`, `Patch`, `SoftDelete`) are
operators; what differs is in the actions: a month is created by PATCH, a note's
content keeps `deleted_at` and a diary entry's clears it. A request the store
turns down (403, 404, 409) writes nothing. `born` (the edit a row was created
with), `reposted` (the rows POSTed again) and `offered` (the newest edits PATCHed to
each field) are history variables for `NewestPatchWins` and `OnlyNewerPatchesCount`.

*`Realtime`*: one user, since topics are per user and share nothing. `Commit` and
`Notify` are two steps of a handler, the copy of the hub's clients and each
`c.notify` further ones. A socket that the peer left without a word is `silent`:
writes to it may succeed for a while. `Pull` stands for a whole pull of the feed.

*`Sessions`*: one user and one browser. `req[r].pc` is the statement the handler
in `r` is about to run, `dev`, `from`, `until` and `tries` are its local variables
(the device it read, the hash and the expiry it read with it, the attempts of
`rotateRefreshToken`). `Rotate` is the transaction: the compare-and-swap on
`refresh_token_hash`, the insert into `used_refresh_tokens` and the removal of old
rows of it. A request carries what is in the jar when it is sent; `Grant` and
`Clear` are the answers, which come in later and in any order. `Abort` is a tab
that is reloaded or a connection that breaks, `QueryFails` a statement that does
not succeed: the handlers take a lookup that failed for one that found nothing and
do not look at the error of a delete, and so does the action. Tokens are random in
the code and never repeat; the model numbers them as they become a device's.
A logout without a cookie touches no session, but its answer clears the cookie
like any other. `Tick` is the clock of the leeway, of the expiry and of the memory
for used tokens. `owner`, `cause`, `missed`, `disturbed` and the `failed` of a request
are history. `missed` says that an answer with a new token was lost or overtaken, so
that the browser goes on with an old one; that alone is no disturbance, the leeway
is there for it. It becomes one when a refresh is sent with a token that is `Stale`:
replaced more than `Leeway - Prompt` ago, so that even a prompt request may come
too late. `failed` says that a statement of this very request did not succeed.

*`Accounts`*: a request is authorised in one step (`Send`) and writes in
another. Operations under the last-admin guard, and setup, take the write lock
in `Begin`, where they check, and commit in an action of their own; other writes
are one statement and wait for the lock. Reads never wait, so a login may read
the user while a transaction is open. Whoever once was an admin may still have a
cookie, so `PanelRequest` does not ask who sends it, only that there is an admin
the check can succeed for. `POST /admin/users` of the API, which trusts the
access token, adds nothing to the panel's `create` and shares its action.
`Crash` ends every request and rolls back; `Boot` is the bootstrap of the next
start. `data` is the set of users with rows in any table of the domain, which no
foreign key ties to `users`. `password[u]` counts resets: a device knows the one
it logged in with. `overtaken` and `late` are history: they mark a login or a
write that a revocation or an erasure passed.

*`Settings`*: the first policy and its version are what migration 00019 writes. `Open`
draws a form from the row, `Submit` is
`panelUpdateSettings` up to `settings.Update` (the check reads the row again, or
is skipped if that fails), `Save` is the update, which writes every column. Of
the columns the model keeps the policy, its version and the login limit; the
others are checked and written the same way. A browser sends a textarea with
`\r\n`, the row has `\n`: `Typed` and `Normalised` are what the comparison of
texts depends on. The version a form may carry is any up to one above the
highest allowed. `page` and `accepted` are what a user has fetched and accepted;
the text in `accepted` is history, the database has the version only.

*`LoginLimiter`*: one key. An attempt is represented by its age, and ages beyond
the window are alike. `prune` keeps the recent ones; they are recorded in the order of
their times, under the mutex, so those are the rest of the list after the `Old`
ones (the proofs show that nothing else is kept or dropped). `Allow` reads the limit and then takes the mutex; that is one
step, as a limit that changes in between was in force when the attempt began.
`failed` is history: the logins that failed within the window since a right password,
however `Allow` and `prune` remember them. A right password empties both
(`internal/auth/handlers.go:121`), so the bound holds between two of them, not over
them. The window itself is a constant here.

## The runs

| Run | Question | Result |
|---|---|---|
| `feed_safety` | Does a client that follows the feed have what its cursor promises? | Yes, unless it used an overtaken response |
| `feed_skips` | And with those? | No: a change can be skipped |
| `feed_paged_resync` | Does a client that takes pages reach the end? | Not after a purge |
| `restore_live` | Do clients reach the end once writes stop, also after a restore, and whom can a restore mislead? | Yes, but for the previous case; clients out of place only |
| `restore_catches_up` | Is every client of a restored database resynced? | No: the counter may catch up first |
| `store_tables` | Is every endpoint of every store a commit of the log, for two users on the same ids? | Yes |
| `store_merge` | Has a field its newest PATCH in whatever order they arrive, does one that is no newer change nothing, is text kept? | Yes; of a tie the first to arrive stays |
| `store_posts_stay_in_order` | Is an older POST always refused? | Not after a content update |
| `realtime` | Does a listening device hear of every write, are dead connections freed, does Notify end? | Yes |
| `sessions` | Is a device one chain of tokens, does a logout end its session, is a retry ever taken for theft, is a good cookie ever dropped? | Yes; yes, unless a statement of that logout failed; only after a named disturbance; only by the answer to another token or to a request a statement of which failed |
| `accounts` | Does an admin remain, is there one first admin, what outlives a revocation or an erasure, is the device limit kept? | Yes; yes; only what was under way; up to the logins that overlap |
| `settings` | Is consent to the text that was read, do forms change only what was edited, are failed logins bounded between two right passwords? | Yes, but for three named cases; yes, unless forms overlap; yes |

The four runs that end in a violation each check one sentence of a comment or a
document of the repository; PROJECT.json quotes it and the lines of the code that
do otherwise. The findings in short:

* A response whose tables were read around two writes ends past a change it does
  not contain; the client's cursor then hides that change until the row is
  written again. `CompleteUnlessOvertaken` says that this, and a purge between
  the check and the reads, are the only ways to become incomplete.
* A full sync taken in pages has a first page that may end below the watermark.
  The second request is refused, the client starts over, for ever. A full sync
  without pages has a milder form of it: if its last row is numbered below the
  watermark, the next request is refused too, and the one after that. (The client
  has everything by then; it only fetches it again each time.)
* The 410 for a cursor ahead of the counter only protects clients that come back
  before the restored counter has passed their cursor. `OthersAreComplete` says
  whom a restore can mislead at all: besides these, a client behind a watermark that
  the restore takes back (it was due a 410 and gets none), and one that takes pages
  (it may be past a row's old number without having come to the new one). Both
  have cursors the restored counter covers. Leaving any of the three out of
  `OutOfPlace` makes `OthersAreComplete` fail in the instance of `restore_live`.
* A content update sets the note's `updated_at` to whatever the client says, so
  the last-write-wins check of a later POST compares with an older time.

Seen while reading and not given a run: a POST does not touch
`field_updated_at`, so a PATCH older than the POST may win over it
(`NewestPatchWins` speaks of rows POSTed once for that reason). Two PATCHes of one
field with the same `updated_at` do not commute: the comment of `Wins` says that
ties win (`internal/db/fieldts.go:42-44`), the code (`:48`) and its test
(`internal/db/fieldts_test.go:16`) refuse them, so devices that send them in another
order leave another value; `NewestPatchWins` allows either, and
`OnlyNewerPatchesCount` says what the code does, that the first to arrive stays.
After a PATCH or DELETE `updated_at` is
the server's time, and a POST of a device whose clock is behind is refused as
stale. A write whose reload fails after the commit is not announced
(`internal/note/store.go:156`, against `internal/realtime/hub.go:38`), and a
write before the registration of a socket is not announced to it, so a device
has to pull once after it is connected (`openapi.yaml:34-40`); `Realtime` has
both, and its properties exempt them. A refresh that loses the compare-and-swap
goes on from the winner's token, as `specs/sesion-cookie/design.md:75` says,
where the comment at `internal/auth/store.go:20` still lets the handler revoke
the device. An error of the database at refresh counts as a token that was not
found (`internal/auth/handlers.go:235`). Logins that overlap may exceed the
device limit, a login under way survives a deactivation or a reset, and a write
authenticated before its account was erased leaves a row of nobody and a new
counter (`internal/auth/store.go:750`). The policy's version may be lowered as
long as the text stays (`internal/auth/panel_handlers.go:626`), and two
submissions that overlap pass the check of the version with different texts:
either may leave a user with consent to a version whose text they never saw.
Each of these is a state of the models.

Not every hazard is excluded by a property. Some happen in the code as it is, and
then the histories `overtaken`, `late`, `lapsed`, `behind`, `failed` and `disturbed`
mark them: what the properties show is that nothing *else* has the same effect. So a
login under way that survives a revocation, a write that survives an erasure, a
stale or unchecked submission of the policy, two forms that overwrite each other, a
refresh whose lookup fails and a query of a logout that fails are reached by the
models and caught by no property; PROJECT.json lists them with no property and
says so. Nor is the overlap of two write transactions represented: `BEGIN IMMEDIATE`
excludes it, and each is one step.

### Bounds

* `feed_safety`: two users, two rows, two tables, one client, four writes, one
  failure, with and without pages of one. Clients do not touch shared state, so
  one is as good as many. Two tables give a before and an after of every write;
  four writes fill both rows, delete one and restore it or write over it while a
  second page is read.
* `feed_skips`, `feed_paged_resync`, `restore_catches_up`, `restore_live`: the
  same with one user and three or four writes, and a single restore
  (`MaxRestores`) of the last of any number of backups. Three writes and a purge
  bring about each way of being out of place.
* `store_tables`: all seven tables with a row each, two users, two writes,
  clocks up to two, tombstones due at the next tick (`Retention` counts ticks):
  enough for each pair of endpoints by the same or by different users, and a
  purge; values are not told apart there. `store_merge`: a note and a month, two
  fields, two values, two updates, four writes, clocks up to two, tombstones due at
  the next tick: enough for an older, a newer and an equal edit of a field to meet in
  every order, around a deletion, a purge and a fresh row.
* `realtime`: one connection, a buffer of one, four writes; the second notice
  overflows the buffer, as the seventeenth does in the code. `NoLostWakeup` is
  proved for any number of connections.
* `sessions`: two tabs, two devices, three tokens, a leeway of two ticks, a
  lifetime of three, used tokens kept no longer, two attempts (five in the
  code), four ticks and one failure: enough for two refreshes of one token with
  both answers in either order, for a login over a session that is being
  refreshed, for a lost compare-and-swap, an expiry and a token that is
  forgotten.
* `accounts`: two users, two requests, three devices, a limit of one, one reset.
  Two admins are the least that can remove each other; two logins exceed the
  limit by one.
* `settings`: two forms, a user, two texts, two versions, limits up to two with
  a fallback of one, two logins, a window of two ticks: enough for a text and a
  version that come back, and for a limit that is lowered under a login.

`MaxSeq`, `MaxTime`, `MaxFailures`, `MaxRestores`, `MaxTokens`, `MaxDevices`,
`MaxUsers`, `MaxResets`, `MaxVersion` and the set `Devices` of `Accounts` are the
only bounds on behaviour (`MaxVersion` and `MaxAttempts` exist in the code as well,
as a million and a hundred). The store runs stop when they are reached and do
not check for deadlock, all others do. A request that would go past a bound is
answered without effect, so that no handler is stuck because of one. Tabs,
requests, rows of devices, forms, logins, and the fields, values and updates of
`store_merge` are alike, and TLC takes them as symmetric.

### Fairness

`FairFeedSpec`: a client's next step (ask, check, read, take the answer) is taken
if it stays possible: devices sync again and again, and a server that took a
request goes on with it. There is no fairness for writes, the purge, time, or
failures. `Realtime!FairSpec`: goroutines that can run do (the Go scheduler), a
ping is due every 30 seconds on every connection (`client.go:15`), a device that
has a notice pulls. Nobody has to write, connect, close a socket or pull
unprompted, and the reload after a commit may fail each time. `Sessions`,
`Accounts`, `Settings` and `LoginLimiter` state no fairness: their properties are
about what has happened, and a request may stop anywhere.

## The proofs

Every theorem is for any users, rows, tables, clients, page sizes and bounds.

*`ChangeLogProofs`*. `LogTypeCorrect`; then `AllocationIsUnique`: that all numbers
of a user are at most the counter is what makes the next one new, so the property
is inductive as it stands. `ChangesAreVisible` uses it: a write's number is above
every one before.

*`SyncFeedProofs`*. `FeedTypeCorrect` and `FeedImplementsLog`: reads do not
touch the log, so the log's theorems hold under the feed.
`CompleteUnlessOvertaken` is not inductive: it speaks of cursors and copies, and
its truth after a response depends on what was read before. `FeedInv` adds, for
each request: what it has read is numbered above the cursor and at most the
counter (`ReadIsNew`, `FromHere`); a row or a number occurs once
(`ReadIsOrdered`); and for every row of the tables already read, its present
version is in `got`, or is newer than the `horizon`, or was purged since under a
watermark above the cursor (`ReadIsCurrent`). The last is the heart of the
proof: a response that ends at or below the horizon, and at or below no new
watermark, can only have read the current rows. `FeedInv` was first checked by
TLC on the instance of `feed_safety`. Completeness, the cursors, the order of
responses and that a response never takes a client back follow from it; the
log's own theorems carry over to the feed through `FeedImplementsLog`.

A restore is no step of the log, so nothing of this carries over to `SyncRestore` by
itself. `RestoreInv` keeps the requests' part of the invariant for every client,
the copies' part for the clients that are not `foreign`, and then says the same of
the backup: it is a past of the database (`BackupIsPast`: what was written since is
numbered above its counter, what was purged since left a watermark); what a request
has read agrees with it up to the horizon, as long as it has met nothing younger
(`ReadIsOfBackup`, the counterpart of `ReadIsCurrent`); and a client in place holds
what the backup has up to its cursor (`HoldsBackup`), though the rows themselves may
have been replaced or purged since. So when the database is put back, who is in
place is complete at once: `OthersStayComplete`, for any number of backups and
restores, with `RestoredNumbersAreUnique` beside it. `RestoreInv` was checked by TLC
with four writes and up to two restores.

*`DomainStoreProofs`*. `StoresImplementLog`: every endpoint ends in `Save` with a
record of the row's own user (`IsWrite`, one lemma per shape of write), and `Save`
is a `Commit`. Rows with a natural key are saved without looking at their owner:
that the row of a month or a date belongs to the user in its key is the
invariant `OwnKeys` that the induction needs. The same lemmas give `ContentIsKept`.

*`DomainStoreMergeProofs`*. `FieldsMerge` and `RetriesChangeNothing`: `NewestPatchWins`
is not inductive, as the next PATCH is decided by `field_at`, of which it says
nothing. `MergeInv` adds that `field_at` is the time of the newest edits offered to
each field, in every row, reposted or not, and that a row that is not there has no
history. So a PATCH that is no newer meets a `field_at` that is no older and loses,
which is `OnlyNewerPatchesCount`.

*`RealtimeProofs`*. `NoLostWakeup` needs that a connection without a signal has
nobody left to hear it: `Connections` says how a socket, its two goroutines,
`done` and the hub's map go together: from its registration until it is closed a
connection is in the hub and both its goroutines run. That is a theorem of its own,
`OpenConnectionsAreServed`. With it each step of `Notify` either puts a notice in a buffer
that will be written, finds the buffer full of older ones, or meets a connection
that is closing.

*`SessionsProofs`*. Every step leaves the database alone, starts a device with
its first token, replaces a device's token by a new one, or ends a device
(`DatabaseStep`). `OneChain` needs two more facts. A handler only ever replaces
a token that was once that device's, whatever happened since it read it
(`Knows`, which is why the compare-and-swap is enough); and a token that has an
owner is not above `issued` (`Numbered`), so a new one is new.

`SessionInv` follows each request through its statements. `LogoutEnds` is in it: a
token that was replaced never becomes current again (`ReplacedForGood`), so a logout
that did not find it as a device's token finds it among the used ones (`Follows`), or
it was forgotten and is not remembered again (`ForgottenForGood`). Only a statement
of that very request that fails breaks this, and `Follows` says it request by request.
`LiveCookiesAreKept` is the other side: a request none of whose statements failed and
that is on its way to drop the cookie has seen that its own token leads nowhere, so
the cookie it drops, if it is good, is another.

`SessionsSurviveRetries` says that nobody is taken for a thief without cause, and
its invariant has to say where each token of a chain is. As long as no answer is
`missed`, the jar has the device's token, or one whose replacement is under way
(`JarInv`). As long as nothing is `disturbed`, each used token was replaced by one
whose answer is under way, in a request not older than the replacement, or has come
in (`Recalls`); and a request that presents a used token is
still in time (`InTime`): it was sent at most `Leeway - Prompt` after the
replacement, and is prompt itself. If no answer was missed that is so because the
answer with the new token was prompt, which is where `2 * Prompt <= Leeway` is needed
and the only place where a constant matters; if one was, because the refresh was
not sent with a `Stale` token. The expiry a handler compares was read earlier,
so a lifetime that ends while requests are under way is a disturbance as well.
Which answers count as overtaken only shows with three tabs or more: when a later
token's answer has come in, whatever the jar has by then. The invariants were
checked by TLC on the instance of `sessions`, and with three tabs and six
tokens by simulation.

*`AccountsProofs`*. `RequestInv`: what a transaction checked in `Begin` still
holds when it commits (`Locked`), as nobody else writes while it has the lock.
`AdminsRemain` and `FirstAdminIsMadeOnce` follow, the second with
`FoundedFirst`: there is no user before the first admin. `RevokedIsRevoked` and
`ErasedIsErased` need that every login or write that knows less than the
database is marked (`Overtaken`), which is how the revocation finds those under
way. `DevicesAreLimited` counts with each user's devices the logins that have
counted them and are about to add one (`Pending`): the sum is at most the limit
and the other requests, because only a login whose count was below the limit
joins.

*`SettingsProofs`*. Consent (`ConsentInv`): as long as nothing lapsed, whatever
a user has read or accepted at the stored version is the stored text, and a form
that is checked and not behind either keeps the text or has a higher version, so
that `Save` keeps it so. Forms (`FormInv`): a form nothing was saved around
still holds the row but for the edit, in spite of the line ends. Both hold in
`LoginLimiter`, which only reads the settings.

The limiter (`LimiterInv` and `Remembered`): what failed within the window since the
last right password is the end of the list that is remembered, as `prune` takes away
nothing younger; so it is enough to bound that list. The failures remembered and the logins whose password is
being verified are together at most the highest limit and the logins but one: a
login that is let in found fewer failures than a limit, and each other login
adds one at most. `RecentIsWhatIsRecent` is the lemma about `prune`: ages are in
falling order, so what follows the old ones is what is recent.

Each of these inductive invariants was first checked by TLC on a small instance.

Assumptions: the named `ASSUME`s of the modules. They say that constants have
their types, that `NoRow` is not a row and `NoRequest` not a request, that ids
differ from natural keys, that a buffer holds something and a rotation is tried
at least once, that the leeway covers two prompt requests, and in `SyncFeed`,
`Accounts` and `LoginLimiter` that rows, requests, devices and logins are finite
sets.

Only model-checked: everything about liveness and fairness (and `ENABLED`), which
is out of the prover's reach: `ReachesTheEnd`, `CursorsAheadAreGivenUp`, and of
`Realtime` that subscribers catch up, broken connections are released and `Notify`
returns. Every invariant and action property that holds is a theorem.

## Not modelled

* `acceptSensitiveData` sets a timestamp on the user that no operation of the
  server depends on. The export of an account reads nine tables one after the
  other and promises no single state of them.
* The panel's pages, its signed cookie and form tokens keep no state on the server;
  the check of the cookie's user against the database is in `Accounts`.
* CORS and headers, hashing and JWT: stateless or cryptography.
* Migrations run once, before the server listens.
* The Yjs library is taken at its word that updates commute and are idempotent.
* A failure of SQLite or of the disk in the middle of a transaction is SQLite's
  atomic rollback, which the models take for granted.
* The web app is a prebuilt client; what it has to do is modelled from the API's
  description, as the clients of `SyncFeed`, the browser of `Sessions` and the
  device of `Realtime`.
* The limiter's window, the retention and the token's lifetime are settings as well,
  but constants of their modules: no change of them is modelled.

## Plan

Done: all components whose state the protocol or its users can see, and the
proofs above. What could follow: changes of the window, the retention and the lifetime while they are in use;
`Accounts` composed with `ChangeLog` to follow the numbers of a counter that an
erasure removed and a late write creates again.

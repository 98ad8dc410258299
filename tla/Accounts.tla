------------------------------ MODULE Accounts ------------------------------
(***************************************************************************)
(* The users of an instance (internal/auth): the first admin, from /setup  *)
(* or from the environment at start; the panel, which creates, promotes,   *)
(* demotes, deactivates, restores and resets; login, which gives a user a  *)
(* device; and the deletion of an account with all it owns.                *)
(*                                                                         *)
(* A request is authorised in one step and writes in a later one.  The     *)
(* operations that must not remove the last admin read and write in one    *)
(* transaction, which holds the database's only write lock                 *)
(* (internal/db/db.go); reads do not wait for it.                          *)
(***************************************************************************)
EXTENDS Integers, FiniteSets

CONSTANTS
    Requests, NoRequest,
    Devices,             \* as many as there may be at once: a bound
    MaxDevicesPerUser,   \* max_devices_per_user, 0 if there is no limit
    MaxUsers, MaxResets  \* bounds

ASSUME AccountsAssumption ==
    /\ IsFiniteSet(Requests) /\ IsFiniteSet(Devices) /\ NoRequest \notin Requests
    /\ {MaxDevicesPerUser, MaxResets} \subseteq Nat
    /\ MaxUsers \in Nat \ {0}

VARIABLES
    status,     \* deleted_at: a user deactivated is "deleted", one erased "gone"
    admin,      \* is_admin
    password,   \* password_hash: how often it was reset
    device,     \* the rows of devices, with what the device's login knew
    data,       \* the users with rows in the tables of the domain
    writer,     \* the request whose transaction holds the write lock
    req,        \* req[r]: the request in r
    serving,    \* the process listens
    founded,    \* history: how often a first admin was created
    late        \* history: users for whom a request wrote that had been
                \* authenticated before their account was erased

users == <<status, admin, password>>
vars == <<users, device, data, writer, req, serving, founded, late>>

Users == 1..MaxUsers     \* in the order of their creation; ids are never reused
Guarded == {"promote", "demote", "deactivate", "erase"}
Panel == {"create", "createAdmin", "promote", "demote", "deactivate", "restore", "reset"}
Request == [op : Panel \union {"none", "setup", "login", "write", "erase"},
            pc : {"idle", "verify", "begin", "apply"}, user : 0..MaxUsers,
            password : 0..MaxResets, overtaken : BOOLEAN]
Device == [user : 0..MaxUsers, password : 0..MaxResets, overtaken : BOOLEAN]

At(r, pc) == req[r].pc = pc

TypeOK ==
    /\ status \in [Users -> {"none", "active", "deleted", "gone"}]
    /\ admin \in [Users -> BOOLEAN]
    /\ password \in [Users -> 0..MaxResets]
    /\ device \in [Devices -> Device]
    /\ data \subseteq Users
    /\ writer \in Requests \union {NoRequest}
    /\ req \in [Requests -> Request]
    /\ serving \in BOOLEAN
    /\ founded \in Nat
    /\ late \subseteq Users
    /\ \A r \in Requests : At(r, "apply") <=> writer = r

Idle == [op |-> "none", pc |-> "idle", user |-> 0, password |-> 0,
         overtaken |-> FALSE]
NoDevice == [user |-> 0, password |-> 0, overtaken |-> FALSE]

Init ==
    /\ status = [u \in Users |-> "none"]
    /\ admin = [u \in Users |-> FALSE]
    /\ password = [u \in Users |-> 0]
    /\ device = [d \in Devices |-> NoDevice]
    /\ data = {}
    /\ writer = NoRequest
    /\ req = [r \in Requests |-> Idle]
    /\ serving = FALSE
    /\ founded = 0
    /\ late = {}

-----------------------------------------------------------------------------
(* What the handlers are made of.                                          *)

Active == {u \in Users : status[u] = "active"}
Admins == {u \in Active : admin[u]}
DevicesOf(u) == {d \in Devices : device[d].user = u}
Free == {d \in Devices : device[d].user = 0}
Unlocked == writer = NoRequest

\* The id of the next user that is created.
IsNext(u) == status[u] = "none" /\ \A v \in 1..(u - 1) : status[v] # "none"

Create(u, isAdmin) ==
    /\ status' = [status EXCEPT ![u] = "active"]
    /\ admin' = [admin EXCEPT ![u] = isAdmin]

Send(r, op, pc, u) ==
    /\ serving
    /\ At(r, "idle")
    /\ req' = [req EXCEPT ![r] = [Idle EXCEPT !.op = op, !.pc = pc, !.user = u]]
    /\ UNCHANGED <<users, device, data, writer, serving, founded, late>>

Answered(r) == req' = [req EXCEPT ![r] = Idle]

\* r is answered; it has revoked the devices of u, past the logins of u and the
\* writes of its devices that are under way.
AnsweredAndRevoked(r, u) ==
    /\ device' = [d \in Devices |-> IF d \in DevicesOf(u) THEN NoDevice ELSE device[d]]
    /\ req' = [q \in Requests |->
                 CASE q = r -> Idle
                   [] q # r /\ req[q].op \in {"login", "write"} /\ req[q].user = u ->
                          [req[q] EXCEPT !.overtaken = TRUE]
                   [] OTHER -> req[q]]

-----------------------------------------------------------------------------
(* The process starts and stops.                                           *)

\* Bootstrap, which runs before the server listens.
Boot ==
    /\ ~serving
    /\ serving' = TRUE
    /\ \/ /\ Active = {}              \* ADMIN_EMAIL and ADMIN_PASSWORD are set
          /\ \E u \in Users : IsNext(u) /\ Create(u, TRUE)
          /\ founded' = founded + 1
       \/ UNCHANGED <<status, admin, founded>>
    /\ UNCHANGED <<password, device, data, writer, req, late>>

\* Every request ends, and an open transaction is rolled back.
Crash ==
    /\ serving
    /\ serving' = FALSE
    /\ req' = [r \in Requests |-> Idle]
    /\ writer' = NoRequest
    /\ UNCHANGED <<users, device, data, founded, late>>

-----------------------------------------------------------------------------
(* Requests are authorised.                                                *)

Setup(r) == Send(r, "setup", "begin", 0)

\* requireAdminSession asks the database whether the user of the cookie is an
\* admin; the cookie itself is any that was ever given to one.  POST /admin/users
\* creates users as well, for whoever was an admin when the access token was made.
PanelRequest(r) ==
    /\ Admins # {}
    /\ \/ \E op \in {"create", "createAdmin"} : Send(r, op, "begin", 0)
       \/ \E op \in Panel \ {"create", "createAdmin"} :
             \E u \in {v \in Users : status[v] # "none"} : Send(r, op, "begin", u)

\* RequireAuth: the device is there.
Authenticated(r, op) ==
    \E u \in Users : DevicesOf(u) # {} /\ Send(r, op, "begin", u)

\* Mutant of Login: getUserByEmail finds users who were deactivated.
LoginOfAnyone(r) ==
    /\ serving
    /\ At(r, "idle")
    /\ \E u \in {v \in Users : status[v] \in {"active", "deleted"}} :
          req' = [req EXCEPT ![r] = [Idle EXCEPT !.op = "login", !.pc = "verify", !.user = u,
                                                 !.password = password[u]]]
    /\ UNCHANGED <<users, device, data, writer, serving, founded, late>>

\* login reads the user, and the password takes a while to verify.
Login(r) ==
    /\ serving
    /\ At(r, "idle")
    /\ \E u \in Active :
          req' = [req EXCEPT ![r] = [Idle EXCEPT !.op = "login", !.pc = "verify", !.user = u,
                                                 !.password = password[u]]]
    /\ UNCHANGED <<users, device, data, writer, serving, founded, late>>

-----------------------------------------------------------------------------
(* Requests are carried out.                                               *)

\* Mutant of HasRoom: the count may reach the limit and pass.
HasRoomForOneMore(u) ==
    MaxDevicesPerUser = 0 \/ Cardinality(DevicesOf(u)) <= MaxDevicesPerUser

HasRoom(u) == MaxDevicesPerUser = 0 \/ Cardinality(DevicesOf(u)) < MaxDevicesPerUser

CountDevices(r) ==
    /\ At(r, "verify")
    /\ IF HasRoom(req[r].user) THEN req' = [req EXCEPT ![r].pc = "begin"] ELSE Answered(r)
    /\ UNCHANGED <<users, device, data, writer, serving, founded, late>>

\* createDevice; the foreign key refuses a user who is gone.
CreateDevice(r) ==
    /\ req[r].op = "login" /\ At(r, "begin")
    /\ Unlocked
    /\ Answered(r)
    /\ \/ /\ status[req[r].user] # "gone"
          /\ \E d \in Free :
                device' = [device EXCEPT ![d] =
                             [user |-> req[r].user, password |-> req[r].password,
                              overtaken |-> req[r].overtaken]]
       \/ (status[req[r].user] = "gone" \/ Free = {}) /\ UNCHANGED device
    /\ UNCHANGED <<users, data, writer, serving, founded, late>>

\* A write of a device: no table of the domain refers to users.
Write(r) ==
    /\ req[r].op = "write" /\ At(r, "begin")
    /\ Unlocked
    /\ data' = data \union {req[r].user}
    /\ late' = IF req[r].overtaken THEN late \union {req[r].user} ELSE late
    /\ Answered(r)
    /\ UNCHANGED <<users, device, writer, serving, founded>>

\* createUser, of the panel and of the API.
CreateUser(r) ==
    /\ req[r].op \in {"create", "createAdmin"} /\ At(r, "begin")
    /\ Unlocked
    /\ Answered(r)
    /\ \/ \E u \in Users : IsNext(u) /\ Create(u, req[r].op = "createAdmin")
       \/ UNCHANGED <<status, admin>>      \* errDuplicateEmail
    /\ UNCHANGED <<password, device, data, writer, serving, founded, late>>

RestoreUser(r) ==
    /\ req[r].op = "restore" /\ At(r, "begin")
    /\ Unlocked
    /\ status' = [status EXCEPT ![req[r].user] = IF @ = "deleted" THEN "active" ELSE @]
    /\ Answered(r)
    /\ UNCHANGED <<admin, password, device, data, writer, serving, founded, late>>

\* updateUserPassword, which also revokes the user's devices.
ResetPassword(r) ==
    /\ req[r].op = "reset" /\ At(r, "begin")
    /\ Unlocked
    /\ LET u == req[r].user
       IN  \/ /\ u \in Active /\ password[u] < MaxResets
              /\ password' = [password EXCEPT ![u] = @ + 1]
              /\ AnsweredAndRevoked(r, u)
           \/ /\ u \notin Active \/ password[u] = MaxResets
              /\ Answered(r)
              /\ UNCHANGED <<password, device>>
    /\ UNCHANGED <<status, admin, data, writer, serving, founded, late>>

\* Mutant of MayGo: users who were deactivated count.
MayGoIfOthersWere(u) ==
    u \in Active /\ (admin[u] => {v \in Users : admin[v] /\ status[v] # "gone"} # {u})

\* The guard of withLastAdminGuard.
MayGo(u) == u \in Active /\ (u \in Admins => Cardinality(Admins) > 1)

\* Mutant of Lock: the transaction is a reader until it writes.
LockLater(r) == UNCHANGED writer

Lock(r) == writer' = r

\* BEGIN IMMEDIATE, and what the transaction checks first.
Begin(r) ==
    /\ At(r, "begin")
    /\ req[r].op \in Guarded \union {"setup"}
    /\ Unlocked
    /\ IF IF req[r].op = "setup" THEN Active = {} ELSE MayGo(req[r].user)
       THEN Lock(r) /\ req' = [req EXCEPT ![r].pc = "apply"]
       ELSE Answered(r) /\ UNCHANGED writer
    /\ UNCHANGED <<users, device, data, serving, founded, late>>

Commits(r, op) == req[r].op = op /\ At(r, "apply") /\ writer' = NoRequest

\* createFirstAdmin.
CreateFirstAdmin(r) ==
    /\ Commits(r, "setup")
    /\ Answered(r)
    /\ \/ (\E u \in Users : IsNext(u) /\ Create(u, TRUE)) /\ founded' = founded + 1
       \/ status[MaxUsers] # "none" /\ UNCHANGED <<status, admin, founded>>
    /\ UNCHANGED <<password, device, data, serving, late>>

\* updateUserAdmin.
UpdateUserAdmin(r) ==
    /\ \E op \in {"promote", "demote"} :
          /\ Commits(r, op)
          /\ admin' = [admin EXCEPT ![req[r].user] = (op = "promote")]
    /\ Answered(r)
    /\ UNCHANGED <<status, password, device, data, serving, founded, late>>

\* softDeleteUser.
SoftDeleteUser(r) ==
    /\ Commits(r, "deactivate")
    /\ status' = [status EXCEPT ![req[r].user] = "deleted"]
    /\ AnsweredAndRevoked(r, req[r].user)
    /\ UNCHANGED <<admin, password, data, serving, founded, late>>

\* Mutant of Owned: the rows of the domain stay.
OwnedDevices(u) == {}

\* What deleteUserAccount removes besides the user and, by cascade, the devices.
Owned(u) == {u}

DeleteUserAccount(r) ==
    /\ Commits(r, "erase")
    /\ LET u == req[r].user
       IN  /\ status' = [status EXCEPT ![u] = "gone"]
           /\ admin' = [admin EXCEPT ![u] = FALSE]
           /\ password' = [password EXCEPT ![u] = 0]
           /\ data' = data \ Owned(u)
           /\ AnsweredAndRevoked(r, u)
    /\ UNCHANGED <<serving, founded, late>>

\* DELETE /devices/{id}, the panel's revoke, a logout, a reuse (see Sessions).
RevokeDevice(d) ==
    /\ serving /\ Unlocked
    /\ device[d].user # 0
    /\ device' = [device EXCEPT ![d] = NoDevice]
    /\ UNCHANGED <<users, data, writer, req, serving, founded, late>>

Authorise(r) ==
    \/ Setup(r) \/ PanelRequest(r) \/ Login(r)
    \/ Authenticated(r, "write") \/ Authenticated(r, "erase")

Handle(r) ==
    \/ CountDevices(r) \/ CreateDevice(r) \/ Write(r) \/ CreateUser(r) \/ RestoreUser(r)
    \/ ResetPassword(r) \/ Begin(r) \/ CreateFirstAdmin(r) \/ UpdateUserAdmin(r)
    \/ SoftDeleteUser(r) \/ DeleteUserAccount(r)

Next ==
    \/ Boot \/ Crash
    \/ \E r \in Requests : Authorise(r) \/ Handle(r)
    \/ \E d \in Devices : RevokeDevice(d)

Spec == Init /\ [][Next]_vars

-----------------------------------------------------------------------------
(* Properties.                                                             *)

\* Once there was a user there is an active admin, whatever is promoted, demoted,
\* deactivated and erased at once: nobody locks the instance out of its own
\* panel, /setup never opens again, and so Bootstrap never meets an address that
\* is taken (the last-admin guard, internal/auth/store.go:461).
AnAdminRemains == (\E u \in Users : status[u] # "none") => Admins # {}

\* Two submissions of /setup, or one and the environment's admin, make one first
\* admin (internal/auth/store.go:588).
FoundedOnce == founded <= 1

\* A device of a user who is deactivated, or whose password was reset since,
\* comes from a login that was under way at that time.
RevocationsHold ==
    \A d \in Devices : device[d].user # 0 =>
        LET u == device[d].user
        IN  /\ status[u] \in {"active", "deleted"}
            /\ status[u] = "deleted" \/ device[d].password < password[u] =>
                   device[d].overtaken

\* The limit is exceeded by as many devices as logins can overlap (the count and
\* the insert of internal/auth/handlers.go:130 are two statements).
DeviceLimit ==
    MaxDevicesPerUser > 0 => \A u \in Users :
        Cardinality(DevicesOf(u)) <= MaxDevicesPerUser + Cardinality(Requests) - 1

\* What an erased account owned is gone, except for what a request wrote that had
\* been authenticated before (internal/auth/store.go:750).
ErasedAccountsAreEmpty == \A u \in data : status[u] = "gone" => u \in late

=============================================================================

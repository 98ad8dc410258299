--------------------------- MODULE AccountsProofs ---------------------------
(***************************************************************************)
(* Proofs about Accounts, for any number of users, devices, requests and   *)
(* resets and any device limit.                                            *)
(***************************************************************************)
EXTENDS Accounts, FiniteSetTheorems, TLAPS

OnUsers == (Panel \ {"create", "createAdmin"}) \union {"login", "write", "erase"}

\* Only a process that listens has requests; they are of users who were created,
\* or by an admin, so that there are users.
Served(r) ==
    /\ At(r, "idle") <=> req[r].op = "none"
    /\ ~serving => At(r, "idle")
    /\ req[r].op \in OnUsers => req[r].user \in Users /\ status[req[r].user] # "none"
    /\ req[r].op \in {"create", "createAdmin"} => \E u \in Users : status[u] # "none"

\* What a transaction has checked stays true until it commits.
Locked(r) ==
    At(r, "apply") =>
        IF req[r].op = "setup" THEN Active = {}
        ELSE req[r].op \in Guarded /\ MayGo(req[r].user)

\* A device belongs to a user who was created.
Owners ==
    \A d \in Devices : device[d].user # 0 =>
        device[d].user \in Users /\ status[device[d].user] # "none"

RequestInv == Owners /\ \A r \in Requests : Served(r) /\ Locked(r)

\* The first admin comes before every other user.
FoundedFirst ==
    founded = 0 \/ (founded = 1 /\ \E u \in Users : status[u] # "none")

AdminInv == AnAdminRemains /\ FoundedFirst

\* A login that knows less than the database was overtaken by a revocation; so was
\* a write for a user who is gone.
Overtaken(r) ==
    /\ req[r].op = "login" =>
          LET u == req[r].user
          IN  status[u] # "active" \/ req[r].password < password[u] => req[r].overtaken
    /\ req[r].op = "write" => (status[req[r].user] = "gone" => req[r].overtaken)

RevokedInv ==
    /\ \A r \in Requests : Overtaken(r)
    /\ RevocationsHold
    /\ ErasedAccountsAreEmpty

\* Logins that have counted the devices of u and are yet to add theirs.
Pending(u) == {r \in Requests : req[r].op = "login" /\ At(r, "begin") /\ req[r].user = u}

DevicesInv ==
    MaxDevicesPerUser > 0 => \A u \in Users :
        Cardinality(DevicesOf(u)) + Cardinality(Pending(u))
            <= MaxDevicesPerUser + Cardinality(Requests) - 1

-----------------------------------------------------------------------------
(* Types.                                                                  *)

LEMMA IdleType == Idle \in Request /\ NoDevice \in Device
  BY AccountsAssumption DEF Idle, Request, NoDevice, Device

LEMMA TypeInit == Init => TypeOK
<1> SUFFICES ASSUME Init PROVE TypeOK
  OBVIOUS
<1>1. \A r \in Requests : At(r, "apply") <=> writer = r
  BY AccountsAssumption DEF Init, At, Idle
<1>2. req \in [Requests -> Request] /\ device \in [Devices -> Device]
  BY IdleType DEF Init
<1>3. password \in [Users -> 0..MaxResets]
  BY AccountsAssumption DEF Init
<1> QED  BY <1>1, <1>2, <1>3 DEF Init, TypeOK

\* Every step but those of transactions leaves the lock to who has it.
LEMMA AnsweredType ==
    ASSUME TypeOK, NEW r \in Requests, ~At(r, "apply"), UNCHANGED writer,
           Answered(r) \/ \E u \in 0..MaxUsers : AnsweredAndRevoked(r, u)
    PROVE  /\ req' \in [Requests -> Request]
           /\ \A q \in Requests : At(q, "apply")' <=> writer' = q
<1>1. CASE Answered(r)
  BY <1>1, IdleType DEF Answered, TypeOK, At, Idle
<1>2. ASSUME NEW u \in 0..MaxUsers, AnsweredAndRevoked(r, u)
      PROVE  /\ req' \in [Requests -> Request]
             /\ \A q \in Requests : At(q, "apply")' <=> writer' = q
  <2>1. \A q \in Requests : [req[q] EXCEPT !.overtaken = TRUE] \in Request
    BY DEF TypeOK, Request
  <2>2. req' \in [Requests -> Request]
    BY <1>2, <2>1, IdleType DEF AnsweredAndRevoked, TypeOK
  <2>3. \A q \in Requests : req'[q].pc = IF q = r THEN "idle" ELSE req[q].pc
    BY <1>2 DEF AnsweredAndRevoked, TypeOK, Request, Idle
  <2> QED  BY <2>2, <2>3 DEF TypeOK, At
<1> QED  BY <1>1, <1>2

LEMMA CommitsType ==
    ASSUME TypeOK, NEW r \in Requests, NEW op, Commits(r, op),
           Answered(r) \/ \E u \in 0..MaxUsers : AnsweredAndRevoked(r, u)
    PROVE  /\ req' \in [Requests -> Request]
           /\ \A q \in Requests : At(q, "apply")' <=> writer' = q
<1>0. writer = r /\ writer' = NoRequest /\ NoRequest \notin Requests
  BY AccountsAssumption DEF Commits, TypeOK
<1>1. CASE Answered(r)
  BY <1>0, <1>1, IdleType DEF Answered, TypeOK, At, Idle
<1>2. ASSUME NEW u \in 0..MaxUsers, AnsweredAndRevoked(r, u)
      PROVE  /\ req' \in [Requests -> Request]
             /\ \A q \in Requests : At(q, "apply")' <=> writer' = q
  <2>1. \A q \in Requests : [req[q] EXCEPT !.overtaken = TRUE] \in Request
    BY DEF TypeOK, Request
  <2>2. req' \in [Requests -> Request]
    BY <1>2, <2>1, IdleType DEF AnsweredAndRevoked, TypeOK
  <2>3. \A q \in Requests : req'[q].pc = IF q = r THEN "idle" ELSE req[q].pc
    BY <1>2 DEF AnsweredAndRevoked, TypeOK, Request, Idle
  <2> QED  BY <1>0, <2>2, <2>3 DEF TypeOK, At
<1> QED  BY <1>1, <1>2

LEMMA RevokedType ==
    ASSUME TypeOK, NEW r \in Requests, NEW u \in 0..MaxUsers, AnsweredAndRevoked(r, u)
    PROVE  device' \in [Devices -> Device]
  BY IdleType DEF AnsweredAndRevoked, TypeOK

LEMMA CreateType ==
    ASSUME TypeOK, NEW u \in Users, NEW b \in BOOLEAN, Create(u, b)
    PROVE  /\ status' \in [Users -> {"none", "active", "deleted", "gone"}]
           /\ admin' \in [Users -> BOOLEAN]
  BY DEF Create, TypeOK

\* A request that stays short of its transaction leaves the lock alone.
LEMMA SetType ==
    ASSUME TypeOK, NEW r \in Requests, ~At(r, "apply"), UNCHANGED writer,
           NEW q \in Request, q.pc # "apply", req' = [req EXCEPT ![r] = q]
    PROVE  /\ req' \in [Requests -> Request]
           /\ \A p \in Requests : At(p, "apply")' <=> writer' = p
  BY DEF TypeOK, At

LEMMA SendType ==
    ASSUME TypeOK, NEW r \in Requests, NEW o \in Panel \union {"setup", "write", "erase"},
           NEW u \in 0..MaxUsers, Send(r, o, "begin", u)
    PROVE  TypeOK'
<1>1. [Idle EXCEPT !.op = o, !.pc = "begin", !.user = u] \in Request
  <2>1. o \in Panel \union {"none", "setup", "login", "write", "erase"}
    OBVIOUS
  <2> QED  BY <2>1, IdleType DEF Idle, Request
<1>2. [Idle EXCEPT !.op = o, !.pc = "begin", !.user = u].pc # "apply"
  BY DEF Idle
<1>3. ~At(r, "apply") /\ UNCHANGED writer
  BY DEF Send, At
<1>4. /\ req' \in [Requests -> Request]
      /\ \A p \in Requests : At(p, "apply")' <=> writer' = p
  BY <1>1, <1>2, <1>3, SetType DEF Send
<1> QED  BY <1>4 DEF Send, TypeOK, users

LEMMA AuthoriseType ==
    ASSUME TypeOK, NEW r \in Requests, Authorise(r)
    PROVE  TypeOK'
<1>u. 0 \in 0..MaxUsers /\ \A u \in Users : u \in 0..MaxUsers
  BY AccountsAssumption DEF Users
<1>1. CASE Setup(r)
  BY <1>1, <1>u, SendType DEF Setup
<1>2. CASE PanelRequest(r)
  <2>1. PICK op \in Panel, u \in 0..MaxUsers : Send(r, op, "begin", u)
    BY <1>2, <1>u DEF PanelRequest, Panel
  <2> QED  BY <2>1, SendType
<1>3. CASE Authenticated(r, "write") \/ Authenticated(r, "erase")
  <2>1. PICK op \in {"write", "erase"}, u \in 0..MaxUsers : Send(r, op, "begin", u)
    BY <1>3, <1>u DEF Authenticated
  <2> QED  BY <2>1, SendType
<1>4. CASE Login(r)
  <2>1. PICK u \in Active :
          req' = [req EXCEPT ![r] = [Idle EXCEPT !.op = "login", !.pc = "verify", !.user = u,
                                                 !.password = password[u]]]
    BY <1>4 DEF Login
  <2>2. [Idle EXCEPT !.op = "login", !.pc = "verify", !.user = u,
                     !.password = password[u]] \in Request
    BY <1>u DEF Idle, Request, TypeOK, Active
  <2>3. [Idle EXCEPT !.op = "login", !.pc = "verify", !.user = u,
                     !.password = password[u]].pc # "apply"
    BY DEF Idle
  <2>4. ~At(r, "apply") /\ UNCHANGED writer
    BY <1>4 DEF Login, At
  <2>5. /\ req' \in [Requests -> Request]
        /\ \A p \in Requests : At(p, "apply")' <=> writer' = p
    BY <2>1, <2>2, <2>3, <2>4, SetType
  <2> QED  BY <1>4, <2>5 DEF Login, TypeOK, users
<1> QED  BY <1>1, <1>2, <1>3, <1>4 DEF Authorise

LEMMA HandleType ==
    ASSUME TypeOK, NEW r \in Requests, Served(r), Handle(r)
    PROVE  TypeOK'
<1>r. req[r] \in Request /\ \A u \in 1..MaxUsers : u \in Users
  BY DEF TypeOK, Users
<1>1. CASE CountDevices(r)
  <2>1. [req[r] EXCEPT !.pc = "begin"] \in Request /\ [req[r] EXCEPT !.pc = "begin"].pc # "apply"
    BY <1>r DEF Request
  <2>2. Idle \in Request /\ Idle.pc # "apply"
    BY IdleType DEF Idle
  <2>3. ~At(r, "apply") /\ UNCHANGED writer
    BY <1>1 DEF CountDevices, At
  <2>4. /\ req' \in [Requests -> Request]
        /\ \A p \in Requests : At(p, "apply")' <=> writer' = p
    <3>1. CASE req' = [req EXCEPT ![r].pc = "begin"]
      BY <2>1, <2>3, <3>1, SetType
    <3>2. CASE req' = [req EXCEPT ![r] = Idle]
      BY <2>2, <2>3, <3>2, SetType
    <3> QED  BY <1>1, <3>1, <3>2 DEF CountDevices, Answered
  <2> QED  BY <1>1, <2>4 DEF CountDevices, TypeOK, users
<1>2. CASE CreateDevice(r)
  <2>1. [user |-> req[r].user, password |-> req[r].password,
         overtaken |-> req[r].overtaken] \in Device
    BY <1>r DEF Request, Device
  <2>2. device' \in [Devices -> Device]
    BY <1>2, <2>1 DEF CreateDevice, TypeOK
  <2>3. ~At(r, "apply") /\ UNCHANGED writer /\ Answered(r)
    BY <1>2 DEF CreateDevice, At
  <2> QED  BY <1>2, <2>2, <2>3, AnsweredType DEF CreateDevice, TypeOK, users
<1>3. CASE Write(r)
  <2>1. ~At(r, "apply") /\ UNCHANGED writer /\ Answered(r)
    BY <1>3 DEF Write, At
  <2>2. req[r].user \in Users
    BY <1>3 DEF Write, Served, OnUsers
  <2>3. data' \subseteq Users /\ late' \subseteq Users
    BY <1>3, <2>2 DEF Write, TypeOK
  <2> QED  BY <1>3, <2>1, <2>3, AnsweredType DEF Write, TypeOK, users
<1>4. CASE CreateUser(r)
  <2>1. ~At(r, "apply") /\ UNCHANGED writer /\ Answered(r)
    BY <1>4 DEF CreateUser, At
  <2>2. CASE UNCHANGED <<status, admin>>
    BY <1>4, <2>1, <2>2, AnsweredType DEF CreateUser, TypeOK
  <2>3. ASSUME NEW u \in Users, Create(u, req[r].op = "createAdmin") PROVE TypeOK'
    <3>1. /\ status' \in [Users -> {"none", "active", "deleted", "gone"}]
          /\ admin' \in [Users -> BOOLEAN]
      BY <2>3, CreateType
    <3> QED  BY <1>4, <2>1, <3>1, AnsweredType DEF CreateUser, TypeOK
  <2> QED  BY <1>4, <2>2, <2>3 DEF CreateUser
<1>5. CASE RestoreUser(r)
  <2>1. ~At(r, "apply") /\ UNCHANGED writer /\ Answered(r)
    BY <1>5 DEF RestoreUser, At
  <2>2. status' \in [Users -> {"none", "active", "deleted", "gone"}]
    BY <1>5 DEF RestoreUser, TypeOK
  <2> QED  BY <1>5, <2>1, <2>2, AnsweredType DEF RestoreUser, TypeOK
<1>6. CASE ResetPassword(r)
  <2>1. ~At(r, "apply") /\ UNCHANGED writer
    BY <1>6 DEF ResetPassword, At
  <2>2. CASE /\ req[r].user \in Active /\ password[req[r].user] < MaxResets
             /\ password' = [password EXCEPT ![req[r].user] = @ + 1]
             /\ AnsweredAndRevoked(r, req[r].user)
    <3>1. req[r].user \in 0..MaxUsers
      BY <1>r DEF Request
    <3>2. password' \in [Users -> 0..MaxResets]
      BY <2>2, AccountsAssumption DEF TypeOK, Active
    <3>3. device' \in [Devices -> Device]
      BY <2>2, <3>1, RevokedType
    <3>4. /\ req' \in [Requests -> Request]
          /\ \A p \in Requests : At(p, "apply")' <=> writer' = p
      BY <2>1, <2>2, <3>1, AnsweredType
    <3> QED  BY <1>6, <3>2, <3>3, <3>4 DEF ResetPassword, TypeOK
  <2>3. CASE Answered(r) /\ UNCHANGED <<password, device>>
    BY <1>6, <2>1, <2>3, AnsweredType DEF ResetPassword, TypeOK
  <2> QED  BY <1>6, <2>2, <2>3 DEF ResetPassword
<1>7. CASE Begin(r)
  <2>0. ~At(r, "apply")
    BY <1>7 DEF Begin, At
  <2>1. CASE Lock(r) /\ req' = [req EXCEPT ![r].pc = "apply"]
    <3>1. [req[r] EXCEPT !.pc = "apply"] \in Request
      BY <1>r DEF Request
    <3>2. req' \in [Requests -> Request]
      BY <2>1, <3>1 DEF TypeOK
    <3>3. \A p \in Requests : At(p, "apply")' <=> p = r
      <4>1. \A p \in Requests : ~At(p, "apply")
        BY <1>7, AccountsAssumption DEF Begin, Unlocked, TypeOK
      <4>2. \A p \in Requests : req'[p].pc = IF p = r THEN "apply" ELSE req[p].pc
        BY <1>r, <2>1 DEF TypeOK, Request
      <4> QED  BY <4>1, <4>2 DEF At
    <3>4. writer' = r
      BY <2>1 DEF Lock
    <3> QED  BY <1>7, <3>2, <3>3, <3>4 DEF Begin, TypeOK, users
  <2>2. CASE Answered(r) /\ UNCHANGED writer
    BY <1>7, <2>0, <2>2, AnsweredType DEF Begin, TypeOK, users
  <2> QED  BY <1>7, <2>1, <2>2 DEF Begin
<1>8. CASE CreateFirstAdmin(r)
  <2>1. /\ req' \in [Requests -> Request]
        /\ \A p \in Requests : At(p, "apply")' <=> writer' = p
    BY <1>8, CommitsType DEF CreateFirstAdmin
  <2>2. /\ status' \in [Users -> {"none", "active", "deleted", "gone"}]
        /\ admin' \in [Users -> BOOLEAN]
        /\ founded' \in Nat
    <3>1. ASSUME NEW u \in Users, Create(u, TRUE), founded' = founded + 1
          PROVE  /\ status' \in [Users -> {"none", "active", "deleted", "gone"}]
                 /\ admin' \in [Users -> BOOLEAN]
                 /\ founded' \in Nat
      <4>1. founded' \in Nat
        BY <3>1 DEF TypeOK
      <4> QED  BY <3>1, <4>1, CreateType
    <3>2. CASE UNCHANGED <<status, admin, founded>>
      BY <3>2 DEF TypeOK
    <3> QED  BY <1>8, <3>1, <3>2 DEF CreateFirstAdmin
  <2>3. writer' \in Requests \union {NoRequest}
    BY <1>8 DEF CreateFirstAdmin, Commits
  <2> QED  BY <1>8, <2>1, <2>2, <2>3 DEF CreateFirstAdmin, TypeOK
<1>9. CASE UpdateUserAdmin(r)
  <2>1. PICK op \in {"promote", "demote"} :
          Commits(r, op) /\ admin' = [admin EXCEPT ![req[r].user] = (op = "promote")]
    BY <1>9 DEF UpdateUserAdmin
  <2>2. /\ req' \in [Requests -> Request]
        /\ \A p \in Requests : At(p, "apply")' <=> writer' = p
    BY <1>9, <2>1, CommitsType DEF UpdateUserAdmin
  <2>3. admin' \in [Users -> BOOLEAN] /\ writer' \in Requests \union {NoRequest}
    BY <2>1 DEF TypeOK, Commits
  <2> QED  BY <1>9, <2>2, <2>3 DEF UpdateUserAdmin, TypeOK
<1>10. CASE SoftDeleteUser(r) \/ DeleteUserAccount(r)
  <2>1. PICK op \in {"deactivate", "erase"} : Commits(r, op)
    BY <1>10 DEF SoftDeleteUser, DeleteUserAccount
  <2>2. AnsweredAndRevoked(r, req[r].user) /\ req[r].user \in 0..MaxUsers
    BY <1>10, <1>r DEF SoftDeleteUser, DeleteUserAccount, Request
  <2>3. /\ req' \in [Requests -> Request]
        /\ \A p \in Requests : At(p, "apply")' <=> writer' = p
    BY <2>1, <2>2, CommitsType
  <2>4. device' \in [Devices -> Device]
    BY <2>2, RevokedType
  <2>5. /\ status' \in [Users -> {"none", "active", "deleted", "gone"}]
        /\ admin' \in [Users -> BOOLEAN] /\ data' \subseteq Users
    BY <1>10 DEF SoftDeleteUser, DeleteUserAccount, TypeOK
  <2>6. password' \in [Users -> 0..MaxResets]
    BY <1>10, AccountsAssumption DEF SoftDeleteUser, DeleteUserAccount, TypeOK
  <2>7. writer' \in Requests \union {NoRequest}
    BY <2>1 DEF Commits
  <2> QED  BY <1>10, <2>3, <2>4, <2>5, <2>6, <2>7 DEF SoftDeleteUser, DeleteUserAccount, TypeOK
<1> QED  BY <1>1, <1>2, <1>3, <1>4, <1>5, <1>6, <1>7, <1>8, <1>9, <1>10 DEF Handle

LEMMA TypeStep == TypeOK /\ RequestInv /\ [Next]_vars => TypeOK'
<1> SUFFICES ASSUME TypeOK, RequestInv, [Next]_vars PROVE TypeOK'
  OBVIOUS
<1>1. CASE Boot
  <2>1. CASE UNCHANGED <<status, admin, founded>>
    BY <1>1, <2>1 DEF Boot, TypeOK, At
  <2>2. ASSUME NEW u \in Users, Create(u, TRUE), founded' = founded + 1 PROVE TypeOK'
    <3>1. /\ status' \in [Users -> {"none", "active", "deleted", "gone"}]
          /\ admin' \in [Users -> BOOLEAN]
      BY <2>2, CreateType
    <3> QED  BY <1>1, <2>2, <3>1 DEF Boot, TypeOK, At
  <2> QED  BY <1>1, <2>1, <2>2 DEF Boot
<1>2. CASE Crash
  <2>1. \A r \in Requests : At(r, "apply")' <=> writer' = r
    BY <1>2, AccountsAssumption DEF Crash, At, Idle
  <2>2. req' \in [Requests -> Request]
    BY <1>2, IdleType DEF Crash
  <2> QED  BY <1>2, <2>1, <2>2 DEF Crash, TypeOK, users
<1>3. ASSUME NEW r \in Requests, Authorise(r) \/ Handle(r) PROVE TypeOK'
  BY <1>3, AuthoriseType, HandleType DEF RequestInv
<1>4. ASSUME NEW d \in Devices, RevokeDevice(d) PROVE TypeOK'
  <2>1. device' \in [Devices -> Device]
    BY <1>4, IdleType DEF RevokeDevice, TypeOK
  <2> QED  BY <1>4, <2>1 DEF RevokeDevice, TypeOK, At, users
<1>5. CASE UNCHANGED vars
  BY <1>5 DEF vars, users, TypeOK, At
<1> QED  BY <1>1, <1>2, <1>3, <1>4, <1>5 DEF Next

-----------------------------------------------------------------------------
(* What a step may do to the users.                                        *)

Founds(u) == IsNext(u) /\ Create(u, TRUE) /\ Active = {} /\ founded' = founded + 1
Adds(u) ==
    /\ IsNext(u) /\ \E b \in BOOLEAN : Create(u, b)
    /\ \E v \in Users : status[v] # "none"
    /\ UNCHANGED founded
Restores(u) ==
    /\ status[u] = "deleted" /\ status' = [status EXCEPT ![u] = "active"]
    /\ UNCHANGED <<admin, founded>>
Changes(u) ==
    /\ MayGo(u)
    /\ \E s \in {"active", "deleted", "gone"} : status' = [status EXCEPT ![u] = s]
    /\ \E b \in BOOLEAN : admin' = [admin EXCEPT ![u] = b]
    /\ UNCHANGED founded

LEMMA UsersStep ==
    ASSUME TypeOK, RequestInv, [Next]_vars
    PROVE  \/ UNCHANGED <<status, admin, founded>>
           \/ \E u \in Users : Founds(u) \/ Adds(u) \/ Restores(u) \/ Changes(u)
<1>1. CASE Boot
  BY <1>1 DEF Boot, Founds
<1>2. CASE Crash \/ UNCHANGED vars \/ \E d \in Devices : RevokeDevice(d)
  BY <1>2 DEF Crash, RevokeDevice, vars, users
<1>3. ASSUME NEW r \in Requests, Authorise(r)
      PROVE  UNCHANGED <<status, admin, founded>>
  BY <1>3 DEF Authorise, Setup, PanelRequest, Authenticated, Login, Send, users
<1>4. ASSUME NEW r \in Requests,
             CountDevices(r) \/ CreateDevice(r) \/ Write(r) \/ ResetPassword(r) \/ Begin(r)
      PROVE  UNCHANGED <<status, admin, founded>>
  BY <1>4 DEF CountDevices, CreateDevice, Write, ResetPassword, Begin, users
<1>5. ASSUME NEW r \in Requests, CreateUser(r)
      PROVE  \/ UNCHANGED <<status, admin, founded>>
             \/ \E u \in Users : Adds(u)
  <2>1. \E v \in Users : status[v] # "none"
    BY <1>5 DEF CreateUser, RequestInv, Served
  <2> QED  BY <1>5, <2>1 DEF CreateUser, Adds
<1>6. ASSUME NEW r \in Requests, RestoreUser(r)
      PROVE  \/ UNCHANGED <<status, admin, founded>>
             \/ \E u \in Users : Restores(u)
  <2>1. req[r].user \in Users
    BY <1>6 DEF RestoreUser, RequestInv, Served, OnUsers, Panel
  <2>2. CASE status[req[r].user] = "deleted"
    BY <1>6, <2>1, <2>2 DEF RestoreUser, Restores
  <2>3. CASE status[req[r].user] # "deleted"
    BY <1>6, <2>1, <2>3 DEF RestoreUser, TypeOK
  <2> QED  BY <2>2, <2>3
<1>7. ASSUME NEW r \in Requests, CreateFirstAdmin(r)
      PROVE  \/ UNCHANGED <<status, admin, founded>>
             \/ \E u \in Users : Founds(u)
  <2>1. Active = {}
    BY <1>7 DEF CreateFirstAdmin, Commits, RequestInv, Locked
  <2> QED  BY <1>7, <2>1 DEF CreateFirstAdmin, Founds
<1>8. ASSUME NEW r \in Requests, UpdateUserAdmin(r) \/ SoftDeleteUser(r) \/ DeleteUserAccount(r)
      PROVE  \E u \in Users : Changes(u)
  <2>1. At(r, "apply") /\ req[r].op # "setup"
    BY <1>8 DEF UpdateUserAdmin, SoftDeleteUser, DeleteUserAccount, Commits
  <2>2. MayGo(req[r].user) /\ req[r].user \in Users /\ status[req[r].user] = "active"
    BY <2>1 DEF RequestInv, Locked, MayGo, Active
  <2>3. UNCHANGED founded
    BY <1>8 DEF UpdateUserAdmin, SoftDeleteUser, DeleteUserAccount
  <2>4. \E s \in {"active", "deleted", "gone"} : status' = [status EXCEPT ![req[r].user] = s]
    BY <1>8, <2>2 DEF UpdateUserAdmin, SoftDeleteUser, DeleteUserAccount, TypeOK
  <2>5. \E b \in BOOLEAN : admin' = [admin EXCEPT ![req[r].user] = b]
    <3>1. CASE UNCHANGED admin
      <4>1. admin' = [admin EXCEPT ![req[r].user] = admin[req[r].user]]
        BY <2>2, <3>1 DEF TypeOK
      <4> QED  BY <2>2, <4>1 DEF TypeOK
    <3> QED  BY <1>8, <3>1 DEF UpdateUserAdmin, SoftDeleteUser, DeleteUserAccount
  <2> QED  BY <2>2, <2>3, <2>4, <2>5 DEF Changes
<1> QED  BY <1>1, <1>2, <1>3, <1>4, <1>5, <1>6, <1>7, <1>8 DEF Next, Handle

\* Nobody who was created is forgotten.
LEMMA UsersRemain ==
    ASSUME TypeOK, RequestInv, [Next]_vars, NEW u \in Users, status[u] # "none"
    PROVE  status'[u] # "none"
  BY UsersStep DEF TypeOK, Founds, Adds, Restores, Changes, Create, IsNext

-----------------------------------------------------------------------------
(* Requests.                                                               *)

Same(q) ==
    /\ req'[q].op = req[q].op /\ req'[q].user = req[q].user
    /\ req'[q].password = req[q].password
    /\ req[q].overtaken => req'[q].overtaken

\* A step of r ends r or takes it on; of the others it changes only what they do
\* not know, that they were overtaken.
LEMMA HandleKeeps ==
    ASSUME TypeOK, NEW r \in Requests, Handle(r), NEW q \in Requests
    PROVE  /\ req'[q] = Idle \/ (Same(q) /\ (At(q, "idle")' <=> At(q, "idle")))
           /\ q # r => Same(q) /\ req'[q].pc = req[q].pc
<1>t. req[q] \in Request /\ req \in [Requests -> Request]
  BY DEF TypeOK
<1>1. ASSUME Answered(r)
      PROVE  IF q = r THEN req'[q] = Idle ELSE req'[q] = req[q]
  BY <1>1, <1>t DEF Answered
<1>2. ASSUME NEW u, AnsweredAndRevoked(r, u)
      PROVE  IF q = r THEN req'[q] = Idle
             ELSE req'[q] = req[q] \/ req'[q] = [req[q] EXCEPT !.overtaken = TRUE]
  BY <1>2 DEF AnsweredAndRevoked
<1>3. ASSUME NEW p \in {"begin", "apply"}, req' = [req EXCEPT ![r].pc = p], ~At(r, "idle")
      PROVE  /\ IF q = r THEN req'[q] = [req[q] EXCEPT !.pc = p] ELSE req'[q] = req[q]
             /\ q = r => ~At(q, "idle")
  BY <1>3, <1>t
<1>4. \/ Answered(r)
      \/ \E u : AnsweredAndRevoked(r, u)
      \/ \E p \in {"begin", "apply"} : req' = [req EXCEPT ![r].pc = p] /\ ~At(r, "idle")
  BY DEF Handle, CountDevices, CreateDevice, Write, CreateUser, RestoreUser, ResetPassword,
         Begin, CreateFirstAdmin, UpdateUserAdmin, SoftDeleteUser, DeleteUserAccount, At
<1>5. CASE Answered(r)
  BY <1>1, <1>5 DEF Same, At
<1>6. CASE \E u : AnsweredAndRevoked(r, u)
  <2> DEFINE new == [req[q] EXCEPT !.overtaken = TRUE]
  <2>1. /\ new.op = req[q].op /\ new.pc = req[q].pc /\ new.user = req[q].user
        /\ new.password = req[q].password /\ new.overtaken
    BY <1>t DEF Request
  <2> QED  BY <1>2, <1>6, <2>1 DEF Same, At
<1>7. CASE \E p \in {"begin", "apply"} : req' = [req EXCEPT ![r].pc = p] /\ ~At(r, "idle")
  <2>1. PICK p \in {"begin", "apply"} : req' = [req EXCEPT ![r].pc = p] /\ ~At(r, "idle")
    BY <1>7
  <2> DEFINE new == [req[q] EXCEPT !.pc = p]
  <2>2. /\ new.op = req[q].op /\ new.pc = p /\ new.user = req[q].user
        /\ new.password = req[q].password /\ new.overtaken = req[q].overtaken
    BY <1>t DEF Request
  <2> QED  BY <1>3, <2>1, <2>2 DEF Same, At
<1> QED  BY <1>4, <1>5, <1>6, <1>7

\* A new request is of a user who is there, or of an admin.
LEMMA AuthoriseKeeps ==
    ASSUME TypeOK, RequestInv, NEW r \in Requests, Authorise(r), NEW q \in Requests
    PROVE  /\ UNCHANGED <<users, device, data, writer, serving, founded, late>>
           /\ q # r => req'[q] = req[q]
           /\ q = r =>
                /\ ~At(q, "idle")' /\ ~At(q, "apply")' /\ req'[q].op # "none" /\ serving
                /\ At(q, "begin")' => req'[q].op # "login"
                /\ req'[q].op \in OnUsers =>
                      req'[q].user \in Users /\ status[req'[q].user] # "none"
                /\ req'[q].op \in {"create", "createAdmin"} =>
                      \E u \in Users : status[u] # "none"
                /\ req'[q].op = "login" => /\ status[req'[q].user] = "active"
                                           /\ req'[q].password = password[req'[q].user]
                /\ req'[q].op = "write" =>
                      \E d \in Devices : device[d].user = req'[q].user
<1>1. ASSUME NEW o \in Panel \union {"setup", "write", "erase"}, NEW u, Send(r, o, "begin", u)
      PROVE  /\ UNCHANGED <<users, device, data, writer, serving, founded, late>>
             /\ q # r => req'[q] = req[q]
             /\ q = r => /\ req'[q].op = o /\ req'[q].pc = "begin" /\ req'[q].user = u
                         /\ serving
  <2>1. req' = [req EXCEPT ![r] = [Idle EXCEPT !.op = o, !.pc = "begin", !.user = u]]
    BY <1>1 DEF Send
  <2> DEFINE new == [Idle EXCEPT !.op = o, !.pc = "begin", !.user = u]
  <2>2. new.op = o /\ new.pc = "begin" /\ new.user = u
    BY DEF Idle
  <2> QED  BY <1>1, <2>1, <2>2 DEF Send, TypeOK
<1>2. CASE Setup(r)
  <2>1. Send(r, "setup", "begin", 0)
    BY <1>2 DEF Setup
  <2> QED  BY <1>1, <2>1 DEF At, OnUsers, Panel
<1>3. CASE PanelRequest(r)
  <2>0. \E u \in Users : status[u] # "none"
    BY <1>3 DEF PanelRequest, Admins, Active
  <2>1. CASE \E o \in {"create", "createAdmin"} : Send(r, o, "begin", 0)
    <3>1. PICK o \in {"create", "createAdmin"} : Send(r, o, "begin", 0)
      BY <2>1
    <3> QED  BY <1>1, <2>0, <3>1 DEF At, OnUsers, Panel
  <2>2. CASE \E o \in Panel \ {"create", "createAdmin"} :
                \E u \in {v \in Users : status[v] # "none"} : Send(r, o, "begin", u)
    <3>1. PICK o \in Panel \ {"create", "createAdmin"},
               u \in {v \in Users : status[v] # "none"} : Send(r, o, "begin", u)
      BY <2>2
    <3>2. u \in Users /\ status[u] # "none"
      OBVIOUS
    <3> QED  BY <1>1, <2>0, <3>1, <3>2 DEF At, OnUsers, Panel
  <2> QED  BY <1>3, <2>1, <2>2 DEF PanelRequest
<1>4. CASE Authenticated(r, "write") \/ Authenticated(r, "erase")
  <2>1. PICK o \in {"write", "erase"}, u \in Users :
            DevicesOf(u) # {} /\ Send(r, o, "begin", u)
    BY <1>4 DEF Authenticated
  <2>2. \E d \in Devices : device[d].user = u
    BY <2>1 DEF DevicesOf
  <2>3. status[u] # "none"
    BY <2>2, AccountsAssumption DEF RequestInv, Owners, Users
  <2> QED  BY <1>1, <2>1, <2>2, <2>3 DEF At, OnUsers, Panel
<1>5. CASE Login(r)
  <2>1. PICK u \in Active :
          req' = [req EXCEPT ![r] = [Idle EXCEPT !.op = "login", !.pc = "verify", !.user = u,
                                                 !.password = password[u]]]
    BY <1>5 DEF Login
  <2> DEFINE new == [Idle EXCEPT !.op = "login", !.pc = "verify", !.user = u,
                                 !.password = password[u]]
  <2>2. new.op = "login" /\ new.pc = "verify" /\ new.user = u /\ new.password = password[u]
    BY DEF Idle
  <2>3. q # r => req'[q] = req[q]
    BY <2>1 DEF TypeOK
  <2>4. q = r => req'[q] = new
    BY <2>1 DEF TypeOK
  <2>5. u \in Users /\ status[u] = "active"
    BY DEF Active
  <2> QED  BY <1>5, <2>2, <2>3, <2>4, <2>5 DEF Login, At, OnUsers, Panel
<1> QED  BY <1>2, <1>3, <1>4, <1>5 DEF Authorise

LEMMA OwnersStep == TypeOK /\ RequestInv /\ [Next]_vars => Owners'
<1> SUFFICES ASSUME TypeOK, RequestInv, [Next]_vars, NEW d \in Devices, device'[d].user # 0
             PROVE  device'[d].user \in Users /\ status'[device'[d].user] # "none"
  BY DEF Owners
<1>1. \/ device'[d] = device[d]
      \/ device'[d] = NoDevice
      \/ \E r \in Requests : req[r].op = "login" /\ device'[d].user = req[r].user
  <2>1. CASE \E r \in Requests : CreateDevice(r)
    BY <2>1 DEF CreateDevice, TypeOK
  <2>2. CASE \E r \in Requests : \E u : AnsweredAndRevoked(r, u)
    BY <2>2 DEF AnsweredAndRevoked
  <2>3. CASE \E e \in Devices : RevokeDevice(e)
    BY <2>3 DEF RevokeDevice, TypeOK
  <2>4. CASE UNCHANGED device
    BY <2>4
  <2> QED
    BY <2>1, <2>2, <2>3, <2>4, AuthoriseKeeps
    DEF Next, vars, Boot, Crash, Handle, CountDevices, Write, CreateUser, RestoreUser,
        ResetPassword, Begin, CreateFirstAdmin, UpdateUserAdmin, SoftDeleteUser, DeleteUserAccount
<1>2. CASE device'[d] = device[d]
  BY <1>2, UsersRemain DEF RequestInv, Owners
<1>3. CASE device'[d] = NoDevice
  BY <1>3 DEF NoDevice
<1>4. CASE \E r \in Requests : req[r].op = "login" /\ device'[d].user = req[r].user
  BY <1>4, UsersRemain DEF RequestInv, Served, OnUsers
<1> QED  BY <1>1, <1>2, <1>3, <1>4

LEMMA ServedStep ==
    TypeOK /\ RequestInv /\ [Next]_vars => \A q \in Requests : Served(q)'
<1> SUFFICES ASSUME TypeOK, RequestInv, [Next]_vars, NEW q \in Requests PROVE Served(q)'
  OBVIOUS
<1>s. Served(q) /\ \A u \in Users : status[u] # "none" => status'[u] # "none"
  BY UsersRemain DEF RequestInv
<1>i. ASSUME req'[q] = Idle PROVE Served(q)'
  BY <1>i DEF Idle, Served, At, OnUsers, Panel
<1>1. CASE Boot
  BY <1>1, <1>s DEF Boot, Served, At
<1>2. CASE Crash
  BY <1>2, <1>i DEF Crash
<1>3. ASSUME NEW r \in Requests, Authorise(r) PROVE Served(q)'
  <2>1. UNCHANGED <<status, serving>>
    BY <1>3, AuthoriseKeeps DEF users
  <2>2. CASE q # r
    BY <1>3, <1>s, <2>1, <2>2, AuthoriseKeeps DEF Served, At
  <2>3. CASE q = r
    BY <1>3, <2>1, <2>3, AuthoriseKeeps DEF Served, At
  <2> QED  BY <2>2, <2>3
<1>4. ASSUME NEW r \in Requests, Handle(r) PROVE Served(q)'
  <2>1. UNCHANGED serving
    BY <1>4 DEF Handle, CountDevices, CreateDevice, Write, CreateUser, RestoreUser, ResetPassword,
                Begin, CreateFirstAdmin, UpdateUserAdmin, SoftDeleteUser, DeleteUserAccount
  <2>2. req'[q] = Idle \/ (Same(q) /\ (At(q, "idle")' <=> At(q, "idle")))
    BY <1>4, HandleKeeps
  <2> QED  BY <1>i, <1>s, <2>1, <2>2 DEF Served, Same
<1>5. CASE UNCHANGED vars \/ \E d \in Devices : RevokeDevice(d)
  BY <1>5, <1>s DEF vars, users, RevokeDevice, Served, At
<1> QED  BY <1>1, <1>2, <1>3, <1>4, <1>5 DEF Next

LEMMA LockedStep ==
    TypeOK /\ RequestInv /\ [Next]_vars => \A q \in Requests : Locked(q)'
<1> SUFFICES ASSUME TypeOK, RequestInv, [Next]_vars, NEW q \in Requests, At(q, "apply")'
             PROVE  Locked(q)'
  BY DEF Locked
<1>l. writer' = q /\ q # NoRequest
  BY TypeStep, AccountsAssumption DEF TypeOK
<1>k. ASSUME UNCHANGED <<status, admin>>, req'[q] = req[q] PROVE Locked(q)'
  <2>1. Locked(q)
    BY DEF RequestInv
  <2> QED  BY <1>k, <2>1 DEF Locked, At, MayGo, Admins, Active
<1>1. CASE Boot
  BY <1>1 DEF Boot, RequestInv, Served, At
<1>2. CASE Crash
  BY <1>2, <1>l DEF Crash
<1>3. ASSUME NEW r \in Requests, Authorise(r) PROVE Locked(q)'
  <2>1. UNCHANGED <<status, admin>>
    BY <1>3, AuthoriseKeeps DEF users
  <2> QED  BY <1>3, <1>k, <2>1, AuthoriseKeeps
<1>4. ASSUME NEW r \in Requests, CountDevices(r) PROVE Locked(q)'
  <2>1. UNCHANGED <<status, admin>>
    BY <1>4 DEF CountDevices, users
  <2>2. req'[q] = req[q]
    BY <1>4 DEF CountDevices, Answered, TypeOK, At, Idle, Request
  <2> QED  BY <1>k, <2>1, <2>2
<1>5. ASSUME NEW r \in Requests, Begin(r) PROVE Locked(q)'
  <2>1. UNCHANGED <<status, admin>>
    BY <1>5 DEF Begin, users
  <2>2. writer = NoRequest
    BY <1>5 DEF Begin, Unlocked
  <2>3. /\ r = q /\ req' = [req EXCEPT ![r].pc = "apply"]
        /\ req[r].op \in Guarded \union {"setup"}
        /\ IF req[r].op = "setup" THEN Active = {} ELSE MayGo(req[r].user)
    BY <1>5, <1>l, <2>2 DEF Begin, Lock
  <2>4. req'[q].op = req[q].op /\ req'[q].user = req[q].user
    BY <2>3 DEF TypeOK, Request
  <2> QED  BY <2>1, <2>3, <2>4 DEF Locked, MayGo, Admins, Active
<1>6. ASSUME NEW r \in Requests, Handle(r), ~CountDevices(r), ~Begin(r) PROVE FALSE
  <2>1. writer' = NoRequest
    BY <1>6 DEF Handle, CreateDevice, Write, CreateUser, RestoreUser, ResetPassword, Unlocked,
         CreateFirstAdmin, UpdateUserAdmin, SoftDeleteUser, DeleteUserAccount, Commits
  <2> QED  BY <1>l, <2>1
<1>7. CASE UNCHANGED vars \/ \E d \in Devices : RevokeDevice(d)
  BY <1>7, <1>k DEF vars, users, RevokeDevice
<1> QED  BY <1>1, <1>2, <1>3, <1>4, <1>5, <1>6, <1>7 DEF Next

LEMMA RequestInit == Init => RequestInv
  BY DEF Init, RequestInv, Owners, Served, Locked, Idle, NoDevice, At, OnUsers, Panel

-----------------------------------------------------------------------------
(* Admins.                                                                 *)

\* Whoever may go is not the last admin.
LEMMA AnotherAdmin ==
    ASSUME AnAdminRemains, NEW u \in Users, MayGo(u)
    PROVE  \E v \in Admins : v # u
<1>1. u \in Active /\ status[u] # "none" /\ Admins # {}
  BY DEF MayGo, Active, AnAdminRemains
<1>2. CASE u \notin Admins
  BY <1>1, <1>2
<1>3. CASE u \in Admins
  <2>1. Cardinality(Admins) > 1
    BY <1>3 DEF MayGo
  <2>2. Cardinality({u}) = 1
    BY FS_Singleton
  <2>3. Admins # {u}
    BY <2>1, <2>2
  <2> QED  BY <1>3, <2>3
<1> QED  BY <1>2, <1>3

LEMMA AdminStep ==
    TypeOK /\ RequestInv /\ AdminInv /\ [Next]_vars => AdminInv'
<1> SUFFICES ASSUME TypeOK, RequestInv, AdminInv, [Next]_vars PROVE AdminInv'
  OBVIOUS
<1>t. status \in [Users -> {"none", "active", "deleted", "gone"}] /\ admin \in [Users -> BOOLEAN]
  BY DEF TypeOK
<1>i. AnAdminRemains /\ FoundedFirst
  BY DEF AdminInv
<1>f. ASSUME UNCHANGED founded PROVE FoundedFirst'
  BY <1>i, <1>f, UsersRemain DEF FoundedFirst
<1>1. CASE UNCHANGED <<status, admin, founded>>
  BY <1>1, <1>i DEF AdminInv, AnAdminRemains, FoundedFirst, Admins, Active
<1>2. ASSUME NEW u \in Users, Founds(u) PROVE AdminInv'
  <2>1. u \in Admins'
    BY <1>2, <1>t DEF Founds, Create, Admins, Active
  <2>2. founded = 0
    BY <1>2, <1>i DEF Founds, FoundedFirst, AnAdminRemains, Admins
  <2>3. founded' = 1 /\ status'[u] # "none"
    BY <1>2, <1>t, <2>2 DEF Founds, Create
  <2> QED  BY <2>1, <2>3 DEF AdminInv, AnAdminRemains, FoundedFirst
<1>3. ASSUME NEW u \in Users, Adds(u) PROVE AdminInv'
  <2>1. PICK v \in Admins : TRUE
    BY <1>3, <1>i DEF Adds, AnAdminRemains
  <2>2. v \in Admins'
    BY <1>3, <1>t DEF Adds, IsNext, Create, Admins, Active
  <2> QED  BY <1>3, <1>f, <2>2 DEF Adds, AdminInv, AnAdminRemains
<1>4. ASSUME NEW u \in Users, Restores(u) PROVE AdminInv'
  <2>1. PICK v \in Admins : TRUE
    BY <1>4, <1>i DEF Restores, AnAdminRemains
  <2>2. v \in Admins'
    BY <1>4, <1>t DEF Restores, Admins, Active
  <2> QED  BY <1>4, <1>f, <2>2 DEF Restores, AdminInv, AnAdminRemains
<1>5. ASSUME NEW u \in Users, Changes(u) PROVE AdminInv'
  <2>1. PICK v \in Admins : v # u
    BY <1>5, <1>i, AnotherAdmin DEF Changes
  <2>2. v \in Admins'
    BY <1>5, <1>t, <2>1 DEF Changes, Admins, Active
  <2> QED  BY <1>5, <1>f, <2>2 DEF Changes, AdminInv, AnAdminRemains
<1> QED  BY <1>1, <1>2, <1>3, <1>4, <1>5, UsersStep

LEMMA AdminInit == Init => AdminInv
  BY DEF Init, AdminInv, AnAdminRemains, FoundedFirst

-----------------------------------------------------------------------------
(* Revocations.                                                            *)

\* Steps that revoke nothing: nobody is deactivated, reset or erased.
LEMMA QuietStep ==
    ASSUME TypeOK, RequestInv, RevokedInv,
           \A q \in Requests : req'[q] = Idle \/ Same(q),
           \A u \in Users : /\ password'[u] = password[u]
                            /\ \/ status'[u] = status[u]
                               \/ status[u] \in {"none", "deleted"} /\ status'[u] = "active",
           \A d \in Devices : device'[d] = device[d] \/ device'[d] = NoDevice,
           UNCHANGED <<data, late>>
    PROVE  RevokedInv'
<1>1. ASSUME NEW q \in Requests PROVE Overtaken(q)'
  <2>1. CASE req'[q] = Idle
    BY <2>1 DEF Idle, Overtaken
  <2>2. CASE Same(q)
    <3>1. Overtaken(q)
      BY DEF RevokedInv
    <3>2. req[q].op \in {"login", "write"} => req[q].user \in Users
      BY DEF RequestInv, Served, OnUsers
    <3> QED  BY <2>2, <3>1, <3>2 DEF Same, Overtaken
  <2> QED  BY <2>1, <2>2
<1>2. RevocationsHold'
  <2> SUFFICES ASSUME NEW d \in Devices, device'[d].user # 0
               PROVE  LET u == device'[d].user
                      IN  /\ status'[u] \in {"active", "deleted"}
                          /\ status'[u] = "deleted" \/ device'[d].password < password'[u] =>
                                 device'[d].overtaken
    BY DEF RevocationsHold
  <2>1. device'[d] = device[d]
    BY DEF NoDevice
  <2>2. device[d].user \in Users
    BY <2>1 DEF RequestInv, Owners
  <2>3. LET u == device[d].user
        IN  /\ status[u] \in {"active", "deleted"}
            /\ status[u] = "deleted" \/ device[d].password < password[u] => device[d].overtaken
    BY <2>1 DEF RevokedInv, RevocationsHold
  <2> QED  BY <2>1, <2>2, <2>3
<1>3. ErasedAccountsAreEmpty'
  BY DEF RevokedInv, ErasedAccountsAreEmpty, TypeOK
<1> QED  BY <1>1, <1>2, <1>3 DEF RevokedInv

\* Steps that revoke the devices of u change what is known of u and of no other.
LEMMA RevokingStep ==
    ASSUME TypeOK, RequestInv, RevokedInv, NEW r \in Requests, Handle(r), NEW u \in Users,
           AnsweredAndRevoked(r, u),
           \A v \in Users \ {u} : status'[v] = status[v] /\ password'[v] = password[v],
           data' \subseteq data, u \in data' => status'[u] # "gone",
           UNCHANGED late
    PROVE  RevokedInv'
<1>1. ASSUME NEW q \in Requests PROVE Overtaken(q)'
  <2>1. CASE q = r
    BY <2>1 DEF AnsweredAndRevoked, Idle, Overtaken
  <2>2. CASE q # r /\ req[q].op \in {"login", "write"} /\ req[q].user = u
    <3>1. req'[q] = [req[q] EXCEPT !.overtaken = TRUE] /\ req[q] \in Request
      BY <2>2 DEF AnsweredAndRevoked, TypeOK
    <3>2. req'[q].overtaken
      BY <3>1 DEF Request
    <3> QED  BY <3>2 DEF Overtaken
  <2>3. CASE q # r /\ ~(req[q].op \in {"login", "write"} /\ req[q].user = u)
    <3>1. req'[q] = req[q]
      BY <2>3 DEF AnsweredAndRevoked
    <3>2. Overtaken(q)
      BY DEF RevokedInv
    <3>3. req[q].op \in {"login", "write"} => req[q].user \in Users \ {u}
      BY <2>3 DEF RequestInv, Served, OnUsers
    <3> QED  BY <3>1, <3>2, <3>3 DEF Overtaken
  <2> QED  BY <2>1, <2>2, <2>3
<1>2. RevocationsHold'
  <2> SUFFICES ASSUME NEW d \in Devices, device'[d].user # 0
               PROVE  LET v == device'[d].user
                      IN  /\ status'[v] \in {"active", "deleted"}
                          /\ status'[v] = "deleted" \/ device'[d].password < password'[v] =>
                                 device'[d].overtaken
    BY DEF RevocationsHold
  <2>1. device'[d] = device[d] /\ device[d].user # u
    BY DEF AnsweredAndRevoked, DevicesOf, NoDevice
  <2>2. device[d].user \in Users \ {u}
    BY <2>1 DEF RequestInv, Owners
  <2>3. LET v == device[d].user
        IN  /\ status[v] \in {"active", "deleted"}
            /\ status[v] = "deleted" \/ device[d].password < password[v] => device[d].overtaken
    BY <2>1 DEF RevokedInv, RevocationsHold
  <2> QED  BY <2>1, <2>2, <2>3
<1>3. ErasedAccountsAreEmpty'
  BY DEF RevokedInv, ErasedAccountsAreEmpty, TypeOK
<1> QED  BY <1>1, <1>2, <1>3 DEF RevokedInv

LEMMA RevokedStep ==
    TypeOK /\ RequestInv /\ RevokedInv /\ [Next]_vars => RevokedInv'
<1> SUFFICES ASSUME TypeOK, RequestInv, RevokedInv, [Next]_vars PROVE RevokedInv'
  OBVIOUS
<1>t. /\ status \in [Users -> {"none", "active", "deleted", "gone"}]
      /\ \A r \in Requests : req[r] \in Request
  BY DEF TypeOK
<1>h. ASSUME NEW r \in Requests, Handle(r) PROVE \A q \in Requests : req'[q] = Idle \/ Same(q)
  BY <1>h, HandleKeeps
<1>1. CASE Boot
  <2>1. \A u \in Users : status'[u] = status[u] \/ (status[u] = "none" /\ status'[u] = "active")
    BY <1>1, <1>t DEF Boot, IsNext, Create
  <2> QED  BY <1>1, <2>1, QuietStep DEF Boot, Same
<1>2. CASE Crash \/ UNCHANGED vars \/ \E d \in Devices : RevokeDevice(d)
  <2>1. \A q \in Requests : req'[q] = Idle \/ Same(q)
    BY <1>2 DEF Crash, vars, RevokeDevice, Same
  <2>2. \A d \in Devices : device'[d] = device[d] \/ device'[d] = NoDevice
    BY <1>2 DEF Crash, vars, RevokeDevice, TypeOK
  <2>3. UNCHANGED <<users, data, late>>
    BY <1>2 DEF Crash, vars, RevokeDevice
  <2> QED  BY <2>1, <2>2, <2>3, QuietStep DEF users
<1>3. ASSUME NEW r \in Requests, Authorise(r) PROVE RevokedInv'
  <2>1. UNCHANGED <<users, device, data, late>>
    BY <1>3, AuthoriseKeeps
  <2>2. ASSUME NEW q \in Requests PROVE Overtaken(q)'
    <3>1. CASE q # r
      <4>1. req'[q] = req[q] /\ Overtaken(q)
        BY <1>3, <3>1, AuthoriseKeeps DEF RevokedInv
      <4> QED  BY <2>1, <4>1 DEF Overtaken, users
    <3>2. CASE q = r
      <4>1. ASSUME req'[q].op = "login" PROVE Overtaken(q)'
        <5>1. /\ status[req'[q].user] = "active" /\ req'[q].password = password[req'[q].user]
              /\ req'[q].user \in Users
          BY <1>3, <3>2, <4>1, AuthoriseKeeps DEF OnUsers
        <5>2. password[req'[q].user] \in Nat
          BY <5>1, AccountsAssumption DEF TypeOK
        <5>3. ~(req'[q].password < password[req'[q].user])
          BY <5>1, <5>2
        <5> QED  BY <2>1, <4>1, <5>1, <5>3 DEF Overtaken, users
      <4>2. ASSUME req'[q].op = "write" PROVE Overtaken(q)'
        <5>1. PICK d \in Devices : device[d].user = req'[q].user
          BY <1>3, <3>2, <4>2, AuthoriseKeeps
        <5>2. req'[q].user \in Users
          BY <1>3, <3>2, <4>2, AuthoriseKeeps DEF OnUsers
        <5>3. device[d].user # 0
          BY <5>1, <5>2, AccountsAssumption DEF Users
        <5>4. status[req'[q].user] # "gone"
          BY <5>1, <5>3 DEF RevokedInv, RevocationsHold
        <5> QED  BY <2>1, <4>2, <5>4 DEF Overtaken, users
      <4> QED  BY <4>1, <4>2 DEF Overtaken
    <3> QED  BY <3>1, <3>2
  <2>3. RevocationsHold' /\ ErasedAccountsAreEmpty'
    BY <2>1 DEF RevokedInv, RevocationsHold, ErasedAccountsAreEmpty, users
  <2> QED  BY <2>2, <2>3 DEF RevokedInv
<1>4. ASSUME NEW r \in Requests, CreateDevice(r) PROVE RevokedInv'
  <2>1. UNCHANGED <<users, data, late>>
    BY <1>4 DEF CreateDevice
  <2>2. ASSUME NEW q \in Requests PROVE Overtaken(q)'
    <3>1. req'[q] = Idle \/ req'[q] = req[q]
      BY <1>4 DEF CreateDevice, Answered, TypeOK
    <3>2. Overtaken(q)
      BY DEF RevokedInv
    <3> QED  BY <2>1, <3>1, <3>2 DEF Overtaken, Idle, users
  <2>3. RevocationsHold'
    <3>o. req[r].op = "login" /\ req[r].user \in Users /\ status[req[r].user] # "none"
      BY <1>4 DEF CreateDevice, RequestInv, Served, OnUsers
    <3> SUFFICES ASSUME NEW d \in Devices, device'[d].user # 0
                 PROVE  LET v == device'[d].user
                        IN  /\ status[v] \in {"active", "deleted"}
                            /\ status[v] = "deleted" \/ device'[d].password < password[v] =>
                                   device'[d].overtaken
      BY <2>1 DEF RevocationsHold, users
    <3>1. CASE device'[d] = device[d]
      BY <3>1 DEF RevokedInv, RevocationsHold
    <3>2. CASE device'[d] # device[d]
      <4>1. /\ status[req[r].user] # "gone"
            /\ device'[d] = [user |-> req[r].user, password |-> req[r].password,
                             overtaken |-> req[r].overtaken]
        BY <1>4, <3>2 DEF CreateDevice, TypeOK
      <4>2. Overtaken(r) /\ status[req[r].user] \in {"active", "deleted"}
        BY <1>t, <3>o, <4>1 DEF RevokedInv
      <4> QED  BY <3>o, <4>1, <4>2 DEF Overtaken
    <3> QED  BY <3>1, <3>2
  <2>4. ErasedAccountsAreEmpty'
    BY <2>1 DEF RevokedInv, ErasedAccountsAreEmpty, users
  <2> QED  BY <2>2, <2>3, <2>4 DEF RevokedInv
<1>5. ASSUME NEW r \in Requests, Write(r) PROVE RevokedInv'
  <2>1. UNCHANGED <<users, device>>
    BY <1>5 DEF Write
  <2>2. ASSUME NEW q \in Requests PROVE Overtaken(q)'
    <3>1. req'[q] = Idle \/ req'[q] = req[q]
      BY <1>5 DEF Write, Answered, TypeOK
    <3>2. Overtaken(q)
      BY DEF RevokedInv
    <3> QED  BY <2>1, <3>1, <3>2 DEF Overtaken, Idle, users
  <2>3. RevocationsHold'
    BY <2>1 DEF RevokedInv, RevocationsHold, users
  <2>4. ErasedAccountsAreEmpty'
    <3>1. /\ data' = data \union {req[r].user}
          /\ late' = IF req[r].overtaken THEN late \union {req[r].user} ELSE late
          /\ req[r].op = "write" /\ UNCHANGED status
      BY <1>5 DEF Write, users
    <3>2. Overtaken(r)
      BY DEF RevokedInv
    <3> QED  BY <3>1, <3>2 DEF RevokedInv, ErasedAccountsAreEmpty, Overtaken
  <2> QED  BY <2>2, <2>3, <2>4 DEF RevokedInv
<1>6. ASSUME NEW r \in Requests,
             CountDevices(r) \/ Begin(r) \/ UpdateUserAdmin(r)
      PROVE  RevokedInv'
  <2>1. Handle(r) /\ UNCHANGED <<status, password, device, data, late>>
    BY <1>6 DEF Handle, CountDevices, Begin, UpdateUserAdmin, users
  <2> QED  BY <1>h, <2>1, QuietStep
<1>7. ASSUME NEW r \in Requests, CreateUser(r) \/ CreateFirstAdmin(r) PROVE RevokedInv'
  <2>1. Handle(r) /\ UNCHANGED <<password, device, data, late>>
    BY <1>7 DEF Handle, CreateUser, CreateFirstAdmin
  <2>2. \A u \in Users : status'[u] = status[u] \/ (status[u] = "none" /\ status'[u] = "active")
    BY <1>7, <1>t DEF CreateUser, CreateFirstAdmin, IsNext, Create
  <2> QED  BY <1>h, <2>1, <2>2, QuietStep
<1>8. ASSUME NEW r \in Requests, RestoreUser(r) PROVE RevokedInv'
  <2>1. Handle(r) /\ UNCHANGED <<password, device, data, late>>
    BY <1>8 DEF Handle, RestoreUser
  <2>2. \A u \in Users :
          status'[u] = status[u] \/ (status[u] = "deleted" /\ status'[u] = "active")
    BY <1>8, <1>t DEF RestoreUser
  <2> QED  BY <1>h, <2>1, <2>2, QuietStep
<1>9. ASSUME NEW r \in Requests, ResetPassword(r) PROVE RevokedInv'
  <2>1. Handle(r) /\ UNCHANGED <<status, data, late>>
    BY <1>9 DEF Handle, ResetPassword
  <2>2. CASE /\ req[r].user \in Active
             /\ password' = [password EXCEPT ![req[r].user] = @ + 1]
             /\ AnsweredAndRevoked(r, req[r].user)
    <3>1. req[r].user \in Users /\ status[req[r].user] = "active"
      BY <2>2 DEF Active
    <3>2. \A v \in Users \ {req[r].user} : password'[v] = password[v]
      BY <2>2 DEF TypeOK
    <3> QED  BY <2>1, <2>2, <3>1, <3>2, RevokingStep
  <2>3. CASE UNCHANGED <<password, device>>
    BY <1>h, <2>1, <2>3, QuietStep
  <2> QED  BY <1>9, <2>2, <2>3 DEF ResetPassword
<1>10. ASSUME NEW r \in Requests, SoftDeleteUser(r) \/ DeleteUserAccount(r) PROVE RevokedInv'
  <2> DEFINE u == req[r].user
  <2>1. u \in Users
    BY <1>10 DEF SoftDeleteUser, DeleteUserAccount, Commits, RequestInv, Locked, MayGo, Active
  <2>2. Handle(r) /\ AnsweredAndRevoked(r, u) /\ UNCHANGED late
    BY <1>10 DEF Handle, SoftDeleteUser, DeleteUserAccount
  <2>3. \A v \in Users \ {u} : status'[v] = status[v] /\ password'[v] = password[v]
    BY <1>10 DEF SoftDeleteUser, DeleteUserAccount, TypeOK
  <2>4. data' \subseteq data /\ (u \in data' => status'[u] # "gone")
    BY <1>10, <2>1 DEF SoftDeleteUser, DeleteUserAccount, Owned, TypeOK
  <2> QED  BY <2>1, <2>2, <2>3, <2>4, RevokingStep
<1> QED  BY <1>1, <1>2, <1>3, <1>4, <1>5, <1>6, <1>7, <1>8, <1>9, <1>10 DEF Next, Handle

LEMMA RevokedInit == Init => RevokedInv
  BY DEF Init, RevokedInv, Overtaken, RevocationsHold, ErasedAccountsAreEmpty, Idle, NoDevice

-----------------------------------------------------------------------------
(* The device limit.                                                       *)

LEMMA FiniteCounts ==
    ASSUME NEW u
    PROVE  /\ IsFiniteSet(DevicesOf(u)) /\ Cardinality(DevicesOf(u)) \in Nat
           /\ IsFiniteSet(Pending(u)) /\ Cardinality(Pending(u)) \in Nat
           /\ Cardinality(Pending(u)) <= Cardinality(Requests) /\ Cardinality(Requests) \in Nat
<1>1. DevicesOf(u) \in SUBSET Devices /\ Pending(u) \in SUBSET Requests
  BY DEF DevicesOf, Pending
<1>2. IsFiniteSet(Devices) /\ IsFiniteSet(Requests)
  BY AccountsAssumption
<1>3. IsFiniteSet(DevicesOf(u)) /\ IsFiniteSet(Pending(u))
  BY <1>1, <1>2, FS_Subset
<1> QED  BY <1>1, <1>2, <1>3, FS_Subset, FS_CardinalityType

LEMMA DevicesInit == Init => DevicesInv
<1> SUFFICES ASSUME Init, MaxDevicesPerUser > 0, NEW u \in Users
             PROVE  Cardinality(DevicesOf(u)) + Cardinality(Pending(u))
                        <= MaxDevicesPerUser + Cardinality(Requests) - 1
  BY DEF DevicesInv
<1>1. DevicesOf(u) = {} /\ Pending(u) = {}
  BY AccountsAssumption DEF Init, DevicesOf, Pending, Idle, NoDevice, Users
<1>2. Cardinality(DevicesOf(u)) = 0 /\ Cardinality(Pending(u)) = 0
  BY <1>1, FS_EmptySet
<1> QED  BY <1>2, FiniteCounts, AccountsAssumption

\* Nobody gains a device, and no login gets past the count.
LEMMA NoMoreDevices ==
    ASSUME DevicesInv,
           \A d \in Devices : device'[d] = device[d] \/ device'[d] = NoDevice,
           \A q \in Requests : \A u \in Users : q \in Pending(u)' => q \in Pending(u)
    PROVE  DevicesInv'
<1> SUFFICES ASSUME MaxDevicesPerUser > 0, NEW u \in Users
             PROVE  Cardinality(DevicesOf(u)') + Cardinality(Pending(u)')
                        <= MaxDevicesPerUser + Cardinality(Requests) - 1
  BY DEF DevicesInv
<1>1. DevicesOf(u)' \in SUBSET DevicesOf(u)
  BY AccountsAssumption DEF DevicesOf, NoDevice, Users
<1>2. Pending(u)' \in SUBSET Pending(u)
  BY DEF Pending
<1>3. /\ IsFiniteSet(DevicesOf(u)') /\ Cardinality(DevicesOf(u)') <= Cardinality(DevicesOf(u))
      /\ IsFiniteSet(Pending(u)') /\ Cardinality(Pending(u)') <= Cardinality(Pending(u))
  BY <1>1, <1>2, FiniteCounts, FS_Subset
<1>4. Cardinality(DevicesOf(u)') \in Nat /\ Cardinality(Pending(u)') \in Nat
  BY <1>3, FS_CardinalityType
<1>5. Cardinality(DevicesOf(u)) + Cardinality(Pending(u))
          <= MaxDevicesPerUser + Cardinality(Requests) - 1
  BY DEF DevicesInv
<1> QED  BY <1>3, <1>4, <1>5, FiniteCounts, AccountsAssumption

LEMMA DevicesStep ==
    TypeOK /\ RequestInv /\ DevicesInv /\ [Next]_vars => DevicesInv'
<1> SUFFICES ASSUME TypeOK, RequestInv, DevicesInv, [Next]_vars PROVE DevicesInv'
  OBVIOUS
<1>1. CASE Boot \/ Crash \/ UNCHANGED vars \/ \E d \in Devices : RevokeDevice(d)
  <2>1. \A d \in Devices : device'[d] = device[d] \/ device'[d] = NoDevice
    BY <1>1 DEF Boot, Crash, vars, RevokeDevice, TypeOK
  <2>2. \A q \in Requests : req'[q] = Idle \/ req'[q] = req[q]
    BY <1>1 DEF Boot, Crash, vars, RevokeDevice
  <2>3. \A q \in Requests : \A u \in Users : q \in Pending(u)' => q \in Pending(u)
    BY <2>2 DEF Pending, At, Idle
  <2> QED  BY <2>1, <2>3, NoMoreDevices
<1>2. ASSUME NEW r \in Requests, Authorise(r) PROVE DevicesInv'
  <2>1. UNCHANGED device
    BY <1>2, AuthoriseKeeps
  <2>2. \A q \in Requests : \A u \in Users : q \in Pending(u)' => q \in Pending(u)
    BY <1>2, AuthoriseKeeps DEF Pending, At
  <2> QED  BY <2>1, <2>2, NoMoreDevices
<1>3. ASSUME NEW r \in Requests, Handle(r), ~CountDevices(r), ~CreateDevice(r)
      PROVE  DevicesInv'
  <2>1. \A d \in Devices : device'[d] = device[d] \/ device'[d] = NoDevice
    BY <1>3 DEF Handle, Write, CreateUser, RestoreUser, ResetPassword, Begin, CreateFirstAdmin,
         UpdateUserAdmin, SoftDeleteUser, DeleteUserAccount, AnsweredAndRevoked
  <2>2. req'[r].pc # "begin"
    <3>1. \/ Answered(r) \/ \E u : AnsweredAndRevoked(r, u)
          \/ req' = [req EXCEPT ![r].pc = "apply"]
      BY <1>3 DEF Handle, Write, CreateUser, RestoreUser, ResetPassword, Begin,
           CreateFirstAdmin, UpdateUserAdmin, SoftDeleteUser, DeleteUserAccount
    <3>2. CASE Answered(r)
      BY <3>2 DEF Answered, Idle, TypeOK
    <3>3. CASE \E u : AnsweredAndRevoked(r, u)
      BY <3>3 DEF AnsweredAndRevoked, Idle
    <3>4. CASE req' = [req EXCEPT ![r].pc = "apply"]
      BY <3>4 DEF TypeOK, Request
    <3> QED  BY <3>1, <3>2, <3>3, <3>4
  <2>3. \A q \in Requests : \A u \in Users : q \in Pending(u)' => q \in Pending(u)
    BY <1>3, <2>2, HandleKeeps DEF Pending, At, Same
  <2> QED  BY <2>1, <2>3, NoMoreDevices
<1>4. ASSUME NEW r \in Requests, CountDevices(r) PROVE DevicesInv'
  <2>1. UNCHANGED device /\ Handle(r)
    BY <1>4 DEF CountDevices, Handle
  <2>2. CASE Answered(r)
    <3>1. \A q \in Requests : \A u \in Users : q \in Pending(u)' => q \in Pending(u)
      BY <2>2 DEF Answered, Pending, At, Idle, TypeOK
    <3> QED  BY <2>1, <3>1, NoMoreDevices
  <2>3. CASE HasRoom(req[r].user) /\ ~Answered(r)
    <3> SUFFICES ASSUME MaxDevicesPerUser > 0, NEW u \in Users
                 PROVE  Cardinality(DevicesOf(u)') + Cardinality(Pending(u)')
                            <= MaxDevicesPerUser + Cardinality(Requests) - 1
      BY DEF DevicesInv
    <3>0. DevicesOf(u)' = DevicesOf(u)
      BY <2>1 DEF DevicesOf
    <3>1. CASE u = req[r].user
      <4>1. Cardinality(DevicesOf(u)) < MaxDevicesPerUser
        BY <2>3, <3>1, AccountsAssumption DEF HasRoom
      <4>2. Pending(u)' \in SUBSET Requests
        BY DEF Pending
      <4>3. Cardinality(Pending(u)') <= Cardinality(Requests) /\ Cardinality(Pending(u)') \in Nat
        BY <4>2, AccountsAssumption, FS_Subset, FS_CardinalityType
      <4> QED  BY <3>0, <4>1, <4>3, FiniteCounts, AccountsAssumption
    <3>2. CASE u # req[r].user
      <4>1. Pending(u)' = Pending(u)
        BY <1>4, <2>1, <3>2, HandleKeeps DEF Pending, At, Same, Idle, CountDevices
      <4> QED  BY <3>0, <4>1 DEF DevicesInv
    <3> QED  BY <3>1, <3>2
  <2> QED  BY <1>4, <2>2, <2>3 DEF CountDevices
<1>5. ASSUME NEW r \in Requests, CreateDevice(r) PROVE DevicesInv'
  <2>1. \A q \in Requests : IF q = r THEN req'[q] = Idle ELSE req'[q] = req[q]
    BY <1>5 DEF CreateDevice, Answered, TypeOK
  <2>2. \A u \in Users : Pending(u)' = Pending(u) \ {r}
    BY <2>1 DEF Pending, At, Idle
  <2>3. CASE UNCHANGED device
    <3>1. \A q \in Requests : \A u \in Users : q \in Pending(u)' => q \in Pending(u)
      BY <2>2
    <3> QED  BY <2>3, <3>1, NoMoreDevices
  <2>4. ASSUME NEW d \in Free,
               device' = [device EXCEPT ![d] =
                            [user |-> req[r].user, password |-> req[r].password,
                             overtaken |-> req[r].overtaken]]
        PROVE  DevicesInv'
    <3> SUFFICES ASSUME MaxDevicesPerUser > 0, NEW u \in Users
                 PROVE  Cardinality(DevicesOf(u)') + Cardinality(Pending(u)')
                            <= MaxDevicesPerUser + Cardinality(Requests) - 1
      BY DEF DevicesInv
    <3>i. Cardinality(DevicesOf(u)) + Cardinality(Pending(u))
              <= MaxDevicesPerUser + Cardinality(Requests) - 1
      BY DEF DevicesInv
    <3>d. d \in Devices /\ d \notin DevicesOf(u)
      BY <2>4, AccountsAssumption DEF Free, DevicesOf, Users
    <3>1. CASE u = req[r].user
      <4>1. DevicesOf(u)' = DevicesOf(u) \union {d}
        BY <2>4, <3>1, <3>d DEF DevicesOf, TypeOK
      <4>2. Cardinality(DevicesOf(u)') = Cardinality(DevicesOf(u)) + 1
        BY <3>d, <4>1, FiniteCounts, FS_AddElement
      <4>3. r \in Pending(u)
        BY <1>5, <3>1 DEF CreateDevice, Pending
      <4>4. Cardinality(Pending(u)') = Cardinality(Pending(u)) - 1
        BY <2>2, <4>3, FiniteCounts, FS_RemoveElement
      <4> QED  BY <3>i, <4>2, <4>4, FiniteCounts, AccountsAssumption
    <3>2. CASE u # req[r].user
      <4>1. DevicesOf(u)' = DevicesOf(u)
        BY <2>4, <3>2, <3>d DEF DevicesOf, TypeOK
      <4>2. r \notin Pending(u)
        BY <3>2 DEF Pending
      <4>3. Pending(u)' = Pending(u)
        BY <2>2, <4>2
      <4> QED  BY <3>i, <4>1, <4>3
    <3> QED  BY <3>1, <3>2
  <2> QED  BY <1>5, <2>3, <2>4 DEF CreateDevice
<1> QED  BY <1>1, <1>2, <1>3, <1>4, <1>5 DEF Next

-----------------------------------------------------------------------------
(* Theorems.                                                               *)

\* Users, devices and requests keep their types, and only the request that holds
\* the write lock is in the middle of a transaction (internal/db/db.go:33); what
\* it has checked is still so when it commits (internal/auth/store.go:482).
THEOREM AccountsTypeCorrect == Spec => [](TypeOK /\ RequestInv)
<1>1. Init => TypeOK /\ RequestInv
  BY TypeInit, RequestInit
<1>2. TypeOK /\ RequestInv /\ [Next]_vars => (TypeOK /\ RequestInv)'
  BY TypeStep, OwnersStep, ServedStep, LockedStep DEF RequestInv
<1> QED  BY <1>1, <1>2, PTL DEF Spec

LEMMA AdminInvariant == Spec => []AdminInv
<1>1. Init => AdminInv
  BY AdminInit
<1>2. TypeOK /\ RequestInv /\ AdminInv /\ [Next]_vars => AdminInv'
  BY AdminStep
<1> QED  BY <1>1, <1>2, AccountsTypeCorrect, PTL DEF Spec

\* Once there was a user there is an active admin, whatever admins do to each other
\* at once (internal/auth/store.go:461).
THEOREM AdminsRemain == Spec => []AnAdminRemains
<1>1. AdminInv => AnAdminRemains
  BY DEF AdminInv
<1> QED  BY <1>1, AdminInvariant, PTL

\* There never was more than one first admin (internal/auth/store.go:588).
THEOREM FirstAdminIsMadeOnce == Spec => []FoundedOnce
<1>1. AdminInv => FoundedOnce
  BY DEF AdminInv, FoundedFirst, FoundedOnce
<1> QED  BY <1>1, AdminInvariant, PTL

LEMMA RevokedInvariant == Spec => []RevokedInv
  BY RevokedInit, RevokedStep, AccountsTypeCorrect, PTL DEF Spec

\* A device that outlives the deactivation or the reset of its user comes from a
\* login that was under way at that time (internal/auth/store.go:435, :520).
THEOREM RevokedIsRevoked == Spec => []RevocationsHold
<1>1. RevokedInv => RevocationsHold
  BY DEF RevokedInv
<1> QED  BY <1>1, RevokedInvariant, PTL

\* What is left of an erased user comes from a login or a write that was under way
\* at that time (internal/auth/store.go:750).
THEOREM ErasedIsErased == Spec => []ErasedAccountsAreEmpty
<1>1. RevokedInv => ErasedAccountsAreEmpty
  BY DEF RevokedInv
<1> QED  BY <1>1, RevokedInvariant, PTL

\* The device limit is exceeded by no more than the logins that overlap
\* (internal/auth/handlers.go:130).
THEOREM DevicesAreLimited == Spec => []DeviceLimit
<1>1. DevicesInv => DeviceLimit
  <2> SUFFICES ASSUME DevicesInv, MaxDevicesPerUser > 0, NEW u \in Users
               PROVE  Cardinality(DevicesOf(u)) <= MaxDevicesPerUser + Cardinality(Requests) - 1
    BY DEF DeviceLimit
  <2> QED  BY FiniteCounts, AccountsAssumption DEF DevicesInv
<1> QED  BY <1>1, DevicesInit, DevicesStep, AccountsTypeCorrect, PTL DEF Spec

=============================================================================

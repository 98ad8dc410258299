------------------------------ MODULE Sessions ------------------------------
(***************************************************************************)
(* The sessions of a user's devices (internal/auth): a device is a chain   *)
(* of refresh tokens, and each refresh replaces the token it presents.     *)
(*                                                                         *)
(* login, refresh and logout run one statement after the other; only the   *)
(* rotation is a transaction.  A browser sends what is in its cookie jar,  *)
(* from several tabs at once, and an answer changes the jar when it comes  *)
(* in, if it does.  Tokens are random and never repeat: they are numbered  *)
(* in the order in which they become the token of a device.                *)
(***************************************************************************)
EXTENDS Integers

CONSTANTS
    Requests,          \* requests of the browser that may be under way at once
    MaxDevices,        \* how many devices log in: a bound
    Leeway,            \* refreshReuseLeeway
    TTL,               \* refresh_token_ttl_days
    Margin,            \* what a used token is remembered beyond TTL: 24 hours
    RotationAttempts,  \* maxRotationAttempts
    Prompt,            \* how long a request takes that is not slow
    MaxTokens, MaxTime, MaxFailures   \* bounds

ASSUME SessionsAssumption ==
    /\ {Leeway, TTL, Margin, Prompt} \subseteq Nat
    /\ {MaxDevices, MaxTokens, MaxTime, MaxFailures} \subseteq Nat
    /\ RotationAttempts \in Nat \ {0}
    /\ 2 * Prompt <= Leeway

VARIABLES
    issued,     \* the tokens generated so far are 1..issued
    current,    \* current[d]: the device's token, 0 if there is no such row
    expires,    \* current[d] is good up to and including this moment
    used,       \* used_refresh_tokens
    now,
    req,        \* req[r]: the request in r and the local variables of its handler
    jar,        \* the token in the browser's cookie jar, 0 if there is none
    failures,   \* how many requests and statements failed so far, for its bound
    owner,      \* history: owner[t] is the device token t was issued to
    cause,      \* history: why the device was deleted
    missed,     \* history: an answer was lost, or overtaken by a later one
    disturbed   \* history: something befell the browser (see SurvivesRetries)

dbVars == <<issued, current, expires, used>>
historyVars == <<owner, cause>>
browserVars == <<missed, disturbed>>
vars == <<dbVars, now, req, jar, failures, historyVars, browserVars>>

Devices == 1..MaxDevices   \* in the order of their logins
NoDevice == 0
Tokens == 1..MaxTokens
Points == {"idle", "create", "lookup", "leeway", "device", "expiry", "rotate",
           "reread", "find", "delete", "grant", "clear"}
Request == [op : {"none", "login", "refresh", "logout"}, pc : Points, age : 0..Prompt,
            token : 0..MaxTokens, dev : 0..MaxDevices, from : 0..MaxTokens,
            until : Nat, tries : 0..RotationAttempts, fresh : 0..MaxTokens,
            failed : BOOLEAN]   \* history: one of its statements did
UsedToken == [token : Tokens, device : Devices, at : Nat]

TypeOK ==
    /\ issued \in 0..MaxTokens
    /\ current \in [Devices -> 0..MaxTokens]
    /\ expires \in [Devices -> Nat]
    /\ used \subseteq UsedToken
    /\ now \in 0..MaxTime
    /\ req \in [Requests -> Request]
    /\ jar \in 0..MaxTokens
    /\ failures \in 0..MaxFailures
    /\ owner \in [Tokens -> 0..MaxDevices]
    /\ cause \in [Devices -> {"none", "ended", "taken"}]
    /\ missed \in BOOLEAN /\ disturbed \in BOOLEAN

NoRequest == [op |-> "none", pc |-> "idle", age |-> 0, token |-> 0, dev |-> NoDevice,
              from |-> 0, until |-> 0, tries |-> 0, fresh |-> 0, failed |-> FALSE]

Init ==
    /\ issued = 0
    /\ current = [d \in Devices |-> 0]
    /\ expires = [d \in Devices |-> 0]
    /\ used = {}
    /\ now = 0
    /\ req = [r \in Requests |-> NoRequest]
    /\ jar = 0
    /\ failures = 0
    /\ owner = [t \in Tokens |-> NoDevice]
    /\ cause = [d \in Devices |-> "none"]
    /\ missed = FALSE /\ disturbed = FALSE

-----------------------------------------------------------------------------
(* What the handlers are made of.                                          *)

At(r, pc) == req[r].pc = pc
Goto(r, pc) == req' = [req EXCEPT ![r].pc = pc]

\* The request is over; a 500, or a 403 at login, does nothing to the browser.
Answered(r) == req' = [req EXCEPT ![r] = NoRequest]

\* The handler is done with the device it read; fresh is the token it made, or 0.
Left(request, pc, fresh) ==
    [request EXCEPT !.pc = pc, !.fresh = fresh, !.dev = NoDevice,
                    !.from = 0, !.until = 0, !.tries = 0]
Leave(r, pc, fresh) == req' = [req EXCEPT ![r] = Left(@, pc, fresh)]

Send(r, op, pc) ==
    /\ At(r, "idle")
    /\ req' = [req EXCEPT ![r] = [NoRequest EXCEPT !.op = op, !.pc = pc, !.token = jar]]
    /\ UNCHANGED <<dbVars, now, jar, failures, historyVars, missed>>

\* The next token becomes the token of device d.
Issue(d) ==
    /\ issued' = issued + 1
    /\ current' = [current EXCEPT ![d] = issued + 1]
    /\ expires' = [expires EXCEPT ![d] = now + TTL]
    /\ owner' = [owner EXCEPT ![issued + 1] = d]

\* d.RefreshTokenExpiresAt and d.RefreshTokenHash are as they were when read.
Loaded(r, d, pc) ==
    req' = [req EXCEPT ![r].pc = pc, ![r].dev = d, ![r].from = current[d],
                       ![r].until = expires[d]]

DeviceWith(t) == {d \in Devices : current[d] = t}
UsedRows(t) == {u \in used : u.token = t}

-----------------------------------------------------------------------------
(* The requests, statement by statement.                                   *)

\* Replaced so long ago that a request sent now may come too late for the leeway.
Stale(t) == \E u \in UsedRows(t) : now - u.at > Leeway - Prompt

Login(r) == Send(r, "login", "create") /\ UNCHANGED disturbed
Refresh(r) ==
    /\ jar # 0
    /\ Send(r, "refresh", "lookup")
    /\ disturbed' = (disturbed \/ (missed /\ Stale(jar)))

\* The answer drops the cookie of the browser, also if none came with the request.
Logout(r) ==
    /\ Send(r, "logout", IF jar = 0 THEN "clear" ELSE "lookup")
    /\ UNCHANGED disturbed

\* The password was right and there is room for a device (see Accounts); the
\* session of the cookie that came with the login is then looked up.
CreateDevice(r) ==
    /\ At(r, "create")
    /\ \/ /\ issued < MaxTokens
          /\ \E d \in Devices :
                /\ {t \in Tokens : owner[t] >= d} = {}
                /\ \A e \in 1..(d - 1) : \E t \in Tokens : owner[t] = e
                /\ Issue(d)
          /\ Leave(r, IF req[r].token = 0 THEN "grant" ELSE "lookup", issued + 1)
          /\ UNCHANGED used
       \/ Answered(r) /\ UNCHANGED <<dbVars, owner>>
    /\ UNCHANGED <<now, jar, failures, cause, browserVars>>

\* Mutant of Lookup: a logout does not look among the used tokens.
LookupOnlyCurrent(r) ==
    /\ At(r, "lookup")
    /\ \/ \E d \in DeviceWith(req[r].token) :
             Loaded(r, d, IF req[r].op = "refresh" THEN "expiry" ELSE "delete")
       \/ /\ DeviceWith(req[r].token) = {}
          /\ Goto(r, CASE req[r].op = "refresh" -> "leeway"
                       [] req[r].op = "logout" -> "clear"
                       [] req[r].op = "login" -> "grant")
    /\ UNCHANGED <<dbVars, now, jar, failures, historyVars, browserVars>>

\* getDeviceByRefreshTokenHash, with which all three begin or end.
Lookup(r) ==
    /\ At(r, "lookup")
    /\ \/ \E d \in DeviceWith(req[r].token) :
             Loaded(r, d, IF req[r].op = "refresh" THEN "expiry" ELSE "delete")
       \/ /\ DeviceWith(req[r].token) = {}
          /\ Goto(r, CASE req[r].op = "refresh" -> "leeway"
                       [] req[r].op = "logout" -> "find"
                       [] req[r].op = "login" -> "grant")
    /\ UNCHANGED <<dbVars, now, jar, failures, historyVars, browserVars>>

\* Mutant of CheckLeeway: there is no leeway.
CheckNoLeeway(r) ==
    /\ At(r, "leeway")
    /\ Goto(r, "find")
    /\ UNCHANGED <<dbVars, now, jar, failures, historyVars, browserVars>>

CheckLeeway(r) ==
    /\ At(r, "leeway")
    /\ LET recent == {u \in UsedRows(req[r].token) : now - u.at <= Leeway}
       IN  \/ \E u \in recent :
                 req' = [req EXCEPT ![r].pc = "device", ![r].dev = u.device]
           \/ recent = {} /\ Goto(r, "find")
    /\ UNCHANGED <<dbVars, now, jar, failures, historyVars, browserVars>>

ReadDevice(r) ==
    /\ At(r, "device")
    /\ IF current[req[r].dev] # 0 THEN Loaded(r, req[r].dev, "expiry")
                                  ELSE Leave(r, "find", 0)
    /\ UNCHANGED <<dbVars, now, jar, failures, historyVars, browserVars>>

CheckExpiry(r) ==
    /\ At(r, "expiry")
    /\ req' = [req EXCEPT ![r].pc = IF now > req[r].until THEN "delete" ELSE "rotate",
                          ![r].until = 0, ![r].tries = 1]
    /\ UNCHANGED <<dbVars, now, jar, failures, historyVars, browserVars>>

\* Mutant of Unchanged: the update has no "AND refresh_token_hash = ?".
Exists(r) == current[req[r].dev] # 0

\* Is the device's token still the one that was read?
Unchanged(r) == current[req[r].dev] = req[r].from

\* The transaction of rotateRefreshToken: replace the token, remember the old
\* one, forget the ones used long ago.
Swap(r) ==
    /\ issued < MaxTokens
    /\ Issue(req[r].dev)
    /\ used' = {u \in used \union
                   {[token |-> req[r].from, device |-> req[r].dev, at |-> now]} :
                u.at + TTL + Margin >= now}
    /\ Leave(r, "grant", issued + 1)

\* Mutants of TryAgain: one attempt too many; and a 401.
TryOnceMore(r) ==
    IF req[r].tries > RotationAttempts THEN Answered(r) ELSE Goto(r, "reread")
Refuse(r) == Leave(r, "clear", 0)

TryAgain(r) ==
    IF req[r].tries = RotationAttempts THEN Answered(r) ELSE Goto(r, "reread")

Rotate(r) ==
    /\ At(r, "rotate")
    /\ \/ Unchanged(r) /\ Swap(r)
       \/ /\ \/ Unchanged(r) /\ issued = MaxTokens /\ Answered(r)
             \/ ~Unchanged(r) /\ TryAgain(r)
          /\ UNCHANGED <<dbVars, owner>>
    /\ UNCHANGED <<now, jar, failures, cause, browserVars>>

\* Another refresh of the device won: go on from what it left.
Reread(r) ==
    /\ At(r, "reread")
    /\ IF current[req[r].dev] # 0
       THEN req' = [req EXCEPT ![r].pc = "rotate", ![r].tries = @ + 1,
                               ![r].from = current[req[r].dev]]
       ELSE Leave(r, "clear", 0)
    /\ UNCHANGED <<dbVars, now, jar, failures, historyVars, browserVars>>

\* revokeDeviceByUsedTokenHash: which device did the used token belong to?
FindUsed(r) ==
    /\ At(r, "find")
    /\ \/ \E u \in UsedRows(req[r].token) :
             req' = [req EXCEPT ![r].pc = "delete", ![r].dev = u.device, ![r].from = 0]
       \/ UsedRows(req[r].token) = {} /\ Goto(r, "clear")
    /\ UNCHANGED <<dbVars, now, jar, failures, historyVars, browserVars>>

\* It was asked for, or the session had expired, or else it is taken from the user.
CauseOf(r) ==
    IF req[r].op # "refresh" \/ (req[r].from # 0 /\ expires[req[r].dev] < now)
    THEN "ended" ELSE "taken"

DeleteDevice(r) ==
    /\ At(r, "delete")
    /\ LET d == req[r].dev
       IN  /\ current' = [current EXCEPT ![d] = 0]
           /\ cause' = [cause EXCEPT ![d] = IF current[d] = 0 THEN @ ELSE CauseOf(r)]
    /\ Leave(r, IF req[r].op = "login" THEN "grant" ELSE "clear", req[r].fresh)
    /\ UNCHANGED <<issued, expires, used, now, jar, failures, owner, browserVars>>

-----------------------------------------------------------------------------
(* The answers, and what goes wrong.                                       *)

\* The answer with a later token of the device has already come in.
Overtaken(r) ==
    \E t \in Tokens : /\ t > req[r].fresh /\ owner[t] = owner[req[r].fresh]
                      /\ \A q \in Requests : req[q].fresh # t

\* Set-Cookie with the new token.
Grant(r) ==
    /\ At(r, "grant")
    /\ jar' = req[r].fresh
    /\ missed' = (missed \/ Overtaken(r))
    /\ Answered(r)
    /\ UNCHANGED <<dbVars, now, failures, historyVars, disturbed>>

\* A 401, or the 204 of a logout: the cookie is dropped.
Clear(r) ==
    /\ At(r, "clear")
    /\ jar' = 0
    /\ Answered(r)
    /\ UNCHANGED <<dbVars, now, failures, historyVars, browserVars>>

\* The tab is reloaded or the connection breaks: the request's context is
\* cancelled, no further statement runs, and an answer does not arrive.
Abort(r) ==
    /\ ~At(r, "idle")
    /\ failures < MaxFailures
    /\ failures' = failures + 1
    /\ missed' = (missed \/ At(r, "grant"))
    /\ Answered(r)
    /\ UNCHANGED <<dbVars, now, jar, historyVars, disturbed>>

Fail(r, pc, fresh) ==
    req' = [req EXCEPT ![r] = [Left(@, pc, fresh) EXCEPT !.failed = TRUE]]

\* A statement fails.  A lookup that failed is treated like one that found
\* nothing, and a delete or the lookup of a used token is not checked at all.
QueryFails(r) ==
    /\ failures < MaxFailures
    /\ failures' = failures + 1
    /\ \/ /\ req[r].op # "login"
          /\ \/ req[r].pc \in {"lookup", "leeway", "device"} /\ Fail(r, "find", 0)
             \/ /\ req[r].pc \in {"expiry", "reread", "find", "delete"}
                /\ Fail(r, "clear", 0)
             \/ At(r, "rotate") /\ Answered(r)
       \/ /\ req[r].op = "login"
          /\ req[r].pc \in {"lookup", "delete"}
          /\ Fail(r, "grant", req[r].fresh)
    /\ disturbed' = \/ disturbed
                    \/ /\ req[r].op = "refresh"
                       /\ req[r].pc \in {"lookup", "leeway", "device"}
    /\ UNCHANGED <<dbVars, now, jar, historyVars, missed>>

\* The device is revoked from the panel or from another device, or its user is
\* deactivated or given a new password.
Revoke(d) ==
    /\ current[d] # 0
    /\ current' = [current EXCEPT ![d] = 0]
    /\ cause' = [cause EXCEPT ![d] = "ended"]
    /\ UNCHANGED <<issued, expires, used, now, req, jar, failures, owner, browserVars>>

UnderWay == {r \in Requests : ~At(r, "idle")}

Tick ==
    /\ now < MaxTime
    /\ now' = now + 1
    /\ req' = [r \in Requests |-> IF r \in UnderWay /\ req[r].age < Prompt
                                 THEN [req[r] EXCEPT !.age = @ + 1] ELSE req[r]]
    /\ disturbed' = \/ disturbed
                    \/ \E r \in UnderWay : req[r].age = Prompt
                    \/ /\ UnderWay # {}
                       /\ \/ \E d \in Devices : current[d] # 0 /\ expires[d] = now
                          \/ \E r \in UnderWay : At(r, "expiry") /\ req[r].until = now
    /\ UNCHANGED <<dbVars, jar, failures, historyVars, missed>>

Handle(r) ==
    \/ CreateDevice(r) \/ Lookup(r) \/ CheckLeeway(r) \/ ReadDevice(r)
    \/ CheckExpiry(r) \/ Rotate(r) \/ Reread(r) \/ FindUsed(r) \/ DeleteDevice(r)
    \/ Grant(r) \/ Clear(r)

Next ==
    \/ \E r \in Requests :
          Login(r) \/ Refresh(r) \/ Logout(r) \/ Handle(r) \/ Abort(r) \/ QueryFails(r)
    \/ \E d \in Devices : Revoke(d)
    \/ Tick

Spec == Init /\ [][Next]_vars

-----------------------------------------------------------------------------
(* Properties.                                                             *)

\* A device is one chain of tokens: its token is the last that was issued to it,
\* and the used ones came before.  So the insert into used_refresh_tokens never
\* meets its primary key, the failure that rotateRefreshToken's comment and
\* specs/sesion-cookie/design.md tell of.
OneChain ==
    /\ \A d \in Devices : current[d] # 0 =>
          /\ current[d] <= issued
          /\ owner[current[d]] = d
          /\ \A t \in Tokens : owner[t] = d => t <= current[d]
    /\ \A u \in used :
          /\ owner[u.token] = u.device
          /\ current[u.device] # u.token
          /\ \A v \in used : v.token = u.token => v = u

\* Once a logout has run, the session whose token it presented is over, though a
\* refresh may have replaced that token in the meantime (session_cookie.go:149),
\* unless a statement of the logout itself failed or the token was replaced so long
\* ago that it is forgotten.
LogoutEndsTheSession ==
    \A r \in Requests : req[r].op = "logout" /\ At(r, "clear") /\ req[r].token # 0 =>
        LET t == req[r].token
        IN  \/ current[owner[t]] = 0
            \/ req[r].failed
            \/ current[owner[t]] # t /\ UsedRows(t) = {}

\* No session is taken for a stolen or an expired one, also when the answer with
\* its new token was lost or overtaken and the browser goes on with the old one (the
\* leeway of internal/auth/handlers.go:172), as long as no refresh is sent with a
\* token that was replaced half a leeway ago because of such an answer, none fails
\* to look its device up, requests take at most half the leeway, and the session
\* does not expire while a request of it is under way.
SurvivesRetries ==
    \A d \in Devices : cause[d] = "taken" => disturbed

\* The token is its device's, or one that is remembered of a device that is there.
Live(t) ==
    /\ t \in Tokens /\ owner[t] \in Devices /\ current[owner[t]] # 0
    /\ current[owner[t]] = t \/ UsedRows(t) # {}

\* A cookie that leads to a session is dropped only by the answer to a request that
\* was sent with another one, or of which a statement failed.
KeepsLiveCookies ==
    [][\A r \in Requests :
          At(r, "clear") /\ req'[r].pc = "idle" /\ jar # 0 /\ jar' = 0 /\ Live(jar) =>
             req[r].token # jar \/ req[r].failed]_vars

=============================================================================

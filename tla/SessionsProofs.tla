--------------------------- MODULE SessionsProofs ---------------------------
(***************************************************************************)
(* Proofs about Sessions, for any number of devices, tokens, requests,     *)
(* failures and attempts, and any leeway and lifetimes.                    *)
(***************************************************************************)
EXTENDS Sessions, TLAPS

\* A token that was issued, to a device.
IsIssued(t) == t \in Tokens /\ owner[t] \in Devices
WillBeIssued(t) == t \in Tokens /\ owner'[t] \in Devices   \* after the step

Numbered ==
    /\ jar # 0 => IsIssued(jar)
    /\ \A t \in Tokens : owner[t] # NoDevice => t <= issued

\* What the handler of a request knows where it is: it only ever replaces a token
\* that was once its device's.
Knows(r) ==
    /\ req[r].fresh # 0 => IsIssued(req[r].fresh)
    /\ req[r].token # 0 => IsIssued(req[r].token)
    /\ req[r].pc \in {"lookup", "leeway", "device", "expiry", "rotate", "reread", "find",
                      "delete"} => req[r].token # 0
    /\ req[r].pc \in {"device", "expiry", "rotate", "reread", "delete"} =>
          req[r].dev \in Devices
    /\ req[r].pc \in {"expiry", "rotate"} =>
          IsIssued(req[r].from) /\ owner[req[r].from] = req[r].dev
    /\ req[r].pc = "reread" => req[r].tries < RotationAttempts
    /\ req[r].op = "none" <=> req[r].pc = "idle"

ChainInv == OneChain /\ Numbered /\ \A r \in Requests : Knows(r)

\* Where a request can be, and when it has a new token.
Courses(r) ==
    /\ req[r].pc = "create" => req[r].op = "login" /\ req[r].fresh = 0
    /\ req[r].op = "login" =>
          /\ req[r].pc \in {"create", "lookup", "delete", "grant"}
          /\ req[r].pc # "create" => req[r].fresh # 0
    /\ req[r].op = "logout" => req[r].pc \in {"lookup", "find", "delete", "clear"}
    /\ req[r].pc = "grant" => req[r].fresh # 0
    /\ req[r].fresh # 0 => req[r].pc = "grant" \/ req[r].op = "login"
    /\ req[r].failed => req[r].pc \in {"find", "delete", "clear", "grant"}

\* Where the handler works on a device it is that of the token it was sent; and once
\* the token is not the one of its device it never will be again.  A handler none of
\* whose statements failed drops the cookie only when the token leads nowhere.
Follows(r) ==
    LET t == req[r].token
    IN  /\ req[r].pc \in {"device", "expiry", "rotate", "reread", "delete"} =>
              req[r].dev = owner[t]
        /\ req[r].pc = "leeway" => current[owner[t]] # t
        /\ t # 0 /\ ~req[r].failed =>
              /\ req[r].pc = "find" => current[owner[t]] # t
              /\ req[r].pc = "clear" =>
                    \/ current[owner[t]] = 0
                    \/ current[owner[t]] # t /\ UsedRows(t) = {}

\* The token of a login is the first of its device.
First(r) ==
    req[r].op = "login" /\ req[r].fresh # 0 =>
        \A t \in Tokens : owner[t] = owner[req[r].fresh] => req[r].fresh <= t

SessionInv ==
    /\ \A r \in Requests : Courses(r) /\ Follows(r) /\ First(r)
    /\ \A d \in Devices : current[d] # 0 => expires[d] <= now + TTL

\* What nothing befell the browser gives, up to the leeway of a used token.
InTime(r) ==
    LET d == req[r].dev
    IN  /\ req[r].pc = "expiry" =>
              \/ current[d] = 0
              \/ /\ req[r].until <= expires[d]
                 /\ req[r].until < now => expires[d] < now
        /\ req[r].pc \in {"rotate", "reread"} => current[d] = 0 \/ expires[d] >= now
        /\ req[r].pc = "delete" /\ req[r].op = "refresh" =>
              current[d] = 0 \/ (req[r].from # 0 /\ expires[d] < now)
        /\ req[r].pc \in {"lookup", "leeway"} /\ req[r].op = "refresh" =>
              \A u \in UsedRows(req[r].token) :
                  current[u.device] = 0 \/ u.at >= now - req[r].age - (Leeway - Prompt)
        /\ req[r].pc = "find" /\ req[r].op = "refresh" =>
              /\ ~req[r].failed
              /\ \A u \in UsedRows(req[r].token) : current[u.device] = 0

\* The answer that replaces a used token is under way, and no slower than that, or
\* it has come in.
Recalls(u) ==
    \/ current[u.device] = 0
    \/ \E t \in Tokens : /\ t > u.token /\ owner[t] = u.device
                         /\ \A p \in Requests : req[p].fresh = t => u.at >= now - req[p].age

\* What the jar does not have yet is under way, as long as no answer is missed.
JarInv ==
    jar # 0 => \A t \in Tokens : t > jar /\ owner[t] = owner[jar] =>
                   \E q \in Requests : req[q].fresh = t

CalmInv ==
    /\ ~missed => JarInv
    /\ ~disturbed => /\ \A r \in Requests : InTime(r)
                     /\ \A u \in used : Recalls(u)

-----------------------------------------------------------------------------
(* What a step may do to the database.                                     *)

\* A first token for a new device d, the next token for d after from, the end of d.
Starts(d) ==
    /\ issued < MaxTokens /\ Issue(d) /\ UNCHANGED <<used, now>>
    /\ \A t \in Tokens : owner[t] # d
Replaces(d, from) ==
    /\ issued < MaxTokens /\ Issue(d) /\ current[d] = from
    /\ IsIssued(from) /\ owner[from] = d /\ UNCHANGED now
    /\ \E r \in Requests : At(r, "rotate") /\ req[r].dev = d
    /\ used' = {u \in used \union {[token |-> from, device |-> d, at |-> now]} :
                  u.at + TTL + Margin >= now}
Ends(d) ==
    /\ current' = [current EXCEPT ![d] = 0]
    /\ UNCHANGED <<issued, expires, used, owner, now>>

LEMMA DatabaseStep ==
    ASSUME TypeOK, ChainInv, [Next]_vars
    PROVE  \/ UNCHANGED <<dbVars, owner>>
           \/ \E d \in Devices : Starts(d) \/ Ends(d) \/ \E t \in Tokens : Replaces(d, t)
<1>1. ASSUME NEW r \in Requests, Login(r) \/ Refresh(r) \/ Logout(r) \/ Lookup(r) \/ CheckLeeway(r)
                \/ ReadDevice(r) \/ CheckExpiry(r) \/ Reread(r) \/ FindUsed(r) \/ Grant(r)
                \/ Clear(r) \/ Abort(r) \/ QueryFails(r)
      PROVE  UNCHANGED <<dbVars, owner>>
  BY <1>1 DEF Login, Refresh, Logout, Send, Lookup, CheckLeeway, ReadDevice, CheckExpiry, Reread,
         FindUsed, Grant, Clear, Abort, QueryFails, historyVars
<1>2. CASE Tick \/ UNCHANGED vars
  BY <1>2 DEF Tick, vars, historyVars
<1>3. ASSUME NEW d \in Devices, Revoke(d) PROVE Ends(d)
  BY <1>3 DEF Revoke, Ends
<1>4. ASSUME NEW r \in Requests, CreateDevice(r)
      PROVE  UNCHANGED <<dbVars, owner>> \/ \E d \in Devices : Starts(d)
  <2>1. CASE UNCHANGED <<dbVars, owner>>
    BY <2>1
  <2>2. ASSUME NEW d \in Devices, {t \in Tokens : owner[t] >= d} = {}, issued < MaxTokens,
               Issue(d), UNCHANGED <<used, now>>
        PROVE  Starts(d)
    <3>1. \A t \in Tokens : owner[t] # d
      BY <2>2 DEF Devices
    <3> QED  BY <2>2, <3>1 DEF Starts
  <2> QED  BY <1>4, <2>1, <2>2 DEF CreateDevice
<1>5. ASSUME NEW r \in Requests, Rotate(r)
      PROVE  \/ UNCHANGED <<dbVars, owner>>
             \/ \E d \in Devices, t \in Tokens : Replaces(d, t)
  <2>1. CASE Unchanged(r) /\ Swap(r)
    <3>1. /\ req[r].dev \in Devices /\ IsIssued(req[r].from) /\ owner[req[r].from] = req[r].dev
      BY <1>5 DEF Rotate, At, ChainInv, Knows
    <3>2. Replaces(req[r].dev, req[r].from)
      BY <1>5, <2>1, <3>1 DEF Rotate, Unchanged, Swap, Replaces
    <3> QED  BY <3>1, <3>2 DEF IsIssued
  <2> QED  BY <1>5, <2>1 DEF Rotate
<1>6. ASSUME NEW r \in Requests, DeleteDevice(r) PROVE \E d \in Devices : Ends(d)
  <2>1. req[r].dev \in Devices
    BY <1>6 DEF DeleteDevice, At, ChainInv, Knows
  <2> QED  BY <1>6, <2>1 DEF DeleteDevice, Ends
<1> QED  BY <1>1, <1>2, <1>3, <1>4, <1>5, <1>6 DEF Next, Handle

-----------------------------------------------------------------------------
(* The chain.                                                              *)

LEMMA IssueFacts ==
    ASSUME TypeOK, Numbered, NEW d \in Devices, issued < MaxTokens, Issue(d)
    PROVE  /\ issued' = issued + 1 /\ issued' \in Tokens /\ owner[issued'] = NoDevice
           /\ current'[d] = issued' /\ \A e \in Devices \ {d} : current'[e] = current[e]
           /\ owner'[issued'] = d
           /\ \A t \in Tokens \ {issued'} : owner'[t] = owner[t]
           /\ \A t \in Tokens : owner[t] # NoDevice => t < issued'
<1>1. /\ issued' = issued + 1 /\ issued \in 0..MaxTokens
      /\ current' = [current EXCEPT ![d] = issued + 1]
      /\ owner' = [owner EXCEPT ![issued + 1] = d]
  BY DEF Issue, TypeOK
<1>2. issued + 1 \in Tokens
  BY <1>1, SessionsAssumption DEF Tokens
<1>3. \A t \in Tokens : t \in Nat /\ (owner[t] # NoDevice => t <= issued)
  BY SessionsAssumption DEF Numbered, Tokens
<1> QED  BY <1>1, <1>2, <1>3 DEF TypeOK

\* Tokens stay with the device they were issued to.
LEMMA OwnersStay ==
    ASSUME TypeOK, ChainInv, [Next]_vars, NEW t, IsIssued(t)
    PROVE  WillBeIssued(t) /\ owner'[t] = owner[t]
<1>t. t \in Tokens /\ owner[t] \in Devices /\ owner[t] # NoDevice
  BY SessionsAssumption DEF IsIssued, Devices, NoDevice
<1>1. CASE UNCHANGED owner
  BY <1>1, <1>t DEF IsIssued, WillBeIssued
<1>2. ASSUME NEW d \in Devices, issued < MaxTokens, Issue(d)
      PROVE  WillBeIssued(t) /\ owner'[t] = owner[t]
  <2>1. t # issued'
    BY <1>2, <1>t, IssueFacts DEF ChainInv
  <2> QED  BY <1>2, <1>t, <2>1, IssueFacts DEF ChainInv, IsIssued, WillBeIssued
<1> QED  BY <1>1, <1>2, DatabaseStep DEF Starts, Replaces, Ends

LEMMA OneChainStep == TypeOK /\ ChainInv /\ [Next]_vars => OneChain'
<1> SUFFICES ASSUME TypeOK, ChainInv, [Next]_vars PROVE OneChain'
  OBVIOUS
<1>t. /\ issued \in 0..MaxTokens /\ current \in [Devices -> 0..MaxTokens]
      /\ used \subseteq UsedToken /\ owner \in [Tokens -> 0..MaxDevices]
  BY DEF TypeOK
<1>i. OneChain /\ Numbered
  BY DEF ChainInv
<1>n. Tokens \subseteq Nat \ {0} /\ Devices \subseteq Nat \ {0}
  BY SessionsAssumption DEF Tokens, Devices
<1>1. CASE UNCHANGED <<dbVars, owner>>
  BY <1>1, <1>i DEF dbVars, OneChain
<1>2. ASSUME NEW d \in Devices, Ends(d) PROVE OneChain'
  <2>1. ASSUME NEW e \in Devices PROVE current'[e] = current[e] \/ current'[e] = 0
    BY <1>2, <1>t DEF Ends
  <2>2. ASSUME NEW u \in used PROVE u.token \in Tokens /\ u.device \in Devices
    BY <1>t DEF UsedToken
  <2>3. UNCHANGED <<issued, used, owner>>
    BY <1>2 DEF Ends
  <2>4. \A e \in Devices : current'[e] # 0 =>
          /\ current'[e] <= issued' /\ owner'[current'[e]] = e
          /\ \A t \in Tokens : owner'[t] = e => t <= current'[e]
    BY <1>i, <2>1, <2>3 DEF OneChain
  <2>5. \A u \in used' : /\ owner'[u.token] = u.device /\ current'[u.device] # u.token
                         /\ \A v \in used' : v.token = u.token => v = u
    <3>1. \A u \in used : /\ owner[u.token] = u.device /\ current[u.device] # u.token
                          /\ \A v \in used : v.token = u.token => v = u
      BY <1>i DEF OneChain
    <3>2. \A u \in used : current'[u.device] # u.token
      BY <1>n, <2>1, <2>2, <3>1
    <3> QED  BY <2>3, <3>1, <3>2
  <2> QED  BY <2>4, <2>5 DEF OneChain
<1>3. ASSUME NEW d \in Devices, issued < MaxTokens, Issue(d),
             NEW old, used' \subseteq used \union {old},
             \/ used' \subseteq used /\ \A t \in Tokens : owner[t] # d
             \/ old \in UsedToken /\ old.device = d /\ old.token = current[d]
                /\ owner[old.token] = d
      PROVE  OneChain'
  <2>1. /\ issued' = issued + 1 /\ issued' \in Tokens /\ owner[issued'] = NoDevice
        /\ current'[d] = issued' /\ \A e \in Devices \ {d} : current'[e] = current[e]
        /\ owner'[issued'] = d
        /\ \A t \in Tokens \ {issued'} : owner'[t] = owner[t]
        /\ \A t \in Tokens : owner[t] # NoDevice => t < issued'
    BY <1>3, <1>i, IssueFacts
  <2>2. ASSUME NEW e \in Devices, current'[e] # 0
        PROVE  /\ current'[e] <= issued' /\ owner'[current'[e]] = e
               /\ \A t \in Tokens : owner'[t] = e => t <= current'[e]
    <3>1. CASE e = d
      <4>1. \A t \in Tokens : owner'[t] = d => t = issued' \/ t < issued'
        BY <1>n, <2>1 DEF NoDevice
      <4> QED  BY <1>n, <2>1, <3>1, <4>1
    <3>2. CASE e # d
      <4>1. current[e] # 0 /\ current'[e] = current[e] /\ current[e] \in Tokens
        BY <1>t, <2>1, <2>2, <3>2 DEF Tokens
      <4>2. /\ current[e] <= issued /\ owner[current[e]] = e
            /\ \A t \in Tokens : owner[t] = e => t <= current[e]
        BY <1>i, <4>1 DEF OneChain
      <4>3. current[e] # issued'
        BY <1>n, <1>t, <2>1, <4>1, <4>2
      <4>4. current[e] <= issued'
        BY <1>n, <1>t, <2>1, <4>1, <4>2
      <4> QED  BY <2>1, <3>2, <4>1, <4>2, <4>3, <4>4
    <3> QED  BY <3>1, <3>2
  <2>3. ASSUME NEW u \in used'
        PROVE  /\ u.token \in Tokens /\ u.device \in Devices /\ owner[u.token] = u.device
               /\ u \in used => current[u.device] # u.token
    BY <1>3, <1>i, <1>t DEF OneChain, UsedToken
  <2>4. ASSUME NEW u \in used' PROVE owner'[u.token] = u.device /\ current'[u.device] # u.token
    <3>1. u.token # issued' /\ owner'[u.token] = u.device
      BY <1>n, <2>1, <2>3 DEF NoDevice
    <3>2. CASE u.device = d
      BY <2>1, <3>1, <3>2
    <3>3. CASE u.device # d
      <4>1. u \in used
        BY <1>3, <3>3
      <4>2. u.device \in Devices \ {d} /\ current[u.device] # u.token
        BY <2>3, <3>3, <4>1
      <4>3. current'[u.device] = current[u.device]
        BY <2>1, <4>2
      <4> QED  BY <3>1, <4>2, <4>3
    <3> QED  BY <3>1, <3>2, <3>3
  <2>5. ASSUME NEW u \in used', NEW v \in used', v.token = u.token PROVE v = u
    <3>1. CASE u \in used /\ v \in used
      BY <1>i, <2>5, <3>1 DEF OneChain
    <3>2. ASSUME NEW w \in used, w.token = old.token, old.token = current[d],
                 owner[old.token] = d
          PROVE  FALSE
      BY <1>i, <3>2 DEF OneChain
    <3> QED  BY <1>3, <2>5, <3>1, <3>2
  <2> QED  BY <2>2, <2>4, <2>5 DEF OneChain
<1>4. ASSUME NEW d \in Devices, Starts(d) PROVE OneChain'
  <2>1. used' \subseteq used \union {0} /\ used' \subseteq used
    BY <1>4 DEF Starts
  <2> QED  BY <1>3, <1>4, <2>1 DEF Starts
<1>5. ASSUME NEW d \in Devices, NEW t \in Tokens, Replaces(d, t) PROVE OneChain'
  <2> DEFINE old == [token |-> t, device |-> d, at |-> now]
  <2>1. used' \subseteq used \union {old}
    BY <1>5 DEF Replaces
  <2>2. old \in UsedToken /\ old.device = d /\ old.token = current[d] /\ owner[old.token] = d
    BY <1>5, SessionsAssumption DEF Replaces, UsedToken, TypeOK
  <2>3. issued < MaxTokens /\ Issue(d)
    BY <1>5 DEF Replaces
  <2> HIDE DEF old
  <2> QED  BY <1>3, <2>1, <2>2, <2>3
<1> QED  BY <1>1, <1>2, <1>4, <1>5, DatabaseStep

-----------------------------------------------------------------------------
(* Types.                                                                  *)

LEMMA NoRequestType == NoRequest \in Request
  BY SessionsAssumption DEF NoRequest, Request, Points, NoDevice

LEMMA AnsweredType ==
    ASSUME TypeOK, NEW r \in Requests, Answered(r)
    PROVE  req' \in [Requests -> Request]
  BY NoRequestType DEF Answered, TypeOK

LEMMA GotoType ==
    ASSUME TypeOK, NEW r \in Requests, NEW p \in Points, Goto(r, p)
    PROVE  req' \in [Requests -> Request]
<1>1. req[r] \in Request
  BY DEF TypeOK
<1>2. [req[r] EXCEPT !.pc = p] \in Request
  BY <1>1 DEF Request
<1> QED  BY <1>2 DEF Goto, TypeOK

LEMMA LeftType ==
    ASSUME NEW q \in Request, NEW p \in Points, NEW f \in 0..MaxTokens
    PROVE  Left(q, p, f) \in Request
<1>1. 0 \in 0..MaxDevices /\ 0 \in 0..MaxTokens /\ 0 \in Nat /\ 0 \in 0..RotationAttempts
  BY SessionsAssumption
<1> QED  BY <1>1 DEF Left, Request, NoDevice

LEMMA LeaveType ==
    ASSUME TypeOK, NEW r \in Requests, NEW p \in Points, NEW f \in 0..MaxTokens, Leave(r, p, f)
    PROVE  req' \in [Requests -> Request]
<1>1. Left(req[r], p, f) \in Request
  BY LeftType DEF TypeOK
<1> QED  BY <1>1 DEF Leave, TypeOK

LEMMA FailType ==
    ASSUME TypeOK, NEW r \in Requests, NEW p \in Points, NEW f \in 0..MaxTokens, Fail(r, p, f)
    PROVE  req' \in [Requests -> Request]
<1>1. Left(req[r], p, f) \in Request
  BY LeftType DEF TypeOK
<1>2. [Left(req[r], p, f) EXCEPT !.failed = TRUE] \in Request
  BY <1>1 DEF Request
<1> QED  BY <1>2 DEF Fail, TypeOK

LEMMA LoadedType ==
    ASSUME TypeOK, NEW r \in Requests, NEW p \in Points, NEW d \in Devices, Loaded(r, d, p)
    PROVE  req' \in [Requests -> Request]
<1>1. req[r] \in Request /\ current[d] \in 0..MaxTokens /\ expires[d] \in Nat
  BY DEF TypeOK
<1>2. d \in 0..MaxDevices
  BY SessionsAssumption DEF Devices
<1>3. [req[r] EXCEPT !.pc = p, !.dev = d, !.from = current[d], !.until = expires[d]] \in Request
  BY <1>1, <1>2 DEF Request
<1>4. req' = [req EXCEPT ![r] = [@ EXCEPT !.pc = p, !.dev = d, !.from = current[d],
                                          !.until = expires[d]]]
  BY DEF Loaded, TypeOK
<1> QED  BY <1>3, <1>4 DEF TypeOK

LEMMA DatabaseType ==
    ASSUME TypeOK, ChainInv, [Next]_vars
    PROVE  /\ issued' \in 0..MaxTokens /\ current' \in [Devices -> 0..MaxTokens]
           /\ expires' \in [Devices -> Nat] /\ used' \subseteq UsedToken
           /\ owner' \in [Tokens -> 0..MaxDevices]
<1>1. CASE UNCHANGED <<dbVars, owner>>
  BY <1>1 DEF dbVars, TypeOK
<1>2. ASSUME NEW d \in Devices, Ends(d)
      PROVE  /\ issued' \in 0..MaxTokens /\ current' \in [Devices -> 0..MaxTokens]
             /\ expires' \in [Devices -> Nat] /\ used' \subseteq UsedToken
             /\ owner' \in [Tokens -> 0..MaxDevices]
  BY <1>2, SessionsAssumption DEF Ends, TypeOK
<1>3. ASSUME NEW d \in Devices, issued < MaxTokens, Issue(d)
      PROVE  /\ issued' \in 0..MaxTokens /\ current' \in [Devices -> 0..MaxTokens]
             /\ expires' \in [Devices -> Nat] /\ owner' \in [Tokens -> 0..MaxDevices]
  <2>1. issued + 1 \in 0..MaxTokens /\ d \in 0..MaxDevices /\ now + TTL \in Nat
    BY <1>3, SessionsAssumption DEF TypeOK, Devices
  <2> QED  BY <1>3, <2>1 DEF Issue, TypeOK
<1>4. ASSUME NEW d \in Devices, NEW t \in Tokens, Replaces(d, t) PROVE used' \subseteq UsedToken
  <2>1. [token |-> t, device |-> d, at |-> now] \in UsedToken
    BY SessionsAssumption DEF UsedToken, TypeOK
  <2> QED  BY <1>4, <2>1 DEF Replaces, TypeOK
<1> QED  BY <1>1, <1>2, <1>3, <1>4, DatabaseStep DEF Starts, Replaces, TypeOK

LEMMA HandleType ==
    ASSUME TypeOK, ChainInv, NEW r \in Requests, Handle(r)
    PROVE  req' \in [Requests -> Request]
<1>r. req[r] \in Request /\ req[r].fresh \in 0..MaxTokens /\ 0 \in 0..MaxTokens
  BY SessionsAssumption DEF TypeOK, Request
<1>p. {"idle", "create", "lookup", "leeway", "device", "expiry", "rotate",
       "reread", "find", "delete", "grant", "clear"} = Points
  BY DEF Points
<1>k. Knows(r)
  BY DEF ChainInv
<1>z. /\ 0 \in 0..MaxDevices /\ 0 \in Nat /\ 0 \in 0..RotationAttempts /\ 1 \in 0..RotationAttempts
      /\ \A d \in Devices : d \in 0..MaxDevices
  BY SessionsAssumption DEF Devices
<1>1. CASE CreateDevice(r)
  <2>1. CASE Answered(r)
    BY <2>1, AnsweredType
  <2>2. CASE issued < MaxTokens /\
             Leave(r, IF req[r].token = 0 THEN "grant" ELSE "lookup", issued + 1)
    <3>1. issued + 1 \in 0..MaxTokens
      BY <2>2, SessionsAssumption DEF TypeOK
    <3>2. (IF req[r].token = 0 THEN "grant" ELSE "lookup") \in Points
      BY <1>p
    <3> QED  BY <2>2, <3>1, <3>2, LeaveType
  <2> QED  BY <1>1, <2>1, <2>2 DEF CreateDevice
<1>2. CASE Lookup(r)
  <2>1. CASE \E d \in Devices, p \in Points : Loaded(r, d, p)
    BY <2>1, LoadedType
  <2>2. CASE \E p \in Points : Goto(r, p)
    BY <2>2, GotoType
  <2>3. DeviceWith(req[r].token) \subseteq Devices
    BY DEF DeviceWith
  <2>4. (IF req[r].op = "refresh" THEN "expiry" ELSE "delete") \in Points
    BY <1>p
  <2>5. req[r].op \in {"refresh", "logout", "login"} =>
          (CASE req[r].op = "refresh" -> "leeway" [] req[r].op = "logout" -> "find"
             [] req[r].op = "login" -> "grant") \in Points
    BY <1>p
  <2>6. req[r].op \in {"refresh", "logout", "login"}
    BY <1>2, <1>k, <1>r DEF Lookup, At, Request, Knows
  <2> QED  BY <1>2, <2>1, <2>2, <2>3, <2>4, <2>5, <2>6 DEF Lookup
<1>3. CASE CheckLeeway(r)
  <2>1. CASE Goto(r, "find")
    BY <1>p, <2>1, GotoType
  <2>2. ASSUME NEW d \in Devices, req' = [req EXCEPT ![r].pc = "device", ![r].dev = d]
        PROVE  req' \in [Requests -> Request]
    <3>1. [req[r] EXCEPT !.pc = "device", !.dev = d] \in Request
      BY <1>r, <1>z DEF Request, Points
    <3>2. req' = [req EXCEPT ![r] = [@ EXCEPT !.pc = "device", !.dev = d]]
      BY <2>2 DEF TypeOK
    <3> QED  BY <3>1, <3>2 DEF TypeOK
  <2>3. \A u \in UsedRows(req[r].token) : u.device \in Devices
    BY DEF UsedRows, TypeOK, UsedToken
  <2> QED  BY <1>3, <2>1, <2>2, <2>3 DEF CheckLeeway
<1>4. CASE ReadDevice(r)
  <2>1. req[r].dev \in Devices
    BY <1>4, <1>k DEF ReadDevice, At, Knows
  <2>2. CASE Loaded(r, req[r].dev, "expiry")
    BY <1>p, <2>1, <2>2, LoadedType
  <2>3. CASE Leave(r, "find", 0)
    BY <1>p, <1>r, <2>3, LeaveType
  <2> QED  BY <1>4, <2>2, <2>3 DEF ReadDevice
<1>5. CASE CheckExpiry(r)
  <2>1. PICK p \in {"delete", "rotate"} :
          req' = [req EXCEPT ![r].pc = p, ![r].until = 0, ![r].tries = 1]
    BY <1>5 DEF CheckExpiry
  <2>2. [req[r] EXCEPT !.pc = p, !.until = 0, !.tries = 1] \in Request
    BY <1>r, <1>z DEF Request, Points
  <2>3. req' = [req EXCEPT ![r] = [@ EXCEPT !.pc = p, !.until = 0, !.tries = 1]]
    BY <2>1 DEF TypeOK
  <2> QED  BY <2>2, <2>3 DEF TypeOK
<1>6. CASE Rotate(r)
  <2>1. CASE Answered(r)
    BY <2>1, AnsweredType
  <2>2. CASE Goto(r, "reread")
    BY <1>p, <2>2, GotoType
  <2>3. CASE issued < MaxTokens /\ Leave(r, "grant", issued + 1)
    <3>1. issued + 1 \in 0..MaxTokens
      BY <2>3, SessionsAssumption DEF TypeOK
    <3> QED  BY <1>p, <2>3, <3>1, LeaveType
  <2> QED  BY <1>6, <2>1, <2>2, <2>3 DEF Rotate, Swap, TryAgain
<1>7. CASE Reread(r)
  <2>1. CASE Leave(r, "clear", 0)
    BY <1>p, <1>r, <2>1, LeaveType
  <2>2. CASE req' = [req EXCEPT ![r].pc = "rotate", ![r].tries = @ + 1,
                                ![r].from = current[req[r].dev]]
    <3>1. req[r].tries < RotationAttempts /\ current[req[r].dev] \in 0..MaxTokens
      BY <1>7, <1>k DEF Reread, At, Knows, TypeOK
    <3> DEFINE n == req[r].tries + 1
    <3>2. n \in 0..RotationAttempts
      BY <1>r, <3>1, SessionsAssumption DEF Request
    <3>3. req' = [req EXCEPT ![r].pc = "rotate", ![r].tries = n,
                             ![r].from = current[req[r].dev]]
      BY <2>2 DEF TypeOK, Request
    <3> HIDE DEF n
    <3>4. [req[r] EXCEPT !.pc = "rotate", !.tries = n, !.from = current[req[r].dev]] \in Request
      BY <1>r, <3>1, <3>2 DEF Request, Points
    <3>5. req' = [req EXCEPT ![r] = [@ EXCEPT !.pc = "rotate", !.tries = n,
                                              !.from = current[req[r].dev]]]
      BY <3>3 DEF TypeOK
    <3> QED  BY <3>4, <3>5 DEF TypeOK
  <2> QED  BY <1>7, <2>1, <2>2 DEF Reread
<1>8. CASE FindUsed(r)
  <2>1. CASE Goto(r, "clear")
    BY <1>p, <2>1, GotoType
  <2>2. ASSUME NEW d \in Devices,
               req' = [req EXCEPT ![r].pc = "delete", ![r].dev = d, ![r].from = 0]
        PROVE  req' \in [Requests -> Request]
    <3>1. [req[r] EXCEPT !.pc = "delete", !.dev = d, !.from = 0] \in Request
      BY <1>r, <1>z DEF Request, Points
    <3>2. req' = [req EXCEPT ![r] = [@ EXCEPT !.pc = "delete", !.dev = d, !.from = 0]]
      BY <2>2 DEF TypeOK
    <3> QED  BY <3>1, <3>2 DEF TypeOK
  <2>3. \A u \in UsedRows(req[r].token) : u.device \in Devices
    BY DEF UsedRows, TypeOK, UsedToken
  <2> QED  BY <1>8, <2>1, <2>2, <2>3 DEF FindUsed
<1>9. CASE DeleteDevice(r)
  <2>1. PICK p \in {"grant", "clear"} : Leave(r, p, req[r].fresh)
    BY <1>9 DEF DeleteDevice
  <2> QED  BY <1>p, <1>r, <2>1, LeaveType
<1>10. CASE Grant(r) \/ Clear(r)
  BY <1>10, AnsweredType DEF Grant, Clear
<1> QED  BY <1>1, <1>2, <1>3, <1>4, <1>5, <1>6, <1>7, <1>8, <1>9, <1>10 DEF Handle

LEMMA TypeStep == TypeOK /\ ChainInv /\ [Next]_vars => TypeOK'
<1> SUFFICES ASSUME TypeOK, ChainInv, [Next]_vars PROVE TypeOK'
  OBVIOUS
<1>d. /\ issued' \in 0..MaxTokens /\ current' \in [Devices -> 0..MaxTokens]
      /\ expires' \in [Devices -> Nat] /\ used' \subseteq UsedToken
      /\ owner' \in [Tokens -> 0..MaxDevices]
  BY DatabaseType
<1>1. ASSUME NEW r \in Requests, Login(r) \/ Refresh(r) \/ Logout(r) PROVE TypeOK'
  <2>1. PICK o \in {"login", "refresh", "logout"}, p \in {"create", "lookup", "clear"} :
          Send(r, o, p)
    BY <1>1 DEF Login, Refresh, Logout
  <2>2. [NoRequest EXCEPT !.op = o, !.pc = p, !.token = jar] \in Request
    BY NoRequestType DEF NoRequest, Request, Points, TypeOK
  <2>3. req' \in [Requests -> Request]
    BY <2>1, <2>2 DEF Send, TypeOK
  <2>4. disturbed' \in BOOLEAN
    BY <1>1 DEF Login, Refresh, Logout, TypeOK
  <2> QED  BY <1>d, <2>1, <2>3, <2>4 DEF Send, TypeOK, dbVars, historyVars
<1>2. ASSUME NEW r \in Requests, Handle(r) PROVE TypeOK'
  <2>1. req' \in [Requests -> Request]
    BY <1>2, HandleType
  <2>2. UNCHANGED <<now, failures>>
    BY <1>2 DEF Handle, CreateDevice, Lookup, CheckLeeway, ReadDevice, CheckExpiry, Rotate, Reread,
         FindUsed, DeleteDevice, Grant, Clear
  <2>3. cause' \in [Devices -> {"none", "ended", "taken"}]
    BY <1>2 DEF Handle, CreateDevice, Lookup, CheckLeeway, ReadDevice, CheckExpiry, Rotate, Reread,
         FindUsed, DeleteDevice, Grant, Clear, historyVars, TypeOK, CauseOf
  <2>4. jar' \in 0..MaxTokens /\ disturbed' \in BOOLEAN /\ missed' \in BOOLEAN
    <3>1. req[r].fresh \in 0..MaxTokens /\ 0 \in 0..MaxTokens
      BY SessionsAssumption DEF TypeOK, Request
    <3> QED
      BY <1>2, <3>1 DEF Handle, CreateDevice, Lookup, CheckLeeway, ReadDevice, CheckExpiry, Rotate,
         Reread, FindUsed, DeleteDevice, Grant, Clear, TypeOK, browserVars
  <2> QED  BY <1>d, <2>1, <2>2, <2>3, <2>4 DEF TypeOK
<1>3. ASSUME NEW r \in Requests, Abort(r) PROVE TypeOK'
  <2>1. req' \in [Requests -> Request]
    BY <1>3, AnsweredType DEF Abort
  <2>2. failures' \in 0..MaxFailures
    BY <1>3, SessionsAssumption DEF Abort, TypeOK
  <2> QED  BY <1>3, <1>d, <2>1, <2>2 DEF Abort, TypeOK, dbVars, historyVars
<1>4. ASSUME NEW r \in Requests, QueryFails(r) PROVE TypeOK'
  <2>1. \/ Answered(r)
        \/ \E p \in Points, f \in 0..MaxTokens : Fail(r, p, f)
    <3>1. 0 \in 0..MaxTokens /\ req[r].fresh \in 0..MaxTokens
      BY SessionsAssumption DEF TypeOK, Request
    <3>2. {"find", "clear", "grant"} \subseteq Points
      BY DEF Points
    <3> QED  BY <1>4, <3>1, <3>2 DEF QueryFails
  <2>2. req' \in [Requests -> Request]
    BY <2>1, AnsweredType, FailType
  <2>3. failures' \in 0..MaxFailures
    BY <1>4, SessionsAssumption DEF QueryFails, TypeOK
  <2>4. disturbed' \in BOOLEAN
    BY <1>4 DEF QueryFails
  <2> QED  BY <1>4, <1>d, <2>2, <2>3, <2>4 DEF QueryFails, TypeOK, dbVars, historyVars
<1>5. ASSUME NEW d \in Devices, Revoke(d) PROVE TypeOK'
  BY <1>5, <1>d DEF Revoke, TypeOK, browserVars
<1>6. CASE Tick
  <2>1. req' \in [Requests -> Request]
    <3>1. ASSUME NEW r \in Requests PROVE req'[r] \in Request
      <4>1. req[r] \in Request
        BY DEF TypeOK
      <4>2. CASE req'[r] = req[r]
        BY <4>1, <4>2
      <4>3. CASE req[r].age < Prompt /\ req'[r] = [req[r] EXCEPT !.age = @ + 1]
        <5>1. req[r].age + 1 \in 0..Prompt
          BY <4>1, <4>3, SessionsAssumption DEF Request
        <5> QED  BY <4>1, <4>3, <5>1 DEF Request
      <4> QED  BY <1>6, <4>2, <4>3 DEF Tick
    <3>2. req' = [r \in Requests |-> req'[r]]
      BY <1>6 DEF Tick
    <3> QED  BY <3>1, <3>2
  <2>2. now' \in 0..MaxTime
    BY <1>6, SessionsAssumption DEF Tick, TypeOK
  <2>3. disturbed' \in BOOLEAN
    BY <1>6 DEF Tick
  <2> QED  BY <1>6, <1>d, <2>1, <2>2, <2>3 DEF Tick, TypeOK, dbVars, historyVars
<1>7. CASE UNCHANGED vars
  BY <1>7 DEF vars, dbVars, historyVars, browserVars, TypeOK
<1> QED  BY <1>1, <1>2, <1>3, <1>4, <1>5, <1>6, <1>7 DEF Next

LEMMA SessionsTypeInit == Init => TypeOK
<1> SUFFICES ASSUME Init PROVE TypeOK
  OBVIOUS
<1>1. 0 \in 0..MaxTokens /\ 0 \in 0..MaxDevices /\ 0 \in 0..MaxTime /\ 0 \in 0..MaxFailures
  BY SessionsAssumption
<1> QED  BY <1>1, NoRequestType DEF Init, TypeOK, NoDevice

-----------------------------------------------------------------------------
(* What requests know.                                                     *)

\* A request that is left alone knows what it knew.
LEMMA KnowsStay ==
    ASSUME TypeOK, ChainInv, [Next]_vars, NEW q \in Requests,
           req'[q].fresh = req[q].fresh, req'[q].token = req[q].token, req'[q].pc = req[q].pc,
           req'[q].dev = req[q].dev, req'[q].from = req[q].from, req'[q].tries = req[q].tries,
           req'[q].op = req[q].op
    PROVE  Knows(q)'
<1>1. Knows(q)
  BY DEF ChainInv
<1>2. \A t : IsIssued(t) => WillBeIssued(t) /\ owner'[t] = owner[t]
  BY OwnersStay
<1> QED  BY <1>1, <1>2 DEF Knows, IsIssued, WillBeIssued

LEMMA AnsweredKnows ==
    ASSUME TypeOK, NEW r \in Requests, Answered(r) PROVE Knows(r)'
<1>1. req'[r] = NoRequest
  BY DEF Answered, TypeOK
<1> QED  BY <1>1 DEF Knows, NoRequest

\* Who has left the device can know no wrong.
LEMMA LeaveKnows ==
    ASSUME TypeOK, ChainInv, [Next]_vars, NEW r \in Requests, ~At(r, "idle"),
           NEW p \in {"lookup", "find", "grant", "clear"}, NEW f, Leave(r, p, f) \/ Fail(r, p, f),
           f # 0 => WillBeIssued(f), p \in {"lookup", "find"} => req[r].token # 0
    PROVE  Knows(r)'
<1>1. req[r] \in Request
  BY DEF TypeOK
<1>2. /\ req'[r].op = req[r].op /\ req'[r].pc = p /\ req'[r].token = req[r].token
      /\ req'[r].fresh = f
  <2>1. CASE Leave(r, p, f)
    BY <1>1, <2>1 DEF Leave, Left, Request, TypeOK
  <2>2. CASE Fail(r, p, f)
    BY <1>1, <2>2 DEF Fail, Left, Request, TypeOK
  <2> QED  BY <2>1, <2>2
<1>3. Knows(r)
  BY DEF ChainInv
<1>4. \A t : IsIssued(t) => WillBeIssued(t)
  BY OwnersStay
<1>5. req[r].token # 0 => WillBeIssued(req[r].token)
  BY <1>3, <1>4 DEF Knows
<1> QED  BY <1>2, <1>3, <1>5 DEF Knows, IsIssued, WillBeIssued, At

LEMMA SendKnows ==
    ASSUME TypeOK, ChainInv, [Next]_vars, NEW r \in Requests, NEW o \in {"login", "refresh", "logout"},
           NEW p \in {"create", "lookup", "clear"}, Send(r, o, p), p = "lookup" => jar # 0
    PROVE  Knows(r)'
<1>1. /\ req'[r].op = o /\ req'[r].pc = p /\ req'[r].token = jar /\ req'[r].fresh = 0
  BY DEF Send, NoRequest, TypeOK
<1>2. jar # 0 => WillBeIssued(jar)
  BY OwnersStay DEF ChainInv, Numbered
<1> QED  BY <1>1, <1>2 DEF Knows, IsIssued, WillBeIssued

\* The handler goes on with a device: it has read current[d], or d is where a used
\* token belongs.
LEMMA DeviceKnows ==
    ASSUME TypeOK, ChainInv, [Next]_vars, NEW r \in Requests, ~At(r, "idle"), req[r].token # 0,
           req'[r].op = req[r].op, req'[r].token = req[r].token, req'[r].fresh = req[r].fresh,
           req'[r].pc \in {"device", "expiry", "rotate", "reread", "delete"},
           req'[r].dev \in Devices,
           req'[r].pc \in {"expiry", "rotate"} =>
               IsIssued(req'[r].from) /\ owner[req'[r].from] = req'[r].dev,
           req'[r].pc = "reread" => req'[r].tries < RotationAttempts
    PROVE  Knows(r)'
<1>1. Knows(r)
  BY DEF ChainInv
<1>2. \A t : IsIssued(t) => WillBeIssued(t) /\ owner'[t] = owner[t]
  BY OwnersStay
<1> QED  BY <1>1, <1>2 DEF Knows, IsIssued, WillBeIssued, At

LEMMA HandleKnows ==
    ASSUME TypeOK, ChainInv, [Next]_vars, NEW r \in Requests, Handle(r)
    PROVE  Knows(r)'
<1>k. Knows(r) /\ OneChain /\ Numbered
  BY DEF ChainInv
<1>r. req[r] \in Request /\ req \in [Requests -> Request] /\ used \subseteq UsedToken
  BY DEF TypeOK
<1>o. \A t : IsIssued(t) => WillBeIssued(t)
  BY OwnersStay
<1>i. ASSUME NEW d \in Devices, issued < MaxTokens, Issue(d) PROVE WillBeIssued(issued + 1)
  BY <1>i, <1>k, IssueFacts DEF WillBeIssued
<1>c. ASSUME NEW d \in Devices, current[d] # 0
      PROVE  IsIssued(current[d]) /\ owner[current[d]] = d
  BY <1>c, <1>k DEF OneChain, IsIssued, TypeOK, Tokens
<1>u. \A t : \A u \in UsedRows(t) : u.device \in Devices
  BY <1>r DEF UsedRows, UsedToken
<1>1. CASE CreateDevice(r)
  <2>1. CASE Answered(r)
    BY <2>1, AnsweredKnows
  <2>2. ASSUME NEW d \in Devices, issued < MaxTokens, Issue(d),
               Leave(r, IF req[r].token = 0 THEN "grant" ELSE "lookup", issued + 1)
        PROVE  Knows(r)'
    <3>1. WillBeIssued(issued + 1) /\ ~At(r, "idle")
      BY <1>1, <1>i, <2>2 DEF CreateDevice, At
    <3>2. CASE req[r].token = 0
      BY <2>2, <3>1, <3>2, LeaveKnows
    <3>3. CASE req[r].token # 0
      BY <2>2, <3>1, <3>3, LeaveKnows
    <3> QED  BY <3>2, <3>3
  <2> QED  BY <1>1, <2>1, <2>2 DEF CreateDevice
<1>2. CASE Lookup(r)
  <2>1. req[r].token # 0 /\ ~At(r, "idle")
    BY <1>2, <1>k DEF Lookup, At, Knows
  <2>2. ASSUME NEW d \in DeviceWith(req[r].token), NEW p \in {"expiry", "delete"}, Loaded(r, d, p)
        PROVE  Knows(r)'
    <3>1. d \in Devices /\ current[d] # 0
      BY <2>1, <2>2 DEF DeviceWith
    <3>2. /\ req'[r].op = req[r].op /\ req'[r].token = req[r].token
          /\ req'[r].fresh = req[r].fresh /\ req'[r].pc = p /\ req'[r].dev = d
          /\ req'[r].from = current[d]
      BY <1>r, <2>2 DEF Loaded, Request
    <3> QED  BY <1>c, <2>1, <3>1, <3>2, DeviceKnows
  <2>3. ASSUME NEW p \in {"leeway", "find", "grant"}, Goto(r, p) PROVE Knows(r)'
    <3>1. /\ req'[r].op = req[r].op /\ req'[r].token = req[r].token
          /\ req'[r].fresh = req[r].fresh /\ req'[r].pc = p
      BY <1>r, <2>3 DEF Goto, Request
    <3> QED  BY <1>k, <1>o, <2>1, <3>1 DEF Knows, IsIssued, WillBeIssued, At
  <2>4. req[r].op \in {"refresh", "logout", "login"}
    BY <1>k, <1>r, <2>1 DEF Request, At, Knows
  <2> QED  BY <1>2, <2>2, <2>3, <2>4 DEF Lookup
<1>3. CASE CheckLeeway(r) \/ FindUsed(r)
  <2>1. req[r].token # 0 /\ ~At(r, "idle")
    BY <1>3, <1>k DEF CheckLeeway, FindUsed, At, Knows
  <2>2. ASSUME NEW p \in {"find", "clear"}, Goto(r, p) PROVE Knows(r)'
    <3>1. /\ req'[r].op = req[r].op /\ req'[r].token = req[r].token
          /\ req'[r].fresh = req[r].fresh /\ req'[r].pc = p
      BY <1>r, <2>2 DEF Goto, Request
    <3> QED  BY <1>k, <1>o, <2>1, <3>1 DEF Knows, IsIssued, WillBeIssued, At
  <2>3. ASSUME NEW d \in Devices,
               \/ req' = [req EXCEPT ![r].pc = "device", ![r].dev = d]
               \/ req' = [req EXCEPT ![r].pc = "delete", ![r].dev = d, ![r].from = 0]
        PROVE  Knows(r)'
    <3>1. /\ req'[r].op = req[r].op /\ req'[r].token = req[r].token
          /\ req'[r].fresh = req[r].fresh /\ req'[r].pc \in {"device", "delete"}
          /\ req'[r].dev = d
      BY <1>r, <2>3 DEF Request
    <3> QED  BY <2>1, <3>1, DeviceKnows
  <2> QED  BY <1>3, <1>u, <2>2, <2>3 DEF CheckLeeway, FindUsed
<1>4. CASE ReadDevice(r) \/ Reread(r)
  <2>1. req[r].token # 0 /\ ~At(r, "idle") /\ req[r].dev \in Devices
    BY <1>4, <1>k DEF ReadDevice, Reread, At, Knows
  <2>2. ASSUME NEW p \in {"find", "clear"}, Leave(r, p, 0) PROVE Knows(r)'
    BY <2>1, <2>2, LeaveKnows
  <2>3. ASSUME current[req[r].dev] # 0,
               \/ Loaded(r, req[r].dev, "expiry")
               \/ req' = [req EXCEPT ![r].pc = "rotate", ![r].tries = @ + 1,
                                     ![r].from = current[req[r].dev]]
        PROVE  Knows(r)'
    <3>1. /\ req'[r].op = req[r].op /\ req'[r].token = req[r].token
          /\ req'[r].fresh = req[r].fresh /\ req'[r].pc \in {"expiry", "rotate"}
          /\ req'[r].dev = req[r].dev /\ req'[r].from = current[req[r].dev]
      BY <1>r, <2>3 DEF Loaded, Request
    <3> QED  BY <1>c, <2>1, <2>3, <3>1, DeviceKnows
  <2> QED  BY <1>4, <2>2, <2>3 DEF ReadDevice, Reread
<1>5. CASE CheckExpiry(r)
  <2>1. /\ req[r].token # 0 /\ ~At(r, "idle") /\ req[r].dev \in Devices
        /\ IsIssued(req[r].from) /\ owner[req[r].from] = req[r].dev
    BY <1>5, <1>k DEF CheckExpiry, At, Knows
  <2>2. PICK p \in {"delete", "rotate"} :
          req' = [req EXCEPT ![r].pc = p, ![r].until = 0, ![r].tries = 1]
    BY <1>5 DEF CheckExpiry
  <2>3. /\ req'[r].op = req[r].op /\ req'[r].token = req[r].token
        /\ req'[r].fresh = req[r].fresh /\ req'[r].pc = p
        /\ req'[r].dev = req[r].dev /\ req'[r].from = req[r].from
    BY <1>r, <2>2 DEF Request
  <2> QED  BY <2>1, <2>3, DeviceKnows
<1>6. CASE Rotate(r)
  <2>1. req[r].token # 0 /\ ~At(r, "idle") /\ req[r].dev \in Devices
    BY <1>6, <1>k DEF Rotate, At, Knows
  <2>2. CASE Answered(r)
    BY <2>2, AnsweredKnows
  <2>3. CASE Swap(r)
    <3>1. WillBeIssued(issued + 1) /\ Leave(r, "grant", issued + 1)
      BY <1>i, <2>1, <2>3 DEF Swap
    <3> QED  BY <2>1, <3>1, LeaveKnows
  <2>4. CASE req[r].tries # RotationAttempts /\ Goto(r, "reread")
    <3>1. /\ req'[r].op = req[r].op /\ req'[r].token = req[r].token
          /\ req'[r].fresh = req[r].fresh /\ req'[r].pc = "reread"
          /\ req'[r].dev = req[r].dev /\ req'[r].tries = req[r].tries
      BY <1>r, <2>4 DEF Goto, Request
    <3>2. req[r].tries < RotationAttempts
      BY <1>r, <2>4, SessionsAssumption DEF Request
    <3> QED  BY <2>1, <3>1, <3>2, DeviceKnows
  <2> QED  BY <1>6, <2>2, <2>3, <2>4 DEF Rotate, TryAgain
<1>7. CASE DeleteDevice(r)
  <2>1. PICK p \in {"grant", "clear"} : Leave(r, p, req[r].fresh)
    BY <1>7 DEF DeleteDevice
  <2>2. ~At(r, "idle") /\ (req[r].fresh # 0 => WillBeIssued(req[r].fresh))
    BY <1>7, <1>k, <1>o DEF DeleteDevice, At, Knows
  <2> QED  BY <2>1, <2>2, LeaveKnows
<1>8. CASE Grant(r) \/ Clear(r)
  BY <1>8, AnsweredKnows DEF Grant, Clear
<1> QED  BY <1>1, <1>2, <1>3, <1>4, <1>5, <1>6, <1>7, <1>8 DEF Handle

LEMMA FailKnows ==
    ASSUME TypeOK, ChainInv, [Next]_vars, NEW r \in Requests, Abort(r) \/ QueryFails(r)
    PROVE  Knows(r)'
<1>1. CASE Answered(r)
  BY <1>1, AnsweredKnows
<1>2. CASE QueryFails(r) /\ ~Answered(r)
  <2>1. Knows(r)
    BY DEF ChainInv
  <2>2. \A t : IsIssued(t) => WillBeIssued(t)
    BY OwnersStay
  <2>3. ~At(r, "idle") /\ (req[r].fresh # 0 => WillBeIssued(req[r].fresh))
    BY <1>2, <2>1, <2>2 DEF QueryFails, At, Knows
  <2>4. PICK p \in {"find", "clear", "grant"}, f \in {0, req[r].fresh} :
          Fail(r, p, f) /\ (p = "find" => req[r].pc \in {"lookup", "leeway", "device"})
    BY <1>2 DEF QueryFails
  <2>5. p = "find" => req[r].token # 0
    BY <2>1, <2>4 DEF Knows
  <2> QED  BY <2>3, <2>4, <2>5, LeaveKnows
<1> QED  BY <1>1, <1>2 DEF Abort

LEMMA KnowsStep ==
    ASSUME TypeOK, ChainInv, [Next]_vars, NEW q \in Requests PROVE Knows(q)'
<1>r. req \in [Requests -> Request]
  BY DEF TypeOK
<1>1. CASE req'[q] = req[q]
  BY <1>1, KnowsStay
<1>2. CASE Login(q) \/ Refresh(q) \/ Logout(q)
  BY <1>2, SendKnows DEF Login, Refresh, Logout
<1>3. CASE Handle(q)
  BY <1>3, HandleKnows
<1>4. CASE Abort(q) \/ QueryFails(q)
  BY <1>4, FailKnows
<1>5. ASSUME NEW r \in Requests, q # r,
             Login(r) \/ Refresh(r) \/ Logout(r) \/ Handle(r) \/ Abort(r) \/ QueryFails(r)
      PROVE  req'[q] = req[q]
  BY <1>5, <1>r DEF Login, Refresh, Logout, Send, Handle, CreateDevice, Lookup, CheckLeeway,
       ReadDevice, CheckExpiry, Rotate, Swap, TryAgain, Reread, FindUsed, DeleteDevice, Grant, Clear,
       Abort, QueryFails, Fail, Leave, Goto, Loaded, Answered
<1>6. CASE Tick
  <2>1. req'[q] = req[q] \/ req'[q] = [req[q] EXCEPT !.age = @ + 1]
    BY <1>6 DEF Tick
  <2>2. /\ req'[q].fresh = req[q].fresh /\ req'[q].token = req[q].token /\ req'[q].pc = req[q].pc
        /\ req'[q].dev = req[q].dev /\ req'[q].from = req[q].from /\ req'[q].tries = req[q].tries
        /\ req'[q].op = req[q].op
    BY <1>r, <2>1 DEF Request
  <2> QED  BY <2>2, KnowsStay
<1>7. CASE UNCHANGED vars \/ \E d \in Devices : Revoke(d)
  BY <1>1, <1>7 DEF vars, Revoke
<1> QED  BY <1>1, <1>2, <1>3, <1>4, <1>5, <1>6, <1>7 DEF Next

LEMMA NumberedStep == TypeOK /\ ChainInv /\ [Next]_vars => Numbered'
<1> SUFFICES ASSUME TypeOK, ChainInv, [Next]_vars PROVE Numbered'
  OBVIOUS
<1>i. Numbered /\ \A r \in Requests : Knows(r)
  BY DEF ChainInv
<1>1. jar' # 0 => WillBeIssued(jar')
  <2>1. \/ jar' \in {0, jar}
        \/ \E r \in Requests : jar' = req[r].fresh
    BY DEF Next, vars, dbVars, historyVars, Login, Refresh, Logout, Send, Handle, CreateDevice, Lookup,
       CheckLeeway, ReadDevice, CheckExpiry, Rotate, Reread, FindUsed, DeleteDevice, Grant, Clear,
       Abort, QueryFails, Revoke, Tick
  <2>2. jar' # 0 => IsIssued(jar')
    BY <1>i, <2>1 DEF Numbered, Knows
  <2> QED  BY <2>2, OwnersStay
<1>2. \A t \in Tokens : owner'[t] # NoDevice => t <= issued'
  <2>1. CASE UNCHANGED <<issued, owner>>
    BY <1>i, <2>1 DEF Numbered
  <2>2. ASSUME NEW d \in Devices, issued < MaxTokens, Issue(d)
        PROVE  \A t \in Tokens : owner'[t] # NoDevice => t <= issued'
    <3>1. \A t \in Tokens : t \in Nat
      BY SessionsAssumption DEF Tokens
    <3> QED  BY <1>i, <2>2, <3>1, IssueFacts
  <2> QED  BY <2>1, <2>2, DatabaseStep DEF dbVars, Starts, Replaces, Ends
<1> QED  BY <1>1, <1>2 DEF Numbered, IsIssued, WillBeIssued

\* The inductive invariant.
LEMMA ChainInvariant == Spec => [](TypeOK /\ ChainInv)
<1>1. Init => TypeOK /\ ChainInv
  <2> SUFFICES ASSUME Init PROVE ChainInv
    BY SessionsTypeInit
  <2>1. OneChain
    BY DEF Init, OneChain
  <2>2. Numbered
    BY DEF Init, Numbered
  <2>3. \A r \in Requests : Knows(r)
    BY DEF Init, Knows, NoRequest
  <2> QED  BY <2>1, <2>2, <2>3 DEF ChainInv
<1>2. TypeOK /\ ChainInv /\ [Next]_vars => (TypeOK /\ ChainInv)'
  BY TypeStep, OneChainStep, NumberedStep, KnowsStep DEF ChainInv
<1> QED  BY <1>1, <1>2, PTL DEF Spec

\* The types of all variables.
THEOREM SessionsTypeCorrect == Spec => []TypeOK
  BY ChainInvariant, PTL

\* A device is one chain of tokens, so the insert of a rotation never meets its
\* primary key.
THEOREM TokensFormAChain == Spec => []OneChain
<1>1. ChainInv => OneChain
  BY DEF ChainInv
<1> QED  BY <1>1, ChainInvariant, PTL

-----------------------------------------------------------------------------
(* What a step does to a request.                                          *)

Kept(r) ==
    /\ req'[r].op = req[r].op /\ req'[r].token = req[r].token
    /\ req'[r].age = req[r].age /\ UNCHANGED now
    /\ req'[r].failed = req[r].failed

\* The request is where it was and knows what it knew; only its age may have changed.
Alone(r) ==
    /\ req'[r].op = req[r].op /\ req'[r].pc = req[r].pc /\ req'[r].token = req[r].token
    /\ req'[r].dev = req[r].dev /\ req'[r].from = req[r].from
    /\ req'[r].until = req[r].until /\ req'[r].fresh = req[r].fresh
    /\ req'[r].failed = req[r].failed
    /\ \/ req'[r].age = req[r].age /\ UNCHANGED now
       \/ Tick

LEMMA AnsweredEffect ==
    ASSUME TypeOK, NEW r \in Requests, Answered(r)
    PROVE  /\ req'[r].op = "none" /\ req'[r].pc = "idle" /\ req'[r].fresh = 0
           /\ ~req'[r].failed
  BY DEF Answered, NoRequest, TypeOK

LEMMA GotoEffect ==
    ASSUME TypeOK, NEW r \in Requests, NEW p, Goto(r, p), UNCHANGED now
    PROVE  /\ Kept(r) /\ req'[r].pc = p /\ req'[r].dev = req[r].dev
           /\ req'[r].from = req[r].from /\ req'[r].until = req[r].until
           /\ req'[r].fresh = req[r].fresh
<1>1. req[r] \in Request
  BY DEF TypeOK
<1> QED  BY <1>1 DEF Goto, Kept, TypeOK, Request

LEMMA LeaveEffect ==
    ASSUME TypeOK, NEW r \in Requests, NEW p, NEW f, Leave(r, p, f), UNCHANGED now
    PROVE  Kept(r) /\ req'[r].pc = p /\ req'[r].fresh = f
<1>1. req[r] \in Request
  BY DEF TypeOK
<1> QED  BY <1>1 DEF Leave, Left, Kept, TypeOK, Request

LEMMA LoadedEffect ==
    ASSUME TypeOK, NEW r \in Requests, NEW p, NEW d, Loaded(r, d, p), UNCHANGED now
    PROVE  /\ Kept(r) /\ req'[r].pc = p /\ req'[r].dev = d /\ req'[r].from = current[d]
           /\ req'[r].until = expires[d] /\ req'[r].fresh = req[r].fresh
<1>1. req[r] \in Request
  BY DEF TypeOK
<1> QED  BY <1>1 DEF Loaded, Kept, TypeOK, Request

\* Where the used token leads.
LEMMA FoundEffect ==
    ASSUME TypeOK, NEW r \in Requests, NEW d, UNCHANGED now,
           \/ req' = [req EXCEPT ![r].pc = "device", ![r].dev = d]
           \/ req' = [req EXCEPT ![r].pc = "delete", ![r].dev = d, ![r].from = 0]
    PROVE  /\ Kept(r) /\ req'[r].pc \in {"device", "delete"} /\ req'[r].dev = d
           /\ req'[r].fresh = req[r].fresh
<1>1. req[r] \in Request
  BY DEF TypeOK
<1> QED  BY <1>1 DEF Kept, TypeOK, Request

LEMMA CheckExpiryEffect ==
    ASSUME TypeOK, NEW r \in Requests, CheckExpiry(r)
    PROVE  /\ Kept(r) /\ req'[r].pc = IF now > req[r].until THEN "delete" ELSE "rotate"
           /\ req'[r].dev = req[r].dev /\ req'[r].from = req[r].from
           /\ req'[r].fresh = req[r].fresh
<1>1. req[r] \in Request
  BY DEF TypeOK
<1> QED  BY <1>1 DEF CheckExpiry, Kept, TypeOK, Request

LEMMA RereadEffect ==
    ASSUME TypeOK, NEW r \in Requests, Reread(r), current[req[r].dev] # 0
    PROVE  /\ Kept(r) /\ req'[r].pc = "rotate" /\ req'[r].dev = req[r].dev
           /\ req'[r].fresh = req[r].fresh
<1>1. req[r] \in Request
  BY DEF TypeOK
<1> QED  BY <1>1 DEF Reread, Kept, TypeOK, Request

LEMMA SendEffect ==
    ASSUME TypeOK, NEW r \in Requests, Login(r) \/ Refresh(r) \/ Logout(r)
    PROVE  /\ \/ req'[r].op = "login" /\ req'[r].pc = "create"
              \/ req'[r].op = "refresh" /\ req'[r].pc = "lookup" /\ jar # 0 /\ Refresh(r)
              \/ req'[r].op = "logout" /\ req'[r].pc = "lookup" /\ jar # 0
              \/ req'[r].op = "logout" /\ req'[r].pc = "clear" /\ jar = 0
           /\ req[r].pc = "idle" /\ req'[r].token = jar /\ req'[r].age = 0 /\ req'[r].fresh = 0
           /\ ~req'[r].failed
           /\ UNCHANGED <<dbVars, owner, now, jar, missed>>
<1>1. PICK o, p : /\ Send(r, o, p)
                  /\ \/ o = "login" /\ p = "create"
                     \/ o = "refresh" /\ p = "lookup" /\ jar # 0 /\ Refresh(r)
                     \/ o = "logout" /\ p = "lookup" /\ jar # 0
                     \/ o = "logout" /\ p = "clear" /\ jar = 0
  BY DEF Login, Refresh, Logout
<1>2. /\ req'[r].op = o /\ req'[r].pc = p /\ req'[r].token = jar /\ req'[r].age = 0
      /\ req'[r].fresh = 0 /\ ~req'[r].failed
  BY <1>1 DEF Send, NoRequest, TypeOK
<1> QED  BY <1>1, <1>2 DEF Send, At, historyVars

\* How a query that fails is answered, or where the handler goes on.
LEMMA FailEffect ==
    ASSUME TypeOK, NEW r \in Requests, QueryFails(r)
    PROVE  /\ UNCHANGED <<now, missed>>
           /\ \/ /\ req'[r].op = "none" /\ req'[r].pc = "idle" /\ req'[r].fresh = 0
                 /\ ~req'[r].failed /\ req[r].op # "login" /\ req[r].pc = "rotate"
              \/ /\ req'[r].op = req[r].op /\ req'[r].token = req[r].token
                 /\ req'[r].age = req[r].age /\ req'[r].failed
                 /\ \/ /\ req[r].op # "login" /\ req'[r].fresh = 0
                       /\ \/ /\ req[r].pc \in {"lookup", "leeway", "device"}
                             /\ req'[r].pc = "find"
                             /\ req[r].op = "refresh" => disturbed'
                          \/ /\ req[r].pc \in {"expiry", "reread", "find", "delete"}
                             /\ req'[r].pc = "clear"
                    \/ /\ req[r].op = "login" /\ req[r].pc \in {"lookup", "delete"}
                       /\ req'[r].pc = "grant" /\ req'[r].fresh = req[r].fresh
<1>1. UNCHANGED <<now, missed>>
  BY DEF QueryFails
<1>2. CASE Answered(r) /\ req[r].op # "login" /\ At(r, "rotate")
  BY <1>1, <1>2, AnsweredEffect DEF At
<1>3. ASSUME NEW p, NEW f, Fail(r, p, f)
      PROVE  /\ req'[r].op = req[r].op /\ req'[r].token = req[r].token
             /\ req'[r].age = req[r].age /\ req'[r].failed
             /\ req'[r].pc = p /\ req'[r].fresh = f
  BY <1>3 DEF Fail, Left, TypeOK, Request
<1>4. req[r].op = "refresh" /\ req[r].pc \in {"lookup", "leeway", "device"} => disturbed'
  BY DEF QueryFails
<1> QED  BY <1>1, <1>2, <1>3, <1>4 DEF QueryFails

LEMMA RequestStep ==
    ASSUME TypeOK, [Next]_vars, NEW q \in Requests
    PROVE  \/ Alone(q)
           \/ Login(q) \/ Refresh(q) \/ Logout(q)
           \/ Handle(q)
           \/ Abort(q) \/ QueryFails(q)
<1>r. req \in [Requests -> Request] /\ req[q] \in Request
  BY DEF TypeOK
<1>1. CASE req'[q] = req[q] /\ UNCHANGED now
  BY <1>1 DEF Alone
<1>2. ASSUME NEW r \in Requests, q # r,
             Login(r) \/ Refresh(r) \/ Logout(r) \/ Handle(r) \/ Abort(r) \/ QueryFails(r)
      PROVE  req'[q] = req[q] /\ UNCHANGED now
  BY <1>2, <1>r DEF Login, Refresh, Logout, Send, Handle, CreateDevice, Lookup, CheckLeeway,
       ReadDevice, CheckExpiry, Rotate, Swap, TryAgain, Reread, FindUsed, DeleteDevice, Grant, Clear,
       Abort, QueryFails, Fail, Leave, Goto, Loaded, Answered
<1>3. CASE Tick
  <2>1. req'[q] = req[q] \/ req'[q] = [req[q] EXCEPT !.age = @ + 1]
    BY <1>3 DEF Tick
  <2> QED  BY <1>3, <1>r, <2>1 DEF Alone, Request
<1>4. CASE UNCHANGED vars \/ \E d \in Devices : Revoke(d)
  BY <1>1, <1>4 DEF vars, Revoke
<1> QED  BY <1>1, <1>2, <1>3, <1>4 DEF Next

\* What befell the browser is not forgotten.
LEMMA Lasting ==
    ASSUME TypeOK, [Next]_vars
    PROVE  /\ disturbed => disturbed'
           /\ missed => missed'
           /\ now \in Nat /\ now' \in Nat /\ now <= now'
<1>1. now \in Nat
  BY SessionsAssumption DEF TypeOK
<1>2. now' \in {now, now + 1}
  BY DEF Next, vars, dbVars, historyVars, Login, Refresh, Logout, Send, Handle, CreateDevice, Lookup,
     CheckLeeway, ReadDevice, CheckExpiry, Rotate, Reread, FindUsed, DeleteDevice, Grant, Clear,
     Abort, QueryFails, Revoke, Tick
<1>3. disturbed => disturbed'
  BY DEF Next, vars, browserVars, Login, Refresh, Logout, Send, Handle, CreateDevice, Lookup,
     CheckLeeway, ReadDevice, CheckExpiry, Rotate, Reread, FindUsed, DeleteDevice, Grant, Clear,
     Abort, QueryFails, Revoke, Tick
<1>4. missed => missed'
  BY DEF Next, vars, browserVars, Login, Refresh, Logout, Send, Handle, CreateDevice, Lookup,
     CheckLeeway, ReadDevice, CheckExpiry, Rotate, Reread, FindUsed, DeleteDevice, Grant, Clear,
     Abort, QueryFails, Revoke, Tick
<1> QED  BY <1>1, <1>2, <1>3, <1>4

-----------------------------------------------------------------------------
(* The course of a request.                                                *)

LEMMA CoursesStep ==
    ASSUME TypeOK, ChainInv, [Next]_vars, NEW q \in Requests, Courses(q)
    PROVE  Courses(q)'
<1>k. Knows(q) /\ req[q] \in Request
  BY DEF ChainInv, TypeOK
<1>i. issued \in Nat /\ issued + 1 # 0
  BY SessionsAssumption DEF TypeOK
<1>a. /\ req'[q].op = "none" /\ req'[q].pc = "idle" /\ req'[q].fresh = 0
      /\ ~req'[q].failed
      => Courses(q)'
  BY DEF Courses
<1>1. CASE Alone(q)
  BY <1>1 DEF Alone, Courses
<1>2. CASE Login(q) \/ Refresh(q) \/ Logout(q)
  BY <1>2, SendEffect DEF Courses
<1>3. CASE Abort(q)
  BY <1>3, <1>a, AnsweredEffect DEF Abort
<1>4. CASE QueryFails(q)
  BY <1>4, <1>a, <1>k, FailEffect DEF Courses, Knows, Request
<1>5. CASE Handle(q)
  <2>n. UNCHANGED now
    BY <1>5 DEF Handle, CreateDevice, Lookup, CheckLeeway, ReadDevice, CheckExpiry, Rotate, Reread,
       FindUsed, DeleteDevice, Grant, Clear
  <2>1. CASE CreateDevice(q)
    <3>1. CASE Answered(q)
      BY <1>a, <3>1, AnsweredEffect
    <3>2. ASSUME NEW p \in {"grant", "lookup"}, Leave(q, p, issued + 1) PROVE Courses(q)'
      <4>1. /\ ~req'[q].failed
            /\ req'[q].op = "login" /\ req'[q].pc = p /\ req'[q].fresh = issued + 1
        BY <2>1, <2>n, <3>2, LeaveEffect DEF CreateDevice, At, Courses, Kept
      <4> QED  BY <1>i, <4>1 DEF Courses
    <3> QED  BY <2>1, <3>1, <3>2 DEF CreateDevice
  <2>2. CASE Lookup(q)
    <3>1. ASSUME NEW d, NEW p \in {"expiry", "delete"}, Loaded(q, d, p),
                 p = "expiry" => req[q].op = "refresh"
          PROVE  Courses(q)'
      <4>1. /\ req'[q].failed = req[q].failed
            /\ req'[q].op = req[q].op /\ req'[q].pc = p /\ req'[q].fresh = req[q].fresh
        BY <2>n, <3>1, LoadedEffect DEF Kept
      <4> QED  BY <2>2, <3>1, <4>1 DEF Lookup, At, Courses
    <3>2. ASSUME NEW p \in {"leeway", "find", "grant"}, Goto(q, p),
                 p = "leeway" => req[q].op = "refresh", p = "find" => req[q].op = "logout",
                 p = "grant" => req[q].op = "login"
          PROVE  Courses(q)'
      <4>1. /\ req'[q].failed = req[q].failed
            /\ req'[q].op = req[q].op /\ req'[q].pc = p /\ req'[q].fresh = req[q].fresh
        BY <2>n, <3>2, GotoEffect DEF Kept
      <4> QED  BY <2>2, <3>2, <4>1 DEF Lookup, At, Courses
    <3>3. req[q].op \in {"refresh", "logout", "login"}
      BY <1>k, <2>2 DEF Lookup, At, Knows, Request
    <3> QED  BY <2>2, <3>1, <3>2, <3>3 DEF Lookup
  <2>3. CASE CheckLeeway(q) \/ FindUsed(q)
    <3>1. ASSUME NEW d,
                 \/ req' = [req EXCEPT ![q].pc = "device", ![q].dev = d] /\ At(q, "leeway")
                 \/ req' = [req EXCEPT ![q].pc = "delete", ![q].dev = d, ![q].from = 0]
          PROVE  Courses(q)'
      <4>1. /\ req'[q].failed = req[q].failed
            /\ req'[q].op = req[q].op /\ req'[q].pc \in {"device", "delete"}
            /\ req'[q].fresh = req[q].fresh
        BY <2>n, <3>1, FoundEffect DEF Kept
      <4>2. At(q, "find") => req'[q].pc = "delete"
        BY <1>k, <3>1 DEF At, TypeOK, Request
      <4> QED  BY <2>3, <3>1, <4>1, <4>2 DEF CheckLeeway, FindUsed, At, Courses
    <3>2. ASSUME NEW p \in {"find", "clear"}, Goto(q, p) PROVE Courses(q)'
      <4>1. /\ req'[q].failed = req[q].failed
            /\ req'[q].op = req[q].op /\ req'[q].pc = p /\ req'[q].fresh = req[q].fresh
            /\ req'[q].token = req[q].token
        BY <2>n, <3>2, GotoEffect DEF Kept
      <4> QED  BY <2>3, <3>2, <4>1 DEF CheckLeeway, FindUsed, At, Courses
    <3> QED  BY <2>3, <3>1, <3>2 DEF CheckLeeway, FindUsed
  <2>4. CASE ReadDevice(q) \/ Reread(q)
    <3>t. req[q].op \notin {"login", "logout"} /\ req[q].fresh = 0 /\ ~req[q].failed
      BY <2>4 DEF ReadDevice, Reread, At, Courses
    <3>1. ASSUME NEW p \in {"find", "clear"}, Leave(q, p, 0) PROVE Courses(q)'
      <4>1. /\ req'[q].failed = req[q].failed
            /\ req'[q].op = req[q].op /\ req'[q].pc = p /\ req'[q].fresh = 0
        BY <2>n, <3>1, LeaveEffect DEF Kept
      <4> QED  BY <3>t, <4>1 DEF Courses
    <3>2. ASSUME NEW d, Loaded(q, d, "expiry") PROVE Courses(q)'
      <4>1. /\ req'[q].failed = req[q].failed
            /\ req'[q].op = req[q].op /\ req'[q].pc = "expiry" /\ req'[q].fresh = req[q].fresh
        BY <2>n, <3>2, LoadedEffect DEF Kept
      <4> QED  BY <3>t, <4>1 DEF Courses
    <3>3. CASE Reread(q) /\ current[req[q].dev] # 0
      <4>1. /\ req'[q].failed = req[q].failed
            /\ req'[q].op = req[q].op /\ req'[q].pc = "rotate" /\ req'[q].fresh = req[q].fresh
        BY <3>3, RereadEffect DEF Kept
      <4> QED  BY <3>t, <4>1 DEF Courses
    <3> QED  BY <2>4, <3>1, <3>2, <3>3 DEF ReadDevice, Reread
  <2>5. CASE CheckExpiry(q)
    <3>1. /\ req'[q].failed = req[q].failed
          /\ req'[q].op = req[q].op /\ req'[q].pc \in {"delete", "rotate"}
          /\ req'[q].fresh = req[q].fresh
      BY <2>5, CheckExpiryEffect DEF Kept
    <3>2. req[q].op \notin {"login", "logout"} /\ req[q].fresh = 0 /\ ~req[q].failed
      BY <2>5 DEF CheckExpiry, At, Courses
    <3> QED  BY <3>1, <3>2 DEF Courses
  <2>6. CASE Rotate(q)
    <3>t. req[q].op \notin {"login", "logout"} /\ req[q].fresh = 0 /\ ~req[q].failed
      BY <2>6 DEF Rotate, At, Courses
    <3>1. CASE Answered(q)
      BY <1>a, <3>1, AnsweredEffect
    <3>2. CASE Goto(q, "reread")
      <4>1. /\ req'[q].failed = req[q].failed
            /\ req'[q].op = req[q].op /\ req'[q].pc = "reread" /\ req'[q].fresh = req[q].fresh
        BY <2>n, <3>2, GotoEffect DEF Kept
      <4> QED  BY <3>t, <4>1 DEF Courses
    <3>3. CASE Leave(q, "grant", issued + 1)
      <4>1. /\ req'[q].failed = req[q].failed
            /\ req'[q].op = req[q].op /\ req'[q].pc = "grant" /\ req'[q].fresh = issued + 1
        BY <2>n, <3>3, LeaveEffect DEF Kept
      <4> QED  BY <1>i, <3>t, <4>1 DEF Courses
    <3> QED  BY <2>6, <3>1, <3>2, <3>3 DEF Rotate, Swap, TryAgain
  <2>7. CASE DeleteDevice(q)
    <3>1. PICK p : Leave(q, p, req[q].fresh) /\ p = IF req[q].op = "login" THEN "grant" ELSE "clear"
      BY <2>7 DEF DeleteDevice
    <3>2. /\ req'[q].failed = req[q].failed
          /\ req'[q].op = req[q].op /\ req'[q].pc = p /\ req'[q].fresh = req[q].fresh
      BY <2>n, <3>1, LeaveEffect DEF Kept
    <3>3. req[q].pc = "delete"
      BY <2>7 DEF DeleteDevice, At
    <3> QED  BY <3>1, <3>2, <3>3 DEF Courses
  <2>8. CASE Grant(q) \/ Clear(q)
    BY <1>a, <2>8, AnsweredEffect DEF Grant, Clear
  <2> QED  BY <1>5, <2>1, <2>2, <2>3, <2>4, <2>5, <2>6, <2>7, <2>8 DEF Handle
<1> QED  BY <1>1, <1>2, <1>3, <1>4, <1>5, RequestStep

-----------------------------------------------------------------------------
(* The end of a session.                                                   *)

\* What the database does behind a logout: a token that was replaced never becomes
\* a device's again, and it is forgotten or leads to its device.
LEMMA ReplacedForGood ==
    ASSUME TypeOK, ChainInv, [Next]_vars, NEW t, IsIssued(t), current[owner[t]] # t
    PROVE  /\ current'[owner[t]] # t
           /\ current[owner[t]] = 0 => current'[owner[t]] = 0
<1>t. t \in Tokens /\ t # 0 /\ owner[t] \in Devices /\ owner[t] # NoDevice
  BY SessionsAssumption DEF IsIssued, Tokens, Devices, NoDevice
<1>1. CASE UNCHANGED <<dbVars, owner>>
  BY <1>1 DEF dbVars
<1>2. ASSUME NEW d \in Devices, Ends(d) PROVE current'[owner[t]] \in {0, current[owner[t]]}
  BY <1>2, <1>t DEF Ends, TypeOK
<1>3. ASSUME NEW d \in Devices, issued < MaxTokens, Issue(d),
             d = owner[t] => current[d] # 0
      PROVE  /\ current'[owner[t]] # t
             /\ current[owner[t]] = 0 => current'[owner[t]] = 0
  <2>1. /\ current'[d] = issued' /\ \A e \in Devices \ {d} : current'[e] = current[e]
        /\ owner[issued'] = NoDevice
    BY <1>3, IssueFacts DEF ChainInv
  <2> QED  BY <1>3, <1>t, <2>1
<1>4. ASSUME NEW d \in Devices, Starts(d) PROVE d # owner[t]
  BY <1>4, <1>t DEF Starts
<1>5. ASSUME NEW d \in Devices, NEW f \in Tokens, Replaces(d, f) PROVE current[d] # 0
  BY <1>5, SessionsAssumption DEF Replaces, Tokens
<1> QED  BY <1>1, <1>2, <1>3, <1>4, <1>5, <1>t, DatabaseStep DEF Starts, Replaces

\* A used token is not remembered again.
LEMMA ForgottenForGood ==
    ASSUME TypeOK, ChainInv, [Next]_vars, NEW t, IsIssued(t), current[owner[t]] # t,
           UsedRows(t) = {}
    PROVE  {u \in used' : u.token = t} = {}
<1>1. \A u \in used : u.token # t
  BY DEF UsedRows
<1>2. CASE UNCHANGED used
  BY <1>1, <1>2 DEF UsedRows
<1>3. ASSUME NEW d \in Devices, NEW f \in Tokens, Replaces(d, f) PROVE {u \in used' : u.token = t} = {}
  <2>1. f # t
    BY <1>3 DEF Replaces
  <2>2. \A u \in used' : u.token # t
    BY <1>1, <1>3, <2>1 DEF Replaces
  <2> QED  BY <2>2 DEF UsedRows
<1> QED  BY <1>2, <1>3, DatabaseStep DEF dbVars, Starts, Ends

\* A token that is not its device's is not for good.
LEMMA FollowsStay ==
    ASSUME TypeOK, ChainInv, [Next]_vars, NEW q \in Requests, Courses(q), Follows(q),
           req'[q].token = req[q].token, req'[q].pc = req[q].pc, req'[q].dev = req[q].dev,
           req'[q].failed = req[q].failed
    PROVE  Follows(q)'
<1> DEFINE t == req[q].token
<1>1. Knows(q)
  BY DEF ChainInv
<1>2. CASE t = 0
  <2>1. req[q].pc \notin {"device", "expiry", "rotate", "reread", "delete", "leeway"}
    BY <1>1, <1>2 DEF Knows
  <2> QED  BY <1>2, <2>1 DEF Follows
<1>3. CASE t # 0
  <2>1. IsIssued(t)
    BY <1>1, <1>3 DEF Knows
  <2>2. owner'[t] = owner[t]
    BY <2>1, OwnersStay
  <2>3. current[owner[t]] # t =>
          /\ current'[owner[t]] # t
          /\ current[owner[t]] = 0 => current'[owner[t]] = 0
          /\ UsedRows(t) = {} => {u \in used' : u.token = t} = {}
    BY <2>1, ReplacedForGood, ForgottenForGood
  <2>5. req[q].pc = "clear" /\ ~req[q].failed =>
          \/ current'[owner[t]] = 0
          \/ current'[owner[t]] # t /\ {u \in used' : u.token = t} = {}
    BY <1>3, <2>3 DEF Follows
  <2>6. req[q].pc = "leeway" => current'[owner[t]] # t
    BY <2>3 DEF Follows
  <2>7. req[q].pc = "find" /\ ~req[q].failed => current'[owner[t]] # t
    BY <1>3, <2>3 DEF Follows
  <2>8. req[q].pc \in {"device", "expiry", "rotate", "reread", "delete"} =>
          req[q].dev = owner[t]
    BY DEF Follows
  <2> QED  BY <2>2, <2>5, <2>6, <2>7, <2>8 DEF Follows, UsedRows
<1> QED  BY <1>2, <1>3

LEMMA HandleFollows ==
    ASSUME TypeOK, ChainInv, [Next]_vars, NEW q \in Requests, Courses(q), Follows(q), Handle(q)
    PROVE  Follows(q)'
<1> DEFINE t == req[q].token
<1>k. Knows(q) /\ OneChain /\ req[q] \in Request /\ req \in [Requests -> Request]
  BY DEF ChainInv, TypeOK
<1>n. UNCHANGED now
  BY DEF Handle, CreateDevice, Lookup, CheckLeeway, ReadDevice, CheckExpiry, Rotate, Reread,
     FindUsed, DeleteDevice, Grant, Clear
<1>a. req'[q].pc \in {"idle", "grant", "lookup"} => Follows(q)'
  BY DEF Follows
<1>o. t # 0 => IsIssued(t) /\ owner'[t] = owner[t] /\ owner[t] \in Devices
  BY <1>k, OwnersStay DEF Knows, IsIssued
<1>d. req'[q].token = t /\ t # 0 /\ req'[q].dev = owner[t]
      /\ req'[q].pc \in {"device", "expiry", "rotate", "reread", "delete"} => Follows(q)'
  BY <1>o DEF Follows
<1>1. CASE CreateDevice(q)
  <2>1. CASE Answered(q)
    BY <1>a, <2>1, AnsweredEffect
  <2>2. ASSUME NEW p \in {"grant", "lookup"}, Leave(q, p, issued + 1) PROVE Follows(q)'
    BY <1>a, <1>n, <2>2, LeaveEffect
  <2> QED  BY <1>1, <2>1, <2>2 DEF CreateDevice
<1>2. CASE Lookup(q)
  <2>t. t # 0 /\ UNCHANGED <<current, used>>
    BY <1>2, <1>k DEF Lookup, At, Knows, dbVars
  <2>1. ASSUME NEW d \in DeviceWith(t), NEW p \in {"expiry", "delete"}, Loaded(q, d, p)
        PROVE  Follows(q)'
    <3>1. req'[q].token = t /\ req'[q].pc = p /\ req'[q].dev = d
      BY <1>n, <2>1, LoadedEffect DEF Kept
    <3>2. owner[t] = d
      BY <1>k, <2>1, <2>t DEF DeviceWith, OneChain
    <3> QED  BY <1>d, <2>t, <3>1, <3>2
  <2>2. ASSUME DeviceWith(t) = {}, NEW p \in {"leeway", "find", "grant"}, Goto(q, p)
        PROVE  Follows(q)'
    <3>1. req'[q].token = t /\ req'[q].pc = p
      BY <1>n, <2>2, GotoEffect DEF Kept
    <3>2. current[owner[t]] # t
      BY <1>o, <2>2, <2>t DEF DeviceWith
    <3> QED  BY <1>o, <2>t, <3>1, <3>2 DEF Follows
  <2>3. req[q].op \in {"refresh", "logout", "login"}
    BY <1>2, <1>k DEF Lookup, At, Knows, Request
  <2> QED  BY <1>2, <2>1, <2>2, <2>3 DEF Lookup
<1>3. CASE CheckLeeway(q) \/ FindUsed(q)
  <2>t. t # 0 /\ UNCHANGED <<current, used>>
    BY <1>3, <1>k DEF CheckLeeway, FindUsed, At, Knows, dbVars
  <2>1. ASSUME NEW u \in UsedRows(t),
               \/ req' = [req EXCEPT ![q].pc = "device", ![q].dev = u.device]
               \/ req' = [req EXCEPT ![q].pc = "delete", ![q].dev = u.device, ![q].from = 0]
        PROVE  Follows(q)'
    <3>1. /\ req'[q].token = t /\ req'[q].pc \in {"device", "delete"}
          /\ req'[q].dev = u.device
      BY <1>n, <2>1, FoundEffect DEF Kept
    <3>2. owner[t] = u.device
      BY <1>k, <2>1 DEF UsedRows, OneChain
    <3> QED  BY <1>d, <2>t, <3>1, <3>2
  <2>2. CASE CheckLeeway(q) /\ Goto(q, "find")
    <3>1. req'[q].token = t /\ req'[q].pc = "find"
      BY <1>n, <2>2, GotoEffect DEF Kept
    <3>2. current[owner[t]] # t
      BY <2>2 DEF CheckLeeway, At, Follows
    <3> QED  BY <1>o, <2>t, <3>1, <3>2 DEF Follows
  <2>3. CASE FindUsed(q) /\ UsedRows(t) = {} /\ Goto(q, "clear")
    <3>1. req'[q].token = t /\ req'[q].pc = "clear" /\ req'[q].failed = req[q].failed
      BY <1>n, <2>3, GotoEffect DEF Kept
    <3>2. ~req[q].failed => current[owner[t]] # t
      BY <2>3, <2>t DEF FindUsed, At, Follows
    <3>3. {u \in used' : u.token = t} = {}
      BY <2>3, <2>t DEF UsedRows
    <3> QED  BY <1>o, <2>t, <3>1, <3>2, <3>3 DEF Follows, UsedRows
  <2> QED  BY <1>3, <2>1, <2>2, <2>3 DEF CheckLeeway, FindUsed
<1>4. CASE ReadDevice(q) \/ Reread(q)
  <2>t. t # 0 /\ UNCHANGED <<current, used>> /\ req[q].dev = owner[t]
    BY <1>4, <1>k DEF ReadDevice, Reread, At, Knows, Follows, dbVars
  <2>1. ASSUME current[req[q].dev] = 0, NEW p \in {"find", "clear"}, Leave(q, p, 0)
        PROVE  Follows(q)'
    <3>1. req'[q].token = t /\ req'[q].pc = p
      BY <1>n, <2>1, LeaveEffect DEF Kept
    <3>2. current[owner[t]] = 0
      BY <2>1, <2>t
    <3> QED  BY <1>o, <2>t, <3>1, <3>2 DEF Follows
  <2>2. CASE Loaded(q, req[q].dev, "expiry")
    <3>1. req'[q].token = t /\ req'[q].pc = "expiry" /\ req'[q].dev = req[q].dev
      BY <1>n, <2>2, LoadedEffect DEF Kept
    <3> QED  BY <1>d, <2>t, <3>1
  <2>3. CASE Reread(q) /\ current[req[q].dev] # 0
    <3>1. req'[q].token = t /\ req'[q].pc = "rotate" /\ req'[q].dev = req[q].dev
      BY <2>3, RereadEffect DEF Kept
    <3> QED  BY <1>d, <2>t, <3>1
  <2> QED  BY <1>4, <2>1, <2>2, <2>3 DEF ReadDevice, Reread
<1>5. CASE CheckExpiry(q)
  <2>1. /\ req'[q].token = t /\ req'[q].pc \in {"delete", "rotate"}
        /\ req'[q].dev = req[q].dev
    BY <1>5, CheckExpiryEffect DEF Kept
  <2>2. t # 0 /\ req[q].dev = owner[t]
    BY <1>5, <1>k DEF CheckExpiry, At, Knows, Follows
  <2> QED  BY <1>d, <2>1, <2>2
<1>6. CASE Rotate(q)
  <2>1. CASE Answered(q)
    BY <1>a, <2>1, AnsweredEffect
  <2>2. CASE Goto(q, "reread")
    <3>1. /\ req'[q].token = t /\ req'[q].pc = "reread" /\ req'[q].dev = req[q].dev
      BY <1>n, <2>2, GotoEffect DEF Kept
    <3>2. t # 0 /\ req[q].dev = owner[t]
      BY <1>6, <1>k DEF Rotate, At, Knows, Follows
    <3> QED  BY <1>d, <3>1, <3>2
  <2>3. CASE Leave(q, "grant", issued + 1)
    BY <1>a, <1>n, <2>3, LeaveEffect
  <2> QED  BY <1>6, <2>1, <2>2, <2>3 DEF Rotate, Swap, TryAgain
<1>7. CASE DeleteDevice(q)
  <2>1. PICK p \in {"grant", "clear"} : Leave(q, p, req[q].fresh)
    BY <1>7 DEF DeleteDevice
  <2>2. req'[q].token = t /\ req'[q].pc = p
    BY <1>n, <2>1, LeaveEffect DEF Kept
  <2>3. t # 0 /\ req[q].dev = owner[t]
    BY <1>7, <1>k DEF DeleteDevice, At, Knows, Follows
  <2>4. current'[owner[t]] = 0
    BY <1>7, <1>o, <2>3 DEF DeleteDevice, TypeOK
  <2> QED  BY <1>a, <1>o, <2>2, <2>3, <2>4 DEF Follows
<1>8. CASE Grant(q) \/ Clear(q)
  BY <1>8, <1>a, AnsweredEffect DEF Grant, Clear
<1> QED  BY <1>1, <1>2, <1>3, <1>4, <1>5, <1>6, <1>7, <1>8 DEF Handle

LEMMA FollowsStep ==
    ASSUME TypeOK, ChainInv, [Next]_vars, NEW q \in Requests, Courses(q), Follows(q)
    PROVE  Follows(q)'
<1>1. CASE Alone(q)
  BY <1>1, FollowsStay DEF Alone
<1>2. CASE Login(q) \/ Refresh(q) \/ Logout(q)
  BY <1>2, SendEffect DEF Follows
<1>3. CASE Abort(q)
  BY <1>3, AnsweredEffect DEF Abort, Follows
<1>4. CASE QueryFails(q)
  BY <1>4, FailEffect DEF Follows
<1>5. CASE Handle(q)
  BY <1>5, HandleFollows
<1> QED  BY <1>1, <1>2, <1>3, <1>4, <1>5, RequestStep

\* A request's new token, if it has one, is the one it had or the one that is issued.
LEMMA FreshStep ==
    ASSUME TypeOK, [Next]_vars, NEW q \in Requests
    PROVE  \/ req'[q].fresh = 0
           \/ /\ req'[q].fresh = req[q].fresh /\ req'[q].op = req[q].op
              /\ \/ req'[q].age = req[q].age /\ UNCHANGED now
                 \/ Tick
           \/ /\ req'[q].fresh = issued + 1 /\ UNCHANGED now /\ req'[q].op = req[q].op
              /\ issued < MaxTokens
              /\ \/ Rotate(q) /\ Unchanged(q) /\ Swap(q)
                 \/ CreateDevice(q) /\ \E d \in Devices : Starts(d)
<1>1. CASE Alone(q)
  BY <1>1 DEF Alone
<1>2. CASE Login(q) \/ Refresh(q) \/ Logout(q) \/ Abort(q) \/ QueryFails(q)
  BY <1>2, SendEffect, AnsweredEffect, FailEffect DEF Abort
<1>3. CASE Handle(q)
  <2>n. UNCHANGED now
    BY <1>3 DEF Handle, CreateDevice, Lookup, CheckLeeway, ReadDevice, CheckExpiry, Rotate, Reread,
       FindUsed, DeleteDevice, Grant, Clear
  <2>1. CASE Answered(q)
    BY <2>1, AnsweredEffect
  <2>2. CASE \E p : Leave(q, p, req[q].fresh) \/ Leave(q, p, 0) \/ Goto(q, p)
    BY <2>2, <2>n, LeaveEffect, GotoEffect DEF Kept
  <2>3. CASE \E d, p : Loaded(q, d, p)
    BY <2>3, <2>n, LoadedEffect DEF Kept
  <2>4. CASE CheckExpiry(q) \/ (Reread(q) /\ current[req[q].dev] # 0)
    BY <2>4, <2>n, CheckExpiryEffect, RereadEffect DEF Kept
  <2>5. CASE \E d : \/ req' = [req EXCEPT ![q].pc = "device", ![q].dev = d]
                    \/ req' = [req EXCEPT ![q].pc = "delete", ![q].dev = d, ![q].from = 0]
    BY <2>5, <2>n, FoundEffect DEF Kept
  <2>6. CASE Rotate(q) /\ Unchanged(q) /\ Swap(q)
    <3>1. Leave(q, "grant", issued + 1) /\ issued < MaxTokens
      BY <2>6 DEF Swap
    <3> QED  BY <2>6, <2>n, <3>1, LeaveEffect DEF Kept
  <2>7. CASE CreateDevice(q) /\ ~Answered(q)
    <3>1. PICK d \in Devices : {t \in Tokens : owner[t] >= d} = {} /\ Issue(d)
      BY <2>7 DEF CreateDevice
    <3>2. /\ issued < MaxTokens /\ UNCHANGED used
          /\ \E p : Leave(q, p, issued + 1)
      BY <2>7 DEF CreateDevice
    <3>3. Starts(d)
      <4>1. \A t \in Tokens : owner[t] # d
        BY <3>1 DEF Devices
      <4> QED  BY <2>n, <3>1, <3>2, <4>1 DEF Starts
    <3> QED  BY <2>7, <2>n, <3>2, <3>3, LeaveEffect DEF Kept
  <2> QED
    BY <1>3, <2>1, <2>2, <2>3, <2>4, <2>5, <2>6, <2>7 DEF Handle, CreateDevice, Lookup, CheckLeeway,
       ReadDevice, Rotate, TryAgain, Reread, FindUsed, DeleteDevice, Grant, Clear
<1> QED  BY <1>1, <1>2, <1>3, RequestStep

LEMMA FirstStep ==
    ASSUME TypeOK, ChainInv, [Next]_vars, NEW q \in Requests, Courses(q), First(q)
    PROVE  First(q)'
<1>k. Knows(q) /\ Numbered
  BY DEF ChainInv
<1>n. \A t \in Tokens : t \in Nat
  BY SessionsAssumption DEF Tokens
<1>1. CASE req'[q].fresh = 0
  BY <1>1 DEF First
<1>2. CASE req'[q].fresh = req[q].fresh /\ req'[q].op = req[q].op
  <2> SUFFICES ASSUME req[q].op = "login", req[q].fresh # 0, NEW t \in Tokens,
                      owner'[t] = owner'[req[q].fresh]
               PROVE  req[q].fresh <= t
    BY <1>2 DEF First
  <2>1. IsIssued(req[q].fresh) /\ owner'[req[q].fresh] = owner[req[q].fresh]
    BY <1>k, OwnersStay DEF Knows
  <2>2. CASE owner'[t] = owner[t]
    BY <2>1, <2>2 DEF First
  <2>3. ASSUME NEW d \in Devices, issued < MaxTokens, Issue(d), t = issued'
        PROVE  req[q].fresh <= t
    <3>1. req[q].fresh \in Tokens /\ owner[req[q].fresh] # NoDevice
      BY <2>1, SessionsAssumption DEF IsIssued, Devices, NoDevice
    <3>2. req[q].fresh <= issued /\ req[q].fresh \in Nat
      BY <1>k, <1>n, <3>1 DEF Numbered
    <3>3. issued' = issued + 1 /\ issued \in Nat
      BY <2>3, SessionsAssumption DEF Issue, TypeOK
    <3> QED  BY <2>3, <3>2, <3>3
  <2> QED  BY <1>k, <2>2, <2>3, DatabaseStep, IssueFacts DEF Starts, Replaces, Ends
<1>3. CASE Rotate(q) /\ req'[q].op = req[q].op
  BY <1>3 DEF Rotate, At, Courses, First
<1>4. CASE req'[q].fresh = issued + 1 /\ \E d \in Devices : Starts(d)
  <2>1. PICK d \in Devices : Starts(d)
    BY <1>4
  <2>2. /\ issued' = issued + 1 /\ owner'[issued'] = d
        /\ \A t \in Tokens \ {issued'} : owner'[t] = owner[t] /\ owner[t] # d
    BY <1>k, <2>1, IssueFacts DEF Starts
  <2> QED  BY <1>4, <1>n, <2>2 DEF First
<1> QED  BY <1>1, <1>2, <1>3, <1>4, FreshStep

LEMMA ExpiresStep ==
    ASSUME TypeOK, ChainInv, [Next]_vars, NEW d \in Devices,
           current[d] # 0 => expires[d] <= now + TTL, current'[d] # 0
    PROVE  expires'[d] <= now' + TTL
<1>t. /\ expires \in [Devices -> Nat] /\ now \in Nat /\ now' \in Nat /\ now <= now' /\ TTL \in Nat
      /\ current \in [Devices -> 0..MaxTokens]
  BY Lasting, SessionsAssumption DEF TypeOK
<1>1. CASE UNCHANGED <<dbVars, owner>>
  BY <1>1, <1>t DEF dbVars
<1>2. ASSUME NEW e \in Devices, Ends(e) PROVE expires'[d] <= now' + TTL
  BY <1>2, <1>t DEF Ends
<1>3. ASSUME NEW e \in Devices, Issue(e) PROVE expires'[d] <= now' + TTL
  BY <1>3, <1>t DEF Issue
<1> QED  BY <1>1, <1>2, <1>3, DatabaseStep DEF Starts, Replaces

LEMMA SessionInvariant == Spec => [](TypeOK /\ ChainInv /\ SessionInv)
<1>1. Init => SessionInv
  BY DEF Init, SessionInv, Courses, Follows, First, NoRequest
<1>2. TypeOK /\ ChainInv /\ SessionInv /\ [Next]_vars => SessionInv'
  <2> SUFFICES ASSUME TypeOK, ChainInv, SessionInv, [Next]_vars PROVE SessionInv'
    OBVIOUS
  <2>1. ASSUME NEW q \in Requests PROVE Courses(q)' /\ Follows(q)' /\ First(q)'
    BY CoursesStep, FollowsStep, FirstStep DEF SessionInv
  <2>2. ASSUME NEW d \in Devices PROVE (current[d] # 0 => expires[d] <= now + TTL)'
    BY ExpiresStep DEF SessionInv
  <2> QED  BY <2>1, <2>2 DEF SessionInv
<1> QED  BY <1>1, <1>2, ChainInvariant, PTL DEF Spec

\* A logout of which no statement failed leaves the session of the token it presented
\* over, or the token was replaced and has been forgotten since, whatever befell other
\* requests before and meanwhile (internal/auth/session_cookie.go:147).
THEOREM LogoutEnds == Spec => []LogoutEndsTheSession
<1>1. SessionInv => LogoutEndsTheSession
  BY DEF SessionInv, Follows, At, LogoutEndsTheSession
<1> QED  BY <1>1, SessionInvariant, PTL

\* The answer of a request drops a cookie that leads to a session only if the request
\* was sent with another one, or one of its own statements failed
\* (internal/auth/handlers.go:172).
THEOREM LiveCookiesAreKept == Spec => KeepsLiveCookies
<1>1. ASSUME SessionInv, NEW r \in Requests, At(r, "clear"), Live(jar), jar # 0
      PROVE  req[r].token # jar \/ req[r].failed
  <2> SUFFICES ASSUME req[r].token = jar, ~req[r].failed PROVE FALSE
    OBVIOUS
  <2>1. current[owner[jar]] = 0 \/ (current[owner[jar]] # jar /\ UsedRows(jar) = {})
    BY <1>1 DEF SessionInv, Follows, At
  <2> QED  BY <1>1, <2>1 DEF Live
<1>2. SessionInv =>
        [\A r \in Requests :
           At(r, "clear") /\ req'[r].pc = "idle" /\ jar # 0 /\ jar' = 0 /\ Live(jar) =>
              req[r].token # jar \/ req[r].failed]_vars
  BY <1>1
<1> QED  BY <1>2, SessionInvariant, PTL DEF KeepsLiveCookies

-----------------------------------------------------------------------------
(* Retries.                                                                *)

\* While nothing befalls the browser no device is given a new token after it expired.
LEMMA CalmDatabaseStep ==
    ASSUME TypeOK, ChainInv, CalmInv, [Next]_vars, ~disturbed
    PROVE  \/ UNCHANGED <<dbVars, owner>>
           \/ /\ UNCHANGED now
              /\ \E d \in Devices :
                    \/ Starts(d) \/ Ends(d)
                    \/ \E t \in Tokens : Replaces(d, t) /\ expires[d] >= now
<1>1. ASSUME NEW d \in Devices, NEW t \in Tokens, Replaces(d, t) PROVE expires[d] >= now
  <2>1. PICK r \in Requests : At(r, "rotate") /\ req[r].dev = d
    BY <1>1 DEF Replaces
  <2>2. InTime(r)
    BY DEF CalmInv
  <2>3. current[d] # 0
    BY <1>1, SessionsAssumption DEF Replaces, Tokens
  <2> QED  BY <2>1, <2>2, <2>3 DEF InTime, At
<1> QED  BY <1>1, DatabaseStep DEF Starts, Replaces, Ends

\* A device that is gone stays gone.
LEMMA GoneForGood ==
    ASSUME TypeOK, ChainInv, [Next]_vars, NEW t, IsIssued(t), current[owner[t]] = 0
    PROVE  current'[owner[t]] = 0
<1>1. current[owner[t]] # t
  BY SessionsAssumption DEF IsIssued, Tokens
<1> QED  BY <1>1, ReplacedForGood

\* A used token stays one only if it was one, and its device then had another token;
\* or it is the one that is replaced.
LEMMA UsedStep ==
    ASSUME TypeOK, ChainInv, [Next]_vars, NEW u \in used'
    PROVE  /\ u \in UsedToken /\ IsIssued(u.token) /\ owner[u.token] = u.device
           /\ \/ u \in used
              \/ \E d \in Devices : /\ Replaces(d, u.token) /\ u.device = d /\ u.at = now
<1>1. CASE u \in used
  BY <1>1 DEF ChainInv, OneChain, TypeOK, UsedToken, IsIssued
<1>2. CASE u \notin used
  <2>1. PICK d \in Devices, t \in Tokens : Replaces(d, t)
    BY <1>2, DatabaseStep DEF dbVars, Starts, Ends
  <2>2. u = [token |-> t, device |-> d, at |-> now]
    BY <1>2, <2>1 DEF Replaces
  <2>3. u.token = t /\ u.device = d /\ u.at = now
    BY <2>2
  <2>4. u \in UsedToken
    BY <2>2, SessionsAssumption DEF UsedToken, TypeOK
  <2> QED  BY <2>1, <2>3, <2>4 DEF Replaces
<1> QED  BY <1>1, <1>2

LEMMA TickFacts ==
    ASSUME TypeOK, Tick, ~disturbed', NEW q \in Requests, req[q].pc # "idle"
    PROVE  /\ now' = now + 1 /\ req'[q].age = req[q].age + 1
           /\ \A d \in Devices : current[d] # 0 => expires[d] # now
           /\ req[q].pc = "expiry" => req[q].until # now
<1>1. req[q] \in Request /\ q \in UnderWay
  BY DEF TypeOK, UnderWay, At
<1>2. /\ req[q].age # Prompt
      /\ \A d \in Devices : ~(current[d] # 0 /\ expires[d] = now)
      /\ ~(At(q, "expiry") /\ req[q].until = now)
  BY <1>1 DEF Tick
<1>3. req[q].age < Prompt
  BY <1>1, <1>2, SessionsAssumption DEF Request
<1>4. req'[q] = [req[q] EXCEPT !.age = @ + 1]
  BY <1>1, <1>3 DEF Tick
<1>5. req'[q].age = req[q].age + 1
  BY <1>1, <1>4 DEF Request
<1> QED  BY <1>2, <1>5 DEF Tick, At

\* A request that is left alone.
LEMMA InTimeStay ==
    ASSUME TypeOK, ChainInv, SessionInv, CalmInv, [Next]_vars, ~disturbed', NEW q \in Requests,
           Alone(q)
    PROVE  InTime(q)'
<1> DEFINE t == req[q].token
           d == req[q].dev
<1>s. ~disturbed /\ now \in Nat /\ now' \in Nat /\ now <= now'
  BY Lasting
<1>k. Knows(q) /\ Courses(q) /\ Follows(q) /\ InTime(q) /\ OneChain /\ req[q] \in Request
  BY <1>s DEF ChainInv, SessionInv, CalmInv, TypeOK
<1>t. /\ expires \in [Devices -> Nat] /\ current \in [Devices -> 0..MaxTokens]
      /\ req[q].until \in Nat /\ req[q].age \in Nat /\ TTL \in Nat
      /\ Prompt \in Nat /\ Leeway \in Nat /\ 2 * Prompt <= Leeway
      /\ used \subseteq UsedToken
  BY <1>k, SessionsAssumption DEF TypeOK, Request
<1>p. req[q].pc \in {"expiry", "rotate", "reread", "delete", "lookup", "leeway", "find"} =>
        t # 0 /\ IsIssued(t) /\ owner[t] \in Devices
  BY <1>k DEF Knows, IsIssued
<1>d. req[q].pc \in {"expiry", "rotate", "reread", "delete"} => d = owner[t] /\ d \in Devices
  BY <1>k, <1>p DEF Follows
<1>g. IsIssued(t) /\ current[owner[t]] = 0 => current'[owner[t]] = 0
  BY GoneForGood
<1>x. ASSUME req[q].pc \in {"expiry", "rotate", "reread", "delete"}, current'[d] # 0
      PROVE  /\ current[d] # 0
             /\ \/ expires'[d] = expires[d]
                \/ expires'[d] = now + TTL /\ expires[d] >= now /\ expires[d] <= now + TTL
                   /\ UNCHANGED now
  <2>1. current[d] # 0 /\ d = owner[t] /\ IsIssued(t) /\ d \in Devices
    BY <1>d, <1>g, <1>p, <1>x
  <2>2. CASE UNCHANGED <<dbVars, owner>>
    BY <2>1, <2>2 DEF dbVars
  <2>3. ASSUME NEW e \in Devices, Ends(e) PROVE expires'[d] = expires[d]
    BY <2>3 DEF Ends
  <2>4. ASSUME NEW e \in Devices, Starts(e) PROVE expires'[d] = expires[d]
    <3>1. e # d
      BY <2>1, <2>4 DEF Starts, IsIssued
    <3> QED  BY <1>t, <2>1, <2>4, <3>1 DEF Starts, Issue
  <2>5. ASSUME NEW e \in Devices, NEW f \in Tokens, Replaces(e, f), expires[e] >= now
        PROVE  \/ expires'[d] = expires[d]
               \/ expires'[d] = now + TTL /\ expires[d] >= now
    BY <1>t, <2>1, <2>5 DEF Replaces, Issue
  <2>6. expires[d] <= now + TTL
    BY <2>1 DEF SessionInv
  <2> QED  BY <1>s, <2>1, <2>2, <2>3, <2>4, <2>5, <2>6, CalmDatabaseStep
<1>y. \/ UNCHANGED now /\ req'[q].age = req[q].age
      \/ /\ now' = now + 1 /\ UNCHANGED dbVars
         /\ req[q].pc # "idle" =>
               /\ req'[q].age = req[q].age + 1
               /\ \A e \in Devices : current[e] # 0 => expires[e] # now
               /\ req[q].pc = "expiry" => req[q].until # now
  <2>1. CASE Tick
    BY <2>1, TickFacts DEF Tick
  <2> QED  BY <2>1 DEF Alone
<1>1. req[q].pc = "expiry" =>
        \/ current'[d] = 0
        \/ req[q].until <= expires'[d] /\ (req[q].until < now' => expires'[d] < now')
  <2> SUFFICES ASSUME req[q].pc = "expiry", current'[d] # 0
               PROVE  req[q].until <= expires'[d] /\ (req[q].until < now' => expires'[d] < now')
    OBVIOUS
  <2>1. /\ req[q].until <= expires[d]
        /\ req[q].until < now => expires[d] < now
    BY <1>k, <1>x DEF InTime
  <2>2. expires[d] \in Nat
    BY <1>d, <1>t
  <2>3. CASE UNCHANGED now
    BY <1>s, <1>t, <1>x, <2>1, <2>2, <2>3
  <2>4. CASE now' = now + 1 /\ UNCHANGED dbVars /\ req[q].until # now
    BY <1>s, <1>t, <2>1, <2>2, <2>4 DEF dbVars
  <2> QED  BY <1>y, <2>3, <2>4
<1>2. req[q].pc \in {"rotate", "reread"} => current'[d] = 0 \/ expires'[d] >= now'
  <2> SUFFICES ASSUME req[q].pc \in {"rotate", "reread"}, current'[d] # 0
               PROVE  expires'[d] >= now'
    OBVIOUS
  <2>1. expires[d] >= now /\ expires[d] \in Nat /\ current[d] # 0 /\ d \in Devices
    BY <1>d, <1>k, <1>t, <1>x DEF InTime
  <2>2. CASE UNCHANGED now
    BY <1>s, <1>t, <1>x, <2>1, <2>2
  <2>3. CASE now' = now + 1 /\ UNCHANGED dbVars /\ expires[d] # now
    BY <1>s, <2>1, <2>3 DEF dbVars
  <2> QED  BY <1>y, <2>1, <2>2, <2>3
<1>3. req[q].pc = "delete" /\ req[q].op = "refresh" =>
        current'[d] = 0 \/ (req[q].from # 0 /\ expires'[d] < now')
  <2> SUFFICES ASSUME req[q].pc = "delete", req[q].op = "refresh", current'[d] # 0
               PROVE  req[q].from # 0 /\ expires'[d] < now'
    OBVIOUS
  <2>1. req[q].from # 0 /\ expires[d] < now /\ expires[d] \in Nat
    BY <1>d, <1>k, <1>t, <1>x DEF InTime
  <2>2. expires'[d] = expires[d]
    BY <1>s, <1>x, <2>1
  <2> QED  BY <1>s, <2>1, <2>2
<1>u. ASSUME NEW u \in used', u.token = t, t # 0
      PROVE  /\ u.device = owner[t] /\ u.at \in Nat
             /\ u \in UsedRows(t) \/ (u.at = now /\ current[owner[t]] = t /\ UNCHANGED now)
  <2>1. /\ u \in UsedToken /\ owner[u.token] = u.device
        /\ \/ u \in used
           \/ \E e \in Devices : Replaces(e, u.token) /\ u.device = e /\ u.at = now
    BY UsedStep
  <2> QED  BY <1>u, <2>1 DEF UsedRows, UsedToken, Replaces
<1>4. req[q].pc \in {"lookup", "leeway"} /\ req[q].op = "refresh" =>
        \A u \in used' : u.token = t =>
            current'[u.device] = 0 \/ u.at >= now' - req'[q].age - (Leeway - Prompt)
  <2> SUFFICES ASSUME req[q].pc \in {"lookup", "leeway"}, req[q].op = "refresh",
                      NEW u \in used', u.token = t, current'[u.device] # 0
               PROVE  u.at >= now' - req'[q].age - (Leeway - Prompt)
    OBVIOUS
  <2>0. IsIssued(t) /\ current'[owner[t]] # 0 /\ u.device = owner[t] /\ u.at \in Nat
    BY <1>p, <1>u
  <2>1. now' - req'[q].age = now - req[q].age
    BY <1>s, <1>t, <1>y
  <2>2. CASE u \in UsedRows(t)
    <3>1. u.at >= now - req[q].age - (Leeway - Prompt)
      BY <1>g, <1>k, <2>0, <2>2 DEF InTime
    <3> QED  BY <2>1, <3>1
  <2>3. CASE u.at = now
    BY <1>s, <1>t, <2>1, <2>3
  <2> QED  BY <1>p, <1>u, <2>2, <2>3
<1>5. req[q].pc = "find" /\ req[q].op = "refresh" =>
        \A u \in used' : u.token = t => current'[u.device] = 0
  <2> SUFFICES ASSUME req[q].pc = "find", req[q].op = "refresh", NEW u \in used', u.token = t
               PROVE  current'[u.device] = 0
    OBVIOUS
  <2>1. current[owner[t]] # t
    BY <1>k, <1>p DEF Follows, InTime
  <2>2. u \in UsedRows(t) /\ u.device = owner[t] /\ IsIssued(t)
    BY <1>p, <1>u, <2>1
  <2> QED  BY <1>g, <1>k, <2>2 DEF InTime
<1>e. /\ req'[q].op = req[q].op /\ req'[q].pc = req[q].pc /\ req'[q].token = t
      /\ req'[q].dev = d /\ req'[q].from = req[q].from /\ req'[q].until = req[q].until
      /\ req'[q].failed = req[q].failed
  BY DEF Alone
<1>6. req[q].pc = "find" /\ req[q].op = "refresh" => ~req[q].failed
  BY <1>k DEF InTime
<1> QED  BY <1>1, <1>2, <1>3, <1>4, <1>5, <1>6, <1>e DEF InTime, UsedRows

\* A refresh that is sent: if its token was used, then not long ago, or an answer was
\* missed and the browser is late with it, but not too late.
LEMMA InTimeSend ==
    ASSUME TypeOK, ChainInv, SessionInv, CalmInv, ~disturbed, ~disturbed', NEW q \in Requests,
           Login(q) \/ Refresh(q) \/ Logout(q)
    PROVE  InTime(q)'
<1>n. now \in Nat /\ Prompt \in Nat /\ Leeway \in Nat /\ 2 * Prompt <= Leeway
  BY SessionsAssumption DEF TypeOK
<1>1. CASE req'[q].op # "refresh"
  <2>1. req'[q].pc \in {"create", "lookup", "clear"}
    BY SendEffect
  <2> QED  BY <1>1, <2>1 DEF InTime
<1>2. CASE req'[q].op = "refresh"
  <2>1. /\ req'[q].pc = "lookup" /\ req'[q].token = jar /\ req'[q].age = 0 /\ jar # 0
        /\ Refresh(q) /\ UNCHANGED <<dbVars, owner, now, jar>>
    BY <1>2, SendEffect
  <2>2. ASSUME NEW u \in used, u.token = jar, current[u.device] # 0
        PROVE  u.at >= now - (Leeway - Prompt)
    <3>1. u.device = owner[jar] /\ u.at \in Nat /\ jar \in Tokens
      BY <2>2 DEF ChainInv, OneChain, TypeOK, UsedToken
    <3>2. CASE missed
      <4>1. ~Stale(jar)
        BY <2>1, <3>2 DEF Refresh
      <4>2. ~(now - u.at > Leeway - Prompt)
        BY <2>2, <4>1 DEF Stale, UsedRows
      <4> QED  BY <1>n, <3>1, <4>2
    <3>3. CASE ~missed
      <4>1. PICK t \in Tokens : /\ t > jar /\ owner[t] = owner[jar]
                                /\ \A p \in Requests : req[p].fresh = t => u.at >= now - req[p].age
        BY <2>2, <3>1 DEF CalmInv, Recalls
      <4>2. PICK p \in Requests : req[p].fresh = t
        BY <2>1, <3>3, <4>1 DEF CalmInv, JarInv
      <4>3. u.at >= now - req[p].age
        BY <4>1, <4>2
      <4>4. req[p].age \in 0..Prompt
        BY DEF TypeOK, Request
      <4> QED  BY <1>n, <3>1, <4>3, <4>4
    <3> QED  BY <3>2, <3>3
  <2>3. \A u \in used : u.token = jar =>
          current[u.device] = 0 \/ u.at >= now - 0 - (Leeway - Prompt)
    <3>1. now - 0 - (Leeway - Prompt) = now - (Leeway - Prompt)
      BY <1>n
    <3> QED  BY <2>2, <3>1
  <2> QED  BY <2>1, <2>3 DEF InTime, UsedRows, dbVars
<1> QED  BY <1>1, <1>2

\* The handler of a refresh gives up on a token only if its device is gone or expired.
LEMMA InTimeHandle ==
    ASSUME TypeOK, ChainInv, SessionInv, CalmInv, [Next]_vars, ~disturbed', NEW q \in Requests,
           Handle(q)
    PROVE  InTime(q)'
<1> DEFINE t == req[q].token
           d == req[q].dev
<1>s. ~disturbed /\ now \in Nat
  BY Lasting
<1>k. Knows(q) /\ Courses(q) /\ Follows(q) /\ InTime(q) /\ OneChain /\ req[q] \in Request
  BY <1>s DEF ChainInv, SessionInv, CalmInv, TypeOK
<1>t. /\ expires \in [Devices -> Nat] /\ current \in [Devices -> 0..MaxTokens]
      /\ req[q].until \in Nat /\ req[q].age \in 0..Prompt
      /\ Prompt \in Nat /\ Leeway \in Nat
      /\ used \subseteq UsedToken
  BY <1>k, SessionsAssumption DEF TypeOK, Request
<1>n. UNCHANGED now
  BY DEF Handle, CreateDevice, Lookup, CheckLeeway, ReadDevice, CheckExpiry, Rotate, Reread,
     FindUsed, DeleteDevice, Grant, Clear
<1>a. req'[q].pc \in {"idle", "create", "device", "grant", "clear"} => InTime(q)'
  BY DEF InTime
<1>b. req'[q].pc \in {"lookup", "delete", "leeway", "find"} /\ req'[q].op # "refresh" => InTime(q)'
  BY DEF InTime
<1>u. \A u \in UsedRows(t) : u.device = owner[t] /\ u.at \in Nat
  BY <1>k, <1>t DEF UsedRows, OneChain, UsedToken
<1>1. CASE CreateDevice(q)
  <2>1. CASE Answered(q)
    BY <1>a, <2>1, AnsweredEffect
  <2>2. ASSUME NEW p \in {"grant", "lookup"}, Leave(q, p, issued + 1) PROVE InTime(q)'
    <3>1. req'[q].pc = p /\ req'[q].op = "login"
      BY <1>1, <1>k, <1>n, <2>2, LeaveEffect DEF Kept, CreateDevice, At, Courses
    <3> QED  BY <1>a, <1>b, <3>1
  <2> QED  BY <1>1, <2>1, <2>2 DEF CreateDevice
<1>2. CASE Lookup(q)
  <2>t. UNCHANGED <<current, used, expires>>
    BY <1>2 DEF Lookup, dbVars
  <2>1. ASSUME NEW e \in DeviceWith(t), NEW p \in {"expiry", "delete"}, Loaded(q, e, p),
               p = IF req[q].op = "refresh" THEN "expiry" ELSE "delete"
        PROVE  InTime(q)'
    <3>1. /\ req'[q].op = req[q].op /\ req'[q].pc = p /\ req'[q].dev = e
          /\ req'[q].until = expires[e]
      BY <1>n, <2>1, LoadedEffect DEF Kept
    <3>2. expires[e] \in Nat
      BY <1>t, <2>1 DEF DeviceWith
    <3> QED  BY <1>b, <1>n, <2>1, <2>t, <3>1, <3>2 DEF InTime
  <2>2. ASSUME NEW p \in {"leeway", "find", "grant"}, Goto(q, p),
               p = "leeway" => req[q].op = "refresh", p = "find" => req[q].op = "logout"
        PROVE  InTime(q)'
    <3>1. /\ req'[q].op = req[q].op /\ req'[q].pc = p /\ req'[q].token = t
          /\ req'[q].age = req[q].age
      BY <1>n, <2>2, GotoEffect DEF Kept
    <3>2. CASE p = "leeway"
      <4>1. \A u \in UsedRows(t) : current[u.device] = 0 \/ u.at >= now - req[q].age - (Leeway - Prompt)
        BY <1>2, <1>k, <2>2, <3>2 DEF Lookup, At, InTime
      <4> QED  BY <1>n, <2>t, <3>1, <3>2, <4>1 DEF InTime, UsedRows
    <3> QED  BY <1>a, <1>b, <2>2, <3>1, <3>2
  <2>3. req[q].op \in {"refresh", "logout", "login"}
    BY <1>2, <1>k DEF Lookup, At, Knows, Request
  <2> QED  BY <1>2, <2>1, <2>2, <2>3 DEF Lookup
<1>3. CASE CheckLeeway(q)
  <2>t. UNCHANGED <<current, used, expires>>
    BY <1>3 DEF CheckLeeway, dbVars
  <2>1. ASSUME NEW e, req' = [req EXCEPT ![q].pc = "device", ![q].dev = e] PROVE InTime(q)'
    <3>1. req'[q].pc = "device"
      BY <1>k, <2>1 DEF TypeOK, Request
    <3> QED  BY <1>a, <3>1
  <2>2. ASSUME {u \in UsedRows(t) : now - u.at <= Leeway} = {}, Goto(q, "find")
        PROVE  InTime(q)'
    <3>1. req'[q].op = req[q].op /\ req'[q].pc = "find" /\ req'[q].token = t /\ ~req'[q].failed
      BY <1>3, <1>k, <1>n, <2>2, GotoEffect DEF Kept, CheckLeeway, At, Courses
    <3>2. ASSUME req[q].op = "refresh", NEW u \in UsedRows(t) PROVE current[u.device] = 0
      <4>1. current[u.device] = 0 \/ u.at >= now - req[q].age - (Leeway - Prompt)
        BY <1>3, <1>k, <3>2 DEF CheckLeeway, At, InTime
      <4>2. ~(now - u.at <= Leeway)
        BY <2>2
      <4>3. ~(u.at >= now - req[q].age - (Leeway - Prompt))
        BY <1>s, <1>t, <1>u, <4>2, SessionsAssumption
      <4> QED  BY <4>1, <4>3
    <3> QED  BY <2>t, <3>1, <3>2 DEF InTime, UsedRows
  <2> QED  BY <1>3, <2>1, <2>2 DEF CheckLeeway
<1>4. CASE ReadDevice(q)
  <2>t. UNCHANGED <<current, used, expires>> /\ d = owner[t] /\ d \in Devices
    BY <1>4, <1>k DEF ReadDevice, dbVars, At, Follows, Knows
  <2>1. CASE Loaded(q, d, "expiry")
    <3>1. req'[q].pc = "expiry" /\ req'[q].dev = d /\ req'[q].until = expires[d]
      BY <1>n, <2>1, LoadedEffect
    <3>2. expires[d] \in Nat
      BY <1>t, <2>t
    <3> QED  BY <1>n, <2>t, <3>1, <3>2 DEF InTime
  <2>2. CASE current[d] = 0 /\ Leave(q, "find", 0)
    <3>1. req'[q].pc = "find" /\ req'[q].token = t /\ ~req'[q].failed
      BY <1>4, <1>k, <1>n, <2>2, LeaveEffect DEF Kept, ReadDevice, At, Courses
    <3>2. \A u \in UsedRows(t) : current[u.device] = 0
      BY <1>u, <2>2, <2>t
    <3> QED  BY <2>t, <3>1, <3>2 DEF InTime, UsedRows
  <2> QED  BY <1>4, <2>1, <2>2 DEF ReadDevice
<1>5. CASE CheckExpiry(q)
  <2>1. /\ req'[q].pc = IF now > req[q].until THEN "delete" ELSE "rotate"
        /\ req'[q].dev = d /\ req'[q].from = req[q].from
    BY <1>5, CheckExpiryEffect
  <2>2. /\ UNCHANGED <<current, expires>> /\ d \in Devices /\ req[q].from # 0
        /\ \/ current[d] = 0
           \/ req[q].until <= expires[d] /\ (req[q].until < now => expires[d] < now)
    BY <1>5, <1>k, SessionsAssumption DEF CheckExpiry, dbVars, At, InTime, Knows, IsIssued, Tokens
  <2>3. expires[d] \in Nat
    BY <1>t, <2>2
  <2>4. CASE now > req[q].until
    BY <1>n, <1>s, <1>t, <2>1, <2>2, <2>3, <2>4 DEF InTime
  <2>5. CASE ~(now > req[q].until)
    <3>1. current[d] = 0 \/ expires[d] >= now
      BY <1>s, <1>t, <2>2, <2>3, <2>5
    <3> QED  BY <1>n, <2>1, <2>2, <2>5, <3>1 DEF InTime
  <2> QED  BY <2>4, <2>5
<1>6. CASE Rotate(q)
  <2>1. CASE Answered(q)
    BY <1>a, <2>1, AnsweredEffect
  <2>2. CASE Goto(q, "reread") /\ UNCHANGED dbVars
    <3>1. req'[q].pc = "reread" /\ req'[q].dev = d
      BY <1>n, <2>2, GotoEffect
    <3>2. current[d] = 0 \/ expires[d] >= now
      BY <1>6, <1>k DEF Rotate, At, InTime
    <3> QED  BY <1>n, <2>2, <3>1, <3>2 DEF InTime, dbVars
  <2>3. CASE Leave(q, "grant", issued + 1)
    BY <1>a, <1>n, <2>3, LeaveEffect
  <2> QED  BY <1>6, <2>1, <2>2, <2>3 DEF Rotate, Swap, TryAgain
<1>7. CASE Reread(q)
  <2>1. CASE Leave(q, "clear", 0)
    BY <1>a, <1>n, <2>1, LeaveEffect
  <2>2. CASE current[d] # 0
    <3>1. req'[q].pc = "rotate" /\ req'[q].dev = d
      BY <1>7, <2>2, RereadEffect
    <3>2. UNCHANGED <<current, expires>> /\ (current[d] = 0 \/ expires[d] >= now)
      BY <1>7, <1>k DEF Reread, At, InTime, dbVars
    <3> QED  BY <1>n, <3>1, <3>2 DEF InTime
  <2> QED  BY <1>7, <2>1, <2>2 DEF Reread
<1>8. CASE FindUsed(q)
  <2>t. UNCHANGED <<current, used, expires>>
    BY <1>8 DEF FindUsed, dbVars
  <2>1. ASSUME NEW u \in UsedRows(t),
               req' = [req EXCEPT ![q].pc = "delete", ![q].dev = u.device, ![q].from = 0]
        PROVE  InTime(q)'
    <3>1. req'[q].op = req[q].op /\ req'[q].pc = "delete" /\ req'[q].dev = u.device
      BY <1>k, <2>1 DEF TypeOK, Request
    <3>2. req[q].op = "refresh" => current[u.device] = 0
      BY <1>8, <1>k DEF FindUsed, At, InTime
    <3> QED  BY <2>t, <3>1, <3>2 DEF InTime
  <2>2. CASE Goto(q, "clear")
    BY <1>a, <1>n, <2>2, GotoEffect
  <2> QED  BY <1>8, <2>1, <2>2 DEF FindUsed
<1>9. CASE DeleteDevice(q)
  <2>1. PICK p \in {"grant", "clear"} : Leave(q, p, req[q].fresh)
    BY <1>9 DEF DeleteDevice
  <2> QED  BY <1>a, <1>n, <2>1, LeaveEffect
<1>10. CASE Grant(q) \/ Clear(q)
  BY <1>10, <1>a, AnsweredEffect DEF Grant, Clear
<1> QED  BY <1>1, <1>2, <1>3, <1>4, <1>5, <1>6, <1>7, <1>8, <1>9, <1>10 DEF Handle

LEMMA InTimeStep ==
    ASSUME TypeOK, ChainInv, SessionInv, CalmInv, [Next]_vars, ~disturbed', NEW q \in Requests
    PROVE  InTime(q)'
<1>1. CASE Abort(q)
  BY <1>1, AnsweredEffect DEF Abort, InTime
<1>2. CASE QueryFails(q)
  <2>1. \/ req'[q].pc \in {"idle", "clear", "grant"}
        \/ req'[q].op # "refresh" /\ req'[q].pc = "find"
    BY <1>2, FailEffect
  <2> QED  BY <2>1 DEF InTime
<1>3. ~disturbed
  BY Lasting
<1> QED  BY <1>1, <1>2, <1>3, InTimeStay, InTimeSend, InTimeHandle, RequestStep

\* The answer that replaces a used token stays as old, in the time it takes, as the
\* replacement.
LEMMA RecallsStep ==
    ASSUME TypeOK, ChainInv, SessionInv, CalmInv, [Next]_vars, ~disturbed', NEW u \in used'
    PROVE  Recalls(u)'
<1>s. ~disturbed /\ now \in Nat /\ now' \in Nat
  BY Lasting
<1>t. TypeOK'
  BY TypeStep
<1>u. /\ u \in UsedToken /\ IsIssued(u.token) /\ owner[u.token] = u.device
      /\ \/ u \in used
         \/ \E d \in Devices : Replaces(d, u.token) /\ u.device = d /\ u.at = now
  BY UsedStep
<1> SUFFICES ASSUME current'[u.device] # 0
             PROVE  \E t \in Tokens :
                       /\ t > u.token /\ owner'[t] = u.device
                       /\ \A p \in Requests : req'[p].fresh = t => u.at >= now' - req'[p].age
  BY DEF Recalls
<1>1. CASE u \in used
  <2>1. current[u.device] # 0
    BY <1>u, GoneForGood
  <2>2. PICK t \in Tokens : /\ t > u.token /\ owner[t] = u.device
                            /\ \A p \in Requests : req[p].fresh = t => u.at >= now - req[p].age
    BY <1>1, <1>s, <2>1 DEF CalmInv, Recalls
  <2>3. owner[t] \in Devices /\ IsIssued(t)
    BY <1>u, <2>2 DEF UsedToken, IsIssued
  <2>4. owner'[t] = u.device
    BY <2>2, <2>3, OwnersStay
  <2>5. t # issued + 1 /\ t # 0
    <3>1. t \in Nat \ {0} /\ issued \in Nat /\ owner[t] # NoDevice
      BY <2>3, SessionsAssumption DEF TypeOK, Tokens, Devices, NoDevice
    <3> QED  BY <3>1 DEF ChainInv, Numbered
  <2>6. ASSUME NEW p \in Requests, req'[p].fresh = t PROVE u.at >= now' - req'[p].age
    <3>1. /\ req[p].fresh = t
          /\ \/ req'[p].age = req[p].age /\ UNCHANGED now
             \/ Tick
      BY <2>5, <2>6, FreshStep
    <3>2. u.at >= now - req[p].age
      BY <2>2, <3>1
    <3>3. CASE Tick
      <4>1. Courses(p) /\ Knows(p) /\ t # 0
        BY <2>5 DEF SessionInv, ChainInv
      <4>2. req[p].pc # "idle"
        BY <3>1, <4>1 DEF Courses
      <4>3. now' = now + 1 /\ req'[p].age = req[p].age + 1 /\ req[p].age \in Nat
        BY <3>3, <4>2, TickFacts, SessionsAssumption DEF TypeOK, Request
      <4>4. u.at \in Nat
        BY <1>u DEF UsedToken
      <4> QED  BY <1>s, <3>2, <4>3, <4>4
    <3> QED  BY <3>1, <3>2, <3>3
  <2> QED  BY <2>2, <2>4, <2>6
<1>2. ASSUME NEW d \in Devices, Replaces(d, u.token), u.device = d, u.at = now
      PROVE  \E t \in Tokens :
                /\ t > u.token /\ owner'[t] = u.device
                /\ \A p \in Requests : req'[p].fresh = t => u.at >= now' - req'[p].age
  <2>1. issued' \in Tokens /\ owner'[issued'] = d /\ u.token < issued' /\ UNCHANGED now
    <3>1. owner[u.token] # NoDevice /\ u.token \in Tokens
      BY <1>u, SessionsAssumption DEF IsIssued, Devices, NoDevice
    <3> QED  BY <1>2, <3>1, IssueFacts DEF Replaces, ChainInv
  <2>2. u.token \in Nat /\ issued' \in Nat
    BY <1>u, <2>1, SessionsAssumption DEF IsIssued, Tokens
  <2>3. \A p \in Requests : req'[p].age \in Nat
    BY <1>t, SessionsAssumption DEF TypeOK, Request
  <2>4. \A p \in Requests : u.at >= now' - req'[p].age
    BY <1>2, <1>s, <2>1, <2>3
  <2>5. issued' > u.token
    BY <2>1, <2>2
  <2> QED  BY <1>2, <2>1, <2>4, <2>5
<1> QED  BY <1>1, <1>2, <1>u

\* A token that is under way stays so until it comes in, or it is the first of its
\* device, or the answer is missed.
LEMMA UnderWayStep ==
    ASSUME TypeOK, ChainInv, SessionInv, [Next]_vars, ~missed', NEW q \in Requests,
           req[q].fresh # 0
    PROVE  \/ req'[q].fresh = req[q].fresh
           \/ Grant(q)
           \/ \A t \in Tokens : owner[t] = owner[req[q].fresh] => req[q].fresh <= t
<1>k. Courses(q) /\ First(q)
  BY DEF SessionInv
<1>p. req[q].pc = "grant" \/ req[q].op = "login"
  BY <1>k DEF Courses
<1>i. req[q].pc \in {"lookup", "delete", "grant"}
  BY <1>k, <1>p DEF Courses
<1>1. CASE Alone(q)
  BY <1>1 DEF Alone
<1>2. CASE Login(q) \/ Refresh(q) \/ Logout(q)
  BY <1>2, <1>i, SendEffect
<1>3. CASE Abort(q)
  <2>1. req[q].pc # "grant"
    BY <1>3 DEF Abort, At
  <2> QED  BY <1>k, <1>p, <2>1 DEF First
<1>4. CASE QueryFails(q)
  BY <1>4, <1>i, <1>k, FailEffect DEF Courses
<1>5. CASE Handle(q)
  <2>n. UNCHANGED now
    BY <1>5 DEF Handle, CreateDevice, Lookup, CheckLeeway, ReadDevice, CheckExpiry, Rotate, Reread,
       FindUsed, DeleteDevice, Grant, Clear
  <2>1. Lookup(q) \/ DeleteDevice(q) \/ Grant(q)
    BY <1>5, <1>i DEF Handle, CreateDevice, CheckLeeway, ReadDevice, CheckExpiry, Rotate, Reread,
       FindUsed, Clear, At
  <2>2. CASE Lookup(q)
    <3>1. CASE \E d, p : Loaded(q, d, p)
      BY <2>n, <3>1, LoadedEffect
    <3>2. CASE \E p : Goto(q, p)
      BY <2>n, <3>2, GotoEffect
    <3> QED  BY <2>2, <3>1, <3>2 DEF Lookup
  <2>3. CASE DeleteDevice(q)
    <3>1. PICK p \in {"grant", "clear"} : Leave(q, p, req[q].fresh)
      BY <2>3 DEF DeleteDevice
    <3> QED  BY <2>n, <3>1, LeaveEffect
  <2> QED  BY <2>1, <2>2, <2>3
<1> QED  BY <1>1, <1>2, <1>3, <1>4, <1>5, RequestStep

LEMMA JarStep ==
    ASSUME TypeOK, ChainInv, SessionInv, CalmInv, [Next]_vars, ~missed'
    PROVE  JarInv'
<1>s. ~missed /\ JarInv
  BY Lasting DEF CalmInv
<1>n. \A t \in Tokens : t \in Nat \ {0}
  BY SessionsAssumption DEF Tokens
<1> SUFFICES ASSUME jar' # 0, NEW t \in Tokens, t > jar', owner'[t] = owner'[jar']
             PROVE  \E q \in Requests : req'[q].fresh = t
  BY DEF JarInv
<1>j. \/ jar' = jar
      \/ \E r \in Requests : Grant(r)
  BY DEF Next, vars, dbVars, historyVars, Login, Refresh, Logout, Send, Handle, CreateDevice, Lookup,
     CheckLeeway, ReadDevice, CheckExpiry, Rotate, Reread, FindUsed, DeleteDevice, Clear,
     Abort, QueryFails, Revoke, Tick
<1>1. ASSUME NEW r \in Requests, Grant(r) PROVE \E q \in Requests : req'[q].fresh = t
  <2>1. jar' = req[r].fresh /\ ~Overtaken(r) /\ UNCHANGED owner
    BY <1>1 DEF Grant, historyVars
  <2>2. PICK q \in Requests : req[q].fresh = t
    BY <2>1 DEF Overtaken
  <2>3. q # r
    BY <1>n, <2>1, <2>2 DEF TypeOK
  <2>4. req'[q] = req[q]
    BY <1>1, <2>3 DEF Grant, Answered, TypeOK
  <2> QED  BY <2>2, <2>4
<1>2. CASE jar' = jar /\ ~ \E r \in Requests : Grant(r)
  <2>1. IsIssued(jar) /\ owner'[jar] = owner[jar]
    BY <1>2, OwnersStay DEF ChainInv, Numbered
  <2>2. CASE owner'[t] = owner[t]
    <3>1. PICK q \in Requests : req[q].fresh = t
      BY <1>2, <1>s, <2>1, <2>2 DEF JarInv
    <3>2. ~ \A s \in Tokens : owner[s] = owner[req[q].fresh] => req[q].fresh <= s
      <4>1. jar \in Tokens /\ owner[jar] = owner[t] /\ ~(t <= jar)
        BY <1>2, <1>n, <2>1, <2>2 DEF IsIssued
      <4> QED  BY <3>1, <4>1
    <3>3. req[q].fresh # 0
      BY <1>n, <3>1
    <3> QED  BY <1>2, <3>1, <3>2, <3>3, UnderWayStep
  <2>3. CASE owner'[t] # owner[t]
    <3>1. PICK r \in Requests : CreateDevice(r) \/ Rotate(r)
      BY <2>3 DEF Next, vars, dbVars, historyVars, Login, Refresh, Logout, Send, Handle, Lookup,
         CheckLeeway, ReadDevice, CheckExpiry, Reread, FindUsed, DeleteDevice, Grant, Clear,
         Abort, QueryFails, Revoke, Tick
    <3>2. UNCHANGED now /\ \E p : Leave(r, p, issued + 1)
      BY <2>3, <3>1 DEF CreateDevice, Rotate, Swap
    <3>3. PICK d : owner' = [owner EXCEPT ![issued + 1] = d]
      BY <2>3, <3>1 DEF CreateDevice, Rotate, Swap, Issue
    <3>4. t = issued + 1
      BY <2>3, <3>3 DEF TypeOK
    <3>5. req'[r].fresh = issued + 1
      BY <3>2, LeaveEffect
    <3> QED  BY <3>4, <3>5
  <2> QED  BY <2>2, <2>3
<1> QED  BY <1>1, <1>2, <1>j

LEMMA SurvivesStep ==
    ASSUME TypeOK, ChainInv, SessionInv, CalmInv, SurvivesRetries, [Next]_vars
    PROVE  SurvivesRetries'
<1> SUFFICES ASSUME ~disturbed', NEW d \in Devices, cause'[d] = "taken" PROVE FALSE
  BY DEF SurvivesRetries
<1>s. ~disturbed
  BY Lasting
<1>1. cause[d] # "taken"
  BY <1>s DEF SurvivesRetries
<1>2. cause \in [Devices -> {"none", "ended", "taken"}]
  BY DEF TypeOK
<1>3. cause' # cause
  BY <1>1
<1>4. ~ \E e \in Devices : Revoke(e)
  BY <1>1, <1>2 DEF Revoke
<1>5. PICK r \in Requests : DeleteDevice(r)
  BY <1>3, <1>4 DEF Next, vars, dbVars, historyVars, Login, Refresh, Logout, Send, Handle,
     CreateDevice, Lookup, CheckLeeway, ReadDevice, CheckExpiry, Rotate, Reread, FindUsed, Grant, Clear,
     Abort, QueryFails, Tick
<1>6. /\ d = req[r].dev /\ current[d] # 0 /\ CauseOf(r) = "taken"
  BY <1>1, <1>2, <1>5 DEF DeleteDevice
<1>7. InTime(r) /\ req[r].pc = "delete"
  BY <1>5, <1>s DEF CalmInv, DeleteDevice, At
<1> QED  BY <1>6, <1>7 DEF CauseOf, InTime

\* No session is taken for a stolen or an expired one, however many tabs retry and
\* whether or not an answer with a new token is lost or overtaken, as long as no refresh
\* is sent half a leeway after its token was replaced because of such an answer, none
\* fails to look its device up, requests are prompt and the session does not expire
\* meanwhile (internal/auth/handlers.go:172).
THEOREM SessionsSurviveRetries == Spec => []SurvivesRetries
<1>1. Init => CalmInv /\ SurvivesRetries
  BY DEF Init, CalmInv, InTime, JarInv, SurvivesRetries, NoRequest
<1>2. /\ TypeOK /\ ChainInv /\ SessionInv /\ CalmInv /\ SurvivesRetries /\ [Next]_vars
      => (CalmInv /\ SurvivesRetries)'
  BY InTimeStep, RecallsStep, JarStep, SurvivesStep DEF CalmInv
<1> QED  BY <1>1, <1>2, SessionInvariant, PTL DEF Spec

=============================================================================

---------------------------- MODULE LoginLimiter ----------------------------
(***************************************************************************)
(* The limiter of failed logins (internal/auth/ratelimit.go) as login uses *)
(* it, for one key: an address and an email.  The map is under a mutex,    *)
(* but between Allow and RecordFailure or Reset the password is verified,  *)
(* which is slow by design.  The limit is the one of the settings, which   *)
(* the panel changes meanwhile; the window is left alone.                  *)
(***************************************************************************)
EXTENDS Settings, Sequences, FiniteSets

CONSTANTS
    Logins,             \* logins with the key that may be under way at once
    Window,             \* login_rate_limit_window_seconds
    FallbackAttempts    \* fallbackMaxAttempts: if the settings cannot be read

ASSUME LimiterAssumption ==
    /\ IsFiniteSet(Logins)
    /\ Window \in Nat \ {0} /\ FallbackAttempts \in Nat

VARIABLES
    failures,   \* loginLimiter.attempts[key], as ages; those past Window are alike
    login,      \* login[l]: the login in l
    failed      \* history: the logins that failed within the window, as ages,
                \* since one had the right password

limiterVars == <<failures, login, failed>>
vars == <<settingsVars, limiterVars>>

HighestLimit == IF FallbackAttempts > MaxAttempts THEN FallbackAttempts ELSE MaxAttempts

LimiterTypeOK ==
    /\ TypeOK
    /\ failures \in Seq(0..Window)
    /\ login \in [Logins -> {"idle", "verify"}]
    /\ failed \in Seq(0..Window)

Init ==
    /\ SettingsInit
    /\ failures = <<>> /\ failed = <<>>
    /\ login = [l \in Logins |-> "idle"]

\* The limit in force: the stored one, or the other if it cannot be read.
Limits == {row.attempts, FallbackAttempts}

\* prune.  The times are in the order in which they were recorded, under the
\* mutex, so those past the window come first.
Old(ages) == {i \in DOMAIN ages : ages[i] >= Window}
Recent(ages) == SubSeq(ages, Cardinality(Old(ages)) + 1, Len(ages))

\* Mutant of Allow: the limit may be reached and passed.
AllowOneMore(l) ==
    /\ login[l] = "idle"
    /\ failures' = Recent(failures)
    /\ \E n \in Limits : Len(failures') <= n
    /\ login' = [login EXCEPT ![l] = "verify"]
    /\ UNCHANGED <<settingsVars, failed>>

\* Allow says yes.  It reads the limit just before it takes the mutex, which is
\* one step here: a limit that was changed between the two was in force as well.
Allow(l) ==
    /\ login[l] = "idle"
    /\ failures' = Recent(failures)
    /\ \E n \in Limits : Len(failures') < n
    /\ login' = [login EXCEPT ![l] = "verify"]
    /\ UNCHANGED <<settingsVars, failed>>

\* Allow says no: 429.
Deny(l) ==
    /\ login[l] = "idle"
    /\ failures' = Recent(failures)
    /\ \E n \in Limits : Len(failures') >= n
    /\ UNCHANGED <<settingsVars, login, failed>>

\* An unknown email or a wrong password.
RecordFailure(l) ==
    /\ login[l] = "verify"
    /\ failures' = Append(Recent(failures), 0)
    /\ failed' = Append(failed, 0)
    /\ login' = [login EXCEPT ![l] = "idle"]
    /\ UNCHANGED settingsVars

\* The right password.
Reset(l) ==
    /\ login[l] = "verify"
    /\ failures' = <<>>
    /\ failed' = <<>>
    /\ login' = [login EXCEPT ![l] = "idle"]
    /\ UNCHANGED settingsVars

Aged(ages) ==
    [i \in DOMAIN ages |-> IF ages[i] < Window THEN ages[i] + 1 ELSE Window]

Tick ==
    /\ failures' = Aged(failures)
    /\ failed' = Recent(Aged(failed))
    /\ UNCHANGED <<settingsVars, login>>

Next ==
    \/ SettingsNext /\ UNCHANGED limiterVars
    \/ \E l \in Logins : Allow(l) \/ Deny(l) \/ RecordFailure(l) \/ Reset(l)
    \/ Tick

Spec == Init /\ [][Next]_vars

-----------------------------------------------------------------------------
(* Properties.                                                             *)

\* However the logins with a key interleave and whatever the panel does to the
\* limit, between two right passwords no more of them fail within a window than the
\* highest limit and the others that were under way at once; and no more is
\* remembered of them (internal/auth/ratelimit.go:49).  A right password starts the
\* count anew, so over several of them a window may hold more.
AttemptsAreBounded ==
    /\ Len(failed) <= HighestLimit + Cardinality(Logins) - 1
    /\ Len(failures) <= HighestLimit + Cardinality(Logins) - 1

=============================================================================

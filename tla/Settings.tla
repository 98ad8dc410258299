------------------------------ MODULE Settings ------------------------------
(***************************************************************************)
(* The settings of an instance, one row (internal/settings), the forms of  *)
(* the panel that change it (internal/auth/panel_handlers.go), and the     *)
(* users who accept the privacy policy that is in it (store.acceptPolicy). *)
(*                                                                         *)
(* A form is drawn from the row, submitted some time later, checked        *)
(* against the row as it is then and written back whole: three statements  *)
(* with the steps of others in between.  Of the settings the row keeps     *)
(* those something else depends on: the policy, and the limit of           *)
(* LoginLimiter.                                                           *)
(***************************************************************************)
EXTENDS Integers

CONSTANTS
    Forms,                  \* forms that may be open at once
    Users,
    Texts, FirstText,       \* bodies of the policy, and the one migrated in
    MaxVersion,             \* the highest version accepted: a million
    MaxAttempts,            \* the highest login_rate_limit_attempts: a hundred
    FirstAttempts           \* and its default

ASSUME SettingsAssumption ==
    /\ FirstText \in Texts
    /\ MaxVersion \in Nat \ {0} /\ MaxAttempts \in Nat
    /\ FirstAttempts \in 1..MaxAttempts

VARIABLES
    row,        \* instance_settings
    form,       \* form[f]: what the form in f holds
    page,       \* page[u]: the policy as u last fetched it
    accepted,   \* accepted[u].version is privacy_accepted_version; the text u
                \* had read then is history
    lapsed      \* history: a submission was not checked, overlapped another
                \* one, or lowered the version

settingsVars == <<row, form, page, accepted, lapsed>>

Text == [body : Texts, eol : {"lf"}]                 \* as it is stored
Values == [text : Text, version : 1..MaxVersion, attempts : 1..MaxAttempts]
Policy == [text : Text, version : 0..MaxVersion]     \* version 0: none

\* behind: others saved since the form was drawn, or even since it was checked.
Form == [pc : {"closed", "open", "checked"}, values : Values,
         edits : {"nothing", "policy", "limit"}, behind : {"no", "page", "check"}]

TypeOK ==
    /\ row \in Values
    /\ form \in [Forms -> Form]
    /\ page \in [Users -> Policy]
    /\ accepted \in [Users -> Policy]
    /\ lapsed \in BOOLEAN

\* A later migration than that of the row adds the policy.
FirstPolicy == [text |-> [body |-> FirstText, eol |-> "lf"], version |-> 1]
Migrated == [text |-> FirstPolicy.text, version |-> FirstPolicy.version,
             attempts |-> FirstAttempts]
NoPolicy == [FirstPolicy EXCEPT !.version = 0]
Closed == [pc |-> "closed", values |-> Migrated, edits |-> "nothing", behind |-> "no"]

SettingsInit ==
    /\ row = Migrated
    /\ form = [f \in Forms |-> Closed]
    /\ page = [u \in Users |-> NoPolicy]
    /\ accepted = [u \in Users |-> NoPolicy]
    /\ lapsed = FALSE

-----------------------------------------------------------------------------
(* The forms of the panel.                                                 *)

\* Mutant of Drawn: the page has no field for the limit, and the browser sends
\* the default.
DrawnWithDefault(settings) == [settings EXCEPT !.attempts = FirstAttempts]

\* What renderSettings puts in the fields of the form.
Drawn(settings) == settings

Open(f) ==
    /\ form[f].pc = "closed"
    /\ form' = [form EXCEPT ![f] = [Closed EXCEPT !.pc = "open", !.values = Drawn(row)]]
    /\ UNCHANGED <<row, page, accepted, lapsed>>

\* A browser sends the lines of a textarea with \r\n between them.
Typed(body) == [body |-> body, eol |-> "crlf"]

Normalised(text) == [text EXCEPT !.eol = "lf"]

\* What the admin may make of an open form: change the policy, or the limit.
Edited(values, edits) ==
    {[text |-> Normalised(Typed(b)), version |-> v, attempts |-> n] :
        b \in IF edits = "policy" THEN Texts ELSE {values.text.body},
        v \in IF edits = "policy" THEN 0..(MaxVersion + 1) ELSE {values.version},
        n \in IF edits = "limit" THEN 0..(MaxAttempts + 1) ELSE {values.attempts}}

\* Mutants of Refused: a new text may keep its version; and no lower bound.
RefusedIfLower(new) ==
    \/ new.text # row.text /\ new.version < row.version
    \/ new.attempts \notin 1..MaxAttempts
    \/ new.version \notin 1..MaxVersion
RefusedIfTooHigh(new) ==
    \/ new.text # row.text /\ new.version <= row.version
    \/ new.attempts > MaxAttempts
    \/ new.version \notin 1..MaxVersion

\* A new text has to have a higher version than the one that is stored.
Refused(new) ==
    \/ new.text # row.text /\ new.version <= row.version
    \/ new.attempts \notin 1..MaxAttempts
    \/ new.version \notin 1..MaxVersion

\* panelUpdateSettings up to the update.  If the row cannot be read the new text
\* passes unchecked.
Submit(f) ==
    /\ form[f].pc = "open"
    /\ \E edits \in {"policy", "limit"} : \E new \in Edited(form[f].values, edits) :
          \/ /\ ~Refused(new)
             /\ form' = [form EXCEPT ![f] = [pc |-> "checked", values |-> new,
                                             edits |-> edits, behind |-> @.behind]]
             /\ UNCHANGED lapsed
          \/ /\ Refused(new) /\ new \in Values
             /\ form' = [form EXCEPT ![f] = [pc |-> "checked", values |-> new,
                                             edits |-> edits, behind |-> @.behind]]
             /\ lapsed' = TRUE
          \/ Refused(new) /\ form' = [form EXCEPT ![f] = Closed] /\ UNCHANGED lapsed
    /\ UNCHANGED <<row, page, accepted>>

\* settings.Update writes every column.
Save(f) ==
    /\ form[f].pc = "checked"
    /\ row' = form[f].values
    /\ form' = [g \in Forms |->
                  CASE g = f -> Closed
                    [] g # f /\ form[g].pc = "open" -> [form[g] EXCEPT !.behind = "page"]
                    [] g # f /\ form[g].pc = "checked" -> [form[g] EXCEPT !.behind = "check"]
                    [] OTHER -> form[g]]
    /\ lapsed' = (lapsed \/ form[f].behind = "check" \/ row'.version < row.version)
    /\ UNCHANGED <<page, accepted>>

\* The page is left, or a statement fails.
Abandon(f) ==
    /\ form[f].pc # "closed"
    /\ form' = [form EXCEPT ![f] = Closed]
    /\ UNCHANGED <<row, page, accepted, lapsed>>

-----------------------------------------------------------------------------
(* The users.                                                              *)

\* GET /policy.
FetchPolicy(u) ==
    /\ page' = [page EXCEPT ![u] = [text |-> row.text, version |-> row.version]]
    /\ UNCHANGED <<row, form, accepted, lapsed>>

\* POST /policy/accept: only the version that is current then.
AcceptPolicy(u) ==
    /\ page[u].version = row.version
    /\ accepted' = [accepted EXCEPT ![u] = page[u]]
    /\ UNCHANGED <<row, form, page, lapsed>>

SettingsNext ==
    \/ \E f \in Forms : Open(f) \/ Submit(f) \/ Save(f) \/ Abandon(f)
    \/ \E u \in Users : FetchPolicy(u) \/ AcceptPolicy(u)

SettingsSpec == SettingsInit /\ [][SettingsNext]_settingsVars

-----------------------------------------------------------------------------
(* Properties.                                                             *)

\* A user who has accepted the version that is stored has read the text that is
\* stored (internal/auth/panel_handlers.go:618, internal/auth/store.go:630), unless
\* the version was lowered once, two submissions overlapped, or one was not checked.
ConsentIsInformed ==
    \A u \in Users :
        accepted[u].version = row.version => accepted[u].text = row.text \/ lapsed

\* What a form does if no other was saved since it was drawn: it changes what the
\* admin edited and nothing else, though it writes every column, and a change of
\* the limit is not refused because of the policy in the same form
\* (internal/auth/panel_handlers.go:610).  So only overlapping forms undo each
\* other's changes.
FormsDoWhatTheyEdit ==
    [][\A f \in Forms : form[f].behind = "no" =>
         /\ form[f].pc = "open" =>
               \A new \in Edited(form[f].values, "limit") :
                   new.attempts \in 1..MaxAttempts => ~Refused(new)
         /\ form[f].pc = "checked" /\ form'[f].pc = "closed" /\ row' # row =>
               CASE form[f].edits = "limit" -> row' = [row EXCEPT !.attempts = row'.attempts]
                 [] form[f].edits = "policy" -> row'.attempts = row.attempts]_settingsVars

=============================================================================

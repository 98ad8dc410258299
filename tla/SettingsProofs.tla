--------------------------- MODULE SettingsProofs ---------------------------
(***************************************************************************)
(* Proofs about Settings, in the system in which LoginLimiter reads them:  *)
(* consent stays with the text that was read, and forms change what was    *)
(* edited, for any number of forms, users, texts, versions and limits; and *)
(* about the limiter, for any number of logins, window and fallback.       *)
(***************************************************************************)
EXTENDS LoginLimiter, FiniteSetTheorems, SequenceTheorems, TLAPS

\* What the induction needs of the forms, while nothing lapsed: one whose check
\* still stands does not give a new text an old version.
Checks(f) ==
    form[f].pc = "checked" /\ form[f].behind # "check" =>
        \/ form[f].values.text = row.text
        \/ form[f].values.version > row.version

\* And of the users: the text they know is that of its version, or the version
\* is no longer the stored one and will not be again.
Knows(policy) ==
    /\ policy.version <= row.version
    /\ policy.version = row.version => policy.text = row.text

ConsentInv ==
    ~lapsed => /\ \A f \in Forms : Checks(f)
               /\ \A u \in Users : Knows(page[u]) /\ Knows(accepted[u])

\* What a form holds that is not behind: the row, but for what was edited.
Holds(f) ==
    form[f].behind = "no" =>
        /\ form[f].pc = "open" => form[f].values = row
        /\ form[f].pc = "checked" =>
              /\ form[f].edits = "limit" =>
                    form[f].values = [row EXCEPT !.attempts = form[f].values.attempts]
              /\ form[f].edits = "policy" => form[f].values.attempts = row.attempts
              /\ form[f].edits # "nothing"

FormInv == \A f \in Forms : Holds(f)

-----------------------------------------------------------------------------
(* Types.                                                                  *)

\* What passes the checks has the type of a row.
LEMMA EditedType ==
    ASSUME TypeOK, NEW f \in Forms, NEW edits \in {"policy", "limit"},
           NEW new \in Edited(form[f].values, edits)
    PROVE  /\ ~Refused(new) => new \in Values
           /\ edits = "limit" =>
                 new = [form[f].values EXCEPT !.attempts = new.attempts]
           /\ edits = "policy" => new.attempts = form[f].values.attempts
<1>1. form[f].values \in Values
  BY DEF TypeOK, Form
<1>2. PICK b \in IF edits = "policy" THEN Texts ELSE {form[f].values.text.body},
           v \in IF edits = "policy" THEN 0..(MaxVersion + 1) ELSE {form[f].values.version},
           n \in IF edits = "limit" THEN 0..(MaxAttempts + 1) ELSE {form[f].values.attempts} :
        new = [text |-> Normalised(Typed(b)), version |-> v, attempts |-> n]
  BY DEF Edited
<1>3. b \in Texts
  BY <1>1 DEF Values, Text
<1>4. Normalised(Typed(b)) \in Text
  BY <1>3 DEF Normalised, Typed, Text
<1>5. ~Refused(new) => new \in Values
  BY <1>2, <1>4 DEF Refused, Values
<1>6. CASE edits = "limit"
  <2>1. Normalised(Typed(b)) = form[f].values.text
    BY <1>1, <1>2, <1>6 DEF Normalised, Typed, Values, Text
  <2>2. new = [form[f].values EXCEPT !.attempts = new.attempts]
    BY <1>1, <1>2, <1>6, <2>1 DEF Values
  <2> QED  BY <1>5, <1>6, <2>2
<1>7. CASE edits = "policy"
  BY <1>2, <1>5, <1>7
<1> QED  BY <1>6, <1>7

LEMMA SettingsTypeInit == SettingsInit => TypeOK
<1>1. Migrated.text \in Text /\ Migrated \in Values
  BY SettingsAssumption DEF Migrated, FirstPolicy, Values, Text
<1>2. Closed \in Form
  BY <1>1 DEF Closed, Form
<1>3. NoPolicy \in Policy
  BY <1>1, SettingsAssumption DEF NoPolicy, Policy, Migrated, FirstPolicy, Values
<1> QED  BY <1>1, <1>2, <1>3 DEF SettingsInit, TypeOK

LEMMA SettingsTypeStep == TypeOK /\ [SettingsNext]_settingsVars => TypeOK'
<1> SUFFICES ASSUME TypeOK, [SettingsNext]_settingsVars PROVE TypeOK'
  OBVIOUS
<1>c. Closed \in Form
  BY SettingsAssumption DEF Closed, Form, Migrated, FirstPolicy, Values, Text
<1>1. ASSUME NEW f \in Forms, Open(f) PROVE TypeOK'
  <2>1. [Closed EXCEPT !.pc = "open", !.values = Drawn(row)] \in Form
    BY <1>c DEF TypeOK, Closed, Form, Drawn
  <2> QED  BY <1>1, <2>1 DEF Open, TypeOK
<1>2. ASSUME NEW f \in Forms, Submit(f) PROVE TypeOK'
  <2>1. \E edits \in {"policy", "limit"}, new \in Values :
          \/ form' = [form EXCEPT ![f] = [pc |-> "checked", values |-> new,
                                          edits |-> edits, behind |-> @.behind]]
          \/ form' = [form EXCEPT ![f] = Closed]
    <3>1. PICK edits \in {"policy", "limit"} : \E new \in Edited(form[f].values, edits) :
            \/ /\ new \in Values \/ ~Refused(new)
               /\ form' = [form EXCEPT ![f] = [pc |-> "checked", values |-> new,
                                               edits |-> edits, behind |-> @.behind]]
            \/ form' = [form EXCEPT ![f] = Closed]
      BY <1>2 DEF Submit
    <3>2. PICK new \in Edited(form[f].values, edits) :
            \/ /\ new \in Values \/ ~Refused(new)
               /\ form' = [form EXCEPT ![f] = [pc |-> "checked", values |-> new,
                                               edits |-> edits, behind |-> @.behind]]
            \/ form' = [form EXCEPT ![f] = Closed]
      BY <3>1
    <3>3. ~Refused(new) => new \in Values
      BY EditedType
    <3>4. row \in Values
      BY DEF TypeOK
    <3> QED  BY <3>2, <3>3, <3>4
  <2>2. form' \in [Forms -> Form]
    BY <1>c, <2>1 DEF TypeOK, Form
  <2>3. lapsed' \in BOOLEAN
    BY <1>2 DEF Submit, TypeOK
  <2> QED  BY <1>2, <2>2, <2>3 DEF Submit, TypeOK
<1>3. ASSUME NEW f \in Forms, Save(f) PROVE TypeOK'
  <2>1. \A g \in Forms : /\ [form[g] EXCEPT !.behind = "page"] \in Form
                         /\ [form[g] EXCEPT !.behind = "check"] \in Form
    BY DEF TypeOK, Form
  <2>2. form' \in [Forms -> Form]
    BY <1>3, <1>c, <2>1 DEF Save, TypeOK
  <2>3. row' \in Values /\ lapsed' \in BOOLEAN
    BY <1>3 DEF Save, TypeOK, Form
  <2> QED  BY <1>3, <2>2, <2>3 DEF Save, TypeOK
<1>4. ASSUME NEW f \in Forms, Abandon(f) PROVE TypeOK'
  BY <1>4, <1>c DEF Abandon, TypeOK
<1>5. ASSUME NEW u \in Users, FetchPolicy(u) PROVE TypeOK'
  <2>1. [text |-> row.text, version |-> row.version] \in Policy
    BY SettingsAssumption DEF TypeOK, Values, Policy
  <2> QED  BY <1>5, <2>1 DEF FetchPolicy, TypeOK
<1>6. ASSUME NEW u \in Users, AcceptPolicy(u) PROVE TypeOK'
  BY <1>6 DEF AcceptPolicy, TypeOK
<1>7. CASE UNCHANGED settingsVars
  BY <1>7 DEF settingsVars, TypeOK
<1> QED  BY <1>1, <1>2, <1>3, <1>4, <1>5, <1>6, <1>7 DEF SettingsNext

\* A step of the whole system is one of the settings or leaves them alone.
LEMMA SettingsSteps == [Next]_vars => [SettingsNext]_settingsVars
  BY DEF Next, vars, Allow, Deny, RecordFailure, Reset, Tick

-----------------------------------------------------------------------------
(* Consent.                                                                *)

LEMMA ConsentInit == SettingsInit => ConsentInv
  BY SettingsAssumption DEF SettingsInit, ConsentInv, Checks, Knows, Closed, NoPolicy, FirstPolicy, Migrated

LEMMA ConsentStep ==
    TypeOK /\ ConsentInv /\ [SettingsNext]_settingsVars => ConsentInv'
<1> SUFFICES ASSUME TypeOK, ConsentInv, [SettingsNext]_settingsVars, ~lapsed'
             PROVE  /\ \A f \in Forms : Checks(f)'
                    /\ \A u \in Users : Knows(page[u])' /\ Knows(accepted[u])'
  BY DEF ConsentInv
<1>0. ~lapsed
  BY DEF SettingsNext, settingsVars, Open, Submit, Save, Abandon, FetchPolicy, AcceptPolicy, TypeOK
<1>i. /\ \A f \in Forms : Checks(f)
      /\ \A u \in Users : Knows(page[u]) /\ Knows(accepted[u])
  BY <1>0 DEF ConsentInv
<1>t. /\ row.version \in Nat
      /\ \A f \in Forms : form[f].values.version \in Nat
      /\ \A u \in Users : page[u].version \in Nat /\ accepted[u].version \in Nat
  BY SettingsAssumption DEF TypeOK, Values, Form, Policy
<1>1. ASSUME NEW f \in Forms, Open(f) \/ Abandon(f) PROVE
          /\ \A g \in Forms : Checks(g)'
          /\ \A u \in Users : Knows(page[u])' /\ Knows(accepted[u])'
  <2>1. row' = row /\ page' = page /\ accepted' = accepted
    BY <1>1 DEF Open, Abandon
  <2>2. \A g \in Forms : form'[g] = form[g] \/ form'[g].pc # "checked"
    <3>1. CASE Open(f)
      BY <3>1 DEF Open, TypeOK, Closed
    <3>2. CASE Abandon(f)
      BY <3>2 DEF Abandon, TypeOK, Closed
    <3> QED  BY <1>1, <3>1, <3>2
  <2> QED  BY <1>i, <2>1, <2>2 DEF Checks, Knows
<1>2. ASSUME NEW f \in Forms, Submit(f) PROVE
          /\ \A g \in Forms : Checks(g)'
          /\ \A u \in Users : Knows(page[u])' /\ Knows(accepted[u])'
  <2>1. \/ \E new \in Values : /\ new.text = row.text \/ new.version > row.version
                               /\ \E edits : form' = [form EXCEPT ![f] =
                                     [pc |-> "checked", values |-> new, edits |-> edits,
                                      behind |-> @.behind]]
        \/ form' = [form EXCEPT ![f] = Closed]
    <3>0. PICK edits \in {"policy", "limit"} : \E new \in Edited(form[f].values, edits) :
            \/ ~Refused(new) /\ form' = [form EXCEPT ![f] = [pc |-> "checked", values |-> new,
                                             edits |-> edits, behind |-> @.behind]]
            \/ form' = [form EXCEPT ![f] = Closed]
      BY <1>2 DEF Submit
    <3>1. PICK new \in Edited(form[f].values, edits) :
            \/ ~Refused(new) /\ form' = [form EXCEPT ![f] = [pc |-> "checked", values |-> new,
                                             edits |-> edits, behind |-> @.behind]]
            \/ form' = [form EXCEPT ![f] = Closed]
      BY <3>0
    <3>2. ~Refused(new) => new \in Values
      BY EditedType
    <3>3. ~Refused(new) => new.text = row.text \/ new.version > row.version
      BY <1>t, <3>2 DEF Refused, Values
    <3> QED  BY <3>1, <3>2, <3>3
  <2>2. \A g \in Forms : Checks(g)'
    BY <1>2, <1>i, <2>1 DEF Submit, Checks, TypeOK, Closed
  <2> QED  BY <1>2, <1>i, <2>2 DEF Submit, Knows
<1>3. ASSUME NEW f \in Forms, Save(f) PROVE
          /\ \A g \in Forms : Checks(g)'
          /\ \A u \in Users : Knows(page[u])' /\ Knows(accepted[u])'
  <2>0. lapsed' = (lapsed \/ form[f].behind = "check" \/ row'.version < row.version)
    BY <1>3 DEF Save
  <2>1. /\ form[f].behind # "check" /\ form[f].pc = "checked"
        /\ row' = form[f].values /\ ~(form[f].values.version < row.version)
    BY <1>3, <2>0 DEF Save
  <2>2. row'.version = row.version => row'.text = row.text
    BY <1>i, <1>t, <2>1 DEF Checks
  <2>3. \A u \in Users : Knows(page[u])' /\ Knows(accepted[u])'
    BY <1>3, <1>i, <1>t, <2>1, <2>2 DEF Save, Knows
  <2>4. \A g \in Forms : form'[g].pc = "checked" => form'[g].behind = "check"
    BY <1>3 DEF Save, TypeOK, Form, Closed
  <2> QED  BY <2>3, <2>4 DEF Checks
<1>4. ASSUME NEW u \in Users, FetchPolicy(u) PROVE
          /\ \A g \in Forms : Checks(g)'
          /\ \A v \in Users : Knows(page[v])' /\ Knows(accepted[v])'
  <2>1. row' = row /\ form' = form /\ accepted' = accepted
    BY <1>4 DEF FetchPolicy
  <2>2. \A v \in Users : \/ page'[v] = page[v]
                         \/ page'[v].version = row.version /\ page'[v].text = row.text
    BY <1>4 DEF FetchPolicy, TypeOK
  <2> QED  BY <1>i, <1>t, <2>1, <2>2 DEF Checks, Knows
<1>5. ASSUME NEW u \in Users, AcceptPolicy(u) PROVE
          /\ \A g \in Forms : Checks(g)'
          /\ \A v \in Users : Knows(page[v])' /\ Knows(accepted[v])'
  <2>1. row' = row /\ form' = form /\ page' = page
    BY <1>5 DEF AcceptPolicy
  <2>2. \A v \in Users : accepted'[v] = accepted[v] \/ accepted'[v] = page[v]
    BY <1>5 DEF AcceptPolicy, TypeOK
  <2> QED  BY <1>i, <2>1, <2>2 DEF Checks, Knows
<1>6. CASE UNCHANGED settingsVars
  BY <1>6, <1>i DEF settingsVars, Checks, Knows
<1> QED  BY <1>1, <1>2, <1>3, <1>4, <1>5, <1>6 DEF SettingsNext

-----------------------------------------------------------------------------
(* Forms.                                                                  *)

LEMMA FormInit == SettingsInit => FormInv
  BY DEF SettingsInit, FormInv, Holds, Closed

LEMMA FormStep == TypeOK /\ FormInv /\ [SettingsNext]_settingsVars => FormInv'
<1> SUFFICES ASSUME TypeOK, FormInv, [SettingsNext]_settingsVars, NEW g \in Forms
             PROVE  Holds(g)'
  BY DEF FormInv
<1>i. Holds(g)
  BY DEF FormInv
<1>1. ASSUME NEW f \in Forms, Open(f) \/ Abandon(f) PROVE Holds(g)'
  <2>1. CASE g # f
    BY <1>1, <1>i, <2>1 DEF Open, Abandon, Holds, TypeOK
  <2>2. CASE g = f /\ Open(f)
    BY <2>2 DEF Open, Holds, TypeOK, Closed, Drawn
  <2>3. CASE g = f /\ Abandon(f)
    BY <2>3 DEF Abandon, Holds, TypeOK, Closed
  <2> QED  BY <1>1, <2>1, <2>2, <2>3
<1>2. ASSUME NEW f \in Forms, Submit(f) PROVE Holds(g)'
  <2>1. CASE g # f
    BY <1>2, <1>i, <2>1 DEF Submit, Holds, TypeOK
  <2>2. CASE g = f
    <3>0. PICK edits \in {"policy", "limit"} : \E new \in Edited(form[f].values, edits) :
            \/ form' = [form EXCEPT ![f] = [pc |-> "checked", values |-> new,
                                             edits |-> edits, behind |-> @.behind]]
            \/ form' = [form EXCEPT ![f] = Closed]
      BY <1>2 DEF Submit
    <3>1. PICK new \in Edited(form[f].values, edits) :
            \/ form' = [form EXCEPT ![f] = [pc |-> "checked", values |-> new,
                                             edits |-> edits, behind |-> @.behind]]
            \/ form' = [form EXCEPT ![f] = Closed]
      BY <3>0
    <3>2. /\ edits = "limit" => new = [form[f].values EXCEPT !.attempts = new.attempts]
          /\ edits = "policy" => new.attempts = form[f].values.attempts
      BY EditedType
    <3>3. form[f].behind = "no" => form[f].values = row
      BY <1>2, <1>i, <2>2 DEF Submit, Holds
    <3>4. row' = row
      BY <1>2 DEF Submit
    <3> QED  BY <2>2, <3>1, <3>2, <3>3, <3>4 DEF Holds, TypeOK, Closed
  <2> QED  BY <2>1, <2>2
<1>3. ASSUME NEW f \in Forms, Save(f) PROVE Holds(g)'
  <2>1. form'[g].behind = "no" => form'[g].pc = "closed"
    BY <1>3 DEF Save, TypeOK, Form, Closed
  <2> QED  BY <2>1 DEF Holds
<1>4. ASSUME NEW u \in Users, FetchPolicy(u) \/ AcceptPolicy(u) PROVE Holds(g)'
  BY <1>4, <1>i DEF FetchPolicy, AcceptPolicy, Holds
<1>5. CASE UNCHANGED settingsVars
  BY <1>5, <1>i DEF settingsVars, Holds
<1> QED  BY <1>1, <1>2, <1>3, <1>4, <1>5 DEF SettingsNext

-----------------------------------------------------------------------------
(* Theorems.                                                               *)

\* The row, the forms and what users know keep their types, whatever is typed into
\* a form (internal/auth/panel_handlers.go:591).
THEOREM SettingsTypeCorrect == Spec => []TypeOK
<1>1. Init => TypeOK
  BY SettingsTypeInit DEF Init
<1>2. TypeOK /\ [Next]_vars => TypeOK'
  BY SettingsTypeStep, SettingsSteps
<1> QED  BY <1>1, <1>2, PTL DEF Spec

\* A user who has accepted the stored version has read the stored text, unless a
\* submission overlapped another one, was not checked, or lowered the version
\* (internal/auth/store.go:630).
THEOREM ConsentStaysInformed == Spec => []ConsentIsInformed
<1>1. Init => ConsentInv
  BY ConsentInit DEF Init
<1>2. TypeOK /\ ConsentInv /\ [Next]_vars => ConsentInv'
  BY ConsentStep, SettingsSteps
<1>3. ConsentInv => ConsentIsInformed
  BY DEF ConsentInv, ConsentIsInformed, Knows
<1> QED  BY <1>1, <1>2, <1>3, SettingsTypeCorrect, PTL DEF Spec

\* A form that nothing was saved around changes what was edited and nothing else,
\* and is not refused for a policy it leaves alone
\* (internal/auth/panel_handlers.go:610).
THEOREM FormsKeepToTheirEdits == Spec => FormsDoWhatTheyEdit
<1>1. Init => FormInv
  BY FormInit DEF Init
<1>2. TypeOK /\ FormInv /\ [Next]_vars => FormInv'
  BY FormStep, SettingsSteps
<1>3. ASSUME TypeOK, FormInv, [Next]_vars
      PROVE  [\A f \in Forms : form[f].behind = "no" =>
               /\ form[f].pc = "open" =>
                     \A new \in Edited(form[f].values, "limit") :
                         new.attempts \in 1..MaxAttempts => ~Refused(new)
               /\ form[f].pc = "checked" /\ form'[f].pc = "closed" /\ row' # row =>
                     CASE form[f].edits = "limit" ->
                            row' = [row EXCEPT !.attempts = row'.attempts]
                       [] form[f].edits = "policy" ->
                            row'.attempts = row.attempts]_settingsVars
  <2> SUFFICES ASSUME SettingsNext, NEW f \in Forms, form[f].behind = "no"
               PROVE  /\ form[f].pc = "open" =>
                           \A new \in Edited(form[f].values, "limit") :
                               new.attempts \in 1..MaxAttempts => ~Refused(new)
                      /\ form[f].pc = "checked" /\ form'[f].pc = "closed" /\ row' # row =>
                           CASE form[f].edits = "limit" ->
                                  row' = [row EXCEPT !.attempts = row'.attempts]
                             [] form[f].edits = "policy" ->
                                  row'.attempts = row.attempts
    BY <1>3, SettingsSteps
  <2>h. Holds(f)
    BY <1>3 DEF FormInv
  <2>1. ASSUME form[f].pc = "open", NEW new \in Edited(form[f].values, "limit"),
               new.attempts \in 1..MaxAttempts
        PROVE  ~Refused(new)
    <3>1. form[f].values = row /\ row \in Values
      BY <1>3, <2>1, <2>h DEF Holds, TypeOK
    <3>2. new = [row EXCEPT !.attempts = new.attempts]
      BY <1>3, <2>1, <3>1, EditedType
    <3> QED  BY <2>1, <3>1, <3>2 DEF Refused, Values
  <2>2. ASSUME form[f].pc = "checked", form'[f].pc = "closed", row' # row
        PROVE  CASE form[f].edits = "limit" ->
                      row' = [row EXCEPT !.attempts = row'.attempts]
                 [] form[f].edits = "policy" ->
                      row'.attempts = row.attempts
    <3>1. PICK g \in Forms : Save(g)
      BY <2>2 DEF SettingsNext, Open, Submit, Abandon, FetchPolicy, AcceptPolicy
    <3>2. g = f
      BY <1>3, <2>2, <3>1 DEF Save, TypeOK, Form
    <3>3. row' = form[f].values
      BY <3>1, <3>2 DEF Save
    <3>4. form[f].edits \in {"limit", "policy"}
      BY <1>3, <2>2, <2>h DEF Holds, TypeOK, Form
    <3> QED  BY <2>2, <2>h, <3>3, <3>4 DEF Holds
  <2> QED  BY <2>1, <2>2
<1> QED  BY <1>1, <1>2, <1>3, SettingsTypeCorrect, PTL DEF Spec, FormsDoWhatTheyEdit

-----------------------------------------------------------------------------
(* The limiter.                                                            *)

Verifying == {l \in Logins : login[l] = "verify"}
InOrder(ages) == \A i, j \in DOMAIN ages : i <= j => ages[i] >= ages[j]

\* A login that was let in may add a failure, so it counts before it does.
LimiterInv ==
    /\ InOrder(failures)
    /\ Len(failures) + Cardinality(Verifying) <= HighestLimit + Cardinality(Logins) - 1

\* What failed in the window since the last right password is remembered, last.
Remembered ==
    /\ Len(failed) <= Len(failures)
    /\ \A i \in 1..Len(failed) :
          /\ failed[i] = failures[Len(failures) - Len(failed) + i]
          /\ failed[i] < Window

LEMMA RecentType ==
    ASSUME NEW ages \in Seq(0..Window)
    PROVE  /\ Old(ages) \subseteq 1..Len(ages) /\ IsFiniteSet(Old(ages))
           /\ Cardinality(Old(ages)) \in 0..Len(ages)
           /\ Recent(ages) \in Seq(0..Window)
           /\ Len(Recent(ages)) = Len(ages) - Cardinality(Old(ages))
           /\ \A i \in 1..Len(Recent(ages)) :
                 Recent(ages)[i] = ages[Cardinality(Old(ages)) + i]
<1>1. /\ Len(ages) \in Nat /\ DOMAIN ages = 1..Len(ages)
      /\ \A i \in 1..Len(ages) : ages[i] \in 0..Window
  BY LenProperties
<1>2. Old(ages) \subseteq 1..Len(ages)
  BY <1>1 DEF Old
<1>3. IsFiniteSet(1..Len(ages)) /\ Cardinality(1..Len(ages)) = Len(ages)
  BY <1>1, FS_Interval
<1>4. IsFiniteSet(Old(ages)) /\ Cardinality(Old(ages)) <= Len(ages)
  BY <1>2, <1>3, FS_Subset
<1>5. Cardinality(Old(ages)) \in Nat
  BY <1>4, FS_CardinalityType
<1>6. ASSUME NEW k \in 0..Len(ages)
      PROVE  /\ SubSeq(ages, k + 1, Len(ages)) \in Seq(0..Window)
             /\ Len(SubSeq(ages, k + 1, Len(ages))) = Len(ages) - k
             /\ \A i \in 1..(Len(ages) - k) : SubSeq(ages, k + 1, Len(ages))[i] = ages[k + i]
  <2> DEFINE S == 0..Window
             m == k + 1
             n == Len(ages)
             sub == SubSeq(ages, m, n)
  <2>1. m \in Int /\ n \in Int /\ \A i \in m..n : ages[i] \in S
    BY <1>1, <1>6
  <2> HIDE DEF S, m, n, sub
  <2>2. /\ sub \in Seq(S) /\ Len(sub) = IF m <= n THEN n - m + 1 ELSE 0
        /\ \A i \in 1..(n - m + 1) : sub[i] = ages[m + i - 1]
    BY <2>1, SubSeqProperties DEF sub
  <2>3. Len(sub) = Len(ages) - k
    <3>1. Len(sub) = IF m <= n THEN n - m + 1 ELSE 0
      BY <2>2
    <3>2. n \in Nat /\ k \in Nat /\ k <= n /\ m = k + 1 /\ Len(ages) = n
      BY <1>1, <1>6 DEF m, n
    <3> QED  BY <3>1, <3>2
  <2>4. ASSUME NEW i \in 1..(Len(ages) - k) PROVE sub[i] = ages[k + i]
    <3>1. i \in 1..(n - m + 1) /\ m + i - 1 = k + i
      BY <1>1, <1>6, <2>4 DEF m, n
    <3> QED  BY <2>2, <3>1
  <2> QED  BY <2>2, <2>3, <2>4 DEF sub, S, m, n
<1>7. Cardinality(Old(ages)) \in 0..Len(ages)
  BY <1>1, <1>4, <1>5
<1> QED  BY <1>2, <1>4, <1>6, <1>7 DEF Recent

\* What is kept is what is not past the window, all of it.
LEMMA RecentIsWhatIsRecent ==
    ASSUME NEW ages \in Seq(0..Window), InOrder(ages)
    PROVE  \A i \in 1..Len(ages) : ages[i] < Window <=> i > Cardinality(Old(ages))
<1> DEFINE k == Cardinality(Old(ages))
<1>1. Len(ages) \in Nat /\ DOMAIN ages = 1..Len(ages) /\ \A i \in 1..Len(ages) : ages[i] \in 0..Window
  BY LenProperties
<1>2. /\ Old(ages) \subseteq 1..Len(ages) /\ IsFiniteSet(Old(ages)) /\ k \in 0..Len(ages)
  BY RecentType
<1>3. ASSUME NEW i \in Old(ages) PROVE i <= k
  <2>1. \A j \in 1..i : j \in Old(ages)
    BY <1>1, <1>3, LimiterAssumption DEF Old, InOrder
  <2>2. i \in Nat /\ 1 <= i
    BY <1>1, <1>2
  <2>3. Cardinality(1..i) = i
    BY <2>2, FS_Interval
  <2>4. Cardinality(1..i) <= k
    BY <1>2, <2>1, FS_Subset
  <2> QED  BY <2>3, <2>4
<1>4. Old(ages) \subseteq 1..k
  BY <1>2, <1>3
<1>5. IsFiniteSet(1..k) /\ Cardinality(1..k) = k
  BY <1>2, FS_Interval
<1>6. Old(ages) = 1..k
  BY <1>4, <1>5, FS_Subset
<1>7. ASSUME NEW i \in 1..Len(ages) PROVE ages[i] < Window <=> i > k
  <2>1. ages[i] >= Window <=> i \in Old(ages)
    BY <1>1, <1>7 DEF Old
  <2>2. i \in Old(ages) <=> i <= k
    BY <1>1, <1>2, <1>6, <1>7
  <2>3. ages[i] \in Int /\ Window \in Int /\ i \in Int /\ k \in Int
    BY <1>1, <1>2, <1>7, LimiterAssumption
  <2> QED  BY <2>1, <2>2, <2>3
<1> QED  BY <1>7

LEMMA RecentInOrder ==
    ASSUME NEW ages \in Seq(0..Window), InOrder(ages)
    PROVE  InOrder(Recent(ages))
<1>1. /\ Recent(ages) \in Seq(0..Window) /\ Cardinality(Old(ages)) \in 0..Len(ages)
      /\ Len(Recent(ages)) = Len(ages) - Cardinality(Old(ages))
      /\ \A i \in 1..Len(Recent(ages)) : Recent(ages)[i] = ages[Cardinality(Old(ages)) + i]
  BY RecentType
<1>2. DOMAIN ages = 1..Len(ages) /\ DOMAIN Recent(ages) = 1..Len(Recent(ages)) /\ Len(ages) \in Nat
  BY <1>1, LenProperties
<1>3. ASSUME NEW i \in 1..Len(Recent(ages)), NEW j \in 1..Len(Recent(ages)), i <= j
      PROVE  Recent(ages)[i] >= Recent(ages)[j]
  <2> DEFINE k == Cardinality(Old(ages))
  <2>1. k + i \in 1..Len(ages) /\ k + j \in 1..Len(ages) /\ k + i <= k + j
    BY <1>1, <1>2, <1>3
  <2>2. ages[k + i] >= ages[k + j]
    BY <1>2, <2>1 DEF InOrder
  <2> QED  BY <1>1, <1>3, <2>2
<1> QED  BY <1>2, <1>3 DEF InOrder

LEMMA VerifyingFacts ==
    ASSUME LimiterTypeOK
    PROVE  /\ IsFiniteSet(Verifying) /\ Cardinality(Verifying) \in Nat
           /\ Cardinality(Logins) \in Nat /\ Cardinality(Verifying) <= Cardinality(Logins)
<1>1. Verifying \in SUBSET Logins
  BY DEF Verifying
<1> QED  BY <1>1, LimiterAssumption, FS_Subset, FS_CardinalityType

LEMMA AgedType ==
    ASSUME NEW ages \in Seq(0..Window)
    PROVE  /\ Aged(ages) \in Seq(0..Window) /\ Len(Aged(ages)) = Len(ages)
           /\ \A i \in 1..Len(ages) :
                 Aged(ages)[i] = IF ages[i] < Window THEN ages[i] + 1 ELSE Window
           /\ InOrder(ages) => InOrder(Aged(ages))
<1>1. /\ Len(ages) \in Nat /\ DOMAIN ages = 1..Len(ages)
      /\ \A i \in 1..Len(ages) : ages[i] \in 0..Window
  BY LenProperties
<1>2. \A i \in 1..Len(ages) :
         (IF ages[i] < Window THEN ages[i] + 1 ELSE Window) \in 0..Window
  BY <1>1, LimiterAssumption
<1>3. Aged(ages) \in [1..Len(ages) -> 0..Window]
  BY <1>1, <1>2 DEF Aged
<1>4. Aged(ages) \in Seq(0..Window)
  BY <1>1, <1>3, SeqDef
<1>5. Len(Aged(ages)) = Len(ages) /\ DOMAIN Aged(ages) = 1..Len(ages)
  BY <1>1, <1>3, <1>4, LenProperties
<1>6. \A i \in 1..Len(ages) :
         Aged(ages)[i] = IF ages[i] < Window THEN ages[i] + 1 ELSE Window
  BY <1>1 DEF Aged
<1>7. InOrder(ages) => InOrder(Aged(ages))
  BY <1>1, <1>5, <1>6, LimiterAssumption DEF InOrder
<1> QED  BY <1>4, <1>5, <1>6, <1>7

LEMMA LimiterTypeStep == LimiterTypeOK /\ [Next]_vars => LimiterTypeOK'
<1> SUFFICES ASSUME LimiterTypeOK, [Next]_vars PROVE LimiterTypeOK'
  OBVIOUS
<1>t. /\ TypeOK /\ failures \in Seq(0..Window) /\ failed \in Seq(0..Window)
      /\ login \in [Logins -> {"idle", "verify"}]
  BY DEF LimiterTypeOK
<1>1. TypeOK'
  BY <1>t, SettingsTypeStep, SettingsSteps
<1>2. CASE UNCHANGED limiterVars
  BY <1>1, <1>2, <1>t DEF limiterVars, LimiterTypeOK
<1>3. ASSUME NEW l \in Logins, Allow(l) \/ Deny(l) \/ RecordFailure(l) \/ Reset(l)
      PROVE  LimiterTypeOK'
  <2>1. Recent(failures) \in Seq(0..Window) /\ 0 \in 0..Window
    BY <1>t, RecentType, LimiterAssumption
  <2>2. failures' \in Seq(0..Window) /\ failed' \in Seq(0..Window)
    <3>1. /\ Append(Recent(failures), 0) \in Seq(0..Window)
          /\ Append(failed, 0) \in Seq(0..Window) /\ <<>> \in Seq(0..Window)
      BY <1>t, <2>1, AppendProperties, EmptySeq
    <3> QED  BY <1>3, <1>t, <2>1, <3>1 DEF Allow, Deny, RecordFailure, Reset
  <2>3. login' \in [Logins -> {"idle", "verify"}]
    BY <1>3, <1>t DEF Allow, Deny, RecordFailure, Reset
  <2> QED  BY <1>1, <2>2, <2>3 DEF LimiterTypeOK
<1>4. CASE Tick
  <2>1. failures' \in Seq(0..Window) /\ failed' \in Seq(0..Window)
    BY <1>4, <1>t, AgedType, RecentType DEF Tick
  <2> QED  BY <1>1, <1>4, <1>t, <2>1 DEF Tick, LimiterTypeOK
<1> QED  BY <1>2, <1>3, <1>4 DEF Next, vars

LEMMA LimiterStep == LimiterTypeOK /\ LimiterInv /\ [Next]_vars => LimiterInv'
<1> SUFFICES ASSUME LimiterTypeOK, LimiterInv, [Next]_vars PROVE LimiterInv'
  OBVIOUS
<1> DEFINE n == HighestLimit + Cardinality(Logins) - 1
<1>t. TypeOK /\ failures \in Seq(0..Window) /\ login \in [Logins -> {"idle", "verify"}]
  BY DEF LimiterTypeOK
<1>v. /\ IsFiniteSet(Verifying) /\ Cardinality(Verifying) \in Nat
      /\ Cardinality(Logins) \in Nat
  BY VerifyingFacts
<1>w. Cardinality(Verifying') <= Cardinality(Logins) /\ Cardinality(Verifying') \in Nat
  <2>1. Verifying' \in SUBSET Logins
    BY DEF Verifying
  <2> QED  BY <2>1, LimiterAssumption, FS_Subset, FS_CardinalityType
<1>h. /\ HighestLimit \in Nat \ {0} /\ \A m \in Limits : m \in Nat /\ m <= HighestLimit
  BY <1>t, SettingsAssumption, LimiterAssumption DEF HighestLimit, Limits, TypeOK, Values
<1>r. /\ Recent(failures) \in Seq(0..Window) /\ InOrder(Recent(failures))
      /\ Len(Recent(failures)) \in Nat /\ Len(Recent(failures)) <= Len(failures)
      /\ Len(failures) \in Nat
  <2>1. /\ Recent(failures) \in Seq(0..Window) /\ Cardinality(Old(failures)) \in 0..Len(failures)
        /\ Len(Recent(failures)) = Len(failures) - Cardinality(Old(failures))
    BY <1>t, RecentType
  <2> QED  BY <1>t, <2>1, RecentInOrder DEF LimiterInv
<1>i. InOrder(failures) /\ Len(failures) + Cardinality(Verifying) <= n
  BY DEF LimiterInv
<1>1. CASE UNCHANGED limiterVars
  <2>1. Verifying' = Verifying
    BY <1>1 DEF limiterVars, Verifying
  <2> QED  BY <1>1, <1>i, <2>1 DEF limiterVars, LimiterInv, InOrder, HighestLimit
<1>2. ASSUME NEW l \in Logins, Allow(l) PROVE LimiterInv'
  <2>1. failures' = Recent(failures) /\ \E m \in Limits : Len(failures') < m
    BY <1>2 DEF Allow
  <2>2. Len(failures') + Cardinality(Verifying') <= n
    BY <1>h, <1>r, <1>v, <1>w, <2>1
  <2> QED  BY <1>r, <2>1, <2>2 DEF LimiterInv, InOrder, HighestLimit
<1>3. ASSUME NEW l \in Logins, Deny(l) PROVE LimiterInv'
  <2>1. failures' = Recent(failures) /\ Verifying' = Verifying
    BY <1>3 DEF Deny, Verifying
  <2>2. Len(failures') + Cardinality(Verifying') <= n
    BY <1>h, <1>i, <1>r, <1>v, <2>1
  <2> QED  BY <1>r, <2>1, <2>2 DEF LimiterInv, InOrder, HighestLimit
<1>4. ASSUME NEW l \in Logins, RecordFailure(l) \/ Reset(l) PROVE LimiterInv'
  <2>1. l \in Verifying /\ Verifying' = Verifying \ {l}
    BY <1>4, <1>t DEF RecordFailure, Reset, Verifying
  <2>2. Cardinality(Verifying') = Cardinality(Verifying) - 1
    BY <1>v, <2>1, FS_RemoveElement
  <2>3. InOrder(failures') /\ Len(failures') <= Len(failures) + 1 /\ Len(failures') \in Nat
    <3>1. CASE RecordFailure(l)
      <4>1. failures' = Append(Recent(failures), 0)
        BY <3>1 DEF RecordFailure
      <4>2. \A i \in 1..Len(Recent(failures)) : Recent(failures)[i] >= 0
        BY <1>r, LenProperties, LimiterAssumption
      <4>3. /\ failures' \in Seq(0..Window) /\ Len(failures') = Len(Recent(failures)) + 1
            /\ \A i \in 1..Len(Recent(failures)) : failures'[i] = Recent(failures)[i]
            /\ failures'[Len(Recent(failures)) + 1] = 0
        BY <1>r, <4>1, LimiterAssumption, AppendProperties
      <4>4. DOMAIN failures' = 1..Len(failures') /\ DOMAIN Recent(failures) = 1..Len(Recent(failures))
        BY <1>r, <4>3, LenProperties
      <4>5. ASSUME NEW i \in 1..Len(failures'), NEW j \in 1..Len(failures'), i <= j
            PROVE  failures'[i] >= failures'[j]
        BY <1>r, <4>2, <4>3, <4>4, <4>5 DEF InOrder
      <4> QED  BY <1>r, <4>3, <4>4, <4>5 DEF InOrder
    <3>2. CASE Reset(l)
      BY <1>r, <3>2 DEF Reset, InOrder
    <3> QED  BY <1>4, <3>1, <3>2
  <2>4. Len(failures') + Cardinality(Verifying') <= n
    BY <1>h, <1>i, <1>r, <1>v, <2>2, <2>3
  <2> QED  BY <2>3, <2>4 DEF LimiterInv, InOrder, HighestLimit
<1>5. CASE Tick
  <2>1. InOrder(failures') /\ Len(failures') = Len(failures)
    BY <1>5, <1>i, <1>t, AgedType DEF Tick
  <2>2. Verifying' = Verifying
    BY <1>5 DEF Tick, Verifying
  <2> QED  BY <1>i, <2>1, <2>2 DEF LimiterInv, InOrder, HighestLimit
<1> QED  BY <1>1, <1>2, <1>3, <1>4, <1>5 DEF Next, vars

\* The window lets go of no failure that is in it.
LEMMA PrunedRemembers ==
    ASSUME LimiterTypeOK, LimiterInv, Remembered
    PROVE  LET kept == Recent(failures)
           IN  /\ kept \in Seq(0..Window) /\ Len(failed) <= Len(kept)
               /\ \A i \in 1..Len(failed) : failed[i] = kept[Len(kept) - Len(failed) + i]
<1> DEFINE k == Cardinality(Old(failures))
           kept == Recent(failures)
           n == Len(failures)
           m == Len(failed)
<1>1. failures \in Seq(0..Window) /\ failed \in Seq(0..Window)
  BY DEF LimiterTypeOK
<1>2. /\ n \in Nat /\ m \in Nat /\ m <= n
      /\ \A i \in 1..m : failed[i] = failures[n - m + i] /\ failed[i] < Window
  BY <1>1, LenProperties DEF Remembered
<1>3. /\ k \in 0..n /\ kept \in Seq(0..Window) /\ Len(kept) = n - k
      /\ \A i \in 1..Len(kept) : kept[i] = failures[k + i]
  BY <1>1, RecentType
<1>4. \A i \in 1..n : failures[i] < Window <=> i > k
  BY <1>1, RecentIsWhatIsRecent DEF LimiterInv
<1> HIDE DEF k, kept, n, m
<1>5. m <= n - k
  <2>1. CASE m = 0
    BY <1>3, <2>1
  <2>2. CASE m # 0
    <3>1. 1 \in 1..m /\ n - m + 1 \in 1..n
      BY <1>2, <2>2
    <3>2. n - m + 1 > k
      BY <1>2, <1>4, <3>1
    <3> QED  BY <1>2, <1>3, <3>2
  <2> QED  BY <2>1, <2>2
<1>6. ASSUME NEW i \in 1..m PROVE failed[i] = kept[Len(kept) - m + i]
  <2>1. Len(kept) - m + i \in 1..Len(kept) /\ k + (Len(kept) - m + i) = n - m + i
    BY <1>2, <1>3, <1>5, <1>6
  <2>2. kept[Len(kept) - m + i] = failures[n - m + i]
    BY <1>3, <2>1
  <2> QED  BY <1>2, <1>6, <2>2
<1> QED  BY <1>3, <1>5, <1>6 DEF kept, m

LEMMA RememberedStep ==
    LimiterTypeOK /\ LimiterInv /\ Remembered /\ [Next]_vars => Remembered'
<1> SUFFICES ASSUME LimiterTypeOK, LimiterInv, Remembered, [Next]_vars PROVE Remembered'
  OBVIOUS
<1>t. failures \in Seq(0..Window) /\ failed \in Seq(0..Window)
  BY DEF LimiterTypeOK
<1>n. Len(failures) \in Nat /\ Len(failed) \in Nat
  BY <1>t, LenProperties
<1>k. /\ Recent(failures) \in Seq(0..Window) /\ Len(Recent(failures)) \in Nat
      /\ Len(failed) <= Len(Recent(failures))
      /\ \A i \in 1..Len(failed) :
            failed[i] = Recent(failures)[Len(Recent(failures)) - Len(failed) + i]
  BY PrunedRemembers, LenProperties
<1>1. CASE UNCHANGED limiterVars
  BY <1>1 DEF limiterVars, Remembered
<1>2. ASSUME NEW l \in Logins, Allow(l) \/ Deny(l) PROVE Remembered'
  <2>1. failures' = Recent(failures) /\ failed' = failed
    BY <1>2 DEF Allow, Deny
  <2> QED  BY <1>k, <2>1 DEF Remembered
<1>3. ASSUME NEW l \in Logins, RecordFailure(l) PROVE Remembered'
  <2> DEFINE kept == Recent(failures)
  <2>1. failures' = Append(kept, 0) /\ failed' = Append(failed, 0)
    BY <1>3 DEF RecordFailure
  <2>2. /\ Len(failures') = Len(kept) + 1 /\ Len(failed') = Len(failed) + 1
        /\ \A i \in 1..Len(kept) : failures'[i] = kept[i]
        /\ failures'[Len(kept) + 1] = 0
        /\ \A i \in 1..Len(failed) : failed'[i] = failed[i]
        /\ failed'[Len(failed) + 1] = 0
    BY <1>k, <1>t, <2>1, LimiterAssumption, AppendProperties
  <2> HIDE DEF kept
  <2>k. /\ Len(kept) \in Nat /\ Len(failed) <= Len(kept)
        /\ \A i \in 1..Len(failed) : failed[i] = kept[Len(kept) - Len(failed) + i]
    BY <1>k DEF kept
  <2>3. ASSUME NEW i \in 1..Len(failed')
        PROVE  failed'[i] = failures'[Len(failures') - Len(failed') + i] /\ failed'[i] < Window
    <3>1. CASE i = Len(failed) + 1
      BY <1>n, <2>2, <2>k, <3>1, LimiterAssumption
    <3>2. CASE i \in 1..Len(failed)
      <4>1. /\ Len(kept) - Len(failed) + i \in 1..Len(kept)
            /\ Len(failures') - Len(failed') + i = Len(kept) - Len(failed) + i
        BY <1>n, <2>2, <2>k, <3>2
      <4>2. failures'[Len(kept) - Len(failed) + i] = kept[Len(kept) - Len(failed) + i]
        BY <2>2, <4>1
      <4>3. failed'[i] = failed[i] /\ failed[i] = kept[Len(kept) - Len(failed) + i]
        BY <2>2, <2>k, <3>2
      <4>4. failed[i] < Window
        BY <3>2 DEF Remembered
      <4> QED  BY <4>1, <4>2, <4>3, <4>4
    <3> QED  BY <1>n, <2>2, <2>3, <3>1, <3>2
  <2>4. Len(failed') <= Len(failures')
    BY <1>n, <2>2, <2>k
  <2> QED  BY <2>3, <2>4 DEF Remembered
<1>4. ASSUME NEW l \in Logins, Reset(l) PROVE Remembered'
  <2>1. failures' = <<>> /\ failed' = <<>>
    BY <1>4 DEF Reset
  <2> QED  BY <2>1 DEF Remembered
<1>5. CASE Tick
  <2> DEFINE older == Aged(failed)
             k == Cardinality(Old(older))
             n == Len(failures)
             m == Len(failed)
  <2>1. failures' = Aged(failures) /\ failed' = Recent(older)
    BY <1>5 DEF Tick
  <2>2. /\ m <= n /\ n \in Nat /\ m \in Nat
        /\ \A i \in 1..m : failed[i] = failures[n - m + i] /\ failed[i] < Window
    BY <1>n DEF Remembered
  <2>3. InOrder(failed)
    <3>1. DOMAIN failed = 1..m /\ DOMAIN failures = 1..n
      BY <1>t, LenProperties
    <3>2. ASSUME NEW i \in 1..m, NEW j \in 1..m, i <= j PROVE failed[i] >= failed[j]
      <4>1. n - m + i \in 1..n /\ n - m + j \in 1..n /\ n - m + i <= n - m + j
        BY <2>2, <3>2
      <4>2. failures[n - m + i] >= failures[n - m + j]
        BY <3>1, <4>1 DEF LimiterInv, InOrder
      <4> QED  BY <2>2, <3>2, <4>2
    <3> QED  BY <3>1, <3>2 DEF InOrder
  <2>4. /\ older \in Seq(0..Window) /\ Len(older) = m /\ InOrder(older)
        /\ \A i \in 1..m : older[i] = failed[i] + 1
    BY <1>t, <2>2, <2>3, AgedType
  <2>5. /\ Len(failures') = n
        /\ \A i \in 1..n : failures[i] < Window => failures'[i] = failures[i] + 1
    BY <1>t, <2>1, AgedType
  <2>6. /\ k \in 0..m /\ Len(failed') = m - k
        /\ \A i \in 1..(m - k) : failed'[i] = older[k + i]
    BY <2>1, <2>4, RecentType
  <2>7. \A i \in 1..m : older[i] < Window <=> i > k
    BY <2>4, RecentIsWhatIsRecent
  <2> HIDE DEF older, k, n, m
  <2>8. ASSUME NEW i \in 1..Len(failed')
        PROVE  failed'[i] = failures'[Len(failures') - Len(failed') + i] /\ failed'[i] < Window
    <3>1. /\ k + i \in 1..m /\ k + i > k /\ n - m + (k + i) \in 1..n
          /\ Len(failures') - Len(failed') + i = n - m + (k + i)
      BY <2>2, <2>5, <2>6, <2>8
    <3>2. failed'[i] = older[k + i] /\ older[k + i] < Window
      BY <2>6, <2>7, <2>8, <3>1
    <3>3. failed[k + i] = failures[n - m + (k + i)] /\ failed[k + i] < Window
      BY <2>2, <3>1
    <3>4. failures'[n - m + (k + i)] = failed[k + i] + 1
      BY <2>5, <3>1, <3>3
    <3>5. older[k + i] = failed[k + i] + 1
      BY <2>4, <3>1
    <3> QED  BY <3>1, <3>2, <3>4, <3>5
  <2>9. Len(failed') <= Len(failures')
    BY <2>2, <2>5, <2>6
  <2> QED  BY <2>8, <2>9 DEF Remembered
<1> QED  BY <1>1, <1>2, <1>3, <1>4, <1>5 DEF Next, vars

\* The types of the limiter and of the settings it reads.
THEOREM LimiterTypeCorrect == Spec => []LimiterTypeOK
<1>1. Init => LimiterTypeOK
  BY SettingsTypeInit DEF Init, LimiterTypeOK
<1> QED  BY <1>1, LimiterTypeStep, PTL DEF Spec

\* Between two right passwords no more logins with a key fail within a window than
\* the highest limit and the others that were under way at once
\* (internal/auth/ratelimit.go:49).
THEOREM LimiterKeepsItsBound == Spec => []AttemptsAreBounded
<1>1. Init => LimiterInv /\ Remembered
  <2> SUFFICES ASSUME Init PROVE LimiterInv /\ Remembered
    OBVIOUS
  <2>1. Verifying = {}
    BY DEF Init, Verifying
  <2>2. Cardinality(Verifying) = 0 /\ Cardinality(Logins) \in Nat
    BY <2>1, LimiterAssumption, FS_EmptySet, FS_CardinalityType
  <2>3. HighestLimit \in Nat \ {0}
    BY SettingsAssumption, LimiterAssumption DEF HighestLimit
  <2> QED  BY <2>2, <2>3 DEF Init, LimiterInv, Remembered, InOrder
<1>2. LimiterTypeOK /\ LimiterInv /\ Remembered /\ [Next]_vars
        => LimiterInv' /\ Remembered'
  BY LimiterStep, RememberedStep
<1>3. LimiterTypeOK /\ LimiterInv /\ Remembered => AttemptsAreBounded
  <2> SUFFICES ASSUME LimiterTypeOK, LimiterInv, Remembered PROVE AttemptsAreBounded
    OBVIOUS
  <2>1. Cardinality(Verifying) \in Nat /\ Cardinality(Logins) \in Nat
        /\ Len(failures) \in Nat /\ Len(failed) \in Nat
    BY VerifyingFacts, LenProperties DEF LimiterTypeOK
  <2>2. HighestLimit \in Nat
    BY SettingsAssumption, LimiterAssumption DEF HighestLimit
  <2> QED  BY <2>1, <2>2 DEF LimiterInv, Remembered, AttemptsAreBounded
<1> QED  BY <1>1, <1>2, <1>3, LimiterTypeCorrect, PTL DEF Spec

=============================================================================

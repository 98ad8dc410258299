CONSTANTS
    f1 = f1
    f2 = f2
    u1 = u1
    l1 = l1
    l2 = l2
    textA = textA
    textB = textB
    Forms = {f1, f2}
    Users = {u1}
    Texts = {textA, textB}
    FirstText = textA
    MaxVersion = 2
    MaxAttempts = 2
    FirstAttempts = 1
    Logins = {l1, l2}
    Window = 2
    FallbackAttempts = 1
SPECIFICATION Spec
SYMMETRY Alike
INVARIANTS
    LimiterTypeOK
    ConsentIsInformed
    AttemptsAreBounded
PROPERTIES
    FormsDoWhatTheyEdit

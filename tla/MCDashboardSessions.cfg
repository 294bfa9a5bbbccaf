SPECIFICATION Spec
CONSTANTS
    Requests = {r1, r2, r3}
    Logins = {l1}
    Sessions = {s1}
    None = None
    RotatesTokens = TRUE
    KeycloakMayFail = TRUE
    MayRestart = TRUE
    MaxRefreshes = 2
SYMMETRY Symmetry
INVARIANTS
    TypeOK
    CodeSentOnce
    BuriedIsNotServed
    NoSupersededToken

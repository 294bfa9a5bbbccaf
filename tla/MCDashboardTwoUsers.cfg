SPECIFICATION Spec
CONSTANTS
    Requests = {r1, r2}
    Logins = {l1, l2}
    Sessions = {s1, s2}
    None = None
    RotatesTokens = FALSE
    KeycloakMayFail = FALSE
    MayRestart = FALSE
    MaxRefreshes = 1
PROPERTIES
    SessionsSurvive
    RequestsEnd

-------------------------- MODULE DashboardSessions --------------------------
(* Logins and sessions of the EDC dashboard proxy in oidc-bff mode            *)
(* (adapters/edc/build/dashboard-proxy/server.py).                            *)
(*                                                                            *)
(* ThreadingHTTPServer gives every request a thread.  The threads share the   *)
(* login requests and the sessions, in two dictionaries in memory, each with  *)
(* a lock that is held for one access only, never while Keycloak is asked.    *)
(* One action is one such access, or one answer of Keycloak.                  *)
EXTENDS Naturals, FiniteSets

CONSTANTS
    Requests,        \* requests going on at the same time, one thread each
    Logins,          \* values of the state parameter (secrets.token_urlsafe)
    Sessions,        \* session ids (secrets.token_urlsafe)
    None,            \* no cookie, no state parameter
    RotatesTokens,   \* does Keycloak revoke a refresh token once it is used?
    KeycloakMayFail, \* may a call of the token endpoint fail or time out?
    MayRestart,      \* may the proxy restart?
    MaxRefreshes     \* bound: refresh tokens that Keycloak issues for a session

ASSUME SwitchesAssumption ==
    RotatesTokens \in BOOLEAN /\ KeycloakMayFail \in BOOLEAN /\ MayRestart \in BOOLEAN
ASSUME BoundAssumption == MaxRefreshes \in Nat
ASSUME NoneAssumption == None \notin Sessions /\ None \notin Logins

\* "use" is whatever needs a session: proxied calls, /auth/me, /auth/require.
Kinds == {"login", "callback", "use", "logout"}

VARIABLES
    pc,        \* where each request's thread is
    kind,      \* what each request asks for
    cookie,    \* the session cookie each request brought
    login,     \* the state parameter each callback brought
    got,       \* the refresh token each thread read from the entry or got for it
    answer,    \* what each request was answered
    logins,    \* auth_requests: the entry of each state
    sessions,  \* sessions: is there an entry of each id, and is its token fresh
    token,     \* the refresh token in each session's entry
    issued,    \* Keycloak: the latest refresh token of each session
    ended,     \* Keycloak: sessions whose single sign-on is over
    exchanges, \* history: how often each login's code was sent to Keycloak
    used,      \* history: session ids that were given out
    closed,    \* history: session ids that a logout deleted
    buried,    \* history: session ids that a logout deleted while none refreshed them
    barred     \* history: requests that came with a buried session's cookie

keycloak == <<issued, ended>>
history == <<exchanges, used, closed, buried, barred>>
vars == <<pc, kind, cookie, login, got, answer, logins, sessions, token, issued, ended,
          exchanges, used, closed, buried, barred>>

Init ==
    /\ pc = [r \in Requests |-> "idle"]
    /\ kind = [r \in Requests |-> "login"]
    /\ cookie = [r \in Requests |-> None]
    /\ login = [r \in Requests |-> None]
    /\ got = [r \in Requests |-> 0]
    /\ answer = [r \in Requests |-> "none"]
    /\ logins = [l \in Logins |-> "unknown"]
    /\ sessions = [s \in Sessions |-> "absent"]
    /\ token = [s \in Sessions |-> 0]
    /\ issued = [s \in Sessions |-> 0]
    /\ ended = {}
    /\ exchanges = [l \in Logins |-> 0]
    /\ used = {} /\ closed = {} /\ buried = {} /\ barred = {}

Goto(r, point) == pc' = [pc EXCEPT ![r] = point]
Reply(r, what) == Goto(r, "done") /\ answer' = [answer EXCEPT ![r] = what]

\* What oidc_session returned decides the answer, except for a logout, which
\* takes the id_token along if there is one and goes on.
Return(r, found) ==
    IF kind[r] = "logout" THEN Goto(r, "deleting") /\ UNCHANGED answer
    ELSE Reply(r, IF found THEN "served" ELSE "unauthorized")

\* Threads that hold a session's refresh token, or tokens got with it.
Refreshers(s) == {r \in Requests : cookie[r] = s /\ pc[r] \in {"refreshing", "storing"}}

(***************************************************************************)
(* Faulty variants of the actions below, no part of Spec: each stands for  *)
(* a plausible slip that a property must notice.                           *)
(***************************************************************************)
\* The entry is looked up under the lock, but not removed.
ConsumeAuthRequestPeeks(r) ==
    /\ pc[r] = "consuming"
    /\ IF logins[login[r]] = "pending"
       THEN Goto(r, "exchanging") /\ UNCHANGED answer
       ELSE Reply(r, "error")
    /\ UNCHANGED <<kind, cookie, login, got, logins, sessions, token, keycloak, history>>

\* The logout clears the cookie only.
DeleteSessionForgotten(r) ==
    /\ pc[r] = "deleting"
    /\ closed' = closed \cup ({cookie[r]} \ {None})
    /\ buried' = buried \cup {s \in Sessions : s = cookie[r] /\ Refreshers(s) = {}}
    /\ Reply(r, "redirected")
    /\ UNCHANGED <<kind, cookie, login, got, logins, sessions, token, keycloak,
                   exchanges, used, barred>>

\* The new access token is stored with the old refresh token.
StoreSessionKeepsToken(r) ==
    /\ pc[r] = "storing"
    /\ sessions' = [sessions EXCEPT ![cookie[r]] = "fresh"]
    /\ Return(r, TRUE)
    /\ UNCHANGED <<kind, cookie, login, got, logins, token, keycloak, history>>

\* An expired session is dropped instead of refreshed.
LookUpDropsStale(r) ==
    /\ pc[r] = "looking"
    /\ LET fresh == cookie[r] # None /\ sessions[cookie[r]] = "fresh" IN
       /\ Return(r, fresh)
       /\ sessions' = [s \in Sessions |-> IF s = cookie[r] /\ ~fresh THEN "absent" ELSE sessions[s]]
    /\ UNCHANGED <<kind, cookie, login, got, logins, token, keycloak, history>>

\* delete_session is called under the sessions lock, which is not reentrant.
DropSessionUnderLock(r) ==
    /\ pc[r] = "dropping" /\ sessions[cookie[r]] = "absent"
    /\ Return(r, FALSE)
    /\ UNCHANGED <<kind, cookie, login, got, logins, sessions, token, keycloak, history>>

\* The lookup's copy of the entry is used; nobody asks whether it is still there.
ReadRefreshTokenOfCopy(r) ==
    /\ pc[r] = "rereading"
    /\ Goto(r, "refreshing")
    /\ got' = [got EXCEPT ![r] = token[cookie[r]]]
    /\ UNCHANGED <<kind, cookie, login, answer, logins, sessions, token, keycloak, history>>

\* The entry is kept and marked.
DropSessionMarks(r) ==
    /\ pc[r] = "dropping"
    /\ sessions' = [sessions EXCEPT ![cookie[r]] = "revoked"]
    /\ Return(r, FALSE)
    /\ UNCHANGED <<kind, cookie, login, got, logins, token, keycloak, history>>

-----------------------------------------------------------------------------
\* A browser sends a cookie it was once given or none, and a state parameter that
\* it was once redirected with, both possibly old and possibly again.
Arrive(r) ==
    /\ pc[r] \in {"idle", "done", "lost"}
    /\ answer' = [answer EXCEPT ![r] = "none"]
    /\ got' = [got EXCEPT ![r] = 0]
    /\ \/ /\ Cardinality({l \in Logins : logins[l] = "unknown"})
                > Cardinality({q \in Requests : pc[q] = "creating"})
          /\ kind' = [kind EXCEPT ![r] = "login"] /\ Goto(r, "creating")
          /\ cookie' = [cookie EXCEPT ![r] = None]
          /\ login' = [login EXCEPT ![r] = None]
          /\ barred' = barred \ {r}
       \/ /\ \E l \in Logins : logins[l] # "unknown" /\ login' = [login EXCEPT ![r] = l]
          /\ kind' = [kind EXCEPT ![r] = "callback"] /\ Goto(r, "consuming")
          /\ cookie' = [cookie EXCEPT ![r] = None]
          /\ barred' = barred \ {r}
       \/ \E k \in {"use", "logout"}, c \in used \cup {None} :
             /\ kind' = [kind EXCEPT ![r] = k] /\ Goto(r, "looking")
             /\ cookie' = [cookie EXCEPT ![r] = c]
             /\ login' = [login EXCEPT ![r] = None]
             /\ barred' = IF c \in buried THEN barred \cup {r} ELSE barred \ {r}
    /\ UNCHANGED <<logins, sessions, token, keycloak, exchanges, used, closed, buried>>

-----------------------------------------------------------------------------
(* Login and callback.                                                      *)
CreateAuthRequest(r) ==
    /\ pc[r] = "creating"
    /\ \E l \in Logins : logins[l] = "unknown" /\ logins' = [logins EXCEPT ![l] = "pending"]
    /\ Reply(r, "redirected")
    /\ UNCHANGED <<kind, cookie, login, got, sessions, token, keycloak, history>>

\* pop under the lock, then a look at the entry's age.
ConsumeAuthRequest(r) ==
    /\ pc[r] = "consuming"
    /\ logins' = [logins EXCEPT ![login[r]] = "gone"]
    /\ IF logins[login[r]] = "pending"
       THEN Goto(r, "exchanging") /\ UNCHANGED answer
       ELSE Reply(r, "error")
    /\ UNCHANGED <<kind, cookie, login, got, sessions, token, keycloak, history>>

ExchangeAuthorizationCode(r) ==
    /\ pc[r] = "exchanging"
    /\ \/ Goto(r, "starting") /\ UNCHANGED answer
       \/ KeycloakMayFail /\ Reply(r, "error")
    /\ exchanges' = [exchanges EXCEPT ![login[r]] = IF @ = 0 THEN 1 ELSE 2]
    /\ UNCHANGED <<kind, cookie, login, got, logins, sessions, token, keycloak,
                   used, closed, buried, barred>>

CreateOidcSession(r) ==
    /\ pc[r] = "starting"
    /\ \E s \in Sessions \ used :
          sessions' = [sessions EXCEPT ![s] = "fresh"] /\ used' = used \cup {s}
    /\ Reply(r, "redirected")
    /\ UNCHANGED <<kind, cookie, login, got, logins, token, keycloak, exchanges,
                   closed, buried, barred>>

-----------------------------------------------------------------------------
(* oidc_session and refresh_oidc_session.                                   *)
LookUp(r) ==
    /\ pc[r] = "looking"
    /\ IF cookie[r] = None \/ sessions[cookie[r]] = "absent" THEN Return(r, FALSE)
       ELSE IF sessions[cookie[r]] = "fresh" THEN Return(r, TRUE)
       ELSE Goto(r, "rereading") /\ UNCHANGED answer
    /\ UNCHANGED <<kind, cookie, login, got, logins, sessions, token, keycloak, history>>

\* refresh_oidc_session looks the entry up again, and asks no more whether it is fresh.
ReadRefreshToken(r) ==
    /\ pc[r] = "rereading"
    /\ IF sessions[cookie[r]] = "absent"
       THEN Return(r, FALSE) /\ UNCHANGED got
       ELSE /\ Goto(r, "refreshing")
            /\ got' = [got EXCEPT ![r] = token[cookie[r]]]
            /\ UNCHANGED answer
    /\ UNCHANGED <<kind, cookie, login, logins, sessions, token, keycloak, history>>

\* Keycloak takes the refresh token, and may then rotate it, or refuses it; an
\* answer that does not arrive is a failure whatever Keycloak has done.
RefreshToken(r) ==
    LET s == cookie[r]
        accepted == s \notin ended /\ (RotatesTokens => got[r] = issued[s])
        latest == IF accepted /\ RotatesTokens THEN issued[s] + 1 ELSE issued[s]
    IN /\ pc[r] = "refreshing"
       /\ \/ accepted /\ Goto(r, "storing") /\ got' = [got EXCEPT ![r] = latest]
          \/ (~accepted \/ KeycloakMayFail) /\ Goto(r, "dropping") /\ UNCHANGED got
       /\ issued' = [issued EXCEPT ![s] = latest]
       /\ UNCHANGED <<kind, cookie, login, answer, logins, sessions, token, ended, history>>

\* _store_session writes the entry whether or not it is still there.
StoreSession(r) ==
    /\ pc[r] = "storing"
    /\ sessions' = [sessions EXCEPT ![cookie[r]] = "fresh"]
    /\ token' = [token EXCEPT ![cookie[r]] = got[r]]
    /\ Return(r, TRUE)
    /\ UNCHANGED <<kind, cookie, login, got, logins, keycloak, history>>

\* delete_session removes the entry whatever it is by now.
DropSession(r) ==
    /\ pc[r] = "dropping"
    /\ sessions' = [sessions EXCEPT ![cookie[r]] = "absent"]
    /\ Return(r, FALSE)
    /\ UNCHANGED <<kind, cookie, login, got, logins, token, keycloak, history>>

\* The end of a logout; the redirect then ends the single sign-on (EndSingleSignOn).
DeleteSession(r) ==
    /\ pc[r] = "deleting"
    /\ sessions' = [s \in Sessions |-> IF s = cookie[r] THEN "absent" ELSE sessions[s]]
    /\ closed' = closed \cup ({cookie[r]} \ {None})
    /\ buried' = buried \cup {s \in Sessions : s = cookie[r] /\ Refreshers(s) = {}}
    /\ Reply(r, "redirected")
    /\ UNCHANGED <<kind, cookie, login, got, logins, token, keycloak, exchanges, used, barred>>

RequestStep(r) ==
    \/ CreateAuthRequest(r) \/ ConsumeAuthRequest(r) \/ ExchangeAuthorizationCode(r)
    \/ CreateOidcSession(r) \/ LookUp(r) \/ ReadRefreshToken(r) \/ RefreshToken(r)
    \/ StoreSession(r) \/ DropSession(r) \/ DeleteSession(r)

-----------------------------------------------------------------------------
(* Time, Keycloak and crashes.                                              *)

\* authRequestTtlSeconds pass.
ExpireLogin(l) ==
    /\ logins[l] = "pending"
    /\ logins' = [logins EXCEPT ![l] = "expired"]
    /\ UNCHANGED <<pc, kind, cookie, login, got, answer, sessions, token, keycloak, history>>

\* A session's access token has 30 s left.
ExpireSession(s) ==
    /\ sessions[s] = "fresh"
    /\ RotatesTokens => issued[s] < MaxRefreshes
    /\ sessions' = [sessions EXCEPT ![s] = "expired"]
    /\ UNCHANGED <<pc, kind, cookie, login, got, answer, logins, token, keycloak, history>>

EndSingleSignOn(s) ==
    /\ s \in used \ ended
    /\ ended' = ended \cup {s}
    /\ UNCHANGED <<pc, kind, cookie, login, got, answer, logins, sessions, token, issued, history>>

\* Everything is in memory.
Restart ==
    /\ MayRestart
    /\ pc' = [r \in Requests |-> IF pc[r] \in {"idle", "done"} THEN pc[r] ELSE "lost"]
    /\ logins' = [l \in Logins |-> IF logins[l] = "unknown" THEN "unknown" ELSE "gone"]
    /\ sessions' = [s \in Sessions |-> "absent"]
    /\ UNCHANGED <<kind, cookie, login, got, answer, token, keycloak, history>>

Next ==
    \/ \E r \in Requests : Arrive(r) \/ RequestStep(r)
    \/ \E l \in Logins : ExpireLogin(l)
    \/ \E s \in Sessions : ExpireSession(s) \/ EndSingleSignOn(s)
    \/ Restart

\* Threads run, and urlopen has a timeout; browsers, time, Keycloak's sessions and
\* crashes owe us nothing.
Fairness == \A r \in Requests : WF_vars(RequestStep(r))

Spec == Init /\ [][Next]_vars /\ Fairness

-----------------------------------------------------------------------------
\* Every variable holds values of its kind.
TypeOK ==
    /\ pc \in [Requests -> {"idle", "creating", "consuming", "exchanging", "starting", "looking",
                            "rereading", "refreshing", "storing", "dropping", "deleting",
                            "done", "lost"}]
    /\ kind \in [Requests -> Kinds]
    /\ cookie \in [Requests -> Sessions \cup {None}]
    /\ login \in [Requests -> Logins \cup {None}]
    /\ got \in [Requests -> Nat]
    /\ answer \in [Requests -> {"none", "redirected", "error", "served", "unauthorized"}]
    /\ logins \in [Logins -> {"unknown", "pending", "expired", "gone"}]
    /\ sessions \in [Sessions -> {"absent", "fresh", "expired"}]
    /\ token \in [Sessions -> Nat]
    /\ issued \in [Sessions -> Nat]
    /\ ended \subseteq used
    /\ exchanges \in [Logins -> 0 .. 2]
    /\ used \subseteq Sessions
    /\ closed \subseteq used
    /\ buried \subseteq closed
    /\ barred \subseteq Requests

\* A login's code and verifier go to Keycloak at most once, however often and
\* however concurrently the browser delivers the callback.
CodeSentOnce == \A l \in Logins : exchanges[l] <= 1

\* A logout while no thread refreshes the session is final: no request that comes
\* afterwards with the old cookie is ever served.
BuriedIsNotServed == \A r \in barred : answer[r] # "served"

\* With or without rotation, no race of refreshes leaves a session with a refresh
\* token that Keycloak has superseded: its next refresh would log the user out.
NoSupersededToken ==
    \A s \in Sessions : sessions[s] # "absent" /\ (\A r \in Requests :
            cookie[r] = s => pc[r] \notin {"refreshing", "storing", "dropping"})
        => token[s] = issued[s]

\* Nothing but a logout, the end of the single sign-on or a crash takes a session
\* away, provided that Keycloak answers and lets refresh tokens be used again.
SessionsSurvive ==
    [][\A s \in Sessions :
          /\ sessions[s] # "absent" /\ sessions'[s] = "absent"
          /\ ~RotatesTokens /\ ~KeycloakMayFail /\ ~MayRestart
          => s \in ended \/ s \in closed']_vars

\* Every request that comes in is answered, or lost in a crash.
RequestsEnd == \A r \in Requests : pc[r] # "idle" ~> pc[r] \in {"done", "lost"}
=============================================================================

----------------------- MODULE DashboardProxy_proofs -----------------------
(* What the dashboard proxy promises for any number of threads: its logins   *)
(* and sessions (DashboardSessions), and below the cache of its service      *)
(* account's token (DashboardTokens).  They share no state.                  *)
EXTENDS DashboardSessions, DashboardTokens, TLAPS

\* What a thread at each point holds.
ThreadsKnown ==
    \A r \in Requests :
        /\ cookie[r] \in used \cup {None}
        /\ pc[r] \in {"consuming", "exchanging"} => login[r] \in Logins
        /\ pc[r] \in {"rereading", "refreshing", "storing", "dropping"} => cookie[r] \in used

\* A login that some thread exchanges is taken out of the dictionary, and each is
\* exchanged by one thread, once.
LoginsSpent ==
    /\ \A r \in Requests : pc[r] = "exchanging" =>
          /\ logins[login[r]] \in {"expired", "gone"}
          /\ exchanges[login[r]] = 0
          /\ \A q \in Requests : pc[q] = "exchanging" /\ login[q] = login[r] => q = r
    /\ \A l \in Logins :
          /\ exchanges[l] <= 1
          /\ logins[l] \in {"unknown", "pending"} => exchanges[l] = 0

\* A buried session is gone and nobody holds what could bring it back.
BuriedDead ==
    \A s \in buried : sessions[s] = "absent" /\ Refreshers(s) = {}

\* Where a barred request can be.
BarredOut ==
    \A r \in barred :
        /\ cookie[r] \in buried
        /\ pc[r] \in {"looking", "deleting", "done", "lost"}
        /\ answer[r] # "served"

\* Without failures and rotation, only a session that is over is dropped.
DropsJustified ==
    ~RotatesTokens /\ ~KeycloakMayFail => \A r \in Requests : pc[r] = "dropping" => cookie[r] \in ended

\* Refresh tokens grow; nobody but the one thread that is about to store it, or the
\* entry, holds the latest; without rotation there is only one.
TokensKnown ==
    /\ ~RotatesTokens => \A s \in Sessions : issued[s] = 0
    /\ \A s \in Sessions : token[s] <= issued[s] /\ (s \notin used => issued[s] = 0)
    /\ \A r \in Requests : pc[r] \in {"refreshing", "storing"} => got[r] <= issued[cookie[r]]
    /\ \A r \in Requests : pc[r] = "storing" =>
          /\ got[r] = issued[cookie[r]]
          /\ RotatesTokens =>
                /\ token[cookie[r]] < issued[cookie[r]]
                /\ \A q \in Requests : cookie[q] = cookie[r] =>
                      /\ pc[q] = "storing" => q = r
                      /\ pc[q] = "refreshing" => got[q] < issued[cookie[r]]

\* An entry lags behind Keycloak only while the thread that caused it goes on.
EntriesCatchUp ==
    \A s \in Sessions : sessions[s] # "absent" /\ token[s] # issued[s] =>
        \E r \in Requests : cookie[r] = s /\ pc[r] \in {"storing", "dropping"}

IInv ==
    /\ TypeOK
    /\ ThreadsKnown
    /\ LoginsSpent
    /\ BuriedDead
    /\ BarredOut
    /\ DropsJustified
    /\ TokensKnown
    /\ EntriesCatchUp

LEMMA InitIInv == Init => IInv
  <1> SUFFICES ASSUME Init PROVE IInv
    OBVIOUS
  <1> QED BY NoneAssumption DEF Init, IInv, TypeOK, ThreadsKnown, LoginsSpent, BuriedDead,
          BarredOut, DropsJustified, TokensKnown, EntriesCatchUp, Kinds, Refreshers

LEMMA NextIInv == IInv /\ [Next]_vars => IInv'
  <1> SUFFICES ASSUME IInv, [Next]_vars PROVE IInv'
    OBVIOUS
  <1>1. ASSUME NEW r \in Requests, Arrive(r) PROVE IInv'
    <2>1. TypeOK'
      BY <1>1
      DEF IInv, TypeOK, Kinds, ThreadsKnown, Arrive, Goto, Reply, keycloak, history
    <2>2. ThreadsKnown'
      BY <1>1
      DEF IInv, TypeOK, ThreadsKnown, Arrive, Goto, Reply, keycloak, history
    <2>3. LoginsSpent'
      BY <1>1
      DEF IInv, TypeOK, LoginsSpent, ThreadsKnown, Arrive, Goto, Reply, keycloak, history
    <2>4. BuriedDead'
      BY <1>1
      DEF IInv, TypeOK, BuriedDead, ThreadsKnown, Refreshers, Arrive, Goto, Reply, keycloak, history
    <2>5. BarredOut'
      BY <1>1
      DEF IInv, TypeOK, BarredOut, ThreadsKnown, BuriedDead, Arrive, Goto, Reply, keycloak, history
    <2>6. DropsJustified'
      BY <1>1
      DEF IInv, TypeOK, DropsJustified, ThreadsKnown, Arrive, Goto, Reply, keycloak, history
    <2>7. TokensKnown'
      BY <1>1
      DEF IInv, TypeOK, TokensKnown, ThreadsKnown, Arrive, Goto, Reply, keycloak, history
    <2>8. EntriesCatchUp'
      BY <1>1
      DEF IInv, TypeOK, EntriesCatchUp, ThreadsKnown, TokensKnown, Arrive, Goto, Reply, keycloak, history
    <2> QED BY <2>1, <2>2, <2>3, <2>4, <2>5, <2>6, <2>7, <2>8 DEF IInv
  <1>2. ASSUME NEW r \in Requests, CreateAuthRequest(r) PROVE IInv'
    <2>1. TypeOK'
      BY <1>2
      DEF IInv, TypeOK, ThreadsKnown, CreateAuthRequest, Goto, Reply, keycloak, history
    <2>2. ThreadsKnown'
      BY <1>2
      DEF IInv, TypeOK, ThreadsKnown, CreateAuthRequest, Goto, Reply, keycloak, history
    <2>3. LoginsSpent'
      BY <1>2
      DEF IInv, TypeOK, LoginsSpent, ThreadsKnown, CreateAuthRequest, Goto, Reply, keycloak, history
    <2>4. BuriedDead'
      BY <1>2
      DEF IInv, TypeOK, BuriedDead, ThreadsKnown, Refreshers, CreateAuthRequest, Goto, Reply, keycloak, history
    <2>5. BarredOut'
      BY <1>2
      DEF IInv, TypeOK, BarredOut, ThreadsKnown, BuriedDead, CreateAuthRequest, Goto, Reply, keycloak, history
    <2>6. DropsJustified'
      BY <1>2
      DEF IInv, TypeOK, DropsJustified, ThreadsKnown, CreateAuthRequest, Goto, Reply, keycloak, history
    <2>7. TokensKnown'
      BY <1>2
      DEF IInv, TypeOK, TokensKnown, ThreadsKnown, CreateAuthRequest, Goto, Reply, keycloak, history
    <2>8. EntriesCatchUp'
      BY <1>2
      DEF IInv, TypeOK, EntriesCatchUp, ThreadsKnown, TokensKnown, CreateAuthRequest, Goto, Reply, keycloak, history
    <2> QED BY <2>1, <2>2, <2>3, <2>4, <2>5, <2>6, <2>7, <2>8 DEF IInv
  <1>3. ASSUME NEW r \in Requests, ConsumeAuthRequest(r) PROVE IInv'
    <2>1. TypeOK'
      BY <1>3
      DEF IInv, TypeOK, ThreadsKnown, ConsumeAuthRequest, Goto, Reply, keycloak, history
    <2>2. ThreadsKnown'
      BY <1>3
      DEF IInv, TypeOK, ThreadsKnown, ConsumeAuthRequest, Goto, Reply, keycloak, history
    <2>3. LoginsSpent'
      BY <1>3
      DEF IInv, TypeOK, LoginsSpent, ThreadsKnown, ConsumeAuthRequest, Goto, Reply, keycloak, history
    <2>4. BuriedDead'
      BY <1>3
      DEF IInv, TypeOK, BuriedDead, ThreadsKnown, Refreshers, ConsumeAuthRequest, Goto, Reply, keycloak, history
    <2>5. BarredOut'
      BY <1>3
      DEF IInv, TypeOK, BarredOut, ThreadsKnown, BuriedDead, ConsumeAuthRequest, Goto, Reply, keycloak, history
    <2>6. DropsJustified'
      BY <1>3
      DEF IInv, TypeOK, DropsJustified, ThreadsKnown, ConsumeAuthRequest, Goto, Reply, keycloak, history
    <2>7. TokensKnown'
      BY <1>3
      DEF IInv, TypeOK, TokensKnown, ThreadsKnown, ConsumeAuthRequest, Goto, Reply, keycloak, history
    <2>8. EntriesCatchUp'
      BY <1>3
      DEF IInv, TypeOK, EntriesCatchUp, ThreadsKnown, TokensKnown, ConsumeAuthRequest, Goto, Reply, keycloak, history
    <2> QED BY <2>1, <2>2, <2>3, <2>4, <2>5, <2>6, <2>7, <2>8 DEF IInv
  <1>4. ASSUME NEW r \in Requests, ExchangeAuthorizationCode(r) PROVE IInv'
    <2>1. TypeOK'
      BY <1>4
      DEF IInv, TypeOK, ThreadsKnown, ExchangeAuthorizationCode, Goto, Reply, keycloak, history
    <2>2. ThreadsKnown'
      BY <1>4
      DEF IInv, TypeOK, ThreadsKnown, ExchangeAuthorizationCode, Goto, Reply, keycloak, history
    <2>3. LoginsSpent'
      BY <1>4
      DEF IInv, TypeOK, LoginsSpent, ThreadsKnown, ExchangeAuthorizationCode, Goto, Reply, keycloak, history
    <2>4. BuriedDead'
      BY <1>4
      DEF IInv, TypeOK, BuriedDead, ThreadsKnown, Refreshers, ExchangeAuthorizationCode, Goto, Reply, keycloak, history
    <2>5. BarredOut'
      BY <1>4
      DEF IInv, TypeOK, BarredOut, ThreadsKnown, BuriedDead, ExchangeAuthorizationCode, Goto, Reply, keycloak, history
    <2>6. DropsJustified'
      BY <1>4
      DEF IInv, TypeOK, DropsJustified, ThreadsKnown, ExchangeAuthorizationCode, Goto, Reply, keycloak, history
    <2>7. TokensKnown'
      BY <1>4
      DEF IInv, TypeOK, TokensKnown, ThreadsKnown, ExchangeAuthorizationCode, Goto, Reply, keycloak, history
    <2>8. EntriesCatchUp'
      BY <1>4
      DEF IInv, TypeOK, EntriesCatchUp, ThreadsKnown, TokensKnown, ExchangeAuthorizationCode, Goto, Reply, keycloak, history
    <2> QED BY <2>1, <2>2, <2>3, <2>4, <2>5, <2>6, <2>7, <2>8 DEF IInv
  <1>5. ASSUME NEW r \in Requests, CreateOidcSession(r) PROVE IInv'
    <2>1. TypeOK'
      BY <1>5
      DEF IInv, TypeOK, ThreadsKnown, CreateOidcSession, Goto, Reply, keycloak, history
    <2>2. ThreadsKnown'
      BY <1>5
      DEF IInv, TypeOK, ThreadsKnown, CreateOidcSession, Goto, Reply, keycloak, history
    <2>3. LoginsSpent'
      BY <1>5
      DEF IInv, TypeOK, LoginsSpent, ThreadsKnown, CreateOidcSession, Goto, Reply, keycloak, history
    <2>4. BuriedDead'
      BY <1>5
      DEF IInv, TypeOK, BuriedDead, ThreadsKnown, Refreshers, CreateOidcSession, Goto, Reply, keycloak, history
    <2>5. BarredOut'
      BY <1>5
      DEF IInv, TypeOK, BarredOut, ThreadsKnown, BuriedDead, CreateOidcSession, Goto, Reply, keycloak, history
    <2>6. DropsJustified'
      BY <1>5
      DEF IInv, TypeOK, DropsJustified, ThreadsKnown, CreateOidcSession, Goto, Reply, keycloak, history
    <2>7. TokensKnown'
      BY <1>5
      DEF IInv, TypeOK, TokensKnown, ThreadsKnown, CreateOidcSession, Goto, Reply, keycloak, history
    <2>8. EntriesCatchUp'
      BY <1>5
      DEF IInv, TypeOK, EntriesCatchUp, ThreadsKnown, TokensKnown, CreateOidcSession, Goto, Reply, keycloak, history
    <2> QED BY <2>1, <2>2, <2>3, <2>4, <2>5, <2>6, <2>7, <2>8 DEF IInv
  <1>6. ASSUME NEW r \in Requests, LookUp(r) PROVE IInv'
    <2>1. TypeOK'
      BY <1>6
      DEF IInv, TypeOK, ThreadsKnown, LookUp, Goto, Reply, Return, keycloak, history
    <2>2. ThreadsKnown'
      BY <1>6
      DEF IInv, TypeOK, ThreadsKnown, LookUp, Goto, Reply, Return, keycloak, history
    <2>3. LoginsSpent'
      BY <1>6
      DEF IInv, TypeOK, LoginsSpent, ThreadsKnown, LookUp, Goto, Reply, Return, keycloak, history
    <2>4. BuriedDead'
      BY <1>6
      DEF IInv, TypeOK, BuriedDead, ThreadsKnown, Refreshers, LookUp, Goto, Reply, Return, keycloak, history
    <2>5. BarredOut'
      BY <1>6
      DEF IInv, TypeOK, BarredOut, ThreadsKnown, BuriedDead, LookUp, Goto, Reply, Return, keycloak, history
    <2>6. DropsJustified'
      BY <1>6
      DEF IInv, TypeOK, DropsJustified, ThreadsKnown, LookUp, Goto, Reply, Return, keycloak, history
    <2>7. TokensKnown'
      BY <1>6
      DEF IInv, TypeOK, TokensKnown, ThreadsKnown, LookUp, Goto, Reply, Return, keycloak, history
    <2>8. EntriesCatchUp'
      BY <1>6
      DEF IInv, TypeOK, EntriesCatchUp, ThreadsKnown, TokensKnown, LookUp, Goto, Reply, Return, keycloak, history
    <2> QED BY <2>1, <2>2, <2>3, <2>4, <2>5, <2>6, <2>7, <2>8 DEF IInv
  <1>7. ASSUME NEW r \in Requests, ReadRefreshToken(r) PROVE IInv'
    <2>1. TypeOK'
      BY <1>7
      DEF IInv, TypeOK, ThreadsKnown, ReadRefreshToken, Goto, Reply, Return, keycloak, history
    <2>2. ThreadsKnown'
      BY <1>7
      DEF IInv, TypeOK, ThreadsKnown, ReadRefreshToken, Goto, Reply, Return, keycloak, history
    <2>3. LoginsSpent'
      BY <1>7
      DEF IInv, TypeOK, LoginsSpent, ThreadsKnown, ReadRefreshToken, Goto, Reply, Return, keycloak, history
    <2>4. BuriedDead'
      BY <1>7
      DEF IInv, TypeOK, BuriedDead, ThreadsKnown, Refreshers, ReadRefreshToken, Goto, Reply, Return, keycloak, history
    <2>5. BarredOut'
      BY <1>7
      DEF IInv, TypeOK, BarredOut, ThreadsKnown, BuriedDead, ReadRefreshToken, Goto, Reply, Return, keycloak, history
    <2>6. DropsJustified'
      BY <1>7
      DEF IInv, TypeOK, DropsJustified, ThreadsKnown, ReadRefreshToken, Goto, Reply, Return, keycloak, history
    <2>7. TokensKnown'
      BY <1>7
      DEF IInv, TypeOK, TokensKnown, ThreadsKnown, ReadRefreshToken, Goto, Reply, Return, keycloak, history
    <2>8. EntriesCatchUp'
      BY <1>7
      DEF IInv, TypeOK, EntriesCatchUp, ThreadsKnown, TokensKnown, ReadRefreshToken, Goto, Reply, Return, keycloak, history
    <2> QED BY <2>1, <2>2, <2>3, <2>4, <2>5, <2>6, <2>7, <2>8 DEF IInv
  <1>8. ASSUME NEW r \in Requests, RefreshToken(r) PROVE IInv'
    <2>1. TypeOK'
      BY <1>8
      DEF IInv, TypeOK, ThreadsKnown, RefreshToken, Goto, Reply, keycloak, history
    <2>2. ThreadsKnown'
      BY <1>8
      DEF IInv, TypeOK, ThreadsKnown, RefreshToken, Goto, Reply, keycloak, history
    <2>3. LoginsSpent'
      BY <1>8
      DEF IInv, TypeOK, LoginsSpent, ThreadsKnown, RefreshToken, Goto, Reply, keycloak, history
    <2>4. BuriedDead'
      BY <1>8
      DEF IInv, TypeOK, BuriedDead, ThreadsKnown, Refreshers, RefreshToken, Goto, Reply, keycloak, history
    <2>5. BarredOut'
      BY <1>8
      DEF IInv, TypeOK, BarredOut, ThreadsKnown, BuriedDead, RefreshToken, Goto, Reply, keycloak, history
    <2>6. DropsJustified'
      BY <1>8
      DEF IInv, TypeOK, DropsJustified, ThreadsKnown, RefreshToken, Goto, Reply, keycloak, history
    <2>7. TokensKnown'
      BY <1>8
      DEF IInv, TypeOK, TokensKnown, ThreadsKnown, RefreshToken, Goto, Reply, keycloak, history
    <2>8. EntriesCatchUp'
      BY <1>8
      DEF IInv, TypeOK, EntriesCatchUp, ThreadsKnown, TokensKnown, RefreshToken, Goto, Reply, keycloak, history
    <2> QED BY <2>1, <2>2, <2>3, <2>4, <2>5, <2>6, <2>7, <2>8 DEF IInv
  <1>9. ASSUME NEW r \in Requests, StoreSession(r) PROVE IInv'
    <2>1. TypeOK'
      BY <1>9
      DEF IInv, TypeOK, ThreadsKnown, StoreSession, Goto, Reply, Return, keycloak, history
    <2>2. ThreadsKnown'
      BY <1>9
      DEF IInv, TypeOK, ThreadsKnown, StoreSession, Goto, Reply, Return, keycloak, history
    <2>3. LoginsSpent'
      BY <1>9
      DEF IInv, TypeOK, LoginsSpent, ThreadsKnown, StoreSession, Goto, Reply, Return, keycloak, history
    <2>4. BuriedDead'
      BY <1>9
      DEF IInv, TypeOK, BuriedDead, ThreadsKnown, Refreshers, StoreSession, Goto, Reply, Return, keycloak, history
    <2>5. BarredOut'
      BY <1>9
      DEF IInv, TypeOK, BarredOut, ThreadsKnown, BuriedDead, StoreSession, Goto, Reply, Return, keycloak, history
    <2>6. DropsJustified'
      BY <1>9
      DEF IInv, TypeOK, DropsJustified, ThreadsKnown, StoreSession, Goto, Reply, Return, keycloak, history
    <2>7. TokensKnown'
      BY <1>9
      DEF IInv, TypeOK, TokensKnown, ThreadsKnown, StoreSession, Goto, Reply, Return, keycloak, history
    <2>8. EntriesCatchUp'
      BY <1>9
      DEF IInv, TypeOK, EntriesCatchUp, ThreadsKnown, TokensKnown, StoreSession, Goto, Reply, Return, keycloak, history
    <2> QED BY <2>1, <2>2, <2>3, <2>4, <2>5, <2>6, <2>7, <2>8 DEF IInv
  <1>10. ASSUME NEW r \in Requests, DropSession(r) PROVE IInv'
    <2>1. TypeOK'
      BY <1>10
      DEF IInv, TypeOK, ThreadsKnown, DropSession, Goto, Reply, Return, keycloak, history
    <2>2. ThreadsKnown'
      BY <1>10
      DEF IInv, TypeOK, ThreadsKnown, DropSession, Goto, Reply, Return, keycloak, history
    <2>3. LoginsSpent'
      BY <1>10
      DEF IInv, TypeOK, LoginsSpent, ThreadsKnown, DropSession, Goto, Reply, Return, keycloak, history
    <2>4. BuriedDead'
      BY <1>10
      DEF IInv, TypeOK, BuriedDead, ThreadsKnown, Refreshers, DropSession, Goto, Reply, Return, keycloak, history
    <2>5. BarredOut'
      BY <1>10
      DEF IInv, TypeOK, BarredOut, ThreadsKnown, BuriedDead, DropSession, Goto, Reply, Return, keycloak, history
    <2>6. DropsJustified'
      BY <1>10
      DEF IInv, TypeOK, DropsJustified, ThreadsKnown, DropSession, Goto, Reply, Return, keycloak, history
    <2>7. TokensKnown'
      BY <1>10
      DEF IInv, TypeOK, TokensKnown, ThreadsKnown, DropSession, Goto, Reply, Return, keycloak, history
    <2>8. EntriesCatchUp'
      BY <1>10
      DEF IInv, TypeOK, EntriesCatchUp, ThreadsKnown, TokensKnown, DropSession, Goto, Reply, Return, keycloak, history
    <2> QED BY <2>1, <2>2, <2>3, <2>4, <2>5, <2>6, <2>7, <2>8 DEF IInv
  <1>11. ASSUME NEW r \in Requests, DeleteSession(r) PROVE IInv'
    <2>1. TypeOK'
      <3>1. sessions' \in [Sessions -> {"absent", "fresh", "expired"}]
        BY <1>11 DEF IInv, TypeOK, DeleteSession
      <3>2. closed' \subseteq used' /\ buried' \subseteq closed'
        BY <1>11, NoneAssumption DEF IInv, TypeOK, ThreadsKnown, DeleteSession
      <3> QED BY <1>11, <3>1, <3>2 DEF IInv, TypeOK, DeleteSession, Goto, Reply, keycloak
    <2>2. ThreadsKnown'
      BY <1>11
      DEF IInv, TypeOK, ThreadsKnown, Refreshers, DeleteSession, Goto, Reply, keycloak, history
    <2>3. LoginsSpent'
      BY <1>11
      DEF IInv, TypeOK, LoginsSpent, ThreadsKnown, Refreshers, DeleteSession, Goto, Reply, keycloak, history
    <2>4. BuriedDead'
      BY <1>11
      DEF IInv, TypeOK, BuriedDead, ThreadsKnown, Refreshers, DeleteSession, Goto, Reply, keycloak, history
    <2>5. BarredOut'
      BY <1>11
      DEF IInv, TypeOK, BarredOut, ThreadsKnown, BuriedDead, Refreshers, DeleteSession, Goto, Reply, keycloak, history
    <2>6. DropsJustified'
      BY <1>11
      DEF IInv, TypeOK, DropsJustified, ThreadsKnown, Refreshers, DeleteSession, Goto, Reply, keycloak, history
    <2>7. TokensKnown'
      BY <1>11
      DEF IInv, TypeOK, TokensKnown, ThreadsKnown, Refreshers, DeleteSession, Goto, Reply, keycloak, history
    <2>8. EntriesCatchUp'
      BY <1>11
      DEF IInv, TypeOK, EntriesCatchUp, ThreadsKnown, Refreshers, TokensKnown, DeleteSession, Goto, Reply, keycloak, history
    <2> QED BY <2>1, <2>2, <2>3, <2>4, <2>5, <2>6, <2>7, <2>8 DEF IInv
  <1>12. ASSUME NEW l \in Logins, ExpireLogin(l) PROVE IInv'
    <2>1. TypeOK'
      BY <1>12
      DEF IInv, TypeOK, ExpireLogin, keycloak, history
    <2>2. ThreadsKnown'
      BY <1>12
      DEF IInv, TypeOK, ThreadsKnown, ExpireLogin, keycloak, history
    <2>3. LoginsSpent'
      BY <1>12
      DEF IInv, TypeOK, LoginsSpent, ExpireLogin, keycloak, history
    <2>4. BuriedDead'
      BY <1>12
      DEF IInv, TypeOK, BuriedDead, Refreshers, ExpireLogin, keycloak, history
    <2>5. BarredOut'
      BY <1>12
      DEF IInv, TypeOK, BarredOut, BuriedDead, ExpireLogin, keycloak, history
    <2>6. DropsJustified'
      BY <1>12
      DEF IInv, TypeOK, DropsJustified, ExpireLogin, keycloak, history
    <2>7. TokensKnown'
      BY <1>12
      DEF IInv, TypeOK, TokensKnown, ThreadsKnown, ExpireLogin, keycloak, history
    <2>8. EntriesCatchUp'
      BY <1>12
      DEF IInv, TypeOK, EntriesCatchUp, ThreadsKnown, TokensKnown, ExpireLogin, keycloak, history
    <2> QED BY <2>1, <2>2, <2>3, <2>4, <2>5, <2>6, <2>7, <2>8 DEF IInv
  <1>13. ASSUME NEW s \in Sessions, ExpireSession(s) PROVE IInv'
    <2>1. TypeOK'
      BY <1>13
      DEF IInv, TypeOK, ExpireSession, keycloak, history
    <2>2. ThreadsKnown'
      BY <1>13
      DEF IInv, TypeOK, ThreadsKnown, ExpireSession, keycloak, history
    <2>3. LoginsSpent'
      BY <1>13
      DEF IInv, TypeOK, LoginsSpent, ExpireSession, keycloak, history
    <2>4. BuriedDead'
      BY <1>13
      DEF IInv, TypeOK, BuriedDead, Refreshers, ExpireSession, keycloak, history
    <2>5. BarredOut'
      BY <1>13
      DEF IInv, TypeOK, BarredOut, BuriedDead, ExpireSession, keycloak, history
    <2>6. DropsJustified'
      BY <1>13
      DEF IInv, TypeOK, DropsJustified, ExpireSession, keycloak, history
    <2>7. TokensKnown'
      BY <1>13
      DEF IInv, TypeOK, TokensKnown, ThreadsKnown, ExpireSession, keycloak, history
    <2>8. EntriesCatchUp'
      BY <1>13
      DEF IInv, TypeOK, EntriesCatchUp, ThreadsKnown, TokensKnown, ExpireSession, keycloak, history
    <2> QED BY <2>1, <2>2, <2>3, <2>4, <2>5, <2>6, <2>7, <2>8 DEF IInv
  <1>14. ASSUME NEW s \in Sessions, EndSingleSignOn(s) PROVE IInv'
    <2>1. TypeOK'
      BY <1>14
      DEF IInv, TypeOK, EndSingleSignOn, keycloak, history
    <2>2. ThreadsKnown'
      BY <1>14
      DEF IInv, TypeOK, ThreadsKnown, EndSingleSignOn, keycloak, history
    <2>3. LoginsSpent'
      BY <1>14
      DEF IInv, TypeOK, LoginsSpent, EndSingleSignOn, keycloak, history
    <2>4. BuriedDead'
      BY <1>14
      DEF IInv, TypeOK, BuriedDead, Refreshers, EndSingleSignOn, keycloak, history
    <2>5. BarredOut'
      BY <1>14
      DEF IInv, TypeOK, BarredOut, BuriedDead, EndSingleSignOn, keycloak, history
    <2>6. DropsJustified'
      BY <1>14
      DEF IInv, TypeOK, DropsJustified, EndSingleSignOn, keycloak, history
    <2>7. TokensKnown'
      BY <1>14
      DEF IInv, TypeOK, TokensKnown, ThreadsKnown, EndSingleSignOn, keycloak, history
    <2>8. EntriesCatchUp'
      BY <1>14
      DEF IInv, TypeOK, EntriesCatchUp, ThreadsKnown, TokensKnown, EndSingleSignOn, keycloak, history
    <2> QED BY <2>1, <2>2, <2>3, <2>4, <2>5, <2>6, <2>7, <2>8 DEF IInv
  <1>15. ASSUME Restart PROVE IInv'
    <2>1. TypeOK'
      BY <1>15
      DEF IInv, TypeOK, Restart, keycloak, history
    <2>2. ThreadsKnown'
      BY <1>15
      DEF IInv, TypeOK, ThreadsKnown, Restart, keycloak, history
    <2>3. LoginsSpent'
      BY <1>15
      DEF IInv, TypeOK, LoginsSpent, Restart, keycloak, history
    <2>4. BuriedDead'
      BY <1>15
      DEF IInv, TypeOK, BuriedDead, Refreshers, Restart, keycloak, history
    <2>5. BarredOut'
      BY <1>15
      DEF IInv, TypeOK, BarredOut, BuriedDead, Restart, keycloak, history
    <2>6. DropsJustified'
      BY <1>15
      DEF IInv, TypeOK, DropsJustified, Restart, keycloak, history
    <2>7. TokensKnown'
      BY <1>15
      DEF IInv, TypeOK, TokensKnown, ThreadsKnown, Restart, keycloak, history
    <2>8. EntriesCatchUp'
      BY <1>15
      DEF IInv, TypeOK, EntriesCatchUp, ThreadsKnown, TokensKnown, Restart, keycloak, history
    <2> QED BY <2>1, <2>2, <2>3, <2>4, <2>5, <2>6, <2>7, <2>8 DEF IInv
  <1>16. CASE UNCHANGED vars
    BY <1>16 DEF IInv, vars, TypeOK, ThreadsKnown, LoginsSpent, BuriedDead,
         BarredOut, DropsJustified, TokensKnown, EntriesCatchUp, Refreshers
  <1> QED BY <1>1, <1>2, <1>3, <1>4, <1>5, <1>6, <1>7, <1>8, <1>9, <1>10, <1>11, <1>12, <1>13, <1>14, <1>15, <1>16 DEF Next, RequestStep

-----------------------------------------------------------------------------
\* Theorem.  The invariant holds in every state the proxy can reach.
THEOREM Invariant == Spec => []IInv
  <1> QED BY InitIInv, NextIInv, PTL DEF Spec

\* Theorem.  Every variable keeps its type.
THEOREM TypeCorrect == Spec => []TypeOK
  <1>1. IInv => TypeOK
    BY DEF IInv
  <1> QED BY <1>1, Invariant, PTL

\* Theorem.  However many threads deliver a login's callback, its code goes to
\* Keycloak at most once.
THEOREM CodeOnce == Spec => []CodeSentOnce
  <1>1. IInv => CodeSentOnce
    BY DEF IInv, LoginsSpent, CodeSentOnce
  <1> QED BY <1>1, Invariant, PTL

\* Theorem.  A logout that no refresh overlaps is final.
THEOREM LogoutFinal == Spec => []BuriedIsNotServed
  <1>1. IInv => BuriedIsNotServed
    BY DEF IInv, BarredOut, BuriedIsNotServed
  <1> QED BY <1>1, Invariant, PTL

\* Theorem.  No race of refreshes leaves a superseded refresh token in an entry.
THEOREM TokensCurrent == Spec => []NoSupersededToken
  <1>1. IInv => NoSupersededToken
    BY DEF IInv, EntriesCatchUp, NoSupersededToken
  <1> QED BY <1>1, Invariant, PTL

LEMMA SurvivalStep ==
    ASSUME IInv, [Next]_vars, NEW s \in Sessions,
           sessions[s] # "absent", sessions'[s] = "absent",
           ~RotatesTokens, ~KeycloakMayFail, ~MayRestart
    PROVE  s \in ended \/ s \in closed'
  <1>1. ASSUME NEW r \in Requests, DropSession(r) PROVE s \in ended
    BY <1>1 DEF IInv, TypeOK, ThreadsKnown, DropsJustified, DropSession
  <1>2. ASSUME NEW r \in Requests, DeleteSession(r) PROVE s \in closed'
    BY <1>2, NoneAssumption DEF IInv, TypeOK, DeleteSession
  <1>3. ASSUME NEW r \in Requests, CreateOidcSession(r) \/ StoreSession(r) PROVE FALSE
    BY <1>3 DEF IInv, TypeOK, CreateOidcSession, StoreSession
  <1>4. ASSUME NEW x \in Sessions, ExpireSession(x) PROVE FALSE
    BY <1>4 DEF IInv, TypeOK, ExpireSession
  <1>5. ASSUME NEW r \in Requests,
               \/ Arrive(r) \/ CreateAuthRequest(r) \/ ConsumeAuthRequest(r)
               \/ ExchangeAuthorizationCode(r) \/ LookUp(r) \/ ReadRefreshToken(r) \/ RefreshToken(r)
        PROVE  UNCHANGED sessions
    BY <1>5 DEF Arrive, CreateAuthRequest, ConsumeAuthRequest, ExchangeAuthorizationCode, LookUp,
           ReadRefreshToken, RefreshToken
  <1>6. ASSUME NEW l \in Logins, ExpireLogin(l) PROVE UNCHANGED sessions
    BY <1>6 DEF ExpireLogin
  <1>7. ASSUME NEW x \in Sessions, EndSingleSignOn(x) PROVE UNCHANGED sessions
    BY <1>7 DEF EndSingleSignOn
  <1> QED BY <1>1, <1>2, <1>3, <1>4, <1>5, <1>6, <1>7 DEF Next, RequestStep, Restart, vars

\* Theorem.  With a Keycloak that answers and does not rotate, sessions end only by
\* logout or with the single sign-on.
THEOREM Survival == Spec => SessionsSurvive
  <1>1. IInv /\ [Next]_vars =>
          [\A s \in Sessions :
             /\ sessions[s] # "absent" /\ sessions'[s] = "absent"
             /\ ~RotatesTokens /\ ~KeycloakMayFail /\ ~MayRestart
             => s \in ended \/ s \in closed']_vars
    BY SurvivalStep
  <1> QED BY <1>1, Invariant, PTL DEF Spec, SessionsSurvive
-----------------------------------------------------------------------------
(* The token cache, for any lifetimes, any margin and any number of threads. *)

\* A token Keycloak issued ends its lifetime after the thread noted the time, or
\* later; one from the cache ends as the entry says.
IssuedLater ==
    \A r \in Threads :
        /\ now[r] <= clock
        /\ at[r] = "issued" => life[r] \in Lifetimes /\ until[r] >= now[r] + life[r]

TokenInv == TokenTypeOK /\ IssuedLater /\ CacheIsHonest /\ ReturnedIsValid

\* The cache keeps a token for at least a second, and stops the margin early.
LEMMA UsableBounds ==
    ASSUME NEW l \in Lifetimes
    PROVE  /\ Usable(l) \in Nat /\ Usable(l) <= l
           /\ l > Margin => Usable(l) + Margin = l
  BY ConstantsAssumption DEF Usable

LEMMA TokenInitInv == TokenInit => TokenInv
  <1> SUFFICES ASSUME TokenInit PROVE TokenInv
    OBVIOUS
  <1>1. 0 \in 0 .. MaxTime
    BY ConstantsAssumption
  <1>2. TokenTypeOK
    BY <1>1 DEF TokenInit, TokenTypeOK
  <1>3. IssuedLater /\ CacheIsHonest /\ ReturnedIsValid
    BY DEF TokenInit, IssuedLater, CacheIsHonest, ReturnedIsValid
  <1> QED BY <1>2, <1>3 DEF TokenInv

LEMMA TokenNextInv == TokenInv /\ [TokenNext]_tokenVars => TokenInv'
  <1> SUFFICES ASSUME TokenInv, [TokenNext]_tokenVars PROVE TokenInv'
    OBVIOUS
  <1> USE ConstantsAssumption
  <1>1. ASSUME NEW r \in Threads, StartToken(r) PROVE TokenInv'
    BY <1>1 DEF TokenInv, TokenTypeOK, IssuedLater, CacheIsHonest, ReturnedIsValid, StartToken, GoOn, entry
  <1>2. ASSUME NEW r \in Threads, LookInCache(r) PROVE TokenInv'
    <2>1. TokenTypeOK' /\ IssuedLater' /\ CacheIsHonest'
      BY <1>2 DEF TokenInv, TokenTypeOK, IssuedLater, CacheIsHonest, LookInCache, GoOn, entry
    <2>2. ReturnedIsValid'
      BY <1>2 DEF TokenInv, TokenTypeOK, CacheIsHonest, ReturnedIsValid, LookInCache, GoOn, entry
    <2> QED BY <2>1, <2>2 DEF TokenInv
  <1>3. ASSUME NEW r \in Threads, Issue(r) PROVE TokenInv'
    <2>1. TokenTypeOK'
      BY <1>3 DEF TokenInv, TokenTypeOK, Issue, GoOn, entry
    <2>2. IssuedLater'
      BY <1>3 DEF TokenInv, TokenTypeOK, IssuedLater, Issue, GoOn, entry
    <2>3. CacheIsHonest' /\ ReturnedIsValid'
      BY <1>3 DEF TokenInv, TokenTypeOK, CacheIsHonest, ReturnedIsValid, Issue, GoOn, entry
    <2> QED BY <2>1, <2>2, <2>3 DEF TokenInv
  <1>4. ASSUME NEW r \in Threads, GiveUp(r) PROVE TokenInv'
    BY <1>4 DEF TokenInv, TokenTypeOK, IssuedLater, CacheIsHonest, ReturnedIsValid, GiveUp, GoOn, entry
  <1>5. ASSUME NEW r \in Threads, CacheToken(r) PROVE TokenInv'
    <2>1. TokenTypeOK' /\ IssuedLater'
      BY <1>5, UsableBounds DEF TokenInv, TokenTypeOK, IssuedLater, CacheToken, GoOn
    <2>2. CacheIsHonest'
      BY <1>5, UsableBounds DEF TokenInv, TokenTypeOK, IssuedLater, CacheIsHonest, CacheToken
    <2>3. ReturnedIsValid'
      BY <1>5 DEF TokenInv, TokenTypeOK, IssuedLater, ReturnedIsValid, CacheToken, GoOn
    <2> QED BY <2>1, <2>2, <2>3 DEF TokenInv
  <1>6. CASE Tick
    BY <1>6 DEF TokenInv, TokenTypeOK, IssuedLater, CacheIsHonest, ReturnedIsValid, Tick, entry
  <1>7. CASE UNCHANGED tokenVars
    BY <1>7 DEF TokenInv, TokenTypeOK, IssuedLater, CacheIsHonest, ReturnedIsValid, tokenVars
  <1> QED BY <1>1, <1>2, <1>3, <1>4, <1>5, <1>6, <1>7 DEF TokenNext

-----------------------------------------------------------------------------
\* Theorem.  The invariant holds in every state.
THEOREM TokenInvariant == TokenSpec => []TokenInv
  <1> QED BY TokenInitInv, TokenNextInv, PTL DEF TokenSpec

\* Theorem.  Types are kept, whatever order threads and answers come in.
THEOREM TokenTypes == TokenSpec => []TokenTypeOK
  <1>1. TokenInv => TokenTypeOK
    BY DEF TokenInv
  <1> QED BY <1>1, TokenInvariant, PTL

\* Theorem.  The entry never outlives its token, in whatever order threads fill it.
THEOREM EntryHonest == TokenSpec => []CacheIsHonest
  <1>1. TokenInv => CacheIsHonest
    BY DEF TokenInv
  <1> QED BY <1>1, TokenInvariant, PTL

\* Theorem.  No thread returns a token that was over when it started.
THEOREM ReturnedValid == TokenSpec => []ReturnedIsValid
  <1>1. TokenInv => ReturnedIsValid
    BY DEF TokenInv
  <1> QED BY <1>1, TokenInvariant, PTL
=============================================================================

-------------------------- MODULE ProvisioningApi --------------------------
(* The connector provisioning service (provisioning-api/app): clients       *)
(* register, an administrator approves or rejects them, approved clients    *)
(* request connectors and read their status.                                *)
(*                                                                          *)
(* The FastAPI handlers are plain functions, so they run concurrently in    *)
(* the server's thread pool; every call into db.py opens a connection of    *)
(* its own and commits on its own.  A request is therefore a sequence of    *)
(* database transactions that other requests interleave with, and each      *)
(* transaction (one action below) is atomic.                                *)
EXTENDS Naturals, Sequences

CONSTANTS
    Emails,        \* e-mail addresses a client may register
    Names,         \* well-formed connector names (models.py, pattern checked)
    Requests,      \* one identifier per HTTP request the run sends
    AdminTokenSet  \* is PROVISIONING_API_ADMIN_TOKEN set in the environment?

ASSUME AdminTokenAssumption == AdminTokenSet \in BOOLEAN

UnknownKey == 0    \* an API key that no row's hash matches

ClientStatuses == {"pending", "approved", "rejected"}
Points == {"idle", "checkEmail", "insertClient", "authenticate", "checkName", "checkDns",
           "insertConnector", "setDetail", "readStatus", "reply", "done"}
Codes == {"none", "200", "403", "404", "409", "422", "500", "lost"}

VARIABLES
    clients,       \* table clients: the row of client i is clients[i]
    connectors,    \* table connectors, in insertion order
    call,          \* what each request asks: operation, API key, e-mail or name
    pc,            \* where each request's handler is
    client,        \* the client row its handler works with, 0 before it has one
    code,          \* the response, "none" before there is one
    keys,          \* [email, id]: API keys that a caller received and kept
    serving,       \* the server process is up
    approvedOnce   \* history: clients an administrator approved at some time

tables == <<clients, connectors, approvedOnce>>
handlers == <<call, pc, client, code>>
vars == <<clients, connectors, call, pc, client, code, keys, serving, approvedOnce>>

NoCall == [op |-> "none", key |-> UnknownKey, arg |-> "none"]

Init ==
    /\ clients = << >>
    /\ connectors = << >>
    /\ call = [r \in Requests |-> NoCall]
    /\ pc = [r \in Requests |-> "idle"]
    /\ client = [r \in Requests |-> 0]
    /\ code = [r \in Requests |-> "none"]
    /\ keys = {}
    /\ serving = FALSE
    /\ approvedOnce = {}

(***************************************************************************)
(* Handlers move between named points; Answer sends the response.          *)
(***************************************************************************)
At(r, point) == serving /\ pc[r] = point
Goto(r, point) == pc' = [pc EXCEPT ![r] = point] /\ UNCHANGED code
Answer(r, status) ==
    /\ pc' = [pc EXCEPT ![r] = "done"]
    /\ code' = [code EXCEPT ![r] = status]

EmailTaken(e) == \E i \in DOMAIN clients : clients[i].email = e
NameTaken(n) == \E k \in DOMAIN connectors : connectors[k].name = n
NewRow(r) == [name |-> call[r].arg, client |-> client[r], detail |-> FALSE]

(***************************************************************************)
(* Faulty variants of the actions below.  They are no part of Spec: each   *)
(* stands for a plausible slip in the code that a property must notice.    *)
(***************************************************************************)
InsertClientNotUnique(r) ==
    /\ At(r, "insertClient")
    /\ clients' = Append(clients, [email |-> call[r].arg, status |-> "pending"])
    /\ client' = [client EXCEPT ![r] = Len(clients) + 1]
    /\ Goto(r, "reply")
    /\ UNCHANGED <<connectors, call, keys, serving, approvedOnce>>

AuthenticateIf(r, accepted) ==
    /\ At(r, "authenticate")
    /\ IF accepted
       THEN /\ client' = [client EXCEPT ![r] = call[r].key]
            /\ Goto(r, IF call[r].op = "connect" THEN "checkName" ELSE "readStatus")
       ELSE Answer(r, "403") /\ UNCHANGED client
    /\ UNCHANGED <<tables, call, keys, serving>>
AuthenticateAnyKey(r) == AuthenticateIf(r,
    call[r].key \in DOMAIN clients => clients[call[r].key].status = "approved")
AuthenticateNotRejected(r) == AuthenticateIf(r,
    call[r].key \in DOMAIN clients /\ clients[call[r].key].status # "rejected")

InsertConnectorOrIgnore(r) ==
    /\ At(r, "insertConnector")
    /\ connectors' = IF NameTaken(call[r].arg) THEN connectors ELSE Append(connectors, NewRow(r))
    /\ Goto(r, "setDetail")
    /\ UNCHANGED <<clients, call, client, keys, serving, approvedOnce>>

InsertConnectorOrReplace(r) ==
    /\ At(r, "insertConnector")
    /\ connectors' = IF NameTaken(call[r].arg)
           THEN [k \in DOMAIN connectors |->
                    IF connectors[k].name = call[r].arg THEN NewRow(r) ELSE connectors[k]]
           ELSE Append(connectors, NewRow(r))
    /\ Goto(r, "setDetail")
    /\ UNCHANGED <<clients, call, client, keys, serving, approvedOnce>>

-----------------------------------------------------------------------------
\* uvicorn starts the application and init_db creates missing tables only.
Startup ==
    /\ ~serving
    /\ serving' = TRUE
    /\ UNCHANGED <<tables, handlers, keys>>

\* A request arrives and is given to a thread of the pool.
Receive(r, op, k, arg, point) ==
    /\ At(r, "idle")
    /\ call' = [call EXCEPT ![r] = [op |-> op, key |-> k, arg |-> arg]]
    /\ Goto(r, point)
    /\ UNCHANGED <<tables, client, keys, serving>>

\* POST /v1/register needs no key; the other two calls bring one.
ReceiveRegister(r, e) == Receive(r, "register", UnknownKey, e, "checkEmail")
ReceiveClientCall(r, op, k, n) == Receive(r, op, k, n, "authenticate")

CheckEmail(r) ==
    /\ At(r, "checkEmail")
    /\ IF EmailTaken(call[r].arg) THEN Answer(r, "409") ELSE Goto(r, "insertClient")
    /\ UNCHANGED <<tables, call, client, keys, serving>>

\* create_client: the UNIQUE constraint on email makes the loser of a race
\* fail with an IntegrityError, which nothing catches.
InsertClient(r) ==
    /\ At(r, "insertClient")
    /\ IF EmailTaken(call[r].arg)
       THEN Answer(r, "500") /\ UNCHANGED <<clients, client>>
       ELSE /\ clients' = Append(clients, [email |-> call[r].arg, status |-> "pending"])
            /\ client' = [client EXCEPT ![r] = Len(clients) + 1]
            /\ Goto(r, "reply")
    /\ UNCHANGED <<connectors, call, keys, serving, approvedOnce>>

\* require_approved_client: the row read here is what the handler works with.
Authenticate(r) ==
    /\ At(r, "authenticate")
    /\ IF call[r].key \in DOMAIN clients /\ clients[call[r].key].status = "approved"
       THEN /\ client' = [client EXCEPT ![r] = call[r].key]
            /\ Goto(r, IF call[r].op = "connect" THEN "checkName" ELSE "readStatus")
       ELSE Answer(r, "403") /\ UNCHANGED client
    /\ UNCHANGED <<tables, call, keys, serving>>

CheckName(r) ==
    /\ At(r, "checkName")
    /\ IF NameTaken(call[r].arg) THEN Answer(r, "409") ELSE Goto(r, "checkDns")
    /\ UNCHANGED <<tables, call, client, keys, serving>>

\* _hostname_resolves_to asks the resolver, whose answer is arbitrary.
CheckDns(r) ==
    /\ At(r, "checkDns")
    /\ Goto(r, "insertConnector") \/ Answer(r, "422")
    /\ UNCHANGED <<tables, call, client, keys, serving>>

InsertConnector(r) ==
    /\ At(r, "insertConnector")
    /\ IF NameTaken(call[r].arg)
       THEN Answer(r, "500") /\ UNCHANGED connectors
       ELSE connectors' = Append(connectors, NewRow(r)) /\ Goto(r, "setDetail")
    /\ UNCHANGED <<clients, call, client, keys, serving, approvedOnce>>

\* set_connector_status: WHERE connector_name = ?, whoever owns the row.
SetConnectorStatus(r) ==
    /\ At(r, "setDetail")
    /\ connectors' = [k \in DOMAIN connectors |->
           IF connectors[k].name = call[r].arg
           THEN [name |-> connectors[k].name, client |-> connectors[k].client, detail |-> TRUE]
           ELSE connectors[k]]
    /\ Goto(r, "reply")
    /\ UNCHANGED <<clients, call, client, keys, serving, approvedOnce>>

ReadConnectorStatus(r) ==
    /\ At(r, "readStatus")
    /\ IF \E k \in DOMAIN connectors : /\ connectors[k].name = call[r].arg
                                       /\ connectors[k].client = client[r]
       THEN Answer(r, "200") ELSE Answer(r, "404")
    /\ UNCHANGED <<tables, call, client, keys, serving>>

\* The response leaves; a registrant learns the raw key from it, and only here.
Reply(r) ==
    /\ At(r, "reply")
    /\ Answer(r, "200")
    /\ keys' = IF call[r].op = "register"
               THEN keys \cup {[email |-> call[r].arg, id |-> client[r]]} ELSE keys
    /\ UNCHANGED <<tables, call, client, serving>>

\* The admin endpoints: one UPDATE, whatever the client's present status; with
\* no admin token configured _admin_token raises and nothing is written.
SetClientStatus(i, status) ==
    /\ serving /\ AdminTokenSet
    /\ clients' = [clients EXCEPT ![i] = [email |-> clients[i].email, status |-> status]]
    /\ approvedOnce' = IF status = "approved" THEN approvedOnce \cup {i} ELSE approvedOnce
    /\ UNCHANGED <<connectors, handlers, keys, serving>>

ApproveClient(i) == SetClientStatus(i, "approved")
RejectClient(i) == SetClientStatus(i, "rejected")

\* A statement fails (locked or unwritable file): get_conn closes without
\* committing and the handler ends in a 500.
DatabaseError(r) ==
    /\ serving
    /\ pc[r] \notin {"idle", "checkDns", "reply", "done"}
    /\ Answer(r, "500")
    /\ UNCHANGED <<tables, call, client, keys, serving>>

\* The process dies: the tables stay, handlers in flight never answer.
Crash ==
    /\ serving
    /\ serving' = FALSE
    /\ pc' = [r \in Requests |-> IF pc[r] = "idle" THEN "idle" ELSE "done"]
    /\ code' = [r \in Requests |-> IF pc[r] \in {"idle", "done"} THEN code[r] ELSE "lost"]
    /\ UNCHANGED <<tables, call, client, keys>>

HandlerStep(r) ==
    \/ CheckEmail(r) \/ InsertClient(r)
    \/ Authenticate(r) \/ CheckName(r) \/ CheckDns(r) \/ InsertConnector(r)
    \/ SetConnectorStatus(r) \/ ReadConnectorStatus(r)
    \/ Reply(r)

Arrival(r) ==
    \/ \E e \in Emails : ReceiveRegister(r, e)
    \/ \E op \in {"connect", "status"}, n \in Names,
          k \in {UnknownKey} \cup {key.id : key \in keys} : ReceiveClientCall(r, op, k, n)

Next ==
    \/ Startup \/ Crash
    \/ \E r \in Requests : Arrival(r) \/ HandlerStep(r) \/ DatabaseError(r)
    \/ \E i \in DOMAIN clients : ApproveClient(i) \/ RejectClient(i)

\* A thread of the pool that has a request keeps running; nobody has to send
\* a request, decide on a client or start the server.
Fairness == \A r \in Requests : WF_vars(HandlerStep(r))

Spec == Init /\ [][Next]_vars /\ Fairness
-----------------------------------------------------------------------------
Owns(i, n) == \E k \in DOMAIN connectors : connectors[k].name = n /\ connectors[k].client = i

\* Every variable holds values of its shape; a row's owner and a handler's
\* client are existing client rows.
TypeOK ==
    /\ clients \in Seq([email : Emails, status : ClientStatuses])
    /\ connectors \in Seq([name : Names, client : DOMAIN clients, detail : BOOLEAN])
    /\ call \in [Requests -> [op : {"none", "register", "connect", "status"},
                             key : Nat, arg : Emails \cup Names \cup {"none"}]]
    /\ pc \in [Requests -> Points]
    /\ client \in [Requests -> {0} \cup DOMAIN clients]
    /\ code \in [Requests -> Codes]
    /\ keys \subseteq [email : Emails, id : DOMAIN clients]
    /\ serving \in BOOLEAN
    /\ approvedOnce \subseteq DOMAIN clients

\* Of all the registrations of one address that race past the 409 check, at
\* most one caller ever leaves with an API key, and that key is the one of the
\* address's row (register: the check and the INSERT are separate transactions).
OneKeyPerEmail ==
    \A a, b \in keys :
        /\ clients[a.id].email = a.email
        /\ a.email = b.email => a.id = b.id

\* A connector row always belongs to a client that an administrator approved:
\* the check of require_approved_client holds for the insert that comes three
\* transactions later, and for the client it read (not for its present status).
OwnersWereApproved ==
    \A k \in DOMAIN connectors : connectors[k].client \in approvedOnce

\* A 200 for POST /v1/connectors is never a lie: the name is recorded, with its
\* detail, for the very client that asked, however many callers wanted the name.
AcceptedIsRecorded ==
    \A r \in Requests : call[r].op = "connect" /\ code[r] = "200" =>
        \E k \in DOMAIN connectors : /\ connectors[k].name = call[r].arg
                                    /\ connectors[k].client = client[r]
                                    /\ connectors[k].detail

-----------------------------------------------------------------------------
(* The registry the handlers jointly implement, see ProvisioningRegistry.   *)
StatusOf(e) == IF EmailTaken(e)
               THEN clients[CHOOSE i \in DOMAIN clients : clients[i].email = e].status
               ELSE "unknown"
OwnerOf(n) == IF NameTaken(n)
              THEN clients[connectors[CHOOSE k \in DOMAIN connectors :
                                        connectors[k].name = n].client].email
              ELSE "nobody"

Registry == INSTANCE ProvisioningRegistry WITH
    account <- [e \in Emails |-> StatusOf(e)],
    owner <- [n \in Names |-> OwnerOf(n)],
    vetted <- {clients[i].email : i \in approvedOnce}

\* Seen from outside, registrations, decisions and claims are atomic: an address
\* registers once, a name gets one owner for good, and only a vetted address owns.
ImplementsRegistry == Registry!Spec
=============================================================================

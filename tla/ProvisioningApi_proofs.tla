----------------------- MODULE ProvisioningApi_proofs -----------------------
(* Proofs about ProvisioningApi, for any sets of addresses, names and       *)
(* requests.                                                                *)
EXTENDS ProvisioningApi, SequenceTheorems, TLAPS

(***************************************************************************)
(* The inductive invariant.  TypeOK alone is not inductive: that a row's   *)
(* e-mail is an address depends on which handlers can reach the INSERT, so *)
(* HandlerOK says what a handler at each point is known to hold.           *)
(***************************************************************************)
Recorded(r) == \E k \in DOMAIN connectors : /\ connectors[k].name = call[r].arg
                                            /\ connectors[k].client = client[r]
                                            /\ connectors[k].detail
Registered(r) == /\ call[r].arg \in Emails
                 /\ client[r] \in DOMAIN clients
                 /\ clients[client[r]].email = call[r].arg

HandlerOK(r) ==
    /\ pc[r] \in {"checkEmail", "insertClient"} => call[r].op = "register" /\ call[r].arg \in Emails
    /\ pc[r] = "authenticate" => call[r].op \in {"connect", "status"} /\ call[r].arg \in Names
    /\ pc[r] \in {"checkName", "checkDns", "insertConnector", "setDetail"} =>
          call[r].op = "connect" /\ call[r].arg \in Names /\ client[r] \in approvedOnce
    /\ pc[r] = "setDetail" => Owns(client[r], call[r].arg)
    /\ pc[r] = "readStatus" => call[r].op = "status" /\ client[r] = call[r].key
    /\ pc[r] = "reply" => \/ call[r].op = "register" /\ Registered(r)
                          \/ call[r].op = "connect" /\ Recorded(r)
    /\ code[r] = "200" /\ call[r].op = "connect" => Recorded(r)
    /\ code[r] = "200" /\ call[r].op = "status" => Owns(call[r].key, call[r].arg)
    /\ pc[r] # "done" => code[r] = "none"
    /\ pc[r] = "idle" => call[r].op = "none"
HandlersOK == \A r \in Requests : HandlerOK(r)

TablesOK ==
    /\ \A i \in DOMAIN clients : clients[i].status = "approved" => i \in approvedOnce
    /\ \A i, j \in DOMAIN clients : clients[i].email = clients[j].email => i = j
    /\ \A key \in keys : clients[key.id].email = key.email
    /\ \A k, l \in DOMAIN connectors : connectors[k].name = connectors[l].name => k = l
    /\ OwnersWereApproved

IInv == TypeOK /\ HandlersOK /\ TablesOK

\* The service starts with empty tables and idle handlers, where all of it holds.
LEMMA InitIInv == Init => IInv
<1> SUFFICES ASSUME Init PROVE IInv
  OBVIOUS
<1>1. TypeOK
  <2>1. clients \in Seq([email : Emails, status : ClientStatuses])
    BY DEF Init
  <2>2. connectors \in Seq([name : Names, client : DOMAIN clients, detail : BOOLEAN])
    BY DEF Init
  <2> QED
    BY <2>1, <2>2 DEF Init, TypeOK, NoCall, UnknownKey, Codes, Points
<1>2. HandlersOK
  BY DEF Init, HandlersOK, HandlerOK, NoCall
<1>3. TablesOK
  BY DEF Init, TablesOK, OwnersWereApproved
<1> QED
  BY <1>1, <1>2, <1>3 DEF IInv

-----------------------------------------------------------------------------
(* Tables only grow: rows are never deleted, and of an existing row only    *)
(* the client's status and the connector's detail ever change.              *)
ClientsGrow == /\ DOMAIN clients \subseteq DOMAIN clients'
               /\ \A i \in DOMAIN clients : clients'[i].email = clients[i].email
ConnectorsGrow == /\ DOMAIN connectors \subseteq DOMAIN connectors'
                  /\ \A k \in DOMAIN connectors :
                        /\ connectors'[k].name = connectors[k].name
                        /\ connectors'[k].client = connectors[k].client
                        /\ connectors[k].detail => connectors'[k].detail
TablesGrow == ClientsGrow /\ ConnectorsGrow /\ approvedOnce \subseteq approvedOnce'

\* Every statement of db.py that writes is an INSERT or an UPDATE of one column.
LEMMA NextTablesGrow == TypeOK /\ [Next]_vars => TablesGrow
<1> SUFFICES ASSUME TypeOK, [Next]_vars PROVE TablesGrow
  OBVIOUS
<1> USE DEF TablesGrow, ClientsGrow, ConnectorsGrow
<1>1. CASE UNCHANGED tables
  BY <1>1 DEF tables
<1>2. ASSUME NEW r \in Requests, InsertClient(r)
      PROVE  TablesGrow
  <2>1. CASE UNCHANGED clients
    BY <1>2, <2>1 DEF InsertClient
  <2>2. CASE clients' = Append(clients, [email |-> call[r].arg, status |-> "pending"])
    BY <1>2, <2>2 DEF InsertClient, TypeOK
  <2> QED
    BY <1>2, <2>1, <2>2 DEF InsertClient
<1>3. ASSUME NEW r \in Requests, InsertConnector(r)
      PROVE  TablesGrow
  <2>1. CASE UNCHANGED connectors
    BY <1>3, <2>1 DEF InsertConnector
  <2>2. CASE connectors' = Append(connectors, NewRow(r))
    BY <1>3, <2>2 DEF InsertConnector, TypeOK
  <2> QED
    BY <1>3, <2>1, <2>2 DEF InsertConnector
<1>4. ASSUME NEW r \in Requests, SetConnectorStatus(r)
      PROVE  TablesGrow
  BY <1>4 DEF SetConnectorStatus
<1>5. ASSUME NEW i \in DOMAIN clients, NEW status, SetClientStatus(i, status)
      PROVE  TablesGrow
  BY <1>5 DEF SetClientStatus, TypeOK
<1>6. ASSUME NEW r \in Requests, Arrival(r) \/ HandlerStep(r) \/ DatabaseError(r)
      PROVE  TablesGrow
  <2>1. CASE Arrival(r)
    BY <1>1, <2>1 DEF Arrival, ReceiveRegister, ReceiveClientCall, Receive
  <2>2. CASE DatabaseError(r)
    BY <1>1, <2>2 DEF DatabaseError
  <2>3. CASE HandlerStep(r)
    BY <1>1, <1>2, <1>3, <1>4, <2>3 DEF HandlerStep, CheckEmail, Authenticate, CheckName,
       CheckDns, ReadConnectorStatus, Reply
  <2> QED
    BY <1>6, <2>1, <2>2, <2>3
<1>7. CASE Startup \/ Crash \/ UNCHANGED vars
  BY <1>1, <1>7 DEF Startup, Crash, vars, tables
<1> QED
  BY <1>5, <1>6, <1>7 DEF Next, ApproveClient, RejectClient

-----------------------------------------------------------------------------
\* Rewriting rows in place (an UPDATE) yields a sequence of rows of the same length.
LEMMA MapSeq ==
    ASSUME NEW S, NEW s \in Seq(S), NEW t, DOMAIN t = DOMAIN s, t = [k \in DOMAIN s |-> t[k]],
           \A k \in DOMAIN s : t[k] \in S
    PROVE  t \in Seq(S) /\ Len(t) = Len(s)
<1>1. DOMAIN s = 1 .. Len(s) /\ Len(s) \in Nat
  OBVIOUS
<1>2. t \in [1 .. Len(s) -> S]
  BY <1>1
<1> QED
  BY <1>1, <1>2

\* The row that create_client inserts is a pending client's, and every reference
\* to an older client stays good.
LEMMA InsertClientType ==
    ASSUME TypeOK, NEW r \in Requests, HandlerOK(r), InsertClient(r)
    PROVE  TypeOK'
<1> USE DEF TypeOK, Codes, Points
<1> DEFINE row == [email |-> call[r].arg, status |-> "pending"]
<1>1. row \in [email : Emails, status : ClientStatuses]
  BY DEF HandlerOK, InsertClient, At, ClientStatuses
<1>2. CASE EmailTaken(call[r].arg)
  BY <1>2 DEF InsertClient, Answer
<1>3. CASE ~EmailTaken(call[r].arg)
  <2>1. clients' = Append(clients, row)
    BY <1>3 DEF InsertClient
  <2>2. clients' \in Seq([email : Emails, status : ClientStatuses])
    BY <1>1, <2>1
  <2>3. /\ DOMAIN clients \subseteq DOMAIN clients'
        /\ Len(clients) + 1 \in DOMAIN clients'
    BY <1>1, <2>1
  <2>4. connectors' \in Seq([name : Names, client : DOMAIN clients', detail : BOOLEAN])
    <3>1. [name : Names, client : DOMAIN clients, detail : BOOLEAN]
              \subseteq [name : Names, client : DOMAIN clients', detail : BOOLEAN]
      BY <2>3
    <3> QED
      BY <3>1, SeqMonotonic DEF InsertClient
  <2>5. client' \in [Requests -> {0} \cup DOMAIN clients']
    BY <1>3, <2>3 DEF InsertClient
  <2> QED
    BY <1>3, <2>2, <2>3, <2>4, <2>5 DEF InsertClient, Goto
<1> QED
  BY <1>2, <1>3

\* No step leaves the types; the rows that InsertClient and InsertConnector add
\* are well typed because of where their handlers come from.
LEMMA NextTypeOK == TypeOK /\ HandlersOK /\ [Next]_vars => TypeOK'
<1> SUFFICES ASSUME TypeOK, HandlersOK, [Next]_vars
             PROVE  TypeOK'
  OBVIOUS
<1> USE DEF TypeOK, Codes, Points, tables, handlers
<1>1. CASE Startup
  BY <1>1 DEF Startup
<1>2. CASE Crash
  BY <1>2 DEF Crash
<1>3. ASSUME NEW r \in Requests, Arrival(r)
      PROVE  TypeOK'
  <2>1. CASE \E e \in Emails : ReceiveRegister(r, e)
    BY <2>1 DEF ReceiveRegister, Receive, Goto, UnknownKey
  <2>2. ASSUME NEW op \in {"connect", "status"}, NEW n \in Names,
               NEW k \in {UnknownKey} \cup {key.id : key \in keys},
               ReceiveClientCall(r, op, k, n)
        PROVE  TypeOK'
    <3>1. k \in Nat
      BY DEF UnknownKey
    <3> QED
      BY <2>2, <3>1 DEF ReceiveClientCall, Receive, Goto
  <2> QED
    BY <1>3, <2>1, <2>2 DEF Arrival
<1>4. ASSUME NEW r \in Requests, HandlerStep(r)
      PROVE  TypeOK'
  <2>0. HandlerOK(r)
    BY DEF HandlersOK
  <2>1. CASE CheckEmail(r)
    BY <2>1 DEF CheckEmail, Answer, Goto
  <2>2. CASE InsertClient(r)
    BY <2>0, <2>2, InsertClientType
  <2>3. CASE Authenticate(r)
    BY <2>3 DEF Authenticate, Answer, Goto
  <2>4. CASE CheckName(r)
    BY <2>4 DEF CheckName, Answer, Goto
  <2>5. CASE CheckDns(r)
    BY <2>5 DEF CheckDns, Answer, Goto
  <2>6. CASE InsertConnector(r)
    <3>1. call[r].arg \in Names /\ client[r] \in DOMAIN clients
      BY <2>0, <2>6 DEF HandlerOK, InsertConnector, At
    <3> DEFINE S == [name : Names, client : DOMAIN clients, detail : BOOLEAN]
    <3>2. NewRow(r) \in S /\ connectors \in Seq(S)
      BY <3>1 DEF NewRow
    <3>3. connectors' \in Seq(S)
      <4> HIDE DEF S
      <4>1. CASE NameTaken(call[r].arg)
        BY <2>6, <3>2, <4>1 DEF InsertConnector
      <4>2. CASE ~NameTaken(call[r].arg)
        <5>1. connectors' = Append(connectors, NewRow(r))
          BY <2>6, <4>2 DEF InsertConnector
        <5> QED
          BY <3>2, <5>1, AppendProperties
      <4> QED
        BY <4>1, <4>2
    <3>4. clients' = clients
      BY <2>6 DEF InsertConnector
    <3>5. connectors' \in Seq([name : Names, client : DOMAIN clients', detail : BOOLEAN])
      BY <3>3, <3>4
    <3> QED
      BY <2>6, <3>4, <3>5 DEF InsertConnector, Answer, Goto
  <2>7. CASE SetConnectorStatus(r)
    <3> DEFINE S == [name : Names, client : DOMAIN clients, detail : BOOLEAN]
    <3>1. /\ DOMAIN connectors' = DOMAIN connectors
          /\ connectors' = [k \in DOMAIN connectors |-> connectors'[k]]
      BY <2>7 DEF SetConnectorStatus
    <3>2. connectors \in Seq(S)
      OBVIOUS
    <3>3. \A k \in DOMAIN connectors : connectors[k] \in S
      <4> HIDE DEF S
      <4> QED
        BY <3>2
    <3>4. \A k \in DOMAIN connectors : connectors'[k] \in S
      BY <2>7, <3>3 DEF SetConnectorStatus
    <3>5. connectors' \in Seq(S)
      <4> HIDE DEF S
      <4> QED
        BY <3>1, <3>2, <3>4, MapSeq
    <3> QED
      BY <2>7, <3>5 DEF SetConnectorStatus, Goto
  <2>8. CASE ReadConnectorStatus(r)
    BY <2>8 DEF ReadConnectorStatus, Answer
  <2>9. CASE Reply(r)
    <3>1. CASE call[r].op = "register"
      <4>1. Registered(r)
        BY <2>0, <2>9, <3>1 DEF Reply, HandlerOK, At
      <4>2. [email |-> call[r].arg, id |-> client[r]] \in [email : Emails, id : DOMAIN clients]
        BY <4>1 DEF Registered
      <4> QED
        BY <2>9, <3>1, <4>2 DEF Reply, Answer
    <3>2. CASE call[r].op # "register"
      BY <2>9, <3>2 DEF Reply, Answer
    <3> QED
      BY <3>1, <3>2
  <2> QED
    BY <1>4, <2>1, <2>2, <2>3, <2>4, <2>5, <2>6, <2>7, <2>8, <2>9 DEF HandlerStep
<1>5. ASSUME NEW r \in Requests, DatabaseError(r)
      PROVE  TypeOK'
  BY <1>5 DEF DatabaseError, Answer
<1>6. ASSUME NEW i \in DOMAIN clients, NEW status \in {"approved", "rejected"}, SetClientStatus(i, status)
      PROVE  TypeOK'
  <2> DEFINE S == [email : Emails, status : ClientStatuses]
  <2>0. clients \in Seq(S)
    OBVIOUS
  <2>1. [email |-> clients[i].email, status |-> status] \in S
    <3>1. clients[i] \in S
      <4> HIDE DEF S
      <4> QED
        BY <2>0
    <3> QED
      BY <3>1 DEF ClientStatuses
  <2>2. clients' \in Seq(S) /\ DOMAIN clients' = DOMAIN clients
    <3> HIDE DEF S
    <3> QED
      BY <1>6, <2>0, <2>1, ExceptSeq DEF SetClientStatus
  <2> QED
    BY <1>6, <2>2 DEF SetClientStatus
<1>7. CASE UNCHANGED vars
  BY <1>7 DEF vars
<1> QED
  BY <1>1, <1>2, <1>3, <1>4, <1>5, <1>6, <1>7 DEF Next, ApproveClient, RejectClient

-----------------------------------------------------------------------------
\* What a handler at rest holds stays true while others change the tables,
\* because the tables only grow.
LEMMA HandlerAtRest ==
    ASSUME TypeOK, TablesGrow, NEW q \in Requests, HandlerOK(q),
           pc'[q] = pc[q], call'[q] = call[q], client'[q] = client[q], code'[q] = code[q]
    PROVE  HandlerOK(q)'
<1>1. Recorded(q) => Recorded(q)'
  BY DEF TablesGrow, ConnectorsGrow, Recorded
<1>2. \A i, n : Owns(i, n) => Owns(i, n)'
  BY DEF TablesGrow, ConnectorsGrow, Owns
<1>3. Registered(q) => Registered(q)'
  BY DEF TablesGrow, ClientsGrow, Registered
<1>4. approvedOnce \subseteq approvedOnce'
  BY DEF TablesGrow
<1> QED
  BY <1>1, <1>2, <1>3, <1>4 DEF HandlerOK

\* A request's own steps leave the other requests' handlers alone.
LEMMA OthersRest ==
    ASSUME TypeOK, NEW r \in Requests, Arrival(r) \/ HandlerStep(r) \/ DatabaseError(r),
           NEW q \in Requests, q # r
    PROVE  pc'[q] = pc[q] /\ call'[q] = call[q] /\ client'[q] = client[q] /\ code'[q] = code[q]
<1> USE DEF TypeOK, Goto, Answer
<1>1. CASE Arrival(r)
  BY <1>1 DEF Arrival, ReceiveRegister, ReceiveClientCall, Receive
<1>2. CASE DatabaseError(r)
  BY <1>2 DEF DatabaseError
<1>3. CASE CheckEmail(r) \/ InsertClient(r) \/ Authenticate(r)
  BY <1>3 DEF CheckEmail, InsertClient, Authenticate
<1>4. CASE CheckName(r) \/ CheckDns(r) \/ InsertConnector(r)
  BY <1>4 DEF CheckName, CheckDns, InsertConnector
<1>5. CASE SetConnectorStatus(r) \/ ReadConnectorStatus(r) \/ Reply(r)
  BY <1>5 DEF SetConnectorStatus, ReadConnectorStatus, Reply
<1> QED
  BY <1>1, <1>2, <1>3, <1>4, <1>5 DEF HandlerStep

\* A handler's own step leaves it holding what its next point needs.
LEMMA OwnStep ==
    ASSUME TypeOK, TablesOK, NEW r \in Requests, HandlerOK(r),
           Arrival(r) \/ HandlerStep(r) \/ DatabaseError(r)
    PROVE  HandlerOK(r)'
<1> USE DEF TypeOK, Goto, Answer, HandlerOK, At
<1>1. CASE \E e \in Emails : ReceiveRegister(r, e)
  BY <1>1 DEF ReceiveRegister, Receive
<1>2. CASE \E op \in {"connect", "status"}, n \in Names, k \in {UnknownKey} \cup {key.id : key \in keys} :
              ReceiveClientCall(r, op, k, n)
  BY <1>2 DEF ReceiveClientCall, Receive
<1>3. CASE DatabaseError(r)
  BY <1>3 DEF DatabaseError
<1>4. CASE CheckEmail(r)
  BY <1>4 DEF CheckEmail
<1>5. CASE InsertClient(r)
  <2>1. CASE EmailTaken(call[r].arg)
    BY <1>5, <2>1 DEF InsertClient
  <2>2. CASE ~EmailTaken(call[r].arg)
    <3>1. Registered(r)'
      BY <1>5, <2>2 DEF InsertClient, Registered
    <3> QED
      BY <1>5, <2>2, <3>1 DEF InsertClient
  <2> QED
    BY <2>1, <2>2
<1>6. CASE Authenticate(r)
  BY <1>6 DEF Authenticate, TablesOK, tables
<1>7. CASE CheckName(r)
  BY <1>7 DEF CheckName, tables
<1>8. CASE CheckDns(r)
  BY <1>8 DEF CheckDns, tables
<1>9. CASE InsertConnector(r)
  <2>1. CASE NameTaken(call[r].arg)
    BY <1>9, <2>1 DEF InsertConnector
  <2>2. CASE ~NameTaken(call[r].arg)
    <3>1. /\ connectors' = Append(connectors, NewRow(r))
          /\ client'[r] = client[r] /\ call'[r] = call[r]
      BY <1>9, <2>2 DEF InsertConnector
    <3>2. /\ Len(connectors) + 1 \in DOMAIN connectors'
          /\ connectors'[Len(connectors) + 1] = NewRow(r)
      BY <3>1
    <3>3. Owns(client[r], call[r].arg)'
      BY <3>1, <3>2 DEF Owns, NewRow
    <3> QED
      BY <1>9, <2>2, <3>3 DEF InsertConnector
  <2> QED
    BY <2>1, <2>2
<1>10. CASE SetConnectorStatus(r)
  <2>1. Recorded(r)'
    BY <1>10 DEF SetConnectorStatus, Recorded, Owns
  <2> QED
    BY <1>10, <2>1 DEF SetConnectorStatus
<1>11. CASE ReadConnectorStatus(r)
  BY <1>11 DEF ReadConnectorStatus, Owns, tables
<1>12. CASE Reply(r)
  BY <1>12 DEF Reply, Recorded, tables
<1> QED
  BY <1>1, <1>2, <1>3, <1>4, <1>5, <1>6, <1>7, <1>8, <1>9, <1>10, <1>11, <1>12
     DEF HandlerStep, Arrival

\* The handlers' part of the invariant is preserved.
LEMMA NextHandlersOK == IInv /\ [Next]_vars => HandlersOK'
<1> SUFFICES ASSUME IInv, [Next]_vars, NEW q \in Requests
             PROVE  HandlerOK(q)'
  BY DEF HandlersOK
<1>0. TypeOK /\ TablesOK /\ HandlerOK(q) /\ TablesGrow
  BY NextTablesGrow DEF IInv, HandlersOK
<1>1. ASSUME NEW r \in Requests, Arrival(r) \/ HandlerStep(r) \/ DatabaseError(r)
      PROVE  HandlerOK(q)'
  <2>1. CASE q = r
    BY <1>0, <1>1, <2>1, OwnStep
  <2>2. CASE q # r
    BY <1>0, <1>1, <2>2, OthersRest, HandlerAtRest
  <2> QED
    BY <2>1, <2>2
<1>2. CASE UNCHANGED handlers
  BY <1>0, <1>2, HandlerAtRest DEF handlers
<1>3. CASE Crash
  <2>1. UNCHANGED <<clients, connectors, approvedOnce, call, client>>
    BY <1>3 DEF Crash, tables
  <2>2. CASE pc[q] \in {"idle", "done"}
    <3>1. pc'[q] = pc[q] /\ code'[q] = code[q]
      BY <1>3, <2>2 DEF Crash
    <3> QED
      BY <1>0, <2>1, <3>1, HandlerAtRest
  <2>3. CASE pc[q] \notin {"idle", "done"}
    <3>1. pc'[q] = "done" /\ code'[q] = "lost"
      BY <1>3, <2>3 DEF Crash
    <3> QED
      BY <3>1 DEF HandlerOK
  <2> QED
    BY <2>2, <2>3
<1> QED
  BY <1>1, <1>2, <1>3 DEF Next, Startup, ApproveClient, RejectClient, SetClientStatus, vars, handlers

\* The tables' part of the invariant is preserved: the UNIQUE constraint keeps
\* addresses apart, a key is handed out for the row just inserted, and a
\* connector is inserted only by a handler whose client was approved.
LEMMA NextTablesOK == IInv /\ [Next]_vars => TablesOK'
<1> SUFFICES ASSUME IInv, [Next]_vars
             PROVE  TablesOK'
  OBVIOUS
<1>0. TypeOK /\ TablesOK /\ HandlersOK /\ TablesGrow
  BY NextTablesGrow DEF IInv
<1> USE DEF TablesOK, OwnersWereApproved
<1>1. CASE UNCHANGED <<tables, keys>>
  BY <1>0, <1>1 DEF tables
<1>2. ASSUME NEW r \in Requests, InsertClient(r)
      PROVE  TablesOK'
  <2>1. CASE EmailTaken(call[r].arg)
    BY <1>0, <1>2, <2>1 DEF InsertClient
  <2>2. CASE ~EmailTaken(call[r].arg)
    <3>1. clients' = Append(clients, [email |-> call[r].arg, status |-> "pending"])
      BY <1>2, <2>2 DEF InsertClient
    <3>2. /\ DOMAIN clients' = DOMAIN clients \cup {Len(clients) + 1}
          /\ \A i \in DOMAIN clients : i # Len(clients) + 1 /\ clients'[i] = clients[i]
          /\ clients'[Len(clients) + 1] = [email |-> call[r].arg, status |-> "pending"]
      BY <1>0, <3>1 DEF TypeOK
    <3>3. \A i \in DOMAIN clients : clients[i].email # call[r].arg
      BY <2>2 DEF EmailTaken
    <3>4. UNCHANGED <<connectors, keys, approvedOnce>>
      BY <1>2 DEF InsertClient
    <3>5. \A key \in keys : key.id \in DOMAIN clients
      BY <1>0 DEF TypeOK
    <3>6. \A i, j \in DOMAIN clients' : clients'[i].email = clients'[j].email => i = j
      BY <1>0, <3>2, <3>3
    <3> QED
      BY <1>0, <3>2, <3>4, <3>5, <3>6
  <2> QED
    BY <2>1, <2>2
<1>3. ASSUME NEW r \in Requests, InsertConnector(r)
      PROVE  TablesOK'
  <2>1. CASE NameTaken(call[r].arg)
    BY <1>0, <1>3, <2>1 DEF InsertConnector
  <2>2. CASE ~NameTaken(call[r].arg)
    <3>1. connectors' = Append(connectors, NewRow(r))
      BY <1>3, <2>2 DEF InsertConnector
    <3>2. /\ DOMAIN connectors' = DOMAIN connectors \cup {Len(connectors) + 1}
          /\ \A k \in DOMAIN connectors : /\ k # Len(connectors) + 1
                                         /\ connectors'[k] = connectors[k]
          /\ connectors'[Len(connectors) + 1] = NewRow(r)
      BY <1>0, <3>1 DEF TypeOK
    <3>3. client[r] \in approvedOnce
      BY <1>0, <1>3 DEF HandlersOK, HandlerOK, InsertConnector, At
    <3>4. UNCHANGED <<clients, keys, approvedOnce>>
      BY <1>3 DEF InsertConnector
    <3>5. \A k \in DOMAIN connectors : connectors[k].name # NewRow(r).name
      BY <2>2 DEF NameTaken, NewRow
    <3>6. \A k, l \in DOMAIN connectors' : connectors'[k].name = connectors'[l].name => k = l
      BY <1>0, <3>2, <3>5
    <3>7. \A k \in DOMAIN connectors' : connectors'[k].client \in approvedOnce
      BY <1>0, <3>2, <3>3 DEF NewRow
    <3> QED
      BY <1>0, <3>4, <3>6, <3>7
  <2> QED
    BY <2>1, <2>2
<1>4. ASSUME NEW r \in Requests, SetConnectorStatus(r)
      PROVE  TablesOK'
  BY <1>0, <1>4 DEF SetConnectorStatus
<1>5. ASSUME NEW r \in Requests, Reply(r)
      PROVE  TablesOK'
  <2>1. UNCHANGED <<clients, connectors, approvedOnce>>
    BY <1>5 DEF Reply, tables
  <2>2. \A key \in keys' : clients[key.id].email = key.email
    BY <1>0, <1>5 DEF Reply, HandlersOK, HandlerOK, Registered, At
  <2> QED
    BY <1>0, <2>1, <2>2
<1>6. ASSUME NEW i \in DOMAIN clients, NEW status \in {"approved", "rejected"}, SetClientStatus(i, status)
      PROVE  TablesOK'
  <2>1. /\ DOMAIN clients' = DOMAIN clients
        /\ \A j \in DOMAIN clients : clients'[j].email = clients[j].email
        /\ \A j \in DOMAIN clients : clients'[j].status = "approved" => j \in approvedOnce'
    BY <1>0, <1>6 DEF SetClientStatus, TypeOK
  <2>2. UNCHANGED <<connectors, keys>> /\ approvedOnce \subseteq approvedOnce'
    BY <1>6 DEF SetClientStatus
  <2>3. \A key \in keys : key.id \in DOMAIN clients
    BY <1>0 DEF TypeOK
  <2> QED
    BY <1>0, <2>1, <2>2, <2>3
<1>7. ASSUME NEW r \in Requests, Arrival(r) \/ HandlerStep(r) \/ DatabaseError(r)
      PROVE  TablesOK'
  <2>1. CASE Arrival(r)
    BY <1>1, <2>1 DEF Arrival, ReceiveRegister, ReceiveClientCall, Receive
  <2>2. CASE DatabaseError(r)
    BY <1>1, <2>2 DEF DatabaseError
  <2>3. CASE HandlerStep(r)
    BY <1>1, <1>2, <1>3, <1>4, <1>5, <2>3 DEF HandlerStep, CheckEmail, Authenticate, CheckName,
       CheckDns, ReadConnectorStatus
  <2> QED
    BY <1>7, <2>1, <2>2, <2>3
<1> QED
  BY <1>1, <1>6, <1>7 DEF Next, Startup, Crash, ApproveClient, RejectClient, vars, tables

-----------------------------------------------------------------------------
\* The invariant holds in every reachable state.
THEOREM Invariant == Spec => []IInv
<1>1. IInv /\ [Next]_vars => IInv'
  BY NextTypeOK, NextHandlersOK, NextTablesOK DEF IInv
<1> QED
  BY <1>1, InitIInv, PTL DEF Spec

\* The service is well typed at all times; rows never refer to missing clients.
THEOREM TypeCorrect == Spec => []TypeOK
  BY Invariant, PTL DEF IInv

\* However registrations of one address interleave, one API key comes of them.
THEOREM OneKey == Spec => []OneKeyPerEmail
<1>1. IInv => OneKeyPerEmail
  <2> SUFFICES ASSUME IInv, NEW a \in keys, NEW b \in keys
               PROVE  /\ clients[a.id].email = a.email
                      /\ a.email = b.email => a.id = b.id
    BY DEF OneKeyPerEmail
  <2>1. a.id \in DOMAIN clients /\ b.id \in DOMAIN clients
    BY DEF IInv, TypeOK
  <2> QED
    BY <2>1 DEF IInv, TablesOK
<1> QED
  BY <1>1, Invariant, PTL

\* No connector is ever recorded for a client that no administrator approved.
THEOREM OwnersApproved == Spec => []OwnersWereApproved
<1>1. IInv => OwnersWereApproved
  BY DEF IInv, TablesOK
<1> QED
  BY <1>1, Invariant, PTL

\* A 200 to a connector request means the row is there, complete and the
\* caller's own.
THEOREM AnswersAreTrue == Spec => []AcceptedIsRecorded
<1>1. IInv => AcceptedIsRecorded
  BY DEF IInv, HandlersOK, HandlerOK, AcceptedIsRecorded, Recorded
<1> QED
  BY <1>1, Invariant, PTL

-----------------------------------------------------------------------------
(* The refinement.  With addresses and names unique, StatusOf and OwnerOf   *)
(* read the one row of an address or a name; in these terms each INSERT and *)
(* UPDATE is one operation of the registry, and every other step a stutter. *)
AccountsRead ==
    /\ \A e \in Emails : \A i \in DOMAIN clients :
          clients[i].email = e => StatusOf(e) = clients[i].status
    /\ \A e \in Emails : ~EmailTaken(e) => StatusOf(e) = "unknown"
OwnersRead ==
    /\ \A n \in Names : \A k \in DOMAIN connectors :
          connectors[k].name = n => OwnerOf(n) = clients[connectors[k].client].email
    /\ \A n \in Names : ~NameTaken(n) => OwnerOf(n) = "nobody"

LEMMA RowsAreRead == IInv => AccountsRead /\ OwnersRead
<1> SUFFICES ASSUME IInv PROVE AccountsRead /\ OwnersRead
  OBVIOUS
<1>1. ASSUME NEW e \in Emails, NEW i \in DOMAIN clients, clients[i].email = e
      PROVE  StatusOf(e) = clients[i].status
  <2> DEFINE x == CHOOSE j \in DOMAIN clients : clients[j].email = e
  <2>1. x \in DOMAIN clients /\ clients[x].email = e
    BY <1>1
  <2>2. x = i
    BY <1>1, <2>1 DEF IInv, TablesOK
  <2> QED
    BY <1>1, <2>2 DEF StatusOf, EmailTaken
<1>2. ASSUME NEW n \in Names, NEW k \in DOMAIN connectors, connectors[k].name = n
      PROVE  OwnerOf(n) = clients[connectors[k].client].email
  <2> DEFINE x == CHOOSE l \in DOMAIN connectors : connectors[l].name = n
  <2>1. x \in DOMAIN connectors /\ connectors[x].name = n
    BY <1>2
  <2>2. x = k
    BY <1>2, <2>1 DEF IInv, TablesOK
  <2> QED
    BY <1>2, <2>2 DEF OwnerOf, NameTaken
<1> QED
  BY <1>1, <1>2 DEF AccountsRead, OwnersRead, StatusOf, OwnerOf

\* The addresses and names of the rows are those that the mapping speaks of.
LEMMA RowsWithinBounds ==
    ASSUME TypeOK
    PROVE  /\ \A i \in DOMAIN clients : clients[i].email \in Emails
           /\ \A k \in DOMAIN connectors : /\ connectors[k].name \in Names
                                           /\ connectors[k].client \in DOMAIN clients
<1> DEFINE C == [email : Emails, status : ClientStatuses]
           K == [name : Names, client : DOMAIN clients, detail : BOOLEAN]
<1>1. clients \in Seq(C) /\ connectors \in Seq(K)
  BY DEF TypeOK
<1>2. /\ \A i \in DOMAIN clients : clients[i] \in C
      /\ \A k \in DOMAIN connectors : connectors[k] \in K
  <2> HIDE DEF C, K
  <2> QED
    BY <1>1
<1> QED
  BY <1>2

\* A step that adds no row, keeps every status and vets nobody is invisible.
LEMMA RowsKept ==
    ASSUME IInv, IInv', DOMAIN clients' = DOMAIN clients, DOMAIN connectors' = DOMAIN connectors,
           \A i \in DOMAIN clients : clients'[i] = clients[i],
           \A k \in DOMAIN connectors : /\ connectors'[k].name = connectors[k].name
                                        /\ connectors'[k].client = connectors[k].client,
           approvedOnce' = approvedOnce
    PROVE  UNCHANGED <<[e \in Emails |-> StatusOf(e)], [n \in Names |-> OwnerOf(n)],
                       {clients[i].email : i \in approvedOnce}>>
<1>0. (AccountsRead /\ OwnersRead) /\ (AccountsRead /\ OwnersRead)'
  BY RowsAreRead, PTL
<1>1. ASSUME NEW e \in Emails PROVE StatusOf(e)' = StatusOf(e)
  <2>1. CASE EmailTaken(e)
    BY <1>0, <2>1 DEF EmailTaken, AccountsRead
  <2>2. CASE ~EmailTaken(e)
    <3>1. ~EmailTaken(e)'
      BY <2>2 DEF EmailTaken
    <3> QED
      BY <1>0, <2>2, <3>1 DEF AccountsRead
  <2> QED
    BY <2>1, <2>2
<1>2. ASSUME NEW n \in Names PROVE OwnerOf(n)' = OwnerOf(n)
  <2>1. CASE NameTaken(n)
    <3>1. PICK k \in DOMAIN connectors : connectors[k].name = n
      BY <2>1 DEF NameTaken
    <3>2. connectors[k].client \in DOMAIN clients
      BY RowsWithinBounds DEF IInv
    <3> QED
      BY <1>0, <3>1, <3>2 DEF OwnersRead
  <2>2. CASE ~NameTaken(n)
    <3>1. ~NameTaken(n)'
      BY <2>2 DEF NameTaken
    <3> QED
      BY <1>0, <2>2, <3>1 DEF OwnersRead
  <2> QED
    BY <2>1, <2>2
<1>3. approvedOnce \subseteq DOMAIN clients
  BY DEF IInv, TypeOK
<1> QED
  BY <1>1, <1>2, <1>3

\* create_client is Register: one new account, nothing else.
LEMMA InsertClientRegisters ==
    ASSUME IInv, IInv', NEW r \in Requests, InsertClient(r), ~EmailTaken(call[r].arg)
    PROVE  \E e \in Emails : Registry!Register(e)
<1> PICK a : a = call[r].arg
  OBVIOUS
<1>0. (AccountsRead /\ OwnersRead) /\ (AccountsRead /\ OwnersRead)'
  BY RowsAreRead, PTL
<1>1. a \in Emails
  BY DEF IInv, HandlersOK, HandlerOK, InsertClient, At
<1>2. /\ clients' = Append(clients, [email |-> a, status |-> "pending"])
      /\ UNCHANGED <<connectors, approvedOnce>>
  BY DEF InsertClient
<1>3. /\ DOMAIN clients' = DOMAIN clients \cup {Len(clients) + 1}
      /\ \A i \in DOMAIN clients : clients'[i] = clients[i]
      /\ clients'[Len(clients) + 1] = [email |-> a, status |-> "pending"]
  BY <1>2 DEF IInv, TypeOK
<1>4. StatusOf(a) = "unknown" /\ StatusOf(a)' = "pending"
  <2>1. Len(clients) + 1 \in DOMAIN clients' /\ clients'[Len(clients) + 1].email = a
        /\ clients'[Len(clients) + 1].status = "pending"
    BY <1>3
  <2> QED
    BY <1>0, <1>1, <2>1 DEF AccountsRead
<1>5. ASSUME NEW e \in Emails, e # a PROVE StatusOf(e)' = StatusOf(e)
  <2>1. CASE EmailTaken(e)
    BY <1>0, <1>3, <2>1 DEF EmailTaken, AccountsRead
  <2>2. CASE ~EmailTaken(e)
    <3>1. ~EmailTaken(e)'
      BY <1>3, <1>5, <2>2 DEF EmailTaken
    <3> QED
      BY <1>0, <2>2, <3>1 DEF AccountsRead
  <2> QED
    BY <2>1, <2>2
<1>6. ASSUME NEW n \in Names PROVE OwnerOf(n)' = OwnerOf(n)
  <2>1. CASE NameTaken(n)
    <3>1. PICK k \in DOMAIN connectors : connectors[k].name = n
      BY <2>1 DEF NameTaken
    <3>2. connectors[k].client \in DOMAIN clients
      BY RowsWithinBounds DEF IInv
    <3> QED
      BY <1>0, <1>2, <1>3, <3>1, <3>2 DEF OwnersRead
  <2>2. CASE ~NameTaken(n)
    <3>1. ~NameTaken(n)'
      BY <1>2, <2>2 DEF NameTaken
    <3> QED
      BY <1>0, <2>2, <3>1 DEF OwnersRead
  <2> QED
    BY <2>1, <2>2
<1>7. \A i \in approvedOnce : clients'[i].email = clients[i].email
  BY <1>3 DEF IInv, TypeOK
<1>8. Registry!Register(a)
  BY <1>1, <1>2, <1>4, <1>5, <1>6, <1>7 DEF Registry!Register
<1> QED
  BY <1>1, <1>8

\* set_client_status is Decide: one account changes, and an approval vets it.
LEMMA SetClientStatusDecides ==
    ASSUME IInv, IInv', NEW i \in DOMAIN clients, NEW status \in {"approved", "rejected"},
           SetClientStatus(i, status)
    PROVE  \E e \in Emails : Registry!Decide(e, status)
<1> PICK a : a = clients[i].email
  OBVIOUS
<1>0. (AccountsRead /\ OwnersRead) /\ (AccountsRead /\ OwnersRead)'
  BY RowsAreRead, PTL
<1>1. a \in Emails
  BY RowsWithinBounds DEF IInv
<1>2. /\ connectors' = connectors
      /\ approvedOnce' = IF status = "approved" THEN approvedOnce \cup {i} ELSE approvedOnce
  BY DEF SetClientStatus
<1>3. /\ DOMAIN clients' = DOMAIN clients
      /\ \A j \in DOMAIN clients : clients'[j].email = clients[j].email
      /\ \A j \in DOMAIN clients : j # i => clients'[j] = clients[j]
      /\ clients'[i].status = status
  BY DEF SetClientStatus, IInv, TypeOK
<1>4. StatusOf(a) \in ClientStatuses /\ StatusOf(a)' = status
  <2>1. clients[i].status \in ClientStatuses
    <3> DEFINE C == [email : Emails, status : ClientStatuses]
    <3>1. clients \in Seq(C)
      BY DEF IInv, TypeOK
    <3>2. clients[i] \in C
      <4> HIDE DEF C
      <4> QED
        BY <3>1
    <3> QED
      BY <3>2
  <2>2. StatusOf(a) = clients[i].status
    BY <1>0, <1>1 DEF AccountsRead
  <2> QED
    BY <1>0, <1>1, <1>3, <2>1, <2>2 DEF AccountsRead
<1>5. ASSUME NEW e \in Emails, e # a PROVE StatusOf(e)' = StatusOf(e)
  <2>1. CASE EmailTaken(e)
    <3>1. PICK j \in DOMAIN clients : clients[j].email = e
      BY <2>1 DEF EmailTaken
    <3>2. j # i
      BY <1>5, <3>1
    <3> QED
      BY <1>0, <1>3, <3>1, <3>2 DEF AccountsRead
  <2>2. CASE ~EmailTaken(e)
    <3>1. ~EmailTaken(e)'
      BY <1>3, <2>2 DEF EmailTaken
    <3> QED
      BY <1>0, <2>2, <3>1 DEF AccountsRead
  <2> QED
    BY <2>1, <2>2
<1>6. ASSUME NEW n \in Names PROVE OwnerOf(n)' = OwnerOf(n)
  <2>1. CASE NameTaken(n)
    <3>1. PICK k \in DOMAIN connectors : connectors[k].name = n
      BY <2>1 DEF NameTaken
    <3>2. connectors[k].client \in DOMAIN clients
      BY RowsWithinBounds DEF IInv
    <3> QED
      BY <1>0, <1>2, <1>3, <3>1, <3>2 DEF OwnersRead
  <2>2. CASE ~NameTaken(n)
    <3>1. ~NameTaken(n)'
      BY <1>2, <2>2 DEF NameTaken
    <3> QED
      BY <1>0, <2>2, <3>1 DEF OwnersRead
  <2> QED
    BY <2>1, <2>2
<1>7. {clients[j].email : j \in approvedOnce}'
          = IF status = "approved" THEN {clients[j].email : j \in approvedOnce} \cup {a}
            ELSE {clients[j].email : j \in approvedOnce}
  <2>1. \A j \in approvedOnce \cup {i} : clients'[j].email = clients[j].email
    BY <1>3 DEF IInv, TypeOK
  <2> QED
    BY <1>2, <2>1
<1>8. Registry!Decide(a, status)
  BY <1>1, <1>4, <1>5, <1>6, <1>7 DEF Registry!Decide, ClientStatuses
<1> QED
  BY <1>1, <1>8

\* create_connector_request is Claim, for the address of the handler's client.
LEMMA InsertConnectorClaims ==
    ASSUME IInv, IInv', NEW r \in Requests, InsertConnector(r), ~NameTaken(call[r].arg)
    PROVE  \E e \in Emails, n \in Names : Registry!Claim(n, e)
<1> PICK a, e : a = call[r].arg /\ e = clients[client[r]].email
  OBVIOUS
<1>0. (AccountsRead /\ OwnersRead) /\ (AccountsRead /\ OwnersRead)'
  BY RowsAreRead, PTL
<1>1. a \in Names /\ client[r] \in approvedOnce
  BY DEF IInv, HandlersOK, HandlerOK, InsertConnector, At
<1>2. client[r] \in DOMAIN clients /\ e \in Emails
  BY <1>1, RowsWithinBounds DEF IInv, TypeOK
<1>3. /\ connectors' = Append(connectors, NewRow(r))
      /\ UNCHANGED <<clients, approvedOnce>>
  BY DEF InsertConnector
<1>4. /\ DOMAIN connectors' = DOMAIN connectors \cup {Len(connectors) + 1}
      /\ \A k \in DOMAIN connectors : connectors'[k] = connectors[k]
      /\ connectors'[Len(connectors) + 1] = NewRow(r)
  BY <1>3 DEF IInv, TypeOK
<1>5. OwnerOf(a) = "nobody" /\ OwnerOf(a)' = e
  <2>1. Len(connectors) + 1 \in DOMAIN connectors' /\ connectors'[Len(connectors) + 1].name = a
        /\ connectors'[Len(connectors) + 1].client = client[r]
    BY <1>4 DEF NewRow
  <2>2. OwnerOf(a)' = clients'[client[r]].email
    BY <1>0, <1>1, <2>1 DEF OwnersRead
  <2> QED
    BY <1>0, <1>1, <1>3, <2>2 DEF OwnersRead
<1>6. ASSUME NEW n \in Names, n # a PROVE OwnerOf(n)' = OwnerOf(n)
  <2>1. CASE NameTaken(n)
    BY <1>0, <1>3, <1>4, <2>1 DEF NameTaken, OwnersRead
  <2>2. CASE ~NameTaken(n)
    <3>1. ~NameTaken(n)'
      BY <1>4, <1>6, <2>2 DEF NameTaken, NewRow
    <3> QED
      BY <1>0, <2>2, <3>1 DEF OwnersRead
  <2> QED
    BY <2>1, <2>2
<1>7. \A x \in Emails : StatusOf(x)' = StatusOf(x)
  BY <1>3 DEF StatusOf, EmailTaken
<1>8. Registry!Claim(a, e)
  BY <1>1, <1>2, <1>3, <1>5, <1>6, <1>7 DEF Registry!Claim
<1> QED
  BY <1>1, <1>2, <1>8

\* Every step of the service is a step of the registry or changes nothing of it.
LEMMA StepRefines ==
    IInv /\ IInv' /\ [Next]_vars
    => [Registry!Next]_<<[e \in Emails |-> StatusOf(e)], [n \in Names |-> OwnerOf(n)],
                         {clients[i].email : i \in approvedOnce}>>
<1> DEFINE view == <<[e \in Emails |-> StatusOf(e)], [n \in Names |-> OwnerOf(n)],
                     {clients[i].email : i \in approvedOnce}>>
<1> SUFFICES ASSUME IInv, IInv', [Next]_vars
             PROVE  Registry!Next \/ UNCHANGED view
  OBVIOUS
<1> HIDE DEF view
<1>1. CASE UNCHANGED tables
  BY <1>1, RowsKept DEF tables, view
<1>2. ASSUME NEW r \in Requests, InsertClient(r)
      PROVE  Registry!Next \/ UNCHANGED view
  <2>1. CASE EmailTaken(call[r].arg)
    BY <1>1, <1>2, <2>1 DEF InsertClient, tables
  <2>2. CASE ~EmailTaken(call[r].arg)
    BY <1>2, <2>2, InsertClientRegisters DEF Registry!Next
  <2> QED
    BY <2>1, <2>2
<1>3. ASSUME NEW r \in Requests, InsertConnector(r)
      PROVE  Registry!Next \/ UNCHANGED view
  <2>1. CASE NameTaken(call[r].arg)
    BY <1>1, <1>3, <2>1 DEF InsertConnector, tables
  <2>2. CASE ~NameTaken(call[r].arg)
    BY <1>3, <2>2, InsertConnectorClaims DEF Registry!Next
  <2> QED
    BY <2>1, <2>2
<1>4. ASSUME NEW r \in Requests, SetConnectorStatus(r)
      PROVE  UNCHANGED view
  BY <1>4, RowsKept DEF SetConnectorStatus, view
<1>5. ASSUME NEW i \in DOMAIN clients, NEW status \in {"approved", "rejected"},
             SetClientStatus(i, status)
      PROVE  Registry!Next
  BY <1>5, SetClientStatusDecides DEF Registry!Next
<1>6. ASSUME NEW r \in Requests, Arrival(r) \/ HandlerStep(r) \/ DatabaseError(r)
      PROVE  Registry!Next \/ UNCHANGED view
  <2>1. CASE Arrival(r)
    BY <1>1, <2>1 DEF Arrival, ReceiveRegister, ReceiveClientCall, Receive
  <2>2. CASE DatabaseError(r)
    BY <1>1, <2>2 DEF DatabaseError
  <2>3. CASE HandlerStep(r)
    BY <1>1, <1>2, <1>3, <1>4, <2>3 DEF HandlerStep, CheckEmail, Authenticate, CheckName,
       CheckDns, ReadConnectorStatus, Reply
  <2> QED
    BY <1>6, <2>1, <2>2, <2>3
<1>7. CASE Startup \/ Crash \/ UNCHANGED vars
  BY <1>1, <1>7 DEF Startup, Crash, vars, tables
<1> QED
  BY <1>5, <1>6, <1>7 DEF Next, ApproveClient, RejectClient

\* The service implements the registry: though each request is a chain of
\* transactions, what can be seen of the tables changes one atomic operation at
\* a time; an address registers once, a name gets one owner for good.
THEOREM Refinement == Spec => ImplementsRegistry
<1>1. Init => Registry!Init
  BY DEF Init, Registry!Init, StatusOf, OwnerOf, EmailTaken, NameTaken
<1> QED
  BY <1>1, Invariant, StepRefines, PTL DEF Spec, ImplementsRegistry, Registry!Spec

=============================================================================

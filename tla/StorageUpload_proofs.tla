------------------------ MODULE StorageUpload_proofs ------------------------
(***************************************************************************)
(* Theorems about StorageUpload: types are kept, uploads do not pile up in *)
(* the store, and what was uploaded without a slip is whole.  For the last *)
(* the invariant follows one chunk request through the connector: the      *)
(* parts that the connector has noted are the chunks that were sent before *)
(* (Before), unless no upload is in memory and the first chunk is next.    *)
(***************************************************************************)
EXTENDS StorageUpload, SequenceTheorems, TLAPS

\* A client waits for one request, or for none.
CallsMade ==
    /\ index \in [Users -> Nat] /\ tries \in [Users -> Nat]
    /\ \A u \in Users : IF phase[u] = "waiting" THEN call[u] \in Requests ELSE call[u] = None

Uploaders == {"store", "note", "complete", "remove", "abort", "forget"}

\* A request has its chunk and its upload while it needs them, and is done with
\* the upload before it forgets it.
RequestsHold ==
    \A r \in Requests :
        /\ pc[r] \in Uploaders => upload[r] \in Uploads
        /\ pc[r] \in Uploaders \cup {"open", "delete"} => chunk[r] \in Chunks
        /\ pc[r] = "remove" => upload[r] \notin open
        /\ pc[r] = "forget" => leaky \/ upload[r] \notin open

\* The first n chunks of u's file.
Prefix(u, n) == [i \in 1..n |-> [of |-> u, index |-> i - 1]]

\* The connector knows the chunks before u's next one.
Before(u) == \/ index[u] = 0 /\ current = None
             \/ current \in Uploads /\ parts[current] = Prefix(u, index[u])

AtLast(u) == index[u] = ChunksOf[u] - 1

\* u's upload met none of the things that the connector does not handle.
Smooth(u) == slips[u] = {} /\ Engaged(u)

Alone(u) == /\ \A v \in Users \ {u} : ~Uploading(v)
            /\ \A r \in Requests : Running(r) => phase[u] = "waiting" /\ call[u] = r

\* What r has done of u's next chunk.
Underway(u, r) ==
    /\ pc[r] \notin {"idle", "error"} => chunk[r] = [of |-> u, index |-> index[u]]
    /\ pc[r] \in {"open", "store", "delete", "error"} => Before(u)
    /\ pc[r] \in {"store", "note", "complete"} => upload[r] = current
    /\ pc[r] = "note" => /\ current \in open
                         /\ parts[current] = Prefix(u, index[u])
    /\ pc[r] = "complete" => AtLast(u) /\ parts[current] = File(u)
    /\ pc[r] = "remove" => AtLast(u) /\ object = File(u)
    /\ pc[r] = "ok" => IF AtLast(u)
                       THEN object = File(u)
                       ELSE /\ current \in Uploads
                            /\ parts[current] = Prefix(u, index[u] + 1)

OnTheWay(u) ==
    /\ phase[u] = "sending" => Before(u)
    /\ phase[u] = "waiting" => pc[call[u]] # "idle" /\ Underway(u, call[u])
    /\ phase[u] \in {"finalizing", "created"} => object = File(u)

SmoothIsAlone == \A u \in Users : Smooth(u) => Alone(u)
SmoothIsOnTheWay == \A u \in Users : Smooth(u) => OnTheWay(u)

IInv == /\ TypeOK /\ CallsMade /\ RequestsHold /\ OpenUploadsAreKnown
        /\ SmoothIsAlone /\ SmoothIsOnTheWay

---------------------------------------------------------------------------
(* Chunks and files *)

\* A user's position in the file names a chunk of it.
LEMMA ChunkMade ==
    ASSUME NEW u \in Users, NEW i \in 0 .. ChunksOf[u] - 1
    PROVE  [of |-> u, index |-> i] \in Chunks
<1> DEFINE Own == {[of |-> u, index |-> j] : j \in 0 .. ChunksOf[u] - 1}
<1>1. [of |-> u, index |-> i] \in Own
  OBVIOUS
<1>2. Own \in {{[of |-> v, index |-> j] : j \in 0 .. ChunksOf[v] - 1} : v \in Users}
  OBVIOUS
<1> QED BY <1>1, <1>2 DEF Chunks

\* A list of parts that the store has is a list of chunks: NotePart's nulls are refused.
LEMMA PartsAreChunks ==
    ASSUME NEW list \in Seq(Chunks \cup {None}), Range(list) \subseteq Chunks
    PROVE  list \in Seq(Chunks)
<1>1. Len(list) \in Nat /\ list \in [1..Len(list) -> Chunks \cup {None}]
  OBVIOUS
<1>2. \A i \in 1..Len(list) : list[i] \in Chunks
  BY <1>1 DEF Range
<1>3. list \in [1..Len(list) -> Chunks]
  BY <1>1, <1>2
<1> QED BY <1>1, <1>3

LEMMA PrefixIsSeq ==
    ASSUME NEW u \in Users, NEW n \in Nat
    PROVE  /\ Prefix(u, n) \in Seq([of : Users, index : Nat])
           /\ Len(Prefix(u, n)) = n
<1> DEFINE C == [of : Users, index : Nat]
           s == Prefix(u, n)
<1>1. s \in [1..n -> C]
  BY DEF Prefix
<1>2. s \in Seq(C)
  BY <1>1, SeqDef
<1>3. Len(s) \in Nat /\ 1..Len(s) = 1..n
  <2> HIDE DEF C, s
  <2> QED BY <1>1, <1>2, LenProperties
<1>4. Len(s) = n
  <2> DEFINE m == Len(s)
  <2>1. m \in Nat /\ 1..m = 1..n
    BY <1>3
  <2> HIDE DEF m, s
  <2>2. \A i \in Int : i \in 1..m <=> i \in 1..n
    BY <2>1
  <2>3. m = n
    BY <2>1, <2>2
  <2> QED BY <2>3 DEF m
<1> QED BY <1>2, <1>4

\* What the connector knows before the first chunk.
LEMMA PrefixEmpty == ASSUME NEW u \in Users PROVE Prefix(u, 0) = <<>>
  BY PrefixIsSeq

\* Noting u's next chunk after those before it.
LEMMA PrefixGrows ==
    ASSUME NEW u \in Users, NEW n \in Nat
    PROVE  Append(Prefix(u, n), [of |-> u, index |-> n]) = Prefix(u, n + 1)
<1> DEFINE C == [of : Users, index : Nat]
           s == Prefix(u, n)
           c == [of |-> u, index |-> n]
           t == Prefix(u, n + 1)
<1>1. s \in Seq(C) /\ Len(s) = n /\ t \in Seq(C) /\ Len(t) = n + 1 /\ c \in C
  <2>1. n + 1 \in Nat
    OBVIOUS
  <2>2. c \in C
    OBVIOUS
  <2> HIDE DEF c
  <2> QED BY <2>1, <2>2, PrefixIsSeq, Zenon
<1>2. Append(s, c) \in Seq(C) /\ Len(Append(s, c)) = n + 1
  BY <1>1
<1>3. \A i \in 1..n + 1 : Append(s, c)[i] = t[i]
  <2> SUFFICES ASSUME NEW i \in 1..n + 1 PROVE Append(s, c)[i] = t[i]
    OBVIOUS
  <2>1. CASE i = n + 1
    BY <1>1, <2>1 DEF Prefix
  <2>2. CASE i # n + 1
    <3>1. i \in 1..n
      BY <2>2
    <3>2. s[i] = t[i]
      BY <3>1 DEF Prefix
    <3> HIDE DEF s, c, t
    <3> QED BY <1>1, <3>1, <3>2
  <2> QED BY <2>1, <2>2
<1>4. Append(s, c) = t
  <2> HIDE DEF s, c, t, C
  <2> QED BY <1>1, <1>2, <1>3, SeqEqual
<1> QED BY <1>4

LEMMA FileIsPrefix == ASSUME NEW u \in Users PROVE File(u) = Prefix(u, ChunksOf[u])
  BY DEF File, Prefix

---------------------------------------------------------------------------
(* Types *)

\* The types, by what they are types of.
ClientTypes ==
    /\ phase \in [Users -> {"idle", "sending", "waiting", "finalizing", "created", "stopped"}]
    /\ \A u \in Users : index[u] \in 0 .. ChunksOf[u] - 1 /\ tries[u] \in 0 .. TriesOf[u] - 1
    /\ call \in [Users -> Requests \cup {None}]
RequestTypes ==
    /\ pc \in [Requests -> Steps]
    /\ chunk \in [Requests -> Chunks \cup {None}]
    /\ upload \in [Requests -> Uploads \cup {None}]
StoreTypes ==
    /\ current \in Uploads \cup {None}
    /\ parts \in [Uploads -> Seq(Chunks \cup {None})]
    /\ open \subseteq Uploads /\ stored \in [Uploads -> SUBSET Chunks]
    /\ object \in Seq(Chunks)
TallyTypes ==
    /\ faults \in 0..MaxFaults /\ restarts \in 0..MaxRestarts /\ begins \in 0..MaxBegins
    /\ slips \in [Users -> SUBSET Slips] /\ leaky \in BOOLEAN

LEMMA TypeParts == TypeOK <=> ClientTypes /\ RequestTypes /\ StoreTypes /\ TallyTypes
  BY DEF TypeOK, ClientTypes, RequestTypes, StoreTypes, TallyTypes

LEMMA ClientTypesStep == IInv /\ [Next]_vars => ClientTypes' /\ CallsMade'
<1> SUFFICES ASSUME IInv, [Next]_vars PROVE ClientTypes' /\ CallsMade'
  OBVIOUS
<1>0. ClientTypes /\ CallsMade /\ ChunksOf \in [Users -> Nat \ {0}] /\ TriesOf \in [Users -> Nat \ {0}]
  BY TypeParts, ClientAssumption DEF IInv
<1> USE NoneAssumption
<1>1. CASE UNCHANGED client
  BY <1>0, <1>1 DEF client, ClientTypes, CallsMade
<1>2. CASE \E r \in Requests : Work(r)
  BY <1>1, <1>2 DEF Work, Open, StorePart, NotePart, Complete, Remove, Abort, Forget, Delete, Unheard
<1>3. ASSUME NEW u \in Users, Begin(u) PROVE ClientTypes' /\ CallsMade'
  BY <1>0, <1>3 DEF Begin, ClientTypes, CallsMade
<1>4. ASSUME NEW u \in Users, NEW r \in Requests, Send(u, r) PROVE ClientTypes' /\ CallsMade'
  BY <1>0, <1>4 DEF Send, ClientTypes, CallsMade
<1>5. ASSUME NEW u \in Users, Receive(u) PROVE ClientTypes' /\ CallsMade'
  <2>1. CASE NextChunk(u)
    BY <1>0, <1>5, <2>1 DEF Receive, NextChunk, ClientTypes, CallsMade
  <2>2. CASE TryAgain(u)
    BY <1>0, <1>5, <2>2 DEF Receive, TryAgain, ClientTypes, CallsMade
  <2> QED BY <1>5, <2>1, <2>2 DEF Receive
<1>6. ASSUME NEW u \in Users, LoseAnswer(u) PROVE ClientTypes' /\ CallsMade'
  BY <1>0, <1>6 DEF LoseAnswer, TryAgain, ClientTypes, CallsMade
<1>7. ASSUME NEW u \in Users, Finalize(u) PROVE ClientTypes' /\ CallsMade'
  BY <1>0, <1>7 DEF Finalize, ClientTypes, CallsMade
<1>8. CASE Restart
  BY <1>1, <1>8 DEF Restart
<1>9. CASE UNCHANGED vars
  BY <1>1, <1>9 DEF vars
<1> QED BY <1>2, <1>3, <1>4, <1>5, <1>6, <1>7, <1>8, <1>9 DEF Next, Move

LEMMA RequestTypesStep == IInv /\ [Next]_vars => RequestTypes'
<1> SUFFICES ASSUME IInv, [Next]_vars PROVE RequestTypes'
  OBVIOUS
<1>0. RequestTypes /\ current \in Uploads \cup {None}
  BY TypeParts DEF IInv, StoreTypes
<1>1. CASE UNCHANGED requests
  BY <1>0, <1>1 DEF requests, RequestTypes
<1>2. ASSUME NEW r \in Requests, Open(r) PROVE RequestTypes'
  BY <1>0, <1>2 DEF Open, Unused, Goto, Steps, RequestTypes
<1>3. ASSUME NEW r \in Requests,
             StorePart(r) \/ NotePart(r) \/ Complete(r) \/ Remove(r) \/ Abort(r) \/ Forget(r) \/ Delete(r)
      PROVE  RequestTypes'
  BY <1>0, <1>3 DEF StorePart, NotePart, Complete, Remove, Abort, Forget, Delete, Goto, Steps,
                    RequestTypes
<1>4. ASSUME NEW r \in Requests, Over(r) PROVE RequestTypes'
  BY <1>0, <1>4 DEF Over, Goto, Steps, RequestTypes
<1>5. ASSUME NEW u \in Users, NEW r \in Requests, Send(u, r) PROVE RequestTypes'
  <2>1. [of |-> u, index |-> index[u]] \in Chunks
    BY ChunkMade, TypeParts DEF IInv, ClientTypes
  <2> QED BY <1>0, <1>5, <2>1 DEF Send, Goto, Steps, RequestTypes
<1>6. ASSUME NEW u \in Users, Receive(u) PROVE RequestTypes'
  <2>1. call[u] \in Requests /\ Over(call[u])
    BY <1>6 DEF Receive, IInv, CallsMade
  <2> QED BY <1>4, <2>1
<1>7. CASE Restart
  BY <1>0, <1>7 DEF Restart, Steps, RequestTypes
<1>8. CASE \E r \in Requests : Unheard(r)
  BY <1>4, <1>8 DEF Unheard
<1>9. CASE \E u \in Users : Begin(u) \/ LoseAnswer(u) \/ Finalize(u)
  BY <1>1, <1>9 DEF Begin, LoseAnswer, Finalize
<1>10. CASE UNCHANGED vars
  BY <1>1, <1>10 DEF vars
<1> QED BY <1>2, <1>3, <1>5, <1>6, <1>7, <1>8, <1>9, <1>10 DEF Next, Work, Move

LEMMA TallyTypesStep == IInv /\ [Next]_vars => TallyTypes'
<1> SUFFICES ASSUME IInv, [Next]_vars PROVE TallyTypes'
  OBVIOUS
<1>0. TallyTypes /\ MaxFaults \in Nat /\ MaxRestarts \in Nat /\ MaxBegins \in Nat
  BY TypeParts, BoundsAssumption DEF IInv
<1>1. CASE UNCHANGED <<restarts, begins>> /\ (Works \/ Glitch) /\ slips' = slips /\ leaky' \in BOOLEAN
  BY <1>0, <1>1 DEF TallyTypes, Works, Glitch
<1>2. ASSUME NEW r \in Requests, Work(r) PROVE TallyTypes'
  <2>1. leaky' \in BOOLEAN
    BY <1>0, <1>2 DEF Work, Open, StorePart, NotePart, Complete, Remove, Abort, Forget, Delete,
                      Unheard, RemoveKey, TallyTypes
  <2>2. UNCHANGED <<restarts, begins>> /\ (Works \/ Glitch)
    BY <1>2 DEF Work, Open, StorePart, NotePart, Complete, Remove, Abort, Forget, Delete,
                Unheard, counts, Works
  <2>3. CASE Forget(r)
    BY <1>0, <2>1, <2>2, <2>3 DEF Forget, Slipped, Slips, TallyTypes
  <2>4. CASE ~Forget(r)
    BY <1>1, <1>2, <2>1, <2>2, <2>4 DEF Work, Open, StorePart, NotePart, Complete, Remove, Abort,
                                       Delete, Unheard
  <2> QED BY <2>3, <2>4
<1>3. ASSUME NEW u \in Users, Begin(u) PROVE TallyTypes'
  BY <1>0, <1>3 DEF Begin, Slipped, Slips, TallyTypes
<1>4. ASSUME NEW u \in Users, LoseAnswer(u) PROVE TallyTypes'
  BY <1>0, <1>4 DEF LoseAnswer, Glitch, Slipped, Slips, counts, TallyTypes
<1>5. ASSUME NEW u \in Users, Receive(u) \/ Finalize(u) \/ \E r \in Requests : Send(u, r)
      PROVE  TallyTypes'
  BY <1>0, <1>1, <1>5 DEF Receive, Finalize, Send, counts, Works, TallyTypes
<1>6. CASE Restart
  <2>1. UNCHANGED <<faults, begins>> /\ restarts' \in 0..MaxRestarts
    BY <1>0, <1>6 DEF Restart, TallyTypes
  <2>2. slips' \in [Users -> SUBSET Slips]
    BY <1>0, <1>6 DEF Restart, Slipped, Slips, TallyTypes
  <2>3. leaky' \in BOOLEAN
    BY <1>0, <1>6 DEF Restart, TallyTypes
  <2> QED BY <1>0, <2>1, <2>2, <2>3 DEF TallyTypes
<1>7. CASE UNCHANGED vars
  BY <1>0, <1>7 DEF vars, counts, TallyTypes
<1> QED BY <1>2, <1>3, <1>4, <1>5, <1>6, <1>7 DEF Next, Move

LEMMA StoreTypesStep == IInv /\ [Next]_vars => StoreTypes'
<1> SUFFICES ASSUME IInv, [Next]_vars PROVE StoreTypes'
  OBVIOUS
<1>0. StoreTypes /\ RequestTypes /\ RequestsHold
  BY TypeParts DEF IInv
<1> DEFINE Lists == Seq(Chunks \cup {None})
<1>1. <<>> \in Lists /\ <<>> \in Seq(Chunks)
  OBVIOUS
<1>2. CASE UNCHANGED <<current, parts, store>>
  BY <1>0, <1>2 DEF store, StoreTypes
<1>3. ASSUME NEW i \in Uploads, Ended(i) \/ UNCHANGED <<open, stored, parts>>,
             current' \in Uploads \cup {None}, object' \in Seq(Chunks)
      PROVE  StoreTypes'
  <2> HIDE DEF Lists
  <2>1. parts' \in [Uploads -> Lists]
    BY <1>0, <1>1, <1>3 DEF Ended, StoreTypes, Lists
  <2>2. open' \subseteq Uploads /\ stored' \in [Uploads -> SUBSET Chunks]
    BY <1>0, <1>3 DEF Ended, StoreTypes
  <2> QED BY <1>3, <2>1, <2>2 DEF StoreTypes, Lists
<1>4. ASSUME NEW r \in Requests, Open(r) PROVE StoreTypes'
  <2>1. UNCHANGED object /\ current' \in Uploads \cup {None}
    BY <1>0, <1>4 DEF Open, Unused, StoreTypes
  <2>2. CASE UNCHANGED <<parts, open, stored>>
    BY <1>0, <2>1, <2>2 DEF StoreTypes
  <2>3. ASSUME NEW i \in Uploads, Create(i) PROVE StoreTypes'
    <3> HIDE DEF Lists
    <3>1. parts' \in [Uploads -> Lists]
      BY <1>0, <1>1, <2>3 DEF Create, StoreTypes, Lists
    <3>2. open' \subseteq Uploads /\ stored' \in [Uploads -> SUBSET Chunks]
      BY <1>0, <2>3 DEF Create, StoreTypes
    <3> QED BY <1>0, <2>1, <3>1, <3>2 DEF StoreTypes, Lists
  <2> QED BY <1>4, <2>2, <2>3 DEF Open, Unused
<1>5. ASSUME NEW r \in Requests, StorePart(r) PROVE StoreTypes'
  <2>1. upload[r] \in Uploads /\ chunk[r] \in Chunks
    BY <1>0, <1>5 DEF StorePart, RequestsHold, Uploaders
  <2>2. Stored(upload[r], chunk[r]) \in [Uploads -> SUBSET Chunks]
    BY <1>0, <2>1 DEF Stored, StoreTypes
  <2>3. stored' \in {stored, Stored(upload[r], chunk[r])} /\ UNCHANGED <<current, parts, open, object>>
    BY <1>5 DEF StorePart
  <2> QED BY <1>0, <2>2, <2>3 DEF StoreTypes
<1>6. ASSUME NEW r \in Requests, NotePart(r) PROVE StoreTypes'
  <2>1. upload[r] \in Uploads /\ chunk[r] \in Chunks
    BY <1>0, <1>6 DEF NotePart, RequestsHold, Uploaders
  <2>2. \A c \in Chunks \cup {None} : Append(parts[upload[r]], c) \in Lists
    BY <1>0, <2>1 DEF StoreTypes
  <2>3. parts' = parts \/ \E c \in Chunks \cup {None} :
                              parts' = [parts EXCEPT ![upload[r]] = Append(@, c)]
    BY <1>6, <2>1 DEF NotePart
  <2>4. parts' \in [Uploads -> Lists]
    <3> HIDE DEF Lists
    <3> QED BY <1>0, <2>1, <2>2, <2>3 DEF StoreTypes, Lists
  <2>5. UNCHANGED <<current, store>>
    BY <1>6 DEF NotePart
  <2> QED BY <1>0, <2>4, <2>5 DEF StoreTypes, store
<1>7. ASSUME NEW r \in Requests, Complete(r) PROVE StoreTypes'
  <2>1. upload[r] \in Uploads
    BY <1>0, <1>7 DEF Complete, RequestsHold, Uploaders
  <2>2. Acceptable(upload[r]) => parts[upload[r]] \in Seq(Chunks)
    BY <1>0, <2>1, PartsAreChunks DEF Acceptable, StoreTypes
  <2>3. object' \in Seq(Chunks)
    BY <1>0, <1>7, <2>2 DEF Complete, Completed, StoreTypes
  <2>4. Ended(upload[r]) \/ UNCHANGED <<open, stored, parts>>
    BY <1>7 DEF Complete, Completed
  <2>5. UNCHANGED current
    BY <1>7 DEF Complete
  <2> QED BY <1>0, <1>3, <2>1, <2>3, <2>4, <2>5 DEF StoreTypes
<1>8. ASSUME NEW r \in Requests, Remove(r) \/ Forget(r) PROVE StoreTypes'
  BY <1>0, <1>8 DEF Remove, Forget, RemoveKey, store, StoreTypes
<1>9. ASSUME NEW r \in Requests, Abort(r) PROVE StoreTypes'
  <2>1. upload[r] \in Uploads
    BY <1>0, <1>9 DEF Abort, RequestsHold, Uploaders
  <2>2. Ended(upload[r]) \/ UNCHANGED <<open, stored, parts>>
    BY <1>9 DEF Abort
  <2>3. UNCHANGED <<current, object>>
    BY <1>9 DEF Abort
  <2> QED BY <1>0, <1>3, <2>1, <2>2, <2>3 DEF StoreTypes
<1>10. ASSUME NEW r \in Requests, Delete(r) PROVE StoreTypes'
  BY <1>0, <1>1, <1>10 DEF Delete, StoreTypes
<1>11. CASE \E r \in Requests : Unheard(r)
  BY <1>2, <1>11 DEF Unheard
<1>12. CASE \E u \in Users : Move(u)
  BY <1>2, <1>12 DEF Move, Begin, Send, Receive, LoseAnswer, Finalize
<1>13. CASE Restart
  BY <1>0, <1>13 DEF Restart, store, StoreTypes
<1>14. CASE UNCHANGED vars
  BY <1>2, <1>14 DEF vars
<1> QED BY <1>4, <1>5, <1>6, <1>7, <1>8, <1>9, <1>10, <1>11, <1>12, <1>13, <1>14 DEF Next, Work

---------------------------------------------------------------------------
(* Requests and their uploads *)

LEMMA RequestsHoldStep == IInv /\ [Next]_vars => RequestsHold'
<1> SUFFICES ASSUME IInv, [Next]_vars, NEW q \in Requests
             PROVE  RequestsHold!(q)'
  BY DEF RequestsHold
<1>0. RequestsHold /\ RequestTypes /\ current \in Uploads \cup {None}
  BY TypeParts DEF IInv, StoreTypes
<1> USE DEF Uploaders
<1>1. CASE UNCHANGED <<pc[q], chunk[q], upload[q], leaky>> /\ open' \subseteq open
  BY <1>0, <1>1 DEF RequestsHold
<1>2. ASSUME NEW r \in Requests, Open(r) PROVE RequestsHold!(q)'
  <2>1. CASE r = q
    BY <1>0, <1>2, <2>1 DEF Open, Goto, Unused, RequestTypes, RequestsHold
  <2>2. CASE r # q
    <3>1. UNCHANGED <<pc[q], chunk[q], upload[q]>>
      BY <1>0, <1>2, <2>2 DEF Open, Goto, RequestTypes
    <3>2. open' = open \/ \E i \in Unused : open' = open \cup {i}
      BY <1>2 DEF Open, Create
    <3>3. upload[q] \in open' => upload[q] \in open
      BY <3>2 DEF Unused
    <3>4. leaky => leaky'
      BY <1>2 DEF Open
    <3> QED BY <1>0, <3>1, <3>3, <3>4 DEF RequestsHold
  <2> QED BY <2>1, <2>2
<1>3. ASSUME NEW r \in Requests,
             \/ StorePart(r) \/ NotePart(r) \/ Complete(r) \/ Remove(r)
             \/ Abort(r) \/ Forget(r) \/ Delete(r)
      PROVE  RequestsHold!(q)'
  <2>1. CASE r = q
    BY <1>0, <1>3, <2>1 DEF StorePart, NotePart, Complete, Completed, Remove, Abort, Forget, Delete,
                            Ended, Goto, store, RequestTypes, RequestsHold
  <2>2. CASE r # q
    <3>1. UNCHANGED <<pc[q], chunk[q], upload[q]>> /\ open' \subseteq open
      BY <1>0, <1>3, <2>2 DEF StorePart, NotePart, Complete, Completed, Remove, Abort, Forget, Delete,
                              Ended, Goto, store, RequestTypes
    <3>2. leaky => leaky'
      BY <1>3 DEF StorePart, NotePart, Complete, Remove, Abort, Forget, Delete, RemoveKey
    <3> QED BY <1>0, <3>1, <3>2 DEF RequestsHold
  <2> QED BY <2>1, <2>2
<1>4. ASSUME NEW r \in Requests, Over(r), UNCHANGED <<open, leaky>> PROVE RequestsHold!(q)'
  BY <1>0, <1>4 DEF Over, Goto, RequestTypes, RequestsHold
<1>5. ASSUME NEW u \in Users, NEW r \in Requests, Send(u, r) PROVE RequestsHold!(q)'
  <2>1. [of |-> u, index |-> index[u]] \in Chunks
    BY ChunkMade, TypeParts DEF IInv, ClientTypes
  <2> QED BY <1>0, <1>5, <2>1 DEF Send, Goto, store, RequestTypes, RequestsHold
<1>6. ASSUME NEW u \in Users, Receive(u) PROVE RequestsHold!(q)'
  <2>1. call[u] \in Requests /\ Over(call[u]) /\ UNCHANGED <<open, leaky>>
    BY <1>6 DEF Receive, store, IInv, CallsMade
  <2> QED BY <1>4, <2>1
<1>7. CASE Restart
  BY <1>0, <1>7 DEF Restart, RequestTypes, RequestsHold
<1>8. CASE \E r \in Requests : Unheard(r)
  BY <1>4, <1>8 DEF Unheard, store
<1>9. CASE \E u \in Users : Begin(u) \/ LoseAnswer(u) \/ Finalize(u)
  BY <1>1, <1>9 DEF Begin, LoseAnswer, Finalize, requests, store
<1>10. CASE UNCHANGED vars
  BY <1>1, <1>10 DEF vars, requests, store
<1> QED BY <1>2, <1>3, <1>5, <1>6, <1>7, <1>8, <1>9, <1>10 DEF Next, Work, Move

\* A request that takes the name out of memory is done with its own upload.
LEMMA KnownStep == IInv /\ [Next]_vars => OpenUploadsAreKnown'
<1> SUFFICES ASSUME IInv, [Next]_vars, ~leaky' PROVE open' \subseteq {current'}
  BY DEF OpenUploadsAreKnown
<1>0. ~leaky => open \subseteq {current}
  BY DEF IInv, OpenUploadsAreKnown
<1>1. RequestsHold /\ current \in Uploads \cup {None} /\ open \subseteq Uploads
  BY TypeParts DEF IInv, StoreTypes
<1>2. CASE UNCHANGED <<current, leaky>> /\ open' \subseteq open
  BY <1>0, <1>2
<1>3. ASSUME NEW r \in Requests, Open(r) PROVE open' \subseteq {current'}
  BY <1>0, <1>1, <1>3, NoneAssumption DEF Open, Create
<1>4. ASSUME NEW r \in Requests, StorePart(r) \/ NotePart(r) \/ Complete(r) \/ Delete(r) \/ Unheard(r)
      PROVE  open' \subseteq {current'}
  BY <1>2, <1>4 DEF StorePart, NotePart, Complete, Completed, Ended, Delete, Unheard, store
<1>5. ASSUME NEW r \in Requests, Remove(r) \/ Forget(r) PROVE open' \subseteq {current'}
  <2>1. ~leaky /\ current \in {None, upload[r]} /\ UNCHANGED open
    BY <1>5 DEF Remove, Forget, RemoveKey, store
  <2>2. upload[r] \notin open
    BY <1>1, <1>5, <2>1 DEF Remove, Forget, RequestsHold
  <2> QED BY <1>0, <1>1, <2>1, <2>2, NoneAssumption
<1>6. ASSUME NEW r \in Requests, Abort(r) PROVE open' \subseteq {current'}
  <2>1. ~leaky /\ UNCHANGED current
    <3>1. leaky' = leaky \/ leaky' = (leaky \/ upload[r] \in open)
      BY <1>6 DEF Abort
    <3>2. UNCHANGED current
      BY <1>6 DEF Abort
    <3>3. leaky \in BOOLEAN
      BY TypeParts DEF IInv, TallyTypes
    <3>4. CASE leaky = TRUE
      BY <3>1, <3>4
    <3> QED BY <3>2, <3>3, <3>4
  <2>2. open' \subseteq open
    BY <1>6 DEF Abort, Ended
  <2> QED BY <1>0, <2>1, <2>2
<1>7. CASE \E u \in Users : Move(u)
  BY <1>2, <1>7 DEF Move, Begin, Send, Receive, LoseAnswer, Finalize, store
<1>8. CASE Restart
  BY <1>8 DEF Restart, store
<1>9. CASE UNCHANGED vars
  BY <1>2, <1>9 DEF vars, store
<1> QED BY <1>3, <1>4, <1>5, <1>6, <1>7, <1>8, <1>9 DEF Next, Work

---------------------------------------------------------------------------
(* Smooth uploads *)

\* Who has no slip afterwards had none before, and this was not about them.
LEMMA NotSlipped ==
    ASSUME NEW u \in Users, NEW set, NEW s, Slipped(set, s)[u] = {}
    PROVE  u \notin set /\ slips[u] = {}
  BY DEF Slipped

\* A client whose upload is smooth after a step began it just then, with nothing
\* else going on, or had a smooth upload before.
LEMMA SmoothBefore ==
    ASSUME IInv, [Next]_vars, NEW u \in Users, Smooth(u)'
    PROVE  \/ Smooth(u) /\ ~\E v \in Users : Begin(v) \/ LoseAnswer(v)
           \/ /\ Begin(u) /\ \A v \in Users \ {u} : ~Uploading(v)
              /\ \A r \in Requests : ~Running(r)
              /\ current # None => parts[current] = <<>>
<1>0. ClientTypes /\ TallyTypes
  BY TypeParts DEF IInv
<1>1. CASE \E v \in Users : Begin(v)
  <2> PICK v \in Users : Begin(v)
    BY <1>1
  <2>1. CASE v # u
    <3>1. Engaged(u)
      BY <1>0, <2>1 DEF Begin, Smooth, Engaged, ClientTypes
    <3>2. slips'[u] = Slipped({w \in Users : Engaged(w)}, "shared")[u]
      BY <1>0, <2>1 DEF Begin, Slipped
    <3> QED BY <3>1, <3>2, NotSlipped DEF Smooth
  <2>2. CASE v = u
    <3>1. slips'[u] = (IF \/ \E w \in Users \ {u} : Uploading(w)
                          \/ \E r \in Requests : Running(r)
                       THEN {"shared"} ELSE {})
                      \cup (IF current # None /\ parts[current] # <<>> THEN {"leftover"} ELSE {})
      BY <2>2 DEF Begin, Slipped
    <3> QED BY <2>2, <3>1 DEF Smooth
  <2> QED BY <2>1, <2>2
<1>2. CASE \E v \in Users : LoseAnswer(v)
  <2> PICK v \in Users : LoseAnswer(v)
    BY <1>2
  <2>1. Engaged(u)
    BY <1>0 DEF LoseAnswer, TryAgain, Smooth, Engaged, ClientTypes
  <2>2. slips'[u] = Slipped({w \in Users : Engaged(w)}, "late")[u]
    BY DEF LoseAnswer
  <2> QED BY <2>1, <2>2, NotSlipped DEF Smooth
<1>3. CASE ~\E v \in Users : Begin(v) \/ LoseAnswer(v)
  <2>1. Engaged(u)
    BY <1>0, <1>3 DEF Smooth, Engaged, Next, Work, Open, StorePart, NotePart, Complete, Remove, Abort,
                      Forget, Delete, Unheard, Move, Send, Receive, NextChunk, TryAgain, Finalize,
                      Restart, vars, client, ClientTypes
  <2>2. slips[u] = {}
    <3>1. CASE UNCHANGED slips
      BY <3>1 DEF Smooth
    <3>2. CASE slips' = Slipped(Midway, "aborted") \/ slips' = Slipped(Midway, "restarted")
      BY <3>2, NotSlipped DEF Smooth
    <3> QED BY <1>3, <3>1, <3>2 DEF Next, Work, Open, StorePart, NotePart, Complete, Remove, Abort,
                      Forget, Delete, Unheard, Move, Send, Receive, Finalize, Restart, vars
  <2> QED BY <1>3, <2>1, <2>2 DEF Smooth
<1> QED BY <1>1, <1>2, <1>3

\* Nobody else comes in while an upload is smooth.
LEMMA AloneStep == IInv /\ [Next]_vars => SmoothIsAlone'
<1> SUFFICES ASSUME IInv, [Next]_vars, NEW u \in Users, Smooth(u)' PROVE Alone(u)'
  BY DEF SmoothIsAlone
<1>0. ClientTypes /\ RequestTypes /\ CallsMade
  BY TypeParts DEF IInv
<1>1. CASE /\ Begin(u) /\ \A v \in Users \ {u} : ~Uploading(v)
           /\ \A r \in Requests : ~Running(r)
  BY <1>0, <1>1 DEF Begin, Alone, Uploading, Running, requests, ClientTypes
<1>2. CASE Smooth(u) /\ ~\E v \in Users : Begin(v) \/ LoseAnswer(v)
  <2>0. Alone(u)
    BY <1>2 DEF IInv, SmoothIsAlone
  <2>1. CASE UNCHANGED client /\ \A r \in Requests : Running(r)' => Running(r)
    BY <2>0, <2>1 DEF Alone, client, Uploading
  <2>2. ASSUME NEW r \in Requests, Work(r) PROVE Alone(u)'
    <3>1. UNCHANGED client /\ \A q \in Requests \ {r} : UNCHANGED pc[q]
      BY <1>0, <2>2 DEF Work, Open, StorePart, NotePart, Complete, Remove, Abort, Forget, Delete,
                        Unheard, Over, Goto, RequestTypes
    <3>2. Running(r)
      BY <2>2 DEF Work, Open, StorePart, NotePart, Complete, Remove, Abort, Forget, Delete,
                  Unheard, Running
    <3> QED BY <2>1, <3>1, <3>2 DEF Running
  <2>3. ASSUME NEW v \in Users \ {u},
               Receive(v) \/ Finalize(v) \/ \E r \in Requests : Send(v, r)
        PROVE  FALSE
    BY <2>0, <2>3 DEF Alone, Receive, Finalize, Send, Uploading
  <2>4. ASSUME NEW r \in Requests, Send(u, r) PROVE Alone(u)'
    BY <1>0, <2>0, <2>4 DEF Send, Goto, Alone, Uploading, Running, ClientTypes, RequestTypes
  <2>5. ASSUME Receive(u) PROVE Alone(u)'
    <3>1. \A v \in Users \ {u} : UNCHANGED phase[v]
      BY <1>0, <2>5 DEF Receive, NextChunk, TryAgain, ClientTypes
    <3>2. \A r \in Requests : ~Running(r)'
      BY <1>0, <2>0, <2>5 DEF Receive, Over, Goto, Alone, Running, CallsMade, RequestTypes
    <3> QED BY <2>0, <3>1, <3>2 DEF Alone, Uploading
  <2>6. ASSUME Finalize(u) PROVE Alone(u)'
    BY <1>0, <2>0, <2>6 DEF Finalize, requests, Alone, Uploading, Running, ClientTypes
  <2>7. CASE Restart
    <3>1. \A r \in Requests : Running(r)' => \E v \in Users : call[v] = r
      BY <2>7 DEF Restart, Running
    <3>2. \A v \in Users : call[v] \in Requests => phase[v] = "waiting"
      BY <1>0, NoneAssumption DEF CallsMade
    <3>3. \A r \in Requests : Running(r)' => phase[u] = "waiting" /\ call[u] = r
      BY <2>0, <3>1, <3>2 DEF Alone, Uploading
    <3> QED BY <2>0, <2>7, <3>3 DEF Restart, client, Alone, Uploading
  <2>8. CASE UNCHANGED vars
    BY <2>1, <2>8 DEF vars, requests, Running
  <2> QED BY <1>2, <2>2, <2>3, <2>4, <2>5, <2>6, <2>7, <2>8 DEF Next, Move
<1> QED BY <1>1, <1>2, SmoothBefore

\* A request of a smooth upload takes its chunk one step on.
LEMMA UnderwayStep ==
    ASSUME IInv, NEW r \in Requests, Work(r), NEW u \in Users, Smooth(u), Smooth(u)'
    PROVE  OnTheWay(u)'
<1>0. /\ ClientTypes /\ RequestTypes /\ StoreTypes /\ CallsMade /\ RequestsHold
      /\ ChunksOf[u] \in Nat /\ index[u] \in Nat
  BY TypeParts, ClientAssumption DEF IInv, ClientTypes, CallsMade
<1>1. Running(r)
  BY DEF Work, Open, StorePart, NotePart, Complete, Remove, Abort, Forget, Delete, Unheard, Running
<1>2. /\ phase[u] = "waiting" /\ call[u] = r
      /\ \A q \in Requests \ {r} : ~Running(q)
      /\ Underway(u, r)
  BY <1>1 DEF IInv, SmoothIsAlone, Alone, SmoothIsOnTheWay, OnTheWay
<1>3. UNCHANGED <<phase, call, index>> /\ ~Unheard(r)
  BY <1>2 DEF Work, Open, StorePart, NotePart, Complete, Remove, Abort, Forget, Delete, Unheard, client
<1>4. SUFFICES pc'[r] # "idle" /\ Underway(u, r)'
  BY <1>2, <1>3 DEF OnTheWay
<1>5. pc[r] # "error" /\ chunk[r] = [of |-> u, index |-> index[u]] /\ UNCHANGED chunk[r]
  BY <1>1, <1>2, <1>3 DEF Work, Open, StorePart, NotePart, Complete, Remove, Abort, Forget, Delete,
                     Underway, Running
<1>6. IsLast(chunk[r]) <=> AtLast(u)
  BY <1>5 DEF IsLast, AtLast
<1>7. CASE Open(r)
  <2>1. Before(u)
    BY <1>2, <1>7 DEF Open, Underway
  <2>2. CASE current # None
    BY <1>0, <1>2, <1>3, <1>5, <1>7, <2>1, <2>2 DEF Open, Goto, Before, Underway, RequestTypes
  <2>3. CASE current = None
    <3>1. index[u] = 0
      BY <2>1, <2>3, NoneAssumption DEF Before
    <3>2. CASE \E i \in Unused : /\ Create(i) /\ current' = i
                                 /\ upload' = [upload EXCEPT ![r] = i]
      <4> PICK i \in Unused : Create(i) /\ current' = i /\ upload' = [upload EXCEPT ![r] = i]
        BY <3>2
      <4>1. pc'[r] = "store"
        BY <1>0, <1>7, <2>3, <3>2, NoneAssumption DEF Open, Goto, Unused, RequestTypes
      <4>2. Before(u)'
        BY <1>0, <1>3, <3>1, PrefixEmpty DEF Create, Unused, Before, StoreTypes
      <4> QED BY <1>0, <1>3, <1>5, <4>1, <4>2 DEF Underway, RequestTypes
    <3>3. CASE UNCHANGED <<upload, current>> /\ Goto(r, "delete")
      BY <1>0, <1>3, <1>5, <2>3, <3>1, <3>3 DEF Goto, Before, Underway, RequestTypes
    <3> QED BY <1>7, <2>3, <3>2, <3>3 DEF Open
  <2> QED BY <2>2, <2>3
<1>8. CASE StorePart(r)
  <2>1. Before(u) /\ upload[r] = current /\ current \in Uploads
    BY <1>0, <1>2, <1>8 DEF StorePart, Underway, RequestsHold, Uploaders
  <2>2. UNCHANGED <<current, parts, open, upload>> /\ parts[current] = Prefix(u, index[u])
    BY <1>8, <2>1, NoneAssumption DEF StorePart, Before
  <2>3. pc'[r] \in {"note", "abort", "delete"} /\ (pc'[r] = "note" => upload[r] \in open)
    BY <1>0, <1>8 DEF StorePart, Goto, RequestTypes
  <2> QED BY <1>3, <1>5, <2>1, <2>2, <2>3 DEF Before, Underway
<1>9. CASE NotePart(r)
  <2>1. /\ upload[r] = current /\ current \in open /\ current \in Uploads
        /\ parts[current] = Prefix(u, index[u])
    BY <1>0, <1>2, <1>9 DEF NotePart, Underway, StoreTypes
  <2>2. parts' = [parts EXCEPT ![current] = Append(@, chunk[r])]
    BY <1>2, <1>9, <2>1 DEF NotePart, Running
  <2>3. parts'[current] = Prefix(u, index[u] + 1) /\ UNCHANGED <<current, upload>>
    BY <1>0, <1>5, <1>9, <2>1, <2>2, PrefixGrows DEF NotePart, StoreTypes
  <2>4. CASE AtLast(u)
    <3>1. parts'[current] = File(u)
      BY <1>0, <2>3, <2>4, FileIsPrefix DEF AtLast
    <3>2. pc'[r] = "complete"
      BY <1>0, <1>6, <1>9, <2>4 DEF NotePart, Goto, RequestTypes
    <3> QED BY <1>3, <1>5, <2>1, <2>3, <2>4, <3>1, <3>2 DEF AtLast, File, Underway
  <2>5. CASE ~AtLast(u)
    <3>1. pc'[r] = "ok"
      BY <1>0, <1>6, <1>9, <2>5 DEF NotePart, Goto, RequestTypes
    <3> QED BY <1>3, <1>5, <2>1, <2>3, <2>5, <3>1 DEF AtLast, Underway
  <2> QED BY <2>4, <2>5
<1>10. CASE Complete(r)
  <2>1. AtLast(u) /\ parts[upload[r]] = File(u)
    BY <1>2, <1>10 DEF Complete, Underway
  <2>2. CASE object' = parts[upload[r]] /\ Goto(r, "remove")
    BY <1>0, <1>3, <1>5, <2>1, <2>2 DEF Goto, AtLast, File, Underway, RequestTypes
  <2>3. CASE Goto(r, "abort")
    BY <1>0, <1>3, <1>5, <2>3 DEF Goto, Underway, RequestTypes
  <2> QED BY <1>10, <2>2, <2>3 DEF Complete, Completed
<1>11. CASE Remove(r)
  BY <1>0, <1>2, <1>3, <1>5, <1>11 DEF Remove, Goto, store, AtLast, File, Underway, RequestTypes
<1>12. CASE Abort(r)
  BY <1>0, <1>3, <1>5, <1>12 DEF Abort, Goto, Underway, RequestTypes
<1>13. CASE Forget(r)
  <2>1. u \notin Midway
    BY <1>13, NotSlipped DEF Forget, Smooth
  <2>2. index[u] = 0
    BY <1>0, <1>2, <2>1 DEF Midway
  <2>3. current' = None /\ pc'[r] = "delete"
    BY <1>0, <1>13 DEF Forget, RemoveKey, Goto, RequestTypes
  <2> QED BY <1>3, <1>5, <2>2, <2>3 DEF Before, Underway
<1>14. CASE Delete(r)
  BY <1>0, <1>2, <1>3, <1>14 DEF Delete, Goto, Before, Underway, RequestTypes
<1> QED BY <1>3, <1>7, <1>8, <1>9, <1>10, <1>11, <1>12, <1>13, <1>14 DEF Work

LEMMA OnTheWayStep == IInv /\ [Next]_vars => SmoothIsOnTheWay'
<1> SUFFICES ASSUME IInv, [Next]_vars, NEW u \in Users, Smooth(u)' PROVE OnTheWay(u)'
  BY DEF SmoothIsOnTheWay
<1>0. /\ ClientTypes /\ RequestTypes /\ CallsMade /\ current \in Uploads \cup {None}
      /\ ChunksOf[u] \in Nat
  BY TypeParts, ClientAssumption DEF IInv, StoreTypes
<1>1. CASE /\ Begin(u) /\ \A v \in Users \ {u} : ~Uploading(v)
           /\ current # None => parts[current] = <<>>
  <2>1. phase'[u] = "sending" /\ index'[u] = 0 /\ UNCHANGED <<current, parts>>
    BY <1>0, <1>1 DEF Begin, ClientTypes, CallsMade
  <2> QED BY <1>0, <1>1, <2>1, PrefixEmpty DEF OnTheWay, Before
<1>2. CASE Smooth(u) /\ ~\E v \in Users : Begin(v) \/ LoseAnswer(v)
  <2>0. Alone(u) /\ OnTheWay(u)
    BY <1>2 DEF IInv, SmoothIsAlone, SmoothIsOnTheWay
  <2>1. ASSUME NEW r \in Requests, Work(r) PROVE OnTheWay(u)'
    BY <1>2, <2>1, UnderwayStep
  <2>2. ASSUME NEW v \in Users \ {u},
               Receive(v) \/ Finalize(v) \/ \E r \in Requests : Send(v, r)
        PROVE  FALSE
    BY <2>0, <2>2 DEF Alone, Receive, Finalize, Send, Uploading
  <2>3. ASSUME NEW r \in Requests, Send(u, r) PROVE OnTheWay(u)'
    <3>1. phase'[u] = "waiting" /\ call'[u] = r /\ pc'[r] = "open"
      BY <1>0, <2>3 DEF Send, Goto, ClientTypes, RequestTypes
    <3>2. chunk'[r] = [of |-> u, index |-> index'[u]]
      BY <1>0, <2>3 DEF Send, RequestTypes
    <3>3. Before(u)'
      BY <2>0, <2>3 DEF Send, OnTheWay, Before
    <3> QED BY <3>1, <3>2, <3>3 DEF OnTheWay, Underway
  <2>4. ASSUME Receive(u) PROVE OnTheWay(u)'
    <3>1. Underway(u, call[u]) /\ UNCHANGED <<current, parts, object>>
      BY <2>0, <2>4 DEF Receive, OnTheWay, store
    <3>2. CASE pc[call[u]] = "ok" /\ AtLast(u)
      <4>1. phase'[u] = "finalizing"
        BY <1>0, <2>4, <3>2 DEF Receive, NextChunk, AtLast, ClientTypes
      <4> QED BY <3>1, <3>2, <4>1 DEF Underway, OnTheWay, File
    <3>3. CASE pc[call[u]] = "ok" /\ ~AtLast(u)
      <4>1. phase'[u] = "sending" /\ index'[u] = index[u] + 1
        BY <1>0, <2>4, <3>3 DEF Receive, NextChunk, AtLast, ClientTypes, CallsMade
      <4> QED BY <3>1, <3>3, <4>1 DEF Underway, OnTheWay, Before
    <3>4. CASE pc[call[u]] = "error"
      <4>1. phase'[u] \in {"sending", "stopped"} /\ index'[u] = index[u]
        BY <1>0, <2>4, <3>4 DEF Receive, TryAgain, ClientTypes
      <4> QED BY <3>1, <3>4, <4>1 DEF Underway, OnTheWay, Before
    <3> QED BY <2>4, <3>2, <3>3, <3>4 DEF Receive
  <2>5. ASSUME Finalize(u) PROVE OnTheWay(u)'
    BY <1>0, <2>0, <2>5 DEF Finalize, store, OnTheWay, File, ClientTypes
  <2>6. CASE Restart
    <3>1. u \notin Midway
      BY <2>6, NotSlipped DEF Restart, Smooth
    <3>2. current' = None /\ UNCHANGED <<phase, index, call, object>>
      BY <2>6 DEF Restart, client, store
    <3>3. CASE phase[u] \in {"sending", "waiting"}
      <4>1. Before(u)'
        BY <1>0, <3>1, <3>2, <3>3 DEF Midway, Before, CallsMade
      <4>2. phase[u] = "waiting" => pc'[call[u]] = "error"
        BY <1>0, <2>6 DEF Restart, CallsMade
      <4> QED BY <3>2, <3>3, <4>1, <4>2 DEF OnTheWay, Underway
    <3>4. CASE phase[u] \notin {"sending", "waiting"}
      BY <2>0, <3>2, <3>4 DEF OnTheWay, File
    <3> QED BY <3>3, <3>4
  <2>7. CASE UNCHANGED vars
    BY <2>0, <2>7 DEF vars, client, requests, store, OnTheWay, Underway, Before, AtLast, File
  <2> QED BY <1>2, <2>1, <2>2, <2>3, <2>4, <2>5, <2>6, <2>7 DEF Next, Move
<1> QED BY <1>1, <1>2, SmoothBefore

---------------------------------------------------------------------------
(* Theorems *)

\* Initially nobody uploads and the connector knows nothing.
LEMMA InitIInv == Init => IInv
<1> SUFFICES ASSUME Init PROVE IInv
  OBVIOUS
<1>1. ClientTypes /\ CallsMade
  BY ClientAssumption DEF Init, ClientTypes, CallsMade
<1>2. RequestTypes /\ TallyTypes
  <2>1. RequestTypes
    BY DEF Init, RequestTypes, Steps
  <2>2. slips \in [Users -> SUBSET Slips] /\ leaky \in BOOLEAN
    BY DEF Init
  <2> QED BY <2>1, <2>2, BoundsAssumption DEF Init, TallyTypes
<1>3. StoreTypes
  BY DEF Init, StoreTypes
<1>4. RequestsHold /\ OpenUploadsAreKnown
  BY DEF Init, RequestsHold, Uploaders, OpenUploadsAreKnown
<1>5. SmoothIsAlone /\ SmoothIsOnTheWay
  BY DEF Init, SmoothIsAlone, SmoothIsOnTheWay, Smooth, Engaged
<1> QED BY <1>1, <1>2, <1>3, <1>4, <1>5, TypeParts DEF IInv

\* The inductive invariant, for any users, files, numbers of tries, requests and uploads.
THEOREM Invariant == Spec => []IInv
<1>1. IInv /\ [Next]_vars => IInv'
  <2> SUFFICES ASSUME IInv, [Next]_vars PROVE IInv'
    OBVIOUS
  <2>1. TypeOK'
    BY ClientTypesStep, RequestTypesStep, StoreTypesStep, TallyTypesStep
       DEF TypeOK, ClientTypes, RequestTypes, StoreTypes, TallyTypes
  <2> QED BY <2>1, ClientTypesStep, RequestsHoldStep, KnownStep, AloneStep, OnTheWayStep DEF IInv
<1> QED BY InitIInv, <1>1, PTL DEF Spec

\* Clients, requests, connector and store keep their types; no client tries more often
\* than it may, and what the store assembles is a sequence of chunks (S3Service).
THEOREM TypeCorrect == Spec => []TypeOK
<1>1. IInv => TypeOK
  BY DEF IInv
<1> QED BY Invariant, <1>1, PTL

\* For any number of users and overlapping requests, the upload in memory is the only
\* open one, but for the cases in which S3Service lost track of one.
THEOREM NoPileUp == Spec => []OpenUploadsAreKnown
<1>1. IInv => OpenUploadsAreKnown
  BY DEF IInv
<1> QED BY Invariant, <1>1, PTL

\* For files of any length and any number of tries: an upload that met none of the five
\* slips leaves the whole file in the store (uploadChunk, createAsset).
THEOREM Whole == Spec => []UploadedIsWhole
<1>1. IInv => UploadedIsWhole
  BY DEF IInv, SmoothIsOnTheWay, OnTheWay, Smooth, Engaged, UploadedIsWhole
<1> QED BY Invariant, <1>1, PTL
===========================================================================

--------------------------- MODULE StorageUpload ---------------------------
(***************************************************************************)
(* Uploading a file to the connector's store: the chunk requests and the   *)
(* multipart uploads of store-asset-api (S3Service,                        *)
(* StorageAssetApiController), and the two clients that send a file in     *)
(* chunks and then create an asset for it, asset-create.component.ts and   *)
(* stics_connector_client.py.                                              *)
(*                                                                         *)
(* The connector keeps the upload of each file name in memory.  Names      *)
(* share nothing, so this is about one name, and the users who send a file *)
(* of that name.  Requests run on threads of their own; one that its       *)
(* client gave up goes on.                                                 *)
(***************************************************************************)
EXTENDS Naturals, Sequences, Functions

CONSTANTS
    Users, Requests, None,
    Uploads,       \* bound: the uploads of the store that anybody knows
    ChunksOf,      \* ChunksOf[u]: the chunks of u's file
    TriesOf,       \* TriesOf[u]: how often u's client sends a chunk, at most
    MaxBegins,     \* bound: how often users start to upload
    MaxFaults,     \* bound: calls that fail, and answers that get lost
    MaxRestarts    \* bound: restarts of the connector

ASSUME NoneAssumption == None \notin Requests \cup Uploads
ASSUME ClientAssumption == ChunksOf \in [Users -> Nat \ {0}] /\ TriesOf \in [Users -> Nat \ {0}]
ASSUME BoundsAssumption == {MaxBegins, MaxFaults, MaxRestarts} \subseteq Nat

VARIABLES
    \* the clients
    phase,      \* what u's client does
    index,      \* the chunk it is at
    tries,      \* how often that chunk failed
    call,       \* the request it waits for
    \* the requests
    pc, chunk, upload,
    \* S3Service
    current,    \* multipartUploadStates, at the name
    parts,      \* completedParts, of every upload
    \* the store
    open,       \* the uploads that may be added to or completed
    stored,     \* the parts of an upload
    object,     \* the chunks that the object consists of, <<>> if there is none
    \* history
    faults, restarts, begins,
    slips,      \* what happened to u's upload that the connector does not handle
    leaky       \* the connector was cut off from an upload, or removed another's

client   == <<phase, index, tries, call>>
requests == <<pc, chunk, upload>>
store    == <<open, stored, object>>
counts   == <<restarts, begins>>
vars == <<client, requests, current, parts, store, faults, counts, slips, leaky>>

---------------------------------------------------------------------------
(* Types *)

Chunks == UNION {{[of |-> u, index |-> i] : i \in 0 .. ChunksOf[u] - 1} : u \in Users}

File(u) == [i \in 1 .. ChunksOf[u] |-> [of |-> u, index |-> i - 1]]

\* Faulty variant, no part of the specification: chunks are counted from 1.
IsLastFromOne(c) == c.index = ChunksOf[c.of]

IsLast(c) == c.index = ChunksOf[c.of] - 1

Slips == {"shared", "late", "leftover", "aborted", "restarted"}

Steps == {"idle", "open", "store", "note", "complete", "remove", "abort", "forget", "delete",
          "ok", "error"}

TypeOK ==
    /\ phase \in [Users -> {"idle", "sending", "waiting", "finalizing", "created", "stopped"}]
    /\ \A u \in Users : /\ index[u] \in 0 .. ChunksOf[u] - 1
                        /\ tries[u] \in 0 .. TriesOf[u] - 1
    /\ call \in [Users -> Requests \cup {None}]
    /\ pc \in [Requests -> Steps]
    /\ chunk \in [Requests -> Chunks \cup {None}]
    /\ upload \in [Requests -> Uploads \cup {None}]
    /\ current \in Uploads \cup {None}
    /\ parts \in [Uploads -> Seq(Chunks \cup {None})]
    /\ open \subseteq Uploads /\ stored \in [Uploads -> SUBSET Chunks]
    /\ object \in Seq(Chunks)
    /\ faults \in 0..MaxFaults /\ restarts \in 0..MaxRestarts /\ begins \in 0..MaxBegins
    /\ slips \in [Users -> SUBSET Slips] /\ leaky \in BOOLEAN

Init ==
    /\ phase = [u \in Users |-> "idle"] /\ index = [u \in Users |-> 0]
    /\ tries = [u \in Users |-> 0] /\ call = [u \in Users |-> None]
    /\ pc = [r \in Requests |-> "idle"] /\ chunk = [r \in Requests |-> None]
    /\ upload = [r \in Requests |-> None]
    /\ current = None /\ parts = [i \in Uploads |-> <<>>]
    /\ open = {} /\ stored = [i \in Uploads |-> {}] /\ object = <<>>
    /\ faults = 0 /\ restarts = 0 /\ begins = 0
    /\ slips = [u \in Users |-> {}] /\ leaky = FALSE

---------------------------------------------------------------------------
(* Faults, and who is at work *)

Works == UNCHANGED faults
Glitch == faults < MaxFaults /\ faults' = faults + 1

Goto(r, p) == pc' = [pc EXCEPT ![r] = p]

Uploading(u) == phase[u] \in {"sending", "waiting", "finalizing"}
Engaged(u) == phase[u] \notin {"idle", "stopped"}
Running(r) == pc[r] # "idle"

\* The users that "set" holds of suffer s.
Slipped(set, s) == [u \in Users |-> IF u \in set THEN slips[u] \cup {s} ELSE slips[u]]

\* Part of a file has been stored, the rest is still to come.
Midway == {u \in Users : phase[u] \in {"sending", "waiting"} /\ index[u] > 0}

---------------------------------------------------------------------------
(* S3Service.uploadChunk *)

\* Upload ids that neither the store nor the connector uses.
Unused == {i \in Uploads : i \notin open /\ i # current /\ \A r \in Requests : upload[r] # i}

\* createMultipartUpload
Create(i) == /\ open' = open \cup {i}
             /\ stored' = [stored EXCEPT ![i] = {}]
             /\ parts' = [parts EXCEPT ![i] = <<>>]

\* computeIfAbsent holds the name while the store is asked.
Open(r) ==
    /\ pc[r] = "open"
    /\ \/ /\ current # None /\ Works
          /\ upload' = [upload EXCEPT ![r] = current]
          /\ Goto(r, "store")
          /\ UNCHANGED <<current, parts, open, stored, leaky>>
       \/ /\ current = None /\ Works
          /\ \E i \in Unused : /\ Create(i) /\ current' = i
                               /\ upload' = [upload EXCEPT ![r] = i]
          /\ Goto(r, "store")
          /\ UNCHANGED leaky
       \/ \* no answer, perhaps an upload: deleteFile is all that is done about it
          /\ current = None /\ Glitch
          /\ \/ UNCHANGED <<parts, open, stored, leaky>>
             \/ (\E i \in Unused : Create(i)) /\ leaky' = TRUE
          /\ Goto(r, "delete")
          /\ UNCHANGED <<upload, current>>
    /\ UNCHANGED <<client, chunk, object, counts, slips>>

\* The store forgets the parts of an upload that ends, and nobody needs their list.
Ended(i) == /\ open' = open \ {i}
            /\ stored' = [stored EXCEPT ![i] = {}]
            /\ parts' = [parts EXCEPT ![i] = <<>>]

\* uploadPart: a part replaces what was stored under its number.
Stored(i, c) == [stored EXCEPT ![i] = {d \in @ : d.index # c.index} \cup {c}]

StorePart(r) ==
    LET i == upload[r] IN
    /\ pc[r] = "store"
    /\ \/ /\ i \in open /\ Works
          /\ stored' = Stored(i, chunk[r])
          /\ Goto(r, "note")
       \/ /\ i \in open /\ Glitch
          /\ stored' \in {stored, Stored(i, chunk[r])}
          /\ Goto(r, "abort")
       \/ /\ i \notin open /\ Works
          /\ Goto(r, "abort") /\ UNCHANGED stored
       \/ \* before that: the body breaks off, or is too short
          /\ Glitch
          /\ Goto(r, "delete") /\ UNCHANGED stored
    /\ UNCHANGED <<client, chunk, upload, current, parts, open, object, counts, slips, leaky>>

\* completedParts is a plain ArrayList: when two threads add to it at once, an
\* element may be lost, or a null added.
NotePart(r) ==
    LET i == upload[r] IN
    /\ pc[r] = "note"
    /\ \/ i \in open /\ parts' = [parts EXCEPT ![i] = Append(@, chunk[r])]
       \/ /\ i \in open /\ \E q \in Requests \ {r} : pc[q] = "note" /\ upload[q] = i
          /\ parts' \in {parts, [parts EXCEPT ![i] = Append(@, None)]}
       \/ i \notin open /\ UNCHANGED parts
    /\ Goto(r, IF IsLast(chunk[r]) THEN "complete" ELSE "ok")
    /\ UNCHANGED <<client, chunk, upload, current, store, faults, counts, slips, leaky>>

\* The store wants the parts in ascending order, and each as it has it.
Acceptable(i) ==
    /\ i \in open /\ Range(parts[i]) \subseteq stored[i]
    /\ \A k \in 1 .. Len(parts[i]) - 1 : parts[i][k].index < parts[i][k + 1].index

Completed(i) == object' = parts[i] /\ Ended(i)

Complete(r) ==
    LET i == upload[r] IN
    /\ pc[r] = "complete"
    /\ \/ /\ Acceptable(i) /\ Works
          /\ Completed(i) /\ Goto(r, "remove")
       \/ /\ Acceptable(i) /\ Glitch
          /\ Completed(i) \/ UNCHANGED <<object, open, stored, parts>>
          /\ Goto(r, "abort")
       \/ /\ ~Acceptable(i) /\ Works
          /\ Goto(r, "abort") /\ UNCHANGED <<object, open, stored, parts>>
    /\ UNCHANGED <<client, chunk, upload, current, counts, slips, leaky>>

\* multipartUploadStates.remove(key), whatever upload is there by then.
RemoveKey(r) == /\ current' = None
                /\ leaky' = (leaky \/ current \notin {None, upload[r]})

Remove(r) ==
    /\ pc[r] = "remove"
    /\ RemoveKey(r)
    /\ Goto(r, "ok")
    /\ UNCHANGED <<client, chunk, upload, parts, store, faults, counts, slips>>

\* Faulty variant, no part of the specification: the store is not told.
AbortNothing(r) ==
    /\ pc[r] = "abort" /\ Works
    /\ Goto(r, "forget")
    /\ UNCHANGED <<client, chunk, upload, current, parts, store, counts, slips, leaky>>

\* An abort that fails is only logged.
Abort(r) ==
    /\ pc[r] = "abort"
    /\ \/ Works /\ Ended(upload[r]) /\ UNCHANGED leaky
       \/ /\ Glitch
          /\ \/ Ended(upload[r]) /\ UNCHANGED leaky
             \/ UNCHANGED <<open, stored, parts>> /\ leaky' = (leaky \/ upload[r] \in open)
    /\ Goto(r, "forget")
    /\ UNCHANGED <<client, chunk, upload, current, object, counts, slips>>

\* The parts that others noted are forgotten with the upload.
Forget(r) ==
    /\ pc[r] = "forget"
    /\ RemoveKey(r)
    /\ slips' = Slipped(Midway, "aborted")
    /\ Goto(r, "delete")
    /\ UNCHANGED <<client, chunk, upload, parts, store, faults, counts>>

\* StorageAssetApiController deletes the file after any error, if it can.
Delete(r) ==
    /\ pc[r] = "delete"
    /\ \/ Works /\ object' = <<>>
       \/ Glitch /\ UNCHANGED object
    /\ Goto(r, "error")
    /\ UNCHANGED <<client, chunk, upload, current, parts, open, stored, counts, slips, leaky>>

---------------------------------------------------------------------------
(* The clients *)

\* A user sends the file, for the first time or once more.
Begin(u) ==
    /\ phase[u] \in {"idle", "stopped"} /\ begins < MaxBegins
    /\ begins' = begins + 1
    /\ phase' = [phase EXCEPT ![u] = "sending"]
    /\ index' = [index EXCEPT ![u] = 0] /\ tries' = [tries EXCEPT ![u] = 0]
    /\ LET others == (\E v \in Users \ {u} : Uploading(v)) \/ \E r \in Requests : Running(r)
           rest == current # None /\ parts[current] # <<>>
       IN slips' = [Slipped({v \in Users : Engaged(v)}, "shared") EXCEPT ![u] =
                       (IF others THEN {"shared"} ELSE {}) \cup (IF rest THEN {"leftover"} ELSE {})]
    /\ UNCHANGED <<call, requests, current, parts, store, faults, restarts, leaky>>

Send(u, r) ==
    /\ phase[u] = "sending" /\ pc[r] = "idle"
    /\ phase' = [phase EXCEPT ![u] = "waiting"]
    /\ call' = [call EXCEPT ![u] = r]
    /\ chunk' = [chunk EXCEPT ![r] = [of |-> u, index |-> index[u]]]
    /\ Goto(r, "open")
    /\ UNCHANGED <<index, tries, upload, current, parts, store, faults, counts, slips, leaky>>

\* A request that is over, and its answer.
Over(r) == /\ Goto(r, "idle")
           /\ chunk' = [chunk EXCEPT ![r] = None]
           /\ upload' = [upload EXCEPT ![r] = None]

NextChunk(u) ==
    /\ tries' = [tries EXCEPT ![u] = 0]
    /\ IF index[u] = ChunksOf[u] - 1
       THEN phase' = [phase EXCEPT ![u] = "finalizing"] /\ UNCHANGED index
       ELSE /\ phase' = [phase EXCEPT ![u] = "sending"]
            /\ index' = [index EXCEPT ![u] = @ + 1]

\* Faulty variant, no part of the specification: tries are not limited.
TryForever(u) ==
    /\ phase' = [phase EXCEPT ![u] = "sending"]
    /\ tries' = [tries EXCEPT ![u] = @ + 1]
    /\ UNCHANGED index

TryAgain(u) ==
    /\ IF tries[u] + 1 < TriesOf[u]
       THEN /\ phase' = [phase EXCEPT ![u] = "sending"]
            /\ tries' = [tries EXCEPT ![u] = @ + 1]
       ELSE phase' = [phase EXCEPT ![u] = "stopped"] /\ UNCHANGED tries
    /\ UNCHANGED index

Receive(u) ==
    LET r == call[u] IN
    /\ phase[u] = "waiting" /\ pc[r] \in {"ok", "error"}
    /\ IF pc[r] = "ok" THEN NextChunk(u) ELSE TryAgain(u)
    /\ call' = [call EXCEPT ![u] = None]
    /\ Over(r)
    /\ UNCHANGED <<current, parts, store, faults, counts, slips, leaky>>

\* The ingress ends the wait, or the connection breaks; the request goes on.
LoseAnswer(u) ==
    /\ phase[u] = "waiting" /\ Glitch
    /\ TryAgain(u)
    /\ call' = [call EXCEPT ![u] = None]
    /\ slips' = Slipped({v \in Users : Engaged(v)}, "late")
    /\ UNCHANGED <<requests, current, parts, store, counts, leaky>>

\* Nobody waits for it.
Unheard(r) ==
    /\ pc[r] \in {"ok", "error"} /\ \A u \in Users : call[u] # r
    /\ Over(r)
    /\ UNCHANGED <<client, current, parts, store, faults, counts, slips, leaky>>

\* finalize-upload creates the asset, and does not look at the object.
Finalize(u) ==
    /\ phase[u] = "finalizing"
    /\ \/ Works /\ phase' = [phase EXCEPT ![u] = "created"]
       \/ Glitch /\ phase' = [phase EXCEPT ![u] = "stopped"]
    /\ UNCHANGED <<index, tries, call, requests, current, parts, store, counts, slips, leaky>>

\* The connector restarts, and with it go the requests and multipartUploadStates.
Restart ==
    /\ restarts < MaxRestarts
    /\ restarts' = restarts + 1
    /\ current' = None
    /\ pc' = [r \in Requests |-> IF \E u \in Users : call[u] = r THEN "error" ELSE "idle"]
    /\ chunk' = [r \in Requests |-> None] /\ upload' = [r \in Requests |-> None]
    /\ slips' = Slipped(Midway, "restarted")
    /\ leaky' = (leaky \/ open # {})
    /\ UNCHANGED <<client, parts, store, faults, begins>>

Work(r) == Open(r) \/ StorePart(r) \/ NotePart(r) \/ Complete(r) \/ Remove(r) \/ Abort(r)
              \/ Forget(r) \/ Delete(r) \/ Unheard(r)

Move(u) == Begin(u) \/ (\E r \in Requests : Send(u, r)) \/ Receive(u) \/ LoseAnswer(u)
              \/ Finalize(u)

Next == (\E r \in Requests : Work(r)) \/ (\E u \in Users : Move(u)) \/ Restart

Spec == Init /\ [][Next]_vars

---------------------------------------------------------------------------
(* Properties *)

\* When every chunk was answered with 200, and from then on, the object is the whole
\* file, however often the first chunk failed, bodies broke off or stores did not
\* answer, and whatever earlier uploads left behind, unless one of five things
\* happened: another upload of the name at the same time or later, an answer that was
\* lost, parts left over from an upload that was given up, and an abort or a restart
\* after the first chunk had been stored.
UploadedIsWhole ==
    \A u \in Users : phase[u] \in {"finalizing", "created"} /\ slips[u] = {} => object = File(u)

\* Uploads do not pile up in the store, whatever chunks fail and however requests
\* overlap: only the one in memory is open, unless an abort, the answer to the creation
\* of an upload or a restart cut the connector off from one, or a request that was
\* done with its own upload removed the next one from memory.
OpenUploadsAreKnown == ~leaky => open \subseteq {current}

===========================================================================

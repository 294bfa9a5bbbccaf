--------------------------- MODULE FederatedCatalog ---------------------------
(* The INESData connector's cache of the other participants' catalogs:       *)
(* SqlFederatedCacheStore over the tables of 060_federated-catalog-schema.sql, *)
(* the participants' directory it is crawled from, and EDC's crawlers.       *)
(*                                                                           *)
(* A crawl run expires every catalog, fetches the directory's participants   *)
(* with a pool of crawlers and deletes what is still expired, without        *)
(* waiting for the crawlers.  A save is two transactions.  Each transaction  *)
(* is one step, but deleteExpired's looks its catalogs up a second time.     *)
EXTENDS Naturals

CONSTANTS
    Participants,
    Assets,       \* dataset ids: each participant names its own assets
    Offers,       \* the catalogs a participant may send
    Crawlers,
    MaxUpsets     \* bound on faults, restarts and changes among the participants

\* A catalog: its datasets, and whether it lists the data service by itself or
\* only as a part of its distributions.
Offer == [assets : SUBSET Assets, announced : BOOLEAN]
NoOffer == [assets |-> {}, announced |-> FALSE]
NoOne == "nobody"

ASSUME OffersAssumption == Offers \in [Participants -> SUBSET Offer]
ASSUME BoundAssumption == MaxUpsets \in Nat

VARIABLES
    registered, \* participants the registration service lists
    online,     \* participants that answer a crawler
    directory,  \* SharedNodeDirectory
    catalog,    \* edc_catalog, by its unique participant_id
    dataset,    \* edc_dataset: the dataset ids of each participant's catalog
    distribution, \* edc_distribution: dataset id and whose data service
    service,    \* edc_data_service, each of one participant
    link,       \* edc_catalog_data_service
    old,        \* history: the catalogs that were stored before the crawl run began
    phase,      \* where the crawl run is
    todo,       \* its work items
    selected,   \* the expired catalogs that deleteExpired has read
    marked,     \* history: the last crawl run's expireAll worked
    purged,     \* history: the last crawl run ended with a full deleteExpired
    pc, item, got, \* each crawler's point, work item and answer
    upsets

tables == <<catalog, dataset, distribution, service, link, old>>
world == <<registered, online>>
run == <<phase, todo, selected, marked, purged>>
crawlers == <<pc, item, got>>
vars == <<world, directory, tables, run, crawlers, upsets>>

Init ==
    /\ registered \in SUBSET Participants
    /\ online \in SUBSET Participants
    /\ directory \in SUBSET registered
    /\ catalog = [p \in Participants |-> "absent"]
    /\ dataset = [p \in Participants |-> {}]
    /\ distribution = {} /\ service = {} /\ link = {} /\ old = {}
    /\ phase = "waiting" /\ todo = {} /\ selected = {} /\ marked = FALSE /\ purged = FALSE
    /\ pc = [c \in Crawlers |-> "idle"]
    /\ item = [c \in Crawlers |-> NoOne]
    /\ got = [c \in Crawlers |-> NoOffer]
    /\ upsets = 0

Present == {p \in Participants : catalog[p] # "absent"}
Uses(p, links, distributions) == p \in links \/ \E a \in Assets : <<a, p>> \in distributions

\* A fault, or something that happens to the participants; TLC's bound is on these.
Upset == upsets < MaxUpsets /\ upsets' = upsets + 1

(***************************************************************************)
(* The store's statements, with faulty variants that are no part of Spec.  *)
(***************************************************************************)
\* The links, the datasets and the catalogs of the participants in S.
DeleteCatalogRows(S) ==
    /\ link' = link \ S
    /\ dataset' = [p \in Participants |-> IF p \in S THEN {} ELSE dataset[p]]
    /\ catalog' = [p \in Participants |-> IF p \in S THEN "absent" ELSE catalog[p]]
    /\ old' = old \ S

\* Distributions by catalog_id, which is never filled in: none match.
DeleteRowsByCatalogId(S) == DeleteCatalogRows(S) /\ UNCHANGED distribution

\* Distributions of any dataset id of theirs, and those rows.
DeleteRows(S) ==
    /\ distribution' = {d \in distribution : \A p \in S : d[1] \notin dataset[p]}
    /\ DeleteCatalogRows(S)

DeleteRelatedOrphansFirst(S) ==
    DeleteRows(S) /\ service' = {p \in service : Uses(p, link, distribution')}
DeleteRelatedNoOrphans(S) == DeleteRows(S) /\ UNCHANGED service

\* deleteRelatedCatalogData: distributions by dataset id alone, links, the data
\* services that nothing refers to any more, datasets, catalogs.
DeleteRelated(S) ==
    DeleteRows(S) /\ service' = {p \in service : Uses(p, link', distribution')}

Delete(S) == IF S \cap Present = {} THEN UNCHANGED tables ELSE DeleteRelated(S \cap Present)

\* The INSERTs' primary keys and the catalogs' UNIQUE participant_id.
InsertConflicts(p, offer) == p \in Present \/ (offer.announced /\ p \in service)

InsertRows(p, offer) ==
    /\ catalog' = [catalog EXCEPT ![p] = "fresh"]
    /\ old' = old \ {p}
    /\ link' = IF offer.announced THEN link \cup {p} ELSE link
    /\ dataset' = [dataset EXCEPT ![p] = offer.assets]
    /\ service' = IF offer.announced \/ offer.assets # {} THEN service \cup {p} ELSE service

InsertWithNewServiceOnly(p, offer) ==
    /\ InsertRows(p, offer)
    /\ distribution' = IF offer.announced THEN distribution
                       ELSE distribution \cup (offer.assets \X {p})

\* insertCatalog, insertDataServices, insertDatasets with insertDistributions,
\* which adds a data service that the catalog itself did not list.
Insert(p, offer) ==
    /\ InsertRows(p, offer)
    /\ distribution' = distribution \cup (offer.assets \X {p})

-----------------------------------------------------------------------------
(* The participants and their directory.                                    *)
Register(p) ==
    /\ registered' = IF p \in registered THEN registered \ {p} ELSE registered \cup {p}
    /\ Upset
    /\ UNCHANGED <<online, directory, tables, run, crawlers>>

Connect(p) ==
    /\ online' = IF p \in online THEN online \ {p} ELSE online \cup {p}
    /\ Upset
    /\ UNCHANGED <<registered, directory, tables, run, crawlers>>

UpdateDirectory ==
    /\ directory' = registered
    /\ UNCHANGED <<world, tables, run, crawlers, upsets>>

\* No token, no answer or a list that breaks off at an unreadable entry: the new
\* directory replaces the old one all the same, empty or with what was read.
UpdateDirectoryFails ==
    /\ directory' \in SUBSET registered
    /\ Upset
    /\ UNCHANGED <<world, tables, run, crawlers>>

-----------------------------------------------------------------------------
(* A crawl run.                                                             *)
ExpireKnown ==
    /\ phase = "waiting"
    /\ phase' = "crawling" /\ todo' = directory /\ marked' = TRUE /\ purged' = FALSE
    /\ old' = Present
    /\ catalog' = [p \in Participants |-> IF p \in Present \cap directory THEN "expired" ELSE catalog[p]]
    /\ UNCHANGED <<world, directory, dataset, distribution, service, link, selected, crawlers, upsets>>

ExpireAll ==
    /\ phase = "waiting"
    /\ phase' = "crawling" /\ todo' = directory /\ marked' = TRUE /\ purged' = FALSE
    /\ old' = Present
    /\ catalog' = [p \in Participants |-> IF p \in Present THEN "expired" ELSE "absent"]
    /\ UNCHANGED <<world, directory, dataset, distribution, service, link, selected, crawlers, upsets>>

\* The run goes on, with the catalogs marked as they were.
ExpireAllFails ==
    /\ phase = "waiting"
    /\ phase' = "crawling" /\ todo' = directory /\ marked' = FALSE /\ purged' = FALSE
    /\ old' = Present
    /\ Upset
    /\ UNCHANGED <<world, directory, catalog, dataset, distribution, service, link, selected, crawlers>>

Assign(c) ==
    /\ phase = "crawling" /\ pc[c] = "idle"
    /\ \E p \in todo :
          /\ todo' = todo \ {p}
          /\ item' = [item EXCEPT ![c] = p]
    /\ pc' = [pc EXCEPT ![c] = "fetching"]
    /\ UNCHANGED <<world, directory, tables, phase, selected, marked, purged, got, upsets>>

SelectKnown ==
    /\ phase = "crawling" /\ todo = {}
    /\ phase' = "deleting"
    /\ selected' = {p \in directory : catalog[p] = "expired"}
    /\ UNCHANGED <<world, directory, tables, todo, marked, purged, crawlers, upsets>>

\* getExpiredCatalogs, in deleteExpired's transaction.
SelectExpired ==
    /\ phase = "crawling" /\ todo = {}
    /\ phase' = "deleting"
    /\ selected' = {p \in Participants : catalog[p] = "expired"}
    /\ UNCHANGED <<world, directory, tables, todo, marked, purged, crawlers, upsets>>

\* Each of them is looked up again, by participant: what is deleted is the
\* catalog of that moment, expired or not.
DeleteExpired ==
    /\ phase = "deleting"
    /\ Delete(selected)
    /\ phase' = "waiting" /\ selected' = {} /\ purged' = TRUE
    /\ UNCHANGED <<world, directory, todo, marked, crawlers, upsets>>

DeleteExpiredFails ==
    /\ phase = "deleting"
    /\ phase' = "waiting" /\ selected' = {}
    /\ Upset
    /\ UNCHANGED <<world, directory, tables, todo, marked, purged, crawlers>>

-----------------------------------------------------------------------------
(* A crawler: the request, then save's two transactions.                    *)
Goto(c, point) == pc' = [pc EXCEPT ![c] = point]
Finish(c) ==
    /\ Goto(c, "idle")
    /\ item' = [item EXCEPT ![c] = NoOne]
    /\ got' = [got EXCEPT ![c] = NoOffer]

Fetch(c) ==
    /\ pc[c] = "fetching"
    /\ IF item[c] \in online
       THEN /\ \E offer \in Offers[item[c]] : got' = [got EXCEPT ![c] = offer]
            /\ Goto(c, "deleting") /\ UNCHANGED item
       ELSE Finish(c)
    /\ UNCHANGED <<world, directory, tables, run, upsets>>

SaveDeletes(c) ==
    /\ pc[c] = "deleting"
    /\ Delete({item[c]})
    /\ Goto(c, "inserting")
    /\ UNCHANGED <<world, directory, run, item, got, upsets>>

SaveInserts(c) ==
    /\ pc[c] = "inserting"
    /\ IF InsertConflicts(item[c], got[c]) THEN UNCHANGED tables ELSE Insert(item[c], got[c])
    /\ Finish(c)
    /\ UNCHANGED <<world, directory, run, upsets>>

\* A transaction fails and the save with it; what the first one deleted stays deleted.
SaveFails(c) ==
    /\ pc[c] \in {"deleting", "inserting"}
    /\ Finish(c)
    /\ Upset
    /\ UNCHANGED <<world, directory, tables, run>>

CrawlerStep(c) == Fetch(c) \/ SaveDeletes(c) \/ SaveInserts(c)

\* The connector restarts; its first look at the directory may fail as well.
Restart ==
    /\ pc' = [c \in Crawlers |-> "idle"]
    /\ item' = [c \in Crawlers |-> NoOne] /\ got' = [c \in Crawlers |-> NoOffer]
    /\ phase' = "waiting" /\ todo' = {} /\ selected' = {}
    /\ marked' = FALSE /\ purged' = FALSE
    /\ directory' \in SUBSET registered
    /\ Upset
    /\ UNCHANGED <<world, tables>>

RunStep == ExpireAll \/ (\E c \in Crawlers : Assign(c)) \/ SelectExpired \/ DeleteExpired

Next ==
    \/ \E p \in Participants : Register(p) \/ Connect(p)
    \/ UpdateDirectory \/ UpdateDirectoryFails
    \/ RunStep \/ ExpireAllFails \/ DeleteExpiredFails
    \/ \E c \in Crawlers : CrawlerStep(c) \/ SaveFails(c)
    \/ Restart

\* Two fixed-rate schedules, and crawlers whose requests end.
Fairness ==
    /\ WF_vars(UpdateDirectory) /\ WF_vars(RunStep)
    /\ \A c \in Crawlers : WF_vars(CrawlerStep(c))

Spec == Init /\ [][Next]_vars /\ Fairness

-----------------------------------------------------------------------------
\* Every variable holds values of its kind.
TypeOK ==
    /\ registered \subseteq Participants /\ online \subseteq Participants
    /\ directory \subseteq Participants
    /\ catalog \in [Participants -> {"absent", "fresh", "expired"}]
    /\ dataset \in [Participants -> SUBSET Assets]
    /\ distribution \subseteq Assets \X Participants
    /\ service \subseteq Participants /\ link \subseteq Participants
    /\ old \subseteq Participants /\ marked \in BOOLEAN
    /\ phase \in {"waiting", "crawling", "deleting"}
    /\ todo \subseteq Participants /\ selected \subseteq Participants /\ purged \in BOOLEAN
    /\ pc \in [Crawlers -> {"idle", "fetching", "deleting", "inserting"}]
    /\ item \in [Crawlers -> Participants \cup {NoOne}]
    /\ got \in [Crawlers -> Offer]
    /\ upsets \in Nat

\* No transaction commits rows that refer to nothing: the order and the
\* conditions of the deletes never trip a foreign key, though distributions are
\* deleted by a dataset id that several catalogs may share.
ReferencesHold ==
    /\ \A d \in distribution : d[1] \in dataset[d[2]] /\ d[2] \in service
    /\ \A p \in Participants : p \in link => p \in service /\ catalog[p] # "absent"
    /\ \A p \in Participants : dataset[p] # {} => catalog[p] # "absent"

\* A data service is kept exactly as long as a catalog or a distribution refers
\* to it: nothing piles up, whichever save of whichever participant comes last.
NoOrphanServices == \A p \in service : Uses(p, link, distribution)

\* After a save's first transaction the second is refused only because another
\* save has put the participant's catalog there: a left-over data service never
\* locks a participant out of the cache (insertDataServices checks nothing).
OnlyCatalogsConflict ==
    \A c \in Crawlers : pc[c] = "inserting" /\ catalog[item[c]] = "absent" =>
        ~InsertConflicts(item[c], got[c])

\* A cached dataset whose id no other participant uses has a distribution, and
\* only its own, however saves, purges and failures interleave.
Exclusive(a, p) ==
    \A q \in Participants \ {p} : \A offer \in Offers[q] : a \notin offer.assets
ExclusiveDistributions ==
    \A p \in Participants : \A a \in dataset[p] :
        Exclusive(a, p) => {q \in Participants : <<a, q>> \in distribution} = {p}

\* When a crawl run has ended with a full deleteExpired, and until the next one
\* begins, no catalog from before that run is left, whoever is in the directory;
\* where its expireAll failed, what no run before it had marked is left as well.
StaleIsPurged == purged => \A p \in old : ~marked /\ catalog[p] = "fresh"

\* A participant that has left, or answers no more, is out of the cache for good
\* after a while, in spite of late crawlers and of runs that failed.
DepartedGoes ==
    \A p \in Participants :
        <>[](p \notin registered \cap online) => <>[](catalog[p] = "absent")

\* A registered participant that answers comes back into the cache over and over,
\* whatever emptied the directory or broke a save between its two transactions.
AnsweringReturns ==
    \A p \in Participants :
        <>[](p \in registered \cap online) => []<>(catalog[p] # "absent")

\* 060_federated-catalog-schema.sql:36 gives a distribution to one dataset of one
\* catalog: "FOREIGN KEY (dataset_id, catalog_id) REFERENCES edc_dataset(id, catalog_id)".
DistributionsOfOwnCatalog ==
    \A p \in Participants : \A a \in dataset[p] :
        {q \in Participants : <<a, q>> \in distribution} = {p}
=============================================================================

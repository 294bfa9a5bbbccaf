----------------------- MODULE FederatedCatalog_proofs -----------------------
(* What FederatedCatalog promises for any participants, catalogs, crawlers   *)
(* and any number of faults.                                                 *)
EXTENDS FederatedCatalog, TLAPS

TablesType ==
    /\ catalog \in [Participants -> {"absent", "fresh", "expired"}]
    /\ dataset \in [Participants -> SUBSET Assets]
    /\ distribution \subseteq Assets \X Participants
    /\ service \subseteq Participants /\ link \subseteq Participants
    /\ old \subseteq Participants

\* What is cached for a participant, the participant has sent.
DatasetsOffered ==
    \A p \in Participants : \A a \in dataset[p] : \E offer \in Offers[p] : a \in offer.assets

\* A dataset whose id is its participant's own keeps its distribution.
ExclusiveKept ==
    \A p \in Participants : \A a \in dataset[p] : Exclusive(a, p) => <<a, p>> \in distribution

TablesInv ==
    /\ TablesType
    /\ ReferencesHold
    /\ NoOrphanServices
    /\ DatasetsOffered
    /\ ExclusiveKept

\* A working crawler has a work item, and its answer is one of that participant's.
CrawlersKnown ==
    \A c \in Crawlers :
        /\ pc[c] # "idle" => item[c] \in Participants
        /\ pc[c] \in {"deleting", "inserting"} => got[c] \in Offers[item[c]]

\* Once expireAll has worked, every catalog from before the run is marked: a save
\* that stores a participant's catalog anew deletes the old one first.
OldAreMarked == \A p \in old : catalog[p] # "absent" /\ (marked => catalog[p] = "expired")

\* While deleteExpired is under way, it has selected all there is to purge.
SelectedAll ==
    phase = "deleting" => \A p \in Participants : catalog[p] = "expired" => p \in selected

Ages == OldAreMarked /\ SelectedAll /\ StaleIsPurged

IInv == TypeOK /\ TablesInv /\ CrawlersKnown /\ Ages

-----------------------------------------------------------------------------
(* Lemmas on the store's statements.                                        *)
LEMMA NoOfferType == NoOffer \in Offer
  BY DEF NoOffer, Offer

\* What leaves the tables alone keeps them consistent.
LEMMA TablesUnchanged == TablesInv /\ UNCHANGED tables => TablesInv'
  BY DEF tables, TablesInv, TablesType, ReferencesHold, NoOrphanServices, Uses, DatasetsOffered,
         ExclusiveKept, Exclusive

\* Deleting some present participants' data keeps the tables consistent.
LEMMA DeleteRelatedKeeps ==
    ASSUME TablesInv, NEW S \in SUBSET Participants, DeleteRelated(S)
    PROVE  TablesInv'
  <1>1. TablesType'
    BY DEF TablesInv, TablesType, DeleteRelated, DeleteRows, DeleteCatalogRows
  <1>2. \A p \in Participants : dataset'[p] = IF p \in S THEN {} ELSE dataset[p]
    BY DEF DeleteRelated, DeleteRows, DeleteCatalogRows
  <1>3. \A p \in Participants : catalog'[p] = IF p \in S THEN "absent" ELSE catalog[p]
    BY DEF DeleteRelated, DeleteRows, DeleteCatalogRows
  <1>4. \A d \in distribution' : d \in distribution /\ d[2] \notin S
    BY DEF TablesInv, TablesType, ReferencesHold, DeleteRelated, DeleteRows, DeleteCatalogRows
  <1>5. \A d \in distribution' : Uses(d[2], link', distribution')
    <2> SUFFICES ASSUME NEW d \in distribution' PROVE Uses(d[2], link', distribution')
      OBVIOUS
    <2>1. d \in Assets \X Participants
      BY <1>1 DEF TablesType
    <2>2. d[1] \in Assets /\ d = <<d[1], d[2]>>
      BY <2>1
    <2> QED BY <2>2 DEF Uses
  <1>6. ReferencesHold'
    <2>1. \A d \in distribution' : d[1] \in dataset'[d[2]] /\ d[2] \in service'
      <3> SUFFICES ASSUME NEW d \in distribution' PROVE d[1] \in dataset'[d[2]] /\ d[2] \in service'
        OBVIOUS
      <3>1. d[2] \in Participants
        BY <1>1 DEF TablesType
      <3>2. d[1] \in dataset'[d[2]]
        BY <3>1, <1>2, <1>4 DEF TablesInv, ReferencesHold
      <3>3. d[2] \in service
        BY <1>4 DEF TablesInv, ReferencesHold
      <3> QED BY <3>2, <3>3, <1>5 DEF DeleteRelated
    <2>2. \A p \in Participants : p \in link' => p \in service' /\ catalog'[p] # "absent"
      BY <1>3 DEF TablesInv, ReferencesHold, DeleteRelated, DeleteRows, DeleteCatalogRows, Uses
    <2>3. \A p \in Participants : dataset'[p] # {} => catalog'[p] # "absent"
      BY <1>2, <1>3 DEF TablesInv, ReferencesHold
    <2> QED BY <2>1, <2>2, <2>3 DEF ReferencesHold
  <1>7. NoOrphanServices'
    BY DEF NoOrphanServices, DeleteRelated, Uses
  <1>8. DatasetsOffered'
    BY <1>2 DEF TablesInv, DatasetsOffered
  <1>9. ExclusiveKept'
    <2> SUFFICES ASSUME NEW p \in Participants, NEW a \in dataset'[p], Exclusive(a, p)
                 PROVE  <<a, p>> \in distribution'
      BY DEF ExclusiveKept, Exclusive
    <2>1. p \notin S /\ a \in dataset[p]
      BY <1>2
    <2>2. <<a, p>> \in distribution
      BY <2>1 DEF TablesInv, ExclusiveKept
    <2>3. \A q \in S : a \notin dataset[q]
      BY <2>1 DEF TablesInv, DatasetsOffered, Exclusive
    <2> QED BY <2>2, <2>3 DEF DeleteRelated, DeleteRows, DeleteCatalogRows
  <1> QED BY <1>1, <1>6, <1>7, <1>8, <1>9 DEF TablesInv

LEMMA DeleteKeeps ==
    ASSUME TablesInv, NEW S \in SUBSET Participants, Delete(S)
    PROVE  /\ TablesInv'
           /\ \A p \in Participants : catalog'[p] = "expired" => catalog[p] = "expired" /\ p \notin S
           /\ \A p \in old' : p \in old /\ catalog'[p] = catalog[p] /\ (p \in S => catalog[p] = "absent")
  <1>1. CASE S \cap Present = {}
    <2>1. UNCHANGED tables
      BY <1>1 DEF Delete
    <2>2. TablesInv'
      BY <2>1, TablesUnchanged
    <2>3. \A p \in S : catalog[p] = "absent"
      BY <1>1 DEF Present
    <2> QED BY <2>1, <2>2, <2>3 DEF tables, TablesInv, TablesType
  <1>2. CASE S \cap Present # {}
    <2>1. S \cap Present \in SUBSET Participants /\ DeleteRelated(S \cap Present)
      BY <1>2 DEF Delete
    <2>2. TablesInv'
      BY <2>1, DeleteRelatedKeeps
    <2>3. \A p \in Participants : catalog'[p] = IF p \in S \cap Present THEN "absent" ELSE catalog[p]
      BY <2>1 DEF DeleteRelated, DeleteRows, DeleteCatalogRows
    <2>4. old' = old \ (S \cap Present) /\ old \subseteq Participants
      BY <2>1 DEF DeleteRelated, DeleteRows, DeleteCatalogRows, TablesInv, TablesType
    <2> QED BY <2>2, <2>3, <2>4 DEF Present
  <1> QED BY <1>1, <1>2

\* Inserting a catalog that nothing conflicts with does so too.
LEMMA InsertKeeps ==
    ASSUME TablesInv, NEW p \in Participants, NEW offer \in Offers[p],
           ~InsertConflicts(p, offer), Insert(p, offer)
    PROVE  /\ TablesInv'
           /\ \A q \in Participants : catalog'[q] = "expired" => catalog[q] = "expired"
           /\ \A q \in old' : q \in old /\ catalog'[q] = catalog[q]
  <1>1. offer \in Offer /\ offer.assets \subseteq Assets
    BY OffersAssumption DEF Offer
  <1>2. catalog[p] = "absent" /\ dataset[p] = {} /\ p \notin link
    BY DEF InsertConflicts, Present, TablesInv, ReferencesHold
  <1>3. /\ catalog' = [catalog EXCEPT ![p] = "fresh"]
        /\ dataset' = [dataset EXCEPT ![p] = offer.assets]
        /\ distribution' = distribution \cup (offer.assets \X {p})
        /\ service \subseteq service' /\ service' \subseteq service \cup {p}
        /\ link \subseteq link' /\ link' \subseteq link \cup {p}
        /\ old' = old \ {p}
    BY DEF Insert, InsertRows
  <1>4. /\ offer.announced => p \in link'
        /\ p \in link' => offer.announced
        /\ offer.announced \/ offer.assets # {} => p \in service'
        /\ p \in service' => offer.announced \/ offer.assets # {} \/ p \in service
    BY <1>2 DEF Insert, InsertRows
  <1>5. TablesType'
    BY <1>1, <1>3 DEF TablesInv, TablesType
  <1>6. \A q \in Participants : /\ q # p => dataset'[q] = dataset[q] /\ catalog'[q] = catalog[q]
                                /\ q = p => dataset'[q] = offer.assets /\ catalog'[q] = "fresh"
    BY <1>3 DEF TablesInv, TablesType
  <1>7. ReferencesHold'
    <2>1. \A d \in distribution' : d[1] \in dataset'[d[2]] /\ d[2] \in service'
      <3> SUFFICES ASSUME NEW d \in distribution' PROVE d[1] \in dataset'[d[2]] /\ d[2] \in service'
        OBVIOUS
      <3>1. CASE d \in distribution
        <4>1. d[2] \in Participants /\ d[1] \in dataset[d[2]] /\ d[2] \in service
          BY <3>1 DEF TablesInv, TablesType, ReferencesHold
        <4>2. d[2] # p
          BY <4>1, <1>2
        <4> QED BY <4>1, <4>2, <1>3, <1>6
      <3>2. CASE d \in offer.assets \X {p}
        BY <3>2, <1>4, <1>6
      <3> QED BY <3>1, <3>2, <1>3
    <2>2. \A q \in Participants : q \in link' => q \in service' /\ catalog'[q] # "absent"
      BY <1>3, <1>4, <1>6 DEF TablesInv, ReferencesHold
    <2>3. \A q \in Participants : dataset'[q] # {} => catalog'[q] # "absent"
      BY <1>6 DEF TablesInv, ReferencesHold
    <2> QED BY <2>1, <2>2, <2>3 DEF ReferencesHold
  <1>8. NoOrphanServices'
    <2> SUFFICES ASSUME NEW q \in service' PROVE Uses(q, link', distribution')
      BY DEF NoOrphanServices, Uses
    <2>1. CASE q \in service
      BY <2>1, <1>3 DEF TablesInv, NoOrphanServices, Uses
    <2>2. CASE q = p /\ offer.announced
      BY <2>2, <1>4 DEF Uses
    <2>3. CASE q = p /\ offer.assets # {}
      <3>1. PICK a \in offer.assets : TRUE
        BY <2>3
      <3> QED BY <2>3, <3>1, <1>1, <1>3 DEF Uses
    <2> QED BY <2>1, <2>2, <2>3, <1>3, <1>4
  <1>9. DatasetsOffered'
    BY <1>6 DEF TablesInv, DatasetsOffered
  <1>10. ExclusiveKept'
    <2> SUFFICES ASSUME NEW q \in Participants, NEW a \in dataset'[q], Exclusive(a, q)
                 PROVE  <<a, q>> \in distribution'
      BY DEF ExclusiveKept, Exclusive
    <2>1. CASE q = p
      BY <2>1, <1>3, <1>6
    <2>2. CASE q # p
      BY <2>2, <1>3, <1>6 DEF TablesInv, ExclusiveKept
    <2> QED BY <2>1, <2>2
  <1> QED BY <1>3, <1>5, <1>6, <1>7, <1>8, <1>9, <1>10 DEF TablesInv, TablesType

-----------------------------------------------------------------------------
LEMMA InitIInv == Init => IInv
  <1> SUFFICES ASSUME Init PROVE IInv
    OBVIOUS
  <1>1. TypeOK
    BY NoOfferType, BoundAssumption DEF Init, TypeOK
  <1>2. TablesInv
    BY DEF Init, TablesInv, TablesType, ReferencesHold, NoOrphanServices, DatasetsOffered, ExclusiveKept
  <1> QED BY <1>1, <1>2 DEF Init, IInv, CrawlersKnown, Ages, OldAreMarked, SelectedAll, StaleIsPurged

\* Every step keeps the invariant.
LEMMA NextIInv == IInv /\ [Next]_vars => IInv'
  <1> SUFFICES ASSUME IInv, [Next]_vars PROVE IInv'
    OBVIOUS
  <1>1. ASSUME NEW p \in Participants, Register(p) PROVE IInv'
    <2>1. UNCHANGED tables
      BY <1>1 DEF Register, tables
    <2>2. TablesInv'
      BY <2>1, TablesUnchanged DEF IInv
    <2>3. Ages'
      BY <1>1, <2>1 DEF IInv, Register, tables, run, Ages, OldAreMarked, SelectedAll, StaleIsPurged
    <2>4. TypeOK'
      BY <1>1, <2>2, NoOfferType, OffersAssumption DEF IInv, TypeOK, TablesInv, TablesType, CrawlersKnown, Register, Upset, world, run, crawlers, tables
    <2>5. CrawlersKnown'
      BY <1>1 DEF IInv, TypeOK, CrawlersKnown, Register, Upset, world, run, crawlers, tables
    <2> QED BY <2>2, <2>3, <2>4, <2>5 DEF IInv
  <1>2. ASSUME NEW p \in Participants, Connect(p) PROVE IInv'
    <2>1. UNCHANGED tables
      BY <1>2 DEF Connect, tables
    <2>2. TablesInv'
      BY <2>1, TablesUnchanged DEF IInv
    <2>3. Ages'
      BY <1>2, <2>1 DEF IInv, Connect, tables, run, Ages, OldAreMarked, SelectedAll, StaleIsPurged
    <2>4. TypeOK'
      BY <1>2, <2>2, NoOfferType, OffersAssumption DEF IInv, TypeOK, TablesInv, TablesType, CrawlersKnown, Connect, Upset, world, run, crawlers, tables
    <2>5. CrawlersKnown'
      BY <1>2 DEF IInv, TypeOK, CrawlersKnown, Connect, Upset, world, run, crawlers, tables
    <2> QED BY <2>2, <2>3, <2>4, <2>5 DEF IInv
  <1>3. ASSUME UpdateDirectory PROVE IInv'
    <2>1. UNCHANGED tables
      BY <1>3 DEF UpdateDirectory, tables
    <2>2. TablesInv'
      BY <2>1, TablesUnchanged DEF IInv
    <2>3. Ages'
      BY <1>3, <2>1 DEF IInv, UpdateDirectory, tables, run, Ages, OldAreMarked, SelectedAll, StaleIsPurged
    <2>4. TypeOK'
      BY <1>3, <2>2, NoOfferType, OffersAssumption DEF IInv, TypeOK, TablesInv, TablesType, CrawlersKnown, UpdateDirectory, world, run, crawlers, tables
    <2>5. CrawlersKnown'
      BY <1>3 DEF IInv, TypeOK, CrawlersKnown, UpdateDirectory, world, run, crawlers, tables
    <2> QED BY <2>2, <2>3, <2>4, <2>5 DEF IInv
  <1>4. ASSUME UpdateDirectoryFails PROVE IInv'
    <2>1. UNCHANGED tables
      BY <1>4 DEF UpdateDirectoryFails, tables
    <2>2. TablesInv'
      BY <2>1, TablesUnchanged DEF IInv
    <2>3. Ages'
      BY <1>4, <2>1 DEF IInv, UpdateDirectoryFails, tables, run, Ages, OldAreMarked, SelectedAll, StaleIsPurged
    <2>4. TypeOK'
      BY <1>4, <2>2, NoOfferType, OffersAssumption DEF IInv, TypeOK, TablesInv, TablesType, CrawlersKnown, UpdateDirectoryFails, Upset, world, run, crawlers, tables
    <2>5. CrawlersKnown'
      BY <1>4 DEF IInv, TypeOK, CrawlersKnown, UpdateDirectoryFails, Upset, world, run, crawlers, tables
    <2> QED BY <2>2, <2>3, <2>4, <2>5 DEF IInv
  <1>5. ASSUME ExpireAll PROVE IInv'
    <2>1. TablesInv'
      BY <1>5 DEF IInv, ExpireAll, Present, TablesInv, TablesType, ReferencesHold, NoOrphanServices, Uses,
             DatasetsOffered, ExclusiveKept, Exclusive
    <2>2. Ages'
      BY <1>5 DEF IInv, TypeOK, ExpireAll, Present, Ages, OldAreMarked, SelectedAll, StaleIsPurged
    <2>4. TypeOK'
      BY <1>5, <2>1, NoOfferType, OffersAssumption DEF IInv, TypeOK, TablesInv, TablesType, CrawlersKnown, ExpireAll, world, run, crawlers, tables
    <2>5. CrawlersKnown'
      BY <1>5 DEF IInv, TypeOK, CrawlersKnown, ExpireAll, world, run, crawlers, tables
    <2> QED BY <2>1, <2>2, <2>4, <2>5 DEF IInv
  <1>6. ASSUME ExpireAllFails PROVE IInv'
    <2>2. TablesInv'
      BY <1>6 DEF IInv, ExpireAllFails, Present, TablesInv, TablesType, ReferencesHold, NoOrphanServices, Uses,
             DatasetsOffered, ExclusiveKept, Exclusive
    <2>3. Ages'
      BY <1>6 DEF IInv, TypeOK, ExpireAllFails, Present, Ages, OldAreMarked, SelectedAll, StaleIsPurged
    <2>4. TypeOK'
      <3>1. upsets' \in Nat
        BY <1>6 DEF ExpireAllFails, Upset, IInv, TypeOK
      <3>2. pc' \in [Crawlers -> {"idle", "fetching", "deleting", "inserting"}]
        BY <1>6 DEF ExpireAllFails, crawlers, IInv, TypeOK
      <3>3. item' \in [Crawlers -> Participants \cup {NoOne}]
        BY <1>6 DEF ExpireAllFails, crawlers, IInv, TypeOK
      <3>4. got' \in [Crawlers -> Offer]
        BY <1>6, NoOfferType DEF ExpireAllFails, crawlers, IInv, TypeOK
      <3>5. /\ registered' \subseteq Participants /\ online' \subseteq Participants
            /\ directory' \subseteq Participants
        BY <1>6 DEF ExpireAllFails, world, IInv, TypeOK
      <3>6. /\ phase' \in {"waiting", "crawling", "deleting"} /\ purged' \in BOOLEAN /\ marked' \in BOOLEAN
            /\ todo' \subseteq Participants /\ selected' \subseteq Participants
        BY <1>6 DEF ExpireAllFails, IInv, TypeOK
      <3> QED BY <2>2, <3>1, <3>2, <3>3, <3>4, <3>5, <3>6 DEF TypeOK, TablesInv, TablesType
    <2>5. CrawlersKnown'
      BY <1>6 DEF IInv, TypeOK, CrawlersKnown, ExpireAllFails, Upset, world, run, crawlers, tables
    <2> QED BY <2>2, <2>3, <2>4, <2>5 DEF IInv
  <1>7. ASSUME NEW c \in Crawlers, Assign(c) PROVE IInv'
    <2>1. UNCHANGED tables
      BY <1>7 DEF Assign, tables
    <2>2. TablesInv'
      BY <2>1, TablesUnchanged DEF IInv
    <2>3. Ages'
      BY <1>7, <2>1 DEF IInv, Assign, tables, run, Ages, OldAreMarked, SelectedAll, StaleIsPurged
    <2>4. TypeOK'
      BY <1>7, <2>2, NoOfferType, OffersAssumption DEF IInv, TypeOK, TablesInv, TablesType, CrawlersKnown, Assign, world, run, crawlers, tables
    <2>5. CrawlersKnown'
      BY <1>7 DEF IInv, TypeOK, CrawlersKnown, Assign, world, run, crawlers, tables
    <2> QED BY <2>2, <2>3, <2>4, <2>5 DEF IInv
  <1>8. ASSUME SelectExpired PROVE IInv'
    <2>1. UNCHANGED tables
      BY <1>8 DEF SelectExpired, tables
    <2>2. TablesInv'
      BY <2>1, TablesUnchanged DEF IInv
    <2>3. Ages'
      BY <1>8, <2>1 DEF IInv, SelectExpired, tables, run, Ages, OldAreMarked, SelectedAll, StaleIsPurged
    <2>4. TypeOK'
      BY <1>8, <2>2, NoOfferType, OffersAssumption DEF IInv, TypeOK, TablesInv, TablesType, CrawlersKnown, SelectExpired, world, run, crawlers, tables
    <2>5. CrawlersKnown'
      BY <1>8 DEF IInv, TypeOK, CrawlersKnown, SelectExpired, world, run, crawlers, tables
    <2> QED BY <2>2, <2>3, <2>4, <2>5 DEF IInv
  <1>9. ASSUME DeleteExpired PROVE IInv'
    <2>1. /\ TablesInv'
          /\ \A p \in Participants : catalog'[p] = "expired" => catalog[p] = "expired" /\ p \notin selected
          /\ \A p \in old' : p \in old /\ catalog'[p] = catalog[p] /\ (p \in selected => catalog[p] = "absent")
      <3>1. Delete(selected) /\ selected \in SUBSET Participants
        BY <1>9 DEF DeleteExpired, IInv, TypeOK
      <3> QED BY <3>1, DeleteKeeps DEF IInv
    <2>2. Ages'
      BY <1>9, <2>1 DEF IInv, TypeOK, DeleteExpired, Ages, OldAreMarked, SelectedAll, StaleIsPurged
    <2>4. TypeOK'
      BY <1>9, <2>1, NoOfferType, OffersAssumption DEF IInv, TypeOK, TablesInv, TablesType, CrawlersKnown, DeleteExpired, world, run, crawlers, tables
    <2>5. CrawlersKnown'
      BY <1>9 DEF IInv, TypeOK, CrawlersKnown, DeleteExpired, world, run, crawlers, tables
    <2> QED BY <2>1, <2>2, <2>4, <2>5 DEF IInv
  <1>10. ASSUME DeleteExpiredFails PROVE IInv'
    <2>1. UNCHANGED tables
      BY <1>10 DEF DeleteExpiredFails, tables
    <2>2. TablesInv'
      BY <2>1, TablesUnchanged DEF IInv
    <2>3. Ages'
      BY <1>10, <2>1 DEF IInv, DeleteExpiredFails, tables, run, Ages, OldAreMarked, SelectedAll, StaleIsPurged
    <2>4. TypeOK'
      BY <1>10, <2>2, NoOfferType, OffersAssumption DEF IInv, TypeOK, TablesInv, TablesType, CrawlersKnown, DeleteExpiredFails, Upset, world, run, crawlers, tables
    <2>5. CrawlersKnown'
      BY <1>10 DEF IInv, TypeOK, CrawlersKnown, DeleteExpiredFails, Upset, world, run, crawlers, tables
    <2> QED BY <2>2, <2>3, <2>4, <2>5 DEF IInv
  <1>11. ASSUME NEW c \in Crawlers, Fetch(c) PROVE IInv'
    <2>1. UNCHANGED tables
      BY <1>11 DEF Fetch, tables
    <2>2. TablesInv'
      BY <2>1, TablesUnchanged DEF IInv
    <2>3. Ages'
      BY <1>11, <2>1 DEF IInv, Fetch, tables, run, Ages, OldAreMarked, SelectedAll, StaleIsPurged
    <2>4. TypeOK'
      BY <1>11, <2>2, NoOfferType, OffersAssumption DEF IInv, TypeOK, TablesInv, TablesType, CrawlersKnown, Fetch, Finish, Goto, world, run, crawlers, tables
    <2>5. CrawlersKnown'
      BY <1>11 DEF IInv, TypeOK, CrawlersKnown, Fetch, Finish, Goto, world, run, crawlers, tables
    <2> QED BY <2>2, <2>3, <2>4, <2>5 DEF IInv
  <1>12. ASSUME NEW c \in Crawlers, SaveDeletes(c) PROVE IInv'
    <2>1. /\ TablesInv'
          /\ \A p \in Participants : catalog'[p] = "expired" => catalog[p] = "expired"
          /\ \A p \in old' : p \in old /\ catalog'[p] = catalog[p]
      <3>1. Delete({item[c]}) /\ {item[c]} \in SUBSET Participants
        BY <1>12 DEF SaveDeletes, IInv, CrawlersKnown
      <3> QED BY <3>1, DeleteKeeps DEF IInv
    <2>2. Ages'
      BY <1>12, <2>1 DEF IInv, SaveDeletes, run, Ages, OldAreMarked, SelectedAll, StaleIsPurged
    <2>4. TypeOK'
      BY <1>12, <2>1, NoOfferType, OffersAssumption DEF IInv, TypeOK, TablesInv, TablesType, CrawlersKnown, SaveDeletes, Goto, world, run, crawlers, tables
    <2>5. CrawlersKnown'
      BY <1>12 DEF IInv, TypeOK, CrawlersKnown, SaveDeletes, Goto, world, run, crawlers, tables
    <2> QED BY <2>1, <2>2, <2>4, <2>5 DEF IInv
  <1>13. ASSUME NEW c \in Crawlers, SaveInserts(c) PROVE IInv'
    <2>1. /\ TablesInv'
          /\ \A p \in Participants : catalog'[p] = "expired" => catalog[p] = "expired"
          /\ \A p \in old' : p \in old /\ catalog'[p] = catalog[p]
      <3>1. CASE InsertConflicts(item[c], got[c])
        <4>1. UNCHANGED tables
          BY <1>13, <3>1 DEF SaveInserts
        <4> QED BY <4>1, TablesUnchanged DEF IInv, tables, TablesInv, TablesType
      <3>2. CASE ~InsertConflicts(item[c], got[c])
        <4>1. Insert(item[c], got[c]) /\ item[c] \in Participants /\ got[c] \in Offers[item[c]]
          BY <1>13, <3>2 DEF SaveInserts, IInv, CrawlersKnown
        <4> QED BY <3>2, <4>1, InsertKeeps DEF IInv
      <3> QED BY <3>1, <3>2
    <2>2. Ages'
      BY <1>13, <2>1 DEF IInv, SaveInserts, run, Ages, OldAreMarked, SelectedAll, StaleIsPurged
    <2>4. TypeOK'
      BY <1>13, <2>1, NoOfferType, OffersAssumption DEF IInv, TypeOK, TablesInv, TablesType, CrawlersKnown, SaveInserts, Finish, Goto, world, run, crawlers, tables
    <2>5. CrawlersKnown'
      BY <1>13 DEF IInv, TypeOK, CrawlersKnown, SaveInserts, Finish, Goto, world, run, crawlers, tables
    <2> QED BY <2>1, <2>2, <2>4, <2>5 DEF IInv
  <1>14. ASSUME NEW c \in Crawlers, SaveFails(c) PROVE IInv'
    <2>1. UNCHANGED tables
      BY <1>14 DEF SaveFails, tables
    <2>2. TablesInv'
      BY <2>1, TablesUnchanged DEF IInv
    <2>3. Ages'
      BY <1>14, <2>1 DEF IInv, SaveFails, tables, run, Ages, OldAreMarked, SelectedAll, StaleIsPurged
    <2>4. TypeOK'
      BY <1>14, <2>2, NoOfferType, OffersAssumption DEF IInv, TypeOK, TablesInv, TablesType, CrawlersKnown, SaveFails, Finish, Goto, Upset, world, run, crawlers, tables
    <2>5. CrawlersKnown'
      BY <1>14 DEF IInv, TypeOK, CrawlersKnown, SaveFails, Finish, Goto, Upset, world, run, crawlers, tables
    <2> QED BY <2>2, <2>3, <2>4, <2>5 DEF IInv
  <1>15. ASSUME Restart PROVE IInv'
    <2>1. UNCHANGED tables
      BY <1>15 DEF Restart, tables
    <2>2. TablesInv'
      BY <2>1, TablesUnchanged DEF IInv
    <2>3. Ages'
      BY <1>15, <2>1 DEF IInv, Restart, tables, run, Ages, OldAreMarked, SelectedAll, StaleIsPurged
    <2>4. TypeOK'
      <3>1. upsets' \in Nat
        BY <1>15 DEF Restart, Upset, IInv, TypeOK
      <3>2. pc' \in [Crawlers -> {"idle", "fetching", "deleting", "inserting"}]
        BY <1>15 DEF Restart, crawlers, IInv, TypeOK
      <3>3. item' \in [Crawlers -> Participants \cup {NoOne}]
        BY <1>15 DEF Restart, crawlers, IInv, TypeOK
      <3>4. got' \in [Crawlers -> Offer]
        BY <1>15, NoOfferType DEF Restart, crawlers, IInv, TypeOK
      <3>5. /\ registered' \subseteq Participants /\ online' \subseteq Participants
            /\ directory' \subseteq Participants
        BY <1>15 DEF Restart, world, IInv, TypeOK
      <3>6. /\ phase' \in {"waiting", "crawling", "deleting"} /\ purged' \in BOOLEAN /\ marked' \in BOOLEAN
            /\ todo' \subseteq Participants /\ selected' \subseteq Participants
        BY <1>15 DEF Restart, IInv, TypeOK
      <3> QED BY <2>2, <3>1, <3>2, <3>3, <3>4, <3>5, <3>6 DEF TypeOK, TablesInv, TablesType
    <2>5. CrawlersKnown'
      BY <1>15 DEF IInv, TypeOK, CrawlersKnown, Restart, Upset, world, run, crawlers, tables
    <2> QED BY <2>2, <2>3, <2>4, <2>5 DEF IInv
  <1>16. CASE UNCHANGED vars
    BY <1>16, TablesUnchanged DEF IInv, vars, world, run, crawlers, tables, TypeOK, CrawlersKnown,
       Ages, OldAreMarked, SelectedAll, StaleIsPurged
  <1> QED BY <1>1, <1>2, <1>3, <1>4, <1>5, <1>6, <1>7, <1>8, <1>9, <1>10, <1>11, <1>12, <1>13, <1>14, <1>15, <1>16 DEF Next, RunStep, CrawlerStep

\* Theorem.  The inductive invariant holds throughout.
THEOREM Invariant == Spec => []IInv
  <1> QED BY InitIInv, NextIInv, PTL DEF Spec

\* Theorem.  Types are kept, for any participants, assets, offers and crawlers.
THEOREM TypeCorrect == Spec => []TypeOK
  <1>1. IInv => TypeOK
    BY DEF IInv
  <1> QED BY <1>1, Invariant, PTL

\* Theorem.  No save, purge or failure leaves a row that refers to nothing.
THEOREM References == Spec => []ReferencesHold
  <1>1. IInv => ReferencesHold
    BY DEF IInv, TablesInv
  <1> QED BY <1>1, Invariant, PTL

\* Theorem.  No data service outlives the last reference to it.
THEOREM NoOrphans == Spec => []NoOrphanServices
  <1>1. IInv => NoOrphanServices
    BY DEF IInv, TablesInv
  <1> QED BY <1>1, Invariant, PTL

\* Theorem.  Where a participant has no catalog, the INSERTs of a save find no
\* conflicting key: a service that is kept is linked or used, hence its
\* participant's catalog is there.
THEOREM NoLockOut == Spec => []OnlyCatalogsConflict
  <1>1. IInv => OnlyCatalogsConflict
    <2> SUFFICES ASSUME IInv, NEW c \in Crawlers, pc[c] = "inserting", catalog[item[c]] = "absent"
                 PROVE  ~InsertConflicts(item[c], got[c])
      BY DEF OnlyCatalogsConflict
    <2>1. item[c] \in Participants
      BY DEF IInv, CrawlersKnown
    <2>2. \A a \in Assets : <<a, item[c]>> \notin distribution
      BY <2>1 DEF IInv, TablesInv, ReferencesHold
    <2>3. item[c] \notin link
      BY <2>1 DEF IInv, TablesInv, ReferencesHold
    <2>4. item[c] \notin service
      BY <2>2, <2>3 DEF IInv, TablesInv, NoOrphanServices, Uses
    <2> QED BY <2>4 DEF InsertConflicts, Present
  <1> QED BY <1>1, Invariant, PTL

\* Theorem.  A dataset id that only one participant uses keeps exactly its own
\* distribution, though distributions are stored and deleted without the catalog.
THEOREM OwnDistributions == Spec => []ExclusiveDistributions
  <1>1. IInv => ExclusiveDistributions
    <2> SUFFICES ASSUME IInv, NEW p \in Participants, NEW a \in dataset[p], Exclusive(a, p)
                 PROVE  {q \in Participants : <<a, q>> \in distribution} = {p}
      BY DEF ExclusiveDistributions
    <2>1. <<a, p>> \in distribution
      BY DEF IInv, TablesInv, ExclusiveKept
    <2>2. ASSUME NEW q \in Participants, <<a, q>> \in distribution PROVE q = p
      <3>1. a \in dataset[q]
        BY <2>2 DEF IInv, TablesInv, ReferencesHold
      <3> QED BY <3>1 DEF IInv, TablesInv, DatasetsOffered, Exclusive
    <2> QED BY <2>1, <2>2
  <1> QED BY <1>1, Invariant, PTL

\* Theorem.  After a full purge no catalog from before the run is left; only where
\* the run's expireAll failed can there be one, and no earlier run had marked it.
THEOREM Purged == Spec => []StaleIsPurged
  <1>1. IInv => StaleIsPurged
    BY DEF IInv, Ages
  <1> QED BY <1>1, Invariant, PTL
=============================================================================

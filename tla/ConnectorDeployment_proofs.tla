--------------------- MODULE ConnectorDeployment_proofs ---------------------
(***************************************************************************)
(* Theorems about ConnectorDeployment: its three properties, for any       *)
(* connectors and bounds.  A release that was not left behind by a failing *)
(* uninstall has not been touched since it was installed, so it still      *)
(* matches all that was written for it (ReleasesMatch); that it matched    *)
(* then follows from what `connector create` and the MinIO setup have      *)
(* written by each point of the run (UnderConstruction).  What a run does  *)
(* that nothing disturbs is a separate part (CleanRun, CleanFull,          *)
(* CleanAdditive).                                                         *)
(***************************************************************************)
EXTENDS ConnectorDeployment, TLAPS

\* The pieces that `connector create` writes, whatever happens to the certificate.
Written1 == {"file", "certs", "role", "user", "privateKey", "accessKey", "secretKey", "values"}

\* All that `connector create` writes is of version v.
Made(c, v) ==
    /\ v # 0 /\ sections[c] = 5
    /\ \A p \in Written1 : held[c][p] = v
    /\ "upload" \notin slips[c] => held[c]["certificate"] = v

\* So is what setup_minio_bucket writes.
Stored(c, v) ==
    /\ held[c]["account"] = v /\ held[c]["policy"] # 0
    /\ "password" \notin slips[c] => held[c]["password"] = v

AtCreation == {"create", "minio", "deploy"}
AtOne == AtCreation \cup {"sync", "cleanup"}
AtConnectors == AtOne \cup {"next", "validate", "success"}

\* Only configured connectors are looked at.
Places ==
    /\ pc \in AtOne => current \in desired
    /\ pc \in AtConnectors => todo \subseteq desired
    /\ pc \in {"validate", "success"} => todo = {}
    /\ pc = "success" => \A c \in desired : Released(c) /\ held[c]["role"] # 0

\* The connector is a participant, unless Level 3 dropped it.
Listed(c) == row[c] \/ c \in dropped

\* A release whose database was lost matches nothing, and a run does not keep it.
ReleasesMatch ==
    \A c \in Connectors :
      Released(c) /\ held[c]["role"] # 0 /\ "uninstall" \notin slips[c] =>
        Made(c, held[c]["runtime"]) /\ Stored(c, held[c]["runtime"]) /\ Listed(c)

UnderConstruction ==
    /\ pc \in AtCreation => held[current]["runtime"] = 0 \/ "uninstall" \in slips[current]
    /\ pc \in {"minio", "deploy"} => Made(current, held[current]["values"]) /\ row[current]
    /\ pc = "deploy" => Stored(current, held[current]["values"])

\* An undisturbed run has removed the release of a connector that it creates.
CleanRun ==
    clean => /\ pc \in AtCreation => held[current]["runtime"] = 0
             /\ pc \in {"minio", "deploy"} => "upload" \notin slips[current]
             /\ pc = "deploy" => "password" \notin slips[current]

Done(c) == Working(c) /\ hosts[c] = desired /\ up[c]

CleanFull ==
    mode = "full" /\ clean =>
        /\ pc \notin {"sync", "aborted"}
        /\ pc = "stale" => \A c \in Connectors \ desired : Released(c) => c \in todo
        /\ pc \in AtConnectors => \A c \in Connectors \ desired : ~Released(c)
        /\ pc \in AtConnectors => \A c \in desired :
              c \in todo \/ (pc \in AtOne /\ c = current) \/ Done(c)

CleanAdditive ==
    mode = "additive" /\ clean =>
        /\ pc = "stale" => todo = {}
        /\ pc = "cleanup" => ~(Working(current) /\ up[current])

IInv == /\ TypeOK /\ Places /\ ReleasesMatch /\ UnderConstruction
        /\ CleanRun /\ CleanFull /\ CleanAdditive

---------------------------------------------------------------------------
(* Types *)

PieceTypes ==
    /\ held \in [Connectors -> [Pieces -> Versions]]
    /\ sections \in [Connectors -> 0..5]
    /\ hosts \in [Connectors -> SUBSET Connectors]
    /\ up \in [Connectors -> BOOLEAN] /\ row \in [Connectors -> BOOLEAN]
    /\ dropped \subseteq Connectors
SlipTypes == slips \in [Connectors -> SUBSET Slips]
RunTypes ==
    /\ desired \subseteq Connectors /\ todo \subseteq Connectors
    /\ mode \in {"full", "additive"}
    /\ current \in Connectors \cup {NoConnector} /\ attempt \in 1..2
    /\ pc \in {"idle", "stale", "next", "sync", "cleanup", "create", "minio", "deploy",
               "validate", "success", "aborted"}
TallyTypes == faults \in 0..MaxFaults /\ upsets \in 0..MaxUpsets /\ clean \in BOOLEAN

LEMMA TypeParts == TypeOK <=> PieceTypes /\ SlipTypes /\ RunTypes /\ TallyTypes
  BY DEF TypeOK, PieceTypes, SlipTypes, RunTypes, TallyTypes

\* The connectors other than c are left alone.
OthersKept(c) == \A d \in Connectors \ {c} :
                    UNCHANGED <<held[d], sections[d], hosts[d], up[d], row[d], d \in dropped, slips[d]>>

\* What a failing command leaves behind is told apart from what a working one does by
\* the run's history.
LEMMA Tallied ==
    ASSUME TallyTypes
    PROVE  /\ Works => UNCHANGED <<faults, clean>>
           /\ Glitch => faults' \in 0..MaxFaults /\ ~clean' /\ clean' \in BOOLEAN
<1>1. Works => UNCHANGED <<faults, clean>>
  BY DEF Works, tally
<1>2. Glitch => faults' \in 0..MaxFaults
  BY BoundsAssumption DEF Glitch, TallyTypes
<1>3. Glitch => ~clean' /\ clean' \in BOOLEAN
  BY DEF Glitch
<1> QED BY <1>1, <1>2, <1>3

\* A cleanup removes the release, or leaves a slip.
LEMMA CleanupEffect ==
    ASSUME NEW c \in Connectors, Cleanup(c), PieceTypes, SlipTypes, TallyTypes
    PROVE  /\ PieceTypes' /\ SlipTypes' /\ OthersKept(c)
           /\ held'[c]["runtime"] = 0 \/ "uninstall" \in slips'[c]
           /\ held'[c]["runtime"] \in {0, held[c]["runtime"]}
           /\ faults' \in 0..MaxFaults /\ clean' \in BOOLEAN
           /\ clean' => clean /\ held'[c]["runtime"] = 0
<1> PICK ok \in SUBSET Systems :
        /\ IF ok = Systems THEN Works ELSE Glitch
        /\ held' = [held EXCEPT ![c] = [p \in Pieces |-> IF p \in Removed(ok) THEN 0
                                                      ELSE held[c][p]]]
        /\ up' = [up EXCEPT ![c] = @ /\ "helm" \notin ok]
        /\ hosts' = [hosts EXCEPT ![c] = IF "helm" \in ok THEN {} ELSE @]
        /\ row' = [row EXCEPT ![c] = @ /\ "registration" \notin ok]
        /\ IF Released(c) /\ "helm" \notin ok
           THEN Slipped(c, "uninstall") ELSE UNCHANGED slips
        /\ dropped' = IF "helm" \in ok THEN dropped \ {c} ELSE dropped
        /\ UNCHANGED sections
  BY DEF Cleanup
<1>1. held' \in [Connectors -> [Pieces -> Versions]] /\ sections' \in [Connectors -> 0..5]
  BY BoundsAssumption DEF PieceTypes, Versions
<1>2. hosts' \in [Connectors -> SUBSET Connectors]
  BY DEF PieceTypes
<1>3. up' \in [Connectors -> BOOLEAN] /\ row' \in [Connectors -> BOOLEAN]
      /\ dropped' \subseteq Connectors
  BY DEF PieceTypes
<1>4. SlipTypes'
  BY DEF SlipTypes, Slipped, Slips
<1>5. OthersKept(c)
  BY DEF OthersKept, Slipped, PieceTypes, SlipTypes
<1>6. /\ held'[c]["runtime"] \in {0, held[c]["runtime"]}
      /\ "helm" \in ok => held'[c]["runtime"] = 0
  BY DEF PieceTypes, Removed, Pieces
<1>7. held'[c]["runtime"] = 0 \/ "uninstall" \in slips'[c]
  BY <1>6 DEF Released, Slipped, SlipTypes
<1>8. clean' => clean /\ ok = Systems
  BY Tallied DEF TallyTypes
<1> QED BY <1>1, <1>2, <1>3, <1>4, <1>5, <1>6, <1>7, <1>8, Tallied DEF PieceTypes, TallyTypes, Systems

\* The steps of `connector create` up to the k-th.
LEMMA ReachedSteps ==
    /\ Len(Steps) = 16
    /\ \A k \in 0..16 : {"runtime", "password", "account", "policy"} \cap Reached(k) = {}
    /\ Written1 \ {"file"} \subseteq Reached(16)
    /\ {"empty", "certificate", "MINIO", "register"} \subseteq Reached(16)
<1>1. Len(Steps) = 16
  BY DEF Steps
<1>2. \A k \in 0..16 : {"runtime", "password", "account", "policy"} \cap Reached(k) = {}
  BY DEF Steps, Reached
<1>3. Steps[2] \in Reached(16) /\ Steps[4] \in Reached(16) /\ Steps[6] \in Reached(16)
      /\ Steps[10] \in Reached(16) /\ Steps[11] \in Reached(16) /\ Steps[12] \in Reached(16)
      /\ Steps[16] \in Reached(16)
  BY DEF Reached
<1>4. Steps[1] \in Reached(16) /\ Steps[8] \in Reached(16) /\ Steps[13] \in Reached(16)
      /\ Steps[15] \in Reached(16)
  BY DEF Reached
<1>5. Written1 \ {"file"} \subseteq Reached(16)
  BY <1>3 DEF Steps, Written1
<1>6. {"empty", "certificate", "MINIO", "register"} \subseteq Reached(16)
  BY <1>4 DEF Steps
<1> QED BY <1>1, <1>2, <1>5, <1>6

\* Creating a connector does not touch its release.
LEMMA MakeEffect ==
    ASSUME NEW c \in Connectors, NEW done, Make(c, done), "runtime" \notin done, PieceTypes,
           UNCHANGED slips \/ Mended(c, "upload") \/ Slipped(c, "upload"), SlipTypes
    PROVE  /\ PieceTypes' /\ SlipTypes' /\ OthersKept(c)
           /\ held'[c]["runtime"] = held[c]["runtime"]
           /\ "uninstall" \in slips[c] => "uninstall" \in slips'[c]
<1> DEFINE v == CHOOSE w \in NewSecrets(c) : TRUE
<1>1. v \in Versions
  BY BoundsAssumption DEF Make, NewSecrets, Versions
<1> HIDE DEF v
<1>2. /\ held' = [held EXCEPT ![c] = Created(c, done, v)]
      /\ sections' = [sections EXCEPT ![c] = IF "empty" \in done THEN Written(done) ELSE @]
      /\ row' = [row EXCEPT ![c] = IF "register" \in done THEN TRUE
                                   ELSE IF "unregister" \in done THEN FALSE ELSE @]
      /\ dropped' = IF "register" \in done THEN dropped \ {c} ELSE dropped
      /\ UNCHANGED <<hosts, up>>
  BY DEF Make, v
<1>3. Created(c, done, v) \in [Pieces -> Versions]
  BY <1>1 DEF Created, PieceTypes
<1>4. Created(c, done, v)["runtime"] = held[c]["runtime"]
  BY DEF Created, Pieces
<1>5. held' \in [Connectors -> [Pieces -> Versions]] /\ UNCHANGED held[c]["runtime"]
  BY <1>2, <1>3, <1>4 DEF PieceTypes
<1>6. /\ sections' \in [Connectors -> 0..5] /\ row' \in [Connectors -> BOOLEAN]
      /\ dropped' \subseteq Connectors
  <2>1. Written(done) \in 0..5
    BY DEF Written
  <2>2. sections' \in [Connectors -> 0..5]
    BY <1>2, <2>1 DEF PieceTypes
  <2>3. row' \in [Connectors -> BOOLEAN]
    BY <1>2 DEF PieceTypes
  <2> QED BY <1>2, <2>2, <2>3 DEF PieceTypes
<1>7. SlipTypes'
  BY DEF SlipTypes, Slipped, Mended, Slips
<1>8. OthersKept(c)
  BY <1>2 DEF OthersKept, Slipped, Mended, PieceTypes, SlipTypes
<1>9. "uninstall" \in slips[c] => "uninstall" \in slips'[c]
  BY DEF Slipped, Mended, SlipTypes
<1> QED BY <1>2, <1>5, <1>6, <1>7, <1>8, <1>9 DEF PieceTypes

\* A command that got to its end has written the pieces, with one version of the secrets.
LEMMA MakeMakes ==
    ASSUME NEW c \in Connectors, PieceTypes, SlipTypes,
           \/ Make(c, Reached(16)) /\ Mended(c, "upload")
           \/ Make(c, Reached(16) \ {"certificate"}) /\ Slipped(c, "upload")
    PROVE  Made(c, held[c]["values"])' /\ row'[c]
<1> DEFINE v == CHOOSE w \in NewSecrets(c) : TRUE
<1>1. v \in Nat \ {0}
  <2>1. v \in NewSecrets(c)
    BY DEF Make
  <2> QED BY <2>1, BoundsAssumption DEF NewSecrets
<1> HIDE DEF v
<1>2. ASSUME NEW done, Make(c, done), Reached(16) \ {"certificate"} \subseteq done
      PROVE  /\ held'[c] = Created(c, done, v) /\ sections'[c] = 5 /\ row'[c]
             /\ \A p \in Written1 : held'[c][p] = v
             /\ "certificate" \in done => held'[c]["certificate"] = v
  <2>1. held'[c] = Created(c, done, v)
    BY <1>2 DEF Make, v, PieceTypes
  <2>2. sections'[c] = 5 /\ row'[c]
    BY <1>2, ReachedSteps DEF Make, Written, PieceTypes
  <2>3. \A p \in Written1 : p \in done \/ (p = "file" /\ "empty" \in done)
    BY <1>2, ReachedSteps DEF Written1
  <2>4. \A p \in Written1 : held'[c][p] = v
    BY <2>1, <2>3 DEF Created, Written1, Pieces
  <2>5. "certificate" \in done => held'[c]["certificate"] = v
    BY <2>1 DEF Created, Pieces
  <2> QED BY <2>1, <2>2, <2>4, <2>5
<1>3. CASE Make(c, Reached(16)) /\ Mended(c, "upload")
  <2>1. "certificate" \in Reached(16)
    BY ReachedSteps
  <2> QED BY <1>1, <1>2, <1>3, <2>1 DEF Made, Written1
<1>4. CASE Make(c, Reached(16) \ {"certificate"}) /\ Slipped(c, "upload")
  <2>1. "upload" \in slips'[c]
    BY <1>4 DEF Slipped, SlipTypes
  <2> QED BY <1>1, <1>2, <1>4, <2>1 DEF Made, Written1
<1> QED BY <1>3, <1>4

\* The MinIO setup copies the password of the credentials file.
LEMMA MinioEffect ==
    ASSUME NEW c \in Connectors, NEW done \in SUBSET MinioPieces, WithMinio(c, done), PieceTypes
    PROVE  /\ held' \in [Connectors -> [Pieces -> Versions]]
           /\ \A d \in Connectors \ {c} : UNCHANGED held[d]
           /\ \A p \in Pieces \ MinioPieces : UNCHANGED held[c][p]
           /\ \A p \in done : held'[c][p] = held[c]["file"]
<1>1. "file" \in Pieces /\ MinioPieces \subseteq Pieces
  BY DEF Pieces, MinioPieces
<1>2. held[c] \in [Pieces -> Versions]
  BY DEF PieceTypes
<1> DEFINE h == [p \in Pieces |-> IF p \in done THEN held[c]["file"] ELSE held[c][p]]
<1>3. h \in [Pieces -> Versions]
  BY <1>1, <1>2
<1>4. held' = [held EXCEPT ![c] = h]
  BY DEF WithMinio
<1>5. \A p \in Pieces : h[p] = IF p \in done THEN held[c]["file"] ELSE held[c][p]
  OBVIOUS
<1> HIDE DEF h
<1> QED BY <1>1, <1>3, <1>4, <1>5 DEF PieceTypes

\* One piece of a connector is written.
LEMMA HoldEffect ==
    ASSUME NEW c \in Connectors, NEW q \in Pieces, NEW v \in Versions, Hold(c, q, v), PieceTypes
    PROVE  /\ held' \in [Connectors -> [Pieces -> Versions]]
           /\ \A d \in Connectors \ {c} : UNCHANGED held[d]
           /\ \A p \in Pieces \ {q} : UNCHANGED held[c][p]
           /\ held'[c][q] = v
<1>1. held' = [held EXCEPT ![c] = [held[c] EXCEPT ![q] = v]]
  BY DEF Hold
<1>2. [held[c] EXCEPT ![q] = v] \in [Pieces -> Versions]
  BY DEF PieceTypes
<1> QED BY <1>1, <1>2 DEF PieceTypes

\* Installing the release gives it the written values.
LEMMA InstallEffect ==
    ASSUME NEW c \in Connectors, Install(c), PieceTypes, SlipTypes, desired \subseteq Connectors
    PROVE  /\ held' \in [Connectors -> [Pieces -> Versions]]
           /\ hosts' = [hosts EXCEPT ![c] = desired] /\ hosts' \in [Connectors -> SUBSET Connectors]
           /\ SlipTypes' /\ slips'[c] = slips[c] \ {"uninstall"}
           /\ \A d \in Connectors \ {c} : UNCHANGED <<held[d], slips[d], hosts[d]>>
           /\ \A p \in Pieces \ {"runtime"} : UNCHANGED held[c][p]
           /\ held'[c]["runtime"] = held[c]["values"]
<1>1. held[c]["values"] \in Versions /\ "runtime" \in Pieces
  BY DEF PieceTypes, Pieces
<1>2. Hold(c, "runtime", held[c]["values"])
  BY DEF Install
<1>3. SlipTypes' /\ slips'[c] = slips[c] \ {"uninstall"} /\ \A d \in Connectors \ {c} : UNCHANGED slips[d]
  BY DEF Install, Mended, SlipTypes
<1>4. /\ hosts' = [hosts EXCEPT ![c] = desired] /\ hosts' \in [Connectors -> SUBSET Connectors]
      /\ \A d \in Connectors \ {c} : UNCHANGED hosts[d]
  BY DEF Install, PieceTypes
<1> QED BY <1>1, <1>2, <1>3, <1>4, HoldEffect

\* The connector that a run is at is a connector.
LEMMA CurrentKnown == IInv /\ pc \in AtOne => current \in Connectors /\ current \in desired
  BY TypeParts DEF IInv, Places, RunTypes

LEMMA PieceTypesStep == IInv /\ [Next]_vars => PieceTypes' /\ SlipTypes'
<1> SUFFICES ASSUME IInv, [Next]_vars PROVE PieceTypes' /\ SlipTypes'
  OBVIOUS
<1>0. PieceTypes /\ SlipTypes /\ RunTypes /\ TallyTypes
  BY TypeParts DEF IInv
<1> USE DEF AtOne, AtCreation
<1>1. CASE UNCHANGED <<pieces, slips>>
  BY <1>0, <1>1 DEF pieces, PieceTypes, SlipTypes
<1>2. ASSUME NEW c \in Connectors, RemoveStale(c) PROVE PieceTypes' /\ SlipTypes'
  BY <1>0, <1>1, <1>2, CleanupEffect DEF RemoveStale
<1>3. CASE SyncClient
  <2>1. current \in Connectors
    BY <1>3, CurrentKnown DEF SyncClient
  <2>2. held[current]["certs"] \in Versions /\ "certificate" \in Pieces
    BY <1>0, <2>1 DEF PieceTypes, Pieces
  <2>3. held' \in [Connectors -> [Pieces -> Versions]]
    BY <1>0, <1>3, <2>1, <2>2, HoldEffect DEF SyncClient, PieceTypes
  <2>4. SlipTypes'
    BY <1>0, <1>3 DEF SyncClient, Mended, Slipped, SlipTypes, Slips
  <2> QED BY <1>0, <1>3, <2>3, <2>4 DEF SyncClient, PieceTypes
<1>4. CASE CleanUp
  <2>1. current \in Connectors
    BY <1>4, CurrentKnown DEF CleanUp
  <2> QED BY <1>0, <1>1, <1>4, <2>1, CleanupEffect DEF CleanUp
<1>5. CASE RunCreate
  <2>1. current \in Connectors
    BY <1>5, CurrentKnown DEF RunCreate
  <2>2. \E done : /\ Make(current, done) /\ "runtime" \notin done
                  /\ UNCHANGED slips \/ Mended(current, "upload") \/ Slipped(current, "upload")
    BY <1>5, ReachedSteps DEF RunCreate
  <2> QED BY <1>0, <2>1, <2>2, MakeEffect
<1>6. CASE SetupMinio
  <2>1. current \in Connectors
    BY <1>6, CurrentKnown DEF SetupMinio
  <2>2. \A k \in 0..2 : {MinioSteps[j] : j \in 1..k} \subseteq MinioPieces
    BY DEF MinioSteps, MinioPieces
  <2>3. \E done \in SUBSET MinioPieces : WithMinio(current, done)
    BY <1>6, <2>2 DEF SetupMinio
  <2>4. held' \in [Connectors -> [Pieces -> Versions]]
    BY <1>0, <2>1, <2>3, MinioEffect
  <2>5. SlipTypes'
    BY <1>0, <1>6 DEF SetupMinio, Mended, Slipped, SlipTypes, Slips
  <2> QED BY <1>0, <1>6, <2>4, <2>5 DEF SetupMinio, PieceTypes
<1>7. CASE DeployRelease
  <2>1. current \in Connectors /\ desired \subseteq Connectors
    BY <1>0, <1>7, CurrentKnown DEF DeployRelease, RunTypes
  <2>2. CASE Install(current)
    <3>1. up' \in [Connectors -> BOOLEAN]
      BY <1>0, <1>7, <2>2 DEF DeployRelease, PieceTypes
    <3> QED BY <1>0, <1>7, <2>1, <2>2, <3>1, InstallEffect DEF DeployRelease, PieceTypes
  <2>3. CASE UNCHANGED <<held, hosts, up, slips>>
    BY <1>0, <1>7, <2>3 DEF DeployRelease, PieceTypes, SlipTypes
  <2> QED BY <1>7, <2>2, <2>3 DEF DeployRelease
<1>8. CASE \E c \in Connectors : PodFails(c) \/ PodRecovers(c)
  BY <1>0, <1>8 DEF PodFails, PodRecovers, PieceTypes, SlipTypes
<1>9. CASE \/ (\E m \in {"full", "additive"} : Begin(m)) \/ (\E c \in Connectors : Choose(c))
           \/ StaleGone \/ AllDeployed \/ Validate \/ EndRun \/ Interrupt \/ EditConfig
           \/ UNCHANGED vars
  BY <1>1, <1>9 DEF Begin, Choose, StaleGone, AllDeployed, Validate, EndRun, Interrupt,
                    EditConfig, vars
<1>10. CASE RecreateServices
  <2>1. held' \in [Connectors -> [Pieces -> Versions]]
    BY <1>0, <1>10, BoundsAssumption DEF RecreateServices, PieceTypes, Versions
  <2>2. row' \in [Connectors -> BOOLEAN] /\ dropped' = {} /\ UNCHANGED <<sections, hosts, up, slips>>
    BY <1>10 DEF RecreateServices
  <2> QED BY <1>0, <2>1, <2>2 DEF PieceTypes, SlipTypes
<1>11. CASE RecreateDataspace
  BY <1>0, <1>11 DEF RecreateDataspace, PieceTypes, SlipTypes
<1> QED BY <1>2, <1>3, <1>4, <1>5, <1>6, <1>7, <1>8, <1>9, <1>10, <1>11 DEF Next, Step

LEMMA TallyTypesStep == IInv /\ [Next]_vars => TallyTypes'
<1> SUFFICES ASSUME IInv, [Next]_vars PROVE TallyTypes'
  OBVIOUS
<1>0. TallyTypes
  BY TypeParts DEF IInv
<1>1. CASE UNCHANGED upsets /\ (Works \/ Glitch)
  <2>1. UNCHANGED <<faults, clean>> \/ (faults' \in 0..MaxFaults /\ clean' \in BOOLEAN)
    BY <1>0, <1>1, Tallied
  <2> QED BY <1>0, <1>1, <2>1 DEF TallyTypes
<1>2. CASE UNCHANGED <<faults, upsets>> /\ clean' = TRUE
  BY <1>0, <1>2 DEF TallyTypes
<1>3. CASE Upset /\ UNCHANGED faults
  <2>1. upsets' \in 0..MaxUpsets
    BY <1>0, <1>3, BoundsAssumption DEF Upset, TallyTypes
  <2>2. clean' \in BOOLEAN
    BY <1>3 DEF Upset
  <2> QED BY <1>0, <1>3, <2>1, <2>2 DEF TallyTypes
<1>4. \A c : Cleanup(c) => Works \/ Glitch
  BY DEF Cleanup
<1>5. \A t, b : Observed(t, b) => Works \/ Glitch
  BY DEF Observed
<1>6. CASE Step
  BY <1>1, <1>4, <1>5, <1>6 DEF Step, RemoveStale, Choose, StaleGone, SyncClient, CleanUp, RunCreate,
             SetupMinio, DeployRelease, AllDeployed, Validate, EndRun, Works, tally
<1> QED BY <1>1, <1>2, <1>3, <1>6 DEF Next, Begin, Interrupt, EditConfig, RecreateServices,
                                      RecreateDataspace, PodFails, PodRecovers, Works, tally, vars

\* Where a step leads to.
Leads(from, to) == pc = from /\ pc' \in to

LEMMA Flow ==
    ASSUME IInv, [Next]_vars
    PROVE  \/ UNCHANGED <<pc, todo, current, desired, held>>
           \/ Leads("idle", {"stale"}) /\ UNCHANGED <<current, desired>> /\ todo' \subseteq Connectors
           \/ Leads("idle", {"idle"}) /\ UNCHANGED <<todo, current>> /\ desired' \subseteq Connectors
           \/ Leads("stale", {"stale", "aborted"}) /\ UNCHANGED <<current, desired>> /\ todo' \subseteq todo
           \/ Leads("stale", {"next"}) /\ UNCHANGED <<current, desired>> /\ todo' = desired
           \/ /\ Leads("next", {"sync", "cleanup"}) /\ UNCHANGED desired
              /\ current' \in todo /\ todo' = todo \ {current'}
           \/ Leads("next", {"validate"}) /\ UNCHANGED <<todo, current, desired>> /\ todo = {}
           \/ /\ pc \in AtOne /\ pc' \in AtOne \cup {"next", "aborted"}
              /\ UNCHANGED <<todo, current, desired>>
           \/ /\ Leads("validate", {"success", "aborted"}) /\ UNCHANGED <<todo, current, desired, held>>
              /\ pc' = "success" => \A c \in desired : Released(c) /\ held[c]["role"] # 0
           \/ pc' = "idle" /\ current' = NoConnector /\ todo' = {} /\ UNCHANGED desired
<1>0. RunTypes
  BY TypeParts DEF IInv
<1> USE DEF Leads, Goto, Abort
<1>1. CASE (\E m \in {"full", "additive"} : Begin(m)) \/ EditConfig \/ RecreateServices
           \/ RecreateDataspace
  BY <1>0, <1>1 DEF Begin, EditConfig, RecreateServices, RecreateDataspace, run, RunTypes
<1>2. CASE (\E c \in Connectors : RemoveStale(c) \/ Choose(c)) \/ StaleGone
  BY <1>0, <1>2 DEF RemoveStale, Choose, StaleGone, RunTypes
<1>3. CASE SyncClient \/ CleanUp \/ RunCreate \/ SetupMinio \/ DeployRelease
  BY <1>3 DEF SyncClient, CleanUp, RunCreate, SetupMinio, DeployRelease, run, AtOne, AtCreation
<1>4. CASE AllDeployed
  BY <1>4 DEF AllDeployed, run
<1>5. CASE Validate
  BY <1>5 DEF Validate, Reachable, DatabaseValid, run, pieces
<1>6. CASE EndRun \/ Interrupt
  BY <1>6 DEF EndRun, Interrupt, Finish
<1>7. CASE (\E c \in Connectors : PodFails(c) \/ PodRecovers(c)) \/ UNCHANGED vars
  BY <1>7 DEF PodFails, PodRecovers, run, vars, pieces
<1> QED BY <1>1, <1>2, <1>3, <1>4, <1>5, <1>6, <1>7 DEF Next, Step

LEMMA RunTypesStep == IInv /\ [Next]_vars => RunTypes'
<1> SUFFICES ASSUME IInv, [Next]_vars PROVE RunTypes'
  OBVIOUS
<1>0. RunTypes
  BY TypeParts DEF IInv
<1>1. desired' \subseteq Connectors /\ todo' \subseteq Connectors
      /\ current' \in Connectors \cup {NoConnector}
  BY <1>0, Flow DEF RunTypes
<1>2. pc' \in {"idle", "stale", "next", "sync", "cleanup", "create", "minio", "deploy",
               "validate", "success", "aborted"}
  BY <1>0, Flow DEF RunTypes, Leads, AtOne, AtCreation
<1>3. attempt' \in 1..2 /\ mode' \in {"full", "additive"}
  <2>1. \/ UNCHANGED attempt \/ attempt' = 1 \/ attempt' = 2
    BY DEF Next, Step, Begin, RemoveStale, Choose, StaleGone, SyncClient, CleanUp, RunCreate, SetupMinio,
           DeployRelease, AllDeployed, Validate, EndRun, Interrupt, Finish, EditConfig,
           RecreateServices, RecreateDataspace, PodFails, PodRecovers, run, vars
  <2>2. UNCHANGED mode \/ mode' \in {"full", "additive"}
    BY DEF Next, Step, Begin, RemoveStale, Choose, StaleGone, SyncClient, CleanUp, RunCreate, SetupMinio,
           DeployRelease, AllDeployed, Validate, EndRun, Interrupt, Finish, EditConfig,
           RecreateServices, RecreateDataspace, PodFails, PodRecovers, run, vars
  <2> QED BY <1>0, <2>1, <2>2 DEF RunTypes
<1> QED BY <1>1, <1>2, <1>3 DEF RunTypes

LEMMA PlacesStep == IInv /\ [Next]_vars => Places'
<1> SUFFICES ASSUME IInv, [Next]_vars PROVE Places'
  OBVIOUS
<1>0. Places
  BY DEF IInv
<1> QED BY <1>0, Flow DEF Places, Leads, AtConnectors, AtOne, AtCreation, Released

---------------------------------------------------------------------------
(* What the pieces of a connector hold *)

\* A step works on one connector's pieces, or on none.
Kept(c) == UNCHANGED <<held[c], sections[c], row[c], c \in dropped, slips[c]>>

LEMMA ReleasesMatchStep == IInv /\ [Next]_vars => ReleasesMatch'
<1> SUFFICES ASSUME IInv, [Next]_vars, NEW c \in Connectors, Released(c)', held'[c]["role"] # 0,
                    "uninstall" \notin slips'[c]
             PROVE  Made(c, held[c]["runtime"])' /\ Stored(c, held[c]["runtime"])' /\ Listed(c)'
  BY DEF ReleasesMatch
<1>0. PieceTypes /\ SlipTypes /\ TallyTypes /\ ReleasesMatch /\ UnderConstruction
      /\ desired \subseteq Connectors
  BY TypeParts DEF IInv, RunTypes
<1> USE DEF AtOne, AtCreation
<1>1. CASE Kept(c)
  BY <1>0, <1>1 DEF Kept, Released, ReleasesMatch, Made, Stored, Listed
<1>2. ASSUME NEW d \in Connectors, Cleanup(d)
      PROVE  Made(c, held[c]["runtime"])' /\ Stored(c, held[c]["runtime"])' /\ Listed(c)'
  <2>1. d # c
    BY <1>0, <1>2, CleanupEffect DEF Released
  <2> QED BY <1>0, <1>1, <1>2, <2>1, CleanupEffect DEF OthersKept, Kept
<1>3. CASE SyncClient
  <2>1. current \in Connectors
    BY <1>3, CurrentKnown DEF SyncClient
  <2>2. CASE current = c
    <3>1. /\ "certificate" \in Pieces /\ "runtime" \in Pieces /\ Written1 \subseteq Pieces
          /\ "certificate" \notin Written1 /\ {"account", "policy", "password"} \subseteq Pieces
      BY DEF Pieces, Written1
    <3>2. /\ UNCHANGED <<held[c]["runtime"], held[c]["role"]>>
          /\ "uninstall" \notin slips[c]
      BY <1>0, <1>3, <2>2, <3>1 DEF SyncClient, Hold, Mended, Slipped, PieceTypes, SlipTypes, Pieces
    <3>3. Made(c, held[c]["runtime"]) /\ Stored(c, held[c]["runtime"]) /\ Listed(c)
      BY <1>0, <3>2 DEF Released, ReleasesMatch
    <3>4. CASE Hold(c, "certificate", held[c]["certs"]) /\ Mended(c, "upload")
      <4>1. held[c]["certs"] = held[c]["runtime"] /\ held[c]["certs"] \in Versions
        BY <1>0, <3>1, <3>3 DEF Made, Written1, PieceTypes
      <4>2. /\ \A p \in Pieces \ {"certificate"} : UNCHANGED held[c][p]
            /\ held'[c]["certificate"] = held[c]["runtime"]
        BY <1>0, <3>1, <3>4, <4>1, HoldEffect
      <4>3. "password" \in slips[c] <=> "password" \in slips'[c]
        BY <1>0, <3>4 DEF Mended, SlipTypes
      <4> QED BY <1>3, <3>1, <3>2, <3>3, <4>2, <4>3 DEF SyncClient, Made, Stored, Listed
    <3>5. CASE UNCHANGED held /\ (Slipped(c, "upload") \/ UNCHANGED slips)
      <4>1. "upload" \in slips[c] => "upload" \in slips'[c]
        BY <1>0, <3>5 DEF Slipped, SlipTypes
      <4>2. "password" \in slips[c] <=> "password" \in slips'[c]
        BY <1>0, <3>5 DEF Slipped, SlipTypes
      <4> QED BY <1>3, <3>3, <3>5, <4>1, <4>2 DEF SyncClient, Made, Stored, Listed
    <3> QED BY <1>3, <2>2, <3>4, <3>5 DEF SyncClient
  <2>3. CASE current # c
    BY <1>0, <1>1, <1>3, <2>1, <2>3 DEF SyncClient, Hold, Mended, Slipped, Kept, PieceTypes, SlipTypes
  <2> QED BY <2>2, <2>3
<1>4. CASE CleanUp
  <2>1. current \in Connectors
    BY <1>4, CurrentKnown DEF CleanUp
  <2> QED BY <1>1, <1>2, <1>4, <2>1 DEF CleanUp, Kept, pieces
<1>5. CASE RunCreate
  <2>1. current \in Connectors
    BY <1>5, CurrentKnown DEF RunCreate
  <2>2. \E done : /\ Make(current, done) /\ "runtime" \notin done
                  /\ UNCHANGED slips \/ Mended(current, "upload") \/ Slipped(current, "upload")
    BY <1>5, ReachedSteps DEF RunCreate
  <2>3. held[current]["runtime"] = 0 \/ "uninstall" \in slips[current]
    BY <1>0, <1>5 DEF RunCreate, UnderConstruction
  <2>4. current # c
    BY <1>0, <2>1, <2>2, <2>3, MakeEffect DEF Released
  <2> QED BY <1>0, <1>1, <2>1, <2>2, <2>4, MakeEffect DEF OthersKept, Kept
<1>6. CASE SetupMinio
  <2>1. current \in Connectors
    BY <1>6, CurrentKnown DEF SetupMinio
  <2>2. \A k \in 0..2 : {MinioSteps[j] : j \in 1..k} \subseteq MinioPieces
    BY DEF MinioSteps, MinioPieces
  <2>3. \E done \in SUBSET MinioPieces : WithMinio(current, done)
    BY <1>6, <2>2 DEF SetupMinio
  <2>4. held[current]["runtime"] = 0 \/ "uninstall" \in slips[current]
    BY <1>0, <1>6 DEF SetupMinio, UnderConstruction
  <2>5. /\ \A d \in Connectors \ {current} : UNCHANGED held[d]
        /\ held'[current]["runtime"] = held[current]["runtime"]
    BY <1>0, <2>1, <2>3, MinioEffect DEF Pieces, MinioPieces
  <2>6. /\ \A d \in Connectors \ {current} : UNCHANGED slips[d]
        /\ "uninstall" \in slips[current] => "uninstall" \in slips'[current]
    BY <1>0, <1>6 DEF SetupMinio, Mended, Slipped, SlipTypes
  <2>7. current # c
    BY <2>4, <2>5, <2>6 DEF Released
  <2> QED BY <1>1, <1>6, <2>5, <2>6, <2>7 DEF SetupMinio, Kept
<1>7. CASE DeployRelease
  <2>1. current \in Connectors
    BY <1>7, CurrentKnown DEF DeployRelease
  <2>2. CASE Install(current) /\ current = c
    <3>1. Made(c, held[c]["values"]) /\ Stored(c, held[c]["values"]) /\ row[c]
      BY <1>0, <1>7, <2>2 DEF DeployRelease, UnderConstruction
    <3>2. /\ held'[c]["runtime"] = held[c]["values"] /\ slips'[c] = slips[c] \ {"uninstall"}
          /\ \A p \in Written1 \cup {"certificate", "account", "policy", "password"} :
                UNCHANGED held[c][p]
      BY <1>0, <2>2, InstallEffect DEF Written1, Pieces
    <3> QED BY <1>7, <3>1, <3>2 DEF DeployRelease, Made, Stored, Listed
  <2>3. CASE Install(current) /\ current # c
    BY <1>0, <1>1, <1>7, <2>1, <2>3, InstallEffect DEF DeployRelease, Kept
  <2>4. CASE UNCHANGED <<held, slips>>
    BY <1>1, <1>7, <2>4 DEF DeployRelease, Kept
  <2> QED BY <1>7, <2>2, <2>3, <2>4 DEF DeployRelease
<1>8. CASE UNCHANGED <<held, sections, row, dropped, slips>>
  BY <1>1, <1>8 DEF Kept
<1>9. CASE \E d \in Connectors : RemoveStale(d)
  BY <1>2, <1>8, <1>9 DEF RemoveStale, pieces
<1>10. ~RecreateServices
  BY DEF RecreateServices, Central, Pieces
<1>11. CASE RecreateDataspace
  <2>1. UNCHANGED <<held, sections, slips>> /\ (Listed(c) => Listed(c)')
    BY <1>11 DEF RecreateDataspace, Listed, Released
  <2> QED BY <1>0, <2>1 DEF Released, ReleasesMatch, Made, Stored
<1> QED BY <1>3, <1>4, <1>5, <1>6, <1>7, <1>8, <1>9, <1>10, <1>11
    DEF Next, Step, Begin, Choose, StaleGone, AllDeployed, Validate, EndRun, Interrupt, EditConfig,
        PodFails, PodRecovers, pieces, vars

LEMMA UnderConstructionStep == IInv /\ [Next]_vars => UnderConstruction' /\ CleanRun'
<1> SUFFICES ASSUME IInv, [Next]_vars, pc' \in AtCreation PROVE UnderConstruction' /\ CleanRun'
  BY DEF UnderConstruction, CleanRun, AtCreation
<1>0. PieceTypes /\ SlipTypes /\ TallyTypes /\ UnderConstruction /\ CleanRun
  BY TypeParts DEF IInv
<1> USE DEF AtOne, AtCreation
<1>1. CASE UNCHANGED <<pc, current, held, sections, row, slips>> /\ (clean' => clean)
  BY <1>0, <1>1 DEF UnderConstruction, CleanRun, Made, Stored
<1>2. CASE CleanUp
  <2>1. current \in Connectors /\ UNCHANGED current /\ pc' = "create" /\ Cleanup(current)
    BY <1>2, CurrentKnown DEF CleanUp, Goto, Abort, run
  <2> QED BY <1>0, <2>1, CleanupEffect DEF UnderConstruction, CleanRun
<1>3. CASE RunCreate
  <2>1. current \in Connectors /\ UNCHANGED current /\ pc' = "minio"
    BY <1>3, CurrentKnown DEF RunCreate, Goto, Abort
  <2>2. \/ Works /\ Make(current, Reached(16)) /\ Mended(current, "upload")
        \/ Glitch /\ Make(current, Reached(16) \ {"certificate"}) /\ Slipped(current, "upload")
    BY <1>3, <2>1, ReachedSteps DEF RunCreate, Goto, Abort
  <2>3. /\ held'[current]["runtime"] = held[current]["runtime"]
        /\ "uninstall" \in slips[current] => "uninstall" \in slips'[current]
    BY <1>0, <2>1, <2>2, MakeEffect, ReachedSteps
  <2>4. Made(current, held[current]["values"])' /\ row'[current]
    BY <1>0, <2>1, <2>2, MakeMakes
  <2>5. clean' => clean /\ "upload" \notin slips'[current]
    BY <1>0, <2>1, <2>2, Tallied DEF Mended, SlipTypes
  <2> QED BY <1>0, <1>3, <2>1, <2>3, <2>4, <2>5 DEF RunCreate, UnderConstruction, CleanRun
<1>4. CASE SetupMinio
  <2>1. current \in Connectors /\ UNCHANGED <<current, sections, row>> /\ pc' = "deploy"
    BY <1>4, CurrentKnown DEF SetupMinio, Goto, Abort, run
  <2>2. \/ Works /\ WithMinio(current, MinioPieces) /\ Mended(current, "password")
        \/ /\ Glitch /\ WithMinio(current, MinioPieces \ {"password"})
           /\ Slipped(current, "password")
    BY <1>4, <2>1 DEF SetupMinio, Abort
  <2> DEFINE v == held[current]["values"]
  <2>3. Made(current, v) /\ held[current]["file"] = v /\ row[current]
    BY <1>0, <1>4 DEF SetupMinio, UnderConstruction, Made, Written1
  <2>4. /\ \A p \in Written1 \cup {"certificate", "runtime"} : held'[current][p] = held[current][p]
        /\ held'[current]["account"] = v /\ held'[current]["policy"] = v
    BY <1>0, <2>1, <2>2, <2>3, MinioEffect DEF Pieces, MinioPieces, Written1
  <2>5. "password" \notin slips'[current] => held'[current]["password"] = v
    <3>1. CASE Slipped(current, "password")
      BY <1>0, <2>1, <3>1 DEF Slipped, SlipTypes
    <3>2. CASE WithMinio(current, MinioPieces)
      BY <1>0, <2>1, <2>3, <3>2, MinioEffect DEF MinioPieces
    <3> QED BY <2>2, <3>1, <3>2
  <2>6. /\ "uninstall" \in slips'[current] <=> "uninstall" \in slips[current]
        /\ "upload" \in slips'[current] <=> "upload" \in slips[current]
    BY <1>0, <2>1, <2>2 DEF Mended, Slipped, SlipTypes
  <2>7. clean' => clean /\ "password" \notin slips'[current]
    BY <1>0, <2>1, <2>2, Tallied DEF Mended, SlipTypes
  <2>8. held'[current]["values"] = v
    BY <2>4 DEF Written1
  <2>9. held[current]["runtime"] = 0 \/ "uninstall" \in slips[current]
    BY <1>0, <1>4 DEF SetupMinio, UnderConstruction
  <2>10. clean => held[current]["runtime"] = 0 /\ "upload" \notin slips[current]
    BY <1>0, <1>4 DEF SetupMinio, CleanRun
  <2>11. Made(current, v)' /\ Stored(current, v)'
    BY <2>1, <2>3, <2>4, <2>5, <2>6, <2>8 DEF Made, Stored
  <2> QED BY <2>1, <2>3, <2>4, <2>6, <2>7, <2>9, <2>10, <2>11 DEF UnderConstruction, CleanRun
<1>5. CASE \E c \in Connectors : PodFails(c) \/ PodRecovers(c)
  BY <1>1, <1>5 DEF PodFails, PodRecovers, Upset, run
<1>6. CASE UNCHANGED vars
  BY <1>1, <1>6 DEF vars, pieces, run, tally
<1>7. CASE \/ (\E m \in {"full", "additive"} : Begin(m)) \/ (\E c \in Connectors : RemoveStale(c))
           \/ (\E c \in Connectors : Choose(c)) \/ StaleGone \/ SyncClient
  BY <1>7 DEF Begin, RemoveStale, Choose, StaleGone, SyncClient, Goto, Abort
<1>8. CASE DeployRelease \/ AllDeployed \/ Validate \/ EndRun \/ Interrupt \/ EditConfig
           \/ RecreateServices \/ RecreateDataspace
  BY <1>8 DEF DeployRelease, AllDeployed, Validate, EndRun, Interrupt, Finish, EditConfig,
              RecreateServices, RecreateDataspace, Goto, Abort
<1> QED BY <1>2, <1>3, <1>4, <1>5, <1>6, <1>7, <1>8 DEF Next, Step

---------------------------------------------------------------------------
(* Runs that nothing disturbs *)

\* What is begun anew is a run; within it nothing makes good a disturbance.
LEMMA CleanStays ==
    ASSUME [Next]_vars, clean'
    PROVE  clean \/ \E m \in {"full", "additive"} : Begin(m)
<1>1. \A c : Cleanup(c) => Works \/ Glitch
  BY DEF Cleanup
<1>2. \A t, b : Observed(t, b) => Works \/ Glitch
  BY DEF Observed
<1>3. (Works \/ Glitch) => clean
  BY DEF Works, Glitch, tally
<1>4. CASE Step
  BY <1>1, <1>2, <1>3, <1>4 DEF Step, RemoveStale, Choose, StaleGone, SyncClient, CleanUp, RunCreate,
             SetupMinio, DeployRelease, AllDeployed, Validate, EndRun, Works
<1> QED BY <1>4 DEF Next, Interrupt, Upset, EditConfig, RecreateServices,
                        RecreateDataspace, PodFails, PodRecovers, tally, vars

LEMMA NoGlitch == clean' => ~Glitch
  BY DEF Glitch

\* What does not touch a connector leaves it as it is.
LEMMA DoneStays ==
    ASSUME NEW d, UNCHANGED <<held[d], sections[d], hosts[d], up[d], row[d], desired>>
    PROVE  Done(d) => Done(d)'
  BY DEF Done, Working, Consistent

\* All pieces but the MinIO policy, by what writes them.
LEMMA AllPieces == Pieces \ {"policy"} = Written1 \cup {"certificate", "account", "password", "runtime"}
  BY DEF Pieces, Written1

\* A connector that works passes every check.
LEMMA WorkingPasses ==
    ASSUME NEW c, Working(c)
    PROVE  Released(c) /\ UserValid(c) /\ DatabaseValid(c) /\ Fresh(c)
<1>1. {"role", "file", "user", "runtime"} \subseteq Pieces \ {"policy"}
  BY DEF Pieces
<1>2. sections[c] = 5 /\ held[c]["runtime"] # 0
  BY DEF Working, Consistent
<1>3. held[c]["role"] = held[c]["runtime"] /\ held[c]["file"] = held[c]["runtime"]
      /\ held[c]["user"] = held[c]["runtime"]
  BY <1>1 DEF Working, Consistent
<1> QED BY <1>2, <1>3 DEF Released, UserValid, DatabaseValid, Fresh

\* The steps at one connector leave the others alone.
LEMMA OneAtATime ==
    ASSUME IInv, SyncClient \/ CleanUp \/ RunCreate \/ SetupMinio \/ DeployRelease,
           NEW d \in Connectors, d # current
    PROVE  UNCHANGED <<held[d], sections[d], hosts[d], up[d], row[d]>>
<1>0. PieceTypes /\ SlipTypes /\ TallyTypes /\ desired \subseteq Connectors
  BY TypeParts DEF IInv, RunTypes
<1>1. current \in Connectors
  BY CurrentKnown DEF SyncClient, CleanUp, RunCreate, SetupMinio, DeployRelease, AtOne, AtCreation
<1>2. CASE SyncClient
  BY <1>0, <1>1, <1>2 DEF SyncClient, Hold, PieceTypes
<1>3. CASE CleanUp
  <2>1. CASE Cleanup(current)
    BY <1>0, <1>1, <2>1, CleanupEffect DEF OthersKept
  <2>2. CASE UNCHANGED pieces
    BY <2>2 DEF pieces
  <2> QED BY <1>3, <2>1, <2>2 DEF CleanUp
<1>4. CASE RunCreate
  BY <1>0, <1>1, <1>4 DEF RunCreate, Make, PieceTypes
<1>5. CASE SetupMinio
  BY <1>0, <1>1, <1>5 DEF SetupMinio, WithMinio, PieceTypes
<1>6. CASE DeployRelease
  <2>1. UNCHANGED <<sections, row>> /\ UNCHANGED up[d]
    BY <1>0, <1>1, <1>6 DEF DeployRelease, PieceTypes
  <2>2. UNCHANGED <<held[d], hosts[d]>>
    BY <1>0, <1>1, <1>6, InstallEffect DEF DeployRelease
  <2> QED BY <2>1, <2>2
<1> QED BY <1>2, <1>3, <1>4, <1>5, <1>6

\* The release that an undisturbed run installs works.
LEMMA DeployedWorks ==
    ASSUME IInv, DeployRelease, clean'
    PROVE  /\ current \in Connectors /\ pc' = "next" /\ UNCHANGED <<run, desired>>
           /\ \A c \in Connectors : c = current => Done(c)'
<1>1. /\ current \in Connectors /\ desired \subseteq Connectors /\ pc = "deploy"
      /\ PieceTypes /\ SlipTypes /\ TallyTypes
  BY CurrentKnown, TypeParts DEF DeployRelease, AtOne, AtCreation, IInv, RunTypes
<1>2. /\ Works /\ Install(current) /\ up' = [up EXCEPT ![current] = TRUE] /\ pc' = "next"
      /\ UNCHANGED <<sections, row, desired, run>>
  BY NoGlitch DEF DeployRelease, Goto
<1>3. clean
  BY <1>2 DEF Works, tally
<1> DEFINE v == held[current]["values"]
<1>4. /\ Made(current, v) /\ Stored(current, v) /\ row[current]
      /\ "upload" \notin slips[current] /\ "password" \notin slips[current]
  BY <1>1, <1>3 DEF IInv, UnderConstruction, CleanRun, AtCreation
<1>5. /\ held'[current]["runtime"] = v
      /\ \A p \in Pieces \ {"runtime"} : held'[current][p] = held[current][p]
      /\ hosts'[current] = desired
  BY <1>1, <1>2, InstallEffect DEF PieceTypes
<1>6. \A p \in Pieces \ {"policy"} : held'[current][p] = v
  BY <1>4, <1>5, AllPieces DEF Made, Stored
<1>7. held'[current]["policy"] # 0
  BY <1>4, <1>5 DEF Stored, Pieces
<1>8. sections'[current] = 5 /\ row'[current] /\ v # 0 /\ up'[current]
  BY <1>1, <1>2, <1>4 DEF Made, PieceTypes
<1>9. ASSUME NEW c \in Connectors, c = current PROVE Done(c)'
  BY <1>2, <1>5, <1>6, <1>7, <1>8, <1>9 DEF Done, Working, Consistent
<1> QED BY <1>1, <1>2, <1>9

LEMMA CleanFullStep == IInv /\ [Next]_vars => CleanFull'
<1> SUFFICES ASSUME IInv, [Next]_vars, mode' = "full", clean' PROVE CleanFull'
  BY DEF CleanFull
<1>0. PieceTypes /\ SlipTypes /\ TallyTypes /\ RunTypes /\ Places
  BY TypeParts DEF IInv
<1> USE DEF AtConnectors, AtOne, AtCreation
<1>1. ASSUME NEW m \in {"full", "additive"}, Begin(m) PROVE CleanFull'
  BY <1>0, <1>1, NoGlitch DEF Begin, Goto, pieces, CleanFull, Released
<1>2. CASE EndRun \/ Interrupt
  BY <1>2 DEF EndRun, Interrupt, Finish, CleanFull
<1>3. CASE EditConfig \/ RecreateServices \/ RecreateDataspace
  BY <1>0, <1>3 DEF EditConfig, RecreateServices, RecreateDataspace, run, CleanFull
<1>4. CASE \E c \in Connectors : PodFails(c) \/ PodRecovers(c)
  BY <1>4 DEF PodFails, PodRecovers, Upset
<1>5. CASE (Step /\ ~EndRun) \/ UNCHANGED vars
  <2>0. mode = "full" /\ clean
    BY <1>0, <1>5, CleanStays DEF Step, RemoveStale, Choose, StaleGone, SyncClient, CleanUp, RunCreate, SetupMinio,
           DeployRelease, AllDeployed, Validate, Begin, run, vars, tally
  <2>1. /\ pc \notin {"sync", "aborted"}
        /\ pc = "stale" => \A c \in Connectors \ desired : Released(c) => c \in todo
        /\ pc \in AtConnectors => \A c \in Connectors \ desired : ~Released(c)
        /\ pc \in AtConnectors => \A c \in desired :
              c \in todo \/ (pc \in AtOne /\ c = current) \/ Done(c)
    BY <2>0 DEF IInv, CleanFull
  <2>2. ASSUME NEW c \in Connectors, RemoveStale(c) PROVE CleanFull'
    <3>1. Cleanup(c) /\ todo' = todo \ {c} /\ UNCHANGED <<pc, desired>> /\ pc = "stale"
      BY <2>2, NoGlitch DEF RemoveStale
    <3>2. held'[c]["runtime"] = 0 /\ \A d \in Connectors \ {c} : UNCHANGED held[d]
      BY <1>0, <3>1, CleanupEffect DEF OthersKept
    <3> QED BY <2>1, <3>1, <3>2 DEF CleanFull, Released
  <2>3. CASE StaleGone
    BY <2>1, <2>3 DEF StaleGone, Goto, pieces, CleanFull, Released
  <2>4. ASSUME NEW c \in Connectors, Choose(c) PROVE CleanFull'
    <3>1. /\ pc = "next" /\ pc' = "cleanup" /\ current' = c /\ todo' = todo \ {c}
          /\ UNCHANGED <<held, sections, hosts, up, row, desired>>
      BY <2>0, <2>4 DEF Choose, Goto, pieces
    <3> QED BY <2>1, <3>1 DEF CleanFull, Released, Done, Working, Consistent
  <2>5. CASE CleanUp \/ RunCreate \/ SetupMinio
    <3>1. pc \in AtOne /\ pc' \in AtCreation /\ UNCHANGED <<current, todo, desired>>
      BY <2>5, NoGlitch DEF CleanUp, RunCreate, SetupMinio, Goto, run
    <3>2. current \in desired
      BY <3>1, CurrentKnown
    <3>3. \A d \in Connectors \ {current} : UNCHANGED <<held[d], sections[d], hosts[d], up[d], row[d]>>
      BY <2>5, OneAtATime
    <3>4. \A d \in desired \ {current} : Done(d) => Done(d)'
      BY <1>0, <3>1, <3>3, DoneStays DEF RunTypes
    <3>5. \A d \in Connectors \ desired : ~Released(d)'
      BY <2>1, <3>1, <3>2, <3>3 DEF Released
    <3> QED BY <2>1, <3>1, <3>4, <3>5 DEF CleanFull
  <2>6. CASE DeployRelease
    <3>1. /\ pc = "deploy" /\ pc' = "next" /\ current \in desired
          /\ UNCHANGED <<current, todo, desired>>
          /\ \A c \in Connectors : c = current => Done(c)'
      BY <2>6, DeployedWorks, CurrentKnown DEF DeployRelease, run
    <3>2. \A d \in Connectors \ {current} : UNCHANGED <<held[d], sections[d], hosts[d], up[d], row[d]>>
      BY <2>6, OneAtATime
    <3>3. \A d \in desired \ {current} : Done(d) => Done(d)'
      BY <1>0, <3>1, <3>2, DoneStays DEF RunTypes
    <3>4. \A d \in Connectors \ desired : ~Released(d)'
      BY <2>1, <3>1, <3>2 DEF Released
    <3> QED BY <1>0, <2>1, <3>1, <3>3, <3>4 DEF CleanFull, RunTypes
  <2>7. CASE AllDeployed
    BY <2>1, <2>7 DEF AllDeployed, Goto, run, pieces, CleanFull, Released, Done, Working, Consistent
  <2>8. CASE Validate
    <3>1. \A c \in desired : Done(c)
      BY <1>0, <2>1, <2>8 DEF Validate, Places
    <3>2. \A c \in desired : up[c] /\ Released(c) /\ UserValid(c) /\ DatabaseValid(c) /\ Fresh(c)
      BY <3>1, WorkingPasses DEF Done
    <3>3. Reachable /\ \A c \in desired : Fresh(c)
      BY <2>1, <2>8, <3>2 DEF Validate, Reachable
    <3>4. pc' = "success"
      BY <2>8, <3>3, NoGlitch DEF Validate, Goto
    <3> QED BY <2>1, <2>8, <3>1, <3>4 DEF Validate, run, pieces, CleanFull, Released, Done, Working, Consistent
  <2>9. CASE UNCHANGED vars
    BY <2>1, <2>9 DEF vars, run, pieces, CleanFull, Released, Done, Working, Consistent
  <2>10. ~SyncClient
    BY <2>1 DEF SyncClient
  <2> QED BY <1>5, <2>2, <2>3, <2>4, <2>5, <2>6, <2>7, <2>8, <2>9, <2>10 DEF Step
<1> QED BY <1>1, <1>2, <1>3, <1>4, <1>5 DEF Next

LEMMA CleanAdditiveStep == IInv /\ [Next]_vars => CleanAdditive'
<1> SUFFICES ASSUME IInv, [Next]_vars, mode' = "additive", clean' PROVE CleanAdditive'
  BY DEF CleanAdditive
<1>1. ASSUME NEW m \in {"full", "additive"}, Begin(m) PROVE CleanAdditive'
  BY <1>1, NoGlitch DEF Begin, Goto, CleanAdditive
<1>2. CASE EndRun \/ Interrupt \/ EditConfig \/ RecreateServices \/ RecreateDataspace
  BY <1>2 DEF EndRun, Interrupt, Finish, EditConfig, RecreateServices, RecreateDataspace,
              CleanAdditive, run
<1>3. CASE \E c \in Connectors : PodFails(c) \/ PodRecovers(c)
  BY <1>3 DEF PodFails, PodRecovers, Upset
<1>4. ASSUME NEW c \in Connectors, RemoveStale(c) PROVE CleanAdditive'
  <2>1. mode = "additive" /\ clean
    BY <1>4, CleanStays DEF RemoveStale, Begin
  <2> QED BY <1>4, <2>1 DEF RemoveStale, IInv, CleanAdditive
<1>5. ASSUME NEW c \in Connectors, Choose(c) PROVE CleanAdditive'
  <2>1. /\ mode = "additive" /\ current' = c
        /\ UNCHANGED <<held, sections, up, row>> /\ pc' # "stale"
    BY <1>5 DEF Choose, Goto, pieces
  <2>2. PICK keep \in BOOLEAN : /\ Observed(Released(c) /\ up[c] /\ DatabaseValid(c), keep)
                                /\ Goto(IF keep THEN "sync" ELSE "cleanup")
    BY <1>5, <2>1 DEF Choose
  <2>3. ASSUME pc' = "cleanup" PROVE ~(Released(c) /\ up[c] /\ DatabaseValid(c))
    BY <2>2, <2>3, NoGlitch DEF Observed, Goto
  <2>4. ASSUME pc' = "cleanup" PROVE ~(Working(c) /\ up[c])
    BY <2>3, <2>4, WorkingPasses
  <2> QED BY <2>1, <2>4 DEF CleanAdditive, Working, Consistent
<1>6. CASE StaleGone \/ SyncClient \/ CleanUp \/ SetupMinio \/ DeployRelease \/ AllDeployed \/ Validate
  BY <1>6 DEF StaleGone, SyncClient, CleanUp, SetupMinio, DeployRelease, AllDeployed, Validate,
              Goto, Abort, CleanAdditive
<1>7. CASE RunCreate
  BY <1>7, NoGlitch DEF RunCreate, Goto, CleanAdditive
<1>8. CASE UNCHANGED vars
  BY <1>8 DEF IInv, CleanAdditive, Working, Consistent, vars, pieces, run, tally
<1> QED BY <1>1, <1>2, <1>3, <1>4, <1>5, <1>6, <1>7, <1>8 DEF Next, Step

LEMMA InitIInv == Init => IInv
<1> SUFFICES ASSUME Init PROVE IInv
  OBVIOUS
<1>1. held \in [Connectors -> [Pieces -> Versions]]
  BY BoundsAssumption DEF Init, Versions
<1>2. PieceTypes /\ SlipTypes
  BY <1>1 DEF Init, PieceTypes, SlipTypes
<1>3. RunTypes
  BY DEF Init, RunTypes
<1>4. TallyTypes
  BY BoundsAssumption DEF Init, TallyTypes
<1>5. \A c \in Connectors : ~Released(c)
  BY DEF Init, Released, Pieces
<1>6. pc = "idle" /\ mode = "full"
  BY DEF Init
<1> QED BY <1>2, <1>3, <1>4, <1>5, <1>6, TypeParts
    DEF IInv, Places, ReleasesMatch, UnderConstruction, CleanRun, CleanFull, CleanAdditive,
        AtOne, AtCreation, AtConnectors

---------------------------------------------------------------------------
(* The theorems *)

\* The inductive invariant of Level 4: whatever commands fail or are interrupted, a
\* release that helm did not refuse to remove matches the secrets that `connector
\* create` and setup_minio_bucket wrote for it.
THEOREM Invariant == Spec => []IInv
<1>1. IInv /\ [Next]_vars => IInv'
  <2>1. PieceTypes' /\ SlipTypes' /\ RunTypes' /\ TallyTypes' => TypeOK'
    BY TypeParts, PTL
  <2> QED BY <2>1, PieceTypesStep, TallyTypesStep, RunTypesStep, PlacesStep, ReleasesMatchStep,
     UnderConstructionStep, CleanFullStep, CleanAdditiveStep DEF IInv
<1> QED BY <1>1, InitIInv, PTL DEF Spec

\* The variables have their types: what is held is within the bounds, and the run is
\* at one of deploy_connectors' places.
THEOREM TypeCorrect == Spec => []TypeOK
<1>1. IInv => TypeOK
  BY DEF IInv
<1> QED BY <1>1, Invariant, PTL

\* When deploy_connectors reports success, every configured connector whose commands
\* did not fail unnoticed has one version of its secrets in every system, and is a
\* participant unless Level 3 dropped it and it has been kept since.
THEOREM SuccessWorks == Spec => []SuccessMeansWorking
<1>1. IInv => SuccessMeansWorking
  <2> SUFFICES ASSUME IInv, pc = "success", NEW c \in desired, slips[c] = {}
               PROVE  Consistent(c) /\ (row[c] \/ c \in dropped)
    BY DEF SuccessMeansWorking
  <2> DEFINE v == held[c]["runtime"]
  <2>1. c \in Connectors
    BY TypeParts DEF IInv, RunTypes
  <2>2. Released(c) /\ held[c]["role"] # 0
    BY DEF IInv, Places
  <2>3. Made(c, v) /\ Stored(c, v) /\ Listed(c)
    BY <2>1, <2>2 DEF IInv, ReleasesMatch
  <2>4. \A p \in Pieces \ {"policy"} : held[c][p] = v
    BY <2>3, AllPieces DEF Made, Stored
  <2> QED BY <2>3, <2>4 DEF Made, Stored, Listed, Consistent
<1> QED BY <1>1, Invariant, PTL

\* A full run of deploy_connectors that nothing disturbs succeeds, with every
\* configured connector working, resolving all others, and no other release left.
THEOREM FullRestores == Spec => []FullRunRestores
<1>1. IInv => FullRunRestores
  <2> SUFFICES ASSUME IInv, mode = "full", clean, pc \in {"success", "aborted"}
               PROVE  /\ pc = "success"
                      /\ \A c \in desired : Working(c) /\ hosts[c] = desired
                      /\ \A c \in Connectors \ desired : ~Released(c)
    BY DEF FullRunRestores
  <2>1. pc = "success" /\ pc \in AtConnectors /\ pc \notin AtOne
    BY DEF IInv, CleanFull, AtConnectors, AtOne, AtCreation
  <2>2. todo = {}
    BY <2>1 DEF IInv, Places
  <2>3. \A c \in desired : Done(c)
    BY <2>1, <2>2 DEF IInv, CleanFull
  <2> QED BY <2>1, <2>3 DEF IInv, CleanFull, Done
<1> QED BY <1>1, Invariant, PTL

\* One step of an additive run in which nothing fails.
LEMMA SparesStep ==
    ASSUME IInv, [Next]_vars, mode = "additive", pc # "idle", clean',
           NEW c \in Connectors, Working(c), up[c]
    PROVE  Working(c)' /\ up'[c]
<1>0. PieceTypes /\ SlipTypes /\ TallyTypes /\ ~Glitch
  BY TypeParts, NoGlitch DEF IInv
<1>1. clean
  BY CleanStays DEF Begin
<1>2. CASE UNCHANGED pieces
  BY <1>2 DEF pieces, Working, Consistent
<1>3. ASSUME NEW d \in Connectors, RemoveStale(d) PROVE FALSE
  BY <1>1, <1>3 DEF RemoveStale, IInv, CleanAdditive
<1>4. ASSUME SyncClient \/ CleanUp \/ RunCreate \/ SetupMinio \/ DeployRelease, c # current
      PROVE Working(c)' /\ up'[c]
  BY <1>4, OneAtATime DEF Working, Consistent
<1>5. ASSUME SyncClient, c = current PROVE Working(c)' /\ up'[c]
  <2>1. Hold(c, "certificate", held[c]["certs"]) /\ UNCHANGED <<sections, up, row>>
    BY <1>0, <1>5 DEF SyncClient
  <2>2. held[c]["certs"] = held[c]["certificate"]
    BY DEF Working, Consistent, Pieces
  <2>3. \A p \in Pieces : held'[c][p] = held[c][p]
    BY <1>0, <2>1, <2>2 DEF Hold, PieceTypes
  <2> QED BY <2>1, <2>3 DEF Working, Consistent, Pieces
<1>6. ASSUME CleanUp, c = current PROVE FALSE
  BY <1>1, <1>6 DEF CleanUp, IInv, CleanAdditive
<1>7. ASSUME RunCreate \/ SetupMinio \/ DeployRelease, c = current PROVE FALSE
  BY <1>1, <1>7 DEF RunCreate, SetupMinio, DeployRelease, IInv, CleanRun, AtCreation, Working, Consistent
<1>8. CASE \E d \in Connectors : PodFails(d) \/ PodRecovers(d)
  BY <1>8 DEF PodFails, PodRecovers, Upset
<1> QED BY <1>2, <1>3, <1>4, <1>5, <1>6, <1>7, <1>8
    DEF Next, Step, Begin, Choose, StaleGone, AllDeployed, Validate, EndRun, Interrupt, EditConfig,
        RecreateServices, RecreateDataspace, vars

\* An additive run in which nothing fails leaves every connector that works working,
\* whether it is configured or not: deploy_connectors only brings its Keycloak
\* certificate up to date.
THEOREM Spares == Spec => AdditiveSpares
<1>1. IInv /\ [Next]_vars =>
        [mode = "additive" /\ pc # "idle" /\ clean' =>
            \A c \in Connectors : Working(c) /\ up[c] => Working(c)' /\ up'[c]]_vars
  BY SparesStep
<1> QED BY <1>1, Invariant, PTL DEF Spec, AdditiveSpares
===========================================================================

------------------------ MODULE ConnectorDeployment ------------------------
(***************************************************************************)
(* Level 4 of the INESData adapter: how deploy_connectors turns the        *)
(* connectors of deployer.config into running ones                         *)
(* (adapters/inesdata/connectors.py, with the `connector` commands of      *)
(* deployers/inesdata/bootstrap.py), on the topologies local and vm-single *)
(*                                                                         *)
(* A connector is spread over PostgreSQL, Keycloak, Vault, MinIO, the      *)
(* registration service, files and a helm release.  Every                  *)
(* `connector create` makes new secrets, here a new version, and writes    *)
(* them piece by piece; commands fail halfway, the process may be          *)
(* interrupted, and the next run works with what it finds.                 *)
(***************************************************************************)
EXTENDS Naturals, Sequences

CONSTANTS
    Connectors, NoConnector,
    MaxVersions,   \* bound: versions of its secrets that a connector holds at a time
    MaxFaults,     \* bound: commands that fail
    MaxUpsets      \* bound: interruptions, and pods that fail or recover

ASSUME NoConnectorAssumption == NoConnector \notin Connectors
ASSUME BoundsAssumption == {MaxVersions, MaxFaults, MaxUpsets} \subseteq Nat

VARIABLES
    \* what there is of a connector
    held,      \* the version that each piece holds, 0 for none
    sections,  \* the first sections of its credentials file that are written
    hosts,     \* the connectors that its pods can resolve
    up,        \* its pods are Running
    row,       \* it is a participant in the registration service
    dropped,   \* history: Level 3 dropped the participant of its release, and none came since
    \* deployer.config
    desired,   \* DS_1_CONNECTORS
    \* the run
    mode,      \* LEVEL4_CONNECTOR_RECONCILIATION_MODE
    pc, todo, current, attempt,
    \* history
    faults, upsets,
    clean,     \* nothing went wrong since the run began
    slips      \* failures of its commands that went unnoticed

pieces == <<held, sections, hosts, up, row, dropped>>
run    == <<mode, todo, current, attempt>>
tally  == <<faults, clean>>
vars == <<pieces, desired, run, pc, tally, upsets, slips>>

---------------------------------------------------------------------------
(* Types *)

Versions == 0..MaxVersions

\* file: the credentials file.  certs: the certificates on disk.  role: the
\* password of the PostgreSQL role.  user, certificate: the Keycloak user's
\* password, the client's certificate.  privateKey, accessKey, secretKey: secrets
\* in Vault.  password, account, policy: the MinIO user, its service account and
\* policy.  values: the helm values.  runtime: the values of the release.
Pieces == {"file", "certs", "role", "user", "certificate", "privateKey", "accessKey",
           "secretKey", "password", "account", "policy", "values", "runtime"}

Slips == {"uninstall", "upload", "password"}

TypeOK ==
    /\ held \in [Connectors -> [Pieces -> Versions]]
    /\ sections \in [Connectors -> 0..5]
    /\ hosts \in [Connectors -> SUBSET Connectors]
    /\ up \in [Connectors -> BOOLEAN] /\ row \in [Connectors -> BOOLEAN]
    /\ dropped \subseteq Connectors
    /\ desired \subseteq Connectors /\ todo \subseteq Connectors
    /\ mode \in {"full", "additive"}
    /\ pc \in {"idle", "stale", "next", "sync", "cleanup", "create", "minio", "deploy",
               "validate", "success", "aborted"}
    /\ current \in Connectors \cup {NoConnector} /\ attempt \in 1..2
    /\ faults \in 0..MaxFaults /\ upsets \in 0..MaxUpsets
    /\ clean \in BOOLEAN
    /\ slips \in [Connectors -> SUBSET Slips]

Init ==
    /\ held = [c \in Connectors |-> [p \in Pieces |-> 0]]
    /\ sections = [c \in Connectors |-> 0]
    /\ hosts = [c \in Connectors |-> {}]
    /\ up = [c \in Connectors |-> FALSE] /\ row = [c \in Connectors |-> FALSE]
    /\ dropped = {}
    /\ desired = Connectors /\ todo = {}
    /\ mode = "full" /\ pc = "idle"
    /\ current = NoConnector /\ attempt = 1
    /\ faults = 0 /\ upsets = 0 /\ clean = TRUE
    /\ slips = [c \in Connectors |-> {}]

---------------------------------------------------------------------------
(* Commands and lookups *)

Works == UNCHANGED tally
Glitch == /\ faults < MaxFaults
          /\ faults' = faults + 1
          /\ clean' = FALSE

\* A query tells the truth, or fails and looks like a no.
Observed(truth, seen) == \/ seen = truth /\ Works
                         \/ truth /\ ~seen /\ Glitch

Slipped(c, s) == slips' = [slips EXCEPT ![c] = @ \cup {s}]
Mended(c, s)  == slips' = [slips EXCEPT ![c] = @ \ {s}]

Released(c) == held[c]["runtime"] # 0

\* connector_database_credentials_valid: the file's password opens the database.
DatabaseValid(c) == /\ sections[c] >= 1
                    /\ held[c]["role"] # 0 /\ held[c]["role"] = held[c]["file"]

\* The user of the file gets a token for the Management API.
UserValid(c) == sections[c] >= 3 /\ held[c]["user"] = held[c]["file"]

\* The running connector reaches its database with the password it was given.
Fresh(c) == held[c]["runtime"] = held[c]["role"]

Goto(p) == pc' = p
Abort == pc' = "aborted"

---------------------------------------------------------------------------
(* Faulty variants, no part of the specification. *)

\* Connectors that are not listed go, whatever the mode.
BeginRemovesUnlisted(m) ==
    /\ pc = "idle"
    /\ mode' = m /\ attempt' = 1 /\ UNCHANGED current
    /\ todo' = {c \in Connectors \ desired : Released(c)}
    /\ clean' = TRUE /\ UNCHANGED faults
    /\ Goto("stale")
    /\ UNCHANGED <<pieces, desired, upsets, slips>>

\* A connector that is healthy is kept in both modes.
ChooseKeepsHealthy(c) ==
    /\ pc = "next" /\ c \in todo
    /\ current' = c /\ todo' = todo \ {c} /\ attempt' = 1
    /\ \E keep \in BOOLEAN :
          /\ Observed(Released(c) /\ up[c] /\ DatabaseValid(c), keep)
          /\ Goto(IF keep THEN "next" ELSE "cleanup")
    /\ UNCHANGED <<pieces, desired, mode, upsets, slips>>

---------------------------------------------------------------------------
(* The start of a run, and stale connectors *)

\* _discover_existing_connectors asks for releases and pods; a query that fails
\* finds nothing.
Begin(m) ==
    /\ pc = "idle"
    /\ mode' = m /\ attempt' = 1 /\ UNCHANGED current
    /\ \/ /\ todo' = {c \in Connectors \ desired : m = "full" /\ Released(c)}
          /\ clean' = TRUE /\ UNCHANGED faults
       \/ /\ todo' = {}
          /\ Glitch
    /\ Goto("stale")
    /\ UNCHANGED <<pieces, desired, upsets, slips>>

\* _cleanup_connector_state removes the values file, and then what it can of the
\* release, the database, the Keycloak objects and the participant: it asks none of
\* its commands whether they worked.
Systems == {"helm", "postgres", "keycloak", "registration"}

Removed(ok) == {"values"} \cup (IF "helm" \in ok THEN {"runtime"} ELSE {})
                         \cup (IF "postgres" \in ok THEN {"role"} ELSE {})
                         \cup (IF "keycloak" \in ok THEN {"user", "certificate"} ELSE {})

Cleanup(c) ==
    \E ok \in SUBSET Systems :
        /\ IF ok = Systems THEN Works ELSE Glitch
        /\ held' = [held EXCEPT ![c] = [p \in Pieces |-> IF p \in Removed(ok) THEN 0
                                                      ELSE held[c][p]]]
        /\ up' = [up EXCEPT ![c] = @ /\ "helm" \notin ok]
        /\ hosts' = [hosts EXCEPT ![c] = IF "helm" \in ok THEN {} ELSE @]
        /\ row' = [row EXCEPT ![c] = @ /\ "registration" \notin ok]
        /\ IF Released(c) /\ "helm" \notin ok
           THEN Slipped(c, "uninstall") ELSE UNCHANGED slips
        /\ dropped' = IF "helm" \in ok THEN dropped \ {c} ELSE dropped
        /\ UNCHANGED sections

RemoveStale(c) ==
    /\ pc = "stale" /\ c \in todo
    /\ \/ Cleanup(c) /\ todo' = todo \ {c} /\ UNCHANGED pc
       \/ \* Vault or the cluster cannot be reached
          Glitch /\ Abort /\ UNCHANGED <<pieces, todo, slips>>
    /\ UNCHANGED <<desired, mode, current, attempt, upsets>>

StaleGone ==
    /\ pc = "stale" /\ todo = {}
    /\ todo' = desired
    /\ Goto("next")
    /\ UNCHANGED <<pieces, desired, mode, current, attempt, tally, upsets, slips>>

---------------------------------------------------------------------------
(* One connector: keep it or create it *)

\* additive keeps a connector that is healthy and whose file opens the database.
Choose(c) ==
    /\ pc = "next" /\ c \in todo
    /\ current' = c /\ todo' = todo \ {c} /\ attempt' = 1
    /\ IF mode = "additive"
       THEN \E keep \in BOOLEAN :
               /\ Observed(Released(c) /\ up[c] /\ DatabaseValid(c), keep)
               /\ Goto(IF keep THEN "sync" ELSE "cleanup")
       ELSE Works /\ Goto("cleanup")
    /\ UNCHANGED <<pieces, desired, mode, upsets, slips>>

Hold(c, p, v) == held' = [held EXCEPT ![c][p] = v]

\* _sync_existing_connector_keycloak_client uploads the certificate on disk; an
\* upload that Keycloak refuses is only printed.
SyncClient ==
    LET c == current IN
    /\ pc = "sync"
    /\ \/ Works /\ Hold(c, "certificate", held[c]["certs"])
          /\ Mended(c, "upload") /\ Goto("next")
       \/ Glitch /\ Slipped(c, "upload") /\ Goto("next") /\ UNCHANGED held
       \/ Glitch /\ Abort /\ UNCHANGED <<held, slips>>
    /\ UNCHANGED <<sections, hosts, up, row, dropped, desired, run, upsets>>

CleanUp ==
    /\ pc = "cleanup"
    /\ \/ Cleanup(current) /\ Goto("create")
       \/ \* Vault, PostgreSQL or Keycloak cannot be reached
          Glitch /\ Abort /\ UNCHANGED <<pieces, slips>>
    /\ UNCHANGED <<desired, run, upsets>>

---------------------------------------------------------------------------
(* connector create *)

\* What the command does, in its order.  "empty" empties the credentials file, a
\* name in capitals writes one of its sections, the others write a piece.
Steps == <<"empty", "role", "DATABASE", "certs", "CERTIFICATES", "user", "CONNECTOR_USER",
           "certificate", "VAULT", "privateKey", "accessKey", "secretKey", "MINIO",
           "unregister", "register", "values">>

SectionNames == {"DATABASE", "CERTIFICATES", "CONNECTOR_USER", "VAULT", "MINIO"}

Reached(k) == {Steps[i] : i \in 1..k}

\* The sections are written in order, so it is enough to know how many.
Written(done) ==
    IF "MINIO" \in done THEN 5
    ELSE IF "VAULT" \in done THEN 4
    ELSE IF "CONNECTOR_USER" \in done THEN 3
    ELSE IF "CERTIFICATES" \in done THEN 2
    ELSE IF "DATABASE" \in done THEN 1 ELSE 0

\* The pieces of c after the steps in done, with secrets of version v.
Created(c, done, v) ==
    [p \in Pieces |->
        IF p \in done \/ (p = "file" /\ "empty" \in done) THEN v ELSE held[c][p]]

\* Random passwords, keys and certificates are like nothing that there is.
NewSecrets(c) == {v \in 1..MaxVersions : \A p \in Pieces : held[c][p] # v}

Make(c, done) ==
    /\ NewSecrets(c) # {}
    /\ held' = [held EXCEPT ![c] = Created(c, done, CHOOSE v \in NewSecrets(c) : TRUE)]
    /\ sections' = [sections EXCEPT ![c] = IF "empty" \in done THEN Written(done) ELSE @]
    /\ row' = [row EXCEPT ![c] = IF "register" \in done THEN TRUE
                                 ELSE IF "unregister" \in done THEN FALSE ELSE @]
    /\ dropped' = IF "register" \in done THEN dropped \ {c} ELSE dropped
    /\ UNCHANGED <<hosts, up>>

\* Faulty variant, no part of the specification: it is tried again and again.
RunCreateForever ==
    /\ pc = "create"
    /\ Make(current, {}) /\ Works
    /\ Goto("cleanup") /\ attempt' = attempt + 1
    /\ UNCHANGED <<desired, mode, todo, current, upsets, slips>>

\* A command that stops after some steps is tried once more after a cleanup.
RunCreate ==
    LET c == current
        all == Reached(Len(Steps)) IN
    /\ pc = "create"
    /\ \/ Works /\ Make(c, all) /\ Mended(c, "upload") /\ Goto("minio") /\ UNCHANGED attempt
       \/ \* Keycloak refuses the certificate, which is only printed
          Glitch /\ Make(c, all \ {"certificate"}) /\ Slipped(c, "upload")
          /\ Goto("minio") /\ UNCHANGED attempt
       \/ /\ Glitch
          /\ \E k \in 0..Len(Steps) : Make(c, Reached(k))
          /\ IF attempt = 1 THEN Goto("cleanup") /\ attempt' = 2
             ELSE Abort /\ UNCHANGED attempt
          /\ UNCHANGED slips
    /\ UNCHANGED <<desired, mode, todo, current, upsets>>

---------------------------------------------------------------------------
(* setup_minio_bucket, the release, and the validation *)

MinioSteps == <<"password", "account", "policy">>
MinioPieces == {"password", "account", "policy"}

WithMinio(c, done) ==
    held' = [held EXCEPT ![c] = [p \in Pieces |->
                IF p \in done THEN held[c]["file"] ELSE held[c][p]]]

\* Faulty variant, no part of the specification: nothing is verified.
SetupMinioUnverified ==
    LET c == current IN
    /\ pc = "minio"
    /\ \/ Works /\ WithMinio(c, MinioPieces)
       \/ Glitch /\ \E done \in SUBSET MinioPieces : WithMinio(c, done)
    /\ Mended(c, "password") /\ Goto("deploy")
    /\ UNCHANGED <<sections, hosts, up, row, dropped, desired, run, upsets>>

SetupMinio ==
    LET c == current IN
    /\ pc = "minio"
    /\ \/ Works /\ WithMinio(c, MinioPieces) /\ Mended(c, "password") /\ Goto("deploy")
       \/ \* `user add` fails, but there is a user
          Glitch /\ held[c]["password"] # 0
          /\ WithMinio(c, MinioPieces \ {"password"})
          /\ Slipped(c, "password") /\ Goto("deploy")
       \/ /\ Glitch
          /\ \E k \in 0..2 : WithMinio(c, {MinioSteps[i] : i \in 1..k})
          /\ Abort /\ UNCHANGED slips
    /\ UNCHANGED <<sections, hosts, up, row, dropped, desired, run, upsets>>

\* update_connector_host_aliases writes the configured connectors into the values;
\* helm upgrade --install replaces whatever release there is.
Install(c) ==
    /\ Hold(c, "runtime", held[c]["values"])
    /\ hosts' = [hosts EXCEPT ![c] = desired]
    /\ Mended(c, "uninstall")

DeployRelease ==
    LET c == current IN
    /\ pc = "deploy"
    /\ \/ Works /\ Install(c) /\ up' = [up EXCEPT ![c] = TRUE] /\ Goto("next")
       \/ \* the rollout takes too long
          Glitch /\ Install(c) /\ Abort
          /\ \E b \in BOOLEAN : up' = [up EXCEPT ![c] = b]
       \/ Glitch /\ Abort /\ UNCHANGED <<held, hosts, up, slips>>
    /\ UNCHANGED <<sections, row, dropped, desired, run, upsets>>

AllDeployed ==
    /\ pc = "next" /\ todo = {}
    /\ Goto("validate")
    /\ UNCHANGED <<pieces, desired, run, tally, upsets, slips>>

\* Every connector pod of the namespaces must run, listed or not; the listed ones
\* answer and their files open their databases.
Reachable ==
    /\ \A c \in Connectors : Released(c) => up[c]
    /\ \A c \in desired : Released(c) /\ UserValid(c) /\ DatabaseValid(c)

\* A connector whose password has changed may live on the sessions it has.
Validate ==
    /\ pc = "validate"
    /\ \/ Reachable /\ Works /\ Goto("success")
       \/ Reachable /\ (\A c \in desired : Fresh(c)) /\ Glitch /\ Abort
       \/ ~(Reachable /\ \A c \in desired : Fresh(c)) /\ Works /\ Abort
    /\ UNCHANGED <<pieces, desired, run, upsets, slips>>

Finish == /\ pc' = "idle" /\ todo' = {} /\ attempt' = 1
          /\ mode' = "full" /\ current' = NoConnector

EndRun == /\ pc \in {"success", "aborted"}
          /\ Finish
          /\ UNCHANGED <<pieces, desired, tally, upsets, slips>>

---------------------------------------------------------------------------
(* What else happens *)

Upset == /\ upsets < MaxUpsets
         /\ upsets' = upsets + 1
         /\ clean' = FALSE

Interrupt == /\ pc # "idle" /\ Upset
             /\ Finish
             /\ UNCHANGED <<pieces, desired, faults, slips>>

PodFails(c) == /\ up[c] /\ Upset
               /\ up' = [up EXCEPT ![c] = FALSE]
               /\ UNCHANGED <<held, sections, hosts, row, dropped, desired, run, pc, faults,
                              slips>>

PodRecovers(c) == /\ Released(c) /\ ~up[c] /\ Fresh(c) /\ Upset
                  /\ up' = [up EXCEPT ![c] = TRUE]
                  /\ UNCHANGED <<held, sections, hosts, row, dropped, desired, run, pc,
                                 faults, slips>>

\* The user edits the list of connectors between two runs.
EditConfig == /\ pc = "idle"
              /\ \E s \in SUBSET Connectors : s # {} /\ s # desired /\ desired' = s
              /\ UNCHANGED <<pieces, run, pc, tally, upsets, slips>>

\* The pieces that are kept in PostgreSQL, Keycloak, Vault and MinIO.
Central == {"role", "user", "certificate", "privateKey", "accessKey", "secretKey",
            "password", "account", "policy"}

\* Level 2 recreates the common services: what they held is gone, while releases and
\* files stay.  The Level 3 that must follow belongs to the step: until it has made the
\* registration service's schema again, create_connector stops before its cleanup.
RecreateServices ==
    /\ pc = "idle"
    /\ held' = [c \in Connectors |-> [p \in Pieces |-> IF p \in Central THEN 0 ELSE held[c][p]]]
    /\ row' = [c \in Connectors |-> FALSE] /\ dropped' = {}
    /\ UNCHANGED <<sections, hosts, up, desired, run, pc, tally, upsets, slips>>

\* Level 3 alone makes the registration service's database anew: the participants are
\* gone, and the connectors' databases, users and secrets stay.
RecreateDataspace ==
    /\ pc = "idle"
    /\ row' = [c \in Connectors |-> FALSE]
    /\ dropped' = dropped \cup {c \in Connectors : Released(c) /\ row[c]}
    /\ UNCHANGED <<held, sections, hosts, up, desired, run, pc, tally, upsets, slips>>

Step == \/ \E c \in Connectors : RemoveStale(c) \/ Choose(c)
        \/ StaleGone \/ SyncClient \/ CleanUp \/ RunCreate \/ SetupMinio
        \/ DeployRelease \/ AllDeployed \/ Validate \/ EndRun

Next == \/ \E m \in {"full", "additive"} : Begin(m)
        \/ Step
        \/ Interrupt \/ EditConfig \/ RecreateServices \/ RecreateDataspace
        \/ \E c \in Connectors : PodFails(c) \/ PodRecovers(c)

Spec == Init /\ [][Next]_vars

---------------------------------------------------------------------------
(* Properties *)

\* The secrets of one version everywhere.
Consistent(c) ==
    LET v == held[c]["runtime"] IN
    /\ v # 0 /\ sections[c] = 5
    /\ \A p \in Pieces \ {"policy"} : held[c][p] = v
    /\ held[c]["policy"] # 0

\* All that a connector needs to work.
Working(c) == Consistent(c) /\ row[c]

\* A run that reports success leaves every configured connector with one version of
\* its secrets in all the systems it is spread over, in its pods and in its
\* credentials file, whatever earlier runs left behind, except where one of the three
\* failures that the code lets pass has happened and has not been made good: helm
\* uninstall, the upload of the certificate, and the MinIO user's password.  The
\* connector is a participant too, except where Level 3 was run again and additive
\* runs have kept the connector since: they do not look for its participant.
SuccessMeansWorking ==
    pc = "success" =>
        \A c \in desired : slips[c] = {} => Consistent(c) /\ (row[c] \/ c \in dropped)

\* A full run that nothing disturbs succeeds from every state, makes good all earlier
\* failures, lets every connector resolve every other, and leaves no release that is
\* not configured.
FullRunRestores ==
    mode = "full" /\ clean /\ pc \in {"success", "aborted"} =>
        /\ pc = "success"
        /\ \A c \in desired : Working(c) /\ hosts[c] = desired
        /\ \A c \in Connectors \ desired : ~Released(c)

\* An additive run in which nothing fails does not break a connector that works,
\* configured or not.
AdditiveSpares ==
    [][mode = "additive" /\ pc # "idle" /\ clean' =>
        \A c \in Connectors : Working(c) /\ up[c] => Working(c)' /\ up'[c]]_vars

===========================================================================

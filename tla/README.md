# A verification of the STICS dataspace framework

The repository deploys dataspaces (INESData and EDC connectors with their shared
services) and validates them. Much of it is orchestration: scripts that call kubectl,
helm, docker, Postman and Playwright in a fixed order. The code with state and protocols
of its own is in eight places: the provisioning service, the RDF validation extensions
of the EDC connector, the dashboard proxy, the federated catalog cache and the chunked
uploads of the INESData connector, and, in the orchestration, the shared Vault, the
deployment of connectors (Level 4) and the hosts file. This directory holds TLA+ models
of the eight, the TLC runs that check them on small instances, and TLAPS proofs, for
every value of the constants, of all that is checked but liveness.

Paths below are relative to the repository. `overlay/` stands for
`src/adapters/edc/overlays/connector/extensions/`, `inesdata/` for
`src/adapters/inesdata/sources/inesdata-connector/extensions/`.

## 1. Inventory

### Modelled

**Provisioning service** (`provisioning-api/app`: main.py, auth.py, db.py, models.py).
State: two SQLite tables, `clients` and `connectors`. Operations: register, approve,
reject, request a connector, read its status (and list clients, which only reads).
FastAPI runs the handlers in a thread pool and each call of db.py is a transaction on a
connection of its own, so a handler is a chain of transactions that others interleave
with: what it checked may have changed when it acts. The process can die between a
commit and the response. Correct means: one usable key per address, a connector name has
one owner who had been approved, an answer 200 is true, and the chain looks atomic from
outside.

**RDF validation of transfers** (`overlay/edc-rdf-validator-dataplane`,
`overlay/edc-rdf-validation-api`). State: the status in `private_properties` of each
`edc_transfer_process` row (one in the provider's, one in the consumer's database), a
set in memory of transfers validated in-stream, temporary files. Three writers without a
common lock: the sink that validates while it transfers (ValidatingDataSink), the
consumer's mirror endpoint, which the sink posts its report to with 5 s timeouts
(RdfValidationMirrorController), and the subscriber that judges the landed file when the
transfer completes (AutomaticRdfValidationSubscriber). Hard: late and lost callbacks,
checks far from the writes they guard, failures of SQL statements that are swallowed,
restarts that lose the set. Correct means: a SUCCESS is earned, no completed transfer is
left without a status but where a step failed, a stored verdict is not overwritten by a
weaker one, validation never blocks a transfer.

**Dashboard proxy** (`adapters/edc/build/dashboard-proxy/server.py`). State, all in
memory: login requests, sessions, flash notices, and a token cache per connector.
Operations: login, callback, use of a session with its refresh, logout, and
management_token. One thread per request, a lock per dictionary that is held for one
access only and never while Keycloak is asked. Hard: two threads refresh one session
with one refresh token, a refresh overlaps a logout, a callback arrives twice, Keycloak
rotates refresh tokens or its answer is lost, answers arrive out of order. Correct
means: a code is used once, a logout is final, races log nobody out, no token is used
beyond its end, nobody waits for ever.

**Federated catalog cache** (`inesdata/federated-catalog-cache-sql`,
`inesdata/participants-from-registration-service`). State: five tables, the directory of
participants in memory. Operations: save (two transactions), expireAll, deleteExpired,
update of the directory; queries only read. EDC's crawlers and their execution manager
drive it and are external. Hard: several crawlers and overlapping runs, a purge that
reads first and deletes by participant later, orphan removal that depends on the order
of statements, outages that look like an empty directory. Correct means: no dangling and
no orphaned rows, nobody is locked out, who left vanishes and who answers comes back.

**Storage assets** (`inesdata/store-asset-api`, with its two clients, the interface's
asset-create.component.ts and the Python ConnectorsClient). State: the multipart upload
of each file name in the connector's memory, with the parts noted so far; the uploads
and objects of the store. Operations: a chunk request (open, store a part, note it,
complete; on failure abort, forget, delete), and the clients' sending, retrying and
finalizing. Hard: requests of one name on several threads, calls that fail and answers
that get lost, retries while the first try still runs, restarts. Correct means: the
object that an asset is created for is the file that was sent, and no uploads pile up in
the store.

**Shared Vault** (`adapters/inesdata/infrastructure.py`, with the repair in
`adapters/edc/adapter.py` and the flows in `main.py`). State: the Vault (its storage,
sealed or not, its tokens), its namespace, the keys file init-keys-vault.json with the
only unseal key, the token in deployer.config, a copy of the keys file during a reset or
a write. Operations: Levels 2 to 4, as far as they initialise, unseal, reconcile and
verify; reset, repair, recovery. Hard: the key exists once; two files hold tokens of
which either may be revoked or of an earlier Vault; every command may fail, and its
answer may get lost. Correct means: the key is never lost but where the code cannot help
it, and an undisturbed Level 2 makes good whatever was left.

**Connector deployment** (`adapters/inesdata/connectors.py`, the `connector` commands of
`deployers/inesdata/bootstrap.py`). State: the secrets of a connector in PostgreSQL,
Keycloak, Vault, MinIO, its credentials file, certificates, helm values and release; the
registration service's participants; the list in deployer.config. Operations: a Level 4
run, full or additive, with cleanup, `connector create`, MinIO setup, release and
validation. Hard: every creation makes new secrets and writes them one by one; some
failures are only printed; runs are interrupted and work with what they find; between
them Levels 2 and 3 take away what the connectors hold in the central systems. Correct
means: a success is a working connector, an undisturbed full run restores everything,
and an additive one breaks nothing.

**Hosts file** (`deployers/shared/lib/hosts_manager.py`, manage_hosts_entries in
`adapters/inesdata/infrastructure.py`). State: one file, shared with its user and among
runs, without a lock. Operations: merge the managed blocks of the levels; add or move
entries below a header. Correct means: the user's lines survive, and a merge puts every
hostname where it belongs and is idempotent.

The parts meet as follows. The levels of the framework bring up the Vault, then the
connectors, and write the hosts file along the way; SharedVault composes the flows of
Levels 2, 3 and 4 as far as they touch the Vault, and ConnectorDeployment takes a Vault
that cannot be reached as a failing command; what a reset or a recreation of the common
services takes from the connectors, their databases, users and secrets, is its action
`RecreateServices`, and what Level 3 alone takes, their participants, is
`RecreateDataspace`. The registration service lists the participants whose catalogs the
cache crawls; Level 4 enters the connectors there. The proxy forwards a user's calls to
connectors, among them transfers whose data the RDF extension validates, and uploads.
The provisioning service only records requests so far; nothing else reads its tables.
The other parts share no mutable state, so no module composes two of them; within each
part its module composes all its actors.

### Not modelled

- Vocabulary exchange (`inesdata/vocabulary-shared-retrieval`, `vocabulary-index-sql`,
  `vocabulary-api`, `vocabulary-shared-api`): a schedule replaces the other
  participants' vocabularies while users edit their own. On the plan (section 6).
- Kafka manager (`framework/kafka_manager.py`): one sequential process; which broker it
  reuses, starts or stops is decided by what Docker and Kubernetes answer, which a model
  could only make up.
- The rest of the CLI (`main.py`: menus, previews, reports), Levels 3 and 5 and the EDC
  adapter's own deployment, the rendering of configuration and helm values: sequences of
  external commands whose effects lie outside the repository, or text.
- Validation engine, Newman executor, Kafka benchmark, experiment runner and storage,
  storage verifier, clean-up, stability and readiness checks: sequential scripts;
  polling loops with a deadline and no state that others share.
- JenaValidationService: a pure function over a library; in RdfValidation its result is
  an input. The INESData copy of the RDF extension repeats the EDC classes.
- The connector's other extensions (audit, policies, model execution): they keep no
  state between calls.
- Registration service: CRUD on one table; the other parts only see the list it answers.
- Portals, dashboards, component suites: front ends and test scripts, mostly upstream
  code; of the portal, only the upload loop is part of a model.

PROJECT.json lists these parts with their files, and the hazards of the modelled code at
their lines, each with the properties that would catch it going wrong.

## 2. Modules

| module | what it is |
|---|---|
| `ProvisioningRegistry` | abstract: addresses register, are decided on, claim names, each in one step |
| `ProvisioningApi` | the handlers, one action per transaction; refines the registry |
| `RdfValidation` | sink, mirror endpoint, subscribers, restarts |
| `DashboardSessions` | login requests and sessions, one action per access under a lock or answer of Keycloak |
| `DashboardTokens` | the token cache, with a clock |
| `FederatedCatalog` | tables, crawl runs, crawlers, directory |
| `StorageUpload` | chunk requests, clients, the connector's memory and the store |
| `SharedVault` | Vault, its files, and the levels that work on it, one action per command or file access |
| `ConnectorDeployment` | Level 4 runs over the pieces of each connector |
| `HostsFile` | both writers as operators on sequences of lines; reading and writing as steps |
| `MC...` | each of them for TLC: symmetry sets and input sets |
| `..._proofs` | the theorems about each of them |

Each module holds, before its actions, a few *faulty variants* of them: they are no part
of the specification, and each shows that a property notices a plausible slip.

**ProvisioningApi.** `clients` and `connectors` are the tables (a row's id is its
place), `pc[r]` is the point of request r's handler, `client[r]` the row that
require_approved_client read, `keys` the API keys that callers received (the table holds
hashes only). `CheckEmail`, `InsertClient`, `Reply` are main.register; `Authenticate`,
`CheckName`, `CheckDns`, `InsertConnector`, `SetConnectorStatus`, `Reply` are
main.request_connector; `ApproveClient`, `RejectClient` are the admin endpoints.
`DatabaseError` may end a handler at any transaction, `Crash` takes every handler in
flight. The resolver's answer is arbitrary. Left out: the shape of names and addresses
(pydantic refuses others before the handler runs), host names and addresses of
connectors, timestamps.

**RdfValidation.** `flow[t]` fixes what the code finds for a transfer: which runtime
runs the sink, the parts' kinds, which of the report's keys match, and what the
subscriber finds where the data lands. `stream[t]` follows ValidatingDataSink.transfer;
`mirror[t]` is the POST and the endpoint that works on it; `fallback[p]` follows the
subscriber. `row[p]` is the stored status, `mark` the set in memory. A failing statement
is a swallowed exception (`StoreFails`, and `ReadRow` for the query that answers "no"
when it fails). on() catches whatever its steps throw (`Swallow`): a look-up of the
transfer process (`ReadRowThrows`), of the asset, or a path that Paths.get refuses
(`JudgeThrows`) ends the event with no status and no failed UPDATE. A commit that fails
inside the try block of the fallback makes it store ERROR instead. `lost`, `misread` and
`thrown` remember those failures for the properties: `NoSilentGap` says that an event
that was dealt with leaves a status, is covered by the mark, or met one of them, so
there is no other silent gap; `CompletionsAreJudged` says the same of every event in the
end. Left out: the report's text and violations, and whether EDC's own store writes an
older copy of the row (library code).

**DashboardSessions.** `logins` is auth_requests, `sessions` and `token` are the
sessions' entries, `issued` and `ended` are Keycloak's side. `LookUp`,
`ReadRefreshToken`, `RefreshToken`, `StoreSession`, `DropSession` are oidc_session and
refresh_oidc_session, one action for each time the lock is taken or Keycloak answers.
`Arrive` lets a browser send any cookie or state it was ever given, again and late. Left
out: flash notices (the same pop under a lock as the login requests), the forwarding of
requests (no shared state), an answer of Keycloak without a refresh token (the entry can
then not be refreshed any more, and stays until a logout or a restart).

**DashboardTokens.** `now[r]` is the time that management_token notes once; `until[r]`
the end of the token a thread holds; `cachedUntil` the entry's expires_at. `GiveUp` is a
failed or timed-out request; as urlopen's timeout is for each read, answers may take
longer.

**FederatedCatalog.** A catalog row is identified by its participant (UNIQUE in the
schema), a data service by its participant, a distribution by dataset id and data
service; datasets are sets of ids per catalog. `SaveDeletes` and `SaveInserts` are
save's two transactions, `SelectExpired` and `DeleteExpired` the read and the deletes of
deleteExpired. External, from how the extension uses EDC 0.12: `Assign` (the execution
manager's work items) and the order expireAll, crawl, deleteExpired, where the last does
not wait for the crawlers. `UpdateDirectoryFails` covers an outage, a missing token and
a list that breaks off: the directory is replaced by whatever was read. Two histories
serve `StaleIsPurged`: `old` are the catalogs that were there when the run began and
that nobody has saved since, `marked` says that the run's expireAll worked. A run that
marked and purged leaves none of the former; where expireAll failed they stay, fresh,
until the next run. Left out: queries, which change nothing (that one query's statements
may see different states is no matter here), the JSON columns.

**StorageUpload.** It is about one file name, as names share nothing. `current` is
multipartUploadStates at the name, `parts` the completedParts of each upload; `open`,
`stored` and `object` are the store's side. `Open`, `StorePart`, `NotePart`, `Complete`,
`Remove` are S3Service.uploadChunk; `Abort`, `Forget` its catch block; `Delete` is the
controller's deletion after any error. `NotePart` adds to an ArrayList without a lock:
two at once may lose an element or add a null. The clients are `Begin`, `Send`,
`Receive`, `LoseAnswer`, `Finalize`; they differ in the number of tries per chunk (the
interface retries, the Python client does not). Left out: an empty file (it has no
chunks; see section 5), the controller's checks of the request's asset and headers
before it calls uploadChunk (a request that is refused there touches nothing in the
store), how folder and file name make the key (the controller stores under folder and
name, the asset's properties carry the file name only), the lists of uploads that have
ended, and of the asset service all but success and failure. `slips` names the five
things that the code does not handle: another upload of the name, a lost answer,
left-over parts, an abort and a restart in the middle. After "aborted", the retry of the
failed chunk alone may complete a new upload, and the interface still reports that the
asset was created.

**SharedVault.** `key` is the unseal key of the Vault's storage (a new number for each
`operator init`), `live` the tokens it accepts; `file` is init-keys-vault.json, `config`
VT_TOKEN in deployer.config. A level is a `plan` of operations, `pc` the place in the
current one: `ReadStatus` to `FinalStatus` are setup_vault, `Ensure...`
ensure_vault_unsealed, `LookAtFile` to `WriteConfig`
reconcile_vault_state_for_local_runtime with its transactional write, `MoveAside` to
`AwaitAbsent` the reset, `ApproveRepair` the repair of EDC's Level 4. A lookup tells the
truth or fails and looks like a no (`Observed`); a command may work although its answer
is lost. `Interrupt`, `PodRestarts`, `RevokeToken`, `EditConfig` and `NamespaceGoes`
happen at any point. Left out: the other common services (see ConnectorDeployment), key
shares (there is one), and the mount of the secrets, which setup_vault enables where it
is missing.

**ConnectorDeployment.** `held[c]` gives the version of its secrets that each of
thirteen pieces of connector c holds; a creation takes a version like nothing that there
is (`NewSecrets`). `Begin` reads the mode and the existing connectors, `RemoveStale`,
`Choose`, `SyncClient`, `CleanUp`, `RunCreate` (sixteen steps, `Steps`, tried twice),
`SetupMinio`, `DeployRelease` and `Validate` are deploy_connectors in its order. `slips`
are the failures that the code lets pass: a helm uninstall, a certificate that Keycloak
refuses, a MinIO user that is there already. `clean` says that nothing went wrong since
the run began. Between runs the user edits the list of connectors, Level 2 recreates the
common services, together with the Level 3 without which Level 4 would not start
(`RecreateServices`), or Level 3 alone makes the registration service's database anew
(`RecreateDataspace`); releases and files stay. `dropped` remembers whose participants
Level 3 alone has taken: an additive run keeps such a connector, does not enter its
participant again and does not look for it, so `SuccessMeansWorking` promises the
participant only to the others. Left out: topologies with several clusters, the contents
of configuration and policies, waiting times.

**HostsFile.** A file is a sequence of lines; a host line has an address and a set of
names. An operator of the code that keeps some lines is the set of their positions
(`Only`); the one scan with a state, remove_managed_blocks, is a recursive function of
the position (`SkippingUntil`). `Merged` is merge_missing_managed_blocks with all it
calls; `Migrated` and `Added` are the two ways of manage_hosts_entries. Both writers
trim and add blank lines, so `mine`, the user's lines, has none. The assumptions on the
constants are that an entry has one hostname (as `HostEntry` has), that no two entries
of a configuration are for one hostname (they are deduplicated, and named apart), and
that the user writes neither markers nor the default header. A run is `Read` and later
`Write`, `Tear` or `Refuse`; both ways of writing truncate or append, so a torn write
leaves a prefix. It breaks off between lines here, which is coarser than in the code: a
line that is cut in the middle is not modelled. Left out: white space within lines, the
copy through sudo and the second file on WSL, which repeat the same calls. Two things
seen while modelling that no property is about: levels that alternate make blank lines
grow between blocks, and the readiness plan counts hostnames that were left where they
stood as missing.

## 3. Runs

| run | instance | shows |
|---|---|---|
| `provisioning` | 2 addresses, 1 name, 4 requests | keys, ownership, truthful answers, and the refinement of the registry, with errors, crashes and decisions at any time |
| `rdf_faults` | 1 transfer, any of about 30 flows | verdicts, gaps, files, marks, and that sinks and events come to an end, with failing statements, lost callbacks and restarts |
| `dashboard_sessions` | 3 threads, 1 login, 1 session, 2 rotations | codes, logouts and refresh tokens, with rotation, failing Keycloak and restarts |
| `dashboard_two_users` | 2 threads, 2 logins, 2 sessions | with a Keycloak that answers and does not rotate, sessions survive every race; every request is answered |
| `dashboard_tokens` | 2 threads, lifetimes 1, 2, 4 around a margin of 2, clock to 5 | the cache and what is handed out |
| `federated_catalog` | 2 participants that share a dataset id, 2 crawlers, 2 upsets | the tables' integrity, and that the cache follows the participants |
| `storage_upload` | 2 users (2 chunks and 2 tries; 1 chunk and 1 try), 2 requests, 2 faults, 1 restart | when an uploaded object is the file, and which uploads stay open |
| `shared_vault` | 3 Vaults, 6 tokens, 2 faults, 2 upsets | who may lose the unseal key; what an undisturbed Level 2 makes of whatever was left, and when it gives up |
| `connector_deployment` | 2 connectors, 5 versions, 2 faults, 1 upset | what a run that reports success has made, what an undisturbed run restores, what an additive run spares |
| `hosts_file` | 2 processes, 6 jobs, 3 runs, 1 torn write | what becomes of the user's lines, and what a merge makes of whatever it finds |
| `rdf_mirror_race`, `federated_shared_ids` | small | one statement of the repository each that the code does not keep (section 5) |

Bounds, and why they are enough:

- Four requests over two addresses give a register race (two requests on one address), a
  second owner, and a connect race; one name suffices, as the handlers never look at two
  names.
- Transfers share nothing but the set of marks, of which each looks at its own element,
  so one transfer takes every interleaving; the flows take every branch of sink,
  endpoint and subscriber.
- Three threads on one session: two that refresh and one that logs out. Two rotations
  let a token be superseded and then be superseded again (`MaxRefreshes`; it limits
  `ExpireSession`). Two sessions matter only to `dashboard_two_users`.
- `Lifetimes` and `Margin` stand for seconds below, at and above the 30 s margin;
  `MaxTime` lets a token of the longest life be issued late, cached, looked up and
  expire.
- Two crawlers let two saves of one participant, or a save and a purge, overlap; the
  code runs two as well (connector-configuration.properties). One catalog lists its data
  service by itself and the other only in its distributions, and "x" is an id of both.
  `MaxUpsets` bounds faults, restarts and changes among the participants together: two
  are enough for a fault in a run that follows a change.
- Storage: two chunks have a first and a last, which are treated differently; a chunk in
  between is a first that is not the first. Three upload ids are enough: one in memory,
  one that the store kept, a new one. Two requests let two threads meet; `MaxBegins`
  lets a file be sent while, or after, another one is.
- Vault: a Vault, its successor after a reset and one more; two faults and two upsets
  let a fault meet a lost answer, a revoked token and a restart in one history. Levels
  follow one another in any order and number.
- Level 4: one connector to create and one to keep, spare or remove; two faults let a
  failure that goes unnoticed be followed by one that aborts, and any number of runs
  come after. With five versions a creation always finds a new one in the histories that
  two faults allow.
- Hosts: one common service and one connector, a configuration that moves them to other
  addresses, and user lines with names of the framework and without; three runs are two
  that overlap and one afterwards, or each writer after the other.

Deadlock is checked except in the provisioning, RDF, storage, Vault and hosts runs.
There everything may be done: requests answered, transfers ended, and in the last three
all uploads, Vaults or runs of the bounds used up. Symmetry is used in runs without
liveness properties only, over requests, logins, sessions, uploads, processes and
connectors, which the code does not order (in Level 4, connectors are worked through in
any order). The refinement run uses symmetry over requests alone, which the abstract
state does not mention.

Fairness, each weak and each justified by a thread that runs:

- ProvisioningApi: a handler that started keeps running; no fairness for arrivals,
  decisions, startup.
- RdfValidation: the data plane's thread, the endpoint's thread and the event router's
  each keep running; EDC need not start a transfer or report its end, nothing must
  restart.
- DashboardSessions: threads run and a call of Keycloak ends; browsers, clock, single
  sign-on and crashes owe nothing.
- FederatedCatalog: the two fixed-rate schedules and the crawlers go on. Failing is
  never fair, and `DepartedGoes` and `AnsweringReturns` hold after faults because the
  bound lets faults stop, which is what "in the end" means.
- StorageUpload, SharedVault, ConnectorDeployment and HostsFile state no fairness: their
  runs are started by users, may be given up at any point, and promise something about
  how they end, not that they do.

## 4. Proofs

Every theorem is proved for any number of addresses, names, requests, transfers,
participants, crawlers, uploads, chunks, connectors, faults and runs, from the
assumptions named in the modules only (Boolean switches, natural bounds, well-shaped
inputs, `None` is no id; for the hosts file those named in section 2). Each proof module
defines an inductive `IInv`, proves `Init => IInv` and `IInv /\ [Next]_vars => IInv'`
with one step per action, and draws the properties from it.

- **ProvisioningApi**: `IInv` is `TypeOK`, `HandlersOK` (what a handler at each point
  has established, such as the row it inserted) and `TablesOK` (addresses and connector
  names are unique, owners were approved, keys belong to their rows). The properties
  alone are not inductive: that a 200 is true needs to know what the handler did before.
  The lemma `TablesGrow` (no row loses its name or owner) carries what one request
  established past the steps of the others. Proved: `OneKeyPerEmail`,
  `OwnersWereApproved`, `AcceptedIsRecorded`, and the refinement `ImplementsRegistry`:
  with unique addresses and names, `StatusOf` and `OwnerOf` read the one row of an
  address or name (`RowsAreRead`), so that the three statements that write to the tables
  are each one operation of the registry (`InsertClientRegisters`,
  `SetClientStatusDecides`, `InsertConnectorClaims`) and every other step leaves what
  the registry sees as it is (`StepRefines`).
- **RdfValidation**: `ReportsKnown` and `RowsKnown` (where a status can come from),
  `EventsFollowSinks` and `MarksTrue` (a mark precedes the event), `FilesKnown`,
  `VerdictsGuarded` (a stored verdict is guarded by the mark or the row), `NoSilentGap`.
  That a swallowed exception keeps all of it is one lemma (`SwallowIInv`). Proved: all
  four safety invariants and the action property `InStreamVerdictStays`.
- **DashboardSessions**: `ThreadsKnown` (what each point implies), `LoginsSpent`,
  `BuriedDead` and `BarredOut` (nobody holds a token of a buried session),
  `DropsJustified`, `TokensKnown`, `EntriesCatchUp` (an outdated entry has a thread that
  will renew or drop it). Proved: `CodeSentOnce`, `BuriedIsNotServed`,
  `NoSupersededToken`, `SessionsSurvive`.
- **DashboardTokens**: `IssuedLater` (an issued token ends no earlier than the noted
  time plus its life) with the two properties themselves. `DashboardProxy_proofs` has
  the theorems about both, which is why the names of DashboardTokens differ from those
  of DashboardSessions (`TokenSpec`, `Threads`, `at`).
- **FederatedCatalog**: `TablesInv` groups what every transaction keeps; lemmas on
  `DeleteRelated`, `Delete` and `Insert` prove that once, and the actions cite them.
  With `CrawlersKnown`, `SelectedAll` and `OldAreMarked` (a catalog of an earlier run is
  marked once expireAll worked, and stays so until it is saved or deleted) it yields
  every safety property of the run.
- **StorageUpload**: `SmoothIsOnTheWay` follows the one chunk request of an upload that
  met no slip: the parts noted are the chunks before the next one (`Before`), or there
  is no upload and the first chunk is next; `Underway` says what the request has done at
  each point. `SmoothIsAlone` (no other request runs) and `RequestsHold` (a request is
  done with its upload before it forgets it) carry it over the steps of others. Proved:
  `UploadedIsWhole` for files of any length, and `OpenUploadsAreKnown`.
- **SharedVault**: that a reset may throw its copy away needs `BackupKnown` (what the
  copy opens is gone by then) and `SpaceTrue` (a namespace that is gone took the Vault
  along); that a roll-back keeps the key needs `MemoryKnown`; that a new key is in no
  copy needs `KeysMade`; that a plan has one reset, in front, is `ResetFirst`. Proved:
  `KeyKept`. What Level 2 promises rests on two more invariants. `InOrder` says that the
  operations left to do form a chain in which each may follow the one before, that the
  last one is an `ensure` (or a reconciliation or verification after it), and that the
  point a level is at belongs to the operation it names. `Known` says, for a Level 2
  that nothing steps into, what it has found out or made true by each point: that the
  namespace is gone, the Vault answers, the file has the key, the seal is open, the
  token is accepted (`ResetKnown`, `SetupKnown`, `SyncKnown`, `AfterKnown`,
  `FailedKnown`). The lemmas on the order (`Chained`, `PlansInOrder`, `Advance`) show
  that the next operation finds what it needs (`Handover`). Proved: `Level2LeavesReady`
  and `Level2FailsOnlyWithoutKey`.
- **ConnectorDeployment**: `ReleasesMatch` (a release that no uninstall left behind, and
  whose database is there, matches all that was written for it, and is a participant
  unless Level 3 dropped it) holds whatever fails; it is kept because a release is only
  touched while the connector is under construction, of which `UnderConstruction` knows
  what is written. `CleanRun`, `CleanFull` and `CleanAdditive` follow a run that nothing
  disturbs. Proved: `SuccessMeansWorking`, `FullRunRestores` and the action property
  `AdditiveSpares`.

- **HostsFile**: that the user's lines survive is not inductive, because
  remove_managed_blocks drops whatever stands in a block, up to the end of the file when
  the END line is missing. `Keeps` adds what prevents that: every BEGIN line has its END
  line with nothing but hosts between them (`Closed`), and the user's lines that the
  framework does not claim stand outside of the blocks. `Carried` shows once that a
  rewriting keeps it that moves lines in their order, adds only hosts, and takes no END
  line without its BEGIN line; removing blocks and hostnames, trimming, dropping matched
  lines and inserting below a header are shown to be such rewritings, and adding a whole
  block has a lemma of its own. `ApplySettles` needs none of that, as it starts from any
  file: `Restores` says that removing the new blocks gives back what they were added to,
  so a second run finds the same lines and the same entries missing; `Placed` says that
  the hosts behind that are these entries, once each and in their own blocks; `Apart`
  carries the distinct hostnames from block to block. An induction over positions cites
  `Induct`, which states it for a set instead of a predicate, and `SkippingStep` that
  the recursive function of remove_managed_blocks satisfies its equation. Proved:
  `UserLinesSurvive` and the action property `ApplySettles`.

Each module's `TypeOK` is proved as well (`TypeCorrect`).

Only model-checked: liveness (`StreamsEnd`, `CompletionsAreJudged`, `RequestsEnd`,
`DepartedGoes`, `AnsweringReturns`), which the prover cannot treat under fairness, and
the two violations, which are counterexamples.

## 5. Where the code and its documents disagree

- `rdf_mirror_race`: the subscriber checks for a definitive status to avoid "overwriting
  with SKIPPED", but long before it writes, and a verdict that the provider mirrors in
  between is overwritten.
- `federated_shared_ids`: the schema gives a distribution to one dataset of one catalog,
  but catalog_id is never filled in, so participants that use one dataset id get and
  delete each other's distributions. (`ExclusiveDistributions` is what holds: an id that
  one participant alone uses keeps its own.)

The models show some more, which no run is spent on:

- The provisioning README calls rejecting "Permanently deny a registration"
  (`provisioning-api/README.md`, line 57); approving the same client later makes it
  approved (`db.py`, line 110). It also says (line 46) that the service refuses to start
  without an admin token, and so does `auth.py` (line 17); it starts and serves, and
  only the admin endpoints fail.
- The dashboard answers a logout with "Your dashboard session has been closed"
  (`server.py`, line 900), but a refresh in flight stores the session again.
  `BuriedIsNotServed` is what does hold: a logout that no refresh overlaps is final.
- The cache's store says of its deletion that it "Deletes expired catalogs"
  (`SqlFederatedCacheStore.java`, line 117), but it deletes whatever catalog the
  participant has by then: a crawler that saves a fresh one after the expired ones were
  read loses it. `AnsweringReturns` is what does hold: a later run brings it back.
- The documents call the synchronisation of the hosts file idempotent
  (`docs/12_local_validation_environment.md`, line 133; `docs/32_getting_started.md`,
  line 229). `ApplySettles` is how far that goes: a run repeated for one level and
  configuration changes nothing.
- The interface reports "Asset created successfully" (`asset-create.component.ts`, line
  417) when the retry of a failed chunk has completed an upload of that chunk alone (the
  slip "aborted" of StorageUpload). Of an empty file it sends no chunk at all and still
  finalizes it: the asset is created for no object, or for an older one of that name.
- Additive Level 4 is for "preservando conectores existentes que ya están sanos"
  (`docs/36_adapters.md`, line 180). After a Level 3 that is run again it keeps
  connectors that are no participants any more and reports success
  (`RecreateDataspace`); a full run restores them.

## 6. Plan

In this order; the first steps are done (sections 2 to 4).

1. ProvisioningApi with its registry, RdfValidation, DashboardSessions and
   DashboardTokens, FederatedCatalog, with runs and proofs. *Done.*
2. SharedVault, ConnectorDeployment, HostsFile and StorageUpload with their runs and
   proofs. *Done.*
3. `VocabularyExchange`: the index by id and connector, the retrieval as
   delete-then-create transactions, users' edits. Liveness of the shared vocabularies
   after outages, and integrity of a user's own.
4. Proofs of the refinement of `ProvisioningRegistry` and of what Level 2 promises.
   *Done.*
5. The EDC adapter's deployment, where it differs from ConnectorDeployment.

---------------------------- MODULE SharedVault ----------------------------
(***************************************************************************)
(* The life of the shared Vault of a local dataspace: the service in the   *)
(* cluster, the artifact init-keys-vault.json that holds its only unseal   *)
(* key and a root token, the token in deployer.config, and the levels of   *)
(* the framework that initialise, unseal, reconcile and recreate it        *)
(* (adapters/inesdata/infrastructure.py, with the repair of EDC's Level 4  *)
(* in adapters/edc/adapter.py).  One action is one command, one access to  *)
(* a file, or one lookup; commands fail, answers get lost, the process may *)
(* be interrupted anywhere, and in the cluster pods restart, tokens are    *)
(* revoked and namespaces go away.                                         *)
(***************************************************************************)
EXTENDS Naturals, Sequences

CONSTANTS
    MaxInits,    \* bound: how often a Vault is initialised
    MaxTokens,   \* bound: how many tokens are issued
    MaxFaults,   \* bound: commands and file accesses that fail
    MaxUpsets    \* bound: restarts, revocations, interruptions, edits

ASSUME BoundsAssumption == {MaxInits, MaxTokens, MaxFaults, MaxUpsets} \subseteq Nat

VARIABLES
    \* the cluster
    pod,         \* the Vault pod runs
    key,         \* the unseal key of its storage, 0 while it is not initialised
    sealed,
    live,        \* the tokens it accepts
    space,       \* its namespace: "absent", "present" or "leaving"
    inits, tokens,  \* how many keys and tokens exist
    \* the files
    file,        \* init-keys-vault.json
    config,      \* VT_TOKEN in deployer.config
    \* the running level
    flow,        \* which level was asked for
    plan,        \* the operations still to do, the current one first
    pc,          \* where in the current operation
    memKey, memToken, memSealed,   \* what it has read
    candidate,   \* the token that a reconciliation works with
    saved,       \* the copy that a transactional write rolls back to
    backup,      \* the artifact moved aside by a reset
    repairing,   \* the reset belongs to the repair of Level 4
    \* history
    faults, upsets,
    clean,       \* nothing went wrong since the level began
    slips        \* how the key of the present Vault may have been lost

cluster == <<pod, key, sealed, live, space, inits, tokens>>
files   == <<file, config>>
memory  == <<memKey, memToken, memSealed, candidate, saved>>
rescue  == <<backup, repairing>>
tally   == <<faults, clean>>
vars == <<cluster, files, flow, plan, pc, memory, rescue, tally, upsets, slips>>

---------------------------------------------------------------------------
(* Types *)

Keys   == 0..MaxInits
Tokens == 0..MaxTokens

NoFile    == [state |-> "missing", key |-> 0, token |-> 0]
Corrupted == [state |-> "corrupted", key |-> 0, token |-> 0]
KeysFile(k, t) == [state |-> "ok", key |-> k, token |-> t]
Files == {NoFile, Corrupted} \cup [state: {"ok"}, key: Keys, token: Tokens]

Operations == {"recreate", "deploy", "setup", "syncToken", "ensure", "reconcile",
               "verify", "reset", "reuse"}

Level2   == <<"recreate", "deploy", "setup", "syncToken", "ensure">>
Level3   == <<"ensure", "reconcile">>
Level4   == <<"ensure", "reconcile", "verify">>
Recreate == <<"reset">> \o Level2
Repair   == <<"reset", "reuse">> \o Level2 \o Level3 \o Level4
Recovery == <<"ensure">>

Flows == [level2 |-> Level2, level3 |-> Level3, level4 |-> Level4,
          recreate |-> Recreate, recovery |-> Recovery]

Entry == [recreate |-> "drop", deploy |-> "deploy", setup |-> "status",
          syncToken |-> "lookFile", ensure |-> "ensureStatus", reconcile |-> "lookFile",
          verify |-> "verify", reset |-> "moveAside", reuse |-> "ensureStatus"]

Points == {"idle", "done", "failed", "raised",
           "drop", "deploy",
           "status", "init", "store", "load", "unseal", "check", "reload", "recheck", "final",
           "ensureStatus", "ensureUnseal", "ensurePoll",
           "lookFile", "lookConfig", "newRoot", "replace", "validate", "writeConfig",
           "verify", "moveAside", "delete", "awaitAbsent"}

TypeOK ==
    /\ pod \in BOOLEAN /\ sealed \in BOOLEAN
    /\ space \in {"absent", "present", "leaving"}
    /\ key \in Keys /\ inits \in Keys /\ tokens \in Tokens
    /\ live \subseteq 1..tokens
    /\ file \in Files /\ saved \in Files /\ backup \in Files
    /\ config \in Tokens
    /\ flow \in DOMAIN Flows \cup {"none"}
    /\ plan \in Seq(Operations) /\ pc \in Points
    /\ pc \notin {"idle", "done"} => plan # <<>>
    /\ memKey \in Keys /\ memToken \in Tokens /\ memSealed \in BOOLEAN
    /\ candidate \in Tokens
    /\ repairing \in BOOLEAN /\ clean \in BOOLEAN
    /\ faults \in 0..MaxFaults /\ upsets \in 0..MaxUpsets
    /\ slips \subseteq {"unstored", "moved", "probe"}

Init ==
    /\ pod = FALSE /\ key = 0 /\ sealed = TRUE /\ live = {} /\ space = "absent"
    /\ inits = 0 /\ tokens = 0
    /\ file = NoFile /\ config = 0
    /\ flow = "none" /\ plan = <<>> /\ pc = "idle"
    /\ memKey = 0 /\ memToken = 0 /\ memSealed = TRUE /\ candidate = 0 /\ saved = NoFile
    /\ backup = NoFile /\ repairing = FALSE
    /\ faults = 0 /\ upsets = 0 /\ clean = TRUE /\ slips = {}

---------------------------------------------------------------------------
(* Commands, lookups, and how an operation ends *)

Works == UNCHANGED tally
Glitch == /\ faults < MaxFaults
          /\ faults' = faults + 1
          /\ clean' = FALSE

\* A query tells the truth, or fails and looks like a no.
Observed(truth, seen) == \/ seen = truth /\ Works
                         \/ truth /\ ~seen /\ Glitch

Opened == pod /\ key # 0 /\ ~sealed
Accepts(t) == Opened /\ t \in live

\* vault operator unseal: an unsealed Vault takes any key.
Unseals(k) == pod /\ key # 0 /\ (sealed => k = key)

Goto(p) == pc' = p /\ UNCHANGED plan
Proceed == /\ plan' = Tail(plan)
           /\ pc' = IF Len(plan) = 1 THEN "done" ELSE Entry[plan[2]]

\* reuse: common services that are ready spare the rest of Level 2.
SkipLevel2 == /\ plan' = Level3 \o Level4
              /\ pc' = Entry["ensure"]

Fails  == IF Head(plan) = "reuse" THEN Proceed ELSE Goto("failed")
Raises == Goto("raised")

EnsureEnds == IF Head(plan) = "reuse" THEN SkipLevel2 ELSE Proceed

\* reconcile_vault_state_for_local_runtime answers its caller: setup_vault looks
\* at the token once more, Level 2 only warns, Levels 3 and 4 give up.
ReconcileEnds(ok) ==
    CASE Head(plan) = "setup"     -> Goto(IF ok THEN "reload" ELSE "recheck")
      [] Head(plan) = "syncToken" -> Proceed
      [] OTHER                    -> IF ok THEN Proceed ELSE Fails

---------------------------------------------------------------------------
(* Faulty variants, no part of the specification. *)

\* A new Vault's token goes uncounted.
InitialiseUncounted(answered) ==
    /\ inits < MaxInits /\ tokens < MaxTokens
    /\ key' = inits + 1 /\ inits' = inits + 1
    /\ live' = {tokens + 1} /\ UNCHANGED tokens
    /\ sealed' = TRUE
    /\ slips' = IF answered THEN {} ELSE {"unstored"}

\* The artifact's token is found valid and deployer.config is left as it is.
LookAtFileOnly ==
    /\ pc = "lookFile"
    /\ memKey' = file.key
    /\ \E ok \in BOOLEAN :
          /\ Observed(Accepts(file.token), ok)
          /\ candidate' = config
          /\ IF ok THEN ReconcileEnds(TRUE) ELSE Goto("lookConfig")
    /\ UNCHANGED <<cluster, files, flow, memToken, memSealed, saved, rescue, upsets, slips>>

\* Two invalid tokens are the end: the unseal key is not used to make a new one.
LookAtConfigOrGiveUp ==
    /\ pc = "lookConfig"
    /\ \E ok \in BOOLEAN :
          /\ Observed(Accepts(candidate), ok)
          /\ IF ok THEN Goto(IF memKey # 0 THEN "replace" ELSE "writeConfig")
             ELSE ReconcileEnds(FALSE)
    /\ UNCHANGED <<cluster, files, flow, memory, rescue, upsets, slips>>

\* A reset that gives up forgets the artifact it moved aside.
AwaitAbsentForgets ==
    /\ pc = "awaitAbsent"
    /\ \/ /\ space = "absent" /\ Works
          /\ Proceed /\ UNCHANGED slips
       \/ /\ space # "absent" /\ Glitch
          /\ slips' = slips \cup {"probe"}
          /\ Proceed
       \/ /\ space # "absent" /\ Works
          /\ Fails /\ UNCHANGED slips
    /\ UNCHANGED <<cluster, files, flow, memory, rescue, upsets>>

---------------------------------------------------------------------------
(* Level 2: the release *)

\* reconcile_common_services_source_of_truth: without drift nothing happens;
\* with drift the release and its volumes are deleted, unless a command fails.
KeepServices == /\ pc = "drop"
                /\ Proceed
                /\ UNCHANGED <<cluster, files, flow, memory, rescue, tally, upsets, slips>>

DropServices ==
    /\ pc = "drop" /\ pod
    /\ \/ /\ Works
          /\ pod' = FALSE /\ key' = 0 /\ live' = {}
       \/ /\ Glitch
          /\ \/ pod' = FALSE /\ UNCHANGED <<key, live>>
             \/ UNCHANGED <<pod, key, live>>
    /\ sealed' = TRUE
    /\ Proceed
    /\ UNCHANGED <<space, inits, tokens, files, flow, memory, rescue, upsets, slips>>

\* deploy_helm_release and wait_for_vault_pod.  A volume that outlived its
\* release is used again, and Vault starts sealed; a namespace that is being
\* deleted takes nothing new.
DeployServices ==
    /\ pc = "deploy"
    /\ \/ /\ space # "leaving" /\ Works
          /\ space' = "present" /\ pod' = TRUE
          /\ sealed' = (pod => sealed)
          /\ Proceed
       \/ /\ IF space = "leaving" THEN Works ELSE Glitch
          /\ Fails
          /\ UNCHANGED <<space, pod, sealed>>
    /\ UNCHANGED <<key, live, inits, tokens, files, flow, memory, rescue, upsets, slips>>

---------------------------------------------------------------------------
(* setup_vault *)

ReadStatus ==
    /\ pc = "status"
    /\ \/ /\ pod /\ Works
          /\ memSealed' = sealed
          /\ IF key = 0 THEN Goto("init") ELSE Goto("load")
       \/ \* no answer: trust the keys file, if there is one
          /\ pod /\ Glitch
          /\ memSealed' = TRUE
          /\ IF file # NoFile THEN Goto("load") ELSE Fails
       \/ /\ ~pod /\ Works
          /\ Fails /\ UNCHANGED memSealed
    /\ UNCHANGED <<cluster, files, flow, memKey, memToken, candidate, saved, rescue, upsets, slips>>

\* vault operator init makes the only copy of the key that will ever exist.
Initialise(answered) ==
    /\ inits < MaxInits /\ tokens < MaxTokens
    /\ key' = inits + 1 /\ inits' = inits + 1
    /\ tokens' = tokens + 1 /\ live' = {tokens + 1}
    /\ sealed' = TRUE
    /\ slips' = IF answered THEN {} ELSE {"unstored"}

RunInit ==
    /\ pc = "init"
    /\ \/ /\ pod /\ key = 0 /\ Works
          /\ Initialise(TRUE)
          /\ memKey' = inits + 1 /\ memToken' = tokens + 1 /\ memSealed' = TRUE
          /\ Goto("store")
       \/ /\ pod /\ key = 0 /\ Glitch
          /\ Initialise(FALSE) \/ UNCHANGED <<key, inits, tokens, live, sealed, slips>>
          /\ Fails
          /\ UNCHANGED <<memKey, memToken, memSealed>>
       \/ /\ ~pod \/ key # 0
          /\ Works /\ Fails
          /\ UNCHANGED <<key, inits, tokens, live, sealed, slips, memKey, memToken, memSealed>>
    /\ UNCHANGED <<pod, space, files, flow, candidate, saved, rescue, upsets>>

\* open(path, "w") truncates before it writes, so a full disk leaves a torn file.
StoreKeys ==
    /\ pc = "store"
    /\ \/ /\ Works
          /\ file' = KeysFile(memKey, memToken)
          /\ Goto("load")
          /\ UNCHANGED slips
       \/ /\ Glitch
          /\ file' \in {file, Corrupted}
          /\ slips' = slips \cup {"unstored"}
          /\ Fails
    /\ UNCHANGED <<cluster, config, flow, memory, rescue, upsets>>

LoadKeys ==
    /\ pc = "load"
    /\ IF file.state = "ok"
       THEN /\ memKey' = file.key /\ memToken' = file.token
            /\ IF memSealed THEN Goto("unseal") ELSE Goto("check")
       ELSE Fails /\ UNCHANGED <<memKey, memToken>>
    /\ UNCHANGED <<cluster, files, flow, memSealed, candidate, saved, rescue, tally, upsets, slips>>

\* The command opens the Vault, and its answer may be lost.
Unseal(k, next) ==
    /\ \/ /\ Unseals(k) /\ Works
          /\ sealed' = FALSE /\ Goto(next)
       \/ /\ Unseals(k) /\ Glitch
          /\ sealed' \in {sealed, FALSE} /\ Fails
       \/ /\ ~Unseals(k) /\ Works
          /\ UNCHANGED sealed /\ Fails
    /\ UNCHANGED <<pod, key, live, space, inits, tokens>>

RunUnseal ==
    /\ pc = "unseal"
    /\ Unseal(memKey, "check")
    /\ UNCHANGED <<files, flow, memory, rescue, upsets, slips>>

CheckToken ==
    /\ pc = "check"
    /\ \E ok \in BOOLEAN :
          /\ Observed(Accepts(memToken), ok)
          /\ IF ok THEN Goto("final") ELSE Goto("lookFile")
    /\ UNCHANGED <<cluster, files, flow, memory, rescue, upsets, slips>>

\* After a reconciliation that worked the artifact is read again.
ReloadToken ==
    /\ pc = "reload"
    /\ memToken' = file.token
    /\ Goto("recheck")
    /\ UNCHANGED <<cluster, files, flow, memKey, memSealed, candidate, saved, rescue, tally,
                   upsets, slips>>

RecheckToken ==
    /\ pc = "recheck"
    /\ \E ok \in BOOLEAN :
          /\ Observed(Accepts(memToken), ok)
          /\ IF ok THEN Goto("final") ELSE Fails
    /\ UNCHANGED <<cluster, files, flow, memory, rescue, upsets, slips>>

FinalStatus ==
    /\ pc = "final"
    /\ \E ok \in BOOLEAN :
          /\ Observed(Opened, ok)
          /\ IF ok THEN Proceed ELSE Fails
    /\ UNCHANGED <<cluster, files, flow, memory, rescue, upsets, slips>>

---------------------------------------------------------------------------
(* ensure_vault_unsealed *)

EnsureStatus ==
    /\ pc = "ensureStatus"
    /\ \/ /\ pod /\ Works
          /\ IF key = 0 THEN Fails
             ELSE IF sealed THEN Goto("ensureUnseal") ELSE Goto("ensurePoll")
       \/ /\ pod /\ Glitch
          /\ IF file = NoFile THEN Fails ELSE Goto("ensureUnseal")
       \/ ~pod /\ Works /\ Fails
    /\ UNCHANGED <<cluster, files, flow, memory, rescue, upsets, slips>>

\* The keys file is opened without a guard: when it is missing or torn, the
\* exception ends the level.
EnsureUnseal ==
    /\ pc = "ensureUnseal"
    /\ IF file.state = "ok"
       THEN memKey' = file.key /\ Unseal(memKey', "ensurePoll")
       ELSE Works /\ Raises /\ UNCHANGED <<cluster, memKey>>
    /\ UNCHANGED <<files, flow, memToken, memSealed, candidate, saved, rescue, upsets, slips>>

EnsurePoll ==
    /\ pc = "ensurePoll"
    /\ \E ok \in BOOLEAN :
          /\ Observed(Opened, ok)
          /\ IF ok THEN EnsureEnds ELSE Fails
    /\ UNCHANGED <<cluster, files, flow, memory, rescue, upsets, slips>>

---------------------------------------------------------------------------
(* reconcile_vault_state_for_local_runtime *)

\* Both files are read; the artifact's token comes first.
LookAtFile ==
    /\ pc = "lookFile"
    /\ memKey' = file.key
    /\ \E ok \in BOOLEAN :
          /\ Observed(Accepts(file.token), ok)
          /\ candidate' = (IF ok THEN file.token ELSE config)
          /\ Goto(IF ok THEN "writeConfig" ELSE "lookConfig")
    /\ UNCHANGED <<cluster, files, flow, memToken, memSealed, saved, rescue, upsets, slips>>

\* A valid token of deployer.config repairs the artifact, if that has a key.
LookAtConfig ==
    /\ pc = "lookConfig"
    /\ \E ok \in BOOLEAN :
          /\ Observed(Accepts(candidate), ok)
          /\ Goto(IF ~ok THEN "newRoot" ELSE IF memKey # 0 THEN "replace" ELSE "writeConfig")
    /\ UNCHANGED <<cluster, files, flow, memory, rescue, upsets, slips>>

IssueToken == /\ tokens < MaxTokens
              /\ tokens' = tokens + 1 /\ live' = live \cup {tokens + 1}

\* _recover_vault_root_token_with_unseal_key: its commands yield a new root token
\* or none; an answer that is lost leaves a token nobody knows.
GenerateRoot ==
    /\ pc = "newRoot"
    /\ \/ /\ Opened /\ memKey = key /\ Works
          /\ IssueToken /\ candidate' = tokens + 1
          /\ Goto("replace")
       \/ /\ Opened /\ memKey = key /\ Glitch
          /\ IssueToken \/ UNCHANGED <<tokens, live>>
          /\ ReconcileEnds(FALSE) /\ UNCHANGED candidate
       \/ /\ ~(Opened /\ memKey = key) /\ Works
          /\ ReconcileEnds(FALSE) /\ UNCHANGED <<tokens, live, candidate>>
    /\ UNCHANGED <<pod, key, sealed, space, inits, files, flow, memKey, memToken, memSealed,
                   saved, rescue, upsets, slips>>

\* _write_vault_keys_artifact_transactionally: copy, replace, validate, roll back.
\* A failing copy or replace is an exception that nobody catches.
ReplaceFile ==
    /\ pc = "replace"
    /\ \/ /\ Works
          /\ saved' = file /\ file' = KeysFile(memKey, candidate)
          /\ Goto("validate")
       \/ /\ Glitch
          /\ Raises /\ UNCHANGED <<saved, file>>
    /\ UNCHANGED <<cluster, config, flow, memKey, memToken, memSealed, candidate, rescue,
                   upsets, slips>>

ValidateFile ==
    /\ pc = "validate"
    /\ \E ok \in BOOLEAN :
          /\ Observed(Accepts(candidate), ok)
          /\ file' = IF ok THEN file ELSE saved
          /\ IF ok THEN Goto("writeConfig") ELSE ReconcileEnds(FALSE)
    /\ UNCHANGED <<cluster, config, flow, memory, rescue, upsets, slips>>

\* _write_key_value_updates rewrites the file in place; a write that breaks off
\* may leave no token.
WriteConfig ==
    /\ pc = "writeConfig"
    /\ \/ Works /\ config' = candidate /\ ReconcileEnds(TRUE)
       \/ Glitch /\ config' \in {config, 0} /\ ReconcileEnds(FALSE)
    /\ UNCHANGED <<cluster, file, flow, memory, rescue, upsets, slips>>

\* _verify_vault_management_token
VerifyToken ==
    /\ pc = "verify"
    /\ \E ok \in BOOLEAN :
          /\ Observed(Accepts(config), ok)
          /\ IF ok THEN Proceed ELSE Fails
    /\ UNCHANGED <<cluster, files, flow, memory, rescue, upsets, slips>>

---------------------------------------------------------------------------
(* reset_local_shared_common_services *)

\* _begin_temporary_vault_keys_backup_for_repair
MoveAside ==
    /\ pc = "moveAside"
    /\ backup' = file /\ file' = NoFile
    /\ Goto("delete")
    /\ UNCHANGED <<cluster, config, flow, memory, repairing, tally, upsets, slips>>

\* helm uninstall and kubectl delete namespace, whose failures are ignored.
DeleteServices ==
    /\ pc = "delete"
    /\ \/ /\ Works
          /\ space' = "absent" /\ pod' = FALSE /\ key' = 0 /\ live' = {}
       \/ /\ space # "absent" /\ Glitch
          /\ pod' \in {pod, FALSE} /\ space' \in {space, "leaving"}
          /\ UNCHANGED <<key, live>>
    /\ sealed' = (pod' => sealed)
    /\ Goto("awaitAbsent")
    /\ UNCHANGED <<inits, tokens, files, flow, memory, rescue, upsets, slips>>

Restored(f) == IF f = NoFile THEN backup ELSE f

\* _wait_for_namespace_absent takes an empty answer for an absent namespace, and a
\* failing kubectl answers nothing.
AwaitAbsent ==
    /\ pc = "awaitAbsent"
    /\ \/ /\ space = "absent" /\ Works
          /\ Proceed /\ UNCHANGED <<file, backup, slips>>
       \/ /\ space # "absent" /\ Glitch
          /\ slips' = slips \cup {"probe"}
          /\ Proceed /\ UNCHANGED <<file, backup>>
       \/ /\ space # "absent" /\ Works
          /\ file' = Restored(file) /\ backup' = NoFile
          /\ Fails /\ UNCHANGED slips
    /\ UNCHANGED <<cluster, config, flow, memory, repairing, upsets>>

---------------------------------------------------------------------------
(* Levels begin and end *)

Forget == /\ memKey' = 0 /\ memToken' = 0 /\ memSealed' = TRUE
          /\ candidate' = 0 /\ saved' = NoFile

StartFlow(f) ==
    /\ pc = "idle"
    /\ flow' = f /\ plan' = Flows[f] /\ pc' = Entry[Head(plan')]
    /\ clean' = TRUE
    /\ UNCHANGED <<cluster, files, memory, rescue, faults, upsets, slips>>

\* Level 4 of the EDC adapter, when the token is the trouble and the user agrees.
ApproveRepair ==
    /\ pc = "failed" /\ flow = "level4" /\ ~repairing
    /\ Head(plan) \in {"reconcile", "verify"}
    /\ repairing' = TRUE
    /\ plan' = Repair /\ pc' = Entry["reset"]
    /\ UNCHANGED <<cluster, files, flow, memory, backup, tally, upsets, slips>>

Finish == /\ pc' = "idle" /\ flow' = "none" /\ plan' = <<>>
          /\ backup' = NoFile /\ repairing' = FALSE
          /\ Forget

\* A repair that fails puts the artifact back unless there is a new one.
GiveUp ==
    /\ pc \in {"failed", "raised"}
    /\ file' = IF repairing THEN Restored(file) ELSE file
    /\ Finish
    /\ UNCHANGED <<cluster, config, tally, upsets, slips>>

\* finalize_local_common_services_reset(success=True), or the adapter is discarded.
Complete ==
    /\ pc = "done"
    /\ Finish
    /\ UNCHANGED <<cluster, files, tally, upsets, slips>>

Upset == /\ upsets < MaxUpsets
         /\ upsets' = upsets + 1
         /\ clean' = FALSE

\* The process dies, and with it the temporary directories.
Interrupt ==
    /\ pc # "idle" /\ Upset
    /\ config' \in (IF pc = "writeConfig" THEN {config, 0} ELSE {config})
    /\ file' \in (IF pc = "store" THEN {file, Corrupted} ELSE {file})
    /\ slips' = slips \cup (IF pc = "store" THEN {"unstored"} ELSE {})
                      \cup (IF backup # NoFile THEN {"moved"} ELSE {})
    /\ Finish
    /\ UNCHANGED <<cluster, faults>>

---------------------------------------------------------------------------
(* What happens to the cluster and to deployer.config meanwhile *)

PodRestarts ==
    /\ pod /\ Upset
    /\ sealed' = TRUE
    /\ UNCHANGED <<pod, key, live, space, inits, tokens, files, flow, plan, pc, memory, rescue,
                   faults, slips>>

RevokeToken ==
    /\ Upset
    /\ \E t \in live : live' = live \ {t}
    /\ UNCHANGED <<pod, key, sealed, space, inits, tokens, files, flow, plan, pc, memory, rescue,
                   faults, slips>>

\* An administrator puts a token of their own, or a placeholder, into the file.
EditConfig ==
    /\ Upset
    /\ \/ Opened /\ IssueToken /\ config' = tokens + 1
       \/ config' = 0 /\ UNCHANGED <<tokens, live>>
    /\ UNCHANGED <<pod, key, sealed, space, inits, file, flow, plan, pc, memory, rescue, faults,
                   slips>>

NamespaceGoes ==
    /\ space = "leaving"
    /\ space' = "absent" /\ pod' = FALSE /\ key' = 0 /\ live' = {} /\ sealed' = TRUE
    /\ clean' = FALSE
    /\ UNCHANGED <<inits, tokens, files, flow, plan, pc, memory, rescue, faults, upsets, slips>>

Setup == ReadStatus \/ RunInit \/ StoreKeys \/ LoadKeys \/ RunUnseal \/ CheckToken
            \/ ReloadToken \/ RecheckToken \/ FinalStatus
Ensure == EnsureStatus \/ EnsureUnseal \/ EnsurePoll
Reconcile == LookAtFile \/ LookAtConfig \/ GenerateRoot \/ ReplaceFile \/ ValidateFile
                \/ WriteConfig
Reset == MoveAside \/ DeleteServices \/ AwaitAbsent
Level == KeepServices \/ DropServices \/ DeployServices \/ VerifyToken
            \/ ApproveRepair \/ GiveUp \/ Complete

Next == \/ \E f \in DOMAIN Flows : StartFlow(f)
        \/ Setup \/ Ensure \/ Reconcile \/ Reset \/ Level \/ Interrupt
        \/ PodRestarts \/ RevokeToken \/ EditConfig \/ NamespaceGoes

Spec == Init /\ [][Next]_vars

---------------------------------------------------------------------------
(* Properties *)

\* The unseal key exists once.  While the Vault that it opens exists, the key is
\* in the artifact, in the copy that a reset moved aside, or on its way from
\* `operator init` to the file, except after one of three slips: the answer of
\* init was not stored, the process died while the artifact was moved aside, or a
\* reset took a failing kubectl for an absent namespace.  Neither reruns nor the
\* transactional write with its rollback nor a repair that fails can lose it.
KeyKept ==
    key # 0 /\ slips = {} =>
        \/ file.state = "ok" /\ file.key = key
        \/ backup.key = key
        \/ pc = "store" /\ memKey = key

InLevel2 == flow \in {"level2", "recreate"} \/ repairing

\* Level 2, alone or within a repair, that nothing disturbed leaves an open Vault
\* that accepts both the artifact's and deployer.config's token, whatever earlier
\* runs, faults, revocations and restarts left behind.
Level2LeavesReady ==
    pc = "done" /\ clean /\ InLevel2 => Accepts(config) /\ Accepts(file.token)

\* It gives up undisturbed only when the key of the running Vault is not in the
\* artifact, or the namespace is on its way out.
Level2FailsOnlyWithoutKey ==
    pc \in {"failed", "raised"} /\ clean /\ InLevel2 =>
        \/ key # 0 /\ file.key # key
        \/ space = "leaving"

===========================================================================

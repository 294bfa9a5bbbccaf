------------------------- MODULE SharedVault_proofs -------------------------
(***************************************************************************)
(* Theorems about SharedVault: types are kept, the unseal key is not lost, *)
(* and an undisturbed Level 2 makes good whatever it finds.                *)
(*                                                                         *)
(* KeyKept alone is not inductive: that a reset may throw its copy away needs *)
(* to know that what the copy opens is gone (BackupKnown), that the roll-back *)
(* of a write keeps the key (MemoryKnown), and that a key that is made is not *)
(* one that a copy holds already (KeysMade).                               *)
(*                                                                         *)
(* For Level 2 the invariant says in addition that a level works through its *)
(* plan in order and within the operation it names (InOrder), and what it has *)
(* found out or made true by the time it reaches each point, as long as    *)
(* nothing else has stepped in between (Known).                            *)
(***************************************************************************)
EXTENDS SharedVault, TLAPS

\* A namespace that is gone has taken the Vault with it.
SpaceTrue == space = "absent" => ~pod /\ key = 0

\* No key is in use that was not made.
KeysMade == /\ key <= inits /\ memKey <= inits
            /\ file.key <= inits /\ backup.key <= inits /\ saved.key <= inits

ResetPoints == {"moveAside", "delete", "awaitAbsent"}

\* A reset comes first in its level, and only two levels have one.
ResetFirst ==
    /\ \A i \in 2..Len(plan) : plan[i] # "reset"
    /\ plan # <<>> /\ plan[1] = "reset" => flow = "recreate" \/ repairing
    /\ pc \in ResetPoints => plan[1] = "reset"

\* The artifact is moved aside once, and what was moved aside opens no Vault any more
\* when the reset has ended.
BackupKnown ==
    /\ backup # NoFile => flow = "recreate" \/ repairing
    /\ pc \in {"idle", "moveAside"} => backup = NoFile
    /\ pc \in {"delete", "awaitAbsent"} => file = NoFile
    /\ pc \notin {"delete", "awaitAbsent"} /\ slips = {} /\ key # 0 => backup.key # key

\* The key that will be written is the one that is in the file, or the new one.
MemoryKnown ==
    /\ pc = "store" => key \in {0, memKey}
    /\ pc \in {"lookConfig", "newRoot", "replace"} => memKey = file.key
    /\ pc = "validate" => file.key = memKey /\ saved.key = memKey

\* The types, by what they are types of.
ClusterTypes ==
    /\ pod \in BOOLEAN /\ sealed \in BOOLEAN
    /\ space \in {"absent", "present", "leaving"}
    /\ key \in Keys /\ inits \in Keys /\ tokens \in Tokens
    /\ live \subseteq 1..tokens
FileTypes == file \in Files /\ saved \in Files /\ backup \in Files /\ config \in Tokens
MemoryTypes == /\ memKey \in Keys /\ memToken \in Tokens /\ memSealed \in BOOLEAN
               /\ candidate \in Tokens
RunTypes == /\ flow \in DOMAIN Flows \cup {"none"}
            /\ repairing \in BOOLEAN /\ upsets \in 0..MaxUpsets
            /\ slips \subseteq {"unstored", "moved", "probe"}
TallyTypes == clean \in BOOLEAN /\ faults \in 0..MaxFaults
Control == /\ plan \in Seq(Operations) /\ pc \in Points
           /\ pc \notin {"idle", "done"} => plan # <<>>
           /\ ResetFirst

Types == /\ ClusterTypes /\ FileTypes /\ MemoryTypes /\ RunTypes /\ TallyTypes

IInv == /\ Types /\ Control /\ SpaceTrue /\ KeysMade /\ BackupKnown /\ MemoryKnown
        /\ KeyKept

---------------------------------------------------------------------------
(* Plans *)

NoReset == Operations \ {"reset"}
StartsWithReset(r) == /\ r \in Seq(Operations) /\ Len(r) > 0 /\ r[1] = "reset"
                      /\ \A i \in 2..Len(r) : r[i] # "reset"

\* A plan that starts with its reset still does with more operations behind it.
LEMMA ResetAppended ==
    ASSUME NEW r, StartsWithReset(r), NEW s \in Seq(NoReset)
    PROVE  StartsWithReset(r \o s)
  <1>1. r \in Seq(Operations) /\ s \in Seq(Operations)
    BY DEF StartsWithReset, NoReset
  <1>2. r \o s \in Seq(Operations) /\ Len(r \o s) = Len(r) + Len(s)
    BY <1>1
  <1>3. ASSUME NEW i \in 1..Len(r \o s)
        PROVE  (r \o s)[i] = IF i <= Len(r) THEN r[i] ELSE s[i - Len(r)]
    BY <1>1, <1>2
  <1>4. \A i \in 1..Len(s) : s[i] # "reset"
    BY DEF NoReset
  <1> HIDE DEF NoReset
  <1> QED BY <1>1, <1>2, <1>3, <1>4 DEF StartsWithReset

\* Levels 2, 3 and 4 by themselves do not reset anything.
LEMMA LevelsHaveNoReset == Level2 \in Seq(NoReset) /\ Level3 \in Seq(NoReset)
                           /\ Level4 \in Seq(NoReset)
  BY DEF Level2, Level3, Level4, NoReset, Operations

\* The plans of the levels: those that reset begin with it, the others have none.
LEMMA Plans ==
    /\ StartsWithReset(Recreate) /\ StartsWithReset(Repair)
    /\ Level3 \o Level4 \in Seq(NoReset) /\ Level3 \o Level4 # <<>>
  <1>1. StartsWithReset(<<"reset">>) /\ StartsWithReset(<<"reset", "reuse">>)
    BY DEF StartsWithReset, Operations
  <1>2. StartsWithReset(Recreate)
    BY <1>1, ResetAppended, LevelsHaveNoReset DEF Recreate
  <1>3. StartsWithReset(Repair)
    BY <1>1, ResetAppended, LevelsHaveNoReset DEF Repair
  <1>4. Level3 \o Level4 \in Seq(NoReset) /\ Len(Level3 \o Level4) = Len(Level3) + Len(Level4)
    BY LevelsHaveNoReset
  <1> QED BY <1>2, <1>3, <1>4 DEF Level3

\* Where an operation can lead that ends or answers its caller.
Quiet == {"drop", "deploy", "status", "lookFile", "ensureStatus", "verify", "reload", "recheck",
          "done", "failed", "raised"}

Follows ==
    /\ plan' \in Seq(Operations)
    /\ pc' \in Quiet
    /\ pc' # "done" => plan' # <<>>
    /\ \A i \in 2..Len(plan') : plan'[i] # "reset"
    /\ plan' # <<>> /\ plan'[1] = "reset" => plan' = plan

\* The next operation of a plan is no reset.
LEMMA ProceedFollows ==
    ASSUME plan \in Seq(Operations), plan # <<>>, ResetFirst, Proceed
    PROVE  Follows
  <1>1. CASE Len(plan) = 1
    <2>1. plan' = <<>> /\ pc' = "done"
      BY <1>1 DEF Proceed
    <2> QED BY <2>1 DEF Follows, Quiet
  <1>2. CASE Len(plan) # 1
    <2>1. Len(plan) >= 2 /\ plan[2] \in Operations \ {"reset"}
      <3> DEFINE n == Len(plan)
      <3>1. n \in Nat /\ n # 0 /\ n # 1
        BY <1>2
      <3> HIDE DEF n
      <3>2. n >= 2
        BY <3>1
      <3> QED BY <3>2 DEF ResetFirst, n
    <2>2. pc' = Entry[plan[2]] /\ plan' = Tail(plan)
      BY <1>2 DEF Proceed
    <2>3. pc' \in Quiet
      BY <2>1, <2>2 DEF Operations, Entry, Quiet
    <2>4. plan' \in Seq(Operations) /\ Len(plan') = Len(plan) - 1
          /\ \A i \in 1..Len(plan') : plan'[i] = plan[i + 1]
      BY <2>1, <2>2
    <2>5. \A i \in 1..Len(plan') : plan'[i] # "reset"
      BY <2>1, <2>4 DEF ResetFirst
    <2> QED BY <2>1, <2>3, <2>4, <2>5 DEF Follows
  <1> QED BY <1>1, <1>2

\* Every way in which an operation ends leads to a quiet point.
LEMMA EndsFollow ==
    ASSUME plan \in Seq(Operations), plan # <<>>, ResetFirst
    PROVE  /\ Proceed \/ Fails \/ Raises \/ EnsureEnds => Follows
           /\ \A ok \in BOOLEAN : ReconcileEnds(ok) => Follows
  <1>1. Proceed => Follows
    BY ProceedFollows
  <1>2. \A p \in Quiet \ {"done"} : Goto(p) => Follows
    BY DEF Goto, Follows, ResetFirst
  <1>3. Fails => Follows
    BY <1>1, <1>2 DEF Fails, Quiet
  <1>4. SkipLevel2 => Follows
    BY Plans DEF SkipLevel2, Follows, NoReset, Operations, Entry, Quiet
  <1>5. \A ok \in BOOLEAN : ReconcileEnds(ok) => Follows
    <2> SUFFICES ASSUME NEW ok \in BOOLEAN, ReconcileEnds(ok) PROVE Follows
      OBVIOUS
    <2>1. Goto("reload") \/ Goto("recheck") \/ Proceed \/ Fails
      BY DEF ReconcileEnds
    <2> QED BY <2>1, <1>1, <1>2, <1>3 DEF Quiet
  <1> QED BY <1>1, <1>2, <1>3, <1>4, <1>5 DEF Raises, EnsureEnds, Quiet

---------------------------------------------------------------------------
(* Files and control *)

\* What the steps need to know of the artifact's contents.
LEMMA FileFacts ==
    /\ NoFile \in Files /\ NoFile.key = 0 /\ NoFile.token = 0
    /\ Corrupted \in Files /\ Corrupted.key = 0
    /\ \A k \in Keys, t \in Tokens : /\ KeysFile(k, t) \in Files
                                    /\ KeysFile(k, t).key = k /\ KeysFile(k, t).token = t
    /\ \A f \in Files : f.key \in Keys /\ f.token \in Tokens /\ (f.key # 0 => f.state = "ok")
    /\ 0 \in Keys /\ 0 \in Tokens
  BY BoundsAssumption DEF Files, NoFile, Corrupted, KeysFile, Keys, Tokens

\* Points within an operation, other than a reset's.
Inner == Points \ ({"idle", "done"} \cup ResetPoints)

\* Points at which a key is about to be written.
Special == {"store", "lookConfig", "newRoot", "replace", "validate"}

\* A step within a level keeps the plan in order.
LEMMA ControlKept ==
    ASSUME Control, pc \notin {"idle", "done"}, UNCHANGED <<flow, repairing>>,
           Follows \/ \E p \in Inner : Goto(p)
    PROVE  /\ Control' /\ pc' \notin ResetPoints \cup {"idle"}
           /\ pc' \in Special => \E p \in Special : Goto(p)
  <1>1. CASE Follows
    BY <1>1 DEF Follows, Control, ResetFirst, Quiet, Points, ResetPoints, Special
  <1>2. CASE \E p \in Inner : Goto(p)
    BY <1>2 DEF Goto, Control, ResetFirst, Inner, Points, ResetPoints
  <1> QED BY <1>1, <1>2

\* A step to a point where no key is about to be written.
LEMMA PlainMove ==
    ASSUME Control, pc \notin {"idle", "done"}, UNCHANGED <<flow, repairing>>,
           Follows \/ \E p \in Inner \ Special : Goto(p)
    PROVE  Control' /\ pc' \notin ResetPoints \cup {"idle"} /\ MemoryKnown'
  <1>1. Follows \/ \E p \in Inner : Goto(p)
    OBVIOUS
  <1>2. pc' \notin Special
    BY DEF Follows, Quiet, Special, Goto
  <1> QED BY <1>1, <1>2, ControlKept DEF MemoryKnown, Special

\* What a step keeps that neither makes a key nor moves the artifact.
LEMMA KeyFrame ==
    ASSUME IInv, Control', pc \notin ResetPoints \cup {"idle", "done", "store"},
           pc' \notin ResetPoints \cup {"idle"},
           UNCHANGED <<flow, backup, repairing, slips, inits>>,
           key' \in {key, 0}, file'.key = file.key, file' \in Files
    PROVE  BackupKnown' /\ KeyKept'
  <1>1. BackupKnown'
    BY DEF IInv, BackupKnown, ResetPoints
  <1>2. KeyKept'
    BY FileFacts DEF IInv, KeyKept
  <1> QED BY <1>1, <1>2

---------------------------------------------------------------------------
(* Steps *)

\* Faults are counted up to their bound.
LEMMA TallyKept == ASSUME TallyTypes, Works \/ Glitch \/ UNCHANGED tally PROVE TallyTypes'
  <1>1. CASE Glitch
    <2>1. MaxFaults \in Nat
      BY BoundsAssumption
    <2>2. faults' \in 0..MaxFaults
      BY <1>1, <2>1 DEF TallyTypes, Glitch
    <2>3. clean' \in BOOLEAN
      BY <1>1 DEF Glitch
    <2> QED BY <2>2, <2>3 DEF TallyTypes
  <1>2. CASE UNCHANGED tally
    BY <1>2 DEF TallyTypes, tally
  <1> QED BY <1>1, <1>2 DEF Works

\* So are upsets.
LEMMA UpsetCounted ==
    ASSUME IInv, Upset PROVE upsets' \in 0..MaxUpsets /\ clean' = FALSE
  BY BoundsAssumption DEF IInv, Types, RunTypes, Upset

\* A level that ends, in whatever way, leaves nothing open.
LEMMA Finished ==
    ASSUME IInv, Finish
    PROVE  /\ Control' /\ MemoryTypes' /\ BackupKnown' /\ MemoryKnown'
           /\ flow' = "none" /\ repairing' = FALSE
           /\ saved' = NoFile /\ backup' = NoFile /\ memKey' = 0
           /\ UNCHANGED <<upsets, slips>> => RunTypes'
  <1>1. /\ pc' = "idle" /\ flow' = "none" /\ plan' = <<>> /\ backup' = NoFile
        /\ repairing' = FALSE /\ memKey' = 0 /\ memToken' = 0 /\ memSealed' = TRUE
        /\ candidate' = 0 /\ saved' = NoFile
    BY DEF Finish, Forget
  <1>2. Control'
    BY <1>1 DEF Control, ResetFirst, Points, ResetPoints
  <1>3. MemoryTypes'
    BY <1>1, FileFacts DEF MemoryTypes
  <1>4. MemoryKnown'
    BY <1>1 DEF MemoryKnown
  <1>5. BackupKnown'
    BY <1>1, FileFacts DEF BackupKnown
  <1>6. UNCHANGED <<upsets, slips>> => RunTypes'
    BY <1>1 DEF IInv, Types, RunTypes
  <1> QED BY <1>1, <1>2, <1>3, <1>4, <1>5, <1>6

\* Every step keeps the invariant: one case per action.  Most actions keep the key, the
\* artifact's key and the copy (KeyFrame) and move within the level (PlainMove); those that
\* make, write or move a key follow from <1>21 on.
LEMMA Steps ==
    ASSUME IInv, Next PROVE IInv'
  <1>0. /\ pc \notin {"idle", "done"} =>
              /\ Proceed \/ Fails \/ Raises \/ EnsureEnds => Follows
              /\ \A ok \in BOOLEAN : ReconcileEnds(ok) => Follows
    BY EndsFollow DEF IInv, Control
  <1>1. CASE KeepServices
    <2>1. /\ pc \notin ResetPoints \cup {"idle", "done", "store"}
          /\ UNCHANGED <<flow, backup, repairing, slips, inits, upsets>>
          /\ Works \/ Glitch \/ UNCHANGED tally
      BY <1>1 DEF KeepServices, rescue, cluster, ResetPoints
    <2>2. Follows \/ \E p \in Inner \ Special : Goto(p)
      BY <1>1, <1>0, <2>1 DEF KeepServices, Inner, Points, ResetPoints, Special
    <2>3. Control' /\ pc' \notin ResetPoints \cup {"idle"} /\ MemoryKnown'
      BY <2>1, <2>2, PlainMove DEF IInv
    <2>4. RunTypes' /\ TallyTypes'
      BY <2>1, TallyKept DEF IInv, Types, RunTypes
    <2>5. ClusterTypes' /\ SpaceTrue'
      BY <1>1 DEF KeepServices, IInv, Types, ClusterTypes, SpaceTrue, cluster
    <2>6. FileTypes' /\ MemoryTypes'
      BY <1>1, FileFacts
         DEF KeepServices, IInv, Types, FileTypes, MemoryTypes, files, memory, rescue
    <2>7. KeysMade' /\ key' \in {key, 0}
      BY <1>1, FileFacts
         DEF KeepServices, IInv, Types, FileTypes, KeysMade, cluster, files, memory, rescue
    <2>8. file'.key = file.key
      BY <1>1 DEF KeepServices, files
    <2>9. BackupKnown' /\ KeyKept'
      BY <2>1, <2>3, <2>6, <2>7, <2>8, KeyFrame DEF FileTypes
    <2> QED BY <2>3, <2>4, <2>5, <2>6, <2>7, <2>8, <2>9 DEF IInv, Types
  <1>2. CASE DropServices
    <2>1. /\ pc \notin ResetPoints \cup {"idle", "done", "store"}
          /\ UNCHANGED <<flow, backup, repairing, slips, inits, upsets>>
          /\ Works \/ Glitch \/ UNCHANGED tally
      BY <1>2 DEF DropServices, rescue, cluster, ResetPoints
    <2>2. Follows \/ \E p \in Inner \ Special : Goto(p)
      BY <1>2, <1>0, <2>1 DEF DropServices, Inner, Points, ResetPoints, Special
    <2>3. Control' /\ pc' \notin ResetPoints \cup {"idle"} /\ MemoryKnown'
      BY <2>1, <2>2, PlainMove DEF IInv
    <2>4. RunTypes' /\ TallyTypes'
      BY <2>1, TallyKept DEF IInv, Types, RunTypes
    <2>5. ClusterTypes' /\ SpaceTrue'
      <3>1. pod' \in BOOLEAN /\ sealed' \in BOOLEAN
        BY <1>2 DEF DropServices
      <3>2. key' \in {key, 0} /\ live' \subseteq 1..tokens /\ (pod' => pod)
            /\ UNCHANGED <<space, inits, tokens>>
        BY <1>2 DEF DropServices, IInv, Types, ClusterTypes
      <3>3. SpaceTrue'
        BY <3>2 DEF IInv, SpaceTrue
      <3> QED BY <3>1, <3>2, <3>3, FileFacts DEF IInv, Types, ClusterTypes
    <2>6. FileTypes' /\ MemoryTypes'
      BY <1>2, FileFacts
         DEF DropServices, IInv, Types, FileTypes, MemoryTypes, files, memory, rescue
    <2>7. KeysMade' /\ key' \in {key, 0}
      <3>1. key' \in {key, 0} /\ UNCHANGED <<inits, memKey, file, backup, saved>>
        BY <1>2 DEF DropServices, files, memory, rescue
      <3>2. 0 <= inits
        BY DEF IInv, Types, ClusterTypes, Keys
      <3> QED BY <3>1, <3>2 DEF IInv, KeysMade
    <2>8. file'.key = file.key
      BY <1>2 DEF DropServices, files
    <2>9. BackupKnown' /\ KeyKept'
      BY <2>1, <2>3, <2>6, <2>7, <2>8, KeyFrame DEF FileTypes
    <2> QED BY <2>3, <2>4, <2>5, <2>6, <2>7, <2>8, <2>9 DEF IInv, Types
  <1>3. CASE DeployServices
    <2>1. /\ pc \notin ResetPoints \cup {"idle", "done", "store"}
          /\ UNCHANGED <<flow, backup, repairing, slips, inits, upsets>>
          /\ Works \/ Glitch \/ UNCHANGED tally
      BY <1>3 DEF DeployServices, rescue, cluster, ResetPoints
    <2>2. Follows \/ \E p \in Inner \ Special : Goto(p)
      BY <1>3, <1>0, <2>1 DEF DeployServices, Inner, Points, ResetPoints, Special
    <2>3. Control' /\ pc' \notin ResetPoints \cup {"idle"} /\ MemoryKnown'
      BY <2>1, <2>2, PlainMove DEF IInv
    <2>4. RunTypes' /\ TallyTypes'
      BY <2>1, TallyKept DEF IInv, Types, RunTypes
    <2>5. ClusterTypes' /\ SpaceTrue'
      <3>1. pod' \in BOOLEAN /\ sealed' \in BOOLEAN /\ space' \in {"present", space}
        BY <1>3 DEF DeployServices, IInv, Types, ClusterTypes
      <3>2. /\ UNCHANGED <<key, live, inits, tokens>>
            /\ space' = space => pod' = pod \/ space' = "present"
        BY <1>3 DEF DeployServices
      <3> QED BY <3>1, <3>2 DEF IInv, Types, ClusterTypes, SpaceTrue
    <2>6. FileTypes' /\ MemoryTypes'
      BY <1>3, FileFacts
         DEF DeployServices, IInv, Types, FileTypes, MemoryTypes, files, memory, rescue
    <2>7. KeysMade' /\ key' \in {key, 0}
      BY <1>3, FileFacts
         DEF DeployServices, IInv, Types, FileTypes, KeysMade, cluster, files, memory,
             rescue
    <2>8. file'.key = file.key
      BY <1>3 DEF DeployServices, files
    <2>9. BackupKnown' /\ KeyKept'
      BY <2>1, <2>3, <2>6, <2>7, <2>8, KeyFrame DEF FileTypes
    <2> QED BY <2>3, <2>4, <2>5, <2>6, <2>7, <2>8, <2>9 DEF IInv, Types
  <1>4. CASE ReadStatus
    <2>1. /\ pc \notin ResetPoints \cup {"idle", "done", "store"}
          /\ UNCHANGED <<flow, backup, repairing, slips, inits, upsets>>
          /\ Works \/ Glitch \/ UNCHANGED tally
      BY <1>4 DEF ReadStatus, rescue, cluster, ResetPoints
    <2>2. Follows \/ \E p \in Inner \ Special : Goto(p)
      BY <1>4, <1>0, <2>1 DEF ReadStatus, Inner, Points, ResetPoints, Special
    <2>3. Control' /\ pc' \notin ResetPoints \cup {"idle"} /\ MemoryKnown'
      BY <2>1, <2>2, PlainMove DEF IInv
    <2>4. RunTypes' /\ TallyTypes'
      BY <2>1, TallyKept DEF IInv, Types, RunTypes
    <2>5. ClusterTypes' /\ SpaceTrue'
      BY <1>4 DEF ReadStatus, IInv, Types, ClusterTypes, SpaceTrue, cluster
    <2>6. FileTypes' /\ MemoryTypes'
      <3>1. memSealed' \in BOOLEAN
        BY <1>4 DEF ReadStatus, IInv, Types, ClusterTypes, MemoryTypes
      <3>2. UNCHANGED <<file, config, saved, backup, memKey, memToken, candidate>>
        BY <1>4 DEF ReadStatus, files, rescue
      <3> QED BY <3>1, <3>2 DEF IInv, Types, FileTypes, MemoryTypes
    <2>7. KeysMade' /\ key' \in {key, 0}
      BY <1>4, FileFacts
         DEF ReadStatus, IInv, Types, FileTypes, KeysMade, cluster, files, memory, rescue
    <2>8. file'.key = file.key
      BY <1>4 DEF ReadStatus, files
    <2>9. BackupKnown' /\ KeyKept'
      BY <2>1, <2>3, <2>6, <2>7, <2>8, KeyFrame DEF FileTypes
    <2> QED BY <2>3, <2>4, <2>5, <2>6, <2>7, <2>8, <2>9 DEF IInv, Types
  <1>5. CASE LoadKeys
    <2>1. /\ pc \notin ResetPoints \cup {"idle", "done", "store"}
          /\ UNCHANGED <<flow, backup, repairing, slips, inits, upsets>>
          /\ Works \/ Glitch \/ UNCHANGED tally
      BY <1>5 DEF LoadKeys, rescue, cluster, ResetPoints
    <2>2. Follows \/ \E p \in Inner \ Special : Goto(p)
      BY <1>5, <1>0, <2>1 DEF LoadKeys, Inner, Points, ResetPoints, Special
    <2>3. Control' /\ pc' \notin ResetPoints \cup {"idle"} /\ MemoryKnown'
      BY <2>1, <2>2, PlainMove DEF IInv
    <2>4. RunTypes' /\ TallyTypes'
      BY <2>1, TallyKept DEF IInv, Types, RunTypes
    <2>5. ClusterTypes' /\ SpaceTrue'
      BY <1>5 DEF LoadKeys, IInv, Types, ClusterTypes, SpaceTrue, cluster
    <2>6. FileTypes' /\ MemoryTypes'
      BY <1>5, FileFacts
         DEF LoadKeys, IInv, Types, FileTypes, MemoryTypes, files, memory, rescue
    <2>7. KeysMade' /\ key' \in {key, 0}
      BY <1>5, FileFacts
         DEF LoadKeys, IInv, Types, FileTypes, KeysMade, cluster, files, memory, rescue
    <2>8. file'.key = file.key
      BY <1>5 DEF LoadKeys, files
    <2>9. BackupKnown' /\ KeyKept'
      BY <2>1, <2>3, <2>6, <2>7, <2>8, KeyFrame DEF FileTypes
    <2> QED BY <2>3, <2>4, <2>5, <2>6, <2>7, <2>8, <2>9 DEF IInv, Types
  <1>6. CASE RunUnseal
    <2>1. /\ pc \notin ResetPoints \cup {"idle", "done", "store"}
          /\ UNCHANGED <<flow, backup, repairing, slips, inits, upsets>>
          /\ Works \/ Glitch \/ UNCHANGED tally
      BY <1>6 DEF RunUnseal, rescue, cluster, ResetPoints, Unseal, Unseals
    <2>2. Follows \/ \E p \in Inner \ Special : Goto(p)
      BY <1>6, <1>0, <2>1 DEF RunUnseal, Inner, Points, ResetPoints, Special, Unseal
    <2>3. Control' /\ pc' \notin ResetPoints \cup {"idle"} /\ MemoryKnown'
      BY <2>1, <2>2, PlainMove DEF IInv
    <2>4. RunTypes' /\ TallyTypes'
      BY <2>1, TallyKept DEF IInv, Types, RunTypes
    <2>5. ClusterTypes' /\ SpaceTrue'
      BY <1>6 DEF RunUnseal, IInv, Types, ClusterTypes, SpaceTrue, cluster, Unseal, Unseals
    <2>6. FileTypes' /\ MemoryTypes'
      BY <1>6, FileFacts
         DEF RunUnseal, IInv, Types, FileTypes, MemoryTypes, files, memory, rescue
    <2>7. KeysMade' /\ key' \in {key, 0}
      BY <1>6, FileFacts
         DEF RunUnseal, IInv, Types, FileTypes, KeysMade, cluster, files, memory, rescue,
             Unseal, Unseals
    <2>8. file'.key = file.key
      BY <1>6 DEF RunUnseal, files
    <2>9. BackupKnown' /\ KeyKept'
      BY <2>1, <2>3, <2>6, <2>7, <2>8, KeyFrame DEF FileTypes
    <2> QED BY <2>3, <2>4, <2>5, <2>6, <2>7, <2>8, <2>9 DEF IInv, Types
  <1>7. CASE CheckToken
    <2>1. /\ pc \notin ResetPoints \cup {"idle", "done", "store"}
          /\ UNCHANGED <<flow, backup, repairing, slips, inits, upsets>>
          /\ Works \/ Glitch \/ UNCHANGED tally
      BY <1>7 DEF CheckToken, rescue, cluster, ResetPoints, Observed
    <2>2. Follows \/ \E p \in Inner \ Special : Goto(p)
      BY <1>7, <1>0, <2>1 DEF CheckToken, Inner, Points, ResetPoints, Special
    <2>3. Control' /\ pc' \notin ResetPoints \cup {"idle"} /\ MemoryKnown'
      BY <2>1, <2>2, PlainMove DEF IInv
    <2>4. RunTypes' /\ TallyTypes'
      BY <2>1, TallyKept DEF IInv, Types, RunTypes
    <2>5. ClusterTypes' /\ SpaceTrue'
      BY <1>7 DEF CheckToken, IInv, Types, ClusterTypes, SpaceTrue, cluster, Observed
    <2>6. FileTypes' /\ MemoryTypes'
      BY <1>7, FileFacts
         DEF CheckToken, IInv, Types, FileTypes, MemoryTypes, files, memory, rescue
    <2>7. KeysMade' /\ key' \in {key, 0}
      BY <1>7, FileFacts
         DEF CheckToken, IInv, Types, FileTypes, KeysMade, cluster, files, memory, rescue,
             Observed
    <2>8. file'.key = file.key
      BY <1>7 DEF CheckToken, files
    <2>9. BackupKnown' /\ KeyKept'
      BY <2>1, <2>3, <2>6, <2>7, <2>8, KeyFrame DEF FileTypes
    <2> QED BY <2>3, <2>4, <2>5, <2>6, <2>7, <2>8, <2>9 DEF IInv, Types
  <1>8. CASE ReloadToken
    <2>1. /\ pc \notin ResetPoints \cup {"idle", "done", "store"}
          /\ UNCHANGED <<flow, backup, repairing, slips, inits, upsets>>
          /\ Works \/ Glitch \/ UNCHANGED tally
      BY <1>8 DEF ReloadToken, rescue, cluster, ResetPoints
    <2>2. Follows \/ \E p \in Inner \ Special : Goto(p)
      BY <1>8, <1>0, <2>1 DEF ReloadToken, Inner, Points, ResetPoints, Special
    <2>3. Control' /\ pc' \notin ResetPoints \cup {"idle"} /\ MemoryKnown'
      BY <2>1, <2>2, PlainMove DEF IInv
    <2>4. RunTypes' /\ TallyTypes'
      BY <2>1, TallyKept DEF IInv, Types, RunTypes
    <2>5. ClusterTypes' /\ SpaceTrue'
      BY <1>8 DEF ReloadToken, IInv, Types, ClusterTypes, SpaceTrue, cluster
    <2>6. FileTypes' /\ MemoryTypes'
      BY <1>8, FileFacts
         DEF ReloadToken, IInv, Types, FileTypes, MemoryTypes, files, memory, rescue
    <2>7. KeysMade' /\ key' \in {key, 0}
      BY <1>8, FileFacts
         DEF ReloadToken, IInv, Types, FileTypes, KeysMade, cluster, files, memory, rescue
    <2>8. file'.key = file.key
      BY <1>8 DEF ReloadToken, files
    <2>9. BackupKnown' /\ KeyKept'
      BY <2>1, <2>3, <2>6, <2>7, <2>8, KeyFrame DEF FileTypes
    <2> QED BY <2>3, <2>4, <2>5, <2>6, <2>7, <2>8, <2>9 DEF IInv, Types
  <1>9. CASE RecheckToken
    <2>1. /\ pc \notin ResetPoints \cup {"idle", "done", "store"}
          /\ UNCHANGED <<flow, backup, repairing, slips, inits, upsets>>
          /\ Works \/ Glitch \/ UNCHANGED tally
      BY <1>9 DEF RecheckToken, rescue, cluster, ResetPoints, Observed
    <2>2. Follows \/ \E p \in Inner \ Special : Goto(p)
      BY <1>9, <1>0, <2>1 DEF RecheckToken, Inner, Points, ResetPoints, Special
    <2>3. Control' /\ pc' \notin ResetPoints \cup {"idle"} /\ MemoryKnown'
      BY <2>1, <2>2, PlainMove DEF IInv
    <2>4. RunTypes' /\ TallyTypes'
      BY <2>1, TallyKept DEF IInv, Types, RunTypes
    <2>5. ClusterTypes' /\ SpaceTrue'
      BY <1>9 DEF RecheckToken, IInv, Types, ClusterTypes, SpaceTrue, cluster, Observed
    <2>6. FileTypes' /\ MemoryTypes'
      BY <1>9, FileFacts
         DEF RecheckToken, IInv, Types, FileTypes, MemoryTypes, files, memory, rescue
    <2>7. KeysMade' /\ key' \in {key, 0}
      BY <1>9, FileFacts
         DEF RecheckToken, IInv, Types, FileTypes, KeysMade, cluster, files, memory,
             rescue, Observed
    <2>8. file'.key = file.key
      BY <1>9 DEF RecheckToken, files
    <2>9. BackupKnown' /\ KeyKept'
      BY <2>1, <2>3, <2>6, <2>7, <2>8, KeyFrame DEF FileTypes
    <2> QED BY <2>3, <2>4, <2>5, <2>6, <2>7, <2>8, <2>9 DEF IInv, Types
  <1>10. CASE FinalStatus
    <2>1. /\ pc \notin ResetPoints \cup {"idle", "done", "store"}
          /\ UNCHANGED <<flow, backup, repairing, slips, inits, upsets>>
          /\ Works \/ Glitch \/ UNCHANGED tally
      BY <1>10 DEF FinalStatus, rescue, cluster, ResetPoints, Observed
    <2>2. Follows \/ \E p \in Inner \ Special : Goto(p)
      BY <1>10, <1>0, <2>1 DEF FinalStatus, Inner, Points, ResetPoints, Special
    <2>3. Control' /\ pc' \notin ResetPoints \cup {"idle"} /\ MemoryKnown'
      BY <2>1, <2>2, PlainMove DEF IInv
    <2>4. RunTypes' /\ TallyTypes'
      BY <2>1, TallyKept DEF IInv, Types, RunTypes
    <2>5. ClusterTypes' /\ SpaceTrue'
      BY <1>10 DEF FinalStatus, IInv, Types, ClusterTypes, SpaceTrue, cluster, Observed
    <2>6. FileTypes' /\ MemoryTypes'
      BY <1>10, FileFacts
         DEF FinalStatus, IInv, Types, FileTypes, MemoryTypes, files, memory, rescue
    <2>7. KeysMade' /\ key' \in {key, 0}
      BY <1>10, FileFacts
         DEF FinalStatus, IInv, Types, FileTypes, KeysMade, cluster, files, memory, rescue,
             Observed
    <2>8. file'.key = file.key
      BY <1>10 DEF FinalStatus, files
    <2>9. BackupKnown' /\ KeyKept'
      BY <2>1, <2>3, <2>6, <2>7, <2>8, KeyFrame DEF FileTypes
    <2> QED BY <2>3, <2>4, <2>5, <2>6, <2>7, <2>8, <2>9 DEF IInv, Types
  <1>11. CASE EnsureStatus
    <2>1. /\ pc \notin ResetPoints \cup {"idle", "done", "store"}
          /\ UNCHANGED <<flow, backup, repairing, slips, inits, upsets>>
          /\ Works \/ Glitch \/ UNCHANGED tally
      BY <1>11 DEF EnsureStatus, rescue, cluster, ResetPoints
    <2>2. Follows \/ \E p \in Inner \ Special : Goto(p)
      BY <1>11, <1>0, <2>1 DEF EnsureStatus, Inner, Points, ResetPoints, Special
    <2>3. Control' /\ pc' \notin ResetPoints \cup {"idle"} /\ MemoryKnown'
      BY <2>1, <2>2, PlainMove DEF IInv
    <2>4. RunTypes' /\ TallyTypes'
      BY <2>1, TallyKept DEF IInv, Types, RunTypes
    <2>5. ClusterTypes' /\ SpaceTrue'
      BY <1>11 DEF EnsureStatus, IInv, Types, ClusterTypes, SpaceTrue, cluster
    <2>6. FileTypes' /\ MemoryTypes'
      BY <1>11, FileFacts
         DEF EnsureStatus, IInv, Types, FileTypes, MemoryTypes, files, memory, rescue
    <2>7. KeysMade' /\ key' \in {key, 0}
      BY <1>11, FileFacts
         DEF EnsureStatus, IInv, Types, FileTypes, KeysMade, cluster, files, memory, rescue
    <2>8. file'.key = file.key
      BY <1>11 DEF EnsureStatus, files
    <2>9. BackupKnown' /\ KeyKept'
      BY <2>1, <2>3, <2>6, <2>7, <2>8, KeyFrame DEF FileTypes
    <2> QED BY <2>3, <2>4, <2>5, <2>6, <2>7, <2>8, <2>9 DEF IInv, Types
  <1>12. CASE EnsureUnseal
    <2>1. /\ pc \notin ResetPoints \cup {"idle", "done", "store"}
          /\ UNCHANGED <<flow, backup, repairing, slips, inits, upsets>>
          /\ Works \/ Glitch \/ UNCHANGED tally
      BY <1>12 DEF EnsureUnseal, rescue, cluster, ResetPoints, Unseal, Unseals
    <2>2. Follows \/ \E p \in Inner \ Special : Goto(p)
      BY <1>12, <1>0, <2>1 DEF EnsureUnseal, Inner, Points, ResetPoints, Special, Unseal
    <2>3. Control' /\ pc' \notin ResetPoints \cup {"idle"} /\ MemoryKnown'
      BY <2>1, <2>2, PlainMove DEF IInv
    <2>4. RunTypes' /\ TallyTypes'
      BY <2>1, TallyKept DEF IInv, Types, RunTypes
    <2>5. ClusterTypes' /\ SpaceTrue'
      BY <1>12
         DEF EnsureUnseal, IInv, Types, ClusterTypes, SpaceTrue, cluster, Unseal, Unseals
    <2>6. FileTypes' /\ MemoryTypes'
      BY <1>12, FileFacts
         DEF EnsureUnseal, IInv, Types, FileTypes, MemoryTypes, files, memory, rescue
    <2>7. KeysMade' /\ key' \in {key, 0}
      BY <1>12, FileFacts
         DEF EnsureUnseal, IInv, Types, FileTypes, KeysMade, cluster, files, memory,
             rescue, Unseal, Unseals
    <2>8. file'.key = file.key
      BY <1>12 DEF EnsureUnseal, files
    <2>9. BackupKnown' /\ KeyKept'
      BY <2>1, <2>3, <2>6, <2>7, <2>8, KeyFrame DEF FileTypes
    <2> QED BY <2>3, <2>4, <2>5, <2>6, <2>7, <2>8, <2>9 DEF IInv, Types
  <1>13. CASE EnsurePoll
    <2>1. /\ pc \notin ResetPoints \cup {"idle", "done", "store"}
          /\ UNCHANGED <<flow, backup, repairing, slips, inits, upsets>>
          /\ Works \/ Glitch \/ UNCHANGED tally
      BY <1>13 DEF EnsurePoll, rescue, cluster, ResetPoints, Observed
    <2>2. Follows \/ \E p \in Inner \ Special : Goto(p)
      BY <1>13, <1>0, <2>1 DEF EnsurePoll, Inner, Points, ResetPoints, Special
    <2>3. Control' /\ pc' \notin ResetPoints \cup {"idle"} /\ MemoryKnown'
      BY <2>1, <2>2, PlainMove DEF IInv
    <2>4. RunTypes' /\ TallyTypes'
      BY <2>1, TallyKept DEF IInv, Types, RunTypes
    <2>5. ClusterTypes' /\ SpaceTrue'
      BY <1>13 DEF EnsurePoll, IInv, Types, ClusterTypes, SpaceTrue, cluster, Observed
    <2>6. FileTypes' /\ MemoryTypes'
      BY <1>13, FileFacts
         DEF EnsurePoll, IInv, Types, FileTypes, MemoryTypes, files, memory, rescue
    <2>7. KeysMade' /\ key' \in {key, 0}
      BY <1>13, FileFacts
         DEF EnsurePoll, IInv, Types, FileTypes, KeysMade, cluster, files, memory, rescue,
             Observed
    <2>8. file'.key = file.key
      BY <1>13 DEF EnsurePoll, files
    <2>9. BackupKnown' /\ KeyKept'
      BY <2>1, <2>3, <2>6, <2>7, <2>8, KeyFrame DEF FileTypes
    <2> QED BY <2>3, <2>4, <2>5, <2>6, <2>7, <2>8, <2>9 DEF IInv, Types
  <1>14. CASE LookAtFile
    <2>1. /\ pc \notin ResetPoints \cup {"idle", "done", "store"}
          /\ UNCHANGED <<flow, backup, repairing, slips, inits, upsets>>
          /\ Works \/ Glitch \/ UNCHANGED tally
      BY <1>14 DEF LookAtFile, rescue, cluster, ResetPoints, Observed
    <2>2. Follows \/ \E p \in Inner : Goto(p)
      BY <1>14, <1>0, <2>1 DEF LookAtFile, Inner, Points, ResetPoints
    <2>3. /\ Control' /\ pc' \notin ResetPoints \cup {"idle"}
          /\ pc' \in Special => \E p \in Special : Goto(p)
      BY <2>1, <2>2, ControlKept DEF IInv
    <2>4. RunTypes' /\ TallyTypes'
      BY <2>1, TallyKept DEF IInv, Types, RunTypes
    <2>5. ClusterTypes' /\ SpaceTrue'
      BY <1>14 DEF LookAtFile, IInv, Types, ClusterTypes, SpaceTrue, cluster, Observed
    <2>6. FileTypes' /\ MemoryTypes'
      BY <1>14, FileFacts
         DEF LookAtFile, IInv, Types, FileTypes, MemoryTypes, files, memory, rescue
    <2>7. KeysMade' /\ key' \in {key, 0}
      BY <1>14, FileFacts
         DEF LookAtFile, IInv, Types, FileTypes, KeysMade, cluster, files, memory, rescue,
             Observed
    <2>8. MemoryKnown' /\ file'.key = file.key
      BY <1>14, <2>2, <2>3, FileFacts
         DEF LookAtFile, IInv, Types, FileTypes, MemoryKnown, files, memory, Special, Goto,
             Observed
    <2>9. BackupKnown' /\ KeyKept'
      BY <2>1, <2>3, <2>6, <2>7, <2>8, KeyFrame DEF FileTypes
    <2> QED BY <2>3, <2>4, <2>5, <2>6, <2>7, <2>8, <2>9 DEF IInv, Types
  <1>15. CASE LookAtConfig
    <2>1. /\ pc \notin ResetPoints \cup {"idle", "done", "store"}
          /\ UNCHANGED <<flow, backup, repairing, slips, inits, upsets>>
          /\ Works \/ Glitch \/ UNCHANGED tally
      BY <1>15 DEF LookAtConfig, rescue, cluster, ResetPoints, Observed
    <2>2. Follows \/ \E p \in Inner : Goto(p)
      BY <1>15, <1>0, <2>1 DEF LookAtConfig, Inner, Points, ResetPoints
    <2>3. /\ Control' /\ pc' \notin ResetPoints \cup {"idle"}
          /\ pc' \in Special => \E p \in Special : Goto(p)
      BY <2>1, <2>2, ControlKept DEF IInv
    <2>4. RunTypes' /\ TallyTypes'
      BY <2>1, TallyKept DEF IInv, Types, RunTypes
    <2>5. ClusterTypes' /\ SpaceTrue'
      BY <1>15 DEF LookAtConfig, IInv, Types, ClusterTypes, SpaceTrue, cluster, Observed
    <2>6. FileTypes' /\ MemoryTypes'
      BY <1>15, FileFacts
         DEF LookAtConfig, IInv, Types, FileTypes, MemoryTypes, files, memory, rescue
    <2>7. KeysMade' /\ key' \in {key, 0}
      BY <1>15, FileFacts
         DEF LookAtConfig, IInv, Types, FileTypes, KeysMade, cluster, files, memory,
             rescue, Observed
    <2>8. MemoryKnown' /\ file'.key = file.key
      BY <1>15, <2>2, <2>3, FileFacts
         DEF LookAtConfig, IInv, Types, FileTypes, MemoryKnown, files, memory, Special,
             Goto, Observed
    <2>9. BackupKnown' /\ KeyKept'
      BY <2>1, <2>3, <2>6, <2>7, <2>8, KeyFrame DEF FileTypes
    <2> QED BY <2>3, <2>4, <2>5, <2>6, <2>7, <2>8, <2>9 DEF IInv, Types
  <1>16. CASE GenerateRoot
    <2>1. /\ pc \notin ResetPoints \cup {"idle", "done", "store"}
          /\ UNCHANGED <<flow, backup, repairing, slips, inits, upsets>>
          /\ Works \/ Glitch \/ UNCHANGED tally
      BY <1>16 DEF GenerateRoot, rescue, cluster, ResetPoints, IssueToken
    <2>2. Follows \/ \E p \in Inner : Goto(p)
      BY <1>16, <1>0, <2>1 DEF GenerateRoot, Inner, Points, ResetPoints
    <2>3. /\ Control' /\ pc' \notin ResetPoints \cup {"idle"}
          /\ pc' \in Special => \E p \in Special : Goto(p)
      BY <2>1, <2>2, ControlKept DEF IInv
    <2>4. RunTypes' /\ TallyTypes'
      BY <2>1, TallyKept DEF IInv, Types, RunTypes
    <2>5. ClusterTypes' /\ SpaceTrue'
      <3>1. UNCHANGED <<pod, key, sealed, space, inits>>
        BY <1>16 DEF GenerateRoot
      <3>2. IssueToken \/ UNCHANGED <<tokens, live>>
        BY <1>16 DEF GenerateRoot
      <3>3. tokens' \in Tokens /\ live' \subseteq 1..tokens'
        <4>1. CASE IssueToken
          BY <4>1, BoundsAssumption DEF IssueToken, IInv, Types, ClusterTypes, Tokens
        <4>2. CASE UNCHANGED <<tokens, live>>
          BY <4>2 DEF IInv, Types, ClusterTypes
        <4> QED BY <3>2, <4>1, <4>2
      <3> QED BY <3>1, <3>3 DEF IInv, Types, ClusterTypes, SpaceTrue
    <2>6. FileTypes' /\ MemoryTypes'
      <3>1. candidate' \in Tokens
        <4>1. candidate' = candidate \/ (IssueToken /\ candidate' = tokens + 1)
          BY <1>16 DEF GenerateRoot
        <4> QED BY <4>1, BoundsAssumption
           DEF IssueToken, IInv, Types, ClusterTypes, MemoryTypes, Tokens
      <3>2. UNCHANGED <<file, config, saved, backup, memKey, memToken, memSealed>>
        BY <1>16 DEF GenerateRoot, files, rescue
      <3> QED BY <3>1, <3>2 DEF IInv, Types, FileTypes, MemoryTypes
    <2>7. KeysMade' /\ key' \in {key, 0}
      BY <1>16, FileFacts
         DEF GenerateRoot, IInv, Types, FileTypes, KeysMade, cluster, files, memory,
             rescue, IssueToken
    <2>8. MemoryKnown' /\ file'.key = file.key
      <3>1. pc = "newRoot" /\ UNCHANGED <<key, file, memKey, saved>>
        BY <1>16 DEF GenerateRoot, files
      <3>2. pc' \in Quiet \cup {"replace"}
        BY <1>16, <1>0, <2>1 DEF GenerateRoot, Goto, Follows, ResetPoints
      <3> QED BY <3>1, <3>2 DEF IInv, MemoryKnown, Quiet
    <2>9. BackupKnown' /\ KeyKept'
      BY <2>1, <2>3, <2>6, <2>7, <2>8, KeyFrame DEF FileTypes
    <2> QED BY <2>3, <2>4, <2>5, <2>6, <2>7, <2>8, <2>9 DEF IInv, Types
  <1>17. CASE ReplaceFile
    <2>1. /\ pc \notin ResetPoints \cup {"idle", "done", "store"}
          /\ UNCHANGED <<flow, backup, repairing, slips, inits, upsets>>
          /\ Works \/ Glitch \/ UNCHANGED tally
      BY <1>17 DEF ReplaceFile, rescue, cluster, ResetPoints
    <2>2. Follows \/ \E p \in Inner : Goto(p)
      BY <1>17, <1>0, <2>1 DEF ReplaceFile, Inner, Points, ResetPoints
    <2>3. /\ Control' /\ pc' \notin ResetPoints \cup {"idle"}
          /\ pc' \in Special => \E p \in Special : Goto(p)
      BY <2>1, <2>2, ControlKept DEF IInv
    <2>4. RunTypes' /\ TallyTypes'
      BY <2>1, TallyKept DEF IInv, Types, RunTypes
    <2>5. ClusterTypes' /\ SpaceTrue'
      BY <1>17 DEF ReplaceFile, IInv, Types, ClusterTypes, SpaceTrue, cluster
    <2>6. FileTypes' /\ MemoryTypes'
      BY <1>17, FileFacts
         DEF ReplaceFile, IInv, Types, FileTypes, MemoryTypes, files, memory, rescue
    <2>7. KeysMade' /\ key' \in {key, 0}
      <3>1. memKey \in Keys /\ candidate \in Tokens
        BY DEF IInv, Types, MemoryTypes
      <3>2. /\ UNCHANGED <<key, inits, memKey, backup>>
            /\ saved' \in {saved, file} /\ file'.key \in {file.key, memKey}
        BY <1>17, <3>1, FileFacts DEF ReplaceFile, cluster, rescue
      <3> QED BY <3>2 DEF IInv, KeysMade
    <2>8. MemoryKnown' /\ file'.key = file.key
      <3>1. memKey \in Keys /\ candidate \in Tokens /\ memKey = file.key
        BY <1>17 DEF ReplaceFile, IInv, Types, MemoryTypes, MemoryKnown
      <3>2. CASE saved' = file /\ file' = KeysFile(memKey, candidate) /\ Goto("validate")
        <4>1. file'.key = memKey /\ memKey' = memKey /\ saved'.key = memKey
          BY <1>17, <3>1, <3>2, FileFacts DEF ReplaceFile
        <4> QED BY <3>1, <3>2, <4>1 DEF MemoryKnown, Goto
      <3>3. CASE Raises /\ UNCHANGED <<saved, file>>
        BY <3>3 DEF Raises, Goto, MemoryKnown
      <3> QED BY <1>17, <3>2, <3>3 DEF ReplaceFile
    <2>9. BackupKnown' /\ KeyKept'
      BY <2>1, <2>3, <2>6, <2>7, <2>8, KeyFrame DEF FileTypes
    <2> QED BY <2>3, <2>4, <2>5, <2>6, <2>7, <2>8, <2>9 DEF IInv, Types
  <1>18. CASE ValidateFile
    <2>1. /\ pc \notin ResetPoints \cup {"idle", "done", "store"}
          /\ UNCHANGED <<flow, backup, repairing, slips, inits, upsets>>
          /\ Works \/ Glitch \/ UNCHANGED tally
      BY <1>18 DEF ValidateFile, rescue, cluster, ResetPoints, Observed
    <2>2. Follows \/ \E p \in Inner \ Special : Goto(p)
      BY <1>18, <1>0, <2>1 DEF ValidateFile, Inner, Points, ResetPoints, Special
    <2>3. Control' /\ pc' \notin ResetPoints \cup {"idle"} /\ MemoryKnown'
      BY <2>1, <2>2, PlainMove DEF IInv
    <2>4. RunTypes' /\ TallyTypes'
      BY <2>1, TallyKept DEF IInv, Types, RunTypes
    <2>5. ClusterTypes' /\ SpaceTrue'
      BY <1>18 DEF ValidateFile, IInv, Types, ClusterTypes, SpaceTrue, cluster, Observed
    <2>6. FileTypes' /\ MemoryTypes'
      BY <1>18, FileFacts
         DEF ValidateFile, IInv, Types, FileTypes, MemoryTypes, files, memory, rescue
    <2>7. KeysMade' /\ key' \in {key, 0}
      BY <1>18, FileFacts
         DEF ValidateFile, IInv, Types, FileTypes, KeysMade, cluster, files, memory,
             rescue, Observed
    <2>8. file'.key = file.key
      BY <1>18 DEF ValidateFile, IInv, MemoryKnown
    <2>9. BackupKnown' /\ KeyKept'
      BY <2>1, <2>3, <2>6, <2>7, <2>8, KeyFrame DEF FileTypes
    <2> QED BY <2>3, <2>4, <2>5, <2>6, <2>7, <2>8, <2>9 DEF IInv, Types
  <1>19. CASE WriteConfig
    <2>1. /\ pc \notin ResetPoints \cup {"idle", "done", "store"}
          /\ UNCHANGED <<flow, backup, repairing, slips, inits, upsets>>
          /\ Works \/ Glitch \/ UNCHANGED tally
      BY <1>19 DEF WriteConfig, rescue, cluster, ResetPoints
    <2>2. Follows \/ \E p \in Inner \ Special : Goto(p)
      BY <1>19, <1>0, <2>1 DEF WriteConfig, Inner, Points, ResetPoints, Special
    <2>3. Control' /\ pc' \notin ResetPoints \cup {"idle"} /\ MemoryKnown'
      BY <2>1, <2>2, PlainMove DEF IInv
    <2>4. RunTypes' /\ TallyTypes'
      BY <2>1, TallyKept DEF IInv, Types, RunTypes
    <2>5. ClusterTypes' /\ SpaceTrue'
      BY <1>19 DEF WriteConfig, IInv, Types, ClusterTypes, SpaceTrue, cluster
    <2>6. FileTypes' /\ MemoryTypes'
      BY <1>19, FileFacts
         DEF WriteConfig, IInv, Types, FileTypes, MemoryTypes, files, memory, rescue
    <2>7. KeysMade' /\ key' \in {key, 0}
      BY <1>19, FileFacts
         DEF WriteConfig, IInv, Types, FileTypes, KeysMade, cluster, files, memory, rescue
    <2>8. file'.key = file.key
      BY <1>19 DEF WriteConfig, files
    <2>9. BackupKnown' /\ KeyKept'
      BY <2>1, <2>3, <2>6, <2>7, <2>8, KeyFrame DEF FileTypes
    <2> QED BY <2>3, <2>4, <2>5, <2>6, <2>7, <2>8, <2>9 DEF IInv, Types
  <1>20. CASE VerifyToken
    <2>1. /\ pc \notin ResetPoints \cup {"idle", "done", "store"}
          /\ UNCHANGED <<flow, backup, repairing, slips, inits, upsets>>
          /\ Works \/ Glitch \/ UNCHANGED tally
      BY <1>20 DEF VerifyToken, rescue, cluster, ResetPoints, Observed
    <2>2. Follows \/ \E p \in Inner \ Special : Goto(p)
      BY <1>20, <1>0, <2>1 DEF VerifyToken, Inner, Points, ResetPoints, Special
    <2>3. Control' /\ pc' \notin ResetPoints \cup {"idle"} /\ MemoryKnown'
      BY <2>1, <2>2, PlainMove DEF IInv
    <2>4. RunTypes' /\ TallyTypes'
      BY <2>1, TallyKept DEF IInv, Types, RunTypes
    <2>5. ClusterTypes' /\ SpaceTrue'
      BY <1>20 DEF VerifyToken, IInv, Types, ClusterTypes, SpaceTrue, cluster, Observed
    <2>6. FileTypes' /\ MemoryTypes'
      BY <1>20, FileFacts
         DEF VerifyToken, IInv, Types, FileTypes, MemoryTypes, files, memory, rescue
    <2>7. KeysMade' /\ key' \in {key, 0}
      BY <1>20, FileFacts
         DEF VerifyToken, IInv, Types, FileTypes, KeysMade, cluster, files, memory, rescue,
             Observed
    <2>8. file'.key = file.key
      BY <1>20 DEF VerifyToken, files
    <2>9. BackupKnown' /\ KeyKept'
      BY <2>1, <2>3, <2>6, <2>7, <2>8, KeyFrame DEF FileTypes
    <2> QED BY <2>3, <2>4, <2>5, <2>6, <2>7, <2>8, <2>9 DEF IInv, Types
  <1>21. CASE RunInit
    <2>1. /\ pc = "init" /\ UNCHANGED <<pod, space, file, config, candidate, saved>>
          /\ UNCHANGED <<flow, backup, repairing, upsets>>
          /\ Works \/ Glitch
      BY <1>21 DEF RunInit, files, rescue
    <2>2. CASE Initialise(TRUE) /\ memKey' = inits + 1 /\ memToken' = tokens + 1
               /\ memSealed' = TRUE /\ Goto("store") /\ pod
      <3>1. /\ key' = inits + 1 /\ inits' = inits + 1 /\ inits' \in Keys /\ key' \in Keys
            /\ tokens' \in Tokens /\ tokens' = tokens + 1 /\ live' = {tokens + 1}
            /\ sealed' = TRUE /\ slips' = {}
        BY <2>2, BoundsAssumption
           DEF Initialise, IInv, Types, ClusterTypes, Keys, Tokens
      <3>2. ClusterTypes' /\ SpaceTrue' /\ FileTypes' /\ MemoryTypes'
        <4>1. live' \subseteq 1..tokens'
          BY <3>1 DEF IInv, Types, ClusterTypes, Tokens
        <4> QED BY <2>1, <2>2, <3>1, <4>1
                DEF IInv, Types, ClusterTypes, SpaceTrue, FileTypes, MemoryTypes
      <3>3. RunTypes' /\ TallyTypes'
        BY <2>1, <3>1, TallyKept DEF IInv, Types, RunTypes
      <3>4. Control' /\ pc' = "store"
        BY <2>1, <2>2 DEF IInv, Control, ResetFirst, Goto, Points, ResetPoints
      <3>5. KeysMade' /\ backup'.key # key'
        BY <2>1, <2>2, <3>1, FileFacts
           DEF IInv, Types, FileTypes, ClusterTypes, KeysMade, Keys
      <3>6. BackupKnown' /\ MemoryKnown' /\ KeyKept'
        BY <2>1, <2>2, <3>1, <3>4, <3>5 DEF IInv, BackupKnown, MemoryKnown, KeyKept
      <3> QED BY <3>2, <3>3, <3>4, <3>5, <3>6 DEF IInv, Types
    <2>3. CASE Initialise(FALSE) /\ Fails /\ pod /\ UNCHANGED <<memKey, memToken, memSealed>>
      <3>1. /\ key' = inits + 1 /\ inits' = inits + 1 /\ inits' \in Keys /\ key' \in Keys
            /\ tokens' \in Tokens /\ tokens' = tokens + 1 /\ live' = {tokens + 1}
            /\ sealed' = TRUE /\ slips' = {"unstored"}
        BY <2>3, BoundsAssumption
           DEF Initialise, IInv, Types, ClusterTypes, Keys, Tokens
      <3>2. ClusterTypes' /\ SpaceTrue' /\ FileTypes' /\ MemoryTypes'
        <4>1. live' \subseteq 1..tokens'
          BY <3>1 DEF IInv, Types, ClusterTypes, Tokens
        <4> QED BY <2>1, <2>3, <3>1, <4>1
                DEF IInv, Types, ClusterTypes, SpaceTrue, FileTypes, MemoryTypes
      <3>3. RunTypes' /\ TallyTypes'
        BY <2>1, <3>1, TallyKept DEF IInv, Types, RunTypes
      <3>4. Control' /\ pc' \notin ResetPoints \cup {"idle"} /\ MemoryKnown'
        BY <1>0, <2>1, <2>3, PlainMove DEF IInv
      <3>5. KeysMade'
        <4>1. /\ inits' = inits + 1 /\ key' = inits + 1 /\ inits \in Nat
              /\ UNCHANGED <<memKey, file, backup, saved>>
          BY <2>1, <2>3, <3>1 DEF IInv, Types, ClusterTypes, Keys
        <4>2. /\ memKey \in Nat /\ file.key \in Nat /\ backup.key \in Nat
              /\ saved.key \in Nat
          BY FileFacts DEF IInv, Types, FileTypes, MemoryTypes, Keys
        <4> QED BY <4>1, <4>2 DEF IInv, KeysMade
      <3>6. BackupKnown' /\ KeyKept'
        BY <2>1, <3>1, <3>4 DEF IInv, BackupKnown, KeyKept, ResetPoints
      <3> QED BY <3>2, <3>3, <3>4, <3>5, <3>6 DEF IInv, Types
    <2>4. CASE Fails /\ UNCHANGED <<key, inits, tokens, live, sealed, slips, memKey,
                                    memToken, memSealed>>
      <3>1. ClusterTypes' /\ SpaceTrue' /\ FileTypes' /\ MemoryTypes' /\ KeysMade'
        BY <2>1, <2>4
           DEF IInv, Types, ClusterTypes, SpaceTrue, FileTypes, MemoryTypes, KeysMade
      <3>2. RunTypes' /\ TallyTypes'
        BY <2>1, <2>4, TallyKept DEF IInv, Types, RunTypes
      <3>3. Control' /\ pc' \notin ResetPoints \cup {"idle"} /\ MemoryKnown'
        BY <1>0, <2>1, <2>4, PlainMove DEF IInv
      <3>4. BackupKnown' /\ KeyKept'
        BY <2>1, <2>4, <3>1, <3>3, KeyFrame DEF FileTypes, ResetPoints
      <3> QED BY <3>1, <3>2, <3>3, <3>4 DEF IInv, Types
    <2> QED BY <1>21, <2>2, <2>3, <2>4 DEF RunInit
  <1>22. CASE StoreKeys
    <2>1. /\ pc = "store"
          /\ UNCHANGED <<cluster, config, memory, flow, backup, repairing, upsets>>
          /\ Works \/ Glitch
          /\ Goto("load") \/ Fails
      BY <1>22 DEF StoreKeys, rescue
    <2>2. Control' /\ pc' \notin ResetPoints \cup {"idle"} /\ MemoryKnown'
      BY <1>0, <2>1, PlainMove DEF IInv, Inner, Points, ResetPoints, Special
    <2>3. \/ file' = KeysFile(memKey, memToken) /\ UNCHANGED slips
          \/ file' \in {file, Corrupted} /\ slips' = slips \cup {"unstored"}
      BY <1>22 DEF StoreKeys
    <2>4. memKey \in Keys /\ memToken \in Tokens /\ file \in Files /\ key \in Keys
      BY DEF IInv, Types, MemoryTypes, FileTypes, ClusterTypes
    <2>5. file' \in Files /\ file'.key <= inits
      BY <2>3, <2>4, FileFacts DEF IInv, KeysMade, Types, ClusterTypes, Keys
    <2>6. ClusterTypes' /\ SpaceTrue' /\ FileTypes' /\ MemoryTypes' /\ KeysMade'
      BY <2>1, <2>5
         DEF IInv, Types, ClusterTypes, SpaceTrue, FileTypes, MemoryTypes, KeysMade,
                        cluster, memory
    <2>7. RunTypes' /\ TallyTypes'
      BY <2>1, <2>3, TallyKept DEF IInv, Types, RunTypes
    <2>8. BackupKnown'
      BY <2>1, <2>2, <2>3 DEF IInv, BackupKnown, ResetPoints, cluster
    <2>9. KeyKept'
      <3> SUFFICES ASSUME key' # 0, slips' = {} PROVE file'.state = "ok" /\ file'.key = key'
        BY DEF KeyKept
      <3>1. file' = KeysFile(memKey, memToken) /\ key' = key /\ key = memKey
        BY <2>1, <2>3 DEF cluster, IInv, MemoryKnown
      <3> QED BY <2>4, <3>1, FileFacts
    <2> QED BY <2>2, <2>6, <2>7, <2>8, <2>9 DEF IInv, Types
  <1>23. CASE MoveAside
    <2>1. /\ pc = "moveAside" /\ pc' = "delete" /\ plan' = plan
          /\ backup' = file /\ file' = NoFile /\ backup = NoFile
          /\ UNCHANGED <<cluster, config, flow, memory, repairing, tally, upsets, slips>>
      BY <1>23 DEF MoveAside, Goto, IInv, BackupKnown
    <2>2. Control'
      BY <2>1 DEF IInv, Control, ResetFirst, Points, ResetPoints
    <2>3. ClusterTypes' /\ SpaceTrue' /\ MemoryTypes' /\ RunTypes' /\ TallyTypes'
      BY <2>1 DEF IInv, Types, ClusterTypes, SpaceTrue, MemoryTypes, RunTypes, TallyTypes,
                  cluster, memory, tally
    <2>4. FileTypes' /\ KeysMade'
      BY <2>1, FileFacts
         DEF IInv, Types, FileTypes, ClusterTypes, KeysMade, Keys, cluster, memory
    <2>5. flow = "recreate" \/ repairing
      BY <2>1 DEF IInv, Control, ResetFirst, ResetPoints
    <2>6. BackupKnown' /\ MemoryKnown'
      BY <2>1, <2>5 DEF BackupKnown, MemoryKnown
    <2>7. KeyKept'
      BY <2>1, FileFacts DEF IInv, KeyKept, cluster
    <2> QED BY <2>2, <2>3, <2>4, <2>6, <2>7 DEF IInv, Types
  <1>24. CASE DeleteServices
    <2>1. /\ pc = "delete" /\ pc' = "awaitAbsent" /\ plan' = plan
          /\ UNCHANGED <<inits, tokens, file, config, flow, memory, backup, repairing,
                         upsets, slips>>
          /\ Works \/ Glitch
      BY <1>24 DEF DeleteServices, Goto, files, rescue
    <2>2. Control'
      BY <2>1 DEF IInv, Control, ResetFirst, Points, ResetPoints
    <2>3. pod' \in BOOLEAN /\ sealed' \in BOOLEAN
      BY <1>24 DEF DeleteServices, IInv, Types, ClusterTypes
    <2>4. \/ space' = "absent" /\ ~pod' /\ key' = 0 /\ live' = {}
          \/ space # "absent" /\ space' \in {space, "leaving"} /\ UNCHANGED <<key, live>>
      BY <1>24 DEF DeleteServices
    <2>5. ClusterTypes' /\ SpaceTrue'
      BY <2>1, <2>3, <2>4, FileFacts DEF IInv, Types, ClusterTypes, SpaceTrue
    <2>6. FileTypes' /\ MemoryTypes' /\ RunTypes' /\ TallyTypes'
      BY <2>1, TallyKept DEF IInv, Types, FileTypes, MemoryTypes, RunTypes, memory
    <2>7. KeysMade'
      BY <2>1, <2>4 DEF IInv, KeysMade, Types, ClusterTypes, Keys, memory
    <2>8. BackupKnown' /\ MemoryKnown'
      BY <2>1 DEF IInv, BackupKnown, MemoryKnown
    <2>9. KeyKept'
      BY <2>1, <2>4 DEF IInv, KeyKept
    <2> QED BY <2>2, <2>5, <2>6, <2>7, <2>8, <2>9 DEF IInv, Types
  <1>25. CASE AwaitAbsent
    <2>1. /\ pc = "awaitAbsent" /\ file = NoFile
          /\ UNCHANGED <<cluster, config, flow, memory, repairing, upsets>>
          /\ Works \/ Glitch
          /\ Proceed \/ Fails
      BY <1>25 DEF AwaitAbsent, IInv, BackupKnown
    <2>2. Control' /\ pc' \notin ResetPoints \cup {"idle"} /\ MemoryKnown'
      BY <1>0, <2>1, PlainMove DEF IInv
    <2>3. \/ space = "absent" /\ UNCHANGED <<file, backup, slips>>
          \/ UNCHANGED <<file, backup>> /\ slips' = slips \cup {"probe"}
          \/ file' = backup /\ backup' = NoFile /\ UNCHANGED slips
      BY <1>25, <2>1 DEF AwaitAbsent, Restored
    <2>4. file' \in Files /\ backup' \in Files
      BY <2>3, FileFacts DEF IInv, Types, FileTypes
    <2>5. ClusterTypes' /\ SpaceTrue' /\ FileTypes' /\ MemoryTypes'
      BY <2>1, <2>4 DEF IInv, Types, ClusterTypes, SpaceTrue, FileTypes, MemoryTypes,
                        cluster, memory
    <2>6. RunTypes' /\ TallyTypes'
      BY <2>1, <2>3, TallyKept DEF IInv, Types, RunTypes
    <2>7. KeysMade'
      BY <2>1, <2>3, FileFacts
         DEF IInv, KeysMade, Types, ClusterTypes, Keys, cluster, memory
    <2>8. BackupKnown'
      <3>1. backup' \in {backup, NoFile}
        BY <2>3
      <3>2. slips' = {} /\ key' # 0 => backup' = NoFile
        BY <2>1, <2>3 DEF IInv, SpaceTrue, cluster
      <3>3. UNCHANGED <<flow, repairing, key>>
        BY <2>1 DEF cluster
      <3> QED BY <2>2, <3>1, <3>2, <3>3, FileFacts DEF IInv, BackupKnown, ResetPoints
    <2>9. KeyKept'
      <3> SUFFICES ASSUME key' # 0, slips' = {} PROVE file'.state = "ok" /\ file'.key = key'
        BY DEF KeyKept
      <3>1. file' = backup /\ key' = key /\ slips = {}
        BY <2>1, <2>3 DEF IInv, SpaceTrue, cluster
      <3>2. backup.key = key
        BY <2>1, <3>1, FileFacts DEF IInv, KeyKept
      <3> QED BY <3>1, <3>2, FileFacts DEF IInv, Types, FileTypes
    <2> QED BY <2>2, <2>5, <2>6, <2>7, <2>8, <2>9 DEF IInv, Types
  <1>26. CASE \E f \in DOMAIN Flows : StartFlow(f)
    <2> PICK f \in DOMAIN Flows : StartFlow(f)
      BY <1>26
    <2>1. /\ pc = "idle" /\ flow' = f /\ plan' = Flows[f] /\ pc' = Entry[plan'[1]]
          /\ clean' = TRUE /\ backup = NoFile
          /\ UNCHANGED <<cluster, files, memory, rescue, faults, upsets, slips>>
      BY DEF StartFlow, IInv, BackupKnown
    <2>2. Control' /\ pc' \notin {"delete", "awaitAbsent"} \cup Special
      <3>1. CASE f = "recreate"
        <4>1. plan' = Recreate /\ pc' = "moveAside" /\ StartsWithReset(plan')
          BY <2>1, <3>1, Plans DEF Flows, StartsWithReset, Entry
        <4> QED BY <2>1, <3>1, <4>1
                DEF StartsWithReset, Control, ResetFirst, Points, ResetPoints, Special
      <3>2. CASE f # "recreate"
        <4>1. plan' \in Seq(NoReset) /\ Len(plan') > 0
          <5>1. plan' \in {Level2, Level3, Level4, Recovery}
            BY <2>1, <3>2 DEF Flows
          <5>2. Recovery \in Seq(NoReset) /\ Len(Recovery) > 0
            BY DEF Recovery, NoReset, Operations
          <5>3. Len(Level2) > 0 /\ Len(Level3) > 0 /\ Len(Level4) > 0
            BY DEF Level2, Level3, Level4
          <5> QED BY <5>1, <5>2, <5>3, LevelsHaveNoReset
        <4>2. plan'[1] \in NoReset /\ \A i \in 2..Len(plan') : plan'[i] \in NoReset
          BY <4>1
        <4>3. pc' \in Points \ (ResetPoints \cup Special)
          BY <2>1, <4>2 DEF NoReset, Operations, Entry, Points, ResetPoints, Special
        <4>4. plan' \in Seq(Operations) /\ plan' # <<>>
          BY <4>1 DEF NoReset
        <4> QED BY <4>2, <4>3, <4>4 DEF Control, ResetFirst, NoReset, ResetPoints
      <3> QED BY <3>1, <3>2
    <2>3. ClusterTypes' /\ SpaceTrue' /\ FileTypes' /\ MemoryTypes' /\ KeysMade'
      BY <2>1 DEF IInv, Types, ClusterTypes, SpaceTrue, FileTypes, MemoryTypes, KeysMade,
                  cluster, files, memory, rescue
    <2>4. RunTypes' /\ TallyTypes'
      BY <2>1 DEF IInv, Types, RunTypes, TallyTypes, rescue
    <2>5. BackupKnown' /\ MemoryKnown'
      BY <2>1, <2>2, FileFacts DEF BackupKnown, MemoryKnown, Special, rescue
    <2>6. KeyKept'
      BY <2>1 DEF IInv, KeyKept, cluster, files, rescue
    <2> QED BY <2>2, <2>3, <2>4, <2>5, <2>6 DEF IInv, Types
  <1>27. CASE ApproveRepair
    <2>1. /\ pc = "failed" /\ flow = "level4" /\ ~repairing /\ repairing' = TRUE
          /\ plan' = Repair /\ pc' = "moveAside"
          /\ UNCHANGED <<cluster, files, flow, memory, backup, tally, upsets, slips>>
      BY <1>27 DEF ApproveRepair, Entry
    <2>2. backup = NoFile
      BY <2>1 DEF IInv, BackupKnown
    <2>3. Control'
      BY <2>1, Plans DEF StartsWithReset, Control, ResetFirst, Points, ResetPoints
    <2>4. ClusterTypes' /\ SpaceTrue' /\ FileTypes' /\ MemoryTypes' /\ KeysMade'
      BY <2>1 DEF IInv, Types, ClusterTypes, SpaceTrue, FileTypes, MemoryTypes, KeysMade,
                  cluster, files, memory
    <2>5. RunTypes' /\ TallyTypes'
      BY <2>1 DEF IInv, Types, RunTypes, TallyTypes, tally
    <2>6. BackupKnown' /\ MemoryKnown'
      BY <2>1, <2>2, FileFacts DEF BackupKnown, MemoryKnown
    <2>7. KeyKept'
      BY <2>1 DEF IInv, KeyKept, cluster, files
    <2> QED BY <2>3, <2>4, <2>5, <2>6, <2>7 DEF IInv, Types
  <1>28. CASE GiveUp
    <2>1. /\ pc \notin {"store", "delete", "awaitAbsent"} /\ Finish
          /\ file' \in {file, Restored(file)}
          /\ UNCHANGED <<cluster, config, tally, upsets, slips>>
      BY <1>28 DEF GiveUp
    <2>2. Control' /\ MemoryTypes' /\ BackupKnown' /\ MemoryKnown' /\ RunTypes' /\ saved' = NoFile
          /\ backup' = NoFile /\ memKey' = 0
      BY <2>1, Finished
    <2>3. ClusterTypes' /\ SpaceTrue' /\ TallyTypes'
      BY <2>1 DEF IInv, Types, ClusterTypes, SpaceTrue, TallyTypes, cluster, tally
    <2>4. file' \in {file, backup}
      BY <2>1 DEF Restored
    <2>5. FileTypes' /\ KeysMade'
      <3>1. UNCHANGED <<key, inits, config>>
        BY <2>1 DEF cluster
      <3> QED BY <2>2, <2>4, <3>1, FileFacts
              DEF IInv, Types, FileTypes, ClusterTypes, KeysMade, Keys
    <2>6. KeyKept'
      <3> SUFFICES ASSUME key' # 0, slips' = {} PROVE file'.state = "ok" /\ file'.key = key'
        BY DEF KeyKept
      <3>1. key' = key /\ file.state = "ok" /\ file.key = key
        BY <2>1 DEF IInv, KeyKept, BackupKnown, cluster
      <3>2. file' = file
        BY <2>1, <3>1, FileFacts DEF Restored
      <3> QED BY <3>1, <3>2
    <2> QED BY <2>2, <2>3, <2>5, <2>6 DEF IInv, Types
  <1>29. CASE Complete
    <2>1. /\ pc = "done" /\ Finish
          /\ UNCHANGED <<cluster, files, tally, upsets, slips>>
      BY <1>29 DEF Complete
    <2>2. Control' /\ MemoryTypes' /\ BackupKnown' /\ MemoryKnown' /\ RunTypes' /\ saved' = NoFile
          /\ backup' = NoFile /\ memKey' = 0
      BY <2>1, Finished
    <2>3. ClusterTypes' /\ SpaceTrue' /\ TallyTypes'
      BY <2>1 DEF IInv, Types, ClusterTypes, SpaceTrue, TallyTypes, cluster, tally
    <2>4. FileTypes' /\ KeysMade'
      <3>1. UNCHANGED <<key, inits, file, config>>
        BY <2>1 DEF cluster, files
      <3> QED BY <2>2, <3>1, FileFacts
              DEF IInv, Types, FileTypes, ClusterTypes, KeysMade, Keys
    <2>5. KeyKept'
      BY <2>1 DEF IInv, KeyKept, BackupKnown, cluster, files
    <2> QED BY <2>2, <2>3, <2>4, <2>5 DEF IInv, Types
  <1>30. CASE Interrupt
    <2>1. /\ Finish /\ upsets' \in 0..MaxUpsets /\ clean' = FALSE
          /\ UNCHANGED <<cluster, faults>>
      BY <1>30, UpsetCounted DEF Interrupt
    <2>2. /\ config' \in {config, 0} /\ file' \in {file, Corrupted}
          /\ slips' \subseteq slips \cup {"unstored", "moved"}
      BY <1>30 DEF Interrupt
    <2>3. slips' = {} => slips = {} /\ pc # "store" /\ backup = NoFile /\ file' = file
      BY <1>30 DEF Interrupt
    <2>4. Control' /\ MemoryTypes' /\ BackupKnown' /\ MemoryKnown' /\ saved' = NoFile
          /\ backup' = NoFile /\ memKey' = 0 /\ flow' = "none" /\ repairing' = FALSE
      BY <2>1, Finished
    <2>5. ClusterTypes' /\ SpaceTrue' /\ TallyTypes'
      BY <2>1 DEF IInv, Types, ClusterTypes, SpaceTrue, TallyTypes, cluster
    <2>6. RunTypes'
      BY <2>1, <2>2, <2>4 DEF IInv, Types, RunTypes
    <2>7. FileTypes' /\ KeysMade'
      <3>1. UNCHANGED <<key, inits>>
        BY <2>1 DEF cluster
      <3> QED BY <2>2, <2>4, <3>1, FileFacts
              DEF IInv, Types, FileTypes, ClusterTypes, KeysMade, Keys
    <2>8. KeyKept'
      <3> SUFFICES ASSUME key' # 0, slips' = {} PROVE file'.state = "ok" /\ file'.key = key'
        BY DEF KeyKept
      <3>1. key' = key /\ slips = {} /\ pc # "store" /\ backup = NoFile /\ file' = file
        BY <2>1, <2>3 DEF cluster
      <3> QED BY <3>1, FileFacts DEF IInv, KeyKept
    <2> QED BY <2>4, <2>5, <2>6, <2>7, <2>8 DEF IInv, Types
  <1>31. CASE PodRestarts \/ RevokeToken \/ EditConfig
    <2>1. /\ upsets' \in 0..MaxUpsets /\ clean' = FALSE
          /\ UNCHANGED <<pod, key, space, inits, file, flow, plan, pc, memory, rescue,
                         faults, slips>>
      BY <1>31, UpsetCounted DEF PodRestarts, RevokeToken, EditConfig, files
    <2>2. sealed' \in {sealed, TRUE}
      BY <1>31 DEF PodRestarts, RevokeToken, EditConfig
    <2>3. tokens' \in Tokens /\ live' \subseteq 1..tokens' /\ config' \in Tokens
      <3>1. CASE IssueToken /\ config' = tokens + 1
        <4>1. tokens \in Nat /\ live \subseteq 1..tokens /\ MaxTokens \in Nat
              /\ tokens < MaxTokens /\ tokens' = tokens + 1 /\ live' = live \cup {tokens + 1}
          BY <3>1, BoundsAssumption DEF IInv, Types, ClusterTypes, Tokens, IssueToken
        <4>2. tokens + 1 \in Tokens
          BY <4>1 DEF Tokens
        <4> QED BY <3>1, <4>1, <4>2
      <3>2. CASE live' \subseteq live /\ tokens' = tokens /\ config' \in {config, 0}
        BY <3>2, FileFacts DEF IInv, Types, ClusterTypes, FileTypes
      <3> QED BY <1>31, <3>1, <3>2 DEF PodRestarts, RevokeToken, EditConfig, files
    <2>4. ClusterTypes' /\ SpaceTrue'
      BY <2>1, <2>2, <2>3 DEF IInv, Types, ClusterTypes, SpaceTrue
    <2>5. Control' /\ FileTypes' /\ MemoryTypes' /\ RunTypes' /\ TallyTypes'
      BY <2>1, <2>3 DEF IInv, Types, Control, ResetFirst, FileTypes, MemoryTypes, RunTypes,
                        TallyTypes, memory, rescue
    <2>6. KeysMade' /\ BackupKnown' /\ MemoryKnown' /\ KeyKept'
      BY <2>1 DEF IInv, KeysMade, BackupKnown, MemoryKnown, KeyKept, memory, rescue
    <2> QED BY <2>4, <2>5, <2>6 DEF IInv, Types
  <1>32. CASE NamespaceGoes
    <2>1. /\ space' = "absent" /\ pod' = FALSE /\ key' = 0 /\ live' = {} /\ sealed' = TRUE
          /\ clean' = FALSE
          /\ UNCHANGED <<inits, tokens, files, flow, plan, pc, memory, rescue, faults,
                         upsets, slips>>
      BY <1>32 DEF NamespaceGoes
    <2>2. ClusterTypes' /\ SpaceTrue'
      BY <2>1, FileFacts DEF IInv, Types, ClusterTypes, SpaceTrue
    <2>3. Control' /\ FileTypes' /\ MemoryTypes' /\ RunTypes' /\ TallyTypes'
      BY <2>1 DEF IInv, Types, Control, ResetFirst, FileTypes, MemoryTypes, RunTypes,
                  TallyTypes, files, memory, rescue
    <2>4. KeysMade'
      BY <2>1 DEF IInv, KeysMade, Types, ClusterTypes, Keys, files, memory, rescue
    <2>5. BackupKnown' /\ MemoryKnown' /\ KeyKept'
      BY <2>1 DEF IInv, BackupKnown, MemoryKnown, KeyKept, files, memory, rescue
    <2> QED BY <2>2, <2>3, <2>4, <2>5 DEF IInv, Types
  <1> QED
    <2>1. CASE Setup \/ Ensure
      BY <2>1, <1>4, <1>5, <1>6, <1>7, <1>8, <1>9, <1>10, <1>11, <1>12, <1>13, <1>21, <1>22
         DEF Setup, Ensure
    <2>2. CASE Reconcile \/ Reset
      BY <2>2, <1>14, <1>15, <1>16, <1>17, <1>18, <1>19, <1>23, <1>24, <1>25
         DEF Reconcile, Reset
    <2>3. CASE Level
      BY <2>3, <1>1, <1>2, <1>3, <1>20, <1>27, <1>28, <1>29 DEF Level
    <2> QED BY <2>1, <2>2, <2>3, <1>26, <1>30, <1>31, <1>32 DEF Next

---------------------------------------------------------------------------
(* The theorems *)

\* Nothing is stored and no level runs at first.
LEMMA InitIInv == Init => IInv
  <1> SUFFICES ASSUME Init PROVE IInv
    OBVIOUS
  <1>1. ClusterTypes /\ SpaceTrue
    BY FileFacts DEF Init, ClusterTypes, SpaceTrue
  <1>2. FileTypes /\ MemoryTypes /\ KeysMade
    BY FileFacts DEF Init, FileTypes, MemoryTypes, KeysMade
  <1>3. RunTypes /\ TallyTypes
    <2>1. MaxFaults \in Nat /\ MaxUpsets \in Nat
      BY BoundsAssumption
    <2>2. upsets \in 0..MaxUpsets /\ faults \in 0..MaxFaults
      BY <2>1 DEF Init
    <2> QED BY <2>2 DEF Init, RunTypes, TallyTypes
  <1>4. Control
    BY DEF Init, Control, ResetFirst, Points, ResetPoints
  <1>5. BackupKnown /\ MemoryKnown /\ KeyKept
    BY FileFacts DEF Init, BackupKnown, MemoryKnown, KeyKept
  <1> QED BY <1>1, <1>2, <1>3, <1>4, <1>5 DEF IInv, Types

\* Stuttering keeps the invariant.
LEMMA StutterIInv == IInv /\ UNCHANGED vars => IInv'
  <1> SUFFICES ASSUME IInv, UNCHANGED vars PROVE IInv'
    OBVIOUS
  <1>1. UNCHANGED <<cluster, files, flow, plan, pc, memory, rescue, tally, upsets, slips>>
    BY DEF vars
  <1>2. ClusterTypes' /\ SpaceTrue' /\ Control' /\ FileTypes' /\ MemoryTypes'
    BY <1>1 DEF IInv, Types, ClusterTypes, SpaceTrue, Control, ResetFirst, FileTypes,
                MemoryTypes, cluster, files, memory, rescue
  <1>3. RunTypes' /\ TallyTypes' /\ KeysMade'
    BY <1>1 DEF IInv, Types, RunTypes, TallyTypes, KeysMade, cluster, files, memory, rescue,
                tally
  <1>4. BackupKnown' /\ MemoryKnown' /\ KeyKept'
    BY <1>1 DEF IInv, BackupKnown, MemoryKnown, KeyKept, cluster, files, memory, rescue
  <1> QED BY <1>2, <1>3, <1>4 DEF IInv, Types

\* The inductive invariant holds in every state of every level and its interruptions.
THEOREM Invariant == Spec => []IInv
  <1>1. IInv /\ [Next]_vars => IInv'
    BY Steps, StutterIInv
  <1> QED BY InitIInv, <1>1, PTL DEF Spec

\* The variables of the Vault, its files and the running level keep their types; in
\* particular no operation runs off the end of its plan.
THEOREM TypeCorrect == Spec => []TypeOK
  <1>1. IInv => TypeOK
    BY DEF IInv, Types, ClusterTypes, FileTypes, MemoryTypes, RunTypes, TallyTypes, Control,
           TypeOK
  <1> QED BY Invariant, <1>1, PTL

\* The only unseal key stays in the artifact, in the copy a reset moved aside, or in the
\* memory of setup_vault on its way to the file, unless one of the three slips happened:
\* for any number of Vaults, tokens, faults and upsets.
THEOREM KeyNotLost == Spec => []KeyKept
  <1>1. IInv => KeyKept
    BY DEF IInv
  <1> QED BY Invariant, <1>1, PTL

---------------------------------------------------------------------------
(* Level 2.  Its two properties speak of its end only; what leads there is  *)
(* the order of the operations in every plan (InOrder), and what is known   *)
(* at each point of a Level 2 that nothing has disturbed (Known).           *)

\* What may follow an operation in a plan, and what may come last.
After == {"ensure", "reconcile", "verify"}
Then == [reset |-> {"reuse", "recreate"}, reuse |-> {"recreate"}, recreate |-> {"deploy"},
         deploy |-> {"setup"}, setup |-> {"syncToken"}, syncToken |-> {"ensure"},
         ensure |-> After, reconcile |-> After, verify |-> After]

Chain(s) == /\ s \in Seq(Operations) /\ Len(s) > 0
            /\ \A i \in 1..(Len(s) - 1) : s[i + 1] \in Then[s[i]]

SetupPoints == {"status", "init", "store", "load", "unseal", "check", "reload", "recheck", "final"}
EnsurePoints == {"ensureStatus", "ensureUnseal", "ensurePoll"}
ReconcilePoints == {"lookFile", "lookConfig", "newRoot", "replace", "validate", "writeConfig"}
PointsOf == [recreate |-> {"drop"}, deploy |-> {"deploy"},
             setup |-> SetupPoints \cup ReconcilePoints, syncToken |-> ReconcilePoints,
             ensure |-> EnsurePoints, reuse |-> EnsurePoints, reconcile |-> ReconcilePoints,
             verify |-> {"verify"}, reset |-> ResetPoints]

InOrder ==
    /\ plan # <<>> => Chain(plan) /\ plan[Len(plan)] \in After
    /\ pc \notin {"idle", "done", "failed", "raised"} => pc \in PointsOf[plan[1]]
    /\ pc = "done" => plan = <<>>
    /\ pc = "idle" => ~repairing

Doing(op) == plan # <<>> /\ plan[1] = op /\ pc \in PointsOf[op]
FileOpens == Opened /\ file.token \in live
ConfigOpens == Opened /\ config \in live

\* An undisturbed reset leaves nothing, so that nothing can be reused.
ResetKnown == /\ pc = "awaitAbsent" => space = "absent"
              /\ Doing("reuse") => pc = "ensureStatus" /\ ~pod

\* setup_vault opens the Vault and ends with a token in the artifact that works, or it
\* cannot: then the artifact holds another key.
SetupKnown ==
    Doing("setup") =>
    /\ pod
    /\ pc = "init" => key = 0
    /\ pc \notin {"status", "init"} => key # 0
    /\ pc = "store" => memKey = key /\ memToken \in live /\ memSealed /\ sealed
    /\ pc = "load" => memSealed = sealed
    /\ pc = "unseal" => sealed /\ memKey = file.key
    /\ pc \in {"unseal", "check", "lookFile", "lookConfig", "newRoot", "recheck"} =>
          memToken = file.token
    /\ pc \in {"check", "reload", "recheck", "final"} \cup ReconcilePoints => ~sealed
    /\ pc \in {"lookFile", "lookConfig", "newRoot"} => memToken \notin live
    /\ pc \in {"replace", "validate", "writeConfig"} => candidate \in live
    /\ pc = "validate" => file.token = candidate
    /\ pc = "writeConfig" => file.token = candidate \/ file.key = 0
    /\ pc \in {"reload", "recheck"} => file.token \in live \/ file.key # key
    /\ pc = "final" => file.token \in live

\* The artifact's token then goes into deployer.config.
SyncKnown ==
    Doing("syncToken") =>
    /\ FileOpens
    /\ pc \in {"lookFile", "writeConfig"}
    /\ pc = "writeConfig" => candidate = file.token

\* What comes after it, in Level 2 or in the rest of a repair, changes nothing.
AfterKnown ==
    (\E op \in After : Doing(op)) \/ pc = "done" =>
    /\ FileOpens /\ ConfigOpens
    /\ pc \in {"ensureStatus", "ensurePoll", "lookFile", "writeConfig", "verify", "done"}
    /\ pc = "writeConfig" => candidate = file.token

FailedKnown == pc \in {"failed", "raised"} => (key # 0 /\ file.key # key) \/ space = "leaving"

Known == ResetKnown /\ SetupKnown /\ SyncKnown /\ AfterKnown /\ FailedKnown
Level2Known == clean /\ InLevel2 => Known

---------------------------------------------------------------------------
(* The order of operations *)

\* Two chains make one if the second may follow the first.
LEMMA Chained ==
    ASSUME NEW s, NEW t, Chain(s), Chain(t), t[1] \in Then[s[Len(s)]]
    PROVE  Chain(s \o t) /\ (s \o t)[Len(s \o t)] = t[Len(t)]
  <1>1. s \in Seq(Operations) /\ t \in Seq(Operations) /\ Len(s) > 0 /\ Len(t) > 0
    BY DEF Chain
  <1>2. s \o t \in Seq(Operations) /\ Len(s \o t) = Len(s) + Len(t)
    BY <1>1
  <1>3. ASSUME NEW i \in 1..Len(s \o t)
        PROVE  (s \o t)[i] = IF i <= Len(s) THEN s[i] ELSE t[i - Len(s)]
    BY <1>1, <1>2
  <1>4. ASSUME NEW i \in 1..(Len(s \o t) - 1)
        PROVE  (s \o t)[i + 1] \in Then[(s \o t)[i]]
    <2>1. CASE i < Len(s)
      BY <1>1, <1>2, <1>3, <2>1 DEF Chain
    <2>2. CASE i = Len(s)
      BY <1>1, <1>2, <1>3, <2>2
    <2>3. CASE i > Len(s)
      <3>1. i - Len(s) \in 1..(Len(t) - 1) /\ (i - Len(s)) + 1 = (i + 1) - Len(s)
        BY <1>1, <1>2, <2>3
      <3>2. t[(i - Len(s)) + 1] \in Then[t[i - Len(s)]]
        BY <3>1 DEF Chain
      <3> QED BY <1>1, <1>2, <1>3, <2>3, <3>1, <3>2
    <2> QED BY <1>1, <2>1, <2>2, <2>3
  <1>5. Len(s \o t) > 0 /\ Len(s \o t) \in 1..Len(s \o t)
        /\ ~(Len(s \o t) <= Len(s)) /\ Len(s \o t) - Len(s) = Len(t)
    BY <1>1, <1>2
  <1>6. (s \o t)[Len(s \o t)] = t[Len(t)]
    BY <1>3, <1>5
  <1>7. Chain(s \o t)
    BY <1>2, <1>4, <1>5 DEF Chain
  <1> QED BY <1>6, <1>7

\* The plans of all levels are chains that end as they must.
LEMMA PlansInOrder ==
    /\ \A s \in {Level2, Level3, Level4, Recovery, Recreate, Repair, Level3 \o Level4} :
          Chain(s) /\ s[Len(s)] \in After
    /\ Level2[1] = "recreate" /\ Recreate[1] = "reset" /\ Repair[1] = "reset"
    /\ (Level3 \o Level4)[1] = "ensure"
  <1>0. "ensure" \in Then["ensure"] /\ "ensure" \in Then["reconcile"]
        /\ "recreate" \in Then["reset"] /\ "recreate" \in Then["reuse"]
    BY DEF Then, After
  <1>1. Chain(Level2) /\ Level2[1] = "recreate" /\ Level2[Len(Level2)] = "ensure"
    BY DEF Level2, Chain, Operations, Then, After
  <1>2. Chain(Level3) /\ Level3[1] = "ensure"
        /\ Level3[Len(Level3)] = "reconcile" /\ Len(Level3) = 2
    BY DEF Level3, Chain, Operations, Then, After
  <1>3. Chain(Level4) /\ Level4[1] = "ensure" /\ Level4[Len(Level4)] = "verify"
    BY DEF Level4, Chain, Operations, Then, After
  <1>4. Chain(Recovery) /\ Recovery[Len(Recovery)] = "ensure"
    BY DEF Recovery, Chain, Operations
  <1>5. /\ Chain(<<"reset">>) /\ <<"reset">>[Len(<<"reset">>)] = "reset"
        /\ Chain(<<"reset", "reuse">>)
        /\ <<"reset", "reuse">>[Len(<<"reset", "reuse">>)] = "reuse"
    BY DEF Chain, Operations, Then
  <1>6. Chain(Recreate) /\ Recreate[Len(Recreate)] = "ensure"
    BY <1>0, <1>1, <1>5, Chained DEF Recreate
  <1>7. Chain(<<"reset", "reuse">> \o Level2)
        /\ (<<"reset", "reuse">> \o Level2)[Len(<<"reset", "reuse">> \o Level2)] = "ensure"
    BY <1>0, <1>1, <1>5, Chained
  <1>8. Chain(<<"reset", "reuse">> \o Level2 \o Level3)
        /\ (<<"reset", "reuse">> \o Level2 \o Level3)[Len(<<"reset", "reuse">> \o Level2 \o Level3)]
               = "reconcile"
    BY <1>0, <1>2, <1>7, Chained
  <1>9. Chain(Repair) /\ Repair[Len(Repair)] = "verify"
    BY <1>0, <1>3, <1>8, Chained DEF Repair
  <1>10. Chain(Level3 \o Level4) /\ (Level3 \o Level4)[Len(Level3 \o Level4)] = "verify"
    BY <1>0, <1>2, <1>3, Chained
  <1>11. (Level3 \o Level4)[1] = "ensure"
    BY <1>2, <1>3 DEF Chain
  <1>12. Recreate[1] = "reset" /\ Repair[1] = "reset"
    BY Plans DEF StartsWithReset
  <1> QED BY <1>1, <1>2, <1>3, <1>4, <1>6, <1>9, <1>10, <1>11, <1>12 DEF After

\* How a level goes on when an operation is done: with one that may follow, or, after
\* one that may come last, not at all.
Enters(op) == plan' # <<>> /\ plan'[1] = op /\ pc' = Entry[op]
Ends == plan' = <<>> /\ pc' = "done" /\ plan[1] \in After

LEMMA Advance ==
    ASSUME InOrder, plan # <<>>, Proceed
    PROVE  /\ plan' # <<>> => Chain(plan') /\ plan'[Len(plan')] \in After
           /\ Ends \/ \E op \in Then[plan[1]] : Enters(op)
  <1>1. Chain(plan) /\ plan[Len(plan)] \in After
    BY DEF InOrder
  <1>2. CASE Len(plan) = 1
    BY <1>1, <1>2 DEF Proceed, Ends, Chain
  <1>3. CASE Len(plan) # 1
    <2>1. plan \in Seq(Operations) /\ Len(plan) >= 2
      <3> DEFINE n == Len(plan)
      <3>1. n \in Nat /\ n > 0 /\ n # 1
        BY <1>1, <1>3 DEF Chain
      <3> HIDE DEF n
      <3>2. n >= 2
        BY <3>1
      <3> QED BY <1>1, <3>2 DEF n, Chain
    <2>2. plan' = Tail(plan) /\ pc' = Entry[plan[2]]
      BY <1>3 DEF Proceed
    <2>3. plan' \in Seq(Operations) /\ Len(plan') = Len(plan) - 1
          /\ \A i \in 1..Len(plan') : plan'[i] = plan[i + 1]
      BY <2>1, <2>2
    <2>4. plan[2] \in Then[plan[1]]
      BY <1>1, <2>1 DEF Chain
    <2>5. Enters(plan[2]) /\ plan' # <<>>
      <3>1. 1 \in 1..Len(plan')
        BY <2>1, <2>3
      <3>2. plan'[1] = plan[2] /\ plan' # <<>>
        BY <2>3, <3>1
      <3> QED BY <2>2, <3>2 DEF Enters
    <2>6. ASSUME NEW i \in 1..(Len(plan') - 1) PROVE plan'[i + 1] \in Then[plan'[i]]
      <3>1. i + 1 \in 1..(Len(plan) - 1) /\ i \in 1..Len(plan') /\ i + 1 \in 1..Len(plan')
        BY <2>1, <2>3
      <3>2. plan[(i + 1) + 1] \in Then[plan[i + 1]]
        BY <1>1, <3>1 DEF Chain
      <3> QED BY <2>3, <3>1, <3>2
    <2>7. Chain(plan') /\ plan'[Len(plan')] \in After
      BY <1>1, <2>1, <2>3, <2>6 DEF Chain
    <2> QED BY <2>4, <2>5, <2>7
  <1> QED BY <1>2, <1>3

\* Steps within an operation, and the ways in which one ends, keep the order.
LEMMA OrderKept ==
    ASSUME InOrder, plan \in Seq(Operations), plan # <<>>, pc # "idle"
    PROVE  /\ \A p \in PointsOf[plan[1]] \cup {"failed", "raised"} : Goto(p) => InOrder'
           /\ Proceed \/ Fails \/ Raises \/ EnsureEnds => InOrder'
           /\ \A ok \in BOOLEAN : ReconcileEnds(ok) => InOrder'
  <1>0. plan[1] \in Operations
    OBVIOUS
  <1>1. ASSUME NEW p \in PointsOf[plan[1]] \cup {"failed", "raised"}, Goto(p) PROVE InOrder'
    <2>1. p \notin {"idle", "done"}
      BY <1>0 DEF PointsOf, Operations, SetupPoints, ReconcilePoints, EnsurePoints, ResetPoints
    <2> QED BY <1>1, <2>1 DEF Goto, InOrder
  <1>2. ASSUME Proceed PROVE InOrder'
    <2>1. Ends \/ \E op \in Then[plan[1]] : Enters(op)
      BY <1>2, Advance
    <2>2. Then[plan[1]] \subseteq Operations
      BY <1>0 DEF Then, Operations, After
    <2>3. ASSUME NEW op \in Operations, Enters(op)
          PROVE  pc' \in PointsOf[plan'[1]] /\ pc' \notin {"idle", "done"}
      BY <2>3 DEF Enters, Entry, PointsOf, Operations, SetupPoints, ReconcilePoints, EnsurePoints,
                  ResetPoints
    <2>4. \/ pc' = "done" /\ plan' = <<>>
          \/ pc' \in PointsOf[plan'[1]] /\ pc' \notin {"idle", "done"}
      BY <2>1, <2>2, <2>3 DEF Ends
    <2> QED BY <1>2, <2>4, Advance DEF InOrder
  <1>3. Fails => InOrder'
    BY <1>1, <1>2 DEF Fails
  <1>4. SkipLevel2 => InOrder'
    <2> SUFFICES ASSUME SkipLevel2 PROVE InOrder'
      OBVIOUS
    <2>1. plan' = Level3 \o Level4 /\ pc' = "ensureStatus"
      BY DEF SkipLevel2, Entry
    <2>2. Chain(plan') /\ plan'[Len(plan')] \in After /\ plan'[1] = "ensure"
      BY <2>1, PlansInOrder
    <2> QED BY <2>1, <2>2 DEF InOrder, PointsOf, EnsurePoints
  <1>5. ASSUME NEW ok \in BOOLEAN, ReconcileEnds(ok) PROVE InOrder'
    <2>1. CASE plan[1] = "setup"
      <3>1. \E p \in {"reload", "recheck"} : Goto(p)
        BY <1>5, <2>1 DEF ReconcileEnds
      <3> QED BY <1>1, <2>1, <3>1 DEF PointsOf, SetupPoints
    <2>2. CASE plan[1] # "setup"
      BY <1>2, <1>3, <1>5, <2>2 DEF ReconcileEnds
    <2> QED BY <2>1, <2>2
  <1> QED BY <1>1, <1>2, <1>3, <1>4, <1>5 DEF Raises, EnsureEnds

---------------------------------------------------------------------------
(* Every step keeps the order of operations. *)

\* At which operation of its plan a level is, by where it is.
LEMMA Whereabouts ==
    ASSUME IInv, InOrder, pc \notin {"idle", "done"}
    PROVE  /\ plan \in Seq(Operations) /\ plan # <<>> /\ plan[1] \in Operations
           /\ pc = "drop" => plan[1] = "recreate"
           /\ pc = "deploy" => plan[1] = "deploy"
           /\ pc = "verify" => plan[1] = "verify"
           /\ pc \in SetupPoints => plan[1] = "setup"
           /\ pc \in EnsurePoints => plan[1] \in {"ensure", "reuse"}
           /\ pc \in ReconcilePoints => plan[1] \in {"setup", "syncToken", "reconcile"}
           /\ pc \in ResetPoints => plan[1] = "reset"
           /\ pc \notin {"failed", "raised"} => Doing(plan[1])
  <1>1. plan \in Seq(Operations) /\ plan # <<>> /\ plan[1] \in Operations
    BY DEF IInv, Control
  <1>2. pc \notin {"failed", "raised"} => pc \in PointsOf[plan[1]]
    BY DEF InOrder
  <1> QED BY <1>1, <1>2
          DEF Operations, PointsOf, SetupPoints, EnsurePoints, ReconcilePoints, ResetPoints, Doing

\* One step per group of actions.
LEMMA OrderSteps ==
    ASSUME IInv, InOrder, Next PROVE InOrder'
  <1>1. ASSUME pc \notin {"idle", "done"}
        PROVE  /\ pc \in SetupPoints => \A p \in SetupPoints \cup {"lookFile"} : Goto(p) => InOrder'
               /\ pc \in EnsurePoints => \A p \in EnsurePoints : Goto(p) => InOrder'
               /\ pc \in ReconcilePoints => \A p \in ReconcilePoints : Goto(p) => InOrder'
               /\ pc \in ResetPoints => \A p \in ResetPoints : Goto(p) => InOrder'
               /\ Goto("failed") \/ Goto("raised") => InOrder'
               /\ Proceed \/ Fails \/ Raises \/ EnsureEnds => InOrder'
               /\ \A ok \in BOOLEAN : ReconcileEnds(ok) => InOrder'
    <2>1. \A p \in PointsOf[plan[1]] \cup {"failed", "raised"} : Goto(p) => InOrder'
      BY <1>1, Whereabouts, OrderKept
    <2>2. /\ pc \in SetupPoints => PointsOf[plan[1]] = SetupPoints \cup ReconcilePoints
          /\ pc \in EnsurePoints => PointsOf[plan[1]] = EnsurePoints
          /\ pc \in ReconcilePoints => ReconcilePoints \subseteq PointsOf[plan[1]]
          /\ pc \in ResetPoints => PointsOf[plan[1]] = ResetPoints
      BY <1>1, Whereabouts DEF PointsOf
    <2>3. "lookFile" \in ReconcilePoints
      BY DEF ReconcilePoints
    <2> QED BY <1>1, <2>1, <2>2, <2>3, Whereabouts, OrderKept
  <1>2. CASE ReadStatus \/ RunInit \/ StoreKeys
    BY <1>1, <1>2 DEF ReadStatus, RunInit, StoreKeys, SetupPoints
  <1>3. CASE LoadKeys \/ RunUnseal \/ CheckToken
    BY <1>1, <1>3 DEF LoadKeys, RunUnseal, Unseal, CheckToken, SetupPoints
  <1>4. CASE ReloadToken \/ RecheckToken \/ FinalStatus
    BY <1>1, <1>4 DEF ReloadToken, RecheckToken, FinalStatus, SetupPoints
  <1>5. CASE Ensure
    BY <1>1, <1>5 DEF Ensure, EnsureStatus, EnsureUnseal, EnsurePoll, Unseal, EnsurePoints
  <1>6. CASE LookAtFile \/ LookAtConfig \/ GenerateRoot
    BY <1>1, <1>6 DEF LookAtFile, LookAtConfig, GenerateRoot, ReconcilePoints
  <1>7. CASE ReplaceFile \/ ValidateFile \/ WriteConfig
    BY <1>1, <1>7 DEF ReplaceFile, ValidateFile, WriteConfig, ReconcilePoints
  <1>8. CASE Reset
    BY <1>1, <1>8 DEF Reset, MoveAside, DeleteServices, AwaitAbsent, ResetPoints
  <1>9. CASE KeepServices \/ DropServices \/ DeployServices \/ VerifyToken
    BY <1>1, <1>9 DEF KeepServices, DropServices, DeployServices, VerifyToken
  <1>10. CASE ApproveRepair
    BY <1>10, PlansInOrder DEF ApproveRepair, InOrder, Entry, PointsOf, ResetPoints
  <1>11. CASE GiveUp \/ Complete \/ Interrupt
    BY <1>11 DEF GiveUp, Complete, Interrupt, Finish, InOrder
  <1>12. CASE \E f \in DOMAIN Flows : StartFlow(f)
    <2> PICK f \in DOMAIN Flows : StartFlow(f)
      BY <1>12
    <2>1. plan' = Flows[f] /\ pc' = Entry[plan'[1]]
          /\ Flows[f] \in {Level2, Level3, Level4, Recreate, Recovery}
      BY DEF StartFlow, Flows
    <2>2. Chain(plan') /\ plan'[Len(plan')] \in After
      BY <2>1, PlansInOrder
    <2>3. plan'[1] \in Operations /\ plan' # <<>>
      BY <2>2 DEF Chain
    <2>4. pc' \in PointsOf[plan'[1]] /\ pc' \notin {"idle", "done"}
      BY <2>1, <2>3 DEF Entry, PointsOf, Operations, SetupPoints, ReconcilePoints, EnsurePoints,
                        ResetPoints
    <2> QED BY <2>2, <2>3, <2>4 DEF InOrder
  <1>13. CASE PodRestarts \/ RevokeToken \/ EditConfig \/ NamespaceGoes
    <2>1. UNCHANGED <<plan, pc, repairing>>
      BY <1>13 DEF PodRestarts, RevokeToken, EditConfig, NamespaceGoes, rescue
    <2> QED BY <2>1 DEF InOrder
  <1> QED
    BY <1>2, <1>3, <1>4, <1>5, <1>6, <1>7, <1>8, <1>9, <1>10, <1>11, <1>12, <1>13
       DEF Next, Setup, Reconcile, Level

---------------------------------------------------------------------------
(* Every step of an undisturbed Level 2 leads to where things are as known. *)

\* When an operation is done, what it has achieved is what the next one relies on.
LEMMA Handover ==
    ASSUME IInv, InOrder, pc \notin {"idle", "done"}, Proceed,
           plan[1] = "reset" => ~pod', plan[1] = "deploy" => pod',
           plan[1] = "setup" => FileOpens',
           plan[1] \in After \cup {"syncToken"} => FileOpens' /\ ConfigOpens'
    PROVE  Known'
  <1>0. plan # <<>> /\ plan[1] \in Operations
    BY Whereabouts
  <1>1. CASE Ends
    BY <1>1 DEF Ends, Known, ResetKnown, SetupKnown, SyncKnown, AfterKnown, FailedKnown, Doing
  <1>2. ASSUME NEW op \in Then[plan[1]], Enters(op) PROVE Known'
    <2> USE <1>2 DEF Enters, Doing
    <2>1. op \in Operations
      BY <1>0 DEF Then, Operations, After
    <2>2. plan'[1] = op /\ pc' = Entry[op] /\ pc' \notin {"awaitAbsent", "done", "failed", "raised"}
      BY <2>1 DEF Entry, Operations
    <2>3. ResetKnown'
      BY <1>0, <2>2 DEF ResetKnown, Entry, Then, Operations, After
    <2>4. SetupKnown'
      <3>1. op = "setup" => pod' /\ pc' = "status"
        BY <1>0 DEF Entry, Then, Operations, After
      <3> QED BY <2>2, <3>1 DEF SetupKnown, ReconcilePoints
    <2>5. SyncKnown'
      <3>1. op = "syncToken" => FileOpens' /\ pc' = "lookFile"
        BY <1>0 DEF Entry, Then, Operations, After
      <3> QED BY <2>2, <3>1 DEF SyncKnown
    <2>6. AfterKnown'
      <3>1. op \in After => /\ FileOpens' /\ ConfigOpens'
                            /\ pc' \in {"ensureStatus", "lookFile", "verify"}
        BY <1>0 DEF Entry, Then, Operations, After
      <3> QED BY <2>2, <3>1 DEF AfterKnown
    <2> QED BY <2>2, <2>3, <2>4, <2>5, <2>6 DEF Known, FailedKnown
  <1> QED BY <1>0, <1>1, <1>2, Advance

\* A step within an operation has to care for that operation only.
LEMMA Within ==
    ASSUME InOrder, plan # <<>>, NEW p \in Points \ {"idle", "done"}, Goto(p),
           p \in {"failed", "raised"} =>
               (key' # 0 /\ file'.key # key') \/ space' = "leaving",
           plan[1] = "reset" => ResetKnown', plan[1] = "reuse" => ResetKnown',
           plan[1] = "setup" => SetupKnown', plan[1] = "syncToken" => SyncKnown',
           plan[1] \in After => AfterKnown',
           p = "awaitAbsent" => plan[1] = "reset"
    PROVE  Known'
  <1>1. plan' = plan /\ pc' = p
    BY DEF Goto
  <1> QED BY <1>1 DEF Known, ResetKnown, SetupKnown, SyncKnown, AfterKnown, FailedKnown, Doing

\* One step per action.  Nothing fails, as the level would not be undisturbed.
LEMMA KnownSteps ==
    ASSUME IInv, InOrder, Level2Known, Next PROVE Level2Known'
  <1> SUFFICES ASSUME clean', InLevel2' PROVE Known'
    BY DEF Level2Known
  <1>0. ~Glitch
    BY DEF Glitch
  <1>1. ASSUME Works, UNCHANGED <<flow, repairing>> PROVE Known
    BY <1>1 DEF Works, tally, Level2Known, InLevel2
  <1>2. CASE KeepServices \/ DropServices
    <2>1. pc = "drop" /\ Proceed
      BY <1>2 DEF KeepServices, DropServices
    <2>2. plan[1] = "recreate"
      BY <2>1, Whereabouts
    <2> QED BY <2>1, <2>2, Handover DEF After
  <1>3. CASE DeployServices
    <2>1. pc = "deploy" /\ plan # <<>> /\ plan[1] = "deploy"
      BY <1>3, Whereabouts DEF DeployServices
    <2>2. (pod' /\ Proceed) \/ (space = "leaving" /\ UNCHANGED space /\ Fails)
      BY <1>0, <1>3 DEF DeployServices
    <2>3. CASE pod' /\ Proceed
      BY <2>1, <2>3, Handover DEF After
    <2>4. CASE space = "leaving" /\ UNCHANGED space /\ Fails
      BY <2>1, <2>4, Within DEF Fails, Points, After
    <2> QED BY <2>2, <2>3, <2>4
  <1>4. CASE ReadStatus
    <2>1. pc = "status" /\ plan # <<>> /\ plan[1] = "setup" /\ Doing("setup")
      BY <1>4, Whereabouts DEF ReadStatus, SetupPoints
    <2>2. Known
      BY <1>0, <1>1, <1>4 DEF ReadStatus, rescue
    <2>3. pod
      BY <2>1, <2>2 DEF Known, SetupKnown
    <2>4. memSealed' = sealed /\ Goto(IF key = 0 THEN "init" ELSE "load") /\ UNCHANGED cluster
      BY <1>0, <1>4, <2>3 DEF ReadStatus
    <2>5. SetupKnown'
      BY <2>3, <2>4 DEF SetupKnown, Goto, cluster, ReconcilePoints
    <2> QED BY <2>1, <2>4, <2>5, Within DEF Points, After
  <1>5. CASE RunInit
    <2>1. pc = "init" /\ plan # <<>> /\ plan[1] = "setup" /\ Doing("setup")
      BY <1>5, Whereabouts DEF RunInit, SetupPoints
    <2>2. Known
      BY <1>0, <1>1, <1>5 DEF RunInit, rescue
    <2>3. pod /\ key = 0
      BY <2>1, <2>2 DEF Known, SetupKnown
    <2>4. Initialise(TRUE) /\ memKey' = inits + 1 /\ memToken' = tokens + 1 /\ memSealed'
          /\ Goto("store") /\ pod'
      BY <1>0, <1>5, <2>3 DEF RunInit
    <2>5. key' # 0 /\ memKey' = key' /\ memToken' \in live' /\ sealed'
      BY <2>4 DEF Initialise, IInv, Types, ClusterTypes, Keys
    <2>6. SetupKnown'
      BY <2>4, <2>5 DEF SetupKnown, Goto, ReconcilePoints
    <2> QED BY <2>1, <2>4, <2>6, Within DEF Points, After
  <1>6. CASE StoreKeys
    <2>1. pc = "store" /\ plan # <<>> /\ plan[1] = "setup" /\ Doing("setup")
      BY <1>6, Whereabouts DEF StoreKeys, SetupPoints
    <2>2. Known
      BY <1>0, <1>1, <1>6 DEF StoreKeys, rescue
    <2>3. pod /\ key # 0 /\ memSealed /\ sealed
      BY <2>1, <2>2 DEF Known, SetupKnown
    <2>4. UNCHANGED <<cluster, memory>> /\ Goto("load")
      BY <1>0, <1>6 DEF StoreKeys
    <2>5. SetupKnown'
      BY <2>3, <2>4 DEF SetupKnown, Goto, cluster, memory, ReconcilePoints
    <2> QED BY <2>1, <2>4, <2>5, Within DEF Points, After
  <1>7. CASE LoadKeys
    <2>1. pc = "load" /\ plan # <<>> /\ plan[1] = "setup" /\ Doing("setup")
      BY <1>7, Whereabouts DEF LoadKeys, SetupPoints
    <2>2. Known
      BY <1>1, <1>7 DEF LoadKeys, Works, rescue
    <2>3. pod /\ key # 0 /\ memSealed = sealed
      BY <2>1, <2>2 DEF Known, SetupKnown
    <2>4. UNCHANGED <<cluster, files, memSealed>>
      BY <1>7 DEF LoadKeys
    <2>5. CASE file.state = "ok"
      <3>1. memKey' = file.key /\ memToken' = file.token
            /\ Goto(IF memSealed THEN "unseal" ELSE "check")
        BY <1>7, <2>5 DEF LoadKeys
      <3>2. SetupKnown'
        BY <2>3, <2>4, <3>1 DEF SetupKnown, Goto, cluster, files, ReconcilePoints
      <3> QED BY <2>1, <3>1, <3>2, Within DEF Points, After
    <2>6. CASE file.state # "ok"
      <3>1. Goto("failed") /\ file.key = 0
        BY <1>7, <2>1, <2>6, FileFacts DEF LoadKeys, Fails, IInv, Types, FileTypes
      <3>2. key' # 0 /\ file'.key # key'
        BY <2>3, <2>4, <3>1 DEF cluster, files
      <3>3. SetupKnown'
        BY <3>1 DEF SetupKnown, Doing, PointsOf, SetupPoints, ReconcilePoints, Goto
      <3> QED BY <2>1, <3>1, <3>2, <3>3, Within DEF Points, After
    <2> QED BY <2>5, <2>6
  <1>8. CASE RunUnseal
    <2>1. pc = "unseal" /\ plan # <<>> /\ plan[1] = "setup" /\ Doing("setup")
      BY <1>8, Whereabouts DEF RunUnseal, SetupPoints
    <2>2. Known
      BY <1>0, <1>1, <1>8 DEF RunUnseal, Unseal, rescue
    <2>3. pod /\ key # 0 /\ sealed /\ memKey = file.key /\ memToken = file.token
      BY <2>1, <2>2 DEF Known, SetupKnown
    <2>4. UNCHANGED <<pod, key, live, file, memToken>>
      BY <1>8 DEF RunUnseal, Unseal, files, memory
    <2>5. CASE Unseals(memKey)
      <3>1. ~sealed' /\ Goto("check")
        BY <1>0, <1>8, <2>5 DEF RunUnseal, Unseal
      <3>2. SetupKnown'
        BY <2>3, <2>4, <3>1 DEF SetupKnown, Goto, ReconcilePoints
      <3> QED BY <2>1, <3>1, <3>2, Within DEF Points, After
    <2>6. CASE ~Unseals(memKey)
      <3>1. Goto("failed")
        <4>1. Fails
          BY <1>8, <2>6 DEF RunUnseal, Unseal
        <4> QED BY <2>1, <4>1 DEF Fails
      <3>2. key' # 0 /\ file'.key # key'
        BY <2>3, <2>4, <2>6 DEF Unseals
      <3>3. SetupKnown'
        BY <3>1 DEF SetupKnown, Doing, PointsOf, SetupPoints, ReconcilePoints, Goto
      <3> QED BY <2>1, <3>1, <3>2, <3>3, Within DEF Points, After
    <2> QED BY <2>5, <2>6
  <1>9. CASE CheckToken
    <2>1. pc = "check" /\ plan # <<>> /\ plan[1] = "setup" /\ Doing("setup")
      BY <1>9, Whereabouts DEF CheckToken, SetupPoints
    <2>2. Known
      BY <1>0, <1>1, <1>9 DEF CheckToken, Observed, rescue
    <2>3. pod /\ key # 0 /\ ~sealed /\ memToken = file.token
      BY <2>1, <2>2 DEF Known, SetupKnown
    <2>4. UNCHANGED <<cluster, files, memory>>
      BY <1>9 DEF CheckToken
    <2>5. Goto(IF memToken \in live THEN "final" ELSE "lookFile")
      BY <1>0, <1>9, <2>3 DEF CheckToken, Observed, Accepts, Opened
    <2>6. SetupKnown'
      BY <2>3, <2>4, <2>5 DEF SetupKnown, Goto, cluster, files, memory, ReconcilePoints
    <2> QED BY <2>1, <2>5, <2>6, Within DEF Points, After
  <1>10. CASE ReloadToken
    <2>1. pc = "reload" /\ plan # <<>> /\ plan[1] = "setup" /\ Doing("setup")
      BY <1>10, Whereabouts DEF ReloadToken, SetupPoints
    <2>2. Known
      BY <1>1, <1>10 DEF ReloadToken, Works, rescue
    <2>3. pod /\ key # 0 /\ ~sealed /\ (file.token \in live \/ file.key # key)
      BY <2>1, <2>2 DEF Known, SetupKnown
    <2>4. UNCHANGED <<cluster, files>> /\ memToken' = file.token /\ Goto("recheck")
      BY <1>10 DEF ReloadToken
    <2>5. SetupKnown'
      BY <2>3, <2>4 DEF SetupKnown, Goto, cluster, files, ReconcilePoints
    <2> QED BY <2>1, <2>4, <2>5, Within DEF Points, After
  <1>11. CASE RecheckToken
    <2>1. pc = "recheck" /\ plan # <<>> /\ plan[1] = "setup" /\ Doing("setup")
      BY <1>11, Whereabouts DEF RecheckToken, SetupPoints
    <2>2. Known
      BY <1>0, <1>1, <1>11 DEF RecheckToken, Observed, rescue
    <2>3. pod /\ key # 0 /\ ~sealed /\ memToken = file.token
          /\ (file.token \in live \/ file.key # key)
      BY <2>1, <2>2 DEF Known, SetupKnown
    <2>4. UNCHANGED <<cluster, files, memory>>
      BY <1>11 DEF RecheckToken
    <2>5. Goto(IF memToken \in live THEN "final" ELSE "failed")
      BY <1>0, <1>11, <2>1, <2>3 DEF RecheckToken, Observed, Accepts, Opened, Fails
    <2>6. SetupKnown'
      BY <2>3, <2>4, <2>5 DEF SetupKnown, Doing, PointsOf, SetupPoints, Goto, cluster, files,
                              memory, ReconcilePoints
    <2>7. memToken \in live \/ (key' # 0 /\ file'.key # key')
      BY <2>3, <2>4 DEF cluster, files
    <2> QED BY <2>1, <2>5, <2>6, <2>7, Within DEF Points, After
  <1>12. CASE FinalStatus
    <2>1. pc = "final" /\ plan # <<>> /\ plan[1] = "setup" /\ Doing("setup")
      BY <1>12, Whereabouts DEF FinalStatus, SetupPoints
    <2>2. Known
      BY <1>0, <1>1, <1>12 DEF FinalStatus, Observed, rescue
    <2>3. FileOpens
      BY <2>1, <2>2 DEF Known, SetupKnown, FileOpens, Opened
    <2>4. UNCHANGED <<cluster, files>> /\ Proceed
      BY <1>0, <1>12, <2>3 DEF FinalStatus, Observed, FileOpens
    <2>5. FileOpens'
      BY <2>3, <2>4 DEF FileOpens, Opened, cluster, files
    <2> QED BY <2>1, <2>4, <2>5, Handover DEF After
  <1>13. CASE EnsureStatus
    <2>1. pc = "ensureStatus" /\ plan # <<>> /\ plan[1] \in {"ensure", "reuse"} /\ Doing(plan[1])
      BY <1>13, Whereabouts DEF EnsureStatus, EnsurePoints
    <2>2. Known
      BY <1>0, <1>1, <1>13 DEF EnsureStatus, rescue
    <2>3. UNCHANGED <<cluster, files>>
      BY <1>13 DEF EnsureStatus
    <2>4. CASE plan[1] = "ensure"
      <3>1. FileOpens /\ ConfigOpens
        BY <2>1, <2>2, <2>4 DEF Known, AfterKnown, After
      <3>2. Goto("ensurePoll")
        BY <1>0, <1>13, <3>1 DEF EnsureStatus, FileOpens, Opened
      <3>3. AfterKnown'
        BY <2>3, <3>1, <3>2 DEF AfterKnown, FileOpens, ConfigOpens, Opened, cluster, files, Goto
      <3> QED BY <2>1, <2>4, <3>2, <3>3, Within DEF Points
    <2>5. CASE plan[1] = "reuse"
      <3>1. ~pod
        BY <2>1, <2>2, <2>5 DEF Known, ResetKnown
      <3>2. Proceed
        BY <1>13, <2>5, <3>1 DEF EnsureStatus, Fails
      <3> QED BY <2>1, <2>5, <3>2, Handover DEF After
    <2> QED BY <2>1, <2>4, <2>5
  <1>14. CASE EnsureUnseal
    <2>1. pc = "ensureUnseal" /\ plan[1] \in {"ensure", "reuse"} /\ Doing(plan[1])
      BY <1>14, Whereabouts DEF EnsureUnseal, EnsurePoints
    <2>2. Known
      BY <1>0, <1>1, <1>14 DEF EnsureUnseal, Unseal, rescue
    <2> QED BY <2>1, <2>2 DEF Known, AfterKnown, ResetKnown, After
  <1>15. CASE EnsurePoll
    <2>1. pc = "ensurePoll" /\ plan # <<>> /\ plan[1] \in {"ensure", "reuse"} /\ Doing(plan[1])
      BY <1>15, Whereabouts DEF EnsurePoll, EnsurePoints
    <2>2. Known
      BY <1>0, <1>1, <1>15 DEF EnsurePoll, Observed, rescue
    <2>3. plan[1] = "ensure" /\ FileOpens /\ ConfigOpens
      BY <2>1, <2>2 DEF Known, AfterKnown, ResetKnown, After
    <2>4. UNCHANGED <<cluster, files>> /\ Proceed
      <3>1. UNCHANGED <<cluster, files>> /\ EnsureEnds
        BY <1>0, <1>15, <2>3 DEF EnsurePoll, Observed, FileOpens
      <3> QED BY <2>3, <3>1 DEF EnsureEnds
    <2>5. FileOpens' /\ ConfigOpens'
      BY <2>3, <2>4 DEF FileOpens, ConfigOpens, Opened, cluster, files
    <2> QED BY <2>1, <2>4, <2>5, Handover
  <1>16. CASE LookAtFile
    <2>1. pc = "lookFile" /\ plan # <<>> /\ plan[1] \in {"setup", "syncToken", "reconcile"}
          /\ Doing(plan[1])
      BY <1>16, Whereabouts DEF LookAtFile, ReconcilePoints
    <2>2. Known
      BY <1>0, <1>1, <1>16 DEF LookAtFile, Observed, rescue
    <2>3. UNCHANGED <<cluster, files, memToken>>
      BY <1>16 DEF LookAtFile
    <2>4. CASE plan[1] = "setup"
      <3>1. pod /\ key # 0 /\ ~sealed /\ memToken = file.token /\ memToken \notin live
        BY <2>1, <2>2, <2>4 DEF Known, SetupKnown, ReconcilePoints
      <3>2. Goto("lookConfig")
        BY <1>0, <1>16, <3>1 DEF LookAtFile, Observed, Accepts
      <3>3. SetupKnown'
        BY <2>3, <3>1, <3>2 DEF SetupKnown, Goto, cluster, files, ReconcilePoints
      <3> QED BY <2>1, <2>4, <3>2, <3>3, Within DEF Points, After
    <2>5. CASE plan[1] \in {"syncToken", "reconcile"}
      <3>1. FileOpens /\ (plan[1] = "reconcile" => ConfigOpens)
        BY <2>1, <2>2, <2>5 DEF Known, SyncKnown, AfterKnown, After
      <3>2. Goto("writeConfig") /\ candidate' = file.token
        BY <1>0, <1>16, <3>1 DEF LookAtFile, Observed, Accepts, FileOpens
      <3>3. FileOpens' /\ (plan[1] = "reconcile" => ConfigOpens')
        BY <2>3, <3>1 DEF FileOpens, ConfigOpens, Opened, cluster, files
      <3>4. candidate' = file'.token
        BY <2>3, <3>2 DEF files
      <3>5. plan[1] = "syncToken" => SyncKnown'
        BY <3>2, <3>3, <3>4 DEF SyncKnown, Goto
      <3>6. plan[1] = "reconcile" => AfterKnown'
        BY <3>2, <3>3, <3>4 DEF AfterKnown, Goto
      <3> QED BY <2>1, <2>5, <3>2, <3>5, <3>6, Within DEF Points, After
    <2> QED BY <2>1, <2>4, <2>5
  <1>17. CASE LookAtConfig
    <2>1. pc = "lookConfig" /\ plan # <<>> /\ plan[1] \in {"setup", "syncToken", "reconcile"}
          /\ Doing(plan[1])
      BY <1>17, Whereabouts DEF LookAtConfig, ReconcilePoints
    <2>2. Known
      BY <1>0, <1>1, <1>17 DEF LookAtConfig, Observed, rescue
    <2>3. UNCHANGED <<cluster, files, memory>>
      BY <1>17 DEF LookAtConfig
    <2>4. plan[1] = "setup"
      BY <2>1, <2>2 DEF Known, SyncKnown, AfterKnown, After
    <2>5. pod /\ key # 0 /\ ~sealed /\ memToken = file.token /\ memToken \notin live
          /\ memKey = file.key
      BY <2>1, <2>2, <2>4 DEF Known, SetupKnown, ReconcilePoints, IInv, MemoryKnown
    <2>6. Goto(IF candidate \notin live THEN "newRoot" ELSE IF memKey # 0 THEN "replace"
               ELSE "writeConfig")
      BY <1>0, <1>17, <2>5 DEF LookAtConfig, Observed, Accepts, Opened
    <2>7. SetupKnown'
      BY <2>3, <2>5, <2>6 DEF SetupKnown, Goto, cluster, files, memory, ReconcilePoints
    <2> QED BY <2>1, <2>4, <2>6, <2>7, Within DEF Points, After
  <1>18. CASE GenerateRoot
    <2>1. pc = "newRoot" /\ plan # <<>> /\ plan[1] \in {"setup", "syncToken", "reconcile"}
          /\ Doing(plan[1])
      BY <1>18, Whereabouts DEF GenerateRoot, ReconcilePoints
    <2>2. Known
      BY <1>0, <1>1, <1>18 DEF GenerateRoot, rescue
    <2>3. UNCHANGED <<pod, key, sealed, file, memKey, memToken>>
      BY <1>18 DEF GenerateRoot, files
    <2>4. plan[1] = "setup"
      BY <2>1, <2>2 DEF Known, SyncKnown, AfterKnown, After
    <2>5. pod /\ key # 0 /\ ~sealed /\ memToken = file.token /\ memToken \notin live
          /\ memKey = file.key
      BY <2>1, <2>2, <2>4 DEF Known, SetupKnown, ReconcilePoints, IInv, MemoryKnown
    <2>6. CASE memKey = key
      <3>1. IssueToken /\ candidate' = tokens + 1 /\ Goto("replace")
        BY <1>0, <1>18, <2>5, <2>6 DEF GenerateRoot, Opened
      <3>2. candidate' \in live'
        BY <3>1 DEF IssueToken
      <3>3. SetupKnown'
        BY <2>3, <2>5, <3>1, <3>2 DEF SetupKnown, Goto, ReconcilePoints
      <3> QED BY <2>1, <2>4, <3>1, <3>3, Within DEF Points, After
    <2>7. CASE memKey # key
      <3>1. Goto("recheck")
        BY <1>0, <1>18, <2>4, <2>7 DEF GenerateRoot, ReconcileEnds
      <3>2. SetupKnown'
        BY <2>3, <2>5, <2>7, <3>1 DEF SetupKnown, Goto, ReconcilePoints
      <3> QED BY <2>1, <2>4, <3>1, <3>2, Within DEF Points, After
    <2> QED BY <2>6, <2>7
  <1>19. CASE ReplaceFile
    <2>1. pc = "replace" /\ plan # <<>> /\ plan[1] \in {"setup", "syncToken", "reconcile"}
          /\ Doing(plan[1])
      BY <1>19, Whereabouts DEF ReplaceFile, ReconcilePoints
    <2>2. Known
      BY <1>0, <1>1, <1>19 DEF ReplaceFile, rescue
    <2>3. plan[1] = "setup"
      BY <2>1, <2>2 DEF Known, SyncKnown, AfterKnown, After
    <2>4. pod /\ key # 0 /\ ~sealed /\ candidate \in live
      BY <2>1, <2>2, <2>3 DEF Known, SetupKnown, ReconcilePoints
    <2>5. UNCHANGED cluster /\ UNCHANGED candidate /\ Goto("validate")
          /\ file' = KeysFile(memKey, candidate)
      BY <1>0, <1>19 DEF ReplaceFile
    <2>6. file'.token = candidate'
      BY <2>5, FileFacts DEF KeysFile
    <2>7. SetupKnown'
      BY <2>4, <2>5, <2>6 DEF SetupKnown, Goto, cluster, ReconcilePoints
    <2> QED BY <2>1, <2>3, <2>5, <2>7, Within DEF Points, After
  <1>20. CASE ValidateFile
    <2>1. pc = "validate" /\ plan # <<>> /\ plan[1] \in {"setup", "syncToken", "reconcile"}
          /\ Doing(plan[1])
      BY <1>20, Whereabouts DEF ValidateFile, ReconcilePoints
    <2>2. Known
      BY <1>0, <1>1, <1>20 DEF ValidateFile, Observed, rescue
    <2>3. plan[1] = "setup"
      BY <2>1, <2>2 DEF Known, SyncKnown, AfterKnown, After
    <2>4. pod /\ key # 0 /\ ~sealed /\ candidate \in live /\ file.token = candidate
      BY <2>1, <2>2, <2>3 DEF Known, SetupKnown, ReconcilePoints
    <2>5. UNCHANGED <<cluster, file, candidate>> /\ Goto("writeConfig")
      BY <1>0, <1>20, <2>4 DEF ValidateFile, Observed, Accepts, Opened, memory
    <2>6. SetupKnown'
      BY <2>4, <2>5 DEF SetupKnown, Goto, cluster, ReconcilePoints
    <2> QED BY <2>1, <2>3, <2>5, <2>6, Within DEF Points, After
  <1>21. CASE WriteConfig
    <2>1. pc = "writeConfig" /\ plan # <<>> /\ plan[1] \in {"setup", "syncToken", "reconcile"}
          /\ Doing(plan[1])
      BY <1>21, Whereabouts DEF WriteConfig, ReconcilePoints
    <2>2. Known
      BY <1>0, <1>1, <1>21 DEF WriteConfig, rescue
    <2>3. UNCHANGED <<cluster, file>> /\ config' = candidate /\ ReconcileEnds(TRUE)
      BY <1>0, <1>21 DEF WriteConfig
    <2>4. CASE plan[1] = "setup"
      <3>1. pod /\ key # 0 /\ ~sealed /\ candidate \in live
            /\ (file.token = candidate \/ file.key = 0)
        BY <2>1, <2>2, <2>4 DEF Known, SetupKnown, ReconcilePoints
      <3>2. Goto("reload")
        BY <2>3, <2>4 DEF ReconcileEnds
      <3>3. SetupKnown'
        BY <2>3, <3>1, <3>2 DEF SetupKnown, Goto, cluster, ReconcilePoints
      <3> QED BY <2>1, <2>4, <3>2, <3>3, Within DEF Points, After
    <2>5. CASE plan[1] \in {"syncToken", "reconcile"}
      <3>1. FileOpens /\ candidate = file.token
        BY <2>1, <2>2, <2>5 DEF Known, SyncKnown, AfterKnown, After
      <3>2. Proceed
        BY <2>3, <2>5 DEF ReconcileEnds
      <3>3. FileOpens' /\ ConfigOpens'
        BY <2>3, <3>1 DEF FileOpens, ConfigOpens, Opened, cluster
      <3> QED BY <2>1, <2>5, <3>2, <3>3, Handover
    <2> QED BY <2>1, <2>4, <2>5
  <1>22. CASE VerifyToken
    <2>1. pc = "verify" /\ plan[1] = "verify" /\ Doing("verify")
      BY <1>22, Whereabouts DEF VerifyToken
    <2>2. Known
      BY <1>0, <1>1, <1>22 DEF VerifyToken, Observed, rescue
    <2>3. FileOpens /\ ConfigOpens
      BY <2>1, <2>2 DEF Known, AfterKnown, After
    <2>4. UNCHANGED <<cluster, files>> /\ Proceed
      BY <1>0, <1>22, <2>3 DEF VerifyToken, Observed, Accepts, ConfigOpens
    <2>5. FileOpens' /\ ConfigOpens'
      BY <2>3, <2>4 DEF FileOpens, ConfigOpens, Opened, cluster, files
    <2> QED BY <2>1, <2>4, <2>5, Handover
  <1>23. CASE MoveAside \/ DeleteServices
    <2>1. pc \in {"moveAside", "delete"} /\ plan # <<>> /\ plan[1] = "reset"
      BY <1>23, Whereabouts DEF MoveAside, DeleteServices, ResetPoints
    <2>2. Goto("delete") \/ (Goto("awaitAbsent") /\ space' = "absent")
      BY <1>0, <1>23 DEF MoveAside, DeleteServices
    <2>3. ResetKnown'
      BY <2>1, <2>2 DEF ResetKnown, Goto, Doing
    <2> QED BY <2>1, <2>2, <2>3, Within DEF Points, After
  <1>24. CASE AwaitAbsent
    <2>1. pc = "awaitAbsent" /\ plan[1] = "reset"
      BY <1>24, Whereabouts DEF AwaitAbsent, ResetPoints
    <2>2. Known
      BY <1>0, <1>1, <1>24 DEF AwaitAbsent
    <2>3. space = "absent"
      BY <2>1, <2>2 DEF Known, ResetKnown
    <2>4. ~pod' /\ Proceed
      BY <1>24, <2>3 DEF AwaitAbsent, cluster, IInv, SpaceTrue
    <2> QED BY <2>1, <2>4, Handover DEF After
  <1>25. CASE ApproveRepair \/ \E f \in DOMAIN Flows : StartFlow(f)
    <2>1. CASE ApproveRepair
      <3>1. pc' = "moveAside" /\ plan'[1] = "reset"
        BY <2>1, PlansInOrder DEF ApproveRepair, Entry
      <3> QED
        BY <3>1 DEF Known, ResetKnown, SetupKnown, SyncKnown, AfterKnown, FailedKnown,
                   Doing, After
    <2>2. ASSUME NEW f \in DOMAIN Flows, StartFlow(f) PROVE Known'
      <3>1. f \in {"level2", "recreate"} /\ plan' = Flows[f] /\ pc' = Entry[plan'[1]]
        BY <2>2 DEF StartFlow, InLevel2, InOrder, rescue
      <3>2. Flows[f] \in {Level2, Recreate}
        BY <3>1 DEF Flows
      <3>3. plan'[1] \in {"recreate", "reset"} /\ pc' \in {"drop", "moveAside"}
        BY <3>1, <3>2, PlansInOrder DEF Entry
      <3> QED
        BY <3>3 DEF Known, ResetKnown, SetupKnown, SyncKnown, AfterKnown, FailedKnown,
                   Doing, After
    <2> QED BY <1>25, <2>1, <2>2
  <1>26. CASE GiveUp \/ Complete \/ Interrupt
    BY <1>26 DEF GiveUp, Complete, Interrupt, Finish, InLevel2
  <1>27. CASE PodRestarts \/ RevokeToken \/ EditConfig \/ NamespaceGoes
    BY <1>27 DEF PodRestarts, RevokeToken, EditConfig, NamespaceGoes, Upset
  <1> QED
    BY <1>2, <1>3, <1>4, <1>5, <1>6, <1>7, <1>8, <1>9, <1>10, <1>11, <1>12, <1>13, <1>14,
       <1>15, <1>16, <1>17, <1>18, <1>19, <1>20, <1>21, <1>22, <1>23, <1>24, <1>25, <1>26,
       <1>27
       DEF Next, Setup, Ensure, Reconcile, Reset, Level

\* Both hold at first and through stuttering, hence always.
LEMMA Level2Inductive ==
    /\ Init => InOrder /\ Level2Known
    /\ IInv /\ InOrder /\ Level2Known /\ [Next]_vars => InOrder' /\ Level2Known'
  <1>1. Init => InOrder /\ Level2Known
    BY DEF Init, InOrder, Level2Known, InLevel2
  <1>2. ASSUME InOrder, Level2Known, UNCHANGED vars PROVE InOrder' /\ Level2Known'
    <2> USE <1>2 DEF vars, cluster, files, memory, rescue, tally
    <2>1. InOrder'
      BY DEF InOrder
    <2>2. Level2Known'
      BY DEF Level2Known, InLevel2, Known, ResetKnown, SetupKnown, SyncKnown, AfterKnown,
             FailedKnown, Doing, FileOpens, ConfigOpens, Opened
    <2> QED BY <2>1, <2>2
  <1> QED BY <1>1, <1>2, OrderSteps, KnownSteps

THEOREM Level2Invariant == Spec => [](InOrder /\ Level2Known)
  BY Level2Inductive, Invariant, PTL DEF Spec

\* A Level 2 that nothing disturbs leaves a Vault that is open and accepts the tokens of
\* both files, whatever it found: for any number of Vaults, tokens, faults and upsets.
THEOREM Level2Ready == Spec => []Level2LeavesReady
  <1>1. Level2Known => Level2LeavesReady
    BY DEF Level2Known, Level2LeavesReady, Known, AfterKnown, FileOpens, ConfigOpens, Accepts
  <1> QED BY <1>1, Level2Invariant, PTL

\* If it gives up, the artifact does not hold the key, or the namespace is going away.
THEOREM Level2GivesUp == Spec => []Level2FailsOnlyWithoutKey
  <1>1. Level2Known => Level2FailsOnlyWithoutKey
    BY DEF Level2Known, Level2FailsOnlyWithoutKey, Known, FailedKnown
  <1> QED BY <1>1, Level2Invariant, PTL

===========================================================================

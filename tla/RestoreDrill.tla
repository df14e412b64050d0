----------------------------- MODULE RestoreDrill -----------------------------
(***************************************************************************)
(* scripts/restore_drill.py over what scripts/backup.py left: copies and    *)
(* manifests named by the second they were begun in.  The drill takes the   *)
(* newest manifest and goes through its entries, while files are damaged or *)
(* lost and further backups, of the same second too, write beside it.       *)
(***************************************************************************)
EXTENDS Naturals, FiniteSets

CONSTANTS LastSecond,     \* bound: the clock
          MaxBackups,     \* bound: backups begun
          MaxHarm         \* bound: files damaged or lost

ASSUME DrillAssumption == LastSecond \in Nat /\ MaxBackups \in Nat /\ MaxHarm \in Nat

VARIABLES shelf,          \* per second and kind: the file, or Missing
          manifests,      \* per second: what the manifest lists, or NoManifest
          saving,         \* the backup that runs
          drill, stampNow, backups, harmed,
          disturbed       \* history: a file of the drilled second changed meanwhile

drillVars == <<shelf, manifests, saving, drill, stampNow, backups, harmed, disturbed>>

Stamps == 0..LastSecond
FileKinds == {"database", "assets"}
Missing == [of |-> 0, opens |-> FALSE, tables |-> FALSE]
\* `of`: which backup wrote these bytes, which is what their hash tells; `tables`: the
\* users, content and assets tables are in it.
CopiedFile == [of : 1..MaxBackups, opens : {TRUE}, tables : BOOLEAN]
DamagedFile == [of : {MaxBackups + 1}, opens : BOOLEAN, tables : BOOLEAN]
File == {Missing} \union CopiedFile \union DamagedFile

\* Per kind the hash that is expected, 0 for a kind that was not backed up.
Manifest == [FileKinds -> 0..MaxBackups]
NoManifest == [k \in FileKinds |-> 0]

NotSaving == [at |-> "rest", second |-> 0, made |-> NoManifest]
NotDrilling == [at |-> "idle", second |-> 0, list |-> NoManifest, left |-> {}, sound |-> TRUE]

Touch(s) == disturbed' = (disturbed \/ (drill.at # "idle" /\ drill.second = s))

-----------------------------------------------------------------------------
(* scripts/backup.py.                                                      *)

BeginBackup ==
  /\ saving.at = "rest" /\ backups < MaxBackups
  /\ backups' = backups + 1
  /\ saving' = [at |-> "copy", second |-> stampNow, made |-> NoManifest]
  /\ UNCHANGED <<shelf, manifests, drill, stampNow, harmed, disturbed>>

\* The database before the assets, each of them when it is there and asked for.
CopyKind(k, tables) ==
  /\ saving.at = "copy" /\ saving.made[k] = 0
  /\ k = "database" => saving.made["assets"] = 0
  /\ k = "assets" => ~tables
  /\ shelf' = [shelf EXCEPT ![saving.second][k] = [of |-> backups, opens |-> TRUE, tables |-> tables]]
  /\ saving' = [saving EXCEPT !.made[k] = backups]
  /\ Touch(saving.second)
  /\ UNCHANGED <<manifests, drill, stampNow, backups, harmed>>

WriteManifest ==
  /\ saving.at = "copy" /\ saving.made # NoManifest
  /\ manifests' = [manifests EXCEPT ![saving.second] = saving.made]
  /\ saving' = NotSaving
  /\ UNCHANGED <<shelf, drill, stampNow, backups, harmed, disturbed>>

\* It is stopped, or finds nothing to back up: no manifest.
AbandonBackup ==
  /\ saving.at = "copy" /\ saving' = NotSaving
  /\ UNCHANGED <<shelf, manifests, drill, stampNow, backups, harmed, disturbed>>

-----------------------------------------------------------------------------
(* What happens to files, and time.                                        *)

Harm(s, k, new) ==
  /\ harmed < MaxHarm /\ harmed' = harmed + 1
  /\ shelf[s][k] # Missing /\ new \in {Missing} \union DamagedFile
  /\ shelf' = [shelf EXCEPT ![s][k] = new]
  /\ Touch(s)
  /\ UNCHANGED <<manifests, saving, drill, stampNow, backups>>

PassSecond == /\ stampNow < LastSecond /\ stampNow' = stampNow + 1
              /\ UNCHANGED <<shelf, manifests, saving, drill, backups, harmed, disturbed>>

-----------------------------------------------------------------------------
(* scripts/restore_drill.py.                                               *)

Finished == {s \in Stamps : manifests[s] # NoManifest}
IsNewest(s) == s \in Finished /\ \A o \in Finished : o <= s
Listed(m) == {k \in FileKinds : m[k] # 0}
NextEntry == IF "database" \in drill.left THEN "database" ELSE "assets"

\* run_restore_drill: the manifest that is newest by its name.
BeginDrill ==
  /\ drill.at = "idle"
  /\ \/ Finished = {} /\ drill' = [drill EXCEPT !.at = "done", !.sound = FALSE]
     \/ \E s \in Stamps :
          /\ IsNewest(s)
          /\ drill' = [at |-> "hash", second |-> s, list |-> manifests[s],
                       left |-> Listed(manifests[s]), sound |-> TRUE]
  /\ disturbed' = FALSE
  /\ UNCHANGED <<shelf, manifests, saving, stampNow, backups, harmed>>

EndEntry(sound) ==
  LET left == drill.left \ {NextEntry}
  IN drill' = [drill EXCEPT !.at = IF left = {} THEN "done" ELSE "hash",
                            !.left = left, !.sound = @ /\ sound]

\* Mutant: the hash is reported and does not count.
CheckHashReported ==
  LET file == shelf[drill.second][NextEntry]
  IN /\ drill.at = "hash"
     /\ IF file = Missing THEN EndEntry(FALSE) ELSE drill' = [drill EXCEPT !.at = "open"]
     /\ UNCHANGED <<shelf, manifests, saving, stampNow, backups, harmed, disturbed>>

\* A file that is gone fails its entry; a wrong hash does, and the rest goes on.
CheckHash ==
  LET file == shelf[drill.second][NextEntry]
  IN /\ drill.at = "hash"
     /\ IF file = Missing THEN EndEntry(FALSE)
        ELSE drill' = [drill EXCEPT !.at = "open",
                                    !.sound = @ /\ file.of = drill.list[NextEntry]]
     /\ UNCHANGED <<shelf, manifests, saving, stampNow, backups, harmed, disturbed>>

\* verify_database_backup, verify_assets_backup: sqlite makes an empty file of one that
\* vanished meanwhile; an archive that is not one may raise what nothing catches.
OpenCopy ==
  LET file == shelf[drill.second][NextEntry]
  IN /\ drill.at = "open"
     /\ \/ EndEntry(file.opens /\ (NextEntry = "database" => file.tables))
        \/ NextEntry = "assets" /\ ~file.opens /\ drill' = [drill EXCEPT !.at = "raised"]
     /\ UNCHANGED <<shelf, manifests, saving, stampNow, backups, harmed, disturbed>>

EndDrill ==
  /\ drill.at \in {"done", "raised"} /\ drill' = NotDrilling
  /\ UNCHANGED <<shelf, manifests, saving, stampNow, backups, harmed, disturbed>>

-----------------------------------------------------------------------------
DrillInit ==
  /\ shelf = [s \in Stamps |-> [k \in FileKinds |-> Missing]]
  /\ manifests = [s \in Stamps |-> NoManifest]
  /\ saving = NotSaving /\ drill = NotDrilling
  /\ stampNow = 0 /\ backups = 0 /\ harmed = 0 /\ disturbed = FALSE

DrillNext ==
  \/ BeginBackup \/ WriteManifest \/ AbandonBackup \/ PassSecond
  \/ \E k \in FileKinds, tables \in BOOLEAN : CopyKind(k, tables)
  \/ \E s \in Stamps, k \in FileKinds, new \in {Missing} \union DamagedFile : Harm(s, k, new)
  \/ BeginDrill \/ CheckHash \/ OpenCopy \/ EndDrill

DrillSpec == DrillInit /\ [][DrillNext]_drillVars

-----------------------------------------------------------------------------
DrillTypeOK ==
  /\ shelf \in [Stamps -> [FileKinds -> File]]
  /\ manifests \in [Stamps -> Manifest]
  /\ saving \in [at : {"rest", "copy"}, second : Stamps, made : Manifest]
  /\ drill \in [at : {"idle", "hash", "open", "done", "raised"}, second : Stamps,
                list : Manifest, left : SUBSET FileKinds, sound : BOOLEAN]
  /\ stampNow \in Stamps /\ backups \in 0..MaxBackups /\ harmed \in 0..MaxHarm
  /\ disturbed \in BOOLEAN

Restorable(k) ==
  LET file == shelf[drill.second][k]
  IN /\ file.of = drill.list[k] /\ file.opens
     /\ k = "database" => file.tables

(* A drill that nothing disturbs passes exactly when everything the         *)
(* manifest lists is there as it was written and can be restored from, and  *)
(* there is such a manifest at all.                                         *)
DrillHonest ==
  drill.at = "done" /\ ~disturbed =>
    (drill.sound <=> /\ Listed(drill.list) # {}
                     /\ \A k \in Listed(drill.list) : Restorable(k))
=============================================================================

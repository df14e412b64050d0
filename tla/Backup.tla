-------------------------------- MODULE Backup --------------------------------
(***************************************************************************)
(* scripts/backup.py beside a running server: a consistent copy of the      *)
(* database first, then the object files one after the other as the walk   *)
(* meets them, then the manifest, while uploads go on (Assets).            *)
(*                                                                         *)
(* Without the manifest there is no backup to restore, so a script that is  *)
(* stopped is one that never reaches "done".                               *)
(***************************************************************************)
EXTENDS Assets

VARIABLE backup          \* the copy: how far, the rows, the files

Kinds    == {"data", "meta"}             \* an object's file and its .meta.json
Archive  == [Keys -> [Kinds -> Contents \union {Nothing, Torn}]]
Existing == {f \in Keys \X Kinds : files[f[1]][f[2]] # Nothing}

NoBackup == [at |-> "none", rows |-> [a \in AssetIds |-> NoVersion], todo |-> {},
             archive |-> [k \in Keys |-> [x \in Kinds |-> Nothing]]]

BackupInit == AssetInit /\ backup = NoBackup

(* backup_database: sqlite's online backup copies one state of the table;   *)
(* a file that is there when the walk starts is a file the walk will meet. *)
BackupDatabase ==
    /\ backup.at = "none"
    /\ backup' = [backup EXCEPT !.at = "assets", !.rows = rows, !.todo = Existing]

(* backup_assets: one file, as it is at that moment.  One created during    *)
(* the walk may be met too.                                                *)
BackupFile(f) ==
    /\ backup.at = "assets"
    /\ f \in Existing
    /\ backup.archive[f[1]][f[2]] = Nothing
    /\ backup' = [backup EXCEPT !.todo = @ \ {f},
                                !.archive[f[1]][f[2]] = files[f[1]][f[2]]]

(* Mutant: the database is copied after the files.                         *)
DatabaseLast ==
    /\ backup.at = "assets" /\ backup.todo = {}
    /\ backup' = [backup EXCEPT !.at = "done", !.rows = rows]

(* create_manifest, once the archive is closed.                            *)
CreateManifest ==
    /\ backup.at = "assets" /\ backup.todo = {}
    /\ backup' = [backup EXCEPT !.at = "done"]

BackupStep == /\ \/ BackupDatabase
                 \/ \E f \in Keys \X Kinds : BackupFile(f)
                 \/ CreateManifest
              /\ UNCHANGED assetVars

BackupNext == (AssetNext /\ UNCHANGED backup) \/ BackupStep

BackupSpec == BackupInit /\ [][BackupNext]_<<assetVars, backup>>

-----------------------------------------------------------------------------
BackupTypeOK ==
    /\ backup.at \in {"none", "assets", "done"}
    /\ backup.rows \in [AssetIds -> Version \union {NoVersion, Pathless}]
    /\ backup.todo \subseteq Keys \X Kinds
    /\ backup.archive \in Archive

(* What a finished backup restores hangs together: every asset row of the   *)
(* copied database finds its bytes in the archive, whole and with metadata  *)
(* that agrees, whatever was uploaded while the copy was made.             *)
BackupRestorable ==
    backup.at = "done" /\ ~shared =>
        \A a \in AssetIds :
            LET v == backup.rows[a]
            IN  \/ v \in {NoVersion, Pathless}
                \/ /\ backup.archive[v.key]["data"] = v.sha
                   /\ backup.archive[v.key]["meta"] \in {v.sha, Nothing}

\* What rows point at can be read, from the store and from a finished backup.
StorageSound == StoredIntact /\ BackupRestorable

=============================================================================

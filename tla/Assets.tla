-------------------------------- MODULE Assets --------------------------------
(***************************************************************************)
(* Asset uploads (components/assets/component.py) over the three stores    *)
(* they write one after the other: the assets table                        *)
(* (adapters/sqlite/repos.py), the version repository of the process       *)
(* (api/deps.py, InMemoryVersionRepo) and the object files                 *)
(* (adapters/local_storage.py, LocalFileStorage).                          *)
(*                                                                         *)
(* A crash keeps the table and the files and loses the versions, their     *)
(* numbering and whatever an upload was in the middle of.                  *)
(***************************************************************************)
EXTENDS Naturals, FiniteSets

CONSTANTS Uploaders,     \* number of request threads
          AssetIds,
          Contents,      \* bytes, each standing for its SHA-256
          MaxVersion,    \* bound: version numbers of an asset
          MaxUploads,    \* bound: requests begun
          MaxCrashes     \* bound: crashes

Nothing == "nothing"     \* no file
Torn    == "torn"        \* a file a crash or an open write left incomplete
NoVersion == [key |-> <<>>, sha |-> "none"]
Pathless  == [key |-> <<>>, sha |-> "unset"]   \* a row before its first version

ASSUME AssetAssumption ==
    /\ Uploaders \in Nat /\ MaxVersion \in Nat /\ MaxUploads \in Nat
    /\ MaxCrashes \in Nat
    /\ {Nothing, Torn} \intersect Contents = {}

VARIABLES rows,          \* assets table: the version each row points at
          versions,      \* saved AssetVersions
          latest,        \* the /latest pointer of each asset
          counters,      \* the version numbers given out
          files,         \* data and metadata file of each storage key
          uploads,       \* what each request thread is doing
          begun, crashes,
          shared         \* history: two uploads held one version number

assetVars == <<rows, versions, latest, counters, files, uploads, begun, crashes,
               shared>>

Keys    == AssetIds \X (1..MaxVersion)       \* generate_storage_key
Version == [key : Keys, sha : Contents]
Idle    == [at |-> "idle"]
Upload  == [at : {"number", "count", "take", "store", "open", "data", "meta", "version",
                  "point", "row"},
            asset : AssetIds, content : Contents, number : 0..MaxVersion]

Key(u) == <<u.asset, u.number>>
Target(u) == [key |-> Key(u), sha |-> u.content]
Working == {t \in 1..Uploaders : uploads[t] # Idle}
FreeThread(t) == /\ t \notin Working /\ 1..(t - 1) \subseteq Working
                 /\ begun < MaxUploads

(* A request thread goes on to its next step, with a version number.       *)
GoWith(t, step, n) ==
    uploads' = [uploads EXCEPT ![t] = [at |-> step, asset |-> uploads[t].asset,
                                       content |-> uploads[t].content, number |-> n]]
Go(t, step) == GoWith(t, step, uploads[t].number)

-----------------------------------------------------------------------------
AssetInit ==
    /\ rows = [a \in AssetIds |-> NoVersion]
    /\ versions = {} /\ latest = [a \in AssetIds |-> NoVersion]
    /\ counters = [a \in AssetIds |-> 0]
    /\ files = [k \in Keys |-> [data |-> Nothing, meta |-> Nothing]]
    /\ uploads = [t \in 1..Uploaders |-> Idle]
    /\ begun = 0 /\ crashes = 0 /\ shared = FALSE

(* run_upload, validated: a new asset gets a row without a path at once, a  *)
(* known one must have a row.                                              *)
BeginUpload(t, a, c, new) ==
    /\ FreeThread(t)
    /\ new <=> rows[a] = NoVersion
    /\ rows' = IF new THEN [rows EXCEPT ![a] = Pathless] ELSE rows
    /\ uploads' = [uploads EXCEPT ![t] = [at |-> "number", asset |-> a,
                                          content |-> c, number |-> 0]]
    /\ begun' = begun + 1
    /\ UNCHANGED <<versions, latest, counters, files, crashes, shared>>

(* get_next_version_number: the counter is read, ...                       *)
ReadCounter(t) ==
    /\ uploads[t].at = "number"
    /\ counters[uploads[t].asset] < MaxVersion
    /\ GoWith(t, "count", counters[uploads[t].asset] + 1)
    /\ UNCHANGED <<rows, versions, latest, counters, files, begun, crashes, shared>>

(* ... written back one higher, whatever was written meanwhile, ...        *)
WriteCounter(t) ==
    /\ uploads[t].at = "count"
    /\ counters' = [counters EXCEPT ![uploads[t].asset] = uploads[t].number]
    /\ Go(t, "take")
    /\ UNCHANGED <<rows, versions, latest, files, begun, crashes, shared>>

(* ... and read again: two threads may be given one number.                *)
TakeNumber(t) ==
    /\ uploads[t].at = "take"
    /\ LET n == counters[uploads[t].asset]
       IN /\ GoWith(t, "store", n)
          /\ shared' = (shared \/ \E o \in Working \ {t} : Key(uploads[o]) = <<uploads[t].asset, n>>)
    /\ UNCHANGED <<rows, versions, latest, counters, files, begun, crashes>>

(* put: the key must be new.  KeyExistsError ends the request; the number   *)
(* is spent.                                                               *)
CheckKey(t) ==
    /\ uploads[t].at = "store"
    /\ IF files[Key(uploads[t])].data = Nothing THEN Go(t, "open")
       ELSE uploads' = [uploads EXCEPT ![t] = Idle]
    /\ UNCHANGED <<rows, versions, latest, counters, files, begun, crashes, shared>>

(* Opening the data file already empties it, were it there by now.         *)
OpenFile(t) ==
    /\ uploads[t].at = "open"
    /\ files' = [files EXCEPT ![Key(uploads[t])].data = Torn]
    /\ Go(t, "data")
    /\ UNCHANGED <<rows, versions, latest, counters, begun, crashes, shared>>

WriteData(t) ==
    /\ uploads[t].at = "data"
    /\ files' = [files EXCEPT ![Key(uploads[t])].data = uploads[t].content]
    /\ Go(t, "meta")
    /\ UNCHANGED <<rows, versions, latest, counters, begun, crashes, shared>>

WriteMeta(t) ==
    /\ uploads[t].at = "meta"
    /\ files' = [files EXCEPT ![Key(uploads[t])].meta = uploads[t].content]
    /\ Go(t, "version")
    /\ UNCHANGED <<rows, versions, latest, counters, begun, crashes, shared>>

SaveVersion(t) ==
    /\ uploads[t].at = "version"
    /\ versions' = versions \union {Target(uploads[t])}
    /\ Go(t, "point")
    /\ UNCHANGED <<rows, latest, counters, files, begun, crashes, shared>>

PointLatest(t) ==
    /\ uploads[t].at = "point"
    /\ latest' = [latest EXCEPT ![uploads[t].asset] = Target(uploads[t])]
    /\ Go(t, "row")
    /\ UNCHANGED <<rows, versions, counters, files, begun, crashes, shared>>

(* The last step of an upload and of a roll-back: path, hash and size are   *)
(* saved in one row.                                                       *)
SaveRow(t) ==
    /\ uploads[t].at = "row"
    /\ rows' = [rows EXCEPT ![uploads[t].asset] = Target(uploads[t])]
    /\ uploads' = [uploads EXCEPT ![t] = Idle]
    /\ UNCHANGED <<versions, latest, counters, files, begun, crashes, shared>>

(* run_set_latest: a version the repository knows becomes the latest, and   *)
(* then the row's.                                                         *)
SetLatest(t, v) ==
    /\ FreeThread(t) /\ v \in versions
    /\ latest' = [latest EXCEPT ![v.key[1]] = v]
    /\ uploads' = [uploads EXCEPT ![t] = [at |-> "row", asset |-> v.key[1],
                                          content |-> v.sha, number |-> v.key[2]]]
    /\ begun' = begun + 1
    /\ UNCHANGED <<rows, versions, counters, files, crashes, shared>>

(* Any step may raise (a locked database, a full disk): the request ends,   *)
(* and what its earlier steps wrote stays.                                 *)
Fail(t) ==
    /\ t \in Working
    /\ uploads' = [uploads EXCEPT ![t] = Idle]
    /\ UNCHANGED <<rows, versions, latest, counters, files, begun, crashes, shared>>

(* The process stops and starts again: a metadata file it was writing may   *)
(* be cut short.                                                           *)
Crash(cut) ==
    /\ crashes < MaxCrashes /\ crashes' = crashes + 1
    /\ cut \subseteq {Key(uploads[t]) : t \in {w \in Working : uploads[w].at = "meta"}}
    /\ files' = [k \in Keys |-> IF k \in cut THEN [files[k] EXCEPT !.meta = Torn]
                                ELSE files[k]]
    /\ versions' = {} /\ latest' = [a \in AssetIds |-> NoVersion]
    /\ counters' = [a \in AssetIds |-> 0]
    /\ uploads' = [t \in 1..Uploaders |-> Idle]
    /\ UNCHANGED <<rows, begun, shared>>

UploadStep(t) ==
    \/ ReadCounter(t) \/ WriteCounter(t) \/ TakeNumber(t) \/ CheckKey(t) \/ OpenFile(t)
    \/ WriteData(t) \/ WriteMeta(t) \/ SaveVersion(t) \/ PointLatest(t) \/ SaveRow(t)

AssetNext ==
    \/ \E t \in 1..Uploaders :
          \/ \E a \in AssetIds, c \in Contents, new \in BOOLEAN : BeginUpload(t, a, c, new)
          \/ UploadStep(t)
          \/ Fail(t)
          \/ \E v \in versions : SetLatest(t, v)
    \/ \E cut \in SUBSET Keys : Crash(cut)

AssetSpec == AssetInit /\ [][AssetNext]_assetVars

-----------------------------------------------------------------------------
AssetTypeOK ==
    /\ rows \in [AssetIds -> Version \union {NoVersion, Pathless}]
    /\ versions \subseteq Version
    /\ latest \in [AssetIds -> Version \union {NoVersion}]
    /\ counters \in [AssetIds -> 0..MaxVersion]
    /\ files \in [Keys -> [data : Contents \union {Nothing, Torn},
                           meta : Contents \union {Nothing, Torn}]]
    /\ uploads \in [1..Uploaders -> Upload \union {Idle}]
    /\ begun \in 0..MaxUploads /\ crashes \in 0..MaxCrashes /\ shared \in BOOLEAN

(* get: the bytes of a key pass the check against its metadata, which is    *)
(* made up from the bytes when the metadata file is missing.               *)
Readable(v) == /\ files[v.key].data = v.sha
               /\ files[v.key].meta \in {v.sha, Nothing}

(* Whatever a version or an asset row points at can be read back and has    *)
(* the hash it promises, across crashes, restarted numbering and uploads   *)
(* of the same asset, unless two uploads were given one number.            *)
StoredIntact ==
    ~shared => /\ \A v \in versions : Readable(v)
               /\ \A a \in AssetIds :
                     rows[a] \in {NoVersion, Pathless} \/ Readable(rows[a])
=============================================================================

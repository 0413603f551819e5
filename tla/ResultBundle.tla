------------------------------ MODULE ResultBundle ------------------------------
(***************************************************************************)
(* A task's result on its way through the remote cache: the client packs   *)
(* the files of its local entry into a bundle (export_entry_bundle of      *)
(* src/cache.rs), the server checks the bundle before it publishes it      *)
(* (spool_body and validate_bundle of the server's main.rs), and another   *)
(* client checks it again before it installs it (import_task_bundle,       *)
(* import_named_task_bundle).  While the export reads the entry, an import *)
(* of another process may remove it and install another run's result: the  *)
(* export holds no lock, and reads every file twice, once to hash it for   *)
(* bundle.json and once to pack it.                                        *)
(*                                                                         *)
(* A file's contents are named by the run that wrote it; the metadata of a *)
(* run lists the digests of that run's files.  A digest identifies the     *)
(* contents it was computed from.                                          *)
(***************************************************************************)
EXTENDS Naturals, Sequences, FiniteSets

CONSTANTS
    BunRuns,            \* runs of the task, each with its own files
    BunMaxReplaced      \* bound: how often the entry is replaced during the export

ASSUME BunAssumption == BunMaxReplaced \in Nat /\ "gone" \notin BunRuns

VARIABLES
    bunKind,        \* "build", "test" (also format), "named" or "named with outputs"
    bunEntry,       \* whose files are at the entry's path, or "gone"
    bunReplaced,    \* how often the entry has been replaced
    bunAt,          \* where the export is
    bunMeta,        \* whose metadata the export has read first
    bunHashed,      \* bundle.json: whose contents each file had when it was hashed
    bunPacked,      \* the bundle: whose contents each file had when it was packed
    bunBroken,      \* whether bytes were damaged on the way to the server
    bunServer,      \* the server's answer
    bunImporter,    \* where the other client is
    bunInstalled    \* what the other client has installed

bunVars == <<bunKind, bunEntry, bunReplaced, bunAt, bunMeta, bunHashed, bunPacked, bunBroken,
             bunServer, bunImporter, bunInstalled>>

BunKinds == {"build", "test", "named", "named with outputs"}
BunHasOutputs == bunKind \in {"build", "named with outputs"}
BunAllFiles == {"meta.json", "hash-manifest.json", "stdout.txt", "stderr.txt", "outputs.tar.zst"}
BunFiles == IF BunHasOutputs THEN BunAllFiles ELSE BunAllFiles \ {"outputs.tar.zst"}
BunNothing == [f \in {} |-> "gone"]

(* The order in which export_entry_bundle hashes the files, and the order   *)
(* of the names in which it packs them.                                     *)
BunHashOrder == <<"meta.json", "hash-manifest.json", "stdout.txt", "stderr.txt", "outputs.tar.zst">>
BunPackOrder == <<"hash-manifest.json", "meta.json", "outputs.tar.zst", "stderr.txt", "stdout.txt">>

BunIdle == "idle"
BunInit ==
    /\ bunKind = BunIdle /\ bunEntry = "gone" /\ bunReplaced = 0
    /\ bunAt = BunIdle /\ bunMeta = "gone" /\ bunHashed = BunNothing /\ bunPacked = BunNothing
    /\ bunBroken = FALSE /\ bunServer = "none"
    /\ bunImporter = BunIdle /\ bunInstalled = BunNothing

(* A complete entry and an upload that starts: export_task_bundle reads the *)
(* metadata and checks the entry.                                           *)
BunStart ==
    /\ bunKind = BunIdle
    /\ bunKind' \in BunKinds /\ bunEntry' \in BunRuns /\ bunMeta' = bunEntry'
    /\ bunAt' = "hash"
    /\ UNCHANGED <<bunReplaced, bunHashed, bunPacked, bunBroken, bunServer, bunImporter, bunInstalled>>

BunNextOf(order, done) ==
    CHOOSE f \in BunFiles \ done :
      \E i \in 1..Len(order) : order[i] = f /\ \A j \in 1..(i - 1) : order[j] \notin BunFiles \ done

(* is_complete_task_cache_entry looks at an entry as it is now, and then    *)
(* each file is read on its own: once it is gone the export fails.          *)
BunHash ==
    /\ bunAt = "hash"
    /\ IF bunEntry = "gone" THEN bunAt' = "failed" /\ UNCHANGED bunHashed
       ELSE LET f == BunNextOf(BunHashOrder, DOMAIN bunHashed)
                done == DOMAIN bunHashed \cup {f} IN
            /\ bunHashed' = [g \in done |-> IF g = f THEN bunEntry ELSE bunHashed[g]]
            /\ bunAt' = IF done = BunFiles THEN "pack" ELSE "hash"
    /\ UNCHANGED <<bunKind, bunEntry, bunReplaced, bunMeta, bunPacked, bunBroken, bunServer,
                   bunImporter, bunInstalled>>

BunPack ==
    /\ bunAt = "pack"
    /\ IF bunEntry = "gone" THEN bunAt' = "failed" /\ UNCHANGED bunPacked
       ELSE LET f == BunNextOf(BunPackOrder, DOMAIN bunPacked)
                done == DOMAIN bunPacked \cup {f} IN
            /\ bunPacked' = [g \in done |-> IF g = f THEN bunEntry ELSE bunPacked[g]]
            /\ bunAt' = IF done = BunFiles THEN "send" ELSE "pack"
    /\ UNCHANGED <<bunKind, bunEntry, bunReplaced, bunMeta, bunHashed, bunBroken, bunServer,
                   bunImporter, bunInstalled>>

(* An import of another process: remove_path, then the rename.              *)
BunRemove ==
    /\ bunAt \in {"hash", "pack"} /\ bunEntry # "gone" /\ bunReplaced < BunMaxReplaced
    /\ bunEntry' = "gone"
    /\ UNCHANGED <<bunKind, bunReplaced, bunAt, bunMeta, bunHashed, bunPacked, bunBroken,
                   bunServer, bunImporter, bunInstalled>>
BunReplace ==
    /\ bunAt \in {"hash", "pack"} /\ bunEntry = "gone"
    /\ bunEntry' \in BunRuns /\ bunReplaced' = bunReplaced + 1
    /\ UNCHANGED <<bunKind, bunAt, bunMeta, bunHashed, bunPacked, bunBroken, bunServer,
                   bunImporter, bunInstalled>>

(* The upload: its bytes may be damaged on the way.  The headers carry the  *)
(* digest of the bundle and the result digest the export read first.        *)
BunSend ==
    /\ bunAt = "send" /\ bunAt' = "sent" /\ bunBroken' \in BOOLEAN
    /\ UNCHANGED <<bunKind, bunEntry, bunReplaced, bunMeta, bunHashed, bunPacked, bunServer,
                   bunImporter, bunInstalled>>

(* validate_bundle: the request, bundle.json and meta.json name one result, *)
(* and the files are those bundle.json lists, byte for byte.                *)
BunServerAccepts_Unhashed ==
    /\ ~bunBroken
    /\ bunPacked["meta.json"] = bunMeta
    /\ DOMAIN bunPacked = DOMAIN bunHashed
BunServerAccepts ==
    /\ ~bunBroken
    /\ bunPacked["meta.json"] = bunMeta
    /\ DOMAIN bunPacked = DOMAIN bunHashed
    /\ \A f \in DOMAIN bunHashed : bunPacked[f] = bunHashed[f]

BunValidate ==
    /\ bunAt = "sent" /\ bunServer = "none"
    /\ bunServer' = IF BunServerAccepts THEN "published" ELSE "refused"
    /\ UNCHANGED <<bunKind, bunEntry, bunReplaced, bunAt, bunMeta, bunHashed, bunPacked,
                   bunBroken, bunImporter, bunInstalled>>

(* The download, which may be damaged too: then its digest is not the       *)
(* response's and nothing is unpacked.                                      *)
BunDownload ==
    /\ bunServer = "published" /\ bunImporter = BunIdle
    /\ bunImporter' \in {"unpack", "refused"}
    /\ UNCHANGED <<bunKind, bunEntry, bunReplaced, bunAt, bunMeta, bunHashed, bunPacked,
                   bunBroken, bunServer, bunInstalled>>

(* extract_and_validate_bundle: bundle.json is for this task, and the files *)
(* are those it lists.                                                      *)
BunExtracts ==
    /\ DOMAIN bunPacked = DOMAIN bunHashed
    /\ \A f \in DOMAIN bunHashed : bunPacked[f] = bunHashed[f]
    /\ bunPacked["meta.json"] = bunMeta

(* The artifacts a run writes into its metadata, and those a named task     *)
(* writes: there is an archive of outputs when some are declared.           *)
BunTaskMetadata(run) ==
    [f \in BunAllFiles
           \ ({"meta.json"} \cup IF bunKind = "test" THEN {"outputs.tar.zst"} ELSE {})
       |-> run]
BunNamedMetadata(run) ==
    [f \in BunAllFiles
           \ ({"meta.json"} \cup IF bunKind = "named" THEN {"outputs.tar.zst"} ELSE {})
       |-> run]

(* Each file is the one of the metadata, and the archive is there exactly   *)
(* for a build; a named task without archive declares no outputs.           *)
BunMatches(metadata) ==
    \A f \in DOMAIN metadata : f \in DOMAIN bunPacked /\ bunPacked[f] = metadata[f]
BunCompleteTask ==
    /\ bunKind \in {"build", "test"}
    /\ BunMatches(BunTaskMetadata(bunPacked["meta.json"]))
    /\ ("outputs.tar.zst" \in DOMAIN bunPacked) <=> (bunKind = "build")
BunCompleteNamed ==
    /\ bunKind \in {"named", "named with outputs"}
    /\ BunMatches(BunNamedMetadata(bunPacked["meta.json"]))
BunImportAccepts == BunExtracts /\ (BunCompleteTask \/ BunCompleteNamed)

BunImport ==
    /\ bunImporter = "unpack"
    /\ \/ BunImportAccepts /\ bunImporter' = "installed" /\ bunInstalled' = bunPacked
       \/ ~BunImportAccepts /\ bunImporter' = "corrupt" /\ UNCHANGED bunInstalled
    /\ UNCHANGED <<bunKind, bunEntry, bunReplaced, bunAt, bunMeta, bunHashed, bunPacked,
                   bunBroken, bunServer>>

BunNext ==
    \/ BunStart \/ BunHash \/ BunPack \/ BunRemove \/ BunReplace \/ BunSend \/ BunValidate
    \/ BunDownload \/ BunImport
BunSpec == BunInit /\ [][BunNext]_bunVars

--------------------------------------------------------------------------------
BunTypeOK ==
    /\ bunKind \in BunKinds \cup {BunIdle}
    /\ bunEntry \in BunRuns \cup {"gone"} /\ bunMeta \in BunRuns \cup {"gone"}
    /\ bunReplaced \in 0..BunMaxReplaced
    /\ bunAt \in {BunIdle, "hash", "pack", "failed", "send", "sent"}
    /\ \A files \in {bunHashed, bunPacked, bunInstalled} :
         DOMAIN files \subseteq BunAllFiles /\ \A f \in DOMAIN files : files[f] \in BunRuns
    /\ bunBroken \in BOOLEAN
    /\ bunServer \in {"none", "published", "refused"}
    /\ bunImporter \in {BunIdle, "unpack", "refused", "installed", "corrupt"}

(* What the server publishes other clients can install, although nobody     *)
(* locks the entry while it is exported and the server does not compare the *)
(* files with the metadata: a replacement between the two readings of a     *)
(* file shows.  (A second replacement that brings the first files back      *)
(* would not.)  And what a client installs is the result of one run.        *)
BunPublishedIsUsable ==
    /\ bunServer = "published" /\ bunReplaced <= 1 => BunImportAccepts
    /\ \A f, g \in DOMAIN bunInstalled : bunInstalled[f] = bunInstalled[g]
    /\ bunServer = "refused" => bunReplaced > 0 \/ bunBroken
================================================================================

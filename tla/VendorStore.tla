------------------------------- MODULE VendorStore -------------------------------
(***************************************************************************)
(* Vendored dependencies (src/dependency_vendor.rs): `gomo deps vendor`    *)
(* copies the packages that the lock files name into a directory of the    *)
(* workspace and writes an inventory of them; `gomo deps check` compares   *)
(* the three; and before a build prepare_projects checks, fills Gleam's    *)
(* package cache and lays out a project's build/packages, with a record    *)
(* (packages.toml) of what Gleam may take as up to date.                   *)
(*                                                                         *)
(* An archive is either the package it is named after or damaged; it is    *)
(* written to a temporary file and renamed, so it is never partial.  One   *)
(* project is prepared, at most one `deps vendor` runs at a time, and both *)
(* may be killed anywhere.                                                 *)
(***************************************************************************)
EXTENDS Naturals, FiniteSets

CONSTANTS
    VnPackages,     \* [name, version, from: "hex" or "git"]
    VnLocks,        \* the lock files considered: sets of packages
    VnMaxChanges    \* bound: relocks, damaged archives and crashes, together

ASSUME VnAssumption ==
    /\ VnMaxChanges \in Nat
    /\ \A l \in VnLocks : l \subseteq VnPackages
    /\ \A l \in VnLocks : \A a, b \in l : a.name = b.name => a = b
    /\ \A a \in VnPackages : a.from \in {"hex", "git"}

VARIABLES
    vnOpen,         \* the workspace has been entered
    vnLock,         \* the packages the project's lock file names
    vnArchives,     \* [packages vendored -> "good" or "damaged"]
    vnInventory,    \* [lock, packages -> the checksum of each archive], or none
    vnSync,         \* `deps vendor`: [at, lock, packages still to do, checksums]
    vnCache,        \* [packages in Gleam's cache -> "good" or "damaged"]
    vnPrepare,      \* the preparation: [at, lock, packages still to do]
    vnDirs,         \* [package names under build/packages -> package and state]
    vnState,        \* packages.toml: [names -> packages]
    vnNext,         \* the packages.toml being made
    vnGood,         \* history: a check has succeeded, and nothing changed since
    vnTorn,         \* history: a preparation has ended before its record was written
    vnRaced,        \* history: the lock or an archive changed under a preparation
    vnChanges       \* how many changes there have been

vnVars == <<vnOpen, vnLock, vnArchives, vnInventory, vnSync, vnCache, vnPrepare,
            vnDirs, vnState, vnNext, vnGood, vnTorn, vnRaced, vnChanges>>

VnNoFiles == [a \in {} |-> "good"]
VnNoInventory == [lock |-> {}, sums |-> VnNoFiles, readable |-> FALSE]
VnWork(at, lock, todo, sums) == [at |-> at, lock |-> lock, todo |-> todo, sums |-> sums]
VnIdle == VnWork("idle", {}, {}, VnNoFiles)
VnPut(f, a, x) == [b \in DOMAIN f \cup {a} |-> IF b = a THEN x ELSE f[b]]
VnDrop(f, S) == [b \in DOMAIN f \ S |-> f[b]]
VnAt(f, a) == IF a \in DOMAIN f THEN f[a] ELSE "none"
VnFrom(l, kind) == {a \in l : a.from = kind}

--------------------------------------------------------------------------------
VnInit ==
    /\ vnOpen = FALSE /\ vnLock = {} /\ vnArchives = VnNoFiles /\ vnInventory = VnNoInventory
    /\ vnSync = VnIdle /\ vnCache = VnNoFiles /\ vnPrepare = VnIdle
    /\ vnDirs = VnNoFiles /\ vnState = VnNoFiles /\ vnNext = VnNoFiles
    /\ vnGood = FALSE /\ vnTorn = FALSE /\ vnRaced = FALSE /\ vnChanges = 0

VnEnter ==
    /\ ~vnOpen /\ vnOpen' = TRUE
    /\ vnLock' \in VnLocks
    /\ UNCHANGED <<vnArchives, vnInventory, vnSync, vnCache, vnPrepare, vnDirs, vnState, vnNext,
                   vnGood, vnTorn, vnRaced, vnChanges>>

VnSameStore == UNCHANGED <<vnArchives, vnInventory, vnSync>>
VnSameProject == UNCHANGED <<vnCache, vnPrepare, vnDirs, vnState, vnNext>>

(* The world: the lock file changes, an archive is damaged or lost. *)
VnPreparing == vnPrepare.at # "idle"
VnChange ==
    /\ vnOpen /\ vnChanges < VnMaxChanges /\ vnChanges' = vnChanges + 1
    /\ vnGood' = FALSE /\ vnRaced' = (vnRaced \/ VnPreparing)
    /\ UNCHANGED <<vnOpen, vnTorn, vnInventory, vnSync, vnPrepare, vnDirs, vnState, vnNext>>

VnRelock(l) == VnChange /\ l # vnLock /\ vnLock' = l /\ UNCHANGED <<vnArchives, vnCache>>
VnDamageArchive(a) ==
    /\ VnChange /\ a \in DOMAIN vnArchives
    /\ \/ vnArchives' = VnPut(vnArchives, a, "damaged")
       \/ vnArchives' = VnDrop(vnArchives, {a})
    /\ UNCHANGED <<vnLock, vnCache>>
VnDamageCache(a) ==
    /\ VnChange /\ a \in DOMAIN vnCache
    /\ vnCache' = VnPut(vnCache, a, "damaged")
    /\ UNCHANGED <<vnLock, vnArchives>>

--------------------------------------------------------------------------------
(* sync: one archive after the other, the inventory, then the leftovers.   *)
VnSyncStep(at, todo) == vnSync' = VnWork(at, vnSync.lock, todo, vnSync.sums)
VnSameSync == VnSameProject /\ UNCHANGED <<vnOpen, vnLock, vnTorn, vnRaced, vnChanges>>

VnSyncBegin ==
    /\ vnOpen /\ vnSync.at = "idle"
    /\ vnSync' = VnWork("fetch", vnLock, vnLock, VnNoFiles)
    /\ VnSameSync /\ UNCHANGED <<vnArchives, vnInventory, vnGood>>

(* A Hex archive has its checksum in the lock file; that of a Git archive is
   in the inventory of before. *)
VnReuses_Present(a) == a \in DOMAIN vnArchives      \* mutant: whatever the file holds
VnReuses(a) ==
    IF a.from = "hex" THEN VnAt(vnArchives, a) = "good"
    ELSE /\ vnInventory.readable /\ a \in DOMAIN vnInventory.sums
         /\ VnAt(vnArchives, a) = vnInventory.sums[a]

VnFetch(a) ==
    /\ vnSync.at = "fetch" /\ a \in vnSync.todo
    /\ vnArchives' = IF VnReuses(a) THEN vnArchives ELSE VnPut(vnArchives, a, "good")
    /\ vnSync' = VnWork("fetch", vnSync.lock, vnSync.todo \ {a},
                         VnPut(vnSync.sums, a, vnArchives'[a]))
    /\ VnSameSync /\ UNCHANGED <<vnInventory, vnGood>>

VnWriteInventory ==
    /\ vnSync.at = "fetch" /\ vnSync.todo = {}
    /\ vnInventory' = [lock |-> vnSync.lock, readable |-> TRUE, sums |-> vnSync.sums]
    /\ VnSyncStep("prune", DOMAIN vnArchives \ vnSync.lock)
    /\ vnGood' = (vnGood /\ vnSync.lock = vnLock)
    /\ VnSameSync /\ UNCHANGED vnArchives

VnPrune(a) ==
    /\ vnSync.at = "prune" /\ a \in vnSync.todo
    /\ vnArchives' = VnDrop(vnArchives, {a})
    /\ VnSyncStep("prune", vnSync.todo \ {a})
    /\ VnSameSync /\ UNCHANGED <<vnInventory, vnGood>>

VnSyncEnd ==
    /\ vnSync.at = "prune" /\ vnSync.todo = {}
    /\ vnSync' = VnIdle
    /\ VnSameSync /\ UNCHANGED <<vnArchives, vnInventory, vnGood>>

(* A download or a checkout fails, or the process is killed. *)
VnSyncStops ==
    /\ vnSync.at # "idle" /\ vnChanges < VnMaxChanges /\ vnChanges' = vnChanges + 1
    /\ vnSync' = VnIdle
    /\ VnSameProject
    /\ UNCHANGED <<vnOpen, vnLock, vnArchives, vnInventory, vnGood, vnTorn, vnRaced>>

--------------------------------------------------------------------------------
(* check_workspace                                                         *)
VnComplete ==
    /\ vnInventory.readable /\ vnInventory.lock = vnLock
    /\ \A a \in vnLock : VnAt(vnArchives, a) = vnInventory.sums[a]

(* prepare_projects: the check, then the inventory is read again. *)
VnSameWorld == VnSameStore /\ UNCHANGED <<vnOpen, vnLock, vnRaced, vnChanges>>
VnPrepareStep(at, todo) == vnPrepare' = VnWork(at, vnPrepare.lock, todo, VnNoFiles)

VnCheck ==
    /\ vnOpen /\ vnPrepare.at = "idle" /\ VnComplete
    /\ vnPrepare' = VnWork("hydrate", vnLock, VnFrom(vnLock, "hex"), VnNoFiles)
    /\ vnGood' = TRUE
    /\ VnSameWorld /\ UNCHANGED <<vnCache, vnDirs, vnState, vnNext, vnTorn>>

(* hydrate_hex_cache: what is already there is kept if its checksum is right. *)
VnHydrates(a) == VnAt(vnCache, a) # "good"
VnHydrate(a) ==
    /\ vnPrepare.at = "hydrate" /\ a \in vnPrepare.todo
    /\ VnHydrates(a) => a \in DOMAIN vnArchives
    /\ vnCache' = IF VnHydrates(a) THEN VnPut(vnCache, a, vnArchives[a]) ELSE vnCache
    /\ VnPrepareStep("hydrate", vnPrepare.todo \ {a})
    /\ VnSameWorld /\ UNCHANGED <<vnDirs, vnState, vnNext, vnGood, vnTorn>>

VnHydrated ==
    /\ vnPrepare.at = "hydrate" /\ vnPrepare.todo = {}
    /\ VnPrepareStep("layout", vnPrepare.lock)
    /\ vnNext' = VnNoFiles
    /\ VnSameWorld /\ UNCHANGED <<vnCache, vnDirs, vnState, vnGood, vnTorn>>

(* prepare_project: a directory is fresh when the record of before names the
   same version and, for a Git package, the same commit of it too.  What is not
   fresh is removed (Gleam will unpack it from its cache) or, for Git, replaced. *)
VnFresh(a) ==
    /\ a.name \in DOMAIN vnDirs /\ a.name \in DOMAIN vnState
    /\ vnState[a.name].version = a.version
    /\ a.from = "git" => vnState[a.name] = a
VnLayOut(a) ==
    /\ vnPrepare.at = "layout" /\ a \in vnPrepare.todo
    /\ a.from = "git" /\ ~VnFresh(a) => a \in DOMAIN vnArchives
    /\ VnPrepareStep("layout", vnPrepare.todo \ {a})
    /\ vnDirs' = CASE VnFresh(a) -> vnDirs
                   [] ~VnFresh(a) /\ a.from = "hex" -> VnDrop(vnDirs, {a.name})
                   [] OTHER -> VnPut(vnDirs, a.name, [package |-> a, is |-> vnArchives[a]])
    /\ vnNext' = IF a.from = "git" \/ VnFresh(a) THEN VnPut(vnNext, a.name, a) ELSE vnNext
    /\ VnSameWorld /\ UNCHANGED <<vnCache, vnState, vnGood, vnTorn>>

VnRecord ==
    /\ vnPrepare.at = "layout" /\ vnPrepare.todo = {}
    /\ vnState' = vnNext
    /\ VnPrepareStep("gleam", {})
    /\ VnSameWorld /\ UNCHANGED <<vnCache, vnDirs, vnNext, vnGood, vnTorn>>

(* Gleam unpacks what its record does not name from its cache. *)
VnGleamUnpacks ==
    /\ vnPrepare.at = "gleam"
    /\ LET missing == {a \in vnPrepare.lock : a.name \notin DOMAIN vnState}
       IN  /\ \A a \in missing : a \in DOMAIN vnCache
           /\ vnDirs' = [n \in DOMAIN vnDirs \cup {a.name : a \in missing} |->
                LET as == {a \in missing : a.name = n}
                IN  IF as = {} THEN vnDirs[n]
                    ELSE LET a == CHOOSE x \in as : TRUE IN [package |-> a, is |-> vnCache[a]]]
           /\ vnState' = [n \in {a.name : a \in vnPrepare.lock} |->
                            CHOOSE a \in vnPrepare.lock : a.name = n]
    /\ VnPrepareStep("built", {})
    /\ VnSameWorld /\ UNCHANGED <<vnCache, vnNext, vnGood, vnTorn>>

VnPrepareEnd ==
    /\ vnPrepare.at = "built" /\ vnPrepare' = VnIdle
    /\ VnSameStore
    /\ UNCHANGED <<vnOpen, vnLock, vnRaced, vnCache, vnDirs, vnState, vnNext, vnGood, vnTorn, vnChanges>>

(* An error on the way (an archive gone, a path dependency that cannot be
   read), or a kill: the record of before stays, whatever has been laid out. *)
VnPrepareStops ==
    /\ vnPrepare.at \in {"hydrate", "layout"} /\ vnChanges < VnMaxChanges
    /\ vnChanges' = vnChanges + 1
    /\ vnPrepare' = VnIdle
    /\ vnTorn' = (vnTorn \/ (vnPrepare.at = "layout" /\ vnPrepare.todo # vnPrepare.lock))
    /\ VnSameStore /\ UNCHANGED <<vnOpen, vnLock, vnRaced, vnCache, vnDirs, vnState, vnNext, vnGood>>

VnNext ==
    \/ VnEnter
    \/ \E l \in VnLocks : VnRelock(l)
    \/ \E a \in VnPackages : VnDamageArchive(a)
    \/ \E a \in VnPackages : VnDamageCache(a)
    \/ VnSyncBegin
    \/ \E a \in VnPackages : VnFetch(a)
    \/ VnWriteInventory
    \/ \E a \in VnPackages : VnPrune(a)
    \/ VnSyncEnd
    \/ VnSyncStops
    \/ VnCheck
    \/ \E a \in VnPackages : VnHydrate(a)
    \/ VnHydrated
    \/ \E a \in VnPackages : VnLayOut(a)
    \/ VnRecord
    \/ VnGleamUnpacks
    \/ VnPrepareEnd
    \/ VnPrepareStops

VnSpec == VnInit /\ [][VnNext]_vnVars

--------------------------------------------------------------------------------
(* Types.                                                                  *)
VnTypeOK ==
    /\ vnLock \subseteq VnPackages /\ DOMAIN vnArchives \subseteq VnPackages
    /\ vnSync.at \in {"idle", "fetch", "prune"} /\ vnSync.todo \subseteq VnPackages
    /\ vnPrepare.at \in {"idle", "hydrate", "layout", "gleam", "built"}
    /\ vnPrepare.todo \subseteq vnPrepare.lock
    /\ \A n \in DOMAIN vnState : vnState[n].name = n
    /\ vnChanges \in 0..VnMaxChanges

(* A build sees exactly the packages its lock file names, undamaged: whatever
   was vendored, cached or laid out before, by whatever lock file, and
   whichever archives were damaged since.  (A Hex package is known by its
   version: one that replaces a Git package of the same version is not seen.
   Nor does it hold after a preparation that laid out a package and ended
   before its record: vnTorn.) *)
VnBuildsWhatIsLocked ==
    vnPrepare.at = "built" /\ ~vnRaced /\ ~vnTorn =>
        \A a \in vnPrepare.lock :
            LET d == vnDirs[a.name]
            IN  /\ d.is = "good" /\ d.package.version = a.version
                /\ a.from = "git" => d.package = a

(* A directory that has passed the check keeps passing it: a `deps vendor`
   that fails or is killed half-way never spoils what was complete. *)
VnCompleteStays == vnGood => VnComplete

VnSafety == VnBuildsWhatIsLocked /\ VnCompleteStays
================================================================================

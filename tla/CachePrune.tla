------------------------------- MODULE CachePrune -------------------------------
(***************************************************************************)
(* What every run does to the local cache before it starts (prepare_cache  *)
(* in src/cache.rs): it sweeps the work directories a day old, then walks  *)
(* the entries, removes those that have expired and, while the others take *)
(* more room than allowed, the oldest of them.  No lock is taken: other    *)
(* processes store, prune, clean and reset meanwhile, and are killed.      *)
(*                                                                         *)
(* A path is that of an entry or of the .tmp- directory it is written in:  *)
(* the walk meets both, and counts each that holds a meta.json.  A copy is *)
(* one directory written by one store.                                     *)
(***************************************************************************)
EXTENDS Naturals, FiniteSets

CONSTANTS
    PrEntries, PrSize,      \* the entries and the size of each
    PrLimits,               \* the limits considered: [age, size], sets of at most one number
    PrDay,                  \* the age at which a work directory is swept
    PrMaxTime, PrMaxCopies  \* bounds

ASSUME PrAssumption ==
    /\ IsFiniteSet(PrEntries) /\ PrSize \in [PrEntries -> Nat]
    /\ \A l \in PrLimits : l.age \subseteq Nat /\ l.size \subseteq Nat
    /\ PrDay \in Nat /\ PrMaxTime \in Nat /\ PrMaxCopies \in Nat

PrPaths == PrEntries \X {"temp", "entry"}
PrNothing == [copy |-> 0, created |-> 0, meta |-> "gone"]

VARIABLES
    prNow,
    prDisk,         \* [paths -> the directory there: its copy (0 for none), when it was
                    \*  written, and whether meta.json is "unwritten", "there" or "gone"]
    prCount,        \* how many copies have been made
    prAt,           \* where the prune is
    prLimit,        \* the limits of its workspace
    prSince,        \* when it read the clock
    prLeft,         \* the paths its walk has not reached
    prSeen,         \* its candidates: [path, copy, created]
    prKept,         \* those it has not removed
    prRemoving,     \* the one it is removing
    prTotal,        \* the bytes it believes are kept
    prEvicted,      \* history: what it removed for its size
    prOthers        \* history: what others did while it worked: "nothing", "removed", "stored"

prDirs == <<prDisk, prCount>>
prFound == <<prLeft, prSeen>>
prDoing == <<prKept, prRemoving, prTotal, prEvicted>>
prVars == <<prNow, prDirs, prAt, prLimit, prSince, prFound, prDoing, prOthers>>

(* The bytes of the candidates S, each a pair of its file and its number. *)
PrBytes(S) == Cardinality(UNION {{s} \X (1..PrSize[s.path[1]]) : s \in S})
PrCandidate(x) == [path |-> x, copy |-> prDisk[x].copy, created |-> prDisk[x].created]

PrInit ==
    /\ prNow = 0 /\ prDisk = [x \in PrPaths |-> PrNothing] /\ prCount = 0
    /\ prAt = "idle" /\ prLimit = [age |-> {}, size |-> {}] /\ prSince = 0
    /\ prLeft = {} /\ prSeen = {} /\ prKept = {} /\ prRemoving = {}
    /\ prTotal = 0 /\ prEvicted = {} /\ prOthers = "nothing"

PrTick ==
    /\ prNow < PrMaxTime /\ prNow' = prNow + 1 /\ prAt \notin {"done", "failed"}
    /\ UNCHANGED <<prDirs, prAt, prLimit, prSince, prFound, prDoing, prOthers>>

--------------------------------------------------------------------------------
(* The other processes, until the prune has ended.                         *)
PrOther(kind) ==
    /\ prAt \notin {"done", "failed"}
    /\ prOthers' = IF prOthers = "stored" THEN "stored" ELSE kind
    /\ UNCHANGED <<prNow, prAt, prLimit, prSince, prFound, prDoing>>

(* A store removes what is left of an entry, writes, meta.json last, and renames. *)
PrStore(e) ==
    /\ prCount < PrMaxCopies /\ prCount' = prCount + 1
    /\ prDisk[<<e, "temp">>] = PrNothing /\ prDisk[<<e, "entry">>].meta # "there"
    /\ prDisk' = [x \in PrPaths |->
          CASE x = <<e, "entry">> -> PrNothing
            [] x = <<e, "temp">> -> [copy |-> prCount + 1, created |-> prNow + 1, meta |-> "unwritten"]
            [] OTHER -> prDisk[x]]
    /\ PrOther("stored")

PrWriteMeta(e) ==
    /\ prDisk[<<e, "temp">>].meta = "unwritten"
    /\ prDisk' = [prDisk EXCEPT ![<<e, "temp">>] =
                    [copy |-> @.copy, created |-> prNow + 1, meta |-> "there"]]
    /\ UNCHANGED prCount /\ PrOther("stored")

PrInstall(e) ==
    /\ prDisk[<<e, "temp">>] # PrNothing /\ prDisk[<<e, "temp">>].meta # "unwritten"
    /\ prDisk[<<e, "entry">>] = PrNothing
    /\ prDisk' = [x \in PrPaths |->
          CASE x = <<e, "entry">> -> prDisk[<<e, "temp">>]
            [] x = <<e, "temp">> -> PrNothing
            [] OTHER -> prDisk[x]]
    /\ UNCHANGED prCount /\ PrOther("stored")

(* reset_cache removes all, remove_project_build_cache and another prune one
   path; whoever is killed at it leaves the directory, with meta.json or not. *)
PrOthersRemove(S) ==
    /\ \E x \in S : prDisk[x] # PrNothing
    /\ \/ prDisk' = [x \in PrPaths |-> IF x \in S THEN PrNothing ELSE prDisk[x]]
       \/ prDisk' = [x \in PrPaths |->
                        IF x \in S THEN [prDisk[x] EXCEPT !.meta = "gone"] ELSE prDisk[x]]
    /\ UNCHANGED prCount /\ PrOther("removed")

--------------------------------------------------------------------------------
(* prepare_cache: the sweep goes by the age of a directory, whoever may still
   be writing to it. *)
PrSwept(x) ==
    x[2] = "temp" /\ prDisk[x] # PrNothing /\ prNow + 1 > prDisk[x].created + PrDay
PrSweep(l) ==
    /\ prAt = "idle" /\ prAt' = "walk" /\ prLimit' = l
    /\ prDisk' = [x \in PrPaths |-> IF PrSwept(x) THEN PrNothing ELSE prDisk[x]]
    /\ prLeft' = PrPaths /\ prSince' = prNow
    /\ prOthers' = "nothing"
    /\ UNCHANGED <<prNow, prCount, prSeen, prDoing>>

(* cache_prune_candidates *)
PrVisit(x) ==
    /\ prAt = "walk" /\ x \in prLeft /\ prDisk[x] # PrNothing
    /\ prLeft' = prLeft \ {x}
    /\ prSeen' = IF prDisk[x].meta = "there" THEN prSeen \cup {PrCandidate(x)} ELSE prSeen
    /\ UNCHANGED <<prNow, prDirs, prAt, prLimit, prSince, prDoing, prOthers>>

(* What appears meanwhile may be missed. *)
PrWalked ==
    /\ prAt = "walk" /\ prAt' = "expire"
    /\ prOthers = "stored" \/ \A x \in prLeft : prDisk[x] = PrNothing
    /\ prLeft' = {} /\ prKept' = prSeen
    /\ UNCHANGED <<prNow, prDirs, prLimit, prSince, prSeen, prRemoving, prTotal,
                   prEvicted, prOthers>>

(* A directory that goes while it is walked or removed is an error, and the
   run ends; or the process is killed. *)
PrFails ==
    /\ prAt \in {"walk", "expire", "evict"} /\ (prOthers # "nothing" \/ prRemoving # {})
    /\ prAt' = "failed"
    /\ prLeft' = {} /\ prSeen' = {} /\ prKept' = {} /\ prEvicted' = {} /\ prRemoving' = {}
    /\ UNCHANGED <<prNow, prDirs, prLimit, prSince, prTotal, prOthers>>

(* remove_path: a file after the other, meta.json early or late.  What is at
   the path need not be what was seen there, and nothing there is no error. *)
PrRemove(s) ==
    /\ prRemoving = {} /\ prRemoving' = {s}
    /\ prDisk' \in {prDisk, [prDisk EXCEPT ![s.path].meta = "gone"]}
    /\ UNCHANGED <<prNow, prCount, prAt, prLimit, prSince, prFound, prKept,
                   prTotal, prOthers>>

PrExpired(s) == \E age \in prLimit.age : prSince + 1 > s.created + age
PrExpire(s) ==
    /\ prAt = "expire" /\ PrExpired(s)
    /\ PrRemove(s) /\ UNCHANGED prEvicted

PrExpiredGone ==
    /\ prAt = "expire" /\ prRemoving = {} /\ \A s \in prKept : ~PrExpired(s)
    /\ prAt' = "evict" /\ prTotal' = PrBytes(prKept)
    /\ UNCHANGED <<prNow, prDirs, prLimit, prSince, prFound, prKept, prRemoving,
                   prEvicted, prOthers>>

PrTooMuch_KeepsOne ==           \* mutant: the last entry is kept whatever its size
    Cardinality(prKept) > 1 /\ \E size \in prLimit.size : prTotal > size
PrTooMuch == \E size \in prLimit.size : prTotal > size
PrOldest == {s \in prKept : \A t \in prKept : s.created <= t.created}
PrEvict(s) ==
    /\ prAt = "evict" /\ PrTooMuch /\ s \in PrOldest
    /\ PrRemove(s) /\ prEvicted' = prEvicted \cup {s}

PrRemoved(s) ==
    /\ s \in prRemoving /\ prRemoving' = {}
    /\ prDisk' = [prDisk EXCEPT ![s.path] = PrNothing]
    /\ prKept' = prKept \ {s}
    /\ prTotal' = IF prAt = "evict" THEN prTotal - PrSize[s.path[1]] ELSE prTotal
    /\ UNCHANGED <<prNow, prCount, prAt, prLimit, prSince, prFound, prEvicted, prOthers>>

PrDone ==
    /\ prAt = "evict" /\ prRemoving = {} /\ ~PrTooMuch
    /\ prAt' = "done"
    /\ UNCHANGED <<prNow, prDirs, prLimit, prSince, prFound, prDoing, prOthers>>

PrNext ==
    \/ PrTick
    \/ \E e \in PrEntries : PrStore(e)
    \/ \E e \in PrEntries : PrWriteMeta(e)
    \/ \E e \in PrEntries : PrInstall(e)
    \/ \E S \in {PrPaths} \cup {{x} : x \in PrPaths} : PrOthersRemove(S)
    \/ \E l \in PrLimits : PrSweep(l)
    \/ \E x \in PrPaths : PrVisit(x)
    \/ PrWalked
    \/ PrFails
    \/ \E s \in prKept : PrExpire(s)
    \/ PrExpiredGone
    \/ \E s \in prKept : PrEvict(s)
    \/ \E s \in prKept : PrRemoved(s)
    \/ PrDone

PrSpec == PrInit /\ [][PrNext]_prVars

--------------------------------------------------------------------------------
(* Types.                                                                  *)
PrTypeOK ==
    /\ prDisk \in [PrPaths -> [copy : 0..PrMaxCopies, created : 0..PrMaxTime + 1,
                                meta : {"unwritten", "there", "gone"}]]
    /\ prAt \in {"idle", "walk", "expire", "evict", "done", "failed"}
    /\ prRemoving \subseteq prKept /\ prKept \subseteq prSeen /\ prEvicted \subseteq prSeen
    /\ prTotal \in Nat

(* A prune that ends well leaves the cache within its limits, if nothing was
   stored meanwhile: whatever other prunes had removed before it or removed
   under it, and whatever directories killed processes left. *)
PrOnDisk == {PrCandidate(x) : x \in {y \in PrPaths : prDisk[y].meta = "there"}}
PrCacheIsWithin ==
    prAt = "done" /\ prOthers # "stored" =>
        /\ \A s \in PrOnDisk, age \in prLimit.age : s.created + age >= prSince + 1
        /\ \A size \in prLimit.size : PrBytes(PrOnDisk) <= size

(* Size takes the oldest first, and no more than it must: what a prune takes
   does not fit with those it saw that are no older, and of what it saw the
   older copies are gone. *)
PrEvictsTheOldest ==
    \A s \in prEvicted :
        /\ \A t \in prSeen : t.created < s.created => prDisk[t.path].copy # t.copy
        /\ \E size \in prLimit.size : PrBytes({t \in prSeen : t.created >= s.created}) > size

PrSafety == PrCacheIsWithin /\ PrEvictsTheOldest
================================================================================

------------------------------ MODULE LocalCache ------------------------------
(***************************************************************************)
(* One entry of the local cache directory (src/cache.rs), shared by gomo   *)
(* processes that store a task's result, import it from the remote cache,  *)
(* restore it, or prune the cache.  Each process runs one operation.  The  *)
(* file system is the only thing they share: creating a directory and      *)
(* renaming one are atomic, removing one is not, and a path is resolved    *)
(* anew each time it is opened.  A process may be killed at any step.      *)
(*                                                                         *)
(* A directory is named by the process that made it, and its files hold    *)
(* that process's result: two runs of a task need not print the same.  A   *)
(* check of an entry is one step: a file it finds was there when it read   *)
(* meta.json, since files leave a directory and never enter it again.      *)
(***************************************************************************)
EXTENDS Sequences, Naturals

CONSTANTS
    Storers,        \* processes that ran the task and store its result
    Importers,      \* processes that install a bundle of the remote cache
    Restorers,      \* processes that look for a hit
    Pruners,        \* processes that shrink the cache when they start
    Earlier,        \* a process of the past, which may have left an entry
    NoProc,
    Artifacts,      \* {"archive", "stdout"} for a build, {"stdout"} for a test
    Attempts,       \* CACHE_STORE_LOCK_ATTEMPTS
    LocksAge        \* whether a lock can outlive STALE_CACHE_WORK_DIR_SECONDS

Procs == Storers \cup Importers \cup Restorers \cup Pruners
Writers == Storers \cup Importers
Makers == Writers \cup {Earlier}

ASSUME LocalCacheAssumption ==
    /\ Earlier \notin Procs /\ NoProc \notin Procs \cup {Earlier}
    (* each process runs one operation *)
    /\ Storers \cap Importers = {} /\ Restorers \cap Pruners = {}
    /\ Writers \cap (Restorers \cup Pruners) = {}
    /\ Artifacts \in {{"archive", "stdout"}, {"stdout"}}
    /\ Attempts \in Nat
    /\ LocksAge \in BOOLEAN

Files == Artifacts \cup {"meta"}

VARIABLES
    pc,
    at,             \* who made the directory at the entry's path
    dir,            \* the files left in the directory each process made
    temp,           \* the processes whose .tmp- directory is still there
    lock,           \* who created .lock-<hash>, if it exists
    aged,           \* whether that lock looks stale
    attempt,        \* the attempts each writer has made to create it
    target,         \* the directory each process is removing
    got             \* whose files a restorer has read, in order

vars == <<pc, at, dir, temp, lock, aged, attempt, target, got>>

NoTarget == [of |-> NoProc, path |-> "entry"]

Content == IF at = NoProc THEN {} ELSE dir[at]
Complete == Content = Files
Ended == {"stored", "failed", "hit", "miss", "pruned", "dead"}
Critical == {"locked", "remove", "create", "write", "install"}

Init ==
    /\ pc = [p \in Procs |-> "idle"]
    /\ at \in {NoProc, Earlier}
    /\ dir \in {d \in [Makers -> SUBSET Files] : \A p \in Writers : d[p] = {}}
    /\ temp = {}
    /\ lock = NoProc /\ aged = FALSE
    /\ attempt = [p \in Writers |-> 0]
    /\ target = [p \in Procs |-> NoTarget]
    /\ got = [r \in Restorers |-> <<>>]

Goto(p, next) == pc' = [pc EXCEPT ![p] = next]
Unlock == lock' = NoProc /\ aged' = FALSE

--------------------------------------------------------------------------------
(* Storing and importing, and the lock they share. *)

(* cleanup_stale_cache_work_dirs, on what is a day old. *)
CleansUp ==
    /\ temp' \in {temp \ old : old \in IF LocksAge THEN SUBSET temp ELSE {{}}}
    /\ IF aged THEN Unlock ELSE UNCHANGED <<lock, aged>>

StoreBegins(p) ==
    /\ pc[p] = "idle" /\ p \in Storers
    /\ \/ Complete /\ Goto(p, "stored") /\ UNCHANGED <<temp, lock, aged>>
       \/ ~Complete /\ Goto(p, "acquire") /\ CleansUp
       \/ Goto(p, "failed") /\ UNCHANGED <<temp, lock, aged>>
    /\ UNCHANGED <<at, dir, attempt, target, got>>

(* Nothing is imported but after a miss. *)
ImportMisses(p) ==
    /\ pc[p] = "idle" /\ p \in Importers
    /\ Goto(p, IF Complete THEN "hit" ELSE "import")
    /\ UNCHANGED <<at, dir, temp, lock, aged, attempt, target, got>>

(* A bundle is unpacked and validated before the lock is taken. *)
ImportBegins(p) ==
    /\ pc[p] = "import"
    /\ \/ /\ Goto(p, "acquire")
          /\ temp' = temp \cup {p}
          /\ dir' = [dir EXCEPT ![p] = Files]
       \/ Goto(p, "failed") /\ UNCHANGED <<temp, dir>>
    /\ UNCHANGED <<at, lock, aged, attempt, target, got>>

(* acquire_cache_entry_lock. *)
LockIsFree_CreateDirAll == TRUE
LockIsFree == lock = NoProc

Acquire(p) ==
    /\ pc[p] = "acquire"
    /\ LockIsFree
    /\ lock' = p /\ aged' = FALSE
    /\ Goto(p, "locked")
    /\ UNCHANGED <<at, dir, temp, attempt, target, got>>

(* The holder has stored the entry meanwhile; an import drops its own copy. *)
AcquireFindsEntry(p) ==
    /\ pc[p] = "acquire" /\ lock # NoProc
    /\ Complete
    /\ temp' = temp \ {p}
    /\ Goto(p, "stored")
    /\ UNCHANGED <<at, dir, lock, aged, attempt, target, got>>

AcquireWaits_Unbounded(p) ==
    /\ pc[p] = "acquire" /\ lock # NoProc
    /\ ~Complete /\ ~aged
    /\ attempt' = [attempt EXCEPT ![p] = @ + 1]
    /\ UNCHANGED <<pc, at, dir, temp, lock, aged, target, got>>
AcquireWaits(p) ==
    /\ pc[p] = "acquire" /\ lock # NoProc
    /\ ~Complete /\ ~aged
    /\ attempt[p] < Attempts
    /\ attempt' = [attempt EXCEPT ![p] = @ + 1]
    /\ UNCHANGED <<pc, at, dir, temp, lock, aged, target, got>>

GivesUp_Never(p) == FALSE
GivesUp(p) == attempt[p] = Attempts

(* An import's directory stays behind. *)
AcquireTimesOut(p) ==
    /\ pc[p] = "acquire" /\ lock # NoProc
    /\ ~Complete /\ ~aged
    /\ GivesUp(p)
    /\ Goto(p, "failed")
    /\ UNCHANGED <<at, dir, temp, lock, aged, attempt, target, got>>

(* Whoever finds the lock a day old removes it, a step later, and tries again;
   by then it may be another's. *)
AcquireFindsStale(p) ==
    /\ pc[p] = "acquire" /\ lock # NoProc
    /\ ~Complete /\ aged
    /\ Goto(p, "break")
    /\ UNCHANGED <<at, dir, temp, lock, aged, attempt, target, got>>

BreakLock(p) ==
    /\ pc[p] = "break"
    /\ Unlock
    /\ attempt' = [attempt EXCEPT ![p] = @ + 1]
    /\ Goto(p, IF attempt[p] < Attempts THEN "acquire" ELSE "failed")
    /\ UNCHANGED <<at, dir, temp, target, got>>

(* Under the lock a store looks again, and an import does not. *)
AlreadyStored_Never(p) == FALSE
AlreadyStored(p) == p \in Storers /\ Complete

FindEntry(p) ==
    /\ pc[p] = "locked"
    /\ AlreadyStored(p)
    /\ Goto(p, "stored")
    /\ Unlock
    /\ UNCHANGED <<at, dir, temp, attempt, target, got>>

AfterRemoval(p) == IF p \in Storers THEN "create" ELSE "install"

ReplaceEntry(p) ==
    /\ pc[p] = "locked" /\ ~AlreadyStored(p)
    /\ IF at = NoProc
          THEN Goto(p, AfterRemoval(p)) /\ UNCHANGED target
          ELSE Goto(p, "remove") /\ target' = [target EXCEPT ![p] = [of |-> at, path |-> "entry"]]
    /\ UNCHANGED <<at, dir, temp, lock, aged, attempt, got>>

(* store_successful_build's temporary directory. *)
CreateTemp(p) ==
    /\ pc[p] = "create"
    /\ temp' = temp \cup {p}
    /\ Goto(p, "write")
    /\ UNCHANGED <<at, dir, lock, aged, attempt, target, got>>

WriteTemp_MetaLast(p) ==
    /\ pc[p] = "write"
    /\ dir' = [dir EXCEPT ![p] = Files \ {"meta"}]
    /\ Goto(p, "install")
    /\ UNCHANGED <<at, temp, lock, aged, attempt, target, got>>
WriteTemp(p) ==
    /\ pc[p] = "write"
    /\ dir' = [dir EXCEPT ![p] = Files]
    /\ Goto(p, "install")
    /\ UNCHANGED <<at, temp, lock, aged, attempt, target, got>>

(* A store that cannot write tries to remove its directory, and gives up. *)
WriteFails(p) ==
    /\ pc[p] = "write"
    /\ temp' \in {temp, temp \ {p}}
    /\ Goto(p, "failed")
    /\ Unlock
    /\ UNCHANGED <<at, dir, attempt, target, got>>

(* The rename needs the directory to be there still, and nothing, or an empty
   directory, in its place.  A store that finds a complete entry keeps that. *)
CanInstall(p) == p \in temp /\ Content = {}

Install(p) ==
    /\ pc[p] = "install" /\ ~AlreadyStored(p)
    /\ CanInstall(p)
    /\ at' = p
    /\ temp' = temp \ {p}
    /\ Goto(p, "stored")
    /\ Unlock
    /\ UNCHANGED <<dir, attempt, target, got>>

InstallFindsEntry(p) ==
    /\ pc[p] = "install" /\ AlreadyStored(p)
    /\ temp' = temp \ {p}
    /\ Goto(p, "stored")
    /\ Unlock
    /\ UNCHANGED <<at, dir, attempt, target, got>>

InstallFails(p) ==
    /\ pc[p] = "install"
    /\ ~AlreadyStored(p) /\ ~CanInstall(p)
    /\ Goto(p, "failed")
    /\ Unlock
    /\ UNCHANGED <<at, dir, temp, attempt, target, got>>

--------------------------------------------------------------------------------
(* remove_path, file by file.  The directory is held open, so what is removed is
   what was found at the path; the path itself is resolved again at the end. *)
RemoveFile(p) ==
    /\ pc[p] = "remove"
    /\ \E f \in dir[target[p].of] : dir' = [dir EXCEPT ![target[p].of] = @ \ {f}]
    /\ UNCHANGED <<pc, at, temp, lock, aged, attempt, target, got>>

StillThere(t) == IF t.path = "entry" THEN at = t.of ELSE t.of \in temp

RemoveEnds(p) ==
    LET t == target[p] IN
    /\ pc[p] = "remove"
    /\ dir[t.of] = {} /\ StillThere(t)
    /\ at' = IF t.path = "entry" THEN NoProc ELSE at
    /\ temp' = IF t.path = "temp" THEN temp \ {t.of} ELSE temp
    /\ target' = [target EXCEPT ![p] = NoTarget]
    /\ Goto(p, IF p \in Pruners THEN "pruned" ELSE AfterRemoval(p))
    /\ UNCHANGED <<dir, lock, aged, attempt, got>>

RemoveFails_KeepsLock(p) ==
    /\ pc[p] = "remove"
    /\ Goto(p, "failed")
    /\ target' = [target EXCEPT ![p] = NoTarget]
    /\ UNCHANGED <<at, dir, temp, lock, aged, attempt, got>>
RemoveFails(p) ==
    /\ pc[p] = "remove"
    /\ Goto(p, "failed")
    /\ target' = [target EXCEPT ![p] = NoTarget]
    /\ IF p \in Writers THEN Unlock ELSE UNCHANGED <<lock, aged>>
    /\ UNCHANGED <<at, dir, temp, attempt, got>>

(* prepare_cache: prune_cache takes any directory with a meta.json, temporary ones
   included. *)
Prune(p) ==
    /\ pc[p] = "idle" /\ p \in Pruners
    /\ \/ \E t \in [of : Makers, path : {"entry", "temp"}] :
             /\ StillThere(t) /\ "meta" \in dir[t.of]
             /\ target' = [target EXCEPT ![p] = t]
             /\ Goto(p, "remove")
       \/ Goto(p, "pruned") /\ UNCHANGED target
    /\ CleansUp
    /\ UNCHANGED <<at, dir, attempt, got>>

--------------------------------------------------------------------------------
(* restore_successful_build, or restore_successful_output_task for a test: the
   entry is checked, and its files are then opened one after the other. *)
Reads == IF "archive" \in Artifacts THEN <<"meta", "archive", "stdout">> ELSE <<"stdout">>
NextRead(r) == Reads[Len(got[r]) + 1]

LookupHits_MetaOnly(r) == "meta" \in Content
LookupHits(r) == Complete

Lookup(r) ==
    /\ pc[r] = "idle" /\ r \in Restorers
    /\ Goto(r, IF LookupHits(r) THEN "read" ELSE "miss")
    /\ UNCHANGED <<at, dir, temp, lock, aged, attempt, target, got>>

Found(f) == f \in Content

(* A text that is gone is read as an empty one. *)
ReadFile(r) ==
    /\ pc[r] = "read"
    /\ Found(NextRead(r)) \/ NextRead(r) = "stdout"
    /\ got' = [got EXCEPT ![r] = Append(@, IF Found(NextRead(r)) THEN at ELSE NoProc)]
    /\ Goto(r, IF NextRead(r) = "stdout" THEN "hit" ELSE "read")
    /\ UNCHANGED <<at, dir, temp, lock, aged, attempt, target>>

(* A restore that cannot read its entry ends the run. *)
ReadFails(r) ==
    /\ pc[r] = "read" /\ NextRead(r) # "stdout"
    /\ ~Found(NextRead(r))
    /\ Goto(r, "failed")
    /\ UNCHANGED <<at, dir, temp, lock, aged, attempt, target, got>>

--------------------------------------------------------------------------------
Kill(p) ==
    /\ pc[p] \notin Ended \cup {"idle"}
    /\ Goto(p, "dead")
    /\ UNCHANGED <<at, dir, temp, lock, aged, attempt, target, got>>

LockAges ==
    /\ LocksAge /\ lock # NoProc
    /\ aged' = TRUE
    /\ UNCHANGED <<pc, at, dir, temp, lock, attempt, target, got>>

Write(p) ==
    \/ StoreBegins(p) \/ ImportMisses(p) \/ ImportBegins(p)
    \/ Acquire(p) \/ AcquireFindsEntry(p) \/ AcquireWaits(p) \/ AcquireTimesOut(p)
    \/ AcquireFindsStale(p) \/ BreakLock(p)
    \/ FindEntry(p) \/ ReplaceEntry(p) \/ CreateTemp(p) \/ WriteTemp(p) \/ WriteFails(p)
    \/ Install(p) \/ InstallFindsEntry(p) \/ InstallFails(p)

Remove(p) == RemoveFile(p) \/ RemoveEnds(p) \/ RemoveFails(p)
Restore(r) == Lookup(r) \/ ReadFile(r) \/ ReadFails(r)

Next ==
    \/ \E p \in Writers : Write(p)
    \/ \E p \in Pruners : Prune(p)
    \/ \E p \in Writers \cup Pruners : Remove(p)
    \/ \E r \in Restorers : Restore(r)
    \/ \E p \in Procs : Kill(p)
    \/ LockAges

Spec == Init /\ [][Next]_vars

(* A process that is not killed goes on. *)
FairSpec ==
    /\ Spec
    /\ \A p \in Writers : WF_vars(Write(p) \/ Remove(p))
    /\ \A p \in Pruners : WF_vars(Prune(p) \/ Remove(p))
    /\ \A r \in Restorers : WF_vars(Restore(r))

--------------------------------------------------------------------------------
TypeOK ==
    /\ pc \in [Procs -> Ended \cup Critical \cup {"idle", "import", "acquire", "break", "read"}]
    /\ at \in Makers \cup {NoProc}
    /\ dir \in [Makers -> SUBSET Files]
    /\ temp \subseteq Writers
    /\ lock \in Writers \cup {NoProc}
    /\ aged \in BOOLEAN
    /\ attempt \in [Writers -> 0 .. Attempts + 1]
    /\ target \in [Procs -> [of : Makers \cup {NoProc}, path : {"entry", "temp"}]]
    /\ got \in [Restorers -> Seq(Makers \cup {NoProc})]

(* While no lock ages, two processes never write the same entry. *)
InCritical(p) == p \in Writers /\ pc[p] \in Critical
OneHolder == \A p, q \in Writers : InCritical(p) /\ InCritical(q) => p = q

(* A directory only takes the entry's place once every file of it is written, so
   that a process killed while it writes never leaves half an entry behind. *)
InstalledWhole == [][at' # at /\ at' # NoProc => dir[at'] = Files]_vars

(* Stores never disturb a complete entry, whoever dies holding the lock. *)
WholeEntriesStay == [][Complete => Complete' /\ at' = at]_vars

(* README.md:302, "test cache hits replay the successful test output", and build
   hits restore it: what a hit delivers is all of one stored run. *)
HitsReplayOneRun ==
    \A r \in Restorers : pc[r] = "hit" =>
        \E p \in Makers : \A i \in 1 .. Len(got[r]) : got[r][i] = p

(* A process that was not killed leaves no lock behind, on any path. *)
LocksAreReleased == \A p \in Writers : lock = p => InCritical(p) \/ pc[p] = "dead"

(* Every operation ends, though the lock it waits for may be a dead process's. *)
OperationsEnd == \A p \in Procs : pc[p] # "idle" ~> pc[p] \in Ended
================================================================================

----------------------------- MODULE OutputRestore -----------------------------
(***************************************************************************)
(* restore_build_outputs of src/cache.rs: the cached folders of a project  *)
(* are unpacked into a directory of their own inside the project, the      *)
(* folders that are there are moved into a backup directory inside that    *)
(* one, and the unpacked ones are moved to their place; when a step fails  *)
(* the installed ones are removed and the backups moved back, as far as    *)
(* that works.  Nothing locks the project: two gomo processes may restore  *)
(* it at once.  Renaming a directory is atomic and fails when a directory  *)
(* with files is at its destination.  A process may be killed at any step. *)
(***************************************************************************)
EXTENDS Naturals, FiniteSets

CONSTANTS
    RestRestorers,      \* processes that restore the outputs of the project
    RestMaxFolders,     \* bound: how many cached folders it may have
    RestMaxFaults,      \* bound: system calls that fail for reasons of the disk
    RestOld             \* the outputs that were there before

ASSUME RestAssumption ==
    /\ RestMaxFolders \in Nat \ {0} /\ RestMaxFaults \in Nat
    /\ IsFiniteSet(RestRestorers)
    /\ RestOld \notin RestRestorers /\ "none" \notin RestRestorers \cup {RestOld}

VARIABLES
    restAt,         \* where each process is
    restIndex,      \* the folder its loop is at
    restDest,       \* whose outputs each folder holds, or "none"
    restTemp,       \* the unpacked folders in each process's work directory
    restBackup,     \* what each process has moved away, by folder
    restInstalled,  \* the folders each process has installed
    restFaults,     \* history: system calls that have failed
    restHad,        \* history: whether the project had outputs before
    restFolders     \* how many cached folders the project has, once one restores

restVars == <<restAt, restIndex, restDest, restTemp, restBackup, restInstalled, restFaults,
              restHad, restFolders>>

RestIndexes == 1..restFolders
RestAllIndexes == 1..RestMaxFolders
RestOutputs == {RestOld} \cup RestRestorers
RestEnded == {"restored", "failed", "dead"}

RestInit ==
    /\ restAt = [p \in RestRestorers |-> "idle"]
    /\ restIndex = [p \in RestRestorers |-> 1]
    /\ restDest = [i \in RestAllIndexes |-> "none"]
    /\ restTemp = [p \in RestRestorers |-> {}]
    /\ restBackup = [p \in RestRestorers |-> [i \in RestAllIndexes |-> "none"]]
    /\ restInstalled = [p \in RestRestorers |-> {}]
    /\ restFaults = 0 /\ restHad = FALSE /\ restFolders = 1

RestGo(p, next) ==
    restAt' = [restAt EXCEPT ![p] = next] /\ restIndex' = [restIndex EXCEPT ![p] = 1]
RestFault == restFaults < RestMaxFaults /\ restFaults' = restFaults + 1

(* Whoever built the project last left all its folders, or it was cleaned.  *)
RestStart(p) ==
    /\ restAt[p] = "idle" /\ RestGo(p, "unpack")
    /\ IF \A q \in RestRestorers : restAt[q] = "idle"
         THEN /\ restHad' \in BOOLEAN /\ restFolders' \in RestAllIndexes
              /\ restDest' = [i \in RestAllIndexes |->
                   IF restHad' /\ i <= restFolders' THEN RestOld ELSE "none"]
         ELSE UNCHANGED <<restDest, restHad, restFolders>>
    /\ UNCHANGED <<restTemp, restBackup, restInstalled, restFaults>>

(* unpack_build_outputs_archive, then the checks of every folder before     *)
(* anything is touched.                                                     *)
RestUnpack(p) ==
    /\ restAt[p] = "unpack"
    /\ \/ /\ restTemp' = [restTemp EXCEPT ![p] = RestIndexes] /\ RestGo(p, "look")
          /\ UNCHANGED restFaults
       \/ /\ RestFault /\ RestGo(p, "fail") /\ UNCHANGED restTemp
    /\ UNCHANGED <<restDest, restBackup, restInstalled>>

(* One round of the loop that moves the existing folders away: look, then   *)
(* rename.  In between another process may have moved the folder.           *)
RestNextIndex(p, next, after) ==
    IF restIndex[p] < restFolders
      THEN /\ restAt' = [restAt EXCEPT ![p] = next]
           /\ restIndex' = [restIndex EXCEPT ![p] = @ + 1]
      ELSE RestGo(p, after)

RestLook(p) ==
    /\ restAt[p] = "look"
    /\ IF restDest[restIndex[p]] = "none" THEN RestNextIndex(p, "look", "install")
       ELSE restAt' = [restAt EXCEPT ![p] = "move"] /\ UNCHANGED restIndex
    /\ UNCHANGED <<restDest, restTemp, restBackup, restInstalled, restFaults>>

RestMoveAway(p) ==
    LET i == restIndex[p] IN
    /\ restAt[p] = "move"
    /\ \/ /\ restDest[i] # "none"
          /\ restBackup' = [restBackup EXCEPT ![p][i] = restDest[i]]
          /\ restDest' = [restDest EXCEPT ![i] = "none"]
          /\ RestNextIndex(p, "look", "install") /\ UNCHANGED restFaults
       \/ /\ \/ restDest[i] = "none" /\ UNCHANGED restFaults
             \/ RestFault
          /\ RestGo(p, "undo") /\ UNCHANGED <<restBackup, restDest>>
    /\ UNCHANGED <<restTemp, restInstalled>>

RestInstall(p) ==
    LET i == restIndex[p] IN
    /\ restAt[p] = "install"
    /\ \/ /\ restDest[i] = "none"
          /\ restDest' = [restDest EXCEPT ![i] = p]
          /\ restTemp' = [restTemp EXCEPT ![p] = @ \ {i}]
          /\ restInstalled' = [restInstalled EXCEPT ![p] = @ \cup {i}]
          /\ RestNextIndex(p, "install", "clean") /\ UNCHANGED restFaults
       \/ /\ \/ restDest[i] # "none" /\ UNCHANGED restFaults
             \/ RestFault
          /\ RestGo(p, "undo") /\ UNCHANGED <<restDest, restTemp, restInstalled>>
    /\ UNCHANGED restBackup

(* The way back: remove what was installed, in reverse, ignoring failures.  *)
RestUndo(p) ==
    /\ restAt[p] = "undo"
    /\ IF restInstalled[p] = {}
         THEN RestGo(p, "putBack") /\ UNCHANGED <<restDest, restInstalled, restFaults>>
         ELSE \E i \in restInstalled[p] :
              /\ \A k \in restInstalled[p] : k <= i
              /\ restInstalled' = [restInstalled EXCEPT ![p] = @ \ {i}]
              /\ \/ restDest' = [restDest EXCEPT ![i] = "none"] /\ UNCHANGED restFaults
                 \/ RestFault /\ UNCHANGED restDest
              /\ UNCHANGED <<restAt, restIndex>>
    /\ UNCHANGED <<restTemp, restBackup>>

(* Then move the backups back, in reverse, to every place that is free.     *)
RestMayPutBack_Never(p, i) == FALSE
RestMayPutBack(p, i) == restDest[i] = "none"
RestPutBack(p) ==
    LET waiting == {i \in RestIndexes : restBackup[p][i] # "none" /\ i >= restIndex[p]} IN
    /\ restAt[p] = "putBack"
    /\ IF waiting = {} THEN RestGo(p, "fail") /\ UNCHANGED <<restDest, restBackup, restFaults>>
       ELSE \E i \in waiting :
            /\ \A k \in waiting : k >= i
            /\ \/ /\ RestMayPutBack(p, i)
                  /\ restDest' = [restDest EXCEPT ![i] = restBackup[p][i]]
                  /\ restBackup' = [restBackup EXCEPT ![p][i] = "none"]
                  /\ UNCHANGED restFaults
               \/ /\ \/ ~RestMayPutBack(p, i) /\ UNCHANGED restFaults
                     \/ RestFault
                  /\ UNCHANGED <<restDest, restBackup>>
            /\ restIndex' = [restIndex EXCEPT ![p] = i + 1] /\ UNCHANGED restAt
    /\ UNCHANGED <<restTemp, restInstalled>>

(* The work directory goes with everything in it, the backups too; if that  *)
(* fails it stays and so does the error.  Then the paths in the outputs are *)
(* rewritten when they were stored from another checkout.                   *)
RestClean(p) ==
    /\ restAt[p] \in {"clean", "fail"}
    /\ \/ /\ restTemp' = [restTemp EXCEPT ![p] = {}]
          /\ restBackup' = [restBackup EXCEPT ![p] = [i \in RestAllIndexes |-> "none"]]
          /\ RestGo(p, IF restAt[p] = "clean" THEN "relocate" ELSE "failed")
          /\ UNCHANGED restFaults
       \/ /\ RestFault /\ RestGo(p, "failed") /\ UNCHANGED <<restTemp, restBackup>>
    /\ UNCHANGED <<restDest, restInstalled>>

RestRelocate(p) ==
    /\ restAt[p] = "relocate"
    /\ \/ RestGo(p, "restored") /\ UNCHANGED restFaults
       \/ RestFault /\ RestGo(p, "failed")
    /\ UNCHANGED <<restDest, restTemp, restBackup, restInstalled>>

RestKill(p) ==
    /\ restAt[p] \notin RestEnded \cup {"idle"} /\ RestFault /\ RestGo(p, "dead")
    /\ UNCHANGED <<restDest, restTemp, restBackup, restInstalled>>

RestFixed == UNCHANGED <<restHad, restFolders>>
RestStep(p) ==
    \/ RestStart(p)
    \/ RestFixed /\ RestUnpack(p)
    \/ RestFixed /\ RestLook(p)
    \/ RestFixed /\ RestMoveAway(p)
    \/ RestFixed /\ RestInstall(p)
    \/ RestFixed /\ RestUndo(p)
    \/ RestFixed /\ RestPutBack(p)
    \/ RestFixed /\ RestClean(p)
    \/ RestFixed /\ RestRelocate(p)
    \/ RestFixed /\ RestKill(p)

RestNext == \E p \in RestRestorers : RestStep(p)
RestSpec == RestInit /\ [][RestNext]_restVars

--------------------------------------------------------------------------------
RestTypeOK ==
    /\ restAt \in [RestRestorers -> RestEnded \cup
         {"idle", "unpack", "look", "move", "install", "undo", "putBack", "clean", "fail",
          "relocate"}]
    /\ restIndex \in [RestRestorers -> 1..(RestMaxFolders + 1)]
    /\ restDest \in [RestAllIndexes -> RestOutputs \cup {"none"}]
    /\ restTemp \in [RestRestorers -> SUBSET RestAllIndexes]
    /\ restBackup \in [RestRestorers -> [RestAllIndexes -> RestOutputs \cup {"none"}]]
    /\ restInstalled \in [RestRestorers -> SUBSET RestAllIndexes]
    /\ restFaults \in 0..RestMaxFaults /\ restHad \in BOOLEAN
    /\ restFolders \in RestAllIndexes

RestStarted == {p \in RestRestorers : restAt[p] # "idle"}
RestAllEnded == \A p \in RestRestorers : restAt[p] \in {"restored", "failed", "idle"}

(* The folders of a project go together.  A restore that has the project to *)
(* itself leaves all folders of the old build or all of the restored one    *)
(* when it ends, if at most one system call fails.  Restores that run at    *)
(* once may take folders from each other; when a project has one folder,    *)
(* as by default, it is there when they have ended, and is a restored one   *)
(* if they were two.  (Of three, one may move away what another has         *)
(* installed while the third, which could not install, puts the old outputs *)
(* back.)                                                                   *)
RestOneBuild ==
    RestAllEnded /\ RestStarted # {} =>
      /\ restFaults <= 1 /\ Cardinality(RestStarted) = 1
           => Cardinality({restDest[i] : i \in RestIndexes}) = 1
      /\ restFaults = 0 /\ restFolders = 1
           => /\ restDest[1] # "none"
              /\ Cardinality(RestStarted) <= 2 => restDest[1] \in RestRestorers

(* Even a process that is killed leaves every folder of the old build where *)
(* it was, or in its work directory, until its own folders are all in place.*)
RestNothingIsLost ==
    \A p \in RestRestorers, i \in RestIndexes :
      RestStarted = {p} /\ restFaults <= 1 /\ restHad =>
        \/ restDest[i] = RestOld \/ restBackup[p][i] = RestOld
        \/ \A j \in RestIndexes : restDest[j] = p

RestSafety == RestOneBuild /\ RestNothingIsLost
================================================================================

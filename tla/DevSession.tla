------------------------------- MODULE DevSession -------------------------------
(***************************************************************************)
(* `gomo dev` (src/commands/dev.rs): build a project, start its            *)
(* development process, then watch; on a change, build again and restart   *)
(* the process only if the build succeeded.  It runs on its own, with      *)
(* Watchexec owning the process and the keyboard, or on a surface of a     *)
(* persistent task, which cancels it.                                      *)
(*                                                                         *)
(* The sources of the project and its dependencies are one version number; *)
(* a layout is what the manifests say: whether discovery succeeds and      *)
(* finds the project, where it is and what its command is.                 *)
(***************************************************************************)
EXTENDS Integers, Sequences

CONSTANTS
    DvLayouts,      \* what the manifests may say: [valid, root, command]
    DvMaxEdits      \* bound: how many times the user edits something

ASSUME DvAssumption ==
    /\ DvMaxEdits \in Nat
    /\ \A l \in DvLayouts : l.valid \in BOOLEAN

VARIABLES
    dvAt,           \* where the session is
    dvSurface,      \* it runs under a persistent task
    dvGiven,        \* the command was given on the command line
    dvDisk,         \* the layout on disk
    dvHeld,         \* the layout the session holds
    dvVersion,      \* the version of the sources
    dvGood,         \* the version the last good build read
    dvFailed,       \* the version the last failed build read, -1 for none
    dvBuild,        \* the layout and the first version of the build that runs
    dvProcess,      \* the development process: [running, root, command]
    dvWatched,      \* the watcher sees file events
    dvQueue,        \* the batches in the channel
    dvCancelled,    \* the session was asked to end
    dvUnseen,       \* history: something changed before the watcher saw it
    dvMissed,       \* history: a build with a changed layout failed
    dvEdits         \* how many edits there have been

dvVars == <<dvAt, dvSurface, dvGiven, dvDisk, dvHeld, dvVersion, dvGood, dvFailed, dvBuild,
            dvProcess, dvWatched, dvQueue, dvCancelled, dvUnseen, dvMissed, dvEdits>>

DvNone == [valid |-> FALSE, root |-> "none", command |-> "none"]
DvNoBuild == [layout |-> DvNone, from |-> 0, structural |-> FALSE]
DvNoBatch == [source |-> FALSE, structural |-> FALSE, stopped |-> FALSE]

(* development_command *)
DvCommand(l) == IF dvGiven THEN "given" ELSE l.command
DvProcessOf(l) == [running |-> TRUE, root |-> l.root, command |-> DvCommand(l)]
DvStopped == [dvProcess EXCEPT !.running = FALSE]

--------------------------------------------------------------------------------
DvInit ==
    /\ dvAt = "idle" /\ dvSurface = FALSE /\ dvGiven = FALSE /\ dvDisk = DvNone /\ dvHeld = DvNone
    /\ dvVersion = 0 /\ dvGood = 0 /\ dvFailed = -1 /\ dvBuild = DvNoBuild
    /\ dvProcess = [running |-> FALSE, root |-> "none", command |-> "none"]
    /\ dvWatched = FALSE /\ dvQueue = <<>> /\ dvCancelled = FALSE
    /\ dvUnseen = FALSE /\ dvMissed = FALSE /\ dvEdits = 0

DvSame == UNCHANGED <<dvSurface, dvGiven, dvDisk, dvVersion, dvWatched, dvUnseen, dvEdits>>
DvSameSession == UNCHANGED <<dvAt, dvSurface, dvGiven, dvHeld, dvGood, dvFailed, dvBuild, dvProcess, dvMissed>>

(* run: the first build. *)
DvOpen ==
    /\ dvAt = "idle"
    /\ dvSurface' \in BOOLEAN /\ dvGiven' \in BOOLEAN
    /\ dvDisk' \in {l \in DvLayouts : l.valid}
    /\ dvHeld' = dvDisk' /\ dvAt' = "first"
    /\ dvBuild' = [layout |-> dvDisk', from |-> 0, structural |-> FALSE]
    /\ UNCHANGED <<dvVersion, dvGood, dvFailed, dvProcess, dvWatched, dvQueue, dvCancelled,
                   dvUnseen, dvMissed, dvEdits>>

--------------------------------------------------------------------------------
(* The world.  Events are debounced: a change joins the last batch or makes
   a new one. *)
DvLive == dvAt \notin {"idle", "ended"}

DvSend(b) ==
    \/ dvQueue' = Append(dvQueue, b)
    \/ /\ dvQueue # <<>>
       /\ LET last == dvQueue[Len(dvQueue)]
          IN  dvQueue' = [dvQueue EXCEPT ![Len(dvQueue)] =
                 [source |-> last.source \/ b.source, structural |-> last.structural \/ b.structural,
                  stopped |-> last.stopped \/ b.stopped]]

DvEdit(b) ==
    /\ DvLive /\ dvEdits < DvMaxEdits
    /\ dvEdits' = dvEdits + 1
    /\ IF dvWatched THEN DvSend(b) ELSE UNCHANGED dvQueue
    /\ dvUnseen' = (dvUnseen \/ (~dvWatched /\ b # DvNoBatch))
    /\ DvSameSession /\ UNCHANGED <<dvWatched, dvCancelled>>

DvEditSource ==
    /\ DvEdit([DvNoBatch EXCEPT !.source = TRUE])
    /\ dvVersion' = dvVersion + 1 /\ UNCHANGED dvDisk
(* A file the project is not built from. *)
DvEditOther == DvEdit(DvNoBatch) /\ UNCHANGED <<dvVersion, dvDisk>>
DvEditManifest(l) ==
    /\ DvEdit([DvNoBatch EXCEPT !.structural = TRUE])
    /\ dvDisk' = l /\ UNCHANGED dvVersion

(* The watcher is started after the first build and the process. *)
DvWatch ==
    /\ dvAt \in {"loop", "building"} /\ ~dvWatched
    /\ dvWatched' = TRUE
    /\ DvSameSession /\ UNCHANGED <<dvDisk, dvVersion, dvQueue, dvCancelled, dvUnseen, dvEdits>>

(* A signal or q, which Watchexec's handler turns into the cancellation and
   a last batch; a surface is cancelled by its owner, without a batch. *)
DvAskToQuit ==
    /\ DvLive /\ ~dvCancelled
    /\ dvCancelled' = TRUE
    /\ \/ dvSurface /\ UNCHANGED dvQueue
       \/ dvWatched /\ DvSend([DvNoBatch EXCEPT !.stopped = TRUE])
    /\ DvSameSession /\ UNCHANGED <<dvDisk, dvVersion, dvWatched, dvUnseen, dvEdits>>

DvProcessExits ==
    /\ dvProcess.running /\ DvLive
    /\ dvProcess' = DvStopped
    /\ DvSame /\ UNCHANGED <<dvAt, dvHeld, dvGood, dvFailed, dvBuild, dvQueue, dvCancelled, dvMissed>>

--------------------------------------------------------------------------------
(* The builds.  A build reads its sources at some time while it runs.  A
   build that ends after the cancellation counts as failed. *)
DvReads(v) == v \in dvBuild.from..dvVersion

DvFirstBuild ==
    /\ dvAt = "first"
    /\ \/ /\ ~(dvSurface /\ dvCancelled)
          /\ \E v \in 0..dvVersion : DvReads(v) /\ dvGood' = v
          /\ dvProcess' = DvProcessOf(dvHeld) /\ dvAt' = "loop"
       \/ dvAt' = "ended" /\ UNCHANGED <<dvGood, dvProcess>>
    /\ dvBuild' = DvNoBuild
    /\ DvSame /\ UNCHANGED <<dvHeld, dvFailed, dvQueue, dvCancelled, dvMissed>>

(* should_recreate_job; on a surface the process is always made again. *)
DvRecreates_OnMove(old, new) == old.root # new.root    \* mutant: not for a new command
DvRecreates(old, new) == old.root # new.root \/ DvCommand(old) # DvCommand(new)

DvBuildSucceeds ==
    /\ dvAt = "building" /\ ~dvCancelled
    /\ \E v \in 0..dvVersion : DvReads(v) /\ dvGood' = v
    /\ dvHeld' = dvBuild.layout
    /\ dvProcess' = IF dvSurface \/ DvRecreates(dvHeld, dvBuild.layout)
                    THEN DvProcessOf(dvBuild.layout)
                    ELSE [dvProcess EXCEPT !.running = TRUE]
    /\ dvBuild' = DvNoBuild /\ dvAt' = "loop"
    /\ DvSame /\ UNCHANGED <<dvFailed, dvQueue, dvCancelled, dvMissed>>

(* The process, and the layout the session held before, are kept. *)
DvBuildFails ==
    /\ dvAt = "building"
    /\ \E v \in 0..dvVersion : DvReads(v) /\ dvFailed' = v
    /\ dvMissed' = (dvMissed \/ dvBuild.structural)
    /\ dvBuild' = DvNoBuild /\ dvAt' = "loop"
    /\ DvSame /\ UNCHANGED <<dvHeld, dvGood, dvProcess, dvQueue, dvCancelled>>

--------------------------------------------------------------------------------
(* The select loop: whatever is ready first.                               *)
DvEnd == dvAt' = "ended" /\ UNCHANGED <<dvHeld, dvGood, dvFailed, dvBuild, dvCancelled, dvMissed>>

DvNoticeExit ==
    /\ dvAt = "loop" /\ ~dvProcess.running
    /\ DvEnd /\ DvSame /\ UNCHANGED <<dvProcess, dvQueue>>

(* The surface is polled, and Watchexec may end by itself. *)
DvStopProcess ==
    /\ dvAt = "loop"
    /\ dvProcess' = DvStopped
    /\ DvEnd /\ DvSame

DvNoticeCancel == dvSurface /\ dvCancelled /\ DvStopProcess /\ UNCHANGED dvQueue
DvWatcherEnds == dvWatched /\ DvStopProcess /\ UNCHANGED dvQueue

DvTake == dvAt = "loop" /\ dvQueue # <<>> /\ dvQueue' = Tail(dvQueue)
DvBatch == Head(dvQueue)
DvEnding == DvBatch.stopped \/ (dvSurface /\ dvCancelled)

DvTakeStop == DvTake /\ DvEnding /\ DvStopProcess

(* handle_batch.  A manifest that cannot be read ends the session: dropping
   the job kills its process, a process of a surface is left to its owner. *)
DvTakeBroken ==
    /\ DvTake /\ ~DvEnding /\ DvBatch.structural /\ ~dvDisk.valid
    /\ dvProcess' = IF dvSurface THEN dvProcess ELSE DvStopped
    /\ DvEnd /\ DvSame

DvTakeOther ==
    /\ DvTake /\ ~DvEnding /\ ~DvBatch.structural /\ ~DvBatch.source
    /\ DvSame
    /\ UNCHANGED <<dvAt, dvHeld, dvGood, dvFailed, dvBuild, dvProcess, dvCancelled, dvMissed>>

DvTakeChange ==
    /\ DvTake /\ ~DvEnding
    /\ \/ DvBatch.structural /\ dvDisk.valid
       \/ ~DvBatch.structural /\ DvBatch.source
    /\ dvBuild' = [layout |-> IF DvBatch.structural THEN dvDisk ELSE dvHeld,
                   from |-> dvVersion, structural |-> DvBatch.structural]
    /\ dvAt' = "building"
    /\ DvSame /\ UNCHANGED <<dvHeld, dvGood, dvFailed, dvProcess, dvCancelled, dvMissed>>

(* The failed step of the persistent task cancels the session, which the
   process of the surface is linked to. *)
DvOwnerCleansUp ==
    /\ dvAt = "ended" /\ dvSurface /\ dvProcess.running
    /\ dvProcess' = DvStopped
    /\ DvSame /\ UNCHANGED <<dvAt, dvHeld, dvGood, dvFailed, dvBuild, dvQueue, dvCancelled, dvMissed>>

DvNext ==
    \/ DvOpen
    \/ DvEditSource
    \/ DvEditOther
    \/ \E l \in DvLayouts : DvEditManifest(l)
    \/ DvWatch
    \/ DvAskToQuit
    \/ DvProcessExits
    \/ DvFirstBuild
    \/ DvBuildSucceeds
    \/ DvBuildFails
    \/ DvNoticeExit
    \/ DvNoticeCancel
    \/ DvWatcherEnds
    \/ DvTakeStop
    \/ DvTakeBroken
    \/ DvTakeOther
    \/ DvTakeChange
    \/ DvOwnerCleansUp

DvSpec == DvInit /\ [][DvNext]_dvVars

--------------------------------------------------------------------------------
(* Types.                                                                  *)
DvTypeOK ==
    /\ dvAt \in {"idle", "first", "loop", "building", "ended"}
    /\ dvDisk \in DvLayouts \cup {DvNone} /\ dvHeld \in DvLayouts \cup {DvNone}
    /\ dvVersion \in 0..DvMaxEdits /\ dvGood \in 0..dvVersion /\ dvFailed \in -1..dvVersion
    /\ dvBuild # DvNoBuild => dvAt \in {"first", "building"}
    /\ dvProcess.running \in BOOLEAN /\ dvEdits \in 0..DvMaxEdits

(* The process runs the command, in the directory, that the layout of the
   last good build configures. *)
DvProcessIsConfigured ==
    dvAt \in {"loop", "building"} =>
        /\ dvProcess.root = dvHeld.root
        /\ dvProcess.command = DvCommand(dvHeld)

(* A session that waits, with no event on its way, has built the sources as
   they are, or said that they do not build, and holds the layout on disk:
   what changes while a build runs is built again.  (Not so for a change
   before the watcher was started, nor, for the layout, after a build of a
   changed layout has failed: see dvUnseen and dvMissed.) *)
DvNoEditIsLost ==
    dvAt = "loop" /\ dvQueue = <<>> /\ ~dvUnseen /\ ~dvCancelled =>
        /\ dvGood = dvVersion \/ dvFailed = dvVersion
        /\ dvMissed \/ dvHeld = dvDisk

(* No session leaves its process behind, but one on a surface that ends for
   a manifest it cannot read: that process is its owner's to stop. *)
DvProcessEnds ==
    dvAt = "ended" /\ dvProcess.running => dvSurface /\ ~dvDisk.valid

DvSafety == DvProcessIsConfigured /\ DvNoEditIsLost /\ DvProcessEnds
================================================================================

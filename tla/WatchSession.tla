------------------------------ MODULE WatchSession ------------------------------
(***************************************************************************)
(* `gomo watch` (src/commands/watch.rs).  Watchexec gathers file events    *)
(* and sends them in batches through a channel; a worker takes one batch   *)
(* at a time, refreshes the workspace when a manifest changed, and runs a  *)
(* cycle: the tasks of the affected projects, or a callback command.  The  *)
(* terminal and the signals end the session through a flag, a cancellation *)
(* and a last batch.                                                       *)
(*                                                                         *)
(* A file is known by its project; a layout is what the manifests on disk  *)
(* say.  The session keeps the layout it last read.                        *)
(***************************************************************************)
EXTENDS Naturals, FiniteSets, Sequences

CONSTANTS
    WtProjects,     \* the names of projects
    WtLayouts,      \* what the manifests may say: see WtIsLayout
    WtRequests,     \* command lines: see WtIsRequest
    WtMaxEdits      \* bound: how many times the user edits something

(* valid: discovery succeeds.  upstream: the dependencies of a build.
   callback: the `watch` command configured for the selected project. *)
WtIsLayout(l) ==
    /\ l = [valid |-> l.valid, projects |-> l.projects, upstream |-> l.upstream,
            callback |-> l.callback]
    /\ l.valid \in BOOLEAN /\ l.projects \subseteq WtProjects
    /\ l.upstream \in [l.projects -> SUBSET l.projects]
    /\ l.callback \in {"none", "command", "blank"}
(* select: the one project of --project, or {} for all of them.
   by: --target, a callback command, or what is configured. *)
WtIsRequest(r) ==
    /\ r.select \subseteq WtProjects /\ Cardinality(r.select) <= 1
    /\ r.by \in {"target", "command", "configured"}
    /\ r.withDeps \in BOOLEAN /\ r.initialRun \in BOOLEAN

ASSUME WtAssumption ==
    /\ WtMaxEdits \in Nat /\ IsFiniteSet(WtProjects)
    /\ \A l \in WtLayouts : WtIsLayout(l)
    /\ \A r \in WtRequests : WtIsRequest(r)

VARIABLES
    wtAt,           \* where the worker is
    wtRequest,      \* the command line
    wtDisk,         \* the layout the manifests on disk describe
    wtHeld,         \* the layout and callback the session works with
    wtReady,        \* the watcher sees file events
    wtGathered,     \* the events Watchexec is still debouncing
    wtQueue,        \* the batches in the channel
    wtOpen,         \* the channel still has a sender
    wtQuit,         \* "no", "flagged" (flag and cancellation set) or "sent"
    wtCycle,        \* the projects, or the callback, the cycle has still to run
    wtStale,        \* history: projects whose inputs changed since they last ran
    wtUnseen,       \* history: an edit that no batch and no first run can show
    wtEdits         \* how many edits there have been

wtVars == <<wtAt, wtRequest, wtDisk, wtHeld, wtReady, wtGathered, wtQueue, wtOpen,
            wtQuit, wtCycle, wtStale, wtUnseen, wtEdits>>

WtNoFiles == [files |-> {}, structural |-> FALSE, stopped |-> FALSE]
WtNoCycle == [projects |-> {}, callback |-> FALSE]
WtNoLayout == [valid |-> FALSE, projects |-> {}, upstream |-> <<>>, callback |-> "none"]

--------------------------------------------------------------------------------
(* S with everyone it depends on, and with everyone who depends on it. *)
WtWithUpstream(l, S) ==
    {p \in l.projects : \A T \in SUBSET l.projects :
        (S \subseteq T /\ \A q \in T : l.upstream[q] \subseteq T) => p \in T}
WtWithDownstream(l, S) == {p \in l.projects : WtWithUpstream(l, {p}) \cap S # {}}

WtNames(l) == IF wtRequest.select = {} THEN l.projects ELSE wtRequest.select
WtPermitted(l) == WtWithUpstream(l, WtNames(l))
WtSelected(l) == IF wtRequest.withDeps THEN WtPermitted(l) ELSE WtNames(l)
WtAffected(l, files) == WtWithDownstream(l, files \cap l.projects) \cap WtPermitted(l)

(* resolve_callback *)
WtCallback(l) ==
    CASE wtRequest.by = "target" -> "none"
      [] wtRequest.by = "command" -> "command"
      [] OTHER -> IF wtRequest.select = {} THEN "none" ELSE l.callback

(* discover_from, ProjectGraph::build and the selection succeed. *)
WtRefreshable(l) == l.valid /\ wtRequest.select \subseteq l.projects

--------------------------------------------------------------------------------
WtInit ==
    /\ wtAt = "idle" /\ wtRequest \in {<<>>} /\ wtDisk = WtNoLayout /\ wtHeld = WtNoLayout
    /\ wtReady = FALSE /\ wtGathered = WtNoFiles /\ wtQueue = <<>> /\ wtOpen = TRUE
    /\ wtQuit = "no" /\ wtCycle = WtNoCycle /\ wtStale = {} /\ wtUnseen = FALSE /\ wtEdits = 0

WtSameWorld == UNCHANGED <<wtRequest, wtDisk, wtReady, wtGathered, wtOpen, wtQuit, wtUnseen, wtEdits>>
WtSameWorker == UNCHANGED <<wtAt, wtRequest, wtHeld, wtCycle>>

(* run: everything is resolved once before the terminal is entered. *)
WtOpenSession ==
    /\ wtAt = "idle"
    /\ wtRequest' \in WtRequests /\ wtDisk' \in WtLayouts
    /\ WtRefreshable(wtDisk)' /\ WtCallback(wtDisk)' # "blank"
    /\ wtHeld' = wtDisk'
    /\ wtAt' = "starting" /\ wtStale' = wtDisk'.projects
    /\ UNCHANGED <<wtReady, wtGathered, wtQueue, wtOpen, wtQuit, wtCycle, wtUnseen, wtEdits>>

--------------------------------------------------------------------------------
(* The world: the user, Watchexec and the signals.                         *)
WtWorking == wtAt \notin {"idle", "ended"}

WtEdit(files, structural) ==
    /\ WtWorking /\ wtEdits < WtMaxEdits
    /\ wtEdits' = wtEdits + 1
    /\ wtGathered' = IF wtReady /\ wtOpen
                     THEN [files |-> wtGathered.files \cup files,
                           structural |-> wtGathered.structural \/ structural,
                           stopped |-> wtGathered.stopped]
                     ELSE wtGathered
    /\ wtUnseen' = (wtUnseen \/ ~wtOpen \/ (~wtReady /\ (structural \/ ~wtRequest.initialRun)))
    /\ WtSameWorker /\ UNCHANGED <<wtReady, wtQueue, wtOpen, wtQuit>>

WtEditSource(p) ==
    /\ p \in wtDisk.projects
    /\ WtEdit({p}, FALSE)
    /\ wtStale' = wtStale \cup WtWithDownstream(wtDisk, {p})
    /\ UNCHANGED wtDisk

WtEditManifest(l) ==
    /\ WtEdit({}, TRUE)
    /\ wtDisk' = l /\ wtStale' = wtStale \cup l.projects

WtWatcherReady ==
    /\ WtWorking /\ ~wtReady
    /\ wtReady' = TRUE
    /\ WtSameWorker /\ UNCHANGED <<wtDisk, wtGathered, wtQueue, wtOpen, wtQuit, wtStale, wtUnseen, wtEdits>>

(* The throttle has passed.  What the tasks wrote themselves, or was only
   read, makes a batch without an actionable path. *)
WtDeliver ==
    /\ WtWorking /\ wtOpen /\ wtReady
    /\ wtGathered # WtNoFiles \/ (wtCycle # WtNoCycle /\ wtQueue = <<>>)
    /\ wtQueue' = Append(wtQueue, wtGathered)
    /\ wtGathered' = WtNoFiles
    /\ WtSameWorker /\ UNCHANGED <<wtDisk, wtReady, wtOpen, wtQuit, wtStale, wtUnseen, wtEdits>>

(* A quit key or a signal: the flag and the cancellation, then the batch. *)
WtAskToQuit ==
    /\ WtWorking /\ wtQuit = "no" /\ wtOpen
    /\ wtQuit' = "flagged"
    /\ WtSameWorker /\ UNCHANGED <<wtDisk, wtReady, wtGathered, wtQueue, wtOpen, wtStale, wtUnseen, wtEdits>>

WtSendStop ==
    /\ WtWorking /\ wtQuit = "flagged"
    /\ wtQuit' = "sent"
    /\ wtQueue' = Append(wtQueue, [WtNoFiles EXCEPT !.stopped = TRUE])
    /\ WtSameWorker /\ UNCHANGED <<wtDisk, wtReady, wtGathered, wtOpen, wtStale, wtUnseen, wtEdits>>

(* Watchexec fails: its handle is dropped, and with it the senders. *)
WtWatcherFails ==
    /\ WtWorking /\ wtOpen /\ wtQuit = "no"
    /\ wtOpen' = FALSE
    /\ wtUnseen' = (wtUnseen \/ wtGathered # WtNoFiles)
    /\ wtGathered' = WtNoFiles
    /\ WtSameWorker /\ UNCHANGED <<wtDisk, wtReady, wtQueue, wtQuit, wtStale, wtEdits>>

--------------------------------------------------------------------------------
(* run_loop                                                                *)
WtStopped == wtQuit # "no"
WtGo(at) == wtAt' = at /\ UNCHANGED <<wtHeld, wtCycle, wtStale>>

(* run_cycle: the callback, or the tasks of the affected projects. *)
WtStartCycle(l, files) ==
    LET todo == IF files = {} THEN WtSelected(l)
                ELSE WtAffected(l, files) \cap WtSelected(l)
    IN  IF WtCallback(l) = "command"
        THEN wtCycle' = [projects |-> {}, callback |-> TRUE] /\ wtAt' = "cycle"
        ELSE /\ wtCycle' = [projects |-> todo, callback |-> FALSE]
             /\ wtAt' = IF todo = {} THEN "loop" ELSE "cycle"

(* The worker waits for the watcher, looking at the flag every 50 ms; *)
WtMayBegin_AtOnce == TRUE                   \* mutant: the first run does not wait
WtMayBegin == wtReady
WtBegin ==
    /\ wtAt = "starting" /\ ~WtStopped /\ WtMayBegin
    /\ IF wtRequest.initialRun
       THEN WtStartCycle(wtHeld, {})
       ELSE wtAt' = "loop" /\ UNCHANGED wtCycle
    /\ wtStale' = IF wtRequest.initialRun THEN wtStale ELSE {}
    /\ WtSameWorld /\ UNCHANGED <<wtHeld, wtQueue>>

WtLeave ==
    /\ \/ wtAt = "starting" /\ (WtStopped \/ (~wtOpen /\ ~wtReady))
       \/ wtAt = "loop" /\ WtStopped
    /\ WtGo("ended")
    /\ WtSameWorld /\ UNCHANGED wtQueue

WtBlock ==
    /\ wtAt = "loop" /\ ~WtStopped
    /\ WtGo("receive")
    /\ WtSameWorld /\ UNCHANGED wtQueue

(* recv fails when the channel is empty and has no sender. *)
WtDisconnected ==
    /\ wtAt = "receive" /\ wtQueue = <<>> /\ ~wtOpen
    /\ WtGo("ended")
    /\ WtSameWorld /\ UNCHANGED wtQueue

WtTake == wtAt = "receive" /\ wtQueue # <<>> /\ wtQueue' = Tail(wtQueue) /\ WtSameWorld
WtBatch == Head(wtQueue)
WtEnding == WtBatch.stopped \/ WtStopped

WtTakeStop == WtTake /\ WtEnding /\ WtGo("ended")

WtTakeNothing == WtTake /\ ~WtEnding /\ WtBatch = WtNoFiles /\ WtGo("loop")

(* A manifest changed: everything is read again, and everything selected is
   run (the callback gets the files).  A layout that cannot be read is
   reported and the old one kept; so is a callback, but with the new layout. *)
WtTakeStructural ==
    /\ WtTake /\ ~WtEnding /\ WtBatch.structural
    /\ UNCHANGED wtStale
    /\ \/ /\ ~WtRefreshable(wtDisk)
          /\ wtAt' = "loop" /\ UNCHANGED <<wtHeld, wtCycle>>
       \/ /\ WtRefreshable(wtDisk)
          /\ IF WtCallback(wtDisk) = "blank"
             THEN /\ wtHeld' = [wtDisk EXCEPT !.callback = wtHeld.callback]
                  /\ wtAt' = "loop" /\ UNCHANGED wtCycle
             ELSE /\ wtHeld' = wtDisk
                  /\ WtStartCycle(wtDisk, {})

(* Sources changed: the affected projects, as the held layout sees them. *)
WtTakeFiles ==
    /\ WtTake /\ ~WtEnding /\ ~WtBatch.structural /\ WtBatch.files # {}
    /\ UNCHANGED <<wtHeld, wtStale>>
    /\ IF WtAffected(wtHeld, WtBatch.files) = {}
       THEN wtAt' = "loop" /\ UNCHANGED wtCycle
       ELSE WtStartCycle(wtHeld, WtBatch.files)

--------------------------------------------------------------------------------
(* The cycle.  A task reads its inputs; tasks end in any order the scheduler
   allows. *)
WtRunTask(p) ==
    /\ wtAt = "cycle" /\ p \in wtCycle.projects
    /\ (WtWithUpstream(wtHeld, {p}) \ {p}) \cap wtCycle.projects = {}
    /\ wtStale' = wtStale \ {p}
    /\ wtCycle' = [wtCycle EXCEPT !.projects = @ \ {p}]
    /\ wtAt' = IF wtCycle'.projects = {} THEN "loop" ELSE "cycle"
    /\ WtSameWorld /\ UNCHANGED <<wtHeld, wtQueue>>

(* A task fails: the rest of the cycle is skipped and the failure shown. *)
WtTaskFails ==
    /\ wtAt = "cycle" /\ wtCycle.projects # {}
    /\ wtStale' = wtStale \ wtCycle.projects
    /\ wtCycle' = WtNoCycle /\ wtAt' = "loop"
    /\ WtSameWorld /\ UNCHANGED <<wtHeld, wtQueue>>

(* The callback runs to its end, whatever its status. *)
WtRunCallback ==
    /\ wtAt = "cycle" /\ wtCycle.callback
    /\ wtStale' = {}
    /\ wtCycle' = WtNoCycle /\ wtAt' = "loop"
    /\ WtSameWorld /\ UNCHANGED <<wtHeld, wtQueue>>

(* The cancellation kills what runs; *)
WtCycleCancelled ==
    /\ wtAt = "cycle" /\ WtStopped
    /\ wtCycle' = WtNoCycle /\ wtAt' = "loop"
    /\ WtSameWorld /\ UNCHANGED <<wtHeld, wtQueue, wtStale>>

(* and an error of the cycle itself, not of its tasks, ends the session: a
   command that cannot be started, a cache that cannot be written. *)
WtCycleErrs ==
    /\ wtAt = "cycle"
    /\ wtCycle' = WtNoCycle /\ wtAt' = "ended"
    /\ WtSameWorld /\ UNCHANGED <<wtHeld, wtQueue, wtStale>>

WtNext ==
    \/ WtOpenSession
    \/ \E p \in WtProjects : WtEditSource(p)
    \/ \E l \in WtLayouts : WtEditManifest(l)
    \/ WtWatcherReady
    \/ WtDeliver
    \/ WtAskToQuit
    \/ WtSendStop
    \/ WtWatcherFails
    \/ WtBegin
    \/ WtLeave
    \/ WtBlock
    \/ WtDisconnected
    \/ WtTakeStop
    \/ WtTakeNothing
    \/ WtTakeStructural
    \/ WtTakeFiles
    \/ \E p \in WtProjects : WtRunTask(p)
    \/ WtTaskFails
    \/ WtRunCallback
    \/ WtCycleCancelled
    \/ WtCycleErrs

WtSpec == WtInit /\ [][WtNext]_wtVars

--------------------------------------------------------------------------------
(* Types.                                                                  *)
WtTypeOK ==
    /\ wtAt \in {"idle", "starting", "loop", "receive", "cycle", "ended"}
    /\ wtDisk \in WtLayouts \cup {WtNoLayout} /\ wtHeld.projects \subseteq WtProjects
    /\ wtQuit \in {"no", "flagged", "sent"} /\ wtOpen \in BOOLEAN /\ wtReady \in BOOLEAN
    /\ wtCycle.projects \subseteq WtProjects /\ wtCycle.callback \in BOOLEAN
    /\ wtCycle # WtNoCycle <=> wtAt = "cycle"
    /\ wtStale \subseteq WtProjects /\ wtEdits \in 0..WtMaxEdits
    /\ \A i \in 1..Len(wtQueue) : wtQueue[i].files \subseteq WtProjects

(* A session that waits, with no event on its way, has run every selected
   project (or the callback) since the last change of anything it is built
   from, or has reported that it could not: a change made while a cycle runs,
   between two batches or, to a source, while the watcher starts is never
   lost.  (wtUnseen: a manifest changed between discovery and the watcher's
   start is.) *)
WtQuiet == wtAt = "receive" /\ wtQueue = <<>> /\ wtGathered = WtNoFiles /\ wtOpen
WtNoEditIsLost ==
    WtQuiet /\ ~wtUnseen /\ WtRefreshable(wtDisk) /\ WtCallback(wtDisk) # "blank" =>
        wtHeld = wtDisk /\ wtStale \cap WtSelected(wtDisk) = {}

(* A worker that waits for a batch hears of the request to quit: the flag is
   only set together with a batch that follows it. *)
WtQuitIsHeard == WtQuiet => wtQuit # "sent"

WtSafety == WtNoEditIsLost /\ WtQuitIsHeard
================================================================================

------------------------------- MODULE RunTerminal -------------------------------
(***************************************************************************)
(* The full-screen display of a run (src/ui/run.rs): the rows of the       *)
(* projects and their counters, the log of the selected project with its   *)
(* scroll position, and the keys.  It serves three kinds of command:       *)
(*   "once"        one run, which waits for a key at its end;              *)
(*   "watch"       the cycles of a watch session: between two cycles the   *)
(*                 display is idle in the session's slot, and keys typed   *)
(*                 while a cycle has it wait in a channel;                 *)
(*   "persistent"  the steps of a persistent task, which q ends.           *)
(* Every operation handles the keys that wait and draws; what it draws     *)
(* fixes what the next key refers to.                                      *)
(***************************************************************************)
EXTENDS Naturals, Sequences, FiniteSets

CONSTANTS
    RtProjects,     \* the projects in the order of the rows
    RtHeights,      \* heights the terminal can have, in lines of log
    RtMaxLines,     \* bound: lines of a project's log
    RtMaxKeys,      \* bound: how many keys are typed
    RtMaxCycles     \* bound: cycles of a watch session

RtNames == {RtProjects[i] : i \in 1..Len(RtProjects)}

(* The rows are a map from names, which reject_duplicate_names of
   src/workspace.rs has checked. *)
ASSUME RtAssumption ==
    /\ RtProjects \in Seq(RtNames) /\ RtProjects # <<>>
    /\ \A i, j \in 1..Len(RtProjects) : RtProjects[i] = RtProjects[j] => i = j
    /\ RtHeights \subseteq Nat \ {0} /\ RtMaxLines \in Nat \ {0} /\ RtMaxKeys \in Nat
    /\ RtMaxCycles \in Nat \ {0}

VARIABLES
    rtKind,         \* "none" or the kind of command
    rtAt,           \* "off", "running", "summary", "idle" or "left"
    rtRow,          \* the status of each row
    rtCount,        \* completed, succeeded, failed, skipped
    rtLog,          \* lines of each project's log
    rtView,         \* [sel, full, end, lines, rows]: end 0 follows the log
    rtShown,        \* the last line on the screen
    rtHeight,       \* the height of the terminal
    rtDown,         \* shutting_down
    rtQueue,        \* keys typed and not read
    rtTyped,        \* how many keys have been typed
    rtCycle,        \* how many cycles there have been
    rtAsked         \* the line the user scrolled to, 0 when following

rtVars == <<rtKind, rtAt, rtRow, rtCount, rtLog, rtView, rtShown, rtHeight, rtDown,
            rtQueue, rtTyped, rtCycle, rtAsked>>

RtKeys == {"k", "j", "l", "esc", "down", "enter", "q"}
RtNoCount == [completed |-> 0, succeeded |-> 0, failed |-> 0, skipped |-> 0]
RtFresh == [sel |-> 1, full |-> FALSE, end |-> 0, lines |-> 0, rows |-> 0]
RtLess(a, b) == IF a < b THEN a ELSE b
RtMore(a, b) == IF a < b THEN b ELSE a

--------------------------------------------------------------------------------
(* ansi_log_lines and log_lines: a window of the log that ends at the line
   asked for, or at the last one. *)
RtClamp_NoFloor(end, lines, rows) == RtLess(end, lines)     \* mutant: min for clamp
RtClamp(end, lines, rows) == RtLess(RtMore(end, RtLess(rows, lines)), lines)

RtLinesOf(log, view) == RtMore(log[RtProjects[view.sel]], 1)    \* a notice when empty
RtRowsOf(view) == IF view.full THEN rtHeight + 1 ELSE rtHeight
RtEndOf(log, view) ==
    LET lines == RtLinesOf(log, view)
    IN  RtClamp(IF view.end = 0 THEN lines ELSE view.end, lines, RtRowsOf(view))

(* draw; keys say whether the user, not the log, moved the window. *)
RtDraw(log, view, keys) ==
    LET end == RtEndOf(log, view)
        lines == RtLinesOf(log, view)
        drawn == [sel |-> view.sel, full |-> view.full,
                  end |-> IF view.end # 0 /\ end < lines THEN end ELSE 0,
                  lines |-> lines, rows |-> RtRowsOf(view)]
    IN  /\ rtView' = drawn
        /\ rtShown' = end
        /\ rtAsked' = IF drawn.end = 0 THEN 0
                      ELSE IF keys \/ drawn.rows # rtView.rows THEN end ELSE rtAsked

(* handle_key_event: what a key does to the view. *)
RtSummary == rtAt \in {"summary", "idle"}
RtFollow(view, sel, full) ==
    [sel |-> sel, full |-> full, end |-> 0, lines |-> view.lines, rows |-> view.rows]
RtKey(view, key) ==
    CASE key = "enter" /\ RtSummary /\ rtKind # "watch" -> [view EXCEPT !.full = TRUE]
      [] key = "l" -> RtFollow(view, view.sel, ~view.full)
      [] key = "esc" /\ view.full -> RtFollow(view, view.sel, FALSE)
      [] key = "k" /\ view.full ->
            LET now == IF view.end = 0 THEN view.lines ELSE view.end
                next == RtMore(IF now = 0 THEN 0 ELSE now - 1, RtLess(view.rows, view.lines))
            IN  [view EXCEPT !.end = IF next < view.lines THEN next ELSE 0]
      [] key = "j" /\ view.full ->
            [view EXCEPT !.end = IF view.end # 0 /\ view.end + 1 < view.lines
                                 THEN view.end + 1 ELSE 0]
      [] key = "k" /\ ~view.full -> RtFollow(view, RtMore(view.sel - 1, 1), FALSE)
      [] key = "down" \/ (key = "j" /\ ~view.full) ->
            RtFollow(view, RtLess(view.sel + 1, Len(RtProjects)), view.full)
      [] OTHER -> view

(* ... and whether it ends the command. *)
RtLeaves(view, key) ==
    \/ rtKind = "persistent" /\ key = "q"
    \/ /\ RtSummary
       /\ \/ key = "q"
          \/ key = "esc" /\ ~view.full
          \/ key = "enter" /\ rtKind = "watch"

(* handle_input: all the keys that wait; that one of them ends the command
   is not looked at. *)
RtHandled(keys) ==
    LET view[i \in 0..Len(keys)] ==
          IF i = 0 THEN rtView ELSE RtKey(view[i - 1], keys[i])
    IN  view[Len(keys)]
RtInputAndDraw(log) == rtQueue' = <<>> /\ RtDraw(log, RtHandled(rtQueue), rtQueue # <<>>)

--------------------------------------------------------------------------------
RtInit ==
    /\ rtKind = "none" /\ rtAt = "off" /\ rtCycle = 0
    /\ rtRow = [p \in RtNames |-> "pending"] /\ rtCount = RtNoCount
    /\ rtLog = [p \in RtNames |-> 0] /\ rtView = RtFresh /\ rtShown = 0 /\ rtAsked = 0
    /\ rtHeight \in RtHeights /\ rtDown = FALSE /\ rtQueue = <<>> /\ rtTyped = 0

(* new_with_control or new_persistent, and start; a watch cycle drops the
   display of the cycle before it; the steps of a persistent task are shown as
   running from the start. *)
RtStart ==
    /\ \/ rtAt = "off" /\ rtKind' \in {"once", "watch", "persistent"}
       \/ rtAt = "idle" /\ rtCycle < RtMaxCycles /\ UNCHANGED rtKind
    /\ rtAt' = "running" /\ rtCycle' = rtCycle + 1
    /\ rtCount' = RtNoCount
    /\ LET persistent == rtKind' = "persistent"
       IN  /\ rtRow' = [p \in RtNames |-> IF persistent THEN "running" ELSE "pending"]
           /\ rtLog' = [p \in RtNames |-> IF persistent THEN 1 ELSE 0]
    /\ RtDraw(rtLog', RtFresh, TRUE)
    /\ UNCHANGED <<rtHeight, rtDown, rtQueue, rtTyped>>

RtSame == UNCHANGED <<rtKind, rtAt, rtHeight, rtDown, rtTyped, rtCycle>>

(* task_started; a persistent step says so again, even after q. *)
RtTaskStarted(p) ==
    /\ rtAt = "running"
    /\ rtRow[p] \in (IF rtKind = "persistent" THEN {"running", "stopping"} ELSE {"pending"})
    /\ rtRow' = [rtRow EXCEPT ![p] = "running"]
    /\ rtLog' = [rtLog EXCEPT ![p] = RtMore(rtLog[p], 1)]
    /\ RtInputAndDraw(rtLog') /\ RtSame /\ UNCHANGED rtCount

RtTaskOutput(p) ==
    /\ rtAt = "running" /\ rtRow[p] \in {"running", "stopping"} /\ rtLog[p] < RtMaxLines
    /\ rtLog' = [rtLog EXCEPT ![p] = rtLog[p] + 1]
    /\ RtInputAndDraw(rtLog') /\ RtSame /\ UNCHANGED <<rtRow, rtCount>>

(* append_log_silent: the log of a persistent step, drawn by the next tick. *)
RtSilentOutput(p) ==
    /\ rtAt = "running" /\ rtKind = "persistent" /\ rtLog[p] < RtMaxLines
    /\ rtRow[p] \in {"running", "stopping"}
    /\ rtLog' = [rtLog EXCEPT ![p] = rtLog[p] + 1]
    /\ RtSame /\ UNCHANGED <<rtRow, rtCount, rtView, rtShown, rtQueue, rtAsked>>

RtTick ==
    /\ rtAt = "running"
    /\ RtInputAndDraw(rtLog) /\ RtSame /\ UNCHANGED <<rtRow, rtCount, rtLog>>

(* finish_row. *)
RtFinishRow(p, status) ==
    IF rtDown THEN rtCount
    ELSE [completed |-> rtCount.completed + 1,
          succeeded |-> rtCount.succeeded + (IF status \in {"ok", "cached"} THEN 1 ELSE 0),
          failed |-> rtCount.failed + (IF status = "failed" THEN 1 ELSE 0),
          skipped |-> rtCount.skipped + (IF status = "skipped" THEN 1 ELSE 0)]

RtTaskCompleted(p, status) ==
    /\ rtAt = "running" /\ rtRow[p] \in {"running", "stopping"}
    /\ rtRow' = IF rtDown THEN rtRow ELSE [rtRow EXCEPT ![p] = status]
    /\ rtCount' = RtFinishRow(p, status)
    /\ RtInputAndDraw(rtLog) /\ RtSame /\ UNCHANGED rtLog

(* What a failure kept from running is skipped at the end of the run. *)
RtTaskSkipped(p) ==
    /\ rtAt = "running" /\ rtKind # "persistent" /\ rtRow[p] = "pending"
    /\ \A q \in RtNames : rtRow[q] # "running"
    /\ \E q \in RtNames : rtRow[q] = "failed"
    /\ rtRow' = [rtRow EXCEPT ![p] = "skipped"]
    /\ rtCount' = RtFinishRow(p, "skipped")
    /\ RtInputAndDraw(rtLog) /\ RtSame /\ UNCHANGED rtLog

(* finish: a single run waits for a key, or ends at once for an agent; a
   watch cycle shows that it waits and leaves the display in the slot. *)
RtFinished == \A p \in RtNames : rtRow[p] \notin {"pending", "running"}
RtFinish ==
    /\ rtAt = "running" /\ rtKind # "persistent" /\ RtFinished
    /\ IF rtKind = "watch"
       THEN rtAt' = "idle" /\ rtRow' = [p \in RtNames |-> "waiting"]
       ELSE rtAt' \in {"summary", "left"} /\ UNCHANGED rtRow
    /\ RtDraw(rtLog, rtView, FALSE)
    /\ UNCHANGED <<rtKind, rtCount, rtLog, rtHeight, rtDown, rtQueue, rtTyped, rtCycle>>

(* wait_for_exit_confirmation takes one key; an idle watch display gets each
   key as it is typed. *)
RtConfirm ==
    /\ rtAt = "summary" /\ rtQueue # <<>>
    /\ rtQueue' = Tail(rtQueue)
    /\ IF RtLeaves(rtView, Head(rtQueue))
       THEN rtAt' = "left" /\ UNCHANGED <<rtView, rtShown, rtAsked>>
       ELSE UNCHANGED rtAt /\ RtDraw(rtLog, RtKey(rtView, Head(rtQueue)), TRUE)
    /\ UNCHANGED <<rtKind, rtRow, rtCount, rtLog, rtHeight, rtDown, rtTyped, rtCycle>>

(* poll_quit: keys are handled up to the first that ends the command. *)
RtPollQuit ==
    /\ rtAt = "running" /\ rtKind = "persistent"
    /\ \E n \in 1..Len(rtQueue) :
         /\ rtQueue[n] = "q" /\ \A j \in 1..(n - 1) : rtQueue[j] # "q"
         /\ rtQueue' = SubSeq(rtQueue, n + 1, Len(rtQueue))
         /\ RtDraw(rtLog, RtHandled(SubSeq(rtQueue, 1, n - 1)), TRUE)
    /\ rtDown' = TRUE
    /\ rtRow' = [p \in RtNames |-> IF rtRow[p] = "running" THEN "stopping" ELSE rtRow[p]]
    /\ UNCHANGED <<rtKind, rtAt, rtCount, rtLog, rtHeight, rtTyped, rtCycle>>

(* restore_now when the steps of a persistent task have ended, and abort when
   a run ends with an error. *)
RtRestore ==
    /\ rtAt = "running"
    /\ rtKind = "persistent" => rtDown \/ RtFinished
    /\ rtAt' = "left"
    /\ UNCHANGED <<rtKind, rtRow, rtCount, rtLog, rtView, rtShown, rtHeight, rtDown,
                   rtQueue, rtTyped, rtCycle, rtAsked>>

(* A key is typed: RunManySession::handle_key_event, or the terminal's own
   queue.  q and Esc are the watch session's, which never passes them on. *)
RtType(key) ==
    /\ rtAt \in {"running", "summary", "idle"} /\ rtTyped < RtMaxKeys
    /\ rtTyped' = rtTyped + 1
    /\ rtKind = "watch" => key # "q"
    /\ IF rtAt = "idle"
       THEN RtDraw(rtLog, RtKey(rtView, key), TRUE) /\ UNCHANGED rtQueue
       ELSE rtQueue' = Append(rtQueue, key) /\ UNCHANGED <<rtView, rtShown, rtAsked>>
    /\ UNCHANGED <<rtKind, rtAt, rtRow, rtCount, rtLog, rtHeight, rtDown, rtCycle>>

RtResize ==
    /\ rtAt \in {"running", "summary", "idle"} /\ rtHeight' \in RtHeights \ {rtHeight}
    /\ UNCHANGED <<rtKind, rtAt, rtRow, rtCount, rtLog, rtView, rtShown, rtDown,
                   rtQueue, rtTyped, rtCycle, rtAsked>>

RtNext ==
    \/ RtStart
    \/ \E p \in RtNames : RtTaskStarted(p)
    \/ \E p \in RtNames : RtTaskOutput(p)
    \/ \E p \in RtNames : RtSilentOutput(p)
    \/ RtTick
    \/ \E p \in RtNames, s \in {"ok", "cached", "failed"} : RtTaskCompleted(p, s)
    \/ \E p \in RtNames : RtTaskSkipped(p)
    \/ RtFinish
    \/ RtConfirm
    \/ RtPollQuit
    \/ RtRestore
    \/ \E key \in RtKeys : RtType(key)
    \/ RtResize

RtSpec == RtInit /\ [][RtNext]_rtVars

--------------------------------------------------------------------------------
(* long_lived_summary_lines: the status line of a session, and
   finite_summary_lines: how many tasks remain. *)
RtHow(s) == \E p \in RtNames : rtRow[p] \in s
RtStatus ==
    IF RtHow({"waiting"}) THEN "waiting for changes"
    ELSE IF rtDown \/ RtHow({"stopping"}) THEN "stopping"
    ELSE IF RtHow({"running"}) THEN
            IF RtHow({"failed"}) THEN "running with failures" ELSE "running"
    ELSE IF RtHow({"failed"}) THEN "failed"
    ELSE IF RtHow({"pending"}) THEN "starting" ELSE "complete"
RtRemaining == Len(RtProjects) - rtCount.completed

RtTypeOK ==
    /\ rtKind \in {"none", "once", "watch", "persistent"}
    /\ rtAt \in {"off", "running", "summary", "idle", "left"}
    /\ \A p \in RtNames : rtLog[p] \in 0..RtMaxLines
    /\ rtView.sel \in DOMAIN RtProjects /\ rtView.end \in 0..RtMaxLines
    /\ rtHeight \in RtHeights /\ rtTyped \in 0..RtMaxKeys /\ rtCycle \in 0..RtMaxCycles

(* The log on the screen fills the window as far as there are lines, ends at
   the last line it knew unless the user scrolled, and stays where the user
   scrolled to while output goes on arriving - with keys that refer to a
   screen older than the log, and a terminal that changes its size. *)
RtWindowIsRight ==
    rtAt \notin {"off"} =>
        /\ rtShown \in RtLess(rtView.rows, rtView.lines)..rtView.lines
        /\ rtView.end = 0 => rtShown = rtView.lines
        /\ rtView.end # 0 => rtShown = rtView.end /\ rtView.end = rtAsked

(* The counters are those of the rows, and nothing remains at the end. *)
RtCountsAgree ==
    /\ rtCount.completed = rtCount.succeeded + rtCount.failed + rtCount.skipped
    /\ rtAt \in {"summary", "idle"} => RtRemaining = 0
    /\ rtAt = "summary" => (rtCount.failed > 0 <=> RtHow({"failed"}))
    /\ rtKind # "none" /\ RtStatus = "failed" => rtCount.failed > 0

RtSafety == RtWindowIsRight /\ RtCountsAgree
================================================================================

---------------------------- MODULE PersistentTask ----------------------------
(***************************************************************************)
(* The session of a persistent task (execute_persistent_steps in           *)
(* src/commands/task.rs).  Workers run the steps, all at once or one after *)
(* the other, and send each result over a channel; the main thread counts  *)
(* the results down, cancels the session at the first error or when the    *)
(* user quits, and returns when it has counted every step.                 *)
(*                                                                         *)
(* What a step does is a choice: it may end by itself, well or badly, and  *)
(* once the session is cancelled it ends in any case.  An error that only  *)
(* says that the step was cancelled is told apart, as the code does by its *)
(* text.  The rendering of the session is left out.                        *)
(***************************************************************************)
EXTENDS Naturals, FiniteSets

CONSTANT StepCount

ASSUME PersistentTaskAssumption == StepCount \in Nat \ {0}

Steps == 1 .. StepCount

VARIABLES
    mode,           \* task.mode
    step,           \* what has become of each step
    sent,           \* the steps whose result is in the channel
    remaining,      \* how many results the main thread still waits for
    cancelled,      \* the cancellation token
    quit,           \* whether the user has quit
    firstError,     \* first_error
    worker,         \* the sequential worker's loop
    main            \* the main thread's loop, or what it returned

vars == <<mode, step, sent, remaining, cancelled, quit, firstError, worker, main>>

Modes == {"sequential", "parallel"}
Errors == {"failed", "cancelled"}
Results == Errors \cup {"ok"}

Init ==
    /\ mode \in Modes
    /\ step = [i \in Steps |-> "pending"]
    /\ sent = {}
    /\ remaining = StepCount
    /\ cancelled = FALSE
    /\ quit = FALSE
    /\ firstError = "none"
    /\ worker = "running"
    /\ main = "loop"

--------------------------------------------------------------------------------
(* A parallel worker starts its step whatever happened before; the sequential one
   looks at the token between two steps. *)
MayStart(i) ==
    mode = "sequential" =>
        /\ worker = "running" /\ ~cancelled
        /\ \A j \in 1 .. i - 1 : step[j] \in Results

StartStep(i) ==
    /\ step[i] = "pending"
    /\ MayStart(i)
    /\ step' = [step EXCEPT ![i] = "running"]
    /\ UNCHANGED <<mode, sent, remaining, cancelled, quit, firstError, worker, main>>

BetweenSteps == \A i \in Steps : step[i] # "running"

WorkerStops ==
    /\ mode = "sequential" /\ worker = "running"
    /\ BetweenSteps
    /\ cancelled \/ \A i \in Steps : step[i] # "pending"
    /\ worker' = "ended"
    /\ UNCHANGED <<mode, step, sent, remaining, cancelled, quit, firstError, main>>

SendResult_OnlySuccess(i, result) ==
    sent' = IF result = "ok" THEN sent \cup {i} ELSE sent
SendResult(i, result) == sent' = sent \cup {i}

EndStep(i, result) ==
    /\ step[i] = "running"
    /\ result = "cancelled" => cancelled
    /\ step' = [step EXCEPT ![i] = result]
    /\ SendResult(i, result)
    /\ UNCHANGED <<mode, remaining, cancelled, quit, firstError, worker, main>>

--------------------------------------------------------------------------------
(* The main thread's loop. *)
FirstError_Last(error) == error
FirstError(error) == IF firstError = "none" THEN error ELSE firstError

Drained_Twice(i) == sent' = sent
Drained(i) == sent' = sent \ {i}

Drain(i) ==
    /\ main = "loop"
    /\ i \in sent
    /\ Drained(i)
    /\ remaining' = remaining - 1
    /\ IF step[i] \in Errors
          THEN cancelled' = TRUE /\ firstError' = FirstError(step[i])
          ELSE UNCHANGED <<cancelled, firstError>>
    /\ UNCHANGED <<mode, step, quit, worker, main>>

(* The user quits, which the main thread sees only in its turns. *)
Quit ==
    /\ main = "loop" /\ ~quit
    /\ quit' = TRUE
    /\ cancelled' = TRUE
    /\ firstError' = FirstError("cancelled")
    /\ UNCHANGED <<mode, step, sent, remaining, worker, main>>

WorkersJoined ==
    IF mode = "parallel" THEN \A i \in Steps : step[i] \in Results ELSE worker = "ended"

Verdict == IF firstError = "failed" THEN "failed" ELSE "ok"

Return ==
    /\ main = "loop" /\ remaining = 0
    /\ WorkersJoined
    /\ main' = Verdict
    /\ UNCHANGED <<mode, step, sent, remaining, cancelled, quit, firstError, worker>>

Next ==
    \/ \E i \in Steps : StartStep(i) \/ Drain(i)
    \/ \E i \in Steps, result \in Results : EndStep(i, result)
    \/ WorkerStops
    \/ Quit
    \/ Return

Spec == Init /\ [][Next]_vars

(* Threads go on, and a step that has been cancelled ends: its process is killed
   (ui/surface.rs:147), or its own session watches the same token.  A step that runs
   another task's process to its end (task.rs:1337) does not look at the token, and is
   taken here to be one that ends. *)
FairSpec ==
    /\ Spec
    /\ \A i \in Steps :
          /\ WF_vars(StartStep(i))
          /\ WF_vars(cancelled /\ \E result \in Results : EndStep(i, result))
          /\ WF_vars(Drain(i))
    /\ WF_vars(WorkerStops)
    /\ WF_vars(Return)

--------------------------------------------------------------------------------
(* The types, and with them that no result is counted twice: remaining stays a number
   of results. *)
TypeOK ==
    /\ mode \in Modes
    /\ step \in [Steps -> Results \cup {"pending", "running"}]
    /\ sent \subseteq Steps
    /\ remaining \in 0 .. StepCount
    /\ cancelled \in BOOLEAN /\ quit \in BOOLEAN
    /\ firstError \in Errors \cup {"none"}
    /\ worker \in {"running", "ended"}
    /\ main \in {"loop", "ok", "failed"}

(* The task succeeds only if the user quit or every step succeeded: no failure is
   lost among the results of the other steps and the cancellations that follow it. *)
FailuresAreReported ==
    main = "ok" => quit \/ \A i \in Steps : step[i] = "ok"

(* task.rs:1021, "When cancelled, keep draining until workers notice and exit": a
   cancelled session ends, and with it the command. *)
CancelledSessionEnds == cancelled ~> main # "loop"

(* The parallel half of that: workers that always answer let a cancelled session,
   whichever step failed or however late the user quit, count down to its end. *)
CancelledParallelSessionEnds == cancelled /\ mode = "parallel" ~> main # "loop"
================================================================================

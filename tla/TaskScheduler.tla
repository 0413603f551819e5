----------------------------- MODULE TaskScheduler -----------------------------
(***************************************************************************)
(* execute_tasks_with_hasher_and_control (src/commands/run.rs): the main   *)
(* thread keeps a count of unfinished dependencies per selected project    *)
(* and a list of ready ones, spawns a worker thread per ready project up   *)
(* to the parallel limit, and collects one completion at a time from a     *)
(* channel.  A task that fails holds back its dependents only; an internal *)
(* error (or a panic, or a terminal that stops drawing) stops scheduling,  *)
(* and the threads already running are joined before the error is          *)
(* returned.                                                               *)
(*                                                                         *)
(* The ready list is kept sorted by topological position and without       *)
(* duplicates, so it is a set here and a pop takes its first member.  The  *)
(* channel is the set of workers in a reported state: workers race to      *)
(* send, so any reported message may be the next one received.             *)
(***************************************************************************)
EXTENDS ProjectGraph

CONSTANTS
    Order,          \* [Projects -> Nat], position in topological_order
    OrderWithDev,   \* [Projects -> Nat], position in topological_order_with_dev
    MaxParallel,    \* Parallelism::resolve
    TerminalEnabled,\* the run draws the full-screen terminal UI
    NoProject

ASSUME SchedulerAssumption ==
    /\ Order \in [Projects -> Nat] /\ OrderWithDev \in [Projects -> Nat]
    /\ \A p, q \in Projects :
           Order[p] = Order[q] \/ OrderWithDev[p] = OrderWithDev[q] => p = q
    /\ MaxParallel \in Nat \ {0}
    /\ TerminalEnabled \in BOOLEAN
    /\ NoProject \notin Projects

VARIABLES
    target,         \* the target of the run
    selected,       \* project_names, as selected_project_names returned them
    pc,             \* where the main thread is: spawn, receive, finish, done
    remaining,      \* remaining_dependencies
    ready,          \* the ready list
    running,        \* the main thread's count of running workers
    worker,         \* per project: idle, running, a reported result, or joined
    outcome,        \* outcomes_by_project
    firstFailure,   \* whose exit code the run reports, NoProject while it is 0
    error,          \* first_error is set, and with it stop_scheduling
    verdict,        \* the Result the function returns
    cancelled       \* the run's CancellationToken

vars == <<target, selected, pc, remaining, ready, running, worker, outcome, firstFailure,
          error, verdict, cancelled>>

Results == {"succeeded", "failed", "error"}
Requests == [target : Targets, withDeps : BOOLEAN, requested : SUBSET Projects \ {{}}]

(* build_task_graph: the target's dependencies that are part of the selection,
   and the inverse map. *)
SelectedDependencies_Unfiltered(p) == TargetUpstream(target, p)
SelectedDependencies(p) == TargetUpstream(target, p) \cap selected

Dependents_Unfiltered(p) == {q \in Projects : p \in TargetUpstream(target, q)}
Dependents(p) == {q \in selected : p \in SelectedDependencies(q)}

(* target_topological_order: tests follow the order with dev dependencies. *)
Position == IF target = "test" THEN OrderWithDev ELSE Order

Init ==
    /\ \E request \in Requests :
           target = request.target /\ selected = Selection(request)
    /\ pc = "spawn"
    /\ remaining = [p \in Projects |-> Cardinality(SelectedDependencies(p))]
    /\ ready = {p \in selected : SelectedDependencies(p) = {}}
    /\ running = 0
    /\ worker = [p \in Projects |-> "idle"]
    /\ outcome = [p \in Projects |-> "none"]
    /\ firstFailure = NoProject
    /\ error = FALSE
    /\ verdict = "none"
    /\ cancelled = FALSE

(* pop_ready_task takes the entry first in topological order. *)
FirstReady(p) == p \in ready /\ \A q \in ready : Position[p] <= Position[q]

CanSpawn_OffByOne == ~error /\ running <= MaxParallel /\ ready # {}
CanSpawn_FailFast == ~error /\ firstFailure = NoProject /\ running < MaxParallel /\ ready # {}
CanSpawn == ~error /\ running < MaxParallel /\ ready # {}

SpawnTask(p) ==
    /\ pc = "spawn" /\ CanSpawn /\ FirstReady(p)
    /\ ready' = ready \ {p}
    /\ worker' = [worker EXCEPT ![p] = "running"]
    /\ running' = running + 1
    /\ UNCHANGED <<target, selected, pc, remaining, outcome, firstFailure, error, verdict, cancelled>>

LeaveSpawning_NoDrain == pc' = IF error' \/ running = 0 THEN "finish" ELSE "receive"
LeaveSpawning_ReadyLeft == pc' = IF running = 0 /\ ready = {} THEN "finish" ELSE "receive"
LeaveSpawning == pc' = IF running = 0 THEN "finish" ELSE "receive"

(* terminal.task_started failed: the popped project is never spawned. *)
TerminalStartFails(p) ==
    /\ TerminalEnabled
    /\ pc = "spawn" /\ CanSpawn /\ FirstReady(p)
    /\ ready' = ready \ {p}
    /\ error' = TRUE
    /\ LeaveSpawning
    /\ UNCHANGED <<target, selected, remaining, running, worker, outcome, firstFailure, verdict, cancelled>>

StopSpawning ==
    /\ pc = "spawn" /\ ~CanSpawn
    /\ UNCHANGED <<target, selected, remaining, ready, running, worker, outcome, firstFailure,
                   error, verdict, cancelled>>
    /\ LeaveSpawning

(* execute_single_task returns, or the panic it raised is caught and sent as an
   error.  Its own steps are not the scheduler's business. *)
WorkerReports(p, result) ==
    /\ worker[p] = "running"
    /\ worker' = [worker EXCEPT ![p] = result]
    /\ UNCHANGED <<target, selected, pc, remaining, ready, running, outcome, firstFailure,
                   error, verdict, cancelled>>

(* terminal.tick or terminal.task_output failed while waiting: remembered, and
   the main thread goes on waiting for a completion. *)
TerminalFails ==
    /\ TerminalEnabled
    /\ pc = "receive" /\ ~error
    /\ error' = TRUE
    /\ UNCHANGED <<target, selected, pc, remaining, ready, running, worker, outcome, firstFailure,
                   verdict, cancelled>>

Receive(p) ==
    /\ pc = "receive"
    /\ worker' = [worker EXCEPT ![p] = "joined"]
    /\ running' = running - 1
    /\ pc' = "spawn"
    /\ UNCHANGED <<target, selected, verdict, cancelled>>

(* terminal.task_completed may fail after any completion. *)
DrawCompletion == \E drawn \in BOOLEAN :
    (TerminalEnabled \/ drawn) /\ error' = (error \/ ~drawn)

(* insert_ready_task for every dependent whose count drops to zero. *)
Released_OffByOne(p) == {q \in Dependents(p) : remaining[q] <= 2}
Released(p) == {q \in Dependents(p) : remaining[q] = 1}

ReceiveSuccess(p) ==
    /\ worker[p] = "succeeded"
    /\ Receive(p)
    /\ DrawCompletion
    /\ outcome' = [outcome EXCEPT ![p] = "succeeded"]
    /\ remaining' = [q \in Projects |->
                        IF q \in Dependents(p) THEN remaining[q] - 1 ELSE remaining[q]]
    /\ ready' = ready \cup Released(p)
    /\ UNCHANGED firstFailure

ReceiveFailure(p) ==
    /\ worker[p] = "failed"
    /\ Receive(p)
    /\ DrawCompletion
    /\ outcome' = [outcome EXCEPT ![p] = "failed"]
    /\ firstFailure' = IF firstFailure = NoProject THEN p ELSE firstFailure
    /\ UNCHANGED <<remaining, ready>>

ReceiveError(p) ==
    /\ worker[p] = "error"
    /\ Receive(p)
    /\ error' = TRUE
    /\ UNCHANGED <<remaining, ready, outcome, firstFailure>>

Missing == {p \in selected : outcome[p] = "none"}

(* Neither an error nor projects left over without a failure to explain them. *)
Completed == ~error /\ (firstFailure # NoProject \/ Missing = {})

(* first_error is returned, or "task scheduler stalled". *)
FinishWithError ==
    /\ pc = "finish" /\ ~Completed
    /\ pc' = "done" /\ verdict' = IF error THEN "error" ELSE "stalled"
    /\ UNCHANGED <<target, selected, remaining, ready, running, worker, outcome, firstFailure,
                   error, cancelled>>

FinishCompleted ==
    /\ pc = "finish" /\ Completed
    /\ pc' = "done" /\ verdict' = "completed"
    /\ outcome' = [p \in Projects |-> IF p \in Missing THEN "skipped" ELSE outcome[p]]
    /\ UNCHANGED <<target, selected, remaining, ready, running, worker, firstFailure, error, cancelled>>

(* terminal.task_skipped or terminal.finish failed while the summary was drawn. *)
SummaryFails ==
    /\ TerminalEnabled
    /\ pc = "finish" /\ Completed
    /\ pc' = "done" /\ verdict' = "error"
    /\ UNCHANGED <<target, selected, remaining, ready, running, worker, outcome, firstFailure,
                   error, cancelled>>

(* The owner of the token (a watch session the user quits) gives the run up.  Only
   the runners of the children look at the token; the scheduling loop does not. *)
Cancel ==
    /\ ~cancelled /\ pc # "done"
    /\ cancelled' = TRUE
    /\ UNCHANGED <<target, selected, pc, remaining, ready, running, worker, outcome, firstFailure,
                   error, verdict>>

MainThread ==
    \/ \E p \in Projects : \/ SpawnTask(p)
                           \/ TerminalStartFails(p)
                           \/ ReceiveSuccess(p)
                           \/ ReceiveFailure(p)
                           \/ ReceiveError(p)
    \/ StopSpawning
    \/ FinishWithError
    \/ FinishCompleted
    \/ SummaryFails

Worker(p) == \E result \in Results : WorkerReports(p, result)

Next == MainThread \/ TerminalFails \/ Cancel \/ \E p \in Projects : Worker(p)

(* The main thread never blocks for good while a message is in the channel, and
   once the token is cancelled every runner kills its child and returns.  A
   command that nobody cancels is free to run for ever. *)
Fairness ==
    /\ WF_vars(MainThread)
    /\ \A p \in Projects : WF_vars(cancelled /\ Worker(p))

Spec == Init /\ [][Next]_vars /\ Fairness

--------------------------------------------------------------------------------
InFlight == {p \in Projects : worker[p] \in {"running"} \cup Results}
Succeeded == {p \in Projects : outcome[p] = "succeeded"}
Started == {p \in Projects : worker[p] # "idle"}

(* Types of the main thread's and the workers' state. *)
TypeOK ==
    /\ target \in Targets
    /\ selected \subseteq Projects
    /\ pc \in {"spawn", "receive", "finish", "done"}
    /\ remaining \in [Projects -> Nat]
    /\ ready \subseteq selected
    /\ running \in Nat
    /\ worker \in [Projects -> {"idle", "running", "joined"} \cup Results]
    /\ outcome \in [Projects -> {"none", "succeeded", "failed", "skipped"}]
    /\ firstFailure \in Projects \cup {NoProject}
    /\ error \in BOOLEAN
    /\ verdict \in {"none", "completed", "error", "stalled"}
    /\ cancelled \in BOOLEAN

(* A task has started only if every selected project it directly depends on has
   been collected as succeeded: decrementing counts from completions that arrive
   in any order never releases a project early. *)
DependencyOrder ==
    \A p \in Started : SelectedDependencies(p) \subseteq Succeeded

(* No more worker threads are alive than the parallel limit, although the bound
   is kept by a counter that only follows them. *)
ParallelLimit == Cardinality(InFlight) <= MaxParallel

(* The "task scheduler stalled" error is never returned: on an acyclic graph the
   loop cannot run out of ready and running tasks with a project left over
   unless something failed. *)
NeverStalls == verdict # "stalled"

(* A completed run skips exactly the projects behind a failure: whatever did not
   depend on a failed project, through any chain of selected projects, was run. *)
SkipsExactlyBehindFailure ==
    verdict = "completed" =>
        \A p \in selected :
            outcome[p] = "skipped" <=>
                \E d \in SelectedDependencies(p) : outcome[d] \in {"failed", "skipped"}

(* A run returns only after every thread it started has been joined, with its
   own error, or the exit code of a project that did fail, or success for all. *)
VerdictIsEarned ==
    pc = "done" =>
        /\ InFlight = {}
        /\ verdict = "completed" =>
            IF firstFailure = NoProject
            THEN selected \subseteq Succeeded
            ELSE outcome[firstFailure] = "failed"

(* Quitting always ends the run, although the loop goes on spawning whatever
   becomes ready after the token was cancelled. *)
CancelledRunEnds == cancelled ~> pc = "done"

(* The inductive invariant behind the properties above.  The counters follow the
   sets they stand for: remaining[p] is the number of unmet dependencies, ready
   holds exactly the idle projects with none (a project popped for a terminal
   that failed is lost, but then nothing is scheduled any more), and running
   counts the workers in flight. *)
Unmet(p) == SelectedDependencies(p) \ Succeeded

CountsFollowSets ==
    /\ \A p \in selected : remaining[p] = Cardinality(Unmet(p))
    /\ running = Cardinality(InFlight)
    /\ running <= MaxParallel

ReadyIsExact ==
    /\ \A p \in ready : worker[p] = "idle" /\ Unmet(p) = {}
    /\ ~error => \A p \in selected : worker[p] = "idle" /\ Unmet(p) = {} => p \in ready

OutcomesFollowWorkers ==
    /\ Started \subseteq selected
    /\ \A p \in Projects :
          /\ outcome[p] \in {"succeeded", "failed"} => worker[p] = "joined"
          /\ ~error /\ worker[p] = "joined" => outcome[p] \in {"succeeded", "failed"}
          /\ outcome[p] = "failed" => firstFailure # NoProject
          /\ outcome[p] = "skipped" => verdict = "completed"
    /\ firstFailure # NoProject => outcome[firstFailure] = "failed"

PhasesAreQuiet ==
    /\ pc \in {"finish", "done"} => running = 0 /\ (error \/ ready = {})
    /\ verdict # "none" <=> pc = "done"

IInv ==
    /\ TypeOK
    /\ CountsFollowSets
    /\ ReadyIsExact
    /\ DependencyOrder
    /\ OutcomesFollowWorkers
    /\ PhasesAreQuiet
    /\ SkipsExactlyBehindFailure
    /\ VerdictIsEarned
    /\ NeverStalls

(* README: gomo "runs tasks in dependency order".  Taken over chains of
   dependencies: a task does not run before a selected project that it depends on
   through an unselected one. *)
TransitiveUpstream(p) == WithUpstream(target, {p}) \ {p}
TransitiveDependencyOrder ==
    \A p \in Started : TransitiveUpstream(p) \cap selected \subseteq Succeeded

(* The abstract run this one implements. *)
Abstract == INSTANCE DependencyOrderedRun WITH
    chosen <- selected,
    needs <- [p \in Projects |-> SelectedDependencies(p)],
    inFlight <- InFlight,
    succeeded <- Succeeded,
    ended <- {p \in Projects : worker[p] = "joined"},
    verdict <- IF verdict = "none" THEN "running" ELSE verdict

(* Every step of the counting, threaded scheduler is a step of the abstract run:
   starts within the limit and after the dependencies, one collection at a time,
   and a completion that leaves nothing startable behind. *)
ImplementsAbstractRun == Abstract!Spec
================================================================================

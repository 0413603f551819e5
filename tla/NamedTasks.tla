------------------------------- MODULE NamedTasks -------------------------------
(***************************************************************************)
(* `gomo task run` (src/commands/task.rs): the tree of calls of            *)
(* execute_task.  A call takes the lock of its task, runs the task's       *)
(* dependencies one after the other, looks its result up in the cache,     *)
(* runs its steps, in order or in threads of their own, and stores the     *)
(* result.  The calls of one ExecutionState share the locks and the set of *)
(* completed tasks.  A step that runs a target whose project binds it to a *)
(* task starts a new `task run` with an ExecutionState of its own; a stack *)
(* of targets, handed to every thread, stops a target from re-entering     *)
(* itself.                                                                 *)
(*                                                                         *)
(* A call is named by its path: the root is <<>>, and its i-th dependency  *)
(* or step is <<i>>.  Every cached task has one file of inputs, a version, *)
(* and one declared output, which is what it was made from.                *)
(***************************************************************************)
EXTENDS Naturals, FiniteSets, Sequences

CONSTANTS
    NmTasks,        \* task identities
    NmConfigs,      \* what gomo.toml and the manifests define: see NmIsConfig
    NmInvocations,  \* bound: how many times the command is run
    NmMaxEdits      \* bound: how many times the user edits an input

(* A configuration.  of[t]: t's dependencies in order, the cache strategy of
   each, the steps, whether they run in parallel and whether t is cached.
   A step names a "task", a "target" or a "process" of its own.  bound[k] is
   the task that target k is bound to.  Loading has refused cycles of tasks
   (reject_task_cycles of src/workspace.rs), which do not show bound targets, and
   names of tasks that do not exist. *)
NmIsConfig(c) ==
    /\ c.root \in NmTasks /\ DOMAIN c.of = NmTasks
    /\ \A t \in NmTasks :
         /\ c.of[t].dependencies \in Seq(NmTasks) /\ c.of[t].parallel \in BOOLEAN
         /\ c.of[t].strategy \in [1..Len(c.of[t].dependencies) -> {"hash", "outputs", "ignored"}]
         /\ Len(c.of[t].steps) \in Nat
         /\ \A i \in 1..Len(c.of[t].steps) :
              /\ c.of[t].steps[i].kind \in {"task", "target", "process"}
              /\ c.of[t].steps[i].kind = "task" => c.of[t].steps[i].of \in NmTasks
    /\ \A k \in DOMAIN c.bound : c.bound[k] \in NmTasks

NmReferences(c, t) ==
    {c.of[t].dependencies[i] : i \in 1..Len(c.of[t].dependencies)}
      \cup {c.of[t].steps[i].of : i \in {j \in 1..Len(c.of[t].steps) : c.of[t].steps[j].kind = "task"}}

ASSUME NmAssumption ==
    /\ NmInvocations \in Nat /\ NmMaxEdits \in Nat /\ IsFiniteSet(NmTasks)
    /\ \A c \in NmConfigs : NmIsConfig(c)
    /\ \A c \in NmConfigs, S \in SUBSET NmTasks :
         S # {} => \E t \in S : NmReferences(c, t) \cap S = {}

VARIABLES
    nmConfig,       \* the configuration
    nmRuns,         \* how many invocations have been started
    nmCalls,        \* the calls so far, by path
    nmCompleted,    \* the pairs <<state, task>> completed, a state named by its first call
    nmVersion,      \* [NmTasks -> versions], the inputs of each task
    nmOutput,       \* [NmTasks -> what the output on disk was made from]
    nmEntries,      \* the entries of the cache
    nmEdits,        \* how many edits there have been
    nmRaced,        \* history: an input changed during an invocation, or two states of
                    \* one invocation ran the commands of one task
    nmTwice,        \* history: tasks whose steps were started after they had completed
    nmStale         \* history: tasks that restored something else than they would make

nmVars == <<nmConfig, nmRuns, nmCalls, nmCompleted, nmVersion, nmOutput, nmEntries,
            nmEdits, nmRaced, nmTwice, nmStale>>

NmEnded == {"ok", "error"}
NmNothing == [none |-> TRUE]
NmPhases == {"enter", "wait", "dependencies", "cache", "steps", "store", "process"} \cup NmEnded

NmDef(p) == nmConfig.of[nmCalls[p].task]
NmAt(p) == nmCalls[p].at
NmActive == {p \in DOMAIN nmCalls : NmAt(p) \notin NmEnded}
NmMove(p, at) == [nmCalls EXCEPT ![p].at = at]
NmStateOf(p) == <<nmCalls[p].run, nmCalls[p].task>>

(* What the calls hold: a guard lives until execute_task returns. *)
NmHolding == {"dependencies", "cache", "steps", "store"}
NmHolders(p) == {q \in DOMAIN nmCalls : NmStateOf(q) = NmStateOf(p) /\ NmAt(q) \in NmHolding}

--------------------------------------------------------------------------------
(* named_cache_entry: the task, its input files as they are, and what each
   dependency's strategy adds. *)
NmInputs(version, t) == version[t]
NmManifest(t, own, dependencies) == [task |-> t, own |-> own, dependencies |-> dependencies]
NmKeysOf(c, version, output) ==
    LET key[t \in NmTasks] ==
          LET d == c.of[t]
          IN  NmManifest(t, NmInputs(version, t), [i \in 1..Len(d.dependencies) |->
                    CASE d.strategy[i] = "hash" -> key[d.dependencies[i]]
                      [] d.strategy[i] = "outputs" -> output[d.dependencies[i]]
                      [] OTHER -> NmNothing])
    IN  key

NmKeys_Own ==                               \* mutant: the dependencies are not part of the key
    [t \in NmTasks |-> NmManifest(t, NmInputs(nmVersion, t), <<>>)]
NmKeys == NmKeysOf(nmConfig, nmVersion, nmOutput)

(* What the commands of a task make of its inputs and of its dependencies' outputs; a
   task whose steps are all tasks makes nothing itself. *)
NmIsCommand(c, step) == step.kind # "task" /\ ~(step.kind = "target" /\ step.of \in DOMAIN c.bound)
NmHasCommand(c, t) == \E i \in 1..Len(c.of[t].steps) : NmIsCommand(c, c.of[t].steps[i])
NmMakesOf(c, version, output, t) ==
    IF NmHasCommand(c, t)
    THEN NmManifest(t, NmInputs(version, t), [i \in 1..Len(c.of[t].dependencies) |->
            IF c.of[t].strategy[i] = "ignored" THEN NmNothing
            ELSE output[c.of[t].dependencies[i]]])
    ELSE NmNothing
NmMakes(t) == NmMakesOf(nmConfig, nmVersion, nmOutput, t)

--------------------------------------------------------------------------------
NmInit ==
    /\ nmConfig = <<>> /\ nmRuns = 0 /\ nmCalls = [p \in {} |-> NmNothing] /\ nmCompleted = {}
    /\ nmVersion = [t \in NmTasks |-> 0] /\ nmOutput = [t \in NmTasks |-> NmNothing]
    /\ nmEntries = {} /\ nmEdits = 0 /\ nmRaced = FALSE /\ nmTwice = {} /\ nmStale = {}

NmNewCall(task, run, stack) ==
    [task |-> task, run |-> run, stack |-> stack, at |-> "enter", key |-> NmNothing]

(* run: a process with an ExecutionState of its own. *)
NmInvoke ==
    /\ nmRuns < NmInvocations /\ NmActive = {}
    /\ nmConfig' \in IF nmRuns = 0 THEN NmConfigs ELSE {nmConfig}
    /\ nmRuns' = nmRuns + 1
    /\ nmCalls' = [p \in {<<>>} |-> NmNewCall(nmConfig'.root, <<>>, {})]
    /\ nmCompleted' = {}
    /\ UNCHANGED <<nmVersion, nmOutput, nmEntries, nmEdits, nmRaced, nmTwice, nmStale>>

NmEdit(t) ==
    /\ nmRuns > 0 /\ nmEdits < NmMaxEdits
    /\ nmVersion' = [nmVersion EXCEPT ![t] = @ + 1]
    /\ nmEdits' = nmEdits + 1
    /\ nmRaced' = (nmRaced \/ NmActive # {})
    /\ UNCHANGED <<nmConfig, nmRuns, nmCalls, nmCompleted, nmOutput, nmEntries, nmTwice, nmStale>>

NmSame == UNCHANGED <<nmConfig, nmRuns, nmVersion, nmEdits, nmRaced>>
NmSameCache == UNCHANGED <<nmOutput, nmEntries, nmStale>>

(* The first look at the completed tasks, without the lock; *)
NmEnter(p) ==
    /\ NmAt(p) = "enter"
    /\ nmCalls' = NmMove(p, IF NmStateOf(p) \in nmCompleted THEN "ok" ELSE "wait")
    /\ NmSame /\ NmSameCache /\ UNCHANGED <<nmCompleted, nmTwice>>

(* then the lock and the second look. *)
NmRunsAfterLock_Always(p) == TRUE           \* mutant: no second look
NmRunsAfterLock(p) == NmStateOf(p) \notin nmCompleted
NmLock(p) ==
    /\ NmAt(p) = "wait" /\ NmHolders(p) = {}
    /\ nmCalls' = NmMove(p, IF NmRunsAfterLock(p) THEN "dependencies" ELSE "ok")
    /\ NmSame /\ NmSameCache /\ UNCHANGED <<nmCompleted, nmTwice>>

(* The children of a call: dependencies first, then steps. *)
NmChild(p, i) == Append(p, i)
NmHas(p, i) == NmChild(p, i) \in DOMAIN nmCalls
NmChildAt(p, i) == IF NmHas(p, i) THEN NmAt(NmChild(p, i)) ELSE "none"
NmLastDependency(p) == Len(NmDef(p).dependencies)
NmLast(p) == NmLastDependency(p) + Len(NmDef(p).steps)

(* A step becomes a call: of a task, of a process, or, for a bound target,
   of the bound task in a new state.  A target that is on the stack fails. *)
NmCallOfStep(p, i) ==
    LET s == NmDef(p).steps[i - NmLastDependency(p)]
        call == nmCalls[p]
    IN  CASE s.kind = "task" -> NmNewCall(s.of, call.run, call.stack)
          [] s.kind = "target" /\ s.of \in DOMAIN nmConfig.bound ->
               IF s.of \in call.stack
               THEN [NmNewCall(call.task, call.run, call.stack) EXCEPT !.at = "error"]
               ELSE NmNewCall(nmConfig.bound[s.of], NmChild(p, i), call.stack \cup {s.of})
          [] OTHER -> [NmNewCall(call.task, NmChild(p, i), call.stack) EXCEPT !.at = "process"]

NmAddCall(p, i) ==
    LET call == IF i <= NmLastDependency(p)
                THEN NmNewCall(NmDef(p).dependencies[i], nmCalls[p].run, nmCalls[p].stack)
                ELSE NmCallOfStep(p, i)
    IN  nmCalls' = [q \in DOMAIN nmCalls \cup {NmChild(p, i)} |->
                       IF q = NmChild(p, i) THEN call ELSE nmCalls[q]]

(* Sequential children wait for each other; parallel steps do not. *)
NmMayStart(p, i) ==
    /\ ~NmHas(p, i)
    /\ \/ NmAt(p) = "dependencies" /\ i <= NmLastDependency(p)
       \/ NmAt(p) = "steps" /\ i > NmLastDependency(p)
    /\ (NmAt(p) = "steps" /\ NmDef(p).parallel)
         \/ \A j \in 1..(i - 1) : NmChildAt(p, j) = "ok"

NmStart(p, i) ==
    /\ NmMayStart(p, i)
    /\ NmAddCall(p, i)
    /\ nmTwice' = IF NmAt(p) = "steps" /\ NmStateOf(p) \in nmCompleted
                  THEN nmTwice \cup {nmCalls[p].task} ELSE nmTwice
    /\ NmSame /\ NmSameCache /\ UNCHANGED nmCompleted

(* Another execution state has run or is running the task of a command: a bound target
   and the task it is bound to know nothing of each other, yet have the same outputs. *)
NmWorkedOnElsewhere(p) ==
    \E q \in DOMAIN nmCalls :
        /\ nmCalls[q].task = nmCalls[p].task
        /\ nmCalls[q].run # nmCalls[SubSeq(p, 1, Len(p) - 1)].run
        /\ NmAt(q) \in NmHolding \/ NmStateOf(q) \in nmCompleted

(* A command ends, having read its inputs and written its task's output. *)
NmProcess(p) ==
    /\ NmAt(p) = "process"
    /\ \/ /\ nmOutput' = [nmOutput EXCEPT ![nmCalls[p].task] = NmMakes(nmCalls[p].task)]
          /\ nmCalls' = NmMove(p, "ok")
       \/ /\ nmOutput' = [nmOutput EXCEPT ![nmCalls[p].task] = NmNothing]
          /\ nmCalls' = NmMove(p, "error")
    /\ nmRaced' = (nmRaced \/ NmWorkedOnElsewhere(p))
    /\ UNCHANGED <<nmConfig, nmRuns, nmVersion, nmEdits, nmCompleted, nmEntries, nmTwice,
                   nmStale>>

(* A dependency or a sequential step that failed ends the call with its
   error; parallel steps are joined first. *)
NmFail(p) ==
    /\ NmAt(p) \in {"dependencies", "steps"}
    /\ \E i \in 1..NmLast(p) : NmChildAt(p, i) = "error"
    /\ NmDef(p).parallel /\ NmAt(p) = "steps" =>
         \A i \in (NmLastDependency(p) + 1)..NmLast(p) : NmChildAt(p, i) \in NmEnded
    /\ nmCalls' = NmMove(p, "error")
    /\ NmSame /\ NmSameCache /\ UNCHANGED <<nmCompleted, nmTwice>>

NmDependenciesDone(p) ==
    /\ NmAt(p) = "dependencies"
    /\ \A i \in 1..NmLastDependency(p) : NmChildAt(p, i) = "ok"
    /\ nmCalls' = NmMove(p, IF NmDef(p).cached THEN "cache" ELSE "steps")
    /\ NmSame /\ NmSameCache /\ UNCHANGED <<nmCompleted, nmTwice>>

(* The lookup: a hit restores the output and completes the task. *)
NmFound(p) == {e \in nmEntries : e.key = NmKeys[nmCalls[p].task]}

NmHit(p) ==
    /\ NmAt(p) = "cache" /\ NmFound(p) # {}
    /\ \E e \in NmFound(p) :
         /\ nmOutput' = [nmOutput EXCEPT ![nmCalls[p].task] = e.made]
         /\ nmStale' = IF e.made = NmMakes(nmCalls[p].task) \/ nmRaced THEN nmStale
                       ELSE nmStale \cup {nmCalls[p].task}
    /\ nmCompleted' = nmCompleted \cup {NmStateOf(p)}
    /\ nmCalls' = NmMove(p, "ok")
    /\ NmSame /\ UNCHANGED <<nmEntries, nmTwice>>

(* A miss; a remote cache that fails may be fatal.  A remote hit is an entry
   that is found like a local one. *)
NmMiss(p) ==
    /\ NmAt(p) = "cache"
    /\ \/ /\ NmFound(p) = {}
          /\ LET call == [nmCalls[p] EXCEPT !.key = NmKeys[nmCalls[p].task]]
             IN  nmCalls' = [nmCalls EXCEPT ![p] = [call EXCEPT !.at = "steps"]]
       \/ NmFound(p) = {} /\ nmConfig.remoteFatal /\ nmCalls' = NmMove(p, "error")
    /\ NmSame /\ NmSameCache /\ UNCHANGED <<nmCompleted, nmTwice>>

(* The task is completed first, *)
NmStepsDone(p) ==
    /\ NmAt(p) = "steps"
    /\ \A i \in 1..NmLast(p) : NmChildAt(p, i) = "ok"
    /\ nmCompleted' = nmCompleted \cup {NmStateOf(p)}
    /\ nmCalls' = NmMove(p, IF NmDef(p).cached THEN "store" ELSE "ok")
    /\ NmSame /\ NmSameCache /\ UNCHANGED nmTwice

(* store_named_cache_entry: under the key of before the steps; then stored, or the store
   or a fatal upload fails the call although the task is completed. *)
NmStore(p) ==
    /\ NmAt(p) = "store"
    /\ \/ /\ nmEntries' = {e \in nmEntries : e.key # nmCalls[p].key}
                             \cup {[key |-> nmCalls[p].key, made |-> nmOutput[nmCalls[p].task]]}
          /\ nmCalls' = NmMove(p, "ok")
       \/ UNCHANGED nmEntries /\ nmCalls' = NmMove(p, "error")
    /\ NmSame /\ UNCHANGED <<nmCompleted, nmOutput, nmTwice, nmStale>>

NmStep ==
    \E p \in DOMAIN nmCalls :
        \/ NmEnter(p)
        \/ NmLock(p)
        \/ \E i \in 1..NmLast(p) : NmStart(p, i)
        \/ NmProcess(p)
        \/ NmFail(p)
        \/ NmDependenciesDone(p)
        \/ NmHit(p)
        \/ NmMiss(p)
        \/ NmStepsDone(p)
        \/ NmStore(p)

NmNext ==
    \/ NmInvoke
    \/ \E t \in NmTasks : NmEdit(t)
    \/ NmStep

NmSpec == NmInit /\ [][NmNext]_nmVars

--------------------------------------------------------------------------------
(* Types.                                                                  *)
NmTypeOK ==
    /\ nmRuns \in 0..NmInvocations /\ nmEdits \in 0..NmMaxEdits
    /\ \A p \in DOMAIN nmCalls :
         /\ p \in Seq(Nat) /\ nmCalls[p].task \in NmTasks /\ NmAt(p) \in NmPhases
         /\ p # <<>> => SubSeq(p, 1, Len(p) - 1) \in DOMAIN nmCalls
    /\ \A x \in nmCompleted : x[1] \in DOMAIN nmCalls /\ x[2] \in NmTasks

(* In one ExecutionState a task that has completed never starts a step
   again, and two calls never work on the same task, however many parallel
   steps reach it through their dependencies. *)
NmRunsOnce ==
    /\ nmTwice = {}
    /\ \A p \in DOMAIN nmCalls : Cardinality(NmHolders(p)) <= 1

(* A task's steps start only when its dependencies have completed in the
   same state, whoever completed them. *)
NmDependenciesFirst ==
    \A p \in DOMAIN nmCalls :
        NmAt(p) \in {"cache", "steps", "store"} =>
            \A i \in 1..NmLastDependency(p) :
                <<nmCalls[p].run, NmDef(p).dependencies[i]>> \in nmCompleted

(* What a call waits for: the holder of the lock it wants, or its children. *)
NmWaitsFor(p) ==
    IF NmAt(p) = "wait" THEN NmHolders(p)
    ELSE {q \in NmActive : Len(q) = Len(p) + 1 /\ SubSeq(q, 1, Len(p)) = p}

(* The calls never all wait for one another: parallel steps that reach the
   same tasks in different orders take the locks of a graph without cycles. *)
NmNotStuck == NmActive # {} => \E p \in NmActive : NmWaitsFor(p) = {}

(* The calls of an invocation share their work (execute_task). *)
NmSafety == NmRunsOnce /\ NmDependenciesFirst /\ NmNotStuck

(* As long as no input changes under a running invocation, and no bound target
   runs a task beside another state, what a task restores is what its commands
   would have made of its dependencies as they are now: "hash" through their
   keys, "outputs" through their outputs. *)
NmHitsAreFresh == nmStale = {}
================================================================================

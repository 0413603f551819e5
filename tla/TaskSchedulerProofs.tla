-------------------------- MODULE TaskSchedulerProofs --------------------------
(***************************************************************************)
(* Proofs about TaskScheduler for every project graph, selection, target   *)
(* and parallel limit.  IInv is inductive; the safety properties are its   *)
(* conjuncts or follow from it.                                            *)
(***************************************************************************)
EXTENDS TaskScheduler, FiniteSetTheorems, TLAPS

(* A selection is a set of projects, with or without its upstream closure. *)
LEMMA SelectionIsSetOfProjects ==
    ASSUME NEW r \in Requests
    PROVE  Selection(r) \subseteq Projects
  BY DEF Selection, Requests, WithUpstream

(* Dependencies stay inside the selection, and all the sets that are counted are
   finite. *)
LEMMA CountedSetsAreFinite ==
    ASSUME TypeOK
    PROVE  /\ \A p \in Projects : /\ SelectedDependencies(p) \subseteq selected
                                  /\ IsFiniteSet(SelectedDependencies(p))
                                  /\ IsFiniteSet(Unmet(p))
           /\ IsFiniteSet(InFlight)
  <1>1. IsFiniteSet(Projects) /\ selected \subseteq Projects
    BY ProjectsAssumption DEF TypeOK
  <1>2. \A p \in Projects : /\ SelectedDependencies(p) \subseteq selected
                            /\ SelectedDependencies(p) \in SUBSET Projects
                            /\ Unmet(p) \in SUBSET Projects
    BY <1>1 DEF SelectedDependencies, Unmet
  <1>3. InFlight \in SUBSET Projects
    BY DEF InFlight
  <1> QED
    BY <1>1, <1>2, <1>3, FS_Subset

(* The dependency sets never change during a run. *)
LEMMA DependenciesAreFixed ==
    ASSUME UNCHANGED <<target, selected>>, NEW p \in Projects
    PROVE  /\ SelectedDependencies(p)' = SelectedDependencies(p)
           /\ Dependents(p)' = Dependents(p)
  BY DEF SelectedDependencies, Dependents, TargetUpstream, UpstreamWithDev

(* The initial state satisfies the invariant. *)
LEMMA InitEstablishesIInv == Init => IInv
  <1> SUFFICES ASSUME Init PROVE IInv
    OBVIOUS
  <1>1. target \in Targets /\ selected \subseteq Projects
    <2>1. PICK r \in Requests : target = r.target /\ selected = Selection(r)
      BY DEF Init
    <2> QED
      BY <2>1, SelectionIsSetOfProjects DEF Requests
  <1>2. \A p \in Projects : IsFiniteSet(SelectedDependencies(p))
    <2> SUFFICES ASSUME NEW p \in Projects
                 PROVE  IsFiniteSet(SelectedDependencies(p))
      OBVIOUS
    <2>1. SelectedDependencies(p) \in SUBSET Projects
      BY <1>1 DEF SelectedDependencies
    <2> QED
      BY <2>1, ProjectsAssumption, FS_Subset
  <1>3. TypeOK
    <2>1. remaining \in [Projects -> Nat]
      BY <1>2, FS_CardinalityType DEF Init
    <2> QED
      BY <1>1, <2>1 DEF Init, TypeOK
  <1>4. InFlight = {} /\ Started = {} /\ Succeeded = {}
    BY DEF Init, InFlight, Started, Succeeded, Results
  <1>5. CountsFollowSets
    <2>1. \A p \in selected : remaining[p] = Cardinality(Unmet(p))
      BY <1>1, <1>4 DEF Init, Unmet
    <2>2. running = Cardinality(InFlight)
      BY <1>4, FS_EmptySet DEF Init
    <2>3. running <= MaxParallel
      BY SchedulerAssumption DEF Init
    <2> QED
      BY <2>1, <2>2, <2>3 DEF CountsFollowSets
  <1>6. ReadyIsExact
    BY <1>1, <1>4 DEF Init, ReadyIsExact, Unmet
  <1>7. OutcomesFollowWorkers /\ PhasesAreQuiet
    BY <1>4 DEF Init, OutcomesFollowWorkers, PhasesAreQuiet
  <1>8. DependencyOrder /\ SkipsExactlyBehindFailure /\ VerdictIsEarned /\ NeverStalls
    BY <1>4 DEF Init, DependencyOrder, SkipsExactlyBehindFailure, VerdictIsEarned, NeverStalls
  <1> QED
    BY <1>3, <1>5, <1>6, <1>7, <1>8 DEF IInv

(* Spawning the first ready project. *)
LEMMA SpawnTaskPreserves ==
    ASSUME IInv, NEW p \in Projects, SpawnTask(p)
    PROVE  IInv'
  <1> USE DEF IInv
  <1>1. /\ p \in ready /\ worker[p] = "idle" /\ Unmet(p) = {} /\ p \in selected
        /\ running < MaxParallel /\ ~error /\ pc = "spawn"
    BY DEF SpawnTask, CanSpawn, FirstReady, ReadyIsExact, TypeOK
  <1>2. TypeOK'
    BY <1>1 DEF SpawnTask, TypeOK
  <1>3. \A q \in Projects : /\ SelectedDependencies(q)' = SelectedDependencies(q)
                            /\ Unmet(q)' = Unmet(q)
    BY DependenciesAreFixed DEF SpawnTask, Unmet, Succeeded
  <1>4. Succeeded' = Succeeded /\ Started' = Started \cup {p}
    BY <1>1 DEF SpawnTask, Succeeded, Started, TypeOK
  <1>5. InFlight' = InFlight \cup {p} /\ p \notin InFlight
    BY <1>1 DEF SpawnTask, InFlight, TypeOK, Results
  <1>6. CountsFollowSets'
    <2>1. (\A q \in selected : remaining[q] = Cardinality(Unmet(q)))'
      BY <1>3 DEF SpawnTask, CountsFollowSets, TypeOK
    <2>2. (running = Cardinality(InFlight))'
      <3>1. Cardinality(InFlight') = Cardinality(InFlight) + 1
        BY <1>5, CountedSetsAreFinite, FS_AddElement
      <3> QED
        BY <3>1 DEF SpawnTask, CountsFollowSets
    <2>3. (running <= MaxParallel)'
      BY <1>1, SchedulerAssumption DEF SpawnTask, TypeOK
    <2> QED
      BY <2>1, <2>2, <2>3 DEF CountsFollowSets
  <1>7. ReadyIsExact'
    BY <1>1, <1>3 DEF SpawnTask, ReadyIsExact, TypeOK
  <1>8. DependencyOrder'
    BY <1>1, <1>3, <1>4 DEF DependencyOrder, Unmet, Started
  <1>9. OutcomesFollowWorkers'
    BY <1>1, <1>4 DEF SpawnTask, OutcomesFollowWorkers, TypeOK
  <1>10. PhasesAreQuiet' /\ SkipsExactlyBehindFailure' /\ VerdictIsEarned' /\ NeverStalls'
    BY <1>1 DEF SpawnTask, PhasesAreQuiet, SkipsExactlyBehindFailure, VerdictIsEarned, NeverStalls
  <1> QED
    BY <1>2, <1>6, <1>7, <1>8, <1>9, <1>10

(* When the loop has ended without an error, nothing is in flight and every
   selected project without an outcome waits for one that did not succeed. *)
LEMMA MissingIsBlocked ==
    ASSUME IInv, pc = "finish", ~error
    PROVE  /\ InFlight = {}
           /\ \A p \in Missing : worker[p] = "idle" /\ Unmet(p) # {}
           /\ \A p \in selected \ Missing : outcome[p] \in {"succeeded", "failed"}
                                           /\ Unmet(p) = {}
  <1> USE DEF IInv
  <1>1. InFlight = {}
    BY CountedSetsAreFinite, FS_EmptySet DEF PhasesAreQuiet, CountsFollowSets
  <1>2. verdict = "none" /\ ready = {}
    BY DEF PhasesAreQuiet
  <1>3. \A p \in Projects : worker[p] \in {"idle", "joined"}
    BY <1>1 DEF InFlight, TypeOK
  <1>4. ASSUME NEW p \in Missing
        PROVE  worker[p] = "idle" /\ Unmet(p) # {}
    BY <1>2, <1>3 DEF Missing, OutcomesFollowWorkers, ReadyIsExact, TypeOK
  <1>5. ASSUME NEW p \in selected \ Missing
        PROVE  outcome[p] \in {"succeeded", "failed"} /\ Unmet(p) = {}
    <2>1. outcome[p] \in {"succeeded", "failed"} /\ p \in Projects
      BY <1>2 DEF Missing, OutcomesFollowWorkers, TypeOK
    <2>2. p \in Started
      BY <2>1 DEF OutcomesFollowWorkers, Started
    <2> QED
      BY <2>1, <2>2 DEF DependencyOrder, Unmet
  <1> QED
    BY <1>1, <1>4, <1>5

(* The stall branch is dead: the missing projects would need a member without a
   dependency among them, and with no failure its dependencies all succeeded. *)
LEMMA StallIsImpossible ==
    ASSUME IInv, pc = "finish", ~error
    PROVE  Completed
  <1> SUFFICES ASSUME ~Completed PROVE FALSE
    OBVIOUS
  <1> USE DEF IInv
  <1>1. pc = "finish" /\ ~error /\ firstFailure = NoProject /\ Missing # {}
    BY DEF Completed
  <1>2. Missing \in SUBSET Projects
    BY DEF Missing, TypeOK
  <1>3. PICK p \in Missing : UpstreamWithDev(p) \cap Missing = {}
    BY <1>1, <1>2, AcyclicAssumption
  <1>4. p \in Projects /\ SelectedDependencies(p) \subseteq UpstreamWithDev(p)
        /\ SelectedDependencies(p) \subseteq selected
    BY <1>2, ProjectsAssumption DEF SelectedDependencies, TargetUpstream, UpstreamWithDev, TypeOK
  <1>5. PICK d \in Unmet(p) : TRUE
    BY <1>1, MissingIsBlocked
  <1>6. d \in selected \ Missing /\ d \in Projects /\ outcome[d] # "succeeded"
    BY <1>3, <1>4, <1>5 DEF Unmet, Succeeded, TypeOK
  <1>7. outcome[d] = "failed"
    BY <1>1, <1>6, MissingIsBlocked
  <1> QED
    BY <1>1, <1>6, <1>7 DEF OutcomesFollowWorkers

(* Steps that move the main thread, set the error or cancel the token, and leave
   workers and outcomes alone. *)
LEMMA QuietStepsPreserve ==
    ASSUME IInv,
           \/ StopSpawning \/ TerminalFails \/ Cancel \/ FinishWithError \/ SummaryFails
           \/ UNCHANGED vars
           \/ \E p \in Projects : TerminalStartFails(p)
    PROVE  IInv'
  <1>0. FinishWithError => verdict' = "error"
    BY StallIsImpossible DEF FinishWithError
  <1> USE DEF IInv
  <1>1. UNCHANGED <<target, selected, remaining, running, worker, outcome, firstFailure>>
    BY DEF StopSpawning, TerminalFails, Cancel, FinishWithError, SummaryFails, vars, TerminalStartFails
  <1>2. /\ ready' \subseteq ready
        /\ ~error' => ~error /\ ready' = ready
    BY DEF StopSpawning, TerminalFails, Cancel, FinishWithError, SummaryFails, vars, TerminalStartFails
  <1>3. \A q \in Projects : /\ SelectedDependencies(q)' = SelectedDependencies(q)
                            /\ Unmet(q)' = Unmet(q)
    BY <1>1, DependenciesAreFixed DEF Unmet, Succeeded
  <1>4. /\ InFlight' = InFlight /\ Succeeded' = Succeeded /\ Started' = Started
    BY <1>1 DEF InFlight, Succeeded, Started
  <1>5. TypeOK'
    BY <1>1, <1>2 DEF StopSpawning, TerminalFails, Cancel, FinishWithError, SummaryFails, vars,
         TerminalStartFails, LeaveSpawning, TypeOK
  <1>6. CountsFollowSets'
    BY <1>1, <1>3, <1>4 DEF CountsFollowSets, TypeOK
  <1>7. ReadyIsExact'
    BY <1>1, <1>2, <1>3 DEF ReadyIsExact, TypeOK
  <1>8. DependencyOrder'
    BY <1>3, <1>4 DEF DependencyOrder, Started
  <1>9. /\ verdict' = verdict \/ verdict' = "error"
        /\ verdict' # verdict => verdict = "none"
    BY <1>0 DEF StopSpawning, TerminalFails, Cancel, FinishWithError, SummaryFails, vars, TerminalStartFails,
         PhasesAreQuiet
  <1>10. OutcomesFollowWorkers'
    <2>1. verdict = "completed" => verdict' = "completed"
      BY <1>9
    <2> QED
      BY <1>1, <1>2, <1>4, <2>1 DEF OutcomesFollowWorkers, TypeOK
  <1>11. PhasesAreQuiet'
    BY SchedulerAssumption DEF StopSpawning, TerminalFails, Cancel, FinishWithError, SummaryFails, vars,
         TerminalStartFails, LeaveSpawning, CanSpawn, PhasesAreQuiet, CountsFollowSets, TypeOK,
         FirstReady, ReadyIsExact
  <1>12. SkipsExactlyBehindFailure' /\ NeverStalls'
    BY <1>1, <1>3, <1>9 DEF SkipsExactlyBehindFailure, NeverStalls, TypeOK
  <1>13. VerdictIsEarned'
    <2>1. CASE pc' = "done" /\ pc # "done"
      <3>1. running = 0 /\ verdict' = "error"
        BY <1>0, <2>1 DEF StopSpawning, TerminalFails, Cancel, FinishWithError, SummaryFails, vars,
             TerminalStartFails, LeaveSpawning, PhasesAreQuiet
      <3>2. InFlight = {}
        BY <3>1, CountedSetsAreFinite, FS_EmptySet DEF CountsFollowSets
      <3> QED
        BY <3>1, <3>2, <1>4 DEF VerdictIsEarned
    <2>2. CASE pc' # "done"
      BY <2>2 DEF VerdictIsEarned
    <2>3. CASE pc = "done"
      <3>1. verdict' = verdict
        BY <2>3, <1>9 DEF PhasesAreQuiet
      <3> QED
        BY <1>1, <1>4, <2>3, <3>1 DEF VerdictIsEarned
    <2> QED
      BY <2>1, <2>2, <2>3
  <1> QED
    BY <1>5, <1>6, <1>7, <1>8, <1>10, <1>11, <1>12, <1>13

(* A worker's report moves it within the set in flight. *)
LEMMA WorkerReportsPreserves ==
    ASSUME IInv, NEW p \in Projects, Worker(p)
    PROVE  IInv'
  <1> USE DEF IInv
  <1>1. PICK result \in Results : WorkerReports(p, result)
    BY DEF Worker
  <1>2. UNCHANGED <<target, selected, pc, remaining, ready, running, outcome, firstFailure,
                    error, verdict>>
    BY <1>1 DEF WorkerReports
  <1>3. \A q \in Projects : /\ SelectedDependencies(q)' = SelectedDependencies(q)
                            /\ Unmet(q)' = Unmet(q)
    BY <1>2, DependenciesAreFixed DEF Unmet, Succeeded
  <1>4. /\ InFlight' = InFlight /\ Succeeded' = Succeeded /\ Started' = Started
        /\ \A q \in Projects : /\ worker'[q] = "idle" <=> worker[q] = "idle"
                               /\ worker'[q] = "joined" <=> worker[q] = "joined"
    BY <1>1 DEF WorkerReports, InFlight, Succeeded, Started, Results, TypeOK
  <1>5. TypeOK'
    BY <1>1 DEF WorkerReports, TypeOK
  <1>6. CountsFollowSets'
    BY <1>2, <1>3, <1>4 DEF CountsFollowSets, TypeOK
  <1>7. ReadyIsExact'
    BY <1>2, <1>3, <1>4 DEF ReadyIsExact, TypeOK
  <1>8. DependencyOrder'
    BY <1>3, <1>4 DEF DependencyOrder, Started
  <1>9. OutcomesFollowWorkers'
    BY <1>2, <1>4 DEF OutcomesFollowWorkers
  <1>10. PhasesAreQuiet' /\ SkipsExactlyBehindFailure' /\ NeverStalls' /\ VerdictIsEarned'
    BY <1>2, <1>3, <1>4 DEF PhasesAreQuiet, SkipsExactlyBehindFailure, NeverStalls,
         VerdictIsEarned, TypeOK
  <1> QED
    BY <1>5, <1>6, <1>7, <1>8, <1>9, <1>10

(* Collecting any message: the worker leaves the set in flight and the counter
   follows it. *)
LEMMA ReceiveKeepsRunningCount ==
    ASSUME IInv, NEW p \in Projects, worker[p] \in Results, Receive(p)
    PROVE  /\ running \in Nat \ {0} /\ running' \in Nat
           /\ (running = Cardinality(InFlight))'
           /\ (running <= MaxParallel)'
           /\ Started' = Started
           /\ p \in selected
  <1> USE DEF IInv
  <1>1. p \in InFlight /\ InFlight' = InFlight \ {p}
    BY DEF Receive, InFlight, TypeOK, Results
  <1>2. Cardinality(InFlight') = Cardinality(InFlight) - 1
    BY <1>1, CountedSetsAreFinite, FS_RemoveElement
  <1>3. Cardinality(InFlight) # 0
    BY <1>1, CountedSetsAreFinite, FS_EmptySet
  <1>4. Started' = Started /\ p \in selected
    BY DEF Receive, Started, TypeOK, Results, OutcomesFollowWorkers
  <1> QED
    BY <1>2, <1>3, <1>4, SchedulerAssumption DEF Receive, CountsFollowSets, TypeOK

(* A failed task or an internal error: no dependent is released. *)
LEMMA ReceiveUnsuccessfulPreserves ==
    ASSUME IInv, NEW p \in Projects, ReceiveFailure(p) \/ ReceiveError(p)
    PROVE  IInv'
  <1> USE DEF IInv
  <1>1. /\ Receive(p) /\ worker[p] \in Results
        /\ UNCHANGED <<remaining, ready>>
        /\ error => error'
        /\ error' \in BOOLEAN
    BY DEF ReceiveFailure, ReceiveError, Results, DrawCompletion, TypeOK
  <1>2. pc = "receive" /\ pc' = "spawn" /\ UNCHANGED <<target, selected, verdict, cancelled>>
    BY <1>1 DEF Receive
  <1>3. worker' = [worker EXCEPT ![p] = "joined"]
    BY <1>1 DEF Receive
  <1>4. /\ outcome' = [outcome EXCEPT ![p] = outcome'[p]]
        /\ outcome'[p] = "failed" \/ (outcome'[p] = outcome[p] /\ error')
        /\ outcome'[p] = "failed" => firstFailure' # NoProject
        /\ firstFailure' = firstFailure
           \/ (firstFailure = NoProject /\ firstFailure' = p /\ outcome'[p] = "failed")
    BY SchedulerAssumption DEF ReceiveFailure, ReceiveError, TypeOK, OutcomesFollowWorkers
  <1>5. worker[p] \notin {"idle", "joined"}
    BY <1>1 DEF Results
  <1>6. outcome[p] \notin {"succeeded", "failed"}
    BY <1>5 DEF OutcomesFollowWorkers
  <1>7. Succeeded' = Succeeded
    BY <1>4, <1>6 DEF Succeeded, TypeOK
  <1>8. \A q \in Projects : /\ SelectedDependencies(q)' = SelectedDependencies(q)
                            /\ Unmet(q)' = Unmet(q)
    BY <1>2, <1>7, DependenciesAreFixed DEF Unmet
  <1>9. /\ running' \in Nat /\ (running = Cardinality(InFlight))' /\ (running <= MaxParallel)'
        /\ Started' = Started
    BY <1>1, ReceiveKeepsRunningCount
  <1>10. TypeOK'
    <2>1. outcome' \in [Projects -> {"none", "succeeded", "failed", "skipped"}]
      BY <1>4 DEF TypeOK
    <2>2. worker' \in [Projects -> {"idle", "running", "joined"} \cup Results]
      BY <1>3 DEF TypeOK
    <2>3. firstFailure' \in Projects \cup {NoProject}
      BY <1>4 DEF TypeOK
    <2> QED
      BY <1>1, <1>2, <1>9, <2>1, <2>2, <2>3 DEF TypeOK
  <1>11. CountsFollowSets'
    BY <1>1, <1>2, <1>8, <1>9 DEF CountsFollowSets, TypeOK
  <1>12. ReadyIsExact'
    BY <1>1, <1>2, <1>3, <1>5, <1>8 DEF ReadyIsExact, TypeOK
  <1>13. DependencyOrder'
    BY <1>7, <1>8, <1>9 DEF DependencyOrder, Started
  <1>14. OutcomesFollowWorkers'
    <2>1. (Started \subseteq selected)'
      BY <1>2, <1>9 DEF OutcomesFollowWorkers
    <2>2. (firstFailure # NoProject => outcome[firstFailure] = "failed")'
      BY <1>4, <1>6, SchedulerAssumption DEF OutcomesFollowWorkers, TypeOK
    <2>3. ASSUME NEW q \in Projects
          PROVE  (/\ outcome[q] \in {"succeeded", "failed"} => worker[q] = "joined"
                  /\ ~error /\ worker[q] = "joined" => outcome[q] \in {"succeeded", "failed"}
                  /\ outcome[q] = "failed" => firstFailure # NoProject
                  /\ outcome[q] = "skipped" => verdict = "completed")'
      <3>1. CASE q = p
        BY <1>1, <1>2, <1>3, <1>4, <1>6, <3>1 DEF OutcomesFollowWorkers, TypeOK
      <3>2. CASE q # p
        BY <1>1, <1>2, <1>3, <1>4, <3>2, SchedulerAssumption DEF OutcomesFollowWorkers, TypeOK
      <3> QED
        BY <3>1, <3>2
    <2> QED
      BY <2>1, <2>2, <2>3 DEF OutcomesFollowWorkers
  <1>15. verdict' = "none" /\ verdict = "none"
    BY <1>2 DEF PhasesAreQuiet
  <1>16. PhasesAreQuiet' /\ SkipsExactlyBehindFailure' /\ VerdictIsEarned' /\ NeverStalls'
    BY <1>2, <1>15 DEF PhasesAreQuiet, SkipsExactlyBehindFailure, VerdictIsEarned, NeverStalls
  <1> QED
    BY <1>10, <1>11, <1>12, <1>13, <1>14, <1>16

(* A success: exactly the dependents lose one unmet dependency, and their counts
   follow. *)
LEMMA ReceiveSuccessPreserves ==
    ASSUME IInv, NEW p \in Projects, ReceiveSuccess(p)
    PROVE  IInv'
  <1> USE DEF IInv
  <1>1. /\ Receive(p) /\ worker[p] = "succeeded" /\ worker[p] \in Results
        /\ outcome' = [outcome EXCEPT ![p] = "succeeded"]
        /\ error => error'
        /\ error' \in BOOLEAN
        /\ UNCHANGED firstFailure
    BY DEF ReceiveSuccess, Results, DrawCompletion, TypeOK
  <1>2. /\ pc = "receive" /\ pc' = "spawn"
        /\ worker' = [worker EXCEPT ![p] = "joined"]
        /\ UNCHANGED <<target, selected, verdict, cancelled>>
    BY <1>1 DEF Receive
  <1>3. /\ running' \in Nat /\ (running = Cardinality(InFlight))' /\ (running <= MaxParallel)'
        /\ Started' = Started /\ p \in selected
    BY <1>1, ReceiveKeepsRunningCount
  <1>4. outcome[p] \notin {"succeeded", "failed"}
    BY <1>1 DEF OutcomesFollowWorkers
  <1>5. Succeeded' = Succeeded \cup {p} /\ p \notin Succeeded
    BY <1>1, <1>4 DEF Succeeded, TypeOK
  <1>6. \A q \in Projects : /\ SelectedDependencies(q)' = SelectedDependencies(q)
                            /\ Unmet(q)' = Unmet(q) \ {p}
    BY <1>2, <1>5, DependenciesAreFixed DEF Unmet
  <1>7. \A q \in selected : q \in Dependents(p) <=> p \in Unmet(q)
    BY <1>5 DEF Dependents, Unmet, TypeOK
  <1>8. /\ remaining' = [q \in Projects |-> IF q \in Dependents(p) THEN remaining[q] - 1
                                                                  ELSE remaining[q]]
        /\ ready' = ready \cup Released(p)
    BY DEF ReceiveSuccess
  <1>9. ASSUME NEW q \in selected
        PROVE  /\ remaining'[q] = Cardinality(Unmet(q)')
               /\ remaining'[q] \in Nat
               /\ q \in Released(p) <=> Unmet(q)' = {} /\ Unmet(q) # {}
    <2>1. q \in Projects /\ IsFiniteSet(Unmet(q)) /\ remaining[q] = Cardinality(Unmet(q))
      BY CountedSetsAreFinite DEF CountsFollowSets, TypeOK
    <2>2. IsFiniteSet(Unmet(q) \ {p})
          /\ Cardinality(Unmet(q) \ {p}) = IF p \in Unmet(q) THEN Cardinality(Unmet(q)) - 1
                                                           ELSE Cardinality(Unmet(q))
      BY <2>1, FS_RemoveElement
    <2>3. Cardinality(Unmet(q) \ {p}) \in Nat /\ Cardinality(Unmet(q)) \in Nat
      BY <2>1, <2>2, FS_CardinalityType
    <2>4. Unmet(q) \ {p} = {} <=> Cardinality(Unmet(q) \ {p}) = 0
      BY <2>2, FS_EmptySet
    <2>5. remaining'[q] = Cardinality(Unmet(q) \ {p})
      BY <1>7, <1>8, <2>1, <2>2
    <2>6. q \in Released(p) <=> p \in Unmet(q) /\ Unmet(q) \ {p} = {}
      BY <1>7, <2>1, <2>2, <2>3, <2>4 DEF Released, Dependents
    <2> QED
      BY <1>6, <2>1, <2>3, <2>5, <2>6
  <1>10. TypeOK'
    <2>1. remaining' \in [Projects -> Nat]
      BY <1>8, <1>9 DEF TypeOK, Dependents
    <2>2. ready' \subseteq selected'
      BY <1>2, <1>8 DEF TypeOK, Released, Dependents
    <2>3. /\ outcome' \in [Projects -> {"none", "succeeded", "failed", "skipped"}]
          /\ worker' \in [Projects -> {"idle", "running", "joined"} \cup Results]
      BY <1>1, <1>2 DEF TypeOK
    <2> QED
      BY <1>1, <1>2, <1>3, <2>1, <2>2, <2>3 DEF TypeOK
  <1>11. CountsFollowSets'
    BY <1>2, <1>3, <1>9 DEF CountsFollowSets
  <1>12. ReadyIsExact'
    <2>1. ASSUME NEW q \in ready'
          PROVE  worker'[q] = "idle" /\ Unmet(q)' = {}
      <3>1. q \in selected /\ q \in Projects
        BY <1>2, <1>10 DEF TypeOK
      <3>2. CASE q \in ready
        BY <1>1, <1>2, <1>6, <3>1, <3>2 DEF ReadyIsExact, TypeOK
      <3>3. CASE q \in Released(p)
        <4>1. Unmet(q)' = {} /\ Unmet(q) # {}
          BY <1>9, <3>1, <3>3
        <4>2. worker[q] = "idle"
          BY <4>1, <3>1 DEF DependencyOrder, Started, Unmet
        <4> QED
          BY <1>1, <1>2, <3>1, <4>1, <4>2 DEF TypeOK
      <3> QED
        BY <1>8, <3>2, <3>3
    <2>2. ASSUME ~error', NEW q \in selected', worker'[q] = "idle", Unmet(q)' = {}
          PROVE  q \in ready'
      <3>1. q \in selected /\ q \in Projects /\ ~error /\ worker[q] = "idle"
        BY <1>1, <1>2, <2>2 DEF TypeOK
      <3>2. CASE Unmet(q) = {}
        BY <1>8, <3>1, <3>2 DEF ReadyIsExact
      <3>3. CASE Unmet(q) # {}
        BY <1>8, <1>9, <2>2, <3>1, <3>3
      <3> QED
        BY <3>2, <3>3
    <2> QED
      BY <2>1, <2>2 DEF ReadyIsExact
  <1>13. DependencyOrder'
    BY <1>3, <1>5, <1>6 DEF DependencyOrder, Started
  <1>14. OutcomesFollowWorkers'
    <2>1. (Started \subseteq selected)'
      BY <1>2, <1>3 DEF OutcomesFollowWorkers
    <2>2. (firstFailure # NoProject => outcome[firstFailure] = "failed")'
      BY <1>1, <1>4 DEF OutcomesFollowWorkers, TypeOK
    <2>3. ASSUME NEW q \in Projects
          PROVE  (/\ outcome[q] \in {"succeeded", "failed"} => worker[q] = "joined"
                  /\ ~error /\ worker[q] = "joined" => outcome[q] \in {"succeeded", "failed"}
                  /\ outcome[q] = "failed" => firstFailure # NoProject
                  /\ outcome[q] = "skipped" => verdict = "completed")'
      BY <1>1, <1>2 DEF OutcomesFollowWorkers, TypeOK
    <2> QED
      BY <2>1, <2>2, <2>3 DEF OutcomesFollowWorkers
  <1>15. verdict' = "none" /\ verdict = "none"
    BY <1>2 DEF PhasesAreQuiet
  <1>16. PhasesAreQuiet' /\ SkipsExactlyBehindFailure' /\ VerdictIsEarned' /\ NeverStalls'
    BY <1>2, <1>15 DEF PhasesAreQuiet, SkipsExactlyBehindFailure, VerdictIsEarned, NeverStalls
  <1> QED
    BY <1>10, <1>11, <1>12, <1>13, <1>14, <1>16

(* Completion marks the blocked projects as skipped. *)
LEMMA FinishCompletedPreserves ==
    ASSUME IInv, FinishCompleted
    PROVE  IInv'
  <1> USE DEF IInv
  <1>1. /\ pc = "finish" /\ ~error /\ (firstFailure # NoProject \/ Missing = {})
        /\ pc' = "done" /\ verdict' = "completed"
        /\ outcome' = [p \in Projects |-> IF p \in Missing THEN "skipped" ELSE outcome[p]]
        /\ UNCHANGED <<target, selected, remaining, ready, running, worker, firstFailure, error,
                       cancelled>>
    BY DEF FinishCompleted, Completed
  <1>2. /\ InFlight = {}
        /\ \A p \in Missing : worker[p] = "idle" /\ Unmet(p) # {} /\ outcome[p] = "none"
        /\ \A p \in selected \ Missing : outcome[p] \in {"succeeded", "failed"} /\ Unmet(p) = {}
    BY <1>1, MissingIsBlocked DEF Missing
  <1>3. Succeeded' = Succeeded
    BY <1>1 DEF Succeeded, Missing
  <1>4. \A q \in Projects : /\ SelectedDependencies(q)' = SelectedDependencies(q)
                            /\ Unmet(q)' = Unmet(q)
    BY <1>1, <1>3, DependenciesAreFixed DEF Unmet
  <1>5. InFlight' = {} /\ InFlight' = InFlight /\ Started' = Started
    BY <1>1, <1>2 DEF InFlight, Started
  <1>6. TypeOK'
    BY <1>1 DEF TypeOK
  <1>7. CountsFollowSets'
    BY <1>1, <1>4, <1>5 DEF CountsFollowSets, TypeOK
  <1>8. ReadyIsExact'
    BY <1>1, <1>4 DEF ReadyIsExact, TypeOK
  <1>9. DependencyOrder'
    BY <1>3, <1>4, <1>5 DEF DependencyOrder, Started
  <1>10. OutcomesFollowWorkers'
    BY <1>1, <1>2, <1>5 DEF OutcomesFollowWorkers, Missing, TypeOK
  <1>11. PhasesAreQuiet' /\ NeverStalls'
    BY <1>1 DEF PhasesAreQuiet, NeverStalls
  <1>12. SkipsExactlyBehindFailure'
    <2> SUFFICES ASSUME NEW p \in selected
                 PROVE  outcome'[p] = "skipped" <=>
                          \E d \in SelectedDependencies(p) : outcome'[d] \in {"failed", "skipped"}
      BY <1>1, <1>4 DEF SkipsExactlyBehindFailure, TypeOK
    <2>1. p \in Projects /\ SelectedDependencies(p) \subseteq selected
      BY CountedSetsAreFinite DEF TypeOK
    <2>2. \A d \in SelectedDependencies(p) :
             outcome'[d] \in {"failed", "skipped"} <=> d \in Unmet(p)
      BY <1>1, <1>2, <2>1 DEF Unmet, Succeeded, Missing, TypeOK
    <2>3. outcome'[p] = "skipped" <=> p \in Missing
      BY <1>1, <1>2, <2>1
    <2> QED
      BY <1>2, <2>2, <2>3 DEF Unmet
  <1>13. VerdictIsEarned'
    <2>1. CASE firstFailure = NoProject
      <3>1. Missing = {}
        BY <1>1, <2>1
      <3>2. selected \subseteq Succeeded
        BY <1>2, <2>1, <3>1 DEF Succeeded, OutcomesFollowWorkers, TypeOK
      <3> QED
        BY <1>1, <1>3, <1>5, <2>1, <3>2 DEF VerdictIsEarned
    <2>2. CASE firstFailure # NoProject
      <3>1. outcome[firstFailure] = "failed" /\ firstFailure \in Projects
        BY <2>2 DEF OutcomesFollowWorkers, TypeOK
      <3>2. outcome'[firstFailure] = "failed"
        BY <1>1, <3>1 DEF Missing
      <3> QED
        BY <1>1, <1>5, <2>2, <3>2 DEF VerdictIsEarned
    <2> QED
      BY <2>1, <2>2
  <1> QED
    BY <1>6, <1>7, <1>8, <1>9, <1>10, <1>11, <1>12, <1>13

(* IInv holds throughout every run. *)
THEOREM SchedulerInvariant == Spec => []IInv
  <1>1. IInv /\ [Next]_vars => IInv'
    <2> SUFFICES ASSUME IInv, [Next]_vars PROVE IInv'
      OBVIOUS
    <2>1. CASE MainThread
      BY <2>1, SpawnTaskPreserves, QuietStepsPreserve, ReceiveSuccessPreserves,
         ReceiveUnsuccessfulPreserves, FinishCompletedPreserves DEF MainThread
    <2>2. CASE TerminalFails \/ Cancel \/ UNCHANGED vars
      BY <2>2, QuietStepsPreserve
    <2>3. CASE \E p \in Projects : Worker(p)
      BY <2>3, WorkerReportsPreserves
    <2> QED
      BY <2>1, <2>2, <2>3 DEF Next
  <1> QED
    BY <1>1, InitEstablishesIInv, PTL DEF Spec

(* The main thread's and the workers' state keeps its types; in particular no
   dependency count or running count ever goes below zero. *)
THEOREM TypeCorrect == Spec => []TypeOK
  BY SchedulerInvariant, PTL DEF IInv

(* No task starts before the selected projects it directly depends on succeeded. *)
THEOREM TasksRunInDependencyOrder == Spec => []DependencyOrder
  BY SchedulerInvariant, PTL DEF IInv

(* The worker threads in flight never outnumber the parallel limit. *)
THEOREM ParallelLimitHolds == Spec => []ParallelLimit
  <1>1. IInv => ParallelLimit
    BY DEF IInv, CountsFollowSets, ParallelLimit
  <1> QED
    BY <1>1, SchedulerInvariant, PTL

(* The stalled-scheduler error cannot be returned on an acyclic graph. *)
THEOREM SchedulerNeverStalls == Spec => []NeverStalls
  BY SchedulerInvariant, PTL DEF IInv

(* A completed run skipped the projects behind a failure and no other. *)
THEOREM SkipsAreExact == Spec => []SkipsExactlyBehindFailure
  BY SchedulerInvariant, PTL DEF IInv

(* A returned verdict is backed by joined threads and recorded outcomes. *)
THEOREM VerdictsAreEarned == Spec => []VerdictIsEarned
  BY SchedulerInvariant, PTL DEF IInv

--------------------------------------------------------------------------------
(* The counting, threaded scheduler implements the abstract run. *)
Joined == {p \in Projects : worker[p] = "joined"}

LEMMA SelectionRefines ==
    ASSUME TypeOK
    PROVE  /\ selected \in SUBSET Projects
           /\ [p \in Projects |-> SelectedDependencies(p)] \in [Projects -> SUBSET selected]
  BY DEF TypeOK, SelectedDependencies

LEMMA InitRefines == Init => Abstract!Init
  <1> SUFFICES ASSUME Init PROVE Abstract!Init
    OBVIOUS
  <1>1. TypeOK
    BY InitEstablishesIInv DEF IInv
  <1>2. InFlight = {} /\ Succeeded = {} /\ Joined = {} /\ verdict = "none"
    BY DEF Init, InFlight, Succeeded, Joined, Results
  <1> QED
    BY <1>1, <1>2, SelectionRefines DEF Abstract!Init, Joined

LEMMA StepRefines ==
    ASSUME IInv, [Next]_vars
    PROVE  Abstract!Next \/ UNCHANGED Abstract!vars
  <1> USE DEF IInv
  <1> DEFINE needs == [p \in Projects |-> SelectedDependencies(p)]
             mapped == <<needs, selected, InFlight, Succeeded, Joined,
                         IF verdict = "none" THEN "running" ELSE verdict>>
  <1>1. UNCHANGED <<target, selected>> /\ needs' = needs
    BY DependenciesAreFixed DEF Next, MainThread, SpawnTask, TerminalStartFails, ReceiveSuccess,
         ReceiveFailure, ReceiveError, Receive, StopSpawning, FinishWithError,
         FinishCompleted, SummaryFails, TerminalFails, Cancel, Worker, WorkerReports, vars
  <1>2. UNCHANGED <<worker, outcome, verdict>> => UNCHANGED mapped
    BY <1>1 DEF InFlight, Succeeded, Joined
  <1>3. ASSUME NEW p \in Projects, SpawnTask(p)
        PROVE  Abstract!Start(p)
    <2>1. /\ p \in selected /\ worker[p] = "idle" /\ Unmet(p) = {} /\ running < MaxParallel
          /\ pc = "spawn"
      BY <1>3 DEF SpawnTask, CanSpawn, FirstReady, ReadyIsExact, TypeOK
    <2>2. verdict = "none" /\ verdict' = "none"
      BY <1>3, <2>1 DEF SpawnTask, PhasesAreQuiet
    <2>3. p \notin InFlight /\ p \notin Joined /\ InFlight' = InFlight \cup {p}
          /\ Joined' = Joined /\ Succeeded' = Succeeded
      BY <1>3, <2>1 DEF SpawnTask, InFlight, Joined, Succeeded, TypeOK, Results
    <2>4. SelectedDependencies(p) \subseteq Succeeded
      BY <2>1 DEF Unmet
    <2>5. Abstract!Cardinality(InFlight) < MaxParallel
      <3>1. Cardinality(InFlight) < MaxParallel
        BY <2>1 DEF CountsFollowSets
      <3>2. Abstract!Cardinality(InFlight) = Cardinality(InFlight)
        BY DEF Abstract!Cardinality, Cardinality
      <3> QED
        BY <3>1, <3>2
    <2> QED
      BY <1>1, <2>1, <2>2, <2>3, <2>4, <2>5 DEF Abstract!Start, Abstract!Startable, Joined
  <1>4. ASSUME NEW p \in Projects, ReceiveSuccess(p) \/ ReceiveFailure(p) \/ ReceiveError(p)
        PROVE  Abstract!Collect(p)
    <2>1. Receive(p) /\ worker[p] \in Results
      BY <1>4 DEF ReceiveSuccess, ReceiveFailure, ReceiveError, Results
    <2>2. /\ p \in InFlight /\ InFlight' = InFlight \ {p} /\ Joined' = Joined \cup {p}
          /\ verdict' = verdict
      BY <2>1 DEF Receive, InFlight, Joined, TypeOK, Results
    <2>3. Succeeded' \in {Succeeded, Succeeded \cup {p}}
      <3>1. outcome[p] \notin {"succeeded", "failed"}
        BY <2>1 DEF OutcomesFollowWorkers, Results
      <3> QED
        BY <1>4, <3>1 DEF ReceiveSuccess, ReceiveFailure, ReceiveError, Succeeded, TypeOK
    <2> QED
      BY <1>1, <2>2, <2>3 DEF Abstract!Collect, Joined
  <1>5. ASSUME NEW p \in Projects, TerminalStartFails(p)
        PROVE  UNCHANGED mapped
    BY <1>2, <1>5 DEF TerminalStartFails
  <1>6. CASE FinishCompleted
    <2>1. pc = "finish" /\ ~error /\ verdict = "none" /\ verdict' = "completed" /\ worker' = worker
      BY <1>6 DEF FinishCompleted, Completed, PhasesAreQuiet
    <2>2. InFlight = {} /\ InFlight' = InFlight /\ Joined' = Joined /\ Succeeded' = Succeeded
      BY <1>6, <2>1, MissingIsBlocked DEF FinishCompleted, InFlight, Joined, Succeeded, Missing
    <2>3. ASSUME NEW p \in selected \ (InFlight \cup Joined)
          PROVE  ~(needs[p] \subseteq Succeeded)
      <3>1. p \in Missing /\ p \in Projects
        BY <2>1, <2>3 DEF Missing, OutcomesFollowWorkers, Joined, TypeOK
      <3> QED
        BY <2>1, <3>1, MissingIsBlocked DEF Unmet
    <2> QED
      BY <1>1, <2>1, <2>2, <2>3 DEF Abstract!Next, Abstract!End, Abstract!Startable, Joined
  <1>7. CASE FinishWithError \/ SummaryFails
    <2>1. pc = "finish" /\ verdict = "none" /\ verdict' = "error"
          /\ UNCHANGED <<worker, outcome>>
      BY <1>7, StallIsImpossible DEF FinishWithError, SummaryFails, PhasesAreQuiet
    <2>2. InFlight = {}
      BY <2>1, CountedSetsAreFinite, FS_EmptySet DEF PhasesAreQuiet, CountsFollowSets
    <2>3. InFlight' = InFlight /\ Joined' = Joined /\ Succeeded' = Succeeded
      BY <2>1 DEF InFlight, Joined, Succeeded
    <2> QED
      BY <1>1, <2>1, <2>2, <2>3 DEF Abstract!Next, Abstract!End, Joined
  <1>8. ASSUME StopSpawning \/ TerminalFails \/ Cancel \/ UNCHANGED vars
        PROVE  UNCHANGED mapped
    BY <1>2, <1>8 DEF StopSpawning, TerminalFails, Cancel, vars
  <1>9. ASSUME NEW p \in Projects, Worker(p)
        PROVE  UNCHANGED mapped
    BY <1>1, <1>9 DEF Worker, WorkerReports, InFlight, Succeeded, Joined, Results, TypeOK
  <1>10. UNCHANGED mapped => UNCHANGED Abstract!vars
    BY DEF Abstract!vars, Joined
  <1> QED
    BY <1>3, <1>4, <1>5, <1>6, <1>7, <1>8, <1>9, <1>10, StallIsImpossible
       DEF Next, MainThread, Abstract!Next

(* Every run of the scheduler is a dependency-ordered, bounded, maximal run. *)
THEOREM SchedulerImplementsAbstractRun == Spec => ImplementsAbstractRun
  <1>1. Init => Abstract!Init
    BY InitRefines
  <1>2. IInv /\ [Next]_vars => [Abstract!Next]_(Abstract!vars)
    BY StepRefines
  <1> QED
    BY <1>1, <1>2, SchedulerInvariant, PTL DEF Spec, ImplementsAbstractRun, Abstract!Spec
================================================================================

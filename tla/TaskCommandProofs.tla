---------------------------- MODULE TaskCommandProofs ----------------------------
(***************************************************************************)
(* What src/commands/task.rs promises of its two executions, proved: of    *)
(* every persistent session, for any number of steps and in both modes;    *)
(* and of the calls of `gomo task run`, for any tasks without a cycle of   *)
(* references, any dependencies, steps, threads and bound targets: that    *)
(* they share their work and never all wait, and that hits are fresh.      *)
(***************************************************************************)
EXTENDS PersistentTask, NamedTasks, FiniteSetTheorems, SequenceTheorems,
        WellFoundedInduction, TLAPS

--------------------------------------------------------------------------------
(* Persistent sessions. *)

(* The steps whose result the main thread has counted. *)
Counted == {i \in Steps : step[i] \in Results} \ sent

(* The inductive invariant.  The count is that of the results not counted yet, so a
   session that has counted down to zero has seen every result; an error it has seen
   is remembered; and a cancellation is remembered as the first error only when it is
   the user's, since a step says that it was cancelled only after another error. *)
CountIsExact == sent \subseteq {i \in Steps : step[i] \in Results}
                /\ remaining = StepCount - Cardinality(Counted)
CountedErrorIsKept == \A i \in Counted : step[i] \in Errors => firstError # "none"
CancelledHasACause == /\ cancelled => firstError # "none"
                      /\ firstError = "cancelled" => quit
                      /\ \A i \in Steps : step[i] = "cancelled" => cancelled
VerdictIsCounted ==
    main # "loop" => /\ Counted = Steps
                     /\ main = Verdict

IInv ==
    /\ TypeOK
    /\ CountIsExact
    /\ CountedErrorIsKept
    /\ CancelledHasACause
    /\ VerdictIsCounted

--------------------------------------------------------------------------------
(* There are StepCount steps, and a set of steps of that size holds them all. *)
LEMMA StepsAreCounted ==
    /\ IsFiniteSet(Steps)
    /\ Cardinality(Steps) = StepCount
    /\ \A S \in SUBSET Steps :
          /\ IsFiniteSet(S)
          /\ Cardinality(S) \in 0 .. StepCount
          /\ Cardinality(S) = StepCount => S = Steps
<1>1. IsFiniteSet(Steps) /\ Cardinality(Steps) = StepCount
  BY FS_Interval, PersistentTaskAssumption DEF Steps
<1>2. ASSUME NEW S \in SUBSET Steps
      PROVE  /\ IsFiniteSet(S)
             /\ Cardinality(S) \in 0 .. StepCount
             /\ Cardinality(S) = StepCount => S = Steps
  <2>1. IsFiniteSet(S) /\ Cardinality(S) <= StepCount
    BY <1>1, <1>2, FS_Subset
  <2>2. Cardinality(S) \in Nat
    BY <2>1, FS_CardinalityType
  <2>3. Cardinality(S) = StepCount => S = Steps
    BY <1>1, <1>2, FS_Subset
  <2> QED
    BY <2>1, <2>2, <2>3, PersistentTaskAssumption
<1> QED
  BY <1>1, <1>2

(* Nothing is counted when the session begins. *)
LEMMA InitIsCounted == Init => IInv
<1> SUFFICES ASSUME Init PROVE IInv
  OBVIOUS
<1>1. TypeOK
  <2>1. step \in [Steps -> Results \cup {"pending", "running"}] /\ sent \subseteq Steps
    BY DEF Init
  <2>2. remaining \in 0 .. StepCount
    BY PersistentTaskAssumption DEF Init
  <2>3. /\ mode \in Modes
        /\ cancelled \in BOOLEAN /\ quit \in BOOLEAN
        /\ firstError \in Errors \cup {"none"}
        /\ worker \in {"running", "ended"}
        /\ main \in {"loop", "ok", "failed"}
    BY DEF Init
  <2> QED
    BY <2>1, <2>2, <2>3 DEF TypeOK
<1>2. Counted = {} /\ sent = {}
  BY DEF Init, Counted, Results, Errors
<1>3. CountIsExact
  BY <1>2, FS_EmptySet, PersistentTaskAssumption DEF Init, CountIsExact
<1>4. CancelledHasACause
  BY DEF Init, CancelledHasACause
<1> QED
  BY <1>1, <1>2, <1>3, <1>4 DEF IInv, CountedErrorIsKept, VerdictIsCounted, Init

(* A step that ends only adds a result to the channel. *)
LEMMA EndStepKeepsCount ==
    ASSUME IInv, NEW i \in Steps, NEW result \in Results, EndStep(i, result)
    PROVE  IInv'
<1> USE DEF EndStep, SendResult, Results, Errors
<1>1. TypeOK'
  BY DEF IInv, TypeOK
<1>2. Counted' = Counted
  BY DEF IInv, TypeOK, CountIsExact, Counted
<1>3. CountIsExact'
  BY <1>2 DEF IInv, TypeOK, CountIsExact
<1>4. CountedErrorIsKept'
  BY <1>2 DEF IInv, TypeOK, CountedErrorIsKept, Counted
<1>5. CancelledHasACause'
  BY DEF IInv, TypeOK, CancelledHasACause
<1>6. VerdictIsCounted'
  BY <1>2 DEF IInv, VerdictIsCounted, Verdict
<1> QED
  BY <1>1, <1>3, <1>4, <1>5, <1>6 DEF IInv

(* The main thread counts one more result, and keeps its error if it is one. *)
LEMMA DrainKeepsCount ==
    ASSUME IInv, NEW i \in Steps, Drain(i)
    PROVE  IInv'
<1> USE DEF Drain, Drained
<1>1. i \notin Counted /\ Counted' = Counted \cup {i}
  BY DEF IInv, TypeOK, CountIsExact, Counted
<1>2. Counted \in SUBSET Steps /\ Counted' \in SUBSET Steps
  BY DEF Counted
<1>3. Cardinality(Counted') = Cardinality(Counted) + 1
  BY <1>1, <1>2, StepsAreCounted, FS_AddElement
<1>4. remaining' = StepCount - Cardinality(Counted') /\ remaining' \in 0 .. StepCount
  BY <1>2, <1>3, StepsAreCounted, PersistentTaskAssumption DEF IInv, CountIsExact
<1>5. TypeOK'
  BY <1>4 DEF IInv, TypeOK, FirstError, Errors
<1>6. CountIsExact'
  BY <1>4 DEF IInv, CountIsExact
<1>7. step[i] \in Errors => firstError' # "none"
  BY DEF FirstError, Errors
<1>8. firstError # "none" => firstError' = firstError
  BY DEF FirstError
<1>9. CountedErrorIsKept'
  BY <1>1, <1>7, <1>8 DEF IInv, CountedErrorIsKept
<1>10. CancelledHasACause'
  BY <1>7, <1>8 DEF IInv, CancelledHasACause, FirstError, Errors
<1>11. VerdictIsCounted'
  BY DEF VerdictIsCounted
<1> QED
  BY <1>5, <1>6, <1>9, <1>10, <1>11 DEF IInv

(* The other steps of the session. *)
LEMMA OthersKeepCount ==
    ASSUME IInv,
           \/ \E i \in Steps : StartStep(i)
           \/ WorkerStops \/ Quit \/ Return
           \/ UNCHANGED vars
    PROVE  IInv'
<1>1. ASSUME NEW i \in Steps, StartStep(i) PROVE IInv'
  <2> USE <1>1 DEF StartStep, Results, Errors
  <2>1. TypeOK'
    BY DEF IInv, TypeOK
  <2>2. Counted' = Counted
    BY DEF IInv, TypeOK, Counted
  <2>3. CountIsExact' /\ CountedErrorIsKept'
    BY <2>2 DEF IInv, TypeOK, CountIsExact, CountedErrorIsKept, Counted
  <2>4. CancelledHasACause'
    BY DEF IInv, TypeOK, CancelledHasACause
  <2>5. VerdictIsCounted'
    BY <2>2 DEF IInv, VerdictIsCounted, Verdict
  <2> QED
    BY <2>1, <2>3, <2>4, <2>5 DEF IInv
<1>2. CASE WorkerStops
  BY <1>2 DEF WorkerStops, IInv, TypeOK, CountIsExact, CountedErrorIsKept,
              CancelledHasACause, VerdictIsCounted, Verdict, Counted
<1>3. CASE Quit
  BY <1>3 DEF Quit, FirstError, IInv, TypeOK, CountIsExact, CountedErrorIsKept,
              CancelledHasACause, VerdictIsCounted, Counted, Errors
<1>4. CASE Return
  <2> USE <1>4 DEF Return
  <2>1. Counted' = Counted /\ Counted \in SUBSET Steps
    BY DEF Counted
  <2>2. Counted = Steps
    BY <2>1, StepsAreCounted, PersistentTaskAssumption DEF IInv, CountIsExact
  <2>3. VerdictIsCounted'
    BY <2>1, <2>2 DEF VerdictIsCounted, Verdict
  <2>4. TypeOK'
    BY DEF IInv, TypeOK, Verdict
  <2> QED
    BY <2>1, <2>3, <2>4
       DEF IInv, CountIsExact, CountedErrorIsKept, CancelledHasACause
<1>5. CASE UNCHANGED vars
  BY <1>5 DEF vars, IInv, TypeOK, CountIsExact, CountedErrorIsKept,
              CancelledHasACause, VerdictIsCounted, Verdict, Counted
<1> QED
  BY <1>1, <1>2, <1>3, <1>4, <1>5

(* The invariant holds in every reachable state. *)
LEMMA CountIsInvariant == Spec => []IInv
<1>1. IInv /\ [Next]_vars => IInv'
  <2> SUFFICES ASSUME IInv, [Next]_vars PROVE IInv'
    OBVIOUS
  <2>1. CASE \E i \in Steps, result \in Results : EndStep(i, result)
    BY <2>1, EndStepKeepsCount
  <2>2. CASE \E i \in Steps : Drain(i)
    BY <2>2, DrainKeepsCount
  <2>3. CASE \/ \E i \in Steps : StartStep(i)
             \/ WorkerStops \/ Quit \/ Return
             \/ UNCHANGED vars
    BY <2>3, OthersKeepCount
  <2> QED
    BY <2>1, <2>2, <2>3 DEF Next
<1> QED
  BY <1>1, InitIsCounted, PTL DEF Spec

--------------------------------------------------------------------------------
(* The types, and that the countdown of the results never goes below zero. *)
THEOREM SessionTypes == Spec => []TypeOK
<1>1. IInv => TypeOK
  BY DEF IInv
<1> QED
  BY <1>1, CountIsInvariant, PTL

(* A session succeeds only if the user quit or every step of it succeeded, however
   many steps there are, in whatever order their results arrive. *)
THEOREM NoFailureIsLost == Spec => []FailuresAreReported
<1>1. IInv => FailuresAreReported
  <2> SUFFICES ASSUME IInv, main = "ok", ~quit,
                      NEW i \in Steps
               PROVE  step[i] = "ok"
    BY DEF FailuresAreReported
  <2>1. Counted = Steps /\ firstError # "failed" /\ firstError # "cancelled"
    BY DEF IInv, VerdictIsCounted, Verdict, CancelledHasACause
  <2>2. step[i] \in Results /\ step[i] \notin Errors
    BY <2>1 DEF IInv, TypeOK, CountedErrorIsKept, Counted, Errors
  <2> QED
    BY <2>2 DEF Results, Errors
<1> QED
  BY <1>1, CountIsInvariant, PTL

--------------------------------------------------------------------------------
(* Named tasks. *)

NmIsCall(c) ==
    c = [task |-> c.task, run |-> c.run, stack |-> c.stack, at |-> c.at, key |-> c.key]

(* The calls, by paths, and the states they belong to. *)
NmCallsAreTyped ==
    /\ nmRuns \in 0..NmInvocations /\ nmEdits \in 0..NmMaxEdits
    /\ nmRuns = 0 => DOMAIN nmCalls = {}
    /\ nmRuns # 0 => nmConfig \in NmConfigs
    /\ nmCalls = [p \in DOMAIN nmCalls |-> nmCalls[p]]
    /\ DOMAIN nmCalls \subseteq Seq(Nat) /\ IsFiniteSet(DOMAIN nmCalls)
    /\ \A p \in DOMAIN nmCalls :
         /\ NmIsCall(nmCalls[p])
         /\ nmCalls[p].task \in NmTasks /\ NmAt(p) \in NmPhases
         /\ nmCalls[p].run \in DOMAIN nmCalls /\ Len(nmCalls[p].run) <= Len(p)
    /\ nmCompleted \subseteq (DOMAIN nmCalls) \X NmTasks

(* Whoever called: a call either works in the state of its caller on a task that the
   caller's refers to, or it is the first of a state of its own. *)
NmCalledBy(p, q) ==
    \/ /\ nmCalls[q].run = nmCalls[p].run
       /\ nmCalls[q].task \in NmReferences(nmConfig, nmCalls[p].task)
    \/ nmCalls[q].run = q
    \/ NmAt(q) = "error"
NmCallersAreKnown ==
    \A q \in DOMAIN nmCalls : q # <<>> =>
        \E p \in DOMAIN nmCalls : \E i \in 1..NmLast(p) :
            q = NmChild(p, i) /\ NmCalledBy(p, q)

(* The call of a dependency ends well only when the dependency has completed. *)
NmDependenciesReport ==
    \A p \in DOMAIN nmCalls : \A i \in 1..NmLastDependency(p) : NmHas(p, i) =>
        /\ nmCalls[NmChild(p, i)].task = NmDef(p).dependencies[i]
        /\ nmCalls[NmChild(p, i)].run = nmCalls[p].run
        /\ NmChildAt(p, i) # "process"
        /\ NmChildAt(p, i) = "ok" => NmStateOf(NmChild(p, i)) \in nmCompleted

(* The lock of a task excludes, and its holder works on what has not completed. *)
NmLocksExclude ==
    \A p, q \in DOMAIN nmCalls :
        NmAt(p) \in NmHolding /\ NmAt(q) \in NmHolding /\ NmStateOf(p) = NmStateOf(q) => p = q
NmWorkIsNew ==
    \A p \in DOMAIN nmCalls :
        /\ NmAt(p) \in {"dependencies", "cache", "steps"} => NmStateOf(p) \notin nmCompleted
        /\ NmAt(p) = "store" => NmStateOf(p) \in nmCompleted

NmIInv ==
    /\ NmCallsAreTyped
    /\ NmCallersAreKnown
    /\ NmDependenciesReport
    /\ NmLocksExclude
    /\ NmWorkIsNew
    /\ NmDependenciesFirst
    /\ nmTwice = {}

--------------------------------------------------------------------------------
(* Paths and configurations. *)

LEMMA ChildPaths ==
    ASSUME NEW p \in Seq(Nat), NEW i \in Nat
    PROVE  /\ NmChild(p, i) \in Seq(Nat) /\ NmChild(p, i) # <<>> /\ NmChild(p, i) # p
           /\ Len(NmChild(p, i)) = Len(p) + 1 /\ Len(p) \in Nat
           /\ SubSeq(NmChild(p, i), 1, Len(p)) = p
           /\ \A q \in Seq(Nat), j \in Nat : NmChild(q, j) = NmChild(p, i) => q = p /\ j = i
<1>. DEFINE c == NmChild(p, i)
<1>1. /\ c \in Seq(Nat) /\ c # <<>>
      /\ Len(c) = Len(p) + 1 /\ Len(p) \in Nat
      /\ \A k \in 1..Len(p) : c[k] = p[k]
  BY AppendProperties, LenProperties DEF NmChild
<1>2. SubSeq(c, 1, Len(p)) = p
  <2>1. \A k \in 1..Len(p) : c[k] \in Nat
    BY <1>1, ElementOfSeq
  <2>2. /\ SubSeq(c, 1, Len(p)) \in Seq(Nat)
        /\ Len(SubSeq(c, 1, Len(p))) = Len(p)
        /\ \A k \in 1..Len(p) : SubSeq(c, 1, Len(p))[k] = c[k]
    <3>. HIDE DEF c
    <3>. QED
      BY <1>1, <2>1, SubSeqProperties
  <2>. QED
    BY <1>1, <2>2, SeqEqual
<1>3. \A q \in Seq(Nat), j \in Nat : NmChild(q, j) = c => q = p /\ j = i
  BY AppendInjective DEF NmChild
<1>. QED
  BY <1>1, <1>2, <1>3

(* What a task refers to, and how many children its calls have. *)
LEMMA ReferencesAreTasks ==
    ASSUME NmCallsAreTyped, NEW p \in DOMAIN nmCalls
    PROVE  /\ nmConfig \in NmConfigs /\ p \in Seq(Nat)
           /\ NmLastDependency(p) \in Nat /\ NmLast(p) \in Nat
           /\ NmLastDependency(p) <= NmLast(p)
           /\ \A i \in 1..NmLastDependency(p) :
                /\ NmDef(p).dependencies[i] \in NmTasks
                /\ NmDef(p).dependencies[i] \in NmReferences(nmConfig, nmCalls[p].task)
           /\ \A i \in 1..Len(NmDef(p).steps) : NmDef(p).steps[i].kind = "task" =>
                /\ NmDef(p).steps[i].of \in NmTasks
                /\ NmDef(p).steps[i].of \in NmReferences(nmConfig, nmCalls[p].task)
<1>1. nmConfig \in NmConfigs /\ p \in Seq(Nat) /\ nmCalls[p].task \in NmTasks
  BY DEF NmCallsAreTyped
<1>2. NmIsConfig(nmConfig)
  BY <1>1, NmAssumption
<1>3. /\ NmDef(p).dependencies \in Seq(NmTasks) /\ Len(NmDef(p).steps) \in Nat
      /\ \A i \in 1..Len(NmDef(p).steps) : NmDef(p).steps[i].kind = "task" =>
           NmDef(p).steps[i].of \in NmTasks
  BY <1>1, <1>2 DEF NmIsConfig, NmDef
<1>4. NmLastDependency(p) \in Nat
  BY <1>3, LenProperties DEF NmLastDependency
<1>5. \A i \in 1..NmLastDependency(p) :
        /\ NmDef(p).dependencies[i] \in NmTasks
        /\ NmDef(p).dependencies[i] \in NmReferences(nmConfig, nmCalls[p].task)
  BY <1>3, ElementOfSeq DEF NmLastDependency, NmReferences, NmDef
<1>6. \A i \in 1..Len(NmDef(p).steps) : NmDef(p).steps[i].kind = "task" =>
        NmDef(p).steps[i].of \in NmReferences(nmConfig, nmCalls[p].task)
  BY DEF NmReferences, NmDef
<1>. QED
  BY <1>1, <1>3, <1>4, <1>5, <1>6 DEF NmLast

(* The bound task of a target is one that exists. *)
LEMMA BoundTasksExist ==
    ASSUME NmCallsAreTyped, NEW p \in DOMAIN nmCalls, NEW k \in DOMAIN nmConfig.bound
    PROVE  nmConfig.bound[k] \in NmTasks
BY NmAssumption DEF NmCallsAreTyped, NmIsConfig

--------------------------------------------------------------------------------
(* What a step of a call does: it goes to another phase and leaves the others where
   they are, or it adds a call. *)
NmGoes(p, to) ==
    /\ nmCalls' = [q \in DOMAIN nmCalls |-> nmCalls'[q]]
    /\ \A q \in DOMAIN nmCalls : q # p => nmCalls'[q] = nmCalls[q]
    /\ NmIsCall(nmCalls'[p]) /\ nmCalls'[p].at = to
    /\ nmCalls'[p].task = nmCalls[p].task /\ nmCalls'[p].run = nmCalls[p].run

NmCompletes(p) == nmCompleted' = nmCompleted \cup {NmStateOf(p)}
NmRule(p, to) ==
    \/ /\ NmAt(p) = "enter" /\ to = "wait"
       /\ UNCHANGED nmCompleted
    \/ /\ NmAt(p) \in {"enter", "wait"} /\ to = "ok" /\ NmStateOf(p) \in nmCompleted
       /\ UNCHANGED nmCompleted
    \/ /\ NmAt(p) = "wait" /\ to = "dependencies"
       /\ NmHolders(p) = {} /\ NmStateOf(p) \notin nmCompleted
       /\ UNCHANGED nmCompleted
    \/ /\ NmAt(p) = "dependencies" /\ to \in {"cache", "steps"}
       /\ \A i \in 1..NmLastDependency(p) : NmChildAt(p, i) = "ok"
       /\ UNCHANGED nmCompleted
    \/ /\ NmAt(p) = "cache" /\ to = "steps"
       /\ UNCHANGED nmCompleted
    \/ /\ NmAt(p) \in {"cache", "steps"} /\ to \in {"store", "ok"}
       /\ NmCompletes(p)
    \/ /\ NmAt(p) \in {"store", "process"} /\ to = "ok"
       /\ UNCHANGED nmCompleted
    \/ /\ NmAt(p) \in {"dependencies", "cache", "steps", "store", "process"} /\ to = "error"
       /\ UNCHANGED nmCompleted
NmMoves(p) ==
    /\ \E to \in NmPhases : NmGoes(p, to) /\ NmRule(p, to)
    /\ UNCHANGED <<nmConfig, nmRuns, nmEdits, nmTwice>>

NmIsCallOf(call, p, i) ==
    /\ NmIsCall(call) /\ call.task \in NmTasks /\ call.at \in {"enter", "process", "error"}
    /\ \/ /\ call.run = nmCalls[p].run
          /\ call.task \in NmReferences(nmConfig, nmCalls[p].task)
       \/ call.run = NmChild(p, i)
       \/ call.run = nmCalls[p].run /\ call.at = "error"
    /\ i <= NmLastDependency(p) =>
         /\ call.task = NmDef(p).dependencies[i] /\ call.run = nmCalls[p].run
         /\ call.at = "enter"
NmAdds(p, i) ==
    /\ NmChild(p, i) \notin DOMAIN nmCalls /\ NmAt(p) \in {"dependencies", "steps"}
    /\ \E call : /\ NmIsCallOf(call, p, i)
                 /\ nmCalls' = [q \in DOMAIN nmCalls \cup {NmChild(p, i)} |->
                                    IF q = NmChild(p, i) THEN call ELSE nmCalls[q]]
    /\ UNCHANGED <<nmConfig, nmRuns, nmEdits, nmCompleted>>

LEMMA MovesAreMoves ==
    ASSUME NmCallsAreTyped, NEW p \in DOMAIN nmCalls, NEW to \in NmPhases,
           nmCalls' = NmMove(p, to)
    PROVE  NmGoes(p, to)
<1>1. /\ nmCalls = [q \in DOMAIN nmCalls |-> nmCalls[q]]
      /\ NmIsCall(nmCalls[p])
  BY DEF NmCallsAreTyped
<1>2. /\ nmCalls' = [nmCalls EXCEPT ![p] = [nmCalls[p] EXCEPT !.at = to]]
  BY DEF NmMove
<1>3. /\ nmCalls' = [q \in DOMAIN nmCalls |-> nmCalls'[q]]
      /\ \A q \in DOMAIN nmCalls : q # p => nmCalls'[q] = nmCalls[q]
      /\ nmCalls'[p] = [nmCalls[p] EXCEPT !.at = to]
  BY <1>1, <1>2
<1>. DEFINE c == nmCalls[p]
<1>4. /\ NmIsCall([c EXCEPT !.at = to]) /\ [c EXCEPT !.at = to].at = to
      /\ [c EXCEPT !.at = to].task = c.task /\ [c EXCEPT !.at = to].run = c.run
  <2>1. c = [task |-> c.task, run |-> c.run, stack |-> c.stack, at |-> c.at, key |-> c.key]
    BY <1>1 DEF NmIsCall
  <2>. HIDE DEF c
  <2>2. [c EXCEPT !.at = to]
          = [task |-> c.task, run |-> c.run, stack |-> c.stack, at |-> to, key |-> c.key]
    BY <2>1
  <2>. QED
    BY <2>2 DEF NmIsCall
<1>. QED
  BY <1>3, <1>4 DEF NmGoes

LEMMA StepsMove ==
    ASSUME NmCallsAreTyped, NEW p \in DOMAIN nmCalls,
           \/ NmEnter(p) \/ NmLock(p) \/ NmProcess(p) \/ NmFail(p) \/ NmDependenciesDone(p)
           \/ NmHit(p) \/ NmMiss(p) \/ NmStepsDone(p) \/ NmStore(p)
    PROVE  NmMoves(p)
<1>. {"enter", "wait", "dependencies", "cache", "steps", "store", "process", "ok", "error"}
       \subseteq NmPhases
  BY DEF NmPhases, NmEnded
<1>1. CASE NmEnter(p)
  BY <1>1, MovesAreMoves DEF NmEnter, NmMoves, NmRule, NmSame
<1>2. CASE NmLock(p)
  BY <1>2, MovesAreMoves DEF NmLock, NmRunsAfterLock, NmMoves, NmRule, NmSame
<1>3. CASE NmProcess(p)
  BY <1>3, MovesAreMoves DEF NmProcess, NmMoves, NmRule
<1>4. CASE NmFail(p)
  BY <1>4, MovesAreMoves DEF NmFail, NmMoves, NmRule, NmSame
<1>5. CASE NmDependenciesDone(p)
  BY <1>5, MovesAreMoves DEF NmDependenciesDone, NmMoves, NmRule, NmSame
<1>6. CASE NmHit(p)
  BY <1>6, MovesAreMoves DEF NmHit, NmMoves, NmRule, NmSame, NmCompletes
<1>7. CASE NmMiss(p)
  <2>1. NmAt(p) = "cache" /\ NmSame /\ UNCHANGED <<nmCompleted, nmTwice>>
    BY <1>7 DEF NmMiss
  <2>2. CASE nmCalls' = NmMove(p, "error")
    BY <2>1, <2>2, MovesAreMoves DEF NmMoves, NmRule, NmSame
  <2>3. ASSUME NEW key,
               nmCalls' = [nmCalls EXCEPT ![p] = [[nmCalls[p] EXCEPT !.key = key]
                                                    EXCEPT !.at = "steps"]]
        PROVE  NmGoes(p, "steps")
    <3>. DEFINE c == nmCalls[p]
                d == [[c EXCEPT !.key = key] EXCEPT !.at = "steps"]
    <3>1. c = [task |-> c.task, run |-> c.run, stack |-> c.stack, at |-> c.at, key |-> c.key]
      BY DEF NmCallsAreTyped, NmIsCall
    <3>2. d = [task |-> c.task, run |-> c.run, stack |-> c.stack, at |-> "steps", key |-> key]
      <4>. DEFINE e == [c EXCEPT !.key = key]
      <4>1. e = [task |-> c.task, run |-> c.run, stack |-> c.stack, at |-> c.at, key |-> key]
        <5>. HIDE DEF c
        <5>. QED
          BY <3>1
      <4>2. d = [e EXCEPT !.at = "steps"]
        OBVIOUS
      <4>. HIDE DEF c, d, e
      <4>. QED
        BY <4>1, <4>2
    <3>3. NmIsCall(d) /\ d.at = "steps" /\ d.task = c.task /\ d.run = c.run
      <4>. HIDE DEF d
      <4>. QED
        BY <3>2 DEF NmIsCall
    <3>4. nmCalls' = [nmCalls EXCEPT ![p] = d]
      BY <2>3
    <3>5. nmCalls = [q \in DOMAIN nmCalls |-> nmCalls[q]]
      BY DEF NmCallsAreTyped
    <3>6. /\ nmCalls' = [q \in DOMAIN nmCalls |-> nmCalls'[q]]
          /\ \A q \in DOMAIN nmCalls : q # p => nmCalls'[q] = nmCalls[q]
          /\ nmCalls'[p] = d
      <4>. HIDE DEF d
      <4>. QED
        BY <3>4, <3>5
    <3>. QED
      BY <3>3, <3>6 DEF NmGoes
  <2>4. CASE LET call == [nmCalls[p] EXCEPT !.key = NmKeys[nmCalls[p].task]]
             IN  nmCalls' = [nmCalls EXCEPT ![p] = [call EXCEPT !.at = "steps"]]
    BY <2>1, <2>3, <2>4 DEF NmMoves, NmRule, NmSame
  <2>. QED
    BY <1>7, <2>2, <2>4 DEF NmMiss
<1>8. CASE NmStepsDone(p)
  BY <1>8, MovesAreMoves DEF NmStepsDone, NmMoves, NmRule, NmSame, NmCompletes
<1>9. CASE NmStore(p)
  BY <1>9, MovesAreMoves DEF NmStore, NmMoves, NmRule, NmSame
<1>. QED
  BY <1>1, <1>2, <1>3, <1>4, <1>5, <1>6, <1>7, <1>8, <1>9

LEMMA StartsAdd ==
    ASSUME NmCallsAreTyped, NEW p \in DOMAIN nmCalls, NEW i \in 1..NmLast(p), NmStart(p, i)
    PROVE  NmAdds(p, i)
<1>1. /\ NmChild(p, i) \notin DOMAIN nmCalls
      /\ \/ NmAt(p) = "dependencies" /\ i <= NmLastDependency(p)
         \/ NmAt(p) = "steps" /\ i > NmLastDependency(p)
  BY DEF NmStart, NmMayStart, NmHas
<1>. DEFINE dependency == NmNewCall(NmDef(p).dependencies[i], nmCalls[p].run, nmCalls[p].stack)
            call == IF i <= NmLastDependency(p) THEN dependency ELSE NmCallOfStep(p, i)
<1>2. nmCalls[p].task \in NmTasks
  BY DEF NmCallsAreTyped
<1>3. NmIsCallOf(call, p, i)
  <2>1. CASE i <= NmLastDependency(p)
    <3>1. NmIsCallOf(dependency, p, i)
      BY <2>1, ReferencesAreTasks DEF NmIsCallOf, NmIsCall, NmNewCall
    <3>. QED
      BY <2>1, <3>1
  <2>2. CASE ~(i <= NmLastDependency(p))
    <3>. DEFINE k == i - NmLastDependency(p)
                s == NmDef(p).steps[k]
    <3>1. k \in 1..Len(NmDef(p).steps)
      <4>1. Len(NmDef(p).steps) \in Nat
        BY NmAssumption DEF NmCallsAreTyped, NmIsConfig, NmDef
      <4>. QED
        BY <2>2, <4>1, ReferencesAreTasks DEF NmLast
    <3>2. CASE s.kind = "task"
      <4>1. call = NmNewCall(s.of, nmCalls[p].run, nmCalls[p].stack)
        BY <2>2, <3>2 DEF NmCallOfStep
      <4>2. s.of \in NmTasks /\ s.of \in NmReferences(nmConfig, nmCalls[p].task)
        BY <3>1, <3>2, ReferencesAreTasks
      <4>. QED
        BY <2>2, <4>1, <4>2 DEF NmIsCallOf, NmIsCall, NmNewCall
    <3>3. CASE s.kind # "task" /\ s.kind = "target" /\ s.of \in DOMAIN nmConfig.bound
      <4>1. CASE s.of \in nmCalls[p].stack
        <5>1. call = [NmNewCall(nmCalls[p].task, nmCalls[p].run, nmCalls[p].stack)
                        EXCEPT !.at = "error"]
          BY <2>2, <3>3, <4>1 DEF NmCallOfStep
        <5>2. call = [task |-> nmCalls[p].task, run |-> nmCalls[p].run,
                      stack |-> nmCalls[p].stack, at |-> "error", key |-> NmNothing]
          BY <5>1 DEF NmNewCall
        <5>. QED
          BY <1>2, <2>2, <5>2 DEF NmIsCallOf, NmIsCall
      <4>2. CASE s.of \notin nmCalls[p].stack
        <5>1. call = NmNewCall(nmConfig.bound[s.of], NmChild(p, i), nmCalls[p].stack \cup {s.of})
          BY <2>2, <3>3, <4>2 DEF NmCallOfStep
        <5>2. nmConfig.bound[s.of] \in NmTasks
          BY <3>3, BoundTasksExist
        <5>. QED
          BY <2>2, <5>1, <5>2 DEF NmIsCallOf, NmIsCall, NmNewCall
      <4>. QED
        BY <4>1, <4>2
    <3>4. CASE s.kind # "task" /\ ~(s.kind = "target" /\ s.of \in DOMAIN nmConfig.bound)
      <4>1. call = [NmNewCall(nmCalls[p].task, NmChild(p, i), nmCalls[p].stack)
                      EXCEPT !.at = "process"]
        BY <2>2, <3>4 DEF NmCallOfStep
      <4>2. call = [task |-> nmCalls[p].task, run |-> NmChild(p, i),
                    stack |-> nmCalls[p].stack, at |-> "process", key |-> NmNothing]
        BY <4>1 DEF NmNewCall
      <4>. QED
        BY <1>2, <2>2, <4>2 DEF NmIsCallOf, NmIsCall
    <3>. QED
      BY <3>2, <3>3, <3>4
  <2>. QED
    BY <2>1, <2>2
<1>4. nmCalls' = [q \in DOMAIN nmCalls \cup {NmChild(p, i)} |->
                    IF q = NmChild(p, i) THEN call ELSE nmCalls[q]]
  BY DEF NmStart, NmAddCall
<1>. HIDE DEF call
<1>. QED
  BY <1>1, <1>3, <1>4 DEF NmAdds, NmStart, NmSame

--------------------------------------------------------------------------------
(* The invariant is kept by moves. *)

LEMMA TypesStayWithMoves ==
    ASSUME NmCallsAreTyped, NEW p \in DOMAIN nmCalls, NmMoves(p)
    PROVE  NmCallsAreTyped'
<1>1. PICK to \in NmPhases : NmGoes(p, to) /\ NmRule(p, to)
  BY DEF NmMoves
<1>2. DOMAIN nmCalls' = DOMAIN nmCalls /\ UNCHANGED <<nmConfig, nmRuns, nmEdits>>
  BY <1>1 DEF NmGoes, NmMoves
<1>3. nmCalls' = [q \in DOMAIN nmCalls' |-> nmCalls'[q]]
  BY <1>1, <1>2 DEF NmGoes
<1>4. ASSUME NEW q \in DOMAIN nmCalls
      PROVE  /\ NmIsCall(nmCalls'[q])
             /\ nmCalls'[q].task \in NmTasks /\ nmCalls'[q].at \in NmPhases
             /\ nmCalls'[q].run \in DOMAIN nmCalls /\ Len(nmCalls'[q].run) <= Len(q)
  BY <1>1 DEF NmCallsAreTyped, NmGoes, NmAt
<1>5. nmCompleted' \subseteq (DOMAIN nmCalls) \X NmTasks
  BY <1>1 DEF NmRule, NmCompletes, NmStateOf, NmCallsAreTyped
<1>. QED
  BY <1>2, <1>3, <1>4, <1>5 DEF NmCallsAreTyped, NmAt, NmIsCall

LEMMA OthersStayWithMoves ==
    ASSUME NmIInv, NEW p \in DOMAIN nmCalls, NmMoves(p)
    PROVE  NmCallersAreKnown' /\ NmDependenciesReport' /\ NmLocksExclude' /\ NmWorkIsNew'
           /\ NmDependenciesFirst' /\ nmTwice' = {}
<1>. USE DEF NmIInv
<1>1. PICK to \in NmPhases : NmGoes(p, to) /\ NmRule(p, to)
  BY DEF NmMoves
<1>2. DOMAIN nmCalls' = DOMAIN nmCalls /\ UNCHANGED <<nmConfig, nmTwice>>
  BY <1>1 DEF NmGoes, NmMoves
<1>3. \A q \in DOMAIN nmCalls :
        /\ nmCalls'[q].task = nmCalls[q].task /\ nmCalls'[q].run = nmCalls[q].run
        /\ q # p => nmCalls'[q].at = nmCalls[q].at
  BY <1>1 DEF NmGoes
<1>4. nmCalls'[p].at = to /\ nmCompleted \subseteq nmCompleted'
  BY <1>1 DEF NmGoes, NmRule, NmCompletes
<1>5. NmAt(p) \notin {"ok", "error"} /\ to # "process"
  BY <1>1 DEF NmRule
<1>6. NmCallersAreKnown'
  <2>. SUFFICES ASSUME NEW q \in DOMAIN nmCalls, q # <<>>
                PROVE  \E r \in DOMAIN nmCalls : \E i \in 1..NmLast(r)' :
                         q = NmChild(r, i) /\ NmCalledBy(r, q)'
    BY <1>2 DEF NmCallersAreKnown, NmChild
  <2>1. PICK r \in DOMAIN nmCalls : \E i \in 1..NmLast(r) : q = NmChild(r, i) /\ NmCalledBy(r, q)
    BY DEF NmCallersAreKnown
  <2>2. NmLast(r)' = NmLast(r)
    BY <1>2, <1>3 DEF NmLast, NmLastDependency, NmDef
  <2>3. NmCalledBy(r, q)'
    <3>1. NmReferences(nmConfig', nmCalls'[r].task) = NmReferences(nmConfig, nmCalls[r].task)
      BY <1>2, <1>3
    <3>2. nmCalls[q].at = "error" => nmCalls'[q].at = "error"
      BY <1>3, <1>5 DEF NmAt
    <3>. QED
      BY <1>3, <2>1, <3>1, <3>2 DEF NmCalledBy, NmAt
  <2>. QED
    BY <2>1, <2>2, <2>3
<1>7. NmDependenciesReport'
  <2>. SUFFICES ASSUME NEW r \in DOMAIN nmCalls, NEW i \in 1..NmLastDependency(r),
                       NmChild(r, i) \in DOMAIN nmCalls
                PROVE  LET c == NmChild(r, i)
                       IN  /\ nmCalls'[c].task = NmDef(r).dependencies[i]
                           /\ nmCalls'[c].run = nmCalls'[r].run
                           /\ nmCalls'[c].at # "process"
                           /\ nmCalls'[c].at = "ok" =>
                                <<nmCalls'[c].run, nmCalls'[c].task>> \in nmCompleted'
    BY <1>2, <1>3
    DEF NmDependenciesReport, NmHas, NmChild, NmChildAt, NmAt, NmStateOf, NmDef,
        NmLastDependency
  <2>. DEFINE c == NmChild(r, i)
  <2>1. /\ nmCalls[c].task = NmDef(r).dependencies[i]
        /\ nmCalls[c].run = nmCalls[r].run
        /\ nmCalls[c].at # "process"
        /\ nmCalls[c].at = "ok" => <<nmCalls[c].run, nmCalls[c].task>> \in nmCompleted
    BY DEF NmDependenciesReport, NmHas, NmChildAt, NmAt, NmStateOf
  <2>2. CASE c # p
    BY <1>3, <1>4, <2>1, <2>2
  <2>3. CASE c = p
    <3>1. to = "ok" => <<nmCalls[p].run, nmCalls[p].task>> \in nmCompleted'
      BY <1>1, <2>1, <2>3 DEF NmRule, NmCompletes, NmStateOf, NmAt, NmWorkIsNew
    <3>. QED
      BY <1>3, <1>4, <1>5, <2>1, <2>3, <3>1
  <2>. QED
    BY <2>2, <2>3
<1>8. NmLocksExclude'
  <2>1. ASSUME NEW q \in DOMAIN nmCalls, NEW r \in DOMAIN nmCalls,
               nmCalls'[q].at \in NmHolding, nmCalls'[r].at \in NmHolding,
               <<nmCalls'[q].run, nmCalls'[q].task>> = <<nmCalls'[r].run, nmCalls'[r].task>>
        PROVE  q = r
    <3>1. \A s \in DOMAIN nmCalls : nmCalls'[s].at \in NmHolding =>
            \/ NmAt(s) \in NmHolding
            \/ (s = p /\ NmHolders(p) = {})
      BY <1>1, <1>3, <1>4 DEF NmRule, NmHolding, NmAt
    <3>2. NmStateOf(q) = NmStateOf(r)
      BY <1>3, <2>1 DEF NmStateOf
    <3>3. CASE NmAt(q) \in NmHolding /\ NmAt(r) \in NmHolding
      BY <3>2, <3>3 DEF NmLocksExclude
    <3>4. CASE NmHolders(p) = {} /\ p \in {q, r}
      BY <2>1, <3>1, <3>2, <3>4 DEF NmHolders
    <3>. QED
      BY <2>1, <3>1, <3>3, <3>4
  <2>. QED
    BY <1>2, <2>1 DEF NmLocksExclude, NmAt, NmStateOf
<1>9. NmWorkIsNew'
  <2>1. ASSUME NEW q \in DOMAIN nmCalls
        PROVE  /\ nmCalls'[q].at \in {"dependencies", "cache", "steps"} =>
                    NmStateOf(q) \notin nmCompleted'
               /\ nmCalls'[q].at = "store" => NmStateOf(q) \in nmCompleted'
    <3>1. CASE q = p
      BY <1>1, <1>4, <3>1 DEF NmRule, NmCompletes, NmWorkIsNew
    <3>2. CASE q # p
      <4>1. NmStateOf(q) \in nmCompleted' =>
              \/ NmStateOf(q) \in nmCompleted
              \/ NmAt(p) \in NmHolding /\ NmStateOf(q) = NmStateOf(p)
        BY <1>1 DEF NmRule, NmCompletes, NmHolding
      <4>. QED
        BY <1>3, <1>4, <3>2, <4>1 DEF NmWorkIsNew, NmLocksExclude, NmHolding, NmAt
    <3>. QED
      BY <3>1, <3>2
  <2>. QED
    BY <1>2, <1>3, <2>1 DEF NmWorkIsNew, NmAt, NmStateOf
<1>10. NmDependenciesFirst'
  <2>1. ASSUME NEW q \in DOMAIN nmCalls, nmCalls'[q].at \in {"cache", "steps", "store"},
               NEW i \in 1..NmLastDependency(q)
        PROVE  <<nmCalls[q].run, NmDef(q).dependencies[i]>> \in nmCompleted'
    <3>1. CASE NmAt(q) \in {"cache", "steps", "store"}
      BY <1>4, <3>1 DEF NmDependenciesFirst
    <3>2. CASE NmAt(q) \notin {"cache", "steps", "store"}
      <4>1. q = p /\ NmChildAt(p, i) = "ok"
        BY <1>1, <1>3, <1>4, <2>1, <3>2 DEF NmRule, NmAt
      <4>2. NmHas(p, i)
        BY <4>1 DEF NmChildAt
      <4>. QED
        BY <1>4, <4>1, <4>2 DEF NmDependenciesReport, NmStateOf
    <3>. QED
      BY <3>1, <3>2
  <2>. QED
    BY <1>2, <1>3, <2>1 DEF NmDependenciesFirst, NmAt, NmLastDependency, NmDef
<1>. QED
  BY <1>2, <1>6, <1>7, <1>8, <1>9, <1>10

--------------------------------------------------------------------------------
(* The invariant is kept by new calls. *)

(* What NmAdds says of the calls, one by one. *)
LEMMA AddsAreAdds ==
    ASSUME NmIInv, NEW p \in DOMAIN nmCalls, NEW i \in 1..NmLast(p), NmAdds(p, i)
    PROVE  LET c == NmChild(p, i)
           IN  /\ p \in Seq(Nat) /\ i \in Nat /\ c \in Seq(Nat) /\ c \notin DOMAIN nmCalls
               /\ nmCalls' = [q \in DOMAIN nmCalls' |-> nmCalls'[q]]
               /\ DOMAIN nmCalls' = DOMAIN nmCalls \cup {c}
               /\ \A q \in DOMAIN nmCalls : nmCalls'[q] = nmCalls[q]
               /\ NmIsCallOf(nmCalls'[c], p, i)
               /\ \A j \in Nat : NmChild(c, j) \notin DOMAIN nmCalls'
<1>. USE DEF NmIInv
<1>. DEFINE c == NmChild(p, i)
<1>1. /\ p \in Seq(Nat) /\ i \in Nat /\ c \in Seq(Nat) /\ c \notin DOMAIN nmCalls
      /\ \A j \in Nat : NmChild(c, j) # c /\ NmChild(c, j) # <<>>
  <2>1. p \in Seq(Nat) /\ i \in Nat
    BY ReferencesAreTasks
  <2>2. c \in Seq(Nat) /\ \A j \in Nat : NmChild(c, j) # c /\ NmChild(c, j) # <<>>
    BY <2>1, ChildPaths
  <2>. QED
    BY <2>1, <2>2 DEF NmAdds
<1>2. PICK call : /\ NmIsCallOf(call, p, i)
                  /\ nmCalls' = [q \in DOMAIN nmCalls \cup {c} |->
                                    IF q = c THEN call ELSE nmCalls[q]]
  BY DEF NmAdds
<1>3. /\ nmCalls' = [q \in DOMAIN nmCalls' |-> nmCalls'[q]]
      /\ DOMAIN nmCalls' = DOMAIN nmCalls \cup {c}
      /\ \A q \in DOMAIN nmCalls : nmCalls'[q] = nmCalls[q]
      /\ nmCalls'[c] = call
  <2>. HIDE DEF c
  <2>. QED
    BY <1>1, <1>2
<1>4. ASSUME NEW j \in Nat, NmChild(c, j) \in DOMAIN nmCalls
      PROVE  FALSE
  <2>1. PICK r \in DOMAIN nmCalls : \E k \in 1..NmLast(r) : NmChild(c, j) = NmChild(r, k)
    BY <1>1, <1>4 DEF NmCallersAreKnown
  <2>2. \A k \in 1..NmLast(r) : k \in Nat
    BY ReferencesAreTasks
  <2>3. r \in Seq(Nat)
    BY DEF NmCallsAreTyped
  <2>4. r = c
    BY <1>1, <2>1, <2>2, <2>3, ChildPaths
  <2>. QED
    BY <1>1, <2>4
<1>. QED
  BY <1>1, <1>2, <1>3, <1>4

LEMMA TypesStayWithAdds ==
    ASSUME NmIInv, NEW p \in DOMAIN nmCalls, NEW i \in 1..NmLast(p), NmAdds(p, i)
    PROVE  NmCallsAreTyped'
<1>. DEFINE c == NmChild(p, i)
<1>1. NmCallsAreTyped
  BY DEF NmIInv
<1>2. /\ p \in Seq(Nat) /\ i \in Nat /\ c \in Seq(Nat)
      /\ nmCalls' = [q \in DOMAIN nmCalls' |-> nmCalls'[q]]
      /\ DOMAIN nmCalls' = DOMAIN nmCalls \cup {c}
      /\ \A q \in DOMAIN nmCalls : nmCalls'[q] = nmCalls[q]
      /\ NmIsCallOf(nmCalls'[c], p, i)
  BY AddsAreAdds
<1>3. UNCHANGED <<nmConfig, nmRuns, nmEdits, nmCompleted>>
  BY DEF NmAdds
<1>4. Len(c) = Len(p) + 1 /\ Len(p) \in Nat
  BY <1>2, ChildPaths
<1>5. IsFiniteSet(DOMAIN nmCalls')
  <2>1. IsFiniteSet(DOMAIN nmCalls)
    BY <1>1 DEF NmCallsAreTyped
  <2>. HIDE DEF c
  <2>. QED
    BY <1>2, <2>1, FS_AddElement
<1>6. ASSUME NEW q \in DOMAIN nmCalls'
      PROVE  /\ NmIsCall(nmCalls'[q])
             /\ nmCalls'[q].task \in NmTasks /\ nmCalls'[q].at \in NmPhases
             /\ nmCalls'[q].run \in DOMAIN nmCalls' /\ Len(nmCalls'[q].run) <= Len(q)
  <2>1. CASE q \in DOMAIN nmCalls
    BY <1>1, <1>2, <2>1 DEF NmCallsAreTyped, NmAt
  <2>2. CASE q = c
    <3>1. /\ NmIsCall(nmCalls'[c]) /\ nmCalls'[c].task \in NmTasks
          /\ nmCalls'[c].at \in NmPhases
      BY <1>2 DEF NmIsCallOf, NmPhases, NmEnded
    <3>2. nmCalls'[c].run = c \/ nmCalls'[c].run = nmCalls[p].run
      BY <1>2 DEF NmIsCallOf
    <3>3. /\ nmCalls[p].run \in DOMAIN nmCalls /\ Len(nmCalls[p].run) <= Len(p)
          /\ Len(nmCalls[p].run) \in Nat
      BY <1>1, LenProperties DEF NmCallsAreTyped
    <3>4. nmCalls'[c].run \in DOMAIN nmCalls' /\ Len(nmCalls'[c].run) <= Len(c)
      <4>. HIDE DEF c
      <4>. QED
        BY <1>2, <1>4, <3>2, <3>3
    <3>. QED
      BY <2>2, <3>1, <3>4
  <2>. QED
    BY <1>2, <2>1, <2>2
<1>7. nmCompleted' \subseteq (DOMAIN nmCalls') \X NmTasks
  BY <1>1, <1>2, <1>3 DEF NmCallsAreTyped
<1>8. /\ nmRuns' \in 0..NmInvocations /\ nmEdits' \in 0..NmMaxEdits
      /\ nmRuns' # 0 /\ nmConfig' \in NmConfigs
      /\ DOMAIN nmCalls' \subseteq Seq(Nat)
  <2>1. /\ nmRuns \in 0..NmInvocations /\ nmEdits \in 0..NmMaxEdits
        /\ nmRuns # 0 /\ nmConfig \in NmConfigs
        /\ DOMAIN nmCalls \subseteq Seq(Nat)
    BY <1>1 DEF NmCallsAreTyped
  <2>. HIDE DEF c
  <2>. QED
    BY <1>2, <1>3, <2>1
<1>. HIDE DEF c
<1>. QED
  BY <1>2, <1>5, <1>6, <1>7, <1>8 DEF NmCallsAreTyped, NmAt, NmIsCall

LEMMA OthersStayWithAdds ==
    ASSUME NmIInv, NEW p \in DOMAIN nmCalls, NEW i \in 1..NmLast(p), NmAdds(p, i)
    PROVE  NmCallersAreKnown' /\ NmDependenciesReport' /\ NmLocksExclude' /\ NmWorkIsNew'
           /\ NmDependenciesFirst'
<1>. DEFINE c == NmChild(p, i)
<1>1. /\ p \in Seq(Nat) /\ i \in Nat /\ c \in Seq(Nat) /\ c \notin DOMAIN nmCalls
      /\ DOMAIN nmCalls' = DOMAIN nmCalls \cup {c}
      /\ \A q \in DOMAIN nmCalls : nmCalls'[q] = nmCalls[q]
      /\ NmIsCallOf(nmCalls'[c], p, i)
      /\ \A j \in Nat : NmChild(c, j) \notin DOMAIN nmCalls'
  BY AddsAreAdds
<1>2. UNCHANGED <<nmConfig, nmCompleted>>
  BY DEF NmAdds
<1>3. nmCalls'[c].at \notin NmHolding /\ nmCalls'[c].at # "ok"
  BY <1>1 DEF NmIsCallOf, NmHolding
<1>4. \A q \in DOMAIN nmCalls : NmLast(q)' = NmLast(q) /\ NmLastDependency(q)' = NmLastDependency(q)
                               /\ NmDef(q)' = NmDef(q) /\ NmAt(q)' = NmAt(q)
                               /\ NmStateOf(q)' = NmStateOf(q)
  BY <1>1, <1>2 DEF NmLast, NmLastDependency, NmDef, NmAt, NmStateOf
<1>5. NmCallersAreKnown'
  <2>. SUFFICES ASSUME NEW q \in DOMAIN nmCalls', q # <<>>
                PROVE  \E r \in DOMAIN nmCalls' : \E k \in 1..NmLast(r)' :
                         q = NmChild(r, k) /\ NmCalledBy(r, q)'
    BY DEF NmCallersAreKnown, NmChild
  <2>1. CASE q \in DOMAIN nmCalls
    <3>1. PICK r \in DOMAIN nmCalls : \E k \in 1..NmLast(r) :
            q = NmChild(r, k) /\ NmCalledBy(r, q)
      BY <2>1 DEF NmCallersAreKnown, NmIInv
    <3>2. NmCalledBy(r, q)' <=> NmCalledBy(r, q)
      <4>1. NmReferences(nmConfig', nmCalls'[r].task) = NmReferences(nmConfig, nmCalls[r].task)
        BY <1>1, <1>2
      <4>. QED
        BY <1>1, <2>1, <4>1 DEF NmCalledBy, NmAt
    <3>. QED
      BY <1>1, <1>4, <3>1, <3>2
  <2>2. CASE q = c
    <3>1. NmReferences(nmConfig', nmCalls'[p].task) = NmReferences(nmConfig, nmCalls[p].task)
      BY <1>1, <1>2
    <3>2. \/ /\ nmCalls'[c].run = nmCalls'[p].run
             /\ nmCalls'[c].task \in NmReferences(nmConfig', nmCalls'[p].task)
          \/ nmCalls'[c].run = c
          \/ nmCalls'[c].at = "error"
      BY <1>1, <3>1 DEF NmIsCallOf
    <3>3. NmCalledBy(p, c)'
      BY <3>2 DEF NmCalledBy, NmAt, NmChild
    <3>. QED
      BY <1>1, <1>4, <2>2, <3>3
  <2>. QED
    BY <1>1, <2>1, <2>2
<1>6. NmDependenciesReport'
  <2>. SUFFICES ASSUME NEW r \in DOMAIN nmCalls', NEW k \in 1..NmLastDependency(r)',
                       NmChild(r, k) \in DOMAIN nmCalls'
                PROVE  LET d == NmChild(r, k)
                       IN  /\ nmCalls'[d].task = NmDef(r)'.dependencies[k]
                           /\ nmCalls'[d].run = nmCalls'[r].run
                           /\ nmCalls'[d].at # "process"
                           /\ nmCalls'[d].at = "ok" =>
                                <<nmCalls'[d].run, nmCalls'[d].task>> \in nmCompleted'
    BY DEF NmDependenciesReport, NmHas, NmChild, NmChildAt, NmAt, NmStateOf
  <2>. DEFINE d == NmChild(r, k)
  <2>1. k \in Nat
    <3>1. NmCallsAreTyped'
      BY TypesStayWithAdds
    <3>2. NmLastDependency(r)' \in Nat
      <4>1. nmConfig' \in NmConfigs /\ nmCalls'[r].task \in NmTasks
        BY <3>1 DEF NmCallsAreTyped
      <4>2. nmConfig'.of[nmCalls'[r].task].dependencies \in Seq(NmTasks)
        BY <4>1, NmAssumption DEF NmIsConfig
      <4>. QED
        BY <4>2, LenProperties DEF NmLastDependency, NmDef
    <3>. QED
      BY <3>2
  <2>2. r \in DOMAIN nmCalls
    BY <1>1, <2>1
  <2>3. CASE d \in DOMAIN nmCalls
    <3>1. /\ nmCalls[d].task = NmDef(r).dependencies[k]
          /\ nmCalls[d].run = nmCalls[r].run
          /\ nmCalls[d].at # "process"
          /\ nmCalls[d].at = "ok" => <<nmCalls[d].run, nmCalls[d].task>> \in nmCompleted
      BY <1>4, <2>2, <2>3
      DEF NmIInv, NmDependenciesReport, NmHas, NmChildAt, NmAt, NmStateOf
    <3>. QED
      BY <1>1, <1>2, <1>4, <2>2, <2>3, <3>1
  <2>4. CASE d = c
    <3>1. r = p /\ k = i
      <4>1. r \in Seq(Nat)
        BY <2>2 DEF NmIInv, NmCallsAreTyped
      <4>. QED
        BY <1>1, <2>1, <2>4, <4>1, ChildPaths
    <3>2. i <= NmLastDependency(p)
      <4>1. NmLastDependency(p) \in Nat
        BY ReferencesAreTasks DEF NmIInv
      <4>. QED
        BY <1>4, <3>1, <4>1
    <3>. QED
      BY <1>1, <1>4, <3>1, <3>2, <2>4 DEF NmIsCallOf
  <2>. QED
    BY <1>1, <2>3, <2>4
<1>7. NmLocksExclude'
  <2>1. ASSUME NEW q \in DOMAIN nmCalls', nmCalls'[q].at \in NmHolding
        PROVE  q \in DOMAIN nmCalls
    BY <1>1, <1>3, <2>1
  <2>. QED
    BY <1>1, <2>1 DEF NmIInv, NmLocksExclude, NmAt, NmStateOf
<1>8. NmWorkIsNew'
  <2>1. ASSUME NEW q \in DOMAIN nmCalls', nmCalls'[q].at \in NmHolding
        PROVE  q \in DOMAIN nmCalls
    BY <1>1, <1>3, <2>1
  <2>2. {"dependencies", "cache", "steps", "store"} = NmHolding
    BY DEF NmHolding
  <2>. QED
    BY <1>1, <1>2, <2>1, <2>2 DEF NmIInv, NmWorkIsNew, NmAt, NmStateOf
<1>9. NmDependenciesFirst'
  <2>1. ASSUME NEW q \in DOMAIN nmCalls', nmCalls'[q].at \in {"cache", "steps", "store"}
        PROVE  q \in DOMAIN nmCalls
    BY <1>1, <1>3, <2>1 DEF NmHolding
  <2>2. ASSUME NEW q \in DOMAIN nmCalls', nmCalls'[q].at \in {"cache", "steps", "store"},
               NEW k \in 1..NmLastDependency(q)'
        PROVE  <<nmCalls'[q].run, NmDef(q)'.dependencies[k]>> \in nmCompleted'
    <3>1. q \in DOMAIN nmCalls
      BY <2>1, <2>2
    <3>. QED
      BY <1>1, <1>2, <1>4, <2>2, <3>1 DEF NmIInv, NmDependenciesFirst, NmAt
  <2>. QED
    BY <2>2 DEF NmDependenciesFirst, NmAt
<1>. QED
  BY <1>5, <1>6, <1>7, <1>8, <1>9

--------------------------------------------------------------------------------
(* The invariant. *)

LEMMA CallsBegin == NmInit => NmIInv
<1>. SUFFICES ASSUME NmInit
              PROVE  NmIInv
  OBVIOUS
<1>1. DOMAIN nmCalls = {} /\ nmCalls = [p \in DOMAIN nmCalls |-> nmCalls[p]]
  BY DEF NmInit
<1>2. NmCallsAreTyped
  BY <1>1, FS_EmptySet, NmAssumption DEF NmInit, NmCallsAreTyped
<1>. QED
  BY <1>1, <1>2
  DEF NmInit, NmIInv, NmCallersAreKnown, NmDependenciesReport, NmLocksExclude,
      NmWorkIsNew, NmDependenciesFirst

LEMMA InvocationsBegin == NmIInv /\ NmInvoke => NmIInv'
<1>. SUFFICES ASSUME NmIInv, NmInvoke
              PROVE  NmIInv'
  OBVIOUS
<1>1. nmConfig' \in NmConfigs /\ nmConfig'.root \in NmTasks
  <2>1. nmConfig' \in NmConfigs
    BY DEF NmInvoke, NmIInv, NmCallsAreTyped
  <2>. QED
    BY <2>1, NmAssumption DEF NmIsConfig
<1>. DEFINE first == NmNewCall(nmConfig'.root, <<>>, {})
<1>2. /\ DOMAIN nmCalls' = {<<>>} /\ nmCalls' = [p \in DOMAIN nmCalls' |-> nmCalls'[p]]
      /\ nmCalls'[<<>>] = first /\ nmCompleted' = {}
  <2>1. nmCalls' = [p \in {<<>>} |-> first] /\ nmCompleted' = {}
    BY DEF NmInvoke
  <2>. HIDE DEF first
  <2>. QED
    BY <2>1
<1>3. /\ NmIsCall(first) /\ first.task \in NmTasks /\ first.at = "enter"
      /\ first.run = <<>>
  BY <1>1 DEF NmNewCall, NmIsCall
<1>4. <<>> \in Seq(Nat) /\ Len(<<>>) = 0 /\ \A p \in Seq(Nat), k \in Nat : NmChild(p, k) # <<>>
  BY EmptySeq, ChildPaths
<1>5. nmRuns' \in 0..NmInvocations /\ nmRuns' # 0 /\ nmEdits' \in 0..NmMaxEdits
  BY NmAssumption DEF NmInvoke, NmIInv, NmCallsAreTyped
<1>6. NmCallsAreTyped'
  <2>1. IsFiniteSet({<<>>})
    BY FS_Singleton
  <2>2. "enter" \in NmPhases
    BY DEF NmPhases
  <2>. HIDE DEF first
  <2>. QED
    BY <1>1, <1>2, <1>3, <1>4, <1>5, <2>1, <2>2 DEF NmCallsAreTyped, NmAt, NmIsCall
<1>7. NmCallersAreKnown' /\ NmLocksExclude'
  BY <1>2 DEF NmCallersAreKnown, NmLocksExclude
<1>8. NmWorkIsNew' /\ NmDependenciesFirst'
  <2>. HIDE DEF first
  <2>. QED
    BY <1>2, <1>3 DEF NmWorkIsNew, NmDependenciesFirst, NmAt
<1>9. NmDependenciesReport'
  <2>1. ASSUME NEW k \in 1..NmLastDependency(<<>>)'
        PROVE  NmChild(<<>>, k) \notin DOMAIN nmCalls'
    <3>1. nmConfig'.of[first.task].dependencies \in Seq(NmTasks)
      BY <1>1, <1>3, NmAssumption DEF NmIsConfig
    <3>2. NmLastDependency(<<>>)' \in Nat
      <4>. HIDE DEF first
      <4>. QED
        BY <1>2, <3>1, LenProperties DEF NmLastDependency, NmDef
    <3>3. k \in Nat
      BY <3>2
    <3>. QED
      BY <1>2, <1>4, <3>3
  <2>. QED
    BY <1>2, <2>1 DEF NmDependenciesReport, NmHas, NmChild
<1>10. nmTwice' = {}
  BY DEF NmInvoke, NmIInv
<1>. QED
  BY <1>6, <1>7, <1>8, <1>9, <1>10 DEF NmIInv

(* Edits, and what no step of a call touches. *)
LEMMA CallsStay ==
    ASSUME NmIInv,
           UNCHANGED <<nmConfig, nmRuns, nmCalls, nmCompleted, nmTwice>>,
           nmEdits' \in 0..NmMaxEdits
    PROVE  NmIInv'
<1>1. NmCallsAreTyped'
  BY DEF NmIInv, NmCallsAreTyped, NmAt
<1>2. NmCallersAreKnown'
  BY DEF NmIInv, NmCallersAreKnown, NmCalledBy, NmLast, NmLastDependency, NmDef, NmAt, NmChild
<1>3. NmDependenciesReport'
  BY DEF NmIInv, NmDependenciesReport, NmLastDependency, NmDef, NmHas, NmChildAt, NmAt,
         NmStateOf, NmChild
<1>4. NmLocksExclude' /\ NmWorkIsNew'
  BY DEF NmIInv, NmLocksExclude, NmWorkIsNew, NmAt, NmStateOf
<1>5. NmDependenciesFirst'
  BY DEF NmIInv, NmDependenciesFirst, NmLastDependency, NmDef, NmAt
<1>. QED
  BY <1>1, <1>2, <1>3, <1>4, <1>5 DEF NmIInv

LEMMA CallsGoOn == NmIInv /\ [NmNext]_nmVars => NmIInv'
<1>. SUFFICES ASSUME NmIInv, [NmNext]_nmVars
              PROVE  NmIInv'
  OBVIOUS
<1>1. CASE NmInvoke
  BY <1>1, InvocationsBegin
<1>2. ASSUME NEW t \in NmTasks, NmEdit(t)
      PROVE  NmIInv'
  <2>1. nmEdits' \in 0..NmMaxEdits
    BY <1>2, NmAssumption DEF NmEdit, NmIInv, NmCallsAreTyped
  <2>2. UNCHANGED <<nmConfig, nmRuns, nmCalls, nmCompleted, nmTwice>>
    BY <1>2 DEF NmEdit
  <2>. QED
    BY <2>1, <2>2, CallsStay
<1>3. ASSUME NEW p \in DOMAIN nmCalls, NmMoves(p)
      PROVE  NmIInv'
  BY <1>3, TypesStayWithMoves, OthersStayWithMoves DEF NmIInv
<1>4. ASSUME NEW p \in DOMAIN nmCalls, NEW i \in 1..NmLast(p), NmStart(p, i)
      PROVE  NmIInv'
  <2>1. NmAdds(p, i)
    BY <1>4, StartsAdd DEF NmIInv
  <2>2. nmTwice' = {}
    BY <1>4 DEF NmStart, NmIInv, NmWorkIsNew
  <2>. QED
    BY <2>1, <2>2, TypesStayWithAdds, OthersStayWithAdds DEF NmIInv
<1>5. CASE UNCHANGED nmVars
  BY <1>5, CallsStay DEF nmVars, NmIInv, NmCallsAreTyped
<1>. QED
  BY <1>1, <1>2, <1>3, <1>4, <1>5, StepsMove DEF NmNext, NmStep, NmIInv

(* Every call is in one of its phases, on a task that exists, and was called by another,
   or is the command itself; only tasks of states that exist have completed. *)
LEMMA CallsAreInvariant == NmSpec => []NmIInv
BY CallsBegin, CallsGoOn, PTL DEF NmSpec

(* Calls are named by paths that exist, and work on tasks that exist. *)
THEOREM CallsAreTyped == NmSpec => []NmTypeOK
<1>1. NmIInv => NmTypeOK
  <2>. SUFFICES ASSUME NmIInv
                PROVE  NmTypeOK
    OBVIOUS
  <2>1. ASSUME NEW p \in DOMAIN nmCalls
        PROVE  /\ p \in Seq(Nat) /\ nmCalls[p].task \in NmTasks /\ NmAt(p) \in NmPhases
               /\ p # <<>> => SubSeq(p, 1, Len(p) - 1) \in DOMAIN nmCalls
    <3>1. /\ p \in Seq(Nat) /\ nmCalls[p].task \in NmTasks /\ NmAt(p) \in NmPhases
      BY DEF NmIInv, NmCallsAreTyped
    <3>2. ASSUME p # <<>>
          PROVE  SubSeq(p, 1, Len(p) - 1) \in DOMAIN nmCalls
      <4>1. PICK r \in DOMAIN nmCalls : \E k \in 1..NmLast(r) : p = NmChild(r, k)
        BY <3>2 DEF NmIInv, NmCallersAreKnown
      <4>2. PICK k \in 1..NmLast(r) : p = NmChild(r, k)
        BY <4>1
      <4>3. r \in Seq(Nat) /\ k \in Nat
        BY ReferencesAreTasks DEF NmIInv
      <4>4. Len(p) = Len(r) + 1 /\ Len(r) \in Nat /\ SubSeq(p, 1, Len(r)) = r
        BY <4>2, <4>3, ChildPaths
      <4>5. Len(p) - 1 = Len(r)
        BY <4>4
      <4>. QED
        BY <4>4, <4>5
    <3>. QED
      BY <3>1, <3>2
  <2>2. ASSUME NEW x \in nmCompleted
        PROVE  x[1] \in DOMAIN nmCalls /\ x[2] \in NmTasks
    BY DEF NmIInv, NmCallsAreTyped
  <2>3. nmRuns \in 0..NmInvocations /\ nmEdits \in 0..NmMaxEdits
    BY DEF NmIInv, NmCallsAreTyped
  <2>. QED
    BY <2>1, <2>2, <2>3 DEF NmTypeOK
<1>. QED
  BY <1>1, CallsAreInvariant, PTL

--------------------------------------------------------------------------------
(* Safety. *)

LEMMA TasksRunOnce == NmIInv => NmRunsOnce
<1>. SUFFICES ASSUME NmIInv, NEW p \in DOMAIN nmCalls
              PROVE  Cardinality(NmHolders(p)) <= 1
  BY DEF NmIInv, NmRunsOnce
<1>1. CASE NmHolders(p) = {}
  BY <1>1, FS_EmptySet
<1>2. ASSUME NEW q \in NmHolders(p)
      PROVE  Cardinality(NmHolders(p)) <= 1
  <2>1. NmHolders(p) = {q}
    BY <1>2 DEF NmHolders, NmIInv, NmLocksExclude
  <2>2. Cardinality({q}) = 1
    BY FS_Singleton
  <2>. QED
    BY <2>1, <2>2
<1>. QED
  BY <1>1, <1>2

(* Among finitely many calls one has the longest path of its state. *)
LEMMA LongestRun ==
    ASSUME NEW S, IsFiniteSet(S), S # {}, NEW R, \A q \in S : R[q] \in Nat
    PROVE  \E m \in S : \A q \in S : R[q] <= R[m]
<1>. DEFINE Above(m) == {q \in S : R[q] > R[m]}
            C == {Cardinality(Above(m)) : m \in S}
<1>1. \A m \in S : Above(m) \in SUBSET S /\ IsFiniteSet(Above(m)) /\ Cardinality(Above(m)) \in Nat
  BY FS_Subset, FS_CardinalityType
<1>2. C \subseteq Nat /\ C # {}
  BY <1>1
<1>3. PICK x \in C : \A y \in C : ~(<<y, x>> \in OpToRel(<, Nat))
  <2>. HIDE DEF C
  <2>. QED
    BY <1>2, NatLessThanWellFounded, WFMin
<1>4. \A y \in C : ~(y < x)
  <2>. HIDE DEF C
  <2>. QED
    BY <1>2, <1>3 DEF OpToRel
<1>5. PICK m \in S : x = Cardinality(Above(m))
  OBVIOUS
<1>6. ASSUME NEW q \in S, ~(R[q] <= R[m])
      PROVE  FALSE
  <2>1. R[q] > R[m]
    BY <1>6
  <2>2. Above(q) \in SUBSET Above(m) /\ q \in Above(m) /\ q \notin Above(q)
    BY <2>1
  <2>3. Cardinality(Above(q)) < Cardinality(Above(m))
    <3>. HIDE DEF Above
    <3>1. /\ Cardinality(Above(q)) <= Cardinality(Above(m))
          /\ Cardinality(Above(q)) # Cardinality(Above(m))
      BY <1>1, <2>2, FS_Subset
    <3>. QED
      BY <1>1, <3>1
  <2>4. Cardinality(Above(q)) \in C
    OBVIOUS
  <2>. HIDE DEF C
  <2>. QED
    BY <1>4, <1>5, <2>3, <2>4
<1>. QED
  BY <1>6

(* The calls of a state form a tree whose tasks refer to one another, without a cycle: of
   the states at the bottom some task refers to none that is worked on, so the call that
   works on it, or the one that has its lock, has nothing to wait for. *)
LEMMA CallsAreNeverStuck == NmIInv => NmNotStuck
<1>. SUFFICES ASSUME NmIInv, NmActive # {}, \A p \in NmActive : NmWaitsFor(p) # {}
              PROVE  FALSE
  BY DEF NmNotStuck
<1>1. NmActive \subseteq DOMAIN nmCalls /\ IsFiniteSet(NmActive)
  BY FS_Subset DEF NmActive, NmIInv, NmCallsAreTyped
<1>2. \A q \in DOMAIN nmCalls :
        /\ q \in Seq(Nat) /\ nmCalls[q].run \in Seq(Nat) /\ nmCalls[q].task \in NmTasks
        /\ Len(q) \in Nat /\ Len(nmCalls[q].run) \in Nat /\ Len(nmCalls[q].run) <= Len(q)
  BY LenProperties DEF NmIInv, NmCallsAreTyped
<1>3. PICK m \in NmActive :
        \A q \in NmActive : Len(nmCalls[q].run) <= Len(nmCalls[m].run)
  <2>. DEFINE R == [q \in NmActive |-> Len(nmCalls[q].run)]
  <2>1. \A q \in NmActive : R[q] \in Nat
    BY <1>1, <1>2
  <2>2. \E m \in NmActive : \A q \in NmActive : R[q] <= R[m]
    <3>. HIDE DEF R
    <3>. QED
      BY <1>1, <2>1, LongestRun
  <2>. QED
    BY <2>2
<1>. DEFINE S == nmCalls[m].run
            W == {q \in NmActive : nmCalls[q].run = S}
            T == {nmCalls[q].task : q \in W}
<1>4. PICK t \in T : NmReferences(nmConfig, t) \cap T = {}
  <2>1. T \in SUBSET NmTasks /\ T # {}
    BY <1>1, <1>2
  <2>2. nmConfig \in NmConfigs
    BY <1>1 DEF NmIInv, NmCallsAreTyped
  <2>. HIDE DEF T
  <2>. QED
    BY <2>1, <2>2, NmAssumption
<1>5. ASSUME NEW p \in W, nmCalls[p].task = t, NmAt(p) # "wait"
      PROVE  FALSE
  <2>1. PICK c \in NmActive : Len(c) = Len(p) + 1 /\ SubSeq(c, 1, Len(p)) = p
    BY <1>5 DEF NmWaitsFor
  <2>2. c \in DOMAIN nmCalls /\ p \in DOMAIN nmCalls /\ c # <<>>
    BY <1>1, <1>2, <2>1, LenProperties
  <2>3. PICK r \in DOMAIN nmCalls : \E k \in 1..NmLast(r) : c = NmChild(r, k) /\ NmCalledBy(r, c)
    BY <2>2 DEF NmIInv, NmCallersAreKnown
  <2>4. r = p
    <3>1. PICK k \in 1..NmLast(r) : c = NmChild(r, k)
      BY <2>3
    <3>2. r \in Seq(Nat) /\ k \in Nat
      BY ReferencesAreTasks DEF NmIInv
    <3>3. Len(c) = Len(r) + 1 /\ Len(r) \in Nat /\ SubSeq(c, 1, Len(r)) = r
      BY <3>1, <3>2, ChildPaths
    <3>4. Len(r) = Len(p)
      <4>1. Len(p) \in Nat /\ Len(c) = Len(p) + 1
        BY <1>2, <2>1, <2>2
      <4>. QED
        BY <3>3, <4>1
    <3>. QED
      BY <2>1, <3>3, <3>4
  <2>5. NmCalledBy(p, c)
    BY <2>3, <2>4
  <2>6. CASE nmCalls[c].run = S /\ nmCalls[c].task \in NmReferences(nmConfig, t)
    BY <1>4, <2>6
  <2>7. CASE nmCalls[c].run = c
    BY <1>2, <1>3, <1>5, <2>1, <2>2, <2>7
  <2>8. CASE NmAt(c) = "error"
    BY <2>8 DEF NmActive, NmEnded
  <2>. QED
    BY <1>5, <2>5, <2>6, <2>7, <2>8 DEF NmCalledBy
<1>6. PICK p \in W : nmCalls[p].task = t
  BY <1>4
<1>7. CASE NmAt(p) = "wait"
  <2>1. PICK h \in NmHolders(p) : TRUE
    BY <1>7 DEF NmWaitsFor
  <2>2. h \in W /\ nmCalls[h].task = t /\ NmAt(h) # "wait"
    BY <1>6, <2>1 DEF NmHolders, NmHolding, NmStateOf, NmActive, NmEnded
  <2>. QED
    BY <1>5, <2>2
<1>. QED
  BY <1>5, <1>6, <1>7

(* However many threads reach a task, in one state it is worked on by one call at a time
   and not again once it has completed; its steps start after its dependencies have
   completed; and the calls never all wait for one another (execute_task). *)
THEOREM CallsShareTheirWork == NmSpec => []NmSafety
<1>1. NmIInv => NmSafety
  BY TasksRunOnce, CallsAreNeverStuck DEF NmIInv, NmSafety
<1>. QED
  BY <1>1, CallsAreInvariant, PTL

--------------------------------------------------------------------------------
(* Named tasks, cached: a hit is fresh.  Keys are made of the keys and the outputs of
   dependencies, so what a key stands for is defined along the references of tasks, which
   have no cycles. *)

(* What a configuration says of a task's dependencies. *)
LEMMA DependenciesAreTasks ==
    ASSUME NEW c \in NmConfigs, NEW t \in NmTasks
    PROVE  /\ Len(c.of[t].dependencies) \in Nat
           /\ \A i \in 1..Len(c.of[t].dependencies) :
                /\ c.of[t].dependencies[i] \in NmTasks
                /\ c.of[t].dependencies[i] \in NmReferences(c, t)
                /\ c.of[t].strategy[i] \in {"hash", "outputs", "ignored"}
<1>1. NmIsConfig(c)
  BY NmAssumption
<1>2. c.of[t].dependencies \in Seq(NmTasks)
  BY <1>1 DEF NmIsConfig
<1>3. c.of[t].strategy \in [1..Len(c.of[t].dependencies) -> {"hash", "outputs", "ignored"}]
  BY <1>1 DEF NmIsConfig
<1>4. Len(c.of[t].dependencies) \in Nat
  BY <1>2, LenProperties
<1>5. \A i \in 1..Len(c.of[t].dependencies) : c.of[t].dependencies[i] \in NmTasks
  BY <1>2, ElementOfSeq
<1>. QED
  BY <1>3, <1>4, <1>5 DEF NmReferences

(* Of some sets of tasks one leaves out the fewest. *)
LEMMA FewestLeftOut ==
    ASSUME NEW F, F \subseteq SUBSET NmTasks, F # {}
    PROVE  \E A \in F : \A B \in F : Cardinality(NmTasks \ A) <= Cardinality(NmTasks \ B)
<1>. DEFINE Left(A) == Cardinality(NmTasks \ A)
            R == {Left(A) : A \in F}
<1>1. \A A : Left(A) \in Nat
  BY NmAssumption, FS_Subset, FS_CardinalityType
<1>2. R \subseteq Nat /\ R # {}
  BY <1>1
<1>3. PICK x \in R : \A y \in R : ~(<<y, x>> \in OpToRel(<, Nat))
  <2>. HIDE DEF R
  <2>. QED
    BY <1>2, NatLessThanWellFounded, WFMin
<1>4. \A y \in R : ~(y < x)
  <2>. HIDE DEF R
  <2>. QED
    BY <1>2, <1>3 DEF OpToRel
<1>5. PICK A \in F : x = Left(A)
  OBVIOUS
<1>. HIDE DEF Left
<1>6. \A B \in F : ~(Left(B) < Left(A))
  BY <1>4, <1>5
<1>7. \A B \in F : Left(A) <= Left(B)
  BY <1>1, <1>6
<1>. QED
  BY <1>7 DEF Left

(* named_cache_entry ends: as no task refers to itself through others, there are keys
   that are made as it makes them. *)
NmKeyMakes(c, version, output, g, t) ==
    NmManifest(t, NmInputs(version, t), [i \in 1..Len(c.of[t].dependencies) |->
        CASE c.of[t].strategy[i] = "hash" -> g[c.of[t].dependencies[i]]
          [] c.of[t].strategy[i] = "outputs" -> output[c.of[t].dependencies[i]]
          [] OTHER -> NmNothing])

LEMMA KeyMakesReadDependencies ==
    ASSUME NEW c \in NmConfigs, NEW version, NEW output, NEW t \in NmTasks, NEW g, NEW h,
           \A i \in 1..Len(c.of[t].dependencies) :
              h[c.of[t].dependencies[i]] = g[c.of[t].dependencies[i]]
    PROVE  NmKeyMakes(c, version, output, h, t) = NmKeyMakes(c, version, output, g, t)
BY DEF NmKeyMakes

LEMMA NamedKeysExist ==
    ASSUME NEW c \in NmConfigs, NEW version, NEW output
    PROVE  \E g : g = [t \in NmTasks |-> NmKeyMakes(c, version, output, g, t)]
<1>. DEFINE Made(S, g) == g = [t \in S |-> NmKeyMakes(c, version, output, g, t)]
            Needs(t) == {c.of[t].dependencies[i] : i \in 1..Len(c.of[t].dependencies)}
            F == {S \in SUBSET NmTasks : /\ \A t \in S : Needs(t) \subseteq S
                                         /\ \E g : Made(S, g)}
<1>1. {} \in F
  <2>1. Made({}, [t \in {} |-> 0])
    OBVIOUS
  <2>. QED
    BY <2>1
<1>2. PICK S \in F : \A B \in F : Cardinality(NmTasks \ S) <= Cardinality(NmTasks \ B)
  BY <1>1, FewestLeftOut
<1>3. PICK g : Made(S, g)
  OBVIOUS
<1>4. ASSUME S # NmTasks
      PROVE  FALSE
  <2>1. NmTasks \ S # {} /\ NmTasks \ S \in SUBSET NmTasks
    BY <1>4
  <2>2. PICK r \in NmTasks \ S : NmReferences(c, r) \cap (NmTasks \ S) = {}
    BY <2>1, NmAssumption
  <2>3. Needs(r) \subseteq S
    BY <2>2, DependenciesAreTasks
  <2>. DEFINE S2 == S \cup {r}
              h == [t \in S2 |-> IF t = r THEN NmKeyMakes(c, version, output, g, r) ELSE g[t]]
  <2>4. ASSUME NEW t \in S2
        PROVE  h[t] = NmKeyMakes(c, version, output, h, t)
    <3>1. Needs(t) \subseteq S /\ t \in NmTasks
      BY <2>2, <2>3
    <3>2. \A q \in S : h[q] = g[q]
      BY <2>2
    <3>3. NmKeyMakes(c, version, output, h, t) = NmKeyMakes(c, version, output, g, t)
      <4>1. \A i \in 1..Len(c.of[t].dependencies) : c.of[t].dependencies[i] \in S
        BY <3>1
      <4>. HIDE DEF h, F, S2, Made, Needs
      <4>. QED
        BY <3>1, <3>2, <4>1, KeyMakesReadDependencies
    <3>4. h[t] = NmKeyMakes(c, version, output, g, t)
      <4>1. CASE t = r
        BY <4>1
      <4>2. CASE t # r
        <5>1. t \in S /\ h[t] = g[t]
          BY <4>2
        <5>2. g = [x \in S |-> NmKeyMakes(c, version, output, g, x)]
          BY <1>3
        <5>. HIDE DEF h, F, S2, Made, Needs
        <5>. QED
          BY <5>1, <5>2
      <4>. QED
        BY <4>1, <4>2
    <3>. QED
      BY <3>3, <3>4
  <2>5. Made(S2, h)
    <3>1. h = [t \in S2 |-> h[t]]
      OBVIOUS
    <3>. HIDE DEF h
    <3>. QED
      BY <2>4, <3>1
  <2>6. S2 \in F
    <3>1. \A t \in S2 : Needs(t) \subseteq S2
      BY <2>3
    <3>2. S2 \in SUBSET NmTasks
      BY <2>2
    <3>. HIDE DEF h, S2, Made, Needs
    <3>. QED
      BY <2>5, <3>1, <3>2
  <2>7. Cardinality(NmTasks \ S2) < Cardinality(NmTasks \ S)
    <3>1. NmTasks \ S2 = (NmTasks \ S) \ {r}
      OBVIOUS
    <3>2. IsFiniteSet(NmTasks \ S)
      BY NmAssumption, FS_Subset
    <3>3. Cardinality(NmTasks \ S2) = Cardinality(NmTasks \ S) - 1
      <4>. DEFINE T == NmTasks \ S
      <4>1. r \in T /\ IsFiniteSet(T) /\ NmTasks \ S2 = T \ {r}
        BY <2>2, <3>1, <3>2
      <4>. HIDE DEF T, F, S2
      <4>2. Cardinality(T \ {r}) = Cardinality(T) - 1
        BY <4>1, FS_RemoveElement
      <4>. QED
        BY <4>1, <4>2 DEF T
    <3>4. Cardinality(NmTasks \ S) \in Nat
      BY <3>2, FS_CardinalityType
    <3>. QED
      BY <3>3, <3>4
  <2>8. Cardinality(NmTasks \ S2) \in Nat /\ Cardinality(NmTasks \ S) \in Nat
    BY NmAssumption, FS_Subset, FS_CardinalityType
  <2>. HIDE DEF F, S2
  <2>. QED
    BY <1>2, <2>6, <2>7, <2>8
<1>. QED
  BY <1>3, <1>4

(* So the key of a task is made of its inputs and of what each strategy adds. *)
LEMMA NamedKeyIsMade ==
    ASSUME NEW c \in NmConfigs, NEW version, NEW output, NEW t \in NmTasks
    PROVE  LET keys == NmKeysOf(c, version, output)
               d == c.of[t]
           IN  /\ keys[t] = NmManifest(t, NmInputs(version, t), keys[t].dependencies)
               /\ keys[t].task = t /\ keys[t].own = NmInputs(version, t)
               /\ \A i \in 1..Len(d.dependencies) :
                    /\ d.strategy[i] = "hash" =>
                         keys[t].dependencies[i] = keys[d.dependencies[i]]
                    /\ d.strategy[i] = "outputs" =>
                         keys[t].dependencies[i] = output[d.dependencies[i]]
               /\ keys[t] = NmKeyMakes(c, version, output, keys, t)
<1>. DEFINE keys == NmKeysOf(c, version, output)
            E(g) == [x \in NmTasks |-> NmKeyMakes(c, version, output, g, x)]
<1>1. keys = CHOOSE g : g = E(g)
  BY DEF NmKeysOf, NmKeyMakes
<1>2. PICK f : f = E(f)
  BY NamedKeysExist
<1>3. keys = E(keys)
  <2>. HIDE DEF E
  <2>. QED
    BY <1>1, <1>2
<1>. HIDE DEF keys
<1>4. keys[t] = NmKeyMakes(c, version, output, keys, t)
  BY <1>3
<1>. QED
  BY <1>4 DEF NmKeyMakes, NmManifest, keys

(* What keys stand for: R pairs a key with what the commands of its task made, and
   pairs whatever a key takes from another task's key in the same way. *)
NmPairIsRight(c, R, k, m) ==
    LET d == c.of[k.task]
    IN  /\ k.task \in NmTasks
        /\ \A i \in 1..Len(d.dependencies) : d.strategy[i] = "hash" =>
              k.dependencies[i].task = d.dependencies[i]
        /\ ~NmHasCommand(c, k.task) => m = NmNothing
        /\ NmHasCommand(c, k.task) =>
              /\ m = NmManifest(k.task, k.own, [i \in 1..Len(d.dependencies) |-> m.dependencies[i]])
              /\ \A i \in 1..Len(d.dependencies) :
                   /\ d.strategy[i] = "hash" => <<k.dependencies[i], m.dependencies[i]>> \in R
                   /\ d.strategy[i] = "outputs" => m.dependencies[i] = k.dependencies[i]
                   /\ d.strategy[i] = "ignored" => m.dependencies[i] = NmNothing
NmPairsAreRight(c, R) == \A k, m : <<k, m>> \in R => NmPairIsRight(c, R, k, m)

(* A key stands for one thing: of the tasks whose keys did not, one refers to no other. *)
LEMMA KeysStandForOne ==
    ASSUME NEW c \in NmConfigs, NEW R, NmPairsAreRight(c, R)
    PROVE  \A k, m, n : <<k, m>> \in R /\ <<k, n>> \in R => m = n
<1>. DEFINE Differ(t) == \E k, m, n : k.task = t /\ <<k, m>> \in R /\ <<k, n>> \in R /\ m # n
            B == {t \in NmTasks : Differ(t)}
<1>1. ASSUME B # {}
      PROVE  FALSE
  <2>1. PICK t \in B : NmReferences(c, t) \cap B = {}
    <3>1. B \in SUBSET NmTasks
      OBVIOUS
    <3>. HIDE DEF B
    <3>. QED
      BY <1>1, <3>1, NmAssumption
  <2>2. t \in NmTasks
    OBVIOUS
  <2>3. PICK k, m, n : k.task = t /\ <<k, m>> \in R /\ <<k, n>> \in R /\ m # n
    OBVIOUS
  <2>. DEFINE N == 1..Len(c.of[t].dependencies)
              Dep(i) == c.of[t].dependencies[i]
  <2>4. NmPairIsRight(c, R, k, m) /\ NmPairIsRight(c, R, k, n)
    BY <2>3 DEF NmPairsAreRight
  <2>5. NmHasCommand(c, t)
    BY <2>3, <2>4 DEF NmPairIsRight
  <2>6. ASSUME NEW i \in N
        PROVE  m.dependencies[i] = n.dependencies[i]
    <3>1. /\ Dep(i) \in NmTasks /\ Dep(i) \in NmReferences(c, t)
          /\ c.of[t].strategy[i] \in {"hash", "outputs", "ignored"}
      BY <2>2, DependenciesAreTasks
    <3>2. CASE c.of[t].strategy[i] = "hash"
      <4>1. /\ <<k.dependencies[i], m.dependencies[i]>> \in R
            /\ <<k.dependencies[i], n.dependencies[i]>> \in R
            /\ k.dependencies[i].task = Dep(i)
        BY <2>3, <2>4, <2>5, <3>2 DEF NmPairIsRight
      <4>2. Dep(i) \notin B
        <5>. HIDE DEF B, Dep
        <5>. QED
          BY <2>1, <3>1
      <4>3. ~Differ(Dep(i))
        BY <3>1, <4>2
      <4>. HIDE DEF Dep
      <4>. QED
        BY <4>1, <4>3
    <3>3. CASE c.of[t].strategy[i] = "outputs"
      BY <2>3, <2>4, <2>5, <3>3 DEF NmPairIsRight
    <3>4. CASE c.of[t].strategy[i] = "ignored"
      BY <2>3, <2>4, <2>5, <3>4 DEF NmPairIsRight
    <3>. QED
      BY <3>1, <3>2, <3>3, <3>4
  <2>7. [i \in N |-> m.dependencies[i]] = [i \in N |-> n.dependencies[i]]
    BY <2>6
  <2>8. /\ m = NmManifest(t, k.own, [i \in N |-> m.dependencies[i]])
        /\ n = NmManifest(t, k.own, [i \in N |-> n.dependencies[i]])
    BY <2>3, <2>4, <2>5 DEF NmPairIsRight
  <2>. HIDE DEF N
  <2>. QED
    BY <2>3, <2>7, <2>8
<1>2. ASSUME NEW k, NEW m, NEW n, <<k, m>> \in R, <<k, n>> \in R, m # n
      PROVE  FALSE
  <2>1. k.task \in NmTasks
    BY <1>2 DEF NmPairsAreRight, NmPairIsRight
  <2>2. Differ(k.task)
    BY <1>2
  <2>3. k.task \in B
    BY <2>1, <2>2
  <2>. QED
    BY <1>1, <2>3
<1>. QED
  BY <1>2

(* The key of a task whose dependencies' keys stand for their outputs stands for what
   its commands make; *)
LEMMA KeyStandsForMade ==
    ASSUME NEW c \in NmConfigs, NEW version, NEW output, NEW R, NmPairsAreRight(c, R),
           NEW t \in NmTasks,
           \A i \in 1..Len(c.of[t].dependencies) :
              <<NmKeysOf(c, version, output)[c.of[t].dependencies[i]],
                output[c.of[t].dependencies[i]]>> \in R
    PROVE  NmPairsAreRight(c, R \cup {<<NmKeysOf(c, version, output)[t],
                                        NmMakesOf(c, version, output, t)>>})
<1>. DEFINE keys == NmKeysOf(c, version, output)
            made == NmMakesOf(c, version, output, t)
            N == 1..Len(c.of[t].dependencies)
            Dep(i) == c.of[t].dependencies[i]
            Q == R \cup {<<keys[t], made>>}
<1>1. /\ keys[t].task = t /\ keys[t].own = NmInputs(version, t)
      /\ \A i \in N :
           /\ c.of[t].strategy[i] = "hash" => keys[t].dependencies[i] = keys[Dep(i)]
           /\ c.of[t].strategy[i] = "outputs" => keys[t].dependencies[i] = output[Dep(i)]
  BY NamedKeyIsMade
<1>2. \A i \in N : Dep(i) \in NmTasks
  BY DependenciesAreTasks
<1>3. \A i \in N : keys[Dep(i)].task = Dep(i)
  BY <1>2, NamedKeyIsMade
<1>4. \A i \in N : <<keys[Dep(i)], output[Dep(i)]>> \in R
  OBVIOUS
<1>5. ~NmHasCommand(c, t) => made = NmNothing
  BY DEF NmMakesOf
<1>6. NmHasCommand(c, t) =>
        /\ made = NmManifest(t, keys[t].own, [i \in N |-> made.dependencies[i]])
        /\ \A i \in N : made.dependencies[i] =
              IF c.of[t].strategy[i] = "ignored" THEN NmNothing ELSE output[Dep(i)]
  <2>. SUFFICES ASSUME NmHasCommand(c, t)
                PROVE  /\ made = NmManifest(t, keys[t].own, [i \in N |-> made.dependencies[i]])
                       /\ \A i \in N : made.dependencies[i] =
                            IF c.of[t].strategy[i] = "ignored" THEN NmNothing ELSE output[Dep(i)]
    OBVIOUS
  <2>. DEFINE f == [i \in N |-> IF c.of[t].strategy[i] = "ignored" THEN NmNothing
                                ELSE output[Dep(i)]]
  <2>1. made = NmManifest(t, NmInputs(version, t), f)
    BY DEF NmMakesOf
  <2>2. made.dependencies = f
    <3>. HIDE DEF f, made
    <3>. QED
      BY <2>1 DEF NmManifest
  <2>3. f = [i \in N |-> f[i]] /\ \A i \in N : f[i] =
            IF c.of[t].strategy[i] = "ignored" THEN NmNothing ELSE output[Dep(i)]
    OBVIOUS
  <2>. HIDE DEF f, made, keys, N, Dep
  <2>. QED
    BY <1>1, <2>1, <2>2, <2>3
<1>7. NmPairIsRight(c, Q, keys[t], made)
  <2>1. \A i \in N : c.of[t].strategy[i] = "hash" =>
            <<keys[t].dependencies[i], output[Dep(i)]>> \in Q
    BY <1>1, <1>4
  <2>2. NmHasCommand(c, t) => \A i \in N :
            /\ c.of[t].strategy[i] = "hash" =>
                  <<keys[t].dependencies[i], made.dependencies[i]>> \in Q
            /\ c.of[t].strategy[i] = "outputs" => made.dependencies[i] = keys[t].dependencies[i]
            /\ c.of[t].strategy[i] = "ignored" => made.dependencies[i] = NmNothing
    <3>. HIDE DEF keys, made, Dep, Q
    <3>. QED
      BY <1>1, <1>6, <2>1
  <2>3. \A i \in N : c.of[t].strategy[i] = "hash" => keys[t].dependencies[i].task = Dep(i)
    <3>. HIDE DEF keys, Dep
    <3>. QED
      BY <1>1, <1>3
  <2>. HIDE DEF keys, made, Q
  <2>. QED
    BY <1>1, <1>5, <1>6, <2>2, <2>3 DEF NmPairIsRight
<1>8. ASSUME NEW k, NEW m, <<k, m>> \in Q
      PROVE  NmPairIsRight(c, Q, k, m)
  <2>1. CASE <<k, m>> \in R
    <3>1. NmPairIsRight(c, R, k, m) /\ R \subseteq Q
      BY <2>1 DEF NmPairsAreRight
    <3>. HIDE DEF Q
    <3>. QED
      BY <3>1 DEF NmPairIsRight
  <2>2. CASE k = keys[t] /\ m = made
    BY <1>7, <2>2
  <2>3. <<k, m>> \in R \/ <<k, m>> = <<keys[t], made>>
    BY <1>8
  <2>. HIDE DEF keys, made, Q
  <2>. QED
    BY <2>1, <2>2, <2>3
<1>. QED
  BY <1>8 DEF NmPairsAreRight

(* so what such a key stands for is that. *)
LEMMA KeyStandsForNothingElse ==
    ASSUME NEW c \in NmConfigs, NEW version, NEW output, NEW R, NmPairsAreRight(c, R),
           NEW t \in NmTasks, NEW m, <<NmKeysOf(c, version, output)[t], m>> \in R,
           \A i \in 1..Len(c.of[t].dependencies) :
              <<NmKeysOf(c, version, output)[c.of[t].dependencies[i]],
                output[c.of[t].dependencies[i]]>> \in R
    PROVE  m = NmMakesOf(c, version, output, t)
<1>. DEFINE k == NmKeysOf(c, version, output)[t]
            made == NmMakesOf(c, version, output, t)
<1>1. NmPairsAreRight(c, R \cup {<<k, made>>})
  BY KeyStandsForMade
<1>2. <<k, m>> \in R \cup {<<k, made>>} /\ <<k, made>> \in R \cup {<<k, made>>}
  OBVIOUS
<1>3. m = made
  <2>. HIDE DEF k, made
  <2>. QED
    BY <1>1, <1>2, KeysStandForOne
<1>. QED
  BY <1>3

(* The dependencies of a task are among D. *)
NmDependsOn(c, t, D) == \A i \in 1..Len(c.of[t].dependencies) : c.of[t].dependencies[i] \in D

(* The keys of tasks, and what they would make, stay while the outputs of their
   dependencies do. *)
LEMMA NamedKeysStay ==
    ASSUME NEW c \in NmConfigs, NEW version, NEW output, NEW next, NEW D \in SUBSET NmTasks,
           \A d \in D : next[d] = output[d] /\ NmDependsOn(c, d, D),
           NEW t \in NmTasks, NmDependsOn(c, t, D)
    PROVE  /\ NmKeysOf(c, version, next)[t] = NmKeysOf(c, version, output)[t]
           /\ NmMakesOf(c, version, next, t) = NmMakesOf(c, version, output, t)
<1>. DEFINE old == NmKeysOf(c, version, output)
            new == NmKeysOf(c, version, next)
            B == {x \in NmTasks : NmDependsOn(c, x, D) /\ new[x] # old[x]}
<1>1. ASSUME B # {}
      PROVE  FALSE
  <2>1. PICK x \in B : NmReferences(c, x) \cap B = {}
    <3>1. B \in SUBSET NmTasks
      OBVIOUS
    <3>. HIDE DEF B
    <3>. QED
      BY <1>1, <3>1, NmAssumption
  <2>2. x \in NmTasks /\ NmDependsOn(c, x, D) /\ new[x] # old[x]
    OBVIOUS
  <2>3. ASSUME NEW i \in 1..Len(c.of[x].dependencies)
        PROVE  /\ new[c.of[x].dependencies[i]] = old[c.of[x].dependencies[i]]
               /\ next[c.of[x].dependencies[i]] = output[c.of[x].dependencies[i]]
    <3>. DEFINE d == c.of[x].dependencies[i]
    <3>1. d \in D /\ d \in NmTasks /\ d \in NmReferences(c, x)
      BY <2>2, DependenciesAreTasks DEF NmDependsOn
    <3>2. NmDependsOn(c, d, D)
      BY <3>1
    <3>3. d \notin B
      <4>. HIDE DEF B, d
      <4>. QED
        BY <2>1, <3>1
    <3>. QED
      BY <3>1, <3>2, <3>3
  <2>4. NmKeyMakes(c, version, next, new, x) = NmKeyMakes(c, version, output, old, x)
    <3>. HIDE DEF new, old
    <3>. QED
      BY <2>3 DEF NmKeyMakes
  <2>5. /\ new[x] = NmKeyMakes(c, version, next, new, x)
        /\ old[x] = NmKeyMakes(c, version, output, old, x)
    BY <2>2, NamedKeyIsMade
  <2>. HIDE DEF new, old
  <2>. QED
    BY <2>2, <2>4, <2>5
<1>2. new[t] = old[t]
  <2>1. t \notin B /\ NmDependsOn(c, t, D)
    BY <1>1
  <2>. QED
    BY <2>1
<1>3. NmMakesOf(c, version, next, t) = NmMakesOf(c, version, output, t)
  <2>1. \A i \in 1..Len(c.of[t].dependencies) :
          next[c.of[t].dependencies[i]] = output[c.of[t].dependencies[i]]
    BY DEF NmDependsOn
  <2>. QED
    BY <2>1 DEF NmMakesOf
<1>. QED
  BY <1>2, <1>3

--------------------------------------------------------------------------------
(* The tree of calls, as far as the outputs depend on it. *)

(* The commands of a call are its children too: they run, and write the output of
   their task, while the call is at its steps; in order, unless its steps run side by
   side. *)
NmIsCommandOf(p, i) ==
    i > NmLastDependency(p) /\ NmIsCommand(nmConfig, NmDef(p).steps[i - NmLastDependency(p)])
NmCommandsRun ==
    \A p \in DOMAIN nmCalls : \A i \in 1..NmLast(p) : NmHas(p, i) =>
        /\ NmChildAt(p, i) = "process" => NmIsCommandOf(p, i) /\ NmAt(p) = "steps"
        /\ NmIsCommandOf(p, i) =>
              /\ NmChildAt(p, i) \in {"process", "ok", "error"}
              /\ nmCalls[NmChild(p, i)].task = nmCalls[p].task
        /\ i > NmLastDependency(p) => NmAt(p) \in {"steps", "store", "ok", "error"}
        /\ i > NmLastDependency(p) /\ ~NmDef(p).parallel =>
              \A j \in 1..(i - 1) : NmChildAt(p, j) = "ok"

(* What has completed was called, after its dependencies; *)
NmCompletedAreCalls ==
    \A x \in nmCompleted :
        /\ \E q \in DOMAIN nmCalls : NmStateOf(q) = x
        /\ \A i \in 1..Len(nmConfig.of[x[2]].dependencies) :
              <<x[1], nmConfig.of[x[2]].dependencies[i]>> \in nmCompleted

(* only what is cached is looked up and stored. *)
NmCachedAreStored ==
    \A p \in DOMAIN nmCalls : NmAt(p) \in {"cache", "store"} => NmDef(p).cached
NmOutputsAreTyped ==
    /\ nmOutput = [t \in NmTasks |-> nmOutput[t]]
    /\ nmRuns = 0 => nmEntries = {} /\ \A t \in NmTasks : nmOutput[t] = NmNothing

NmFirstIsTask == <<>> \in DOMAIN nmCalls => NmAt(<<>>) # "process"

NmTreeHolds ==
    /\ NmCommandsRun
    /\ NmFirstIsTask
    /\ NmCompletedAreCalls
    /\ NmCachedAreStored
    /\ NmOutputsAreTyped

(* What a move leaves alone. *)
LEMMA MovesLeaveTheRest ==
    ASSUME NmIInv, NEW p \in DOMAIN nmCalls, NmMoves(p)
    PROVE  /\ DOMAIN nmCalls' = DOMAIN nmCalls /\ UNCHANGED <<nmConfig, nmRuns>>
           /\ \A q \in DOMAIN nmCalls :
                /\ nmCalls'[q].task = nmCalls[q].task /\ nmCalls'[q].run = nmCalls[q].run
                /\ q # p => nmCalls'[q] = nmCalls[q]
                /\ NmDef(q)' = NmDef(q) /\ NmLast(q)' = NmLast(q)
                /\ NmLastDependency(q)' = NmLastDependency(q)
                /\ NmStateOf(q)' = NmStateOf(q)
           /\ NmAt(p) \notin {"ok", "error"}
           /\ nmRuns # 0
<1>1. PICK to \in NmPhases : NmGoes(p, to) /\ NmRule(p, to)
  BY DEF NmMoves
<1>2. DOMAIN nmCalls' = DOMAIN nmCalls /\ UNCHANGED <<nmConfig, nmRuns>>
  BY <1>1 DEF NmGoes, NmMoves
<1>3. \A q \in DOMAIN nmCalls :
        /\ nmCalls'[q].task = nmCalls[q].task /\ nmCalls'[q].run = nmCalls[q].run
        /\ q # p => nmCalls'[q] = nmCalls[q]
  BY <1>1 DEF NmGoes
<1>4. NmAt(p) \notin {"ok", "error"}
  BY <1>1 DEF NmRule
<1>5. nmRuns # 0
  BY DEF NmIInv, NmCallsAreTyped
<1>. QED
  BY <1>2, <1>3, <1>4, <1>5 DEF NmDef, NmLast, NmLastDependency, NmStateOf

(* No command of a call is under way when its steps are over. *)
LEMMA StepsAreJoined ==
    ASSUME NmIInv, NmCommandsRun, NEW p \in DOMAIN nmCalls, NmAt(p) = "steps",
           NmFail(p) \/ NmStepsDone(p), NEW i \in 1..NmLast(p)
    PROVE  NmChildAt(p, i) # "process"
<1>1. CASE NmStepsDone(p)
  BY <1>1 DEF NmStepsDone
<1>2. CASE NmFail(p)
  <2>. SUFFICES ASSUME NmChildAt(p, i) = "process"
                PROVE  FALSE
    OBVIOUS
  <2>0. NmLast(p) \in Nat /\ NmLastDependency(p) \in Nat
    BY ReferencesAreTasks DEF NmIInv
  <2>1. NmHas(p, i) /\ i > NmLastDependency(p)
    <3>1. NmHas(p, i)
      BY DEF NmChildAt
    <3>. QED
      BY <3>1 DEF NmCommandsRun, NmIsCommandOf
  <2>2. PICK j \in 1..NmLast(p) : NmChildAt(p, j) = "error"
    BY <1>2 DEF NmFail
  <2>3. NmHas(p, j)
    BY <2>2 DEF NmChildAt
  <2>4. CASE NmDef(p).parallel
    <3>1. i \in (NmLastDependency(p) + 1)..NmLast(p)
      BY <2>0, <2>1
    <3>. QED
      BY <1>2, <2>4, <3>1 DEF NmFail, NmEnded
  <2>5. CASE ~NmDef(p).parallel
    <3>1. i # j
      BY <2>2
    <3>2. CASE j < i
      <4>1. j \in 1..(i - 1)
        BY <2>0, <3>2
      <4>2. NmChildAt(p, j) = "ok"
        BY <2>1, <2>5, <4>1 DEF NmCommandsRun
      <4>. QED
        BY <2>2, <4>2
    <3>3. CASE i < j
      <4>1. i \in 1..(j - 1) /\ j > NmLastDependency(p)
        BY <2>0, <2>1, <3>3
      <4>2. NmChildAt(p, i) = "ok"
        BY <2>3, <2>5, <4>1 DEF NmCommandsRun
      <4>. QED
        BY <4>2
    <3>. QED
      BY <2>0, <3>1, <3>2, <3>3
  <2>. QED
    BY <2>4, <2>5
<1>. QED
  BY <1>1, <1>2

LEMMA CommandsRunWithMoves ==
    ASSUME NmIInv, NmCommandsRun, NEW p \in DOMAIN nmCalls, NmMoves(p),
           NmAt(p) = "steps" => \A i \in 1..NmLast(p) : NmChildAt(p, i) # "process"
    PROVE  NmCommandsRun'
<1>1. PICK to \in NmPhases : NmGoes(p, to) /\ NmRule(p, to)
  BY DEF NmMoves
<1>2. /\ DOMAIN nmCalls' = DOMAIN nmCalls /\ UNCHANGED <<nmConfig, nmRuns>>
      /\ \A q \in DOMAIN nmCalls :
           /\ nmCalls'[q].task = nmCalls[q].task
           /\ q # p => nmCalls'[q] = nmCalls[q]
           /\ NmDef(q)' = NmDef(q) /\ NmLast(q)' = NmLast(q)
           /\ NmLastDependency(q)' = NmLastDependency(q)
  BY MovesLeaveTheRest
<1>3. nmCalls'[p].at = to /\ to # "process" /\ NmAt(p) \notin {"ok", "error"}
  BY <1>1 DEF NmGoes, NmRule
<1>. SUFFICES ASSUME NEW r \in DOMAIN nmCalls, NEW i \in 1..NmLast(r),
                     NmChild(r, i) \in DOMAIN nmCalls
              PROVE  LET c == NmChild(r, i)
                     IN  /\ nmCalls'[c].at = "process" =>
                              NmIsCommandOf(r, i) /\ nmCalls'[r].at = "steps"
                         /\ NmIsCommandOf(r, i) =>
                              /\ nmCalls'[c].at \in {"process", "ok", "error"}
                              /\ nmCalls'[c].task = nmCalls'[r].task
                         /\ i > NmLastDependency(r) =>
                              nmCalls'[r].at \in {"steps", "store", "ok", "error"}
                         /\ i > NmLastDependency(r) /\ ~NmDef(r).parallel =>
                              \A j \in 1..(i - 1) :
                                 NmChild(r, j) \in DOMAIN nmCalls
                                   /\ nmCalls'[NmChild(r, j)].at = "ok"
  BY <1>2 DEF NmCommandsRun, NmHas, NmChildAt, NmAt, NmChild, NmIsCommandOf
<1>. DEFINE c == NmChild(r, i)
<1>4. /\ nmCalls[c].at = "process" => NmIsCommandOf(r, i) /\ nmCalls[r].at = "steps"
      /\ NmIsCommandOf(r, i) =>
            nmCalls[c].at \in {"process", "ok", "error"} /\ nmCalls[c].task = nmCalls[r].task
      /\ i > NmLastDependency(r) => nmCalls[r].at \in {"steps", "store", "ok", "error"}
      /\ i > NmLastDependency(r) /\ ~NmDef(r).parallel =>
            \A j \in 1..(i - 1) : NmChildAt(r, j) = "ok"
  BY DEF NmCommandsRun, NmHas, NmChildAt, NmAt
<1>5. nmCalls'[c].at = "process" => NmIsCommandOf(r, i) /\ nmCalls'[r].at = "steps"
  <2>. SUFFICES ASSUME nmCalls'[c].at = "process"
                PROVE  NmIsCommandOf(r, i) /\ nmCalls'[r].at = "steps"
    OBVIOUS
  <2>1. c # p /\ nmCalls[c].at = "process"
    BY <1>2, <1>3
  <2>2. NmIsCommandOf(r, i) /\ nmCalls[r].at = "steps"
    BY <1>4, <2>1
  <2>3. r # p
    BY <2>1, <2>2 DEF NmAt, NmChildAt, NmHas
  <2>. QED
    BY <1>2, <2>2, <2>3
<1>6. NmIsCommandOf(r, i) =>
        nmCalls'[c].at \in {"process", "ok", "error"} /\ nmCalls'[c].task = nmCalls'[r].task
  <2>. SUFFICES ASSUME NmIsCommandOf(r, i)
                PROVE  nmCalls'[c].at \in {"process", "ok", "error"}
    BY <1>2, <1>4
  <2>1. CASE c # p
    BY <1>2, <1>4, <2>1
  <2>2. CASE c = p
    <3>1. NmAt(p) = "process"
      BY <1>3, <1>4, <2>2 DEF NmAt
    <3>. QED
      BY <1>1, <1>3, <2>2, <3>1 DEF NmRule
  <2>. QED
    BY <2>1, <2>2
<1>7. i > NmLastDependency(r) => nmCalls'[r].at \in {"steps", "store", "ok", "error"}
  <2>1. CASE r # p
    BY <1>2, <1>4, <2>1
  <2>2. CASE r = p
    <3>1. NmAt(p) \in {"steps", "store", "ok", "error"} => to \in {"steps", "store", "ok", "error"}
      BY <1>1 DEF NmRule
    <3>. QED
      BY <1>3, <1>4, <2>2, <3>1 DEF NmAt
  <2>. QED
    BY <2>1, <2>2
<1>8. ASSUME i > NmLastDependency(r), ~NmDef(r).parallel, NEW j \in 1..(i - 1)
      PROVE  NmChild(r, j) \in DOMAIN nmCalls /\ nmCalls'[NmChild(r, j)].at = "ok"
  <2>1. NmChildAt(r, j) = "ok"
    BY <1>4, <1>8
  <2>2. NmChild(r, j) \in DOMAIN nmCalls /\ nmCalls[NmChild(r, j)].at = "ok"
    BY <2>1 DEF NmChildAt, NmHas, NmAt
  <2>. QED
    BY <1>2, <1>3, <2>2 DEF NmAt
<1>. QED
  BY <1>5, <1>6, <1>7, <1>8

(* What a new call is. *)
LEMMA StartsAreCommands ==
    ASSUME NmIInv, NEW p \in DOMAIN nmCalls, NEW i \in 1..NmLast(p), NmStart(p, i)
    PROVE  LET c == NmChild(p, i)
           IN  /\ nmCalls'[c].at = "process" => NmIsCommandOf(p, i)
               /\ NmIsCommandOf(p, i) =>
                     nmCalls'[c].at = "process" /\ nmCalls'[c].task = nmCalls[p].task
               /\ i > NmLastDependency(p) => NmAt(p) = "steps"
               /\ i > NmLastDependency(p) /\ ~NmDef(p).parallel =>
                     \A j \in 1..(i - 1) : NmChildAt(p, j) = "ok"
<1>. DEFINE c == NmChild(p, i)
            dependency == NmNewCall(NmDef(p).dependencies[i], nmCalls[p].run, nmCalls[p].stack)
            call == IF i <= NmLastDependency(p) THEN dependency ELSE NmCallOfStep(p, i)
<1>0. NmLastDependency(p) \in Nat /\ i \in Nat
  BY ReferencesAreTasks DEF NmIInv
<1>1. nmCalls'[c] = call
  <2>1. nmCalls' = [q \in DOMAIN nmCalls \cup {c} |-> IF q = c THEN call ELSE nmCalls[q]]
    BY DEF NmStart, NmAddCall
  <2>. HIDE DEF c, call
  <2>. QED
    BY <2>1
<1>2. CASE i <= NmLastDependency(p)
  <2>1. call.at = "enter"
    BY <1>2 DEF NmNewCall
  <2>. QED
    BY <1>0, <1>1, <1>2, <2>1 DEF NmIsCommandOf
<1>3. CASE i > NmLastDependency(p)
  <2>. DEFINE s == NmDef(p).steps[i - NmLastDependency(p)]
  <2>0. call = NmCallOfStep(p, i)
    BY <1>0, <1>3
  <2>1. NmIsCommandOf(p, i) <=> NmIsCommand(nmConfig, s)
    BY <1>3 DEF NmIsCommandOf
  <2>2. NmIsCommand(nmConfig, s) => call.at = "process" /\ call.task = nmCalls[p].task
    <3>. SUFFICES ASSUME NmIsCommand(nmConfig, s)
                  PROVE  call.at = "process" /\ call.task = nmCalls[p].task
      OBVIOUS
    <3>1. s.kind # "task" /\ ~(s.kind = "target" /\ s.of \in DOMAIN nmConfig.bound)
      BY DEF NmIsCommand
    <3>2. call = [NmNewCall(nmCalls[p].task, NmChild(p, i), nmCalls[p].stack)
                      EXCEPT !.at = "process"]
      BY <2>0, <3>1 DEF NmCallOfStep
    <3>3. call = [task |-> nmCalls[p].task, run |-> NmChild(p, i),
                  stack |-> nmCalls[p].stack, at |-> "process", key |-> NmNothing]
      BY <3>2 DEF NmNewCall
    <3>. QED
      BY <3>3
  <2>3. ~NmIsCommand(nmConfig, s) => call.at # "process"
    <3>1. CASE s.kind = "task"
      <4>1. call = NmNewCall(s.of, nmCalls[p].run, nmCalls[p].stack)
        BY <2>0, <3>1 DEF NmCallOfStep
      <4>. QED
        BY <4>1 DEF NmNewCall
    <3>2. CASE s.kind # "task" /\ s.kind = "target" /\ s.of \in DOMAIN nmConfig.bound
      <4>1. CASE s.of \in nmCalls[p].stack
        <5>1. call = [NmNewCall(nmCalls[p].task, nmCalls[p].run, nmCalls[p].stack)
                        EXCEPT !.at = "error"]
          BY <2>0, <3>2, <4>1 DEF NmCallOfStep
        <5>2. call = [task |-> nmCalls[p].task, run |-> nmCalls[p].run,
                      stack |-> nmCalls[p].stack, at |-> "error", key |-> NmNothing]
          BY <5>1 DEF NmNewCall
        <5>. QED
          BY <5>2
      <4>2. CASE s.of \notin nmCalls[p].stack
        <5>1. call = NmNewCall(nmConfig.bound[s.of], NmChild(p, i), nmCalls[p].stack \cup {s.of})
          BY <2>0, <3>2, <4>2 DEF NmCallOfStep
        <5>. QED
          BY <5>1 DEF NmNewCall
      <4>. QED
        BY <4>1, <4>2
    <3>. QED
      BY <3>1, <3>2 DEF NmIsCommand
  <2>4. NmAt(p) = "steps"
    BY <1>0, <1>3 DEF NmStart, NmMayStart
  <2>5. ~NmDef(p).parallel => \A j \in 1..(i - 1) : NmChildAt(p, j) = "ok"
    BY DEF NmStart, NmMayStart
  <2>. HIDE DEF call, c, s
  <2>. QED
    BY <1>1, <2>1, <2>2, <2>3, <2>4, <2>5 DEF c
<1>. QED
  BY <1>0, <1>2, <1>3

LEMMA CommandsRunWithStarts ==
    ASSUME NmIInv, NmCommandsRun, NEW p \in DOMAIN nmCalls, NEW i \in 1..NmLast(p), NmStart(p, i)
    PROVE  NmCommandsRun'
<1>. DEFINE c == NmChild(p, i)
<1>0. NmAdds(p, i)
  BY StartsAdd DEF NmIInv
<1>1. /\ p \in Seq(Nat) /\ i \in Nat /\ c \in Seq(Nat) /\ c \notin DOMAIN nmCalls
      /\ DOMAIN nmCalls' = DOMAIN nmCalls \cup {c}
      /\ \A q \in DOMAIN nmCalls : nmCalls'[q] = nmCalls[q]
      /\ \A j \in Nat : NmChild(c, j) \notin DOMAIN nmCalls'
  BY <1>0, AddsAreAdds
<1>2. UNCHANGED nmConfig
  BY <1>0 DEF NmAdds
<1>3. \A q \in DOMAIN nmCalls :
        /\ NmLast(q)' = NmLast(q) /\ NmLastDependency(q)' = NmLastDependency(q)
        /\ NmDef(q)' = NmDef(q) /\ NmAt(q)' = NmAt(q)
        /\ NmLast(q) \in Nat
        /\ \A k : NmIsCommandOf(q, k)' = NmIsCommandOf(q, k)
  BY <1>1, <1>2, ReferencesAreTasks DEF NmLast, NmLastDependency, NmDef, NmAt, NmIsCommandOf, NmIInv
<1>4. ASSUME NEW r \in DOMAIN nmCalls', NEW k \in 1..NmLast(r)', NmChild(r, k) \in DOMAIN nmCalls'
      PROVE  /\ NmChildAt(r, k)' = "process" => NmIsCommandOf(r, k)' /\ NmAt(r)' = "steps"
             /\ NmIsCommandOf(r, k)' =>
                  /\ NmChildAt(r, k)' \in {"process", "ok", "error"}
                  /\ nmCalls'[NmChild(r, k)].task = nmCalls'[r].task
             /\ k > NmLastDependency(r)' => NmAt(r)' \in {"steps", "store", "ok", "error"}
             /\ k > NmLastDependency(r)' /\ ~NmDef(r)'.parallel =>
                  \A j \in 1..(k - 1) : NmChildAt(r, j)' = "ok"
  <2>. DEFINE d == NmChild(r, k)
  <2>1. k \in Nat
    <3>1. NmLast(r)' \in Nat
      <4>1. NmCallsAreTyped'
        BY <1>0, TypesStayWithAdds
      <4>2. nmConfig' \in NmConfigs /\ nmCalls'[r].task \in NmTasks
        BY <4>1, <1>1 DEF NmCallsAreTyped
      <4>3. /\ Len(nmConfig'.of[nmCalls'[r].task].dependencies) \in Nat
            /\ Len(nmConfig'.of[nmCalls'[r].task].steps) \in Nat
        BY <4>2, NmAssumption, DependenciesAreTasks DEF NmIsConfig
      <4>4. NmLast(r)' = Len(nmConfig'.of[nmCalls'[r].task].dependencies)
                           + Len(nmConfig'.of[nmCalls'[r].task].steps)
        BY DEF NmLast, NmLastDependency, NmDef
      <4>5. \A a, b : a \in Nat /\ b \in Nat => a + b \in Nat
        OBVIOUS
      <4>6. Len(nmConfig'.of[nmCalls'[r].task].dependencies)
              + Len(nmConfig'.of[nmCalls'[r].task].steps) \in Nat
        BY <4>3, <4>5
      <4>. QED
        BY <4>4, <4>6
    <3>. QED
      BY <3>1
  <2>2. r \in DOMAIN nmCalls
    BY <1>1, <1>4, <2>1
  <2>3. NmChildAt(r, k)' = nmCalls'[d].at
    BY <1>4 DEF NmChildAt, NmHas, NmAt, NmChild
  <2>4. ASSUME NEW j, NmChildAt(r, j) = "ok"
        PROVE  NmChildAt(r, j)' = "ok"
    <3>1. NmChild(r, j) \in DOMAIN nmCalls /\ nmCalls[NmChild(r, j)].at = "ok"
      BY <2>4 DEF NmChildAt, NmHas, NmAt
    <3>2. NmChild(r, j) \in DOMAIN nmCalls' /\ nmCalls'[NmChild(r, j)].at = "ok"
      BY <1>1, <3>1
    <3>. QED
      BY <3>2 DEF NmChildAt, NmHas, NmAt, NmChild
  <2>5. CASE d \in DOMAIN nmCalls
    <3>1. nmCalls'[d] = nmCalls[d] /\ NmHas(r, k) /\ NmChildAt(r, k) = nmCalls[d].at
          /\ nmCalls'[r] = nmCalls[r]
      BY <1>1, <2>2, <2>5 DEF NmHas, NmChildAt, NmAt
    <3>2. k \in 1..NmLast(r)
      BY <1>3, <2>2
    <3>. HIDE DEF d
    <3>3. /\ NmChildAt(r, k) = "process" => NmIsCommandOf(r, k) /\ NmAt(r) = "steps"
          /\ NmIsCommandOf(r, k) =>
               /\ NmChildAt(r, k) \in {"process", "ok", "error"}
               /\ nmCalls[NmChild(r, k)].task = nmCalls[r].task
          /\ k > NmLastDependency(r) => NmAt(r) \in {"steps", "store", "ok", "error"}
          /\ k > NmLastDependency(r) /\ ~NmDef(r).parallel =>
               \A j \in 1..(k - 1) : NmChildAt(r, j) = "ok"
      BY <2>2, <3>1, <3>2 DEF NmCommandsRun
    <3>. QED
      BY <1>3, <2>2, <2>3, <2>4, <3>1, <3>3 DEF d
  <2>6. CASE d = c
    <3>1. r = p /\ k = i
      <4>1. r \in Seq(Nat)
        BY <2>2 DEF NmIInv, NmCallsAreTyped
      <4>2. \A q \in Seq(Nat), j \in Nat : NmChild(q, j) = NmChild(p, i) => q = p /\ j = i
        BY <1>1, ChildPaths
      <4>3. NmChild(r, k) = NmChild(p, i)
        BY <2>6
      <4>. QED
        BY <2>1, <4>1, <4>2, <4>3
    <3>2. /\ nmCalls'[c].at = "process" => NmIsCommandOf(p, i)
          /\ NmIsCommandOf(p, i) =>
                nmCalls'[c].at = "process" /\ nmCalls'[c].task = nmCalls[p].task
          /\ i > NmLastDependency(p) => NmAt(p) = "steps"
          /\ i > NmLastDependency(p) /\ ~NmDef(p).parallel =>
                \A j \in 1..(i - 1) : NmChildAt(p, j) = "ok"
      BY StartsAreCommands
    <3>3. NmIsCommandOf(p, i) => i > NmLastDependency(p)
      BY DEF NmIsCommandOf
    <3>4. nmCalls'[p] = nmCalls[p] /\ NmAt(p)' = NmAt(p) /\ NmDef(p)' = NmDef(p)
          /\ NmLastDependency(p)' = NmLastDependency(p)
          /\ NmIsCommandOf(p, i)' = NmIsCommandOf(p, i)
      BY <1>1, <1>3
    <3>. HIDE DEF c, d
    <3>. QED
      BY <2>3, <2>4, <2>6, <3>1, <3>2, <3>3, <3>4 DEF c, d
  <2>. QED
    BY <1>1, <1>4, <2>5, <2>6
<1>. QED
  BY <1>4 DEF NmCommandsRun, NmHas, NmChild

(* A step of a call, by what it does to the call itself. *)
NmMovesOn(p) ==
    \/ NmEnter(p) \/ NmLock(p) \/ NmProcess(p) \/ NmFail(p) \/ NmDependenciesDone(p)
    \/ NmHit(p) \/ NmMiss(p) \/ NmStepsDone(p) \/ NmStore(p)

(* A move keeps the key of its call. *)
LEMMA MovesKeepKeys ==
    ASSUME NmIInv, NEW p \in DOMAIN nmCalls, NEW to, nmCalls' = NmMove(p, to)
    PROVE  nmCalls'[p].at = to /\ nmCalls'[p].key = nmCalls[p].key
<1>. DEFINE c == nmCalls[p]
<1>1. nmCalls' = [nmCalls EXCEPT ![p] = [c EXCEPT !.at = to]]
  BY DEF NmMove
<1>2. nmCalls = [q \in DOMAIN nmCalls |-> nmCalls[q]]
      /\ c = [task |-> c.task, run |-> c.run, stack |-> c.stack, at |-> c.at, key |-> c.key]
  BY DEF NmIInv, NmCallsAreTyped, NmIsCall
<1>. HIDE DEF c
<1>3. nmCalls'[p] = [c EXCEPT !.at = to]
  BY <1>1, <1>2
<1>4. [c EXCEPT !.at = to]
        = [task |-> c.task, run |-> c.run, stack |-> c.stack, at |-> to, key |-> c.key]
  BY <1>2
<1>. QED
  BY <1>3, <1>4 DEF c

(* A miss takes the key along. *)
LEMMA MissesTakeKeys ==
    ASSUME NmIInv, NEW p \in DOMAIN nmCalls, NmMiss(p)
    PROVE  \/ nmCalls'[p].at = "error"
           \/ nmCalls'[p].at = "steps" /\ nmCalls'[p].key = NmKeys[nmCalls[p].task]
<1>1. ASSUME nmCalls' = NmMove(p, "error")
      PROVE  nmCalls'[p].at = "error"
  BY <1>1, MovesKeepKeys
<1>2. ASSUME NEW key,
             nmCalls' = [nmCalls EXCEPT ![p] = [[nmCalls[p] EXCEPT !.key = key]
                                                  EXCEPT !.at = "steps"]]
      PROVE  nmCalls'[p].at = "steps" /\ nmCalls'[p].key = key
  <2>. DEFINE c == nmCalls[p]
              e == [c EXCEPT !.key = key]
              d == [e EXCEPT !.at = "steps"]
  <2>1. nmCalls = [q \in DOMAIN nmCalls |-> nmCalls[q]]
        /\ c = [task |-> c.task, run |-> c.run, stack |-> c.stack, at |-> c.at, key |-> c.key]
    BY DEF NmIInv, NmCallsAreTyped, NmIsCall
  <2>2. e = [task |-> c.task, run |-> c.run, stack |-> c.stack, at |-> c.at, key |-> key]
    <3>. HIDE DEF c
    <3>. QED
      BY <2>1
  <2>3. nmCalls' = [nmCalls EXCEPT ![p] = d]
    BY <1>2
  <2>4. d = [task |-> c.task, run |-> c.run, stack |-> c.stack, at |-> "steps", key |-> key]
    <3>. HIDE DEF c, e
    <3>. QED
      BY <2>2
  <2>. HIDE DEF c, e, d
  <2>. QED
    BY <2>1, <2>3, <2>4
<1>3. CASE LET call == [nmCalls[p] EXCEPT !.key = NmKeys[nmCalls[p].task]]
           IN  nmCalls' = [nmCalls EXCEPT ![p] = [call EXCEPT !.at = "steps"]]
  BY <1>2, <1>3
<1>. QED
  BY <1>1, <1>3 DEF NmMiss

(* What the steps of a call do to its phase, and to the key it holds at its steps. *)
LEMMA MovesAreCached ==
    ASSUME NmIInv, NEW p \in DOMAIN nmCalls, NmMovesOn(p)
    PROVE  /\ nmCalls'[p].at \in {"cache", "store"} => NmDef(p).cached
           /\ nmCalls'[p].at = "steps" => \/ NmAt(p) = "dependencies" /\ ~NmDef(p).cached
                                          \/ NmAt(p) = "cache" /\ NmMiss(p)
           /\ nmCalls'[p].at = "store" => NmAt(p) = "steps" /\ nmCalls'[p].key = nmCalls[p].key
<1>1. CASE NmEnter(p)
  <2>1. nmCalls'[p].at \in {"ok", "wait"}
    BY <1>1, MovesKeepKeys DEF NmEnter
  <2>. QED
    BY <2>1
<1>2. CASE NmLock(p)
  <2>1. nmCalls'[p].at \in {"dependencies", "ok"}
    BY <1>2, MovesKeepKeys DEF NmLock
  <2>. QED
    BY <2>1
<1>3. CASE NmProcess(p)
  <2>1. nmCalls'[p].at \in {"error", "ok"}
    BY <1>3, MovesKeepKeys DEF NmProcess
  <2>. QED
    BY <2>1
<1>4. CASE NmFail(p)
  <2>1. nmCalls'[p].at = "error"
    BY <1>4, MovesKeepKeys DEF NmFail
  <2>. QED
    BY <2>1
<1>5. CASE NmDependenciesDone(p)
  <2>1. CASE NmDef(p).cached
    <3>1. nmCalls'[p].at = "cache"
      BY <1>5, <2>1, MovesKeepKeys DEF NmDependenciesDone
    <3>. QED
      BY <2>1, <3>1
  <2>2. CASE ~NmDef(p).cached
    <3>1. nmCalls'[p].at = "steps" /\ NmAt(p) = "dependencies"
      BY <1>5, <2>2, MovesKeepKeys DEF NmDependenciesDone
    <3>. QED
      BY <2>2, <3>1
  <2>. QED
    BY <2>1, <2>2
<1>6. CASE NmHit(p)
  <2>1. nmCalls'[p].at = "ok"
    BY <1>6, MovesKeepKeys DEF NmHit
  <2>. QED
    BY <2>1
<1>7. CASE NmMiss(p)
  <2>1. nmCalls'[p].at \in {"steps", "error"} /\ NmAt(p) = "cache"
    BY <1>7, MissesTakeKeys DEF NmMiss
  <2>. QED
    BY <1>7, <2>1
<1>8. CASE NmStepsDone(p)
  <2>1. CASE NmDef(p).cached
    <3>1. nmCalls'[p].at = "store" /\ NmAt(p) = "steps" /\ nmCalls'[p].key = nmCalls[p].key
      BY <1>8, <2>1, MovesKeepKeys DEF NmStepsDone
    <3>. QED
      BY <2>1, <3>1
  <2>2. CASE ~NmDef(p).cached
    <3>1. nmCalls'[p].at = "ok"
      BY <1>8, <2>2, MovesKeepKeys DEF NmStepsDone
    <3>. QED
      BY <3>1
  <2>. QED
    BY <2>1, <2>2
<1>9. CASE NmStore(p)
  <2>1. nmCalls'[p].at \in {"error", "ok"}
    BY <1>9, MovesKeepKeys DEF NmStore
  <2>. QED
    BY <2>1
<1>. QED
  BY <1>1, <1>2, <1>3, <1>4, <1>5, <1>6, <1>7, <1>8, <1>9 DEF NmMovesOn

LEMMA OutputsStayTyped ==
    ASSUME NmOutputsAreTyped, NEW t \in NmTasks, NEW m,
           nmOutput' = [nmOutput EXCEPT ![t] = m], nmRuns' # 0
    PROVE  /\ NmOutputsAreTyped'
           /\ nmOutput'[t] = m
           /\ \A s \in NmTasks : s # t => nmOutput'[s] = nmOutput[s]
<1>1. nmOutput = [s \in NmTasks |-> nmOutput[s]]
  BY DEF NmOutputsAreTyped
<1>2. /\ nmOutput' = [s \in NmTasks |-> nmOutput'[s]]
      /\ nmOutput'[t] = m
      /\ \A s \in NmTasks : s # t => nmOutput'[s] = nmOutput[s]
  BY <1>1
<1>. QED
  BY <1>2 DEF NmOutputsAreTyped

(* The tree is kept by moves, *)
LEMMA TreeStaysWithMoves ==
    ASSUME NmIInv, NmTreeHolds, NEW p \in DOMAIN nmCalls, NmMovesOn(p)
    PROVE  NmTreeHolds'
<1>0. NmMoves(p)
  BY StepsMove DEF NmMovesOn, NmIInv
<1>1. PICK to \in NmPhases : NmGoes(p, to) /\ NmRule(p, to)
  BY <1>0 DEF NmMoves
<1>2. /\ DOMAIN nmCalls' = DOMAIN nmCalls /\ UNCHANGED <<nmConfig, nmRuns>>
      /\ \A q \in DOMAIN nmCalls :
           /\ q # p => nmCalls'[q] = nmCalls[q]
           /\ NmDef(q)' = NmDef(q) /\ NmStateOf(q)' = NmStateOf(q)
      /\ nmRuns # 0
  BY <1>0, MovesLeaveTheRest
<1>3. NmCommandsRun'
  <2>1. NmAt(p) = "steps" => \A i \in 1..NmLast(p) : NmChildAt(p, i) # "process"
    <3>1. NmAt(p) = "steps" => NmFail(p) \/ NmStepsDone(p)
      BY DEF NmMovesOn, NmEnter, NmLock, NmProcess, NmDependenciesDone, NmHit, NmMiss, NmStore
    <3>. QED
      BY <3>1, StepsAreJoined DEF NmTreeHolds
  <2>. QED
    BY <1>0, <2>1, CommandsRunWithMoves DEF NmTreeHolds
<1>4. NmFirstIsTask'
  <2>1. nmCalls'[p].at # "process"
    BY <1>1 DEF NmGoes, NmRule
  <2>. QED
    BY <1>2, <2>1 DEF NmTreeHolds, NmFirstIsTask, NmAt
<1>5. NmCompletedAreCalls'
  <2>1. CASE UNCHANGED nmCompleted
    BY <1>2, <2>1 DEF NmTreeHolds, NmCompletedAreCalls
  <2>2. CASE NmCompletes(p) /\ NmAt(p) \in {"cache", "steps"}
    <3>1. \A i \in 1..Len(nmConfig.of[NmStateOf(p)[2]].dependencies) :
            <<NmStateOf(p)[1], nmConfig.of[NmStateOf(p)[2]].dependencies[i]>> \in nmCompleted
      BY <2>2 DEF NmIInv, NmDependenciesFirst, NmStateOf, NmDef, NmLastDependency
    <3>. QED
      BY <1>2, <2>2, <3>1 DEF NmTreeHolds, NmCompletedAreCalls, NmCompletes
  <2>3. ASSUME nmCompleted' # nmCompleted
        PROVE  NmCompletes(p) /\ NmAt(p) \in {"cache", "steps"}
    BY <1>1, <2>3 DEF NmRule
  <2>. QED
    BY <2>1, <2>2, <2>3
<1>6. NmCachedAreStored'
  BY <1>2, MovesAreCached DEF NmTreeHolds, NmCachedAreStored, NmAt
<1>7. NmOutputsAreTyped'
  <2>1. CASE UNCHANGED nmOutput
    BY <1>2, <2>1 DEF NmTreeHolds, NmOutputsAreTyped
  <2>2. ASSUME NEW m, nmOutput' = [nmOutput EXCEPT ![nmCalls[p].task] = m]
        PROVE  NmOutputsAreTyped'
    <3>1. nmCalls[p].task \in NmTasks
      BY DEF NmIInv, NmCallsAreTyped
    <3>. QED
      BY <1>2, <2>2, <3>1, OutputsStayTyped DEF NmTreeHolds
  <2>. QED
    BY <2>1, <2>2 DEF NmMovesOn, NmEnter, NmLock, NmProcess, NmFail, NmDependenciesDone, NmHit,
                      NmMiss, NmStepsDone, NmStore, NmSameCache
<1>. QED
  BY <1>3, <1>4, <1>5, <1>6, <1>7 DEF NmTreeHolds

(* by new calls, *)
LEMMA TreeStaysWithStarts ==
    ASSUME NmIInv, NmTreeHolds, NEW p \in DOMAIN nmCalls, NEW i \in 1..NmLast(p), NmStart(p, i)
    PROVE  NmTreeHolds'
<1>. DEFINE c == NmChild(p, i)
<1>0. NmAdds(p, i)
  BY StartsAdd DEF NmIInv
<1>1. /\ c \notin DOMAIN nmCalls /\ DOMAIN nmCalls' = DOMAIN nmCalls \cup {c}
      /\ \A q \in DOMAIN nmCalls : nmCalls'[q] = nmCalls[q]
      /\ nmCalls'[c].at \in {"enter", "process", "error"}
      /\ p \in Seq(Nat) /\ i \in Nat
  BY <1>0, AddsAreAdds DEF NmIsCallOf
<1>2. UNCHANGED <<nmConfig, nmRuns, nmCompleted, nmOutput, nmEntries>>
  BY DEF NmStart, NmSame, NmSameCache
<1>3. NmCommandsRun'
  BY CommandsRunWithStarts DEF NmTreeHolds
<1>4. NmFirstIsTask'
  <2>1. c # <<>>
    BY <1>1, ChildPaths
  <2>. QED
    BY <1>1, <2>1 DEF NmTreeHolds, NmFirstIsTask, NmAt
<1>5. NmCompletedAreCalls'
  BY <1>1, <1>2 DEF NmTreeHolds, NmCompletedAreCalls, NmStateOf
<1>6. NmCachedAreStored'
  BY <1>1, <1>2 DEF NmTreeHolds, NmCachedAreStored, NmAt, NmDef
<1>7. NmOutputsAreTyped'
  BY <1>2 DEF NmTreeHolds, NmOutputsAreTyped
<1>. QED
  BY <1>3, <1>4, <1>5, <1>6, <1>7 DEF NmTreeHolds

(* by new invocations, *)
LEMMA TreeBeginsAnew ==
    ASSUME NmIInv, NmTreeHolds, NmInvoke
    PROVE  /\ NmTreeHolds'
           /\ DOMAIN nmCalls' = {<<>>} /\ nmCalls'[<<>>].at = "enter" /\ nmCompleted' = {}
           /\ nmRuns' # 0
<1>. DEFINE first == NmNewCall(nmConfig'.root, <<>>, {})
<1>1. /\ DOMAIN nmCalls' = {<<>>} /\ nmCalls'[<<>>] = first /\ nmCompleted' = {}
  <2>1. nmCalls' = [p \in {<<>>} |-> first] /\ nmCompleted' = {}
    BY DEF NmInvoke
  <2>. HIDE DEF first
  <2>. QED
    BY <2>1
<1>2. first.at = "enter"
  BY DEF NmNewCall
<1>. HIDE DEF first
<1>3. nmRuns' # 0 /\ UNCHANGED nmOutput
  BY DEF NmInvoke, NmIInv, NmCallsAreTyped
<1>4. NmCommandsRun'
  <2>0. NmIInv'
    BY InvocationsBegin
  <2>1. ASSUME NEW k \in 1..NmLast(<<>>)'
        PROVE  NmChild(<<>>, k) \notin DOMAIN nmCalls'
    <3>1. nmConfig' \in NmConfigs /\ nmCalls'[<<>>].task \in NmTasks
      BY <1>1, <2>0 DEF NmIInv, NmCallsAreTyped
    <3>2. /\ Len(nmConfig'.of[nmCalls'[<<>>].task].dependencies) \in Nat
          /\ Len(nmConfig'.of[nmCalls'[<<>>].task].steps) \in Nat
      BY <3>1, NmAssumption, DependenciesAreTasks DEF NmIsConfig
    <3>3. \A a, b : a \in Nat /\ b \in Nat => a + b \in Nat
      OBVIOUS
    <3>4. Len(nmConfig'.of[nmCalls'[<<>>].task].dependencies)
            + Len(nmConfig'.of[nmCalls'[<<>>].task].steps) \in Nat
      BY <3>2, <3>3
    <3>5. NmLast(<<>>)' = Len(nmConfig'.of[nmCalls'[<<>>].task].dependencies)
                            + Len(nmConfig'.of[nmCalls'[<<>>].task].steps)
      BY DEF NmLast, NmLastDependency, NmDef
    <3>6. k \in Nat
      BY <3>4, <3>5
    <3>7. <<>> \in Seq(Nat)
      BY EmptySeq
    <3>. QED
      BY <1>1, <3>6, <3>7, ChildPaths
  <2>. QED
    BY <1>1, <2>1 DEF NmCommandsRun, NmHas, NmChild
<1>5. NmFirstIsTask' /\ NmCompletedAreCalls' /\ NmCachedAreStored'
  BY <1>1, <1>2 DEF NmFirstIsTask, NmCompletedAreCalls, NmCachedAreStored, NmAt
<1>6. NmOutputsAreTyped'
  BY <1>3 DEF NmTreeHolds, NmOutputsAreTyped
<1>. QED
  BY <1>1, <1>2, <1>3, <1>4, <1>5, <1>6 DEF NmTreeHolds

(* and by what leaves the calls alone. *)
LEMMA TreeStays ==
    ASSUME NmTreeHolds, UNCHANGED <<nmConfig, nmRuns, nmCalls, nmCompleted, nmOutput, nmEntries>>
    PROVE  NmTreeHolds'
<1>1. NmCommandsRun'
  <2>1. ASSUME NEW p \in DOMAIN nmCalls
        PROVE  /\ NmLast(p)' = NmLast(p) /\ NmLastDependency(p)' = NmLastDependency(p)
               /\ NmDef(p)' = NmDef(p) /\ NmAt(p)' = NmAt(p)
               /\ \A i : /\ NmHas(p, i)' <=> NmHas(p, i)
                         /\ NmChildAt(p, i)' = NmChildAt(p, i)
                         /\ NmIsCommandOf(p, i)' <=> NmIsCommandOf(p, i)
                         /\ nmCalls'[NmChild(p, i)] = nmCalls[NmChild(p, i)]
    BY DEF NmIsCommandOf, NmLast, NmLastDependency, NmDef, NmHas, NmChildAt, NmAt, NmChild
  <2>. QED
    BY <2>1 DEF NmTreeHolds, NmCommandsRun, NmChild
<1>2. NmFirstIsTask' /\ NmCompletedAreCalls' /\ NmCachedAreStored' /\ NmOutputsAreTyped'
  BY DEF NmTreeHolds, NmFirstIsTask, NmCompletedAreCalls, NmCachedAreStored,
         NmOutputsAreTyped, NmStateOf, NmAt, NmDef
<1>. QED
  BY <1>1, <1>2 DEF NmTreeHolds

LEMMA TreeBegins == NmInit => NmTreeHolds
BY DEF NmInit, NmTreeHolds, NmCommandsRun, NmFirstIsTask, NmCompletedAreCalls,
       NmCachedAreStored, NmOutputsAreTyped

--------------------------------------------------------------------------------
(* The invariant. *)

(* What makes hits fresh, until inputs change under an invocation or two states run the
   commands of one task.  A task without commands has no output; *)
NmNothingIsMade ==
    nmRuns # 0 => \A t \in NmTasks : ~NmHasCommand(nmConfig, t) => nmOutput[t] = NmNothing

(* the entries of the cache, and the outputs of the tasks that have completed in a
   running invocation, are what their keys stand for; *)
NmStandsFor(R) ==
    /\ NmPairsAreRight(nmConfig, R)
    /\ \A e \in nmEntries : <<e.key, e.made>> \in R
    /\ NmActive # {} => \A x \in nmCompleted : <<NmKeys[x[2]], nmOutput[x[2]]>> \in R

(* a call at its steps holds the key its task still has; *)
NmKeysAreKept ==
    \A p \in DOMAIN nmCalls : NmAt(p) \in {"steps", "store"} /\ NmDef(p).cached =>
        nmCalls[p].key = NmKeys[nmCalls[p].task]

(* and when a command of a call has ended, and none has failed, the output of its task is
   what the task makes. *)
NmHasMade(p) ==
    /\ NmAt(p) = "steps"
    /\ \E i \in 1..NmLast(p) : NmIsCommandOf(p, i) /\ NmChildAt(p, i) = "ok"
    /\ \A i \in 1..NmLast(p) : NmIsCommandOf(p, i) => NmChildAt(p, i) # "error"
NmCommandsMake ==
    \A p \in DOMAIN nmCalls : NmHasMade(p) => nmOutput[nmCalls[p].task] = NmMakes(nmCalls[p].task)

NmResultsAreRight ==
    /\ NmNothingIsMade
    /\ \E R : NmStandsFor(R)
    /\ NmKeysAreKept
    /\ NmCommandsMake

NmHitsIInv ==
    /\ NmIInv
    /\ NmTreeHolds
    /\ ~nmRaced => NmResultsAreRight
    /\ nmStale = {}

(* A call is where it was when its commands had made what they have, but for a move that
   ends one of them; *)
LEMMA MadeBeforeMoves ==
    ASSUME NmIInv, NmTreeHolds, NEW p \in DOMAIN nmCalls, NmMovesOn(p),
           NEW q \in DOMAIN nmCalls, NmHasMade(q)',
           \A i \in 1..NmLast(q) : NmIsCommandOf(q, i) => NmChild(q, i) # p \/ NmAt(p) # "process"
    PROVE  NmHasMade(q)
<1>0. NmMoves(p)
  BY StepsMove DEF NmMovesOn, NmIInv
<1>1. /\ DOMAIN nmCalls' = DOMAIN nmCalls /\ UNCHANGED <<nmConfig, nmRuns>>
      /\ \A r \in DOMAIN nmCalls :
           /\ nmCalls'[r].task = nmCalls[r].task
           /\ r # p => nmCalls'[r] = nmCalls[r]
           /\ NmDef(r)' = NmDef(r) /\ NmLast(r)' = NmLast(r)
           /\ NmLastDependency(r)' = NmLastDependency(r)
      /\ NmAt(p) \notin {"ok", "error"}
  BY <1>0, MovesLeaveTheRest
<1>2. \A i : NmIsCommandOf(q, i)' <=> NmIsCommandOf(q, i)
  BY <1>1 DEF NmIsCommandOf
<1>3. ASSUME NEW i \in 1..NmLast(q), NmIsCommandOf(q, i)
      PROVE  NmChildAt(q, i)' = NmChildAt(q, i)
  <2>1. CASE NmHas(q, i)
    <3>1. NmChildAt(q, i) \in {"process", "ok", "error"} /\ NmChildAt(q, i) = NmAt(NmChild(q, i))
      BY <1>3, <2>1 DEF NmTreeHolds, NmCommandsRun, NmChildAt
    <3>2. NmChild(q, i) # p
      BY <1>1, <1>3, <3>1
    <3>. QED
      BY <1>1, <2>1, <3>2 DEF NmChildAt, NmHas, NmAt, NmChild
  <2>2. CASE ~NmHas(q, i)
    BY <1>1, <2>2 DEF NmChildAt, NmHas, NmChild
  <2>. QED
    BY <2>1, <2>2
<1>4. PICK k \in 1..NmLast(q) : NmIsCommandOf(q, k) /\ NmChildAt(q, k) = "ok"
  BY <1>1, <1>2, <1>3 DEF NmHasMade
<1>5. \A i \in 1..NmLast(q) : NmIsCommandOf(q, i) => NmChildAt(q, i) # "error"
  BY <1>1, <1>2, <1>3 DEF NmHasMade
<1>6. NmAt(q) = "steps"
  <2>1. CASE q # p
    BY <1>1, <2>1 DEF NmHasMade, NmAt
  <2>2. CASE q = p
    <3>1. NmHas(q, k) /\ k > NmLastDependency(q)
      BY <1>4 DEF NmChildAt, NmIsCommandOf
    <3>2. NmAt(q) \in {"steps", "store", "ok", "error"}
      BY <3>1 DEF NmTreeHolds, NmCommandsRun
    <3>3. nmCalls'[p].at = "steps"
      BY <2>2 DEF NmHasMade, NmAt
    <3>4. NmAt(p) \in {"dependencies", "cache"}
      BY <3>3, MovesAreCached
    <3>. QED
      BY <2>2, <3>2, <3>4
  <2>. QED
    BY <2>1, <2>2
<1>. QED
  BY <1>4, <1>5, <1>6 DEF NmHasMade

(* and so it is when a child is called. *)
LEMMA MadeBeforeStarts ==
    ASSUME NmIInv, NmTreeHolds, NEW p \in DOMAIN nmCalls, NEW k \in 1..NmLast(p), NmStart(p, k),
           NEW q \in DOMAIN nmCalls', NmHasMade(q)'
    PROVE  q \in DOMAIN nmCalls /\ NmHasMade(q)
<1>. DEFINE c == NmChild(p, k)
<1>0. NmAdds(p, k)
  BY StartsAdd DEF NmIInv
<1>1. /\ c \notin DOMAIN nmCalls /\ DOMAIN nmCalls' = DOMAIN nmCalls \cup {c}
      /\ \A r \in DOMAIN nmCalls : nmCalls'[r] = nmCalls[r]
      /\ nmCalls'[c].at \in {"enter", "process", "error"}
      /\ UNCHANGED nmConfig
  BY <1>0, AddsAreAdds DEF NmIsCallOf, NmAdds
<1>2. q \in DOMAIN nmCalls /\ NmAt(q) = "steps"
  BY <1>1 DEF NmHasMade, NmAt
<1>3. /\ NmLast(q)' = NmLast(q)
      /\ \A i : NmIsCommandOf(q, i)' <=> NmIsCommandOf(q, i)
  BY <1>1, <1>2 DEF NmIsCommandOf, NmLast, NmLastDependency, NmDef
<1>4. ASSUME NEW i
      PROVE  /\ NmChildAt(q, i)' = "ok" => NmChildAt(q, i) = "ok"
             /\ NmChildAt(q, i) = "error" => NmChildAt(q, i)' = "error"
  <2>1. CASE NmChild(q, i) \in DOMAIN nmCalls
    <3>1. NmChildAt(q, i) = nmCalls[NmChild(q, i)].at
      BY <2>1 DEF NmChildAt, NmHas, NmAt
    <3>2. NmChildAt(q, i)' = nmCalls'[NmChild(q, i)].at
      BY <1>1, <2>1 DEF NmChildAt, NmHas, NmAt, NmChild
    <3>. QED
      BY <1>1, <2>1, <3>1, <3>2
  <2>2. CASE NmChild(q, i) = c
    <3>1. NmChildAt(q, i) = "none"
      BY <1>1, <2>2 DEF NmChildAt, NmHas
    <3>2. NmChildAt(q, i)' = nmCalls'[c].at
      BY <1>1, <2>2 DEF NmChildAt, NmHas, NmAt, NmChild
    <3>3. nmCalls'[c].at # "ok"
      BY <1>1
    <3>. QED
      BY <3>1, <3>2, <3>3
  <2>3. CASE NmChild(q, i) \notin DOMAIN nmCalls'
    <3>1. NmChildAt(q, i)' = "none"
      BY <2>3 DEF NmChildAt, NmHas, NmChild
    <3>2. NmChildAt(q, i) = "none"
      BY <1>1, <2>3 DEF NmChildAt, NmHas
    <3>. QED
      BY <3>1, <3>2
  <2>. QED
    BY <1>1, <2>1, <2>2, <2>3
<1>5. PICK i \in 1..NmLast(q) : NmIsCommandOf(q, i) /\ NmChildAt(q, i)' = "ok"
  BY <1>3 DEF NmHasMade
<1>6. \A j \in 1..NmLast(q) : NmIsCommandOf(q, j) => NmChildAt(q, j)' # "error"
  BY <1>3 DEF NmHasMade
<1>. QED
  BY <1>2, <1>4, <1>5, <1>6 DEF NmHasMade

(* A call holds the key its task had when it missed. *)
LEMMA KeysOfMoves ==
    ASSUME NmIInv, NmTreeHolds, NmKeysAreKept, NEW p \in DOMAIN nmCalls, NmMovesOn(p),
           NEW q \in DOMAIN nmCalls, nmCalls'[q].at \in {"steps", "store"}, NmDef(q).cached
    PROVE  nmCalls'[q].key = NmKeys[nmCalls[q].task]
<1>1. NmMoves(p)
  BY StepsMove DEF NmMovesOn, NmIInv
<1>2. CASE q # p
  <2>1. nmCalls'[q] = nmCalls[q]
    BY <1>1, <1>2, MovesLeaveTheRest
  <2>. QED
    BY <2>1 DEF NmKeysAreKept, NmAt
<1>3. CASE q = p /\ nmCalls'[p].at = "steps"
  <2>1. NmMiss(p)
    BY <1>3, MovesAreCached
  <2>2. nmCalls'[p].at # "error"
    BY <1>3
  <2>. QED
    BY <1>3, <2>1, <2>2, MissesTakeKeys
<1>4. CASE q = p /\ nmCalls'[p].at = "store"
  <2>1. NmAt(p) = "steps" /\ nmCalls'[p].key = nmCalls[p].key
    BY <1>4, MovesAreCached
  <2>. QED
    BY <1>4, <2>1 DEF NmKeysAreKept
<1>. QED
  BY <1>2, <1>3, <1>4

(* A command was called by a call that is at its steps and works on the same task. *)
LEMMA CommandsHaveCallers ==
    ASSUME NmIInv, NmTreeHolds, NEW p \in DOMAIN nmCalls, NmAt(p) = "process"
    PROVE  \E r \in DOMAIN nmCalls : \E i \in 1..NmLast(r) :
              /\ p = NmChild(r, i) /\ NmIsCommandOf(r, i) /\ NmAt(r) = "steps"
              /\ nmCalls[p].task = nmCalls[r].task
              /\ SubSeq(p, 1, Len(p) - 1) = r /\ r \in Seq(Nat) /\ i \in Nat
<1>1. p # <<>>
  BY DEF NmTreeHolds, NmFirstIsTask
<1>2. PICK r \in DOMAIN nmCalls : \E i \in 1..NmLast(r) : p = NmChild(r, i)
  BY <1>1 DEF NmIInv, NmCallersAreKnown
<1>3. PICK i \in 1..NmLast(r) : p = NmChild(r, i)
  BY <1>2
<1>4. r \in Seq(Nat) /\ i \in Nat
  BY ReferencesAreTasks DEF NmIInv
<1>5. Len(p) = Len(r) + 1 /\ Len(r) \in Nat /\ SubSeq(p, 1, Len(r)) = r
  BY <1>3, <1>4, ChildPaths
<1>6. Len(p) - 1 = Len(r)
  BY <1>5
<1>7. NmHas(r, i) /\ NmChildAt(r, i) = "process"
  BY <1>3 DEF NmHas, NmChildAt
<1>8. NmIsCommandOf(r, i) /\ NmAt(r) = "steps" /\ nmCalls[p].task = nmCalls[r].task
  BY <1>3, <1>7 DEF NmTreeHolds, NmCommandsRun
<1>. QED
  BY <1>3, <1>4, <1>5, <1>6, <1>8

(* The results are kept by steps that change no output. *)
LEMMA ResultsStay ==
    ASSUME NmResultsAreRight, NmActive # {},
           UNCHANGED <<nmConfig, nmRuns, nmVersion, nmOutput, nmEntries, nmCompleted>>,
           \A q \in DOMAIN nmCalls' :
              /\ NmAt(q)' \in {"steps", "store"} /\ NmDef(q)'.cached =>
                    nmCalls'[q].key = NmKeys[nmCalls'[q].task]
              /\ NmHasMade(q)' =>
                    q \in DOMAIN nmCalls /\ NmHasMade(q) /\ nmCalls'[q].task = nmCalls[q].task
    PROVE  NmResultsAreRight'
<1>1. NmKeys' = NmKeys /\ \A t : NmMakes(t)' = NmMakes(t)
  BY DEF NmKeys, NmMakes
<1>2. NmNothingIsMade'
  BY DEF NmResultsAreRight, NmNothingIsMade
<1>3. \E R : NmStandsFor(R)'
  <2>1. PICK R : NmStandsFor(R)
    BY DEF NmResultsAreRight
  <2>2. NmStandsFor(R)'
    BY <1>1, <2>1 DEF NmStandsFor
  <2>. QED
    BY <2>2
<1>4. NmKeysAreKept'
  BY <1>1 DEF NmKeysAreKept
<1>5. NmCommandsMake'
  <2>. SUFFICES ASSUME NEW q \in DOMAIN nmCalls', NmHasMade(q)'
                PROVE  nmOutput'[nmCalls'[q].task] = NmMakes(nmCalls[q].task)'
    BY DEF NmCommandsMake
  <2>1. q \in DOMAIN nmCalls /\ NmHasMade(q) /\ nmCalls'[q].task = nmCalls[q].task
    OBVIOUS
  <2>2. nmOutput[nmCalls[q].task] = NmMakes(nmCalls[q].task)
    BY <2>1 DEF NmResultsAreRight, NmCommandsMake
  <2>. QED
    BY <2>1, <2>2 DEF NmMakes
<1>. QED
  BY <1>2, <1>3, <1>4, <1>5 DEF NmResultsAreRight

(* When one output changes that no completed task has, the keys of what has completed,
   and of what has its dependencies completed, stay. *)
LEMMA KeysStayBelow ==
    ASSUME NmIInv, NmTreeHolds, nmRuns # 0, UNCHANGED <<nmConfig, nmVersion>>,
           NEW t \in NmTasks, NEW m, nmOutput' = [nmOutput EXCEPT ![t] = m],
           \A x \in nmCompleted : x[2] = t => m = nmOutput[t]
    PROVE  /\ \A x \in nmCompleted :
                nmOutput'[x[2]] = nmOutput[x[2]] /\ NmKeys'[x[2]] = NmKeys[x[2]]
           /\ \A run : \A s \in NmTasks :
                (\A i \in 1..Len(nmConfig.of[s].dependencies) :
                    <<run, nmConfig.of[s].dependencies[i]>> \in nmCompleted) =>
                NmKeys'[s] = NmKeys[s] /\ NmMakes(s)' = NmMakes(s)
<1>. DEFINE D == {x[2] : x \in nmCompleted}
            Above(s) == NmDependsOn(nmConfig, s, D)
<1>1. nmConfig \in NmConfigs /\ D \in SUBSET NmTasks
  BY DEF NmIInv, NmCallsAreTyped
<1>2. nmOutput = [s \in NmTasks |-> nmOutput[s]]
  BY DEF NmTreeHolds, NmOutputsAreTyped
<1>3. nmOutput'[t] = m /\ \A s \in NmTasks : s # t => nmOutput'[s] = nmOutput[s]
  BY <1>2
<1>4. ASSUME NEW x \in nmCompleted
      PROVE  x[2] \in NmTasks /\ nmOutput'[x[2]] = nmOutput[x[2]] /\ Above(x[2])
  <2>1. x[2] \in NmTasks
    BY <1>1
  <2>2. nmOutput'[x[2]] = nmOutput[x[2]]
    BY <1>3, <2>1
  <2>3. Above(x[2])
    <3>1. ASSUME NEW i \in 1..Len(nmConfig.of[x[2]].dependencies)
          PROVE  nmConfig.of[x[2]].dependencies[i] \in D
      <4>1. <<x[1], nmConfig.of[x[2]].dependencies[i]>> \in nmCompleted
        BY DEF NmTreeHolds, NmCompletedAreCalls
      <4>. QED
        BY <4>1
    <3>. QED
      BY <3>1 DEF NmDependsOn
  <2>. QED
    BY <2>1, <2>2, <2>3
<1>5. ASSUME NEW s \in NmTasks, Above(s)
      PROVE  NmKeys'[s] = NmKeys[s] /\ NmMakes(s)' = NmMakes(s)
  <2>1. \A d \in D : nmOutput'[d] = nmOutput[d] /\ NmDependsOn(nmConfig, d, D)
    BY <1>4
  <2>2. NmDependsOn(nmConfig, s, D)
    BY <1>5
  <2>. DEFINE next == nmOutput'
  <2>3. /\ NmKeysOf(nmConfig, nmVersion, next)[s] = NmKeysOf(nmConfig, nmVersion, nmOutput)[s]
        /\ NmMakesOf(nmConfig, nmVersion, next, s) = NmMakesOf(nmConfig, nmVersion, nmOutput, s)
    <3>1. \A d \in D : next[d] = nmOutput[d] /\ NmDependsOn(nmConfig, d, D)
      BY <2>1
    <3>. HIDE DEF D, next
    <3>. QED
      BY <1>1, <2>2, <3>1, NamedKeysStay
  <2>4. nmConfig' = nmConfig /\ nmVersion' = nmVersion
    OBVIOUS
  <2>. QED
    BY <2>3, <2>4 DEF NmKeys, NmMakes
<1>6. ASSUME NEW s \in NmTasks, NEW run,
             \A i \in 1..Len(nmConfig.of[s].dependencies) :
                <<run, nmConfig.of[s].dependencies[i]>> \in nmCompleted
      PROVE  Above(s)
  <2>1. ASSUME NEW i \in 1..Len(nmConfig.of[s].dependencies)
        PROVE  nmConfig.of[s].dependencies[i] \in D
    <3>1. <<run, nmConfig.of[s].dependencies[i]>> \in nmCompleted
      BY <1>6
    <3>. QED
      BY <3>1
  <2>. QED
    BY <2>1 DEF NmDependsOn
<1>. HIDE DEF Above
<1>. QED
  BY <1>4, <1>5, <1>6

--------------------------------------------------------------------------------
(* The invariant is kept. *)

(* The steps of a call that change no output, no entry and complete nothing. *)
LEMMA ResultsStayWithQuietMoves ==
    ASSUME NmIInv, NmTreeHolds, NmResultsAreRight, NEW p \in DOMAIN nmCalls,
           NmEnter(p) \/ NmLock(p) \/ NmFail(p) \/ NmDependenciesDone(p) \/ NmMiss(p)
    PROVE  NmResultsAreRight'
<1>0. NmMovesOn(p) /\ NmAt(p) # "process"
  BY DEF NmMovesOn, NmEnter, NmLock, NmFail, NmDependenciesDone, NmMiss
<1>1. NmMoves(p)
  BY <1>0, StepsMove DEF NmMovesOn, NmIInv
<1>2. UNCHANGED <<nmConfig, nmRuns, nmVersion, nmOutput, nmEntries, nmCompleted>>
  BY DEF NmEnter, NmLock, NmFail, NmDependenciesDone, NmMiss, NmSame, NmSameCache
<1>3. NmActive # {}
  BY <1>1, MovesLeaveTheRest DEF NmActive, NmEnded
<1>4. ASSUME NEW q \in DOMAIN nmCalls'
      PROVE  /\ NmAt(q)' \in {"steps", "store"} /\ NmDef(q)'.cached =>
                   nmCalls'[q].key = NmKeys[nmCalls'[q].task]
             /\ NmHasMade(q)' =>
                   q \in DOMAIN nmCalls /\ NmHasMade(q) /\ nmCalls'[q].task = nmCalls[q].task
  <2>1. q \in DOMAIN nmCalls /\ nmCalls'[q].task = nmCalls[q].task /\ NmDef(q)' = NmDef(q)
    BY <1>1, MovesLeaveTheRest
  <2>2. nmCalls'[q].at \in {"steps", "store"} /\ NmDef(q).cached =>
           nmCalls'[q].key = NmKeys[nmCalls[q].task]
    BY <1>0, <2>1, KeysOfMoves DEF NmResultsAreRight
  <2>3. NmHasMade(q)' => NmHasMade(q)
    BY <1>0, <2>1, MadeBeforeMoves
  <2>. QED
    BY <2>1, <2>2, <2>3 DEF NmAt
<1>. QED
  BY <1>2, <1>3, <1>4, ResultsStay

LEMMA ResultsStayWithStarts ==
    ASSUME NmIInv, NmTreeHolds, NmResultsAreRight, NEW p \in DOMAIN nmCalls,
           NEW i \in 1..NmLast(p), NmStart(p, i)
    PROVE  NmResultsAreRight'
<1>. DEFINE c == NmChild(p, i)
<1>0. NmAdds(p, i)
  BY StartsAdd DEF NmIInv
<1>1. /\ DOMAIN nmCalls' = DOMAIN nmCalls \cup {c}
      /\ \A q \in DOMAIN nmCalls : nmCalls'[q] = nmCalls[q]
      /\ nmCalls'[c].at \in {"enter", "process", "error"}
  BY <1>0, AddsAreAdds DEF NmIsCallOf
<1>2. UNCHANGED <<nmConfig, nmRuns, nmVersion, nmOutput, nmEntries, nmCompleted>>
  BY DEF NmStart, NmSame, NmSameCache
<1>3. NmActive # {}
  BY DEF NmStart, NmMayStart, NmActive, NmEnded
<1>4. ASSUME NEW q \in DOMAIN nmCalls'
      PROVE  /\ NmAt(q)' \in {"steps", "store"} /\ NmDef(q)'.cached =>
                   nmCalls'[q].key = NmKeys[nmCalls'[q].task]
             /\ NmHasMade(q)' =>
                   q \in DOMAIN nmCalls /\ NmHasMade(q) /\ nmCalls'[q].task = nmCalls[q].task
  <2>1. NmHasMade(q)' => q \in DOMAIN nmCalls /\ NmHasMade(q)
    BY MadeBeforeStarts
  <2>2. NmAt(q)' \in {"steps", "store"} => q \in DOMAIN nmCalls
    BY <1>1 DEF NmAt
  <2>3. q \in DOMAIN nmCalls => NmDef(q)' = NmDef(q) /\ nmCalls'[q] = nmCalls[q]
    BY <1>1, <1>2 DEF NmDef
  <2>. QED
    BY <2>1, <2>2, <2>3 DEF NmAt, NmResultsAreRight, NmKeysAreKept
<1>. QED
  BY <1>2, <1>3, <1>4, ResultsStay

(* What a call that has its dependencies completed would make is what its key stands for. *)
LEMMA DependenciesStandFor ==
    ASSUME NmIInv, NEW R, NmStandsFor(R), NEW p \in DOMAIN nmCalls,
           NmAt(p) \in {"cache", "steps", "store"}
    PROVE  /\ nmConfig \in NmConfigs /\ nmCalls[p].task \in NmTasks
           /\ \A i \in 1..Len(nmConfig.of[nmCalls[p].task].dependencies) :
                <<nmCalls[p].run, nmConfig.of[nmCalls[p].task].dependencies[i]>> \in nmCompleted
           /\ \A i \in 1..Len(nmConfig.of[nmCalls[p].task].dependencies) :
                <<NmKeysOf(nmConfig, nmVersion, nmOutput)
                     [nmConfig.of[nmCalls[p].task].dependencies[i]],
                  nmOutput[nmConfig.of[nmCalls[p].task].dependencies[i]]>> \in R
<1>1. nmConfig \in NmConfigs /\ nmCalls[p].task \in NmTasks
  BY DEF NmIInv, NmCallsAreTyped
<1>2. NmActive # {}
  BY DEF NmActive, NmEnded
<1>3. \A i \in 1..Len(nmConfig.of[nmCalls[p].task].dependencies) :
        <<nmCalls[p].run, nmConfig.of[nmCalls[p].task].dependencies[i]>> \in nmCompleted
  BY DEF NmIInv, NmDependenciesFirst, NmLastDependency, NmDef
<1>4. ASSUME NEW i \in 1..Len(nmConfig.of[nmCalls[p].task].dependencies)
      PROVE  <<NmKeys[nmConfig.of[nmCalls[p].task].dependencies[i]],
               nmOutput[nmConfig.of[nmCalls[p].task].dependencies[i]]>> \in R
  <2>. DEFINE x == <<nmCalls[p].run, nmConfig.of[nmCalls[p].task].dependencies[i]>>
  <2>1. x \in nmCompleted /\ x[2] = nmConfig.of[nmCalls[p].task].dependencies[i]
    BY <1>3
  <2>. HIDE DEF x
  <2>2. <<NmKeys[x[2]], nmOutput[x[2]]>> \in R
    BY <1>2, <2>1 DEF NmStandsFor
  <2>. QED
    BY <2>1, <2>2
<1>. QED
  BY <1>1, <1>3, <1>4 DEF NmKeys

(* A hit restores what the task would make; the outputs of what has completed stay. *)
LEMMA ResultsStayWithHits ==
    ASSUME NmIInv, NmTreeHolds, NmResultsAreRight, NEW p \in DOMAIN nmCalls, NmHit(p)
    PROVE  /\ NmResultsAreRight'
           /\ \A e \in NmFound(p) : e.made = NmMakes(nmCalls[p].task)
<1>. DEFINE t == nmCalls[p].task
<1>0. NmMovesOn(p) /\ NmAt(p) = "cache"
  BY DEF NmMovesOn, NmHit
<1>1. NmMoves(p)
  BY <1>0, StepsMove DEF NmMovesOn, NmIInv
<1>2. /\ UNCHANGED <<nmConfig, nmRuns, nmVersion, nmEntries>>
      /\ nmCompleted' = nmCompleted \cup {NmStateOf(p)}
  BY DEF NmHit, NmSame
<1>3. nmRuns # 0 /\ nmCalls'[p].at = "ok"
  BY <1>1, MovesLeaveTheRest, MovesKeepKeys DEF NmHit
<1>4. PICK R : NmStandsFor(R)
  BY DEF NmResultsAreRight
<1>5. /\ nmConfig \in NmConfigs /\ t \in NmTasks
      /\ \A i \in 1..Len(nmConfig.of[t].dependencies) :
           <<nmCalls[p].run, nmConfig.of[t].dependencies[i]>> \in nmCompleted
      /\ \A i \in 1..Len(nmConfig.of[t].dependencies) :
           <<NmKeysOf(nmConfig, nmVersion, nmOutput)[nmConfig.of[t].dependencies[i]],
             nmOutput[nmConfig.of[t].dependencies[i]]>> \in R
  BY <1>0, <1>4, DependenciesStandFor
<1>6. ASSUME NEW e \in NmFound(p)
      PROVE  <<NmKeys[t], e.made>> \in R /\ e.made = NmMakes(t)
  <2>1. <<NmKeys[t], e.made>> \in R
    BY <1>4 DEF NmFound, NmStandsFor
  <2>2. <<NmKeysOf(nmConfig, nmVersion, nmOutput)[t], e.made>> \in R
    BY <2>1 DEF NmKeys
  <2>3. NmPairsAreRight(nmConfig, R)
    BY <1>4 DEF NmStandsFor
  <2>. HIDE DEF t
  <2>4. e.made = NmMakesOf(nmConfig, nmVersion, nmOutput, t)
    BY <1>5, <2>2, <2>3, KeyStandsForNothingElse
  <2>. QED
    BY <2>1, <2>4 DEF NmMakes
<1>7. PICK e \in NmFound(p) : nmOutput' = [nmOutput EXCEPT ![t] = e.made]
  BY DEF NmHit
<1>8. NmActive # {}
  BY <1>0 DEF NmActive, NmEnded
<1>9. ASSUME NEW x \in nmCompleted, x[2] = t
      PROVE  e.made = nmOutput[t]
  <2>1. <<NmKeys[x[2]], nmOutput[x[2]]>> \in R
    BY <1>4, <1>8 DEF NmStandsFor
  <2>2. <<NmKeys[t], nmOutput[t]>> \in R /\ <<NmKeys[t], e.made>> \in R
    BY <1>6, <1>9, <2>1
  <2>3. NmPairsAreRight(nmConfig, R)
    BY <1>4 DEF NmStandsFor
  <2>. HIDE DEF t
  <2>. QED
    BY <1>5, <2>2, <2>3, KeysStandForOne
<1>10. /\ nmOutput'[t] = e.made
       /\ \A s \in NmTasks : s # t => nmOutput'[s] = nmOutput[s]
  <2>. HIDE DEF t
  <2>. QED
    BY <1>3, <1>5, <1>7, OutputsStayTyped, <1>2 DEF NmTreeHolds
<1>11. /\ \A x \in nmCompleted :
            nmOutput'[x[2]] = nmOutput[x[2]] /\ NmKeys'[x[2]] = NmKeys[x[2]]
       /\ \A run : \A s \in NmTasks :
            (\A i \in 1..Len(nmConfig.of[s].dependencies) :
                <<run, nmConfig.of[s].dependencies[i]>> \in nmCompleted) =>
            NmKeys'[s] = NmKeys[s] /\ NmMakes(s)' = NmMakes(s)
  <2>. HIDE DEF t
  <2>. QED
    BY <1>2, <1>3, <1>5, <1>7, <1>9, KeysStayBelow
<1>12. NmKeys'[t] = NmKeys[t]
  <2>. HIDE DEF t
  <2>. QED
    BY <1>5, <1>11
<1>13. NmNothingIsMade'
  <2>1. ~NmHasCommand(nmConfig, t) => e.made = NmNothing
    <3>. HIDE DEF t
    <3>. QED
      BY <1>6 DEF NmMakes, NmMakesOf
  <2>. HIDE DEF t
  <2>. QED
    BY <1>2, <1>3, <1>10, <2>1 DEF NmNothingIsMade, NmResultsAreRight
<1>14. NmStandsFor(R)'
  <2>1. ASSUME NEW x \in nmCompleted'
        PROVE  <<NmKeys'[x[2]], nmOutput'[x[2]]>> \in R
    <3>1. CASE x \in nmCompleted
      <4>1. <<NmKeys[x[2]], nmOutput[x[2]]>> \in R
        BY <1>4, <1>8, <3>1 DEF NmStandsFor
      <4>. QED
        BY <1>11, <3>1, <4>1
    <3>2. CASE x = NmStateOf(p)
      <4>1. x[2] = t
        BY <3>2 DEF NmStateOf
      <4>. HIDE DEF t
      <4>. QED
        BY <1>6, <1>10, <1>12, <4>1
    <3>. QED
      BY <1>2, <3>1, <3>2
  <2>. QED
    BY <1>2, <1>4, <2>1 DEF NmStandsFor
<1>15. ASSUME NEW q \in DOMAIN nmCalls', nmCalls'[q].at \in {"steps", "store"}
       PROVE  /\ q \in DOMAIN nmCalls /\ q # p /\ nmCalls'[q] = nmCalls[q]
              /\ NmDef(q)' = NmDef(q) /\ nmCalls[q].task \in NmTasks
              /\ NmKeys'[nmCalls[q].task] = NmKeys[nmCalls[q].task]
              /\ NmMakes(nmCalls[q].task)' = NmMakes(nmCalls[q].task)
  <2>1. q # p
    BY <1>3, <1>15
  <2>2. q \in DOMAIN nmCalls /\ nmCalls'[q] = nmCalls[q] /\ NmDef(q)' = NmDef(q)
    BY <1>1, <2>1, MovesLeaveTheRest
  <2>3. /\ nmCalls[q].task \in NmTasks
        /\ \A i \in 1..Len(nmConfig.of[nmCalls[q].task].dependencies) :
             <<nmCalls[q].run, nmConfig.of[nmCalls[q].task].dependencies[i]>> \in nmCompleted
    <3>1. NmAt(q) \in {"cache", "steps", "store"}
      BY <1>15, <2>2 DEF NmAt
    <3>. QED
      BY <1>4, <2>2, <3>1, DependenciesStandFor
  <2>. QED
    BY <1>11, <2>1, <2>2, <2>3
<1>16. NmKeysAreKept'
  <2>1. ASSUME NEW q \in DOMAIN nmCalls', NmAt(q)' \in {"steps", "store"}, NmDef(q)'.cached
        PROVE  nmCalls'[q].key = NmKeys'[nmCalls'[q].task]
    <3>1. nmCalls'[q].at \in {"steps", "store"}
      BY <2>1 DEF NmAt
    <3>2. /\ q \in DOMAIN nmCalls /\ nmCalls'[q] = nmCalls[q] /\ NmDef(q)' = NmDef(q)
          /\ NmKeys'[nmCalls[q].task] = NmKeys[nmCalls[q].task]
      BY <1>15, <3>1
    <3>3. nmCalls[q].key = NmKeys[nmCalls[q].task]
      BY <2>1, <3>2, <3>1 DEF NmResultsAreRight, NmKeysAreKept, NmAt
    <3>. QED
      BY <3>2, <3>3
  <2>. QED
    BY <2>1 DEF NmKeysAreKept
<1>17. NmCommandsMake'
  <2>1. ASSUME NEW q \in DOMAIN nmCalls', NmHasMade(q)'
        PROVE  nmOutput'[nmCalls'[q].task] = NmMakes(nmCalls[q].task)'
    <3>1. nmCalls'[q].at \in {"steps", "store"}
      BY <2>1 DEF NmHasMade, NmAt
    <3>2. /\ q \in DOMAIN nmCalls /\ nmCalls'[q] = nmCalls[q] /\ nmCalls[q].task \in NmTasks
          /\ NmMakes(nmCalls[q].task)' = NmMakes(nmCalls[q].task)
      BY <1>15, <3>1
    <3>3. NmHasMade(q)
      <4>1. NmAt(p) # "process"
        BY <1>0
      <4>. QED
        BY <1>0, <2>1, <3>2, <4>1, MadeBeforeMoves
    <3>4. nmOutput[nmCalls[q].task] = NmMakes(nmCalls[q].task)
      BY <3>2, <3>3 DEF NmResultsAreRight, NmCommandsMake
    <3>5. nmOutput'[nmCalls[q].task] = NmMakes(nmCalls[q].task)
      <4>1. CASE nmCalls[q].task = t
        BY <1>6, <1>10, <4>1
      <4>2. CASE nmCalls[q].task # t
        <5>. HIDE DEF t
        <5>. QED
          BY <1>10, <3>2, <3>4, <4>2
      <4>. QED
        BY <4>1, <4>2
    <3>. QED
      BY <3>2, <3>5
  <2>. QED
    BY <2>1 DEF NmCommandsMake
<1>18. \E S : NmStandsFor(S)'
  BY <1>14
<1>. QED
  BY <1>6, <1>13, <1>16, <1>17, <1>18 DEF NmResultsAreRight

(* What is kept by the moves that change no output. *)
LEMMA ResultsOfMoves ==
    ASSUME NmIInv, NmTreeHolds, NmResultsAreRight, NEW p \in DOMAIN nmCalls, NmMovesOn(p),
           NmAt(p) # "process", UNCHANGED <<nmConfig, nmRuns, nmVersion, nmOutput>>
    PROVE  NmNothingIsMade' /\ NmKeysAreKept' /\ NmCommandsMake'
<1>1. NmMoves(p)
  BY StepsMove DEF NmMovesOn, NmIInv
<1>2. DOMAIN nmCalls' = DOMAIN nmCalls
      /\ \A q \in DOMAIN nmCalls : nmCalls'[q].task = nmCalls[q].task /\ NmDef(q)' = NmDef(q)
  BY <1>1, MovesLeaveTheRest
<1>3. NmKeys' = NmKeys
  BY DEF NmKeys
<1>4. NmNothingIsMade'
  BY DEF NmResultsAreRight, NmNothingIsMade
<1>5. NmKeysAreKept'
  <2>1. ASSUME NEW q \in DOMAIN nmCalls', NmAt(q)' \in {"steps", "store"}, NmDef(q)'.cached
        PROVE  nmCalls'[q].key = NmKeys'[nmCalls'[q].task]
    <3>1. nmCalls'[q].at \in {"steps", "store"} /\ q \in DOMAIN nmCalls /\ NmDef(q).cached
      BY <1>2, <2>1 DEF NmAt
    <3>2. nmCalls'[q].key = NmKeys[nmCalls[q].task]
      BY <3>1, KeysOfMoves DEF NmResultsAreRight
    <3>. QED
      BY <1>2, <1>3, <3>1, <3>2
  <2>. QED
    BY <2>1 DEF NmKeysAreKept
<1>6. ASSUME NEW q \in DOMAIN nmCalls', NmHasMade(q)'
      PROVE  nmOutput'[nmCalls'[q].task] = NmMakes(nmCalls[q].task)'
  <2>1. q \in DOMAIN nmCalls /\ nmCalls'[q].task = nmCalls[q].task
    BY <1>2
  <2>2. NmHasMade(q)
    BY <1>6, <2>1, MadeBeforeMoves
  <2>3. nmOutput[nmCalls[q].task] = NmMakes(nmCalls[q].task)
    BY <2>1, <2>2 DEF NmResultsAreRight, NmCommandsMake
  <2>. QED
    BY <2>1, <2>3 DEF NmMakes
<1>7. NmCommandsMake'
  BY <1>6 DEF NmCommandsMake
<1>. QED
  BY <1>4, <1>5, <1>7

(* A task that completes by its steps has as its output what it makes. *)
LEMMA ResultsStayWithDoneSteps ==
    ASSUME NmIInv, NmTreeHolds, NmResultsAreRight, NEW p \in DOMAIN nmCalls, NmStepsDone(p)
    PROVE  NmResultsAreRight'
<1>. DEFINE t == nmCalls[p].task
            Q(R) == R \cup {<<NmKeysOf(nmConfig, nmVersion, nmOutput)[t],
                              NmMakesOf(nmConfig, nmVersion, nmOutput, t)>>}
<1>0. NmMovesOn(p) /\ NmAt(p) = "steps"
  BY DEF NmMovesOn, NmStepsDone
<1>1. NmMoves(p)
  BY <1>0, StepsMove DEF NmMovesOn, NmIInv
<1>2. /\ UNCHANGED <<nmConfig, nmRuns, nmVersion, nmEntries, nmOutput>>
      /\ nmCompleted' = nmCompleted \cup {NmStateOf(p)}
  BY DEF NmStepsDone, NmSame, NmSameCache
<1>3. NmActive # {} /\ nmRuns # 0
  BY <1>0, <1>1, MovesLeaveTheRest DEF NmActive, NmEnded
<1>4. PICK R : NmStandsFor(R)
  BY DEF NmResultsAreRight
<1>5. /\ nmConfig \in NmConfigs /\ t \in NmTasks
      /\ \A i \in 1..Len(nmConfig.of[t].dependencies) :
           <<NmKeysOf(nmConfig, nmVersion, nmOutput)[nmConfig.of[t].dependencies[i]],
             nmOutput[nmConfig.of[t].dependencies[i]]>> \in R
  BY <1>0, <1>4, DependenciesStandFor
<1>6. nmOutput[t] = NmMakes(t)
  <2>1. CASE ~NmHasCommand(nmConfig, t)
    <3>1. nmOutput[t] = NmNothing
      BY <1>3, <1>5, <2>1 DEF NmResultsAreRight, NmNothingIsMade
    <3>. QED
      BY <2>1, <3>1 DEF NmMakes, NmMakesOf
  <2>2. CASE NmHasCommand(nmConfig, t)
    <3>1. PICK k \in 1..Len(nmConfig.of[t].steps) : NmIsCommand(nmConfig, nmConfig.of[t].steps[k])
      BY <2>2 DEF NmHasCommand
    <3>2. /\ NmLastDependency(p) \in Nat /\ NmLast(p) \in Nat
          /\ NmLast(p) = NmLastDependency(p) + Len(nmConfig.of[t].steps)
          /\ Len(nmConfig.of[t].steps) \in Nat
      <4>1. Len(nmConfig.of[t].steps) \in Nat
        BY <1>5, NmAssumption DEF NmIsConfig
      <4>. QED
        BY <4>1, ReferencesAreTasks DEF NmIInv, NmLast, NmDef
    <3>. DEFINE i == NmLastDependency(p) + k
    <3>3. i \in 1..NmLast(p) /\ i > NmLastDependency(p) /\ i - NmLastDependency(p) = k
      BY <3>1, <3>2
    <3>4. NmIsCommandOf(p, i)
      <4>. HIDE DEF i
      <4>. QED
        BY <3>1, <3>3 DEF NmIsCommandOf, NmDef
    <3>5. \A j \in 1..NmLast(p) : NmChildAt(p, j) = "ok"
      BY DEF NmStepsDone
    <3>6. NmHasMade(p)
      <4>. HIDE DEF i
      <4>. QED
        BY <1>0, <3>3, <3>4, <3>5 DEF NmHasMade
    <3>. QED
      BY <3>6 DEF NmResultsAreRight, NmCommandsMake
  <2>. QED
    BY <2>1, <2>2
<1>7. PICK S : S = Q(R)
  OBVIOUS
<1>8. NmPairsAreRight(nmConfig, S) /\ R \subseteq S
  <2>1. NmPairsAreRight(nmConfig, R)
    BY <1>4 DEF NmStandsFor
  <2>2. R \subseteq S
    BY <1>7
  <2>. HIDE DEF t
  <2>. QED
    BY <1>5, <1>7, <2>1, <2>2, KeyStandsForMade
<1>9. NmKeys' = NmKeys /\ <<NmKeys[t], nmOutput[t]>> \in S
  BY <1>2, <1>6, <1>7 DEF NmKeys, NmMakes
<1>10. NmStandsFor(S)'
  <2>1. ASSUME NEW x \in nmCompleted'
        PROVE  <<NmKeys'[x[2]], nmOutput'[x[2]]>> \in S
    <3>1. CASE x \in nmCompleted
      <4>1. <<NmKeys[x[2]], nmOutput[x[2]]>> \in R
        BY <1>3, <1>4, <3>1 DEF NmStandsFor
      <4>. QED
        BY <1>2, <1>8, <1>9, <4>1
    <3>2. CASE x = NmStateOf(p)
      <4>1. x[2] = t
        BY <3>2 DEF NmStateOf
      <4>. HIDE DEF t, Q
      <4>. QED
        BY <1>2, <1>9, <4>1
    <3>. QED
      BY <1>2, <3>1, <3>2
  <2>2. \A e \in nmEntries' : <<e.key, e.made>> \in S
    BY <1>2, <1>4, <1>8 DEF NmStandsFor
  <2>. QED
    BY <1>2, <1>8, <2>1, <2>2 DEF NmStandsFor
<1>11. NmAt(p) # "process"
  BY <1>0
<1>12. NmNothingIsMade' /\ NmKeysAreKept' /\ NmCommandsMake'
  BY <1>0, <1>2, <1>11, ResultsOfMoves
<1>. QED
  BY <1>10, <1>12 DEF NmResultsAreRight

(* What is stored is what the key stands for that the call holds. *)
LEMMA ResultsStayWithStores ==
    ASSUME NmIInv, NmTreeHolds, NmResultsAreRight, NEW p \in DOMAIN nmCalls, NmStore(p)
    PROVE  NmResultsAreRight'
<1>. DEFINE t == nmCalls[p].task
<1>0. NmMovesOn(p) /\ NmAt(p) = "store"
  BY DEF NmMovesOn, NmStore
<1>1. UNCHANGED <<nmConfig, nmRuns, nmVersion, nmOutput, nmCompleted>>
  BY DEF NmStore, NmSame
<1>2. NmActive # {}
  BY <1>0 DEF NmActive, NmEnded
<1>3. PICK R : NmStandsFor(R)
  BY DEF NmResultsAreRight
<1>4. NmKeys' = NmKeys
  BY <1>1 DEF NmKeys
<1>5. <<nmCalls[p].key, nmOutput[t]>> \in R
  <2>. DEFINE x == NmStateOf(p)
  <2>1. x \in nmCompleted /\ x[2] = t
    BY <1>0 DEF NmIInv, NmWorkIsNew, NmStateOf
  <2>2. <<NmKeys[x[2]], nmOutput[x[2]]>> \in R
    <3>. HIDE DEF x, t
    <3>. QED
      BY <1>2, <1>3, <2>1 DEF NmStandsFor
  <2>3. nmCalls[p].key = NmKeys[t]
    BY <1>0 DEF NmTreeHolds, NmCachedAreStored, NmResultsAreRight, NmKeysAreKept
  <2>. HIDE DEF x, t
  <2>. QED
    BY <2>1, <2>2, <2>3
<1>6. \A e \in nmEntries' : <<e.key, e.made>> \in R
  <2>. DEFINE new == [key |-> nmCalls[p].key, made |-> nmOutput[t]]
  <2>1. nmEntries' = nmEntries \/ nmEntries' = {e \in nmEntries : e.key # nmCalls[p].key} \cup {new}
    BY DEF NmStore
  <2>2. <<new.key, new.made>> \in R
    BY <1>5
  <2>3. \A e \in nmEntries : <<e.key, e.made>> \in R
    BY <1>3 DEF NmStandsFor
  <2>. HIDE DEF new
  <2>. QED
    BY <2>1, <2>2, <2>3
<1>7. NmStandsFor(R)'
  BY <1>1, <1>2, <1>3, <1>4, <1>6 DEF NmStandsFor
<1>8. NmAt(p) # "process"
  BY <1>0
<1>9. NmNothingIsMade' /\ NmKeysAreKept' /\ NmCommandsMake'
  BY <1>0, <1>1, <1>8, ResultsOfMoves
<1>. QED
  BY <1>7, <1>9 DEF NmResultsAreRight

(* A command writes the output of a task that nobody else works on or has completed. *)
LEMMA ResultsStayWithCommands ==
    ASSUME NmIInv, NmTreeHolds, NmResultsAreRight, NEW p \in DOMAIN nmCalls, NmProcess(p),
           ~NmWorkedOnElsewhere(p)
    PROVE  NmResultsAreRight'
<1>0. NmMovesOn(p) /\ NmAt(p) = "process"
  BY DEF NmMovesOn, NmProcess
<1>1. NmMoves(p)
  BY <1>0, StepsMove DEF NmMovesOn, NmIInv
<1>2. UNCHANGED <<nmConfig, nmRuns, nmVersion, nmEntries, nmCompleted>>
  BY <1>1, MovesLeaveTheRest DEF NmProcess
<1>3. NmActive # {} /\ nmRuns # 0
  BY <1>0, <1>1, MovesLeaveTheRest DEF NmActive, NmEnded
<1>4. PICK R : NmStandsFor(R)
  BY DEF NmResultsAreRight
<1>5. PICK r \in DOMAIN nmCalls : \E i \in 1..NmLast(r) :
         /\ p = NmChild(r, i) /\ NmIsCommandOf(r, i) /\ NmAt(r) = "steps"
         /\ nmCalls[p].task = nmCalls[r].task
         /\ SubSeq(p, 1, Len(p) - 1) = r /\ r \in Seq(Nat) /\ i \in Nat
  BY <1>0, CommandsHaveCallers
<1>6. PICK i \in 1..NmLast(r) :
         /\ p = NmChild(r, i) /\ NmIsCommandOf(r, i) /\ NmAt(r) = "steps"
         /\ nmCalls[p].task = nmCalls[r].task
         /\ SubSeq(p, 1, Len(p) - 1) = r /\ r \in Seq(Nat) /\ i \in Nat
  BY <1>5
<1>7. PICK t \in NmTasks : t = nmCalls[p].task
  BY DEF NmIInv, NmCallsAreTyped
<1>8. ASSUME NEW q \in DOMAIN nmCalls, nmCalls[q].task = t,
             NmAt(q) \in NmHolding \/ NmStateOf(q) \in nmCompleted
      PROVE  q = r
  <2>1. nmCalls[q].run = nmCalls[r].run
    BY <1>6, <1>7, <1>8 DEF NmWorkedOnElsewhere
  <2>2. NmStateOf(q) = NmStateOf(r)
    BY <1>6, <1>7, <1>8, <2>1 DEF NmStateOf
  <2>3. NmStateOf(r) \notin nmCompleted
    BY <1>6 DEF NmIInv, NmWorkIsNew
  <2>4. NmAt(q) \in NmHolding /\ NmAt(r) \in NmHolding
    BY <1>6, <1>8, <2>2, <2>3 DEF NmHolding
  <2>. QED
    BY <2>2, <2>4 DEF NmIInv, NmLocksExclude
<1>9. \A x \in nmCompleted : x[2] # t
  <2>1. ASSUME NEW x \in nmCompleted, x[2] = t
        PROVE  FALSE
    <3>1. PICK q \in DOMAIN nmCalls : NmStateOf(q) = x
      BY DEF NmTreeHolds, NmCompletedAreCalls
    <3>2. nmCalls[q].task = t
      BY <2>1, <3>1 DEF NmStateOf
    <3>3. q = r
      BY <1>8, <3>1, <3>2
    <3>4. NmStateOf(r) \notin nmCompleted
      BY <1>6 DEF NmIInv, NmWorkIsNew
    <3>. QED
      BY <3>1, <3>3, <3>4
  <2>. QED
    BY <2>1
<1>10. PICK m : nmOutput' = [nmOutput EXCEPT ![t] = m]
  BY <1>7 DEF NmProcess
<1>11. /\ nmOutput'[t] = m
       /\ \A s \in NmTasks : s # t => nmOutput'[s] = nmOutput[s]
  BY <1>2, <1>3, <1>10, OutputsStayTyped DEF NmTreeHolds
<1>12. /\ \A x \in nmCompleted :
            nmOutput'[x[2]] = nmOutput[x[2]] /\ NmKeys'[x[2]] = NmKeys[x[2]]
       /\ \A run : \A s \in NmTasks :
            (\A k \in 1..Len(nmConfig.of[s].dependencies) :
                <<run, nmConfig.of[s].dependencies[k]>> \in nmCompleted) =>
            NmKeys'[s] = NmKeys[s] /\ NmMakes(s)' = NmMakes(s)
  BY <1>2, <1>3, <1>9, <1>10, KeysStayBelow
<1>13. NmHasCommand(nmConfig, t)
  <2>1. i - NmLastDependency(r) \in 1..Len(nmConfig.of[t].steps)
    <3>1. Len(nmConfig.of[t].steps) \in Nat
      BY NmAssumption DEF NmIInv, NmCallsAreTyped, NmIsConfig
    <3>2. NmLast(r) = NmLastDependency(r) + Len(nmConfig.of[t].steps)
      BY <1>6, <1>7 DEF NmLast, NmDef
    <3>3. NmLastDependency(r) \in Nat /\ NmLast(r) \in Nat
      BY ReferencesAreTasks DEF NmIInv
    <3>4. i > NmLastDependency(r)
      BY <1>6 DEF NmIsCommandOf
    <3>. QED
      BY <1>6, <3>1, <3>2, <3>3, <3>4
  <2>2. NmIsCommand(nmConfig, nmConfig.of[t].steps[i - NmLastDependency(r)])
    BY <1>6, <1>7 DEF NmIsCommandOf, NmDef
  <2>. QED
    BY <2>1, <2>2 DEF NmHasCommand
<1>14. NmNothingIsMade'
  BY <1>2, <1>3, <1>11, <1>13 DEF NmNothingIsMade, NmResultsAreRight
<1>15. NmStandsFor(R)'
  BY <1>2, <1>3, <1>4, <1>12 DEF NmStandsFor
<1>16. ASSUME NEW q \in DOMAIN nmCalls', nmCalls'[q].at \in {"steps", "store"}
       PROVE  /\ q \in DOMAIN nmCalls /\ q # p /\ nmCalls'[q] = nmCalls[q]
              /\ NmDef(q)' = NmDef(q) /\ nmCalls[q].task \in NmTasks
              /\ NmKeys'[nmCalls[q].task] = NmKeys[nmCalls[q].task]
              /\ NmMakes(nmCalls[q].task)' = NmMakes(nmCalls[q].task)
  <2>1. q # p
    <3>1. nmCalls'[p].at \in {"ok", "error"}
      BY MovesKeepKeys DEF NmProcess
    <3>. QED
      BY <1>16, <3>1
  <2>2. q \in DOMAIN nmCalls /\ nmCalls'[q] = nmCalls[q] /\ NmDef(q)' = NmDef(q)
    BY <1>1, <2>1, MovesLeaveTheRest
  <2>3. /\ nmCalls[q].task \in NmTasks
        /\ \A k \in 1..Len(nmConfig.of[nmCalls[q].task].dependencies) :
             <<nmCalls[q].run, nmConfig.of[nmCalls[q].task].dependencies[k]>> \in nmCompleted
    <3>1. NmAt(q) \in {"cache", "steps", "store"}
      BY <1>16, <2>2 DEF NmAt
    <3>. QED
      BY <1>4, <2>2, <3>1, DependenciesStandFor
  <2>. QED
    BY <1>12, <2>1, <2>2, <2>3
<1>17. NmKeysAreKept'
  <2>1. ASSUME NEW q \in DOMAIN nmCalls', NmAt(q)' \in {"steps", "store"}, NmDef(q)'.cached
        PROVE  nmCalls'[q].key = NmKeys'[nmCalls'[q].task]
    <3>1. nmCalls'[q].at \in {"steps", "store"}
      BY <2>1 DEF NmAt
    <3>2. /\ q \in DOMAIN nmCalls /\ nmCalls'[q] = nmCalls[q] /\ NmDef(q)' = NmDef(q)
          /\ NmKeys'[nmCalls[q].task] = NmKeys[nmCalls[q].task]
      BY <1>16, <3>1
    <3>3. nmCalls[q].key = NmKeys[nmCalls[q].task]
      BY <2>1, <3>2, <3>1 DEF NmResultsAreRight, NmKeysAreKept, NmAt
    <3>. QED
      BY <3>2, <3>3
  <2>. QED
    BY <2>1 DEF NmKeysAreKept
<1>18. ASSUME NEW q \in DOMAIN nmCalls', NmHasMade(q)'
       PROVE  nmOutput'[nmCalls'[q].task] = NmMakes(nmCalls[q].task)'
  <2>1. nmCalls'[q].at \in {"steps", "store"}
    BY <1>18 DEF NmHasMade, NmAt
  <2>2. /\ q \in DOMAIN nmCalls /\ nmCalls'[q] = nmCalls[q] /\ nmCalls[q].task \in NmTasks
        /\ NmMakes(nmCalls[q].task)' = NmMakes(nmCalls[q].task)
    BY <1>16, <2>1
  <2>3. nmOutput'[nmCalls[q].task] = NmMakes(nmCalls[q].task)
    <3>1. CASE q = r
      <4>1. nmCalls'[p].at # "error"
        <5>1. DOMAIN nmCalls' = DOMAIN nmCalls /\ NmLast(r)' = NmLast(r)
              /\ NmLastDependency(r)' = NmLastDependency(r) /\ NmDef(r)' = NmDef(r)
          BY <1>1, MovesLeaveTheRest
        <5>2. NmIsCommandOf(r, i)' <=> NmIsCommandOf(r, i)
          BY <1>2, <5>1 DEF NmIsCommandOf
        <5>3. NmChildAt(r, i)' # "error"
          BY <1>6, <1>18, <3>1, <5>1, <5>2 DEF NmHasMade
        <5>4. NmChildAt(r, i)' = nmCalls'[p].at
          BY <1>6, <5>1 DEF NmChildAt, NmHas, NmAt, NmChild
        <5>. QED
          BY <5>3, <5>4
      <4>2. nmCalls' # NmMove(p, "error")
        BY <4>1, MovesKeepKeys
      <4>3. nmOutput' = [nmOutput EXCEPT ![t] = NmMakes(t)]
        BY <1>7, <4>2 DEF NmProcess
      <4>4. nmOutput'[t] = NmMakes(t)
        BY <1>2, <1>3, <4>3, OutputsStayTyped DEF NmTreeHolds
      <4>. QED
        BY <1>6, <1>7, <3>1, <4>4
    <3>2. CASE q # r
      <4>1. NmAt(q) \in NmHolding
        BY <2>1, <2>2 DEF NmAt, NmHolding
      <4>2. nmCalls[q].task # t
        BY <1>8, <2>2, <3>2, <4>1
      <4>3. ASSUME NEW k \in 1..NmLast(q)
            PROVE  NmChild(q, k) # p
        <5>1. q \in Seq(Nat) /\ k \in Nat
          BY <2>2, ReferencesAreTasks DEF NmIInv
        <5>. QED
          BY <1>6, <3>2, <5>1, ChildPaths
      <4>4. NmHasMade(q)
        BY <1>0, <1>18, <2>2, <4>3, MadeBeforeMoves
      <4>5. nmOutput[nmCalls[q].task] = NmMakes(nmCalls[q].task)
        BY <2>2, <4>4 DEF NmResultsAreRight, NmCommandsMake
      <4>. QED
        BY <1>11, <2>2, <4>2, <4>5
    <3>. QED
      BY <3>1, <3>2
  <2>. QED
    BY <2>2, <2>3
<1>19. NmCommandsMake'
  BY <1>18 DEF NmCommandsMake
<1>. QED
  BY <1>14, <1>15, <1>17, <1>19 DEF NmResultsAreRight

(* A new invocation has completed nothing; the first has no entries either. *)
LEMMA ResultsStayWithInvocations ==
    ASSUME NmIInv, NmTreeHolds, NmResultsAreRight, NmInvoke
    PROVE  NmResultsAreRight'
<1>1. /\ DOMAIN nmCalls' = {<<>>} /\ nmCalls'[<<>>].at = "enter" /\ nmCompleted' = {}
      /\ nmRuns' # 0
  BY TreeBeginsAnew
<1>2. UNCHANGED <<nmVersion, nmOutput, nmEntries>>
  BY DEF NmInvoke
<1>3. NmKeysAreKept' /\ NmCommandsMake'
  BY <1>1 DEF NmKeysAreKept, NmCommandsMake, NmHasMade, NmAt
<1>4. CASE nmRuns = 0
  <2>1. NmNothingIsMade'
    BY <1>2, <1>4 DEF NmTreeHolds, NmOutputsAreTyped, NmNothingIsMade
  <2>2. NmStandsFor({})'
    BY <1>1, <1>2, <1>4 DEF NmTreeHolds, NmOutputsAreTyped, NmStandsFor, NmPairsAreRight
  <2>. QED
    BY <1>3, <2>1, <2>2 DEF NmResultsAreRight
<1>5. CASE nmRuns # 0
  <2>1. nmConfig' = nmConfig
    BY <1>5 DEF NmInvoke
  <2>2. NmNothingIsMade'
    BY <1>2, <1>5, <2>1 DEF NmResultsAreRight, NmNothingIsMade
  <2>3. PICK R : NmStandsFor(R)
    BY DEF NmResultsAreRight
  <2>4. NmStandsFor(R)'
    BY <1>1, <1>2, <2>1, <2>3 DEF NmStandsFor
  <2>. QED
    BY <1>3, <2>2, <2>4 DEF NmResultsAreRight
<1>. QED
  BY <1>4, <1>5

(* An input that changes between invocations changes keys that nobody holds. *)
LEMMA ResultsStayWithEdits ==
    ASSUME NmResultsAreRight, NmActive = {},
           UNCHANGED <<nmConfig, nmRuns, nmCalls, nmOutput, nmEntries>>
    PROVE  NmResultsAreRight'
<1>1. \A p \in DOMAIN nmCalls : NmAt(p) \in NmEnded /\ NmAt(p)' = NmAt(p)
  BY DEF NmActive, NmAt
<1>2. NmKeysAreKept' /\ NmCommandsMake'
  BY <1>1 DEF NmKeysAreKept, NmCommandsMake, NmHasMade, NmEnded
<1>3. NmNothingIsMade'
  BY DEF NmResultsAreRight, NmNothingIsMade
<1>4. PICK R : NmStandsFor(R)
  BY DEF NmResultsAreRight
<1>5. NmActive' = {}
  BY <1>1 DEF NmActive
<1>6. NmStandsFor(R)'
  BY <1>4, <1>5 DEF NmStandsFor
<1>. QED
  BY <1>2, <1>3, <1>6 DEF NmResultsAreRight

LEMMA HitsBegin == NmInit => NmHitsIInv
<1>. SUFFICES ASSUME NmInit
              PROVE  NmHitsIInv
  OBVIOUS
<1>1. NmStandsFor({})
  BY DEF NmInit, NmStandsFor, NmPairsAreRight
<1>2. NmResultsAreRight
  BY <1>1 DEF NmInit, NmResultsAreRight, NmNothingIsMade, NmKeysAreKept, NmCommandsMake
<1>. QED
  BY <1>2, CallsBegin, TreeBegins DEF NmInit, NmHitsIInv

LEMMA HitsGoOn == NmHitsIInv /\ [NmNext]_nmVars => NmHitsIInv'
<1>. SUFFICES ASSUME NmHitsIInv, [NmNext]_nmVars
              PROVE  NmHitsIInv'
  OBVIOUS
<1>0. NmIInv /\ NmTreeHolds /\ (~nmRaced => NmResultsAreRight) /\ nmStale = {} /\ NmIInv'
  BY CallsGoOn DEF NmHitsIInv
<1>1. CASE NmInvoke
  <2>1. nmRaced' = nmRaced /\ nmStale' = nmStale
    BY <1>1 DEF NmInvoke
  <2>. QED
    BY <1>0, <1>1, <2>1, TreeBeginsAnew, ResultsStayWithInvocations DEF NmHitsIInv
<1>2. ASSUME NEW t \in NmTasks, NmEdit(t)
      PROVE  NmHitsIInv'
  <2>1. /\ nmStale' = nmStale /\ (nmRaced' <=> nmRaced \/ NmActive # {})
        /\ UNCHANGED <<nmConfig, nmRuns, nmCalls, nmCompleted, nmOutput, nmEntries>>
    BY <1>2 DEF NmEdit
  <2>2. NmTreeHolds'
    BY <1>0, <2>1, TreeStays
  <2>3. ~nmRaced' => NmResultsAreRight'
    BY <1>0, <2>1, ResultsStayWithEdits
  <2>. QED
    BY <1>0, <2>1, <2>2, <2>3 DEF NmHitsIInv
<1>3. ASSUME NEW p \in DOMAIN nmCalls, NEW i \in 1..NmLast(p), NmStart(p, i)
      PROVE  NmHitsIInv'
  <2>1. nmRaced' = nmRaced /\ nmStale' = nmStale
    BY <1>3 DEF NmStart, NmSame, NmSameCache
  <2>. QED
    BY <1>0, <1>3, <2>1, TreeStaysWithStarts, ResultsStayWithStarts DEF NmHitsIInv
<1>4. ASSUME NEW p \in DOMAIN nmCalls, NmMovesOn(p)
      PROVE  NmHitsIInv'
  <2>1. NmTreeHolds'
    BY <1>0, <1>4, TreeStaysWithMoves
  <2>2. CASE NmEnter(p) \/ NmLock(p) \/ NmFail(p) \/ NmDependenciesDone(p) \/ NmMiss(p)
    <3>1. nmRaced' = nmRaced /\ nmStale' = nmStale
      BY <2>2 DEF NmEnter, NmLock, NmFail, NmDependenciesDone, NmMiss, NmSame, NmSameCache
    <3>2. ~nmRaced => NmResultsAreRight'
      BY <1>0, <2>2, ResultsStayWithQuietMoves
    <3>. QED
      BY <1>0, <2>1, <3>1, <3>2 DEF NmHitsIInv
  <2>3. CASE NmHit(p)
    <3>1. nmRaced' = nmRaced
      BY <2>3 DEF NmHit, NmSame
    <3>2. ~nmRaced => /\ NmResultsAreRight'
                      /\ \A e \in NmFound(p) : e.made = NmMakes(nmCalls[p].task)
      BY <1>0, <2>3, ResultsStayWithHits
    <3>3. nmStale' = nmStale
      BY <2>3, <3>2 DEF NmHit
    <3>. QED
      BY <1>0, <2>1, <3>1, <3>2, <3>3 DEF NmHitsIInv
  <2>4. CASE NmStepsDone(p)
    <3>1. nmRaced' = nmRaced /\ nmStale' = nmStale
      BY <2>4 DEF NmStepsDone, NmSame, NmSameCache
    <3>2. ~nmRaced => NmResultsAreRight'
      BY <1>0, <2>4, ResultsStayWithDoneSteps
    <3>. QED
      BY <1>0, <2>1, <3>1, <3>2 DEF NmHitsIInv
  <2>5. CASE NmStore(p)
    <3>1. nmRaced' = nmRaced /\ nmStale' = nmStale
      BY <2>5 DEF NmStore, NmSame
    <3>2. ~nmRaced => NmResultsAreRight'
      BY <1>0, <2>5, ResultsStayWithStores
    <3>. QED
      BY <1>0, <2>1, <3>1, <3>2 DEF NmHitsIInv
  <2>6. CASE NmProcess(p)
    <3>1. (nmRaced' <=> nmRaced \/ NmWorkedOnElsewhere(p)) /\ nmStale' = nmStale
      BY <2>6 DEF NmProcess
    <3>2. ~nmRaced /\ ~NmWorkedOnElsewhere(p) => NmResultsAreRight'
      BY <1>0, <2>6, ResultsStayWithCommands
    <3>. QED
      BY <1>0, <2>1, <3>1, <3>2 DEF NmHitsIInv
  <2>. QED
    BY <1>4, <2>2, <2>3, <2>4, <2>5, <2>6 DEF NmMovesOn
<1>5. CASE UNCHANGED nmVars
  <2>1. UNCHANGED <<nmConfig, nmRuns, nmCalls, nmCompleted, nmVersion, nmOutput, nmEntries,
                    nmRaced, nmStale>>
    BY <1>5 DEF nmVars
  <2>2. NmTreeHolds'
    BY <1>0, <2>1, TreeStays
  <2>3. ASSUME NmResultsAreRight
        PROVE  NmResultsAreRight'
    <3>1. CASE NmActive = {}
      BY <2>1, <2>3, <3>1, ResultsStayWithEdits
    <3>2. CASE NmActive # {}
      <4>1. \A q \in DOMAIN nmCalls' :
              /\ NmAt(q)' \in {"steps", "store"} /\ NmDef(q)'.cached =>
                    nmCalls'[q].key = NmKeys[nmCalls'[q].task]
              /\ NmHasMade(q)' =>
                    q \in DOMAIN nmCalls /\ NmHasMade(q) /\ nmCalls'[q].task = nmCalls[q].task
        <5>1. \A q : /\ NmAt(q)' = NmAt(q) /\ NmDef(q)' = NmDef(q)
                     /\ NmHasMade(q)' <=> NmHasMade(q)
          BY <2>1 DEF NmAt, NmDef, NmHasMade, NmLast, NmLastDependency, NmIsCommandOf,
                      NmChildAt, NmHas, NmChild
        <5>. QED
          BY <2>1, <2>3, <5>1 DEF NmResultsAreRight, NmKeysAreKept
      <4>. QED
        BY <2>1, <2>3, <3>2, <4>1, ResultsStay
    <3>. QED
      BY <3>1, <3>2
  <2>. QED
    BY <1>0, <2>1, <2>2, <2>3 DEF NmHitsIInv
<1>. QED
  BY <1>1, <1>2, <1>3, <1>4, <1>5 DEF NmNext, NmStep, NmMovesOn

(* While no input changes under an invocation and no bound target runs a task beside
   another state, a hit restores what the commands would make now (execute_task). *)
THEOREM HitsAreFresh == NmSpec => []NmHitsAreFresh
<1>1. NmHitsIInv => NmHitsAreFresh
  BY DEF NmHitsIInv, NmHitsAreFresh
<1>. QED
  BY <1>1, HitsBegin, HitsGoOn, PTL DEF NmSpec
================================================================================
